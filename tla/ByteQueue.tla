----------------------------- MODULE ByteQueue -----------------------------
(***************************************************************************)
(* What rwbuf.h promises of a buffer: a queue of bytes in a memory block   *)
(* that grows up to max_size.  Where the bytes lie in the block is left to *)
(* RwBuf; SOCK and SERVER are modelled over this module.                   *)
(***************************************************************************)
EXTENDS Integers, Sequences

CONSTANTS
  Word,   \* size_t holds 0 .. Word - 1
  Align   \* blocks are multiples of this many bytes

ASSUME QueueConstants == Word \in Nat \ {0} /\ Align \in Nat \ {0}

\* struct rwbuf: the readable bytes, the size of the block, the limits
Queue(data, size, max_size, is_grow) ==
  [data |-> data, size |-> size, max_size |-> max_size, is_grow |-> is_grow]

Room(q) == q.size - Len(q.data)

ALIGN_UP(n) == (((n + Align - 1) % Word) \div Align) * Align

\* the size of the block that rwbuf_mkspace asks realloc for
GrowSize(size, used, need) ==
  LET want == (used + need) % Word
      twice == (2 * size) % Word
  IN  ALIGN_UP(IF twice < want THEN want ELSE twice)

\* the outcomes of reserving space for need bytes; realloc may fail
Reserve(q, need) ==
  LET size == GrowSize(q.size, Len(q.data), need)
  IN  IF Room(q) >= need THEN {[ok |-> TRUE, buf |-> q]}
      ELSE IF ~q.is_grow \/ (q.max_size # 0 /\ size > q.max_size)
        THEN {[ok |-> FALSE, buf |-> q]}
        ELSE {[ok |-> TRUE, buf |-> [q EXCEPT !.size = size]], [ok |-> FALSE, buf |-> q]}

Put(q, bytes) == [q EXCEPT !.data = @ \o bytes]

\* the outcomes of appending bytes
AppendTo(q, bytes) ==
  {IF r.ok THEN [r EXCEPT !.buf = Put(@, bytes)] ELSE r : r \in Reserve(q, Len(bytes))}

Drop(q, n) == [q EXCEPT !.data = SubSeq(@, n + 1, Len(@))]
=============================================================================
