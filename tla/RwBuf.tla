------------------------------- MODULE RwBuf -------------------------------
(***************************************************************************)
(* rwbuf.c: a buffer that is filled at widx and emptied at ridx, and moves *)
(* its bytes down or reallocates when it runs out of space.                *)
(***************************************************************************)
EXTENDS ByteQueue, SequencesExt

CONSTANTS
  Chars,     \* the bytes written, other than CR and LF
  InitSize, MaxSize,
  MaxLine    \* the max argument of rwbuf_readline

LF == "LF"
CR == "CR"
NUL == "NUL"
Junk == "junk"   \* a byte that was never written
Byte == Chars \cup {LF, CR}

VARIABLES
  buf,     \* struct rwbuf
  stream   \* history: the bytes written and not yet consumed

vars == <<buf, stream>>

rwbuf_used(b) == b.widx - b.ridx
rwbuf_space(b) == Len(b.data) - b.widx
Readable(b) == SubSeq(b.data, b.ridx + 1, b.widx)

\* memcpy(data + at, bytes)
Store(data, at, bytes) ==
  [i \in 1 .. Len(data) |-> IF i \in at + 1 .. at + Len(bytes) THEN bytes[i - at] ELSE data[i]]

\* mutant: the indices are moved down and the bytes are not
MoveDown_indices(b) == [b EXCEPT !.ridx = 0, !.widx = rwbuf_used(b)]

\* memmove(data, data + ridx, used)
MoveDown(b) ==
  IF b.ridx = 0 THEN b
    ELSE [b EXCEPT !.data = Store(@, 0, Readable(b)), !.ridx = 0, !.widx = rwbuf_used(b)]

\* mutant: a new block that does not hold the old bytes
Realloc_fresh(b, size) == [b EXCEPT !.data = [i \in 1 .. size |-> Junk]]

\* realloc: the old bytes, then bytes that hold anything
Realloc(b, size) == [b EXCEPT !.data = @ \o [i \in 1 .. size - Len(@) |-> Junk]]

\* mutant: one byte too few counts as enough
rwbuf_mkspace_short(b, need) ==
  {[ok |-> rwbuf_space(b) + 1 >= need, buf |-> b]}

\* the outcomes of rwbuf_mkspace: the buffer, and whether there is space
rwbuf_mkspace(b, need) ==
  LET m == MoveDown(b)
      size == GrowSize(Len(m.data), m.widx, need)
  IN  IF rwbuf_space(b) >= need THEN {[ok |-> TRUE, buf |-> b]}
      ELSE IF rwbuf_space(m) >= need THEN {[ok |-> TRUE, buf |-> m]}
      ELSE IF ~b.is_grow \/ (b.max_size # 0 /\ size > b.max_size)
        THEN {[ok |-> FALSE, buf |-> m]}
        ELSE {[ok |-> TRUE, buf |-> Realloc(m, size)], [ok |-> FALSE, buf |-> m]}

\* bytes stored at widx: memcpy, or read(2) into the space
PutAt(b, bytes) ==
  [b EXCEPT !.data = Store(@, b.widx, bytes), !.widx = @ + Len(bytes)]

\* mutant: the terminator stays in the buffer
Advance_less(b, n) == [b EXCEPT !.ridx = @ + n - 1]

\* consuming n bytes; an empty buffer starts again at 0
Advance(b, n) ==
  IF b.ridx + n = b.widx THEN [b EXCEPT !.ridx = 0, !.widx = 0] ELSE [b EXCEPT !.ridx = @ + n]

\* the outcomes of rwbuf_write, and of rwbuf_writev with its pieces joined
rwbuf_write(b, bytes) ==
  {IF r.ok THEN [r EXCEPT !.buf = PutAt(@, bytes)] ELSE r : r \in rwbuf_mkspace(b, Len(bytes))}

rwbuf_rdinc(b, n) ==
  IF b.ridx + n > Len(b.data) THEN [rc |-> -1, buf |-> b] ELSE [rc |-> 0, buf |-> Advance(b, n)]

\* a line without its LF and without the CR before it
Trim(s) ==
  LET t == Front(s) IN IF t # <<>> /\ Last(t) = CR THEN Front(t) ELSE t

\* rc > 0: the bytes consumed; 0: no line yet; -1: longer than max
rwbuf_readline(b, max, flags) ==
  LET rlen == rwbuf_used(b)
      llen == SelectInSeq(Readable(b), LAMBDA x : x = LF)
      str == Trim(SubSeq(b.data, b.ridx + 1, b.ridx + llen))
      nul == IF "ADDNUL" \in flags
               THEN [b EXCEPT !.data = Store(@, b.ridx + Len(str), <<NUL>>)] ELSE b
      tooBig(n) == max # 0 /\ n > max
  IN  IF llen # 0
        THEN [rc |-> IF tooBig(Len(str)) THEN -1 ELSE llen, line |-> str, buf |-> Advance(nul, llen)]
      ELSE IF tooBig(rlen) THEN [rc |-> -1, line |-> <<>>, buf |-> b]
      ELSE IF "EOF" \in flags
        THEN [rc |-> rlen, line |-> Readable(b), buf |-> [b EXCEPT !.ridx = 0, !.widx = 0]]
        ELSE [rc |-> 0, line |-> <<>>, buf |-> MoveDown(b)]
-----------------------------------------------------------------------------
(***************************************************************************)
(* Any sequence of calls its users make                                    *)
(***************************************************************************)
Block(size, max_size, is_grow) ==
  [data |-> [i \in 1 .. size |-> Junk], ridx |-> 0, widx |-> 0,
   max_size |-> max_size, is_grow |-> is_grow]

\* RWBUF_INIT, a static block; rwbuf_init, after which sock_init's caller goes on
\* with no block when malloc fails
Init ==
  /\ buf \in {Block(InitSize, InitSize, FALSE), Block(InitSize, MaxSize, TRUE),
              Block(0, MaxSize, TRUE)}
  /\ stream = <<>>

Pieces == {<<x>> : x \in Byte} \cup {<<x, LF>> : x \in Byte}

write ==
  \E bytes \in Pieces : \E r \in rwbuf_write(buf, bytes) :
    /\ buf' = r.buf
    /\ stream' = IF r.ok THEN stream \o bytes ELSE stream

\* read(2) into the space at widx, in sock_recv and the readline of dns_resolv.c
fill ==
  \E bytes \in Pieces :
    /\ Len(bytes) <= rwbuf_space(buf)
    /\ buf' = PutAt(buf, bytes)
    /\ stream' = stream \o bytes

Consume(b) ==
  /\ buf' = b
  /\ stream' = SubSeq(stream, rwbuf_used(buf) - rwbuf_used(b) + 1, Len(stream))

readline ==
  \E flags \in SUBSET {"EOF", "ADDNUL"} : Consume(rwbuf_readline(buf, MaxLine, flags).buf)

\* sock_recvbuf_consume and sock_send: at most what is readable
consume ==
  \E n \in 1 .. rwbuf_used(buf) : Consume(rwbuf_rdinc(buf, n).buf)

Next == write \/ fill \/ readline \/ consume
Spec == Init /\ [][Next]_vars
-----------------------------------------------------------------------------
(***************************************************************************)
(* The indices stay ordered within the block, and the block within its     *)
(* limit: no call reads or writes outside the memory it owns.              *)
(***************************************************************************)
IndexInv ==
  /\ 0 <= buf.ridx /\ buf.ridx <= buf.widx /\ buf.widx <= Len(buf.data)
  /\ Len(buf.data) <= MaxSize

(***************************************************************************)
(* Moving down, reallocating and starting again at 0 lose, repeat and      *)
(* reorder nothing: the readable bytes are those written and not yet       *)
(* consumed.                                                               *)
(***************************************************************************)
StreamPreserved == Readable(buf) = stream

(***************************************************************************)
(* rwbuf_readline returns the next line of the stream, whatever pieces it  *)
(* was written in: up to the first LF and without CR LF, or at EOF all     *)
(* that is left; and it consumes what it returns.                          *)
(***************************************************************************)
LineIsNext ==
  \A flags \in SUBSET {"EOF", "ADDNUL"} :
    LET r == rwbuf_readline(buf, MaxLine, flags)
        taken == SubSeq(stream, 1, r.rc)
        unfinished == "EOF" \in flags /\ r.rc = Len(stream)
    IN  r.rc > 0 =>
          /\ Readable(r.buf) = SubSeq(stream, r.rc + 1, Len(stream))
          /\ Len(r.line) <= MaxLine /\ \A i \in 1 .. Len(r.line) : r.line[i] # LF
          /\ \/ taken = r.line \o <<CR, LF>>
             \/ taken = r.line \o <<LF>> /\ (r.line = <<>> \/ Last(r.line) # CR)
             \/ taken = r.line /\ unfinished

\* the queue that the buffer implements
Q == [data |-> Readable(buf), size |-> Len(buf.data), max_size |-> buf.max_size,
      is_grow |-> buf.is_grow]

(***************************************************************************)
(* Every call is one of ByteQueue's: it appends within the block, reserves *)
(* and appends with the same outcomes, or takes from the front.  This is   *)
(* what the models of SOCK and SERVER use of a buffer.                     *)
(***************************************************************************)
ActsAsQueue ==
  [][\/ \E bytes \in Pieces : Q' \in {r.buf : r \in AppendTo(Q, bytes)}
     \/ \E n \in 0 .. Len(Q.data) : Q' = Drop(Q, n)]_vars
=============================================================================
