------------------------------ MODULE DbExact -------------------------------
(***************************************************************************)
(* Db on key sets where slice_cmpmem decides equality, and its refinement  *)
(* of KVStore.                                                             *)
(***************************************************************************)
EXTENDS DbInv

\* No key of a bucket is a prefix of the bytes of another key's record, nor
\* those bytes a prefix of the key.
ASSUME ExactKeys ==
  \A k, l \in Keys, v \in Vals :
    k # l /\ Hash[k] = Hash[l] => ~IsPrefix(k, l \o v) /\ ~IsPrefix(l \o v, k)

(***************************************************************************)
(* A bucket holds at most one record per key: hash_put walks the whole     *)
(* chain before it adds a record.                                          *)
(***************************************************************************)
KeysUnique ==
  \A b \in Bucket : \A i, j \in 1 .. Len(chain[b]) :
    recs[chain[b][i]].key = recs[chain[b][j]].key => i = j

\* The value a chain holds for a key.
Stored ==
  [k \in Keys |->
    LET s == chain[Hash[k]]
    IN  {recs[s[i]].val : i \in {j \in 1 .. Len(s) : recs[s[j]].key = k}}]

Effective ==
  \/ pc \in {"delete", "num_del++"}
  \/ pc = "return" /\ op.cmd # "get" /\ reply.rc = 0

KV == INSTANCE KVStore WITH
  Durable <- db_file,
  kv <- IF pc = "deinit" THEN [k \in Keys |-> {}] ELSE Stored,
  req <- op,
  stage <- IF Effective THEN "effective" ELSE IF pc \in OpStates THEN "called" ELSE "idle",
  reply <- IF pc \in OpStates THEN NoReply ELSE reply

(***************************************************************************)
(* db.c implements the store of db.h: each operation takes effect in one   *)
(* store to a link, a failed db_set changes nothing, and a crash loses at  *)
(* most the operation that was running.                                    *)
(***************************************************************************)
ImplementsKVStore == KV!Spec
=============================================================================
