------------------------------ MODULE KVStore ------------------------------
(***************************************************************************)
(* What db.h promises: a map from keys to values with three operations,    *)
(* db_set, db_get and db_del, issued one at a time by a single thread.     *)
(* An operation takes effect at one instant between its call and its       *)
(* return.  The process may die at any time: an operation that has not     *)
(* taken effect is then lost.  A file store (Durable) keeps its contents,  *)
(* a memory store starts again empty.                                      *)
(***************************************************************************)
EXTENDS Integers, Sequences

CONSTANTS
  Keys,     \* the byte strings used as keys
  Vals,     \* the byte strings used as values
  Durable   \* TRUE for a file store

VARIABLES
  kv,       \* kv[k] is {} when k is absent and {v} when k has the value v
  req,      \* the operation being executed
  stage,    \* "idle", "called" (not yet effective) or "effective"
  reply     \* what the last completed operation returned

kvVars == <<kv, req, stage, reply>>

NoReq == [cmd |-> "none", key |-> <<>>, val |-> <<>>]
NoReply == [rc |-> 0, val |-> {}]
Success(v) == [rc |-> 0, val |-> v]
Failure == [rc |-> -1, val |-> {}]

Absent == [k \in Keys |-> {}]

Init ==
  /\ kv = Absent
  /\ req = NoReq
  /\ stage = "idle"
  /\ reply = NoReply

Call ==
  /\ stage = "idle"
  /\ stage' = "called"
  /\ \E k \in Keys :
       \/ \E v \in Vals : req' = [cmd |-> "set", key |-> k, val |-> v]
       \/ req' = [cmd |-> "get", key |-> k, val |-> <<>>]
       \/ req' = [cmd |-> "del", key |-> k, val |-> <<>>]
  /\ reply' = NoReply
  /\ UNCHANGED kv

TakeEffect ==
  /\ stage = "called"
  /\ \/ req.cmd = "set" /\ kv' = [kv EXCEPT ![req.key] = {req.val}]
     \/ /\ req.cmd = "del"
        /\ kv[req.key] # {}
        /\ kv' = [kv EXCEPT ![req.key] = {}]
  /\ stage' = "effective"
  /\ UNCHANGED <<req, reply>>

Return ==
  /\ \/ stage = "effective" /\ reply' = Success({})
     \/ /\ stage = "called"
        /\ \/ req.cmd = "get" /\ kv[req.key] # {} /\ reply' = Success(kv[req.key])
           \/ req.cmd \in {"get", "del"} /\ kv[req.key] = {} /\ reply' = Failure
           \/ req.cmd = "set" /\ reply' = Failure  \* no room: nothing is stored
  /\ stage' = "idle"
  /\ req' = NoReq
  /\ UNCHANGED kv

Die ==
  /\ stage' = "idle"
  /\ req' = NoReq
  /\ reply' = NoReply
  /\ kv' = IF Durable THEN kv ELSE Absent

Next == Call \/ TakeEffect \/ Return \/ Die

Spec == Init /\ [][Next]_kvVars
=============================================================================
