----------------------------- MODULE MCDbFaults -----------------------------
(* Keys that are prefixes of other keys' records, all in one bucket. *)
EXTENDS DbInv

MCKeys == {<<1>>, <<1, 2>>, <<1, 2, 2, 1>>}
MCVals == {<<2>>}
MCHash == [k \in MCKeys |-> 0]
=============================================================================
