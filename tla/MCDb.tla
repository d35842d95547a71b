-------------------------------- MODULE MCDb --------------------------------
(* Three keys, two of them in one bucket. *)
EXTENDS DbExact

MCKeys == {<<1>>, <<2>>, <<3>>}
MCVals == {<<1>>, <<1, 2>>}
MCHash == [k \in MCKeys |-> IF k = <<3>> THEN 1 ELSE 0]
=============================================================================
