---------------------------- MODULE MCDaqParallel ----------------------------
(* A three-witness roster: witness 0 does not check drand, witness 1 wants *)
(* the bearer token the client holds, witness 2's clock runs a second late. *)
EXTENDS DaqParallel

MCWitnessToken == [w \in Witness |-> IF w = 1 THEN {"token"} ELSE {}]
MCRosterToken  == [w \in Witness |-> IF w = 1 THEN {"token"} ELSE {}]
MCSkew         == [w \in Witness |-> IF w = 2 THEN -1 ELSE 0]
=============================================================================
