--------------------------- MODULE MCDaqSequential ---------------------------
(* A roster whose witness 1 wants the bearer token the client holds, whose *)
(* last witness wants another one, and whose witness 2 has a late clock.   *)
EXTENDS DaqSequential

MCWitnessToken == [w \in Witness |-> IF w = 1 \/ w = N - 1 THEN {"token"} ELSE {}]
MCRosterToken  == [w \in Witness |-> IF w = 1 THEN {"token"} ELSE {}]
MCOpenRoster   == [w \in Witness |-> {}]
MCSkew         == [w \in Witness |-> IF w = 2 THEN -1 ELSE 0]
MCNoSkew       == [w \in Witness |-> 0]
=============================================================================
