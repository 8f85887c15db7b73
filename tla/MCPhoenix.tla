------------------------------ MODULE MCPhoenix ------------------------------
(***************************************************************************)
(* Both of two operators and both of two witnesses, one of which is ahead  *)
(* of real time; one signer list repeats a key.  A time unit is the        *)
(* witnesses' floor for the cool-down, and 6 is past every staleness       *)
(* limit of a request made at 0 with a cool-down of 1.                     *)
(***************************************************************************)
EXTENDS Phoenix, TLC

MCSignerLists == {<<"o1", "o2">>, <<"o1", "o1">>}
MCSkew        == [w \in Witnesses |-> IF w = 0 THEN 1 ELSE 0]
MCSymmetry    == Permutations(Hosts)
=============================================================================
