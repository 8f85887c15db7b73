-------------------------- MODULE MCQuorumEnvelope --------------------------
(***************************************************************************)
(* Two hosts whose chips differ in three bits of each block; fingerprints  *)
(* of 16 bits, of which positions 3 and 9 are unreliable.  Rosters of      *)
(* three and two witnesses, one of them rotated, thresholds from 1 to 3,   *)
(* one of them more than its roster can meet.                              *)
(***************************************************************************)
EXTENDS QuorumEnvelope

MCSilicon  == [h \in Hosts |->
                 IF h = "h1" THEN <<0, 1, 1, 0, 1, 1, 0, 0, 1, 0, 0, 1, 1, 1, 0, 1>>
                             ELSE <<1, 0, 1, 1, 1, 1, 0, 0, 1, 1, 1, 0, 1, 1, 0, 1>>]
MCSecret   == [h \in Hosts |->
                 IF h = "h1" THEN <<1, 0, 1, 1, 0, 0, 1, 0>> ELSE <<0, 1, 1, 0, 1, 1, 1, 1>>]
MCReliable == <<1, 2, 4, 5, 6, 7, 8, 10, 11, 12, 13, 14, 15, 16>>

W(i, k) == [index |-> i, pubkey |-> k]
MCRosters ==
    {[witnesses |-> <<W(0, "a"), W(1, "b"), W(2, "c")>>, threshold |-> 2],
     [witnesses |-> <<W(0, "d"), W(1, "b"), W(2, "a")>>, threshold |-> 2],
     [witnesses |-> <<W(0, "a"), W(1, "b"), W(2, "c")>>, threshold |-> 3],
     [witnesses |-> <<W(0, "a"), W(1, "c")>>, threshold |-> 1],
     [witnesses |-> <<W(0, "a"), W(1, "c")>>, threshold |-> 3]}
=============================================================================
