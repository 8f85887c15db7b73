---------------------------- MODULE MCRosterChain ----------------------------
(* A 2-of-3 roster, a 1-of-2 roster listed out of index order, and one     *)
(* whose threshold is 0.  The signer lists hold a duplicate and a position *)
(* the smaller roster lacks; a unit of time is 24 hours.                   *)
EXTENDS RosterChain, TLC

W(i, k) == [index |-> i, pubkey |-> k]
MCRosters ==
    {[witnesses |-> <<W(0, "a"), W(1, "b"), W(2, "c")>>, threshold |-> 2],
     [witnesses |-> <<W(1, "c"), W(0, "d")>>, threshold |-> 1],
     [witnesses |-> <<W(0, "a"), W(1, "d")>>, threshold |-> 0]}
MCCeremonyLists == {<<"p", "q">>, <<"p", "p">>, <<"p", "x">>}
MCSignerLists   == {<<0>>, <<0, 0>>, <<0, 1, 2>>, <<1, 0>>}
MCTerms         == {[declaredAt |-> 0, waiting |-> 1],
                    [declaredAt |-> 1, waiting |-> 1],
                    [declaredAt |-> 0, waiting |-> 0]}
MCSymmetry      == Permutations(Operators)
=============================================================================
