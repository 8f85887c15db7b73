-------------------------------- MODULE Drand --------------------------------
(***************************************************************************)
(* The clock side of the drand beacon (internal/daq/drand.go): which round *)
(* the chain should be on at a given second, and the freshness test every  *)
(* witness applies to the round a request carries.                         *)
(***************************************************************************)
EXTENDS Integers

CONSTANTS
    Genesis,    \* second at which round 1 is published
    Period,     \* seconds between two rounds (3 on fastnet)
    SignBit     \* 2^63: uint64 values range over 0 .. 2*SignBit-1

ASSUME DrandAssumption ==
    /\ Genesis \in Int
    /\ Period \in Nat \ {0}
    /\ SignBit \in Nat \ {0}

\* uint64 subtraction, and the conversion of a uint64 to int64.
Sub64(a, b) == IF a >= b THEN a - b ELSE a - b + 2 * SignBit
Int64(u)    == IF u < SignBit THEN u ELSE u - 2 * SignBit

\* The round the chain SHOULD be on at second `now`.
ExpectedRound(now) ==
    IF now < Genesis THEN 1 ELSE (now - Genesis) \div Period + 1

\* The second at which `round` is published.
RoundTime(round) == Genesis + (round - 1) * Period

\* Mutants of CheckFreshness: one round too strict, one round too lax.
CheckFreshness_Strict(round, now, maxLag) ==
    LET expected == ExpectedRound(now)
    IN  (IF round > expected THEN round - expected ELSE expected - round) < maxLag
CheckFreshness_Lax(round, now, maxLag) ==
    LET expected == ExpectedRound(now)
    IN  (IF round > expected THEN round - expected ELSE expected - round) <= maxLag + 1

\* The gap is formed from the larger minus the smaller round, then
\* converted to int64 before it is compared with maxLag.
CheckFreshness(round, now, maxLag) ==
    LET expected == ExpectedRound(now)
        gap == IF round > expected THEN Int64(Sub64(round, expected))
                                   ELSE Int64(Sub64(expected, round))
    IN  gap <= maxLag
=============================================================================
