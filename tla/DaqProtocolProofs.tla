-------------------------- MODULE DaqProtocolProofs --------------------------
(***************************************************************************)
(* Facts about the operators of Drand and DaqProtocol that the proofs of   *)
(* both clients rest on: the round arithmetic of the freshness test, and   *)
(* how many witnesses an ordered list names.                               *)
(***************************************************************************)
EXTENDS DaqProtocol, FiniteSetTheorems, TLAPS

-----------------------------------------------------------------------------
(* The clock of drand *)

\* Multiplication by the period keeps the order.
LEMMA PeriodOrder ==
    ASSUME NEW a \in Int, NEW b \in Int
    PROVE  /\ a * Period \in Int
           /\ a * Period < b * Period <=> a < b
           /\ (a + 1) * Period = a * Period + Period
           /\ (a - b) * Period = a * Period - b * Period
BY DrandAssumption

\* Division by the period, as ExpectedRound uses it.
LEMMA PeriodDivision ==
    ASSUME NEW x \in Nat
    PROVE  /\ x \div Period \in Nat
           /\ (x \div Period) * Period <= x
           /\ x < (x \div Period) * Period + Period
BY DrandAssumption

\* The round at second t was published by t, unless drand has not started,
\* and the next one was not.
LEMMA ExpectedRoundBounds ==
    ASSUME NEW t \in Int
    PROVE  /\ ExpectedRound(t) \in Nat \ {0}
           /\ ExpectedRound(t) = 1 \/ RoundTime(ExpectedRound(t)) <= t
           /\ t < RoundTime(ExpectedRound(t) + 1)
<1>1. CASE t < Genesis
  <2>1. ExpectedRound(t) = 1 /\ RoundTime(2) = Genesis + Period
    BY <1>1, DrandAssumption DEF ExpectedRound, RoundTime
  <2> QED
    BY <1>1, <2>1, DrandAssumption
<1>2. CASE ~(t < Genesis)
  <2> DEFINE q == (t - Genesis) \div Period
  <2>1. t - Genesis \in Nat
    BY <1>2, DrandAssumption
  <2>2. q \in Nat /\ q * Period <= t - Genesis /\ t - Genesis < q * Period + Period
    BY <2>1, PeriodDivision
  <2>3. ExpectedRound(t) = q + 1
    BY <1>2 DEF ExpectedRound
  <2> HIDE DEF q
  <2>4. q * Period \in Int /\ (q + 1) * Period = q * Period + Period
    BY <2>2, PeriodOrder
  <2>5. RoundTime(q + 1) = Genesis + q * Period
        /\ RoundTime((q + 1) + 1) = Genesis + (q + 1) * Period
    BY <2>2 DEF RoundTime
  <2> QED
    BY <2>2, <2>3, <2>4, <2>5, DrandAssumption
<1> QED
  BY <1>1, <1>2

\* Rounds are published in order.
LEMMA RoundTimeOrder ==
    ASSUME NEW a \in Int, NEW b \in Int
    PROVE  /\ RoundTime(a) \in Int
           /\ RoundTime(a) < RoundTime(b) <=> a < b
<1>1. (a - 1) * Period \in Int /\ (b - 1) * Period \in Int
      /\ ((a - 1) * Period < (b - 1) * Period <=> a < b)
  <2>1. a - 1 \in Int /\ b - 1 \in Int /\ (a - 1 < b - 1 <=> a < b)
    OBVIOUS
  <2> QED
    BY <2>1, PeriodOrder
<1> QED
  BY <1>1, DrandAssumption DEF RoundTime

\* A round that a clock finds neither too old nor too far ahead passes the
\* test, also when the difference does not fit an int64.
LEMMA FreshPasses ==
    ASSUME NEW r \in Nat \ {0}, NEW t \in Int, NEW lag \in Nat,
           t < RoundTime(r + lag + 1),
           r <= lag + 1 \/ RoundTime(r - lag) <= t
    PROVE  CheckFreshness(r, t, lag)
<1> DEFINE e == ExpectedRound(t)
<1>1. /\ e \in Nat \ {0}
      /\ e = 1 \/ RoundTime(e) <= t
      /\ t < RoundTime(e + 1)
  BY ExpectedRoundBounds
<1>2. CheckFreshness(r, t, lag) <=>
        (IF r > e THEN Int64(Sub64(r, e)) ELSE Int64(Sub64(e, r))) <= lag
  BY DEF CheckFreshness
<1> HIDE DEF e
<1>3. e - r <= lag
  <2>1. CASE e # 1
    <3>1. RoundTime(e) \in Int /\ RoundTime(r + lag + 1) \in Int
          /\ RoundTime(e) < RoundTime(r + lag + 1)
      BY <1>1, <2>1, RoundTimeOrder
    <3>2. e < r + lag + 1
      BY <1>1, <3>1, RoundTimeOrder
    <3> QED
      BY <1>1, <3>2
  <2> QED
    BY <2>1
<1>4. r - e <= lag
  <2>1. CASE r > lag + 1
    <3>1. RoundTime(r - lag) \in Int /\ RoundTime(e + 1) \in Int
          /\ RoundTime(r - lag) < RoundTime(e + 1)
      BY <1>1, <2>1, RoundTimeOrder
    <3>2. r - lag < e + 1
      BY <1>1, <3>1, RoundTimeOrder
    <3> QED
      BY <1>1, <3>2
  <2> QED
    BY <1>1, <2>1
<1> QED
  BY <1>1, <1>2, <1>3, <1>4, DrandAssumption DEF Int64, Sub64

\* What the test excludes as long as the difference fits an int64: a round
\* whose window has passed on the witness's clock.
LEMMA FreshIsRecent ==
    ASSUME NEW r \in Nat, NEW t \in Int, NEW lag \in Nat,
           ExpectedRound(t) < r + SignBit, CheckFreshness(r, t, lag)
    PROVE  t < RoundTime(r + lag + 1)
<1> DEFINE e == ExpectedRound(t)
<1>1. e \in Nat \ {0} /\ t < RoundTime(e + 1)
  BY ExpectedRoundBounds
<1>2. (IF r > e THEN Int64(Sub64(r, e)) ELSE Int64(Sub64(e, r))) <= lag /\ e < r + SignBit
  BY DEF CheckFreshness
<1> HIDE DEF e
<1>3. e <= r + lag
  BY <1>1, <1>2, DrandAssumption DEF Int64, Sub64
<1>4. /\ RoundTime(e + 1) \in Int /\ RoundTime(r + lag + 1) \in Int
      /\ ~(RoundTime(r + lag + 1) < RoundTime(e + 1))
  BY <1>1, <1>3, RoundTimeOrder
<1> QED
  BY <1>1, <1>4

\* Nor is it a round far ahead, as long as the clock has passed genesis.
LEMMA FreshIsNotAhead ==
    ASSUME NEW r \in Nat, NEW t \in Int, NEW lag \in Nat, Genesis <= t,
           r < ExpectedRound(t) + SignBit, CheckFreshness(r, t, lag)
    PROVE  RoundTime(r - lag) <= t
<1> DEFINE e == ExpectedRound(t)
<1>1. e \in Nat \ {0} /\ (e = 1 \/ RoundTime(e) <= t)
  BY ExpectedRoundBounds
<1>2. (IF r > e THEN Int64(Sub64(r, e)) ELSE Int64(Sub64(e, r))) <= lag /\ r < e + SignBit
  BY DEF CheckFreshness
<1>3. RoundTime(1) = Genesis
  BY DrandAssumption DEF RoundTime
<1> HIDE DEF e
<1>4. r - lag <= e
  BY <1>1, <1>2, DrandAssumption DEF Int64, Sub64
<1>5. /\ RoundTime(e) \in Int /\ RoundTime(r - lag) \in Int
      /\ ~(RoundTime(e) < RoundTime(r - lag))
  BY <1>1, <1>4, RoundTimeOrder
<1> QED
  BY <1>1, <1>3, <1>5, DrandAssumption

\* Before a round is published the clock is not on it.
LEMMA ClockBelowRound ==
    ASSUME NEW t \in Int, NEW n \in Nat \ {0}, t < RoundTime(n + 1)
    PROVE  ExpectedRound(t) <= n
<1> DEFINE e == ExpectedRound(t)
<1>1. e \in Nat \ {0} /\ (e = 1 \/ RoundTime(e) <= t)
  BY ExpectedRoundBounds
<1> HIDE DEF e
<1>2. CASE e # 1
  <2>1. RoundTime(e) \in Int /\ RoundTime(n + 1) \in Int /\ RoundTime(e) < RoundTime(n + 1)
    BY <1>1, <1>2, RoundTimeOrder
  <2> QED
    BY <1>1, <2>1, RoundTimeOrder DEF e
<1> QED
  BY <1>1, <1>2 DEF e

\* What a relay answers is a round number, and a genuine beacon is one of a
\* round that is published.
LEMMA RelayAnswersRounds ==
    ASSUME NEW t \in Int, NEW s \in Nat, NEW a \in RelayAnswers(t, s)
    PROVE  /\ a.round \in Nat \ {0} /\ a.beacon \in {"genuine", "forged"}
           /\ a.beacon = "genuine" => a.round = 1 \/ RoundTime(a.round) <= t
<1> DEFINE e == ExpectedRound(t)
<1>1. e \in Nat \ {0} /\ (e = 1 \/ RoundTime(e) <= t)
  BY ExpectedRoundBounds
<1>2. \/ /\ a.round \in (e - s) .. e /\ a.round >= 1
         /\ a.beacon \in {"genuine", "forged"}
      \/ a.round = e + SignBit /\ a.beacon = "forged"
  BY DEF RelayAnswers
<1> HIDE DEF e
<1>3. CASE a.round \in (e - s) .. e /\ a.round >= 1
  <2>1. a.round \in Nat \ {0} /\ a.round <= e
    BY <1>1, <1>3
  <2>2. /\ RoundTime(a.round) \in Int /\ RoundTime(e) \in Int
        /\ ~(RoundTime(e) < RoundTime(a.round))
    BY <1>1, <2>1, RoundTimeOrder
  <2> QED
    BY <1>1, <1>2, <2>1, <2>2
<1> QED
  BY <1>1, <1>2, <1>3, DrandAssumption

-----------------------------------------------------------------------------
(* Ordered lists of witnesses *)

\* A strictly increasing list has as many elements as positions.
LEMMA IncreasingImage ==
    ASSUME NEW n \in Nat, NEW p \in [1 .. n -> Int],
           \A i, j \in 1 .. n : i < j => p[i] < p[j]
    PROVE  Cardinality({p[i] : i \in 1 .. n}) = n
<1> DEFINE T == {p[i] : i \in 1 .. n}
<1>1. p \in [1 .. n -> T]
  OBVIOUS
<1>2. \A a, b \in 1 .. n : p[a] = p[b] => a = b
  <2> SUFFICES ASSUME NEW a \in 1 .. n, NEW b \in 1 .. n, p[a] = p[b], a # b
               PROVE  FALSE
    OBVIOUS
  <2>1. a < b \/ b < a
    OBVIOUS
  <2>2. p[a] \in Int /\ p[b] \in Int
    OBVIOUS
  <2> QED BY <2>1, <2>2
<1>3. \A t \in T : \E i \in 1 .. n : p[i] = t
  OBVIOUS
<1>4. p \in Bijection(1 .. n, T)
  BY <1>1, <1>2, <1>3 DEF Bijection, Injection, IsInjective, Surjection
<1>5. ExistsBijection(1 .. n, T)
  BY <1>4 DEF ExistsBijection
<1> HIDE DEF T
<1>6. Cardinality(T) = n
  BY <1>5, FS_CountingElements
<1> QED BY <1>6 DEF T
=============================================================================
