------------------------- MODULE AgentSentinelProofs -------------------------
(***************************************************************************)
(* What holds of the agent and the Kernel Sentinel for every timer period, *)
(* pulse timeout, ring size, pulse interval and every time a branch of the *)
(* loop may block for.                                                     *)
(***************************************************************************)
EXTENDS AgentSentinel, SequenceTheorems, TLAPS

\* An Open needs a boot of its own.
TypeInv ==
    /\ TypeOK
    /\ rearms <= boots
    /\ phase = "enrolling" => rearms < boots

\* The callback has run only if the timer was started, and the timer never
\* stops.  Until a silence is noticed, its age and the time to the next
\* callback are bounded together: a tick moves one unit from one to the
\* other, and an Open adds at most a period.
LatencyInv ==
    lastFire # "never" =>
        /\ timer # -1
        /\ ~noticed => pulseAge + timer <= PulseTimeout + TimerPeriod * (1 + rearms)

\* The branches of the loop fit into the pulse timeout: the pulse ticker
\* fires once more after a pulse, and then a branch that had just begun
\* holds the loop.
BranchesFit == \A d \in Work \cup {1} : PulseInterval + d - 1 <= PulseTimeout

\* As long as the loop is on time, the next tick of the ticker comes within
\* an interval of the last pulse, and the branch the loop is in began before
\* that tick.
AlarmInv ==
    /\ phase # "loop" => late
    /\ ~late =>
          /\ pulseAge # -1
          /\ ~tickReady => pulseAge + pulseTick <= PulseInterval
          /\ \E d \in Work \cup {1} : pulseAge + busy <= PulseInterval + d - 1

\* Event a may come before event b on the way to the control plane.
Precedes(a, b) == a.id < b.id /\ (b.neverSawPulse => a.neverSawPulse)
Ordered(s) == \A i, j \in DOMAIN s : i < j => Precedes(s[i], s[j])
Before(s, t) == \A a \in Range(s), b \in Range(t) : Precedes(a, b)

\* The control plane, the memory of the agent and the ring hold consecutive
\* stretches of the events, and until the first pulse every event says that
\* there was none.
OrderInv ==
    /\ Ordered(server) /\ Ordered(ram) /\ Ordered(ring)
    /\ Before(server, ram) /\ Before(server, ring) /\ Before(ram, ring)
    /\ pulseAge = -1 =>
          \A e \in Range(server) \cup Range(ram) \cup Range(ring) : e.neverSawPulse

\* Events are in memory only between the drain and the end of the upload.
RamInv == phase \notin {"draining", "reporting"} => ram = << >>

-----------------------------------------------------------------------------
(* Types *)

\* The sequences of events grow with the number of events.
LEMMA EventGrows ==
    ASSUME NEW m \in Nat, NEW n \in Nat, m <= n,
           NEW s \in Seq([id : 1 .. m, neverSawPulse : BOOLEAN])
    PROVE  s \in Seq([id : 1 .. n, neverSawPulse : BOOLEAN])
<1>1. [id : 1 .. m, neverSawPulse : BOOLEAN]
        \subseteq [id : 1 .. n, neverSawPulse : BOOLEAN]
  OBVIOUS
<1> QED
  BY <1>1, SeqMonotonic

\* The event the callback records.
LEMMA AbsenceEventType ==
    ASSUME TypeOK
    PROVE  /\ AbsenceEvent \in [id : 1 .. emitted + 1, neverSawPulse : BOOLEAN]
           /\ ring \in Seq([id : 1 .. emitted + 1, neverSawPulse : BOOLEAN])
           /\ ram \in Seq([id : 1 .. emitted + 1, neverSawPulse : BOOLEAN])
           /\ server \in Seq([id : 1 .. emitted + 1, neverSawPulse : BOOLEAN])
<1>1. emitted \in Nat /\ emitted <= emitted + 1
  BY DEF TypeOK, KernelOK, AgentOK
<1>2. AbsenceEvent \in [id : 1 .. emitted + 1, neverSawPulse : BOOLEAN]
  BY <1>1 DEF AbsenceEvent
<1>3. ASSUME NEW s \in Seq(Event)
      PROVE  s \in Seq([id : 1 .. emitted + 1, neverSawPulse : BOOLEAN])
  <2>1. s \in Seq([id : 1 .. emitted, neverSawPulse : BOOLEAN])
    BY DEF Event
  <2>2. emitted + 1 \in Nat
    BY <1>1
  <2> QED
    BY <1>1, <2>1, <2>2, EventGrows
<1> QED
  BY <1>2, <1>3 DEF TypeOK, KernelOK, AgentOK

\* Nothing is pinned, drained or reported before the first boot.
LEMMA InitType == Init => TypeInv
<1> SUFFICES ASSUME Init PROVE TypeInv
  OBVIOUS
<1> USE DEF Init, KernelInit
<1>1. << >> \in Seq(Event) /\ Len(<< >>) = 0
  BY EmptySeq
<1>2. KernelOK
  BY <1>1, SentinelAssumption DEF KernelOK
<1>3. AgentOK
  BY <1>1, AgentAssumption DEF AgentOK
<1>4. FlagsOK
  BY Zenon DEF FlagsOK
<1> QED
  BY <1>2, <1>3, <1>4 DEF TypeInv, TypeOK, AgentOK

\* The flags stay Boolean.
LEMMA StepFlags == FlagsOK /\ [Next]_vars => FlagsOK'
<1> SUFFICES ASSUME FlagsOK, [Next]_vars PROVE FlagsOK'
  OBVIOUS
<1> USE DEF FlagsOK, kernelVars, Goto, Idle
<1>1. CASE Boot \/ Die \/ OpenUnarmed \/ OpenFails \/ DrainFails \/ DrainDone \/ EnterLoop
  BY <1>1, Zenon DEF Boot, Die, OpenUnarmed, OpenFails, DrainFails, DrainDone, EnterLoop
<1>2. CASE OpenSentinel
  BY <1>2, Zenon DEF OpenSentinel, StartTimer
<1>3. CASE \E parsed \in BOOLEAN : DrainOne(parsed)
  BY <1>3, Zenon DEF DrainOne
<1>4. CASE \E delivered \in BOOLEAN : Report(delivered)
  BY <1>4, Zenon DEF Report
<1>5. CASE FirstPulse
  BY <1>5, Zenon DEF FirstPulse, PulseUpdate
<1>6. CASE Pulse
  BY <1>6, Zenon DEF Pulse, PulseUpdate
<1>7. CASE \E d \in Work : OtherBranch(d)
  BY <1>7, Zenon DEF OtherBranch
<1>8. CASE TimerFires
  BY <1>8, Zenon DEF TimerFires, CheckPulse, agentVars
<1>9. CASE Tick
  BY <1>9, Zenon DEF Tick, KernelTick
<1>10. CASE UNCHANGED vars
  BY <1>10, Zenon DEF vars, agentVars
<1> QED
  BY <1>1, <1>2, <1>3, <1>4, <1>5, <1>6, <1>7, <1>8, <1>9, <1>10 DEF Next

\* Every step keeps the types, and an Open belongs to a boot.
LEMMA StepType == TypeInv /\ [Next]_vars => TypeInv'
<1> SUFFICES ASSUME TypeInv, [Next]_vars
             PROVE  /\ KernelOK' /\ AgentOK'
                    /\ (rearms <= boots)'
                    /\ (phase = "enrolling" => rearms < boots)'
  BY StepFlags DEF TypeInv, TypeOK
<1> USE SentinelAssumption, AgentAssumption
<1>1. CASE Boot
  BY <1>1 DEF Boot, TypeInv, TypeOK, KernelOK, AgentOK, Event, kernelVars
<1>2. CASE Die
  BY <1>2, EmptySeq DEF Die, TypeInv, TypeOK, KernelOK, AgentOK, Event, kernelVars
<1>3. CASE OpenSentinel
  BY <1>3 DEF OpenSentinel, Goto, StartTimer, TypeInv, TypeOK, KernelOK, AgentOK, Event
<1>4. CASE OpenUnarmed
  BY <1>4 DEF OpenUnarmed, Goto, TypeInv, TypeOK, KernelOK, AgentOK, Event, kernelVars
<1>5. CASE OpenFails
  BY <1>5 DEF OpenFails, Goto, TypeInv, TypeOK, KernelOK, AgentOK, Event, kernelVars
<1>6. CASE \E parsed \in BOOLEAN : DrainOne(parsed)
  <2> PICK parsed \in BOOLEAN : DrainOne(parsed)
    BY <1>6
  <2>1. /\ Head(ring) \in Event /\ Tail(ring) \in Seq(Event)
        /\ Len(Tail(ring)) = Len(ring) - 1
    BY HeadTailProperties DEF DrainOne, TypeInv, TypeOK, KernelOK, AgentOK
  <2>2. Append(ram, Head(ring)) \in Seq(Event)
    BY <2>1, AppendProperties DEF TypeInv, TypeOK, KernelOK, AgentOK
  <2> QED
    BY <2>1, <2>2, LenProperties DEF DrainOne, TypeInv, TypeOK, KernelOK, AgentOK, Event
<1>7. CASE DrainFails
  BY <1>7, EmptySeq DEF DrainFails, Goto, TypeInv, TypeOK, KernelOK, AgentOK, Event, kernelVars
<1>8. CASE DrainDone
  BY <1>8 DEF DrainDone, Goto, TypeInv, TypeOK, KernelOK, AgentOK, Event, kernelVars
<1>9. CASE \E delivered \in BOOLEAN : Report(delivered)
  <2> PICK delivered \in BOOLEAN : Report(delivered)
    BY <1>9
  <2>1. server \o ram \in Seq(Event) /\ << >> \in Seq(Event)
    BY ConcatProperties, EmptySeq DEF TypeInv, TypeOK, KernelOK, AgentOK
  <2> QED
    BY <2>1 DEF Report, Goto, TypeInv, TypeOK, KernelOK, AgentOK, Event, kernelVars
<1>10. CASE FirstPulse
  <2>1. /\ phase' = "starting" /\ pulseAge' \in {0, pulseAge} /\ rearms' \in {0, rearms}
        /\ UNCHANGED <<timer, ring, emitted, lastFire, ram, server, pulseTick, busy, boots>>
    BY <1>10, Zenon DEF FirstPulse, Goto, PulseUpdate, kernelVars
  <2> QED
    BY <2>1 DEF TypeInv, TypeOK, KernelOK, AgentOK, Event
<1>11. CASE EnterLoop
  BY <1>11 DEF EnterLoop, TypeInv, TypeOK, KernelOK, AgentOK, Event, kernelVars
<1>12. CASE Pulse
  <2>1. /\ phase = "loop" /\ pulseAge' \in {0, pulseAge} /\ rearms' \in {0, rearms}
        /\ UNCHANGED <<timer, ring, emitted, lastFire, phase, ram, server, pulseTick, busy, boots>>
    BY <1>12, Zenon DEF Pulse, Idle, PulseUpdate, kernelVars
  <2> QED
    BY <2>1 DEF TypeInv, TypeOK, KernelOK, AgentOK, Event
<1>13. CASE \E d \in Work : OtherBranch(d)
  BY <1>13 DEF OtherBranch, Idle, TypeInv, TypeOK, KernelOK, AgentOK, Event, kernelVars
<1>14. CASE TimerFires
  <2>1. CASE PulseAbsent /\ Len(ring) < RingCap
    <3>1. /\ Append(ring, AbsenceEvent) \in Seq([id : 1 .. emitted + 1, neverSawPulse : BOOLEAN])
          /\ Len(Append(ring, AbsenceEvent)) = Len(ring) + 1
      BY AbsenceEventType, AppendProperties DEF TypeInv
    <3>2. ring' = Append(ring, AbsenceEvent) /\ emitted' = emitted + 1
      BY <1>14, <2>1 DEF TimerFires, CheckPulse, EmitAbsence
    <3>3. ring' \in Seq(Event') /\ Len(ring') <= RingCap
      BY <2>1, <3>1, <3>2, LenProperties DEF TypeInv, TypeOK, KernelOK, AgentOK, Event
    <3>4. ram' \in Seq(Event') /\ server' \in Seq(Event')
      BY <1>14, <3>2, AbsenceEventType DEF TimerFires, agentVars, TypeInv, Event
    <3>5. /\ timer' = TimerPeriod /\ lastFire' = "recorded"
          /\ UNCHANGED <<pulseAge, phase, pulseTick, busy, boots, rearms>>
      BY <1>14, <2>1, Zenon DEF TimerFires, CheckPulse, EmitAbsence, agentVars
    <3> QED
      BY <3>2, <3>3, <3>4, <3>5 DEF TypeInv, TypeOK, KernelOK, AgentOK
  <2>2. CASE ~(PulseAbsent /\ Len(ring) < RingCap)
    <3>1. /\ timer' = TimerPeriod /\ lastFire' \in {"fresh", "dropped"}
          /\ UNCHANGED <<pulseAge, ring, emitted, phase, ram, server, pulseTick, busy,
                         boots, rearms>>
      BY <1>14, <2>2, Zenon DEF TimerFires, CheckPulse, EmitAbsence, agentVars
    <3> QED
      BY <3>1 DEF TypeInv, TypeOK, KernelOK, AgentOK, Event
  <2> QED
    BY <2>1, <2>2
<1>15. CASE Tick
  <2>1. busy' \in {0} \cup UNION {0 .. d : d \in Work}
    BY <1>15 DEF Tick, TypeInv, TypeOK, KernelOK, AgentOK
  <2> QED
    BY <1>15, <2>1 DEF Tick, KernelTick, TypeInv, TypeOK, KernelOK, AgentOK, Event
<1>16. CASE UNCHANGED vars
  BY <1>16 DEF vars, kernelVars, agentVars, TypeInv, TypeOK, KernelOK, AgentOK, Event
<1> QED
  BY <1>1, <1>2, <1>3, <1>4, <1>5, <1>6, <1>7, <1>8, <1>9, <1>10, <1>11,
     <1>12, <1>13, <1>14, <1>15, <1>16 DEF Next

-----------------------------------------------------------------------------
(* How late a silence is noticed *)

\* One more Open adds one more period.
LEMMA OnePeriodMore ==
    ASSUME NEW p \in Nat, NEW r \in Nat
    PROVE  /\ p * (1 + (r + 1)) = p * (1 + r) + p
           /\ p * (1 + r) \in Nat /\ p <= p * (1 + r)
OBVIOUS

\* The timer's countdown bounds how old an unnoticed silence can be.
LEMMA StepLatency ==
    ASSUME TypeInv, LatencyInv, [Next]_vars
    PROVE  LatencyInv'
<1> USE SentinelAssumption
<1> DEFINE bound(r) == PulseTimeout + TimerPeriod * (1 + r)
<1>1. /\ timer \in -1 .. TimerPeriod /\ pulseAge \in -1 .. AgeCap /\ rearms \in Nat
      /\ TimerPeriod \in Nat \ {0} /\ PulseTimeout \in Nat /\ AgeCap \in Nat
  BY DEF TypeInv, TypeOK, KernelOK, AgentOK, AgentAssumption
<1>2. /\ bound(rearms) \in Nat /\ PulseTimeout + TimerPeriod <= bound(rearms)
      /\ bound(rearms + 1) = bound(rearms) + TimerPeriod
      /\ bound(0) \in Nat /\ PulseTimeout + TimerPeriod <= bound(0)
  BY <1>1, OnePeriodMore
<1> HIDE DEF bound
<1>3. LatencyInv <=> (lastFire # "never" =>
                        timer # -1 /\ (~noticed => pulseAge + timer <= bound(rearms)))
  BY DEF LatencyInv, bound
<1>4. LatencyInv' <=> (lastFire' # "never" =>
                        timer' # -1 /\ (~noticed' => pulseAge' + timer' <= bound(rearms')))
  BY DEF LatencyInv, bound
<1>5. CASE OpenSentinel
  <2>1. timer' = TimerPeriod /\ rearms' = rearms + 1
        /\ UNCHANGED <<lastFire, noticed, pulseAge>>
    BY <1>5, Zenon DEF OpenSentinel, StartTimer
  <2> QED
    BY <1>1, <1>2, <1>3, <1>4, <2>1
<1>6. CASE UNCHANGED <<timer, lastFire, noticed, pulseAge, rearms>>
  BY <1>6, <1>3, <1>4
<1>7. CASE pulseAge' = 0 /\ rearms' = 0 /\ UNCHANGED <<timer, lastFire>>
  BY <1>1, <1>2, <1>3, <1>4, <1>7
<1>8. CASE TimerFires
  <2>1. timer' = TimerPeriod /\ UNCHANGED <<pulseAge, rearms>>
    BY <1>8, Zenon DEF TimerFires, CheckPulse, agentVars
  <2>2. noticed' \/ pulseAge <= PulseTimeout
    BY <1>8, <1>1 DEF TimerFires, CheckPulse, PulseAbsent
  <2> QED
    BY <1>1, <1>2, <1>4, <2>1, <2>2
<1>9. CASE Tick
  <2>1. /\ timer # 0
        /\ timer' = IF timer > 0 THEN timer - 1 ELSE timer
        /\ pulseAge' = IF pulseAge = -1 \/ pulseAge = AgeCap THEN pulseAge ELSE pulseAge + 1
        /\ UNCHANGED <<lastFire, noticed, rearms>>
    BY <1>9, Zenon DEF Tick, KernelTick
  <2> QED
    BY <1>1, <1>2, <1>3, <1>4, <2>1
<1> QED
  <2>1. CASE FirstPulse \/ Pulse
    BY <1>6, <1>7, <2>1, Zenon DEF FirstPulse, Pulse, Goto, PulseUpdate, kernelVars
  <2>2. CASE Boot \/ Die \/ OpenUnarmed \/ OpenFails \/ DrainFails \/ DrainDone
               \/ EnterLoop \/ UNCHANGED vars
    BY <1>6, <2>2, Zenon
       DEF Boot, Die, OpenUnarmed, OpenFails, DrainFails, DrainDone, EnterLoop, Goto,
           vars, kernelVars, agentVars
  <2>3. CASE \/ \E parsed \in BOOLEAN : DrainOne(parsed)
             \/ \E delivered \in BOOLEAN : Report(delivered)
             \/ \E d \in Work : OtherBranch(d)
    BY <1>6, <2>3, Zenon DEF DrainOne, Report, OtherBranch, Goto, kernelVars
  <2> QED
    BY <1>5, <1>8, <1>9, <2>1, <2>2, <2>3, Zenon DEF Next

-----------------------------------------------------------------------------
(* No false alarm *)

\* The pulse's age is what the ticker and the branch in progress account for.
LEMMA StepAlarm ==
    ASSUME TypeInv, AlarmInv, [Next]_vars
    PROVE  AlarmInv'
<1>1. /\ pulseAge \in -1 .. AgeCap /\ pulseTick \in 1 .. PulseInterval /\ busy \in Nat
      /\ AgeCap \in Nat /\ PulseInterval \in Nat \ {0} /\ Work \in SUBSET Nat
  BY SentinelAssumption, AgentAssumption DEF TypeInv, TypeOK, KernelOK, AgentOK
<1>2. CASE late' = TRUE
  BY <1>2 DEF AlarmInv
<1>3. CASE UNCHANGED <<late, pulseAge, tickReady, pulseTick, busy>>
             /\ (phase' = phase \/ (phase # "loop" /\ phase' # "loop"))
  BY <1>3, Zenon DEF AlarmInv
<1>4. CASE EnterLoop
  BY <1>4 DEF EnterLoop, AlarmInv
<1>5. CASE FirstPulse
  BY <1>5 DEF FirstPulse, Goto, AlarmInv
<1>6. CASE Pulse /\ late' # TRUE
  <2>1. /\ phase' = "loop" /\ pulseAge' = 0 /\ busy' = 0 /\ pulseTick' = pulseTick
    BY <1>6 DEF Pulse, Idle, PulseUpdate
  <2>2. pulseAge' + busy' <= PulseInterval + 1 - 1
    BY <1>1, <2>1
  <2> QED
    BY <1>1, <2>1, <2>2 DEF AlarmInv
<1>7. CASE (\E d \in Work : OtherBranch(d)) /\ late' # TRUE
  <2>1. PICK d \in Work : OtherBranch(d)
    BY <1>7
  <2>2. /\ phase' = phase /\ phase = "loop" /\ busy' = d /\ ~late /\ ~tickReady /\ tickReady' = tickReady
        /\ pulseTick' = pulseTick /\ pulseAge' = pulseAge
    BY <1>7, <2>1, Zenon DEF OtherBranch, Idle, kernelVars
  <2>3. /\ pulseAge # -1 /\ pulseAge + pulseTick <= PulseInterval
    BY <2>2 DEF AlarmInv
  <2>4. d \in Nat /\ pulseAge' + busy' <= PulseInterval + d - 1
    BY <1>1, <2>2, <2>3
  <2> QED
    BY <2>2, <2>3, <2>4 DEF AlarmInv
<1>8. CASE TimerFires
  BY <1>3, <1>8, Zenon DEF TimerFires, CheckPulse, agentVars
<1>9. CASE Tick /\ ~late
  <2>1. /\ phase = "loop" /\ phase' = "loop" /\ late' = late
        /\ pulseAge # -1
        /\ ~tickReady => pulseAge + pulseTick <= PulseInterval
    BY <1>9, Zenon DEF Tick, AlarmInv
  <2>2. /\ ~(busy = 0 /\ tickReady)
        /\ busy' = IF busy > 0 THEN busy - 1 ELSE 0
        /\ pulseTick' = IF pulseTick = 1 THEN PulseInterval ELSE pulseTick - 1
        /\ pulseAge' = IF pulseAge = AgeCap THEN pulseAge ELSE pulseAge + 1
    BY <1>9, <2>1 DEF Tick, KernelTick, Idle
  <2>3. ~tickReady' => ~tickReady /\ pulseTick # 1
    BY <1>9, <2>1, Zenon DEF Tick
  <2>4. pulseAge' # -1
    BY <1>1, <2>1, <2>2
  <2>5. ~tickReady' => pulseAge' + pulseTick' <= PulseInterval
    BY <1>1, <2>1, <2>2, <2>3
  <2>6. \E d \in Work \cup {1} : pulseAge' + busy' <= PulseInterval + d - 1
    <3>1. CASE busy = 0
      <4>1. pulseAge' + busy' <= PulseInterval + 1 - 1
        BY <1>1, <2>1, <2>2, <3>1
      <4> QED
        BY <4>1
    <3>2. CASE busy # 0
      <4>1. PICK d \in Work \cup {1} : pulseAge + busy <= PulseInterval + d - 1
        BY <1>9 DEF AlarmInv
      <4>2. pulseAge' + busy' <= PulseInterval + d - 1
        BY <1>1, <2>2, <3>2, <4>1
      <4> QED
        BY <4>2
    <3> QED
      BY <3>1, <3>2
  <2> QED
    BY <2>1, <2>4, <2>5, <2>6 DEF AlarmInv
<1>10. CASE Tick /\ late
  BY <1>10 DEF Tick, AlarmInv
<1> QED
  <2>1. CASE Pulse \/ (\E d \in Work : OtherBranch(d))
    BY <1>2, <1>6, <1>7, <2>1
  <2>2. CASE Die
    BY <1>2, <2>2 DEF Die
  <2>3. CASE Boot \/ OpenSentinel \/ OpenUnarmed \/ OpenFails \/ DrainFails \/ DrainDone
               \/ UNCHANGED vars
    BY <1>3, <2>3
       DEF Boot, OpenSentinel, StartTimer, OpenUnarmed, OpenFails, DrainFails, DrainDone,
           Goto, vars, kernelVars, agentVars
  <2>4. CASE \/ \E parsed \in BOOLEAN : DrainOne(parsed)
             \/ \E delivered \in BOOLEAN : Report(delivered)
    BY <1>3, <2>4 DEF DrainOne, Report, Goto, kernelVars
  <2>5. CASE Tick
    BY <1>9, <1>10, <2>5
  <2> QED
    BY <1>4, <1>5, <1>8, <2>1, <2>2, <2>3, <2>4, <2>5, Zenon DEF Next

-----------------------------------------------------------------------------
(* The way of the events *)

\* The events of the sequences the model builds.
LEMMA EventsOf ==
    ASSUME NEW S, NEW s \in Seq(S), NEW t \in Seq(S), NEW e \in S
    PROVE  /\ Range(<< >>) = {}
           /\ Range(s \o t) = Range(s) \cup Range(t)
           /\ Range(Append(s, e)) = Range(s) \cup {e}
           /\ s # << >> => Range(s) = {Head(s)} \cup Range(Tail(s))
<1>1. Range(<< >>) = {}
  BY DEF Range
<1>2. Range(s \o t) = Range(s) \cup Range(t)
  BY RangeConcatenation
<1>3. Range(Append(s, e)) = Range(s) \cup {e}
  BY AppendProperties, LenProperties DEF Range
<1>4. ASSUME s # << >>
      PROVE  Range(s) = {Head(s)} \cup Range(Tail(s))
  <2>1. /\ Tail(s) \in Seq(S) /\ Len(Tail(s)) = Len(s) - 1 /\ Len(s) \in Nat \ {0}
        /\ DOMAIN s = 1 .. Len(s) /\ DOMAIN Tail(s) = 1 .. Len(Tail(s))
        /\ \A i \in 1 .. Len(Tail(s)) : Tail(s)[i] = s[i + 1]
    BY <1>4, HeadTailProperties, LenProperties, EmptySeq
  <2>2. Head(s) = s[1]
    BY <1>4
  <2>3. ASSUME NEW x \in Range(s) PROVE x \in {Head(s)} \cup Range(Tail(s))
    <3>1. PICK i \in 1 .. Len(s) : x = s[i]
      BY <2>1 DEF Range
    <3>2. CASE i # 1
      <4>1. i - 1 \in 1 .. Len(Tail(s)) /\ s[(i - 1) + 1] = x
        BY <2>1, <3>1, <3>2
      <4> QED
        BY <2>1, <4>1 DEF Range
    <3> QED
      BY <2>2, <3>1, <3>2
  <2>4. ASSUME NEW x \in Range(Tail(s)) PROVE x \in Range(s)
    <3>1. PICK i \in 1 .. Len(Tail(s)) : x = Tail(s)[i]
      BY <2>1 DEF Range
    <3>2. i + 1 \in 1 .. Len(s) /\ s[i + 1] = x
      BY <2>1, <3>1
    <3> QED
      BY <2>1, <3>2 DEF Range
  <2>5. Head(s) \in Range(s)
    BY <2>1, <2>2 DEF Range
  <2> QED
    BY <2>3, <2>4, <2>5
<1> QED
  BY <1>1, <1>2, <1>3, <1>4

\* Ordered sequences stay ordered when they lose their head, when an event
\* that comes after all of theirs is appended, and when two of them that
\* follow one another are joined.
LEMMA OrderedOf ==
    ASSUME NEW S, NEW s \in Seq(S), NEW t \in Seq(S), NEW e \in S, Ordered(s)
    PROVE  /\ Ordered(<< >>)
           /\ (\A a \in Range(s) : Precedes(a, e)) => Ordered(Append(s, e))
           /\ Ordered(t) /\ Before(s, t) => Ordered(s \o t)
           /\ s # << >> => /\ Ordered(Tail(s))
                          /\ \A b \in Range(Tail(s)) : Precedes(Head(s), b)
<1>1. Ordered(<< >>)
  BY DEF Ordered
<1>2. Len(s) \in Nat /\ DOMAIN s = 1 .. Len(s) /\ Len(t) \in Nat /\ DOMAIN t = 1 .. Len(t)
  BY LenProperties
<1>3. ASSUME \A a \in Range(s) : Precedes(a, e)
      PROVE  Ordered(Append(s, e))
  <2>1. /\ DOMAIN Append(s, e) = 1 .. Len(s) + 1
        /\ \A i \in 1 .. Len(s) : Append(s, e)[i] = s[i]
        /\ Append(s, e)[Len(s) + 1] = e
    BY <1>2, AppendProperties, LenProperties
  <2>2. \A i \in 1 .. Len(s) : s[i] \in Range(s)
    BY <1>2 DEF Range
  <2> QED
    BY <1>2, <1>3, <2>1, <2>2 DEF Ordered
<1>4. ASSUME Ordered(t), Before(s, t)
      PROVE  Ordered(s \o t)
  <2>1. /\ DOMAIN (s \o t) = 1 .. Len(s) + Len(t)
        /\ \A i \in 1 .. Len(s) + Len(t) :
              (s \o t)[i] = IF i <= Len(s) THEN s[i] ELSE t[i - Len(s)]
    BY <1>2, ConcatProperties, LenProperties
  <2>2. /\ \A i \in 1 .. Len(s) : s[i] \in Range(s)
        /\ \A i \in 1 .. Len(t) : t[i] \in Range(t)
    BY <1>2 DEF Range
  <2> SUFFICES ASSUME NEW i \in 1 .. Len(s) + Len(t), NEW j \in 1 .. Len(s) + Len(t), i < j
               PROVE  Precedes((s \o t)[i], (s \o t)[j])
    BY <2>1 DEF Ordered
  <2>3. CASE j <= Len(s)
    BY <1>2, <2>1, <2>3 DEF Ordered
  <2>4. CASE i <= Len(s) /\ j > Len(s)
    <3>1. j - Len(s) \in 1 .. Len(t)
      BY <1>2, <2>4
    <3> QED
      BY <1>2, <1>4, <2>1, <2>2, <2>4, <3>1 DEF Before
  <2>5. CASE i > Len(s)
    <3>1. i - Len(s) \in 1 .. Len(t) /\ j - Len(s) \in 1 .. Len(t) /\ i - Len(s) < j - Len(s)
      BY <1>2, <2>5
    <3> QED
      BY <1>2, <1>4, <2>1, <2>5, <3>1 DEF Ordered
  <2> QED
    BY <1>2, <2>3, <2>4, <2>5
<1>5. ASSUME s # << >>
      PROVE  Ordered(Tail(s)) /\ \A b \in Range(Tail(s)) : Precedes(Head(s), b)
  <2>1. /\ Tail(s) \in Seq(S) /\ Len(Tail(s)) = Len(s) - 1 /\ Len(s) \in Nat \ {0}
        /\ DOMAIN Tail(s) = 1 .. Len(Tail(s))
        /\ \A i \in 1 .. Len(Tail(s)) : Tail(s)[i] = s[i + 1]
    BY <1>5, HeadTailProperties, LenProperties, EmptySeq
  <2>2. Head(s) = s[1]
    BY <1>5
  <2>3. Ordered(Tail(s))
    BY <1>2, <2>1 DEF Ordered
  <2>4. ASSUME NEW b \in Range(Tail(s)) PROVE Precedes(Head(s), b)
    <3>1. PICK i \in 1 .. Len(Tail(s)) : b = Tail(s)[i]
      BY <2>1 DEF Range
    <3>2. 1 \in 1 .. Len(s) /\ i + 1 \in 1 .. Len(s) /\ 1 < i + 1 /\ b = s[i + 1]
      BY <2>1, <3>1
    <3> QED
      BY <1>2, <2>2, <3>2 DEF Ordered
  <2> QED
    BY <2>3, <2>4
<1> QED
  BY <1>1, <1>3, <1>4, <1>5

\* A new event comes after all those recorded before it.
LEMMA NewEventIsLast ==
    ASSUME TypeOK, OrderInv,
           NEW a \in Range(server) \cup Range(ram) \cup Range(ring)
    PROVE  Precedes(a, AbsenceEvent)
<1>1. a \in Event
  BY RangeOfSeq DEF TypeOK, KernelOK, AgentOK
<1>2. a.id < AbsenceEvent.id
  BY <1>1 DEF Event, AbsenceEvent, TypeOK, KernelOK
<1>3. AbsenceEvent.neverSawPulse => pulseAge = -1
  BY DEF AbsenceEvent
<1> QED
  BY <1>2, <1>3 DEF Precedes, OrderInv

\* Events move from the ring to memory to the server without overtaking.
LEMMA StepOrder ==
    ASSUME TypeInv, OrderInv, RamInv, [Next]_vars
    PROVE  OrderInv' /\ RamInv'
<1>1. ring \in Seq(Event) /\ ram \in Seq(Event) /\ server \in Seq(Event)
  BY DEF TypeInv, TypeOK, KernelOK, AgentOK
<1>2. /\ Ordered(<< >>) /\ Range(<< >>) = {}
      /\ \A u : Before(u, << >>) /\ Before(<< >>, u)
  BY DEF Ordered, Range, Before
<1>3. CASE UNCHANGED <<ring, ram, server>> /\ (pulseAge' = -1 => pulseAge = -1)
             /\ (phase' \notin {"draining", "reporting"} =>
                    phase \notin {"draining", "reporting"} \/ ram = << >>)
  BY <1>3 DEF OrderInv, RamInv
<1>4. CASE Die \/ DrainFails
  <2>1. ram' = << >> /\ UNCHANGED <<ring, server, pulseAge>>
    BY <1>4, Zenon DEF Die, DrainFails, Goto, kernelVars
  <2> QED
    BY <1>2, <2>1 DEF OrderInv, RamInv
<1>5. CASE \E parsed \in BOOLEAN : DrainOne(parsed)
  <2>1. PICK parsed \in BOOLEAN : DrainOne(parsed)
    BY <1>5
  <2>2. /\ ring # << >> /\ ring' = Tail(ring) /\ phase' = "draining"
        /\ ram' \in {ram, Append(ram, Head(ring))} /\ UNCHANGED <<server, pulseAge>>
    BY <2>1 DEF DrainOne
  <2>3. Head(ring) \in Event /\ Range(ring) = {Head(ring)} \cup Range(Tail(ring))
    BY <1>1, <2>2, EventsOf, HeadTailProperties
  <2>4. Ordered(ring') /\ \A b \in Range(ring') : Precedes(Head(ring), b)
    <3>1. Ordered(ring)
      BY DEF OrderInv
    <3> QED
      BY <1>1, <2>2, <2>3, <3>1, OrderedOf
  <2>5. Range(ram') = Range(ram) \/ Range(ram') = Range(ram) \cup {Head(ring)}
    <3>1. Range(Append(ram, Head(ring))) = Range(ram) \cup {Head(ring)}
      BY <1>1, <2>3, EventsOf
    <3> QED
      BY <2>2, <3>1
  <2>6. Ordered(ram')
    <3>1. Ordered(ram) /\ \A a \in Range(ram) : Precedes(a, Head(ring))
      BY <2>3 DEF OrderInv, Before
    <3> QED
      BY <1>1, <2>2, <2>3, <3>1, OrderedOf
  <2> QED
    BY <2>2, <2>3, <2>4, <2>5, <2>6 DEF OrderInv, RamInv, Before
<1>6. CASE \E delivered \in BOOLEAN : Report(delivered)
  <2>1. PICK delivered \in BOOLEAN : Report(delivered)
    BY <1>6
  <2>2. /\ ram' = << >> /\ server' \in {server, server \o ram} /\ UNCHANGED <<ring, pulseAge>>
    BY <2>1 DEF Report, Goto, kernelVars
  <2>3. Ordered(server') /\ Range(server') \subseteq Range(server) \cup Range(ram)
    <3>1. Ordered(server) /\ Ordered(ram) /\ Before(server, ram)
      BY DEF OrderInv
    <3>2. Ordered(server \o ram)
      <4>1. CASE Event = {}
        <5>1. server \o ram \in Seq(Event)
          BY <1>1, ConcatProperties
        <5> QED
          BY <4>1, <5>1, LenProperties DEF Ordered
      <4>2. ASSUME NEW e \in Event PROVE Ordered(server \o ram)
        BY <1>1, <3>1, <4>2, OrderedOf
      <4> QED
        BY <4>1, <4>2
    <3> QED
      BY <1>1, <2>2, <3>1, <3>2, RangeConcatenation
  <2> QED
    BY <1>2, <2>2, <2>3 DEF OrderInv, RamInv, Before
<1>7. CASE TimerFires
  <2>1. UNCHANGED <<ram, server, pulseAge, phase>>
    BY <1>7, Zenon DEF TimerFires, CheckPulse, agentVars
  <2>2. CASE ring' = ring
    BY <1>3, <2>1, <2>2
  <2>3. CASE ring' = Append(ring, AbsenceEvent)
    <3> DEFINE E == [id : 1 .. emitted + 1, neverSawPulse : BOOLEAN]
    <3>1. AbsenceEvent \in E /\ ring \in Seq(E)
      BY AbsenceEventType DEF TypeInv
    <3>2. \A a \in Range(server) \cup Range(ram) \cup Range(ring) : Precedes(a, AbsenceEvent)
      BY NewEventIsLast DEF TypeInv
    <3> HIDE DEF E
    <3>3. Range(ring') = Range(ring) \cup {AbsenceEvent}
      BY <2>3, <3>1, EventsOf
    <3>4. Ordered(ring')
      <4>1. Ordered(ring)
        BY DEF OrderInv
      <4> QED
        BY <2>3, <3>1, <3>2, <4>1, OrderedOf
    <3>5. pulseAge = -1 => AbsenceEvent.neverSawPulse
      BY DEF AbsenceEvent
    <3> QED
      BY <2>1, <3>2, <3>3, <3>4, <3>5 DEF OrderInv, RamInv, Before
  <2> QED
    BY <1>7, <2>2, <2>3, Zenon DEF TimerFires, CheckPulse, EmitAbsence
<1>8. CASE FirstPulse \/ Pulse
  <2>1. /\ UNCHANGED <<ring, ram, server>> /\ pulseAge' \in {0, pulseAge}
        /\ phase \notin {"draining", "reporting"}
    BY <1>8 DEF FirstPulse, Pulse, Goto, Idle, PulseUpdate, kernelVars
  <2> QED
    BY <1>3, <2>1
<1>9. CASE Tick
  <2>1. UNCHANGED <<ring, ram, server, phase>> /\ (pulseAge' = -1 => pulseAge = -1)
    BY <1>9 DEF Tick, KernelTick, TypeInv, TypeOK, KernelOK
  <2> QED
    BY <1>3, <2>1
<1>10. CASE DrainDone
  BY <1>3, <1>10 DEF DrainDone, Goto, kernelVars
<1>11. CASE Boot \/ OpenSentinel \/ OpenUnarmed \/ OpenFails \/ EnterLoop \/ UNCHANGED vars
  BY <1>3, <1>11
     DEF Boot, OpenSentinel, StartTimer, OpenUnarmed, OpenFails, EnterLoop, Goto,
         vars, kernelVars, agentVars
<1>12. CASE \E d \in Work : OtherBranch(d)
  BY <1>3, <1>12 DEF OtherBranch, kernelVars
<1> QED
  BY <1>4, <1>5, <1>6, <1>7, <1>8, <1>9, <1>10, <1>11, <1>12, Zenon DEF Next

-----------------------------------------------------------------------------
(* The theorems *)

IInv == TypeInv /\ LatencyInv /\ AlarmInv /\ OrderInv /\ RamInv

\* The invariant holds at the first boot.
LEMMA InitIInv == Init => IInv
<1> SUFFICES ASSUME Init PROVE IInv
  OBVIOUS
<1>1. TypeInv
  BY InitType
<1>2. LatencyInv /\ AlarmInv /\ RamInv
  BY DEF Init, KernelInit, LatencyInv, AlarmInv, RamInv
<1>3. OrderInv
  <2>1. server = << >> /\ ram = << >> /\ ring = << >>
    BY DEF Init, KernelInit
  <2> QED
    BY <2>1 DEF OrderInv, Ordered, Before, Range
<1> QED
  BY <1>1, <1>2, <1>3 DEF IInv

\* The invariant is inductive.
THEOREM AlwaysIInv == Spec => []IInv
<1>1. IInv /\ [Next]_vars => IInv'
  BY StepType, StepLatency, StepAlarm, StepOrder DEF IInv
<1> QED
  BY InitIInv, <1>1, PTL DEF Spec

\* The type invariant: the ring stays within its room, and an Open never
\* outnumbers the boots.
THEOREM SentinelTypes == Spec => []TypeOK
<1>1. IInv => TypeOK
  BY DEF IInv, TypeInv
<1> QED
  BY AlwaysIInv, <1>1, PTL

\* check_pulse_cb notices a silence at most one period after the timeout,
\* plus one period per Open in between, whatever the period and the timeout.
THEOREM SilenceIsNoticed == Spec => []DetectionLatency
<1>1. IInv => DetectionLatency
  <2> SUFFICES ASSUME IInv, lastFire # "never", ~noticed,
                      pulseAge > PulseTimeout + TimerPeriod * (1 + rearms)
               PROVE  FALSE
    BY DEF DetectionLatency
  <2>1. /\ timer \in Nat /\ pulseAge \in Int /\ rearms \in Nat
    BY SentinelAssumption, AgentAssumption
       DEF IInv, LatencyInv, TypeInv, TypeOK, KernelOK, AgentOK
  <2>2. PulseTimeout + TimerPeriod * (1 + rearms) \in Nat
    BY <2>1, OnePeriodMore, SentinelAssumption
  <2>3. pulseAge + timer <= PulseTimeout + TimerPeriod * (1 + rearms)
    BY DEF IInv, LatencyInv
  <2> QED
    BY <2>1, <2>2, <2>3
<1> QED
  BY AlwaysIInv, <1>1, PTL

\* If every branch of the loop, begun at the last moment before the pulse
\* ticker fires, ends within the timeout, then a loop that takes the pulse
\* branch when its turn comes is never reported absent.
THEOREM NoAlarmWithoutCause ==
    ASSUME BranchesFit
    PROVE  Spec => []NoFalseAlarm
<1>1. IInv => NoFalseAlarm
  <2> SUFFICES ASSUME IInv, phase = "loop", ~late PROVE ~PulseAbsent
    BY DEF NoFalseAlarm
  <2>1. PICK d \in Work \cup {1} : pulseAge + busy <= PulseInterval + d - 1
    BY DEF IInv, AlarmInv
  <2>2. /\ pulseAge \in -1 .. AgeCap /\ pulseAge # -1 /\ busy \in Nat /\ d \in Nat
        /\ PulseInterval \in Nat /\ PulseTimeout \in Nat /\ AgeCap \in Nat
    BY SentinelAssumption, AgentAssumption
       DEF IInv, AlarmInv, TypeInv, TypeOK, KernelOK, AgentOK
  <2>3. PulseInterval + d - 1 <= PulseTimeout
    BY DEF BranchesFit
  <2> QED
    BY <2>1, <2>2, <2>3 DEF PulseAbsent
<1> QED
  BY AlwaysIInv, <1>1, PTL

\* The control plane, the agent's memory and the ring together hold the
\* events in the order the kernel recorded them, none twice, through every
\* drain, crash and restart.
THEOREM EventsStayInOrder == Spec => []ReportedInOrder
<1>1. IInv => ReportedInOrder
  <2> SUFFICES ASSUME IInv PROVE Ordered(server \o ram \o ring)
    BY DEF ReportedInOrder, Ordered, Precedes
  <2>1. ring \in Seq(Event) /\ ram \in Seq(Event) /\ server \in Seq(Event)
    BY DEF IInv, TypeInv, TypeOK, KernelOK, AgentOK
  <2>2. server \o ram \in Seq(Event) /\ server \o ram \o ring \in Seq(Event)
    BY <2>1, ConcatProperties
  <2>3. CASE Event = {}
    BY <2>2, <2>3, LenProperties DEF Ordered
  <2>4. ASSUME NEW e \in Event PROVE Ordered(server \o ram \o ring)
    <3>1. Ordered(server \o ram)
      BY <2>1, <2>4, OrderedOf DEF IInv, OrderInv
    <3>2. Before(server \o ram, ring)
      BY <2>1, RangeConcatenation DEF IInv, OrderInv, Before
    <3> QED
      BY <2>1, <2>2, <2>4, <3>1, <3>2, OrderedOf DEF IInv, OrderInv
  <2> QED
    BY <2>3, <2>4
<1> QED
  BY AlwaysIInv, <1>1, PTL

\* A crash outside the drain and the upload loses no event.
THEOREM LossIsInUpload == Spec => LostOnlyInUpload
<1> DEFINE Kept == \/ phase \in {"draining", "reporting"}
                   \/ Range(ring) \cup Range(ram)
                        \subseteq Range(ring') \cup Range(ram') \cup Range(server')
<1>1. IInv /\ [Next]_vars => [Kept]_vars
  <2> SUFFICES ASSUME IInv, Next, phase \notin {"draining", "reporting"}
               PROVE  Range(ring) \cup Range(ram) \subseteq Range(ring') \cup Range(ram')
    BY Zenon
  <2>1. ram = << >> /\ Range(ram) = {}
    BY DEF IInv, RamInv, Range
  <2>2. CASE ring' = ring
    BY <2>1, <2>2
  <2>3. CASE ring' = Append(ring, AbsenceEvent)
    <3> DEFINE E == [id : 1 .. emitted + 1, neverSawPulse : BOOLEAN]
    <3>1. AbsenceEvent \in E /\ ring \in Seq(E)
      BY AbsenceEventType DEF IInv, TypeInv
    <3> HIDE DEF E
    <3> QED
      BY <2>1, <2>3, <3>1, EventsOf
  <2>4. CASE Boot \/ Die \/ OpenSentinel \/ OpenUnarmed \/ OpenFails \/ DrainFails
               \/ DrainDone \/ FirstPulse \/ EnterLoop \/ Pulse \/ Tick
    BY <2>2, <2>4, Zenon
       DEF Boot, Die, OpenSentinel, StartTimer, OpenUnarmed, OpenFails, DrainFails,
           DrainDone, FirstPulse, EnterLoop, Pulse, PulseUpdate, Tick, KernelTick,
           Goto, kernelVars
  <2>5. CASE \/ \E delivered \in BOOLEAN : Report(delivered)
             \/ \E d \in Work : OtherBranch(d)
    BY <2>2, <2>5, Zenon DEF Report, OtherBranch, Goto, kernelVars
  <2>6. CASE \E parsed \in BOOLEAN : DrainOne(parsed)
    BY <2>6 DEF DrainOne
  <2>7. CASE TimerFires
    BY <2>2, <2>3, <2>7, Zenon DEF TimerFires, CheckPulse, EmitAbsence
  <2> QED
    BY <2>4, <2>5, <2>6, <2>7, Zenon DEF Next
<1> QED
  BY AlwaysIInv, <1>1, PTL DEF Spec, LostOnlyInUpload
=============================================================================
