---------------------------- MODULE AgentSentinel ----------------------------
(***************************************************************************)
(* The agent process and the Kernel Sentinel together: the boot sequence   *)
(* of cmd/963causal-agent/main.go up to its loop (enroll, open, drain,     *)
(* report, first pulse), the pulses of the loop, and crashes and restarts  *)
(* between any two of these steps (internal/sentinel/sentinel.go,          *)
(* internal/license/handshake.go).                                         *)
(***************************************************************************)
EXTENDS KernelSentinel, Functions

CONSTANTS
    MaxBoots,       \* bound: how often the agent process is started
    MaxDrained,     \* bound: events taken out of the ring altogether
    PulseInterval,  \* period of the pulse ticker, in ticks
    Work            \* ticks a branch of the loop may block for

ASSUME AgentAssumption ==
    /\ MaxBoots \in Nat /\ MaxDrained \in Nat
    /\ PulseInterval \in Nat \ {0} /\ Work \in SUBSET Nat

VARIABLES
    phase,      \* where the process is; "down" when there is none
    ram,        \* absence events read from the ring, not yet uploaded
    pulseTick,  \* ticks until the pulse ticker fires
    tickReady,  \* a value is waiting in the ticker's channel
    busy,       \* ticks the loop stays inside its current branch
    late,       \* no pulse in the loop yet, or its turn was missed
    boots,      \* process starts so far
    rearms,     \* Opens since the last pulse
    server      \* the absence events the control plane has received

agentVars == <<phase, ram, pulseTick, tickReady, busy, late, boots, rearms, server>>
vars == <<kernelVars, agentVars>>

Init ==
    /\ KernelInit
    /\ phase = "down"
    /\ ram = << >>
    /\ pulseTick = PulseInterval
    /\ tickReady = FALSE
    /\ busy = 0
    /\ late = TRUE
    /\ boots = 0
    /\ rearms = 0
    /\ server = << >>

\* The step moves the process to phase `to` and keeps the other local state.
Goto(from, to) ==
    /\ phase = from /\ phase' = to
    /\ UNCHANGED <<pulseTick, tickReady, busy, late, boots>>

-----------------------------------------------------------------------------
(* Boot *)

Boot ==
    /\ phase = "down" /\ boots < MaxBoots
    /\ phase' = "enrolling"
    /\ boots' = boots + 1
    /\ UNCHANGED <<kernelVars, ram, pulseTick, tickReady, busy, late, rearms, server>>

\* RetryEnroll gave up, or the loop returned: the process exits.  A crash or
\* a kill ends it at any other point.  What it held in memory is gone.
Die ==
    /\ phase # "down"
    /\ phase' = "down"
    /\ ram' = << >>
    /\ tickReady' = FALSE
    /\ busy' = 0
    /\ late' = TRUE
    /\ UNCHANGED <<kernelVars, pulseTick, boots, rearms, server>>

\* Enrolled; sentinel.Open pins the objects and runs start_timer.
OpenSentinel ==
    /\ Goto("enrolling", "draining")
    /\ StartTimer
    /\ rearms' = rearms + 1
    /\ UNCHANGED <<ram, server>>

\* start_timer failed in the kernel: runProg returns its code, and Open
\* looks only at the error of the call.
OpenUnarmed ==
    /\ Goto("enrolling", "draining")
    /\ UNCHANGED <<kernelVars, ram, rearms, server>>

\* sentinel.Open failed; the agent continues without a sentinel.
OpenFails ==
    /\ Goto("enrolling", "unwatched")
    /\ UNCHANGED <<kernelVars, ram, rearms, server>>

\* Mutant of DrainOne: the record is read but not consumed.
DrainOne_Peeks(parsed) ==
    /\ phase = "draining" /\ ring # << >>
    /\ ram' = IF parsed THEN Append(ram, Head(ring)) ELSE ram
    /\ UNCHANGED <<kernelVars, phase, pulseTick, tickReady, busy, late, boots,
                   rearms, server>>

\* DrainAbsences reads one record, which frees its room in the ring; a
\* record that does not parse (a version mismatch) is skipped.
DrainOne(parsed) ==
    /\ phase = "draining" /\ ring # << >>
    /\ emitted - Len(ring) < MaxDrained
    /\ ram' = IF parsed THEN Append(ram, Head(ring)) ELSE ram
    /\ ring' = Tail(ring)
    /\ UNCHANGED <<timer, pulseAge, emitted, lastFire, noticed, phase,
                   pulseTick, tickReady, busy, late, boots, rearms, server>>

\* A read fails: the records read so far are not reported.
DrainFails ==
    /\ Goto("draining", "pulsing")
    /\ ram' = << >>
    /\ UNCHANGED <<kernelVars, rearms, server>>

DrainDone ==
    /\ ring = << >>
    /\ Goto("draining", IF ram = << >> THEN "pulsing" ELSE "reporting")
    /\ UNCHANGED <<kernelVars, ram, rearms, server>>

\* PostAbsenceReport is attempted once.  The report may reach the control
\* plane although the reply is lost; either way the events are forgotten.
Report(delivered) ==
    /\ Goto("reporting", "pulsing")
    /\ server' = IF delivered THEN server \o ram ELSE server
    /\ ram' = << >>
    /\ UNCHANGED <<kernelVars, rearms>>

\* The first pulse, or an attempt that is logged and forgotten.
FirstPulse ==
    /\ Goto("pulsing", "starting")
    /\ \/ PulseUpdate /\ rearms' = 0
       \/ UNCHANGED <<kernelVars, rearms>>
    /\ UNCHANGED <<ram, server>>

\* PUF enrolment, the tickers, the first frame: the loop begins.
EnterLoop ==
    /\ phase = "starting"
    /\ phase' = "loop"
    /\ pulseTick' = PulseInterval
    /\ UNCHANGED <<kernelVars, ram, tickReady, busy, late, boots, rearms, server>>

-----------------------------------------------------------------------------
(* The loop *)

\* The select of the loop is at rest.
Idle == phase = "loop" /\ busy = 0

\* The pulse branch of the select.
Pulse ==
    /\ Idle /\ tickReady
    /\ tickReady' = FALSE
    /\ \/ PulseUpdate /\ rearms' = 0 /\ late' = FALSE
       \/ UNCHANGED <<kernelVars, rearms>> /\ late' = TRUE
    /\ UNCHANGED <<phase, ram, pulseTick, busy, boots, server>>

\* Any other branch: a frame, an attestation, a proof or a heartbeat, which
\* blocks the loop while it measures, posts and retries.  The select picks
\* among the ready branches at random, so a waiting pulse may be passed over.
OtherBranch(d) ==
    /\ Idle /\ d > 0
    /\ busy' = d
    /\ late' = (late \/ tickReady)
    /\ UNCHANGED <<kernelVars, phase, ram, pulseTick, tickReady, boots,
                   rearms, server>>

-----------------------------------------------------------------------------

\* The callback reads only the pinned maps.
TimerFires == CheckPulse /\ UNCHANGED agentVars

\* Mutant of Tick: the ticker's channel has no buffer, so a tick that finds
\* the loop inside another branch is gone.
Tick_Unbuffered ==
    /\ ~(Idle /\ tickReady)
    /\ KernelTick
    /\ busy' = IF busy > 0 THEN busy - 1 ELSE 0
    /\ IF phase = "loop"
       THEN /\ pulseTick' = IF pulseTick = 1 THEN PulseInterval ELSE pulseTick - 1
            /\ tickReady' = (pulseTick = 1 /\ busy = 0)
       ELSE UNCHANGED <<pulseTick, tickReady>>
    /\ UNCHANGED <<phase, ram, late, boots, rearms, server>>

\* A tick of the clock, for the kernel, the ticker and the busy loop.  A
\* loop at rest with a pulse to send does not wait.
Tick ==
    /\ ~(Idle /\ tickReady)
    /\ KernelTick
    /\ busy' = IF busy > 0 THEN busy - 1 ELSE 0
    /\ IF phase = "loop"
       THEN /\ pulseTick' = IF pulseTick = 1 THEN PulseInterval ELSE pulseTick - 1
            /\ tickReady' = (tickReady \/ pulseTick = 1)
       ELSE UNCHANGED <<pulseTick, tickReady>>
    /\ UNCHANGED <<phase, ram, late, boots, rearms, server>>

Next ==
    \/ Boot \/ Die
    \/ OpenSentinel \/ OpenUnarmed \/ OpenFails
    \/ \E parsed \in BOOLEAN : DrainOne(parsed)
    \/ DrainFails \/ DrainDone
    \/ \E delivered \in BOOLEAN : Report(delivered)
    \/ FirstPulse \/ EnterLoop
    \/ Pulse
    \/ \E d \in Work : OtherBranch(d)
    \/ TimerFires
    \/ Tick

\* The kernel's clock and timer run; nothing is assumed of the agent.
Fairness == WF_vars(Tick) /\ WF_vars(TimerFires)

Spec == Init /\ [][Next]_vars /\ Fairness

-----------------------------------------------------------------------------
(* Properties *)

Event == [id : 1 .. emitted, neverSawPulse : BOOLEAN]

\* The type invariant; the ring never holds more than it has room for.
KernelOK ==
    /\ timer \in -1 .. TimerPeriod
    /\ pulseAge \in -1 .. AgeCap
    /\ ring \in Seq(Event) /\ Len(ring) <= RingCap
    /\ emitted \in Nat
    /\ lastFire \in {"never", "fresh", "recorded", "dropped"}
AgentOK ==
    /\ phase \in {"down", "enrolling", "draining", "reporting", "pulsing",
                  "starting", "loop", "unwatched"}
    /\ ram \in Seq(Event) /\ server \in Seq(Event)
    /\ pulseTick \in 1 .. PulseInterval
    /\ busy \in {0} \cup UNION {0 .. d : d \in Work}
    /\ boots \in 0 .. MaxBoots /\ rearms \in 0 .. MaxBoots
FlagsOK == noticed \in BOOLEAN /\ tickReady \in BOOLEAN /\ late \in BOOLEAN
TypeOK == KernelOK /\ AgentOK /\ FlagsOK

\* How late a silence can be noticed once the timer runs: one timer period
\* after the pulse has timed out, plus one for every restart in between,
\* because each Open moves the pending expiry of the running timer.
DetectionLatency ==
    lastFire # "never" /\ pulseAge > PulseTimeout + TimerPeriod * (1 + rearms)
        => noticed

\* No false alarm: while the loop takes the pulse branch as soon as the one
\* before it ends, the pulse is never found absent, although every other
\* branch may block for as long as its retries last.
NoFalseAlarm == phase = "loop" /\ ~late => ~PulseAbsent

\* The control plane sees every event at most once and in the order the
\* kernel recorded them, across drains, crashes and restarts; and none that
\* says the agent was never seen comes after one that has seen it: the map
\* that holds the pulse outlives every process, as the ring does.
ReportedInOrder ==
    LET all == server \o ram \o ring
    IN  \A i, j \in DOMAIN all : i < j =>
            /\ all[i].id < all[j].id
            /\ all[j].neverSawPulse => all[i].neverSawPulse

\* An event that left the ring is lost only while the agent holds it in
\* memory during the drain or the single upload attempt; a crash anywhere
\* else loses nothing.
LostOnlyInUpload ==
    [][\/ phase \in {"draining", "reporting"}
       \/ Range(ring) \cup Range(ram)
            \subseteq Range(ring') \cup Range(ram') \cup Range(server')]_vars

\* An agent that dies and stays down after the timer was ever started leaves
\* an absence event for the next boot, even if it never pulsed.
DeadIsRecorded == [](timer # -1 /\ []( phase = "down") => <>(ring # << >>))

-----------------------------------------------------------------------------
(* What a comment in sentinel.c says *)

\* sentinel.c: the timer "fires periodically (independent of any agent
\* process)": nothing but its own callback puts the next expiry off.
FiresIndependently == [][timer > 0 => timer' <= timer]_vars
=============================================================================
