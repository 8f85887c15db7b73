---------------------------- MODULE KernelSentinel ----------------------------
(***************************************************************************)
(* The half of the Kernel Sentinel that lives in the kernel                *)
(* (internal/sentinel/bpf/sentinel.c): the pinned pulse map, the           *)
(* self-re-arming BPF timer that looks for a stale pulse, and the ring     *)
(* buffer of absence events.  All of it outlives the agent.                *)
(*                                                                         *)
(* Time is counted in ticks; instants are kept as ages, so that nothing    *)
(* grows without bound.  AgeCap is where the age of a pulse saturates.     *)
(***************************************************************************)
EXTENDS Integers, Sequences

CONSTANTS
    TimerPeriod,    \* TIMER_PERIOD_NS, in ticks
    PulseTimeout,   \* PULSE_TIMEOUT_NS, in ticks
    AgeCap,         \* bound: ages above it are not told apart
    RingCap         \* events absence_ringbuf has room for

ASSUME SentinelAssumption ==
    /\ TimerPeriod \in Nat \ {0}
    /\ PulseTimeout \in Nat
    /\ AgeCap \in Nat /\ AgeCap > PulseTimeout
    /\ RingCap \in Nat \ {0}

VARIABLES
    timer,      \* ticks until the callback runs; -1 when never started
    pulseAge,   \* ticks since the pulse in pulse_map; -1 when there is none
    ring,       \* the events in absence_ringbuf, oldest first
    emitted,    \* how many events were ever put in the ring
    lastFire,   \* what the last run of the callback did
    noticed     \* the callback has found the pulse absent since the last one

kernelVars == <<timer, pulseAge, ring, emitted, lastFire, noticed>>

KernelInit ==
    /\ timer = -1
    /\ pulseAge = -1
    /\ ring = << >>
    /\ emitted = 0
    /\ lastFire = "never"
    /\ noticed = FALSE

\* Mutant of StartTimer: Open loads fresh maps instead of the pinned ones.
StartTimer_FreshRing ==
    /\ timer' = TimerPeriod
    /\ ring' = << >> /\ pulseAge' = -1
    /\ UNCHANGED <<emitted, lastFire, noticed>>

\* start_timer: EBUSY from bpf_timer_init is ignored, and bpf_timer_start on
\* a running timer moves its expiry to a full period from now.
StartTimer ==
    /\ timer' = TimerPeriod
    /\ UNCHANGED <<pulseAge, ring, emitted, lastFire, noticed>>

\* Sentinel.Pulse: the map entry is replaced.
PulseUpdate ==
    /\ pulseAge' = 0
    /\ noticed' = FALSE
    /\ UNCHANGED <<timer, ring, emitted, lastFire>>

\* The condition of check_pulse_cb.
PulseAbsent == pulseAge = -1 \/ pulseAge > PulseTimeout

\* struct absence_event: the event says whether a pulse was ever seen (flag
\* never_saw_pulse); id tells the events apart.
AbsenceEvent == [id |-> emitted + 1, neverSawPulse |-> pulseAge = -1]

\* Mutant of EmitAbsence: the result of the reservation is not checked.
EmitAbsence_Unreserved ==
    /\ ring' = Append(ring, AbsenceEvent)
    /\ emitted' = emitted + 1
    /\ lastFire' = "recorded"

\* emit_absence: when there is no room, bpf_ringbuf_reserve returns NULL and
\* the event is given up.
EmitAbsence ==
    IF Len(ring) < RingCap
    THEN /\ ring' = Append(ring, AbsenceEvent)
         /\ emitted' = emitted + 1
         /\ lastFire' = "recorded"
    ELSE /\ lastFire' = "dropped"
         /\ UNCHANGED <<ring, emitted>>

\* Mutant of CheckPulse: the callback does not re-arm the timer.
CheckPulse_OneShot ==
    /\ timer = 0
    /\ timer' = -1
    /\ \/ PulseAbsent /\ EmitAbsence /\ noticed' = TRUE
       \/ ~PulseAbsent /\ lastFire' = "fresh" /\ UNCHANGED <<ring, emitted, noticed>>
    /\ UNCHANGED pulseAge

\* check_pulse_cb, which always re-arms the timer.
CheckPulse ==
    /\ timer = 0
    /\ timer' = TimerPeriod
    /\ \/ PulseAbsent /\ EmitAbsence /\ noticed' = TRUE
       \/ ~PulseAbsent /\ lastFire' = "fresh" /\ UNCHANGED <<ring, emitted, noticed>>
    /\ UNCHANGED pulseAge

\* One tick of CLOCK_MONOTONIC; an expired timer runs first.
KernelTick ==
    /\ timer # 0
    /\ timer' = IF timer > 0 THEN timer - 1 ELSE timer
    /\ pulseAge' = IF pulseAge = -1 \/ pulseAge = AgeCap THEN pulseAge ELSE pulseAge + 1
    /\ UNCHANGED <<ring, emitted, lastFire, noticed>>
=============================================================================
