------------------------- MODULE AgentLifecycleProofs -------------------------
(***************************************************************************)
(* What the agent's files and the control plane agree on, proved for every *)
(* number of attempts, grace period, number of faults and set of keys.     *)
(*                                                                         *)
(* The three properties are not inductive: what makes them hold is that    *)
(* the place in run says which file has not been written yet.              *)
(***************************************************************************)
EXTENDS AgentLifecycle, TLAPS

\* The host key in use is the one on disk, files, once it has been written.  The
\* host key is the first of the files: without it there is no other, and
\* while it is not written back neither is any other.
IdentityInv ==
    /\ hosts \subseteq keystore \cup lost
    /\ phase = "saving" => keystore = {} /\ hostKey # {}
    /\ phase \notin {"down", "identity", "saving"} => hostKey = keystore /\ keystore # {}
    /\ keystore = {} => ~marker /\ keyState = {}
    /\ "host" \in cached => /\ marker => "marker" \in cached
                            /\ keyState # {} => "key" \in cached

\* A key being enrolled means that no state is saved; the key to be saved is
\* the one the server holds; a key in use is the saved one.
KeyInv ==
    /\ keyState # {} => serverKey = keyState
    /\ phase \in {"keyPost", "keySave"} => keyState = {} /\ newKey # {}
    /\ phase = "keySave" => serverKey = newKey
    /\ phase \notin {"session", "posting", "loop"} => pufKey = {}
    /\ pufKey # {} => pufKey = keyState

\* Before the marker is written the baseline has arrived.
BaselineInv ==
    /\ marker => serverBaseline
    /\ phase = "marking" => serverBaseline

\* Failed attempts are counted inside a retry loop only.
AttemptInv == phase \notin {"enrolling", "posting"} => attempt = 0

\* The inductive invariant.
IInv == TypeOK /\ AttemptInv /\ IdentityInv /\ KeyInv /\ BaselineInv

-----------------------------------------------------------------------------
(* Lemmas *)

\* A new key differs from those in use, as long as there are names.
LEMMA NewIdFresh ==
    ASSUME NEW used \in SUBSET KeyIds, used # KeyIds
    PROVE  NewId(used) \in KeyIds /\ NewId(used) \notin used
<1>1. \E id \in KeyIds : id \notin used
  OBVIOUS
<1> QED
  BY <1>1 DEF NewId

\* No key is an optional key.
LEMMA NoKey == {} \in OptionalKey
  BY DEF OptionalKey

\* An optional key consists of names of keys.
LEMMA KeysOnly == ASSUME NEW v \in OptionalKey PROVE v \subseteq KeyIds
  BY DEF OptionalKey

\* Nothing is stored when the agent is installed.
LEMMA InitIInv == Init => IInv
<1> SUFFICES ASSUME Init PROVE IInv
  OBVIOUS
<1>1. TypeOK
  <2>1. KeysOK
    BY NoKey DEF Init, KeysOK
  <2>2. FlagsOK /\ PlaceOK
    BY DEF Init, FlagsOK, PlaceOK
  <2>3. CountsOK
    BY LifecycleAssumption DEF LifecycleAssumption, Init, CountsOK
  <2> QED
    BY <2>1, <2>2, <2>3 DEF TypeOK
<1>2. AttemptInv /\ IdentityInv /\ KeyInv /\ BaselineInv
  BY DEF Init, AttemptInv, IdentityInv, KeyInv, BaselineInv
<1> QED
  BY <1>1, <1>2 DEF IInv

\* The end of the process leaves nothing in memory that could contradict the
\* files.
LEMMA ExitIInv ==
    ASSUME IInv, Exit, UNCHANGED <<disk, server, env>>,
           faults' = faults \/ (faults < MaxFaults /\ faults' = faults + 1)
    PROVE  IInv'
<1> USE LifecycleAssumption DEF LifecycleAssumption
<1>1. TypeOK'
  <2>1. KeysOK'
    BY NoKey DEF Exit, IInv, TypeOK, KeysOK, disk, files, server, env
  <2>2. FlagsOK'
    BY DEF Exit, IInv, TypeOK, FlagsOK, disk, files, server, env
  <2>3. PlaceOK'
    BY DEF Exit, IInv, TypeOK, PlaceOK, disk, files, server, env
  <2>4. CountsOK'
    BY DEF Exit, IInv, TypeOK, CountsOK, PlaceOK, AttemptInv, disk, files, server, env
  <2> QED
    BY <2>1, <2>2, <2>3, <2>4 DEF TypeOK
<1>2. IdentityInv'
  BY DEF Exit, IInv, TypeOK, KeysOK, PlaceOK, IdentityInv, disk, files, server, env
<1>3. KeyInv'
  BY DEF Exit, IInv, TypeOK, KeysOK, PlaceOK, KeyInv, disk, files, server, env
<1>4. BaselineInv'
  BY DEF Exit, IInv, TypeOK, FlagsOK, PlaceOK, BaselineInv, disk, files, server, env
<1>5. AttemptInv'
  BY DEF Exit, IInv, TypeOK, PlaceOK, AttemptInv, disk, files, server, env
<1> QED
  BY <1>1, <1>2, <1>3, <1>4, <1>5 DEF IInv

\* No step breaks the invariant: one step of the proof for each action.
LEMMA NextIInv == IInv /\ [Next]_vars => IInv'
<1> SUFFICES ASSUME IInv, [Next]_vars PROVE IInv'
  OBVIOUS
<1> USE LifecycleAssumption DEF LifecycleAssumption
<1>1. ASSUME Boot PROVE IInv'
  BY <1>1 DEF Boot, Goto, IInv, TypeOK, KeysOK, FlagsOK, PlaceOK, CountsOK, OptionalKey,
      AttemptInv, IdentityInv, KeyInv, BaselineInv, disk, files, memory, timing, server, env
<1>2. ASSUME LoadHostKey PROVE IInv'
  <2>1. TypeOK'
    <3>1. KeysOK'
      BY <1>2, NoKey DEF LoadHostKey, Goto, IInv, TypeOK, KeysOK, disk, files, memory, timing,
          server, env
    <3>2. FlagsOK'
      BY <1>2 DEF LoadHostKey, Goto, IInv, TypeOK, FlagsOK, disk, files, memory, timing,
          server, env
    <3>3. PlaceOK'
      BY <1>2 DEF LoadHostKey, Goto, IInv, TypeOK, PlaceOK, disk, files, memory, timing,
          server, env
    <3>4. CountsOK'
      BY <1>2 DEF LoadHostKey, Goto, IInv, TypeOK, CountsOK, PlaceOK, AttemptInv, disk, files,
          memory, timing, server, env
    <3> QED
      BY <3>1, <3>2, <3>3, <3>4 DEF TypeOK
  <2>2. IdentityInv'
    BY <1>2 DEF LoadHostKey, Goto, IInv, TypeOK, KeysOK, PlaceOK, IdentityInv, disk, files,
        memory, timing, server, env
  <2>3. KeyInv'
    BY <1>2 DEF LoadHostKey, Goto, IInv, TypeOK, KeysOK, PlaceOK, KeyInv, disk, files, memory,
        timing, server, env
  <2>4. BaselineInv'
    BY <1>2 DEF LoadHostKey, Goto, IInv, TypeOK, FlagsOK, PlaceOK, BaselineInv, disk, files,
        memory, timing, server, env
  <2>5. AttemptInv'
    BY <1>2 DEF LoadHostKey, Goto, IInv, TypeOK, PlaceOK, AttemptInv, disk, files, memory,
        timing, server, env
  <2> QED
    BY <2>1, <2>2, <2>3, <2>4, <2>5 DEF IInv
<1>3. ASSUME SaveHostKey PROVE IInv'
  <2>1. TypeOK'
    <3>1. KeysOK'
      BY <1>3, NoKey DEF SaveHostKey, Goto, IInv, TypeOK, KeysOK, disk, files, memory, timing,
          server, env
    <3>2. FlagsOK'
      BY <1>3 DEF SaveHostKey, Goto, IInv, TypeOK, FlagsOK, disk, files, memory, timing,
          server, env
    <3>3. PlaceOK'
      BY <1>3 DEF SaveHostKey, Goto, IInv, TypeOK, PlaceOK, disk, files, memory, timing,
          server, env
    <3>4. CountsOK'
      BY <1>3 DEF SaveHostKey, Goto, IInv, TypeOK, CountsOK, PlaceOK, AttemptInv, disk, files,
          memory, timing, server, env
    <3> QED
      BY <3>1, <3>2, <3>3, <3>4 DEF TypeOK
  <2>2. IdentityInv'
    BY <1>3 DEF SaveHostKey, Goto, IInv, TypeOK, KeysOK, PlaceOK, IdentityInv, disk, files,
        memory, timing, server, env
  <2>3. KeyInv'
    BY <1>3 DEF SaveHostKey, Goto, IInv, TypeOK, KeysOK, PlaceOK, KeyInv, disk, files, memory,
        timing, server, env
  <2>4. BaselineInv'
    BY <1>3 DEF SaveHostKey, Goto, IInv, TypeOK, FlagsOK, PlaceOK, BaselineInv, disk, files,
        memory, timing, server, env
  <2>5. AttemptInv'
    BY <1>3 DEF SaveHostKey, Goto, IInv, TypeOK, PlaceOK, AttemptInv, disk, files, memory,
        timing, server, env
  <2> QED
    BY <2>1, <2>2, <2>3, <2>4, <2>5 DEF IInv
<1>4. ASSUME SkipBaseline PROVE IInv'
  BY <1>4 DEF SkipBaseline, Goto, IInv, TypeOK, KeysOK, FlagsOK, PlaceOK, CountsOK,
      OptionalKey, AttemptInv, IdentityInv, KeyInv, BaselineInv, disk, files, memory, timing,
      server, env
<1>5. ASSUME MarkEnrolled PROVE IInv'
  BY <1>5 DEF MarkEnrolled, Goto, IInv, TypeOK, KeysOK, FlagsOK, PlaceOK, CountsOK,
      OptionalKey, AttemptInv, IdentityInv, KeyInv, BaselineInv, disk, files, memory, timing,
      server, env
<1>6. ASSUME MarkFails PROVE IInv'
  BY <1>6 DEF MarkFails, Goto, Fault, IInv, TypeOK, KeysOK, FlagsOK, PlaceOK, CountsOK,
      OptionalKey, AttemptInv, IdentityInv, KeyInv, BaselineInv, disk, files, memory, timing,
      server, env
<1>7. ASSUME LoadKeyState PROVE IInv'
  BY <1>7 DEF LoadKeyState, Goto, IInv, TypeOK, KeysOK, FlagsOK, PlaceOK, CountsOK,
      OptionalKey, AttemptInv, IdentityInv, KeyInv, BaselineInv, disk, files, memory, timing,
      server, env
<1>8. ASSUME SkipKey PROVE IInv'
  BY <1>8 DEF SkipKey, Goto, IInv, TypeOK, KeysOK, FlagsOK, PlaceOK, CountsOK,
      OptionalKey, AttemptInv, IdentityInv, KeyInv, BaselineInv, disk, files, memory, timing,
      server, env
<1>9. ASSUME SaveKeyState PROVE IInv'
  BY <1>9 DEF SaveKeyState, Goto, IInv, TypeOK, KeysOK, FlagsOK, PlaceOK, CountsOK,
      OptionalKey, AttemptInv, IdentityInv, KeyInv, BaselineInv, disk, files, memory, timing,
      server, env
<1>10. ASSUME SaveKeyFails PROVE IInv'
  BY <1>10 DEF SaveKeyFails, Goto, Fault, IInv, TypeOK, KeysOK, FlagsOK, PlaceOK,
      CountsOK, OptionalKey, AttemptInv, IdentityInv, KeyInv, BaselineInv, disk, files, memory,
      timing, server, env
<1>11. ASSUME OpenSession PROVE IInv'
  BY <1>11 DEF OpenSession, StartPost, IInv, TypeOK, KeysOK, FlagsOK, PlaceOK, CountsOK,
      OptionalKey, AttemptInv, IdentityInv, KeyInv, BaselineInv, disk, files, memory, timing,
      server, env
<1>12. ASSUME Tick PROVE IInv'
  BY <1>12 DEF Tick, Older, IInv, TypeOK, KeysOK, FlagsOK, PlaceOK, CountsOK,
      OptionalKey, AttemptInv, IdentityInv, KeyInv, BaselineInv, disk, files, memory, timing,
      server, env
<1>13. ASSUME Revoke PROVE IInv'
  <2>1. TypeOK'
    <3>1. KeysOK'
      BY <1>13, NoKey DEF Revoke, IInv, TypeOK, KeysOK, disk, files, memory, timing, server,
          env
    <3>2. FlagsOK'
      BY <1>13 DEF Revoke, IInv, TypeOK, FlagsOK, disk, files, memory, timing, server, env
    <3>3. PlaceOK'
      BY <1>13 DEF Revoke, IInv, TypeOK, PlaceOK, disk, files, memory, timing, server, env
    <3>4. CountsOK'
      BY <1>13 DEF Revoke, IInv, TypeOK, CountsOK, PlaceOK, AttemptInv, disk, files, memory,
          timing, server, env
    <3> QED
      BY <3>1, <3>2, <3>3, <3>4 DEF TypeOK
  <2>2. IdentityInv'
    BY <1>13 DEF Revoke, IInv, TypeOK, KeysOK, PlaceOK, IdentityInv, disk, files, memory,
        timing, server, env
  <2>3. KeyInv'
    BY <1>13 DEF Revoke, IInv, TypeOK, KeysOK, PlaceOK, KeyInv, disk, files, memory, timing,
        server, env
  <2>4. BaselineInv'
    BY <1>13 DEF Revoke, IInv, TypeOK, FlagsOK, PlaceOK, BaselineInv, disk, files, memory,
        timing, server, env
  <2>5. AttemptInv'
    BY <1>13 DEF Revoke, IInv, TypeOK, PlaceOK, AttemptInv, disk, files, memory, timing,
        server, env
  <2> QED
    BY <2>1, <2>2, <2>3, <2>4, <2>5 DEF IInv
<1>14. ASSUME Generate PROVE IInv'
  <2>1. hosts \in SUBSET KeyIds /\ hosts # KeyIds
    BY <1>14 DEF Generate, IInv, TypeOK, KeysOK
  <2>2. NewId(hosts) \in KeyIds
    BY <2>1, NewIdFresh
  <2> QED
    BY <1>14, <2>2 DEF Generate, Goto, IInv, TypeOK, KeysOK, FlagsOK, PlaceOK, CountsOK,
        OptionalKey, AttemptInv, IdentityInv, KeyInv, BaselineInv, disk, files, memory, timing,
        server, env
<1>15. ASSUME EnrollKey PROVE IInv'
  <2>1. serverKey \in SUBSET KeyIds /\ serverKey # KeyIds
    BY DEF IInv, TypeOK, KeysOK, OptionalKey
  <2>2. NewId(serverKey) \in KeyIds
    BY <2>1, NewIdFresh
  <2> QED
    BY <1>15, <2>2 DEF EnrollKey, Goto, IInv, TypeOK, KeysOK, FlagsOK, PlaceOK,
        CountsOK, OptionalKey, AttemptInv, IdentityInv, KeyInv, BaselineInv, disk, files,
        memory, timing, server, env
<1>16. ASSUME SaveHostKeyFails PROVE IInv'
  BY <1>16, ExitIInv DEF SaveHostKeyFails, Fault
<1>17. ASSUME OpenSessionFails PROVE IInv'
  BY <1>17, ExitIInv DEF OpenSessionFails, Fault
<1>18. ASSUME Crash PROVE IInv'
  BY <1>18, ExitIInv DEF Crash, Fault
<1>19. ASSUME NEW outcome \in Outcomes, PostBaseline(outcome) PROVE IInv'
  BY <1>19 DEF PostBaseline, Delivered, IInv, TypeOK, KeysOK, FlagsOK, PlaceOK,
      CountsOK, OptionalKey, AttemptInv, IdentityInv, KeyInv, BaselineInv, disk, files, memory,
      timing, server, env
<1>20. ASSUME NEW outcome \in Outcomes, PostKey(outcome) PROVE IInv'
  BY <1>20 DEF PostKey, Delivered, IInv, TypeOK, KeysOK, FlagsOK, PlaceOK, CountsOK,
      OptionalKey, AttemptInv, IdentityInv, KeyInv, BaselineInv, disk, files, memory, timing,
      server, env
<1>21. ASSUME NEW outcome \in Outcomes, Enroll(outcome) PROVE IInv'
  <2>1. TypeOK'
    <3>1. KeysOK'
      BY <1>21, NoKey, KeysOnly DEF Enroll, Exit, Again, Delivered, IInv, TypeOK,
          KeysOK, disk, files, memory, timing, server, env
    <3>2. FlagsOK'
      BY <1>21 DEF Enroll, Exit, Again, Delivered, IInv, TypeOK, FlagsOK, disk, files, memory,
          timing, server, env
    <3>3. PlaceOK'
      BY <1>21 DEF Enroll, Exit, Again, Delivered, IInv, TypeOK, PlaceOK, disk, files, memory,
          timing, server, env
    <3>4. CountsOK'
      BY <1>21 DEF Enroll, Exit, Again, Delivered, IInv, TypeOK, CountsOK, PlaceOK,
          AttemptInv, disk, files, memory, timing, server, env
    <3> QED
      BY <3>1, <3>2, <3>3, <3>4 DEF TypeOK
  <2>2. IdentityInv'
    BY <1>21 DEF Enroll, Exit, Again, Delivered, IInv, TypeOK, KeysOK, PlaceOK,
        IdentityInv, disk, files, memory, timing, server, env
  <2>3. KeyInv'
    BY <1>21 DEF Enroll, Exit, Again, Delivered, IInv, TypeOK, KeysOK, PlaceOK, KeyInv,
        disk, files, memory, timing, server, env
  <2>4. BaselineInv'
    BY <1>21 DEF Enroll, Exit, Again, Delivered, IInv, TypeOK, FlagsOK, PlaceOK,
        BaselineInv, disk, files, memory, timing, server, env
  <2>5. AttemptInv'
    BY <1>21 DEF Enroll, Exit, Again, Delivered, IInv, TypeOK, PlaceOK, AttemptInv,
        disk, files, memory, timing, server, env
  <2> QED
    BY <2>1, <2>2, <2>3, <2>4, <2>5 DEF IInv
<1>22. ASSUME NEW outcome \in Outcomes, Post(outcome) PROVE IInv'
  <2>1. TypeOK'
    <3>1. KeysOK'
      BY <1>22, NoKey DEF Post, AfterPost, Again, IInv, TypeOK, KeysOK, disk, files, memory,
          timing, server, env
    <3>2. FlagsOK'
      BY <1>22 DEF Post, AfterPost, Again, IInv, TypeOK, FlagsOK, disk, files, memory, timing,
          server, env
    <3>3. PlaceOK'
      BY <1>22 DEF Post, AfterPost, Again, IInv, TypeOK, PlaceOK, disk, files, memory, timing,
          server, env
    <3>4. CountsOK'
      BY <1>22 DEF Post, AfterPost, Again, IInv, TypeOK, CountsOK, PlaceOK, AttemptInv,
          disk, files, memory, timing, server, env
    <3> QED
      BY <3>1, <3>2, <3>3, <3>4 DEF TypeOK
  <2>2. IdentityInv'
    BY <1>22 DEF Post, AfterPost, Again, IInv, TypeOK, KeysOK, PlaceOK, IdentityInv,
        disk, files, memory, timing, server, env
  <2>3. KeyInv'
    BY <1>22 DEF Post, AfterPost, Again, IInv, TypeOK, KeysOK, PlaceOK, KeyInv, disk, files,
        memory, timing, server, env
  <2>4. BaselineInv'
    BY <1>22 DEF Post, AfterPost, Again, IInv, TypeOK, FlagsOK, PlaceOK, BaselineInv,
        disk, files, memory, timing, server, env
  <2>5. AttemptInv'
    BY <1>22 DEF Post, AfterPost, Again, IInv, TypeOK, PlaceOK, AttemptInv, disk, files,
        memory, timing, server, env
  <2> QED
    BY <2>1, <2>2, <2>3, <2>4, <2>5 DEF IInv
<1>23. ASSUME MeasureFails PROVE IInv'
  <2>1. TypeOK'
    <3>1. KeysOK'
      BY <1>23, NoKey DEF MeasureFails, AfterPost, IInv, TypeOK, KeysOK, disk, files, memory,
          timing, server, env
    <3>2. FlagsOK'
      BY <1>23 DEF MeasureFails, AfterPost, IInv, TypeOK, FlagsOK, disk, files, memory, timing,
          server, env
    <3>3. PlaceOK'
      BY <1>23 DEF MeasureFails, AfterPost, IInv, TypeOK, PlaceOK, disk, files, memory, timing,
          server, env
    <3>4. CountsOK'
      BY <1>23 DEF MeasureFails, AfterPost, IInv, TypeOK, CountsOK, PlaceOK, AttemptInv,
          disk, files, memory, timing, server, env
    <3> QED
      BY <3>1, <3>2, <3>3, <3>4 DEF TypeOK
  <2>2. IdentityInv'
    BY <1>23 DEF MeasureFails, AfterPost, IInv, TypeOK, KeysOK, PlaceOK, IdentityInv,
        disk, files, memory, timing, server, env
  <2>3. KeyInv'
    BY <1>23 DEF MeasureFails, AfterPost, IInv, TypeOK, KeysOK, PlaceOK, KeyInv, disk, files,
        memory, timing, server, env
  <2>4. BaselineInv'
    BY <1>23 DEF MeasureFails, AfterPost, IInv, TypeOK, FlagsOK, PlaceOK, BaselineInv,
        disk, files, memory, timing, server, env
  <2>5. AttemptInv'
    BY <1>23 DEF MeasureFails, AfterPost, IInv, TypeOK, PlaceOK, AttemptInv, disk, files,
        memory, timing, server, env
  <2> QED
    BY <2>1, <2>2, <2>3, <2>4, <2>5 DEF IInv
<1>24. ASSUME NEW what \in {"frame", "attest", "proof"}, Branch(what) PROVE IInv'
  BY <1>24 DEF Branch, StartPost, IInv, TypeOK, KeysOK, FlagsOK, PlaceOK, CountsOK,
      OptionalKey, AttemptInv, IdentityInv, KeyInv, BaselineInv, disk, files, memory, timing,
      server, env
<1>25. ASSUME NEW outcome \in Outcomes, Heartbeat(outcome) PROVE IInv'
  <2>1. TypeOK'
    <3>1. KeysOK'
      BY <1>25, NoKey DEF Heartbeat, Exit, IInv, TypeOK, KeysOK, disk, files, memory, timing,
          server, env
    <3>2. FlagsOK'
      BY <1>25 DEF Heartbeat, Exit, IInv, TypeOK, FlagsOK, disk, files, memory, timing, server,
          env
    <3>3. PlaceOK'
      BY <1>25 DEF Heartbeat, Exit, IInv, TypeOK, PlaceOK, disk, files, memory, timing, server,
          env
    <3>4. CountsOK'
      BY <1>25 DEF Heartbeat, Exit, IInv, TypeOK, CountsOK, PlaceOK, AttemptInv, disk, files,
          memory, timing, server, env
    <3> QED
      BY <3>1, <3>2, <3>3, <3>4 DEF TypeOK
  <2>2. IdentityInv'
    BY <1>25 DEF Heartbeat, Exit, IInv, TypeOK, KeysOK, PlaceOK, IdentityInv, disk, files,
        memory, timing, server, env
  <2>3. KeyInv'
    BY <1>25 DEF Heartbeat, Exit, IInv, TypeOK, KeysOK, PlaceOK, KeyInv, disk, files, memory,
        timing, server, env
  <2>4. BaselineInv'
    BY <1>25 DEF Heartbeat, Exit, IInv, TypeOK, FlagsOK, PlaceOK, BaselineInv, disk, files,
        memory, timing, server, env
  <2>5. AttemptInv'
    BY <1>25 DEF Heartbeat, Exit, IInv, TypeOK, PlaceOK, AttemptInv, disk, files, memory,
        timing, server, env
  <2> QED
    BY <2>1, <2>2, <2>3, <2>4, <2>5 DEF IInv
<1>26. ASSUME NEW to \in {"up", "flaky", "down"}, NetworkChanges(to) PROVE IInv'
  BY <1>26 DEF NetworkChanges, IInv, TypeOK, KeysOK, FlagsOK, PlaceOK, CountsOK,
      OptionalKey, AttemptInv, IdentityInv, KeyInv, BaselineInv, disk, files, memory, timing,
      server, env
<1>27. ASSUME LoadHostKeyFails PROVE IInv'
  BY <1>27, ExitIInv DEF LoadHostKeyFails
<1>28. ASSUME Writeback PROVE IInv'
  BY <1>28 DEF Writeback, IInv, TypeOK, KeysOK, FlagsOK, PlaceOK, CountsOK, OptionalKey,
      AttemptInv, IdentityInv, KeyInv, BaselineInv, disk, files, memory, timing, server,
      env
<1>29. ASSUME NEW gone \in SUBSET cached, NEW tears \in BOOLEAN, PowerLoss(gone, tears)
       PROVE  IInv'
  <2>1. TypeOK'
    <3>1. KeysOK'
      BY <1>29, NoKey, KeysOnly DEF PowerLoss, Exit, IInv, TypeOK, KeysOK, server, env
    <3>2. FlagsOK'
      BY <1>29 DEF PowerLoss, Exit, IInv, TypeOK, FlagsOK, server, env
    <3>3. PlaceOK'
      BY <1>29 DEF PowerLoss, Exit, IInv, TypeOK, PlaceOK, server, env
    <3>4. CountsOK'
      BY <1>29 DEF PowerLoss, Exit, Fault, IInv, TypeOK, CountsOK, server, env
    <3> QED
      BY <3>1, <3>2, <3>3, <3>4 DEF TypeOK
  <2>2. IdentityInv'
    BY <1>29 DEF PowerLoss, Exit, IInv, TypeOK, FlagsOK, IdentityInv, server, env
  <2>3. KeyInv'
    BY <1>29 DEF PowerLoss, Exit, IInv, KeyInv, server, env
  <2>4. BaselineInv' /\ AttemptInv'
    BY <1>29 DEF PowerLoss, Exit, IInv, TypeOK, FlagsOK, BaselineInv, AttemptInv, server,
        env
  <2> QED
    BY <2>1, <2>2, <2>3, <2>4 DEF IInv
<1>30. CASE UNCHANGED vars
  BY <1>30 DEF IInv, TypeOK, KeysOK, FlagsOK, PlaceOK, CountsOK, OptionalKey,
      AttemptInv, IdentityInv, KeyInv, BaselineInv, vars, disk, files, memory, timing, server,
      env
<1> QED
  BY <1>1, <1>2, <1>3, <1>4, <1>5, <1>6, <1>7, <1>8, <1>9, <1>10, <1>11, <1>12, <1>13,
      <1>14, <1>15, <1>16, <1>17, <1>18, <1>19, <1>20, <1>21, <1>22, <1>23, <1>24,
      <1>25, <1>26, <1>27, <1>28, <1>29, <1>30 DEF Next, Start, Posting, Beat

-----------------------------------------------------------------------------
(* Theorems *)

\* The invariant holds in every state of the agent.
LEMMA AlwaysIInv == Spec => []IInv
  BY InitIInv, NextIInv, PTL DEF Spec

\* The types of the process, its files and the control plane hold, and the
\* retry loops keep to their number of attempts.
THEOREM LifecycleTypes == Spec => []TypeOK
<1>1. IInv => TypeOK
  BY DEF IInv
<1> QED
  BY AlwaysIInv, <1>1, PTL

\* However often the agent crashes and whichever writes fail, LoadOrCreate
\* gives the control plane one identity per host, as long as no power loss
\* takes the file that was not synced.
THEOREM IdentityIsOne == Spec => []OneIdentity
<1>1. IInv => OneIdentity
  BY DEF IInv, IdentityInv, OneIdentity
<1> QED
  BY AlwaysIInv, <1>1, PTL

\* The key state that run saves or uses belongs to the key the server holds,
\* although every upload may be lost or take effect unheard.
THEOREM KeysAgree == Spec => []ServerHoldsKey
<1>1. IInv => ServerHoldsKey
  <2> SUFFICES ASSUME IInv, NEW k \in keyState \cup pufKey PROVE serverKey = {k}
    BY DEF ServerHoldsKey
  <2>1. k \in keyState /\ serverKey = keyState
    BY DEF IInv, KeyInv
  <2>2. keyState \in OptionalKey
    BY DEF IInv, TypeOK, KeysOK
  <2> QED
    BY <2>1, <2>2 DEF OptionalKey
<1> QED
  BY AlwaysIInv, <1>1, PTL

\* The marker file means that the server has the baseline attestations are
\* compared with, under the identity the host has now.
THEOREM MarkerMeansBaseline == Spec => []AttestationHasBaseline
<1>1. IInv => AttestationHasBaseline
  BY DEF IInv, BaselineInv, AttestationHasBaseline
<1> QED
  BY AlwaysIInv, <1>1, PTL

-----------------------------------------------------------------------------
(* Halting, but for fairness *)

\* What CutOffHalts and RevokedHalts rest on besides fairness: cut off, the
\* loop never makes its last contact younger, and once the grace period is
\* over a heartbeat that is due is answered by the end of the process only;
\* revoked and reachable, so is every heartbeat.
NoReprieve ==
    InLoop /\ InLoop' =>
        /\ net = "down" => contactAge' >= contactAge
        /\ net = "down" /\ contactAge > Grace /\ hbReady => hbReady'
        /\ net = "up" /\ ~license /\ hbReady => hbReady'

\* The loop has no way to go on past the grace period or past a revocation
\* (main.go run, the branches of select): no retry, measurement or late
\* ticker renews the contact, and none uses up the heartbeat.
THEOREM LoopHasNoReprieve == Spec => [][NoReprieve]_vars
<1>1. ASSUME IInv, [Next]_vars PROVE NoReprieve
  <2> DEFINE Goal == /\ net = "down" => contactAge' >= contactAge
                     /\ net = "down" /\ contactAge > Grace /\ hbReady => hbReady'
                     /\ net = "up" /\ ~license /\ hbReady => hbReady'
  <2> SUFFICES ASSUME InLoop, InLoop' PROVE Goal
    BY DEF NoReprieve
  <2>1. phase \in {"loop", "posting"} /\ ~booting /\ phase' # "down"
    BY DEF InLoop
  <2>2. contactAge \in Int /\ Grace \in Int /\ contactAge <= Grace + 1
    BY <1>1, LifecycleAssumption DEF IInv, TypeOK, CountsOK
  <2>3. ASSUME hbReady' = hbReady, net = "down" => contactAge' = contactAge PROVE Goal
    <3>1. net = "down" => contactAge' >= contactAge
      BY <2>2, <2>3
    <3> QED
      BY <2>3, <3>1, Zenon
  <2>4. ASSUME Start \/ SkipBaseline \/ SkipKey \/ SaveHostKeyFails \/ MarkFails
                 \/ SaveKeyFails \/ OpenSessionFails \/ Crash
                 \/ \E gone \in SUBSET cached, tears \in BOOLEAN : PowerLoss(gone, tears)
        PROVE  FALSE
    BY <2>1, <2>4, Zenon DEF Start, Boot, LoadHostKey, LoadHostKeyFails, Generate, SaveHostKey,
        Enroll, PostBaseline, MarkEnrolled, LoadKeyState, EnrollKey, PostKey, SaveKeyState,
        OpenSession, SkipBaseline, SkipKey, SaveHostKeyFails, MarkFails, SaveKeyFails,
        OpenSessionFails, Crash, PowerLoss, Exit, Goto
  <2>5. ASSUME NEW success \in BOOLEAN, AfterPost(success)
        PROVE  /\ hbReady' = hbReady
               /\ contactAge' = IF success THEN 0 ELSE contactAge
    BY <2>1, <2>5 DEF AfterPost
  <2>6. ASSUME NEW out \in Outcomes, Post(out)
        PROVE  /\ hbReady' = hbReady
               /\ net = "down" => contactAge' = contactAge
    <3>1. CASE out = "ok"
      <4>1. net # "down"
        BY <2>6, <3>1 DEF Outcomes
      <4>2. AfterPost(TRUE)
        BY <2>6, <3>1 DEF Post
      <4> QED
        BY <2>5, <4>1, <4>2
    <3>2. CASE out # "ok"
      <4>1. UNCHANGED timing \/ AfterPost(FALSE)
        BY <2>6, <3>2 DEF Post
      <4> QED
        BY <2>5, <4>1 DEF timing
    <3> QED
      BY <3>1, <3>2
  <2>7. ASSUME NEW out \in Outcomes, Heartbeat(out)
        PROVE  /\ net = "down" => contactAge' = contactAge /\ ~(contactAge > Grace)
               /\ net = "up" => license
    <3>1. phase' # "down"
      BY <2>1
    <3>2. /\ ~(out # "ok" /\ contactAge > Grace)
          /\ ~(out = "ok" /\ ~license)
          /\ contactAge' = IF out = "ok" THEN 0 ELSE contactAge
      BY <2>7, <3>1, Zenon DEF Heartbeat, Exit
    <3>3. /\ net = "down" => out = "lost"
          /\ net = "up" => out = "ok"
      BY <2>7 DEF Outcomes
    <3>4. out = "lost" => out # "ok"
      OBVIOUS
    <3> QED
      BY <3>2, <3>3, <3>4, Zenon
  <2>8. ASSUME Tick PROVE hbReady' /\ contactAge' >= contactAge
    <3>1. hbReady' = TRUE /\ contactAge' = Older(contactAge)
      BY <2>1, <2>8, Zenon DEF Tick
    <3>2. contactAge' >= contactAge
      BY <2>2, <3>1 DEF Older
    <3> QED
      BY <3>1, <3>2, Zenon
  <2>9. ASSUME Posting \/ MeasureFails PROVE Goal
    <3>1. hbReady' = hbReady /\ (net = "down" => contactAge' = contactAge)
      BY <2>5, <2>6, <2>9 DEF Posting, MeasureFails
    <3> QED
      BY <2>3, <3>1, Zenon
  <2>10. ASSUME Beat PROVE Goal
    <3>1. /\ net = "down" => contactAge' = contactAge /\ ~(contactAge > Grace)
          /\ net = "up" => license
      BY <2>7, <2>10 DEF Beat
    <3>2. net = "down" => contactAge' >= contactAge
      BY <2>2, <3>1
    <3> QED
      BY <3>1, <3>2, Zenon
  <2>11. ASSUME \/ \E what \in {"frame", "attest", "proof"} : Branch(what)
                \/ Writeback \/ Revoke \/ UNCHANGED vars
                \/ \E to \in {"up", "flaky", "down"} : NetworkChanges(to)
         PROVE  Goal
    <3>1. UNCHANGED timing
      BY <2>11, Zenon DEF Branch, Writeback, Revoke, NetworkChanges, vars
    <3> QED
      BY <2>3, <3>1, Zenon DEF timing
  <2>12. ASSUME Tick PROVE Goal
    BY <2>8, <2>12, Zenon
  <2> HIDE DEF Goal
  <2> QED
    BY <1>1, <2>4, <2>9, <2>10, <2>11, <2>12 DEF Next
<1> QED
  BY <1>1, AlwaysIInv, PTL DEF Spec
=============================================================================
