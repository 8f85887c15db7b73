---------------------------- MODULE AgentLifecycle ----------------------------
(***************************************************************************)
(* The life of the agent process against the control plane                 *)
(* (cmd/963causal-agent/main.go run, internal/license/handshake.go,        *)
(* internal/identity/keystore.go, internal/puf/agent.go and keylife.go):   *)
(* host key, enrolment with retries, PUF baseline and PUF key, the loop    *)
(* with its posts, heartbeats and grace period.  Files survive a crash,    *)
(* memory does not, and a crash may fall between any two steps; nothing is *)
(* synced, so a power loss may take what was written last.  The Kernel     *)
(* Sentinel steps of run are in AgentSentinel.                             *)
(*                                                                         *)
(* An optional value is {} or {value}.  Keys are random, so a new one      *)
(* differs from every key that is stored anywhere; ids nobody holds any    *)
(* more are used again.  One tick of the clock is a heartbeat interval.    *)
(***************************************************************************)
EXTENDS Integers

CONSTANTS
    KeyIds,         \* names for keys
    EnrollAttempts, \* attempts of RetryEnroll (10 in the code)
    PostAttempts,   \* maxRetries of the loop (3)
    Grace,          \* GracePeriodSec, in ticks
    MaxFaults       \* bound: crashes, failed writes and failed decryptions

ASSUME LifecycleAssumption ==
    /\ KeyIds # {} /\ \A id \in KeyIds : KeyIds # {id}
    /\ EnrollAttempts \in Nat \ {0} /\ PostAttempts \in Nat \ {0}
    /\ Grace \in Nat /\ MaxFaults \in Nat

VARIABLES
    \* disk
    keystore,       \* the host key file
    marker,         \* the PUF "enrolled" file exists
    keyState,       \* puf.keystore.json: the PUF key it belongs to
    cached,         \* the files that are not on the platter yet
    torn,           \* the host key file is there and its contents are not
    lost,           \* host keys whose file a power loss has taken
    \* process
    phase,          \* where run is; "down" when there is no process
    hostKey,        \* the host key in memory
    newKey,         \* a PUF key enrolled and not yet saved
    pufKey,         \* the PUF key state the process uses
    attempt,        \* failed attempts of the current retry loop
    job,            \* what the retry loop posts
    booting,        \* the post belongs to the start of run, not to its loop
    contactAge,     \* ticks since lastContact
    hbReady,        \* hbTick has fired
    \* control plane and network
    hosts,          \* the host keys registered
    serverBaseline, \* a PUF baseline is stored for the host key in use
    serverKey,      \* the PUF public key its proofs are checked against
    net,            \* "up", "flaky" or "down"
    license,        \* the license is valid
    faults          \* faults so far

files  == <<keystore, marker, keyState>>
disk   == <<files, cached, torn, lost>>
memory == <<hostKey, newKey, pufKey>>
timing == <<contactAge, hbReady>>
server == <<hosts, serverBaseline, serverKey>>
env    == <<net, license>>
vars   == <<disk, phase, memory, attempt, job, booting, timing, server, env, faults>>

Init ==
    /\ keystore = {} /\ marker = FALSE /\ keyState = {}
    /\ cached = {} /\ torn = FALSE /\ lost = {}
    /\ phase = "down"
    /\ hostKey = {} /\ newKey = {} /\ pufKey = {}
    /\ attempt = 0 /\ job = "none" /\ booting = TRUE
    /\ contactAge = 0 /\ hbReady = FALSE
    /\ hosts = {} /\ serverBaseline = FALSE /\ serverKey = {}
    /\ net = "up" /\ license = TRUE
    /\ faults = 0

-----------------------------------------------------------------------------
(* Posts: Client.post.  "ok" is a 2xx reply; the other outcomes are errors *)
(* to the agent, and "unheard" is one the server has acted upon.           *)

Outcomes ==
    CASE net = "up"    -> {"ok"}
      [] net = "flaky" -> {"ok", "unheard", "lost"}
      [] net = "down"  -> {"lost"}

Delivered(outcome) == outcome \in {"ok", "unheard"}

\* Mutant of Again: one attempt too many.
Again_OffByOne(limit) == attempt + 1 <= limit

\* A retry loop makes another attempt after an error.
Again(limit) == attempt + 1 < limit

NewId(used) == CHOOSE id \in KeyIds : id \notin used

\* The process ends; memory is gone.
Exit ==
    /\ phase' = "down"
    /\ hostKey' = {} /\ newKey' = {} /\ pufKey' = {}
    /\ attempt' = 0 /\ job' = "none" /\ booting' = TRUE
    /\ contactAge' = 0 /\ hbReady' = FALSE

Goto(from, to) == phase = from /\ phase' = to

\* A fault of the disk or of the cipher uses up the fault budget.
Fault == faults < MaxFaults /\ faults' = faults + 1

-----------------------------------------------------------------------------
(* Host key *)

Boot ==
    /\ Goto("down", "identity")
    /\ UNCHANGED <<disk, memory, attempt, job, booting, timing, server, env, faults>>

\* LoadOrCreate finds the file.
LoadHostKey ==
    /\ keystore # {} /\ ~torn
    /\ Goto("identity", "enrolling")
    /\ hostKey' = keystore
    /\ UNCHANGED <<disk, newKey, pufKey, attempt, job, booting, timing, server, env, faults>>

\* It finds a file that does not parse.
LoadHostKeyFails ==
    /\ phase = "identity" /\ keystore # {} /\ torn
    /\ Exit
    /\ UNCHANGED <<disk, server, env, faults>>

\* Mutant of Generate: the key is used before it has been written.
Generate_UseFirst ==
    /\ keystore = {} /\ hosts # KeyIds
    /\ Goto("identity", "enrolling")
    /\ hostKey' = {NewId(hosts)}
    /\ serverBaseline' = FALSE /\ serverKey' = {}
    /\ UNCHANGED <<disk, newKey, pufKey, attempt, job, booting, timing, hosts, env, faults>>

\* There is no file: a key is generated, and only held in memory so far.  To
\* the control plane it is a host it knows nothing of.
Generate ==
    /\ keystore = {} /\ hosts # KeyIds
    /\ Goto("identity", "saving")
    /\ hostKey' = {NewId(hosts)}
    /\ serverBaseline' = FALSE /\ serverKey' = {}
    /\ UNCHANGED <<disk, newKey, pufKey, attempt, job, booting, timing, hosts, env, faults>>

\* The rename of writeAtomic, which does not sync.
SaveHostKey ==
    /\ Goto("saving", "enrolling")
    /\ keystore' = hostKey /\ cached' = cached \cup {"host"}
    /\ UNCHANGED <<marker, keyState, torn, lost, memory, attempt, job, booting, timing,
                   server, env, faults>>

SaveHostKeyFails ==
    /\ phase = "saving" /\ Fault /\ Exit
    /\ UNCHANGED <<disk, server, env>>

-----------------------------------------------------------------------------
(* Enrolment *)

\* One attempt of RetryEnroll.  The server refuses a host without a valid
\* license, which the agent retries like any other error.
Enroll(outcome) ==
    /\ phase = "enrolling"
    /\ hosts' = IF Delivered(outcome) /\ license THEN hosts \cup hostKey ELSE hosts
    /\ \/ /\ outcome = "ok" /\ license
          /\ phase' = "baseline" /\ attempt' = 0
          /\ UNCHANGED <<memory, job, booting, timing>>
       \/ /\ ~(outcome = "ok" /\ license) /\ Again(EnrollAttempts)
          /\ attempt' = attempt + 1
          /\ UNCHANGED <<phase, memory, job, booting, timing>>
       \/ /\ ~(outcome = "ok" /\ license) /\ ~Again(EnrollAttempts)
          /\ Exit
    /\ UNCHANGED <<disk, serverBaseline, serverKey, env, faults>>

-----------------------------------------------------------------------------
(* PUF baseline *)

\* Already enrolled, or the stat or the measurement failed.
SkipBaseline ==
    /\ Goto("baseline", "key")
    /\ UNCHANGED <<disk, memory, attempt, job, booting, timing, server, env, faults>>

\* Mutant of PostBaseline: the error of the upload is not looked at.
PostBaseline_IgnoresError(outcome) ==
    /\ ~marker /\ phase = "baseline"
    /\ serverBaseline' = (serverBaseline \/ Delivered(outcome))
    /\ phase' = "marking"
    /\ UNCHANGED <<disk, memory, attempt, job, booting, timing, hosts, serverKey, env, faults>>

\* Measured and posted, once.
PostBaseline(outcome) ==
    /\ ~marker /\ phase = "baseline"
    /\ serverBaseline' = (serverBaseline \/ Delivered(outcome))
    /\ phase' = IF outcome = "ok" THEN "marking" ELSE "key"
    /\ UNCHANGED <<disk, memory, attempt, job, booting, timing, hosts, serverKey, env, faults>>

MarkEnrolled ==
    /\ Goto("marking", "key")
    /\ marker' = TRUE /\ cached' = cached \cup {"marker"}
    /\ UNCHANGED <<keystore, keyState, torn, lost, memory, attempt, job, booting, timing,
                   server, env, faults>>

MarkFails ==
    /\ Goto("marking", "key") /\ Fault
    /\ UNCHANGED <<disk, memory, attempt, job, booting, timing, server, env>>

-----------------------------------------------------------------------------
(* PUF key *)

LoadKeyState ==
    /\ keyState # {}
    /\ Goto("key", "session")
    /\ pufKey' = keyState
    /\ UNCHANGED <<disk, hostKey, newKey, attempt, job, booting, timing, server, env, faults>>

\* The file could not be read, or the calibration failed: no PUF key.
SkipKey ==
    /\ Goto("key", "session")
    /\ UNCHANGED <<disk, memory, attempt, job, booting, timing, server, env, faults>>

\* Nothing here looks at the marker of the baseline.
EnrollKey ==
    /\ keyState = {}
    /\ Goto("key", "keyPost")
    /\ newKey' = {NewId(serverKey)}
    /\ UNCHANGED <<disk, hostKey, pufKey, attempt, job, booting, timing, server, env, faults>>

\* Mutant of PostKey: the key is kept although the upload failed.
PostKey_IgnoresError(outcome) ==
    /\ phase = "keyPost"
    /\ serverKey' = IF Delivered(outcome) THEN newKey ELSE serverKey
    /\ phase' = "keySave"
    /\ UNCHANGED <<disk, memory, attempt, job, booting, timing, hosts, serverBaseline, env, faults>>

\* The server replaces the key it holds; the state is dropped on an error.
PostKey(outcome) ==
    /\ phase = "keyPost"
    /\ serverKey' = IF Delivered(outcome) THEN newKey ELSE serverKey
    /\ phase' = IF outcome = "ok" THEN "keySave" ELSE "session"
    /\ newKey' = IF outcome = "ok" THEN newKey ELSE {}
    /\ UNCHANGED <<disk, hostKey, pufKey, attempt, job, booting, timing, hosts, serverBaseline, env, faults>>

SaveKeyState ==
    /\ Goto("keySave", "session")
    /\ keyState' = newKey /\ pufKey' = newKey /\ newKey' = {}
    /\ cached' = cached \cup {"key"}
    /\ UNCHANGED <<keystore, marker, torn, lost, hostKey, attempt, job, booting, timing,
                   server, env, faults>>

SaveKeyFails ==
    /\ Goto("keySave", "session") /\ Fault
    /\ newKey' = {}
    /\ UNCHANGED <<disk, hostKey, pufKey, attempt, job, booting, timing, server, env>>

-----------------------------------------------------------------------------
(* Session, first frame and first proof *)

\* retryPost begins.
StartPost(what) == phase' = "posting" /\ attempt' = 0 /\ job' = what

\* The session key decrypts the probe configuration; the first frame goes out.
OpenSession ==
    /\ phase = "session"
    /\ StartPost("frame")
    /\ UNCHANGED <<disk, memory, booting, timing, server, env, faults>>

OpenSessionFails ==
    /\ phase = "session" /\ Fault /\ Exit
    /\ UNCHANGED <<disk, server, env>>

\* What follows a post: at the start a proof follows the frame, and then the
\* loop begins with lastContact = now; inside the loop only a success counts
\* as contact.
AfterPost(success) ==
    /\ attempt' = 0
    /\ IF booting
       THEN IF job = "frame" /\ pufKey # {}
            THEN phase' = "posting" /\ job' = "proof" /\ UNCHANGED <<booting, timing>>
            ELSE /\ phase' = "loop" /\ job' = "none" /\ booting' = FALSE
                 /\ contactAge' = 0 /\ UNCHANGED hbReady
       ELSE /\ phase' = "loop" /\ job' = "none"
            /\ contactAge' = IF success THEN 0 ELSE contactAge
            /\ UNCHANGED <<booting, hbReady>>

\* One attempt of retryPost.
Post(outcome) ==
    /\ phase = "posting"
    /\ \/ outcome = "ok" /\ AfterPost(TRUE)
       \/ /\ outcome # "ok" /\ Again(PostAttempts)
          /\ attempt' = attempt + 1
          /\ UNCHANGED <<phase, job, booting, timing>>
       \/ outcome # "ok" /\ ~Again(PostAttempts) /\ AfterPost(FALSE)
    /\ UNCHANGED <<disk, memory, server, env, faults>>

\* The measurement behind a proof or an attestation failed.
MeasureFails ==
    /\ phase = "posting" /\ job \in {"proof", "attest"} /\ attempt = 0
    /\ AfterPost(FALSE)
    /\ UNCHANGED <<disk, memory, server, env, faults>>

-----------------------------------------------------------------------------
(* The loop *)

\* A frame, an attestation or a proof.  Their tickers may fire at any time.
Branch(what) ==
    /\ phase = "loop"
    /\ what = "attest" => marker
    /\ what = "proof" => pufKey # {}
    /\ StartPost(what)
    /\ UNCHANGED <<disk, memory, booting, timing, server, env, faults>>

\* Mutants of Heartbeat: contact is noted before the error is looked at; the
\* verdict on the license is not looked at; it is taken the wrong way round.
Heartbeat_AlwaysContact(outcome) ==
    /\ phase = "loop" /\ hbReady
    /\ hbReady' = FALSE /\ contactAge' = 0
    /\ UNCHANGED <<disk, phase, memory, attempt, job, booting, server, env, faults>>
Heartbeat_NoVerdict(outcome) ==
    /\ phase = "loop" /\ hbReady
    /\ IF outcome # "ok" /\ contactAge > Grace
       THEN Exit
       ELSE /\ hbReady' = FALSE
            /\ contactAge' = IF outcome = "ok" THEN 0 ELSE contactAge
            /\ UNCHANGED <<phase, memory, attempt, job, booting>>
    /\ UNCHANGED <<disk, server, env, faults>>
Heartbeat_Negated(outcome) ==
    /\ phase = "loop" /\ hbReady
    /\ IF \/ outcome # "ok" /\ contactAge > Grace
          \/ outcome = "ok" /\ license
       THEN Exit
       ELSE /\ hbReady' = FALSE
            /\ contactAge' = IF outcome = "ok" THEN 0 ELSE contactAge
            /\ UNCHANGED <<phase, memory, attempt, job, booting>>
    /\ UNCHANGED <<disk, server, env, faults>>

\* The heartbeat is posted once.  After an error the age of the last contact,
\* of any kind, decides; a reply renews it and carries the license verdict.
Heartbeat(outcome) ==
    /\ phase = "loop" /\ hbReady
    /\ IF \/ outcome # "ok" /\ contactAge > Grace
          \/ outcome = "ok" /\ ~license
       THEN Exit
       ELSE /\ hbReady' = FALSE
            /\ contactAge' = IF outcome = "ok" THEN 0 ELSE contactAge
            /\ UNCHANGED <<phase, memory, attempt, job, booting>>
    /\ UNCHANGED <<disk, server, env, faults>>

-----------------------------------------------------------------------------
(* The environment *)

\* Kill, panic or SIGTERM: the process ends and leaves the files as they are.
Crash ==
    /\ phase # "down" /\ Fault /\ Exit
    /\ UNCHANGED <<disk, server, env>>

\* The file system writes back what it holds.
Writeback ==
    /\ cached # {} /\ cached' = {}
    /\ UNCHANGED <<files, torn, lost, phase, memory, attempt, job, booting, timing,
                   server, env, faults>>

\* Files that were not written back are gone, or the host key file is there
\* without its contents (LoadKeyState that fails is SkipKey).  The journal
\* keeps the order of renames: the host key is the first of the files, and is
\* not lost without the others.
PowerLoss(gone, tears) ==
    /\ gone \subseteq cached /\ "host" \in gone => gone = cached
    /\ cached # {} /\ Fault /\ Exit
    /\ keystore' = IF "host" \in gone THEN {} ELSE keystore
    /\ marker' = (marker /\ "marker" \notin gone)
    /\ keyState' = IF "key" \in gone THEN {} ELSE keyState
    /\ torn' = (torn \/ (tears /\ "host" \in cached \ gone))
    /\ lost' = IF "host" \in gone THEN lost \cup keystore ELSE lost
    /\ cached' = {}
    /\ UNCHANGED <<server, env>>

\* Ages saturate just above the grace period.
Older(age) == IF age > Grace THEN age ELSE age + 1

\* hbTick runs from before the first frame, lastContact from the loop on.
Tick ==
    /\ phase \in {"loop", "posting"}
    /\ hbReady' = TRUE
    /\ IF booting
       THEN UNCHANGED contactAge
       ELSE contactAge' = Older(contactAge)
    /\ UNCHANGED <<disk, phase, memory, attempt, job, booting, server, env, faults>>

NetworkChanges(to) ==
    /\ net # to /\ net' = to
    /\ UNCHANGED <<disk, phase, memory, attempt, job, booting, timing, server, license, faults>>

Revoke ==
    /\ license /\ license' = FALSE
    /\ UNCHANGED <<disk, phase, memory, attempt, job, booting, timing, server, net, faults>>

\* Everything the process does between the start and the loop.
Start ==
    \/ Boot \/ LoadHostKey \/ LoadHostKeyFails \/ Generate \/ SaveHostKey
    \/ \E out \in Outcomes : Enroll(out)
    \/ \E out \in Outcomes : PostBaseline(out)
    \/ MarkEnrolled
    \/ LoadKeyState \/ EnrollKey
    \/ \E out \in Outcomes : PostKey(out)
    \/ SaveKeyState
    \/ OpenSession

Posting == \E out \in Outcomes : Post(out)
Beat    == \E out \in Outcomes : Heartbeat(out)

Next ==
    \/ Start
    \/ SkipBaseline \/ SkipKey
    \/ SaveHostKeyFails \/ MarkFails \/ SaveKeyFails \/ OpenSessionFails
    \/ Posting \/ MeasureFails
    \/ \E what \in {"frame", "attest", "proof"} : Branch(what)
    \/ Beat
    \/ Crash \/ Writeback \/ Tick
    \/ \E gone \in SUBSET cached, tears \in BOOLEAN : PowerLoss(gone, tears)
    \/ \E to \in {"up", "flaky", "down"} : NetworkChanges(to)
    \/ Revoke

\* The process is scheduled, systemd restarts it (Restart=on-failure) and
\* the clock runs.  select picks among the ready branches at random, so a
\* heartbeat that is ready again and again is taken.
Fairness ==
    /\ WF_vars(Start \/ SkipBaseline)
    /\ WF_vars(Posting)
    /\ WF_vars(Tick)
    /\ SF_vars(Beat)

Spec == Init /\ [][Next]_vars /\ Fairness

-----------------------------------------------------------------------------
(* Properties *)

OptionalKey == {{}} \cup {{id} : id \in KeyIds}

KeysOK ==
    /\ {keystore, keyState, hostKey, newKey, pufKey, serverKey} \subseteq OptionalKey
    /\ hosts \subseteq KeyIds /\ lost \subseteq KeyIds

FlagsOK == {marker, torn, booting, hbReady, serverBaseline, license} \subseteq BOOLEAN

PlaceOK ==
    /\ phase \in {"down", "identity", "saving", "enrolling", "baseline", "marking",
                  "key", "keyPost", "keySave", "session", "posting", "loop"}
    /\ job \in {"none", "frame", "attest", "proof"}
    /\ net \in {"up", "flaky", "down"}
    /\ cached \subseteq {"host", "marker", "key"}

CountsOK ==
    /\ attempt \in Nat
    /\ attempt < IF phase = "enrolling" THEN EnrollAttempts ELSE PostAttempts
    /\ contactAge \in 0 .. Grace + 1
    /\ faults \in 0 .. MaxFaults

\* The type invariant of the process, its files and the control plane; a
\* retry loop makes no more attempts than it is allowed.
TypeOK == KeysOK /\ FlagsOK /\ PlaceOK /\ CountsOK

\* A host has one identity, whenever it crashes: the control plane never
\* learns a host key that is not the one in the keystore, unless a power
\* loss took the file before the system had written it back.
OneIdentity == hosts \subseteq keystore \cup lost

\* A PUF key the agent keeps is the one the control plane checks proofs
\* against, although uploads whose reply was lost replace the server's key
\* and the file is written in a later step: no proof is ever made with
\* another key.
ServerHoldsKey == \A k \in keyState \cup pufKey : serverKey = {k}

\* An attestation has a baseline to be compared with: the marker file is
\* never there without the baseline on the server, not even when the host
\* has lost its identity and goes on under a new one.
AttestationHasBaseline == marker => serverBaseline

InLoop == phase \in {"loop", "posting"} /\ ~booting

\* Cut off for good, the agent does not stay in its loop: the grace period
\* ends it, although retries keep the loop busy.
CutOffHalts == []([](net = "down") => <>(~InLoop))

\* Revoked for good and reachable, the agent leaves its loop and does not
\* come back, however often it is restarted.
RevokedHalts == []([](net = "up" /\ ~license) => <>[](~InLoop))

\* Reachable and licensed for good, the agent ends up in its loop and stays,
\* unless its host key file was torn by a power loss: then LoadOrCreate
\* refuses every start until someone removes the file.
EventuallyRuns == <>[](net = "up" /\ license) => <>[]InLoop \/ <>[]torn
=============================================================================
