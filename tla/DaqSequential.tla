---------------------------- MODULE DaqSequential ----------------------------
(***************************************************************************)
(* One sequential quorum request (internal/daq/client.go                   *)
(* requestSequential): the client walks the roster in index order and      *)
(* hands every witness the signature of the last one that answered.  Each  *)
(* hop has a budget of HopTimeout seconds, the whole walk one of           *)
(* RequestTimeout (the deadline cmd/daq-verifier puts on the request).     *)
(* `faulty` is the environment: only a faulty witness loses or delays a    *)
(* message past its hop, or answers other than the handler of DaqProtocol. *)
(***************************************************************************)
EXTENDS DaqProtocol

CONSTANTS
    HopTimeout,     \* seconds a hop may take (6 in the code)
    RequestTimeout, \* seconds the caller's context lasts (30)
    StartTime,      \* second at which the behaviour starts
    LastStart,      \* bound: the walk starts no later than this second
    StaleRounds     \* bound: how many rounds a relay may lag

ASSUME TimeAssumption ==
    /\ HopTimeout \in Nat /\ RequestTimeout \in Nat
    /\ StartTime \in Int /\ LastStart \in Int
    /\ StaleRounds \in Nat

VARIABLES
    now,        \* real time in seconds
    faulty,     \* the witnesses that may misbehave or be unreachable
    client,     \* "idle", "ready", "walking", "ticket" or "failed"
    req,        \* {} or {the request}
    started,    \* second at which the walk began
    seqIdx,     \* position in the sorted roster
    hopStart,   \* second at which the current post began
    wire,       \* wire[w]: "none", "request" or "reply"
    posted,     \* posted[w]: the prev_sig field of the request to w
    reply,      \* reply[w]: {sig}, or {} for an HTTP error status
    prevSig,    \* {} or {signature of the last witness in the chain}
    chain,      \* the WitnessSignatures collected so far
    ticket,     \* {} or {the ticket returned}
    signatures  \* every signature a witness's key has produced

vars == <<now, faulty, client, req, started, seqIdx, hopStart, wire, posted,
          reply, prevSig, chain, ticket, signatures>>

Request == CHOOSE r \in req : TRUE

Init ==
    /\ now = StartTime
    /\ faulty \in SUBSET Witness
    /\ client = "idle"
    /\ req = {}
    /\ started = StartTime
    /\ seqIdx = 0
    /\ hopStart = StartTime
    /\ wire = [w \in Witness |-> "none"]
    /\ posted = [w \in Witness |-> {}]
    /\ reply = [w \in Witness |-> {}]
    /\ prevSig = {}
    /\ chain = << >>
    /\ ticket = {}
    /\ signatures = {}

-----------------------------------------------------------------------------
(* The agent *)

Build(op, answer) ==
    /\ client = "idle"
    /\ req' = {BuildRequest(op, answer, now)}
    /\ client' = "ready"
    /\ UNCHANGED <<now, faulty, started, seqIdx, hopStart, wire, posted,
                   reply, prevSig, chain, ticket, signatures>>

Walk ==
    /\ client = "ready"
    /\ client' = "walking"
    /\ started' = now
    /\ UNCHANGED <<now, faulty, req, seqIdx, hopStart, wire, posted, reply,
                   prevSig, chain, ticket, signatures>>

\* The loop runs while the roster lasts and the chain is short of K.
Walking == client = "walking" /\ seqIdx < N /\ Len(chain) < K
Hopping == Walking /\ wire[seqIdx] # "none"

\* postWitness sends prev_sig only for positions after the first.
Post ==
    /\ Walking /\ wire[seqIdx] = "none"
    /\ wire' = [wire EXCEPT ![seqIdx] = "request"]
    /\ posted' = [posted EXCEPT ![seqIdx] = IF seqIdx > 0 THEN prevSig ELSE {}]
    /\ hopStart' = now
    /\ UNCHANGED <<now, faulty, client, req, started, seqIdx, reply, prevSig,
                   chain, ticket, signatures>>

\* Mutant of HopVerifies: any 48 bytes are taken for a signature.
HopVerifies_Any == reply[seqIdx] # {}

\* The reply is a signature that verifies on the input of this position.
HopVerifies ==
    \E sig \in reply[seqIdx] :
        VerifyIndividual(seqIdx,
            WitnessInput(Request, "sequential", seqIdx, prevSig), sig)

HopSucceeds ==
    /\ Hopping /\ wire[seqIdx] = "reply" /\ HopVerifies
    /\ \E sig \in reply[seqIdx] :
          /\ chain' = Append(chain, [index |-> seqIdx, sig |-> sig])
          /\ prevSig' = {sig}
    /\ seqIdx' = seqIdx + 1
    /\ UNCHANGED <<now, faulty, client, req, started, hopStart, wire, posted,
                   reply, ticket, signatures>>

\* The next witness is tried, with prevSig as it was.
Skip ==
    /\ seqIdx' = seqIdx + 1
    /\ UNCHANGED <<now, faulty, client, req, started, hopStart, wire, posted,
                   reply, prevSig, chain, ticket, signatures>>

HopRejected == Hopping /\ wire[seqIdx] = "reply" /\ ~HopVerifies /\ Skip

\* Mutant of HopDeadline: the hop has no budget of its own.
HopDeadline_NoBudget == started + RequestTimeout

\* The hop's context ends at its own budget or at the caller's deadline.
HopDeadline ==
    IF hopStart + HopTimeout < started + RequestTimeout
    THEN hopStart + HopTimeout ELSE started + RequestTimeout

\* Mutant of HopTimesOut: neither deadline is enforced.
HopTimesOut_Never == FALSE /\ Skip

HopTimesOut ==
    /\ Hopping
    /\ now >= HopDeadline
    /\ seqIdx \in faulty \/ now >= started + RequestTimeout
    /\ Skip

\* The connection to a faulty witness breaks, before or after it signed.
HopBreaks == Hopping /\ seqIdx \in faulty /\ Skip

\* Mutant of ReturnTicket: one signature short.
ReturnTicket_Short ==
    /\ client = "walking" /\ Len(chain) >= K - 1
    /\ ticket' = {SequentialTicket(Request, chain, now)}
    /\ client' = "ticket"
    /\ UNCHANGED <<now, faulty, req, started, seqIdx, hopStart, wire, posted,
                   reply, prevSig, chain, signatures>>

ReturnTicket ==
    /\ client = "walking" /\ Len(chain) >= K
    /\ ticket' = {SequentialTicket(Request, chain, now)}
    /\ client' = "ticket"
    /\ UNCHANGED <<now, faulty, req, started, seqIdx, hopStart, wire, posted,
                   reply, prevSig, chain, signatures>>

ReturnError ==
    /\ client = "walking" /\ seqIdx = N /\ Len(chain) < K
    /\ client' = "failed"
    /\ UNCHANGED <<now, faulty, req, started, seqIdx, hopStart, wire, posted,
                   reply, prevSig, chain, ticket, signatures>>

-----------------------------------------------------------------------------
(* The witnesses and the clock *)

\* The request reaches w, possibly after the client has given the hop up.
WitnessHandles(w) ==
    /\ wire[w] = "request"
    /\ LET answer == HandleSign(w, Request, "sequential", w, posted[w], now)
       IN  /\ reply' = [reply EXCEPT ![w] = answer]
           /\ signatures' = signatures \cup answer
    /\ wire' = [wire EXCEPT ![w] = "reply"]
    /\ UNCHANGED <<now, faulty, client, req, started, seqIdx, hopStart,
                   posted, prevSig, chain, ticket>>

WitnessMisbehaves(w, answer) ==
    /\ w \in faulty /\ wire[w] = "request"
    /\ reply' = [reply EXCEPT ![w] = answer]
    /\ wire' = [wire EXCEPT ![w] = "reply"]
    /\ UNCHANGED <<now, faulty, client, req, started, seqIdx, hopStart,
                   posted, prevSig, chain, ticket, signatures>>

Tick ==
    /\ \/ client \in {"idle", "ready"} /\ now < LastStart
       \/ Hopping /\ now < HopDeadline
    /\ now' = now + 1
    /\ UNCHANGED <<faulty, client, req, started, seqIdx, hopStart, wire,
                   posted, reply, prevSig, chain, ticket, signatures>>

Next ==
    \/ \E op \in Ops : \E a \in RelayAnswers(now, StaleRounds) : Build(op, a)
    \/ Walk
    \/ Post
    \/ HopSucceeds
    \/ HopRejected
    \/ HopTimesOut
    \/ HopBreaks
    \/ ReturnTicket
    \/ ReturnError
    \/ \E w \in Witness : WitnessHandles(w)
    \/ \E w \in Witness : \E answer \in {{}, {Garbage}} : WitnessMisbehaves(w, answer)
    \/ Tick

\* The walk is one goroutine that is scheduled; clocks advance, timers fire,
\* and a healthy witness answers.
Fairness ==
    /\ WF_vars(Walk) /\ WF_vars(Post)
    /\ WF_vars(HopSucceeds) /\ WF_vars(HopRejected) /\ WF_vars(HopTimesOut)
    /\ WF_vars(ReturnTicket) /\ WF_vars(ReturnError)
    /\ WF_vars(Tick)
    /\ \A w \in Witness : WF_vars(w \notin faulty /\ WitnessHandles(w))

Spec == Init /\ [][Next]_vars /\ Fairness

-----------------------------------------------------------------------------
(* Properties *)

\* The type invariant of the walk: the chain holds signatures that witnesses
\* made, the position stays within the roster (requestSequential).
TypeOK ==
    /\ now \in Int /\ started \in Int /\ hopStart \in Int
    /\ faulty \subseteq Witness
    /\ client \in {"idle", "ready", "walking", "ticket", "failed"}
    /\ \A r \in req : r.op \in Ops /\ r.agent = Agent
    /\ seqIdx \in 0 .. N
    /\ wire \in [Witness -> {"none", "request", "reply"}]
    /\ posted \in [Witness -> SUBSET signatures]
    /\ reply \in [Witness -> SUBSET (signatures \cup {Garbage})]
    /\ prevSig \subseteq signatures
    /\ chain \in Seq([index : Witness, sig : signatures])
    /\ \A s \in signatures : s.signer \in Witness

\* Every signature made at a position after the first binds a signature
\* that some witness had made: the client verifies a reply before it hands
\* it on, though the witnesses do not.
PredecessorSigned ==
    \A s \in signatures : \A m \in s.msg :
        /\ m.seq > 0 => m.prev # {}
        /\ m.prev \subseteq signatures

\* Exactly which tickets the verifier accepts: it numbers the chain densely
\* while the client numbers it by roster position, so a ticket verifies if
\* and only if no witness before its last one was skipped.
VerifiesIffUnbroken ==
    \A t \in ticket :
        VerifyTicket(t) <=> \A i \in 1 .. Len(t.witnesses) : t.witnesses[i].index = i - 1

\* A walk never spends more than one hop budget per witness visited, so a
\* flaky witness cannot tie it up.
HopBudget ==
    client = "walking" => now - started <= HopTimeout * (seqIdx + 1)

\* When the first K witnesses are healthy and know the client's token and
\* the beacon is genuine, the request fails only because time ran out: the
\* beacon went stale on one of their clocks or the caller's deadline passed.
HealthyPrefixServed ==
    client = "failed" /\ (\A w \in 0 .. K - 1 : w \notin faulty /\ AuthOK(w)) =>
        \A r \in req :
            \/ r.beacon # "genuine"
            \/ now >= started + RequestTimeout
            \/ \E w \in 0 .. K - 1 :
                  now + Skew[w] >= RoundTime(r.round + MaxLag + 1)

\* requestSequential implements the quorum promise of DaqQuorum.
Endorsed == {w \in Witness : \E s \in signatures : s.signer = w}
Outcome ==
    [kind |-> CASE client = "ticket" -> "granted"
                [] client = "failed" -> "denied"
                [] OTHER -> "pending",
     by   |-> {chain[i].index : i \in {j \in DOMAIN chain : ticket # {}}}]
Quorum == INSTANCE DaqQuorum WITH
    Quorums  <- {Q \in SUBSET Witness : Cardinality(Q) = K},
    endorsed <- Endorsed,
    verdict  <- Outcome

\* The grant rests on K distinct witnesses that signed before it, and the
\* request is decided once (client.go requestSequential).
QuorumPromise == Quorum!Spec

\* The walk ends, however many witnesses stay silent.
RequestReturns == client = "ready" ~> client \in {"ticket", "failed"}

-----------------------------------------------------------------------------
(* What the code's comments and docs say of the walk *)

\* cmd/daq-verifier: a ticket the client returns passes its own VerifyTicket
\* ("If we cannot verify our own ticket, something is severely wrong").
TicketVerifies == \A t \in ticket : VerifyTicket(t)

\* docs/ARCHITECTURE.md: the agent collects k-of-n signatures, so a request
\* survives up to N - K faulty witnesses (among witnesses that neither check
\* freshness nor want a token).
SurvivesFaults ==
    client = "failed" /\ DrandVerifier = {} /\ (\A w \in Witness : AuthOK(w)) =>
        Cardinality(faulty) > N - K
=============================================================================
