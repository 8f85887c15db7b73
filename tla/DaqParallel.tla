----------------------------- MODULE DaqParallel -----------------------------
(***************************************************************************)
(* One parallel quorum request (internal/daq/client.go requestParallel):   *)
(* a goroutine per witness posts the request, checks the reply and pushes  *)
(* it on a channel; the collector drains the channel, cancels the other    *)
(* posts once it holds K good replies, and keeps draining until every      *)
(* goroutine has reported.  Witnesses run the handler of DaqProtocol at    *)
(* the moment a request reaches them; a request that its goroutine has     *)
(* given up may still reach its witness.                                   *)
(***************************************************************************)
EXTENDS DaqProtocol

CONSTANTS
    HttpTimeout,    \* the http.Client timeout of a post, in seconds
    StartTime,      \* second at which the behaviour starts
    LastStart,      \* bound: the posts start no later than this second
    StaleRounds     \* bound: how many rounds a relay may lag

ASSUME TimeAssumption ==
    /\ HttpTimeout \in Nat
    /\ StartTime \in Int
    /\ LastStart \in Int /\ StartTime <= LastStart
    /\ StaleRounds \in Nat

VARIABLES
    now,        \* real time in seconds
    client,     \* "idle", "ready", "collecting", "ticket" or "failed"
    req,        \* {} or {the request}
    start,      \* second at which the posts were started
    wire,       \* wire[w]: "none", "request" or "reply"
    reply,      \* reply[w]: {sig}, or {} for an HTTP error status
    gor,        \* gor[w]: "idle", "posting", "ok" or "err"
    results,    \* the buffered channel of collected signatures
    good,       \* the collector's slice of verified replies
    cancelled,  \* the sub-context has been cancelled
    ticket,     \* {} or {the ticket returned}
    signatures  \* every signature a witness's key has produced

vars == <<now, client, req, start, wire, reply, gor, results, good,
          cancelled, ticket, signatures>>

Request == CHOOSE r \in req : TRUE
Input   == WitnessInput(Request, "parallel", 0, {})

Init ==
    /\ now = StartTime
    /\ client = "idle"
    /\ req = {}
    /\ start = StartTime
    /\ wire = [w \in Witness |-> "none"]
    /\ reply = [w \in Witness |-> {}]
    /\ gor = [w \in Witness |-> "idle"]
    /\ results = << >>
    /\ good = << >>
    /\ cancelled = FALSE
    /\ ticket = {}
    /\ signatures = {}

-----------------------------------------------------------------------------
(* The agent *)

\* A relay answers; the request is built and signed.
Build(op, answer) ==
    /\ client = "idle"
    /\ req' = {BuildRequest(op, answer, now)}
    /\ client' = "ready"
    /\ UNCHANGED <<now, start, wire, reply, gor, results, good, cancelled,
                   ticket, signatures>>

\* No relay returned a round: there is no request to send.
BuildFails ==
    /\ client = "idle"
    /\ client' = "failed"
    /\ UNCHANGED <<now, req, start, wire, reply, gor, results, good,
                   cancelled, ticket, signatures>>

\* The fan-out: every goroutine is started.
FanOut ==
    /\ client = "ready"
    /\ client' = "collecting"
    /\ start' = now
    /\ wire' = [w \in Witness |-> "request"]
    /\ gor' = [w \in Witness |-> "posting"]
    /\ UNCHANGED <<now, req, reply, results, good, cancelled, ticket,
                   signatures>>

\* Mutant of Push: the goroutine reports a one-based index.
Push_OneBased(w, outcome, sig) ==
    /\ gor' = [gor EXCEPT ![w] = outcome]
    /\ results' = Append(results, [index |-> w + 1, sig |-> sig])

\* Goroutine w reports: the channel holds N entries, so a send never blocks.
Push(w, outcome, sig) ==
    /\ gor' = [gor EXCEPT ![w] = outcome]
    /\ results' = Append(results, [index |-> w, sig |-> sig])

\* Mutant of ReplyOutcome: the reply is not verified.
ReplyOutcome_Unverified(w) == IF reply[w] # {} THEN "ok" ELSE "err"

\* The reply of w arrives: an HTTP error, a signature that does not verify,
\* or a good signature.
ReplyOutcome(w) ==
    IF \E sig \in reply[w] : VerifyIndividual(w, Input, sig)
    THEN "ok" ELSE "err"

Deliver(w) ==
    /\ gor[w] = "posting" /\ wire[w] = "reply"
    /\ LET outcome == ReplyOutcome(w)
       IN  Push(w, outcome, IF outcome = "ok" THEN reply[w] ELSE {})
    /\ UNCHANGED <<now, client, req, start, wire, reply, good, cancelled,
                   ticket, signatures>>

\* The post of w ends without a reply: the connection broke, or the context
\* was cancelled, by the collector or by the caller.
PostFails(w) ==
    /\ gor[w] = "posting"
    /\ Push(w, "err", {})
    /\ UNCHANGED <<now, client, req, start, wire, reply, good, cancelled,
                   ticket, signatures>>

\* Mutant of PostTimesOut: an http.Client without a timeout.
PostTimesOut_Never(w) == FALSE /\ PostFails(w)

\* The http.Client timeout of the post of w expires.
PostTimesOut(w) == now >= start + HttpTimeout /\ PostFails(w)

\* Mutant of Collect: the other posts are cancelled one reply too early.
Collect_CancelsEarly ==
    /\ client = "collecting" /\ results # << >>
    /\ LET rc == Head(results)
           kept == IF rc.sig = {} THEN good
                   ELSE Append(good, [index |-> rc.index,
                                      sig |-> CHOOSE s \in rc.sig : TRUE])
       IN  /\ good' = kept
           /\ cancelled' = (cancelled \/ Len(kept) >= K - 1)
    /\ results' = Tail(results)
    /\ UNCHANGED <<now, client, req, start, wire, reply, gor, ticket,
                   signatures>>

\* The collector receives one result.
Collect ==
    /\ client = "collecting" /\ results # << >>
    /\ LET rc == Head(results)
           kept == IF rc.sig = {} THEN good
                   ELSE Append(good, [index |-> rc.index,
                                      sig |-> CHOOSE s \in rc.sig : TRUE])
       IN  /\ good' = kept
           /\ cancelled' = (cancelled \/ Len(kept) >= K)
    /\ results' = Tail(results)
    /\ UNCHANGED <<now, client, req, start, wire, reply, gor, ticket,
                   signatures>>

\* Mutant of ChannelClosed: the channel is closed without wg.Wait.
ChannelClosed_NoWait == results = << >>

\* wg.Wait returned and the channel is closed and drained.
ChannelClosed ==
    /\ \A w \in Witness : gor[w] \in {"ok", "err"}
    /\ results = << >>

\* Mutant of LowestFirst: the sort is left out, replies stay in arrival order.
LowestFirst_Unsorted(order) == \A i \in 1 .. K : order[i] = i

\* `order` lists the positions in `good` of its K lowest roster indexes, in
\* increasing order of index: what sort.Slice and the K-element copy yield.
LowestFirst(order) ==
    /\ \A i, j \in 1 .. K : i < j => good[order[i]].index < good[order[j]].index
    /\ \A p \in DOMAIN good :
          (\E i \in 1 .. K : order[i] = p)
             \/ (\A i \in 1 .. K : good[order[i]].index < good[p].index)

ReturnTicket ==
    /\ client = "collecting" /\ ChannelClosed
    /\ Len(good) >= K
    /\ \E order \in [1 .. K -> DOMAIN good] :
          /\ LowestFirst(order)
          /\ ticket' = {ParallelTicket(Request,
                           [i \in 1 .. K |-> good[order[i]].index],
                           [i \in 1 .. K |-> good[order[i]].sig], now)}
    /\ client' = "ticket"
    /\ UNCHANGED <<now, req, start, wire, reply, gor, results, good,
                   cancelled, signatures>>

ReturnError ==
    /\ client = "collecting" /\ ChannelClosed
    /\ Len(good) < K
    /\ client' = "failed"
    /\ UNCHANGED <<now, req, start, wire, reply, gor, results, good,
                   cancelled, ticket, signatures>>

-----------------------------------------------------------------------------
(* The witnesses and the clock *)

WitnessHandles(w) ==
    /\ wire[w] = "request"
    /\ LET answer == HandleSign(w, Request, "parallel", 0, {}, now)
       IN  /\ reply' = [reply EXCEPT ![w] = answer]
           /\ signatures' = signatures \cup answer
    /\ wire' = [wire EXCEPT ![w] = "reply"]
    /\ UNCHANGED <<now, client, req, start, gor, results, good, cancelled,
                   ticket>>

\* A witness that cannot reach a drand relay answers 502; a faulty one may
\* answer with a well-formed signature that does not verify.
WitnessMisbehaves(w, answer) ==
    /\ wire[w] = "request"
    /\ reply' = [reply EXCEPT ![w] = answer]
    /\ wire' = [wire EXCEPT ![w] = "reply"]
    /\ UNCHANGED <<now, client, req, start, gor, results, good, cancelled,
                   ticket, signatures>>

\* Time passes while the agent prepares or a post is in progress, but not
\* past the timeout of that post.
Tick ==
    /\ \/ client \in {"idle", "ready"} /\ now < LastStart
       \/ (\E w \in Witness : gor[w] = "posting") /\ now < start + HttpTimeout
    /\ now' = now + 1
    /\ UNCHANGED <<client, req, start, wire, reply, gor, results, good,
                   cancelled, ticket, signatures>>

Next ==
    \/ \E op \in Ops : \E a \in RelayAnswers(now, StaleRounds) : Build(op, a)
    \/ BuildFails
    \/ FanOut
    \/ \E w \in Witness : Deliver(w)
    \/ \E w \in Witness : PostFails(w)
    \/ Collect
    \/ ReturnTicket
    \/ ReturnError
    \/ \E w \in Witness : WitnessHandles(w)
    \/ \E w \in Witness : \E answer \in {{}, {Garbage}} : WitnessMisbehaves(w, answer)
    \/ Tick

\* Goroutines are scheduled, clocks advance and timers fire; no reply is
\* ever guaranteed to come.
Fairness ==
    /\ WF_vars(FanOut)
    /\ WF_vars(Tick)
    /\ WF_vars(Collect)
    /\ WF_vars(ReturnTicket)
    /\ WF_vars(ReturnError)
    /\ \A w \in Witness : WF_vars(PostTimesOut(w))

Spec == Init /\ [][Next]_vars /\ Fairness

-----------------------------------------------------------------------------
(* Properties *)

Beacons   == {"genuine", "forged"}
Requests  == [op : Ops, round : Int, beacon : Beacons, requestedAt : Int,
              agent : {Agent},
              agentSig : [signer : {Agent},
                          msg : [op : Ops, round : Int, beacon : Beacons,
                                 requestedAt : Int]]]
Messages  == [mode : {"parallel"}, op : Ops, round : Int, beacon : Beacons,
              agent : {Agent}, seq : {0}, prev : {{}}]
Signature == [signer : Witness \cup {-1}, msg : SUBSET Messages]
Collected == [index : Witness, sig : SUBSET Signature]

\* The type invariant of the request: the states of the client, of the
\* goroutines and of the channel between them (requestParallel).
TypeOK ==
    /\ now \in Int /\ start \in Int
    /\ client \in {"idle", "ready", "collecting", "ticket", "failed"}
    /\ req \in SUBSET Requests
    /\ wire \in [Witness -> {"none", "request", "reply"}]
    /\ reply \in [Witness -> SUBSET Signature]
    /\ gor \in [Witness -> {"idle", "posting", "ok", "err"}]
    /\ results \in Seq(Collected)
    /\ good \in Seq([index : Witness, sig : Signature])
    /\ cancelled \in BOOLEAN
    /\ \A t \in ticket : t.req \in Requests /\ t.mask \subseteq Witness
    /\ signatures \subseteq Signature

\* A ticket that RequestQuorum returns passes VerifyTicket, whatever order
\* the replies arrived in: the sort before AggregateSigs lines every
\* signature up with its bit of the mask.
TicketVerifies == \A t \in ticket : VerifyTicket(t)

\* No quorum is thrown away: when the request fails after the fan-out, fewer
\* than K goroutines had obtained a good signature.  Cancelling the rest
\* early and draining the channel to its end lose none.
NoLostQuorum ==
    client = "failed" => Cardinality({w \in Witness : gor[w] = "ok"}) < K

\* How old the beacon of a fresh ticket may be: each participant that checks
\* drand saw it within MaxLag rounds on its own clock, and the ticket is
\* created at most one post timeout later; nor does it come from further
\* ahead, although a round far enough ahead passes CheckFreshness alone.
TicketAge ==
    \A t \in ticket : \A w \in t.mask \cap DrandVerifier :
        /\ t.createdAt + Skew[w] < RoundTime(t.req.round + MaxLag + 1) + HttpTimeout
        /\ t.createdAt + Skew[w] >= RoundTime(t.req.round - MaxLag)

\* requestParallel implements the quorum promise: `endorsed` is who has
\* signed this very request, the verdict is the outcome of RequestQuorum.
Endorsed ==
    {w \in Witness : \E r \in req :
        Sign(w, WitnessInput(r, "parallel", 0, {})) \in signatures}
Outcome ==
    [kind |-> IF client = "ticket" THEN "granted"
              ELSE IF client = "failed" THEN "denied" ELSE "pending",
     by   |-> UNION {t.mask : t \in ticket}]
Quorum == INSTANCE DaqQuorum WITH
    Quorums  <- {Q \in SUBSET Witness : Cardinality(Q) = K},
    endorsed <- Endorsed,
    verdict  <- Outcome

\* The grant rests on K distinct witnesses that signed before it, and the
\* request is decided once (client.go requestParallel).
QuorumPromise == Quorum!Spec

\* A request that was started returns, however many witnesses stay silent:
\* the post timeouts unblock every goroutine, so the channel is closed.
RequestReturns == client = "ready" ~> client \in {"ticket", "failed"}

\* Once the collector has cancelled the remaining posts the request ends
\* in a ticket: the errors the cancellation causes cannot turn into failure.
CancelMeansTicket == cancelled ~> client = "ticket"
=============================================================================
