--------------------------- MODULE DaqParallelProofs ---------------------------
(***************************************************************************)
(* What holds of requestParallel for every roster, threshold, clock skew   *)
(* and timeout.                                                            *)
(***************************************************************************)
EXTENDS DaqParallel, DaqProtocolProofs

\* Before a request is built nothing has happened; afterwards there is one
\* request, which carries the agent's own signature.
RequestInv ==
    \/ /\ req = {} /\ client \in {"idle", "failed"}
       /\ wire = [w \in Witness |-> "none"]
       /\ gor = [w \in Witness |-> "idle"]
       /\ results = << >> /\ good = << >> /\ ticket = {} /\ signatures = {}
    \/ /\ client # "idle"
       /\ \E r \in req : req = {r} /\ VerifyAgentSignature(r)

TypeInv == TypeOK /\ RequestInv

\* The only good signature w can give for this request.
Own(w) == Sign(w, Input)

\* What is on its way back from w: nothing, an error, garbage, or w's own
\* signature; and w signs once, when it answers.
ReplyInv ==
    \A w \in Witness :
        /\ reply[w] \in {{}, {Garbage}, {Own(w)}}
        /\ Own(w) \in reply[w] => Own(w) \in signatures
        /\ wire[w] # "reply" => reply[w] = {} /\ Own(w) \notin signatures

\* What is in the channel and in the collector's slice.
ChannelInv ==
    \A i \in DOMAIN results : \A s \in results[i].sig :
        s = Own(results[i].index) /\ s \in signatures
GoodInv ==
    \A i \in DOMAIN good :
        good[i].sig = Own(good[i].index) /\ good[i].sig \in signatures

\* A good reply is in the channel or in the slice.
InChannel(w)  == \E i \in DOMAIN results : results[i].index = w /\ results[i].sig # {}
InSlice(w)    == \E i \in DOMAIN good : good[i].index = w
OutcomeInv    == \A w \in Witness : gor[w] = "ok" => InSlice(w) \/ InChannel(w)

\* The phases of the client.
PhaseInv ==
    /\ client # "ticket" => ticket = {}
    /\ client \in {"idle", "ready"} =>
          /\ wire = [w \in Witness |-> "none"]
          /\ gor = [w \in Witness |-> "idle"]
    /\ client = "failed" => \A w \in Witness : gor[w] # "posting"

IInv == TypeInv /\ ReplyInv /\ ChannelInv /\ GoodInv /\ OutcomeInv /\ PhaseInv
          /\ TicketVerifies /\ NoLostQuorum

-----------------------------------------------------------------------------
(* Facts about the data of the protocol *)

\* The request of a non-empty req is its only element.
LEMMA RequestIs ==
    ASSUME NEW r, req = {r}
    PROVE  Request = r
BY DEF Request

\* BuildRequest yields a request that carries a valid agent signature.
LEMMA BuildRequestType ==
    ASSUME NEW op \in Ops, NEW t \in Int,
           NEW a \in [round : Int, beacon : Beacons]
    PROVE  /\ BuildRequest(op, a, t) \in Requests
           /\ VerifyAgentSignature(BuildRequest(op, a, t))
<1> DEFINE body == [op |-> op, round |-> a.round, beacon |-> a.beacon,
                    requestedAt |-> t]
           R == BuildRequest(op, a, t)
<1>1. body \in [op : Ops, round : Int, beacon : Beacons, requestedAt : Int]
  OBVIOUS
<1>2. R = [op |-> op, round |-> a.round, beacon |-> a.beacon,
           requestedAt |-> t, agent |-> Agent,
           agentSig |-> [signer |-> Agent, msg |-> body]]
  BY DEF BuildRequest, Sign
<1> HIDE DEF R
<1>3. R \in Requests
  BY <1>1, <1>2 DEF Requests
<1>4. R.agent = Agent /\ CanonicalRequest(R) = body /\ R.agentSig = Sign(Agent, body)
  BY <1>2 DEF CanonicalRequest, Sign
<1>5. VerifyAgentSignature(R)
  BY <1>4 DEF VerifyAgentSignature, VerifyIndividual
<1> QED BY <1>3, <1>5 DEF R

\* What a relay answers has the type of a beacon.
LEMMA RelayAnswersType ==
    ASSUME NEW t \in Int
    PROVE  RelayAnswers(t, StaleRounds) \subseteq [round : Int, beacon : Beacons]
<1>1. ExpectedRound(t) \in Int
  BY DrandAssumption DEF ExpectedRound
<1> QED BY <1>1, TimeAssumption, DrandAssumption DEF RelayAnswers, Beacons

\* The bytes witnesses sign in parallel mode: never the error value.
LEMMA InputType ==
    ASSUME NEW r \in Requests
    PROVE  /\ WitnessInput(r, "parallel", 0, {}) \subseteq Messages
           /\ WitnessInput(r, "parallel", 0, {}) # {}
BY DEF WitnessInput, Requests, Messages

\* A witness answers with its own signature on that input, or with an error.
LEMMA HandleSignType ==
    ASSUME NEW w \in Witness, NEW r \in Requests, NEW t
    PROVE  /\ HandleSign(w, r, "parallel", 0, {}, t)
                \in {{}, {Sign(w, WitnessInput(r, "parallel", 0, {}))}}
           /\ Sign(w, WitnessInput(r, "parallel", 0, {})) \in Signature
BY InputType DEF HandleSign, Sign, Signature

-----------------------------------------------------------------------------
(* Type correctness *)

\* The types hold before requestParallel is called.
LEMMA InitTypeInv == Init => TypeInv
<1> SUFFICES ASSUME Init PROVE TypeInv
  OBVIOUS
<1>1. RequestInv
  BY Zenon DEF Init, RequestInv
<1>2. /\ now \in Int /\ start \in Int
      /\ results \in Seq(Collected)
      /\ good \in Seq([index : Witness, sig : Signature])
  BY TimeAssumption DEF Init
<1>3. /\ wire \in [Witness -> {"none", "request", "reply"}]
      /\ reply \in [Witness -> SUBSET Signature]
      /\ gor \in [Witness -> {"idle", "posting", "ok", "err"}]
  BY DEF Init
<1> QED BY <1>1, <1>2, <1>3 DEF Init, TypeOK, TypeInv

\* Once a witness or a goroutine is at work, the request is there.
LEMMA RequestExists ==
    ASSUME TypeInv,
           \/ client \in {"ready", "collecting", "ticket"}
           \/ \E w \in Witness : wire[w] # "none" \/ gor[w] # "idle"
    PROVE  /\ client # "idle"
           /\ Request \in Requests /\ req = {Request}
           /\ VerifyAgentSignature(Request)
<1>1. PICK r \in req : req = {r} /\ VerifyAgentSignature(r)
  BY DEF TypeInv, RequestInv
<1>2. client # "idle"
  BY DEF TypeInv, RequestInv
<1>3. r \in Requests
  BY <1>1 DEF TypeInv, TypeOK
<1> QED BY <1>1, <1>2, <1>3, RequestIs

\* Every step of requestParallel and of its witnesses keeps the types and
\* never replaces the request.
LEMMA NextTypeInv == TypeInv /\ [Next]_vars => TypeInv'
<1> SUFFICES ASSUME TypeInv, [Next]_vars PROVE TypeInv'
  OBVIOUS
<1> USE DEF TypeInv
<1>1. CASE UNCHANGED vars
  BY <1>1 DEF vars, TypeOK, RequestInv
<1>2. ASSUME NEW op \in Ops, NEW a \in RelayAnswers(now, StaleRounds), Build(op, a)
      PROVE  TypeInv'
  <2>1. a \in [round : Int, beacon : Beacons] /\ now \in Int
    BY RelayAnswersType DEF TypeOK
  <2>2. /\ BuildRequest(op, a, now) \in Requests
        /\ VerifyAgentSignature(BuildRequest(op, a, now))
    BY <2>1, BuildRequestType
  <2> QED BY <1>2, <2>2 DEF Build, TypeOK, RequestInv
<1>3. CASE BuildFails
  BY <1>3 DEF BuildFails, TypeOK, RequestInv
<1>4. CASE FanOut
  BY <1>4 DEF FanOut, TypeOK, RequestInv
<1>5. ASSUME NEW w \in Witness, NEW outcome \in {"ok", "err"},
             NEW sig \in SUBSET Signature,
             gor[w] = "posting", Push(w, outcome, sig),
             UNCHANGED <<now, client, req, start, wire, reply, good,
                         cancelled, ticket, signatures>>
      PROVE  TypeInv'
  <2>1. client # "idle" /\ req # {}
    BY <1>5, RequestExists
  <2>2. [index |-> w, sig |-> sig] \in Collected
    BY DEF Collected
  <2>3. results' \in Seq(Collected)
    BY <1>5, <2>2 DEF Push, TypeOK
  <2>4. gor' \in [Witness -> {"idle", "posting", "ok", "err"}]
    BY <1>5 DEF Push, TypeOK
  <2> QED BY <1>5, <2>1, <2>3, <2>4 DEF TypeOK, RequestInv
<1>6. ASSUME NEW w \in Witness, Deliver(w)
      PROVE  TypeInv'
  <2>1. ReplyOutcome(w) \in {"ok", "err"}
    BY DEF ReplyOutcome
  <2>2. reply[w] \in SUBSET Signature
    BY DEF TypeOK
  <2> QED BY <1>5, <1>6, <2>1, <2>2 DEF Deliver
<1>7. ASSUME NEW w \in Witness, PostFails(w)
      PROVE  TypeInv'
  BY <1>5, <1>7 DEF PostFails
<1>8. CASE Collect
  <2> DEFINE rc == Head(results)
             item == [index |-> rc.index, sig |-> CHOOSE s \in rc.sig : TRUE]
  <2>1. rc \in Collected /\ results' \in Seq(Collected)
    BY <1>8 DEF Collect, TypeOK
  <2>2. ASSUME rc.sig # {} PROVE item \in [index : Witness, sig : Signature]
    BY <2>1, <2>2 DEF Collected
  <2>3. good' \in Seq([index : Witness, sig : Signature])
    <3>1. CASE rc.sig = {}
      BY <1>8, <3>1 DEF Collect, TypeOK
    <3>2. CASE rc.sig # {}
      <4>1. good' = Append(good, item)
        BY <1>8, <3>2 DEF Collect
      <4> QED BY <4>1, <2>2, <3>2 DEF TypeOK
    <3> QED BY <3>1, <3>2
  <2>4. cancelled' \in BOOLEAN
    BY <1>8 DEF Collect
  <2>5. req # {}
    BY <1>8, RequestExists DEF Collect
  <2> QED BY <1>8, <2>1, <2>3, <2>4, <2>5 DEF Collect, TypeOK, RequestInv
<1>9. CASE ReturnTicket
  <2>1. Request \in Requests /\ req # {}
    BY <1>9, RequestExists DEF ReturnTicket
  <2>2. PICK order \in [1 .. K -> DOMAIN good] :
           ticket' = {ParallelTicket(Request,
                         [i \in 1 .. K |-> good[order[i]].index],
                         [i \in 1 .. K |-> good[order[i]].sig], now)}
    BY <1>9 DEF ReturnTicket
  <2>3. \A i \in 1 .. K : good[order[i]].index \in Witness
    <3> DEFINE Item == [index : Witness, sig : Signature]
    <3>1. good \in Seq(Item)
      BY DEF TypeOK
    <3> HIDE DEF Item
    <3>2. \A p \in DOMAIN good : good[p] \in Item
      BY <3>1
    <3>3. \A x \in Item : x.index \in Witness
      BY DEF Item
    <3> QED BY <3>2, <3>3
  <2>4. \A t \in ticket' : t.req \in Requests /\ t.mask \subseteq Witness
    BY <2>1, <2>2, <2>3 DEF ParallelTicket, AggregateSigs
  <2> QED BY <1>9, <2>1, <2>4 DEF ReturnTicket, TypeOK, RequestInv
<1>10. CASE ReturnError
  <2>1. req # {}
    BY <1>10, RequestExists DEF ReturnError
  <2> QED BY <1>10, <2>1 DEF ReturnError, TypeOK, RequestInv
<1>11. ASSUME NEW w \in Witness, WitnessHandles(w)
       PROVE  TypeInv'
  <2>1. Request \in Requests /\ req # {} /\ client # "idle"
    BY <1>11, RequestExists DEF WitnessHandles
  <2>2. HandleSign(w, Request, "parallel", 0, {}, now) \subseteq Signature
    BY <2>1, HandleSignType
  <2>3. /\ reply' \in [Witness -> SUBSET Signature]
        /\ signatures' \subseteq Signature
        /\ wire' \in [Witness -> {"none", "request", "reply"}]
    BY <1>11, <2>2 DEF WitnessHandles, TypeOK
  <2> QED BY <1>11, <2>1, <2>3 DEF WitnessHandles, TypeOK, RequestInv
<1>12. ASSUME NEW w \in Witness, NEW answer \in {{}, {Garbage}},
              WitnessMisbehaves(w, answer)
       PROVE  TypeInv'
  <2>1. req # {} /\ client # "idle"
    BY <1>12, RequestExists DEF WitnessMisbehaves
  <2>2. answer \subseteq Signature
    BY DEF Garbage, Sign, Signature
  <2>3. /\ reply' \in [Witness -> SUBSET Signature]
        /\ wire' \in [Witness -> {"none", "request", "reply"}]
    BY <1>12, <2>2 DEF WitnessMisbehaves, TypeOK
  <2> QED BY <1>12, <2>1, <2>3 DEF WitnessMisbehaves, TypeOK, RequestInv
<1>13. CASE Tick
  BY <1>13 DEF Tick, TypeOK, RequestInv
<1> QED
  BY <1>1, <1>2, <1>3, <1>4, <1>6, <1>7, <1>8, <1>9, <1>10, <1>11, <1>12,
     <1>13 DEF Next

\* requestParallel keeps its types in every behaviour, for every roster.
THEOREM TypeCorrect == Spec => []TypeOK
<1>1. Spec => []TypeInv
  BY InitTypeInv, NextTypeInv, PTL DEF Spec
<1>2. TypeInv => TypeOK
  BY DEF TypeInv
<1> QED BY <1>1, <1>2, PTL

-----------------------------------------------------------------------------
(* The mask and the signatures line up *)

\* The mask position of the j-th of the sorted participants is j.
LEMMA PositionOfSorted ==
    ASSUME NEW n \in Nat, NEW p \in [1 .. n -> Int],
           \A i, j \in 1 .. n : i < j => p[i] < p[j],
           NEW k \in 1 .. n
    PROVE  MaskPosition({p[i] : i \in 1 .. n}, p[k]) = k
<1> DEFINE q == [i \in 1 .. (k - 1) |-> p[i]]
           below == {x \in {p[i] : i \in 1 .. n} : x < p[k]}
<1>1. k - 1 \in Nat /\ \A i \in 1 .. (k - 1) : i \in 1 .. n /\ q[i] = p[i]
  OBVIOUS
<1>2. q \in [1 .. (k - 1) -> Int]
  OBVIOUS
<1>3. \A i, j \in 1 .. (k - 1) : i < j => q[i] < q[j]
  BY <1>1
<1>4. below = {q[i] : i \in 1 .. (k - 1)}
  <2>1. ASSUME NEW i \in 1 .. n, p[i] < p[k] PROVE i \in 1 .. (k - 1)
    <3>1. ~(k < i) /\ k # i
      <4>1. p[i] \in Int /\ p[k] \in Int
        OBVIOUS
      <4> QED BY <2>1, <4>1
    <3> QED BY <3>1
  <2>2. \A i \in 1 .. (k - 1) : i \in 1 .. n /\ p[i] < p[k]
    OBVIOUS
  <2> QED BY <1>1, <2>1, <2>2
<1> HIDE DEF q, below
<1>5. Cardinality({q[i] : i \in 1 .. (k - 1)}) = k - 1
  BY <1>1, <1>2, <1>3, IncreasingImage
<1>6. Cardinality(below) = k - 1
  BY <1>4, <1>5
<1> QED BY <1>6 DEF MaskPosition, below

\* Signatures sorted like their participants aggregate to one that verifies.
LEMMA AggregateVerifies ==
    ASSUME NEW p \in [1 .. K -> Witness], NEW sigs, NEW msg,
           \A i, j \in 1 .. K : i < j => p[i] < p[j],
           \A i \in 1 .. K : sigs[i] = Sign(p[i], msg)
    PROVE  LET a == AggregateSigs(p, sigs)
           IN  /\ VerifyAggregate(a.mask, a.agg, msg, K)
               /\ a.mask = {p[i] : i \in 1 .. K}
               /\ Cardinality(a.mask) = K
               /\ a.mask # {}
<1> DEFINE a == AggregateSigs(p, sigs)
           mask == {p[i] : i \in 1 .. K}
<1>1. K \in Nat /\ K >= 1 /\ p \in [1 .. K -> Int]
  BY ConfigAssumption DEF Witness
<1>2. DOMAIN p = 1 .. K
  OBVIOUS
<1>3. a.mask = mask /\ a.agg = [i \in mask |-> sigs[MaskPosition(mask, i)]]
  BY <1>2 DEF AggregateSigs
<1>4. Cardinality(mask) = K
  BY <1>1, IncreasingImage
<1>5. mask \subseteq Witness /\ mask # {}
  <2>1. p[1] \in mask
    BY <1>1
  <2> QED BY <2>1
<1>6. ASSUME NEW x \in mask PROVE VerifyIndividual(x, msg, a.agg[x])
  <2>1. PICK k \in 1 .. K : x = p[k]
    OBVIOUS
  <2>2. MaskPosition(mask, p[k]) = k
    BY <1>1, PositionOfSorted
  <2>3. a.agg[x] = sigs[k]
    BY <1>3, <2>1, <2>2
  <2> QED BY <2>1, <2>3 DEF VerifyIndividual
<1> HIDE DEF mask, a
<1>7. VerifyAggregate(a.mask, a.agg, msg, K)
  <2>1. Cardinality(a.mask) >= K
    BY <1>1, <1>3, <1>4
  <2> QED BY <1>3, <1>5, <1>6, <2>1 DEF VerifyAggregate
<1> QED BY <1>3, <1>4, <1>5, <1>7 DEF a, mask

-----------------------------------------------------------------------------
(* The inductive invariant *)

\* Adding a result at the end of the channel.
LEMMA AppendDomain ==
    ASSUME NEW S, NEW s \in Seq(S), NEW e \in S
    PROVE  /\ DOMAIN Append(s, e) = DOMAIN s \cup {Len(s) + 1}
           /\ \A i \in DOMAIN s : Append(s, e)[i] = s[i]
           /\ Append(s, e)[Len(s) + 1] = e
OBVIOUS

\* Taking a result from the front of the channel.
LEMMA TailDomain ==
    ASSUME NEW S, NEW s \in Seq(S), s # << >>
    PROVE  /\ 1 \in DOMAIN s /\ Head(s) = s[1]
           /\ \A i \in DOMAIN Tail(s) : i + 1 \in DOMAIN s /\ Tail(s)[i] = s[i + 1]
           /\ \A i \in DOMAIN s : i # 1 => i - 1 \in DOMAIN Tail(s) /\ Tail(s)[i - 1] = s[i]
OBVIOUS

\* The inductive invariant holds initially: nothing has been sent yet.
LEMMA InitIInv == Init => IInv
<1> SUFFICES ASSUME Init PROVE IInv
  OBVIOUS
<1>1. TypeInv
  BY InitTypeInv
<1>2. ReplyInv
  BY DEF Init, ReplyInv
<1>3. ChannelInv /\ GoodInv
  BY DEF Init, ChannelInv, GoodInv
<1>4. OutcomeInv /\ PhaseInv
  BY DEF Init, OutcomeInv, PhaseInv
<1>5. TicketVerifies /\ NoLostQuorum
  BY DEF Init, TicketVerifies, NoLostQuorum
<1> QED BY <1>1, <1>2, <1>3, <1>4, <1>5 DEF IInv

\* The input of the witnesses does not change once the request is built.
LEMMA OwnUnchanged ==
    ASSUME req' = req
    PROVE  \A w : Own(w)' = Own(w)
BY DEF Own, Sign, Input, Request

\* A goroutine reports: an error without a signature, or its witness's own.
LEMMA PushIInv ==
    ASSUME IInv, TypeInv', NEW w \in Witness, NEW outcome, NEW sig,
           \/ outcome = "err" /\ sig = {}
           \/ outcome = "ok" /\ sig = {Own(w)} /\ Own(w) \in signatures,
           gor[w] = "posting", Push(w, outcome, sig),
           UNCHANGED <<now, client, req, start, wire, reply, good,
                       cancelled, ticket, signatures>>
    PROVE  IInv'
<1> DEFINE e == [index |-> w, sig |-> sig]
<1>0. req' = req /\ \A x : Own(x)' = Own(x)
  BY OwnUnchanged
<1>1. results \in Seq(Collected) /\ e \in Collected
  <2>1. results \in Seq(Collected) /\ signatures \subseteq Signature
    BY DEF IInv, TypeInv, TypeOK
  <2> QED BY <2>1 DEF Collected
<1>2. results' = Append(results, e)
  BY DEF Push
<1>3. gor' = [gor EXCEPT ![w] = outcome] /\ gor \in [Witness -> {"idle", "posting", "ok", "err"}]
  BY DEF Push, IInv, TypeInv, TypeOK
<1> HIDE DEF e
<1>4. /\ DOMAIN results' = DOMAIN results \cup {Len(results) + 1}
      /\ \A i \in DOMAIN results : results'[i] = results[i]
      /\ results'[Len(results) + 1] = e
  BY <1>1, <1>2, AppendDomain
<1>5. ReplyInv' /\ GoodInv'
  BY <1>0 DEF IInv, ReplyInv, GoodInv
<1>6. ChannelInv'
  <2> SUFFICES ASSUME NEW i \in DOMAIN results', NEW s \in results'[i].sig
               PROVE  s = Own(results'[i].index) /\ s \in signatures
    BY <1>0 DEF ChannelInv
  <2>1. CASE i \in DOMAIN results
    BY <2>1, <1>4 DEF IInv, ChannelInv
  <2>2. CASE i = Len(results) + 1
    BY <2>2, <1>4 DEF e
  <2> QED BY <2>1, <2>2, <1>4
<1>7. OutcomeInv'
  <2> SUFFICES ASSUME NEW x \in Witness, gor'[x] = "ok"
               PROVE  InSlice(x)' \/ InChannel(x)'
    BY DEF OutcomeInv
  <2>1. CASE x = w
    <3>1. outcome = "ok" /\ sig # {}
      BY <1>3, <2>1
    <3>2. results'[Len(results) + 1].index = x /\ results'[Len(results) + 1].sig # {}
      BY <1>4, <2>1, <3>1 DEF e
    <3> QED BY <3>2, <1>4 DEF InChannel
  <2>2. CASE x # w
    <3>1. InSlice(x) \/ InChannel(x)
      BY <1>3, <2>2 DEF IInv, OutcomeInv
    <3> QED BY <3>1, <1>4 DEF InSlice, InChannel
  <2> QED BY <2>1, <2>2
<1>8. client # "failed" /\ client \notin {"idle", "ready"}
  BY DEF IInv, PhaseInv
<1>9. PhaseInv' /\ NoLostQuorum'
  BY <1>8 DEF IInv, PhaseInv, NoLostQuorum
<1>10. TicketVerifies'
  BY DEF IInv, TicketVerifies
<1> QED BY <1>5, <1>6, <1>7, <1>9, <1>10 DEF IInv

\* The collector moves a result from the channel to its slice.
LEMMA CollectIInv == ASSUME IInv, TypeInv', Collect PROVE IInv'
<1> DEFINE Item == [index : Witness, sig : Signature]
           rc == Head(results)
           item == [index |-> rc.index, sig |-> CHOOSE s \in rc.sig : TRUE]
<1>0. req' = req /\ \A x : Own(x)' = Own(x)
  BY OwnUnchanged DEF Collect
<1>1. /\ results \in Seq(Collected) /\ good \in Seq(Item) /\ results # << >>
      /\ results' = Tail(results)
      /\ good' = IF rc.sig = {} THEN good ELSE Append(good, item)
      /\ UNCHANGED <<now, client, req, start, wire, reply, gor, ticket, signatures>>
      /\ client = "collecting"
  BY DEF IInv, TypeInv, TypeOK, Collect
<1>2. /\ 1 \in DOMAIN results /\ rc = results[1]
      /\ \A i \in DOMAIN results' : i + 1 \in DOMAIN results /\ results'[i] = results[i + 1]
      /\ \A i \in DOMAIN results :
            i # 1 => i - 1 \in DOMAIN results' /\ results'[i - 1] = results[i]
  BY <1>1, TailDomain
<1>3. ASSUME rc.sig # {}
      PROVE  item \in Item /\ item.sig = Own(rc.index) /\ item.sig \in signatures
  <2>1. rc \in Collected
    BY <1>1, <1>2
  <2>2. (CHOOSE s \in rc.sig : TRUE) \in rc.sig
    BY <1>3
  <2>3. \A s \in rc.sig : s = Own(rc.index) /\ s \in signatures
    BY <1>2 DEF IInv, ChannelInv
  <2> QED BY <2>1, <2>2, <2>3 DEF Collected
<1>4. \/ rc.sig = {} /\ good' = good
      \/ /\ rc.sig # {}
         /\ DOMAIN good' = DOMAIN good \cup {Len(good) + 1}
         /\ \A i \in DOMAIN good : good'[i] = good[i]
         /\ good'[Len(good) + 1] = item
  <2>1. CASE rc.sig = {}
    BY <1>1, <2>1
  <2>2. CASE rc.sig # {}
    <3> HIDE DEF item, Item
    <3>1. item \in Item
      BY <1>3, <2>2
    <3> QED BY <1>1, <2>2, <3>1, AppendDomain
  <2> QED BY <2>1, <2>2
<1>5. item.index = rc.index
  OBVIOUS
<1> HIDE DEF item, Item, rc
<1>6. ReplyInv'
  BY <1>0, <1>1 DEF IInv, ReplyInv
<1>7. ChannelInv'
  BY <1>0, <1>1, <1>2 DEF IInv, ChannelInv
<1>8. GoodInv'
  <2> SUFFICES ASSUME NEW i \in DOMAIN good'
               PROVE  good'[i].sig = Own(good'[i].index) /\ good'[i].sig \in signatures
    BY <1>0, <1>1 DEF GoodInv
  <2>1. CASE i \in DOMAIN good
    <3>1. good'[i] = good[i]
      BY <1>4, <2>1
    <3> QED BY <2>1, <3>1 DEF IInv, GoodInv
  <2>2. CASE i \notin DOMAIN good
    <3>1. good'[i] = item /\ rc.sig # {}
      BY <1>4, <2>2
    <3> QED BY <3>1, <1>3, <1>5
  <2> QED BY <2>1, <2>2
<1>9. OutcomeInv'
  <2> SUFFICES ASSUME NEW x \in Witness, gor[x] = "ok"
               PROVE  InSlice(x)' \/ InChannel(x)'
    BY <1>1 DEF OutcomeInv
  <2>1. CASE InSlice(x)
    <3>1. PICK i \in DOMAIN good : good[i].index = x
      BY <2>1 DEF InSlice
    <3>2. i \in DOMAIN good' /\ good'[i] = good[i]
      BY <1>4
    <3> QED BY <3>1, <3>2 DEF InSlice
  <2>2. CASE InChannel(x)
    <3>1. PICK i \in DOMAIN results : results[i].index = x /\ results[i].sig # {}
      BY <2>2 DEF InChannel
    <3>2. CASE i = 1
      <4>1. rc.index = x /\ rc.sig # {}
        BY <1>2, <3>1, <3>2
      <4>2. Len(good) + 1 \in DOMAIN good' /\ good'[Len(good) + 1].index = x
        BY <1>4, <1>5, <4>1
      <4> QED BY <4>2 DEF InSlice
    <3>3. CASE i # 1
      BY <1>2, <3>1, <3>3 DEF InChannel
    <3> QED BY <3>2, <3>3
  <2> QED BY <2>1, <2>2 DEF IInv, OutcomeInv
<1>10. PhaseInv' /\ NoLostQuorum' /\ TicketVerifies'
  BY <1>1 DEF IInv, PhaseInv, NoLostQuorum, TicketVerifies
<1> QED BY <1>6, <1>7, <1>8, <1>9, <1>10 DEF IInv

\* The ticket: its participants are sorted, so the aggregate verifies.
LEMMA ReturnTicketFacts ==
    ASSUME IInv, ReturnTicket
    PROVE  \E t :
              /\ ticket' = {t}
              /\ VerifyTicket(t)
              /\ Cardinality(t.mask) = K
              /\ t.mask \subseteq Witness
              /\ \A w \in t.mask : Own(w) \in signatures
              /\ t.req = Request /\ t.createdAt = now
<1> DEFINE Item == [index : Witness, sig : Signature]
<1>1. client = "collecting" /\ TypeInv /\ good \in Seq(Item)
  BY DEF ReturnTicket, IInv, TypeInv, TypeOK
<1>2. Request \in Requests /\ VerifyAgentSignature(Request)
  BY <1>1, RequestExists
<1>3. PICK order \in [1 .. K -> DOMAIN good] :
        /\ LowestFirst(order)
        /\ ticket' = {ParallelTicket(Request,
                         [i \in 1 .. K |-> good[order[i]].index],
                         [i \in 1 .. K |-> good[order[i]].sig], now)}
  BY DEF ReturnTicket
<1> DEFINE p == [i \in 1 .. K |-> good[order[i]].index]
           sigs == [i \in 1 .. K |-> good[order[i]].sig]
           t == ParallelTicket(Request, p, sigs, now)
           a == AggregateSigs(p, sigs)
<1>4. p \in [1 .. K -> Witness]
  <2>1. \A j \in DOMAIN good : good[j] \in Item
    <3> HIDE DEF Item
    <3> QED BY <1>1
  <2>2. \A x \in Item : x.index \in Witness
    OBVIOUS
  <2> HIDE DEF Item
  <2>3. \A i \in 1 .. K : good[order[i]].index \in Witness
    BY <2>1, <2>2
  <2> QED BY <2>3
<1>5. \A i, j \in 1 .. K : i < j => p[i] < p[j]
  BY <1>3 DEF LowestFirst
<1>6. \A i \in 1 .. K : sigs[i] = Sign(p[i], Input) /\ sigs[i] \in signatures
  BY DEF IInv, GoodInv, Own
<1> HIDE DEF p, sigs
<1>7. /\ VerifyAggregate(a.mask, a.agg, Input, K)
      /\ a.mask = {p[i] : i \in 1 .. K}
      /\ Cardinality(a.mask) = K /\ a.mask # {}
  BY <1>4, <1>5, <1>6, AggregateVerifies
<1>8. /\ t.req = Request /\ t.mode = "parallel" /\ t.threshold = K
      /\ t.mask = a.mask /\ t.agg = a.agg /\ t.createdAt = now
  BY DEF ParallelTicket
<1> HIDE DEF t, a
<1>9. VerifyParallel(t)
  BY <1>7, <1>8 DEF VerifyParallel, Input
<1>10. VerifyTicket(t)
  BY <1>2, <1>8, <1>9, ConfigAssumption DEF VerifyTicket
<1>11. \A w \in t.mask : w \in Witness /\ Own(w) \in signatures
  BY <1>4, <1>6, <1>7, <1>8 DEF Own
<1>12. ticket' = {t}
  BY <1>3 DEF t, p, sigs
<1> QED BY <1>7, <1>8, <1>10, <1>11, <1>12

\* A failed request had fewer than K good replies.
LEMMA FewGood ==
    ASSUME IInv, ChannelClosed, Len(good) < K
    PROVE  Cardinality({w \in Witness : gor[w] = "ok"}) < K
<1> DEFINE Item == [index : Witness, sig : Signature]
           S == {good[i].index : i \in 1 .. Len(good)}
           ok == {w \in Witness : gor[w] = "ok"}
           f == [i \in 1 .. Len(good) |-> good[i].index]
<1>1. good \in Seq(Item)
  BY DEF IInv, TypeInv, TypeOK
<1>2. Len(good) \in Nat /\ DOMAIN good = 1 .. Len(good)
  BY <1>1
<1>3. f \in Surjection(1 .. Len(good), S)
  BY DEF Surjection
<1>4. ExistsSurjection(1 .. Len(good), S)
  BY <1>3 DEF ExistsSurjection
<1>5. ok \subseteq S
  <2>1. \A w \in ok : InSlice(w)
    BY DEF IInv, OutcomeInv, InChannel, ChannelClosed
  <2> QED BY <1>2, <2>1 DEF InSlice
<1> HIDE DEF S, ok, f
<1>6. Cardinality(S) <= Len(good)
  BY <1>2, <1>4, FS_SurjCardinalityBound
<1>7. IsFiniteSet(S)
  BY <1>2, <1>4, FS_NatSurjection
<1>8. /\ IsFiniteSet(ok) /\ Cardinality(ok) <= Cardinality(S)
      /\ Cardinality(S) \in Nat /\ Cardinality(ok) \in Nat
  BY <1>5, <1>7, FS_Subset, FS_CardinalityType
<1>9. Cardinality(ok) < K
  BY <1>2, <1>6, <1>8, ConfigAssumption
<1> QED BY <1>9 DEF ok

\* Every step of the request and of its witnesses keeps the invariant.
LEMMA NextIInv == IInv /\ [Next]_vars => IInv'
<1> SUFFICES ASSUME IInv, [Next]_vars PROVE IInv'
  OBVIOUS
<1>0. TypeInv'
  BY NextTypeInv DEF IInv
<1>1. CASE UNCHANGED vars
  <2>1. /\ UNCHANGED <<now, client, req, start, wire, reply, gor, results, good>>
        /\ UNCHANGED <<cancelled, ticket, signatures>>
        /\ \A x : Own(x)' = Own(x)
    BY <1>1, OwnUnchanged DEF vars
  <2>2. ReplyInv' /\ ChannelInv' /\ GoodInv'
    BY <2>1 DEF IInv, ReplyInv, ChannelInv, GoodInv
  <2>3. OutcomeInv' /\ PhaseInv'
    BY <2>1 DEF IInv, OutcomeInv, InSlice, InChannel, PhaseInv
  <2>4. TicketVerifies' /\ NoLostQuorum'
    BY <2>1 DEF IInv, TicketVerifies, NoLostQuorum
  <2> QED BY <1>0, <2>2, <2>3, <2>4 DEF IInv
<1>2. ASSUME NEW op \in Ops, NEW a \in RelayAnswers(now, StaleRounds), Build(op, a)
      PROVE  IInv'
  <2>1. /\ req = {} /\ wire = [w \in Witness |-> "none"]
        /\ gor = [w \in Witness |-> "idle"]
        /\ results = << >> /\ good = << >> /\ ticket = {} /\ signatures = {}
    BY <1>2 DEF Build, IInv, TypeInv, RequestInv
  <2>2. /\ UNCHANGED <<now, start, wire, reply, gor, results, good>>
        /\ UNCHANGED <<cancelled, ticket, signatures>>
        /\ client' = "ready"
    BY <1>2 DEF Build
  <2>3. \A w \in Witness : reply[w] = {}
    BY <2>1 DEF IInv, ReplyInv
  <2>4. ReplyInv' /\ ChannelInv' /\ GoodInv'
    BY <2>1, <2>2, <2>3 DEF ReplyInv, ChannelInv, GoodInv
  <2>5. OutcomeInv' /\ PhaseInv'
    BY <2>1, <2>2 DEF OutcomeInv, PhaseInv
  <2>6. TicketVerifies' /\ NoLostQuorum'
    BY <2>1, <2>2 DEF TicketVerifies, NoLostQuorum
  <2> QED BY <1>0, <2>4, <2>5, <2>6 DEF IInv
<1>3. CASE BuildFails
  <2>1. /\ UNCHANGED <<now, req, start, wire, reply, gor, results, good>>
        /\ UNCHANGED <<cancelled, ticket, signatures>>
        /\ client = "idle" /\ client' = "failed"
        /\ \A x : Own(x)' = Own(x)
    BY <1>3, OwnUnchanged DEF BuildFails
  <2>2. ReplyInv' /\ ChannelInv' /\ GoodInv'
    BY <2>1 DEF IInv, ReplyInv, ChannelInv, GoodInv
  <2>3. gor = [w \in Witness |-> "idle"]
    BY <2>1 DEF IInv, PhaseInv
  <2>4. OutcomeInv' /\ PhaseInv'
    BY <2>1, <2>3 DEF IInv, OutcomeInv, PhaseInv
  <2>5. {w \in Witness : gor'[w] = "ok"} = {}
    BY <2>1, <2>3
  <2>6. NoLostQuorum'
    BY <2>5, FS_EmptySet, ConfigAssumption DEF NoLostQuorum
  <2>7. TicketVerifies'
    BY <2>1 DEF IInv, TicketVerifies
  <2> QED BY <1>0, <2>2, <2>4, <2>6, <2>7 DEF IInv
<1>4. CASE FanOut
  <2>1. /\ UNCHANGED <<now, req, reply, results, good>>
        /\ UNCHANGED <<cancelled, ticket, signatures>>
        /\ client = "ready" /\ client' = "collecting"
        /\ wire' = [w \in Witness |-> "request"]
        /\ gor' = [w \in Witness |-> "posting"]
        /\ \A x : Own(x)' = Own(x)
    BY <1>4, OwnUnchanged DEF FanOut
  <2>2. wire = [w \in Witness |-> "none"]
    BY <2>1 DEF IInv, PhaseInv
  <2>3. ReplyInv' /\ ChannelInv' /\ GoodInv'
    BY <2>1, <2>2 DEF IInv, ReplyInv, ChannelInv, GoodInv
  <2>4. OutcomeInv' /\ PhaseInv'
    BY <2>1 DEF IInv, OutcomeInv, PhaseInv
  <2>5. TicketVerifies' /\ NoLostQuorum'
    BY <2>1 DEF IInv, TicketVerifies, NoLostQuorum
  <2> QED BY <1>0, <2>3, <2>4, <2>5 DEF IInv
<1>5. ASSUME NEW w \in Witness, Deliver(w)
      PROVE  IInv'
  <2>1. CASE ReplyOutcome(w) = "ok"
    <3>1. PICK sig \in reply[w] : VerifyIndividual(w, Input, sig)
      BY <2>1 DEF ReplyOutcome
    <3>2. Own(w) \in reply[w]
      BY <3>1 DEF VerifyIndividual, Own
    <3>3. Own(w) # Garbage
      BY DEF Own, Garbage, Sign, Witness
    <3>4. reply[w] = {Own(w)} /\ Own(w) \in signatures
      BY <3>2, <3>3 DEF IInv, ReplyInv
    <3> QED BY <1>0, <1>5, <2>1, <3>4, PushIInv DEF Deliver
  <2>2. CASE ReplyOutcome(w) # "ok"
    <3>1. ReplyOutcome(w) = "err"
      BY <2>2 DEF ReplyOutcome
    <3> QED BY <1>0, <1>5, <3>1, PushIInv DEF Deliver
  <2> QED BY <2>1, <2>2
<1>6. ASSUME NEW w \in Witness, PostFails(w)
      PROVE  IInv'
  BY <1>0, <1>6, PushIInv DEF PostFails
<1>7. CASE Collect
  BY <1>0, <1>7, CollectIInv
<1>8. CASE ReturnTicket
  <2>1. /\ UNCHANGED <<now, req, start, wire, reply, gor, results, good>>
        /\ UNCHANGED <<cancelled, signatures>>
        /\ client' = "ticket"
        /\ \A x : Own(x)' = Own(x)
    BY <1>8, OwnUnchanged DEF ReturnTicket
  <2>2. ReplyInv' /\ ChannelInv' /\ GoodInv'
    BY <2>1 DEF IInv, ReplyInv, ChannelInv, GoodInv
  <2>3. OutcomeInv' /\ PhaseInv' /\ NoLostQuorum'
    BY <2>1 DEF IInv, OutcomeInv, InSlice, InChannel, PhaseInv, NoLostQuorum
  <2>4. TicketVerifies'
    BY <1>8, ReturnTicketFacts DEF TicketVerifies
  <2> QED BY <1>0, <2>2, <2>3, <2>4 DEF IInv
<1>9. CASE ReturnError
  <2>1. /\ UNCHANGED <<now, req, start, wire, reply, gor, results, good>>
        /\ UNCHANGED <<cancelled, ticket, signatures>>
        /\ client = "collecting" /\ client' = "failed"
        /\ \A x : Own(x)' = Own(x)
    BY <1>9, OwnUnchanged DEF ReturnError
  <2>2. ReplyInv' /\ ChannelInv' /\ GoodInv'
    BY <2>1 DEF IInv, ReplyInv, ChannelInv, GoodInv
  <2>3. OutcomeInv' /\ TicketVerifies'
    BY <2>1 DEF IInv, OutcomeInv, InSlice, InChannel, TicketVerifies
  <2>4. PhaseInv'
    BY <1>9, <2>1 DEF IInv, PhaseInv, ReturnError, ChannelClosed
  <2>5. NoLostQuorum'
    BY <1>9, <2>1, FewGood DEF ReturnError, NoLostQuorum
  <2> QED BY <1>0, <2>2, <2>3, <2>4, <2>5 DEF IInv
<1>10. ASSUME NEW w \in Witness, NEW answer, wire[w] = "request",
              reply' = [reply EXCEPT ![w] = answer],
              wire' = [wire EXCEPT ![w] = "reply"],
              UNCHANGED <<now, client, req, start, gor, results, good, cancelled, ticket>>,
              \/ answer \in {{}, {Garbage}} /\ signatures' = signatures
              \/ answer = {Own(w)} /\ signatures' = signatures \cup answer
       PROVE  IInv'
  <2>1. /\ \A x : Own(x)' = Own(x)
        /\ signatures \subseteq signatures'
    BY <1>10, OwnUnchanged
  <2>2. client \notin {"idle", "ready"}
    BY <1>10 DEF IInv, PhaseInv
  <2>3. ReplyInv'
    <3> SUFFICES ASSUME NEW x \in Witness
                 PROVE  /\ reply'[x] \in {{}, {Garbage}, {Own(x)}}
                        /\ Own(x) \in reply'[x] => Own(x) \in signatures'
                        /\ wire'[x] # "reply" => reply'[x] = {} /\ Own(x) \notin signatures'
      BY <2>1 DEF ReplyInv
    <3>1. Own(w) # Garbage /\ (x # w => Own(x) # Own(w))
      BY DEF Own, Garbage, Sign, Witness
    <3>2. /\ reply \in [Witness -> SUBSET Signature]
          /\ wire \in [Witness -> {"none", "request", "reply"}]
      BY DEF IInv, TypeInv, TypeOK
    <3>3. CASE x = w
      <4>1. reply'[x] = answer /\ wire'[x] = "reply"
        BY <1>10, <3>2, <3>3
      <4> QED BY <1>10, <3>1, <3>3, <4>1
    <3>4. CASE x # w
      <4>1. reply'[x] = reply[x] /\ wire'[x] = wire[x]
        BY <1>10, <3>2, <3>4
      <4>2. Own(x) \in signatures' <=> Own(x) \in signatures
        BY <1>10, <3>1, <3>4
      <4> QED BY <4>1, <4>2 DEF IInv, ReplyInv
    <3> QED BY <3>3, <3>4
  <2>4. ChannelInv' /\ GoodInv'
    BY <1>10, <2>1 DEF IInv, ChannelInv, GoodInv
  <2>5. OutcomeInv' /\ PhaseInv'
    BY <1>10, <2>2 DEF IInv, OutcomeInv, InSlice, InChannel, PhaseInv
  <2>6. TicketVerifies' /\ NoLostQuorum'
    BY <1>10 DEF IInv, TicketVerifies, NoLostQuorum
  <2> QED BY <1>0, <2>3, <2>4, <2>5, <2>6 DEF IInv
<1>11. ASSUME NEW w \in Witness, WitnessHandles(w)
       PROVE  IInv'
  <2>1. Request \in Requests
    BY <1>11, RequestExists DEF WitnessHandles, IInv
  <2>2. HandleSign(w, Request, "parallel", 0, {}, now) \in {{}, {Own(w)}}
    BY <2>1, HandleSignType DEF Own, Input
  <2>3. CASE HandleSign(w, Request, "parallel", 0, {}, now) = {}
    BY <1>10, <1>11, <2>3 DEF WitnessHandles
  <2>4. CASE HandleSign(w, Request, "parallel", 0, {}, now) = {Own(w)}
    BY <1>10, <1>11, <2>4 DEF WitnessHandles
  <2> QED BY <2>2, <2>3, <2>4
<1>12. ASSUME NEW w \in Witness, NEW answer \in {{}, {Garbage}},
              WitnessMisbehaves(w, answer)
       PROVE  IInv'
  BY <1>10, <1>12 DEF WitnessMisbehaves
<1>13. CASE Tick
  <2>1. /\ UNCHANGED <<client, req, start, wire, reply, gor, results, good>>
        /\ UNCHANGED <<cancelled, ticket, signatures>>
        /\ \A x : Own(x)' = Own(x)
    BY <1>13, OwnUnchanged DEF Tick
  <2>2. ReplyInv' /\ ChannelInv' /\ GoodInv'
    BY <2>1 DEF IInv, ReplyInv, ChannelInv, GoodInv
  <2>3. OutcomeInv' /\ PhaseInv'
    BY <2>1 DEF IInv, OutcomeInv, InSlice, InChannel, PhaseInv
  <2>4. TicketVerifies' /\ NoLostQuorum'
    BY <2>1 DEF IInv, TicketVerifies, NoLostQuorum
  <2> QED BY <1>0, <2>2, <2>3, <2>4 DEF IInv
<1> QED
  BY <1>1, <1>2, <1>3, <1>4, <1>5, <1>6, <1>7, <1>8, <1>9, <1>11, <1>12,
     <1>13 DEF Next

\* The inductive invariant holds in every state of requestParallel.
LEMMA Invariance == Spec => []IInv
BY InitIInv, NextIInv, PTL DEF Spec

\* Every ticket requestParallel returns passes VerifyTicket, whatever the
\* roster, the threshold and the order in which replies arrived.
THEOREM TicketCorrect == Spec => []TicketVerifies
<1>1. IInv => TicketVerifies
  BY DEF IInv
<1> QED BY <1>1, Invariance, PTL

\* A request fails only when fewer than K goroutines got a good signature.
THEOREM QuorumNotLost == Spec => []NoLostQuorum
<1>1. IInv => NoLostQuorum
  BY DEF IInv
<1> QED BY <1>1, Invariance, PTL

-----------------------------------------------------------------------------
(* requestParallel implements DaqQuorum *)

\* The refinement mapping, in terms of the signatures made so far.
LEMMA EndorsedIs ==
    ASSUME IInv
    PROVE  \/ req = {} /\ Endorsed = {}
           \/ req # {} /\ Endorsed = {w \in Witness : Own(w) \in signatures}
<1>1. CASE req = {}
  BY <1>1 DEF Endorsed
<1>2. CASE req # {}
  <2>1. PICK r \in req : req = {r}
    BY <1>2 DEF IInv, TypeInv, RequestInv
  <2>2. \A w : Own(w) = Sign(w, WitnessInput(r, "parallel", 0, {}))
    BY <2>1, RequestIs DEF Own, Input
  <2> QED BY <2>1, <2>2 DEF Endorsed
<1> QED BY <1>1, <1>2

\* The initial state of the request is that of the promise.
LEMMA InitQuorum == Init => Quorum!Init
BY DEF Init, Quorum!Init, Endorsed, Outcome

\* Every step is a step of the promise or leaves it alone.
LEMMA NextQuorum == IInv /\ [Next]_vars => [Quorum!Next]_(Quorum!vars)
<1> SUFFICES ASSUME IInv, [Next]_vars
             PROVE  Quorum!Next \/ (Endorsed' = Endorsed /\ Outcome' = Outcome)
  BY DEF Quorum!vars
<1>0. IInv'
  BY NextIInv
<1>1. ASSUME UNCHANGED <<client, req, ticket, signatures>>
      PROVE  Endorsed' = Endorsed /\ Outcome' = Outcome
  BY <1>1 DEF Endorsed, Outcome
<1>2. CASE UNCHANGED vars
  BY <1>1, <1>2 DEF vars
<1>3. ASSUME NEW op \in Ops, NEW a \in RelayAnswers(now, StaleRounds), Build(op, a)
      PROVE  Endorsed' = Endorsed /\ Outcome' = Outcome
  <2>1. signatures = {} /\ ticket = {} /\ req = {}
    BY <1>3 DEF Build, IInv, TypeInv, RequestInv
  <2> QED BY <1>3, <2>1 DEF Build, Endorsed, Outcome
<1>4. ASSUME client \notin {"ticket", "failed"}, client' = "failed",
             UNCHANGED <<req, ticket, signatures>>
      PROVE  Quorum!Next
  <2>1. ticket = {} /\ ticket' = {}
    BY <1>4 DEF IInv, PhaseInv
  <2>2. Endorsed' = Endorsed
    BY <1>4 DEF Endorsed
  <2>3. Outcome.kind = "pending"
    BY <1>4 DEF Outcome
  <2>4. Outcome' = [kind |-> "denied", by |-> {}]
    BY <1>4, <2>1 DEF Outcome
  <2>5. Quorum!Deny
    BY <2>2, <2>3, <2>4 DEF Quorum!Deny
  <2> QED BY <2>5 DEF Quorum!Next
<1>5. CASE BuildFails
  BY <1>4, <1>5 DEF BuildFails
<1>6. CASE FanOut
  BY <1>6 DEF FanOut, Endorsed, Outcome
<1>7. ASSUME NEW w \in Witness, Deliver(w) \/ PostFails(w)
      PROVE  Endorsed' = Endorsed /\ Outcome' = Outcome
  BY <1>1, <1>7 DEF Deliver, PostFails
<1>8. CASE Collect
  BY <1>1, <1>8 DEF Collect
<1>9. CASE ReturnTicket
  <2>1. PICK t : /\ ticket' = {t}
                 /\ Cardinality(t.mask) = K
                 /\ t.mask \subseteq Witness
                 /\ \A w \in t.mask : Own(w) \in signatures
    BY <1>9, ReturnTicketFacts
  <2>2. /\ client = "collecting" /\ client' = "ticket"
        /\ UNCHANGED <<req, signatures>>
    BY <1>9 DEF ReturnTicket
  <2>3. req # {}
    BY <2>2, RequestExists DEF IInv
  <2>4. t.mask \subseteq Endorsed
    BY <2>1, <2>3, EndorsedIs
  <2>5. Endorsed' = Endorsed
    BY <2>2 DEF Endorsed
  <2>6. Outcome.kind = "pending"
    BY <2>2 DEF Outcome
  <2>7. Outcome' = [kind |-> "granted", by |-> t.mask]
    BY <2>1, <2>2 DEF Outcome
  <2>8. PICK Q \in SUBSET Witness : Q = t.mask
    BY <2>1
  <2>9. Cardinality(Q) = K /\ Q \subseteq Endorsed
    BY <2>1, <2>4, <2>8
  <2>10. Quorum!Grant(Q)
    BY <2>5, <2>6, <2>7, <2>8, <2>9 DEF Quorum!Grant
  <2>11. Q \in {S \in SUBSET Witness : Cardinality(S) = K}
    BY <2>9
  <2> QED BY <2>10, <2>11 DEF Quorum!Next
<1>10. CASE ReturnError
  BY <1>4, <1>10 DEF ReturnError
<1>11. ASSUME NEW w \in Witness, WitnessHandles(w)
       PROVE  Quorum!Next \/ (Endorsed' = Endorsed /\ Outcome' = Outcome)
  <2>1. Request \in Requests /\ req = {Request}
    BY <1>11, RequestExists DEF WitnessHandles, IInv
  <2>2. HandleSign(w, Request, "parallel", 0, {}, now) \in {{}, {Own(w)}}
    BY <2>1, HandleSignType DEF Own, Input
  <2>3. /\ UNCHANGED <<client, req, ticket>> /\ wire[w] = "request"
        /\ signatures' = signatures \cup HandleSign(w, Request, "parallel", 0, {}, now)
    BY <1>11 DEF WitnessHandles
  <2>4. CASE HandleSign(w, Request, "parallel", 0, {}, now) = {}
    <3>1. signatures' = signatures
      BY <2>3, <2>4
    <3> QED BY <1>1, <2>3, <3>1
  <2>5. CASE HandleSign(w, Request, "parallel", 0, {}, now) = {Own(w)}
    <3>1. Own(w) \notin signatures
      BY <2>3 DEF IInv, ReplyInv
    <3>2. \A x : Own(x)' = Own(x)
      BY <2>3, OwnUnchanged
    <3>3. \A x : Own(x) = Own(w) => x = w
      BY DEF Own, Sign
    <3>4. Endorsed = {x \in Witness : Own(x) \in signatures}
      BY <2>1, EndorsedIs
    <3>5. Endorsed' = {x \in Witness : Own(x) \in signatures'}
      BY <2>1, <2>3, RequestIs DEF Endorsed, Own, Input
    <3>6. w \notin Endorsed /\ Endorsed' = Endorsed \cup {w}
      BY <2>3, <2>5, <3>1, <3>3, <3>4, <3>5
    <3>7. Outcome' = Outcome
      BY <2>3 DEF Outcome
    <3>8. Quorum!Endorse(w)
      BY <3>6, <3>7 DEF Quorum!Endorse
    <3> QED BY <3>8 DEF Quorum!Next
  <2> QED BY <2>2, <2>4, <2>5
<1>12. ASSUME NEW w \in Witness, NEW answer \in {{}, {Garbage}},
              WitnessMisbehaves(w, answer)
       PROVE  Endorsed' = Endorsed /\ Outcome' = Outcome
  BY <1>1, <1>12 DEF WitnessMisbehaves
<1>13. CASE Tick
  BY <1>1, <1>13 DEF Tick
<1> QED
  BY <1>2, <1>3, <1>5, <1>6, <1>7, <1>8, <1>9, <1>10, <1>11, <1>12, <1>13
     DEF Next

\* requestParallel implements the promise of the quorum: decided once, and
\* granted only on K distinct witnesses that signed before the grant.
THEOREM ImplementsQuorum == Spec => QuorumPromise
<1>1. Spec => Init /\ [][Next]_vars
  BY PTL DEF Spec
<1> QED BY <1>1, InitQuorum, NextQuorum, Invariance, PTL DEF QuorumPromise, Quorum!Spec
-----------------------------------------------------------------------------
(* How old the beacon of a ticket may be *)

\* Every clock reads a second between the first and the 2^63-th round of
\* drand.  Before genesis there is no round to be early for, and past 2^63
\* rounds the int64 of CheckFreshness wraps.
ClocksInRange ==
    /\ LastStart < RoundTime(SignBit + 1)
    /\ \A w \in DrandVerifier :
          /\ Genesis <= StartTime + Skew[w]
          /\ LastStart + HttpTimeout + Skew[w] < RoundTime(SignBit + 1)

Fanned == client \in {"collecting", "ticket"}

\* Time: the posts start in the bounds and end with their timeout.
TimeInv ==
    /\ StartTime <= start /\ start <= LastStart
    /\ StartTime <= now
    /\ client \in {"idle", "ready"} => now <= LastStart
    /\ Fanned => start <= now /\ now <= start + HttpTimeout

\* A genuine beacon is one of a round published before the request was built.
RoundInv ==
    \A r \in req :
        /\ r.round \in Nat \ {0}
        /\ r.beacon = "genuine" => r.round = 1 \/ RoundTime(r.round) <= LastStart

\* w found the beacon genuine and fresh at some second since the fan-out.
Checked(w) ==
    /\ VerifyDrandBeacon(Request)
    /\ \E s \in Int : /\ start <= s /\ s <= now
                      /\ CheckFreshness(Request.round, s + Skew[w], MaxLag)
CheckedInv ==
    Fanned => \A w \in DrandVerifier : Own(w) \in signatures => Checked(w)

AgeInv == TimeInv /\ RoundInv /\ CheckedInv /\ TicketAge

\* The ticket of a checked request is of the promised age: the second at
\* which w checked is at most one timeout before the ticket's.
LEMMA CheckedIsRecent ==
    ASSUME ClocksInRange, TypeInv, TimeInv, RoundInv, client = "collecting",
           NEW w \in DrandVerifier, Checked(w)
    PROVE  /\ now + Skew[w] < RoundTime(Request.round + MaxLag + 1) + HttpTimeout
           /\ now + Skew[w] >= RoundTime(Request.round - MaxLag)
<1>1. PICK s \in Int : /\ start <= s /\ s <= now
                       /\ CheckFreshness(Request.round, s + Skew[w], MaxLag)
  BY DEF Checked
<1>2. /\ now \in Int /\ start \in Int /\ HttpTimeout \in Nat /\ StartTime \in Int
      /\ LastStart \in Int /\ MaxLag \in Nat /\ Skew[w] \in Int
      /\ Genesis \in Int /\ SignBit \in Nat \ {0}
  BY ConfigAssumption, TimeAssumption, DrandAssumption DEF TypeInv, TypeOK
<1>3. req = {Request}
  BY RequestExists
<1>4. Request.beacon = "genuine"
  BY DEF Checked, VerifyDrandBeacon
<1>5. PICK r \in Nat \ {0} : r = Request.round
  BY <1>3 DEF RoundInv
<1>6. r = 1 \/ RoundTime(r) <= LastStart
  BY <1>3, <1>4, <1>5 DEF RoundInv
<1>7. PICK t \in Int : t = s + Skew[w]
  BY <1>2
<1>8. /\ StartTime <= s /\ s <= LastStart + HttpTimeout
      /\ s <= now /\ now <= s + HttpTimeout
  BY <1>1, <1>2 DEF TimeInv, Fanned
<1>9. Genesis <= t /\ t < RoundTime(SignBit + 1)
  <2>1. /\ Genesis <= StartTime + Skew[w]
        /\ LastStart + HttpTimeout + Skew[w] < RoundTime(SignBit + 1)
        /\ RoundTime(SignBit + 1) \in Int
    BY <1>2, RoundTimeOrder DEF ClocksInRange
  <2> QED
    BY <1>2, <1>7, <1>8, <2>1
<1>10. ExpectedRound(t) \in Nat \ {0} /\ ExpectedRound(t) <= SignBit
  BY <1>2, <1>9, ClockBelowRound, ExpectedRoundBounds
<1>11. r <= SignBit
  <2>1. CASE RoundTime(r) <= LastStart
    <3>1. /\ RoundTime(r) \in Int /\ RoundTime(SignBit + 1) \in Int
          /\ RoundTime(r) < RoundTime(SignBit + 1)
      BY <1>2, <2>1, RoundTimeOrder DEF ClocksInRange
    <3>2. r < SignBit + 1
      BY <1>2, <3>1, RoundTimeOrder
    <3> QED
      BY <1>2, <3>2
  <2> QED
    BY <1>2, <1>6, <2>1
<1>12. CheckFreshness(r, t, MaxLag)
  BY <1>1, <1>5, <1>7
<1>13. t < RoundTime(r + MaxLag + 1)
  <2>1. ExpectedRound(t) < r + SignBit
    BY <1>2, <1>10
  <2> QED
    BY <1>2, <1>12, <2>1, FreshIsRecent
<1>14. RoundTime(r - MaxLag) <= t
  <2>1. r < ExpectedRound(t) + SignBit
    BY <1>2, <1>10, <1>11
  <2> QED
    BY <1>2, <1>9, <1>12, <2>1, FreshIsNotAhead
<1>15. RoundTime(r + MaxLag + 1) \in Int /\ RoundTime(r - MaxLag) \in Int
  BY <1>2, RoundTimeOrder
<1> QED
  BY <1>2, <1>5, <1>7, <1>8, <1>13, <1>14, <1>15

\* Nothing has been asked yet.
LEMMA InitAgeInv == Init => AgeInv
<1> SUFFICES ASSUME Init PROVE AgeInv
  OBVIOUS
<1>1. TimeInv
  BY TimeAssumption DEF Init, TimeInv, Fanned
<1>2. RoundInv /\ CheckedInv /\ TicketAge
  BY DEF Init, RoundInv, CheckedInv, Fanned, TicketAge
<1> QED
  BY <1>1, <1>2 DEF AgeInv

\* A step that leaves alone the clock, the request, the signatures and the
\* ticket, and does not fan out, keeps the ages.
LEMMA AgeFrame ==
    ASSUME AgeInv, UNCHANGED <<now, start, req, signatures, ticket>>,
           client' \in {"idle", "ready"} => client \in {"idle", "ready"},
           Fanned' => Fanned
    PROVE  AgeInv'
<1>1. \A w : Own(w)' = Own(w)
  BY OwnUnchanged
<1>2. Request' = Request
  BY DEF Request
<1>3. TimeInv'
  BY DEF AgeInv, TimeInv
<1>4. RoundInv' /\ TicketAge'
  BY DEF AgeInv, RoundInv, TicketAge
<1>5. CheckedInv'
  BY <1>1, <1>2 DEF AgeInv, CheckedInv, Checked, VerifyDrandBeacon
<1> QED
  BY <1>3, <1>4, <1>5 DEF AgeInv

\* Every step keeps the ages.
LEMMA NextAgeInv == ASSUME ClocksInRange, IInv, AgeInv, [Next]_vars PROVE AgeInv'
<1>0. TypeInv /\ TimeInv /\ RoundInv /\ CheckedInv /\ TicketAge
  BY DEF IInv, AgeInv
<1>1. CASE UNCHANGED vars
  BY <1>1, AgeFrame DEF vars, Fanned
<1>2. ASSUME NEW op \in Ops, NEW a \in RelayAnswers(now, StaleRounds), Build(op, a)
      PROVE  AgeInv'
  <2>1. /\ client = "idle" /\ client' = "ready"
        /\ UNCHANGED <<now, start, ticket>>
        /\ req' = {BuildRequest(op, a, now)}
    BY <1>2 DEF Build
  <2>2. now \in Int /\ StaleRounds \in Nat /\ LastStart \in Int
    BY <1>0, TimeAssumption DEF TypeInv, TypeOK
  <2>3. /\ a.round \in Nat \ {0}
        /\ a.beacon = "genuine" => a.round = 1 \/ RoundTime(a.round) <= now
    BY <2>2, RelayAnswersRounds
  <2>4. /\ BuildRequest(op, a, now).round = a.round
        /\ BuildRequest(op, a, now).beacon = a.beacon
    BY DEF BuildRequest
  <2>5. TimeInv'
    BY <1>0, <2>1 DEF TimeInv, Fanned
  <2>6. now <= LastStart
    BY <1>0, <2>1 DEF TimeInv
  <2>7. RoundTime(a.round) \in Int
    BY <2>3, RoundTimeOrder
  <2>8. a.beacon = "genuine" => a.round = 1 \/ RoundTime(a.round) <= LastStart
    BY <2>2, <2>3, <2>6, <2>7
  <2>9. RoundInv'
    BY <2>1, <2>3, <2>4, <2>8 DEF RoundInv
  <2>10. CheckedInv' /\ TicketAge'
    BY <1>0, <2>1 DEF CheckedInv, Fanned, TicketAge
  <2> QED
    BY <2>5, <2>9, <2>10 DEF AgeInv
<1>3. CASE BuildFails
  BY <1>3, AgeFrame DEF BuildFails, Fanned
<1>4. CASE FanOut
  <2>1. /\ client = "ready" /\ client' = "collecting"
        /\ start' = now
        /\ UNCHANGED <<now, req, ticket, signatures>>
    BY <1>4 DEF FanOut
  <2>2. now \in Int /\ HttpTimeout \in Nat
    BY <1>0, TimeAssumption DEF TypeInv, TypeOK
  <2>3. TimeInv'
    BY <1>0, <2>1, <2>2 DEF TimeInv, Fanned
  <2>4. \A w \in Witness : Own(w) \notin signatures
    BY <2>1 DEF IInv, PhaseInv, ReplyInv
  <2>5. \A w : Own(w)' = Own(w)
    BY <2>1, OwnUnchanged
  <2>6. CheckedInv'
    BY <2>1, <2>4, <2>5, ConfigAssumption DEF CheckedInv
  <2>7. RoundInv' /\ TicketAge'
    BY <1>0, <2>1 DEF RoundInv, TicketAge
  <2> QED
    BY <2>3, <2>6, <2>7 DEF AgeInv
<1>5. ASSUME NEW w \in Witness, Deliver(w) \/ PostFails(w)
      PROVE  AgeInv'
  BY <1>5, AgeFrame DEF Deliver, PostFails, Fanned
<1>6. CASE Collect
  BY <1>6, AgeFrame DEF Collect, Fanned
<1>7. CASE ReturnTicket
  <2>1. PICK t : /\ ticket' = {t}
                 /\ \A w \in t.mask : Own(w) \in signatures
                 /\ t.req = Request /\ t.createdAt = now
    BY <1>7, ReturnTicketFacts
  <2>2. /\ client = "collecting" /\ client' = "ticket"
        /\ UNCHANGED <<now, req, start, signatures>>
    BY <1>7 DEF ReturnTicket
  <2>3. \A w \in t.mask \cap DrandVerifier : Checked(w)
    BY <1>0, <2>1, <2>2 DEF CheckedInv, Fanned
  <2>4. TicketAge'
    BY <1>0, <2>1, <2>2, <2>3, CheckedIsRecent DEF TicketAge
  <2>5. TimeInv' /\ RoundInv'
    BY <1>0, <2>2 DEF TimeInv, RoundInv, Fanned
  <2>6. \A w : Own(w)' = Own(w)
    BY <2>2, OwnUnchanged
  <2>7. CheckedInv'
    BY <1>0, <2>2, <2>6 DEF CheckedInv, Checked, VerifyDrandBeacon, Request, Fanned
  <2> QED
    BY <2>4, <2>5, <2>7 DEF AgeInv
<1>8. CASE ReturnError
  BY <1>8, AgeFrame DEF ReturnError, Fanned
<1>9. ASSUME NEW w \in Witness, WitnessHandles(w)
      PROVE  AgeInv'
  <2>1. /\ UNCHANGED <<now, client, req, start, ticket>>
        /\ signatures' = signatures \cup HandleSign(w, Request, "parallel", 0, {}, now)
        /\ wire[w] = "request"
    BY <1>9 DEF WitnessHandles
  <2>2. TimeInv' /\ RoundInv' /\ TicketAge'
    BY <1>0, <2>1 DEF TimeInv, RoundInv, TicketAge, Fanned
  <2>3. Request' = Request /\ \A x : Own(x)' = Own(x)
    BY <2>1, OwnUnchanged DEF Request
  <2>4. ASSUME Fanned, NEW x \in DrandVerifier, Own(x) \in signatures'
        PROVE  Checked(x)
    <3>1. CASE Own(x) \in signatures
      BY <1>0, <2>4, <3>1 DEF CheckedInv
    <3>2. CASE Own(x) \in HandleSign(w, Request, "parallel", 0, {}, now)
      <4>1. Accepts(w, Request, "parallel", 0, {}, now) /\ x = w
        BY <3>2 DEF HandleSign, Own, Sign
      <4>2. VerifyDrandBeacon(Request) /\ CheckFreshness(Request.round, now + Skew[x], MaxLag)
        BY <4>1 DEF Accepts
      <4>3. now \in Int /\ start <= now /\ now <= now
        BY <1>0, <2>4 DEF TypeInv, TypeOK, TimeInv
      <4> QED
        BY <4>2, <4>3 DEF Checked
    <3> QED
      BY <2>1, <2>4, <3>1, <3>2
  <2>5. CheckedInv'
    BY <2>1, <2>3, <2>4 DEF CheckedInv, Checked, VerifyDrandBeacon, Fanned
  <2> QED
    BY <2>2, <2>5 DEF AgeInv
<1>10. ASSUME NEW w \in Witness, NEW answer \in {{}, {Garbage}},
              WitnessMisbehaves(w, answer)
       PROVE  AgeInv'
  BY <1>10, AgeFrame DEF WitnessMisbehaves, Fanned
<1>11. CASE Tick
  <2>1. /\ UNCHANGED <<client, req, start, signatures, ticket>>
        /\ now' = now + 1
        /\ \/ client \in {"idle", "ready"} /\ now < LastStart
           \/ (\E w \in Witness : gor[w] = "posting") /\ now < start + HttpTimeout
    BY <1>11 DEF Tick
  <2>2. /\ now \in Int /\ start \in Int /\ HttpTimeout \in Nat
        /\ StartTime \in Int /\ LastStart \in Int
    BY <1>0, TimeAssumption DEF TypeInv, TypeOK
  <2>3. (\E w \in Witness : gor[w] = "posting") => client \notin {"idle", "ready"}
    BY DEF IInv, PhaseInv
  <2>4. TimeInv'
    BY <1>0, <2>1, <2>2, <2>3 DEF TimeInv, Fanned
  <2>5. RoundInv' /\ TicketAge'
    BY <1>0, <2>1 DEF RoundInv, TicketAge
  <2>6. Request' = Request /\ \A x : Own(x)' = Own(x)
    BY <2>1, OwnUnchanged DEF Request
  <2>7. \A s \in Int : s <= now => s <= now'
    BY <2>1, <2>2
  <2>8. CheckedInv'
    BY <1>0, <2>1, <2>6, <2>7 DEF CheckedInv, Checked, VerifyDrandBeacon, Fanned
  <2> QED
    BY <2>4, <2>5, <2>8 DEF AgeInv
<1> QED
  BY <1>1, <1>2, <1>3, <1>4, <1>5, <1>6, <1>7, <1>8, <1>9, <1>10, <1>11 DEF Next

\* The age of a ticket, for every roster, window, skew and timeout: a
\* participant that checks drand (VerifyDrand, CheckFreshness) did so within
\* MaxLag rounds on its own clock and at most one post timeout before the
\* ticket was created.  The hypothesis is about the constants alone.
THEOREM TicketsAreFresh ==
    ASSUME ClocksInRange
    PROVE  Spec => []TicketAge
<1>1. IInv /\ AgeInv /\ [Next]_vars => AgeInv'
  BY NextAgeInv
<1>2. AgeInv => TicketAge
  BY DEF AgeInv
<1> QED
  BY <1>1, <1>2, InitAgeInv, Invariance, PTL DEF Spec
=============================================================================
