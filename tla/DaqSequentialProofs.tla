------------------------- MODULE DaqSequentialProofs -------------------------
(***************************************************************************)
(* What holds of requestSequential for every roster, threshold, timeout,   *)
(* set of faulty witnesses and clock skew.                                 *)
(***************************************************************************)
EXTENDS DaqSequential, DaqProtocolProofs, SequenceTheorems

\* There is one request once the client is past "idle"; it carries the
\* agent's signature, and a genuine beacon is one that drand has published.
WellFormed(r) ==
    /\ r.op \in Ops /\ r.agent = Agent /\ r.round \in Nat \ {0}
    /\ VerifyAgentSignature(r)
    /\ r.beacon = "genuine" => r.round = 1 \/ RoundTime(r.round) <= now
RequestInv ==
    \/ client = "idle" /\ req = {}
    \/ client # "idle" /\ \E r \in req : req = {r} /\ WellFormed(r)

\* Nothing is sent or collected before the walk.
StartInv ==
    client \in {"idle", "ready"} =>
        /\ seqIdx = 0 /\ chain = << >> /\ ticket = {} /\ prevSig = {} /\ signatures = {}
        /\ wire = [w \in Witness |-> "none"]

\* The walk is the only sender: witnesses ahead of it have nothing, a
\* witness signs when it answers, and there is one answer.
WireInv ==
    \A w \in Witness :
        /\ w > seqIdx => wire[w] = "none"
        /\ wire[w] # "reply" => reply[w] = {} /\ \A s \in signatures : s.signer # w
        /\ \A s, t \in reply[w] : s = t

TypeInv == TypeOK /\ RequestInv /\ StartInv /\ WireInv

\* Every signature is on a message, which names a predecessor that was
\* signed before.
SignedInv == PredecessorSigned /\ \A s \in signatures : s.msg # {}

\* The chain: every link is the signature of its witness, by roster
\* position, on the link before it; prevSig is the last link.
Prev(i) == IF i = 1 THEN {} ELSE {chain[i - 1].sig}
ChainInv ==
    /\ Len(chain) <= K
    /\ prevSig = IF Len(chain) = 0 THEN {} ELSE {chain[Len(chain)].sig}
    /\ \A i \in 1 .. Len(chain) :
          /\ chain[i].index < seqIdx
          /\ chain[i].sig = Sign(chain[i].index,
                 WitnessInput(Request, "sequential", chain[i].index, Prev(i)))
    /\ \A i, j \in 1 .. Len(chain) : i < j => chain[i].index < chain[j].index

\* The ticket is made of the request and the chain.
TicketInv ==
    /\ client # "ticket" => ticket = {}
    /\ \A t \in ticket : /\ Len(chain) = K
                         /\ \E n : t = SequentialTicket(Request, chain, n)

\* A hop that is running began within the budgets of those before it, and
\* has not outlived its own.
BudgetInv ==
    client = "walking" =>
        IF seqIdx < N /\ wire[seqIdx] # "none"
        THEN hopStart - started <= HopTimeout * seqIdx /\ now <= hopStart + HopTimeout
        ELSE now - started <= HopTimeout * seqIdx

\* The running hop was given the last link of the chain.
PostedInv ==
    client = "walking" /\ seqIdx < N /\ wire[seqIdx] # "none" =>
        posted[seqIdx] = IF seqIdx > 0 THEN prevSig ELSE {}

\* The witnesses' clocks are at most the freshness window behind.
ClocksClose == \A w \in Witness : Skew[w] >= -(MaxLag * Period)

\* What HealthyPrefixServed asks of the first K witnesses, and its excuses.
Healthy == \A w \in 0 .. K - 1 : w \notin faulty /\ AuthOK(w)
OutOfTime(r) ==
    \/ r.beacon # "genuine"
    \/ now >= started + RequestTimeout
    \/ \E w \in 0 .. K - 1 : now + Skew[w] >= RoundTime(r.round + MaxLag + 1)

\* As long as there is no excuse, every witness visited has added its link,
\* until there are K.
HealthyInv ==
    client \in {"walking", "failed"} /\ Healthy /\ ~OutOfTime(Request) =>
        /\ Len(chain) >= seqIdx \/ Len(chain) >= K
        /\ client # "failed"
        /\ Walking /\ wire[seqIdx] = "reply" => HopVerifies

-----------------------------------------------------------------------------
(* Types *)

\* The request of a non-empty req is its only element.
LEMMA RequestIs ==
    ASSUME NEW r, req = {r}
    PROVE  Request = r
BY DEF Request

\* BuildRequest yields a request that carries a valid agent signature.
LEMMA BuildRequestWellFormed ==
    ASSUME NEW op \in Ops, NEW a \in RelayAnswers(now, StaleRounds), now \in Int
    PROVE  WellFormed(BuildRequest(op, a, now))
<1>1. /\ a.round \in Nat \ {0}
      /\ a.beacon = "genuine" => a.round = 1 \/ RoundTime(a.round) <= now
  BY RelayAnswersRounds, TimeAssumption
<1> DEFINE body == [op |-> op, round |-> a.round, beacon |-> a.beacon,
                    requestedAt |-> now]
           R == BuildRequest(op, a, now)
<1>2. R = [op |-> op, round |-> a.round, beacon |-> a.beacon,
           requestedAt |-> now, agent |-> Agent,
           agentSig |-> [signer |-> Agent, msg |-> body]]
  BY DEF BuildRequest, Sign
<1> HIDE DEF R
<1>3. CanonicalRequest(R) = body
  BY <1>2 DEF CanonicalRequest
<1>4. VerifyAgentSignature(R)
  BY <1>2, <1>3 DEF VerifyAgentSignature, VerifyIndividual, Sign
<1>5. WellFormed(R)
  BY <1>1, <1>2, <1>4 DEF WellFormed
<1> QED
  BY <1>5 DEF R

\* The bytes a witness signs at position i: the error value, or one message.
LEMMA InputIs ==
    ASSUME NEW r, NEW i \in Nat, NEW prev
    PROVE  LET m == [mode |-> "sequential", op |-> r.op, round |-> r.round,
                     beacon |-> r.beacon, agent |-> r.agent, seq |-> i,
                     prev |-> IF i > 0 THEN prev ELSE {}]
           IN  WitnessInput(r, "sequential", i, prev) =
                   IF i > 0 /\ prev = {} THEN {} ELSE {m}
BY DEF WitnessInput

\* The message names the position it was made for.
LEMMA InputPosition ==
    ASSUME NEW r, NEW i \in Nat, NEW prev,
           NEW m \in WitnessInput(r, "sequential", i, prev)
    PROVE  m.seq = i
BY DEF WitnessInput

\* The message names its predecessor, and has one unless it is the first.
LEMMA InputLinks ==
    ASSUME NEW r, NEW i \in Nat, NEW prev,
           NEW m \in WitnessInput(r, "sequential", i, prev)
    PROVE  (m.seq > 0 => m.prev # {}) /\ m.prev \subseteq prev
<1>1. m.seq = i /\ m.prev = IF i > 0 THEN prev ELSE {}
  BY DEF WitnessInput
<1>2. i > 0 => prev # {}
  BY DEF WitnessInput
<1> QED
  BY <1>1, <1>2

\* A witness answers with its own signature on a message, or with an error.
LEMMA HandleSignIs ==
    ASSUME NEW w, NEW r, NEW i, NEW prev, NEW t
    PROVE  \/ HandleSign(w, r, "sequential", i, prev, t) = {}
           \/ /\ WitnessInput(r, "sequential", i, prev) # {}
              /\ HandleSign(w, r, "sequential", i, prev, t) =
                     {Sign(w, WitnessInput(r, "sequential", i, prev))}
BY DEF HandleSign, Accepts

\* The garbage of a faulty witness is nobody's signature.
LEMMA GarbageIsNoSignature ==
    ASSUME NEW w \in Witness, NEW msg
    PROVE  Sign(w, msg) # Garbage
<1>1. w # -1
  BY ConfigAssumption DEF Witness
<1> QED
  BY <1>1 DEF Garbage, Sign

\* A reply that verifies is a signature some witness made, the only element
\* of its reply.
LEMMA VerifiedReply ==
    ASSUME TypeInv, Hopping, HopVerifies, NEW sig \in reply[seqIdx]
    PROVE  /\ seqIdx \in Witness /\ sig \in signatures
           /\ sig = Sign(seqIdx, WitnessInput(Request, "sequential", seqIdx, prevSig))
           /\ reply[seqIdx] = {sig}
<1>1. seqIdx \in Witness
  BY ConfigAssumption DEF Hopping, Walking, TypeInv, TypeOK, Witness
<1>2. reply[seqIdx] = {sig} /\ reply[seqIdx] \subseteq signatures \cup {Garbage}
  BY <1>1 DEF TypeInv, TypeOK, WireInv
<1>3. sig = Sign(seqIdx, WitnessInput(Request, "sequential", seqIdx, prevSig))
  BY <1>2 DEF HopVerifies, VerifyIndividual
<1> QED
  BY <1>1, <1>2, <1>3, GarbageIsNoSignature

\* The types hold before the walk begins.
LEMMA InitType == Init => TypeInv
<1> SUFFICES ASSUME Init PROVE TypeInv
  OBVIOUS
<1>1. << >> \in Seq([index : Witness, sig : signatures])
  OBVIOUS
<1>2. TypeOK
  BY <1>1, TimeAssumption, ConfigAssumption DEF Init, TypeOK
<1>3. RequestInv /\ StartInv /\ WireInv
  BY DEF Init, RequestInv, StartInv, WireInv
<1> QED
  BY <1>2, <1>3 DEF TypeInv

\* A request stays well-formed while the clock does not go back.
LEMMA RequestStays ==
    ASSUME TypeInv, client # "idle", client' # "idle", req' = req, now' \in Int, now <= now'
    PROVE  RequestInv' /\ Request' = Request
<1>1. PICK r \in req : req = {r} /\ WellFormed(r)
  BY DEF TypeInv, RequestInv
<1>2. now \in Int /\ RoundTime(r.round) \in Int
  <2>1. r.round \in Int
    BY <1>1 DEF WellFormed
  <2> QED
    BY <2>1, RoundTimeOrder DEF TypeInv, TypeOK
<1>3. WellFormed(r)'
  BY <1>1, <1>2 DEF WellFormed, VerifyAgentSignature, VerifyIndividual, Sign, CanonicalRequest
<1> QED
  BY <1>1, <1>3, RequestIs DEF RequestInv, Request

\* Every step keeps the types, and no signature, once made, is taken back.
LEMMA StepType == TypeInv /\ [Next]_vars => TypeInv' /\ signatures \subseteq signatures'
<1> SUFFICES ASSUME TypeInv, [Next]_vars
             PROVE  TypeInv' /\ signatures \subseteq signatures'
  OBVIOUS
<1>1. /\ now \in Int /\ now <= now
      /\ seqIdx \in 0 .. N /\ N \in Nat \ {0} /\ Witness = 0 .. N - 1
  BY ConfigAssumption DEF TypeInv, TypeOK, Witness
<1>2. ASSUME NEW op \in Ops, NEW a \in RelayAnswers(now, StaleRounds), Build(op, a)
      PROVE  TypeInv' /\ signatures \subseteq signatures'
  <2>1. PICK R : R = BuildRequest(op, a, now) /\ WellFormed(R)
    BY <1>1, <1>2, BuildRequestWellFormed
  <2>2. req' = {R} /\ client' = "ready"
        /\ UNCHANGED <<now, faulty, started, seqIdx, hopStart, wire, posted,
                       reply, prevSig, chain, ticket, signatures>>
    BY <1>2, <2>1 DEF Build
  <2>3. WellFormed(R)' /\ R.op \in Ops /\ R.agent = Agent
    BY <2>1, <2>2 DEF WellFormed, VerifyAgentSignature, VerifyIndividual, Sign,
                      CanonicalRequest
  <2>4. RequestInv'
    BY <2>2, <2>3 DEF RequestInv
  <2>5. StartInv' /\ WireInv'
    BY <1>2, <2>2 DEF Build, TypeInv, StartInv, WireInv
  <2> QED
    BY <2>2, <2>3, <2>4, <2>5 DEF TypeInv, TypeOK
<1>3. CASE Walk
  <2>1. RequestInv'
    BY <1>1, <1>3, RequestStays DEF Walk
  <2> QED
    BY <1>3, <2>1 DEF Walk, TypeInv, TypeOK, StartInv, WireInv
<1>4. CASE Post
  <2>1. RequestInv'
    BY <1>1, <1>4, RequestStays DEF Post, Walking
  <2>2. seqIdx \in Witness
    BY <1>1, <1>4 DEF Post, Walking
  <2>3. /\ wire' \in [Witness -> {"none", "request", "reply"}]
        /\ posted' \in [Witness -> SUBSET signatures]
    BY <1>4, <2>2 DEF Post, TypeInv, TypeOK
  <2>4. WireInv'
    BY <1>1, <1>4, <2>2 DEF Post, TypeInv, TypeOK, WireInv
  <2> QED
    BY <1>4, <2>1, <2>3, <2>4 DEF Post, Walking, TypeInv, TypeOK, StartInv
<1>5. CASE HopSucceeds
  <2>1. RequestInv'
    BY <1>1, <1>5, RequestStays DEF HopSucceeds, Hopping, Walking
  <2>2. PICK sig \in reply[seqIdx] : /\ chain' = Append(chain, [index |-> seqIdx, sig |-> sig])
                                      /\ prevSig' = {sig}
    BY <1>5 DEF HopSucceeds
  <2>3. seqIdx \in Witness /\ sig \in signatures
    BY <1>5, VerifiedReply DEF HopSucceeds
  <2>4. chain' \in Seq([index : Witness, sig : signatures])
    BY <2>2, <2>3 DEF TypeInv, TypeOK
  <2>5. seqIdx' \in 0 .. N
    BY <1>1, <1>5, <2>3 DEF HopSucceeds
  <2>6. WireInv'
    BY <1>1, <1>5 DEF HopSucceeds, TypeInv, WireInv
  <2> QED
    BY <1>5, <2>1, <2>2, <2>3, <2>4, <2>5, <2>6
       DEF HopSucceeds, Hopping, Walking, TypeInv, TypeOK, StartInv
<1>6. ASSUME Hopping, Skip
      PROVE  TypeInv' /\ signatures \subseteq signatures'
  <2>1. RequestInv'
    BY <1>1, <1>6, RequestStays DEF Skip, Hopping, Walking
  <2>2. seqIdx' \in 0 .. N
    BY <1>1, <1>6 DEF Skip, Hopping, Walking
  <2>3. WireInv'
    BY <1>1, <1>6 DEF Skip, TypeInv, WireInv
  <2> QED
    BY <1>6, <2>1, <2>2, <2>3 DEF Skip, Hopping, Walking, TypeInv, TypeOK, StartInv
<1>7. CASE ReturnTicket \/ ReturnError
  <2>1. RequestInv'
    BY <1>1, <1>7, RequestStays DEF ReturnTicket, ReturnError
  <2> QED
    <3>1. client' \in {"ticket", "failed"}
          /\ UNCHANGED <<now, faulty, req, started, seqIdx, hopStart, wire, posted,
                         reply, prevSig, chain, signatures>>
      BY <1>7 DEF ReturnTicket, ReturnError
    <3> QED
      BY <2>1, <3>1 DEF TypeInv, TypeOK, StartInv, WireInv
<1>8. ASSUME NEW w \in Witness, WitnessHandles(w)
      PROVE  TypeInv' /\ signatures \subseteq signatures'
  <2> DEFINE answer == HandleSign(w, Request, "sequential", w, posted[w], now)
  <2>1. /\ wire[w] = "request"
        /\ reply' = [reply EXCEPT ![w] = answer]
        /\ signatures' = signatures \cup answer
        /\ wire' = [wire EXCEPT ![w] = "reply"]
        /\ UNCHANGED <<now, faulty, client, req, started, seqIdx, hopStart,
                       posted, prevSig, chain, ticket>>
    BY <1>8 DEF WitnessHandles
  <2>2. /\ \A s \in answer : s.signer = w
        /\ \A s, t \in answer : s = t
    BY HandleSignIs DEF Sign
  <2> HIDE DEF answer
  <2>3. client \notin {"idle", "ready"}
    BY <2>1 DEF TypeInv, StartInv
  <2>4. RequestInv'
    BY <1>1, <2>1, <2>3, RequestStays
  <2>5. /\ wire' \in [Witness -> {"none", "request", "reply"}]
        /\ posted' \in [Witness -> SUBSET signatures']
        /\ reply' \in [Witness -> SUBSET (signatures' \cup {Garbage})]
        /\ prevSig' \subseteq signatures'
    BY <2>1 DEF TypeInv, TypeOK
  <2>6. chain' \in Seq([index : Witness, sig : signatures'])
    <3> DEFINE S == [index : Witness, sig : signatures]
               T == [index : Witness, sig : signatures']
    <3>1. S \subseteq T /\ chain \in Seq(S)
      BY <2>1 DEF TypeInv, TypeOK
    <3> HIDE DEF S, T
    <3>2. chain \in Seq(T)
      BY <3>1, SeqMonotonic
    <3> QED
      BY <2>1, <3>2 DEF T
  <2>7. \A s \in signatures' : s.signer \in Witness
    BY <2>1, <2>2 DEF TypeInv, TypeOK
  <2>8. WireInv'
    BY <1>1, <2>1, <2>2 DEF TypeInv, TypeOK, WireInv
  <2> QED
    BY <2>1, <2>3, <2>4, <2>5, <2>6, <2>7, <2>8 DEF TypeInv, TypeOK, StartInv
<1>9. ASSUME NEW w \in Witness, NEW answer \in {{}, {Garbage}}, WitnessMisbehaves(w, answer)
      PROVE  TypeInv' /\ signatures \subseteq signatures'
  <2>1. client \notin {"idle", "ready"}
    BY <1>9 DEF WitnessMisbehaves, TypeInv, StartInv
  <2>2. RequestInv'
    BY <1>1, <1>9, <2>1, RequestStays DEF WitnessMisbehaves
  <2>3. /\ wire' \in [Witness -> {"none", "request", "reply"}]
        /\ reply' \in [Witness -> SUBSET (signatures \cup {Garbage})]
    BY <1>9 DEF WitnessMisbehaves, TypeInv, TypeOK
  <2>4. WireInv'
    BY <1>1, <1>9 DEF WitnessMisbehaves, TypeInv, TypeOK, WireInv
  <2> QED
    BY <1>9, <2>1, <2>2, <2>3, <2>4 DEF WitnessMisbehaves, TypeInv, TypeOK, StartInv
<1>10. CASE Tick
  <2>1. now' = now + 1 /\ now' \in Int /\ now <= now'
    BY <1>1, <1>10 DEF Tick
  <2>2. RequestInv'
    <3>1. CASE client = "idle"
      BY <1>10, <3>1 DEF Tick, TypeInv, RequestInv
    <3>2. CASE client # "idle"
      BY <1>10, <2>1, <3>2, RequestStays DEF Tick
    <3> QED
      BY <3>1, <3>2
  <2> QED
    BY <1>10, <2>1, <2>2 DEF Tick, TypeInv, TypeOK, StartInv, WireInv
<1>11. CASE UNCHANGED vars
  <2>1. RequestInv'
    BY <1>11 DEF vars, TypeInv, RequestInv, WellFormed
  <2> QED
    BY <1>11, <2>1 DEF vars, TypeInv, TypeOK, StartInv, WireInv
<1> QED
  BY <1>2, <1>3, <1>4, <1>5, <1>6, <1>7, <1>8, <1>9, <1>10, <1>11
     DEF Next, HopRejected, HopTimesOut, HopBreaks

-----------------------------------------------------------------------------
(* Signatures and the chain *)

\* A witness is handed only predecessors that were signed.
LEMMA StepSigned ==
    ASSUME TypeInv, SignedInv, [Next]_vars
    PROVE  SignedInv'
<1>1. CASE UNCHANGED signatures
  BY <1>1 DEF SignedInv, PredecessorSigned
<1>2. ASSUME NEW w \in Witness, WitnessHandles(w)
      PROVE  SignedInv'
  <2> DEFINE answer == HandleSign(w, Request, "sequential", w, posted[w], now)
             input == WitnessInput(Request, "sequential", w, posted[w])
  <2>1. signatures' = signatures \cup answer
    BY <1>2 DEF WitnessHandles
  <2>2. w \in Nat /\ posted[w] \subseteq signatures
    BY ConfigAssumption DEF Witness, TypeInv, TypeOK
  <2>3. answer = {} \/ (input # {} /\ answer = {Sign(w, input)})
    BY HandleSignIs
  <2>4. ASSUME NEW m \in input
        PROVE  (m.seq > 0 => m.prev # {}) /\ m.prev \subseteq signatures
    BY <2>2, <2>4, InputLinks
  <2> HIDE DEF answer, input
  <2>5. ASSUME NEW s \in answer
        PROVE  /\ s.msg # {}
               /\ \A m \in s.msg : (m.seq > 0 => m.prev # {}) /\ m.prev \subseteq signatures
    BY <2>3, <2>4, <2>5 DEF Sign
  <2> QED
    BY <2>1, <2>5 DEF SignedInv, PredecessorSigned
<1> QED
  BY <1>1, <1>2
     DEF Next, Build, Walk, Post, HopSucceeds, HopRejected, HopTimesOut, HopBreaks, Skip,
         ReturnTicket, ReturnError, WitnessMisbehaves, Tick, vars

\* The request of a walk does not change.
LEMMA RequestKept ==
    ASSUME TypeInv, [Next]_vars, client # "idle"
    PROVE  req' = req /\ Request' = Request
<1>1. req' = req
  BY DEF Next, Build, Walk, Post, HopSucceeds, HopRejected, HopTimesOut, HopBreaks, Skip,
         ReturnTicket, ReturnError, WitnessHandles, WitnessMisbehaves, Tick, vars
<1> QED
  BY <1>1 DEF Request

\* Hops are appended in roster order, each bound to the one before it.
LEMMA StepChain ==
    ASSUME TypeInv, ChainInv, [Next]_vars
    PROVE  ChainInv'
<1>1. /\ chain \in Seq([index : Witness, sig : signatures])
      /\ Len(chain) \in Nat /\ seqIdx \in Nat /\ K \in Nat /\ N \in Nat
      /\ \A i \in 1 .. Len(chain) : chain[i].index \in Nat
  <2>1. chain \in Seq([index : Witness, sig : signatures]) /\ seqIdx \in 0 .. N
    BY DEF TypeInv, TypeOK
  <2>2. Witness \subseteq Nat /\ N \in Nat /\ K \in Nat
    BY ConfigAssumption DEF Witness
  <2>3. ASSUME NEW i \in 1 .. Len(chain) PROVE chain[i].index \in Nat
    <3>1. chain[i] \in [index : Witness, sig : signatures]
      BY <2>1, ElementOfSeq
    <3> QED
      BY <2>2, <3>1
  <2> QED
    BY <2>1, <2>2, <2>3, LenProperties
<1>2. ASSUME chain = << >>, prevSig = {}, UNCHANGED <<chain, prevSig>>
      PROVE  ChainInv'
  BY <1>1, <1>2, ConfigAssumption DEF ChainInv
<1>3. ASSUME client # "idle", UNCHANGED <<chain, prevSig>>, seqIdx' \in Nat, seqIdx <= seqIdx'
      PROVE  ChainInv'
  <2>1. Request' = Request
    BY <1>3, RequestKept
  <2>2. \A i : Prev(i)' = Prev(i)
    BY <1>3 DEF Prev
  <2>3. ASSUME NEW i \in 1 .. Len(chain)
        PROVE  /\ chain[i].index < seqIdx'
               /\ chain[i].sig = Sign(chain[i].index,
                     WitnessInput(Request, "sequential", chain[i].index, Prev(i)))
    BY <1>1, <1>3 DEF ChainInv
  <2> QED
    BY <1>3, <2>1, <2>2, <2>3 DEF ChainInv
<1>4. CASE client = "idle"
  <2>1. chain = << >> /\ prevSig = {}
    BY <1>4 DEF TypeInv, StartInv
  <2>2. UNCHANGED <<chain, prevSig>>
    <3>1. ASSUME NEW w \in Witness PROVE wire[w] = "none"
      BY <1>4 DEF TypeInv, StartInv
    <3> QED
      BY <1>4, <3>1
         DEF Next, Build, Walk, Post, HopSucceeds, HopRejected, HopTimesOut, HopBreaks,
             Hopping, Walking, Skip, ReturnTicket, ReturnError, WitnessHandles,
             WitnessMisbehaves, Tick, vars
  <2> QED
    BY <1>2, <2>1, <2>2
<1>5. CASE HopSucceeds
  <2>1. PICK sig \in reply[seqIdx] : /\ chain' = Append(chain, [index |-> seqIdx, sig |-> sig])
                                      /\ prevSig' = {sig}
    BY <1>5 DEF HopSucceeds
  <2>2. /\ seqIdx \in Witness /\ sig \in signatures
        /\ sig = Sign(seqIdx, WitnessInput(Request, "sequential", seqIdx, prevSig))
    BY <1>5, VerifiedReply DEF HopSucceeds
  <2>3. Request' = Request
    BY <1>5, RequestKept DEF HopSucceeds, Hopping, Walking
  <2>0. PICK n \in Nat : n = Len(chain)
    BY <1>1
  <2> DEFINE link == [index |-> seqIdx, sig |-> sig]
  <2>4. /\ Len(chain') = n + 1
        /\ \A i \in 1 .. n : chain'[i] = chain[i]
        /\ chain'[n + 1] = link
    BY <1>1, <2>0, <2>1
  <2>5. seqIdx' = seqIdx + 1 /\ n < K
    BY <1>5, <2>0 DEF HopSucceeds, Hopping, Walking
  <2>6. prevSig = IF n = 0 THEN {} ELSE {chain[n].sig}
    BY <2>0 DEF ChainInv
  <2>7. /\ \A i \in 1 .. n : Prev(i)' = Prev(i)
        /\ Prev(n + 1)' = prevSig
    <3>1. ASSUME NEW i \in 1 .. n PROVE Prev(i)' = Prev(i)
      <4>1. i # 1 => i - 1 \in 1 .. n
        BY <1>1
      <4> QED
        BY <2>4, <4>1 DEF Prev
    <3>2. Prev(n + 1)' = prevSig
      <4>1. CASE n = 0
        BY <2>6, <4>1 DEF Prev
      <4>2. CASE n # 0
        <5>1. n \in 1 .. n /\ (n + 1) - 1 = n /\ n + 1 # 1
          BY <1>1, <4>2
        <5>2. Prev(n + 1)' = {chain'[n].sig}
          BY <5>1 DEF Prev
        <5> QED
          BY <2>4, <2>6, <4>2, <5>1, <5>2
      <4> QED
        BY <4>1, <4>2
    <3> QED
      BY <3>1, <3>2
  <2>8. ASSUME NEW i \in 1 .. n + 1
        PROVE  /\ chain'[i].index < seqIdx'
               /\ chain'[i].sig = Sign(chain'[i].index,
                     WitnessInput(Request', "sequential", chain'[i].index, Prev(i)'))
    <3>1. CASE i = n + 1
      <4>1. chain'[i] = link /\ link.index = seqIdx /\ link.sig = sig /\ Prev(i)' = prevSig
        BY <2>4, <2>7, <3>1
      <4> QED
        BY <1>1, <2>2, <2>3, <2>5, <4>1
    <3>2. CASE i \in 1 .. n
      BY <1>1, <2>0, <2>3, <2>4, <2>5, <2>7, <3>2 DEF ChainInv
    <3> QED
      BY <1>1, <3>1, <3>2
  <2>9. ASSUME NEW i \in 1 .. n + 1, NEW j \in 1 .. n + 1, i < j
        PROVE  chain'[i].index < chain'[j].index
    <3>1. i \in 1 .. n /\ chain'[i] = chain[i] /\ chain[i].index < seqIdx
      BY <2>0, <2>4, <2>9 DEF ChainInv
    <3>2. CASE j \in 1 .. n
      BY <2>0, <2>4, <2>9, <3>1, <3>2 DEF ChainInv
    <3>3. CASE j = n + 1
      <4>1. chain'[j] = link /\ link.index = seqIdx
        BY <2>4, <3>3
      <4> QED
        BY <3>1, <4>1
    <3> QED
      BY <3>2, <3>3
  <2>10. prevSig' = {chain'[n + 1].sig}
    BY <2>1, <2>4
  <2> QED
    BY <1>1, <2>0, <2>4, <2>5, <2>8, <2>9, <2>10 DEF ChainInv
<1>6. ASSUME Hopping, Skip
      PROVE  ChainInv'
  BY <1>1, <1>3, <1>6 DEF Skip, Hopping, Walking
<1>7. CASE client # "idle" /\ UNCHANGED <<chain, prevSig, seqIdx>>
  BY <1>1, <1>3, <1>7
<1> QED
  BY <1>4, <1>5, <1>6, <1>7
     DEF Next, Build, Walk, Post, HopRejected, HopTimesOut, HopBreaks, ReturnTicket,
         ReturnError, WitnessHandles, WitnessMisbehaves, Tick, vars

\* A ticket is the chain that reached the threshold.
LEMMA StepTicket ==
    ASSUME TypeInv, ChainInv, TicketInv, [Next]_vars
    PROVE  TicketInv'
<1>1. Len(chain) \in Nat /\ K \in Nat /\ Len(chain) <= K
  BY ConfigAssumption DEF TypeInv, TypeOK, ChainInv
<1>2. CASE ReturnTicket
  <2>1. /\ client' = "ticket" /\ Len(chain) >= K
        /\ ticket' = {SequentialTicket(Request, chain, now)} /\ chain' = chain
    BY <1>2 DEF ReturnTicket
  <2>2. Request' = Request
    BY <1>2, RequestKept DEF ReturnTicket
  <2> QED
    BY <1>1, <2>1, <2>2 DEF TicketInv
<1>3. CASE ticket = {} /\ ticket' = {}
  BY <1>3 DEF TicketInv
<1>4. CASE client = "ticket" /\ client' = "ticket" /\ UNCHANGED <<ticket, chain>>
  <2>1. Request' = Request
    BY <1>4, RequestKept
  <2> QED
    BY <1>4, <2>1 DEF TicketInv
<1>5. CASE client # "ticket"
  BY <1>2, <1>3, <1>5
     DEF TicketInv, Next, Build, Walk, Post, HopSucceeds, HopRejected, HopTimesOut,
         HopBreaks, Skip, ReturnError, WitnessHandles, WitnessMisbehaves, Tick, vars
<1>6. CASE client = "ticket"
  BY <1>4, <1>6
     DEF Next, Build, Walk, Post, HopSucceeds, HopRejected, HopTimesOut, HopBreaks,
         Hopping, Walking, Skip, ReturnTicket, ReturnError, WitnessHandles,
         WitnessMisbehaves, Tick, vars
<1> QED
  BY <1>5, <1>6

-----------------------------------------------------------------------------
(* The budget of the walk *)

\* One more hop is one more budget.
LEMMA OneHopMore ==
    ASSUME NEW h \in Nat, NEW i \in Nat
    PROVE  h * i \in Nat /\ h * (i + 1) = h * i + h
OBVIOUS

\* A hop that runs out of its budget ends, and the next begins at once.
LEMMA StepBudget ==
    ASSUME TypeInv, BudgetInv, [Next]_vars
    PROVE  BudgetInv'
<1>1. /\ now \in Int /\ started \in Int /\ hopStart \in Int /\ HopTimeout \in Nat
      /\ RequestTimeout \in Nat /\ seqIdx \in Nat /\ seqIdx <= N /\ N \in Nat
      /\ Witness = 0 .. N - 1
  BY TimeAssumption, ConfigAssumption DEF TypeInv, TypeOK, Witness
<1> DEFINE spent(i) == HopTimeout * i
<1>2. /\ spent(seqIdx) \in Nat /\ spent(seqIdx + 1) = spent(seqIdx) + HopTimeout
      /\ spent(0) = 0
  BY <1>1, OneHopMore
<1>3. BudgetInv <=>
        (client = "walking" =>
           IF seqIdx < N /\ wire[seqIdx] # "none"
           THEN hopStart - started <= spent(seqIdx) /\ now <= hopStart + HopTimeout
           ELSE now - started <= spent(seqIdx))
  BY DEF BudgetInv
<1>4. BudgetInv' <=>
        (client' = "walking" =>
           IF seqIdx' < N /\ wire'[seqIdx'] # "none"
           THEN hopStart' - started' <= spent(seqIdx') /\ now' <= hopStart' + HopTimeout
           ELSE now' - started' <= spent(seqIdx'))
  BY DEF BudgetInv
<1> HIDE DEF spent
<1>5. CASE client' # "walking"
  BY <1>4, <1>5
<1>6. CASE UNCHANGED <<now, client, started, seqIdx, hopStart, wire>>
  BY <1>3, <1>4, <1>6
<1>7. CASE Walk
  <2>1. seqIdx = 0 /\ wire[0] = "none"
    BY <1>1, <1>7, ConfigAssumption DEF Walk, TypeInv, StartInv
  <2> QED
    BY <1>1, <1>2, <1>4, <1>7, <2>1 DEF Walk
<1>8. CASE Post
  <2>1. wire'[seqIdx] = "request"
    BY <1>1, <1>8 DEF Post, Walking, TypeInv, TypeOK
  <2> QED
    BY <1>1, <1>3, <1>4, <1>8, <2>1 DEF Post, Walking
<1>9. ASSUME Hopping, seqIdx' = seqIdx + 1,
             UNCHANGED <<now, client, started, hopStart, wire>>
      PROVE  BudgetInv'
  <2>1. seqIdx' < N => wire[seqIdx'] = "none"
    BY <1>1, <1>9 DEF TypeInv, WireInv
  <2> QED
    BY <1>1, <1>2, <1>3, <1>4, <1>9, <2>1 DEF Hopping, Walking
<1>10. ASSUME NEW w \in Witness, wire[w] = "request", wire' = [wire EXCEPT ![w] = "reply"],
              UNCHANGED <<now, client, started, seqIdx, hopStart>>
       PROVE  BudgetInv'
  <2>1. seqIdx < N => (wire'[seqIdx] # "none" <=> wire[seqIdx] # "none")
    BY <1>1, <1>10 DEF TypeInv, TypeOK
  <2> QED
    BY <1>3, <1>4, <1>10, <2>1
<1>11. CASE Tick
  <2>1. CASE Hopping /\ now < HopDeadline
    <3>1. now + 1 <= hopStart + HopTimeout
      BY <1>1, <2>1 DEF HopDeadline
    <3> QED
      BY <1>1, <1>3, <1>4, <1>11, <2>1, <3>1 DEF Tick, Hopping, Walking
  <2> QED
    BY <1>5, <1>11, <2>1 DEF Tick
<1> QED
  <2>1. CASE HopSucceeds \/ HopRejected \/ HopTimesOut \/ HopBreaks
    BY <1>9, <2>1 DEF HopSucceeds, HopRejected, HopTimesOut, HopBreaks, Skip
  <2>2. CASE ReturnTicket \/ ReturnError \/ (\E op \in Ops : \E a \in RelayAnswers(now, StaleRounds) : Build(op, a))
    BY <1>5, <2>2 DEF ReturnTicket, ReturnError, Build
  <2>3. CASE \/ \E w \in Witness : WitnessHandles(w)
             \/ \E w \in Witness : \E answer \in {{}, {Garbage}} : WitnessMisbehaves(w, answer)
    BY <1>10, <2>3 DEF WitnessHandles, WitnessMisbehaves
  <2>4. CASE UNCHANGED vars
    BY <1>6, <2>4 DEF vars
  <2> QED
    BY <1>7, <1>8, <1>11, <2>1, <2>2, <2>3, <2>4 DEF Next

\* What is on the wire belongs to the current hop.
LEMMA StepPosted ==
    ASSUME TypeInv, PostedInv, [Next]_vars
    PROVE  PostedInv'
<1>1. seqIdx \in Nat /\ seqIdx <= N /\ N \in Nat /\ Witness = 0 .. N - 1
  BY ConfigAssumption DEF TypeInv, TypeOK, Witness
<1>2. CASE client' # "walking"
  BY <1>2 DEF PostedInv
<1>3. CASE UNCHANGED <<client, seqIdx, wire, posted, prevSig>>
  BY <1>3 DEF PostedInv
<1>4. CASE Walk
  <2>1. seqIdx = 0 /\ wire[0] = "none"
    BY <1>1, <1>4, ConfigAssumption DEF Walk, TypeInv, StartInv
  <2> QED
    BY <1>4, <2>1 DEF Walk, PostedInv
<1>5. CASE Post
  BY <1>1, <1>5 DEF Post, Walking, PostedInv, TypeInv, TypeOK
<1>6. ASSUME Hopping, seqIdx' = seqIdx + 1, UNCHANGED wire
      PROVE  PostedInv'
  <2>1. seqIdx' < N => wire[seqIdx'] = "none"
    BY <1>1, <1>6 DEF TypeInv, WireInv
  <2> QED
    BY <1>6, <2>1 DEF PostedInv
<1>7. ASSUME NEW w \in Witness, wire[w] = "request", wire' = [wire EXCEPT ![w] = "reply"],
             UNCHANGED <<client, seqIdx, posted, prevSig>>
      PROVE  PostedInv'
  <2>1. seqIdx < N => (wire'[seqIdx] # "none" <=> wire[seqIdx] # "none")
    BY <1>1, <1>7 DEF TypeInv, TypeOK
  <2> QED
    BY <1>7, <2>1 DEF PostedInv
<1> QED
  <2>1. CASE HopSucceeds \/ HopRejected \/ HopTimesOut \/ HopBreaks
    BY <1>6, <2>1 DEF HopSucceeds, HopRejected, HopTimesOut, HopBreaks, Skip
  <2>2. CASE ReturnTicket \/ ReturnError \/ (\E op \in Ops : \E a \in RelayAnswers(now, StaleRounds) : Build(op, a))
    BY <1>2, <2>2 DEF ReturnTicket, ReturnError, Build
  <2>3. CASE \/ \E w \in Witness : WitnessHandles(w)
             \/ \E w \in Witness : \E answer \in {{}, {Garbage}} : WitnessMisbehaves(w, answer)
    BY <1>7, <2>3 DEF WitnessHandles, WitnessMisbehaves
  <2>4. CASE UNCHANGED vars \/ Tick
    BY <1>3, <2>4 DEF vars, Tick
  <2> QED
    BY <1>4, <1>5, <2>1, <2>2, <2>3, <2>4 DEF Next

-----------------------------------------------------------------------------
(* The healthy prefix *)

\* A witness whose clock is close, that knows the token, accepts a request
\* that is not out of time.
LEMMA HealthyAccepts ==
    ASSUME TypeInv, ClocksClose, client # "idle", ~OutOfTime(Request),
           NEW w \in 0 .. K - 1, AuthOK(w), NEW prev, w > 0 => prev # {}
    PROVE  HandleSign(w, Request, "sequential", w, prev, now) =
               {Sign(w, WitnessInput(Request, "sequential", w, prev))}
<1>1. PICK r \in req : req = {r} /\ WellFormed(r)
  BY DEF TypeInv, RequestInv
<1>2. Request = r
  BY <1>1, RequestIs
<1>3. /\ w \in Nat /\ w \in Witness /\ Skew[w] \in Int /\ MaxLag \in Nat /\ now \in Int
      /\ Period \in Nat /\ r.round \in Nat \ {0}
  BY <1>1, ConfigAssumption, DrandAssumption DEF Witness, WellFormed, TypeInv, TypeOK
<1>4. ParseOK("sequential", w, prev) /\ WitnessInput(r, "sequential", w, prev) # {}
  BY <1>3 DEF ParseOK, WitnessInput
<1>5. r.beacon = "genuine" /\ (r.round = 1 \/ RoundTime(r.round) <= now)
  BY <1>1, <1>2 DEF OutOfTime, WellFormed
<1>6. CheckFreshness(r.round, now + Skew[w], MaxLag)
  <2> DEFINE t == now + Skew[w]
             n == r.round
  <2>1. t \in Int /\ n \in Nat \ {0}
    BY <1>3
  <2>2. t < RoundTime(n + MaxLag + 1)
    <3>1. RoundTime(n + MaxLag + 1) \in Int
      BY <1>3, RoundTimeOrder
    <3> QED
      BY <1>2, <1>3, <3>1 DEF OutOfTime
  <2>3. n <= MaxLag + 1 \/ RoundTime(n - MaxLag) <= t
    <3>1. CASE n = 1
      BY <1>3, <3>1
    <3>2. CASE RoundTime(n) <= now
      <4>1. Skew[w] >= -(MaxLag * Period)
        BY <1>3 DEF ClocksClose
      <4>2. /\ (n - 1) * Period \in Int /\ MaxLag * Period \in Int
            /\ ((n - 1) - MaxLag) * Period = (n - 1) * Period - MaxLag * Period
        BY <1>3, PeriodOrder
      <4>3. (n - MaxLag) - 1 = (n - 1) - MaxLag
        BY <1>3
      <4>4. RoundTime(n - MaxLag) = Genesis + ((n - 1) * Period - MaxLag * Period)
        BY <4>2, <4>3 DEF RoundTime
      <4>5. RoundTime(n) = Genesis + (n - 1) * Period
        BY DEF RoundTime
      <4> HIDE DEF n
      <4> QED
        BY <1>3, <3>2, <4>1, <4>2, <4>4, <4>5, DrandAssumption
    <3> QED
      BY <1>5, <3>1, <3>2
  <2> HIDE DEF t, n
  <2>4. CheckFreshness(n, t, MaxLag)
    BY <1>3, <2>1, <2>2, <2>3, FreshPasses
  <2> QED
    BY <2>4 DEF t, n
<1>7. VerifyDrandBeacon(r)
  BY <1>3, <1>5 DEF VerifyDrandBeacon
<1>8. Accepts(w, r, "sequential", w, prev, now)
  BY <1>1, <1>4, <1>6, <1>7 DEF Accepts, WellFormed
<1> QED
  BY <1>2, <1>8 DEF HandleSign

\* The excuses last.
LEMMA ExcuseLasts ==
    ASSUME TypeInv, client # "idle", Request' = Request, started' = started,
           now' \in Int, now <= now', OutOfTime(Request)
    PROVE  OutOfTime(Request)'
<1>1. PICK r \in req : req = {r} /\ WellFormed(r)
  BY DEF TypeInv, RequestInv
<1>2. Request = r /\ r.round \in Nat
  BY <1>1, RequestIs DEF WellFormed
<1>3. /\ now \in Int /\ started \in Int /\ RequestTimeout \in Nat /\ MaxLag \in Nat
      /\ RoundTime(r.round + MaxLag + 1) \in Int /\ \A w \in 0 .. K - 1 : Skew[w] \in Int
  <2>1. r.round + MaxLag + 1 \in Int /\ MaxLag \in Nat
    BY <1>2, ConfigAssumption
  <2>2. RoundTime(r.round + MaxLag + 1) \in Int
    BY <2>1, RoundTimeOrder
  <2> QED
    BY <2>1, <2>2, TimeAssumption, ConfigAssumption DEF TypeInv, TypeOK, Witness
<1>4. CASE r.beacon # "genuine"
  BY <1>2, <1>4 DEF OutOfTime
<1>5. CASE now >= started + RequestTimeout
  BY <1>3, <1>5 DEF OutOfTime
<1>6. CASE \E w \in 0 .. K - 1 : now + Skew[w] >= RoundTime(r.round + MaxLag + 1)
  <2>1. PICK w \in 0 .. K - 1 : now + Skew[w] >= RoundTime(r.round + MaxLag + 1)
    BY <1>6
  <2>2. now' + Skew[w] >= RoundTime(r.round + MaxLag + 1)
    BY <1>3, <2>1
  <2> QED
    BY <1>2, <2>2 DEF OutOfTime, RoundTime
<1> QED
  BY <1>2, <1>4, <1>5, <1>6 DEF OutOfTime

\* No healthy witness is skipped while there is time.
LEMMA StepHealthy ==
    ASSUME ClocksClose, TypeInv, ChainInv, PostedInv, HealthyInv, [Next]_vars
    PROVE  HealthyInv'
<1> SUFFICES ASSUME client' \in {"walking", "failed"}, Healthy', ~OutOfTime(Request)'
             PROVE  /\ Len(chain') >= seqIdx' \/ Len(chain') >= K
                    /\ client' # "failed"
                    /\ Walking' /\ wire'[seqIdx'] = "reply" => HopVerifies'
  BY DEF HealthyInv
<1>1. /\ seqIdx \in Nat /\ seqIdx <= N /\ N \in Nat /\ K \in Nat /\ K <= N
      /\ Witness = 0 .. N - 1 /\ Len(chain) \in Nat
      /\ now \in Int /\ started \in Int
  BY ConfigAssumption, LenProperties DEF TypeInv, TypeOK, Witness
<1>2. Healthy
  <2>1. faulty' = faulty
    BY DEF Next, Build, Walk, Post, HopSucceeds, HopRejected, HopTimesOut, HopBreaks, Skip,
           ReturnTicket, ReturnError, WitnessHandles, WitnessMisbehaves, Tick, vars
  <2> QED
    BY <2>1 DEF Healthy, AuthOK
<1>3. CASE Walk
  <2>1. seqIdx = 0 /\ wire[0] = "none"
    BY <1>1, <1>3, ConfigAssumption DEF Walk, TypeInv, StartInv
  <2> QED
    BY <1>1, <1>3, <2>1 DEF Walk
<1>4. ASSUME client \in {"walking", "failed"}, started' = started, now' \in Int, now <= now'
      PROVE  /\ Len(chain) >= seqIdx \/ Len(chain) >= K
             /\ client # "failed"
             /\ Walking /\ wire[seqIdx] = "reply" => HopVerifies
             /\ ~OutOfTime(Request) /\ Request' = Request
             /\ Walking => seqIdx \in 0 .. K - 1 /\ seqIdx \notin faulty /\ AuthOK(seqIdx)
  <2>1. Request' = Request
    BY <1>4, RequestKept
  <2>2. ~OutOfTime(Request)
    BY <1>4, <2>1, ExcuseLasts
  <2>3. /\ Len(chain) >= seqIdx \/ Len(chain) >= K
        /\ client # "failed"
        /\ Walking /\ wire[seqIdx] = "reply" => HopVerifies
    BY <1>2, <1>4, <2>2 DEF HealthyInv
  <2>4. Walking => seqIdx \in 0 .. K - 1
    BY <1>1, <2>3 DEF Walking
  <2> QED
    BY <1>2, <2>1, <2>2, <2>3, <2>4 DEF Healthy
<1>5. CASE UNCHANGED <<client, req, started, seqIdx, wire, reply, prevSig, chain>>
             /\ now' \in Int /\ now <= now'
  <2>1. /\ Len(chain) >= seqIdx \/ Len(chain) >= K
        /\ client # "failed"
        /\ Walking /\ wire[seqIdx] = "reply" => HopVerifies
    BY <1>4, <1>5
  <2>2. (Walking' <=> Walking) /\ (HopVerifies' <=> HopVerifies)
    BY <1>5 DEF Walking, HopVerifies, Request
  <2> QED
    BY <1>5, <2>1, <2>2
<1>6. CASE Post
  <2>1. wire'[seqIdx] = "request" /\ client = "walking"
    BY <1>1, <1>6 DEF Post, Walking, TypeInv, TypeOK
  <2>2. Len(chain) >= seqIdx \/ Len(chain) >= K
    BY <1>1, <1>4, <1>6, <2>1 DEF Post
  <2> QED
    BY <1>6, <2>1, <2>2 DEF Post
<1>7. ASSUME Hopping, seqIdx' = seqIdx + 1, UNCHANGED wire
      PROVE  ~(Walking' /\ wire'[seqIdx'] = "reply")
  <2>1. seqIdx' < N => wire[seqIdx'] = "none"
    BY <1>1, <1>7 DEF TypeInv, WireInv
  <2> QED
    BY <1>7, <2>1 DEF Walking
<1>8. CASE HopSucceeds
  <2>1. /\ Len(chain') = Len(chain) + 1 /\ seqIdx' = seqIdx + 1 /\ client = "walking"
        /\ UNCHANGED <<client, started, now>>
    BY <1>8, <1>1 DEF HopSucceeds, Hopping, Walking, TypeInv, TypeOK
  <2>2. Len(chain) >= seqIdx \/ Len(chain) >= K
    BY <1>1, <1>4, <2>1
  <2> QED
    BY <1>1, <1>7, <1>8, <2>1, <2>2 DEF HopSucceeds
<1>9. CASE HopRejected \/ HopTimesOut \/ HopBreaks
  <2>1. Hopping /\ Walking /\ Skip /\ client = "walking" /\ UNCHANGED <<started, now>>
    BY <1>9 DEF HopRejected, HopTimesOut, HopBreaks, Hopping, Walking, Skip
  <2>2. /\ seqIdx \notin faulty /\ ~OutOfTime(Request)
        /\ wire[seqIdx] = "reply" => HopVerifies
    BY <1>1, <1>4, <2>1
  <2> QED
    BY <1>9, <2>2 DEF HopRejected, HopTimesOut, HopBreaks, OutOfTime
<1>10. CASE ReturnError
  <2>1. client = "walking" /\ seqIdx = N /\ Len(chain) < K /\ UNCHANGED <<started, now>>
    BY <1>10 DEF ReturnError
  <2>2. Len(chain) >= seqIdx \/ Len(chain) >= K
    BY <1>1, <1>4, <2>1
  <2> QED
    BY <1>1, <2>1, <2>2
<1>11. ASSUME NEW w \in Witness, wire[w] = "request", wire' = [wire EXCEPT ![w] = "reply"],
              NEW answer, reply' = [reply EXCEPT ![w] = answer],
              \/ answer = HandleSign(w, Request, "sequential", w, posted[w], now)
              \/ w \in faulty,
              UNCHANGED <<now, client, req, started, seqIdx, prevSig, chain>>
       PROVE  /\ Len(chain') >= seqIdx' \/ Len(chain') >= K
              /\ client' # "failed"
              /\ Walking' /\ wire'[seqIdx'] = "reply" => HopVerifies'
  <2>1. /\ Len(chain) >= seqIdx \/ Len(chain) >= K
        /\ client # "failed"
        /\ Walking /\ wire[seqIdx] = "reply" => HopVerifies
        /\ ~OutOfTime(Request) /\ Request' = Request
        /\ Walking => seqIdx \in 0 .. K - 1 /\ seqIdx \notin faulty /\ AuthOK(seqIdx)
    BY <1>1, <1>4, <1>11
  <2>2. CASE Walking /\ seqIdx = w
    <3>1. /\ seqIdx \in 0 .. K - 1 /\ seqIdx \notin faulty /\ AuthOK(seqIdx)
          /\ Len(chain) >= seqIdx
      BY <1>1, <2>1, <2>2 DEF Walking
    <3>2. posted[w] = IF w > 0 THEN prevSig ELSE {}
      BY <1>11, <2>2 DEF PostedInv, Walking
    <3>3. w > 0 => prevSig # {}
      BY <1>1, <2>2, <3>1 DEF ChainInv
    <3>4. w > 0 => posted[w] # {}
      BY <3>2, <3>3
    <3>5. client # "idle"
      BY <2>2 DEF Walking
    <3>6. HandleSign(w, Request, "sequential", w, posted[w], now) =
             {Sign(w, WitnessInput(Request, "sequential", w, posted[w]))}
      BY <2>1, <2>2, <3>1, <3>4, <3>5, HealthyAccepts
    <3>7. WitnessInput(Request, "sequential", w, posted[w])
            = WitnessInput(Request, "sequential", w, prevSig)
      <4>1. CASE w > 0
        BY <3>2, <4>1
      <4>2. CASE ~(w > 0)
        BY <4>2 DEF WitnessInput
      <4> QED
        BY <4>1, <4>2
    <3>8. reply'[w] = {Sign(w, WitnessInput(Request, "sequential", w, prevSig))}
      BY <1>11, <2>2, <3>1, <3>6, <3>7 DEF TypeInv, TypeOK
    <3>9. HopVerifies'
      BY <1>11, <2>1, <2>2, <3>8 DEF HopVerifies, VerifyIndividual
    <3> QED
      BY <1>11, <2>1, <3>9
  <2>3. CASE Walking /\ seqIdx # w
    <3>1. seqIdx \in Witness
      BY <1>1, <2>3 DEF Walking
    <3>2. wire'[seqIdx] = wire[seqIdx] /\ reply'[seqIdx] = reply[seqIdx]
      BY <1>11, <2>3, <3>1 DEF TypeInv, TypeOK
    <3>3. HopVerifies' <=> HopVerifies
      BY <1>11, <2>1, <3>2 DEF HopVerifies
    <3> QED
      BY <1>11, <2>1, <2>3, <3>2, <3>3
  <2>4. CASE ~Walking
    BY <1>11, <2>1, <2>4 DEF Walking
  <2> QED
    BY <2>2, <2>3, <2>4
<1> QED
  <2>1. CASE ReturnTicket \/ (\E op \in Ops : \E a \in RelayAnswers(now, StaleRounds) : Build(op, a))
    BY <2>1 DEF ReturnTicket, Build
  <2>2. CASE \/ \E w \in Witness : WitnessHandles(w)
             \/ \E w \in Witness : \E answer \in {{}, {Garbage}} : WitnessMisbehaves(w, answer)
    BY <1>11, <2>2 DEF WitnessHandles, WitnessMisbehaves
  <2>3. CASE UNCHANGED vars \/ Tick
    BY <1>1, <1>5, <2>3 DEF vars, Tick
  <2> QED
    BY <1>3, <1>6, <1>8, <1>9, <1>10, <2>1, <2>2, <2>3 DEF Next

-----------------------------------------------------------------------------
(* The theorems *)

IInv ==
    /\ TypeInv /\ SignedInv /\ ChainInv /\ TicketInv /\ BudgetInv /\ PostedInv
    /\ ClocksClose => HealthyInv

\* The invariant holds before the walk begins.
LEMMA InitIInv == Init => IInv
<1> SUFFICES ASSUME Init PROVE IInv
  OBVIOUS
<1>1. TypeInv
  BY InitType
<1>2. SignedInv /\ TicketInv /\ BudgetInv /\ PostedInv /\ HealthyInv
  BY DEF Init, SignedInv, PredecessorSigned, TicketInv, BudgetInv, PostedInv, HealthyInv
<1>3. ChainInv
  <2>1. Len(chain) = 0 /\ prevSig = {} /\ K \in Nat
    BY ConfigAssumption DEF Init
  <2> QED
    BY <2>1 DEF ChainInv
<1> QED
  BY <1>1, <1>2, <1>3 DEF IInv

\* Every step of the walk keeps the invariant.
LEMMA StepIInv == IInv /\ [Next]_vars => IInv'
<1> SUFFICES ASSUME IInv, [Next]_vars PROVE IInv'
  OBVIOUS
<1>1. TypeInv /\ SignedInv /\ ChainInv /\ TicketInv /\ BudgetInv /\ PostedInv
  BY DEF IInv
<1>2. TypeInv' /\ SignedInv' /\ ChainInv' /\ TicketInv' /\ BudgetInv' /\ PostedInv'
  BY <1>1, StepType, StepSigned, StepChain, StepTicket, StepBudget, StepPosted
<1>3. ASSUME ClocksClose PROVE HealthyInv'
  BY <1>1, <1>3, StepHealthy DEF IInv
<1>4. ClocksClose' <=> ClocksClose
  BY DEF ClocksClose
<1> QED
  BY <1>2, <1>3, <1>4 DEF IInv

\* The invariant of the walk is inductive.
THEOREM AlwaysIInv == Spec => []IInv
<1> QED
  BY InitIInv, StepIInv, PTL DEF Spec

\* The type invariant: what the walk holds are signatures witnesses made.
THEOREM WalkTypes == Spec => []TypeOK
<1>1. IInv => TypeOK
  BY DEF IInv, TypeInv
<1> QED
  BY AlwaysIInv, <1>1, PTL

\* No witness binds a predecessor that nobody signed: requestSequential
\* verifies each reply before it hands it on.
THEOREM PredecessorsAreSigned == Spec => []PredecessorSigned
<1>1. IInv => PredecessorSigned
  BY DEF IInv, SignedInv
<1> QED
  BY AlwaysIInv, <1>1, PTL

\* A walk stays within one budget per witness visited.
THEOREM WalkWithinBudget == Spec => []HopBudget
<1>1. IInv => HopBudget
  <2> SUFFICES ASSUME IInv, client = "walking"
               PROVE  now - started <= HopTimeout * (seqIdx + 1)
    BY DEF HopBudget
  <2>1. /\ now \in Int /\ started \in Int /\ hopStart \in Int /\ HopTimeout \in Nat
        /\ seqIdx \in Nat
    BY TimeAssumption, ConfigAssumption DEF IInv, TypeInv, TypeOK
  <2>2. HopTimeout * seqIdx \in Nat
        /\ HopTimeout * (seqIdx + 1) = HopTimeout * seqIdx + HopTimeout
    BY <2>1, OneHopMore
  <2>3. \/ hopStart - started <= HopTimeout * seqIdx /\ now <= hopStart + HopTimeout
        \/ now - started <= HopTimeout * seqIdx
    BY DEF IInv, BudgetInv
  <2> QED
    BY <2>1, <2>2, <2>3
<1> QED
  BY AlwaysIInv, <1>1, PTL

\* If no witness's clock is further behind than the freshness window, a walk
\* whose first K witnesses are healthy fails only for lack of time.
THEOREM HealthyPrefixIsServed ==
    ASSUME ClocksClose
    PROVE  Spec => []HealthyPrefixServed
<1>1. IInv => HealthyPrefixServed
  <2> SUFFICES ASSUME IInv, client = "failed", Healthy, NEW r \in req
               PROVE  OutOfTime(r)
    BY DEF HealthyPrefixServed, Healthy, OutOfTime
  <2>1. Request = r
    <3>1. PICK q \in req : req = {q}
      BY DEF IInv, TypeInv, RequestInv
    <3> QED
      BY <3>1, RequestIs
  <2> QED
    BY <2>1 DEF IInv, HealthyInv
<1> QED
  BY AlwaysIInv, <1>1, PTL

\* VerifySequential numbers the links by their place in the ticket, the walk
\* by roster position: a link verifies only if the two agree.
LEMMA LinkVerifies ==
    ASSUME IInv, NEW i \in 1 .. Len(chain)
    PROVE  VerifyIndividual(chain[i].index,
               WitnessInput(Request, "sequential", i - 1, Prev(i)), chain[i].sig)
           <=> chain[i].index = i - 1
<1> DEFINE n == chain[i].index
           P == Prev(i)
           mine == WitnessInput(Request, "sequential", n, P)
           theirs == WitnessInput(Request, "sequential", i - 1, P)
<1>1. chain[i] \in [index : Witness, sig : signatures]
  <2>1. chain \in Seq([index : Witness, sig : signatures])
    BY DEF IInv, TypeInv, TypeOK
  <2> QED
    BY <2>1, ElementOfSeq
<1>2. n \in Nat /\ i - 1 \in Nat /\ chain[i].sig \in signatures
  BY <1>1, ConfigAssumption DEF Witness
<1>3. chain[i].sig = Sign(n, mine)
  BY DEF IInv, ChainInv
<1>4. mine # {}
  <2>1. chain[i].sig.msg # {}
    BY <1>2 DEF IInv, SignedInv
  <2> HIDE DEF mine
  <2> QED
    BY <1>3, <2>1 DEF Sign
<1>5. /\ \A m \in mine : m.seq = n
      /\ \A m \in theirs : m.seq = i - 1
  BY <1>2, InputPosition
<1>6. mine = theirs <=> n = i - 1
  <2>1. ASSUME mine = theirs PROVE n = i - 1
    <3> HIDE DEF n, mine, theirs
    <3> QED
      BY <1>4, <1>5, <2>1
  <2> QED
    BY <2>1
<1>7. VerifyIndividual(n, theirs, chain[i].sig) <=> mine = theirs
  <2> HIDE DEF n, mine, theirs
  <2> QED
    BY <1>3 DEF VerifyIndividual, Sign
<1> QED
  BY <1>6, <1>7

\* The tickets of requestSequential that VerifyTicket accepts are exactly
\* those for which no witness before the last one was skipped.
THEOREM VerifiesUnbrokenOnly == Spec => []VerifiesIffUnbroken
<1>1. IInv => VerifiesIffUnbroken
  <2> SUFFICES ASSUME IInv, NEW t \in ticket
               PROVE  VerifyTicket(t) <=>
                        \A i \in 1 .. Len(t.witnesses) : t.witnesses[i].index = i - 1
    BY DEF VerifiesIffUnbroken
  <2>1. PICK c : t = SequentialTicket(Request, chain, c)
    BY DEF IInv, TicketInv
  <2>2. /\ t.req = Request /\ t.mode = "sequential" /\ t.threshold = K /\ t.witnesses = chain
        /\ Len(chain) = K /\ K \in 1 .. N
    BY <2>1, ConfigAssumption DEF SequentialTicket, IInv, TicketInv
  <2>3. VerifyAgentSignature(Request)
    <3>1. req # {} /\ client # "idle"
      BY DEF IInv, TicketInv, TypeInv, RequestInv
    <3>2. PICK r \in req : req = {r} /\ WellFormed(r)
      BY <3>1 DEF IInv, TypeInv, RequestInv
    <3> QED
      BY <3>2, RequestIs DEF WellFormed
  <2>4. DOMAIN chain = 1 .. Len(chain)
    BY LenProperties DEF IInv, TypeInv, TypeOK
  <2>5. ASSUME NEW i \in 1 .. Len(chain)
        PROVE  /\ chain[i].index \in Witness
               /\ \A j \in 1 .. i - 1 : chain[j].index # chain[i].index
    <3>1. \A j \in 1 .. Len(chain) : chain[j].index \in Witness
      <4>1. chain \in Seq([index : Witness, sig : signatures])
        BY DEF IInv, TypeInv, TypeOK
      <4>2. ASSUME NEW j \in 1 .. Len(chain) PROVE chain[j].index \in Witness
        <5>1. chain[j] \in [index : Witness, sig : signatures]
          BY <4>1, ElementOfSeq
        <5> QED
          BY <5>1
      <4> QED
        BY <4>2
    <3>2. ASSUME NEW j \in 1 .. i - 1 PROVE chain[j].index # chain[i].index
      <4>1. j \in 1 .. Len(chain) /\ j < i
        BY <2>2
      <4>2. chain[j].index < chain[i].index
        BY <4>1 DEF IInv, ChainInv
      <4> QED
        BY <3>1, <4>1, <4>2, ConfigAssumption DEF Witness
    <3> QED
      BY <3>1, <3>2
  <2>6. VerifyTicket(t) <=> VerifySequential(t)
    BY <2>2, <2>3 DEF VerifyTicket
  <2>7. VerifySequential(t) <=>
          \A i \in 1 .. Len(chain) :
              VerifyIndividual(chain[i].index,
                  WitnessInput(Request, "sequential", i - 1, Prev(i)), chain[i].sig)
    <3> DEFINE V(i) == VerifyIndividual(chain[i].index,
                         WitnessInput(Request, "sequential", i - 1, Prev(i)), chain[i].sig)
    <3>1. VerifySequential(t) <=>
            /\ Len(chain) >= K
            /\ \A i \in DOMAIN chain :
                  /\ chain[i].index \in Witness
                  /\ \A j \in 1 .. i - 1 : chain[j].index # chain[i].index
                  /\ V(i)
      BY <2>2, Zenon DEF VerifySequential, Prev
    <3> HIDE DEF V
    <3>2. Len(chain) >= K
      BY <2>2
    <3>3. VerifySequential(t) <=> \A i \in 1 .. Len(chain) : V(i)
      BY <2>4, <2>5, <3>1, <3>2
    <3> QED
      BY <3>3 DEF V
  <2> QED
    BY <2>2, <2>6, <2>7, LinkVerifies
<1> QED
  BY AlwaysIInv, <1>1, PTL

-----------------------------------------------------------------------------
(* requestSequential implements DaqQuorum *)

\* Nothing is endorsed or decided at the start.
LEMMA InitQuorum == Init => Quorum!Init
BY DEF Init, Quorum!Init, Endorsed, Outcome

\* The indexes of a complete chain are a quorum of witnesses that signed.
LEMMA ChainIsQuorum ==
    ASSUME IInv, Len(chain) >= K
    PROVE  /\ {chain[i].index : i \in DOMAIN chain}
                 \in {Q \in SUBSET Witness : Cardinality(Q) = K}
           /\ {chain[i].index : i \in DOMAIN chain} \subseteq Endorsed
<1>1. /\ chain \in Seq([index : Witness, sig : signatures])
      /\ K \in Nat /\ Witness \subseteq Int /\ Len(chain) <= K
  BY ConfigAssumption DEF IInv, TypeInv, TypeOK, ChainInv, Witness
<1>2. Len(chain) = K /\ DOMAIN chain = 1 .. K
  BY <1>1, LenProperties
<1>3. ASSUME NEW i \in 1 .. K
      PROVE  /\ chain[i].index \in Witness /\ chain[i].sig \in signatures
             /\ chain[i].sig.signer = chain[i].index
  <2>1. chain[i] \in [index : Witness, sig : signatures]
    BY <1>1, <1>2, ElementOfSeq
  <2>2. chain[i].sig = Sign(chain[i].index,
            WitnessInput(Request, "sequential", chain[i].index, Prev(i)))
    BY <1>2 DEF IInv, ChainInv
  <2> QED
    BY <2>1, <2>2 DEF Sign
<1> DEFINE p == [i \in 1 .. K |-> chain[i].index]
           T == {p[i] : i \in 1 .. K}
<1>4. p \in [1 .. K -> Int]
  BY <1>1, <1>3
<1>5. \A i, j \in 1 .. K : i < j => p[i] < p[j]
  BY <1>2 DEF IInv, ChainInv
<1>6. T = {chain[i].index : i \in DOMAIN chain}
  BY <1>2
<1> HIDE DEF p
<1>7. Cardinality(T) = K
  BY <1>1, <1>4, <1>5, IncreasingImage
<1>8. T \subseteq Witness /\ T \subseteq Endorsed
  BY <1>3 DEF p, Endorsed
<1> QED
  BY <1>6, <1>7, <1>8

\* Every step of the walk is a step of the promise or leaves it alone.
LEMMA StepQuorum == IInv /\ [Next]_vars => [Quorum!Next]_(Quorum!vars)
<1> SUFFICES ASSUME IInv, [Next]_vars
             PROVE  Quorum!Next \/ (Endorsed' = Endorsed /\ Outcome' = Outcome)
  BY DEF Quorum!vars
<1>1. ASSUME UNCHANGED <<client, ticket, chain, signatures>>
      PROVE  Endorsed' = Endorsed /\ Outcome' = Outcome
  BY <1>1 DEF Endorsed, Outcome
<1>2. client # "ticket" => ticket = {}
  BY DEF IInv, TicketInv
<1>3. ASSUME client \notin {"ticket", "failed"}, client' \notin {"ticket", "failed"},
             UNCHANGED <<ticket, signatures>>
      PROVE  Endorsed' = Endorsed /\ Outcome' = Outcome
  <2>1. ticket = {} /\ ticket' = {}
    BY <1>2, <1>3
  <2>2. Outcome = [kind |-> "pending", by |-> {}] /\ Outcome' = [kind |-> "pending", by |-> {}]
    BY <1>3, <2>1 DEF Outcome
  <2> QED
    BY <1>3, <2>2 DEF Endorsed
<1>4. CASE ReturnTicket
  <2> DEFINE Q == {chain[i].index : i \in DOMAIN chain}
  <2>1. /\ client = "walking" /\ client' = "ticket" /\ Len(chain) >= K /\ ticket' # {}
        /\ UNCHANGED <<chain, signatures>>
    BY <1>4 DEF ReturnTicket
  <2>2. Q \in {S \in SUBSET Witness : Cardinality(S) = K} /\ Q \subseteq Endorsed
    BY <2>1, ChainIsQuorum
  <2>3. Outcome.kind = "pending"
    BY <2>1 DEF Outcome
  <2>4. Outcome' = [kind |-> "granted", by |-> Q]
    BY <2>1 DEF Outcome
  <2>5. Endorsed' = Endorsed
    BY <2>1 DEF Endorsed
  <2> HIDE DEF Q
  <2>6. Quorum!Grant(Q)
    BY <2>2, <2>3, <2>4, <2>5 DEF Quorum!Grant
  <2> QED
    BY <2>2, <2>6 DEF Quorum!Next
<1>5. CASE ReturnError
  <2>1. /\ client = "walking" /\ client' = "failed" /\ UNCHANGED <<chain, ticket, signatures>>
    BY <1>5 DEF ReturnError
  <2>2. Outcome.kind = "pending" /\ Outcome' = [kind |-> "denied", by |-> {}]
    BY <1>2, <2>1 DEF Outcome
  <2>3. Endorsed' = Endorsed
    BY <2>1 DEF Endorsed
  <2>4. Quorum!Deny
    BY <2>2, <2>3 DEF Quorum!Deny
  <2> QED
    BY <2>4 DEF Quorum!Next
<1>6. ASSUME NEW w \in Witness, WitnessHandles(w)
      PROVE  Quorum!Next \/ (Endorsed' = Endorsed /\ Outcome' = Outcome)
  <2> DEFINE answer == HandleSign(w, Request, "sequential", w, posted[w], now)
             input == WitnessInput(Request, "sequential", w, posted[w])
  <2>1. /\ wire[w] = "request" /\ signatures' = signatures \cup answer
        /\ UNCHANGED <<client, ticket, chain>>
    BY <1>6 DEF WitnessHandles
  <2>2. answer = {} \/ answer = {Sign(w, input)}
    BY HandleSignIs
  <2> HIDE DEF answer, input
  <2>3. CASE answer = {}
    BY <1>1, <2>1, <2>3
  <2>4. CASE answer = {Sign(w, input)}
    <3>1. \A s \in signatures : s.signer # w
      BY <2>1 DEF IInv, TypeInv, WireInv
    <3>2. Sign(w, input).signer = w
      BY DEF Sign
    <3>3. w \notin Endorsed /\ Endorsed' = Endorsed \cup {w}
      BY <2>1, <2>4, <3>1, <3>2 DEF Endorsed
    <3>4. Outcome' = Outcome
      BY <2>1 DEF Outcome
    <3>5. Quorum!Endorse(w)
      BY <3>3, <3>4 DEF Quorum!Endorse
    <3> QED
      BY <3>5 DEF Quorum!Next
  <2> QED
    BY <2>2, <2>3, <2>4
<1>7. CASE HopSucceeds
  BY <1>3, <1>7 DEF HopSucceeds, Hopping, Walking
<1> QED
  <2>1. CASE \E op \in Ops : \E a \in RelayAnswers(now, StaleRounds) : Build(op, a)
    BY <1>3, <2>1 DEF Build
  <2>2. CASE Walk
    BY <1>3, <2>2 DEF Walk
  <2>3. CASE Post \/ HopRejected \/ HopTimesOut \/ HopBreaks \/ Tick \/ UNCHANGED vars
    BY <1>1, <2>3 DEF Post, HopRejected, HopTimesOut, HopBreaks, Skip, Tick, vars
  <2>4. CASE \E w \in Witness : \E answer \in {{}, {Garbage}} : WitnessMisbehaves(w, answer)
    BY <1>1, <2>4 DEF WitnessMisbehaves
  <2> QED
    BY <1>4, <1>5, <1>6, <1>7, <2>1, <2>2, <2>3, <2>4 DEF Next

\* requestSequential implements the promise of the quorum: decided once, and
\* granted only on K distinct witnesses that signed before the grant.
THEOREM ImplementsQuorum == Spec => QuorumPromise
<1>1. Spec => Init /\ [][Next]_vars
  BY PTL DEF Spec
<1> QED
  BY <1>1, InitQuorum, StepQuorum, AlwaysIInv, PTL DEF QuorumPromise, Quorum!Spec
=============================================================================
