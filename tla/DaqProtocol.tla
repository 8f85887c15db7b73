----------------------------- MODULE DaqProtocol -----------------------------
(***************************************************************************)
(* What a DAQ request, a witness signature and a ticket are, what a        *)
(* witness checks before it signs, and what a verifier checks of a ticket  *)
(* (internal/daq: protocol.go, bls.go, witness.go, client.go).             *)
(*                                                                         *)
(* Cryptography is symbolic.  A signature is the pair of its signer and    *)
(* the message it covers; BLS signatures are unique, so verification is    *)
(* equality.  A digest is the record of the fields that are hashed.  A Go  *)
(* byte slice that may be nil is {} or {value}.  The roster is the set of  *)
(* indexes 0 .. N-1, and a witness's public key is its index.              *)
(***************************************************************************)
EXTENDS Drand, FiniteSets, Sequences

CONSTANTS
    N,              \* roster size
    K,              \* threshold
    Ops,            \* operations an agent may gate (id and payload hash)
    Agent,          \* the agent's public key
    MaxLag,         \* freshness window of the witnesses, in rounds
    DrandVerifier,  \* the witnesses that run with VerifyDrand
    WitnessToken,   \* WitnessToken[w]: bearer token w demands, {} for none
    RosterToken,    \* RosterToken[w]: token the client holds for w, {} for none
    Skew            \* Skew[w]: seconds w's clock is ahead of real time

Witness == 0 .. N - 1

\* withDefaults refuses an empty roster, a threshold outside [1, n] and a
\* roster whose indexes are not exactly 0 .. n-1.
ASSUME ConfigAssumption ==
    /\ N \in Nat \ {0}
    /\ K \in 1 .. N
    /\ MaxLag \in Nat
    /\ DrandVerifier \subseteq Witness
    /\ Skew \in [Witness -> Int]

-----------------------------------------------------------------------------
(* Messages and signatures *)

Sign(w, msg) == [signer |-> w, msg |-> msg]

\* A well-formed 48-byte string that verifies under no key of the roster.
Garbage == Sign(-1, {})

VerifyIndividual(w, msg, sig) == sig = Sign(w, msg)

\* Mutant of WitnessInput: the position is not part of the digest.
WitnessInput_Unpositioned(req, mode, seqIndex, prevSig) ==
    IF mode = "sequential" /\ seqIndex > 0 /\ prevSig = {}
    THEN {}
    ELSE {[mode |-> mode, op |-> req.op, round |-> req.round,
           beacon |-> req.beacon, agent |-> req.agent, seq |-> 0,
           prev |-> IF mode = "sequential" /\ seqIndex > 0 THEN prevSig ELSE {}]}

\* The bytes a witness signs.  RequestedAtMs and the agent's signature are
\* not among them; the position and the previous signature are, in
\* sequential mode only.  {} stands for the error return.
WitnessInput(req, mode, seqIndex, prevSig) ==
    IF mode = "sequential" /\ seqIndex > 0 /\ prevSig = {}
    THEN {}
    ELSE {[mode   |-> mode,
           op     |-> req.op,
           round  |-> req.round,
           beacon |-> req.beacon,
           agent  |-> req.agent,
           seq    |-> IF mode = "sequential" THEN seqIndex ELSE 0,
           prev   |-> IF mode = "sequential" /\ seqIndex > 0
                      THEN prevSig ELSE {}]}

\* The agent signs the canonical bytes with its own key.  `signed` is what
\* the signature covers: every field but the agent's public key.
CanonicalRequest(req) ==
    [op |-> req.op, round |-> req.round, beacon |-> req.beacon,
     requestedAt |-> req.requestedAt]

BuildRequest(op, answer, now) ==
    LET body == [op |-> op, round |-> answer.round, beacon |-> answer.beacon,
                 requestedAt |-> now]
    IN  [op |-> op, round |-> answer.round, beacon |-> answer.beacon,
         requestedAt |-> now, agent |-> Agent, agentSig |-> Sign(Agent, body)]

VerifyAgentSignature(req) ==
    VerifyIndividual(req.agent, CanonicalRequest(req), req.agentSig)

\* drand signs round numbers; a relay can serve a beacon that is not one.
VerifyDrandBeacon(req) == req.round > 0 /\ req.beacon = "genuine"

-----------------------------------------------------------------------------
(* The witness: POST /daq/sign *)

AuthOK(w) == WitnessToken[w] = {} \/ WitnessToken[w] = RosterToken[w]

\* prev_sig must decode to 48 bytes when seq_index > 0.
ParseOK(mode, seqIndex, prevSig) ==
    mode = "sequential" /\ seqIndex > 0 => prevSig # {}

Accepts(w, req, mode, seqIndex, prevSig, now) ==
    /\ AuthOK(w)
    /\ ParseOK(mode, seqIndex, prevSig)
    /\ VerifyAgentSignature(req)
    /\ w \in DrandVerifier =>
          /\ VerifyDrandBeacon(req)
          /\ CheckFreshness(req.round, now + Skew[w], MaxLag)
    /\ WitnessInput(req, mode, seqIndex, prevSig) # {}

\* {sig} in a 200 reply, {} for any HTTP error status.
HandleSign(w, req, mode, seqIndex, prevSig, now) ==
    IF Accepts(w, req, mode, seqIndex, prevSig, now)
    THEN {Sign(w, WitnessInput(req, mode, seqIndex, prevSig))}
    ELSE {}

-----------------------------------------------------------------------------
(* BDN aggregation *)

\* Position of index i among the enabled bits of a mask, counted from 1.
MaskPosition(mask, i) == Cardinality({j \in mask : j < i}) + 1

\* The mask has one bit per participant, and kyber pairs the j-th enabled
\* bit with the j-th signature of the slice: the caller must have sorted.
AggregateSigs(participants, sigs) ==
    LET mask == {participants[i] : i \in DOMAIN participants}
    IN  [mask |-> mask,
         agg  |-> [i \in mask |-> sigs[MaskPosition(mask, i)]]]

VerifyAggregate(mask, agg, msg, minParticipants) ==
    /\ mask \subseteq Witness
    /\ Cardinality(mask) >= minParticipants
    /\ \A i \in mask : VerifyIndividual(i, msg, agg[i])

-----------------------------------------------------------------------------
(* Tickets *)

ParallelTicket(req, participants, sigs, now) ==
    LET a == AggregateSigs(participants, sigs)
    IN  [req |-> req, mode |-> "parallel", threshold |-> K,
         witnesses |-> [i \in DOMAIN participants |->
                           [index |-> participants[i], sig |-> sigs[i]]],
         mask |-> a.mask, agg |-> a.agg, createdAt |-> now]

SequentialTicket(req, chain, now) ==
    [req |-> req, mode |-> "sequential", threshold |-> K,
     witnesses |-> chain, mask |-> {}, agg |-> << >>, createdAt |-> now]

VerifyParallel(t) ==
    /\ t.mask # {}
    /\ VerifyAggregate(t.mask, t.agg, WitnessInput(t.req, "parallel", 0, {}),
                       t.threshold)

\* The verifier numbers the chain by position in the ticket, from 0.
VerifySequential(t) ==
    /\ Len(t.witnesses) >= t.threshold
    /\ \A i \in DOMAIN t.witnesses :
          LET ws      == t.witnesses[i]
              prevSig == IF i = 1 THEN {} ELSE {t.witnesses[i-1].sig}
          IN  /\ ws.index \in Witness
              /\ \A j \in 1 .. i - 1 : t.witnesses[j].index # ws.index
              /\ VerifyIndividual(ws.index,
                     WitnessInput(t.req, "sequential", i - 1, prevSig), ws.sig)

VerifyTicket(t) ==
    /\ VerifyAgentSignature(t.req)
    /\ t.threshold \in 1 .. N
    /\ \/ t.mode = "parallel" /\ VerifyParallel(t)
       \/ t.mode = "sequential" /\ VerifySequential(t)

-----------------------------------------------------------------------------
(* External: what a drand relay may answer at second `now` to "latest":    *)
(* a genuine beacon of the current round or of one up to StaleRounds older *)
(* (a lagging relay), or bytes of the right size that drand never signed,  *)
(* for such a round or for one that wraps the int64 of CheckFreshness.     *)
RelayAnswers(now, StaleRounds) ==
    LET recent == {r \in (ExpectedRound(now) - StaleRounds) .. ExpectedRound(now) : r >= 1}
    IN  [round : recent, beacon : {"genuine", "forged"}]
        \cup [round : {ExpectedRound(now) + SignBit}, beacon : {"forged"}]
=============================================================================
