---------------------------- MODULE PhoenixProofs ----------------------------
(***************************************************************************)
(* What holds of rebirths for every set of hosts, operators and witnesses, *)
(* every threshold, cool-down and clock skew.                              *)
(***************************************************************************)
EXTENDS Phoenix, FiniteSetTheorems, SequenceTheorems, TLAPS

CanonicalForm == [new : Hosts, old : Hosts \cup {NoHost}, requestedAt : Nat, coolDown : Nat]
OperatorSig   == [key : OperatorKeys, msg : CanonicalForm]
Request ==
    [new : Hosts, old : Hosts \cup {NoHost}, requestedAt : Nat, coolDown : Nat,
     sigs : Seq(OperatorSig), legacy : Seq(OperatorSig)]

\* What SealRequestMultiOp makes: signatures on its own canonical bytes.
Sealed(r) ==
    /\ r \in Request /\ r.sigs # << >>
    /\ \A i \in DOMAIN r.sigs : r.sigs[i].msg = Canonical(r)
    /\ r.legacy \in {<< >>, r.sigs}

\* The host after the first n records of the log.
HostAt(n) == IF n = 0 THEN NoHost ELSE log[n].request.new

\* A request moves the service from the host its operators saw last to one
\* they had not seen.
RequestInv ==
    \A r \in requests :
        /\ Sealed(r)
        /\ \E n \in 0 .. Len(log) :
              r.old = HostAt(n) /\ \A i \in 1 .. n : log[i].request.new # r.new

\* A witness attests a request with enough operators, and says truly when.
AttestedFor(a, r) ==
    /\ VerifyOperator(r) /\ r.coolDown >= MinCoolDown
    /\ a.observed \in r.requestedAt .. r.requestedAt + 5 * r.coolDown
    /\ a.sig = Sign(a.pub, attestationMessage(r, a.observed))
AttestInv ==
    \A a \in attested :
        /\ a.index \in Witnesses /\ a.pub = a.index /\ a.observed \in Int
        /\ a.observed - Skew[a.index] \in Times /\ a.observed - Skew[a.index] <= now
        /\ \E r \in requests : AttestedFor(a, r)

\* A record holds a request that was made and attestations that were given,
\* all of them by the time of the record, and Execute accepted them then.
RecordInv(rec) ==
    /\ rec.request \in requests
    /\ rec.attestations \in [1 .. Threshold -> attested]
    /\ rec.executedAt \in Times
    /\ \A j \in 1 .. Threshold :
          rec.attestations[j].observed - Skew[rec.attestations[j].index] <= rec.executedAt
    /\ Execute(rec.request, rec.attestations, rec.executedAt) # {}
LogRecord ==
    [request : requests, attestations : [1 .. Threshold -> attested], executedAt : Times]
LogInv ==
    /\ log \in Seq(LogRecord)
    /\ \A i \in 1 .. Len(log) : RecordInv(log[i])

BoundInv ==
    /\ now \in Times /\ IsFiniteSet(requests)
    /\ Cardinality(requests) <= MaxRequests /\ Len(log) <= MaxLog

\* In a log that verifies the hosts differ.
DistinctHosts == \A i, j \in 1 .. Len(log) : HostAt(i) = HostAt(j) => i = j
HostInv == VerifyLineage(log) => DistinctHosts

IInv == BoundInv /\ RequestInv /\ AttestInv /\ LogInv /\ HostInv

-----------------------------------------------------------------------------
(* The operators *)

\* A sealed request carries its operators' signatures on its own bytes.
LEMMA SealIsSealed ==
    ASSUME NEW new \in Hosts, NEW old \in Hosts \cup {NoHost}, NEW signers \in SignerLists,
           NEW coolDown \in CoolDowns, NEW at \in Times,
           NEW r \in SealRequestMultiOp(new, old, signers, coolDown, at)
    PROVE  Sealed(r) /\ r.new = new /\ r.old = old
<1> DEFINE bare == [new |-> new, old |-> old, requestedAt |-> at,
                    coolDown |-> coolDown, sigs |-> << >>, legacy |-> << >>]
           c == Canonical(bare)
           sigs == [i \in DOMAIN signers |-> Sign(signers[i], c)]
           legacy == IF Len(sigs) = 1 THEN sigs ELSE << >>
<1>1. at \in Nat /\ coolDown \in Nat /\ signers \in Seq(OperatorKeys)
  BY PhoenixAssumption
<1>2. c = [new |-> new, old |-> old, requestedAt |-> at, coolDown |-> coolDown]
  BY DEF Canonical
<1>3. c \in CanonicalForm
  BY <1>1, <1>2 DEF CanonicalForm
<1>4. r = [bare EXCEPT !.sigs = sigs, !.legacy = legacy]
  BY DEF SealRequestMultiOp
<1>5. r = [new |-> new, old |-> old, requestedAt |-> at,
           coolDown |-> coolDown, sigs |-> sigs, legacy |-> legacy]
  BY <1>4
<1> HIDE DEF c
<1>6. /\ sigs \in Seq(OperatorSig)
      /\ \A i \in DOMAIN sigs : sigs[i].msg = c
  <2>1. DOMAIN signers = 1 .. Len(signers) /\ Len(signers) \in Nat
        /\ \A i \in 1 .. Len(signers) : signers[i] \in OperatorKeys
    BY <1>1, LenProperties, ElementOfSeq
  <2>2. \A i \in DOMAIN signers : Sign(signers[i], c) \in OperatorSig
    BY <1>3, <2>1 DEF OperatorSig, Sign
  <2>3. sigs \in [1 .. Len(signers) -> OperatorSig]
    BY <2>1, <2>2
  <2>4. sigs \in Seq(OperatorSig)
    BY <2>1, <2>3
  <2> QED
    BY <2>4 DEF Sign
<1> HIDE DEF sigs
<1>7. legacy \in {<< >>, sigs} /\ legacy \in Seq(OperatorSig)
  BY <1>6
<1>10. sigs # << >>
  <2>1. signers # << >>
    BY DEF SealRequestMultiOp
  <2>2. Len(signers) # 0
    BY <1>1, <2>1, EmptySeq
  <2>3. DOMAIN sigs = DOMAIN signers /\ DOMAIN signers = 1 .. Len(signers)
        /\ Len(signers) \in Nat
    BY <1>1, LenProperties DEF sigs
  <2> QED
    BY <2>2, <2>3
<1> HIDE DEF legacy
<1>8. r \in Request
  BY <1>1, <1>5, <1>6, <1>7 DEF Request
<1>9. Canonical(r) = c
  BY <1>2, <1>5 DEF Canonical
<1> QED
  BY <1>5, <1>6, <1>7, <1>8, <1>9, <1>10 DEF Sealed

\* An attestation is made out to the request and the clock it was given.
LEMMA AttestIs ==
    ASSUME NEW r, NEW w, NEW clock, NEW a \in Attest(r, w, clock)
    PROVE  /\ a = [index |-> w, pub |-> w, observed |-> clock,
                   sig |-> Sign(w, attestationMessage(r, clock))]
           /\ AttestedFor(a, r)
BY DEF Attest, AttestedFor

\* The control plane's record is made of what it was given.
LEMMA ExecuteIs ==
    ASSUME NEW r, NEW atts, NEW clock, NEW rec \in Execute(r, atts, clock)
    PROVE  /\ rec = [request |-> r, attestations |-> atts, executedAt |-> clock]
           /\ Len(atts) >= Threshold /\ clock >= Earliest(r)
           /\ \A i, j \in DOMAIN atts : atts[i].index = atts[j].index => i = j
           /\ \A i \in DOMAIN atts :
                 /\ atts[i].observed >= Earliest(r)
                 /\ atts[i].sig = Sign(atts[i].pub, attestationMessage(r, atts[i].observed))
BY DEF Execute

\* Two requests with the same canonical bytes agree in everything but their
\* signatures.
LEMMA SameCanonical ==
    ASSUME NEW q, NEW r, Canonical(q) = Canonical(r)
    PROVE  /\ q.new = r.new /\ q.old = r.old
           /\ q.requestedAt = r.requestedAt /\ q.coolDown = r.coolDown
<1>1. /\ Canonical(q).new = q.new /\ Canonical(q).old = q.old
      /\ Canonical(q).requestedAt = q.requestedAt /\ Canonical(q).coolDown = q.coolDown
      /\ Canonical(r).new = r.new /\ Canonical(r).old = r.old
      /\ Canonical(r).requestedAt = r.requestedAt /\ Canonical(r).coolDown = r.coolDown
  BY DEF Canonical
<1> QED
  BY <1>1

\* A list of n different members shows that a set has at least n.
LEMMA CountByList ==
    ASSUME NEW n \in Nat, NEW T, IsFiniteSet(T), NEW f \in [1 .. n -> T],
           \A i, j \in 1 .. n : f[i] = f[j] => i = j
    PROVE  Cardinality(T) >= n
<1>1. f \in Injection(1 .. n, T)
  BY DEF Injection, IsInjective
<1>2. Cardinality(1 .. n) <= Cardinality(T)
  BY <1>1, FS_Injection
<1>3. Cardinality(1 .. n) = n
  BY FS_Interval
<1> QED
  BY <1>2, <1>3, FS_CardinalityType

-----------------------------------------------------------------------------
(* The invariant is inductive *)

\* Before anything is sealed the invariant holds.
LEMMA InitIInv == Init => IInv
<1> SUFFICES ASSUME Init PROVE IInv
  OBVIOUS
<1>1. Len(log) = 0 /\ log = << >> /\ requests = {} /\ attested = {} /\ now = 0
  BY DEF Init
<1>2. BoundInv
  BY <1>1, FS_EmptySet, PhoenixAssumption DEF BoundInv
<1>3. RequestInv /\ AttestInv /\ HostInv
  BY <1>1 DEF RequestInv, AttestInv, HostInv, VerifyLineage
<1>4. LogInv
  BY <1>1 DEF LogInv
<1> QED
  BY <1>2, <1>3, <1>4 DEF IInv

\* Whether a request is sealed does not depend on the state.
LEMMA SealedIsRigid == \A q : Sealed(q)' <=> Sealed(q)
BY DEF Sealed, Request, OperatorSig, CanonicalForm, Canonical

\* Records outlive what is sealed and attested after them.
LEMMA LogOutlives ==
    ASSUME LogInv, requests \subseteq requests', attested \subseteq attested', log' = log
    PROVE  LogInv'
<1>1. LogRecord \subseteq LogRecord'
  BY DEF LogRecord
<1>2. log \in Seq(LogRecord')
  <2> HIDE DEF LogRecord
  <2>1. log \in Seq(LogRecord)
    BY DEF LogInv
  <2> QED
    BY <1>1, <2>1, SeqMonotonic
<1>3. ASSUME NEW i \in 1 .. Len(log) PROVE RecordInv(log[i])'
  <2>1. RecordInv(log[i])
    BY DEF LogInv
  <2> QED
    BY <2>1 DEF RecordInv, Execute, Earliest
<1> QED
  BY <1>2, <1>3 DEF LogInv

\* What the log looks like after a record is appended.
LEMMA Appended ==
    ASSUME LogInv, NEW rec, rec \in LogRecord, log' = Append(log, rec)
    PROVE  /\ Len(log) \in Nat /\ Len(log') = Len(log) + 1
           /\ log' \in Seq(LogRecord)
           /\ \A i \in 1 .. Len(log) : log'[i] = log[i]
           /\ log'[Len(log) + 1] = rec
<1>1. log \in Seq(LogRecord)
  BY DEF LogInv
<1> QED
  BY <1>1, AppendProperties, LenProperties

\* The hosts of the log are hosts.
LEMMA HostsAreHosts ==
    ASSUME RequestInv, LogInv, NEW n \in 1 .. Len(log)
    PROVE  log[n].request \in requests /\ log[n].request.new \in Hosts
<1>1. log[n].request \in requests
  BY DEF LogInv, RecordInv
<1> QED
  BY <1>1 DEF RequestInv, Sealed, Request

\* The first n records, as operators read them.
LEMMA Seen ==
    ASSUME LogInv, NEW n \in 0 .. Len(log)
    PROVE  /\ Len(log) \in Nat /\ SubSeq(log, 1, n) \in Seq(LogRecord)
           /\ Len(SubSeq(log, 1, n)) = n
           /\ \A i \in 1 .. n : SubSeq(log, 1, n)[i] = log[i]
<1>1. log \in Seq(LogRecord) /\ Len(log) \in Nat
  BY LenProperties DEF LogInv
<1>2. \A i \in 1 .. n : log[i] \in LogRecord
  BY <1>1, ElementOfSeq
<1>3. n \in Int /\ 1 \in Int /\ n \in Nat
  BY <1>1
<1>4. /\ SubSeq(log, 1, n) \in Seq(LogRecord)
      /\ Len(SubSeq(log, 1, n)) = IF 1 <= n THEN n - 1 + 1 ELSE 0
      /\ \A i \in 1 .. n - 1 + 1 : SubSeq(log, 1, n)[i] = log[1 + i - 1]
  BY <1>2, <1>3, SubSeqProperties
<1> QED
  BY <1>1, <1>3, <1>4

\* Sealing, from the whole log or an old view of it, keeps the invariant.
LEMMA SealStep ==
    ASSUME IInv, NEW n \in 0 .. Len(log), NEW h \in Hosts, NEW s \in SignerLists,
           NEW c \in CoolDowns, Seal(n, h, s, c)
    PROVE  IInv'
<1> DEFINE old == IF n = 0 THEN NoHost ELSE log[n].request.new
<1>0. BoundInv /\ RequestInv /\ AttestInv /\ LogInv /\ HostInv
  BY DEF IInv
<1>1. /\ Cardinality(requests) < MaxRequests
      /\ \A i \in 1 .. n : SubSeq(log, 1, n)[i].request.new # h
      /\ UNCHANGED <<now, attested, log>>
  BY DEF Seal
<1>2. PICK r \in SealRequestMultiOp(h, old, s, c, now) : requests' = requests \cup {r}
  BY DEF Seal
<1>3. old \in Hosts \cup {NoHost}
  <2>1. n # 0 => n \in 1 .. Len(log)
    BY <1>0, Seen
  <2> QED
    BY <1>0, <2>1, HostsAreHosts
<1>4. Sealed(r) /\ r.new = h /\ r.old = old
  <2>1. now \in Times
    BY <1>0 DEF BoundInv
  <2> HIDE DEF old
  <2> QED
    BY <1>2, <1>3, <2>1, SealIsSealed
<1>5. RequestInv'
  <2>1. r.old = HostAt(n) /\ \A i \in 1 .. n : log[i].request.new # r.new
    BY <1>0, <1>1, <1>4, Seen DEF HostAt
  <2>2. \A q \in requests' :
            /\ Sealed(q)
            /\ \E k \in 0 .. Len(log) :
                  q.old = HostAt(k) /\ \A i \in 1 .. k : log[i].request.new # q.new
    BY <1>0, <1>2, <1>4, <2>1 DEF RequestInv
  <2>3. \A k : HostAt(k)' = HostAt(k)
    BY <1>1 DEF HostAt
  <2> QED
    BY <1>1, <2>2, <2>3, SealedIsRigid DEF RequestInv
<1>6. BoundInv'
  <2>1. IsFiniteSet(requests) /\ Cardinality(requests) \in Nat
    BY <1>0, FS_CardinalityType DEF BoundInv
  <2>2. IsFiniteSet(requests')
    BY <1>2, <2>1, FS_AddElement
  <2>3. Cardinality(requests') <= Cardinality(requests) + 1
    <3>1. Cardinality(requests \cup {r}) =
              IF r \in requests THEN Cardinality(requests) ELSE Cardinality(requests) + 1
      BY <2>1, FS_AddElement
    <3> QED
      BY <1>2, <2>1, <3>1
  <2>4. Cardinality(requests') \in Nat /\ MaxRequests \in Nat
    BY <2>2, FS_CardinalityType, PhoenixAssumption
  <2>5. Cardinality(requests') <= MaxRequests
    BY <1>1, <2>1, <2>3, <2>4
  <2> QED
    BY <1>0, <1>1, <2>2, <2>5 DEF BoundInv
<1>7. AttestInv'
  BY <1>0, <1>1, <1>2 DEF AttestInv, AttestedFor
<1>8. LogInv'
  BY <1>0, <1>1, <1>2, LogOutlives
<1>9. HostInv'
  BY <1>0, <1>1 DEF HostInv, DistinctHosts, HostAt, VerifyLineage, RecordOK, VerifyOperator,
                    Execute, Earliest
<1> QED
  BY <1>5, <1>6, <1>7, <1>8, <1>9 DEF IInv

\* An attestation keeps the invariant.
LEMMA AttestStep ==
    ASSUME IInv, NEW r \in requests, NEW w \in Witnesses, AttestRequest(r, w)
    PROVE  IInv'
<1>0. BoundInv /\ RequestInv /\ AttestInv /\ LogInv /\ HostInv
  BY DEF IInv
<1>1. UNCHANGED <<now, requests, log>>
  BY DEF AttestRequest
<1>2. PICK a \in Attest(r, w, now + Skew[w]) : attested' = attested \cup {a}
  BY DEF AttestRequest
<1>3. /\ a = [index |-> w, pub |-> w, observed |-> now + Skew[w],
              sig |-> Sign(w, attestationMessage(r, now + Skew[w]))]
      /\ AttestedFor(a, r)
  BY <1>2, AttestIs
<1>4. /\ a.index = w /\ a.pub = w /\ a.observed = now + Skew[w]
      /\ now \in Times /\ now \in Int /\ Skew[w] \in Int
  BY <1>0, <1>3, PhoenixAssumption DEF BoundInv
<1>5. AttestInv'
  <2>1. ASSUME NEW b \in attested'
        PROVE  /\ b.index \in Witnesses /\ b.pub = b.index /\ b.observed \in Int
               /\ b.observed - Skew[b.index] \in Times /\ b.observed - Skew[b.index] <= now
               /\ \E q \in requests : AttestedFor(b, q)
    <3>1. CASE b \in attested
      BY <1>0, <3>1 DEF AttestInv
    <3>2. CASE b = a
      <4>1. a.observed - Skew[a.index] = now /\ a.observed \in Int
        BY <1>4
      <4> QED
        BY <1>3, <1>4, <3>2, <4>1
    <3> QED
      BY <1>2, <3>1, <3>2
  <2>2. \A b, q : AttestedFor(b, q)' <=> AttestedFor(b, q)
    BY DEF AttestedFor, VerifyOperator, Sign, Canonical, attestationMessage
  <2> QED
    BY <1>1, <2>1, <2>2 DEF AttestInv
<1>6. LogInv'
  BY <1>0, <1>1, <1>2, LogOutlives
<1>7. BoundInv' /\ RequestInv'
  <2>1. \A k : HostAt(k)' = HostAt(k)
    BY <1>1 DEF HostAt
  <2> QED
    BY <1>0, <1>1, <2>1, SealedIsRigid DEF BoundInv, RequestInv
<1>8. HostInv'
  BY <1>0, <1>1 DEF HostInv, DistinctHosts, HostAt, VerifyLineage, RecordOK, VerifyOperator,
                    Execute, Earliest
<1> QED
  BY <1>5, <1>6, <1>7, <1>8 DEF IInv

\* A record that extends a log that verifies brings a new host: its operators
\* saw all the records before it.
LEMMA AppendedHostIsNew ==
    ASSUME RequestInv, LogInv, DistinctHosts, NEW r \in requests, r.old = HostAt(Len(log))
    PROVE  \A i \in 1 .. Len(log) : log[i].request.new # r.new
<1>1. PICK n \in 0 .. Len(log) :
          r.old = HostAt(n) /\ \A i \in 1 .. n : log[i].request.new # r.new
  BY DEF RequestInv
<1>2. Len(log) \in Nat
  BY <1>1, Seen
<1>3. \A i \in 1 .. Len(log) : HostAt(i) \in Hosts /\ HostAt(i) # NoHost
  BY <1>2, HostsAreHosts, PhoenixAssumption DEF HostAt
<1>4. HostAt(0) = NoHost
  BY DEF HostAt
<1>5. n = Len(log)
  <2>1. CASE n = 0
    <3>1. HostAt(Len(log)) = NoHost
      BY <1>1, <1>4, <2>1
    <3>2. Len(log) \notin 1 .. Len(log)
      BY <1>3, <3>1
    <3>3. Len(log) = 0
      BY <1>2, <3>2
    <3> QED
      BY <2>1, <3>3
  <2>2. CASE n # 0
    <3>1. n \in 1 .. Len(log) /\ Len(log) \in 1 .. Len(log)
      BY <1>2, <2>2
    <3> QED
      BY <1>1, <3>1 DEF DistinctHosts
  <2> QED
    BY <2>1, <2>2
<1> QED
  BY <1>1, <1>5

\* So does a record, of whatever the control plane was given.
LEMMA ExecuteStep ==
    ASSUME IInv, NEW r \in requests, NEW atts \in [1 .. Threshold -> attested],
           ExecuteRequest(r, atts)
    PROVE  IInv'
<1>0. BoundInv /\ RequestInv /\ AttestInv /\ LogInv /\ HostInv
  BY DEF IInv
<1>1. UNCHANGED <<now, requests, attested>> /\ Len(log) < MaxLog
  BY DEF ExecuteRequest
<1>2. PICK rec \in Execute(r, atts, now) : log' = Append(log, rec)
  BY DEF ExecuteRequest
<1>3. rec = [request |-> r, attestations |-> atts, executedAt |-> now]
  BY <1>2, ExecuteIs
<1>4. /\ rec.request = r /\ rec.attestations = atts /\ rec.executedAt = now
      /\ rec \in LogRecord /\ now \in Times
  BY <1>0, <1>3 DEF LogRecord, BoundInv
<1>5. PICK n \in Nat : n = Len(log)
  BY <1>0, Seen, LenProperties DEF LogInv
<1>6. /\ Len(log') = n + 1 /\ log' \in Seq(LogRecord)
      /\ \A i \in 1 .. n : log'[i] = log[i]
      /\ log'[n + 1] = rec
  BY <1>0, <1>2, <1>4, <1>5, Appended
<1>7. LogInv'
  <2>1. RecordInv(rec)
    <3>1. \A j \in 1 .. Threshold : atts[j].observed - Skew[atts[j].index] <= now
      BY <1>0 DEF AttestInv
    <3>2. Execute(r, atts, now) # {}
      BY <1>2
    <3> QED
      BY <1>4, <3>1, <3>2 DEF RecordInv
  <2>2. \A x : RecordInv(x)' <=> RecordInv(x)
    BY <1>1 DEF RecordInv, Execute, Earliest
  <2>3. ASSUME NEW i \in 1 .. n + 1 PROVE RecordInv(log'[i])
    <3>1. CASE i \in 1 .. n
      BY <1>0, <1>5, <1>6, <3>1 DEF LogInv
    <3>2. CASE i = n + 1
      BY <1>6, <2>1, <3>2
    <3> QED
      BY <3>1, <3>2
  <2>4. LogRecord' = LogRecord
    BY <1>1 DEF LogRecord
  <2> QED
    BY <1>6, <2>2, <2>3, <2>4 DEF LogInv
<1>8. BoundInv'
  BY <1>0, <1>1, <1>5, <1>6, PhoenixAssumption DEF BoundInv
<1>9. AttestInv'
  BY <1>0, <1>1 DEF AttestInv, AttestedFor
<1>10. ASSUME NEW k \in 0 .. n PROVE HostAt(k)' = HostAt(k)
  BY <1>6 DEF HostAt
<1>11. RequestInv'
  <2>1. ASSUME NEW q \in requests
        PROVE  \E k \in 0 .. n + 1 :
                   q.old = HostAt(k)' /\ \A i \in 1 .. k : log'[i].request.new # q.new
    <3>1. PICK k \in 0 .. n : q.old = HostAt(k) /\ \A i \in 1 .. k : log[i].request.new # q.new
      BY <1>0, <1>5 DEF RequestInv
    <3>2. q.old = HostAt(k)' /\ \A i \in 1 .. k : log'[i].request.new # q.new
      BY <1>6, <1>10, <3>1
    <3> QED
      BY <3>2
  <2> QED
    BY <1>0, <1>1, <1>6, <2>1, SealedIsRigid DEF RequestInv
<1>12. HostInv'
  <2> SUFFICES ASSUME VerifyLineage(log') PROVE DistinctHosts'
    BY DEF HostInv, VerifyLineage, RecordOK, VerifyOperator, Execute, Earliest
  <2>0. DOMAIN log' = 1 .. n + 1 /\ DOMAIN log = 1 .. n
    BY <1>0, <1>5, <1>6, LenProperties DEF LogInv
  <2>1. r.old = HostAt(n)
    <3>1. n + 1 \in DOMAIN log'
      BY <2>0
    <3>2. log'[n + 1].request.old = IF n + 1 = 1 THEN NoHost ELSE log'[(n + 1) - 1].request.new
      BY <3>1 DEF VerifyLineage
    <3> QED
      BY <1>4, <1>6, <3>2 DEF HostAt
  <2>2. DistinctHosts
    <3>1. CASE n = 0
      BY <1>5, <3>1 DEF DistinctHosts
    <3>2. CASE n # 0
      <4>1. log # << >>
        BY <1>5, <3>2
      <4>2. ASSUME NEW i \in 1 .. n
            PROVE  /\ log[i].request.old = IF i = 1 THEN NoHost ELSE log[i-1].request.new
                   /\ RecordOK(log[i])
        <5>1. i \in DOMAIN log' /\ log'[i] = log[i] /\ (i # 1 => log'[i-1] = log[i-1])
          BY <1>6, <2>0
        <5> QED
          BY <5>1 DEF VerifyLineage
      <4>3. VerifyLineage(log)
        BY <2>0, <4>1, <4>2 DEF VerifyLineage
      <4> QED
        BY <1>0, <4>3 DEF HostInv
    <3> QED
      BY <3>1, <3>2
  <2>3. \A i \in 1 .. n : HostAt(i) # r.new
    <3>1. \A i \in 1 .. n : log[i].request.new # r.new
      BY <1>0, <1>5, <2>1, <2>2, AppendedHostIsNew
    <3> QED
      BY <3>1 DEF HostAt
  <2>4. HostAt(n + 1)' = r.new
    BY <1>4, <1>6 DEF HostAt
  <2>5. ASSUME NEW i \in 1 .. n + 1, NEW j \in 1 .. n + 1, HostAt(i)' = HostAt(j)'
        PROVE  i = j
    BY <1>5, <1>10, <2>2, <2>3, <2>4, <2>5 DEF DistinctHosts
  <2> QED
    BY <1>6, <2>5 DEF DistinctHosts
<1> QED
  BY <1>7, <1>8, <1>9, <1>11, <1>12 DEF IInv

\* Time passing keeps the invariant.
LEMMA TickStep == IInv /\ Tick => IInv'
<1> SUFFICES ASSUME IInv, Tick PROVE IInv'
  OBVIOUS
<1>0. BoundInv /\ RequestInv /\ AttestInv /\ LogInv /\ HostInv
  BY DEF IInv
<1>1. now' \in Times /\ now' > now /\ UNCHANGED <<requests, attested, log>>
  BY DEF Tick
<1>2. \A k : HostAt(k)' = HostAt(k)
  BY <1>1 DEF HostAt
<1>3. BoundInv' /\ RequestInv'
  BY <1>0, <1>1, <1>2, SealedIsRigid DEF BoundInv, RequestInv
<1>4. AttestInv'
  <2>1. \A b, q : AttestedFor(b, q)' <=> AttestedFor(b, q)
    BY DEF AttestedFor, VerifyOperator, Sign, Canonical, attestationMessage
  <2>2. now \in Int /\ now' \in Int /\ Times \subseteq Int
    BY <1>0, <1>1, PhoenixAssumption DEF BoundInv
  <2>3. \A t \in Times : t <= now => t <= now'
    BY <1>1, <2>2
  <2> QED
    BY <1>0, <1>1, <2>1, <2>3 DEF AttestInv
<1>5. LogInv'
  BY <1>0, <1>1, LogOutlives
<1>6. HostInv'
  BY <1>0, <1>1 DEF HostInv, DistinctHosts, HostAt, VerifyLineage, RecordOK, VerifyOperator,
                    Execute, Earliest
<1> QED
  BY <1>3, <1>4, <1>5, <1>6 DEF IInv

\* Every step keeps the invariant.
LEMMA StepIInv == IInv /\ [Next]_vars => IInv'
<1> SUFFICES ASSUME IInv, [Next]_vars PROVE IInv'
  OBVIOUS
<1>1. CASE Tick
  BY <1>1, TickStep
<1>2. CASE \E n \in 0 .. Len(log), h \in Hosts, s \in SignerLists, c \in CoolDowns :
             Seal(n, h, s, c)
  BY <1>2, SealStep
<1>3. CASE \E r \in requests, w \in Witnesses : AttestRequest(r, w)
  BY <1>3, AttestStep
<1>4. CASE \E r \in requests, atts \in [1 .. Threshold -> attested] : ExecuteRequest(r, atts)
  BY <1>4, ExecuteStep
<1>5. CASE UNCHANGED vars
  <2>1. \A k : HostAt(k)' = HostAt(k)
    BY <1>5 DEF HostAt, vars
  <2>2. BoundInv' /\ RequestInv'
    BY <1>5, <2>1, SealedIsRigid DEF BoundInv, RequestInv, IInv, vars
  <2>3. LogInv'
    BY <1>5, LogOutlives DEF IInv, vars
  <2>4. AttestInv'
    BY <1>5 DEF AttestInv, AttestedFor, IInv, vars
  <2>5. HostInv'
    BY <1>5 DEF HostInv, DistinctHosts, HostAt, VerifyLineage, RecordOK, VerifyOperator,
                Execute, Earliest, IInv, vars
  <2> QED
    BY <2>2, <2>3, <2>4, <2>5 DEF IInv
<1> QED
  BY <1>1, <1>2, <1>3, <1>4, <1>5 DEF Next

\* In every behaviour the requests, attestations and records are what the
\* operators, witnesses and the control plane made them.
THEOREM AlwaysIInv == Spec => []IInv
BY InitIInv, StepIInv, PTL DEF Spec

-----------------------------------------------------------------------------
(* What follows for one record *)

\* A witness's statement fits the request it signed and no other.
LEMMA StatementFits ==
    ASSUME AttestInv, NEW a \in attested, NEW r,
           a.sig = Sign(a.pub, attestationMessage(r, a.observed))
    PROVE  /\ r.coolDown >= MinCoolDown
           /\ a.observed \in r.requestedAt .. r.requestedAt + 5 * r.coolDown
           /\ \E q \in requests : q.coolDown >= MinCoolDown /\ Canonical(q) = Canonical(r)
<1>1. PICK q \in requests : AttestedFor(a, q)
  BY DEF AttestInv
<1>2. a.sig.msg.request = Canonical(q) /\ a.sig.msg.request = Canonical(r)
  BY <1>1 DEF AttestedFor, Sign, attestationMessage
<1>3. q.requestedAt = r.requestedAt /\ q.coolDown = r.coolDown
  BY <1>2, SameCanonical
<1> QED
  BY <1>1, <1>2, <1>3 DEF AttestedFor

\* The bounds and shapes of TypeOK hold.
LEMMA IInvTypes == IInv => TypeOK
<1> SUFFICES ASSUME IInv PROVE TypeOK
  OBVIOUS
<1>1. ASSUME NEW a \in attested
      PROVE  /\ a.index \in Witnesses /\ a.observed = a.sig.msg.observed
             /\ \E r \in requests : r.coolDown >= MinCoolDown
                                    /\ a.sig.msg.request = Canonical(r)
  <2>1. PICK r \in requests : AttestedFor(a, r)
    BY DEF IInv, AttestInv
  <2>2. a.sig = Sign(a.pub, attestationMessage(r, a.observed)) /\ r.coolDown >= MinCoolDown
    BY <2>1 DEF AttestedFor
  <2>3. a.sig.msg.observed = a.observed /\ a.sig.msg.request = Canonical(r)
    BY <2>2 DEF Sign, attestationMessage
  <2> QED
    BY <2>2, <2>3 DEF IInv, AttestInv
<1> QED
  BY <1>1 DEF TypeOK, IInv, BoundInv

\* A record stands on k different witnesses that served the cool-down.
LEMMA IInvCoolDown == IInv => CoolDownServed
<1> SUFFICES ASSUME IInv, NEW i \in DOMAIN log
             PROVE  LET r == log[i].request
                        inTime == {w \in Witnesses : \E t \in Times :
                            /\ t + Skew[w] \in Earliest(r) .. r.requestedAt + 5 * r.coolDown
                            /\ t <= log[i].executedAt
                            /\ \E a \in attested :
                                  a.sig = Sign(w, attestationMessage(r, t + Skew[w]))}
                    IN  /\ Cardinality(inTime) >= Threshold
                        /\ r.coolDown >= MinCoolDown
                        /\ log[i].executedAt >= Earliest(r)
  BY DEF CoolDownServed
<1> DEFINE r == log[i].request
           at == log[i].executedAt
           atts == log[i].attestations
           InTime(w, t) ==
               /\ t + Skew[w] \in Earliest(r) .. r.requestedAt + 5 * r.coolDown
               /\ t <= at
               /\ \E a \in attested : a.sig = Sign(w, attestationMessage(r, t + Skew[w]))
           inTime == {w \in Witnesses : \E t \in Times : InTime(w, t)}
           f == [j \in 1 .. Threshold |-> atts[j].index]
<1>0. AttestInv /\ LogInv /\ RequestInv
  BY DEF IInv
<1>1. i \in 1 .. Len(log)
  BY <1>0, LenProperties DEF LogInv
<1>2. /\ RecordInv(log[i]) /\ r \in requests /\ r.requestedAt \in Nat /\ r.coolDown \in Nat
      /\ atts \in [1 .. Threshold -> attested]
      /\ \A j \in 1 .. Threshold : atts[j].observed - Skew[atts[j].index] <= at
      /\ Execute(r, atts, at) # {}
  BY <1>0, <1>1 DEF LogInv, RecordInv, RequestInv, Sealed, Request
<1>3. /\ at >= Earliest(r)
      /\ \A j, k \in 1 .. Threshold : atts[j].index = atts[k].index => j = k
      /\ \A j \in 1 .. Threshold :
            /\ atts[j].observed >= Earliest(r)
            /\ atts[j].sig = Sign(atts[j].pub, attestationMessage(r, atts[j].observed))
  BY <1>2, ExecuteIs
<1>4. Earliest(r) \in Int
  BY <1>2 DEF Earliest
<1>5. ASSUME NEW j \in 1 .. Threshold
      PROVE  r.coolDown >= MinCoolDown /\ atts[j].index \in inTime
  <2> DEFINE a == atts[j]
             t == a.observed - Skew[a.index]
  <2>1. a \in attested
    BY <1>2
  <2>2. /\ a.index \in Witnesses /\ a.pub = a.index /\ a.observed \in Int /\ t \in Times
    BY <1>0, <2>1 DEF AttestInv
  <2>3. Skew[a.index] \in Int
    BY <2>2, PhoenixAssumption
  <2>4. t + Skew[a.index] = a.observed
    BY <2>2, <2>3
  <2>5. /\ r.coolDown >= MinCoolDown
        /\ a.observed \in r.requestedAt .. r.requestedAt + 5 * r.coolDown
    BY <1>0, <1>3, <2>1, StatementFits
  <2>6. a.observed \in Earliest(r) .. r.requestedAt + 5 * r.coolDown
    BY <1>3, <1>4, <2>2, <2>5
  <2>7. a.sig = Sign(a.index, attestationMessage(r, a.observed)) /\ t <= at
    BY <1>2, <1>3, <2>2
  <2> HIDE DEF r, at, t
  <2>8. InTime(a.index, t)
    BY <2>1, <2>4, <2>6, <2>7
  <2> HIDE DEF InTime
  <2> QED
    BY <2>2, <2>5, <2>8
<1>6. Cardinality(inTime) >= Threshold
  <2>1. IsFiniteSet(inTime) /\ Threshold \in Nat
    BY PhoenixAssumption, FS_Subset
  <2> HIDE DEF inTime, atts
  <2>2. /\ f \in [1 .. Threshold -> inTime]
        /\ \A j, k \in 1 .. Threshold : f[j] = f[k] => j = k
    BY <1>3, <1>5
  <2> HIDE DEF f
  <2> QED
    BY <2>1, <2>2, CountByList
<1>7. r.coolDown >= MinCoolDown
  BY <1>5, PhoenixAssumption
<1> QED
  BY <1>3, <1>6, <1>7

\* Attestations taken once the window is open are what Execute accepts.
LEMMA IInvWindow == IInv => ElapsedWindowServes
<1> SUFFICES ASSUME IInv, NEW r \in requests, NEW ws \in [1 .. Threshold -> Witnesses],
                    VerifyOperator(r), r.coolDown >= MinCoolDown, now >= Earliest(r),
                    \A i, j \in DOMAIN ws : ws[i] = ws[j] => i = j,
                    \A i \in DOMAIN ws : now + Skew[ws[i]] \in
                        Earliest(r) .. r.requestedAt + 5 * r.coolDown
             PROVE  \E atts \in [1 .. Threshold ->
                          UNION {Attest(r, w, now + Skew[w]) : w \in Witnesses}] :
                        Execute(r, atts, now) # {}
  BY DEF ElapsedWindowServes
<1> DEFINE clock(i) == now + Skew[ws[i]]
           atts == [i \in 1 .. Threshold |->
                      [index |-> ws[i], pub |-> ws[i], observed |-> clock(i),
                       sig |-> Sign(ws[i], attestationMessage(r, clock(i)))]]
<1>1. r.requestedAt \in Nat /\ r.coolDown \in Nat
  BY DEF IInv, RequestInv, Sealed, Request
<1>2. Threshold \in Nat
  BY PhoenixAssumption
<1>3. ASSUME NEW i \in 1 .. Threshold
      PROVE  /\ clock(i) \in r.requestedAt .. r.requestedAt + 5 * r.coolDown
             /\ clock(i) >= Earliest(r)
  BY <1>1 DEF Earliest
<1>4. \A i \in 1 .. Threshold : atts[i] \in Attest(r, ws[i], now + Skew[ws[i]])
  BY <1>3 DEF Attest
<1>5. atts \in [1 .. Threshold -> UNION {Attest(r, w, now + Skew[w]) : w \in Witnesses}]
  BY <1>4
<1>6. /\ \A i, j \in 1 .. Threshold : atts[i].index = atts[j].index => i = j
      /\ \A i \in 1 .. Threshold :
            /\ atts[i].observed >= Earliest(r)
            /\ atts[i].sig = Sign(atts[i].pub, attestationMessage(r, atts[i].observed))
  BY <1>3
<1>7. DOMAIN atts = 1 .. Threshold /\ Len(atts) = Threshold
  BY <1>2
<1>8. Execute(r, atts, now) # {}
  <2> HIDE DEF atts
  <2> QED
    <3>1. Len(atts) >= Threshold
      BY <1>2, <1>7
    <3> QED
      BY <1>6, <1>7, <3>1, Zenon DEF Execute
<1> HIDE DEF atts
<1> QED
  BY <1>5, <1>8

-----------------------------------------------------------------------------
(* What a reader may be given *)

\* The signatures VerifyOperator looks at.
SigsOf(r) == IF r.sigs = << >> THEN r.legacy ELSE r.sigs

\* A request that carries no signature but those of q.
SignedAs(r, q) ==
    /\ DOMAIN SigsOf(r) = 1 .. Len(SigsOf(r)) /\ Len(SigsOf(r)) \in Nat
    /\ \A j \in DOMAIN SigsOf(r) : \E m \in DOMAIN q.sigs : SigsOf(r)[j] = q.sigs[m]

\* A record that carries no signatures but those of one in the log.
Derives(rec, orig) ==
    /\ SignedAs(rec.request, orig.request)
    /\ \A j \in DOMAIN rec.attestations : \E a \in attested :
          a.pub = rec.attestations[j].pub /\ a.sig = rec.attestations[j].sig

\* What the records of the log are.
LEMMA LogRecords ==
    ASSUME RequestInv, LogInv, NEW k \in DOMAIN log
    PROVE  /\ k \in 1 .. Len(log)
           /\ log[k] \in LogRecord /\ log[k].request \in requests
           /\ Sealed(log[k].request) /\ log[k].attestations \in [1 .. Threshold -> attested]
<1>1. log \in Seq(LogRecord) /\ k \in 1 .. Len(log)
  BY LenProperties DEF LogInv
<1>2. log[k] \in LogRecord
  BY <1>1, ElementOfSeq
<1> QED
  BY <1>1, <1>2 DEF LogRecord, RequestInv

\* A sealed request is signed as itself, and so is every request with the
\* same signatures or the first of them twice, or with the legacy ones only.
LEMMA SignedAsSealed ==
    ASSUME NEW q, Sealed(q), NEW r,
           \/ r.sigs = q.sigs
           \/ r.sigs = << >> /\ r.legacy = q.legacy
           \/ r.sigs = <<q.sigs[1], q.sigs[1]>>
    PROVE  SignedAs(r, q)
<1>1. q.sigs \in Seq(OperatorSig) /\ q.sigs # << >> /\ q.legacy \in {<< >>, q.sigs}
  BY DEF Sealed, Request
<1>2. DOMAIN q.sigs = 1 .. Len(q.sigs) /\ Len(q.sigs) \in Nat /\ 1 \in DOMAIN q.sigs
  <2>1. DOMAIN q.sigs = 1 .. Len(q.sigs) /\ Len(q.sigs) \in Nat
    BY <1>1, LenProperties
  <2>2. Len(q.sigs) # 0
    BY <1>1, EmptySeq
  <2> QED
    BY <2>1, <2>2
<1>3. CASE SigsOf(r) = q.sigs
  BY <1>2, <1>3 DEF SignedAs
<1>4. CASE SigsOf(r) = << >>
  BY <1>4 DEF SignedAs
<1>5. CASE SigsOf(r) = <<q.sigs[1], q.sigs[1]>>
  BY <1>2, <1>5 DEF SignedAs
<1>6. \/ SigsOf(r) = q.sigs
      \/ SigsOf(r) = << >>
      \/ SigsOf(r) = <<q.sigs[1], q.sigs[1]>>
  <2>1. CASE r.sigs = q.sigs
    BY <1>1, <2>1 DEF SigsOf
  <2>2. CASE r.sigs = << >> /\ r.legacy = q.legacy
    BY <1>1, <2>2 DEF SigsOf
  <2>3. CASE r.sigs = <<q.sigs[1], q.sigs[1]>>
    <3>1. r.sigs # << >>
      <4>1. \A x, y : <<x, y>> # << >>
        OBVIOUS
      <4> QED
        BY <2>3, <4>1
    <3> QED
      BY <2>3, <3>1 DEF SigsOf
  <2> QED
    BY <2>1, <2>2, <2>3
<1> QED
  BY <1>3, <1>4, <1>5, <1>6

\* Damage adds no signatures.
LEMMA DamageDerives ==
    ASSUME RequestInv, LogInv, NEW k \in DOMAIN log, NEW rec \in Damage(log[k]) \cup {log[k]}
    PROVE  Derives(rec, log[k])
<1> DEFINE r == log[k].request
           a == log[k].attestations
           req(q) == [log[k] EXCEPT !.request = q]
<1>1. /\ log[k] \in LogRecord /\ Sealed(r) /\ r \in Request
      /\ a \in [1 .. Threshold -> attested] /\ 1 \in 1 .. Threshold
  BY LogRecords, PhoenixAssumption DEF Sealed
<1>2. \A q : req(q).request = q /\ req(q).attestations = a
  BY <1>1 DEF LogRecord
<1>3. \A s : [log[k] EXCEPT !.attestations = s].request = r
             /\ [log[k] EXCEPT !.attestations = s].attestations = s
  BY <1>1 DEF LogRecord
<1>4. \A j \in DOMAIN a : \E b \in attested : b.pub = a[j].pub /\ b.sig = a[j].sig
  BY <1>1
<1>5. SignedAs(r, r)
  BY <1>1, SignedAsSealed
<1>6. ASSUME NEW q, rec = req(q),
             \/ q.sigs = r.sigs
             \/ q.sigs = << >> /\ q.legacy = r.legacy
             \/ q.sigs = <<r.sigs[1], r.sigs[1]>>
      PROVE  Derives(rec, log[k])
  <2>1. SignedAs(q, r)
    BY <1>1, <1>6, SignedAsSealed
  <2> QED
    BY <1>2, <1>4, <1>6, <2>1 DEF Derives
<1>7. ASSUME NEW s, rec = [log[k] EXCEPT !.attestations = s],
             \A j \in DOMAIN s : \E m \in DOMAIN a : s[j].pub = a[m].pub /\ s[j].sig = a[m].sig
      PROVE  Derives(rec, log[k])
  BY <1>3, <1>4, <1>5, <1>7 DEF Derives
<1>8. CASE rec = log[k]
  BY <1>4, <1>5, <1>8 DEF Derives
<1>9. CASE \E h \in Hosts \cup {NoHost} : rec = req([r EXCEPT !.old = h])
  <2>1. PICK h \in Hosts \cup {NoHost} : rec = req([r EXCEPT !.old = h])
    BY <1>9
  <2>2. [r EXCEPT !.old = h].sigs = r.sigs
    BY <1>1 DEF Request
  <2> QED
    BY <1>6, <2>1, <2>2
<1>10. CASE \E h \in Hosts : rec = req([r EXCEPT !.new = h])
  <2>1. PICK h \in Hosts : rec = req([r EXCEPT !.new = h])
    BY <1>10
  <2>2. [r EXCEPT !.new = h].sigs = r.sigs
    BY <1>1 DEF Request
  <2> QED
    BY <1>6, <2>1, <2>2
<1>11. CASE rec \in {req([r EXCEPT !.coolDown = 0]), req([r EXCEPT !.requestedAt = 0])}
  <2>1. [r EXCEPT !.coolDown = 0].sigs = r.sigs /\ [r EXCEPT !.requestedAt = 0].sigs = r.sigs
    BY <1>1 DEF Request
  <2> QED
    BY <1>6, <1>11, <2>1
<1>12. CASE rec \in {req([r EXCEPT !.sigs = << >>]), req([r EXCEPT !.sigs = <<@[1], @[1]>>])}
  <2>1. /\ [r EXCEPT !.sigs = << >>].sigs = << >>
        /\ [r EXCEPT !.sigs = << >>].legacy = r.legacy
        /\ [r EXCEPT !.sigs = <<@[1], @[1]>>].sigs = <<r.sigs[1], r.sigs[1]>>
    BY <1>1 DEF Request
  <2> QED
    BY <1>6, <1>12, <2>1
<1>13. CASE \E s \in {<<a[1]>>, <<a[1], a[1]>>, [a EXCEPT ![1].observed = @ + 1]} :
              rec = [log[k] EXCEPT !.attestations = s]
  <2>1. PICK s \in {<<a[1]>>, <<a[1], a[1]>>, [a EXCEPT ![1].observed = @ + 1]} :
            rec = [log[k] EXCEPT !.attestations = s]
    BY <1>13
  <2>2. \A j \in DOMAIN s : \E m \in DOMAIN a : s[j].pub = a[m].pub /\ s[j].sig = a[m].sig
    <3>0. 1 \in DOMAIN a
      BY <1>1
    <3>1. CASE s = <<a[1]>>
      <4>1. DOMAIN s = 1 .. 1 /\ s[1] = a[1]
        BY <3>1
      <4>2. \A j \in DOMAIN s : s[j] = a[1]
        BY <4>1
      <4> QED
        BY <3>0, <4>2
    <3>2. CASE s = <<a[1], a[1]>>
      <4>1. DOMAIN s = 1 .. 2 /\ s[1] = a[1] /\ s[2] = a[1]
        BY <3>2
      <4>2. \A j \in DOMAIN s : s[j] = a[1]
        BY <4>1
      <4> QED
        BY <3>0, <4>2
    <3>3. CASE s = [a EXCEPT ![1].observed = @ + 1]
      BY <1>1, <3>3
    <3> QED
      BY <2>1, <3>1, <3>2, <3>3
  <2> QED
    BY <1>7, <2>1, <2>2
<1>14. CASE \E w \in Witnesses : rec = [log[k] EXCEPT !.attestations[1].index = w]
  <2>1. PICK w \in Witnesses : rec = [log[k] EXCEPT !.attestations[1].index = w]
    BY <1>14
  <2> DEFINE s == [a EXCEPT ![1].index = w]
  <2>2. rec = [log[k] EXCEPT !.attestations = s]
    BY <1>1, <2>1 DEF LogRecord
  <2>3. \A j \in DOMAIN s : \E m \in DOMAIN a : s[j].pub = a[m].pub /\ s[j].sig = a[m].sig
    BY <1>1
  <2> HIDE DEF s
  <2> QED
    BY <1>7, <2>2, <2>3
<1>15. CASE rec = [log[k] EXCEPT !.executedAt = 0]
  <2>1. rec.request = r /\ rec.attestations = a
    BY <1>1, <1>15 DEF LogRecord
  <2> QED
    BY <1>4, <1>5, <2>1 DEF Derives
<1> QED
  BY <1>8, <1>9, <1>10, <1>11, <1>12, <1>13, <1>14, <1>15 DEF Damage

\* A part of the log.
LEMMA Part ==
    ASSUME LogInv, NEW m \in 1 .. Len(log) + 1, NEW n \in 0 .. Len(log), m <= n + 1
    PROVE  /\ SubSeq(log, m, n) \in Seq(LogRecord)
           /\ Len(SubSeq(log, m, n)) = n - m + 1
           /\ \A i \in 1 .. n - m + 1 : SubSeq(log, m, n)[i] = log[m + i - 1]
<1>1. log \in Seq(LogRecord) /\ Len(log) \in Nat
  BY LenProperties DEF LogInv
<1>2. m \in Int /\ n \in Int
  BY <1>1
<1>3. \A i \in m .. n : log[i] \in LogRecord
  BY <1>1, ElementOfSeq
<1>4. /\ SubSeq(log, m, n) \in Seq(LogRecord)
      /\ Len(SubSeq(log, m, n)) = IF m <= n THEN n - m + 1 ELSE 0
      /\ \A i \in 1 .. n - m + 1 : SubSeq(log, m, n)[i] = log[m + i - 1]
  BY <1>2, <1>3, SubSeqProperties
<1> QED
  BY <1>2, <1>4

\* The first a records of the log and those from b on, as a reader gets them
\* when a record is lost (b = a + 2) or repeated (b = a).
LEMMA Splice ==
    ASSUME LogInv, NEW a \in 0 .. Len(log), NEW b \in 1 .. Len(log) + 1, NEW l,
           l = SubSeq(log, 1, a) \o SubSeq(log, b, Len(log))
    PROVE  /\ DOMAIN l = 1 .. Len(l) /\ Len(l) = a + (Len(log) - b + 1)
           /\ \A i \in 1 .. a : l[i] = log[i]
           /\ \A i \in a + 1 .. Len(l) : l[i] = log[i - a + b - 1]
<1>1. Len(log) \in Nat
  BY LenProperties DEF LogInv
<1>2. PICK n \in Nat : n = Len(log)
  BY <1>1
<1> DEFINE s == SubSeq(log, 1, a)
           t == SubSeq(log, b, n)
<1>3. s \in Seq(LogRecord) /\ Len(s) = a /\ \A i \in 1 .. a : s[i] = log[i]
  BY <1>2, Seen
<1>4. t \in Seq(LogRecord) /\ Len(t) = n - b + 1 /\ \A i \in 1 .. n - b + 1 : t[i] = log[b + i - 1]
  BY <1>2, Part
<1> HIDE DEF s, t
<1>5. /\ s \o t \in Seq(LogRecord) /\ Len(s \o t) = Len(s) + Len(t)
      /\ \A i \in 1 .. Len(s) + Len(t) :
            (s \o t)[i] = IF i <= Len(s) THEN s[i] ELSE t[i - Len(s)]
  BY <1>3, <1>4, ConcatProperties
<1>6. l = s \o t
  BY <1>2 DEF s, t
<1>7. a \in Nat /\ b \in Int /\ n - b + 1 \in Nat
  BY <1>2
<1>8. DOMAIN l = 1 .. Len(l) /\ Len(l) = a + (n - b + 1)
  BY <1>3, <1>4, <1>5, <1>6, LenProperties
<1>9. ASSUME NEW i \in 1 .. a PROVE l[i] = log[i]
  <2>1. i \in 1 .. Len(s) + Len(t) /\ i <= Len(s)
    BY <1>3, <1>4, <1>7
  <2> QED
    BY <1>3, <1>5, <1>6, <2>1
<1>10. ASSUME NEW i \in a + 1 .. Len(l) PROVE l[i] = log[i - a + b - 1]
  <2>1. i \in 1 .. a + (n - b + 1) /\ ~(i <= a) /\ i - a \in 1 .. n - b + 1
    <3>1. i \in a + 1 .. a + (n - b + 1)
      BY <1>8
    <3>2. PICK m \in Nat : m = n - b + 1
      BY <1>7
    <3>3. i \in 1 .. a + m /\ ~(i <= a) /\ i - a \in 1 .. m
      BY <1>7, <3>1, <3>2
    <3> QED
      BY <3>2, <3>3
  <2>2. l[i] = t[i - a]
    BY <1>3, <1>4, <1>5, <1>6, <2>1
  <2>3. t[i - a] = log[b + (i - a) - 1]
    BY <1>4, <2>1
  <2>4. b + (i - a) - 1 = i - a + b - 1
    BY <1>2, <2>1
  <2> QED
    BY <2>2, <2>3, <2>4
<1> QED
  BY <1>2, <1>8, <1>9, <1>10

\* What is left when x - 1 elements and those from x + 1 on are kept.
LEMMA OneLess ==
    ASSUME NEW x \in Int, NEW y \in Int, NEW a, NEW b, a = x - 1, b = x + 1
    PROVE  a + (y - b + 1) = y - 1
OBVIOUS

\* The log without one record.
LEMMA WithoutOne ==
    ASSUME LogInv, NEW k \in DOMAIN log, NEW l,
           l = SubSeq(log, 1, k - 1) \o SubSeq(log, k + 1, Len(log))
    PROVE  /\ DOMAIN l = 1 .. Len(l) /\ Len(l) = Len(log) - 1
           /\ \A i \in 1 .. k - 1 : l[i] = log[i]
           /\ \A i \in k .. Len(l) : l[i] = log[i + 1]
<1>1. Len(log) \in Nat /\ k \in 1 .. Len(log)
  BY LenProperties DEF LogInv
<1>2. PICK a \in 0 .. Len(log), b \in 1 .. Len(log) + 1 : a = k - 1 /\ b = k + 1
  BY <1>1
<1>3. /\ DOMAIN l = 1 .. Len(l) /\ Len(l) = a + (Len(log) - b + 1)
      /\ \A i \in 1 .. a : l[i] = log[i]
      /\ \A i \in a + 1 .. Len(l) : l[i] = log[i - a + b - 1]
  <2>1. l = SubSeq(log, 1, a) \o SubSeq(log, b, Len(log))
    BY <1>2
  <2> QED
    BY <1>2, <2>1, Splice, SMTT(30)
<1>4. Len(l) = Len(log) - 1
  <2>1. PICK n \in Nat : n = Len(log)
    BY <1>1
  <2>2. Len(l) = a + (n - b + 1)
    BY <1>3, <2>1
  <2>3. a = k - 1 /\ b = k + 1 /\ k \in Int
    BY <1>1, <1>2
  <2>4. a + (n - b + 1) = n - 1
    BY <2>1, <2>3, OneLess
  <2> QED
    BY <2>1, <2>2, <2>4
<1>5. ASSUME NEW i \in k .. Len(l) PROVE l[i] = log[i + 1]
  <2>1. i \in a + 1 .. Len(l) /\ i - a + b - 1 = i + 1
    BY <1>1, <1>2, <1>4
  <2> QED
    BY <1>3, <2>1
<1> QED
  BY <1>2, <1>3, <1>4, <1>5

\* The log with one record twice.
LEMMA WithOneTwice ==
    ASSUME LogInv, NEW k \in DOMAIN log, NEW l,
           l = SubSeq(log, 1, k) \o SubSeq(log, k, Len(log))
    PROVE  /\ DOMAIN l = 1 .. Len(l) /\ Len(l) = Len(log) + 1
           /\ \A i \in 1 .. k : l[i] = log[i]
           /\ \A i \in k + 1 .. Len(l) : l[i] = log[i - 1]
<1>1. Len(log) \in Nat /\ k \in 1 .. Len(log)
  BY LenProperties DEF LogInv
<1>2. PICK a \in 0 .. Len(log), b \in 1 .. Len(log) + 1 : a = k /\ b = k
  BY <1>1
<1>3. /\ DOMAIN l = 1 .. Len(l) /\ Len(l) = a + (Len(log) - b + 1)
      /\ \A i \in 1 .. a : l[i] = log[i]
      /\ \A i \in a + 1 .. Len(l) : l[i] = log[i - a + b - 1]
  <2>1. l = SubSeq(log, 1, a) \o SubSeq(log, b, Len(log))
    BY <1>2
  <2> QED
    BY <1>2, <2>1, Splice, SMTT(30)
<1>4. Len(l) = Len(log) + 1
  BY <1>1, <1>2, <1>3
<1>5. ASSUME NEW i \in k + 1 .. Len(l) PROVE l[i] = log[i - 1]
  <2>1. i \in a + 1 .. Len(l) /\ i - a + b - 1 = i - 1
    BY <1>1, <1>2, <1>4
  <2> QED
    BY <1>3, <2>1
<1> QED
  BY <1>2, <1>3, <1>4, <1>5

\* The log with one record replaced.
LEMMA Replaced ==
    ASSUME LogInv, NEW k \in DOMAIN log, NEW rec, NEW l, l = [log EXCEPT ![k] = rec]
    PROVE  /\ DOMAIN l = 1 .. Len(l) /\ Len(l) = Len(log)
           /\ l[k] = rec /\ \A i \in DOMAIN l : i # k => l[i] = log[i]
<1>1. log \in Seq(LogRecord) /\ Len(log) \in Nat /\ DOMAIN log = 1 .. Len(log)
  BY LenProperties DEF LogInv
<1> DEFINE S == LogRecord \cup {rec}
<1>2. LogRecord \subseteq S /\ rec \in S
  OBVIOUS
<1> HIDE DEF S
<1>3. log \in Seq(S)
  BY <1>1, <1>2, SeqMonotonic
<1>4. l \in Seq(S) /\ Len(l) = Len(log)
  BY <1>1, <1>2, <1>3, ExceptSeq
<1>5. DOMAIN l = 1 .. Len(l)
  BY <1>4, LenProperties
<1> QED
  BY <1>1, <1>4, <1>5

\* The log with two neighbours exchanged.
LEMMA Exchanged ==
    ASSUME LogInv, NEW k \in 1 .. Len(log) - 1, NEW l,
           l = [log EXCEPT ![k] = log[k+1], ![k+1] = log[k]]
    PROVE  /\ DOMAIN l = DOMAIN log /\ l[k] = log[k+1] /\ l[k+1] = log[k]
           /\ \A i \in DOMAIN l : i # k /\ i # k + 1 => l[i] = log[i]
<1>1. Len(log) \in Nat /\ DOMAIN log = 1 .. Len(log)
  BY LenProperties DEF LogInv
<1>2. k \in DOMAIN log /\ k + 1 \in DOMAIN log /\ k # k + 1
  BY <1>1
<1> QED
  BY <1>2

\* The five kinds of reading.
LEMMA ReadingCases ==
    ASSUME NEW l \in Readings(log)
    PROVE  \/ \E m \in 0 .. Len(log) : l = SubSeq(log, 1, m)
           \/ \E k \in DOMAIN log : \E rec \in Damage(log[k]) : l = [log EXCEPT ![k] = rec]
           \/ \E k \in DOMAIN log : l = SubSeq(log, 1, k - 1) \o SubSeq(log, k + 1, Len(log))
           \/ \E k \in DOMAIN log : l = SubSeq(log, 1, k) \o SubSeq(log, k, Len(log))
           \/ \E k \in 1 .. Len(log) - 1 : l = [log EXCEPT ![k] = log[k+1], ![k+1] = log[k]]
BY Zenon DEF Readings

\* Every record a reader is given is signed as one of the log's.
LEMMA ReadingsDerive ==
    ASSUME RequestInv, LogInv, NEW l \in Readings(log), NEW i \in DOMAIN l
    PROVE  \E k \in DOMAIN log : Derives(l[i], log[k])
<1>1. Len(log) \in Nat /\ DOMAIN log = 1 .. Len(log)
  BY LenProperties DEF LogInv
<1>2. \A k \in DOMAIN log : Derives(log[k], log[k])
  BY DamageDerives
<1>3. PICK n \in Nat : n = Len(log)
  BY <1>1
<1>4. CASE \E m \in 0 .. Len(log) : l = SubSeq(log, 1, m)
  <2>1. PICK m \in 0 .. Len(log) : l = SubSeq(log, 1, m)
    BY <1>4
  <2>2. l \in Seq(LogRecord) /\ Len(l) = m /\ \A j \in 1 .. m : l[j] = log[j]
    BY <2>1, Seen
  <2>3. i \in 1 .. m
    BY <2>2, LenProperties
  <2> QED
    BY <1>1, <1>2, <1>3, <2>2, <2>3
<1>5. CASE \E k \in DOMAIN log : \E rec \in Damage(log[k]) : l = [log EXCEPT ![k] = rec]
  <2>0. PICK k \in DOMAIN log : \E rec \in Damage(log[k]) : l = [log EXCEPT ![k] = rec]
    BY <1>5
  <2>1. PICK rec \in Damage(log[k]) : l = [log EXCEPT ![k] = rec]
    BY <2>0
  <2>2. DOMAIN l = DOMAIN log /\ l[k] = rec /\ \A j \in DOMAIN l : j # k => l[j] = log[j]
    BY <1>1, <2>1, Replaced
  <2>3. Derives(rec, log[k])
    BY <2>1, DamageDerives
  <2> QED
    BY <1>2, <2>2, <2>3
<1>6. CASE \E k \in DOMAIN log : l = SubSeq(log, 1, k - 1) \o SubSeq(log, k + 1, Len(log))
  <2>1. PICK k \in DOMAIN log : l = SubSeq(log, 1, k - 1) \o SubSeq(log, k + 1, Len(log))
    BY <1>6
  <2>2. k - 1 \in 0 .. Len(log) /\ k + 1 \in 1 .. Len(log) + 1 /\ k \in 1 .. n
    BY <1>1, <1>3
  <2>3. /\ DOMAIN l = 1 .. Len(l) /\ Len(l) = n - 1
        /\ \A j \in 1 .. k - 1 : l[j] = log[j]
        /\ \A j \in k .. Len(l) : l[j] = log[j + 1]
    BY <1>3, <2>1, WithoutOne
  <2>4. CASE i \in 1 .. k - 1
    BY <1>1, <1>2, <1>3, <2>2, <2>3, <2>4
  <2>5. CASE i \notin 1 .. k - 1
    <3>1. i \in k .. Len(l) /\ i + 1 \in 1 .. n
      BY <2>2, <2>3, <2>5
    <3> QED
      BY <1>1, <1>2, <1>3, <2>3, <3>1
  <2> QED
    BY <2>4, <2>5
<1>7. CASE \E k \in DOMAIN log : l = SubSeq(log, 1, k) \o SubSeq(log, k, Len(log))
  <2>1. PICK k \in DOMAIN log : l = SubSeq(log, 1, k) \o SubSeq(log, k, Len(log))
    BY <1>7
  <2>2. k \in 0 .. Len(log) /\ k \in 1 .. Len(log) + 1 /\ k \in 1 .. n
    BY <1>1, <1>3
  <2>3. /\ DOMAIN l = 1 .. Len(l) /\ Len(l) = n + 1
        /\ \A j \in 1 .. k : l[j] = log[j]
        /\ \A j \in k + 1 .. Len(l) : l[j] = log[j - 1]
    BY <1>3, <2>1, WithOneTwice
  <2>4. CASE i \in 1 .. k
    BY <1>1, <1>2, <1>3, <2>2, <2>3, <2>4
  <2>5. CASE i \notin 1 .. k
    <3>1. i \in k + 1 .. Len(l) /\ i - 1 \in 1 .. n
      BY <2>2, <2>3, <2>5
    <3> QED
      BY <1>1, <1>2, <1>3, <2>3, <3>1
  <2> QED
    BY <2>4, <2>5
<1>8. CASE \E k \in 1 .. Len(log) - 1 : l = [log EXCEPT ![k] = log[k+1], ![k+1] = log[k]]
  <2>1. PICK k \in 1 .. Len(log) - 1 : l = [log EXCEPT ![k] = log[k+1], ![k+1] = log[k]]
    BY <1>8
  <2>2. /\ DOMAIN l = DOMAIN log /\ l[k] = log[k+1] /\ l[k+1] = log[k]
        /\ \A j \in DOMAIN l : j # k /\ j # k + 1 => l[j] = log[j]
    BY <2>1, Exchanged
  <2>3. k \in DOMAIN log /\ k + 1 \in DOMAIN log
    BY <1>1
  <2> QED
    BY <1>2, <2>2, <2>3
<1> QED
  BY <1>4, <1>5, <1>6, <1>7, <1>8, ReadingCases

\* A request that verifies with the signatures of a sealed one is that one
\* but for its signatures, and M pinned operators sealed it.
LEMMA VerifiedRequest ==
    ASSUME NEW r, NEW q, Sealed(q), SignedAs(r, q), VerifyOperator(r)
    PROVE  /\ q.new = r.new /\ q.old = r.old
           /\ q.requestedAt = r.requestedAt /\ q.coolDown = r.coolDown
           /\ Cardinality({o \in Pinned :
                 \E j \in DOMAIN q.sigs : q.sigs[j].key = o}) >= OpThreshold
<1> DEFINE s == SigsOf(r)
           signers == {o \in Pinned : \E j \in DOMAIN q.sigs : q.sigs[j].key = o}
           f == [j \in 1 .. OpThreshold |-> s[j].key]
<1>1. /\ Len(s) >= OpThreshold
      /\ \A i, j \in DOMAIN s : s[i].key = s[j].key => i = j
      /\ \A i \in DOMAIN s : s[i].key \in Pinned /\ s[i] = Sign(s[i].key, Canonical(r))
  BY DEF VerifyOperator, SigsOf
<1> HIDE DEF s
<1>2. /\ DOMAIN s = 1 .. Len(s) /\ Len(s) \in Nat
      /\ \A j \in DOMAIN s : \E m \in DOMAIN q.sigs : s[j] = q.sigs[m]
  BY DEF SignedAs, s
<1>3. OpThreshold \in Nat /\ 1 \in 1 .. OpThreshold
  BY PhoenixAssumption
<1>4. \A j \in 1 .. OpThreshold : j \in DOMAIN s
  BY <1>1, <1>2, <1>3
<1>5. Canonical(q) = Canonical(r)
  <2>1. PICK m \in DOMAIN q.sigs : s[1] = q.sigs[m]
    BY <1>2, <1>3, <1>4
  <2>2. q.sigs[m].msg = Canonical(q)
    BY DEF Sealed
  <2>3. s[1].msg = Canonical(r)
    BY <1>1, <1>3, <1>4 DEF Sign
  <2> QED
    BY <2>1, <2>2, <2>3
<1>6. IsFiniteSet(signers)
  BY PhoenixAssumption, FS_Subset
<1>7. /\ f \in [1 .. OpThreshold -> signers]
      /\ \A i, j \in 1 .. OpThreshold : f[i] = f[j] => i = j
  <2>1. \A j \in 1 .. OpThreshold : s[j].key \in signers
    BY <1>1, <1>2, <1>4
  <2> HIDE DEF signers
  <2> QED
    BY <1>1, <1>4, <2>1
<1>8. Cardinality(signers) >= OpThreshold
  <2> HIDE DEF signers, f
  <2> QED
    BY <1>3, <1>6, <1>7, CountByList
<1> QED
  BY <1>5, <1>8, SameCanonical

\* What a log that verifies tells has happened.
LEMMA IInvAuthentic == IInv => LineageIsAuthentic
<1> SUFFICES ASSUME IInv, NEW l \in Readings(log), VerifyLineage(l), NEW i \in DOMAIN l
             PROVE  /\ \E q \in requests :
                          /\ q.new = l[i].request.new /\ q.old = l[i].request.old
                          /\ q.requestedAt = l[i].request.requestedAt
                          /\ q.coolDown = l[i].request.coolDown
                          /\ Cardinality({o \in Pinned :
                                \E j \in DOMAIN q.sigs : q.sigs[j].key = o}) >= OpThreshold
                    /\ \A j \in DOMAIN l[i].attestations : \E a \in attested :
                          /\ a.pub = l[i].attestations[j].pub
                          /\ a.sig = l[i].attestations[j].sig
  BY DEF LineageIsAuthentic
<1>0. RequestInv /\ LogInv
  BY DEF IInv
<1>1. PICK k \in DOMAIN log : Derives(l[i], log[k])
  BY <1>0, ReadingsDerive
<1>2. log[k].request \in requests /\ Sealed(log[k].request)
  BY <1>0, LogRecords
<1>3. VerifyOperator(l[i].request)
  BY DEF VerifyLineage, RecordOK
<1>4. SignedAs(l[i].request, log[k].request)
  BY <1>1 DEF Derives
<1>5. \A j \in DOMAIN l[i].attestations : \E a \in attested :
          a.pub = l[i].attestations[j].pub /\ a.sig = l[i].attestations[j].sig
  BY <1>1 DEF Derives
<1> QED
  <2> DEFINE q == log[k].request
             r == l[i].request
  <2>1. /\ q.new = r.new /\ q.old = r.old
        /\ q.requestedAt = r.requestedAt /\ q.coolDown = r.coolDown
        /\ Cardinality({o \in Pinned :
              \E j \in DOMAIN q.sigs : q.sigs[j].key = o}) >= OpThreshold
    <3> HIDE DEF q, r
    <3> QED
      BY <1>2, <1>3, <1>4, VerifiedRequest DEF q, r
  <2> QED
    BY <1>2, <1>5, <2>1

\* A reading that names the first hosts of the log, in their order.
LEMMA PrefixHosts ==
    ASSUME RequestInv, LogInv, NEW l, NEW n \in 0 .. Len(log), DOMAIN l = 1 .. n, Len(l) = n,
           \A i \in 1 .. n : l[i].request.new = log[i].request.new
    PROVE  Len(l) <= Len(log) /\ HostsOf(l) = SubSeq(HostsOf(log), 1, Len(l))
<1> DEFINE hs == HostsOf(log)
           t == SubSeq(hs, 1, n)
<1>1. Len(log) \in Nat /\ DOMAIN log = 1 .. Len(log)
  BY LenProperties DEF LogInv
<1>2. \A i \in 1 .. n : hs[i] = log[i].request.new /\ hs[i] \in Hosts
  BY <1>1, HostsAreHosts DEF HostsOf
<1>3. n \in Int /\ 1 \in Int /\ n \in Nat
  BY <1>1
<1> HIDE DEF hs
<1>4. /\ t \in Seq(Hosts) /\ Len(t) = IF 1 <= n THEN n - 1 + 1 ELSE 0
      /\ \A i \in 1 .. n - 1 + 1 : t[i] = hs[1 + i - 1]
  BY <1>2, <1>3, SubSeqProperties
<1>5. Len(t) = n /\ \A i \in 1 .. n : t[i] = hs[i]
  BY <1>3, <1>4
<1> HIDE DEF t
<1>6. DOMAIN t = 1 .. n /\ t = [i \in 1 .. n |-> t[i]]
  BY <1>4, <1>5, LenProperties
<1>7. HostsOf(l) = [i \in 1 .. n |-> t[i]]
  BY <1>2, <1>5 DEF HostsOf
<1> QED
  BY <1>1, <1>6, <1>7 DEF t, hs

\* In a log that verifies every record replaces the host before it, which is
\* another one.
LEMMA Linked ==
    ASSUME RequestInv, LogInv, HostInv, VerifyLineage(log), NEW k \in DOMAIN log
    PROVE  log[k].request.old = HostAt(k - 1) /\ HostAt(k) # HostAt(k - 1)
<1>1. k \in 1 .. Len(log) /\ Len(log) \in Nat
  BY LenProperties DEF LogInv
<1>2. log[k].request.old = HostAt(k - 1)
  BY <1>1 DEF VerifyLineage, HostAt
<1>3. HostAt(k) # HostAt(k - 1)
  <2>1. CASE k = 1
    BY <1>1, <2>1, HostsAreHosts, PhoenixAssumption DEF HostAt
  <2>2. CASE k # 1
    <3>1. k - 1 \in 1 .. Len(log) /\ k # k - 1
      BY <1>1, <2>2
    <3> QED
      BY <1>1, <3>1 DEF HostInv, DistinctHosts
  <2> QED
    BY <2>1, <2>2
<1> QED
  BY <1>2, <1>3

\* A reading that agrees with the log before k and verifies names at k the
\* host the log has there as its old one.
LEMMA LinkedReading ==
    ASSUME NEW l, VerifyLineage(l), NEW k \in DOMAIN l, k \in Nat \ {0},
           \A i \in 1 .. k - 1 : l[i] = log[i]
    PROVE  l[k].request.old = HostAt(k - 1)
<1>1. l[k].request.old = IF k = 1 THEN NoHost ELSE l[k-1].request.new
  BY DEF VerifyLineage
<1>2. k # 1 => l[k-1] = log[k-1]
  OBVIOUS
<1> QED
  BY <1>1, <1>2 DEF HostAt

\* The hosts of a log that verifies, and of its readings that do.
LEMMA IInvOnce == IInv => RebirthOnce
<1> SUFFICES ASSUME IInv, VerifyLineage(log)
             PROVE  /\ \A i, j \in DOMAIN log : HostsOf(log)[i] = HostsOf(log)[j] => i = j
                    /\ \A l \in Readings(log) : VerifyLineage(l) =>
                          Len(l) <= Len(log) /\ HostsOf(l) = SubSeq(HostsOf(log), 1, Len(l))
  BY DEF RebirthOnce
<1>0. RequestInv /\ LogInv /\ HostInv
  BY DEF IInv
<1>1. Len(log) \in Nat /\ DOMAIN log = 1 .. Len(log)
  BY <1>0, LenProperties DEF LogInv
<1>2. \A i, j \in DOMAIN log : HostsOf(log)[i] = HostsOf(log)[j] => i = j
  BY <1>0, <1>1 DEF HostInv, DistinctHosts, HostAt, HostsOf
<1>3. PICK n \in Nat : n = Len(log)
  BY <1>1
<1>4. ASSUME NEW l \in Readings(log), VerifyLineage(l)
      PROVE  \E m \in 0 .. n : /\ DOMAIN l = 1 .. m /\ Len(l) = m
                               /\ \A i \in 1 .. m : l[i].request.new = log[i].request.new
  <2>1. CASE \E m \in 0 .. Len(log) : l = SubSeq(log, 1, m)
    <3>1. PICK m \in 0 .. Len(log) : l = SubSeq(log, 1, m)
      BY <2>1
    <3>2. l \in Seq(LogRecord) /\ Len(l) = m /\ \A j \in 1 .. m : l[j] = log[j]
      BY <1>0, <3>1, Seen
    <3>3. DOMAIN l = 1 .. m
      BY <3>2, LenProperties
    <3> QED
      BY <1>3, <3>2, <3>3
  <2>2. CASE \E k \in DOMAIN log : \E rec \in Damage(log[k]) : l = [log EXCEPT ![k] = rec]
    <3>0. PICK k \in DOMAIN log : \E rec \in Damage(log[k]) : l = [log EXCEPT ![k] = rec]
      BY <2>2
    <3>1. PICK rec \in Damage(log[k]) : l = [log EXCEPT ![k] = rec]
      BY <3>0
    <3>2. /\ DOMAIN l = 1 .. n /\ Len(l) = n /\ l[k] = rec
          /\ \A j \in DOMAIN l : j # k => l[j] = log[j]
      BY <1>0, <1>3, <3>1, Replaced
    <3>3. SignedAs(rec.request, log[k].request) /\ Sealed(log[k].request)
      BY <1>0, <3>1, DamageDerives, LogRecords DEF Derives
    <3>4. VerifyOperator(rec.request)
      BY <1>1, <1>3, <1>4, <3>2 DEF VerifyLineage, RecordOK
    <3>5. log[k].request.new = rec.request.new
      BY <3>3, <3>4, VerifiedRequest
    <3>6. \A i \in 1 .. n : l[i].request.new = log[i].request.new
      BY <3>2, <3>5
    <3> QED
      BY <3>2, <3>6
  <2>3. CASE \E k \in DOMAIN log : l = SubSeq(log, 1, k - 1) \o SubSeq(log, k + 1, Len(log))
    <3>1. PICK k \in DOMAIN log : l = SubSeq(log, 1, k - 1) \o SubSeq(log, k + 1, Len(log))
      BY <2>3
    <3>2. /\ DOMAIN l = 1 .. Len(l) /\ Len(l) = n - 1
          /\ \A i \in 1 .. k - 1 : l[i] = log[i]
          /\ \A i \in k .. Len(l) : l[i] = log[i + 1]
      BY <1>0, <1>3, <3>1, WithoutOne
    <3>3. k \in 1 .. n
      BY <1>1, <1>3
    <3>4. CASE k = n
      <4>1. n - 1 \in 0 .. n /\ DOMAIN l = 1 .. n - 1
        BY <3>2, <3>3
      <4> QED
        BY <3>2, <3>4, <4>1
    <3>5. CASE k # n
      <4>1. k \in DOMAIN l /\ k \in Nat \ {0} /\ k \in k .. Len(l) /\ k + 1 \in DOMAIN log
        BY <1>1, <1>3, <3>2, <3>3, <3>5
      <4>2. l[k].request.old = HostAt(k - 1)
        BY <1>4, <3>2, <4>1, LinkedReading
      <4>3. log[k+1].request.old = HostAt((k + 1) - 1)
        BY <1>0, <4>1, Linked
      <4>4. l[k] = log[k+1] /\ (k + 1) - 1 = k
        BY <3>2, <4>1
      <4>5. HostAt(k) # HostAt(k - 1)
        BY <1>0, Linked
      <4> QED
        BY <4>2, <4>3, <4>4, <4>5
    <3> QED
      BY <3>4, <3>5
  <2>4. CASE \E k \in DOMAIN log : l = SubSeq(log, 1, k) \o SubSeq(log, k, Len(log))
    <3>1. PICK k \in DOMAIN log : l = SubSeq(log, 1, k) \o SubSeq(log, k, Len(log))
      BY <2>4
    <3>2. /\ DOMAIN l = 1 .. Len(l) /\ Len(l) = n + 1
          /\ \A i \in 1 .. k : l[i] = log[i]
          /\ \A i \in k + 1 .. Len(l) : l[i] = log[i - 1]
      BY <1>0, <1>3, <3>1, WithOneTwice
    <3>3. k \in 1 .. n
      BY <1>1, <1>3
    <3>4. /\ k + 1 \in DOMAIN l /\ k + 1 \in Nat \ {0} /\ k + 1 \in k + 1 .. Len(l)
          /\ (k + 1) - 1 = k /\ \A i \in 1 .. (k + 1) - 1 : l[i] = log[i]
      BY <3>2, <3>3
    <3>5. l[k + 1].request.old = HostAt((k + 1) - 1)
      BY <1>4, <3>4, LinkedReading
    <3>6. l[k + 1] = log[k]
      BY <3>2, <3>4
    <3>7. log[k].request.old = HostAt(k - 1) /\ HostAt(k) # HostAt(k - 1)
      BY <1>0, Linked
    <3> QED
      BY <3>4, <3>5, <3>6, <3>7
  <2>5. CASE \E k \in 1 .. Len(log) - 1 : l = [log EXCEPT ![k] = log[k+1], ![k+1] = log[k]]
    <3>1. PICK k \in 1 .. Len(log) - 1 : l = [log EXCEPT ![k] = log[k+1], ![k+1] = log[k]]
      BY <2>5
    <3>2. /\ DOMAIN l = DOMAIN log /\ l[k] = log[k+1] /\ l[k+1] = log[k]
          /\ \A j \in DOMAIN l : j # k /\ j # k + 1 => l[j] = log[j]
      BY <1>0, <3>1, Exchanged
    <3>3. /\ k \in DOMAIN log /\ k + 1 \in DOMAIN log /\ k \in Nat \ {0} /\ (k + 1) - 1 = k
          /\ \A i \in 1 .. k - 1 : i \in DOMAIN log /\ i # k /\ i # k + 1
      BY <1>1, <3>1
    <3>4. l[k].request.old = HostAt(k - 1)
      BY <1>4, <3>2, <3>3, LinkedReading
    <3>5. log[k+1].request.old = HostAt((k + 1) - 1)
      BY <1>0, <3>3, Linked
    <3>6. HostAt(k) # HostAt(k - 1)
      BY <1>0, <3>3, Linked
    <3> QED
      BY <3>2, <3>3, <3>4, <3>5, <3>6
  <2> QED
    BY <2>1, <2>2, <2>3, <2>4, <2>5, ReadingCases
<1>5. \A l \in Readings(log) : VerifyLineage(l) =>
          Len(l) <= Len(log) /\ HostsOf(l) = SubSeq(HostsOf(log), 1, Len(l))
  BY <1>0, <1>3, <1>4, PrefixHosts
<1> QED
  BY <1>2, <1>5

-----------------------------------------------------------------------------
(* The theorems *)

\* The bounds hold, and witnesses attest only requests with enough pinned
\* signers and at least the floor of the cool-down (Attest's checks).
THEOREM PhoenixTypes == Spec => []TypeOK
BY AlwaysIInv, IInvTypes, PTL

\* No rebirth before its cool-down, whatever attestations the control plane
\* submits and whatever the witnesses' clocks show (Attest and Execute).
THEOREM NoRebirthBeforeCoolDown == Spec => []CoolDownServed
BY AlwaysIInv, IInvCoolDown, PTL

\* A lineage that VerifyLineage accepts tells only what happened, whatever
\* the store did to the log.
THEOREM LineageTellsTheTruth == Spec => []LineageIsAuthentic
BY AlwaysIInv, IInvAuthentic, PTL

\* A host enters a lineage that verifies once, and no reading of it that
\* VerifyLineage accepts tells another history: it is at most cut short.
THEOREM HistoryIsNotRewritten == Spec => []RebirthOnce
BY AlwaysIInv, IInvOnce, PTL

\* A request whose cool-down is over by k fast enough clocks is always
\* servable: Attest and Execute leave no gap between their windows.
THEOREM WindowsMeet == Spec => []ElapsedWindowServes
BY AlwaysIInv, IInvWindow, PTL
=============================================================================
