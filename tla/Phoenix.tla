------------------------------- MODULE Phoenix -------------------------------
(***************************************************************************)
(* The rebirth of a service on a new host (internal/rebirth/phoenix.go).   *)
(* Operators seal a request that moves the service from the host at the    *)
(* end of the lineage log to a fresh one; witnesses attest it by their own *)
(* clocks; the control plane turns k attestations into a lineage record    *)
(* and appends it; anyone replays the log with VerifyLineage.              *)
(*                                                                         *)
(* There is one service, so ServiceID is left out (VerifyLineage does not  *)
(* compare it between records).  A witness's key is the one its record     *)
(* carries: neither Execute nor VerifyLineage pins it to the slot.         *)
(*                                                                         *)
(* A signature is the pair of key and message, so none can be made up.  An *)
(* error return is {}, a result {result}; an empty host key is NoHost.     *)
(***************************************************************************)
EXTENDS Integers, FiniteSets, Sequences

CONSTANTS
    Hosts,          \* Ed25519 keys of the hosts
    NoHost,         \* the empty OldHostPubkey of an initial enrolment
    Pinned,         \* pinnedOperators
    OpThreshold,    \* M: operator signatures a request needs
    SignerLists,    \* the operator keys a request may be sealed with
    Witnesses,      \* the roster slots; a witness's key is its slot
    Threshold,      \* k: attestations a record needs
    Skew,           \* Skew[w]: how far the clock of w is ahead of real time
    CoolDowns,      \* values of CoolDownMs
    MinCoolDown,    \* the floor every witness enforces
    Times,          \* bound: the instants at which something happens
    Horizon,        \* bound: the latest end of a cool-down
    MaxRequests,    \* bound: requests sealed
    MaxAttests,     \* bound: attestations issued for a request
    MaxLog          \* bound: length of the lineage log

OperatorKeys == UNION {{s[i] : i \in DOMAIN s} : s \in SignerLists}

ASSUME PhoenixAssumption ==
    /\ NoHost \notin Hosts
    /\ OpThreshold \in Nat \ {0} /\ Threshold \in Nat \ {0}
    /\ SignerLists \subseteq Seq(OperatorKeys)
    /\ IsFiniteSet(Pinned) /\ IsFiniteSet(Witnesses)
    /\ Witnesses \subseteq Nat /\ Skew \in [Witnesses -> Int]
    /\ CoolDowns \subseteq Nat /\ MinCoolDown \in Nat
    /\ 0 \in Times /\ Times \subseteq Nat /\ Horizon \in Nat
    /\ MaxRequests \in Nat /\ MaxAttests \in Nat /\ MaxLog \in Nat

VARIABLES
    now,        \* real time; operators and the control plane read it
    requests,   \* every request sealed so far
    attested,   \* every attestation a witness has issued
    log         \* the lineage log

vars == <<now, requests, attested, log>>

-----------------------------------------------------------------------------
(* Requests *)

Sign(key, msg) == [key |-> key, msg |-> msg]

\* Mutant of Canonical: the host that is replaced is not encoded.
Canonical_NoOldHost(r) ==
    [new |-> r.new, requestedAt |-> r.requestedAt, coolDown |-> r.coolDown]

\* What operators and witnesses sign: all of the request but its signatures.
Canonical(r) ==
    [new         |-> r.new,
     old         |-> r.old,
     requestedAt |-> r.requestedAt,
     coolDown    |-> r.coolDown]

\* Every key signs the same bytes.  A request with one signer also fills the
\* legacy fields.
SealRequestMultiOp(new, old, signers, coolDown, at) ==
    LET bare == [new |-> new, old |-> old, requestedAt |-> at,
                 coolDown |-> coolDown, sigs |-> << >>, legacy |-> << >>]
        sigs == [i \in DOMAIN signers |-> Sign(signers[i], Canonical(bare))]
    IN  IF signers = << >> THEN {}
        ELSE {[bare EXCEPT !.sigs = sigs,
                           !.legacy = IF Len(sigs) = 1 THEN sigs ELSE << >>]}

\* M signatures, all of them by pinned operators, no two by the same one.
VerifyOperator(r) ==
    LET sigs == IF r.sigs = << >> THEN r.legacy ELSE r.sigs
    IN  /\ Len(sigs) >= OpThreshold
        /\ \A i, j \in DOMAIN sigs : sigs[i].key = sigs[j].key => i = j
        /\ \A i \in DOMAIN sigs :
              sigs[i].key \in Pinned /\ sigs[i] = Sign(sigs[i].key, Canonical(r))

-----------------------------------------------------------------------------
(* Attestations *)

attestationMessage(r, observed) == [request |-> Canonical(r), observed |-> observed]

Earliest(r) == r.requestedAt + r.coolDown

\* Mutant of Attest: the floor of the cool-down is not enforced.
Attest_NoFloor(r, w, clock) ==
    IF VerifyOperator(r) /\ clock \in r.requestedAt .. r.requestedAt + 5 * r.coolDown
    THEN {[index |-> w, pub |-> w, observed |-> clock,
           sig |-> Sign(w, attestationMessage(r, clock))]}
    ELSE {}

\* Mutant of Attest: a request is stale as soon as its cool-down is over.
Attest_StaleEarly(r, w, clock) ==
    IF /\ VerifyOperator(r)
       /\ r.coolDown >= MinCoolDown
       /\ clock \in r.requestedAt .. r.requestedAt + r.coolDown
    THEN {[index |-> w, pub |-> w, observed |-> clock,
           sig |-> Sign(w, attestationMessage(r, clock))]}
    ELSE {}

\* A witness attests from the moment of the request, by its own clock, until
\* five cool-downs later; whether the cool-down is over is not its concern.
Attest(r, w, clock) ==
    IF /\ VerifyOperator(r)
       /\ r.coolDown >= MinCoolDown
       /\ clock \in r.requestedAt .. r.requestedAt + 5 * r.coolDown
    THEN {[index |-> w, pub |-> w, observed |-> clock,
           sig |-> Sign(w, attestationMessage(r, clock))]}
    ELSE {}

-----------------------------------------------------------------------------
(* Records *)

\* Mutant of Execute: the attestations' times are not looked at.
Execute_ClockOnly(r, atts, clock) ==
    IF /\ Len(atts) >= Threshold
       /\ clock >= Earliest(r)
       /\ \A i, j \in DOMAIN atts : atts[i].index = atts[j].index => i = j
       /\ \A i \in DOMAIN atts :
             atts[i].sig = Sign(atts[i].pub, attestationMessage(r, atts[i].observed))
    THEN {[request |-> r, attestations |-> atts, executedAt |-> clock]}
    ELSE {}

\* k attestations of this request, no index twice, every one observed after
\* the cool-down; one that does not qualify spoils the list.
Execute(r, atts, clock) ==
    IF /\ Len(atts) >= Threshold
       /\ clock >= Earliest(r)
       /\ \A i, j \in DOMAIN atts : atts[i].index = atts[j].index => i = j
       /\ \A i \in DOMAIN atts :
             /\ atts[i].observed >= Earliest(r)
             /\ atts[i].sig = Sign(atts[i].pub, attestationMessage(r, atts[i].observed))
    THEN {[request |-> r, attestations |-> atts, executedAt |-> clock]}
    ELSE {}

RecordOK(rec) ==
    /\ VerifyOperator(rec.request)
    /\ Execute(rec.request, rec.attestations, rec.executedAt) # {}

\* Mutant of VerifyLineage: only the first record's old host is checked.
VerifyLineage_Unlinked(records) ==
    /\ records # << >>
    /\ records[1].request.old = NoHost
    /\ \A i \in DOMAIN records : RecordOK(records[i])

\* The first record replaces nobody, every other the host before it.
VerifyLineage(records) ==
    /\ records # << >>
    /\ \A i \in DOMAIN records :
          records[i].request.old =
              IF i = 1 THEN NoHost ELSE records[i-1].request.new
    /\ \A i \in DOMAIN records : RecordOK(records[i])

-----------------------------------------------------------------------------
(* The protocol *)

Init ==
    /\ now = 0
    /\ requests = {}
    /\ attested = {}
    /\ log = << >>

Tick ==
    /\ \E t \in Times : t > now /\ now' = t
    /\ UNCHANGED <<requests, attested, log>>

\* The operators read the first n records, the whole log or what it was when
\* they looked, check them, and name the host that comes after the last one.
Seal(n, new, signers, coolDown) ==
    LET seen == SubSeq(log, 1, n)
        old  == IF n = 0 THEN NoHost ELSE log[n].request.new
    IN  /\ Cardinality(requests) < MaxRequests /\ now + coolDown <= Horizon
        /\ n # 0 => VerifyLineage(seen)
        /\ \A i \in 1 .. n : seen[i].request.new # new
        /\ \E r \in SealRequestMultiOp(new, old, signers, coolDown, now) :
              requests' = requests \cup {r}
        /\ UNCHANGED <<now, attested, log>>

\* A witness may be asked again, and answers again.
AttestRequest(r, w) ==
    /\ Cardinality({a \in attested : a.sig.msg.request = Canonical(r)}) < MaxAttests
    /\ \E a \in Attest(r, w, now + Skew[w]) : attested' = attested \cup {a}
    /\ UNCHANGED <<now, requests, log>>

\* The control plane submits a list of attestations it was given, in roster
\* order, of this request or another, early or late, repeated or not, and
\* appends the record.  Execute does not look at the log, so a control plane that
\* executes first and appends later, or appends again because an answer was
\* lost, does what this step does at another moment.
ExecuteRequest(r, atts) ==
    /\ Len(log) < MaxLog
    /\ \A i \in 2 .. Len(atts) : atts[i-1].index <= atts[i].index
    /\ \E rec \in Execute(r, atts, now) : log' = Append(log, rec)
    /\ UNCHANGED <<now, requests, attested>>

Next ==
    \/ Tick
    \/ \E n \in 0 .. Len(log), h \in Hosts, s \in SignerLists, c \in CoolDowns :
          Seal(n, h, s, c)
    \/ \E r \in requests, w \in Witnesses : AttestRequest(r, w)
    \/ \E r \in requests, atts \in [1 .. Threshold -> attested] : ExecuteRequest(r, atts)

Spec == Init /\ [][Next]_vars

-----------------------------------------------------------------------------
(* What a reader of the log may be given *)

\* External: a record as the store may bring it back: another value in a
\* field, an entry missing, twice, or under another index.
Damage(rec) ==
    LET req(q) == [rec EXCEPT !.request = q]
        r == rec.request
        a == rec.attestations
    IN  {req([r EXCEPT !.old = h]) : h \in Hosts \cup {NoHost}}
        \cup {req([r EXCEPT !.new = h]) : h \in Hosts}
        \cup {req([r EXCEPT !.coolDown = 0]), req([r EXCEPT !.requestedAt = 0]),
              req([r EXCEPT !.sigs = << >>]), req([r EXCEPT !.sigs = <<@[1], @[1]>>])}
        \cup {[rec EXCEPT !.attestations = s] :
                 s \in {<<a[1]>>, <<a[1], a[1]>>, [a EXCEPT ![1].observed = @ + 1]}}
        \cup {[rec EXCEPT !.attestations[1].index = w] : w \in Witnesses}
        \cup {[rec EXCEPT !.executedAt = 0]}

\* External: the log as a reader may get it: whole or cut off, with one
\* record damaged, lost or repeated, or two neighbours exchanged.
Readings(l) ==
    {SubSeq(l, 1, n) : n \in 0 .. Len(l)}
    \cup (UNION {{[l EXCEPT ![i] = rec] : rec \in Damage(l[i])} : i \in DOMAIN l})
    \cup {SubSeq(l, 1, i - 1) \o SubSeq(l, i + 1, Len(l)) : i \in DOMAIN l}
    \cup {SubSeq(l, 1, i) \o SubSeq(l, i, Len(l)) : i \in DOMAIN l}
    \cup {[l EXCEPT ![i] = l[i+1], ![i+1] = l[i]] : i \in 1 .. Len(l) - 1}

HostsOf(l) == [i \in DOMAIN l |-> l[i].request.new]

-----------------------------------------------------------------------------
(* Properties *)

\* The type invariant; only requests with enough pinned signers and the
\* witnesses' floor were ever attested.
TypeOK ==
    /\ now \in Times
    /\ Cardinality(requests) <= MaxRequests /\ Len(log) <= MaxLog
    /\ \A a \in attested :
          /\ a.index \in Witnesses /\ a.observed = a.sig.msg.observed
          /\ \E r \in requests : r.coolDown >= MinCoolDown
                                 /\ a.sig.msg.request = Canonical(r)

\* No rebirth is executed before its cool-down: behind every record stand k
\* different witnesses that signed this request, none before the cool-down
\* was over by its own clock or later than five cool-downs, and in real time
\* at least the cool-down less the lead of the fastest clock has passed,
\* whichever attestations were early, repeated or mixed up on the way.
CoolDownServed ==
    \A i \in DOMAIN log :
        LET r == log[i].request
            inTime == {w \in Witnesses : \E t \in Times :
                /\ t + Skew[w] \in Earliest(r) .. r.requestedAt + 5 * r.coolDown
                /\ t <= log[i].executedAt
                /\ \E a \in attested :
                      a.sig = Sign(w, attestationMessage(r, t + Skew[w]))}
        IN  /\ Cardinality(inTime) >= Threshold
            /\ r.coolDown >= MinCoolDown
            /\ log[i].executedAt >= Earliest(r)

\* A log that passes VerifyLineage tells only what happened, whatever the
\* store did to it: every request in it was sealed by M different pinned
\* operators with these hosts, time and cool-down, and every attestation
\* was given to that request by the witness whose key it carries.
LineageIsAuthentic ==
    \A l \in Readings(log) : VerifyLineage(l) =>
        \A i \in DOMAIN l :
            LET r == l[i].request
            IN  /\ \E q \in requests :
                      /\ q.new = r.new /\ q.old = r.old
                      /\ q.requestedAt = r.requestedAt /\ q.coolDown = r.coolDown
                      /\ Cardinality({o \in Pinned :
                            \E j \in DOMAIN q.sigs : q.sigs[j].key = o}) >= OpThreshold
                /\ \A j \in DOMAIN l[i].attestations : \E a \in attested :
                      a.pub = l[i].attestations[j].pub /\ a.sig = l[i].attestations[j].sig

\* A host enters a lineage once and history is not rewritten: in a log that
\* passes VerifyLineage all hosts differ, and any reading of it that passes
\* too names the same hosts in the same order, short of the last ones.
\* Operators that seal from an old view of the log, requests sealed or
\* executed twice, and competing requests for one host cannot change it.
RebirthOnce ==
    VerifyLineage(log) =>
        /\ \A i, j \in DOMAIN log : HostsOf(log)[i] = HostsOf(log)[j] => i = j
        /\ \A l \in Readings(log) : VerifyLineage(l) =>
              /\ Len(l) <= Len(log)
              /\ HostsOf(l) = SubSeq(HostsOf(log), 1, Len(l))

\* The two windows meet: once the cool-down is over on the clocks of k
\* witnesses and none of them finds the request stale, asking exactly these
\* again gives attestations Execute accepts, however early the ones
\* collected before were.
ElapsedWindowServes ==
    \A r \in requests : \A ws \in [1 .. Threshold -> Witnesses] :
        /\ VerifyOperator(r) /\ r.coolDown >= MinCoolDown
        /\ now >= Earliest(r)
        /\ \A i, j \in DOMAIN ws : ws[i] = ws[j] => i = j
        /\ \A i \in DOMAIN ws : now + Skew[ws[i]] \in
              Earliest(r) .. r.requestedAt + 5 * r.coolDown
        => \E atts \in [1 .. Threshold ->
                          UNION {Attest(r, w, now + Skew[w]) : w \in Witnesses}] :
              Execute(r, atts, now) # {}
=============================================================================
