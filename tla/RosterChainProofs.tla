-------------------------- MODULE RosterChainProofs --------------------------
(***************************************************************************)
(* What holds of the roster chain for every set of operators, rosters and  *)
(* signers, and whatever one damaged epoch looks like.                     *)
(***************************************************************************)
EXTENDS RosterChain, FiniteSetTheorems, SequenceTheorems, TLAPS

\* The fields of an epoch.
IsEpoch(e) ==
    e = [num |-> e.num, prevHash |-> e.prevHash, witnesses |-> e.witnesses,
         threshold |-> e.threshold, activatedAt |-> e.activatedAt, signers |-> e.signers,
         sigs |-> e.sigs, ceremony |-> e.ceremony, emergency |-> e.emergency, hash |-> e.hash]

\* A list of witnesses, each under an index of its own.
RowsOK(w) ==
    IsSeq(w) /\ \A i, j \in DOMAIN w : w[i].index = w[j].index => i = j

\* An epoch as the store may bring it back, and as it was sealed: every
\* signature on it is on its own digest.
Stored(e) ==
    /\ IsEpoch(e) /\ e.num \in Nat /\ e.threshold \in Int
    /\ RowsOK(e.witnesses)
    /\ IsSeq(e.signers) /\ IsSeq(e.sigs) /\ IsSeq(e.ceremony)
Genuine(e) ==
    /\ Stored(e)
    /\ e.threshold \in 1 .. Len(e.witnesses)
    /\ e.hash = {hash(e)}
    /\ \A i \in DOMAIN e.sigs : e.sigs[i] = Sign(e.sigs[i].key, TransitionMessage(e))
    /\ \A i \in DOMAIN e.ceremony :
          e.ceremony[i] = Sign(e.ceremony[i].key, GenesisCeremonyMessage(e))

\* What sealing a successor of c gives.
SealedFrom(d, c) ==
    /\ Genuine(d)
    /\ d.num = c.num + 1 /\ d.prevHash = c.hash /\ c.hash # {}
    /\ Len(d.sigs) = Len(d.signers) /\ Distinct(d.signers)
    /\ Len(d.signers) >= Required(c, d.emergency)
    /\ \A m \in d.emergency :
          m.waiting >= MinWait /\ m.sig = {Sign(m.announcer, EmergencyAnnouncement(d))}

\* What an operator may have read at position k, before or after damage.
Views(k) == {journal[k], ledger[k], [ledger[k] EXCEPT !.hash = {hash(ledger[k])}]}

JournalInv == IsSeq(journal) /\ \A i \in DOMAIN journal : Genuine(journal[i])
LedgerInv ==
    /\ IsSeq(ledger) /\ Len(ledger) = Len(journal) /\ Len(ledger) <= MaxEpochs
    /\ ~damaged => ledger = journal
    /\ \E k \in 0 .. Len(journal) : \A j \in DOMAIN journal :
          ledger[j] = journal[j] \/ (j = k /\ ledger[j] \in Damage(journal[j]))
ViewInv ==
    /\ view = [o \in Operators |-> view[o]]
    /\ \A o \in Operators :
          view[o] = {} \/ \E k \in DOMAIN journal : \E c \in Views(k) : view[o] = {c}
DraftInv ==
    /\ draft = [o \in Operators |-> draft[o]]
    /\ \A o \in Operators :
          \/ draft[o] = {}
          \/ /\ view[o] = {}
             /\ \E k \in DOMAIN journal : \E c \in Views(k) : \E d \in draft[o] :
                   draft[o] = {d} /\ SealedFrom(d, c)
IInv == damaged \in BOOLEAN /\ JournalInv /\ LedgerInv /\ ViewInv /\ DraftInv

-----------------------------------------------------------------------------
(* Sequences *)

\* A sequence over any set is one.
LEMMA SeqIsSeq ==
    ASSUME NEW S, NEW s \in Seq(S)
    PROVE  IsSeq(s) /\ DOMAIN s = 1 .. Len(s) /\ Len(s) \in Nat
<1>1. DOMAIN s = 1 .. Len(s) /\ Len(s) \in Nat /\ s = [i \in 1 .. Len(s) |-> s[i]]
  BY LenProperties
<1> DEFINE T == {s[i] : i \in DOMAIN s}
<1>2. s \in [1 .. Len(s) -> T]
  BY <1>1
<1>3. s \in Seq(T)
  <2> HIDE DEF T
  <2> QED
    BY <1>1, <1>2
<1> QED
  BY <1>1, <1>3 DEF IsSeq

\* So is a function on 1 .. n.
LEMMA FunctionIsSeq ==
    ASSUME NEW n \in Nat, NEW s, DOMAIN s = 1 .. n, s = [i \in 1 .. n |-> s[i]]
    PROVE  IsSeq(s) /\ Len(s) = n
<1> DEFINE T == {s[i] : i \in DOMAIN s}
<1>1. s \in [1 .. n -> T]
  OBVIOUS
<1>2. s \in Seq(T) /\ Len(s) = n
  <2> HIDE DEF T
  <2> QED
    BY <1>1
<1> QED
  BY <1>2 DEF IsSeq

\* What a sequence is.
LEMMA SeqFacts ==
    ASSUME NEW s, IsSeq(s)
    PROVE  DOMAIN s = 1 .. Len(s) /\ Len(s) \in Nat
BY LenProperties DEF IsSeq

\* A sequence with one more element.
LEMMA SeqAppend ==
    ASSUME NEW s, IsSeq(s), NEW x
    PROVE  /\ IsSeq(Append(s, x)) /\ Len(Append(s, x)) = Len(s) + 1
           /\ DOMAIN Append(s, x) = 1 .. Len(s) + 1
           /\ \A i \in 1 .. Len(s) : Append(s, x)[i] = s[i]
           /\ Append(s, x)[Len(s) + 1] = x
<1> DEFINE R == {s[i] : i \in DOMAIN s}
           T == R \cup {x}
<1>1. s \in Seq(R) /\ R \subseteq T /\ x \in T
  BY DEF IsSeq
<1> HIDE DEF R, T
<1>2. s \in Seq(T)
  BY <1>1, SeqMonotonic
<1>3. /\ Append(s, x) \in Seq(T) /\ Len(Append(s, x)) = Len(s) + 1
      /\ \A i \in 1 .. Len(s) : Append(s, x)[i] = s[i]
      /\ Append(s, x)[Len(s) + 1] = x
  BY <1>1, <1>2, AppendProperties
<1>4. IsSeq(Append(s, x)) /\ DOMAIN Append(s, x) = 1 .. Len(Append(s, x))
  BY <1>3, SeqIsSeq
<1> QED
  BY <1>3, <1>4

\* A sequence with one element replaced.
LEMMA SeqReplace ==
    ASSUME NEW s, IsSeq(s), NEW k \in DOMAIN s, NEW x
    PROVE  /\ IsSeq([s EXCEPT ![k] = x]) /\ Len([s EXCEPT ![k] = x]) = Len(s)
           /\ DOMAIN [s EXCEPT ![k] = x] = DOMAIN s
           /\ [s EXCEPT ![k] = x][k] = x
           /\ \A i \in DOMAIN s : i # k => [s EXCEPT ![k] = x][i] = s[i]
<1> DEFINE t == [s EXCEPT ![k] = x]
<1>1. DOMAIN s = 1 .. Len(s) /\ Len(s) \in Nat
  BY SeqFacts
<1>2. DOMAIN t = 1 .. Len(s) /\ t = [i \in 1 .. Len(s) |-> t[i]]
  BY <1>1
<1>3. IsSeq(t) /\ Len(t) = Len(s)
  <2> HIDE DEF t
  <2> QED
    BY <1>1, <1>2, FunctionIsSeq
<1> QED
  BY <1>1, <1>3

\* A list of n different members shows that a set has at least n.
LEMMA CountByList ==
    ASSUME NEW n \in Nat, NEW T, IsFiniteSet(T), NEW f \in [1 .. n -> T],
           \A i, j \in 1 .. n : f[i] = f[j] => i = j
    PROVE  Cardinality(T) >= n
<1>1. f \in Injection(1 .. n, T)
  BY DEF Injection, IsInjective
<1>2. Cardinality(1 .. n) <= Cardinality(T)
  BY <1>1, FS_Injection
<1>3. Cardinality(1 .. n) = n
  BY FS_Interval
<1> QED
  BY <1>2, <1>3, FS_CardinalityType

-----------------------------------------------------------------------------
(* Sealing *)

\* A signature names its key and its message.
LEMMA SignIs == \A key, msg : Sign(key, msg).key = key /\ Sign(key, msg).msg = msg
BY DEF Sign

Rows(e) == {e.witnesses[i] : i \in DOMAIN e.witnesses}

\* The digest is on the fields that Content and prevHash name.
LEMMA SameDigest ==
    ASSUME NEW a, NEW b, hash(a) = hash(b)
    PROVE  /\ a.num = b.num /\ a.prevHash = b.prevHash /\ a.threshold = b.threshold
           /\ Len(a.witnesses) = Len(b.witnesses) /\ a.activatedAt = b.activatedAt
           /\ Rows(a) = Rows(b)
           /\ EmergencyTerms(a) = EmergencyTerms(b)
<1>1. \A e : /\ hash(e).num = e.num /\ hash(e).prevHash = e.prevHash
             /\ hash(e).threshold = e.threshold /\ hash(e).count = Len(e.witnesses)
             /\ hash(e).activatedAt = e.activatedAt
             /\ hash(e).witnesses = Rows(e)
             /\ hash(e).emergency = EmergencyTerms(e)
  BY DEF hash, Canonical, Rows
<1> QED
  BY <1>1

\* Two epochs that agree in the encoded fields have one digest.
LEMMA DigestOf ==
    ASSUME NEW a, NEW b,
           a.num = b.num, a.prevHash = b.prevHash, a.threshold = b.threshold,
           a.witnesses = b.witnesses, a.activatedAt = b.activatedAt,
           EmergencyTerms(a) = EmergencyTerms(b)
    PROVE  hash(a) = hash(b)
BY DEF hash, Canonical

\* A sealed genesis.
LEMMA GenesisIsGenuine ==
    ASSUME NEW r \in Rosters, NEW at, NEW signers \in CeremonyLists,
           NEW e \in SealGenesis(r, at, signers)
    PROVE  Genuine(e)
<1> DEFINE b == [num |-> 0, prevHash |-> {}, witnesses |-> r.witnesses,
                 threshold |-> r.threshold, activatedAt |-> at,
                 signers |-> << >>, sigs |-> << >>, ceremony |-> << >>,
                 emergency |-> {}, hash |-> {}]
           msg == GenesisCeremonyMessage(b)
           sigs == [i \in DOMAIN signers |-> Sign(signers[i], msg)]
           h == hash(b)
<1>1. /\ e = [b EXCEPT !.ceremony = sigs, !.hash = {h}]
      /\ r.threshold >= 1 /\ r.threshold <= Len(r.witnesses)
  BY DEF SealGenesis, ThresholdOK
<1> HIDE DEF h, msg
<1>2. e = [num |-> 0, prevHash |-> {}, witnesses |-> r.witnesses,
           threshold |-> r.threshold, activatedAt |-> at,
           signers |-> << >>, sigs |-> << >>, ceremony |-> sigs,
           emergency |-> {}, hash |-> {h}]
  BY <1>1
<1>3. hash(e) = h
  <2>1. EmergencyTerms(e) = EmergencyTerms(b)
    BY <1>2 DEF EmergencyTerms
  <2>2. /\ e.num = b.num /\ e.prevHash = b.prevHash /\ e.threshold = b.threshold
        /\ e.witnesses = b.witnesses /\ e.activatedAt = b.activatedAt
    BY <1>2
  <2> HIDE DEF b
  <2> QED
    BY <2>1, <2>2, DigestOf DEF h
<1>4. GenesisCeremonyMessage(e) = msg
  BY <1>3 DEF GenesisCeremonyMessage, msg, h
<1>5. /\ IsSeq(sigs) /\ DOMAIN sigs = DOMAIN signers
      /\ \A i \in DOMAIN sigs : sigs[i] = Sign(sigs[i].key, msg)
  <2>1. DOMAIN signers = 1 .. Len(signers) /\ Len(signers) \in Nat
    BY LedgerAssumption, SeqFacts
  <2>2. DOMAIN sigs = 1 .. Len(signers) /\ sigs = [i \in 1 .. Len(signers) |-> sigs[i]]
    BY <2>1
  <2>3. IsSeq(sigs)
    <3> HIDE DEF sigs
    <3> QED
      BY <2>1, <2>2, FunctionIsSeq
  <2> QED
    BY <2>3 DEF Sign
<1>6. RowsOK(r.witnesses) /\ r.threshold \in Int /\ Len(r.witnesses) \in Nat
  BY LedgerAssumption, SeqFacts DEF RowsOK
<1>7. IsSeq(<< >>)
  BY DEF IsSeq
<1> HIDE DEF sigs
<1>8. Stored(e)
  BY <1>2, <1>5, <1>6, <1>7 DEF Stored, IsEpoch
<1> QED
  BY <1>1, <1>2, <1>3, <1>4, <1>5, <1>6, <1>8 DEF Genuine

\* A sealed successor, normal or emergency.
LEMMA SuccessorIsSealed ==
    ASSUME NEW c, c.num \in Nat, NEW r \in Rosters, NEW at, NEW signers \in SignerLists,
           NEW terms, SealAllowed(c, r, signers, terms)
    PROVE  SealedFrom(Successor(c, r, at, signers, terms), c)
<1> DEFINE em(t, s) == [declaredAt |-> t.declaredAt, waiting |-> t.waiting,
                        announcer |-> Announcer, sig |-> s]
           em0 == {em(t, {}) : t \in terms}
           b == [num |-> c.num + 1, prevHash |-> c.hash,
                 witnesses |-> r.witnesses, threshold |-> r.threshold,
                 activatedAt |-> at, signers |-> signers, sigs |-> << >>,
                 ceremony |-> << >>, hash |-> {}, emergency |-> em0]
           h == hash(b)
           msg == TransitionMessage(b)
           ann == {Sign(Announcer, EmergencyAnnouncement(b))}
           sigs == [i \in DOMAIN signers |-> Sign(Key(c, signers[i]), msg)]
           em1 == {[m EXCEPT !.sig = ann] : m \in em0}
           d == Successor(c, r, at, signers, terms)
<1>1. d = [b EXCEPT !.sigs = sigs, !.hash = {h}, !.emergency = em1]
  BY DEF Successor
<1> HIDE DEF h, msg, ann
<1>2. em1 = {em(t, ann) : t \in terms}
  <2>1. \A t : [em(t, {}) EXCEPT !.sig = ann] = em(t, ann)
    OBVIOUS
  <2> HIDE DEF em
  <2> QED
    BY <2>1
<1>3. d = [num |-> c.num + 1, prevHash |-> c.hash,
           witnesses |-> r.witnesses, threshold |-> r.threshold,
           activatedAt |-> at, signers |-> signers, sigs |-> sigs,
           ceremony |-> << >>, hash |-> {h}, emergency |-> em1]
  <2> HIDE DEF sigs, em1, em0, d
  <2> QED
    BY <1>1
<1> HIDE DEF d
<1>4. hash(d) = h
  <2>1. EmergencyTerms(d) = EmergencyTerms(b)
    <3>1. d.emergency = {em(t, ann) : t \in terms} /\ b.emergency = {em(t, {}) : t \in terms}
      BY <1>2, <1>3
    <3>2. \A t, s : /\ em(t, s).declaredAt = t.declaredAt /\ em(t, s).waiting = t.waiting
                    /\ em(t, s).announcer = Announcer
      OBVIOUS
    <3> HIDE DEF em, b
    <3> QED
      BY <3>1, <3>2 DEF EmergencyTerms
  <2>2. /\ d.num = b.num /\ d.prevHash = b.prevHash /\ d.threshold = b.threshold
        /\ d.witnesses = b.witnesses /\ d.activatedAt = b.activatedAt
    BY <1>3
  <2> HIDE DEF b
  <2> QED
    BY <2>1, <2>2, DigestOf DEF h
<1>5. TransitionMessage(d) = msg /\ {Sign(Announcer, EmergencyAnnouncement(d))} = ann
  BY <1>4 DEF TransitionMessage, EmergencyAnnouncement, msg, ann, h
<1>6. /\ IsSeq(signers) /\ DOMAIN signers = 1 .. Len(signers) /\ Len(signers) \in Nat
  BY LedgerAssumption, SeqFacts
<1>7. /\ IsSeq(sigs) /\ Len(sigs) = Len(signers)
      /\ \A i \in DOMAIN sigs : sigs[i] = Sign(sigs[i].key, msg)
  <2>2. DOMAIN sigs = 1 .. Len(signers) /\ sigs = [i \in 1 .. Len(signers) |-> sigs[i]]
    BY <1>6
  <2>3. IsSeq(sigs) /\ Len(sigs) = Len(signers)
    <3> HIDE DEF sigs
    <3> QED
      BY <1>6, <2>2, FunctionIsSeq
  <2> QED
    BY <2>3 DEF Sign
<1>8. RowsOK(r.witnesses) /\ r.threshold \in Int /\ Len(r.witnesses) \in Nat
  BY LedgerAssumption, SeqFacts DEF RowsOK
<1>9. IsSeq(<< >>)
  BY DEF IsSeq
<1>10. /\ c.hash # {} /\ r.threshold >= 1 /\ r.threshold <= Len(r.witnesses)
       /\ Len(signers) >= Required(c, terms)
       /\ \A t \in terms : t.waiting >= MinWait
       /\ Distinct(signers)
  BY DEF SealAllowed, ThresholdOK, SignersOK
<1> HIDE DEF sigs
<1>11. Stored(d)
  <2> HIDE DEF em1
  <2> QED
    BY <1>3, <1>6, <1>7, <1>8, <1>9 DEF Stored, IsEpoch
<1>0. /\ d.num = c.num + 1 /\ d.prevHash = c.hash /\ d.witnesses = r.witnesses
      /\ d.threshold = r.threshold /\ d.signers = signers /\ d.sigs = sigs
      /\ d.ceremony = << >> /\ d.hash = {h}
  BY <1>3
<1>12. Genuine(d)
  <2>1. d.threshold \in 1 .. Len(d.witnesses)
    BY <1>0, <1>8, <1>10
  <2>2. d.hash = {hash(d)}
    BY <1>0, <1>4
  <2>3. \A i \in DOMAIN d.sigs : d.sigs[i] = Sign(d.sigs[i].key, TransitionMessage(d))
    BY <1>0, <1>5, <1>7
  <2>4. \A i \in DOMAIN d.ceremony :
            d.ceremony[i] = Sign(d.ceremony[i].key, GenesisCeremonyMessage(d))
    BY <1>0
  <2> QED
    BY <1>11, <2>1, <2>2, <2>3, <2>4 DEF Genuine
<1>13. d.emergency = em1 /\ (em1 = {} <=> terms = {})
  BY <1>2, <1>3
<1>14. Required(c, d.emergency) = Required(c, terms)
  BY <1>13 DEF Required
<1>15. \A m \in em1 : m.waiting >= MinWait /\ m.sig = ann /\ m.announcer = Announcer
  BY <1>2, <1>10
<1>16. \A m \in d.emergency :
           m.waiting >= MinWait /\ m.sig = {Sign(m.announcer, EmergencyAnnouncement(d))}
  BY <1>5, <1>13, <1>15
<1>17. Len(d.signers) >= Required(c, d.emergency) /\ Len(d.sigs) = Len(d.signers)
       /\ Distinct(d.signers)
  BY <1>0, <1>7, <1>10, <1>14
<1>18. SealedFrom(d, c)
  BY <1>0, <1>10, <1>12, <1>16, <1>17, Zenon DEF SealedFrom
<1> QED
  BY <1>18 DEF d

-----------------------------------------------------------------------------
(* Damage *)

\* What damage leaves alone.
LEMMA DamageKeeps ==
    ASSUME NEW e, Genuine(e), NEW x \in Damage(e)
    PROVE  /\ Stored(x) /\ x.sigs = e.sigs /\ x.ceremony = e.ceremony
           /\ x.prevHash = e.prevHash /\ x.hash \in {{}, e.hash}
<1>1. /\ IsEpoch(e) /\ e.num \in Nat /\ e.threshold \in Int /\ RowsOK(e.witnesses)
      /\ IsSeq(e.signers) /\ IsSeq(e.sigs) /\ IsSeq(e.ceremony)
  BY DEF Genuine, Stored
<1>2. CASE x \in {[e EXCEPT !.threshold = 1], [e EXCEPT !.emergency = {}],
                  [e EXCEPT !.hash = {}], [e EXCEPT !.num = @ + 1],
                  [e EXCEPT !.activatedAt = @ + 1]}
  BY <1>1, <1>2 DEF Stored, IsEpoch
<1>3. ASSUME NEW w, RowsOK(w), x = [e EXCEPT !.witnesses = w]
      PROVE  /\ Stored(x) /\ x.sigs = e.sigs /\ x.ceremony = e.ceremony
             /\ x.prevHash = e.prevHash /\ x.hash \in {{}, e.hash}
  BY <1>1, <1>3 DEF Stored, IsEpoch
<1>4. CASE x = [e EXCEPT !.witnesses = Reversed(@)]
  <2> DEFINE w == e.witnesses
             v == Reversed(w)
  <2>1. IsSeq(w) /\ \A i, j \in DOMAIN w : w[i].index = w[j].index => i = j
    BY <1>1 DEF RowsOK
  <2>2. DOMAIN w = 1 .. Len(w) /\ Len(w) \in Nat
    BY <2>1, SeqFacts
  <2>3. /\ DOMAIN v = 1 .. Len(w) /\ v = [i \in 1 .. Len(w) |-> v[i]]
        /\ \A i \in 1 .. Len(w) : v[i] = w[Len(w) + 1 - i]
    BY <2>2 DEF Reversed
  <2>4. IsSeq(v)
    <3> HIDE DEF v, w
    <3> QED
      BY <2>2, <2>3, FunctionIsSeq
  <2>5. \A i, j \in DOMAIN v : v[i].index = v[j].index => i = j
    <3> HIDE DEF v, w
    <3>1. \A i \in 1 .. Len(w) : Len(w) + 1 - i \in DOMAIN w
      BY <2>2
    <3>2. \A i, j \in 1 .. Len(w) : Len(w) + 1 - i = Len(w) + 1 - j => i = j
      BY <2>2
    <3> QED
      BY <2>1, <2>3, <3>1, <3>2
  <2>6. RowsOK(v) /\ x = [e EXCEPT !.witnesses = v]
    BY <1>4, <2>4, <2>5 DEF RowsOK
  <2> HIDE DEF v
  <2> QED
    BY <1>3, <2>6
<1>5. CASE \E r \in Rosters : x = [e EXCEPT !.witnesses = r.witnesses]
  <2>1. \A r \in Rosters : RowsOK(r.witnesses)
    BY LedgerAssumption DEF RowsOK
  <2> QED
    BY <1>3, <1>5, <2>1
<1>6. CASE \E s \in SignerLists : x = [e EXCEPT !.signers = s]
  <2>1. \A s \in SignerLists : IsSeq(s)
    BY LedgerAssumption
  <2> QED
    BY <1>1, <1>6, <2>1 DEF Stored, IsEpoch
<1> QED
  BY <1>2, <1>4, <1>5, <1>6 DEF Damage

\* Position k holds what was sealed or that damaged, and one position at most
\* is damaged.
LEMMA LedgerAt ==
    ASSUME JournalInv, LedgerInv, NEW k \in DOMAIN journal
    PROVE  /\ Genuine(journal[k]) /\ Stored(ledger[k])
           /\ ledger[k].sigs = journal[k].sigs /\ ledger[k].ceremony = journal[k].ceremony
           /\ ledger[k].prevHash = journal[k].prevHash
           /\ ledger[k].hash \in {{}, journal[k].hash}
           /\ \A j \in DOMAIN journal :
                 ledger[k] # journal[k] /\ j # k => ledger[j] = journal[j]
<1>1. Genuine(journal[k]) /\ Stored(journal[k])
  BY DEF JournalInv, Genuine
<1>2. ledger[k] = journal[k] \/ ledger[k] \in Damage(journal[k])
  BY DEF LedgerInv
<1>3. \A j \in DOMAIN journal : ledger[k] # journal[k] /\ j # k => ledger[j] = journal[j]
  BY DEF LedgerInv
<1> QED
  BY <1>1, <1>2, <1>3, DamageKeeps

\* The ledger and the journal are sequences of the same length.
LEMMA LedgerLength ==
    ASSUME JournalInv, LedgerInv
    PROVE  /\ DOMAIN ledger = DOMAIN journal /\ DOMAIN journal = 1 .. Len(journal)
           /\ Len(journal) \in Nat /\ Len(ledger) = Len(journal)
BY SeqFacts DEF JournalInv, LedgerInv

\* What an operator reads has a number and, if its digest is cached, the
\* digest of what was sealed there or its own.
LEMMA ViewFacts ==
    ASSUME JournalInv, LedgerInv, NEW k \in DOMAIN journal, NEW c \in Views(k)
    PROVE  /\ c.num \in Nat
           /\ \/ hash(c) = hash(journal[k]) /\ c.hash = {hash(journal[k])}
              \/ hash(c) = hash(ledger[k])
                 /\ c.hash \in {{}, {hash(journal[k])}, {hash(ledger[k])}}
<1>1. /\ Genuine(journal[k]) /\ Stored(ledger[k]) /\ ledger[k].hash \in {{}, journal[k].hash}
  BY LedgerAt
<1>2. journal[k].num \in Nat /\ journal[k].hash = {hash(journal[k])}
  BY <1>1 DEF Genuine, Stored
<1>3. ledger[k].num \in Nat /\ IsEpoch(ledger[k])
  BY <1>1 DEF Stored
<1>4. CASE c = journal[k]
  BY <1>2, <1>4
<1>5. CASE c = ledger[k]
  BY <1>1, <1>2, <1>3, <1>5
<1>6. CASE c = [ledger[k] EXCEPT !.hash = {hash(ledger[k])}]
  <2> DEFINE h == hash(ledger[k])
  <2> HIDE DEF h
  <2>1. c = [ledger[k] EXCEPT !.hash = {h}]
    BY <1>6 DEF h
  <2>2. /\ c.num = ledger[k].num /\ c.prevHash = ledger[k].prevHash
        /\ c.threshold = ledger[k].threshold /\ c.witnesses = ledger[k].witnesses
        /\ c.activatedAt = ledger[k].activatedAt /\ c.emergency = ledger[k].emergency
        /\ c.hash = {h}
    BY <1>3, <2>1 DEF IsEpoch
  <2>3. hash(c) = h
    <3>1. EmergencyTerms(c) = EmergencyTerms(ledger[k])
      BY <2>2 DEF EmergencyTerms
    <3> QED
      BY <2>2, <3>1, DigestOf DEF h
  <2> QED
    BY <1>3, <2>2, <2>3 DEF h
<1> QED
  BY <1>4, <1>5, <1>6 DEF Views

-----------------------------------------------------------------------------
(* The invariant is inductive *)

\* The empty ledger.
LEMMA InitIInv == Init => IInv
<1> SUFFICES ASSUME Init PROVE IInv
  OBVIOUS
<1>1. ledger = << >> /\ journal = << >> /\ damaged = FALSE
      /\ view = [o \in Operators |-> {}] /\ draft = [o \in Operators |-> {}]
  BY DEF Init
<1>2. IsSeq(<< >>) /\ Len(<< >>) = 0 /\ DOMAIN << >> = 1 .. 0
  BY DEF IsSeq
<1>3. JournalInv
  BY <1>1, <1>2 DEF JournalInv
<1>4. LedgerInv
  BY <1>1, <1>2, LedgerAssumption DEF LedgerInv
<1>5. ViewInv /\ DraftInv
  BY <1>1 DEF ViewInv, DraftInv
<1> QED
  BY <1>1, <1>3, <1>4, <1>5 DEF IInv

\* Operators hold what they read or sealed when the ledger changes.
LEMMA ReadersKeep ==
    ASSUME ViewInv, DraftInv, UNCHANGED view, NEW done \in SUBSET Operators,
           draft' = [o \in Operators |-> IF o \in done THEN {} ELSE draft[o]],
           \A k \in DOMAIN journal : k \in DOMAIN journal' /\ Views(k) \subseteq Views(k)'
    PROVE  ViewInv' /\ DraftInv'
<1>1. ViewInv'
  BY DEF ViewInv
<1>2. \A d, c : SealedFrom(d, c)' <=> SealedFrom(d, c)
  BY DEF SealedFrom, Genuine, Stored
<1>3. ASSUME NEW o \in Operators
      PROVE  \/ draft'[o] = {}
             \/ /\ view[o] = {}
                /\ \E k \in DOMAIN journal' : \E c \in Views(k)' : \E d \in draft'[o] :
                      draft'[o] = {d} /\ SealedFrom(d, c)
  <2>1. CASE draft'[o] = {}
    BY <2>1
  <2>2. CASE draft'[o] # {}
    <3>1. draft'[o] = draft[o]
      BY <2>2
    <3>2. PICK k \in DOMAIN journal : view[o] = {} /\ \E c \in Views(k) : \E d \in draft[o] :
                      draft[o] = {d} /\ SealedFrom(d, c)
      BY <2>2, <3>1 DEF DraftInv
    <3> QED
      BY <3>1, <3>2
  <2> QED
    BY <2>1, <2>2
<1>4. draft' = [o \in Operators |-> draft'[o]]
  OBVIOUS
<1>5. DraftInv'
  BY <1>2, <1>3, <1>4 DEF DraftInv
<1> QED
  BY <1>1, <1>5

\* A sealed epoch is stored.
LEMMA StoreKeeps ==
    ASSUME JournalInv, LedgerInv, NEW e, Genuine(e), Store(e), Len(ledger) < MaxEpochs,
           UNCHANGED damaged
    PROVE  /\ JournalInv' /\ LedgerInv'
           /\ \A k \in DOMAIN journal : k \in DOMAIN journal' /\ Views(k) \subseteq Views(k)'
<1>1. /\ DOMAIN ledger = DOMAIN journal /\ DOMAIN journal = 1 .. Len(journal)
      /\ Len(journal) \in Nat /\ Len(ledger) = Len(journal)
  BY LedgerLength
<1>2. PICK n \in Nat : n = Len(journal)
  BY <1>1
<1>3. ledger' = Append(ledger, e) /\ journal' = Append(journal, e)
  BY DEF Store
<1>4. /\ IsSeq(journal') /\ Len(journal') = n + 1 /\ DOMAIN journal' = 1 .. n + 1
      /\ (\A i \in 1 .. n : journal'[i] = journal[i]) /\ journal'[n + 1] = e
  BY <1>2, <1>3, SeqAppend DEF JournalInv
<1>5. /\ IsSeq(ledger') /\ Len(ledger') = n + 1
      /\ (\A i \in 1 .. n : ledger'[i] = ledger[i]) /\ ledger'[n + 1] = e
  BY <1>1, <1>2, <1>3, SeqAppend DEF LedgerInv
<1>6. \A x : Genuine(x)' <=> Genuine(x)
  BY DEF Genuine, Stored
<1>7. JournalInv'
  <2>1. ASSUME NEW i \in 1 .. n + 1 PROVE Genuine(journal'[i])
    <3>1. CASE i \in 1 .. n
      BY <1>1, <1>2, <1>4, <3>1 DEF JournalInv
    <3>2. CASE i = n + 1
      BY <1>4, <3>2
    <3> QED
      BY <3>1, <3>2
  <2> QED
    BY <1>4, <1>6, <2>1 DEF JournalInv
<1>8. LedgerInv'
  <2>1. PICK k \in 0 .. n : \A j \in 1 .. n :
            ledger[j] = journal[j] \/ (j = k /\ ledger[j] \in Damage(journal[j]))
    BY <1>1, <1>2 DEF LedgerInv
  <2>2. ASSUME NEW j \in 1 .. n + 1
        PROVE  ledger'[j] = journal'[j] \/ (j = k /\ ledger'[j] \in Damage(journal'[j]))
    <3>1. CASE j \in 1 .. n
      BY <1>4, <1>5, <2>1, <3>1
    <3>2. CASE j = n + 1
      BY <1>4, <1>5, <3>2
    <3> QED
      BY <3>1, <3>2
  <2>3. k \in 0 .. n + 1
    BY <2>1
  <2>4. ~damaged' => ledger' = journal'
    BY <1>3 DEF LedgerInv
  <2>5. Len(ledger') <= MaxEpochs
    BY <1>1, <1>2, <1>5, LedgerAssumption
  <2>6. \A x : Damage(x)' = Damage(x)
    BY DEF Damage
  <2> QED
    BY <1>4, <1>5, <2>2, <2>3, <2>4, <2>5, <2>6 DEF LedgerInv
<1>9. \A k \in DOMAIN journal : k \in DOMAIN journal' /\ Views(k) \subseteq Views(k)'
  <2>1. ASSUME NEW k \in DOMAIN journal
        PROVE  k \in DOMAIN journal' /\ ledger'[k] = ledger[k] /\ journal'[k] = journal[k]
    BY <1>1, <1>2, <1>4, <1>5
  <2> QED
    BY <2>1 DEF Views
<1> QED
  BY <1>7, <1>8, <1>9

\* The first epoch keeps the invariant.
LEMMA GenesisStep ==
    ASSUME IInv, NEW r \in Rosters, NEW at \in Dates, NEW s \in CeremonyLists,
           Genesis(r, at, s)
    PROVE  IInv'
<1>0. JournalInv /\ LedgerInv /\ ViewInv /\ DraftInv
  BY DEF IInv
<1>1. PICK e \in SealGenesis(r, at, s) : Store(e)
  BY DEF Genesis
<1>2. ledger = << >> /\ UNCHANGED <<view, draft, damaged>>
  BY DEF Genesis
<1>3. Genuine(e) /\ Len(ledger) < MaxEpochs
  BY <1>1, <1>2, GenesisIsGenuine, LedgerAssumption
<1>4. /\ JournalInv' /\ LedgerInv'
      /\ \A k \in DOMAIN journal : k \in DOMAIN journal' /\ Views(k) \subseteq Views(k)'
  BY <1>1, <1>2, <1>3, StoreKeeps DEF IInv
<1>5. draft' = [o \in Operators |-> IF o \in {} THEN {} ELSE draft[o]]
  <2>1. draft = [o \in Operators |-> draft[o]]
    BY DEF IInv, DraftInv
  <2> QED
    BY <1>2, <2>1
<1>6. ViewInv' /\ DraftInv'
  BY <1>0, <1>2, <1>4, <1>5, ReadersKeep
<1> QED
  BY <1>2, <1>4, <1>6 DEF IInv

\* Appending a draft, to whatever the ledger holds by then, keeps it.
LEMMA PublishStep ==
    ASSUME IInv, NEW o \in Operators, Publish(o)
    PROVE  IInv'
<1>1. PICK e \in draft[o] : Store(e)
  BY DEF Publish
<1>2. /\ Len(ledger) < MaxEpochs /\ draft' = [draft EXCEPT ![o] = {}]
      /\ UNCHANGED <<view, damaged>>
  BY DEF Publish
<1>3. Genuine(e)
  BY <1>1 DEF IInv, DraftInv, SealedFrom
<1>4. /\ JournalInv' /\ LedgerInv'
      /\ \A k \in DOMAIN journal : k \in DOMAIN journal' /\ Views(k) \subseteq Views(k)'
  BY <1>1, <1>2, <1>3, StoreKeeps DEF IInv
<1>5. draft' = [p \in Operators |-> IF p \in {o} THEN {} ELSE draft[p]]
  <2>1. draft = [p \in Operators |-> draft[p]]
    BY DEF IInv, DraftInv
  <2> QED
    BY <1>2, <2>1
<1>6. ViewInv' /\ DraftInv'
  BY <1>2, <1>4, <1>5, ReadersKeep DEF IInv
<1> QED
  BY <1>2, <1>4, <1>6 DEF IInv

\* The operator reads the end of the ledger, verified or not.
LEMMA ReadStep ==
    ASSUME IInv, NEW o \in Operators, draft[o] = {}, Len(ledger) \in 1 .. MaxEpochs - 1,
           NEW c, c \in {{}, {ledger[Len(ledger)]},
                        {[ledger[Len(ledger)] EXCEPT !.hash = {hash(ledger[Len(ledger)])}]}},
           view' = [view EXCEPT ![o] = c], UNCHANGED <<ledger, journal, draft, damaged>>
    PROVE  IInv'
<1>1. JournalInv' /\ LedgerInv' /\ damaged' \in BOOLEAN
  BY DEF IInv, JournalInv, LedgerInv, Genuine, Stored, Damage
<1>2. Len(ledger) \in DOMAIN journal
  BY LedgerLength DEF IInv
<1>3. \A k : Views(k)' = Views(k)
  BY DEF Views
<1>4. c = {} \/ \E k \in DOMAIN journal : \E x \in Views(k) : c = {x}
  BY <1>2 DEF Views
<1>5. /\ view' = [p \in Operators |-> view'[p]] /\ view'[o] = c
      /\ \A p \in Operators : p # o => view'[p] = view[p]
  <2>1. view = [p \in Operators |-> view[p]]
    BY DEF IInv, ViewInv
  <2> QED
    BY <2>1
<1>6. ViewInv'
  <2>1. ASSUME NEW p \in Operators
        PROVE  view'[p] = {} \/ \E k \in DOMAIN journal : \E x \in Views(k) : view'[p] = {x}
    BY <1>4, <1>5 DEF IInv, ViewInv
  <2> QED
    BY <1>3, <1>5, <2>1 DEF ViewInv
<1>7. DraftInv'
  <2>1. \A d, x : SealedFrom(d, x)' <=> SealedFrom(d, x)
    BY DEF SealedFrom, Genuine, Stored
  <2>2. ASSUME NEW p \in Operators
        PROVE  \/ draft[p] = {}
               \/ /\ view'[p] = {}
                  /\ \E k \in DOMAIN journal : \E x \in Views(k) : \E d \in draft[p] :
                        draft[p] = {d} /\ SealedFrom(d, x)
    BY <1>5 DEF IInv, DraftInv
  <2>3. draft = [p \in Operators |-> draft[p]]
    BY DEF IInv, DraftInv
  <2> QED
    BY <1>3, <2>1, <2>2, <2>3 DEF DraftInv
<1> QED
  BY <1>1, <1>6, <1>7 DEF IInv

\* Load and Latest do.
LEMMA LoadStep ==
    ASSUME IInv, NEW o \in Operators, Load(o) \/ Latest(o)
    PROVE  IInv'
<1>1. CASE Load(o)
  <2> DEFINE c == IF VerifyChain(ledger)
                  THEN {[Last(ledger) EXCEPT !.hash = {hash(Last(ledger))}]} ELSE {}
  <2>1. /\ draft[o] = {} /\ Len(ledger) \in 1 .. MaxEpochs - 1
        /\ view' = [view EXCEPT ![o] = c] /\ UNCHANGED <<ledger, journal, draft, damaged>>
    BY <1>1 DEF Load
  <2>2. c \in {{}, {ledger[Len(ledger)]},
              {[ledger[Len(ledger)] EXCEPT !.hash = {hash(ledger[Len(ledger)])}]}}
    BY DEF Last
  <2> HIDE DEF c
  <2> QED
    BY <2>1, <2>2, ReadStep
<1>2. CASE Latest(o)
  <2>1. /\ draft[o] = {} /\ Len(ledger) \in 1 .. MaxEpochs - 1
        /\ view' = [view EXCEPT ![o] = {ledger[Len(ledger)]}]
        /\ UNCHANGED <<ledger, journal, draft, damaged>>
    BY <1>2 DEF Latest, Last
  <2> QED
    BY <2>1, ReadStep
<1> QED
  BY <1>1, <1>2

\* An operator seals a successor of what it read.
LEMMA SealStep ==
    ASSUME IInv, NEW o \in Operators, NEW r \in Rosters, NEW at, NEW s \in SignerLists,
           NEW terms, NEW c \in view[o], SealAllowed(c, r, s, terms),
           draft' = [draft EXCEPT ![o] = {Successor(c, r, at, s, terms)}],
           view' = [view EXCEPT ![o] = {}], UNCHANGED <<ledger, journal, damaged>>
    PROVE  IInv'
<1> DEFINE e == Successor(c, r, at, s, terms)
<1>1. JournalInv' /\ LedgerInv' /\ damaged' \in BOOLEAN
  BY DEF IInv, JournalInv, LedgerInv, Genuine, Stored, Damage
<1>2. PICK k \in DOMAIN journal : c \in Views(k)
  BY DEF IInv, ViewInv
<1>3. SealedFrom(e, c)
  BY <1>2, ViewFacts, SuccessorIsSealed DEF IInv
<1> HIDE DEF e
<1>4. \A j : Views(j)' = Views(j)
  BY DEF Views
<1>5. /\ view' = [p \in Operators |-> view'[p]] /\ view'[o] = {}
      /\ \A p \in Operators : p # o => view'[p] = view[p]
  <2>1. view = [p \in Operators |-> view[p]]
    BY DEF IInv, ViewInv
  <2> QED
    BY <2>1
<1>6. /\ draft' = [p \in Operators |-> draft'[p]] /\ draft'[o] = {e}
      /\ \A p \in Operators : p # o => draft'[p] = draft[p]
  <2>1. draft = [p \in Operators |-> draft[p]]
    BY DEF IInv, DraftInv
  <2> QED
    BY <2>1 DEF e
<1>7. ViewInv'
  <2>1. ASSUME NEW p \in Operators
        PROVE  view'[p] = {} \/ \E j \in DOMAIN journal : \E x \in Views(j) : view'[p] = {x}
    BY <1>5 DEF IInv, ViewInv
  <2> QED
    BY <1>4, <1>5, <2>1 DEF ViewInv
<1>8. DraftInv'
  <2>1. \A d, x : SealedFrom(d, x)' <=> SealedFrom(d, x)
    BY DEF SealedFrom, Genuine, Stored
  <2>2. ASSUME NEW p \in Operators
        PROVE  \/ draft'[p] = {}
               \/ /\ view'[p] = {}
                  /\ \E j \in DOMAIN journal : \E x \in Views(j) : \E d \in draft'[p] :
                        draft'[p] = {d} /\ SealedFrom(d, x)
    <3>1. CASE p = o
      BY <1>2, <1>3, <1>5, <1>6, <3>1
    <3>2. CASE p # o
      BY <1>5, <1>6, <3>2 DEF IInv, DraftInv
    <3> QED
      BY <3>1, <3>2
  <2> QED
    BY <1>4, <1>6, <2>1, <2>2 DEF DraftInv
<1> QED
  BY <1>1, <1>7, <1>8 DEF IInv

\* A stored epoch is damaged: who read it before still has what was sealed.
LEMMA CorruptStep ==
    ASSUME IInv, NEW i \in DOMAIN ledger, NEW e \in Damage(ledger[i]), Corrupt(i, e)
    PROVE  IInv'
<1>0. JournalInv /\ LedgerInv /\ ViewInv /\ DraftInv
  BY DEF IInv
<1>1. ~damaged /\ ledger' = [ledger EXCEPT ![i] = e] /\ damaged' = TRUE
      /\ UNCHANGED <<journal, view, draft>>
  BY DEF Corrupt
<1>2. ledger = journal
  BY <1>0, <1>1 DEF LedgerInv
<1>3. IsSeq(ledger) /\ Len(ledger) <= MaxEpochs
  BY <1>0 DEF LedgerInv
<1>4. /\ IsSeq(ledger') /\ Len(ledger') = Len(ledger) /\ ledger'[i] = e
      /\ \A j \in DOMAIN ledger : j # i => ledger'[j] = ledger[j]
  BY <1>1, <1>3, SeqReplace
<1>5. JournalInv'
  BY <1>0, <1>1 DEF JournalInv, Genuine, Stored
<1>6. LedgerInv'
  <2>1. i \in 0 .. Len(journal)
    BY <1>0, LedgerLength
  <2>2. \A j \in DOMAIN journal :
            ledger'[j] = journal[j] \/ (j = i /\ ledger'[j] \in Damage(journal[j]))
    BY <1>2, <1>4
  <2>3. \A x : Damage(x)' = Damage(x)
    BY DEF Damage
  <2> QED
    BY <1>1, <1>2, <1>3, <1>4, <2>1, <2>2, <2>3 DEF LedgerInv
<1>7. ASSUME NEW k \in DOMAIN journal PROVE Views(k) \subseteq Views(k)'
  <2>1. IsEpoch(journal[k]) /\ journal[k].hash = {hash(journal[k])}
    BY <1>0 DEF JournalInv, Genuine, Stored
  <2>2. [journal[k] EXCEPT !.hash = {hash(journal[k])}] = journal[k]
    <3> DEFINE h == {hash(journal[k])}
    <3> HIDE DEF h
    <3>1. IsEpoch(journal[k]) /\ journal[k].hash = h
      BY <2>1 DEF h
    <3>2. [journal[k] EXCEPT !.hash = h] = journal[k]
      BY <3>1 DEF IsEpoch
    <3> QED
      BY <3>2 DEF h
  <2>3. Views(k) = {journal[k]}
    BY <1>2, <2>2 DEF Views
  <2> QED
    BY <1>1, <2>3 DEF Views
<1>8. ViewInv' /\ DraftInv'
  <2>1. draft' = [o \in Operators |-> IF o \in {} THEN {} ELSE draft[o]]
    <3>1. draft = [o \in Operators |-> draft[o]]
      BY <1>0 DEF DraftInv
    <3> QED
      BY <1>1, <3>1
  <2> QED
    BY <1>0, <1>1, <1>7, <2>1, ReadersKeep
<1> QED
  BY <1>1, <1>5, <1>6, <1>8 DEF IInv

\* Every step keeps the invariant.
LEMMA StepIInv == IInv /\ [Next]_vars => IInv'
<1> SUFFICES ASSUME IInv, [Next]_vars PROVE IInv'
  OBVIOUS
<1>1. CASE \E r \in Rosters, at \in Dates, s \in CeremonyLists : Genesis(r, at, s)
  BY <1>1, GenesisStep
<1>2. CASE \E o \in Operators : Load(o) \/ Latest(o)
  BY <1>2, LoadStep
<1>3. ASSUME NEW o \in Operators, NEW r \in Rosters, NEW at \in Dates, NEW s \in SignerLists,
             Transition(o, r, at, s)
      PROVE  IInv'
  <2>1. PICK c \in view[o] : \E e \in SealTransition(c, r, at, s) :
            draft' = [draft EXCEPT ![o] = {e}]
    BY <1>3 DEF Transition
  <2>2. /\ SealAllowed(c, r, s, {})
        /\ draft' = [draft EXCEPT ![o] = {Successor(c, r, at, s, {})}]
    BY <2>1 DEF SealTransition
  <2>3. view' = [view EXCEPT ![o] = {}] /\ UNCHANGED <<ledger, journal, damaged>>
    BY <1>3 DEF Transition
  <2> QED
    BY <2>2, <2>3, SealStep
<1>4. ASSUME NEW o \in Operators, NEW r \in Rosters, NEW at \in Dates, NEW s \in SignerLists,
             NEW t \in Terms, Emergency(o, r, at, s, t)
      PROVE  IInv'
  <2>1. PICK c \in view[o] : \E e \in SealEmergencyTransition(c, r, at, s, t) :
            draft' = [draft EXCEPT ![o] = {e}]
    BY <1>4 DEF Emergency
  <2>2. /\ SealAllowed(c, r, s, {t})
        /\ draft' = [draft EXCEPT ![o] = {Successor(c, r, at, s, {t})}]
    BY <2>1 DEF SealEmergencyTransition
  <2>3. view' = [view EXCEPT ![o] = {}] /\ UNCHANGED <<ledger, journal, damaged>>
    BY <1>4 DEF Emergency
  <2> QED
    BY <2>2, <2>3, SealStep
<1>5. CASE \E o \in Operators : Publish(o)
  BY <1>5, PublishStep
<1>6. CASE \E i \in DOMAIN ledger : \E e \in Damage(ledger[i]) : Corrupt(i, e)
  BY <1>6, CorruptStep
<1>7. CASE UNCHANGED vars
  <2>1. UNCHANGED <<ledger, journal, view, draft, damaged>>
    BY <1>7 DEF vars
  <2>2. JournalInv' /\ LedgerInv' /\ damaged' \in BOOLEAN
    BY <2>1 DEF IInv, JournalInv, LedgerInv, Genuine, Stored, Damage
  <2>3. \A k : Views(k)' = Views(k)
    BY <2>1 DEF Views
  <2>4. ViewInv'
    BY <2>1, <2>3 DEF IInv, ViewInv
  <2>5. \A d, x : SealedFrom(d, x)' <=> SealedFrom(d, x)
    BY DEF SealedFrom, Genuine, Stored
  <2>6. DraftInv'
    BY <2>1, <2>3, <2>5 DEF IInv, DraftInv
  <2> QED
    BY <2>2, <2>4, <2>6 DEF IInv
<1> QED
  BY <1>1, <1>2, <1>3, <1>4, <1>5, <1>6, <1>7 DEF Next

\* In every behaviour the ledger is the journal but for one damaged epoch,
\* and every draft was sealed from an epoch that stood in one of them.
THEOREM AlwaysIInv == Spec => []IInv
BY InitIInv, StepIInv, PTL DEF Spec

-----------------------------------------------------------------------------
(* What VerifyChain tells of the ledger *)

\* A chain that verifies has the digests its operators sealed.
LEMMA DigestsHold ==
    ASSUME JournalInv, LedgerInv, VerifyChain(ledger), NEW k \in DOMAIN journal
    PROVE  hash(ledger[k]) = hash(journal[k])
<1>1. /\ DOMAIN ledger = DOMAIN journal /\ DOMAIN journal = 1 .. Len(journal)
      /\ Len(journal) \in Nat /\ Len(ledger) = Len(journal)
  BY LedgerLength
<1>2. /\ Genuine(journal[k]) /\ Stored(ledger[k])
      /\ ledger[k].sigs = journal[k].sigs /\ ledger[k].ceremony = journal[k].ceremony
      /\ \A j \in DOMAIN journal :
            ledger[k] # journal[k] /\ j # k => ledger[j] = journal[j]
  BY LedgerAt
<1>3. CASE ledger[k] = journal[k]
  BY <1>3
<1>4. CASE k = 1
  <2>1. /\ Len(ledger[1].ceremony) >= 2
        /\ \A i \in DOMAIN ledger[1].ceremony :
              ledger[1].ceremony[i]
                = Sign(ledger[1].ceremony[i].key, GenesisCeremonyMessage(ledger[1]))
    BY DEF VerifyChain, VerifyGenesis
  <2>2. IsSeq(ledger[1].ceremony)
    BY <1>2, <1>4 DEF Stored
  <2>3. 1 \in DOMAIN ledger[1].ceremony
    BY <2>1, <2>2, SeqFacts
  <2>4. ledger[1].ceremony[1].msg = GenesisCeremonyMessage(ledger[1])
    BY <2>1, <2>3, SignIs
  <2>5. ledger[1].ceremony[1].msg = GenesisCeremonyMessage(journal[1])
    BY <1>2, <1>4, <2>3, SignIs DEF Genuine
  <2> QED
    BY <1>4, <2>4, <2>5 DEF GenesisCeremonyMessage
<1>5. CASE k # 1 /\ ledger[k] # journal[k]
  <2>1. k \in 2 .. Len(ledger) /\ k - 1 \in DOMAIN journal /\ k - 1 # k
    BY <1>1, <1>5
  <2>2. VerifyLink(ledger[k-1], ledger[k])
    BY <2>1 DEF VerifyChain
  <2>3. ledger[k-1] = journal[k-1] /\ Genuine(journal[k-1])
    BY <1>2, <1>5, <2>1 DEF JournalInv
  <2>4. Required(ledger[k-1], ledger[k].emergency) \in Int
        /\ Required(ledger[k-1], ledger[k].emergency) >= 1
    <3> DEFINE n == Len(journal[k-1].witnesses)
    <3>1. n \in Nat
      BY <2>3, SeqFacts DEF Genuine, Stored, RowsOK
    <3>2. journal[k-1].threshold \in 1 .. n
      BY <2>3 DEF Genuine
    <3>3. SuperMajority(n) \in Int /\ SuperMajority(n) >= 1
      <4>1. n >= 1
        BY <3>1, <3>2
      <4> HIDE DEF n
      <4> QED
        BY <3>1, <4>1 DEF SuperMajority
    <3> QED
      BY <2>3, <3>1, <3>2, <3>3 DEF Required
  <2>5. /\ Len(ledger[k].signers) >= Required(ledger[k-1], ledger[k].emergency)
        /\ Len(ledger[k].sigs) = Len(ledger[k].signers)
        /\ \A i \in DOMAIN ledger[k].signers : ledger[k].sigs[i]
              = Sign(Key(ledger[k-1], ledger[k].signers[i]), TransitionMessage(ledger[k]))
    BY <2>2 DEF VerifyLink
  <2>6. IsSeq(ledger[k].signers) /\ IsSeq(ledger[k].sigs)
    BY <1>2 DEF Stored
  <2>7. 1 \in DOMAIN ledger[k].signers /\ 1 \in DOMAIN ledger[k].sigs
    <3>1. /\ DOMAIN ledger[k].signers = 1 .. Len(ledger[k].signers)
          /\ DOMAIN ledger[k].sigs = 1 .. Len(ledger[k].sigs)
          /\ Len(ledger[k].signers) \in Nat
      BY <2>6, SeqFacts
    <3> QED
      BY <2>4, <2>5, <3>1
  <2>8. ledger[k].sigs[1].msg = TransitionMessage(ledger[k])
    BY <2>5, <2>7, SignIs
  <2>9. ledger[k].sigs[1].msg = TransitionMessage(journal[k])
    BY <1>2, <2>7, SignIs DEF Genuine
  <2> QED
    BY <2>8, <2>9 DEF TransitionMessage
<1> QED
  BY <1>3, <1>4, <1>5

\* The bounds and shapes of TypeOK.
LEMMA IInvTypes == IInv => TypeOK
<1> SUFFICES ASSUME IInv PROVE TypeOK
  OBVIOUS
<1>1. Len(ledger) = Len(journal) /\ Len(ledger) <= MaxEpochs
  BY DEF IInv, LedgerInv
<1>2. \A i \in DOMAIN journal : journal[i].threshold \in 1 .. Len(journal[i].witnesses)
  BY DEF IInv, JournalInv, Genuine
<1>3. ASSUME NEW o \in Operators
      PROVE  Cardinality(view[o]) + Cardinality(draft[o]) <= 1
  <2>1. (view[o] = {} \/ \E c : view[o] = {c}) /\ (draft[o] = {} \/ \E d : draft[o] = {d})
        /\ (view[o] = {} \/ draft[o] = {})
    BY DEF IInv, ViewInv, DraftInv
  <2>2. Cardinality({}) = 0 /\ \A c : Cardinality({c}) = 1
    <3>1. \A c : Cardinality({c}) = 1
      BY FS_Singleton
    <3> QED
      BY <3>1, FS_EmptySet
  <2>3. /\ Cardinality(view[o]) \in {0, 1} /\ Cardinality(draft[o]) \in {0, 1}
        /\ Cardinality(view[o]) = 0 \/ Cardinality(draft[o]) = 0
    BY <2>1, <2>2
  <2> QED
    BY <2>3
<1> QED
  BY <1>1, <1>2, <1>3 DEF TypeOK, IInv

\* Digests that hold leave no content changed.
LEMMA IInvDamage == IInv => DamageIsDetected
<1> SUFFICES ASSUME IInv, VerifyChain(ledger), NEW i \in DOMAIN ledger
             PROVE  Content(ledger[i]) = Content(journal[i])
  BY DEF DamageIsDetected
<1>1. i \in DOMAIN journal
  BY LedgerLength DEF IInv
<1>2. hash(ledger[i]) = hash(journal[i])
  BY <1>1, DigestsHold DEF IInv
<1>3. \A e : Content(e) = <<e.num, Rows(e), Len(e.witnesses), e.threshold,
                            e.activatedAt, EmergencyTerms(e)>>
  BY DEF Content, Rows
<1> QED
  BY <1>2, <1>3, SameDigest

\* The signers of a verified successor sit, each at a place of its own, in
\* every listing of the same rows.
LEMMA SlotsOf ==
    ASSUME NEW p, NEW q, RowsOK(p.witnesses), RowsOK(q.witnesses), hash(p) = hash(q),
           NEW s, IsSeq(s), SignersOK(p, s)
    PROVE  \E f \in [1 .. Len(s) -> Slots(q)] :
              /\ \A i \in 1 .. Len(s) : Key(q, f[i]) = Key(p, s[i])
              /\ \A i, j \in 1 .. Len(s) : f[i] = f[j] => i = j
<1> DEFINE v == p.witnesses
           w == q.witnesses
           At(i) == CHOOSE k \in Slots(q) : w[k + 1] = v[s[i] + 1]
           f == [i \in 1 .. Len(s) |-> At(i)]
<1>1. /\ DOMAIN v = 1 .. Len(v) /\ Len(v) \in Nat
      /\ DOMAIN w = 1 .. Len(w) /\ Len(w) \in Nat
      /\ DOMAIN s = 1 .. Len(s)
  BY SeqFacts DEF RowsOK
<1>2. \A i, j \in DOMAIN v : v[i].index = v[j].index => i = j
  BY DEF RowsOK
<1>3. {v[i] : i \in DOMAIN v} = {w[i] : i \in DOMAIN w}
  <2>1. Rows(p) = Rows(q)
    BY SameDigest
  <2> QED
    BY <2>1, Zenon DEF Rows
<1>4. \A i \in 1 .. Len(s) : s[i] \in 0 .. Len(v) - 1
  BY <1>1 DEF SignersOK, Slots
<1>5. \A i, j \in 1 .. Len(s) : s[i] = s[j] => i = j
  BY <1>1 DEF SignersOK, Distinct
<1> HIDE DEF v, w
<1>6. Slots(q) = 0 .. Len(w) - 1
  BY DEF Slots, w
<1>7. ASSUME NEW i \in 1 .. Len(s)
      PROVE  At(i) \in Slots(q) /\ w[At(i) + 1] = v[s[i] + 1]
  <2>1. s[i] + 1 \in DOMAIN v
    BY <1>1, <1>4
  <2>2. PICK m \in DOMAIN w : w[m] = v[s[i] + 1]
    BY <1>3, <2>1
  <2>3. m - 1 \in Slots(q) /\ (m - 1) + 1 = m
    BY <1>1, <1>6
  <2>4. \E k \in Slots(q) : w[k + 1] = v[s[i] + 1]
    BY <2>2, <2>3
  <2> QED
    BY <2>4
<1>8. f \in [1 .. Len(s) -> Slots(q)]
  <2> HIDE DEF At
  <2> QED
    BY <1>7
<1>9. \A i \in 1 .. Len(s) : f[i] = At(i)
  OBVIOUS
<1> HIDE DEF f, At
<1>10. \A i \in 1 .. Len(s) : Key(q, f[i]) = Key(p, s[i])
  BY <1>7, <1>9 DEF Key, v, w
<1>11. ASSUME NEW i \in 1 .. Len(s), NEW j \in 1 .. Len(s), f[i] = f[j]
       PROVE  i = j
  <2>1. v[s[i] + 1] = v[s[j] + 1]
    BY <1>7, <1>9, <1>11
  <2>2. s[i] + 1 \in DOMAIN v /\ s[j] + 1 \in DOMAIN v
    BY <1>1, <1>4
  <2>3. s[i] + 1 = s[j] + 1
    BY <1>2, <2>1, <2>2
  <2>4. s[i] = s[j]
    BY <1>1, <1>4, <2>3
  <2> QED
    BY <1>5, <2>4
<1> QED
  BY <1>8, <1>10, <1>11

\* Epochs with one digest ask for the same number of signers.
LEMMA SameRequired ==
    ASSUME NEW p, NEW q, hash(p) = hash(q), NEW d, NEW e, hash(d) = hash(e)
    PROVE  Required(p, d.emergency) = Required(q, e.emergency)
<1>1. p.threshold = q.threshold /\ Len(p.witnesses) = Len(q.witnesses)
  BY SameDigest
<1>2. \A x : EmergencyTerms(x) = {} <=> x.emergency = {}
  BY DEF EmergencyTerms
<1>3. d.emergency = {} <=> e.emergency = {}
  BY <1>2, SameDigest
<1> QED
  BY <1>1, <1>3 DEF Required

\* What the rule asks of a roster is a number.
LEMMA RequiredIsInt ==
    ASSUME NEW p, p.threshold \in Int, RowsOK(p.witnesses), NEW em
    PROVE  Required(p, em) \in Int
<1>1. Len(p.witnesses) \in Nat
  BY SeqFacts DEF RowsOK
<1> QED
  BY <1>1 DEF Required, SuperMajority

\* The slots that signed.
LEMMA IInvQuorum == IInv => QuorumBehindEpoch
<1> SUFFICES ASSUME IInv, VerifyChain(ledger) PROVE QuorumBehindEpoch
  BY DEF QuorumBehindEpoch
<1>0. JournalInv /\ LedgerInv
  BY DEF IInv
<1>1. /\ DOMAIN ledger = DOMAIN journal /\ DOMAIN journal = 1 .. Len(journal)
      /\ Len(journal) \in Nat /\ Len(ledger) = Len(journal)
  BY <1>0, LedgerLength
<1> DEFINE two == {c \in Ceremony : \E i \in DOMAIN ledger[1].ceremony :
                     ledger[1].ceremony[i] = Sign(c, GenesisCeremonyMessage(journal[1]))}
           slots(i) == {p \in Slots(journal[i-1]) : \E j \in DOMAIN ledger[i].sigs :
                          ledger[i].sigs[j]
                            = Sign(Key(journal[i-1], p), TransitionMessage(journal[i]))}
<1>2. Cardinality(two) >= 2
  <2> DEFINE c == ledger[1].ceremony
             f == [i \in 1 .. 2 |-> c[i].key]
  <2>1. 1 \in DOMAIN journal
    <3>1. Len(ledger) # 0
      BY <1>0, EmptySeq DEF VerifyChain, LedgerInv, IsSeq
    <3> QED
      BY <1>1, <3>1
  <2>2. GenesisCeremonyMessage(ledger[1]) = GenesisCeremonyMessage(journal[1])
    BY <1>0, <2>1, DigestsHold DEF GenesisCeremonyMessage
  <2>3. /\ Len(c) >= 2
        /\ \A i, j \in DOMAIN c : c[i].key = c[j].key => i = j
        /\ \A i \in DOMAIN c :
              c[i].key \in Ceremony /\ c[i] = Sign(c[i].key, GenesisCeremonyMessage(ledger[1]))
    BY DEF VerifyChain, VerifyGenesis
  <2>4. DOMAIN c = 1 .. Len(c) /\ Len(c) \in Nat
    BY <1>0, <2>1, LedgerAt, SeqFacts DEF Stored
  <2>5. 1 .. 2 \subseteq DOMAIN c
    BY <2>3, <2>4
  <2>6. \A i \in DOMAIN c : c[i].key \in two
    BY <2>2, <2>3
  <2>7. IsFiniteSet(two)
    BY LedgerAssumption, FS_Subset
  <2> HIDE DEF c, two
  <2>8. f \in [1 .. 2 -> two] /\ \A i, j \in 1 .. 2 : f[i] = f[j] => i = j
    BY <2>3, <2>5, <2>6
  <2> HIDE DEF f
  <2> QED
    BY <2>7, <2>8, CountByList
<1>3. ASSUME NEW i \in 2 .. Len(ledger)
      PROVE  Cardinality(slots(i)) >= Required(journal[i-1], journal[i].emergency)
  <2>1. i \in DOMAIN journal /\ i - 1 \in DOMAIN journal
    BY <1>1
  <2> DEFINE p == ledger[i-1]
             q == journal[i-1]
             e == ledger[i]
             s == e.signers
  <2>2. VerifyLink(p, e)
    BY DEF VerifyChain
  <2>3. hash(p) = hash(q) /\ hash(e) = hash(journal[i])
    BY <1>0, <2>1, DigestsHold
  <2>4. Stored(p) /\ Stored(q) /\ Stored(e)
    BY <1>0, <2>1, LedgerAt DEF Genuine
  <2>5. RowsOK(p.witnesses) /\ RowsOK(q.witnesses) /\ IsSeq(s) /\ IsSeq(e.sigs)
        /\ q.threshold \in Int
    BY <2>4 DEF Stored
  <2>6. /\ Len(s) >= Required(p, e.emergency) /\ Len(e.sigs) = Len(s) /\ SignersOK(p, s)
        /\ \A j \in DOMAIN s : e.sigs[j] = Sign(Key(p, s[j]), TransitionMessage(e))
    BY <2>2 DEF VerifyLink
  <2>7. TransitionMessage(e) = TransitionMessage(journal[i])
    BY <2>3 DEF TransitionMessage
  <2>8. /\ DOMAIN s = 1 .. Len(s) /\ Len(s) \in Nat /\ DOMAIN e.sigs = DOMAIN s
    BY <2>5, <2>6, SeqFacts
  <2>9. Required(p, e.emergency) = Required(q, journal[i].emergency)
    BY <2>3, SameRequired
  <2>10. Required(q, journal[i].emergency) \in Int
    BY <2>5, RequiredIsInt
  <2>11. IsFiniteSet(Slots(q))
    <3>1. Len(q.witnesses) \in Nat
      BY <2>5, SeqFacts DEF RowsOK
    <3>2. 0 \in Int /\ Len(q.witnesses) - 1 \in Int
      BY <3>1
    <3>3. IsFiniteSet(0 .. Len(q.witnesses) - 1)
      BY <3>2, FS_Interval
    <3> QED
      BY <3>3 DEF Slots
  <2>12. IsFiniteSet(slots(i))
    BY <2>11, FS_Subset
  <2>13. PICK f \in [1 .. Len(s) -> Slots(q)] :
             /\ \A j \in 1 .. Len(s) : Key(q, f[j]) = Key(p, s[j])
             /\ \A j, k \in 1 .. Len(s) : f[j] = f[k] => j = k
    <3> HIDE DEF p, q, s, e
    <3>1. hash(p) = hash(q) /\ SignersOK(p, s)
      BY <2>3, <2>6
    <3>2. RowsOK(p.witnesses) /\ RowsOK(q.witnesses) /\ IsSeq(s)
      BY <2>5
    <3> QED
      BY <3>1, <3>2, SlotsOf
  <2>14. \A j \in 1 .. Len(s) : e.sigs[j] = Sign(Key(q, f[j]), TransitionMessage(journal[i]))
    BY <2>6, <2>7, <2>8, <2>13
  <2>15. \A j \in 1 .. Len(s) : f[j] \in slots(i)
    BY <2>8, <2>13, <2>14
  <2>16. PICK n \in Nat : n = Len(s)
    BY <2>8
  <2> HIDE DEF slots, s
  <2>17. f \in [1 .. n -> slots(i)] /\ \A j, k \in 1 .. n : f[j] = f[k] => j = k
    BY <2>13, <2>15, <2>16
  <2>18. Cardinality(slots(i)) >= n
    BY <2>12, <2>16, <2>17, CountByList
  <2>19. Cardinality(slots(i)) \in Nat
    BY <2>12, FS_CardinalityType
  <2> QED
    BY <2>6, <2>9, <2>10, <2>16, <2>18, <2>19
<1> QED
  BY <1>2, <1>3 DEF QuorumBehindEpoch

\* When a draft extends the ledger.
LEMMA IInvDraft == IInv => DraftFitsItsParentOnly
<1> SUFFICES ASSUME IInv, NEW o \in Operators, NEW d \in draft[o]
             PROVE  VerifyChain(Append(ledger, d))
                      <=> /\ VerifyChain(ledger)
                          /\ d.prevHash = {hash(Last(ledger))}
                          /\ StillSigners(Last(ledger), d)
                          /\ \A m \in d.emergency : d.activatedAt >= m.declaredAt + m.waiting
  BY DEF DraftFitsItsParentOnly
<1>0. JournalInv /\ LedgerInv
  BY DEF IInv
<1>1. PICK k \in DOMAIN journal : \E c \in Views(k) : SealedFrom(d, c)
  BY DEF IInv, DraftInv
<1>2. PICK c \in Views(k) : SealedFrom(d, c)
  BY <1>1
<1>3. PICK n \in Nat : n = Len(ledger)
  BY <1>0, LedgerLength
<1>4. /\ DOMAIN ledger = 1 .. n /\ DOMAIN journal = 1 .. n /\ n # 0
  <2>1. DOMAIN ledger = 1 .. n /\ DOMAIN journal = 1 .. n
    BY <1>0, <1>3, LedgerLength
  <2> QED
    BY <1>1, <2>1
<1> DEFINE l == Append(ledger, d)
           p == ledger[n]
<1>5. /\ Len(l) = n + 1 /\ DOMAIN l = 1 .. n + 1
      /\ (\A i \in 1 .. n : l[i] = ledger[i]) /\ l[n + 1] = d
  BY <1>0, <1>3, SeqAppend DEF LedgerInv
<1>6. Last(ledger) = p
  BY <1>3 DEF Last
<1>7. /\ Genuine(d) /\ d.num = c.num + 1 /\ d.prevHash = c.hash /\ c.hash # {}
      /\ Len(d.sigs) = Len(d.signers) /\ Distinct(d.signers)
      /\ Len(d.signers) >= Required(c, d.emergency)
      /\ \A m \in d.emergency :
            m.waiting >= MinWait /\ m.sig = {Sign(m.announcer, EmergencyAnnouncement(d))}
  BY <1>2 DEF SealedFrom
<1> HIDE DEF l, p
<1>8. VerifyChain(l) <=> VerifyChain(ledger) /\ d.num = n /\ VerifyLink(p, d)
  <2>1. l # << >> /\ ledger # << >>
    BY <1>3, <1>4, <1>5
  <2>2. (\A i \in 1 .. n + 1 : l[i].num = i - 1)
          <=> (\A i \in 1 .. n : ledger[i].num = i - 1) /\ d.num = n
    <3>1. n + 1 \in 1 .. n + 1 /\ (n + 1) - 1 = n /\ \A i \in 1 .. n + 1 : i \in 1 .. n \/ i = n + 1
      OBVIOUS
    <3>2. 1 .. n \subseteq 1 .. n + 1
      OBVIOUS
    <3> QED
      BY <1>5, <3>1, <3>2
  <2>3. l[1] = ledger[1]
    BY <1>4, <1>5
  <2>4. (\A i \in 2 .. n + 1 : VerifyLink(l[i-1], l[i]))
          <=> (\A i \in 2 .. n : VerifyLink(ledger[i-1], ledger[i])) /\ VerifyLink(p, d)
    <3>1. n + 1 \in 2 .. n + 1 /\ (n + 1) - 1 = n /\ n \in 1 .. n
          /\ \A i \in 2 .. n + 1 : i \in 2 .. n \/ i = n + 1
      BY <1>4
    <3>2. \A i \in 2 .. n : i \in 2 .. n + 1 /\ i \in 1 .. n /\ i - 1 \in 1 .. n
      OBVIOUS
    <3>3. \A i \in 2 .. n : l[i] = ledger[i] /\ l[i-1] = ledger[i-1]
      BY <1>5, <3>2
    <3>4. l[(n + 1) - 1] = p /\ l[n + 1] = d
      BY <1>5, <3>1 DEF p
    <3> QED
      BY <3>1, <3>2, <3>3, <3>4
  <2> QED
    BY <1>3, <1>4, <1>5, <2>1, <2>2, <2>3, <2>4 DEF VerifyChain
<1>9. ASSUME VerifyLink(p, d)
      PROVE  /\ d.prevHash = {hash(p)} /\ StillSigners(p, d)
             /\ \A m \in d.emergency : d.activatedAt >= m.declaredAt + m.waiting
  <2>1. /\ d.prevHash = {hash(p)} /\ SignersOK(p, d.signers)
        /\ \A m \in d.emergency : VerifyEmergencyParams(d, m)
        /\ \A i \in DOMAIN d.signers :
              d.sigs[i] = Sign(Key(p, d.signers[i]), TransitionMessage(d))
    BY <1>9 DEF VerifyLink
  <2>2. StillSigners(p, d)
    BY <2>1, SignIs DEF StillSigners, SignersOK
  <2>3. \A m \in d.emergency : d.activatedAt >= m.declaredAt + m.waiting
    BY <2>1 DEF VerifyEmergencyParams
  <2> QED
    BY <2>1, <2>2, <2>3
<1>10. ASSUME VerifyChain(ledger), d.prevHash = {hash(p)}, StillSigners(p, d),
              \A m \in d.emergency : d.activatedAt >= m.declaredAt + m.waiting
       PROVE  d.num = n /\ VerifyLink(p, d)
  <2>1. hash(c) = hash(p)
    <3>1. hash(ledger[k]) = hash(journal[k])
      BY <1>0, <1>10, DigestsHold
    <3>2. hash(c) = hash(journal[k]) /\ c.hash = {hash(journal[k])}
      BY <1>0, <1>2, <1>7, <3>1, ViewFacts
    <3>3. {hash(journal[k])} = {hash(p)}
      BY <1>7, <1>10, <3>2
    <3> QED
      BY <3>2, <3>3
  <2>2. d.num = n
    <3>1. p.num = n - 1
      BY <1>4, <1>10 DEF VerifyChain, p
    <3>2. c.num = p.num
      BY <2>1, SameDigest
    <3> QED
      BY <1>7, <3>1, <3>2
  <2>3. Required(c, d.emergency) = Required(p, d.emergency)
    BY <2>1, SameRequired
  <2>4. SignersOK(p, d.signers)
    BY <1>7, <1>10 DEF SignersOK, StillSigners
  <2>5. \A m \in d.emergency : VerifyEmergencyParams(d, m)
    BY <1>7, <1>10 DEF VerifyEmergencyParams
  <2>6. ASSUME NEW i \in DOMAIN d.signers
        PROVE  d.sigs[i] = Sign(Key(p, d.signers[i]), TransitionMessage(d))
    <3>1. d.sigs[i].key = Key(p, d.signers[i])
      BY <1>10 DEF StillSigners
    <3>2. i \in DOMAIN d.sigs
      BY <1>7, SeqFacts DEF Genuine, Stored
    <3>3. d.sigs[i] = Sign(d.sigs[i].key, TransitionMessage(d))
      BY <1>7, <3>2 DEF Genuine
    <3> QED
      BY <3>1, <3>3
  <2> QED
    BY <1>7, <1>10, <2>2, <2>3, <2>4, <2>5, <2>6 DEF VerifyLink
<1> QED
  BY <1>6, <1>8, <1>9, <1>10 DEF l

-----------------------------------------------------------------------------
(* The theorems *)

\* The bounds hold, no operator holds a view and a draft at once, and every
\* sealed threshold is one its roster can meet (SealGenesis, SealTransition).
THEOREM ChainTypes == Spec => []TypeOK
BY AlwaysIInv, IInvTypes, PTL

\* VerifyChain notices every damage to what an epoch says.
THEOREM DamageIsNoticed == Spec => []DamageIsDetected
BY AlwaysIInv, IInvDamage, PTL

\* Behind every epoch VerifyChain accepts stands the quorum of the epoch
\* before it, and behind the genesis two pinned signers.
THEOREM EveryEpochHasItsQuorum == Spec => []QuorumBehindEpoch
BY AlwaysIInv, IInvQuorum, PTL

\* A draft sealed before another operator appended never extends the chain,
\* one whose parent is still the last epoch always does.
THEOREM DraftsFitOneParent == Spec => []DraftFitsItsParentOnly
BY AlwaysIInv, IInvDraft, PTL
=============================================================================
