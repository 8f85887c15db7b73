---------------------------- MODULE QuorumEnvelope ----------------------------
(***************************************************************************)
(* Quorum-encrypted envelopes (internal/qee/envelope.go).  The data key of *)
(* an envelope is wrapped twice: boxed to the key a host draws from its    *)
(* silicon, and split among witnesses.  A host that has died is replaced:  *)
(* another one reads the envelope, has k witnesses unbox their shares,     *)
(* recovers the data key and seals the envelope anew, perhaps for another  *)
(* roster, while other replacements may be doing the same.                 *)
(*                                                                         *)
(* A box or an AEAD opens with its key (and its authenticated data) only.  *)
(* An error return is {}, a result {result}.                               *)
(***************************************************************************)
EXTENDS Shamir, FuzzyExtractor, FiniteSetsExt

CONSTANTS
    Hosts,          \* machines that may hold the service
    Silicon,        \* Silicon[h]: the fingerprint bits of h without noise
    Secret,         \* Secret[h]: the secret h was enrolled with
    Reliable,       \* positions of a fingerprint that proved reliable
    MaxFlips,       \* bound: positions a measurement may get wrong
    Rosters,        \* [witnesses, threshold] an envelope may be sealed for
    Deks,           \* data keys rand.Read may draw
    Coefficients,   \* polynomial coefficients rand.Read may draw
    Plaintext,
    MaxAnswers,     \* bound: answers of witnesses a host combines
    MaxSeals,       \* bound: envelopes written
    MaxGuess        \* bound: the thresholds at which secrecy is looked at

ASSUME EnvelopeAssumption ==
    /\ Deks \subseteq Byte /\ Coefficients \subseteq Byte
    /\ MaxAnswers \in Nat /\ MaxSeals \in Nat /\ MaxGuess \in Nat
    /\ \A r \in Rosters :
          /\ r.witnesses \in Seq({r.witnesses[i] : i \in DOMAIN r.witnesses})
          /\ r.threshold \in Int

VARIABLES
    stored,     \* the envelope in the store, if there is one
    seals,      \* how many envelopes were written
    read,       \* read[h]: the envelope h is recovering
    dek         \* dek[h]: the data key h has recovered

vars == <<stored, seals, read, dek>>

-----------------------------------------------------------------------------
(* The silicon key of a host *)

Positions == UNION {DOMAIN Silicon[h] : h \in Hosts}
Noise     == UNION {kSubset(n, Positions) : n \in 0 .. MaxFlips}

Measure(h, flips) ==
    [i \in DOMAIN Silicon[h] |-> IF i \in flips THEN 1 - Silicon[h][i] ELSE Silicon[h][i]]

\* What enrolment demands (SecretBits is a multiple of four, the helper uses
\* reliable positions of the fingerprint, and there are enough of them), and
\* what sets chips apart: however the noise falls, the measurement of another
\* chip differs from that of the host in two bits of some block.
ASSUME SiliconAssumption ==
    /\ \A h \in Hosts :
          /\ Silicon[h] \in Seq({0, 1})
          /\ Secret[h] \in Seq({0, 1}) /\ Len(Secret[h]) % 4 = 0
          /\ Reliable \in Seq(DOMAIN Silicon[h])
          /\ Enroll(Silicon[h], Reliable, Secret[h]) # {}
    /\ \A h, chip \in Hosts, flips \in Noise : h # chip =>
          \E b \in 0 .. (Len(Secret[h]) \div 4) - 1 :
          \E i, j \in 7 * b + 1 .. 7 * b + 7 :
             /\ i # j
             /\ Measure(chip, flips)[Reliable[i]] # Silicon[h][Reliable[i]]
             /\ Measure(chip, flips)[Reliable[j]] # Silicon[h][Reliable[j]]

\* DeriveSubKey and the X25519 key made from it: one key per secret.
SiliconPub(K) == [silicon |-> K]

\* At most one flipped bit in every block of seven that the helper uses.
Correctable(h, flips) ==
    \A b \in 0 .. (Len(Secret[h]) \div 4) - 1 :
        Cardinality({i \in 7 * b + 1 .. 7 * b + 7 : Reliable[i] \in flips}) <= 1

\* What a chip can make of the helper data of a host, over all noise.
Derivations ==
    {[host |-> h, chip |-> chip, correctable |-> Correctable(h, flips),
      keys |-> UNION {{SiliconPub(K) : K \in Reproduce(Measure(chip, flips), hd)} :
                         hd \in Enroll(Silicon[h], Reliable, Secret[h])}] :
        h \in Hosts, chip \in Hosts, flips \in Noise}

-----------------------------------------------------------------------------
(* Boxes and authenticated encryption *)

boxSealGeneric(payload, pub) == [to |-> pub, payload |-> payload]
boxOpenGeneric(box, key)     == {b.payload : b \in {c \in {box} : c.to = key}}

envelopeAD(rosterSize, threshold) == <<rosterSize, threshold>>

aeadSeal(key, plain, ad)  == [key |-> key, plain |-> plain, ad |-> ad]
aeadOpen(data, key, ad)   == {d.plain : d \in {c \in {data} : c.key = key /\ c.ad = ad}}

-----------------------------------------------------------------------------
(* Envelopes *)

ThresholdOK(r) == r.threshold >= 1 /\ r.threshold <= Len(r.witnesses)

\* Both wrappers of a data key; rnd is what Split draws.
Wrapped(key, pub, r, rnd, data, size) ==
    {[data       |-> data,
      silicon    |-> boxSealGeneric(key, pub),
      shares     |-> [i \in DOMAIN r.witnesses |->
                        [witness |-> r.witnesses[i].index,
                         box |-> boxSealGeneric(s[i], r.witnesses[i].pubkey)]],
      threshold  |-> r.threshold,
      rosterSize |-> size] : s \in Split(key, Len(r.witnesses), r.threshold, rnd)}

Seal(plain, pub, r, key, rnd) ==
    IF ThresholdOK(r)
    THEN Wrapped(key, pub, r, rnd,
                 aeadSeal(key, plain, envelopeAD(Len(r.witnesses), r.threshold)),
                 Len(r.witnesses))
    ELSE {}

OpenSilicon(e, key) ==
    UNION {aeadOpen(e.data, k, envelopeAD(e.rosterSize, e.threshold)) :
              k \in boxOpenGeneric(e.silicon, key)}

RecoverDEK(e, list) ==
    IF Len(list) >= e.threshold THEN Combine(list, e.threshold) ELSE {}

\* Mutant of ReSeal: the roster size is carried over.
ReSeal_OldSize(old, key, pub, r, rnd) ==
    IF ThresholdOK(r) THEN Wrapped(key, pub, r, rnd, old.data, old.rosterSize) ELSE {}

\* The data stays as it is, sealed under the size and threshold it was
\* sealed for; the envelope carries those of the new roster.
ReSeal(old, key, pub, r, rnd) ==
    IF ThresholdOK(r) THEN Wrapped(key, pub, r, rnd, old.data, Len(r.witnesses)) ELSE {}

WitnessUnboxShare(ws, key) == boxOpenGeneric(ws.box, key)

-----------------------------------------------------------------------------
(* The store, the hosts and the witnesses *)

Init ==
    /\ stored = {}
    /\ seals = 0
    /\ read = [h \in Hosts |-> {}]
    /\ dek = [h \in Hosts |-> {}]

Witnesses == UNION {{r.witnesses[i].pubkey : i \in DOMAIN r.witnesses} : r \in Rosters}
Draws(r)  == [1 .. r.threshold - 1 -> Coefficients]

SealData(h, r, key) ==
    /\ stored = {} /\ seals < MaxSeals
    /\ \E rnd \in Draws(r) :
          \E e \in Seal(Plaintext, SiliconPub(Secret[h]), r, key, rnd) : stored' = {e}
    /\ seals' = seals + 1
    /\ UNCHANGED <<read, dek>>

\* A replacement reads the envelope as it is now.
Begin(h) ==
    /\ stored # {} /\ seals < MaxSeals /\ read[h] = {}
    /\ read' = [read EXCEPT ![h] = stored]
    /\ UNCHANGED <<stored, seals, dek>>

\* What the witnesses of this roster and others make of the shares of e.
Answers(e, ws) ==
    UNION {WitnessUnboxShare(e.shares[i], w) : i \in DOMAIN e.shares, w \in ws}

\* The host hands the shares to witnesses, which may not be the right ones,
\* and again when an answer is late; it combines what came back, in the
\* order it came.  After an error it tries anew.
Recover(h, n) ==
    /\ dek[h] = {}
    /\ \E e \in read[h] : \E list \in [1 .. n -> Answers(e, Witnesses)] :
          dek' = [dek EXCEPT ![h] = RecoverDEK(e, list)]
    /\ UNCHANGED <<stored, seals, read>>

\* The new envelope replaces whatever the store holds by now.
ReSealEnvelope(h, r) ==
    /\ seals < MaxSeals
    /\ \E old \in read[h], key \in dek[h], rnd \in Draws(r) :
          \E e \in ReSeal(old, key, SiliconPub(Secret[h]), r, rnd) : stored' = {e}
    /\ seals' = seals + 1
    /\ read' = [read EXCEPT ![h] = {}]
    /\ dek' = [dek EXCEPT ![h] = {}]

Next ==
    \/ \E h \in Hosts, r \in Rosters, key \in Deks : SealData(h, r, key)
    \/ \E h \in Hosts : Begin(h)
    \/ \E h \in Hosts, n \in 1 .. MaxAnswers : Recover(h, n)
    \/ \E h \in Hosts, r \in Rosters : ReSealEnvelope(h, r)

Spec == Init /\ [][Next]_vars

-----------------------------------------------------------------------------
(* Properties *)

\* The type invariant; an envelope has as many shares as it says, and a
\* threshold they can meet.
TypeOK ==
    /\ Cardinality(stored) <= 1 /\ seals \in 0 .. MaxSeals
    /\ \A e \in stored :
          /\ e.rosterSize = Len(e.shares) /\ e.threshold \in 1 .. e.rosterSize
          /\ e.silicon.payload \in Byte
    /\ \A h \in Hosts : Cardinality(read[h]) <= 1 /\ dek[h] \subseteq Byte

\* The data is never out of reach: the key the data was sealed with is the
\* one both wrappers of the stored envelope hold, the silicon box and any k
\* or more of the shares in any order, after any number of recoveries by
\* hosts that overtake each other; and what a host recovers is that key,
\* although witnesses answer in any order and twice.
KeyIsRecoverable ==
    /\ \A e \in stored :
          /\ e.silicon.payload = e.data.key
          /\ \A n \in e.threshold .. Len(e.shares) :
             \A pick \in [1 .. n -> DOMAIN e.shares] : IsInjective(pick) =>
                RecoverDEK(e, [i \in DOMAIN pick |-> e.shares[pick[i]].box.payload])
                    = {e.data.key}
    /\ \A h \in Hosts : \A e \in read[h] : dek[h] \subseteq {e.data.key}

\* What the holders in P see of a key that is split k of n, and all that
\* k - 1 holders can see, whatever coefficients are drawn.
View(key, n, k, P, shares) ==
    [key |-> key, size |-> n, threshold |-> k, view |-> [i \in P |-> shares[i]]]
Views(key, n, k) ==
    UNION {{View(key, n, k, P, s) : P \in kSubset(k - 1, 1 .. n), s \in Split(key, n, k, rnd)} :
              rnd \in [1 .. k - 1 -> Byte]}
PossibleViews ==
    UNION {Views(key, n, k) :
              key \in Deks, n \in {Len(r.witnesses) : r \in Rosters}, k \in 1 .. MaxGuess}

\* One share short of the threshold says nothing about the key
\* (shamir.go: "information-theoretic security"): what any k - 1 witnesses
\* hold of the stored envelope is what they could hold of every other key,
\* split with other coefficients.
FewSharesTellNothing ==
    \A e \in stored : e.threshold <= MaxGuess =>
        LET shares == [i \in DOMAIN e.shares |-> e.shares[i].box.payload]
        IN  \A P \in kSubset(e.threshold - 1, DOMAIN e.shares), other \in Deks :
               View(other, Len(e.shares), e.threshold, P, shares) \in PossibleViews

\* Who can open the stored envelope without witnesses: the host that sealed
\* it last, on its own chip, whenever noise flips at most one bit per block,
\* if the roster has the size and threshold of the first sealing; and no
\* noise or other chip ever opens it for anyone else.
SiliconOpens ==
    \A e \in stored, d \in Derivations :
        LET opened == UNION {OpenSilicon(e, k) : k \in d.keys}
            mayOpen == /\ e.silicon.to = SiliconPub(Secret[d.host])
                       /\ e.data.ad = <<Len(e.shares), e.threshold>>
                       /\ d.chip = d.host
        IN  /\ opened # {} => mayOpen
            /\ mayOpen /\ d.correctable => opened = {Plaintext}

-----------------------------------------------------------------------------
(* What a comment of ReSeal says *)

\* envelope.go: ReSeal rebinds "to a NEW roster of witnesses (which may be
\* identical to the old roster or rotated). The data AEAD stays untouched":
\* the host that has sealed the envelope anew opens it.
ReSealedOpens ==
    \A e \in stored : \A h \in Hosts :
        e.silicon.to = SiliconPub(Secret[h])
            => OpenSilicon(e, SiliconPub(Secret[h])) = {Plaintext}
=============================================================================
