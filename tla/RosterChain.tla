----------------------------- MODULE RosterChain -----------------------------
(***************************************************************************)
(* The chain of rosters (internal/daq/roster_chain.go).  An epoch names    *)
(* the witnesses that may sign tickets; its successor carries signatures   *)
(* of enough of them.  Operators read a shared ledger, seal a successor of *)
(* the epoch they read, and append it; another operator may have appended  *)
(* in between, and a stored epoch may be damaged.                          *)
(*                                                                         *)
(* A digest is the record of the hashed fields and a signature the pair of *)
(* key and message, so both are free of collisions.  An optional value is  *)
(* {} or {value}.  Signers are slice positions, counted from 0 as in Go.   *)
(***************************************************************************)
EXTENDS Integers, FiniteSets, Sequences

CONSTANTS
    Operators,      \* who seals and appends epochs
    Rosters,        \* [witnesses, threshold] an operator may ask for
    Dates,          \* values of ActivatedAtMs
    Ceremony,       \* trustedCeremonyPubkeys
    CeremonyLists,  \* the signer lists a genesis may be sealed with
    SignerLists,    \* values of signerIndexes
    Terms,          \* [declaredAt, waiting] of an emergency
    MinWait,        \* the 24 h floor of the waiting period
    Announcer,      \* the announcement key
    MaxEpochs       \* bound: length of the ledger; a full one is not read again

IsSeq(s) == s \in Seq({s[i] : i \in DOMAIN s})

\* The rows of a roster have different indexes, as every caller numbers them:
\* only then does sorting by Index give one encoding.
ASSUME LedgerAssumption ==
    /\ MinWait \in Nat /\ MaxEpochs \in Nat \ {0} /\ IsFiniteSet(Ceremony)
    /\ \A s \in SignerLists : IsSeq(s)
    /\ \A s \in CeremonyLists : IsSeq(s)
    /\ \A r \in Rosters :
          /\ IsSeq(r.witnesses) /\ r.threshold \in Int
          /\ \A i, j \in DOMAIN r.witnesses :
                r.witnesses[i].index = r.witnesses[j].index => i = j

VARIABLES
    ledger,     \* RosterChain.Epochs as stored
    journal,    \* the epochs as they were appended, never damaged
    view,       \* view[o]: the epoch operator o is about to succeed
    draft,      \* draft[o]: the epoch o has sealed and not yet appended
    damaged     \* a stored epoch has been damaged

vars == <<ledger, journal, view, draft, damaged>>

-----------------------------------------------------------------------------
(* Encoding, digests and signatures *)

Last(s)   == s[Len(s)]
Slots(e)  == 0 .. Len(e.witnesses) - 1
Key(e, p) == e.witnesses[p + 1].pubkey

\* What an emergency adds to the canonical bytes: all but its signature.
EmergencyTerms(e) ==
    {[declaredAt |-> m.declaredAt, waiting |-> m.waiting,
      announcer |-> m.announcer] : m \in e.emergency}

\* Mutant of Canonical: the threshold is not encoded.
Canonical_NoThreshold(e) ==
    [num |-> e.num, prevHash |-> e.prevHash,
     witnesses |-> {e.witnesses[i] : i \in DOMAIN e.witnesses},
     activatedAt |-> e.activatedAt, emergency |-> EmergencyTerms(e)]

\* The witnesses are sorted by Index before they are encoded: the order of
\* the slice is not part of the bytes.  No signature is.
Canonical(e) ==
    [num         |-> e.num,
     prevHash    |-> e.prevHash,
     count       |-> Len(e.witnesses),
     witnesses   |-> {e.witnesses[i] : i \in DOMAIN e.witnesses},
     threshold   |-> e.threshold,
     activatedAt |-> e.activatedAt,
     emergency   |-> EmergencyTerms(e)]

hash(e) == Canonical(e)

Sign(key, msg)               == [key |-> key, msg |-> msg]
GenesisCeremonyMessage(e)    == [dst |-> "GENESIS", digest |-> hash(e)]
TransitionMessage(e)         == [dst |-> "TRANSITION", digest |-> hash(e)]
EmergencyAnnouncement(e)     == [dst |-> "EMERGENCY", digest |-> hash(e)]

Distinct(s) == \A i, j \in DOMAIN s : s[i] = s[j] => i = j

\* Mutant of SignersOK: the duplicate check is left out.
SignersOK_Duplicates(prev, signers) ==
    \A i \in DOMAIN signers : signers[i] \in Slots(prev)

\* Every signer is a slot of the previous roster, and none counts twice.
SignersOK(prev, signers) ==
    /\ \A i \in DOMAIN signers : signers[i] \in Slots(prev)
    /\ Distinct(signers)

\* 80 percent, rounded up.
SuperMajority(n) == (n * 4 + 5 - 1) \div 5

Required(prev, emergency) ==
    IF emergency = {} THEN prev.threshold ELSE SuperMajority(Len(prev.witnesses))

-----------------------------------------------------------------------------
(* Sealing.  {} stands for an error return. *)

\* Mutant of ThresholdOK: the lower bound is not checked.
ThresholdOK_NoFloor(r) == r.threshold <= Len(r.witnesses)

ThresholdOK(r) == r.threshold >= 1 /\ r.threshold <= Len(r.witnesses)

\* The ceremony signers are counted, not compared with each other.
SealGenesis(r, at, signers) ==
    LET e == [num |-> 0, prevHash |-> {}, witnesses |-> r.witnesses,
              threshold |-> r.threshold, activatedAt |-> at,
              signers |-> << >>, sigs |-> << >>, ceremony |-> << >>,
              emergency |-> {}, hash |-> {}]
        sigs == [i \in DOMAIN signers |->
                    Sign(signers[i], GenesisCeremonyMessage(e))]
    IN  IF r.witnesses # << >> /\ ThresholdOK(r) /\ Len(signers) >= 2
        THEN {[e EXCEPT !.ceremony = sigs, !.hash = {hash(e)}]}
        ELSE {}

\* The part SealTransition and SealEmergencyTransition share: the signers
\* of the previous roster sign the digest of the new epoch.
Successor(current, r, at, signers, terms) ==
    LET e == [num |-> current.num + 1, prevHash |-> current.hash,
              witnesses |-> r.witnesses, threshold |-> r.threshold,
              activatedAt |-> at, signers |-> signers, sigs |-> << >>,
              ceremony |-> << >>, hash |-> {},
              emergency |-> {[declaredAt |-> t.declaredAt,
                              waiting |-> t.waiting,
                              announcer |-> Announcer, sig |-> {}] : t \in terms}]
        sigs == [i \in DOMAIN signers |->
                    Sign(Key(current, signers[i]), TransitionMessage(e))]
    IN  [e EXCEPT !.sigs = sigs, !.hash = {hash(e)},
                  !.emergency = {[m EXCEPT !.sig =
                      {Sign(Announcer, EmergencyAnnouncement(e))}] : m \in @}]

\* The checks before it; the waiting period has a floor, the activation
\* date is not looked at.
SealAllowed(current, r, signers, terms) ==
    /\ current.hash # {}
    /\ ThresholdOK(r)
    /\ Len(signers) >= Required(current, terms)
    /\ \A t \in terms : t.waiting >= MinWait
    /\ SignersOK(current, signers)

SealTransition(current, r, at, signers) ==
    IF SealAllowed(current, r, signers, {})
    THEN {Successor(current, r, at, signers, {})} ELSE {}

SealEmergencyTransition(current, r, at, signers, t) ==
    IF SealAllowed(current, r, signers, {t})
    THEN {Successor(current, r, at, signers, {t})} ELSE {}

-----------------------------------------------------------------------------
(* Verification *)

\* Mutant of VerifyEmergencyParams: the activation date is not compared.
VerifyEmergencyParams_NoDelay(e, m) ==
    /\ m.waiting >= MinWait
    /\ m.sig = {Sign(m.announcer, EmergencyAnnouncement(e))}

\* The waiting period is measured between two dates of the epoch itself.
VerifyEmergencyParams(e, m) ==
    /\ m.waiting >= MinWait
    /\ e.activatedAt >= m.declaredAt + m.waiting
    /\ m.sig = {Sign(m.announcer, EmergencyAnnouncement(e))}

VerifyGenesis(e) ==
    /\ e.prevHash = {}
    /\ Len(e.ceremony) >= 2
    /\ \A i, j \in DOMAIN e.ceremony : e.ceremony[i].key = e.ceremony[j].key => i = j
    /\ \A i \in DOMAIN e.ceremony :
          /\ e.ceremony[i].key \in Ceremony
          /\ e.ceremony[i] = Sign(e.ceremony[i].key, GenesisCeremonyMessage(e))

VerifyLink(prev, e) ==
    /\ e.prevHash = {hash(prev)}
    /\ \A m \in e.emergency : VerifyEmergencyParams(e, m)
    /\ Len(e.signers) >= Required(prev, e.emergency)
    /\ Len(e.sigs) = Len(e.signers)
    /\ SignersOK(prev, e.signers)
    /\ \A i \in DOMAIN e.signers :
          e.sigs[i] = Sign(Key(prev, e.signers[i]), TransitionMessage(e))

\* VerifyChain returns without an error.  Every digest is recomputed.
VerifyChain(epochs) ==
    /\ epochs # << >>
    /\ \A i \in DOMAIN epochs : epochs[i].num = i - 1
    /\ VerifyGenesis(epochs[1])
    /\ \A i \in 2 .. Len(epochs) : VerifyLink(epochs[i-1], epochs[i])

-----------------------------------------------------------------------------
(* The ledger and its operators *)

Init ==
    /\ ledger = << >>
    /\ journal = << >>
    /\ view = [o \in Operators |-> {}]
    /\ draft = [o \in Operators |-> {}]
    /\ damaged = FALSE

Store(e) ==
    /\ ledger' = Append(ledger, e)
    /\ journal' = Append(journal, e)

Genesis(r, at, signers) ==
    /\ ledger = << >>
    /\ \E e \in SealGenesis(r, at, signers) : Store(e)
    /\ UNCHANGED <<view, draft, damaged>>

\* VerifyChain on the stored chain: its last epoch, digest cached, or nothing.
Load(o) ==
    /\ Len(ledger) \in 1 .. MaxEpochs - 1 /\ draft[o] = {}
    /\ view' = [view EXCEPT ![o] =
                  IF VerifyChain(ledger)
                  THEN {[Last(ledger) EXCEPT !.hash = {hash(Last(ledger))}]}
                  ELSE {}]
    /\ UNCHANGED <<ledger, journal, draft, damaged>>

\* The last epoch as stored: nothing is verified, the digest is the cached one.
Latest(o) ==
    /\ Len(ledger) \in 1 .. MaxEpochs - 1 /\ draft[o] = {}
    /\ view' = [view EXCEPT ![o] = {Last(ledger)}]
    /\ UNCHANGED <<ledger, journal, draft, damaged>>

Transition(o, r, at, signers) ==
    /\ \E current \in view[o] :
          \E e \in SealTransition(current, r, at, signers) :
             draft' = [draft EXCEPT ![o] = {e}]
    /\ view' = [view EXCEPT ![o] = {}]
    /\ UNCHANGED <<ledger, journal, damaged>>

Emergency(o, r, at, signers, t) ==
    /\ \E current \in view[o] :
          \E e \in SealEmergencyTransition(current, r, at, signers, t) :
             draft' = [draft EXCEPT ![o] = {e}]
    /\ view' = [view EXCEPT ![o] = {}]
    /\ UNCHANGED <<ledger, journal, damaged>>

\* The operator appends its draft to whatever the ledger holds by now.
Publish(o) ==
    /\ Len(ledger) < MaxEpochs
    /\ \E e \in draft[o] : Store(e)
    /\ draft' = [draft EXCEPT ![o] = {}]
    /\ UNCHANGED <<view, damaged>>

Reversed(w) == [i \in DOMAIN w |-> w[Len(w) + 1 - i]]

\* External: what a store may bring back in place of an epoch: a field with
\* another value, one that was not persisted, or rows in another order.
Damage(e) ==
    {[e EXCEPT !.threshold = 1], [e EXCEPT !.emergency = {}],
     [e EXCEPT !.hash = {}], [e EXCEPT !.num = @ + 1],
     [e EXCEPT !.activatedAt = @ + 1], [e EXCEPT !.witnesses = Reversed(@)]}
    \cup {[e EXCEPT !.witnesses = r.witnesses] : r \in Rosters}
    \cup {[e EXCEPT !.signers = s] : s \in SignerLists}

Corrupt(i, e) ==
    /\ ~damaged
    /\ e # ledger[i]
    /\ ledger' = [ledger EXCEPT ![i] = e]
    /\ damaged' = TRUE
    /\ UNCHANGED <<journal, view, draft>>

Next ==
    \/ \E r \in Rosters, at \in Dates, s \in CeremonyLists : Genesis(r, at, s)
    \/ \E o \in Operators : Load(o)
    \/ \E o \in Operators : Latest(o)
    \/ \E o \in Operators, r \in Rosters, at \in Dates, s \in SignerLists :
          Transition(o, r, at, s)
    \/ \E o \in Operators, r \in Rosters, at \in Dates, s \in SignerLists, t \in Terms :
          Emergency(o, r, at, s, t)
    \/ \E o \in Operators : Publish(o)
    \/ \E i \in DOMAIN ledger : \E e \in Damage(ledger[i]) : Corrupt(i, e)

Spec == Init /\ [][Next]_vars

-----------------------------------------------------------------------------
(* Properties *)

\* The type invariant; what was sealed has a threshold its roster can meet.
TypeOK ==
    /\ Len(ledger) = Len(journal) /\ Len(ledger) <= MaxEpochs
    /\ \A o \in Operators : Cardinality(view[o]) + Cardinality(draft[o]) <= 1
    /\ \A i \in DOMAIN journal :
          journal[i].threshold \in 1 .. Len(journal[i].witnesses)
    /\ damaged \in BOOLEAN

Content(e) ==
    <<e.num, {e.witnesses[i] : i \in DOMAIN e.witnesses}, Len(e.witnesses),
      e.threshold, e.activatedAt, EmergencyTerms(e)>>

\* A chain that passes VerifyChain says what its operators sealed: no damage
\* to a roster, a threshold, a date or the emergency mark of any stored
\* epoch goes unnoticed, the epoch at the end of the chain included.
DamageIsDetected ==
    VerifyChain(ledger) =>
        \A i \in DOMAIN ledger : Content(ledger[i]) = Content(journal[i])

\* Behind every epoch of a chain that passes VerifyChain stand the distinct
\* slots of the roster before it that the rule asks for, and behind the
\* genesis two distinct pinned signers, however the stored signer lists
\* and rosters were damaged and whichever operator appended what.
QuorumBehindEpoch ==
    VerifyChain(ledger) =>
        /\ Cardinality({c \in Ceremony : \E i \in DOMAIN ledger[1].ceremony :
              ledger[1].ceremony[i] = Sign(c, GenesisCeremonyMessage(journal[1]))}) >= 2
        /\ \A i \in 2 .. Len(ledger) :
              Cardinality({p \in Slots(journal[i-1]) : \E j \in DOMAIN ledger[i].sigs :
                  ledger[i].sigs[j] = Sign(Key(journal[i-1], p), TransitionMessage(journal[i]))})
                >= Required(journal[i-1], journal[i].emergency)

\* The keys that signed d are still at the positions that d names.
StillSigners(prev, d) ==
    \A i \in DOMAIN d.signers :
        d.signers[i] \in Slots(prev) /\ Key(prev, d.signers[i]) = d.sigs[i].key

\* When a sealed draft extends the ledger: exactly when the chain still
\* verifies, still ends in the epoch the draft was sealed from with its
\* witnesses in the places the signers know, and the waiting period of an
\* emergency lies before its activation.  A draft an operator sealed before
\* another one appended is refused; one sealed from an epoch read with
\* Latest is accepted only if that epoch was sound.
DraftFitsItsParentOnly ==
    \A o \in Operators : \A d \in draft[o] :
        VerifyChain(Append(ledger, d))
            <=> /\ VerifyChain(ledger)
                /\ d.prevHash = {hash(Last(ledger))}
                /\ StillSigners(Last(ledger), d)
                /\ \A m \in d.emergency : d.activatedAt >= m.declaredAt + m.waiting

-----------------------------------------------------------------------------
(* What a comment of the Epoch type says *)

\* roster_chain.go: "a SUPER-majority (>= 80 %) of the CURRENT epoch's
\* remaining witnesses can sign a recovery transition": when the witnesses
\* in `remaining` are too few for the normal threshold, 80 percent of them
\* get an emergency epoch sealed, and it extends the chain.
RemainingCanRecover ==
    VerifyChain(ledger) =>
        LET e == Last(ledger)
        IN  \A remaining \in SUBSET Slots(e) : \A s \in SignerLists :
              /\ Cardinality(remaining) \in 1 .. e.threshold - 1
              /\ Distinct(s) /\ {s[i] : i \in DOMAIN s} \subseteq remaining
              /\ Len(s) >= SuperMajority(Cardinality(remaining))
              => \E r \in Rosters, at \in Dates, t \in Terms :
                   \E d \in SealEmergencyTransition(e, r, at, s, t) :
                       VerifyChain(Append(ledger, d))
=============================================================================
