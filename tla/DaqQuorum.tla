------------------------------ MODULE DaqQuorum ------------------------------
(***************************************************************************)
(* What the Distributed Attestation Quorum promises for one request: it is *)
(* decided once, and it is granted only on the word of a quorum of         *)
(* witnesses that had endorsed it before the decision.                     *)
(***************************************************************************)
CONSTANTS
    Witness,    \* the roster
    Quorums     \* the sets of witnesses whose word suffices

VARIABLES
    endorsed,   \* the witnesses that have endorsed the request
    verdict     \* "pending", "denied", or the set that backed the grant

vars == <<endorsed, verdict>>

Init == endorsed = {} /\ verdict = [kind |-> "pending", by |-> {}]

Endorse(w) ==
    /\ w \notin endorsed
    /\ endorsed' = endorsed \cup {w}
    /\ UNCHANGED verdict

Grant(Q) ==
    /\ verdict.kind = "pending"
    /\ Q \in Quorums /\ Q \subseteq endorsed
    /\ verdict' = [kind |-> "granted", by |-> Q]
    /\ UNCHANGED endorsed

Deny ==
    /\ verdict.kind = "pending"
    /\ verdict' = [kind |-> "denied", by |-> {}]
    /\ UNCHANGED endorsed

Next == Deny \/ (\E w \in Witness : Endorse(w)) \/ (\E Q \in Quorums : Grant(Q))

Spec == Init /\ [][Next]_vars
=============================================================================
