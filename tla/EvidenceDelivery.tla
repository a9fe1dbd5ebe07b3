--------------------------- MODULE EvidenceDelivery ---------------------------
(***************************************************************************)
(* What the local side promises, without processes, pages or retries.      *)
(*                                                                         *)
(*  - Evidence recorded locally is never forgotten; the plane only ever    *)
(*    holds evidence that was recorded; and evidence is settled (no longer *)
(*    owed to the plane) only once the plane holds it.                     *)
(*  - A run is opened once.  From then on it may become "measured" or      *)
(*    "lost", and a lost run stays lost (D23).                             *)
(***************************************************************************)
CONSTANTS Evidence, Run

VARIABLES recorded, delivered, settled, verdict

vars == <<recorded, delivered, settled, verdict>>

Init ==
    /\ recorded \in SUBSET Evidence
    /\ delivered = {}
    /\ settled = {}
    /\ verdict = [r \in Run |-> "none"]

Record(e) ==
    /\ recorded' = recorded \union {e}
    /\ UNCHANGED <<delivered, settled, verdict>>

Deliver(E) ==
    /\ E \subseteq recorded
    /\ delivered' = delivered \union E
    /\ UNCHANGED <<recorded, settled, verdict>>

Settle(E) ==
    /\ E \subseteq delivered
    /\ settled' = settled \union E
    /\ UNCHANGED <<recorded, delivered, verdict>>

\* Allowed moves of a run's verdict.
Moves == { <<"none", "open">>, <<"open", "measured">>,
           <<"open", "lost">>, <<"measured", "lost">> }

Judge(r) ==
    /\ \E v \in {"open", "measured", "lost"} :
           /\ <<verdict[r], v>> \in Moves
           /\ verdict' = [verdict EXCEPT ![r] = v]
    /\ UNCHANGED <<recorded, delivered, settled>>

Next ==
    \/ \E e \in Evidence : Record(e)
    \/ \E E \in SUBSET recorded : Deliver(E)
    \/ \E E \in SUBSET delivered : Settle(E)
    \/ \E r \in Run : Judge(r)

Spec == Init /\ [][Next]_vars
=============================================================================
