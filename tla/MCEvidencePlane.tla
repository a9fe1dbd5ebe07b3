--------------------------- MODULE MCEvidencePlane ---------------------------
(***************************************************************************)
(* Instances of EvidencePlane small enough for TLC: two owners, two        *)
(* installations, one service.                                             *)
(***************************************************************************)
EXTENDS EvidencePlane, TLC

CONSTANTS t1, t2, t3, r1, r2, i1, i2, inst1, inst2, svc, ownerA, ownerB

\* Everyone belongs to one owner, or the second installation to another.
OneOwner  == [p \in Installation \union Service |-> ownerA]
TwoOwners == [p \in Installation \union Service |->
                IF p = inst2 THEN ownerB ELSE ownerA]

\* Every event has a place of its own, or they all claim one.
OwnPlace == [i \in Id |-> i]
OnePlace == [i \in Id |-> 0]

Interchangeable == Permutations(Tx) \union Permutations(Run) \union Permutations(Id)

\* Transactions are told apart by nothing but the order they begin in, and the first is
\* not the second owner's. The second document goes to either run, the first to one.
\* One principal is revoked at most.
InTurn  == pc[t1] = "idle" => pc[t2] = "idle"
Bounded ==
    /\ InTurn
    /\ caller[t1] # inst2
    /\ \A t \in Tx : \A d \in batch[t] : d.id = i1 => d.run = r1
    /\ \A p, q \in revoked : p = q

\* What a transaction that aborted had been called with matters to no one.
Relevant ==
    <<shared, pc, wrote, put,
      [t \in Tx |-> IF pc[t] \in {"idle", "aborted"} THEN None
                    ELSE <<op[t], caller[t], batch[t], target[t], now[t], todo[t],
                           existing[t], accepted[t]>>]>>
=============================================================================
