------------------------- MODULE EvidencePlaneProofs -------------------------
(***************************************************************************)
(* The Evidence Plane, proved for every number of transactions, owners,    *)
(* runs and documents: evidence carries the class and the owner its run    *)
(* has for good, a confirmed registration holds, an id and a place are one *)
(* piece of evidence, and the answer to an ingest is exact.                *)
(***************************************************************************)
EXTENDS EvidencePlane, TLAPS

USE DEF Goto, Open

-----------------------------------------------------------------------------
(***************************************************************************)
(* A row of runs says when the run started or was registered, and if both  *)
(* that it was registered first. What may change of a row that exists is   *)
(* only that it starts.                                                    *)
(***************************************************************************)
Good(row) ==
    /\ row.first # None \/ row.registered # None
    /\ row.first # None /\ row.registered # None => row.registered <= row.first

SameRun(old, new) ==
    /\ new.owner = old.owner
    /\ new.class = old.class
    /\ new.registered = old.registered

Ingesting == {"ensure", "first", "insert", "answer"}
Writing   == Ingesting \union {"commit"}

\* What a transaction was called with, and what its statements so far have established.
CallSound(t) ==
    /\ pc[t] # "idle" =>
         /\ caller[t] \in Principal
         /\ op[t] = "register" => target[t] \in [run : Run, class : Class]
         /\ op[t] # "register" => op[t] \in Ingest /\ batch[t] \in Batch
    /\ pc[t] \in Open /\ op[t] # "register" => caller[t] \in Installation
    /\ pc[t] \in Ingesting => op[t] # "register"
    /\ pc[t] \in {"select", "register"} => op[t] = "register"
    /\ pc[t] = "first" => op[t] = "event"

\* Which run rows its batch has found or made.
RunsSeen(t) ==
    /\ pc[t] \in {"ensure", "first"} => todo[t] \subseteq RunsOfBatch(t)
    /\ pc[t] = "ensure" => \A r \in RunsOfBatch(t) \ todo[t] : Visible(t, r) # None
    /\ pc[t] \in {"first", "insert"} => \A r \in RunsOfBatch(t) : Visible(t, r) # None
    /\ pc[t] = "register" /\ existing[t] # None => Good(existing[t])

\* An uncommitted run row is its transaction's alone, and continues the committed one.
RowsHeld ==
    \A t \in Tx, r \in Run : wrote[t][r] # None =>
        /\ pc[t] \in Writing
        /\ \A u \in Tx : wrote[u][r] # None => u = t
        /\ Good(wrote[t][r])
        /\ runs[r] # None => SameRun(runs[r], wrote[t][r]) /\ runs[r].first = None

RowsGood == \A r \in Run : runs[r] # None => Good(runs[r])

RowInv ==
    /\ TypeOK
    /\ \A t \in Tx : CallSound(t) /\ RunsSeen(t)
    /\ RowsHeld
    /\ RowsGood

-----------------------------------------------------------------------------
(***************************************************************************)
(* The steps, by what they do to run rows.                                 *)
(***************************************************************************)
Nothing == [r \in Run |-> None]

\* A transaction's statement writes one row, which nobody else holds.
Written(t, r, row) ==
    /\ runs' = runs
    /\ wrote' = [wrote EXCEPT ![t][r] = row]
    /\ pc'[t] \in Writing
    /\ row \in RunRow /\ Good(row)
    /\ ~HeldElsewhere(t, r)
    /\ runs[r] # None => SameRun(runs[r], row) /\ runs[r].first = None

Discarded(t) == runs' = runs /\ wrote' = [wrote EXCEPT ![t] = Nothing]

Committed(t) ==
    /\ pc[t] = "commit"
    /\ runs' = [r \in Run |-> Visible(t, r)]
    /\ wrote' = [wrote EXCEPT ![t] = Nothing]

RowStep(t) ==
    \/ UNCHANGED <<runs, wrote>> /\ (pc[t] \in Writing => pc'[t] \in Writing)
    \/ \E r \in Run, row \in RunRow : Written(t, r, row)
    \/ Discarded(t)
    \/ Committed(t)

\* A step of t, of whatever kind.
Moves(t) ==
    \/ \E kind \in Ingest, p \in Principal, b \in Batch : CallIngest(t, kind, p, b)
    \/ \E p \in Principal, r \in Run, c \in Class :
          CallRegister(t, p, [run |-> r, class |-> c])
    \/ Step(t)
    \/ Disconnect(t)

\* It leaves the other transactions as they are.
Apart(t) ==
    \A u \in Tx \ {t} :
        /\ pc'[u] = pc[u] /\ op'[u] = op[u] /\ caller'[u] = caller[u]
        /\ batch'[u] = batch[u] /\ target'[u] = target[u] /\ now'[u] = now[u]
        /\ todo'[u] = todo[u] /\ wrote'[u] = wrote[u] /\ put'[u] = put[u]
        /\ existing'[u] = existing[u] /\ accepted'[u] = accepted[u]

LEMMA StepApart ==
    ASSUME TypeOK, NEW t \in Tx, Moves(t)
    PROVE  Apart(t)
  <1>. USE DEF TypeOK, Apart
  <1>1. CASE \/ \E kind \in Ingest, p \in Principal, b \in Batch : CallIngest(t, kind, p, b)
             \/ \E p \in Principal, r \in Run, c \in Class :
                   CallRegister(t, p, [run |-> r, class |-> c])
    BY <1>1 DEF CallIngest, CallRegister, Invoke
  <1>2. CASE Abort(t)
    BY <1>2 DEF Abort, call
  <1>3. CASE Check(t) \/ Touch(t) \/ RunsEnsured(t) \/ FirstStamped(t) \/ Answer(t) \/ Select(t)
    BY <1>3 DEF Check, Touch, RunsEnsured, FirstStamped, Answer, Select, call
  <1>4. CASE \E r \in Run : EnsureRun(t, r) \/ FirstKnown(t, r) \/ StampFirst(t, r)
    BY <1>4 DEF EnsureRun, FirstKnown, StampFirst, Write, call
  <1>5. CASE InsertEvidence(t) \/ RegisterNew(t) \/ Commit(t)
    BY <1>5 DEF InsertEvidence, RegisterNew, Write, Commit, call
  <1>. QED  BY <1>1, <1>2, <1>3, <1>4, <1>5
            DEF Moves, Step, Disconnect, Refuse, FirstTooEarly, CrossOwner, Misplaced,
                RefuseRegistration, RegisteredMeanwhile, Victim

\* None is no time and no row.
LEMMA TimeIsNat == Time \subseteq Nat /\ None \notin Time /\ None \notin RunRow
  BY PlaneAssumption, NoneIsNotData DEF Time

LEMMA VisibleRow ==
    ASSUME TypeOK, NEW t \in Tx, NEW r \in Run
    PROVE  Visible(t, r) \in RunRow \union {None}
  BY DEF TypeOK, Visible

LEMMA StepRows ==
    ASSUME RowInv, NEW t \in Tx, Moves(t)
    PROVE  RowStep(t)
  <1>0. TypeOK /\ CallSound(t) /\ RunsSeen(t) /\ RowsHeld /\ RowsGood
    BY DEF RowInv
  <1>1. CASE \/ \E kind \in Ingest, p \in Principal, b \in Batch : CallIngest(t, kind, p, b)
             \/ \E p \in Principal, r \in Run, c \in Class :
                   CallRegister(t, p, [run |-> r, class |-> c])
    BY <1>1 DEF CallIngest, CallRegister, Invoke, RowStep, shared, Writing, Ingesting
  <1>2. CASE Abort(t)
    BY <1>2 DEF Abort, RowStep, Discarded, Nothing, shared
  <1>3. CASE Check(t) \/ Touch(t) \/ RunsEnsured(t) \/ FirstStamped(t) \/ Answer(t) \/ Select(t)
             \/ InsertEvidence(t) \/ \E r \in Run : FirstKnown(t, r)
    BY <1>0, <1>3 DEF Check, Touch, RunsEnsured, FirstStamped, Answer, Select, InsertEvidence,
                FirstKnown, RowStep, shared, Writing, Ingesting, TypeOK
  <1>4. ASSUME NEW r \in Run, EnsureRun(t, r) PROVE RowStep(t)
    <2>1. CASE runs[r] # None
      BY <1>4, <2>1 DEF EnsureRun, RowStep, shared, Writing, Ingesting
    <2>2. CASE runs[r] = None
      <3>. DEFINE row == [owner |-> OwnerOf[caller[t]], class |-> "operational",
                          registered |-> None, first |-> now[t]]
      <3>1. caller[t] \in Principal /\ now[t] \in Time
        BY <1>0, <1>4 DEF CallSound, EnsureRun, TypeOK
      <3>2. row \in RunRow
        BY <3>1, PlaneAssumption DEF RunRow, Owner
      <3>3. Good(row)
        BY <3>1, TimeIsNat DEF Good
      <3>4. wrote' = [wrote EXCEPT ![t][r] = row] /\ runs' = runs
        BY <1>4, <2>2 DEF EnsureRun, Write, shared
      <3>. HIDE DEF row
      <3>5. Written(t, r, row)
        BY <1>4, <2>2, <3>2, <3>3, <3>4 DEF Written, EnsureRun, Writing, Ingesting
      <3>. QED  BY <3>2, <3>5 DEF RowStep
    <2>. QED  BY <2>1, <2>2
  <1>5. ASSUME NEW r \in Run, StampFirst(t, r) PROVE RowStep(t)
    <2>. DEFINE row == [Visible(t, r) EXCEPT !.first = now[t]]
    <2>1. Visible(t, r) \in RunRow /\ now[t] \in Time /\ Visible(t, r).first = None
      BY <1>0, <1>5, VisibleRow DEF RunsSeen, StampFirst, TypeOK
    <2>2. row \in RunRow /\ row.first = now[t] /\ SameRun(Visible(t, r), row)
      BY <2>1 DEF RunRow, SameRun
    <2>3. Good(row)
      <3>1. row.registered = Visible(t, r).registered /\ row.registered \in Time \union {None}
        BY <2>1, <2>2 DEF SameRun, RunRow
      <3>2. row.registered # None => ~(now[t] < row.registered)
        BY <1>5, <3>1 DEF StampFirst, Precedes
      <3>. HIDE DEF row
      <3>3. now[t] \in Nat /\ now[t] # None
        BY <2>1, TimeIsNat
      <3>4. row.registered # None => row.registered \in Nat
        BY <3>1, TimeIsNat
      <3>5. row.registered # None => row.registered <= now[t]
        BY <3>2, <3>3, <3>4
      <3>6. row.first = now[t]
        BY <2>2
      <3>. QED  BY <3>3, <3>5, <3>6 DEF Good
    <2>4. wrote' = [wrote EXCEPT ![t][r] = row] /\ runs' = runs
      BY <1>5 DEF StampFirst, Write, shared
    <2>. HIDE DEF row
    <2>5. ASSUME runs[r] # None PROVE SameRun(runs[r], row) /\ runs[r].first = None
      <3>1. CASE wrote[t][r] = None
        BY <2>1, <2>2, <3>1 DEF Visible
      <3>2. CASE wrote[t][r] # None
        BY <1>0, <2>2, <2>5, <3>2 DEF Visible, RowsHeld, SameRun
      <3>. QED  BY <3>1, <3>2
    <2>6. Written(t, r, row)
      BY <1>5, <2>2, <2>3, <2>4, <2>5 DEF Written, StampFirst, Writing, Ingesting
    <2>. QED  BY <2>2, <2>6 DEF RowStep
  <1>6. CASE RegisterNew(t)
    <2>. DEFINE r == target[t].run
                row == [owner |-> OwnerOf[caller[t]], class |-> target[t].class,
                        registered |-> now[t], first |-> None]
    <2>1. /\ caller[t] \in Principal /\ now[t] \in Time
          /\ target[t] \in [run : Run, class : Class]
      BY <1>0, <1>6 DEF CallSound, RegisterNew, TypeOK
    <2>2. r \in Run /\ row \in RunRow
      BY <2>1, PlaneAssumption DEF RunRow, Owner
    <2>3. Good(row)
      BY <2>1, TimeIsNat DEF Good
    <2>4. wrote' = [wrote EXCEPT ![t][r] = row] /\ runs' = runs
      BY <1>6 DEF RegisterNew, Write, shared
    <2>5. pc'[t] \in Writing /\ ~HeldElsewhere(t, r) /\ runs[r] = None
      BY <1>0, <1>6 DEF RegisterNew, Writing, TypeOK
    <2>. HIDE DEF row, r
    <2>6. Written(t, r, row)
      BY <2>2, <2>3, <2>4, <2>5 DEF Written
    <2>. QED  BY <2>2, <2>6 DEF RowStep
  <1>7. CASE Commit(t)
    BY <1>7 DEF Commit, RowStep, Committed, Nothing
  <1>. QED  BY <1>1, <1>2, <1>3, <1>4, <1>5, <1>6, <1>7
            DEF Moves, Step, Disconnect, Refuse, FirstTooEarly, CrossOwner, Misplaced,
                RefuseRegistration, RegisteredMeanwhile, Victim

-----------------------------------------------------------------------------
(***************************************************************************)
(* What such a step preserves of the run rows.                             *)
(***************************************************************************)
Continued(old, new) ==
    /\ new # None
    /\ SameRun(old, new)
    /\ old.first # None => new.first = old.first

RunsContinue == \A r \in Run : runs[r] # None => Continued(runs[r], runs'[r])

LEMMA RowTypes ==
    ASSUME TypeOK, NEW t \in Tx, RowStep(t)
    PROVE  /\ runs' \in [Run -> RunRow \union {None}]
           /\ wrote' \in [Tx -> [Run -> RunRow \union {None}]]
  <1>. USE DEF TypeOK
  <1>1. CASE UNCHANGED <<runs, wrote>>
    BY <1>1
  <1>2. CASE \E r \in Run, row \in RunRow : Written(t, r, row)
    BY <1>2 DEF Written
  <1>3. CASE Discarded(t)
    BY <1>3 DEF Discarded, Nothing
  <1>4. CASE Committed(t)
    BY <1>4, VisibleRow DEF Committed, Nothing
  <1>. QED  BY <1>1, <1>2, <1>3, <1>4 DEF RowStep

LEMMA StepContinues ==
    ASSUME RowInv, NEW t \in Tx, RowStep(t)
    PROVE  RunsContinue
  <1>0. TypeOK /\ RowsHeld
    BY DEF RowInv
  <1>1. CASE runs' = runs
    BY <1>1 DEF RunsContinue, Continued, SameRun
  <1>2. CASE Committed(t)
    <2>1. ASSUME NEW r \in Run, runs[r] # None PROVE Continued(runs[r], runs'[r])
      <3>1. runs'[r] = Visible(t, r)
        BY <1>2 DEF Committed
      <3>2. CASE wrote[t][r] = None
        BY <2>1, <3>1, <3>2 DEF Visible, Continued, SameRun
      <3>3. CASE wrote[t][r] # None
        BY <1>0, <2>1, <3>1, <3>3 DEF Visible, Continued, RowsHeld
      <3>. QED  BY <3>2, <3>3
    <2>. QED  BY <2>1 DEF RunsContinue
  <1>. QED  BY <1>1, <1>2 DEF RowStep, Written, Discarded

LEMMA StepHeld ==
    ASSUME RowInv, NEW t \in Tx, RowStep(t), Apart(t)
    PROVE  RowsHeld' /\ RowsGood'
  <1>0. TypeOK /\ RowsHeld /\ RowsGood
    BY DEF RowInv
  <1>1. CASE UNCHANGED <<runs, wrote>> /\ (pc[t] \in Writing => pc'[t] \in Writing)
    <2>1. ASSUME NEW u \in Tx, pc[u] \in Writing PROVE pc'[u] \in Writing
      BY <1>1, <2>1 DEF Apart
    <2>. QED  BY <1>0, <1>1, <2>1 DEF RowsHeld, RowsGood
  <1>2. ASSUME NEW r \in Run, NEW row \in RunRow, Written(t, r, row)
        PROVE  RowsHeld' /\ RowsGood'
    <2>1. /\ wrote' \in [Tx -> [Run -> RunRow \union {None}]]
          /\ wrote'[t][r] = row /\ runs' = runs
          /\ \A u \in Tx, q \in Run : u # t \/ q # r => wrote'[u][q] = wrote[u][q]
      BY <1>0, <1>2 DEF Written, TypeOK
    <2>2. row # None /\ Good(row) /\ pc'[t] \in Writing
      BY <1>2, TimeIsNat DEF Written
    <2>3. \A u \in Tx : wrote'[u][r] # None => u = t
      BY <1>2, <2>1 DEF Written, HeldElsewhere
    <2>4. runs[r] # None => SameRun(runs[r], row) /\ runs[r].first = None
      BY <1>2 DEF Written
    <2>5. ASSUME NEW u \in Tx, NEW q \in Run, wrote'[u][q] # None
          PROVE  /\ pc'[u] \in Writing
                 /\ \A v \in Tx : wrote'[v][q] # None => v = u
                 /\ Good(wrote'[u][q])
                 /\ runs'[q] # None => SameRun(runs'[q], wrote'[u][q]) /\ runs'[q].first = None
      <3>1. CASE q = r
        BY <2>1, <2>2, <2>3, <2>4, <2>5, <3>1
      <3>2. CASE q # r
        <4>1. /\ pc[u] \in Writing
              /\ \A v \in Tx : wrote[v][q] # None => v = u
              /\ Good(wrote[u][q])
              /\ runs[q] # None => SameRun(runs[q], wrote[u][q]) /\ runs[q].first = None
          BY <1>0, <2>1, <2>5, <3>2 DEF RowsHeld
        <4>. QED  BY <2>1, <2>2, <3>2, <4>1 DEF Apart
      <3>. QED  BY <3>1, <3>2
    <2>. QED  BY <1>0, <2>1, <2>5 DEF RowsHeld, RowsGood
  <1>3. CASE Discarded(t) \/ Committed(t)
    <2>1. /\ \A r \in Run : wrote'[t][r] = None
          /\ \A u \in Tx \ {t} : wrote'[u] = wrote[u] /\ pc'[u] = pc[u]
      BY <1>0, <1>3 DEF Discarded, Committed, Nothing, Apart, TypeOK
    <2>2. ASSUME NEW r \in Run PROVE runs'[r] = runs[r] \/ (runs'[r] = wrote[t][r] /\ wrote[t][r] # None)
      <3>1. CASE Discarded(t)
        BY <3>1 DEF Discarded
      <3>2. CASE Committed(t)
        BY <3>2 DEF Committed, Visible
      <3>. QED  BY <1>3, <3>1, <3>2
    <2>3. ASSUME NEW u \in Tx, NEW q \in Run, wrote'[u][q] # None
          PROVE  /\ pc'[u] \in Writing
                 /\ \A v \in Tx : wrote'[v][q] # None => v = u
                 /\ Good(wrote'[u][q])
                 /\ runs'[q] # None => SameRun(runs'[q], wrote'[u][q]) /\ runs'[q].first = None
      <3>1. u # t /\ wrote'[u][q] = wrote[u][q] /\ pc'[u] = pc[u]
        BY <2>1, <2>3
      <3>2. runs'[q] = runs[q]
        BY <1>0, <2>2, <2>3, <3>1 DEF RowsHeld
      <3>. QED  BY <1>0, <2>1, <2>3, <3>1, <3>2 DEF RowsHeld
    <2>. QED  BY <1>0, <2>2, <2>3 DEF RowsHeld, RowsGood
  <1>. QED  BY <1>1, <1>2, <1>3 DEF RowStep

-----------------------------------------------------------------------------
(***************************************************************************)
(* The calls: types, and what each has established.                        *)
(***************************************************************************)
LEMMA BatchTyped ==
    ASSUME NEW b \in Batch
    PROVE  /\ b \subseteq Payload
           /\ \A d \in b : d.id \in Id /\ d.run \in Run
           /\ \A d, e \in b : d.id = e.id => d = e
  BY DEF Batch, Payload

LEMMA InsertTyped ==
    ASSUME RowInv, NEW t \in Tx, InsertEvidence(t)
    PROVE  {Stamped(t, d) : d \in NewTo(t)} \subseteq Evidence
  <1>0. TypeOK /\ CallSound(t) /\ RunsSeen(t)
    BY DEF RowInv
  <1>1. /\ op[t] \in Ingest /\ batch[t] \in Batch /\ caller[t] \in Installation
    BY <1>0 DEF CallSound, InsertEvidence, Ingesting
  <1>2. ASSUME NEW d \in NewTo(t) PROVE Stamped(t, d) \in Evidence
    <2>1. d \in batch[t] /\ d.id \in Id /\ d.run \in Run
      BY <1>1, <1>2, BatchTyped DEF NewTo
    <2>2. Visible(t, d.run) \in RunRow
      <3>1. Visible(t, d.run) # None
        BY <1>0, <2>1 DEF RunsSeen, RunsOfBatch, InsertEvidence
      <3>. QED  BY <1>0, <2>1, <3>1, VisibleRow
    <2>3. Visible(t, d.run).class \in Class
      BY <2>2 DEF RunRow
    <2>4. OwnerOf[caller[t]] \in Owner
      BY <1>1 DEF Owner, Principal
    <2>. HIDE DEF Visible
    <2>. QED  BY <1>1, <2>1, <2>3, <2>4 DEF Stamped, Evidence
  <1>. QED  BY <1>2

LEMMA StepTyped ==
    ASSUME RowInv, NEW t \in Tx, Moves(t), RowStep(t)
    PROVE  TypeOK'
  <1>0. TypeOK /\ CallSound(t) /\ RunsSeen(t)
    BY DEF RowInv
  <1>1. /\ runs' \in [Run -> RunRow \union {None}]
        /\ wrote' \in [Tx -> [Run -> RunRow \union {None}]]
    BY <1>0, RowTypes
  <1>. USE DEF TypeOK
  <1>2. CASE \/ \E kind \in Ingest, p \in Principal, b \in Batch : CallIngest(t, kind, p, b)
             \/ \E p \in Principal, r \in Run, c \in Class :
                   CallRegister(t, p, [run |-> r, class |-> c])
    <2>1. ASSUME NEW kind \in Ingest, NEW p \in Principal, NEW b \in Batch, CallIngest(t, kind, p, b)
          PROVE  TypeOK'
      BY <1>0, <1>1, <2>1 DEF CallIngest, Invoke, Operation, shared
    <2>2. ASSUME NEW p \in Principal, NEW g \in [run : Run, class : Class], CallRegister(t, p, g)
          PROVE  TypeOK'
      BY <1>0, <1>1, <2>2 DEF CallRegister, Invoke, Operation, shared
    <2>. QED  BY <1>2, <2>1, <2>2
  <1>3. CASE Abort(t)
    BY <1>0, <1>1, <1>3 DEF Abort, shared, call
  <1>4. CASE Check(t) \/ FirstStamped(t)
    BY <1>0, <1>1, <1>4 DEF Check, FirstStamped, shared, call
  <1>10. ASSUME NEW r \in Run, EnsureRun(t, r) \/ FirstKnown(t, r) \/ StampFirst(t, r)
         PROVE  TypeOK'
    <2>1. /\ todo' = [todo EXCEPT ![t] = @ \ {r}]
          /\ UNCHANGED <<shared, pc, call, put, existing, accepted>>
      BY <1>10 DEF EnsureRun, FirstKnown, StampFirst
    <2>. QED  BY <1>0, <1>1, <2>1 DEF shared, call
  <1>5. CASE Touch(t) \/ RunsEnsured(t)
    <2>1. ASSUME op[t] # "register", pc[t] # "idle" PROVE RunsOfBatch(t) \subseteq Run
      BY <1>0, <2>1, BatchTyped DEF CallSound, RunsOfBatch
    <2>2. /\ pc' \in [Tx -> Open \union {"idle", "check", "committed", "aborted"}]
          /\ UNCHANGED <<shared, call, put, existing, accepted>>
      BY <1>0, <1>5 DEF Touch, RunsEnsured
    <2>3. \/ todo' = todo
          \/ todo' = [todo EXCEPT ![t] = RunsOfBatch(t)] /\ op[t] # "register"
      BY <1>0, <1>5 DEF Touch, RunsEnsured, CallSound, Ingesting
    <2>4. todo' \in [Tx -> SUBSET Run]
      BY <1>0, <1>5, <2>1, <2>3 DEF Touch, RunsEnsured
    <2>. QED  BY <1>0, <1>1, <2>2, <2>4 DEF shared, call
  <1>6. CASE Select(t) \/ RegisterNew(t)
    <2>1. target[t].run \in Run
      BY <1>0, <1>6 DEF Select, RegisterNew, CallSound
    <2>2. Visible(t, target[t].run) \in RunRow \union {None}
      BY <1>0, <2>1, VisibleRow
    <2>3. CASE Select(t)
      BY <1>0, <1>1, <2>2, <2>3 DEF Select, shared, call
    <2>4. CASE RegisterNew(t)
      BY <1>0, <1>1, <2>4 DEF RegisterNew, Write, shared, call
    <2>. QED  BY <1>6, <2>3, <2>4
  <1>7. CASE InsertEvidence(t)
    <2>1. {Stamped(t, d) : d \in NewTo(t)} \subseteq Evidence
      BY <1>7, InsertTyped
    <2>. QED  BY <1>0, <1>1, <1>7, <2>1 DEF InsertEvidence, shared, call
  <1>8. CASE Answer(t)
    <2>1. batch[t] \subseteq Payload
      BY <1>0, <1>8, BatchTyped DEF Answer, CallSound, Ingesting
    <2>2. accepted' \in [Tx -> SUBSET Id]
      BY <1>0, <1>8, <2>1 DEF Answer, Payload
    <2>. QED  BY <1>0, <1>1, <1>8, <2>2 DEF Answer, shared, call
  <1>9. CASE Commit(t)
    BY <1>0, <1>1, <1>9 DEF Commit, call
  <1>. QED  BY <1>2, <1>3, <1>4, <1>5, <1>6, <1>7, <1>8, <1>9, <1>10
            DEF Moves, Step, Disconnect, Refuse, FirstTooEarly, CrossOwner, Misplaced,
                RefuseRegistration, RegisteredMeanwhile, Victim

\* A statement that others cannot disturb: a row that was seen stays to be seen.
LEMMA OthersSee ==
    ASSUME RowInv, NEW t \in Tx, RunsContinue, Apart(t), NEW u \in Tx \ {t}
    PROVE  CallSound(u)' /\ RunsSeen(u)'
  <1>0. CallSound(u) /\ RunsSeen(u)
    BY DEF RowInv
  <1>1. ASSUME NEW r \in Run, Visible(u, r) # None PROVE Visible(u, r)' # None
    BY <1>1 DEF Apart, Visible, RunsContinue, Continued
  <1>2. RunsOfBatch(u)' = RunsOfBatch(u)
    BY DEF Apart, RunsOfBatch
  <1>3. CallSound(u)'
    BY <1>0 DEF Apart, CallSound
  <1>4. pc[u] \in Ingesting => RunsOfBatch(u) \subseteq Run
    BY <1>0, BatchTyped DEF CallSound, Ingesting, RunsOfBatch
  <1>5. RunsSeen(u)'
    BY <1>0, <1>1, <1>2, <1>4 DEF Apart, RunsSeen, Ingesting
  <1>. QED  BY <1>3, <1>5

LEMMA StepCalls ==
    ASSUME RowInv, NEW t \in Tx, Moves(t), RowStep(t), RunsContinue
    PROVE  CallSound(t)' /\ RunsSeen(t)'
  <1>0. TypeOK /\ CallSound(t) /\ RunsSeen(t) /\ RowsGood /\ RowsHeld
    BY DEF RowInv
  <1>. USE DEF TypeOK
  <1>1. ASSUME NEW kind \in Ingest, NEW p \in Principal, NEW b \in Batch, CallIngest(t, kind, p, b)
        PROVE  CallSound(t)' /\ RunsSeen(t)'
    <2>1. /\ pc'[t] = "check" /\ op'[t] = kind /\ caller'[t] = p /\ batch'[t] = b
      BY <1>0, <1>1 DEF CallIngest, Invoke
    <2>2. kind # "register"
      BY PlaneAssumption
    <2>. QED  BY <2>1, <2>2 DEF CallSound, RunsSeen, Ingesting
  <1>2. ASSUME NEW p \in Principal, NEW g \in [run : Run, class : Class], CallRegister(t, p, g)
        PROVE  CallSound(t)' /\ RunsSeen(t)'
    <2>1. /\ pc'[t] = "check" /\ op'[t] = "register" /\ caller'[t] = p /\ target'[t] = g
      BY <1>0, <1>2 DEF CallRegister, Invoke
    <2>. QED  BY <2>1 DEF CallSound, RunsSeen, Ingesting
  <1>3. CASE Abort(t) /\ pc[t] # "idle"
    <2>1. /\ pc'[t] = "aborted" /\ UNCHANGED call
      BY <1>0, <1>3 DEF Abort
    <2>2. CallSound(t)'
      BY <1>0, <1>3, <2>1 DEF CallSound, call, Ingesting
    <2>3. RunsSeen(t)'
      BY <2>1 DEF RunsSeen
    <2>. QED  BY <2>2, <2>3
  <1>4. CASE Check(t)
    <2>1. /\ pc[t] = "check" /\ pc'[t] = "touch" /\ UNCHANGED call
          /\ op[t] # "register" => caller[t] \in Installation
      BY <1>0, <1>4 DEF Check, Permitted
    <2>. QED  BY <1>0, <2>1 DEF CallSound, RunsSeen, Ingesting, call
  <1>5. CASE Touch(t)
    <2>1. /\ pc[t] = "touch" /\ UNCHANGED <<call, wrote, shared>>
          /\ IF op[t] = "register" THEN pc'[t] = "select"
                                   ELSE pc'[t] = "ensure" /\ todo'[t] = RunsOfBatch(t)
      BY <1>0, <1>5 DEF Touch
    <2>2. RunsOfBatch(t)' = RunsOfBatch(t)
      BY <2>1 DEF call, RunsOfBatch
    <2>. QED  BY <1>0, <2>1, <2>2 DEF CallSound, RunsSeen, Ingesting, call
  <1>6. ASSUME NEW r \in Run, EnsureRun(t, r) PROVE CallSound(t)' /\ RunsSeen(t)'
    <2>1. /\ pc[t] = "ensure" /\ pc'[t] = "ensure" /\ UNCHANGED <<call, shared>>
          /\ todo'[t] = todo[t] \ {r}
      BY <1>0, <1>6 DEF EnsureRun
    <2>2. RunsOfBatch(t)' = RunsOfBatch(t)
      BY <2>1 DEF call, RunsOfBatch
    <2>3. Visible(t, r)' # None
      <3>1. CASE runs[r] # None
        BY <1>6, <2>1, <3>1 DEF EnsureRun, Visible, shared
      <3>2. CASE runs[r] = None
        <4>. DEFINE row == [owner |-> OwnerOf[caller[t]], class |-> "operational",
                            registered |-> None, first |-> now[t]]
        <4>1. wrote'[t][r] = row
          BY <1>0, <1>6, <3>2 DEF EnsureRun, Write
        <4>2. row \in RunRow
          BY <1>0, <2>1, PlaneAssumption DEF RunRow, Owner, CallSound
        <4>. HIDE DEF row
        <4>3. row # None
          BY <4>2, TimeIsNat
        <4>. QED  BY <4>1, <4>3 DEF Visible
      <3>. QED  BY <3>1, <3>2
    <2>4. ASSUME NEW q \in Run, q # r PROVE Visible(t, q)' = Visible(t, q)
      BY <1>0, <1>6, <2>1, <2>4 DEF EnsureRun, Write, Visible, shared
    <2>5. RunsOfBatch(t) \subseteq Run
      BY <1>0, <2>1, BatchTyped DEF CallSound, Ingesting, RunsOfBatch
    <2>6. \A q \in RunsOfBatch(t) \ (todo[t] \ {r}) : Visible(t, q)' # None
      BY <1>0, <2>1, <2>3, <2>4, <2>5 DEF RunsSeen
    <2>. QED  BY <1>0, <2>1, <2>2, <2>6 DEF CallSound, RunsSeen, Ingesting, call
  <1>7. CASE RunsEnsured(t)
    <2>1. /\ pc[t] = "ensure" /\ UNCHANGED <<call, wrote, shared>> /\ todo[t] = {}
          /\ IF op[t] = "event" THEN pc'[t] = "first" /\ todo'[t] = RunsOfBatch(t)
                                ELSE pc'[t] = "insert"
      BY <1>0, <1>7 DEF RunsEnsured
    <2>2. RunsOfBatch(t)' = RunsOfBatch(t)
      BY <2>1 DEF call, RunsOfBatch
    <2>3. \A r : Visible(t, r)' = Visible(t, r)
      BY <2>1 DEF Visible, shared
    <2>. QED  BY <1>0, <2>1, <2>2, <2>3 DEF CallSound, RunsSeen, Ingesting, call
  <1>8. ASSUME NEW r \in Run, FirstKnown(t, r) \/ StampFirst(t, r)
        PROVE  CallSound(t)' /\ RunsSeen(t)'
    <2>1. /\ pc[t] = "first" /\ pc'[t] = "first" /\ UNCHANGED <<call, shared>>
          /\ todo'[t] = todo[t] \ {r} /\ r \in todo[t]
      BY <1>0, <1>8 DEF FirstKnown, StampFirst
    <2>2. RunsOfBatch(t)' = RunsOfBatch(t)
      BY <2>1 DEF call, RunsOfBatch
    <2>3. RunsOfBatch(t) \subseteq Run
      BY <1>0, <2>1, BatchTyped DEF CallSound, Ingesting, RunsOfBatch
    <2>4. ASSUME NEW q \in Run, Visible(t, q) # None PROVE Visible(t, q)' # None
      <3>1. CASE FirstKnown(t, r)
        BY <2>4, <3>1 DEF FirstKnown, Visible, shared
      <3>2. CASE StampFirst(t, r)
        <4>1. /\ wrote' = [wrote EXCEPT ![t][r] = [Visible(t, r) EXCEPT !.first = now[t]]]
              /\ runs' = runs
          BY <3>2 DEF StampFirst, Write, shared
        <4>2. CASE q = r
          <5>1. Visible(t, r) \in RunRow
            BY <1>0, <2>4, <4>2, VisibleRow
          <5>2. [Visible(t, r) EXCEPT !.first = now[t]] \in RunRow
            BY <1>0, <5>1 DEF RunRow
          <5>. QED  BY <1>0, <4>1, <4>2, <5>2, TimeIsNat DEF Visible
        <4>3. CASE q # r
          BY <1>0, <2>4, <4>1, <4>3 DEF Visible
        <4>. QED  BY <4>2, <4>3
      <3>. QED  BY <1>8, <3>1, <3>2
    <2>. QED  BY <1>0, <2>1, <2>2, <2>3, <2>4 DEF CallSound, RunsSeen, Ingesting, call
  <1>9. CASE FirstStamped(t) \/ InsertEvidence(t) \/ Answer(t)
    <2>1. /\ <<pc[t], pc'[t]>> \in {<<"first", "insert">>, <<"insert", "answer">>, <<"answer", "commit">>}
          /\ UNCHANGED <<call, wrote, shared>>
      BY <1>0, <1>9 DEF FirstStamped, InsertEvidence, Answer
    <2>2. RunsOfBatch(t)' = RunsOfBatch(t)
      BY <2>1 DEF call, RunsOfBatch
    <2>3. \A r : Visible(t, r)' = Visible(t, r)
      BY <2>1 DEF Visible, shared
    <2>. QED  BY <1>0, <2>1, <2>2, <2>3 DEF CallSound, RunsSeen, Ingesting, call
  <1>10. CASE Select(t)
    <2>1. /\ pc[t] = "select" /\ pc'[t] = "register" /\ UNCHANGED call
          /\ existing'[t] = Visible(t, target[t].run)
      BY <1>0, <1>10 DEF Select
    <2>2. target[t].run \in Run
      BY <1>0, <2>1 DEF CallSound
    <2>3. Visible(t, target[t].run) # None => Good(Visible(t, target[t].run))
      BY <1>0, <2>2 DEF Visible, RowsHeld, RowsGood
    <2>. QED  BY <1>0, <2>1, <2>3 DEF CallSound, RunsSeen, Ingesting, call
  <1>11. CASE RegisterNew(t)
    <2>1. pc[t] = "register" /\ pc'[t] = "commit" /\ UNCHANGED call
      BY <1>0, <1>11 DEF RegisterNew
    <2>. QED  BY <1>0, <2>1 DEF CallSound, RunsSeen, Ingesting, call
  <1>12. CASE Commit(t)
    <2>1. pc[t] = "commit" /\ pc'[t] = "committed" /\ UNCHANGED call
      BY <1>0, <1>12 DEF Commit
    <2>. QED  BY <1>0, <2>1 DEF CallSound, RunsSeen, Ingesting, call
  <1>. QED  BY <1>1, <1>2, <1>3, <1>4, <1>5, <1>6, <1>7, <1>8, <1>9, <1>10, <1>11, <1>12
            DEF Moves, Step, Disconnect, Refuse, FirstTooEarly, CrossOwner, Misplaced,
                RefuseRegistration, RegisteredMeanwhile, Victim, WaitsFor

\* The plane's other steps, and stuttering, touch no transaction and no row.
LEMMA QuietKeeps ==
    ASSUME RowInv, \/ Tick \/ UNCHANGED vars \/ \E p \in Principal : Revoke(p)
    PROVE  RowInv' /\ RunsContinue
  <1>1. UNCHANGED <<runs, evidence, pc, call, todo, wrote, put, existing, accepted>>
    BY DEF Tick, Revoke, vars, shared
  <1>2. TypeOK'
    BY <1>1, PlaneAssumption DEF RowInv, TypeOK, call, Tick, Revoke, vars, shared, Time
  <1>3. ASSUME NEW t \in Tx PROVE CallSound(t)' /\ RunsSeen(t)'
    <2>1. CallSound(t) /\ RunsSeen(t)
      BY DEF RowInv
    <2>. QED  BY <1>1, <2>1 DEF CallSound, RunsSeen, RunsOfBatch, Visible, call
  <1>4. RowsHeld' /\ RowsGood'
    BY <1>1 DEF RowInv, RowsHeld, RowsGood
  <1>5. RunsContinue
    BY <1>1 DEF RunsContinue, Continued, SameRun
  <1>. QED  BY <1>2, <1>3, <1>4, <1>5 DEF RowInv

LEMMA RowStart == Init => RowInv
  <1>. SUFFICES ASSUME Init PROVE RowInv
    OBVIOUS
  <1>1. TypeOK
    BY PlaneAssumption DEF Init, TypeOK, Time, Operation
  <1>2. \A t \in Tx : CallSound(t) /\ RunsSeen(t)
    BY DEF Init, CallSound, RunsSeen, Ingesting
  <1>3. RowsHeld /\ RowsGood
    BY DEF Init, RowsHeld, RowsGood
  <1>. QED  BY <1>1, <1>2, <1>3 DEF RowInv

\* Every step is a transaction's or one of those.
LEMMA NextCases ==
    ASSUME [Next]_vars
    PROVE  \/ \E t \in Tx : Moves(t)
           \/ Tick \/ UNCHANGED vars \/ \E p \in Principal : Revoke(p)
  BY DEF Next, Moves

LEMMA RowNext == RowInv /\ [Next]_vars => RowInv' /\ RunsContinue
  <1>. SUFFICES ASSUME RowInv, [Next]_vars PROVE RowInv' /\ RunsContinue
    OBVIOUS
  <1>1. ASSUME NEW t \in Tx, Moves(t) PROVE RowInv' /\ RunsContinue
    <2>1. Apart(t) /\ RowStep(t)
      BY <1>1, StepApart, StepRows DEF RowInv
    <2>2. RunsContinue /\ RowsHeld' /\ RowsGood'
      BY <2>1, StepContinues, StepHeld
    <2>3. TypeOK'
      BY <1>1, <2>1, StepTyped
    <2>4. \A u \in Tx : CallSound(u)' /\ RunsSeen(u)'
      BY <1>1, <2>1, <2>2, StepCalls, OthersSee
    <2>. QED  BY <2>2, <2>3, <2>4 DEF RowInv
  <1>. QED  BY <1>1, NextCases, QuietKeeps

(***************************************************************************)
(* Type correctness of the plane.                                          *)
(***************************************************************************)
THEOREM TypeCorrect == Spec => []TypeOK
  <1>1. RowInv => TypeOK
    BY DEF RowInv
  <1>. QED  BY RowStart, RowNext, <1>1, PTL DEF Spec

(***************************************************************************)
(* A committed run keeps its owner, its class and its first event, and no  *)
(* registration is ever later than the first event of its run.             *)
(***************************************************************************)
THEOREM Settled == Spec => RunsSettled
  <1>. DEFINE Kept ==
         \A r \in Run :
           /\ runs[r] # None =>
                /\ runs'[r] # None
                /\ runs'[r].owner = runs[r].owner
                /\ runs'[r].class = runs[r].class
                /\ runs[r].first # None => runs'[r].first = runs[r].first
           /\ runs'[r] # None /\ runs'[r].registered # None /\ runs'[r].first # None =>
                runs'[r].registered <= runs'[r].first
  <1>1. RowInv /\ [Next]_vars => [Kept]_runs
    <2>1. SUFFICES ASSUME RowInv, [Next]_vars PROVE Kept
      OBVIOUS
    <2>2. RunsContinue /\ RowsGood'
      BY <2>1, RowNext DEF RowInv
    <2>. QED  BY <2>2 DEF RunsContinue, Continued, SameRun, RowsGood, Good
  <1>. QED  BY RowStart, RowNext, <1>1, PTL DEF Spec, RunsSettled

(***************************************************************************)
(* The third branch of register_run is never taken: the select finds no    *)
(* row that is neither started nor registered.                             *)
(***************************************************************************)
THEOREM DeadBranch == Spec => []UpdateBranchDead
  <1>1. RowInv => UpdateBranchDead
    BY DEF RowInv, RunsSeen, Good, UpdateBranchDead
  <1>. QED  BY RowStart, RowNext, <1>1, PTL DEF Spec

-----------------------------------------------------------------------------
(***************************************************************************)
(* Evidence: a row carries the owner and, unless it is a snapshot's, the   *)
(* class of its run, from the moment it is inserted.                       *)
(***************************************************************************)
Carries(e, row) ==
    /\ row # None
    /\ e.owner = row.owner
    /\ e.owner = OwnerOf[e.installation]
    /\ e.kind # "snapshot" => e.class = row.class

PutSound(t) ==
    \A e \in put[t] :
        /\ pc[t] \in {"answer", "commit"} /\ op[t] # "register"
        /\ e.kind = op[t] /\ e.installation = caller[t]
        /\ Carries(e, Visible(t, e.run))

EvidenceSound == \A e \in evidence : Carries(e, runs[e.run])

\* A registration that is about to be confirmed has written what it was asked to; one that
\* was confirmed has it stored.
Confirmed(t, row) ==
    row # None /\ row.class = target[t].class /\ row.registered = now[t]

Registered(t) ==
    op[t] = "register" =>
        /\ pc[t] = "commit" => Confirmed(t, wrote[t][target[t].run])
        /\ pc[t] = "committed" => Confirmed(t, runs[target[t].run])

StampInv ==
    /\ RowInv
    /\ \A t \in Tx : PutSound(t) /\ Registered(t)
    /\ EvidenceSound

\* The steps, by what they do to evidence.
EvidenceStep(t) ==
    \/ /\ UNCHANGED <<put, evidence, runs>>
       /\ pc[t] \in {"answer", "commit"} =>
            /\ pc'[t] \in {"answer", "commit"}
            /\ op'[t] = op[t] /\ caller'[t] = caller[t] /\ wrote' = wrote
    \/ put' = [put EXCEPT ![t] = {}] /\ UNCHANGED <<evidence, runs>> /\ pc'[t] = "aborted"
    \/ InsertEvidence(t)
    \/ Commit(t)

LEMMA StepEvidence ==
    ASSUME TypeOK, NEW t \in Tx, Moves(t)
    PROVE  EvidenceStep(t)
  <1>. USE DEF TypeOK
  <1>1. CASE \/ \E kind \in Ingest, p \in Principal, b \in Batch : CallIngest(t, kind, p, b)
             \/ \E p \in Principal, r \in Run, c \in Class :
                   CallRegister(t, p, [run |-> r, class |-> c])
    BY <1>1 DEF CallIngest, CallRegister, Invoke, EvidenceStep, shared
  <1>2. CASE Abort(t)
    BY <1>2 DEF Abort, EvidenceStep, shared
  <1>3. CASE Check(t) \/ Touch(t) \/ RunsEnsured(t) \/ FirstStamped(t) \/ Answer(t) \/ Select(t)
    BY <1>3 DEF Check, Touch, RunsEnsured, FirstStamped, Answer, Select, EvidenceStep, shared, call
  <1>4. CASE RegisterNew(t) \/ \E r \in Run : EnsureRun(t, r) \/ FirstKnown(t, r) \/ StampFirst(t, r)
    BY <1>4 DEF EnsureRun, FirstKnown, StampFirst, RegisterNew, EvidenceStep, shared
  <1>. QED  BY <1>1, <1>2, <1>3, <1>4
            DEF Moves, Step, Disconnect, Refuse, FirstTooEarly, CrossOwner, Misplaced,
                RefuseRegistration, RegisteredMeanwhile, Victim, EvidenceStep

\* What a transaction sees of a run it has seen continues, whoever commits.
LEMMA SeenContinues ==
    ASSUME RowInv, RunsContinue, NEW u \in Tx, wrote'[u] = wrote[u],
           NEW r \in Run, Visible(u, r) # None
    PROVE  Visible(u, r)' # None /\ SameRun(Visible(u, r), Visible(u, r)')
  BY DEF Visible, RunsContinue, Continued, SameRun

LEMMA CarriesOn ==
    ASSUME NEW e, NEW old, NEW new, Carries(e, old), new # None, SameRun(old, new)
    PROVE  Carries(e, new)
  BY DEF Carries, SameRun

LEMMA InsertCarries ==
    ASSUME RowInv, NEW t \in Tx, InsertEvidence(t), NEW e \in put'[t]
    PROVE  /\ e.kind = op[t] /\ e.installation = caller[t]
           /\ Carries(e, Visible(t, e.run))
  <1>0. TypeOK /\ CallSound(t) /\ RunsSeen(t)
    BY DEF RowInv
  <1>1. PICK d \in NewTo(t) : e = Stamped(t, d)
    BY <1>0 DEF InsertEvidence, TypeOK
  <1>2. d \in batch[t] /\ d.run \in RunsOfBatch(t)
    BY DEF NewTo, RunsOfBatch
  <1>3. Visible(t, d.run) # None
    BY <1>0, <1>2 DEF RunsSeen, InsertEvidence
  <1>4. Visible(t, d.run).owner = OwnerOf[caller[t]]
    BY DEF InsertEvidence, ForeignOwner
  <1>5. /\ e.kind = op[t] /\ e.installation = caller[t] /\ e.run = d.run
        /\ e.owner = OwnerOf[caller[t]]
        /\ op[t] # "snapshot" => e.class = Visible(t, d.run).class
    BY <1>1 DEF Stamped
  <1>. QED  BY <1>3, <1>4, <1>5 DEF Carries

LEMMA StepPuts ==
    ASSUME StampInv, NEW t \in Tx, Moves(t), Apart(t), RunsContinue, TypeOK'
    PROVE  (\A u \in Tx : PutSound(u)') /\ EvidenceSound'
  <1>0. TypeOK /\ RowInv /\ EvidenceSound /\ CallSound(t) /\ \A u \in Tx : PutSound(u)
    BY DEF StampInv, RowInv
  <1>1. ASSUME NEW u \in Tx, NEW e \in put[u], wrote'[u] = wrote[u]
        PROVE  Carries(e, Visible(u, e.run)')
    <2>1. Carries(e, Visible(u, e.run)) /\ e.run \in Run
      BY <1>0 DEF PutSound, TypeOK, Evidence
    <2>. QED  BY <1>0, <1>1, <2>1, SeenContinues, CarriesOn DEF Carries
  <1>2. ASSUME NEW u \in Tx \ {t} PROVE PutSound(u)'
    <2>1. /\ put'[u] = put[u] /\ wrote'[u] = wrote[u] /\ pc'[u] = pc[u]
          /\ op'[u] = op[u] /\ caller'[u] = caller[u]
      BY DEF Apart
    <2>. QED  BY <1>0, <1>1, <2>1 DEF PutSound
  <1>3. ASSUME NEW e \in evidence PROVE Carries(e, runs'[e.run])
    <2>1. Carries(e, runs[e.run]) /\ e.run \in Run
      BY <1>0 DEF EvidenceSound, TypeOK, Evidence
    <2>2. Continued(runs[e.run], runs'[e.run])
      BY <2>1 DEF Carries, RunsContinue
    <2>. QED  BY <2>1, <2>2 DEF Carries, Continued, SameRun
  <1>4. CASE /\ UNCHANGED <<put, evidence, runs>>
             /\ pc[t] \in {"answer", "commit"} =>
                  /\ pc'[t] \in {"answer", "commit"}
                  /\ op'[t] = op[t] /\ caller'[t] = caller[t] /\ wrote' = wrote
    <2>1. PutSound(t)'
      BY <1>0, <1>1, <1>4 DEF PutSound
    <2>. QED  BY <1>2, <1>3, <1>4, <2>1 DEF EvidenceSound
  <1>5. CASE put' = [put EXCEPT ![t] = {}] /\ UNCHANGED <<evidence, runs>>
    <2>1. PutSound(t)'
      BY <1>0, <1>5 DEF PutSound, TypeOK
    <2>. QED  BY <1>2, <1>3, <1>5, <2>1 DEF EvidenceSound
  <1>6. CASE InsertEvidence(t)
    <2>1. /\ pc[t] = "insert" /\ pc'[t] = "answer" /\ UNCHANGED <<shared, call, wrote>>
      BY <1>0, <1>6 DEF InsertEvidence, TypeOK
    <2>2. op[t] # "register"
      BY <1>0, <2>1 DEF CallSound, Ingesting
    <2>3. \A r : Visible(t, r)' = Visible(t, r)
      BY <2>1 DEF Visible, shared
    <2>4. PutSound(t)'
      BY <1>0, <1>6, <2>1, <2>2, <2>3, InsertCarries DEF PutSound, call
    <2>5. evidence' = evidence
      BY <2>1 DEF shared
    <2>. QED  BY <1>2, <1>3, <2>4, <2>5 DEF EvidenceSound
  <1>7. CASE Commit(t)
    <2>1. /\ evidence' = evidence \union put[t] /\ put'[t] = {}
          /\ runs' = [r \in Run |-> Visible(t, r)]
      BY <1>0, <1>7 DEF Commit, TypeOK
    <2>2. ASSUME NEW e \in put[t] PROVE Carries(e, runs'[e.run])
      <3>1. Carries(e, Visible(t, e.run)) /\ e.run \in Run
        BY <1>0 DEF PutSound, TypeOK, Evidence
      <3>. QED  BY <2>1, <3>1
    <2>3. PutSound(t)'
      BY <2>1 DEF PutSound
    <2>. QED  BY <1>2, <1>3, <2>1, <2>2, <2>3 DEF EvidenceSound
  <1>. QED  BY <1>0, <1>4, <1>5, <1>6, <1>7, StepEvidence DEF EvidenceStep

LEMMA StepRegistered ==
    ASSUME StampInv, NEW t \in Tx, Moves(t), Apart(t), RunsContinue, TypeOK'
    PROVE  \A u \in Tx : Registered(u)'
  <1>0. TypeOK /\ RowInv /\ CallSound(t) /\ \A u \in Tx : CallSound(u) /\ Registered(u)
    BY DEF StampInv, RowInv
  <1>1. ASSUME NEW u \in Tx, op[u] = "register", pc[u] # "idle" PROVE target[u].run \in Run
    BY <1>0, <1>1 DEF CallSound
  <1>2. ASSUME NEW u \in Tx, op[u] = "register", pc[u] = "committed",
               target'[u] = target[u], now'[u] = now[u]
        PROVE  Confirmed(u, runs[target[u].run])'
    <2>1. Confirmed(u, runs[target[u].run]) /\ target[u].run \in Run
      BY <1>0, <1>1, <1>2 DEF Registered
    <2>2. Continued(runs[target[u].run], runs'[target[u].run])
      BY <2>1 DEF RunsContinue, Confirmed
    <2>. QED  BY <1>2, <2>1, <2>2 DEF Confirmed, Continued, SameRun
  <1>3. ASSUME NEW u \in Tx \ {t} PROVE Registered(u)'
    <2>1. /\ op'[u] = op[u] /\ pc'[u] = pc[u] /\ wrote'[u] = wrote[u]
          /\ target'[u] = target[u] /\ now'[u] = now[u]
      BY DEF Apart
    <2>2. ASSUME op[u] = "register", pc[u] = "commit"
          PROVE  Confirmed(u, wrote[u][target[u].run])'
      BY <1>0, <2>1, <2>2 DEF Registered, Confirmed
    <2>3. ASSUME op[u] = "register", pc[u] = "committed"
          PROVE  Confirmed(u, runs[target[u].run])'
      BY <1>2, <2>1, <2>3
    <2>. QED  BY <2>1, <2>2, <2>3 DEF Registered
  <1>4. CASE pc'[t] \notin {"commit", "committed"}
    <2>1. Registered(t)'
      BY <1>4 DEF Registered
    <2>. QED  BY <1>3, <2>1
  <1>5. CASE Answer(t)
    <2>1. op'[t] # "register"
      BY <1>0, <1>5 DEF Answer, call, CallSound, Ingesting
    <2>2. Registered(t)'
      BY <2>1 DEF Registered
    <2>. QED  BY <1>3, <2>2
  <1>6. CASE RegisterNew(t)
    <2>. DEFINE r == target[t].run
                row == [owner |-> OwnerOf[caller[t]], class |-> target[t].class,
                        registered |-> now[t], first |-> None]
    <2>1. /\ caller[t] \in Principal /\ now[t] \in Time
          /\ target[t] \in [run : Run, class : Class]
      BY <1>0, <1>6 DEF CallSound, RegisterNew, TypeOK
    <2>2. r \in Run /\ row \in RunRow
      BY <2>1, PlaneAssumption DEF RunRow, Owner
    <2>3. /\ wrote'[t][r] = row /\ pc'[t] = "commit"
          /\ target'[t] = target[t] /\ now'[t] = now[t]
      BY <1>0, <1>6, <2>2 DEF RegisterNew, Write, call, TypeOK
    <2>4. row # None /\ row.class = target[t].class /\ row.registered = now[t]
      BY <2>2, TimeIsNat
    <2>. HIDE DEF row
    <2>5. Registered(t)'
      BY <2>3, <2>4 DEF Registered, Confirmed
    <2>. QED  BY <1>3, <2>5
  <1>7. CASE Commit(t)
    <2>1. /\ pc[t] = "commit" /\ pc'[t] = "committed" /\ UNCHANGED call
          /\ runs' = [r \in Run |-> Visible(t, r)]
      BY <1>0, <1>7 DEF Commit, TypeOK
    <2>2. ASSUME op[t] = "register" PROVE Confirmed(t, runs[target[t].run])'
      <3>1. Confirmed(t, wrote[t][target[t].run]) /\ target[t].run \in Run
        BY <1>0, <1>1, <2>1, <2>2 DEF Registered
      <3>2. runs'[target[t].run] = wrote[t][target[t].run]
        BY <2>1, <3>1 DEF Visible, Confirmed
      <3>. QED  BY <2>1, <3>1, <3>2 DEF Confirmed, call
    <2>3. Registered(t)'
      BY <2>1, <2>2 DEF Registered, call
    <2>. QED  BY <1>3, <2>3
  <1>8. \/ pc'[t] \notin {"commit", "committed"} \/ Answer(t) \/ RegisterNew(t) \/ Commit(t)
    <2>. USE <1>0 DEF TypeOK
    <2>1. CASE \/ \E kind \in Ingest, p \in Principal, b \in Batch : CallIngest(t, kind, p, b)
               \/ \E p \in Principal, r \in Run, c \in Class :
                     CallRegister(t, p, [run |-> r, class |-> c])
      BY <2>1 DEF CallIngest, CallRegister, Invoke
    <2>2. CASE Abort(t)
      BY <2>2 DEF Abort
    <2>3. CASE Check(t) \/ Touch(t) \/ RunsEnsured(t) \/ FirstStamped(t) \/ Select(t)
               \/ InsertEvidence(t)
               \/ \E r \in Run : EnsureRun(t, r) \/ FirstKnown(t, r) \/ StampFirst(t, r)
      BY <2>3 DEF Check, Touch, RunsEnsured, FirstStamped, Select, InsertEvidence,
                  EnsureRun, FirstKnown, StampFirst
    <2>. QED  BY <2>1, <2>2, <2>3
            DEF Moves, Step, Disconnect, Refuse, FirstTooEarly, CrossOwner, Misplaced,
                RefuseRegistration, RegisteredMeanwhile, Victim
  <1>. QED  BY <1>4, <1>5, <1>6, <1>7, <1>8

LEMMA StampNext == StampInv /\ [Next]_vars => StampInv'
  <1>. SUFFICES ASSUME StampInv, [Next]_vars PROVE StampInv'
    OBVIOUS
  <1>1. RowInv' /\ RunsContinue /\ RowInv /\ TypeOK /\ TypeOK'
    BY RowNext DEF StampInv, RowInv
  <1>2. ASSUME NEW t \in Tx, Moves(t) PROVE StampInv'
    BY <1>1, <1>2, StepApart, StepPuts, StepRegistered DEF StampInv
  <1>3. CASE Tick \/ UNCHANGED vars \/ \E p \in Principal : Revoke(p)
    <2>1. UNCHANGED <<runs, evidence, pc, call, wrote, put>>
      BY <1>3 DEF Tick, Revoke, vars, shared
    <2>2. ASSUME NEW t \in Tx PROVE PutSound(t)' /\ Registered(t)'
      <3>1. PutSound(t) /\ Registered(t)
        BY DEF StampInv
      <3>. QED  BY <2>1, <3>1 DEF PutSound, Registered, Confirmed, Visible, call
    <2>. QED  BY <1>1, <2>1, <2>2 DEF StampInv, EvidenceSound
  <1>. QED  BY <1>2, <1>3, NextCases

LEMMA StampStart == Init => StampInv
  BY RowStart DEF Init, StampInv, PutSound, Registered, EvidenceSound

(***************************************************************************)
(* D36: the class stamped on evidence is, for good, the class of its run.  *)
(***************************************************************************)
THEOREM Stamps == Spec => []StampIsRunClass
  <1>1. StampInv => StampIsRunClass
    BY DEF StampInv, EvidenceSound, Carries, StampIsRunClass
  <1>. QED  BY StampStart, StampNext, <1>1, PTL DEF Spec

(***************************************************************************)
(* Evidence belongs to the owner of its run and of its sender.             *)
(***************************************************************************)
THEOREM Owned == Spec => []OwnerBoundary
  <1>1. StampInv => OwnerBoundary
    BY DEF StampInv, EvidenceSound, Carries, OwnerBoundary
  <1>. QED  BY StampStart, StampNext, <1>1, PTL DEF Spec

(***************************************************************************)
(* A confirmed registration holds, from before the run's first event.      *)
(***************************************************************************)
THEOREM Holds == Spec => []RegistrationHolds
  <1>1. StampInv => RegistrationHolds
    <2>. SUFFICES ASSUME StampInv, NEW t \in Tx, pc[t] = "committed", op[t] = "register"
                  PROVE  /\ Confirmed(t, runs[target[t].run])
                         /\ runs[target[t].run].first # None =>
                              runs[target[t].run].registered <= runs[target[t].run].first
      BY DEF RegistrationHolds, Confirmed
    <2>1. Confirmed(t, runs[target[t].run])
      BY DEF StampInv, Registered
    <2>2. target[t].run \in Run /\ now[t] # None
      BY TimeIsNat DEF StampInv, RowInv, CallSound, TypeOK
    <2>3. Good(runs[target[t].run])
      BY <2>1, <2>2 DEF StampInv, RowInv, RowsGood, Confirmed
    <2>. QED  BY <2>1, <2>2, <2>3 DEF Good, Confirmed
  <1>. QED  BY StampStart, StampNext, <1>1, PTL DEF Spec

-----------------------------------------------------------------------------
(***************************************************************************)
(* Identity: an id, and a place in an installation's order, are one piece  *)
(* of evidence. Ids are waited for; places are one caller's, and a caller  *)
(* has one open call.                                                      *)
(***************************************************************************)
Distinct(e, f) ==
    e.kind = f.kind =>
        /\ e.id # f.id
        /\ e.kind = "event" /\ e.installation = f.installation =>
               PositionOf[e.id] # PositionOf[f.id]

Busy == Open \ {"touch"}

CallersAlone ==
    \A t, u \in Tx : pc[t] \in Busy /\ pc[u] \in Busy /\ caller[t] = caller[u] => t = u

StoredDistinct == \A e, f \in evidence : e # f => Distinct(e, f)

PutDistinct(t) ==
    \A e \in put[t] :
        /\ \A f \in evidence : Distinct(e, f)
        /\ \A u \in Tx : \A f \in put[u] : e # f \/ u # t => Distinct(e, f)

IdInv ==
    /\ StampInv
    /\ CallersAlone
    /\ StoredDistinct
    /\ \A t \in Tx : PutDistinct(t)

LEMMA DistinctBothWays == \A e, f : Distinct(e, f) <=> Distinct(f, e)
  BY DEF Distinct

LEMMA StepAlone ==
    ASSUME TypeOK, CallersAlone, NEW t \in Tx, Moves(t), Apart(t)
    PROVE  CallersAlone'
  <1>. USE DEF TypeOK, Busy
  <1>1. CASE pc'[t] \notin Busy
    BY <1>1 DEF CallersAlone, Apart
  <1>2. CASE pc[t] \in Busy /\ caller'[t] = caller[t]
    BY <1>2 DEF CallersAlone, Apart
  <1>3. CASE Touch(t)
    <2>1. \A u \in Tx \ {t} : ~(pc[u] \in Busy /\ caller[u] = caller[t])
      BY <1>3 DEF Touch, CallerBusy
    <2>2. caller'[t] = caller[t]
      BY <1>3 DEF Touch, call
    <2>. QED  BY <2>1, <2>2 DEF CallersAlone, Apart
  <1>4. pc'[t] \notin Busy \/ (pc[t] \in Busy /\ caller'[t] = caller[t]) \/ Touch(t)
    <2>1. CASE \/ \E kind \in Ingest, p \in Principal, b \in Batch : CallIngest(t, kind, p, b)
               \/ \E p \in Principal, r \in Run, c \in Class :
                     CallRegister(t, p, [run |-> r, class |-> c])
      BY <2>1 DEF CallIngest, CallRegister, Invoke
    <2>2. CASE Abort(t) \/ Check(t) \/ Commit(t)
      BY <2>2 DEF Abort, Check, Commit
    <2>3. CASE RunsEnsured(t) \/ FirstStamped(t) \/ Select(t) \/ InsertEvidence(t)
               \/ Answer(t) \/ RegisterNew(t)
               \/ \E r \in Run : EnsureRun(t, r) \/ FirstKnown(t, r) \/ StampFirst(t, r)
      BY <2>3 DEF RunsEnsured, FirstStamped, Select, InsertEvidence, Answer, RegisterNew,
                  EnsureRun, FirstKnown, StampFirst, call
    <2>. QED  BY <2>1, <2>2, <2>3
            DEF Moves, Step, Disconnect, Refuse, FirstTooEarly, CrossOwner, Misplaced,
                RefuseRegistration, RegisteredMeanwhile, Victim
  <1>. QED  BY <1>1, <1>2, <1>3, <1>4

\* What is inserted is new, against everything stored and everything others are inserting.
LEMMA InsertNew ==
    ASSUME IdInv, NEW t \in Tx, InsertEvidence(t), NEW e \in put'[t]
    PROVE  /\ \A f \in evidence : Distinct(e, f)
           /\ \A f \in put'[t] : e # f => Distinct(e, f)
           /\ \A u \in Tx \ {t} : \A f \in put[u] : Distinct(e, f)
  <1>0. TypeOK /\ CallSound(t) /\ \A u \in Tx : PutSound(u)
    BY DEF IdInv, StampInv, RowInv
  <1>1. PICK d \in NewTo(t) : e = Stamped(t, d)
    BY <1>0 DEF InsertEvidence, TypeOK
  <1>2. /\ e.kind = op[t] /\ e.id = d.id /\ e.installation = caller[t] /\ d \in batch[t]
        /\ ~\E f \in evidence : f.kind = op[t] /\ f.id = d.id
    BY <1>1 DEF Stamped, NewTo
  <1>3. ASSUME NEW f \in evidence PROVE Distinct(e, f)
    BY <1>2 DEF InsertEvidence, PlaceTaken, Distinct
  <1>4. ASSUME NEW f \in put'[t], e # f PROVE Distinct(e, f)
    <2>1. PICK g \in NewTo(t) : f = Stamped(t, g)
      BY <1>0, <1>4 DEF InsertEvidence, TypeOK
    <2>2. /\ g \in batch[t] /\ f.id = g.id /\ f.kind = op[t] /\ g # d
      BY <1>1, <1>4, <2>1 DEF Stamped, NewTo
    <2>3. g.id # d.id
      BY <1>0, <1>2, <2>2, BatchTyped DEF CallSound, InsertEvidence, Ingesting
    <2>. QED  BY <1>2, <2>2, <2>3 DEF InsertEvidence, PlaceTaken, Distinct
  <1>5. ASSUME NEW u \in Tx \ {t}, NEW f \in put[u] PROVE Distinct(e, f)
    <2>1. f.installation = caller[u] /\ pc[u] \in Busy
      BY <1>0, <1>5 DEF PutSound, Busy
    <2>2. caller[u] # caller[t]
      BY <2>1 DEF IdInv, CallersAlone, InsertEvidence, Busy
    <2>3. f.kind = op[t] => f.id # d.id
      BY <1>2 DEF InsertEvidence, IdsFree
    <2>. QED  BY <1>2, <2>1, <2>2, <2>3 DEF Distinct
  <1>. QED  BY <1>3, <1>4, <1>5

LEMMA StepIds ==
    ASSUME IdInv, NEW t \in Tx, Moves(t), Apart(t)
    PROVE  StoredDistinct' /\ \A u \in Tx : PutDistinct(u)'
  <1>0. TypeOK /\ StoredDistinct /\ \A u \in Tx : PutDistinct(u)
    BY DEF IdInv, StampInv, RowInv
  <1>1. CASE UNCHANGED <<put, evidence>>
    BY <1>0, <1>1 DEF StoredDistinct, PutDistinct
  <1>2. ASSUME put'[t] \subseteq put[t], evidence' = evidence
        PROVE  StoredDistinct' /\ \A u \in Tx : PutDistinct(u)'
    <2>1. \A u \in Tx : put'[u] \subseteq put[u]
      BY <1>2 DEF Apart
    <2>. QED  BY <1>0, <1>2, <2>1 DEF StoredDistinct, PutDistinct
  <1>3. CASE put' = [put EXCEPT ![t] = {}] /\ UNCHANGED <<evidence, runs>>
    BY <1>0, <1>2, <1>3 DEF TypeOK
  <1>4. CASE InsertEvidence(t)
    <2>1. evidence' = evidence
      BY <1>4 DEF InsertEvidence, shared
    <2>2. PutDistinct(t)'
      <3>1. ASSUME NEW e \in put'[t] PROVE /\ \A f \in evidence' : Distinct(e, f)
                    /\ \A u \in Tx : \A f \in put'[u] : e # f \/ u # t => Distinct(e, f)
        BY <1>4, <2>1, <3>1, InsertNew DEF Apart
      <3>. QED  BY <3>1 DEF PutDistinct
    <2>3. ASSUME NEW u \in Tx \ {t} PROVE PutDistinct(u)'
      <3>1. ASSUME NEW e \in put[u] PROVE /\ \A f \in evidence' : Distinct(e, f)
                    /\ \A v \in Tx : \A f \in put'[v] : e # f \/ v # u => Distinct(e, f)
        <4>1. \A f \in evidence' : Distinct(e, f)
          BY <1>0, <2>1, <3>1 DEF PutDistinct
        <4>2. \A f \in put'[t] : Distinct(e, f)
          BY <1>4, <3>1, InsertNew, DistinctBothWays
        <4>3. ASSUME NEW v \in Tx \ {t}, NEW f \in put'[v], e # f \/ v # u PROVE Distinct(e, f)
          BY <1>0, <3>1, <4>3 DEF PutDistinct, Apart
        <4>. QED  BY <4>1, <4>2, <4>3
      <3>. QED  BY <3>1 DEF PutDistinct, Apart
    <2>4. StoredDistinct'
      BY <1>0, <2>1 DEF StoredDistinct
    <2>. QED  BY <2>2, <2>3, <2>4
  <1>5. CASE Commit(t)
    <2>1. evidence' = evidence \union put[t] /\ put'[t] = {}
      BY <1>0, <1>5 DEF Commit, TypeOK
    <2>2. ASSUME NEW e \in evidence', NEW f \in evidence', e # f PROVE Distinct(e, f)
      BY <1>0, <2>1, <2>2, DistinctBothWays DEF StoredDistinct, PutDistinct
    <2>3. PutDistinct(t)'
      BY <2>1 DEF PutDistinct
    <2>4. ASSUME NEW u \in Tx \ {t} PROVE PutDistinct(u)'
      <3>1. ASSUME NEW e \in put[u] PROVE /\ \A f \in evidence' : Distinct(e, f)
                    /\ \A v \in Tx : \A f \in put'[v] : e # f \/ v # u => Distinct(e, f)
        <4>1. \A f \in evidence' : Distinct(e, f)
          BY <1>0, <2>1, <3>1 DEF PutDistinct
        <4>2. ASSUME NEW v \in Tx, NEW f \in put'[v], e # f \/ v # u PROVE Distinct(e, f)
          BY <1>0, <2>1, <3>1, <4>2 DEF PutDistinct, Apart
        <4>. QED  BY <4>1, <4>2
      <3>. QED  BY <3>1 DEF PutDistinct, Apart
    <2>. QED  BY <2>2, <2>3, <2>4 DEF StoredDistinct
  <1>. QED  BY <1>0, <1>1, <1>3, <1>4, <1>5, StepEvidence DEF EvidenceStep

LEMMA IdNext == IdInv /\ [Next]_vars => IdInv'
  <1>. SUFFICES ASSUME IdInv, [Next]_vars PROVE IdInv'
    OBVIOUS
  <1>1. StampInv' /\ TypeOK
    BY StampNext DEF IdInv, StampInv, RowInv
  <1>2. ASSUME NEW t \in Tx, Moves(t) PROVE IdInv'
    BY <1>1, <1>2, StepApart, StepAlone, StepIds DEF IdInv
  <1>3. CASE Tick \/ UNCHANGED vars \/ \E p \in Principal : Revoke(p)
    <2>1. UNCHANGED <<evidence, pc, call, put>>
      BY <1>3 DEF Tick, Revoke, vars, shared
    <2>. QED  BY <1>1, <2>1 DEF IdInv, CallersAlone, StoredDistinct, PutDistinct, call
  <1>. QED  BY <1>2, <1>3, NextCases

LEMMA IdStart == Init => IdInv
  BY StampStart DEF Init, IdInv, CallersAlone, StoredDistinct, PutDistinct, Busy

(***************************************************************************)
(* D26: an id is one piece of evidence, a place one event.                 *)
(***************************************************************************)
THEOREM Unambiguous == Spec => []HistoryUnambiguous
  <1>1. IdInv => HistoryUnambiguous
    BY DEF IdInv, StoredDistinct, Distinct, HistoryUnambiguous
  <1>. QED  BY IdStart, IdNext, <1>1, PTL DEF Spec

-----------------------------------------------------------------------------
(***************************************************************************)
(* The answer: once it has inserted, a transaction finds every id of its   *)
(* batch, as evidence nothing can replace, so what it answered stays exact.*)
(***************************************************************************)
Held(t, x) == \E e \in evidence \union put[t] : e.kind = op[t] /\ e.id = x.id

Mine(t, x) ==
    \E e \in evidence \union put[t] :
        e.kind = op[t] /\ e.id = x.id /\ e.installation = caller[t]

Covered(t) ==
    pc[t] \in {"answer", "commit", "committed"} /\ op[t] # "register" =>
        \A x \in batch[t] : Held(t, x)

Exact(t) ==
    pc[t] \in {"commit", "committed"} /\ op[t] # "register" =>
        accepted[t] = {d.id : d \in {x \in batch[t] : Mine(t, x)}}

AnswerInv == IdInv /\ \A t \in Tx : Covered(t) /\ Exact(t)

\* What t is called with, and what it can be told of, carries on.
SameCall(t) ==
    /\ op'[t] = op[t] /\ caller'[t] = caller[t] /\ batch'[t] = batch[t]
    /\ evidence \union put[t] \subseteq evidence' \union put'[t]

LEMMA HeldStays ==
    ASSUME IdInv', NEW t \in Tx, SameCall(t), NEW x, Held(t, x)
    PROVE  Held(t, x)' /\ (Mine(t, x)' <=> Mine(t, x))
  <1>1. Held(t, x)' /\ (Mine(t, x) => Mine(t, x)')
    BY DEF SameCall, Held, Mine
  <1>2. ASSUME Mine(t, x)' PROVE Mine(t, x)
    <2>1. PICK e \in evidence \union put[t] : e.kind = op[t] /\ e.id = x.id
      BY DEF Held
    <2>2. PICK f \in evidence' \union put'[t] :
            f.kind = op[t] /\ f.id = x.id /\ f.installation = caller[t]
      BY <1>2 DEF Mine, SameCall
    <2>3. e \in evidence' \union put'[t]
      BY <2>1 DEF SameCall
    <2>4. e = f \/ Distinct(e, f)
      <3>1. StoredDistinct' /\ PutDistinct(t)'
        BY DEF IdInv
      <3>. QED  BY <2>2, <2>3, <3>1, DistinctBothWays DEF StoredDistinct, PutDistinct
    <2>. QED  BY <2>1, <2>2, <2>4 DEF Distinct, Mine
  <1>. QED  BY <1>1, <1>2

LEMMA AnswerStays ==
    ASSUME IdInv', NEW t \in Tx, SameCall(t), Covered(t), Exact(t),
           accepted'[t] = accepted[t],
           pc'[t] = pc[t] \/ (pc[t] = "commit" /\ pc'[t] = "committed")
    PROVE  Covered(t)' /\ Exact(t)'
  <1>1. Covered(t)'
    BY HeldStays DEF Covered, SameCall
  <1>2. ASSUME pc'[t] \in {"commit", "committed"}, op'[t] # "register" PROVE Exact(t)'
    <2>1. \A x \in batch[t] : Held(t, x)
      BY <1>2 DEF Covered, SameCall
    <2>2. {x \in batch'[t] : Mine(t, x)'} = {x \in batch[t] : Mine(t, x)}
      BY <2>1, HeldStays DEF SameCall
    <2>3. accepted[t] = {d.id : d \in {x \in batch[t] : Mine(t, x)}}
      BY <1>2 DEF Exact, SameCall
    <2>4. accepted'[t] = {d.id : d \in {x \in batch'[t] : Mine(t, x)'}}
      BY <2>2, <2>3
    <2>. QED  BY <2>4 DEF Exact
  <1>. QED  BY <1>1, <1>2 DEF Exact

LEMMA StepAnswers ==
    ASSUME AnswerInv, IdInv', NEW t \in Tx, Moves(t)
    PROVE  Covered(t)' /\ Exact(t)'
  <1>0. /\ TypeOK /\ IdInv /\ Covered(t) /\ Exact(t)
        /\ CallSound(t)
    BY DEF AnswerInv, IdInv, StampInv, RowInv
  <1>. USE DEF TypeOK
  <1>1. CASE \/ \E kind \in Ingest, p \in Principal, b \in Batch : CallIngest(t, kind, p, b)
             \/ \E p \in Principal, r \in Run, c \in Class :
                   CallRegister(t, p, [run |-> r, class |-> c])
    <2>1. pc'[t] = "check"
      BY <1>0, <1>1 DEF CallIngest, CallRegister, Invoke
    <2>. QED  BY <2>1 DEF Covered, Exact
  <1>2. CASE Abort(t)
    <2>1. pc'[t] = "aborted"
      BY <1>0, <1>2 DEF Abort
    <2>. QED  BY <2>1 DEF Covered, Exact
  <1>3. CASE \/ Check(t) \/ Touch(t) \/ RunsEnsured(t) \/ FirstStamped(t) \/ Select(t)
             \/ \E r \in Run : EnsureRun(t, r) \/ FirstKnown(t, r) \/ StampFirst(t, r)
    <2>1. pc'[t] \notin {"answer", "commit", "committed"}
      BY <1>0, <1>3 DEF Check, Touch, RunsEnsured, FirstStamped, Select, EnsureRun,
                        FirstKnown, StampFirst
    <2>. QED  BY <2>1 DEF Covered, Exact
  <1>4. CASE RegisterNew(t)
    <2>1. op'[t] = "register"
      BY <1>0, <1>4 DEF RegisterNew, CallSound, call
    <2>. QED  BY <2>1 DEF Covered, Exact
  <1>5. CASE InsertEvidence(t)
    <2>1. /\ pc'[t] = "answer" /\ evidence' = evidence /\ batch' = batch /\ op' = op
          /\ put'[t] = {Stamped(t, d) : d \in NewTo(t)}
      BY <1>0, <1>5 DEF InsertEvidence, shared, call
    <2>2. ASSUME NEW x \in batch[t] PROVE Held(t, x)'
      <3>1. CASE x \in NewTo(t)
        <4>1. Stamped(t, x) \in put'[t]
          BY <2>1, <3>1
        <4>2. Stamped(t, x).kind = op'[t] /\ Stamped(t, x).id = x.id
          BY <2>1 DEF Stamped
        <4>. QED  BY <4>1, <4>2 DEF Held
      <3>2. CASE x \notin NewTo(t)
        BY <2>1, <2>2, <3>2 DEF NewTo, Held
      <3>. QED  BY <3>1, <3>2
    <2>3. Covered(t)'
      BY <2>1, <2>2 DEF Covered
    <2>. QED  BY <2>1, <2>3 DEF Exact
  <1>6. CASE Answer(t)
    <2>1. /\ pc[t] = "answer" /\ pc'[t] = "commit" /\ UNCHANGED <<shared, call, put>>
          /\ accepted'[t] = {d.id : d \in {x \in batch[t] : Mine(t, x)}}
      BY <1>0, <1>6 DEF Answer, Mine
    <2>2. \A x : (Mine(t, x)' <=> Mine(t, x)) /\ (Held(t, x)' <=> Held(t, x))
      BY <2>1 DEF Mine, Held, shared, call
    <2>3. {x \in batch'[t] : Mine(t, x)'} = {x \in batch[t] : Mine(t, x)}
      BY <2>1, <2>2 DEF call
    <2>4. accepted'[t] = {d.id : d \in {x \in batch'[t] : Mine(t, x)'}}
      BY <2>1, <2>3
    <2>5. Covered(t)'
      BY <1>0, <2>1, <2>2 DEF Covered, call
    <2>. QED  BY <2>4, <2>5 DEF Exact
  <1>7. CASE Commit(t)
    <2>1. /\ pc[t] = "commit" /\ pc'[t] = "committed" /\ UNCHANGED <<call, accepted>>
          /\ evidence' = evidence \union put[t]
      BY <1>0, <1>7 DEF Commit
    <2>2. SameCall(t)
      BY <2>1 DEF SameCall, call
    <2>. QED  BY <1>0, <2>1, <2>2, AnswerStays
  <1>. QED  BY <1>1, <1>2, <1>3, <1>4, <1>5, <1>6, <1>7
            DEF Moves, Step, Disconnect, Refuse, FirstTooEarly, CrossOwner, Misplaced,
                RefuseRegistration, RegisteredMeanwhile, Victim

LEMMA AnswerNext == AnswerInv /\ [Next]_vars => AnswerInv'
  <1>. SUFFICES ASSUME AnswerInv, [Next]_vars PROVE AnswerInv'
    OBVIOUS
  <1>1. IdInv' /\ TypeOK
    BY IdNext DEF AnswerInv, IdInv, StampInv, RowInv
  <1>2. ASSUME NEW t \in Tx, Moves(t) PROVE AnswerInv'
    <2>1. Apart(t) /\ EvidenceStep(t)
      BY <1>1, <1>2, StepApart, StepEvidence
    <2>2. evidence \subseteq evidence'
      BY <2>1 DEF EvidenceStep, InsertEvidence, Commit, shared
    <2>3. ASSUME NEW u \in Tx \ {t} PROVE Covered(u)' /\ Exact(u)'
      <3>1. SameCall(u) /\ accepted'[u] = accepted[u] /\ pc'[u] = pc[u]
        BY <2>1, <2>2 DEF Apart, SameCall
      <3>2. Covered(u) /\ Exact(u)
        BY DEF AnswerInv
      <3>. QED  BY <1>1, <3>1, <3>2, AnswerStays
    <2>. QED  BY <1>1, <1>2, <2>3, StepAnswers DEF AnswerInv
  <1>3. CASE Tick \/ UNCHANGED vars \/ \E p \in Principal : Revoke(p)
    <2>1. UNCHANGED <<evidence, pc, call, put, accepted>>
      BY <1>3 DEF Tick, Revoke, vars, shared
    <2>2. ASSUME NEW t \in Tx PROVE Covered(t)' /\ Exact(t)'
      <3>1. SameCall(t) /\ accepted'[t] = accepted[t] /\ pc'[t] = pc[t]
        BY <2>1 DEF SameCall, call
      <3>2. Covered(t) /\ Exact(t)
        BY DEF AnswerInv
      <3>. QED  BY <1>1, <3>1, <3>2, AnswerStays
    <2>. QED  BY <1>1, <2>2 DEF AnswerInv
  <1>. QED  BY <1>2, <1>3, NextCases

LEMMA AnswerStart == Init => AnswerInv
  BY IdStart DEF Init, AnswerInv, Covered, Exact

(***************************************************************************)
(* 0002: an ingest that committed has named the ids of its batch that are  *)
(* stored under its caller, all of them and no other, and nothing that     *)
(* happens later makes that answer wrong.                                  *)
(***************************************************************************)
THEOREM ExactAnswer == Spec => []AnswerIsExact
  <1>1. AnswerInv => AnswerIsExact
    <2>. SUFFICES ASSUME AnswerInv, NEW t \in Tx, pc[t] = "committed", op[t] \in Ingest
                  PROVE  accepted[t] = {d.id : d \in {x \in batch[t] :
                            \E e \in evidence : /\ e.kind = op[t] /\ e.id = x.id
                                               /\ e.installation = caller[t]}}
      BY DEF AnswerIsExact
    <2>1. op[t] # "register"
      BY PlaneAssumption
    <2>2. put[t] = {}
      BY DEF AnswerInv, IdInv, StampInv, PutSound
    <2>3. accepted[t] = {d.id : d \in {x \in batch[t] : Mine(t, x)}}
      BY <2>1 DEF AnswerInv, Exact
    <2>. QED  BY <2>2, <2>3 DEF Mine
  <1>. QED  BY AnswerStart, AnswerNext, <1>1, PTL DEF Spec
=============================================================================
