---------------------------- MODULE EvidencePlane ----------------------------
(***************************************************************************)
(* The database side of the Evidence Plane: the RPCs of                    *)
(* 0001_evidence_plane.sql as hardened by 0002, run as concurrent          *)
(* transactions at Postgres' default READ COMMITTED level.                 *)
(*                                                                         *)
(* A transaction is a sequence of statements.  Each statement sees what is *)
(* committed when it starts plus the transaction's own writes; a write to  *)
(* a row another open transaction wrote waits for that transaction; now()  *)
(* is the time the transaction began; raising, or violating a constraint,  *)
(* discards everything the transaction wrote.                              *)
(***************************************************************************)
EXTENDS Naturals

CONSTANTS
    Tx,             \* transactions; each id is used once
    Installation,   \* principals of kind installation
    Service,        \* principals of kind service, holding run.register
    OwnerOf,        \* the owner each principal belongs to
    Run,
    Class,          \* origin classes a run can be registered with
    Id,             \* ids of events, observations and snapshots
    Ingest,         \* kinds of evidence, one ingest RPC each
    PositionOf,     \* the emitter and sequence an event of that id carries
    MaxTime,        \* bound on the clock
    None

Principal == Installation \union Service
Owner     == {OwnerOf[p] : p \in Principal}
Time      == 0 .. MaxTime

Operation == Ingest \union {"register"}

ASSUME PlaneAssumption ==
    /\ Installation \intersect Service = {}
    /\ DOMAIN OwnerOf = Principal
    /\ Ingest \subseteq {"event", "observation", "snapshot"}
    /\ DOMAIN PositionOf = Id
    /\ MaxTime \in Nat
    /\ "operational" \in Class

\* A row of runs; an unregistered one is operational by constraint.
RunRow == [owner : Owner, class : Class, registered : Time \union {None},
           first : Time \union {None}]

\* A row of raw_events, observations or context_snapshots; the last has no class.
Evidence == [kind : Ingest, id : Id, installation : Installation,
             owner : Owner, run : Run, class : Class \union {None}]

ASSUME NoneIsNotData == None \notin RunRow /\ None \notin Time

Payload == [id : Id, run : Run]

\* An outbox holds a document once, so a batch names an id once.
Batch == {b \in (SUBSET Payload) \ {{}} : \A d, e \in b : d.id = e.id => d = e}

VARIABLES
    clock,
    revoked,   \* principals whose revoked_at is set
    runs,      \* committed rows of runs, or None
    evidence,  \* committed evidence rows
    pc, op, caller,
    batch,     \* the documents an ingest transaction was called with
    target,    \* [run, class] a register transaction was called with
    now,       \* the transaction's now()
    todo,      \* run rows its current statement has still to write
    wrote,     \* its uncommitted run rows
    put,       \* its uncommitted evidence rows
    existing,  \* what register_run's select found
    accepted   \* the ids its caller is told are durable

shared == <<clock, revoked, runs, evidence>>
call   == <<op, caller, batch, target, now>>
vars   == <<shared, pc, call, todo, wrote, put, existing, accepted>>

Open == {"touch", "ensure", "first", "insert", "answer", "select", "register",
         "commit"}

TypeOK ==
    /\ clock \in Time
    /\ revoked \subseteq Principal
    /\ runs \in [Run -> RunRow \union {None}]
    /\ evidence \subseteq Evidence
    /\ pc \in [Tx -> Open \union {"idle", "check", "committed", "aborted"}]
    /\ op \in [Tx -> Operation \union {None}]
    /\ caller \in [Tx -> Principal \union {None}]
    /\ batch \in [Tx -> Batch \union {{}}]
    /\ target \in [Tx -> [run : Run, class : Class] \union {None}]
    /\ now \in [Tx -> Time]
    /\ todo \in [Tx -> SUBSET Run]
    /\ wrote \in [Tx -> [Run -> RunRow \union {None}]]
    /\ put \in [Tx -> SUBSET Evidence]
    /\ existing \in [Tx -> RunRow \union {None}]
    /\ accepted \in [Tx -> SUBSET Id]

Init ==
    /\ clock = 0
    /\ revoked = {}
    /\ runs = [r \in Run |-> None]
    /\ evidence = {}
    /\ pc = [t \in Tx |-> "idle"]
    /\ op = [t \in Tx |-> None]
    /\ caller = [t \in Tx |-> None]
    /\ batch = [t \in Tx |-> {}]
    /\ target = [t \in Tx |-> None]
    /\ now = [t \in Tx |-> 0]
    /\ todo = [t \in Tx |-> {}]
    /\ wrote = [t \in Tx |-> [r \in Run |-> None]]
    /\ put = [t \in Tx |-> {}]
    /\ existing = [t \in Tx |-> None]
    /\ accepted = [t \in Tx |-> {}]

-----------------------------------------------------------------------------
(***************************************************************************)
(* What a statement sees, and whom it waits for.                           *)
(***************************************************************************)

Visible(t, r) == IF wrote[t][r] # None THEN wrote[t][r] ELSE runs[r]

\* Another open transaction wrote this run row.
HeldElsewhere(t, r) == \E u \in Tx \ {t} : wrote[u][r] # None

\* Wrong variant: the lock outlives its transaction.
CallerBusyForGood(t) ==
    \E u \in Tx \ {t} :
        pc[u] \in (Open \ {"touch"}) \union {"committed"} /\ caller[u] = caller[t]

\* Another open transaction holds this principal's row, through last_seen_at.
CallerBusy(t) ==
    \E u \in Tx \ {t} : pc[u] \in Open \ {"touch"} /\ caller[u] = caller[t]

RunsOfBatch(t) == {d.run : d \in batch[t]}

Goto(t, where) == pc' = [pc EXCEPT ![t] = where]

Write(t, r, row) == wrote' = [wrote EXCEPT ![t][r] = row]

\* Raise: nothing this transaction wrote survives.
Abort(t) ==
    /\ Goto(t, "aborted")
    /\ wrote' = [wrote EXCEPT ![t] = [r \in Run |-> None]]
    /\ put' = [put EXCEPT ![t] = {}]
    /\ UNCHANGED <<shared, call, todo, existing, accepted>>

-----------------------------------------------------------------------------
(***************************************************************************)
(* Every RPC: ieos_principal reads the token's row, then stamps it.        *)
(***************************************************************************)

Invoke(t, o, p) ==
    /\ pc[t] = "idle"
    /\ op' = [op EXCEPT ![t] = o]
    /\ caller' = [caller EXCEPT ![t] = p]
    /\ now' = [now EXCEPT ![t] = clock]
    /\ Goto(t, "check")
    /\ UNCHANGED <<shared, todo, wrote, put, existing, accepted>>

CallIngest(t, kind, p, b) ==
    /\ Invoke(t, kind, p)
    /\ batch' = [batch EXCEPT ![t] = b]
    /\ UNCHANGED target

CallRegister(t, p, g) ==
    /\ Invoke(t, "register", p)
    /\ target' = [target EXCEPT ![t] = g]
    /\ UNCHANGED batch

Permitted(t) ==
    /\ caller[t] \notin revoked
    /\ IF op[t] = "register" THEN caller[t] \in Service
                             ELSE caller[t] \in Installation

Check(t) ==
    /\ pc[t] = "check"
    /\ Permitted(t)
    /\ Goto(t, "touch")
    /\ UNCHANGED <<shared, call, todo, wrote, put, existing, accepted>>

Refuse(t) ==
    /\ pc[t] = "check"
    /\ ~Permitted(t)
    /\ Abort(t)

\* update principals set last_seen_at: serializes one principal's calls.
Touch(t) ==
    /\ pc[t] = "touch"
    /\ ~CallerBusy(t)
    /\ IF op[t] = "register"
         THEN Goto(t, "select") /\ UNCHANGED todo
         ELSE /\ Goto(t, "ensure")
              /\ todo' = [todo EXCEPT ![t] = RunsOfBatch(t)]
    /\ UNCHANGED <<shared, call, wrote, put, existing, accepted>>

-----------------------------------------------------------------------------
(***************************************************************************)
(* ingest_events, ingest_observations, ingest_context_snapshots.           *)
(***************************************************************************)

(***************************************************************************)
(* insert into runs ... on conflict do nothing, one row at a time: a run   *)
(* being inserted elsewhere is waited for, a committed one is left alone.  *)
(***************************************************************************)
EnsureRun(t, r) ==
    /\ pc[t] = "ensure"
    /\ r \in todo[t]
    /\ runs[r] = None => ~HeldElsewhere(t, r)
    /\ todo' = [todo EXCEPT ![t] = @ \ {r}]
    /\ IF runs[r] = None
         THEN Write(t, r, [owner |-> OwnerOf[caller[t]], class |-> "operational",
                           registered |-> None, first |-> now[t]])
         ELSE UNCHANGED wrote
    /\ UNCHANGED <<shared, pc, call, put, existing, accepted>>

\* Only ingest_events goes on to stamp first_event_at.
RunsEnsured(t) ==
    /\ pc[t] = "ensure"
    /\ todo[t] = {}
    /\ IF op[t] = "event"
         THEN /\ Goto(t, "first")
              /\ todo' = [todo EXCEPT ![t] = RunsOfBatch(t)]
         ELSE Goto(t, "insert") /\ UNCHANGED todo
    /\ UNCHANGED <<shared, call, wrote, put, existing, accepted>>

(***************************************************************************)
(* update runs set first_event_at = now() where first_event_at is null.    *)
(* The check constraint compares it with the time of registration, which   *)
(* a transaction that began before the registration committed precedes.    *)
(***************************************************************************)
Precedes(t, r) ==
    /\ Visible(t, r).registered # None
    /\ now[t] < Visible(t, r).registered

FirstKnown(t, r) ==
    /\ pc[t] = "first"
    /\ r \in todo[t]
    /\ Visible(t, r).first # None
    /\ todo' = [todo EXCEPT ![t] = @ \ {r}]
    /\ UNCHANGED <<shared, pc, call, wrote, put, existing, accepted>>

StampFirst(t, r) ==
    /\ pc[t] = "first"
    /\ r \in todo[t]
    /\ Visible(t, r).first = None
    /\ ~HeldElsewhere(t, r)
    /\ ~Precedes(t, r)
    /\ todo' = [todo EXCEPT ![t] = @ \ {r}]
    /\ Write(t, r, [Visible(t, r) EXCEPT !.first = now[t]])
    /\ UNCHANGED <<shared, pc, call, put, existing, accepted>>

FirstTooEarly(t, r) ==
    /\ pc[t] = "first"
    /\ r \in todo[t]
    /\ Visible(t, r).first = None
    /\ ~HeldElsewhere(t, r)
    /\ Precedes(t, r)
    /\ Abort(t)

FirstStamped(t) ==
    /\ pc[t] = "first"
    /\ todo[t] = {}
    /\ Goto(t, "insert")
    /\ UNCHANGED <<shared, call, todo, wrote, put, existing, accepted>>

\* The row a document becomes: its class is the run's, never the caller's.
Stamped(t, d) ==
    [kind |-> op[t], id |-> d.id, installation |-> caller[t],
     owner |-> OwnerOf[caller[t]], run |-> d.run,
     class |-> IF op[t] = "snapshot" THEN None ELSE Visible(t, d.run).class]

\* Ids another open transaction is inserting are waited for.
IdsFree(t) ==
    \A u \in Tx \ {t} : \A e \in put[u] :
        e.kind = op[t] => \A d \in batch[t] : e.id # d.id

\* on conflict do nothing: what the plane does not hold yet.
NewTo(t) == {d \in batch[t] : ~\E e \in evidence : e.kind = op[t] /\ e.id = d.id}

\* Wrong variant: the plane before 0002.
ForeignOwnerUnchecked(t) == FALSE

\* The composite foreign key of 0002.
ForeignOwner(t) ==
    \E d \in NewTo(t) : Visible(t, d.run).owner # OwnerOf[caller[t]]

\* raw_events_ordering: another event of this installation has that place.  Its
\* own calls are serialized by Touch, so it is committed, or in this batch.
PlaceTaken(t) ==
    op[t] = "event" /\ \E d \in NewTo(t) :
        \/ \E e \in evidence : /\ e.kind = "event"
                              /\ e.installation = caller[t]
                              /\ PositionOf[e.id] = PositionOf[d.id]
        \/ \E e \in NewTo(t) : e.id # d.id /\ PositionOf[e.id] = PositionOf[d.id]

InsertEvidence(t) ==
    /\ pc[t] = "insert"
    /\ IdsFree(t)
    /\ ~ForeignOwner(t)
    /\ ~PlaceTaken(t)
    /\ put' = [put EXCEPT ![t] = {Stamped(t, d) : d \in NewTo(t)}]
    /\ Goto(t, "answer")
    /\ UNCHANGED <<shared, call, todo, wrote, existing, accepted>>

\* One document for another owner's run, or one event at a place already
\* taken, discards the whole batch.
CrossOwner(t) ==
    /\ pc[t] = "insert"
    /\ IdsFree(t)
    /\ ForeignOwner(t)
    /\ Abort(t)

Misplaced(t) ==
    /\ pc[t] = "insert"
    /\ IdsFree(t)
    /\ PlaceTaken(t)
    /\ Abort(t)

\* Wrong variant: every id is acknowledged.
AnswerWholeBatch(t) ==
    /\ pc[t] = "answer"
    /\ accepted' = [accepted EXCEPT ![t] = {d.id : d \in batch[t]}]
    /\ Goto(t, "commit")
    /\ UNCHANGED <<shared, call, todo, wrote, put, existing>>

\* The ids of the batch now stored under the caller, its own inserts included.
Answer(t) ==
    /\ pc[t] = "answer"
    /\ accepted' = [accepted EXCEPT ![t] =
           {d.id : d \in {x \in batch[t] :
                            \E e \in evidence \union put[t] :
                                /\ e.kind = op[t] /\ e.id = x.id
                                /\ e.installation = caller[t]}}]
    /\ Goto(t, "commit")
    /\ UNCHANGED <<shared, call, todo, wrote, put, existing>>

-----------------------------------------------------------------------------
(***************************************************************************)
(* register_run.                                                           *)
(***************************************************************************)

Select(t) ==
    /\ pc[t] = "select"
    /\ existing' = [existing EXCEPT ![t] = Visible(t, target[t].run)]
    /\ Goto(t, "register")
    /\ UNCHANGED <<shared, call, todo, wrote, put, accepted>>

(***************************************************************************)
(* ieos_late_registration and ieos_already_registered.  register_run has a *)
(* third branch, updating a row with neither: UpdateBranchDead, below,     *)
(* says no such row is ever found.                                         *)
(***************************************************************************)
RefuseRegistration(t) ==
    /\ pc[t] = "register"
    /\ existing[t] # None
    /\ existing[t].first # None \/ existing[t].registered # None
    /\ Abort(t)

\* Wrong variant: an upsert, which takes the row committed meanwhile for its own.
RegisterUpserting(t) ==
    /\ pc[t] = "register"
    /\ existing[t] = None
    /\ ~HeldElsewhere(t, target[t].run)
    /\ Write(t, target[t].run,
             [owner |-> OwnerOf[caller[t]], class |-> target[t].class,
              registered |-> now[t], first |-> None])
    /\ Goto(t, "commit")
    /\ UNCHANGED <<shared, call, todo, put, existing, accepted>>

(***************************************************************************)
(* insert into runs: waits for a concurrent insert, and fails on the       *)
(* primary key if a row has been committed since the select.               *)
(***************************************************************************)
RegisterNew(t) ==
    /\ pc[t] = "register"
    /\ existing[t] = None
    /\ ~HeldElsewhere(t, target[t].run)
    /\ runs[target[t].run] = None
    /\ Write(t, target[t].run,
             [owner |-> OwnerOf[caller[t]], class |-> target[t].class,
              registered |-> now[t], first |-> None])
    /\ Goto(t, "commit")
    /\ UNCHANGED <<shared, call, todo, put, existing, accepted>>

RegisteredMeanwhile(t) ==
    /\ pc[t] = "register"
    /\ existing[t] = None
    /\ ~HeldElsewhere(t, target[t].run)
    /\ runs[target[t].run] # None
    /\ Abort(t)

-----------------------------------------------------------------------------
Commit(t) ==
    /\ pc[t] = "commit"
    /\ runs' = [r \in Run |-> Visible(t, r)]
    /\ evidence' = evidence \union put[t]
    /\ wrote' = [wrote EXCEPT ![t] = [r \in Run |-> None]]
    /\ put' = [put EXCEPT ![t] = {}]
    /\ Goto(t, "committed")
    /\ UNCHANGED <<clock, revoked, call, todo, existing, accepted>>

\* What t waits for, if it waits at a run row.
WaitsFor(t, u) ==
    \E r \in Run :
        /\ wrote[u][r] # None
        /\ \/ pc[t] = "ensure" /\ r \in todo[t] /\ runs[r] = None
           \/ pc[t] = "first" /\ r \in todo[t] /\ Visible(t, r).first = None
           \/ pc[t] = "register" /\ r = target[t].run

\* Deadlock detection: Postgres aborts one of two transactions in a cycle.
Victim(t) ==
    /\ \E u \in Tx \ {t} : WaitsFor(t, u) /\ WaitsFor(u, t)
    /\ Abort(t)

\* The connection is lost before the commit.
Disconnect(t) ==
    /\ pc[t] \in Open \union {"check"}
    /\ Abort(t)

Tick ==
    /\ clock < MaxTime
    /\ clock' = clock + 1
    /\ UNCHANGED <<revoked, runs, evidence, pc, call, todo, wrote, put, existing,
                   accepted>>

\* The owner revokes a principal; the update waits for the row like any other.
Revoke(p) ==
    /\ p \notin revoked
    /\ ~\E t \in Tx : pc[t] \in Open \ {"touch"} /\ caller[t] = p
    /\ revoked' = revoked \union {p}
    /\ UNCHANGED <<clock, runs, evidence, pc, call, todo, wrote, put, existing,
                   accepted>>

Step(t) ==
    \/ Check(t) \/ Refuse(t) \/ Touch(t)
    \/ \E r \in Run : \/ EnsureRun(t, r) \/ FirstKnown(t, r)
                      \/ StampFirst(t, r) \/ FirstTooEarly(t, r)
    \/ RunsEnsured(t) \/ FirstStamped(t)
    \/ InsertEvidence(t) \/ CrossOwner(t) \/ Misplaced(t) \/ Answer(t)
    \/ Select(t) \/ RefuseRegistration(t) \/ RegisterNew(t)
    \/ RegisteredMeanwhile(t) \/ Commit(t) \/ Victim(t)

Next ==
    \/ \E t \in Tx :
          \/ \E kind \in Ingest, p \in Principal, b \in Batch :
                CallIngest(t, kind, p, b)
          \/ \E p \in Principal, r \in Run, c \in Class :
                CallRegister(t, p, [run |-> r, class |-> c])
          \/ Step(t)
          \/ Disconnect(t)
    \/ Tick
    \/ \E p \in Principal : Revoke(p)

Spec == Init /\ [][Next]_vars

\* Postgres keeps running the statements it was given.
Fairness == \A t \in Tx : WF_vars(Step(t))

FairSpec == Spec /\ Fairness

-----------------------------------------------------------------------------
(***************************************************************************)
(* Safety.                                                                 *)
(***************************************************************************)

(***************************************************************************)
(* D36: the class stamped on a piece of evidence is, for good, the class   *)
(* of its run.  A registration that raced the first batch either came      *)
(* first and is what the batch carries, or failed.                         *)
(***************************************************************************)
StampIsRunClass ==
    \A e \in evidence : e.kind # "snapshot" =>
        runs[e.run] # None /\ e.class = runs[e.run].class

\* D36, 0002: evidence lends no classification across the owner boundary.
OwnerBoundary ==
    \A e \in evidence :
        /\ runs[e.run] # None
        /\ e.owner = runs[e.run].owner
        /\ e.owner = OwnerOf[e.installation]

(***************************************************************************)
(* register_run never finds a row that is neither registered nor started,  *)
(* so its update branch is dead: every other writer stamps first_event_at. *)
(***************************************************************************)
UpdateBranchDead ==
    \A t \in Tx : pc[t] = "register" /\ existing[t] # None =>
        existing[t].first # None \/ existing[t].registered # None

(***************************************************************************)
(* The answer is exact: an ingest that committed names the ids of its      *)
(* batch that are stored under its caller, all of them and no other.  Only *)
(* those does the caller's outbox forget.                                  *)
(***************************************************************************)
AnswerIsExact ==
    \A t \in Tx : pc[t] = "committed" /\ op[t] \in Ingest =>
        accepted[t] = {d.id : d \in {x \in batch[t] :
                          \E e \in evidence : /\ e.kind = op[t] /\ e.id = x.id
                                             /\ e.installation = caller[t]}}

(***************************************************************************)
(* D26: the history is unambiguous.  An id is one piece of evidence,       *)
(* whoever sent it, and a place in an installation's order is one event.   *)
(***************************************************************************)
HistoryUnambiguous ==
    \A e, f \in evidence : e.kind = f.kind /\ e # f =>
        /\ e.id # f.id
        /\ e.kind = "event" /\ e.installation = f.installation =>
               PositionOf[e.id] # PositionOf[f.id]

(***************************************************************************)
(* A registration that was confirmed holds, and is the only one: the run   *)
(* has the confirmed class, from before its first event.                   *)
(***************************************************************************)
RegistrationHolds ==
    \A t \in Tx : pc[t] = "committed" /\ op[t] = "register" =>
        LET row == runs[target[t].run]
        IN  /\ row # None
            /\ row.class = target[t].class
            /\ row.registered = now[t]
            /\ row.first # None => row.registered <= row.first

(***************************************************************************)
(* A committed run never changes owner or class, its first event is final, *)
(* and a registered run was registered no later than that event, although  *)
(* both times are those at which their transactions began.                 *)
(***************************************************************************)
RunsSettled ==
    [][\A r \in Run :
           /\ runs[r] # None =>
                /\ runs'[r] # None
                /\ runs'[r].owner = runs[r].owner
                /\ runs'[r].class = runs[r].class
                /\ runs[r].first # None => runs'[r].first = runs[r].first
           /\ runs'[r] # None /\ runs'[r].registered # None /\ runs'[r].first # None =>
                runs'[r].registered <= runs'[r].first]_runs

\* Every transaction that begins commits or aborts: no wait is for ever.
CallsEnd ==
    \A t \in Tx : (pc[t] # "idle") ~> (pc[t] \in {"committed", "aborted"})

-----------------------------------------------------------------------------
(***************************************************************************)
(* D25 says a snapshot "syncs through ingest as a context_snapshots row    *)
(* keyed by the same id; the id is therefore stable across machines".  A   *)
(* machine that syncs a snapshot the plane holds should be told so.        *)
(***************************************************************************)
SnapshotsAcknowledged ==
    \A t \in Tx : pc[t] = "committed" /\ op[t] = "snapshot" =>
        accepted[t] = {d.id : d \in batch[t]}
=============================================================================
