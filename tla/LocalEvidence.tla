---------------------------- MODULE LocalEvidence ----------------------------
(***************************************************************************)
(* The SQLite file one checkout keeps at .ieos/outbox.sqlite, shared by    *)
(* every hook process and MCP server of that checkout: the event queue and *)
(* its history (outbox.ts), the staged observations and context snapshots  *)
(* (evidence-documents.ts) and the run rows (run-state.ts).                *)
(*                                                                         *)
(* Each operator below is one SQL statement or one `begin immediate`       *)
(* transaction, hence atomic for every other process.  The modules that    *)
(* use them decide which process runs which, and when.                     *)
(***************************************************************************)
EXTENDS Naturals, FiniteSets

CONSTANTS
    Run,         \* run ids
    Session,     \* the session ids the agent hands to its hooks
    Emitter,     \* emitter ids; a hook process mints one of its own
    Sequence,    \* the source.sequence values an emitter can reach
    DocId,       \* ids of observations and context snapshots
    BatchSize,   \* FlushPolicy.batchSize
    None         \* an absent row

ASSUME LocalAssumption ==
    /\ Sequence \subseteq Nat
    /\ BatchSize \in Nat \ {0}

-----------------------------------------------------------------------------
(***************************************************************************)
(* Data.  An event is identified by its emitter and its sequence number,   *)
(* as the unique key of both tables says; a document by its id alone.      *)
(***************************************************************************)

Event    == [emitter : Emitter, sequence : Sequence, run : Run]
Document == [id : DocId, run : Run]
Item     == Event \union Document

Kind == {"event", "observation", "snapshot"}

\* A run row.  The column ended_at is kept as "was it ever written".
Row == [session : Session, complete : BOOLEAN, eligible : BOOLEAN,
        reachable : BOOLEAN, failed : BOOLEAN, ended : BOOLEAN]

ASSUME NoneIsNoRow == None \notin Row /\ None \notin Session

VARIABLES
    staged,   \* everything ever recorded locally, by kind; staged.event is event_history
    acked,    \* what carries acknowledged = 1, by kind
    outbox,   \* the rows of the table outbox
    runs      \* the row of each run, or None

localVars == <<staged, acked, outbox, runs>>

LocalTypeOK ==
    /\ staged \in [Kind -> SUBSET Item]
    /\ acked \in [Kind -> SUBSET Item]
    /\ outbox \in SUBSET Item
    /\ runs \in [Run -> Row \union {None}]

(***************************************************************************)
(* A fresh database, or one written before event_history existed: then the *)
(* queue holds events the history does not.                                *)
(***************************************************************************)
LocalInit(legacy) ==
    /\ staged = [k \in Kind |-> {}]
    /\ acked = [k \in Kind |-> {}]
    /\ outbox = legacy
    /\ runs = [r \in Run |-> None]

-----------------------------------------------------------------------------
(***************************************************************************)
(* Queues.                                                                 *)
(***************************************************************************)

\* What a flush still has to deliver, by kind.
Pending(k) == IF k = "event" THEN outbox ELSE staged[k] \ acked[k]

(***************************************************************************)
(* One page of a queue.  Events come out by (installation, emitter,        *)
(* sequence).  Emitter ids are random, so the order between two emitters   *)
(* is left open; within an emitter it is the sequence.                     *)
(***************************************************************************)
IsPage(k, b) ==
    /\ b \subseteq Pending(k)
    /\ \/ Cardinality(b) = BatchSize
       \/ b = Pending(k) /\ Cardinality(b) < BatchSize
    /\ k = "event" => \A x \in b, y \in Pending(k) \ b :
                          x.emitter = y.emitter => x.sequence < y.sequence

\* openOutbox: whatever is queued becomes part of the history.
UpgradeHistory ==
    /\ staged' = [staged EXCEPT !["event"] = @ \union outbox]
    /\ UNCHANGED <<acked, outbox, runs>>

\* append: an event the history already holds is not queued again.
AppendEvent(e) ==
    /\ staged' = [staged EXCEPT !["event"] = @ \union {e}]
    /\ outbox' = IF e \in staged["event"] THEN outbox ELSE outbox \union {e}
    /\ UNCHANGED <<acked, runs>>

\* recordObservation, recordContextSnapshot: insert or ignore by id.
StageDocument(k, d) ==
    /\ staged' = IF \E x \in staged[k] : x.id = d.id
                   THEN staged
                   ELSE [staged EXCEPT ![k] = @ \union {d}]
    /\ UNCHANGED <<acked, outbox, runs>>

\* Wrong variant: the row stays in the outbox.
AcknowledgeHistoryOnly(k, ids) ==
    /\ acked' = [acked EXCEPT ![k] = @ \union ids]
    /\ UNCHANGED <<staged, outbox, runs>>

\* acknowledge, acknowledgeObservations, acknowledgeContextSnapshots.
Acknowledge(k, ids) ==
    /\ acked' = [acked EXCEPT ![k] = @ \union ids]
    /\ outbox' = IF k = "event" THEN outbox \ ids ELSE outbox
    /\ UNCHANGED <<staged, runs>>

-----------------------------------------------------------------------------
(***************************************************************************)
(* Run rows.                                                               *)
(***************************************************************************)

\* forSession: session_key is unique, so this has at most one member.
RunsOf(s) == {r \in Run : runs[r] # None /\ runs[r].session = s}

\* Wrong variant: session_key is not unique.
BeginAnotherRun(r, s, reachable) ==
    runs' = IF runs[r] # None
              THEN runs
              ELSE [runs EXCEPT ![r] =
                      [session |-> s, complete |-> FALSE, eligible |-> FALSE,
                       reachable |-> reachable, failed |-> FALSE,
                       ended |-> FALSE]]

\* begin: insert or ignore, on run_id and on session_key alike.
BeginRun(r, s, reachable) ==
    runs' = IF runs[r] # None \/ RunsOf(s) # {}
              THEN runs
              ELSE [runs EXCEPT ![r] =
                      [session |-> s, complete |-> FALSE, eligible |-> FALSE,
                       reachable |-> reachable, failed |-> FALSE,
                       ended |-> FALSE]]

Update(r, row) ==
    runs' = IF runs[r] = None THEN runs ELSE [runs EXCEPT ![r] = row]

MarkFlushFailed(r) ==
    Update(r, [runs[r] EXCEPT !.failed = TRUE, !.complete = FALSE,
                              !.eligible = FALSE])

\* finish: neither the row's own failure nor the caller's is ever outranked.
FinishRun(r, complete, eligible, failedNow) ==
    LET failed == runs[r].failed \/ failedNow
    IN  Update(r, [runs[r] EXCEPT !.complete = ~failed /\ complete,
                                  !.eligible = ~failed /\ eligible,
                                  !.failed = failed,
                                  !.ended = TRUE])

\* toState: how every reader of the table sees a row.
Complete(r) == runs[r] # None /\ runs[r].complete /\ ~runs[r].failed
=============================================================================
