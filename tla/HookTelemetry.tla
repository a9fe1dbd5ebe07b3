---------------------------- MODULE HookTelemetry ----------------------------
(***************************************************************************)
(* The hook processes of the Claude Code adapter.  The agent starts one OS *)
(* process per lifecycle event; each opens the shared database, finds or   *)
(* begins the run of its session, appends its events, and at Stop and      *)
(* SessionEnd flushes every queue to the Evidence Plane and judges the run *)
(* (runHook in hook-cli.ts, Flusher in flush.ts).                          *)
(*                                                                         *)
(* Processes share nothing but the database, so any of them may run        *)
(* between two statements of another, be killed at any point, or find a    *)
(* statement failing.  MCP servers stage documents in the same database.   *)
(***************************************************************************)
EXTENDS LocalEvidence

CONSTANTS
    Hook,            \* hook processes; each is also the emitter id it mints
    Legacy,          \* events queued by a version that kept no history
    MaxAttribution,  \* bound on the attribution events of one tool call
    MaxAttempts      \* FlushPolicy.maxAttempts

ASSUME HookAssumption ==
    /\ Hook \subseteq Emitter
    /\ Legacy \subseteq Event
    /\ \A e \in Legacy : e.emitter \notin Hook
    /\ MaxAttribution \in Nat
    /\ 0 .. MaxAttribution \subseteq Sequence
    /\ MaxAttempts \in Nat \ {0}

HookEvent == {"SessionStart", "PostToolUse", "Stop", "SessionEnd"}

\* planHook and attributionEvents: what an invocation of each kind does.
StartsRun(h)   == h = "SessionStart"
Flushes(h)     == h \in {"Stop", "SessionEnd"}
\* Wrong variant: every flush finishes the run.
FinishesAtEveryFlush(h) == Flushes(h)
FinishesRun(h) == h = "SessionEnd"
Emissions(h)   == CASE h = "Stop"        -> {0}
                    [] h = "PostToolUse" -> 1 .. 1 + MaxAttribution
                    [] OTHER             -> {1}

\* What forSession returned to a process: a copy, never refreshed.
Seen == [run : Run, failed : BOOLEAN, reachable : BOOLEAN]

ASSUME NoneIsNotSeen == None \notin Seen

Outcome == {"drained", "partial", "unreachable", "rejected"}
Ended   == {"ok", "failed", "dead"}
Running == {"lookup", "begin", "reread", "emit", "fetch", "send", "ack",
            "count", "mark", "finish", "catch"}

VARIABLES
    pc,         \* where each process is; "ok" and "failed" are exit codes 0 and 1
    hook,       \* the event it was started for
    session,    \* the session_id on its stdin
    seen,       \* its copy of the run row
    toEmit,     \* emissions left
    emitted,    \* the emitter's next sequence number
    queue,      \* the queue it is draining or counting
    batch,      \* the page it is sending
    attempt,    \* attempts made to send it
    accepted,   \* the ids the plane acknowledged
    leftover,   \* whether a count so far was above zero
    outcome,    \* the FlushResult's outcome
    durable,    \* external: what the Evidence Plane holds, by kind
    before      \* history variable: what was staged when the process started

invocation == <<hook, session, toEmit, emitted, before>>
flushing   == <<queue, batch, attempt, accepted, leftover, outcome>>
vars == <<localVars, pc, invocation, seen, flushing, durable>>

TypeOK ==
    /\ LocalTypeOK
    /\ pc \in [Hook -> Running \union Ended \union {"idle"}]
    /\ hook \in [Hook -> HookEvent \union {None}]
    /\ session \in [Hook -> Session \union {None}]
    /\ seen \in [Hook -> Seen \union {None}]
    /\ toEmit \in [Hook -> 0 .. 1 + MaxAttribution]
    /\ emitted \in [Hook -> 0 .. 1 + MaxAttribution]
    /\ queue \in [Hook -> Kind]
    /\ batch \in [Hook -> SUBSET Item]
    /\ attempt \in [Hook -> 0 .. MaxAttempts]
    /\ accepted \in [Hook -> SUBSET Item]
    /\ leftover \in [Hook -> BOOLEAN]
    /\ outcome \in [Hook -> Outcome]
    /\ durable \in [Kind -> SUBSET Item]
    /\ before \in [Hook -> [Kind -> SUBSET Item]]

Init ==
    /\ LocalInit(Legacy)
    /\ pc = [p \in Hook |-> "idle"]
    /\ hook = [p \in Hook |-> None]
    /\ session = [p \in Hook |-> None]
    /\ seen = [p \in Hook |-> None]
    /\ toEmit = [p \in Hook |-> 0]
    /\ emitted = [p \in Hook |-> 0]
    /\ queue = [p \in Hook |-> "event"]
    /\ batch = [p \in Hook |-> {}]
    /\ attempt = [p \in Hook |-> 0]
    /\ accepted = [p \in Hook |-> {}]
    /\ leftover = [p \in Hook |-> FALSE]
    /\ outcome = [p \in Hook |-> "drained"]
    /\ durable = [k \in Kind |-> {}]
    /\ before = [p \in Hook |-> [k \in Kind |-> {}]]

Goto(p, where) == pc' = [pc EXCEPT ![p] = where]

-----------------------------------------------------------------------------
(***************************************************************************)
(* Starting, and finding the run.                                          *)
(***************************************************************************)

\* The agent starts a hook, which parses its input and opens the database.
Start(p, h, s, n) ==
    /\ pc[p] = "idle"
    /\ UpgradeHistory
    /\ hook' = [hook EXCEPT ![p] = h]
    /\ session' = [session EXCEPT ![p] = s]
    /\ toEmit' = [toEmit EXCEPT ![p] = n]
    /\ before' = [before EXCEPT ![p] = staged']
    /\ Goto(p, "lookup")
    /\ UNCHANGED <<seen, emitted, flushing, durable>>

\* The database cannot be opened: failed(...), with no run to mark.
StartFails(p, h, s) ==
    /\ pc[p] = "idle"
    /\ hook' = [hook EXCEPT ![p] = h]
    /\ session' = [session EXCEPT ![p] = s]
    /\ Goto(p, "failed")
    /\ UNCHANGED <<localVars, seen, toEmit, emitted, before, flushing, durable>>

AfterEmissions(p) == IF Flushes(hook[p]) THEN "fetch" ELSE "ok"

\* The process keeps a copy of its session's row and goes on to its emissions.
Adopt(p, r) ==
    /\ r \in RunsOf(session[p])
    /\ seen' = [seen EXCEPT ![p] = [run |-> r, failed |-> runs[r].failed,
                                    reachable |-> runs[r].reachable]]
    /\ Goto(p, IF toEmit[p] = 0 THEN AfterEmissions(p) ELSE "emit")
    /\ UNCHANGED <<localVars, invocation, flushing, durable>>

FindRun(p) ==
    /\ pc[p] = "lookup"
    /\ \E r \in Run : Adopt(p, r)

\* Only SessionStart begins a run; any other hook exits without recording.
NoRun(p) ==
    /\ pc[p] = "lookup"
    /\ RunsOf(session[p]) = {}
    /\ Goto(p, IF StartsRun(hook[p]) THEN "begin" ELSE "ok")
    /\ UNCHANGED <<localVars, invocation, seen, flushing, durable>>

\* IEOS_RUN_ID may name any run, also one another session began.
Begin(p, r, reachable) ==
    /\ pc[p] = "begin"
    /\ BeginRun(r, session[p], reachable)
    /\ Goto(p, "reread")
    /\ UNCHANGED <<staged, acked, outbox, invocation, seen, flushing, durable>>

Reread(p) ==
    /\ pc[p] = "reread"
    /\ \/ \E r \in Run : Adopt(p, r)
       \/ /\ RunsOf(session[p]) = {}
          /\ Goto(p, "failed")
          /\ UNCHANGED <<localVars, invocation, seen, flushing, durable>>

\* One emission: the emitter stamps the next sequence and appends.
Emit(p) ==
    /\ pc[p] = "emit"
    /\ AppendEvent([emitter |-> p, sequence |-> emitted[p], run |-> seen[p].run])
    /\ emitted' = [emitted EXCEPT ![p] = @ + 1]
    /\ toEmit' = [toEmit EXCEPT ![p] = @ - 1]
    /\ Goto(p, IF toEmit[p] = 1 THEN AfterEmissions(p) ELSE "emit")
    /\ UNCHANGED <<hook, session, before, seen, flushing, durable>>

-----------------------------------------------------------------------------
(***************************************************************************)
(* Flushing.  The queues are drained in a fixed order, page by page; the   *)
(* first page that is not wholly accepted ends the flush.  What is left is *)
(* then counted, one select per queue.                                     *)
(***************************************************************************)

Follows(k) == IF k = "event" THEN "observation" ELSE "snapshot"

\* Take the next page; an empty queue passes the flush on.
Fetch(p) ==
    /\ pc[p] = "fetch"
    /\ \E b \in SUBSET Pending(queue[p]) :
           /\ IsPage(queue[p], b)
           /\ batch' = [batch EXCEPT ![p] = b]
           /\ IF b # {}
                THEN /\ attempt' = [attempt EXCEPT ![p] = 1]
                     /\ Goto(p, "send")
                     /\ UNCHANGED queue
                ELSE /\ IF queue[p] = "snapshot"
                          THEN /\ Goto(p, "count")
                               /\ queue' = [queue EXCEPT ![p] = "event"]
                          ELSE /\ UNCHANGED pc
                               /\ queue' = [queue EXCEPT ![p] = Follows(@)]
                     /\ UNCHANGED attempt
    /\ UNCHANGED <<localVars, invocation, seen, accepted, leftover, outcome,
                   durable>>

\* A flush that cannot go on still counts what is left (#failedResult).
Fail(p, how) ==
    /\ outcome' = [outcome EXCEPT ![p] = how]
    /\ queue' = [queue EXCEPT ![p] = "event"]
    /\ Goto(p, "count")

\* The plane stores some of the page, possibly all, and names what it stored.
Accepted(p) ==
    /\ pc[p] = "send"
    /\ \E ids \in SUBSET batch[p] :
           /\ durable' = [durable EXCEPT ![queue[p]] = @ \union ids]
           /\ accepted' = [accepted EXCEPT ![p] = ids]
    /\ Goto(p, "ack")
    /\ UNCHANGED <<localVars, invocation, seen, queue, batch, attempt, leftover,
                   outcome>>

\* A refusal is final for this boundary.
Rejected(p) ==
    /\ pc[p] = "send"
    /\ Fail(p, "rejected")
    /\ UNCHANGED <<localVars, invocation, seen, batch, attempt, accepted,
                   leftover, durable>>

(***************************************************************************)
(* No usable answer: the request was lost, or the plane stored the page    *)
(* and the answer was lost.  Retried up to maxAttempts.                    *)
(***************************************************************************)
Unreachable(p) ==
    /\ pc[p] = "send"
    /\ \E stored \in {{}, batch[p]} :
           durable' = [durable EXCEPT ![queue[p]] = @ \union stored]
    /\ IF attempt[p] < MaxAttempts
         THEN /\ attempt' = [attempt EXCEPT ![p] = @ + 1]
              /\ UNCHANGED <<pc, outcome, queue>>
         ELSE /\ Fail(p, "unreachable")
              /\ UNCHANGED attempt
    /\ UNCHANGED <<localVars, invocation, seen, batch, accepted, leftover>>

\* The answer names an id that was not asked about: not believed, not retried.
\* What the plane then stored of the page is anyone's guess.
ForeignId(p) ==
    /\ pc[p] = "send"
    /\ \E stored \in {{}, batch[p]} :
           durable' = [durable EXCEPT ![queue[p]] = @ \union stored]
    /\ Fail(p, "unreachable")
    /\ UNCHANGED <<localVars, invocation, seen, batch, attempt, accepted, leftover>>

\* Wrong variant: a settled request acknowledges the page it sent.
AckWholePage(p) ==
    /\ pc[p] = "ack"
    /\ Acknowledge(queue[p], batch[p])
    /\ IF accepted[p] = batch[p]
         THEN /\ Goto(p, "fetch")
              /\ UNCHANGED <<outcome, queue>>
         ELSE Fail(p, "partial")
    /\ UNCHANGED <<invocation, seen, batch, attempt, accepted, leftover, durable>>

Ack(p) ==
    /\ pc[p] = "ack"
    /\ Acknowledge(queue[p], accepted[p])
    /\ IF accepted[p] = batch[p]
         THEN /\ Goto(p, "fetch")
              /\ UNCHANGED <<outcome, queue>>
         ELSE Fail(p, "partial")
    /\ UNCHANGED <<invocation, seen, batch, attempt, accepted, leftover, durable>>

\* #remaining: three selects; anything left turns "drained" into "partial".
Count(p) ==
    /\ pc[p] = "count"
    /\ LET left == leftover[p] \/ Pending(queue[p]) # {}
           out  == IF left /\ outcome[p] = "drained" THEN "partial"
                                                     ELSE outcome[p]
       IN  /\ leftover' = [leftover EXCEPT ![p] = left]
           /\ IF queue[p] # "snapshot"
                THEN /\ queue' = [queue EXCEPT ![p] = Follows(@)]
                     /\ UNCHANGED <<pc, outcome>>
                ELSE /\ outcome' = [outcome EXCEPT ![p] = out]
                     /\ Goto(p, IF out # "drained" THEN "mark"
                                ELSE IF FinishesRun(hook[p]) THEN "finish"
                                ELSE "ok")
                     /\ UNCHANGED queue
    /\ UNCHANGED <<localVars, invocation, seen, batch, attempt, accepted, durable>>

-----------------------------------------------------------------------------
(***************************************************************************)
(* Judging the run, failing and dying.                                     *)
(***************************************************************************)

Mark(p) ==
    /\ pc[p] = "mark"
    /\ MarkFlushFailed(seen[p].run)
    /\ Goto(p, IF FinishesRun(hook[p]) THEN "finish" ELSE "failed")
    /\ UNCHANGED <<staged, acked, outbox, invocation, seen, flushing, durable>>

\* runTelemetryState and finish: the verdict uses the copy read at the start.
Finish(p) ==
    /\ pc[p] = "finish"
    /\ LET everFailed == seen[p].failed \/ outcome[p] # "drained"
           complete   == ~leftover[p] /\ ~everFailed
       IN  /\ FinishRun(seen[p].run, complete, complete /\ seen[p].reachable,
                        everFailed)
           /\ Goto(p, IF everFailed THEN "failed" ELSE "ok")
    /\ UNCHANGED <<staged, acked, outbox, invocation, seen, flushing, durable>>

Fallible == Running \ {"send", "catch"}

\* A statement throws: locked, full, unreadable.
Throw(p) ==
    /\ pc[p] \in Fallible
    /\ Goto(p, "catch")
    /\ UNCHANGED <<localVars, invocation, seen, flushing, durable>>

\* The catch block marks the run, if the process knows one and the mark works.
Catch(p) ==
    /\ pc[p] = "catch"
    /\ IF seen[p] = None THEN UNCHANGED runs
       ELSE \/ MarkFlushFailed(seen[p].run)
            \/ UNCHANGED runs
    /\ Goto(p, "failed")
    /\ UNCHANGED <<staged, acked, outbox, invocation, seen, flushing, durable>>

\* The process is killed: a hook timeout, a stopped container.
Crash(p) ==
    /\ pc[p] \in Running
    /\ Goto(p, "dead")
    /\ UNCHANGED <<localVars, invocation, seen, flushing, durable>>

\* An MCP server stages an observation (observe) or a snapshot (resolve, expand).
McpStage(k, d) ==
    /\ StageDocument(k, d)
    /\ UNCHANGED <<pc, invocation, seen, flushing, durable>>

-----------------------------------------------------------------------------
Step(p) ==
    \/ FindRun(p) \/ NoRun(p) \/ Reread(p) \/ Emit(p)
    \/ \E r \in Run, reachable \in BOOLEAN : Begin(p, r, reachable)
    \/ Fetch(p) \/ Accepted(p) \/ Rejected(p) \/ Unreachable(p) \/ ForeignId(p)
    \/ Ack(p) \/ Count(p) \/ Mark(p) \/ Finish(p) \/ Catch(p)

Environment(p) ==
    \/ \E h \in HookEvent, s \in Session :
          \/ \E n \in Emissions(h) : Start(p, h, s, n)
          \/ StartFails(p, h, s)
    \/ Throw(p)
    \/ Crash(p)

Next ==
    \/ \E p \in Hook : Step(p) \/ Environment(p)
    \/ \E k \in {"observation", "snapshot"}, d \in Document : McpStage(k, d)

Spec == Init /\ [][Next]_vars

(***************************************************************************)
(* A started process keeps being scheduled; its ingest call settles, by    *)
(* answer, refusal or socket timeout.                                      *)
(***************************************************************************)
Fairness == \A p \in Hook : WF_vars(Step(p))

FairSpec == Spec /\ Fairness

-----------------------------------------------------------------------------
(***************************************************************************)
(* Safety.                                                                 *)
(***************************************************************************)

(***************************************************************************)
(* Nothing leaves a queue unless the plane holds it: what was ever staged  *)
(* is still pending or both acknowledged and durable, and an acknowledged  *)
(* event is no longer queued.  Acknowledge runs on ids read before an      *)
(* await, while other processes append and drain.                          *)
(***************************************************************************)
NothingLost ==
    \A k \in Kind :
        /\ acked[k] \subseteq staged[k] \intersect durable[k]
        /\ staged[k] \subseteq Pending(k) \union acked[k]
        /\ Pending(k) \intersect acked[k] = {}

(***************************************************************************)
(* A flush that reports "drained" has delivered everything, of every run,  *)
(* that was staged when its process started, although the queues were      *)
(* paged and counted one after the other while others drained them too.    *)
(***************************************************************************)
DrainedCovers ==
    \A p \in Hook :
        /\ pc[p] \in {"finish", "ok"}
        /\ hook[p] \in {"Stop", "SessionEnd"}
        /\ seen[p] # None
        /\ outcome[p] = "drained"
        => \A k \in Kind : before[p][k] \subseteq durable[k]

(***************************************************************************)
(* A run that reads COMPLETE was finished by a SessionEnd process whose    *)
(* flush drained: everything staged before that process began is durable,  *)
(* its own events included.                                                *)
(***************************************************************************)
CompleteWasDrained ==
    \A r \in Run : Complete(r) =>
        \E p \in Hook :
            /\ pc[p] = "ok" /\ hook[p] = "SessionEnd"
            /\ seen[p] # None /\ seen[p].run = r /\ ~seen[p].failed
            /\ \A k \in Kind : before[p][k] \subseteq durable[k]
            /\ \A e \in staged["event"] : e.emitter = p => e \in durable["event"]

(***************************************************************************)
(* No run row overclaims: what is marked failed is neither complete nor    *)
(* eligible, and an eligible row is complete and was declared reachable.   *)
(* Every process writes these columns from a copy that may be stale.       *)
(***************************************************************************)
RowsHonest ==
    \A r \in Run : runs[r] # None =>
        /\ runs[r].failed => ~runs[r].complete
        /\ runs[r].eligible => runs[r].complete /\ runs[r].reachable

(***************************************************************************)
(* A session has at most one run, however its SessionStart hooks race and  *)
(* whatever run ids they bring: the loser adopts the winner's row.         *)
(***************************************************************************)
OneRunPerSession ==
    \A s \in Session : \A r1, r2 \in RunsOf(s) : r1 = r2

-----------------------------------------------------------------------------
(***************************************************************************)
(* What the repository says of the program, and the program does not do.   *)
(***************************************************************************)

(***************************************************************************)
(* flush.ts, on Flusher: "A single partial ACK is sticky failure for the   *)
(* run even if a later process eventually delivers the rest".  The failure *)
(* lives in the process until Mark writes it.                              *)
(***************************************************************************)
PartialAckIsSticky ==
    \A p \in Hook : pc[p] \in Ended /\ outcome[p] = "partial" =>
        ~Complete(seen[p].run)

(***************************************************************************)
(* D23: a container killed after the last tool call leaves a run whose     *)
(* events arrived or which is INCOMPLETE, "never silently complete".  The  *)
(* container can be killed in any state.  A resumed session appends to a   *)
(* run that SessionEnd already made COMPLETE.                              *)
(***************************************************************************)
CompleteArrived ==
    \A r \in Run : Complete(r) =>
        \A e \in staged["event"] : e.run = r => e \in durable["event"]

-----------------------------------------------------------------------------
(***************************************************************************)
(* Action properties.                                                      *)
(***************************************************************************)

(***************************************************************************)
(* D23: once a failed boundary is recorded no later process, whatever it   *)
(* read before, makes the run COMPLETE or clears the failure.              *)
(***************************************************************************)
FailureIsSticky ==
    [][\A r \in Run : runs[r] # None /\ runs[r].failed =>
           runs[r]'.failed /\ ~Complete(r)']_runs

-----------------------------------------------------------------------------
(***************************************************************************)
(* Liveness: every hook process that starts ends, so the agent is never    *)
(* blocked by telemetry, though the drain loop has no bound of its own.    *)
(***************************************************************************)
HookEnds == \A p \in Hook : (pc[p] # "idle") ~> (pc[p] \in Ended)

-----------------------------------------------------------------------------
(***************************************************************************)
(* The promise of EvidenceDelivery, kept.                                  *)
(***************************************************************************)
Tagged(f) == UNION {{k} \X f[k] : k \in Kind}

verdictBar ==
    [r \in Run |-> IF runs[r] = None THEN "none"
                   ELSE IF runs[r].failed THEN "lost"
                   ELSE IF runs[r].complete THEN "measured"
                   ELSE "open"]

Delivery == INSTANCE EvidenceDelivery WITH
    Evidence  <- Kind \X Item,
    recorded  <- Tagged(staged) \union ({"event"} \X outbox),
    delivered <- Tagged(durable),
    settled   <- Tagged(acked),
    verdict   <- verdictBar

ImplementsDelivery == Delivery!Spec
=============================================================================
