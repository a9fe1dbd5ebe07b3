------------------------- MODULE HookTelemetryProofs -------------------------
(***************************************************************************)
(* What TLC checks of HookTelemetry on small instances, proved for every   *)
(* number of hook processes, sessions, runs and documents, every page size *)
(* and every retry budget.                                                 *)
(***************************************************************************)
EXTENDS HookTelemetry, TLAPS

USE DEF Kind, HookEvent, Outcome, Ended, Running

-----------------------------------------------------------------------------
(***************************************************************************)
(* Type correctness.  The emitter's counter stays in range because an      *)
(* invocation never emits more than it planned, and a process that got     *)
(* past the lookup knows its run.                                          *)
(***************************************************************************)
LocalsSound ==
    \A p \in Hook :
        /\ emitted[p] + toEmit[p] <= 1 + MaxAttribution
        /\ pc[p] = "idle" => emitted[p] = 0
        /\ pc[p] = "emit" => toEmit[p] >= 1
        /\ pc[p] \in {"emit", "fetch", "send", "ack", "count", "mark", "finish"}
             => seen[p] # None
        /\ pc[p] # "idle" => session[p] # None

TypeInv == TypeOK /\ LocalsSound

\* The planned emissions of a hook are within the bound, for every hook event.
LEMMA EmissionsInRange ==
    ASSUME NEW h \in HookEvent, NEW n \in Emissions(h)
    PROVE  n \in 0 .. 1 + MaxAttribution
  BY HookAssumption DEF Emissions

\* A queue holds items of the item type.
LEMMA PendingType ==
    ASSUME LocalTypeOK, NEW k \in Kind
    PROVE  Pending(k) \in SUBSET Item
  BY DEF LocalTypeOK, Pending

LEMMA FollowsType ==
    ASSUME NEW k \in Kind
    PROVE  Follows(k) \in Kind
  BY DEF Follows

\* Writing a run row keeps the table well typed.
LEMMA UpdateType ==
    ASSUME runs \in [Run -> Row \union {None}], NEW r \in Run,
           NEW row, runs[r] # None => row \in Row, Update(r, row)
    PROVE  runs' \in [Run -> Row \union {None}]
  BY DEF Update

LEMMA MarkType ==
    ASSUME runs \in [Run -> Row \union {None}], NEW r \in Run,
           MarkFlushFailed(r)
    PROVE  runs' \in [Run -> Row \union {None}]
  <1>1. runs[r] # None =>
          [runs[r] EXCEPT !.failed = TRUE, !.complete = FALSE,
                          !.eligible = FALSE] \in Row
    BY DEF Row
  <1>. QED  BY <1>1, UpdateType DEF MarkFlushFailed

LEMMA FinishType ==
    ASSUME runs \in [Run -> Row \union {None}], NEW r \in Run,
           NEW c \in BOOLEAN, NEW e \in BOOLEAN, NEW f \in BOOLEAN,
           FinishRun(r, c, e, f)
    PROVE  runs' \in [Run -> Row \union {None}]
  <1>. DEFINE failed == runs[r].failed \/ f
  <1>1. /\ failed \in BOOLEAN
        /\ (~failed /\ c) \in BOOLEAN
        /\ (~failed /\ e) \in BOOLEAN
    OBVIOUS
  <1>2. ASSUME NEW x \in BOOLEAN, NEW y \in BOOLEAN, NEW z \in BOOLEAN,
               runs[r] # None
        PROVE  [runs[r] EXCEPT !.complete = x, !.eligible = y, !.failed = z,
                               !.ended = TRUE] \in Row
    BY <1>2 DEF Row
  <1>3. runs[r] # None =>
          [runs[r] EXCEPT !.complete = ~failed /\ c, !.eligible = ~failed /\ e,
                          !.failed = failed, !.ended = TRUE] \in Row
    <2>. HIDE DEF failed
    <2>. QED  BY <1>1, <1>2, Zenon
  <1>. QED  BY <1>3, UpdateType, Zenon DEF FinishRun

LEMMA BeginType ==
    ASSUME runs \in [Run -> Row \union {None}], NEW r \in Run,
           NEW s \in Session, NEW b \in BOOLEAN, BeginRun(r, s, b)
    PROVE  runs' \in [Run -> Row \union {None}]
  BY NoneIsNoRow DEF BeginRun, Row

\* Appending, staging and acknowledging keep the queues well typed.
LEMMA AppendType ==
    ASSUME LocalTypeOK, NEW e \in Item, AppendEvent(e)
    PROVE  LocalTypeOK'
  BY DEF LocalTypeOK, AppendEvent

LEMMA AcknowledgeType ==
    ASSUME LocalTypeOK, NEW k \in Kind, NEW ids \in SUBSET Item,
           Acknowledge(k, ids)
    PROVE  LocalTypeOK'
  BY DEF LocalTypeOK, Acknowledge

LEMMA StageType ==
    ASSUME LocalTypeOK, NEW k \in Kind, NEW d \in Item, StageDocument(k, d)
    PROVE  LocalTypeOK'
  BY DEF LocalTypeOK, StageDocument

LEMMA UpgradeType ==
    ASSUME LocalTypeOK, UpgradeHistory
    PROVE  LocalTypeOK'
  BY DEF LocalTypeOK, UpgradeHistory

-----------------------------------------------------------------------------
USE DEF Goto, localVars, invocation, flushing

LEMMA TypeInit == Init => TypeInv
  BY HookAssumption DEF Init, LocalInit, TypeInv, TypeOK, LocalTypeOK,
     LocalsSound, Item

\* Starting: the plan of the invocation bounds what it will emit.
LEMMA TypeStart ==
    ASSUME TypeInv, NEW p \in Hook, NEW h \in HookEvent, NEW s \in Session,
           NEW n \in Emissions(h), Start(p, h, s, n)
    PROVE  TypeInv'
  <1>1. LocalTypeOK'
    BY UpgradeType DEF TypeInv, TypeOK, Start
  <1>2. n \in 0 .. 1 + MaxAttribution
    BY EmissionsInRange
  <1>3. TypeOK'
    BY <1>1, <1>2, HookAssumption DEF TypeInv, TypeOK, LocalTypeOK, Start
  <1>4. LocalsSound'
    BY <1>2, HookAssumption, NoneIsNoRow DEF TypeInv, TypeOK, LocalsSound, Start
  <1>. QED  BY <1>3, <1>4 DEF TypeInv

\* Finding a run: the process adopts a row that exists.
LEMMA TypeAdopt ==
    ASSUME TypeInv, NEW p \in Hook, NEW r \in Run, Adopt(p, r),
           pc[p] \in {"lookup", "reread"}
    PROVE  TypeInv'
  <1>1. [run |-> r, failed |-> runs[r].failed,
         reachable |-> runs[r].reachable] \in Seen
    BY DEF Adopt, RunsOf, TypeInv, TypeOK, LocalTypeOK, Row, Seen
  <1>2. (IF toEmit[p] = 0 THEN AfterEmissions(p) ELSE "emit")
          \in Running \union Ended \union {"idle"}
    BY DEF AfterEmissions
  <1>3. TypeOK'
    BY <1>1, <1>2 DEF TypeInv, TypeOK, LocalTypeOK, Adopt
  <1>4. LocalsSound'
    <2>1. toEmit[p] # 0 => toEmit[p] >= 1
      BY HookAssumption DEF TypeInv, TypeOK
    <2>2. AfterEmissions(p) \notin {"emit", "idle"}
      BY DEF AfterEmissions
    <2>. QED
      BY <1>1, <2>1, <2>2, NoneIsNotSeen
      DEF TypeInv, TypeOK, LocalsSound, Adopt
  <1>. QED  BY <1>3, <1>4 DEF TypeInv

\* Emitting: the sequence number is one the emitter can reach.
LEMMA TypeEmit ==
    ASSUME TypeInv, NEW p \in Hook, Emit(p)
    PROVE  TypeInv'
  <1>1. /\ seen[p] \in Seen
        /\ emitted[p] \in 0 .. MaxAttribution
        /\ toEmit[p] \in 1 .. 1 + MaxAttribution
        /\ emitted[p] + toEmit[p] <= 1 + MaxAttribution
    BY HookAssumption DEF TypeInv, TypeOK, LocalsSound, Emit
  <1>2. [emitter |-> p, sequence |-> emitted[p], run |-> seen[p].run] \in Item
    BY <1>1, HookAssumption DEF Item, Event, Seen
  <1>3. LocalTypeOK'
    BY <1>2, AppendType DEF TypeInv, TypeOK, Emit
  <1>4. AfterEmissions(p) \in {"fetch", "ok"}
    BY DEF AfterEmissions
  <1>5. TypeOK'
    BY <1>1, <1>3, <1>4, HookAssumption DEF TypeInv, TypeOK, Emit
  <1>6. LocalsSound'
    BY <1>1, <1>4, HookAssumption DEF TypeInv, TypeOK, LocalsSound, Emit
  <1>. QED  BY <1>5, <1>6 DEF TypeInv

\* Draining and counting: pages are parts of a queue.
LEMMA TypeFlush ==
    ASSUME TypeInv, NEW p \in Hook,
           \/ Fetch(p) \/ Accepted(p) \/ Rejected(p) \/ Unreachable(p)
           \/ ForeignId(p) \/ Ack(p) \/ Count(p)
    PROVE  TypeInv'
  <1>1. CASE Fetch(p)
    <2>. USE DEF TypeInv, TypeOK
    <2>a. PICK b \in SUBSET Pending(queue[p]) :
            /\ batch' = [batch EXCEPT ![p] = b]
            /\ IF b # {}
                 THEN /\ attempt' = [attempt EXCEPT ![p] = 1]
                      /\ Goto(p, "send")
                      /\ UNCHANGED queue
                 ELSE /\ IF queue[p] = "snapshot"
                           THEN /\ Goto(p, "count")
                                /\ queue' = [queue EXCEPT ![p] = "event"]
                           ELSE /\ UNCHANGED pc
                                /\ queue' = [queue EXCEPT ![p] = Follows(@)]
                      /\ UNCHANGED attempt
      BY <1>1 DEF Fetch
    <2>b. b \in SUBSET Item
      BY PendingType
    <2>c. batch' \in [Hook -> SUBSET Item]
      BY <2>a, <2>b
    <2>d. attempt' \in [Hook -> 0 .. MaxAttempts]
      <3>1. 1 \in 0 .. MaxAttempts
        BY HookAssumption
      <3>2. CASE b # {}
        BY <2>a, <3>1, <3>2
      <3>3. CASE b = {}
        BY <2>a, <3>3
      <3>. QED  BY <3>2, <3>3
    <2>e. /\ queue' \in [Hook -> Kind]
          /\ pc' \in [Hook -> Running \union Ended \union {"idle"}]
      <3>1. CASE b # {}
        BY <2>a, <3>1
      <3>2. CASE b = {} /\ queue[p] = "snapshot"
        BY <2>a, <3>2
      <3>3. CASE b = {} /\ queue[p] # "snapshot"
        BY <2>a, <3>3 DEF Follows
      <3>. QED  BY <3>1, <3>2, <3>3
    <2>1. TypeOK'
      BY <1>1, <2>c, <2>d, <2>e DEF LocalTypeOK, Fetch
    <2>2. LocalsSound'
      BY <1>1 DEF TypeInv, TypeOK, LocalsSound, Fetch
    <2>. QED  BY <2>1, <2>2 DEF TypeInv
  <1>2. CASE Accepted(p)
    <2>1. TypeOK'
      BY <1>2, HookAssumption DEF TypeInv, TypeOK, LocalTypeOK, Accepted
    <2>2. LocalsSound'
      BY <1>2 DEF TypeInv, TypeOK, LocalsSound, Accepted
    <2>. QED  BY <2>1, <2>2 DEF TypeInv
  <1>3. CASE Rejected(p)
    <2>1. TypeOK'
      BY <1>3, HookAssumption DEF TypeInv, TypeOK, LocalTypeOK, Rejected, Fail
    <2>2. LocalsSound'
      BY <1>3 DEF TypeInv, TypeOK, LocalsSound, Rejected, Fail
    <2>. QED  BY <2>1, <2>2 DEF TypeInv
  <1>4. CASE Unreachable(p)
    <2>. USE DEF TypeInv, TypeOK
    <2>a. durable' \in [Kind -> SUBSET Item]
      BY <1>4 DEF Unreachable
    <2>b. attempt' \in [Hook -> 0 .. MaxAttempts]
      BY <1>4, HookAssumption DEF Unreachable
    <2>c. /\ outcome' \in [Hook -> Outcome]
          /\ queue' \in [Hook -> Kind]
          /\ pc' \in [Hook -> Running \union Ended \union {"idle"}]
      BY <1>4 DEF Unreachable, Fail
    <2>1. TypeOK'
      BY <1>4, <2>a, <2>b, <2>c DEF LocalTypeOK, Unreachable
    <2>2. LocalsSound'
      BY <1>4 DEF TypeInv, TypeOK, LocalsSound, Unreachable, Fail
    <2>. QED  BY <2>1, <2>2 DEF TypeInv
  <1>5. CASE ForeignId(p)
    <2>1. TypeOK'
      BY <1>5, HookAssumption DEF TypeInv, TypeOK, LocalTypeOK, ForeignId, Fail
    <2>2. LocalsSound'
      BY <1>5 DEF TypeInv, TypeOK, LocalsSound, ForeignId, Fail
    <2>. QED  BY <2>1, <2>2 DEF TypeInv
  <1>6. CASE Ack(p)
    <2>. USE DEF TypeInv, TypeOK
    <2>a. LocalTypeOK'
      BY <1>6, AcknowledgeType DEF Ack
    <2>b. /\ outcome' \in [Hook -> Outcome]
          /\ queue' \in [Hook -> Kind]
          /\ pc' \in [Hook -> Running \union Ended \union {"idle"}]
      BY <1>6 DEF Ack, Fail
    <2>1. TypeOK'
      BY <1>6, <2>a, <2>b DEF Ack
    <2>2. LocalsSound'
      BY <1>6 DEF TypeInv, TypeOK, LocalsSound, Ack, Fail
    <2>. QED  BY <2>1, <2>2 DEF TypeInv
  <1>7. CASE Count(p)
    <2>. USE DEF TypeInv, TypeOK
    <2>. DEFINE left == leftover[p] \/ Pending(queue[p]) # {}
                out  == IF left /\ outcome[p] = "drained" THEN "partial"
                                                          ELSE outcome[p]
    <2>a. left \in BOOLEAN /\ out \in Outcome
      OBVIOUS
    <2>b. leftover' \in [Hook -> BOOLEAN]
      <3>1. leftover' = [leftover EXCEPT ![p] = left]
        BY <1>7, Zenon DEF Count
      <3>. HIDE DEF left
      <3>. QED  BY <3>1, <2>a, Zenon
    <2>c. /\ outcome' \in [Hook -> Outcome]
          /\ queue' \in [Hook -> Kind]
          /\ pc' \in [Hook -> Running \union Ended \union {"idle"}]
      <3>1. CASE queue[p] # "snapshot"
        BY <1>7, <3>1, FollowsType DEF Count
      <3>2. CASE queue[p] = "snapshot"
        <4>1. /\ outcome' = [outcome EXCEPT ![p] = out]
              /\ pc' = [pc EXCEPT ![p] = IF out # "drained" THEN "mark"
                                         ELSE IF FinishesRun(hook[p]) THEN "finish"
                                         ELSE "ok"]
              /\ UNCHANGED queue
          BY <1>7, <3>2 DEF Count
        <4>. HIDE DEF out
        <4>. QED  BY <2>a, <4>1
      <3>. QED  BY <3>1, <3>2
    <2>1. TypeOK'
      BY <1>7, <2>b, <2>c DEF LocalTypeOK, Count
    <2>2. LocalsSound'
      BY <1>7 DEF TypeInv, TypeOK, LocalsSound, Count
    <2>. QED  BY <2>1, <2>2 DEF TypeInv
  <1>. QED  BY <1>1, <1>2, <1>3, <1>4, <1>5, <1>6, <1>7

\* Judging and failing: every row written is a row.
LEMMA TypeJudge ==
    ASSUME TypeInv, NEW p \in Hook, Mark(p) \/ Finish(p) \/ Catch(p)
    PROVE  TypeInv'
  <1>. USE DEF TypeInv, TypeOK
  <1>1. seen[p] # None => /\ seen[p].run \in Run
                          /\ seen[p].failed \in BOOLEAN
                          /\ seen[p].reachable \in BOOLEAN
    BY DEF Seen
  <1>2. CASE Mark(p)
    <2>a. seen[p] # None
      BY <1>2 DEF LocalsSound, Mark
    <2>1. LocalTypeOK'
      BY <1>1, <1>2, <2>a, MarkType DEF Mark, LocalTypeOK
    <2>. QED  BY <1>2, <2>1 DEF LocalsSound, Mark
  <1>3. CASE Finish(p)
    <2>a. seen[p] # None
      BY <1>3 DEF LocalsSound, Finish
    <2>. DEFINE everFailed == seen[p].failed \/ outcome[p] # "drained"
                complete   == ~leftover[p] /\ ~everFailed
                eligible   == complete /\ seen[p].reachable
    <2>1. everFailed \in BOOLEAN /\ complete \in BOOLEAN /\ eligible \in BOOLEAN
      BY <1>1, <2>a
    <2>2. FinishRun(seen[p].run, complete, eligible, everFailed)
      BY <1>3, Zenon DEF Finish
    <2>3. runs' \in [Run -> Row \union {None}]
      <3>1. runs \in [Run -> Row \union {None}]
        BY DEF LocalTypeOK
      <3>. HIDE DEF everFailed, complete, eligible
      <3>. QED  BY <1>1, <2>a, <2>1, <2>2, <3>1, FinishType
    <2>4. LocalTypeOK'
      BY <1>3, <2>3 DEF Finish, LocalTypeOK
    <2>. QED  BY <1>3, <2>4 DEF LocalsSound, Finish
  <1>4. CASE Catch(p)
    <2>1. LocalTypeOK'
      BY <1>1, <1>4, MarkType DEF Catch, LocalTypeOK
    <2>. QED  BY <1>4, <2>1 DEF LocalsSound, Catch
  <1>. QED  BY <1>2, <1>3, <1>4

\* The remaining steps touch one process's control state, or stage a document.
LEMMA TypeOther ==
    ASSUME TypeInv, NEW p \in Hook
    PROVE  /\ NoRun(p) => TypeInv'
           /\ \A r \in Run, b \in BOOLEAN : Begin(p, r, b) => TypeInv'
           /\ \A h \in HookEvent, s \in Session : StartFails(p, h, s) => TypeInv'
           /\ Throw(p) => TypeInv'
           /\ Crash(p) => TypeInv'
  <1>. USE DEF TypeInv, TypeOK
  <1>1. NoRun(p) => TypeInv'
    BY DEF LocalTypeOK, LocalsSound, NoRun
  <1>2. ASSUME NEW r \in Run, NEW b \in BOOLEAN, Begin(p, r, b)
        PROVE  TypeInv'
    <2>1. session[p] \in Session
      BY <1>2 DEF Begin, LocalsSound
    <2>2. LocalTypeOK'
      BY <1>2, <2>1, BeginType, NoneIsNoRow DEF Begin, LocalTypeOK
    <2>. QED  BY <1>2, <2>2 DEF LocalsSound, Begin
  <1>3. ASSUME NEW h \in HookEvent, NEW s \in Session, StartFails(p, h, s)
        PROVE  TypeInv'
    BY <1>3, NoneIsNoRow DEF LocalTypeOK, LocalsSound, StartFails
  <1>4. Throw(p) => TypeInv'
    BY DEF LocalTypeOK, LocalsSound, Throw, Fallible
  <1>5. Crash(p) => TypeInv'
    BY DEF LocalTypeOK, LocalsSound, Crash
  <1>. QED  BY <1>1, <1>2, <1>3, <1>4, <1>5

LEMMA TypeMcp ==
    ASSUME TypeInv, NEW k \in {"observation", "snapshot"}, NEW d \in Document,
           McpStage(k, d)
    PROVE  TypeInv'
  <1>1. LocalTypeOK'
    BY StageType DEF TypeInv, TypeOK, McpStage, Item
  <1>. QED  BY <1>1 DEF TypeInv, TypeOK, LocalsSound, McpStage

(***************************************************************************)
(* Every step of every process keeps the variables in their types.         *)
(***************************************************************************)
LEMMA TypeNext == TypeInv /\ [Next]_vars => TypeInv'
  <1> SUFFICES ASSUME TypeInv, [Next]_vars PROVE TypeInv'
    OBVIOUS
  <1>1. ASSUME NEW p \in Hook, Step(p) PROVE TypeInv'
    <2>1. CASE FindRun(p)
      BY <2>1, TypeAdopt DEF FindRun
    <2>2. CASE Reread(p)
      <3>1. CASE \E r \in Run : Adopt(p, r)
        BY <2>2, <3>1, TypeAdopt DEF Reread
      <3>2. CASE /\ RunsOf(session[p]) = {}
                 /\ Goto(p, "failed")
                 /\ UNCHANGED <<localVars, invocation, seen, flushing, durable>>
        BY <2>2, <3>2 DEF TypeInv, TypeOK, LocalTypeOK, LocalsSound, Reread
      <3>. QED  BY <2>2, <3>1, <3>2 DEF Reread
    <2>3. CASE NoRun(p) \/ \E r \in Run, b \in BOOLEAN : Begin(p, r, b)
      BY <2>3, TypeOther
    <2>4. CASE Emit(p)
      BY <2>4, TypeEmit
    <2>5. CASE \/ Fetch(p) \/ Accepted(p) \/ Rejected(p) \/ Unreachable(p)
               \/ ForeignId(p) \/ Ack(p) \/ Count(p)
      BY <2>5, TypeFlush
    <2>6. CASE Mark(p) \/ Finish(p) \/ Catch(p)
      BY <2>6, TypeJudge
    <2>. QED  BY <1>1, <2>1, <2>2, <2>3, <2>4, <2>5, <2>6 DEF Step
  <1>2. ASSUME NEW p \in Hook, Environment(p) PROVE TypeInv'
    BY <1>2, TypeStart, TypeOther DEF Environment
  <1>3. ASSUME NEW k \in {"observation", "snapshot"}, NEW d \in Document,
               McpStage(k, d)
        PROVE  TypeInv'
    BY <1>3, TypeMcp
  <1>4. CASE UNCHANGED vars
    BY <1>4 DEF vars, TypeInv, TypeOK, LocalTypeOK, LocalsSound
  <1>. QED  BY <1>1, <1>2, <1>3, <1>4 DEF Next

(***************************************************************************)
(* Type correctness of the hook processes and their database.              *)
(***************************************************************************)
THEOREM TypeCorrect == Spec => []TypeOK
  <1>1. TypeInv => TypeOK
    BY DEF TypeInv
  <1>. QED  BY <1>1, TypeInit, TypeNext, PTL DEF Spec

-----------------------------------------------------------------------------
(***************************************************************************)
(* NothingLost.  It is not inductive: an acknowledgement is written from   *)
(* ids a process read earlier and an answer it got since.  What is needed  *)
(* of those: a page on the wire was staged, and an answer kept for Ack     *)
(* names staged items the plane holds.  The page of events comes from the  *)
(* table outbox, which the history covers once any process has opened the  *)
(* database.                                                               *)
(***************************************************************************)
QueueInHistory == (\E p \in Hook : pc[p] \in Running) => outbox \subseteq staged["event"]

PageStaged ==
    \A p \in Hook : pc[p] = "send" => batch[p] \subseteq staged[queue[p]]

AnswerDurable ==
    \A p \in Hook : pc[p] = "ack" =>
        accepted[p] \subseteq staged[queue[p]] \intersect durable[queue[p]]

DeliveryInv == NothingLost /\ QueueInHistory /\ PageStaged /\ AnswerDurable

LEMMA DeliveryInit == Init => DeliveryInv
  BY DEF Init, LocalInit, DeliveryInv, NothingLost, QueueInHistory, PageStaged,
     AnswerDurable, Pending

\* What the local operations do to the queues, whoever runs them.
LEMMA AppendAccounted ==
    ASSUME LocalTypeOK, NothingLost, NEW e, AppendEvent(e), UNCHANGED durable
    PROVE  NothingLost'
  BY DEF LocalTypeOK, NothingLost, Pending, AppendEvent

LEMMA StageAccounted ==
    ASSUME LocalTypeOK, NothingLost, NEW k \in {"observation", "snapshot"},
           NEW d, StageDocument(k, d), UNCHANGED durable
    PROVE  NothingLost'
  BY DEF LocalTypeOK, NothingLost, Pending, StageDocument

LEMMA UpgradeAccounted ==
    ASSUME LocalTypeOK, NothingLost, UpgradeHistory, UNCHANGED durable
    PROVE  NothingLost'
  BY DEF LocalTypeOK, NothingLost, Pending, UpgradeHistory

LEMMA AcknowledgeAccounted ==
    ASSUME LocalTypeOK, NothingLost, NEW k \in Kind, NEW ids,
           ids \subseteq staged[k] \intersect durable[k],
           Acknowledge(k, ids), UNCHANGED durable
    PROVE  NothingLost'
  BY DEF LocalTypeOK, NothingLost, Pending, Acknowledge

\* A step that leaves the queues and the plane alone, and takes p neither to
\* the wire nor to an acknowledgement, disturbs nothing.
LEMMA QuietStep ==
    ASSUME TypeInv, DeliveryInv, NEW p \in Hook,
           UNCHANGED <<staged, acked, outbox, durable>>,
           \A q \in Hook \ {p} :
               /\ pc'[q] = pc[q] /\ queue'[q] = queue[q]
               /\ batch'[q] = batch[q] /\ accepted'[q] = accepted[q],
           pc'[p] \notin {"send", "ack"},
           pc[p] \in Running \/ pc'[p] \notin Running
    PROVE  DeliveryInv'
  <1>1. NothingLost'
    BY DEF DeliveryInv, NothingLost, Pending
  <1>2. QueueInHistory'
    BY DEF DeliveryInv, QueueInHistory
  <1>3. PageStaged' /\ AnswerDurable'
    BY DEF DeliveryInv, PageStaged, AnswerDurable
  <1>. QED  BY <1>1, <1>2, <1>3 DEF DeliveryInv

\* A step of p that grows the queues, the history or the plane keeps what the
\* other processes hold.
LEMMA OthersKept ==
    ASSUME TypeInv, PageStaged, AnswerDurable, NEW p \in Hook,
           \A k \in Kind : staged[k] \subseteq staged'[k] /\ durable[k] \subseteq durable'[k],
           \A q \in Hook \ {p} :
               /\ pc'[q] = pc[q] /\ queue'[q] = queue[q]
               /\ batch'[q] = batch[q] /\ accepted'[q] = accepted[q],
           pc'[p] \notin {"send", "ack"}
    PROVE  PageStaged' /\ AnswerDurable'
  <1>1. \A q \in Hook : queue[q] \in Kind
    BY DEF TypeInv, TypeOK
  <1>2. ASSUME NEW q \in Hook, pc'[q] = "send"
        PROVE  batch'[q] \subseteq staged'[queue'[q]]
    <2>1. q # p /\ pc[q] = "send" /\ batch[q] \subseteq staged[queue[q]]
      BY <1>2 DEF PageStaged
    <2>. QED  BY <1>1, <2>1
  <1>3. ASSUME NEW q \in Hook, pc'[q] = "ack"
        PROVE  accepted'[q] \subseteq staged'[queue'[q]] \intersect durable'[queue'[q]]
    <2>1. /\ q # p /\ pc[q] = "ack"
          /\ accepted[q] \subseteq staged[queue[q]] \intersect durable[queue[q]]
      BY <1>3 DEF AnswerDurable
    <2>. QED  BY <1>1, <2>1
  <1>. QED  BY <1>2, <1>3 DEF PageStaged, AnswerDurable

LEMMA DeliveryStep ==
    ASSUME TypeInv, DeliveryInv, NEW p \in Hook, Step(p)
    PROVE  DeliveryInv'
  <1>. USE DEF TypeInv, TypeOK
  <1>1. CASE FindRun(p)
    <2>1. PICK r \in Run : Adopt(p, r)
      BY <1>1 DEF FindRun
    <2>. QED  BY <1>1, <2>1, QuietStep DEF FindRun, Adopt, AfterEmissions
  <1>2. CASE NoRun(p)
    BY <1>2, QuietStep DEF NoRun
  <1>3. CASE \E r \in Run, b \in BOOLEAN : Begin(p, r, b)
    BY <1>3, QuietStep DEF Begin
  <1>4. CASE Reread(p)
    <2>1. CASE \E r \in Run : Adopt(p, r)
      <3>1. PICK r \in Run : Adopt(p, r)
        BY <2>1
      <3>. QED  BY <1>4, <3>1, QuietStep DEF Reread, Adopt, AfterEmissions
    <2>2. CASE /\ RunsOf(session[p]) = {}
               /\ Goto(p, "failed")
               /\ UNCHANGED <<localVars, invocation, seen, flushing, durable>>
      BY <1>4, <2>2, QuietStep
    <2>. QED  BY <1>4, <2>1, <2>2 DEF Reread
  <1>5. CASE Emit(p)
    <2>. DEFINE e == [emitter |-> p, sequence |-> emitted[p], run |-> seen[p].run]
    <2>1. AppendEvent(e) /\ UNCHANGED durable
      BY <1>5 DEF Emit
    <2>2. NothingLost'
      BY <2>1, AppendAccounted DEF DeliveryInv
    <2>3. QueueInHistory'
      BY <1>5, <2>1 DEF DeliveryInv, QueueInHistory, Emit, AppendEvent, LocalTypeOK
    <2>4. pc'[p] \notin {"send", "ack"}
      BY <1>5 DEF Emit, AfterEmissions
    <2>5. \A k \in Kind : staged[k] \subseteq staged'[k] /\ durable[k] \subseteq durable'[k]
      BY <2>1 DEF AppendEvent, LocalTypeOK
    <2>6. PageStaged' /\ AnswerDurable'
      BY <1>5, <2>4, <2>5, OthersKept DEF DeliveryInv, Emit
    <2>. QED  BY <2>2, <2>3, <2>6 DEF DeliveryInv
  <1>6. CASE Fetch(p)
    <2>1. PICK b \in SUBSET Pending(queue[p]) : batch' = [batch EXCEPT ![p] = b]
                                                /\ (b # {} => pc' = [pc EXCEPT ![p] = "send"] /\ queue' = queue)
                                                /\ (b = {} => pc' = pc \/ pc' = [pc EXCEPT ![p] = "count"])
      BY <1>6 DEF Fetch
    <2>2. CASE b = {}
      <3>1. pc[p] = "fetch" /\ pc'[p] \in {"fetch", "count"}
        BY <1>6, <2>1, <2>2 DEF Fetch
      <3>2. \A q \in Hook \ {p} :
               /\ pc'[q] = pc[q] /\ queue'[q] = queue[q]
               /\ batch'[q] = batch[q] /\ accepted'[q] = accepted[q]
        BY <1>6, <2>1, <2>2 DEF Fetch
      <3>. QED  BY <1>6, <3>1, <3>2, QuietStep DEF Fetch
    <2>3. CASE b # {}
      <3>1. Pending(queue[p]) \subseteq staged[queue[p]]
        BY <1>6 DEF DeliveryInv, QueueInHistory, Pending, Fetch
      <3>2. NothingLost' /\ QueueInHistory'
        BY <1>6, <2>1, <2>3 DEF DeliveryInv, NothingLost, Pending, QueueInHistory, Fetch
      <3>3. PageStaged' /\ AnswerDurable'
        BY <1>6, <2>1, <2>3, <3>1 DEF DeliveryInv, PageStaged, AnswerDurable, Fetch
      <3>. QED  BY <3>2, <3>3 DEF DeliveryInv
    <2>. QED  BY <2>2, <2>3
  <1>7. CASE Accepted(p)
    <2>1. PICK ids \in SUBSET batch[p] :
            /\ durable' = [durable EXCEPT ![queue[p]] = @ \union ids]
            /\ accepted' = [accepted EXCEPT ![p] = ids]
      BY <1>7 DEF Accepted
    <2>2. ids \subseteq staged[queue[p]]
      BY <1>7 DEF DeliveryInv, PageStaged, Accepted
    <2>3. \A k \in Kind : durable[k] \subseteq durable'[k]
      BY <2>1
    <2>4. NothingLost' /\ QueueInHistory'
      BY <1>7, <2>3 DEF DeliveryInv, NothingLost, Pending, QueueInHistory, Accepted
    <2>5. PageStaged'
      BY <1>7 DEF DeliveryInv, PageStaged, Accepted
    <2>6. AnswerDurable'
      BY <1>7, <2>1, <2>2, <2>3 DEF DeliveryInv, AnswerDurable, Accepted
    <2>. QED  BY <2>4, <2>5, <2>6 DEF DeliveryInv
  <1>8. CASE Rejected(p)
    BY <1>8, QuietStep DEF Rejected, Fail
  <1>9. CASE Unreachable(p)
    <2>1. \A k \in Kind : durable[k] \subseteq durable'[k]
      BY <1>9 DEF Unreachable
    <2>2. NothingLost' /\ QueueInHistory'
      BY <1>9, <2>1 DEF DeliveryInv, NothingLost, Pending, QueueInHistory, Unreachable, Fail
    <2>3. CASE attempt[p] < MaxAttempts
      BY <1>9, <2>1, <2>2, <2>3
      DEF DeliveryInv, PageStaged, AnswerDurable, Unreachable
    <2>4. CASE ~(attempt[p] < MaxAttempts)
      <3>1. /\ pc' = [pc EXCEPT ![p] = "count"]
            /\ queue' = [queue EXCEPT ![p] = "event"]
            /\ UNCHANGED <<staged, batch, accepted>>
        BY <1>9, <2>4 DEF Unreachable, Fail
      <3>2. PageStaged' /\ AnswerDurable'
        BY <2>1, <3>1, OthersKept DEF DeliveryInv
      <3>. QED  BY <2>2, <3>2 DEF DeliveryInv
    <2>. QED  BY <2>3, <2>4
  <1>10. CASE ForeignId(p)
    <2>1. \A k \in Kind : durable[k] \subseteq durable'[k]
      BY <1>10 DEF ForeignId
    <2>2. NothingLost' /\ QueueInHistory'
      BY <1>10, <2>1 DEF DeliveryInv, NothingLost, Pending, QueueInHistory, ForeignId, Fail
    <2>3. /\ pc' = [pc EXCEPT ![p] = "count"]
          /\ queue' = [queue EXCEPT ![p] = "event"]
          /\ UNCHANGED <<staged, batch, accepted>>
      BY <1>10 DEF ForeignId, Fail
    <2>4. PageStaged' /\ AnswerDurable'
      BY <2>1, <2>3, OthersKept DEF DeliveryInv
    <2>. QED  BY <2>2, <2>4 DEF DeliveryInv
  <1>11. CASE Ack(p)
    <2>1. NothingLost'
      BY <1>11, AcknowledgeAccounted DEF DeliveryInv, AnswerDurable, Ack
    <2>2. QueueInHistory'
      BY <1>11 DEF DeliveryInv, QueueInHistory, Ack, Acknowledge, Fail
    <2>3. pc'[p] \notin {"send", "ack"}
      BY <1>11 DEF Ack, Fail
    <2>4. \A q \in Hook \ {p} : /\ pc'[q] = pc[q] /\ queue'[q] = queue[q]
                                /\ batch'[q] = batch[q] /\ accepted'[q] = accepted[q]
      BY <1>11 DEF Ack, Fail
    <2>5. PageStaged' /\ AnswerDurable'
      BY <1>11, <2>3, <2>4, OthersKept DEF DeliveryInv, Ack, Acknowledge
    <2>. QED  BY <2>1, <2>2, <2>5 DEF DeliveryInv
  <1>12. CASE Count(p)
    <2>1. pc[p] = "count" /\ pc'[p] \notin {"send", "ack"}
      BY <1>12 DEF Count
    <2>2. \A q \in Hook \ {p} : /\ pc'[q] = pc[q] /\ queue'[q] = queue[q]
                                /\ batch'[q] = batch[q] /\ accepted'[q] = accepted[q]
      BY <1>12 DEF Count
    <2>. QED  BY <1>12, <2>1, <2>2, QuietStep DEF Count
  <1>13. CASE Mark(p)
    BY <1>13, QuietStep DEF Mark
  <1>14. CASE Finish(p)
    BY <1>14, QuietStep DEF Finish
  <1>15. CASE Catch(p)
    BY <1>15, QuietStep DEF Catch
  <1>. QED
    BY <1>1, <1>2, <1>3, <1>4, <1>5, <1>6, <1>7, <1>8, <1>9, <1>10, <1>11,
       <1>12, <1>13, <1>14, <1>15 DEF Step

LEMMA DeliveryNext == TypeInv /\ DeliveryInv /\ [Next]_vars => DeliveryInv'
  <1> SUFFICES ASSUME TypeInv, DeliveryInv, [Next]_vars PROVE DeliveryInv'
    OBVIOUS
  <1>. USE DEF TypeInv, TypeOK
  <1>1. ASSUME NEW p \in Hook, Step(p) PROVE DeliveryInv'
    BY <1>1, DeliveryStep
  <1>2. ASSUME NEW p \in Hook, NEW h \in HookEvent, NEW s \in Session,
               NEW n \in Emissions(h), Start(p, h, s, n)
        PROVE  DeliveryInv'
    <2>1. NothingLost'
      BY <1>2, UpgradeAccounted DEF DeliveryInv, Start
    <2>2. QueueInHistory'
      BY <1>2 DEF QueueInHistory, Start, UpgradeHistory, LocalTypeOK
    <2>3. \A k \in Kind : staged[k] \subseteq staged'[k]
      BY <1>2 DEF Start, UpgradeHistory, LocalTypeOK
    <2>4. PageStaged' /\ AnswerDurable'
      BY <1>2, <2>3, OthersKept DEF DeliveryInv, Start
    <2>. QED  BY <2>1, <2>2, <2>4 DEF DeliveryInv
  <1>3. ASSUME NEW p \in Hook, NEW h \in HookEvent, NEW s \in Session,
               StartFails(p, h, s)
        PROVE  DeliveryInv'
    BY <1>3, QuietStep DEF StartFails
  <1>4. ASSUME NEW p \in Hook, Throw(p) \/ Crash(p) PROVE DeliveryInv'
    BY <1>4, QuietStep DEF Throw, Crash, Fallible
  <1>5. ASSUME NEW k \in {"observation", "snapshot"}, NEW d \in Document,
               McpStage(k, d)
        PROVE  DeliveryInv'
    <2>1. NothingLost'
      BY <1>5, StageAccounted DEF DeliveryInv, McpStage
    <2>2. QueueInHistory'
      BY <1>5 DEF DeliveryInv, QueueInHistory, McpStage, StageDocument, LocalTypeOK
    <2>3. \A i \in Kind : staged[i] \subseteq staged'[i]
      BY <1>5 DEF McpStage, StageDocument, LocalTypeOK
    <2>4. PageStaged' /\ AnswerDurable'
      BY <1>5, <2>3 DEF DeliveryInv, PageStaged, AnswerDurable, McpStage
    <2>. QED  BY <2>1, <2>2, <2>4 DEF DeliveryInv
  <1>6. CASE UNCHANGED vars
    BY <1>6 DEF vars, DeliveryInv, NothingLost, Pending, QueueInHistory,
                PageStaged, AnswerDurable
  <1>. QED  BY <1>1, <1>2, <1>3, <1>4, <1>5, <1>6 DEF Next, Environment

(***************************************************************************)
(* Whatever is staged locally stays owed to the plane until the plane      *)
(* holds it, across every interleaving, crash, lost answer and retry.      *)
(***************************************************************************)
THEOREM NothingIsLost == Spec => []NothingLost
  <1>1. Init => TypeInv /\ DeliveryInv
    BY TypeInit, DeliveryInit
  <1>2. TypeInv /\ DeliveryInv /\ [Next]_vars => (TypeInv /\ DeliveryInv)'
    BY TypeNext, DeliveryNext
  <1>3. TypeInv /\ DeliveryInv => NothingLost
    BY DEF DeliveryInv
  <1>. QED  BY <1>1, <1>2, <1>3, PTL DEF Spec

-----------------------------------------------------------------------------
(***************************************************************************)
(* From here on: what the rows of the runs say.  A session has one run, no *)
(* row overclaims, a failure stays, a drained flush covered what came      *)
(* before it, COMPLETE rests on one; and the hook processes implement      *)
(* EvidenceDelivery.                                                       *)
(***************************************************************************)

-----------------------------------------------------------------------------
(***************************************************************************)
(* Who writes run rows, and how: a row that did not exist is begun, one    *)
(* that exists is marked failed, or finished.                              *)
(***************************************************************************)
Begun(r, s, reachable) ==
    [session |-> s, complete |-> FALSE, eligible |-> FALSE, reachable |-> reachable,
     failed |-> FALSE, ended |-> FALSE]

\* The row r was finished by p's verdict.
Finished(p, r) ==
    /\ pc[p] = "finish" /\ seen[p].run = r
    /\ runs'[r].session = runs[r].session
    /\ runs'[r].reachable = runs[r].reachable
    /\ runs[r].failed => runs'[r].failed
    /\ runs'[r].failed <=> runs[r].failed \/ seen[p].failed \/ outcome[p] # "drained"
    /\ runs'[r].complete <=> /\ ~runs'[r].failed /\ ~leftover[p]
                             /\ ~seen[p].failed /\ outcome[p] = "drained"
    /\ runs'[r].eligible => runs'[r].complete /\ seen[p].reachable
    /\ ~seen[p].failed /\ outcome[p] = "drained" => pc'[p] = "ok"
    /\ UNCHANGED <<hook, seen, before, staged, durable>>

Marked(r) ==
    /\ runs'[r].session = runs[r].session
    /\ runs'[r].reachable = runs[r].reachable
    /\ runs'[r].failed /\ ~runs'[r].complete /\ ~runs'[r].eligible

\* Every step leaves the rows alone or writes one of them.
RowsStep ==
    \/ runs' = runs
    \/ \E p \in Hook, r \in Run, b \in BOOLEAN :
          /\ runs[r] = None /\ RunsOf(session[p]) = {} /\ session[p] \in Session
          /\ runs' = [runs EXCEPT ![r] = Begun(r, session[p], b)]
    \/ \E p \in Hook : LET r == seen[p].run IN
          /\ r \in Run /\ seen[p] \in Seen /\ runs[r] # None /\ runs'[r] \in Row
          /\ \A q \in Run \ {r} : runs'[q] = runs[q]
          /\ Marked(r) \/ Finished(p, r)

LEMMA MarkRow ==
    ASSUME TypeInv, NEW p \in Hook, seen[p] # None, MarkFlushFailed(seen[p].run)
    PROVE  RowsStep
  <1>. DEFINE r == seen[p].run
  <1>1. seen[p] \in Seen /\ r \in Run
    BY DEF TypeInv, TypeOK, Seen
  <1>2. CASE runs[r] = None
    BY <1>2 DEF MarkFlushFailed, Update, RowsStep
  <1>3. CASE runs[r] # None
    <2>. DEFINE row == [runs[r] EXCEPT !.failed = TRUE, !.complete = FALSE, !.eligible = FALSE]
    <2>1. runs[r] \in Row
      BY <1>1, <1>3 DEF TypeInv, TypeOK, LocalTypeOK
    <2>2. runs' = [runs EXCEPT ![r] = row]
      BY <1>3 DEF MarkFlushFailed, Update
    <2>3. /\ row \in Row /\ row.failed /\ ~row.complete /\ ~row.eligible
          /\ row.session = runs[r].session /\ row.reachable = runs[r].reachable
      BY <2>1 DEF Row
    <2>4. runs'[r] = row /\ \A q \in Run \ {r} : runs'[q] = runs[q]
      BY <1>1, <2>2 DEF TypeInv, TypeOK, LocalTypeOK
    <2>5. Marked(r)
      <3>. HIDE DEF row
      <3>. QED  BY <2>3, <2>4 DEF Marked
    <2>. HIDE DEF row
    <2>. QED  BY <1>1, <1>3, <2>3, <2>4, <2>5 DEF RowsStep
  <1>. QED  BY <1>2, <1>3

LEMMA FinishRow ==
    ASSUME TypeInv, NEW p \in Hook, Finish(p)
    PROVE  RowsStep
  <1>. DEFINE r          == seen[p].run
              everFailed == seen[p].failed \/ outcome[p] # "drained"
              complete   == ~leftover[p] /\ ~everFailed
              eligible   == complete /\ seen[p].reachable
  <1>1. /\ seen[p] # None /\ seen[p] \in Seen /\ r \in Run
        /\ seen[p].failed \in BOOLEAN /\ seen[p].reachable \in BOOLEAN
        /\ leftover[p] \in BOOLEAN
    BY DEF TypeInv, TypeOK, LocalsSound, Seen, Finish
  <1>2. FinishRun(r, complete, eligible, everFailed)
    BY Zenon DEF Finish
  <1>3. everFailed \in BOOLEAN /\ complete \in BOOLEAN /\ eligible \in BOOLEAN
    BY <1>1
  <1>4. CASE runs[r] = None
    BY <1>2, <1>4 DEF FinishRun, Update, RowsStep
  <1>5. CASE runs[r] # None
    <2>. DEFINE failed == runs[r].failed \/ everFailed
                Put(x, y, z) == [runs[r] EXCEPT !.complete = x, !.eligible = y, !.failed = z,
                                                !.ended = TRUE]
                row == Put(~failed /\ complete, ~failed /\ eligible, failed)
    <2>1. runs[r] \in Row /\ failed \in BOOLEAN
      BY <1>1, <1>3, <1>5 DEF TypeInv, TypeOK, LocalTypeOK, Row
    <2>2. runs' = [runs EXCEPT ![r] = row]
      BY <1>2, <1>5, Zenon DEF FinishRun, Update
    <2>3. \A x, y, z \in BOOLEAN :
             /\ Put(x, y, z) \in Row
             /\ Put(x, y, z).complete = x /\ Put(x, y, z).eligible = y /\ Put(x, y, z).failed = z
             /\ Put(x, y, z).session = runs[r].session
             /\ Put(x, y, z).reachable = runs[r].reachable
      <3>. TAKE x, y, z \in BOOLEAN
      <3>1. \A w : w = Put(x, y, z) =>
              /\ w \in Row /\ w.complete = x /\ w.eligible = y /\ w.failed = z
              /\ w.session = runs[r].session /\ w.reachable = runs[r].reachable
        BY <2>1 DEF Row
      <3>. QED  BY <3>1, Zenon
    <2>4. /\ row \in Row
          /\ row.complete = (~failed /\ complete)
          /\ row.eligible = (~failed /\ eligible)
          /\ row.failed = failed
          /\ row.session = runs[r].session /\ row.reachable = runs[r].reachable
      <3>1. (~failed /\ complete) \in BOOLEAN /\ (~failed /\ eligible) \in BOOLEAN
        OBVIOUS
      <3>. HIDE DEF failed, complete, eligible, Put
      <3>. QED  BY <2>1, <2>3, <3>1, Zenon
    <2>5. runs'[r] = row /\ \A q \in Run \ {r} : runs'[q] = runs[q]
      <3>. HIDE DEF row
      <3>. QED  BY <1>1, <2>2 DEF TypeInv, TypeOK, LocalTypeOK
    <2>6. Finished(p, r)
      <3>1. /\ pc[p] = "finish"
            /\ ~seen[p].failed /\ outcome[p] = "drained" => pc'[p] = "ok"
            /\ UNCHANGED <<hook, seen, before, staged, durable>>
        BY DEF Finish, TypeInv, TypeOK
      <3>. HIDE DEF row
      <3>. QED  BY <1>1, <2>1, <2>4, <2>5, <3>1 DEF Finished
    <2>. HIDE DEF row
    <2>. QED  BY <1>1, <1>5, <2>4, <2>5, <2>6 DEF RowsStep
  <1>. QED  BY <1>4, <1>5

LEMMA BeginRow ==
    ASSUME TypeInv, NEW p \in Hook, NEW r \in Run, NEW b \in BOOLEAN, Begin(p, r, b)
    PROVE  RowsStep
  <1>1. session[p] \in Session
    BY DEF TypeInv, TypeOK, LocalsSound, Begin
  <1>. QED  BY <1>1 DEF Begin, BeginRun, RowsStep, Begun

LEMMA RowsNext == TypeInv /\ [Next]_vars => RowsStep
  <1>. SUFFICES ASSUME TypeInv, [Next]_vars PROVE RowsStep
    OBVIOUS
  <1>1. ASSUME NEW p \in Hook, Step(p) PROVE RowsStep
    <2>1. CASE FindRun(p) \/ NoRun(p) \/ Reread(p)
      BY <2>1 DEF FindRun, NoRun, Reread, Adopt, RowsStep
    <2>2. CASE Emit(p) \/ Ack(p)
      BY <2>2 DEF Emit, AppendEvent, Ack, Acknowledge, RowsStep
    <2>3. CASE Fetch(p) \/ Accepted(p) \/ Rejected(p) \/ Unreachable(p) \/ ForeignId(p) \/ Count(p)
      BY <2>3 DEF Fetch, Accepted, Rejected, Unreachable, ForeignId, Count, RowsStep
    <2>4. CASE \E r \in Run, b \in BOOLEAN : Begin(p, r, b)
      BY <2>4, BeginRow
    <2>5. CASE Mark(p)
      BY <2>5, MarkRow DEF Mark, TypeInv, LocalsSound
    <2>6. CASE Finish(p)
      BY <2>6, FinishRow
    <2>7. CASE Catch(p)
      BY <2>7, MarkRow DEF Catch, RowsStep
    <2>. QED  BY <1>1, <2>1, <2>2, <2>3, <2>4, <2>5, <2>6, <2>7 DEF Step
  <1>2. ASSUME NEW p \in Hook, Environment(p) PROVE RowsStep
    BY <1>2 DEF Environment, Start, UpgradeHistory, StartFails, Throw, Crash, RowsStep
  <1>3. ASSUME NEW k \in {"observation", "snapshot"}, NEW d \in Document, McpStage(k, d)
        PROVE  RowsStep
    BY <1>3 DEF McpStage, StageDocument, RowsStep
  <1>4. CASE UNCHANGED vars
    BY <1>4 DEF vars, RowsStep
  <1>. QED  BY <1>1, <1>2, <1>3, <1>4 DEF Next

-----------------------------------------------------------------------------
(***************************************************************************)
(* A process that knows a run knows one that exists, and that was declared *)
(* reachable if its copy says so: the columns a copy is used for are never *)
(* rewritten.                                                              *)
(***************************************************************************)
SeenHolds ==
    \A p \in Hook : seen[p] # None =>
        /\ runs[seen[p].run] # None
        /\ seen[p].reachable => runs[seen[p].run].reachable

RowsInv == RowsHonest /\ OneRunPerSession /\ SeenHolds

LEMMA RowsInit == Init => RowsInv
  BY DEF Init, LocalInit, RowsInv, RowsHonest, OneRunPerSession, SeenHolds, RunsOf

\* Copies are taken in one way only, from the row as it is.
SeenStep ==
    \/ seen' = seen
    \/ \E p \in Hook, r \in Run :
          /\ runs' = runs /\ runs[r] # None
          /\ seen' = [seen EXCEPT ![p] = [run |-> r, failed |-> runs[r].failed,
                                          reachable |-> runs[r].reachable]]

LEMMA SeenNext == [Next]_vars => SeenStep
  <1>. SUFFICES ASSUME [Next]_vars PROVE SeenStep
    OBVIOUS
  <1>1. ASSUME NEW p \in Hook, Step(p) PROVE SeenStep
    <2>1. CASE \E r \in Run : Adopt(p, r)
      BY <2>1 DEF Adopt, RunsOf, SeenStep
    <2>2. CASE NoRun(p) \/ Emit(p) \/ \E r \in Run, b \in BOOLEAN : Begin(p, r, b)
      BY <2>2 DEF NoRun, Emit, Begin, SeenStep
    <2>3. CASE \/ Fetch(p) \/ Accepted(p) \/ Rejected(p) \/ Unreachable(p) \/ ForeignId(p)
               \/ Ack(p) \/ Count(p)
      BY <2>3 DEF Fetch, Accepted, Rejected, Unreachable, ForeignId, Ack, Count, SeenStep
    <2>4. CASE Mark(p) \/ Finish(p) \/ Catch(p)
      BY <2>4 DEF Mark, Finish, Catch, SeenStep
    <2>. QED  BY <1>1, <2>1, <2>2, <2>3, <2>4 DEF Step, FindRun, Reread, SeenStep
  <1>2. ASSUME NEW p \in Hook, Environment(p) PROVE SeenStep
    BY <1>2 DEF Environment, Start, StartFails, Throw, Crash, SeenStep
  <1>3. CASE UNCHANGED vars
    BY <1>3 DEF vars, SeenStep
  <1>4. ASSUME NEW k \in {"observation", "snapshot"}, NEW d \in Document, McpStage(k, d)
        PROVE  SeenStep
    BY <1>4 DEF McpStage, SeenStep
  <1>. QED  BY <1>1, <1>2, <1>3, <1>4 DEF Next

\* One row, written honestly, leaves every row honest.
LEMMA HonestStep ==
    ASSUME TypeInv, RowsInv, RowsStep
    PROVE  RowsHonest'
  <1>. USE DEF RowsHonest
  <1>0. runs \in [Run -> Row \union {None}]
    BY DEF TypeInv, TypeOK, LocalTypeOK
  <1>1. CASE runs' = runs
    BY <1>1 DEF RowsInv
  <1>2. ASSUME NEW p \in Hook, NEW r \in Run, NEW b \in BOOLEAN,
               runs' = [runs EXCEPT ![r] = Begun(r, session[p], b)]
        PROVE  RowsHonest'
    BY <1>0, <1>2 DEF RowsInv, Begun
  <1>3. ASSUME NEW p \in Hook, NEW r \in Run, r = seen[p].run, seen[p] \in Seen,
               runs[r] # None, runs'[r] \in Row, \A q \in Run \ {r} : runs'[q] = runs[q],
               Marked(r) \/ Finished(p, r)
        PROVE  RowsHonest'
    <2>1. seen[p] # None
      BY <1>3, NoneIsNotSeen
    <2>2. /\ runs'[r].failed => ~runs'[r].complete
          /\ runs'[r].eligible => runs'[r].complete /\ runs'[r].reachable
      BY <1>3, <2>1 DEF Marked, Finished, RowsInv, SeenHolds
    <2>. QED  BY <1>3, <2>2 DEF RowsInv
  <1>. QED  BY <1>1, <1>2, <1>3 DEF RowsStep

\* A row keeps its session, and a row is begun for a session that has none.
LEMMA OneRunStep ==
    ASSUME TypeInv, RowsInv, RowsStep
    PROVE  OneRunPerSession'
  <1>. USE DEF OneRunPerSession, RunsOf
  <1>0. runs \in [Run -> Row \union {None}]
    BY DEF TypeInv, TypeOK, LocalTypeOK
  <1>1. CASE runs' = runs
    BY <1>1 DEF RowsInv
  <1>2. ASSUME NEW p \in Hook, NEW r \in Run, NEW b \in BOOLEAN,
               runs[r] = None, RunsOf(session[p]) = {}, session[p] \in Session,
               runs' = [runs EXCEPT ![r] = Begun(r, session[p], b)]
        PROVE  OneRunPerSession'
    <2>1. Begun(r, session[p], b) \in Row /\ Begun(r, session[p], b).session = session[p]
      BY <1>2 DEF Begun, Row
    <2>2. /\ runs'[r] = Begun(r, session[p], b)
          /\ \A q \in Run \ {r} : runs'[q] = runs[q]
      BY <1>0, <1>2
    <2>3. runs'[r] # None /\ runs'[r].session = session[p]
      BY <2>1, <2>2, NoneIsNoRow
    <2>. QED  BY <1>2, <2>2, <2>3 DEF RowsInv
  <1>3. ASSUME NEW p \in Hook, NEW r \in Run, r = seen[p].run,
               runs[r] # None, runs'[r] \in Row, \A q \in Run \ {r} : runs'[q] = runs[q],
               Marked(r) \/ Finished(p, r)
        PROVE  OneRunPerSession'
    <2>1. runs'[r].session = runs[r].session
      BY <1>3 DEF Marked, Finished
    <2>. QED  BY <1>3, <2>1 DEF RowsInv
  <1>. QED  BY <1>1, <1>2, <1>3 DEF RowsStep

LEMMA SeenHoldsStep ==
    ASSUME TypeInv, RowsInv, RowsStep, SeenStep
    PROVE  SeenHolds'
  <1>. USE DEF SeenHolds
  <1>0. /\ runs \in [Run -> Row \union {None}]
        /\ \A p \in Hook : seen[p] # None => seen[p] \in Seen /\ seen[p].run \in Run
        /\ seen \in [Hook -> Seen \union {None}]
    BY DEF TypeInv, TypeOK, LocalTypeOK, Seen
  <1>1. \A r \in Run : runs[r] # None => runs'[r] # None /\ runs'[r].reachable = runs[r].reachable
    <2>1. CASE runs' = runs
      BY <2>1
    <2>2. ASSUME NEW p \in Hook, NEW r \in Run, NEW b \in BOOLEAN, runs[r] = None,
                 runs' = [runs EXCEPT ![r] = Begun(r, session[p], b)]
          PROVE  \A q \in Run : runs[q] # None => runs'[q] = runs[q]
      BY <1>0, <2>2
    <2>3. ASSUME NEW p \in Hook, NEW r \in Run, r = seen[p].run,
                 runs[r] # None, runs'[r] \in Row, \A q \in Run \ {r} : runs'[q] = runs[q],
                 Marked(r) \/ Finished(p, r)
          PROVE  \A q \in Run : runs[q] # None => runs'[q] # None /\ runs'[q].reachable = runs[q].reachable
      BY <2>3, NoneIsNoRow DEF Marked, Finished
    <2>. QED  BY <2>1, <2>2, <2>3 DEF RowsStep
  <1>2. CASE seen' = seen
    BY <1>0, <1>1, <1>2 DEF RowsInv
  <1>3. ASSUME NEW p \in Hook, NEW r \in Run, runs' = runs, runs[r] # None,
               seen' = [seen EXCEPT ![p] = [run |-> r, failed |-> runs[r].failed,
                                            reachable |-> runs[r].reachable]]
        PROVE  SeenHolds'
    <2>1. \A q \in Hook \ {p} : seen'[q] = seen[q]
      BY <1>0, <1>3
    <2>2. seen'[p].run = r /\ seen'[p].reachable = runs[r].reachable
      BY <1>0, <1>3
    <2>. QED  BY <1>3, <2>1, <2>2 DEF RowsInv
  <1>. QED  BY <1>2, <1>3 DEF SeenStep

LEMMA RowsInvNext == TypeInv /\ RowsInv /\ [Next]_vars => RowsInv'
  BY RowsNext, SeenNext, HonestStep, OneRunStep, SeenHoldsStep DEF RowsInv

LEMMA RowsHold == Spec => [](TypeInv /\ RowsInv)
  <1>1. Init => TypeInv /\ RowsInv
    BY TypeInit, RowsInit
  <1>2. TypeInv /\ RowsInv /\ [Next]_vars => (TypeInv /\ RowsInv)'
    BY TypeNext, RowsInvNext
  <1>. QED  BY <1>1, <1>2, PTL DEF Spec

(***************************************************************************)
(* No run row overclaims, although every column is written from copies     *)
(* that may be stale.                                                      *)
(***************************************************************************)
THEOREM Honest == Spec => []RowsHonest
  <1>1. TypeInv /\ RowsInv => RowsHonest
    BY DEF RowsInv
  <1>. QED  BY <1>1, RowsHold, PTL

(***************************************************************************)
(* However many SessionStart hooks race, and whatever run ids they bring,  *)
(* a session has one run.                                                  *)
(***************************************************************************)
THEOREM OneRun == Spec => []OneRunPerSession
  <1>1. TypeInv /\ RowsInv => OneRunPerSession
    BY DEF RowsInv
  <1>. QED  BY <1>1, RowsHold, PTL

(***************************************************************************)
(* D23: a failure that was recorded is never undone, whatever any process  *)
(* read before.                                                            *)
(***************************************************************************)
THEOREM Sticky == Spec => FailureIsSticky
  <1>. DEFINE Kept == \A r \in Run : runs[r] # None /\ runs[r].failed =>
                         runs[r]'.failed /\ ~Complete(r)'
  <1>1. TypeInv /\ RowsInv /\ [Next]_vars => [Kept]_runs
    <2>. SUFFICES ASSUME TypeInv, RowsInv, [Next]_vars PROVE [Kept]_runs
      OBVIOUS
    <2>0. runs \in [Run -> Row \union {None}]
      BY DEF TypeInv, TypeOK, LocalTypeOK
    <2>1. ASSUME NEW p \in Hook, NEW r \in Run, NEW b \in BOOLEAN, runs[r] = None,
                 runs' = [runs EXCEPT ![r] = Begun(r, session[p], b)]
          PROVE  Kept
      BY <2>0, <2>1 DEF Complete
    <2>2. ASSUME NEW p \in Hook, NEW r \in Run, r = seen[p].run,
                 runs[r] # None, \A q \in Run \ {r} : runs'[q] = runs[q],
                 Marked(r) \/ Finished(p, r)
          PROVE  Kept
      BY <2>2 DEF Complete, Marked, Finished
    <2>. QED  BY <2>1, <2>2, RowsNext DEF RowsStep
  <1>. QED  BY <1>1, RowsHold, PTL DEF Spec, FailureIsSticky

-----------------------------------------------------------------------------
(***************************************************************************)
(* What a drained flush covers.  Counting looks at one queue at a time; an *)
(* empty one shows that all that was ever staged in it is durable, by      *)
(* NothingLost.  That much stays: what the process had found staged, and   *)
(* its own events, of which it emits no more.                              *)
(***************************************************************************)
Covered(p, k) ==
    /\ before[p][k] \subseteq durable[k]
    /\ k = "event" => \A e \in staged["event"] : e.emitter = p => e \in durable["event"]

CountedBefore(k) == IF k = "event" THEN {}
                    ELSE IF k = "observation" THEN {"event"}
                    ELSE {"event", "observation"}

\* What only the events of an older version may lack: a place in the history.
OwnInHistory == \A x \in outbox : x.emitter \in Hook => x \in staged["event"]

FoundStaged == \A p \in Hook : \A k \in Kind : before[p][k] \subseteq staged[k]

CountOf(p) ==
    /\ pc[p] \in {"idle", "lookup", "begin", "reread"} => seen[p] = None
    /\ pc[p] \in {"idle", "lookup", "begin", "reread", "emit", "fetch", "send", "ack"}
         => ~leftover[p] /\ outcome[p] = "drained"
    /\ pc[p] = "count" /\ ~leftover[p] => \A k \in CountedBefore(queue[p]) : Covered(p, k)
    /\ pc[p] \in {"fetch", "send", "ack", "count", "mark"} => Flushes(hook[p])
    /\ pc[p] = "mark" => outcome[p] # "drained"
    /\ pc[p] = "finish" => hook[p] = "SessionEnd" /\ (outcome[p] = "drained" => ~leftover[p])
    /\ (/\ pc[p] \in {"finish", "ok"} /\ Flushes(hook[p]) /\ seen[p] # None
        /\ outcome[p] = "drained")
         => \A k \in Kind : Covered(p, k)

CountInv == OwnInHistory /\ FoundStaged /\ \A p \in Hook : CountOf(p)

LEMMA CountInit == Init => CountInv
  BY HookAssumption DEF Init, LocalInit, CountInv, OwnInHistory, FoundStaged, CountOf

-----------------------------------------------------------------------------
(***************************************************************************)
(* How the database, the plane and the history grow in a step.             *)
(***************************************************************************)
Growth ==
    /\ \A k \in Kind : staged[k] \subseteq staged'[k] /\ durable[k] \subseteq durable'[k]
    /\ \A e \in staged'["event"] \ staged["event"] :
          e \in outbox \/ \E p \in Hook : pc[p] = "emit" /\ e.emitter = p
    /\ outbox' \ outbox \subseteq staged'["event"]
    /\ \A p \in Hook : \/ before'[p] = before[p]
                       \/ pc[p] = "idle" /\ before'[p] = staged'

LEMMA GrowthNext == TypeInv /\ [Next]_vars => Growth
  <1>. SUFFICES ASSUME TypeInv, [Next]_vars PROVE Growth
    OBVIOUS
  <1>. USE DEF TypeInv, TypeOK, LocalTypeOK
  <1>0. ASSUME UNCHANGED <<staged, outbox, before>>,
               \A k \in Kind : durable[k] \subseteq durable'[k]
        PROVE  Growth
    BY <1>0 DEF Growth
  <1>1. ASSUME NEW p \in Hook, Step(p) PROVE Growth
    <2>1. CASE FindRun(p) \/ NoRun(p) \/ Reread(p) \/ \E r \in Run, b \in BOOLEAN : Begin(p, r, b)
      BY <1>0, <2>1 DEF FindRun, NoRun, Reread, Adopt, Begin
    <2>2. CASE Emit(p)
      <3>. DEFINE e == [emitter |-> p, sequence |-> emitted[p], run |-> seen[p].run]
      <3>1. /\ staged' = [staged EXCEPT !["event"] = @ \union {e}]
            /\ outbox' = IF e \in staged["event"] THEN outbox ELSE outbox \union {e}
            /\ pc[p] = "emit" /\ UNCHANGED <<durable, before>>
        BY <2>2 DEF Emit, AppendEvent
      <3>2. e.emitter = p
        OBVIOUS
      <3>. HIDE DEF e
      <3>. QED  BY <3>1, <3>2 DEF Growth
    <2>3. CASE Fetch(p) \/ Rejected(p) \/ Count(p)
      BY <1>0, <2>3 DEF Fetch, Rejected, Count
    <2>4. CASE Accepted(p) \/ Unreachable(p) \/ ForeignId(p)
      <3>1. UNCHANGED <<staged, outbox, before>>
        BY <2>4 DEF Accepted, Unreachable, ForeignId
      <3>2. \A k \in Kind : durable[k] \subseteq durable'[k]
        BY <2>4 DEF Accepted, Unreachable, ForeignId
      <3>. QED  BY <1>0, <3>1, <3>2
    <2>5. CASE Ack(p)
      BY <2>5 DEF Ack, Acknowledge, Growth
    <2>6. CASE Mark(p) \/ Finish(p) \/ Catch(p)
      BY <1>0, <2>6 DEF Mark, Finish, Catch
    <2>. QED  BY <1>1, <2>1, <2>2, <2>3, <2>4, <2>5, <2>6 DEF Step
  <1>2. ASSUME NEW p \in Hook, Environment(p) PROVE Growth
    <2>1. ASSUME NEW h \in HookEvent, NEW s \in Session, NEW n \in Emissions(h), Start(p, h, s, n)
          PROVE  Growth
      BY <2>1 DEF Start, UpgradeHistory, Growth
    <2>2. CASE Throw(p) \/ Crash(p) \/ \E h \in HookEvent, s \in Session : StartFails(p, h, s)
      BY <1>0, <2>2 DEF Throw, Crash, StartFails
    <2>. QED  BY <1>2, <2>1, <2>2 DEF Environment
  <1>3. ASSUME NEW k \in {"observation", "snapshot"}, NEW d \in Document, McpStage(k, d)
        PROVE  Growth
    BY <1>3 DEF McpStage, StageDocument, Growth
  <1>4. CASE UNCHANGED vars
    BY <1>0, <1>4 DEF vars
  <1>. QED  BY <1>1, <1>2, <1>3, <1>4 DEF Next

\* What is covered stays covered, once the process emits no more.
LEMMA CoveredKept ==
    ASSUME TypeInv, Growth, OwnInHistory, NEW p \in Hook, pc[p] \notin {"idle", "emit"}
    PROVE  \A k \in Kind : Covered(p, k) => Covered(p, k)'
  <1>. SUFFICES ASSUME NEW k \in Kind, Covered(p, k) PROVE Covered(p, k)'
    OBVIOUS
  <1>1. before'[p][k] \subseteq durable'[k]
    BY DEF Growth, Covered
  <1>2. ASSUME k = "event", NEW e \in staged'["event"], e.emitter = p
        PROVE  e \in durable'["event"]
    <2>1. e \in staged["event"]
      BY <1>2 DEF Growth, OwnInHistory
    <2>. QED  BY <1>2, <2>1 DEF Growth, Covered
  <1>. QED  BY <1>1, <1>2 DEF Covered

LEMMA HistoryKept == TypeInv /\ CountInv /\ Growth => OwnInHistory' /\ FoundStaged'
  <1>. SUFFICES ASSUME TypeInv, CountInv, Growth PROVE OwnInHistory' /\ FoundStaged'
    OBVIOUS
  <1>1. OwnInHistory'
    BY DEF CountInv, Growth, OwnInHistory
  <1>2. ASSUME NEW p \in Hook, NEW k \in Kind PROVE before'[p][k] \subseteq staged'[k]
    BY DEF CountInv, Growth, FoundStaged
  <1>. QED  BY <1>1, <1>2 DEF FoundStaged

-----------------------------------------------------------------------------
\* Process q takes no part in a step.
Idles(q) ==
    /\ pc'[q] = pc[q] /\ hook'[q] = hook[q] /\ seen'[q] = seen[q]
    /\ leftover'[q] = leftover[q] /\ outcome'[q] = outcome[q] /\ queue'[q] = queue[q]

LEMMA OthersIdle ==
    ASSUME TypeInv, NEW p \in Hook, Step(p) \/ Environment(p)
    PROVE  \A q \in Hook \ {p} : Idles(q)
  <1>. USE DEF TypeInv, TypeOK, Idles
  <1>1. CASE FindRun(p) \/ NoRun(p) \/ Reread(p) \/ \E r \in Run, b \in BOOLEAN : Begin(p, r, b)
    BY <1>1 DEF FindRun, NoRun, Reread, Adopt, Begin
  <1>2. CASE Emit(p) \/ Fetch(p) \/ Accepted(p)
    BY <1>2 DEF Emit, Fetch, Accepted
  <1>3. CASE Rejected(p) \/ Unreachable(p) \/ ForeignId(p) \/ Ack(p)
    BY <1>3 DEF Rejected, Unreachable, ForeignId, Ack, Fail
  <1>4. CASE Count(p)
    BY <1>4 DEF Count
  <1>5. CASE Mark(p) \/ Finish(p) \/ Catch(p)
    BY <1>5 DEF Mark, Finish, Catch
  <1>6. CASE Environment(p)
    BY <1>6 DEF Environment, Start, StartFails, Throw, Crash
  <1>. QED  BY <1>1, <1>2, <1>3, <1>4, <1>5, <1>6 DEF Step

LEMMA IdleCount ==
    ASSUME TypeInv, CountInv, Growth, NEW q \in Hook, Idles(q)
    PROVE  CountOf(q)'
  <1>1. pc[q] \in {"count", "finish", "ok"} => \A k \in Kind : Covered(q, k) => Covered(q, k)'
    BY CoveredKept DEF CountInv
  <1>2. CountedBefore(queue[q]) \subseteq Kind /\ CountOf(q)
    BY DEF CountInv, CountedBefore
  <1>3. CountedBefore(queue[q])' = CountedBefore(queue[q])
    BY DEF Idles, CountedBefore
  <1>. QED  BY <1>1, <1>2, <1>3 DEF CountOf, Idles, Flushes

\* Everything an empty queue ever held is durable.
LEMMA EmptyCovers ==
    ASSUME TypeInv, CountInv, NothingLost, NEW p \in Hook, NEW k \in Kind, Pending(k) = {}
    PROVE  Covered(p, k)
  BY DEF CountInv, FoundStaged, NothingLost, Covered

LEMMA CountOfCount ==
    ASSUME TypeInv, CountInv, NothingLost, Growth, NEW p \in Hook, Count(p)
    PROVE  CountOf(p)'
  <1>. USE DEF TypeInv, TypeOK
  <1>. DEFINE left == leftover[p] \/ Pending(queue[p]) # {}
              out  == IF left /\ outcome[p] = "drained" THEN "partial" ELSE outcome[p]
  <1>1. /\ pc[p] = "count" /\ CountOf(p) /\ Flushes(hook[p])
        /\ hook' = hook /\ seen' = seen
        /\ leftover'[p] <=> left
    BY DEF CountInv, CountOf, Count
  <1>2. ~left => /\ Pending(queue[p]) = {}
                 /\ \A k \in CountedBefore(queue[p]) : Covered(p, k)
    BY <1>1 DEF CountOf
  <1>3. ~left => Covered(p, queue[p])
    BY <1>2, EmptyCovers
  <1>4. \A k \in Kind : Covered(p, k) => Covered(p, k)'
    BY <1>1, CoveredKept DEF CountInv
  <1>5. CASE queue[p] # "snapshot"
    <2>1. pc' = pc /\ outcome' = outcome /\ queue'[p] = Follows(queue[p])
      BY <1>5 DEF Count
    <2>2. ~left => \A k \in CountedBefore(Follows(queue[p])) : Covered(p, k)'
      BY <1>2, <1>3, <1>4, <1>5 DEF CountedBefore, Follows
    <2>3. CountedBefore(queue[p])' = CountedBefore(Follows(queue[p]))
      BY <2>1 DEF CountedBefore
    <2>. HIDE DEF left
    <2>. QED  BY <1>1, <2>1, <2>2, <2>3 DEF CountOf, Flushes
  <1>6. CASE queue[p] = "snapshot"
    <2>1. /\ outcome'[p] = out
          /\ pc'[p] = IF out # "drained" THEN "mark"
                      ELSE IF FinishesRun(hook[p]) THEN "finish" ELSE "ok"
      BY <1>6 DEF Count
    <2>2. out = "drained" => ~left
      OBVIOUS
    <2>3. ~left => \A k \in Kind : Covered(p, k)'
      BY <1>2, <1>3, <1>4, <1>6 DEF CountedBefore
    <2>. HIDE DEF left, out
    <2>. QED  BY <1>1, <2>1, <2>2, <2>3 DEF CountOf, Flushes, FinishesRun
  <1>. QED  BY <1>5, <1>6

LEMMA CountOfStep ==
    ASSUME TypeInv, CountInv, NothingLost, Growth, NEW p \in Hook, Step(p)
    PROVE  CountOf(p)'
  <1>. USE DEF TypeInv, TypeOK
  <1>0. CountOf(p) /\ (pc[p] = "finish" => \A k \in Kind : Covered(p, k) => Covered(p, k)')
    BY CoveredKept DEF CountInv
  <1>1. ASSUME NEW r \in Run, Adopt(p, r), pc[p] \in {"lookup", "reread"} PROVE CountOf(p)'
    <2>1. /\ pc'[p] \in {"emit", "fetch", "ok"}
          /\ pc'[p] = "fetch" => Flushes(hook[p])
          /\ pc'[p] = "ok" => ~Flushes(hook[p])
      BY <1>1 DEF Adopt, AfterEmissions
    <2>. QED  BY <1>0, <1>1, <2>1 DEF Adopt, CountOf, Flushes
  <1>2. CASE NoRun(p) \/ \E r \in Run, b \in BOOLEAN : Begin(p, r, b)
    BY <1>0, <1>2 DEF NoRun, Begin, CountOf, Flushes
  <1>3. CASE Emit(p)
    <2>1. /\ pc'[p] \in {"emit", "fetch", "ok"}
          /\ pc'[p] = "fetch" => Flushes(hook[p])
          /\ pc'[p] = "ok" => ~Flushes(hook[p])
      BY <1>3 DEF Emit, AfterEmissions
    <2>. QED  BY <1>0, <1>3, <2>1 DEF Emit, CountOf, Flushes
  <1>4. CASE Fetch(p)
    <2>1. /\ pc[p] = "fetch" /\ pc'[p] \in {"fetch", "send", "count"}
          /\ pc'[p] = "count" => queue'[p] = "event"
          /\ UNCHANGED <<hook, seen, leftover, outcome>>
      BY <1>4 DEF Fetch
    <2>. QED  BY <1>0, <2>1 DEF CountOf, CountedBefore, Flushes
  <1>5. CASE Accepted(p) \/ Rejected(p) \/ Unreachable(p) \/ ForeignId(p) \/ Ack(p)
    <2>1. /\ pc[p] \in {"send", "ack"} /\ UNCHANGED <<hook, seen, leftover>>
          /\ \/ pc'[p] \in {"send", "ack", "fetch"} /\ outcome' = outcome
             \/ pc'[p] = "count" /\ queue'[p] = "event"
      BY <1>5 DEF Accepted, Rejected, Unreachable, ForeignId, Ack, Fail
    <2>. QED  BY <1>0, <2>1 DEF CountOf, CountedBefore, Flushes
  <1>6. CASE Mark(p)
    <2>1. /\ pc[p] = "mark" /\ UNCHANGED <<hook, seen, leftover, outcome>>
          /\ pc'[p] = IF FinishesRun(hook[p]) THEN "finish" ELSE "failed"
      BY <1>6 DEF Mark
    <2>. QED  BY <1>0, <2>1 DEF CountOf, FinishesRun
  <1>7. CASE Finish(p)
    <2>1. /\ pc[p] = "finish" /\ UNCHANGED <<hook, seen, leftover, outcome>>
          /\ pc'[p] \in {"failed", "ok"}
          /\ pc'[p] = "ok" => outcome[p] = "drained"
      BY <1>7 DEF Finish
    <2>. QED  BY <1>0, <2>1 DEF CountOf, Flushes
  <1>8. CASE Catch(p)
    BY <1>0, <1>8 DEF Catch, CountOf
  <1>9. CASE Reread(p) /\ ~\E r \in Run : Adopt(p, r)
    BY <1>0, <1>9 DEF Reread, CountOf
  <1>. QED  BY <1>1, <1>2, <1>3, <1>4, <1>5, <1>6, <1>7, <1>8, <1>9, CountOfCount
            DEF Step, FindRun, Reread

LEMMA CountInvNext == TypeInv /\ CountInv /\ NothingLost /\ [Next]_vars => CountInv'
  <1>. SUFFICES ASSUME TypeInv, CountInv, NothingLost, [Next]_vars PROVE CountInv'
    OBVIOUS
  <1>0. Growth /\ OwnInHistory' /\ FoundStaged'
    BY GrowthNext, HistoryKept
  <1>1. ASSUME NEW p \in Hook, Step(p) PROVE CountInv'
    BY <1>0, <1>1, OthersIdle, IdleCount, CountOfStep DEF CountInv
  <1>2. ASSUME NEW p \in Hook, Environment(p) PROVE CountInv'
    <2>1. CountOf(p)'
      <3>. USE DEF TypeInv, TypeOK
      <3>1. CountOf(p)
        BY DEF CountInv
      <3>2. ASSUME NEW h \in HookEvent, NEW s \in Session, NEW n \in Emissions(h), Start(p, h, s, n)
            PROVE  CountOf(p)'
        BY <3>1, <3>2 DEF Start, CountOf
      <3>3. CASE Throw(p) \/ Crash(p) \/ \E h \in HookEvent, s \in Session : StartFails(p, h, s)
        BY <3>1, <3>3 DEF Throw, Crash, StartFails, CountOf
      <3>. QED  BY <1>2, <3>2, <3>3 DEF Environment
    <2>. QED  BY <1>0, <1>2, <2>1, OthersIdle, IdleCount DEF CountInv
  <1>3. CASE \/ UNCHANGED vars
             \/ \E k \in {"observation", "snapshot"}, d \in Document : McpStage(k, d)
    <2>1. \A q \in Hook : Idles(q)
      BY <1>3 DEF vars, McpStage, Idles
    <2>. QED  BY <1>0, <2>1, IdleCount DEF CountInv
  <1>. QED  BY <1>1, <1>2, <1>3 DEF Next

\* The process whose drained flush made r read COMPLETE.
Witness(p, r) ==
    /\ pc[p] = "ok" /\ hook[p] = "SessionEnd"
    /\ seen[p] # None /\ seen[p].run = r /\ ~seen[p].failed
    /\ \A k \in Kind : Covered(p, k)

Witnessed == \A r \in Run : Complete(r) => \E p \in Hook : Witness(p, r)

\* A process that has ended takes no part in any step.
LEMMA EndedIdles ==
    ASSUME TypeInv, [Next]_vars, NEW p \in Hook, pc[p] = "ok"
    PROVE  Idles(p)
  <1>1. ASSUME NEW q \in Hook, Step(q) \/ Environment(q) PROVE Idles(p)
    <2>1. p # q
      BY <1>1 DEF Step, Environment, FindRun, NoRun, Begin, Reread, Emit, Fetch, Accepted, Rejected,
                  Unreachable, ForeignId, Ack, Count, Mark, Finish, Catch, Start, StartFails,
                  Throw, Fallible, Crash
    <2>. QED  BY <1>1, <2>1, OthersIdle
  <1>2. CASE \/ UNCHANGED vars
             \/ \E k \in {"observation", "snapshot"}, d \in Document : McpStage(k, d)
    BY <1>2 DEF vars, McpStage, Idles
  <1>. QED  BY <1>1, <1>2 DEF Next

LEMMA WitnessedNext ==
    TypeInv /\ RowsInv /\ CountInv /\ NothingLost /\ Witnessed /\ [Next]_vars => Witnessed'
  <1>. SUFFICES ASSUME TypeInv, RowsInv, CountInv, NothingLost, Witnessed, [Next]_vars,
                       NEW r \in Run, Complete(r)'
                PROVE  \E p \in Hook : Witness(p, r)'
    BY DEF Witnessed
  <1>0. Growth /\ RowsStep /\ runs \in [Run -> Row \union {None}]
    BY GrowthNext, RowsNext DEF TypeInv, TypeOK, LocalTypeOK
  <1>1. CASE Complete(r)
    <2>1. PICK p \in Hook : Witness(p, r)
      BY <1>1 DEF Witnessed
    <2>2. Idles(p) /\ \A k \in Kind : Covered(p, k)'
      BY <1>0, <2>1, EndedIdles, CoveredKept DEF Witness, CountInv
    <2>. QED  BY <2>1, <2>2 DEF Witness, Idles
  <1>2. CASE ~Complete(r)
    <2>1. PICK p \in Hook : /\ r = seen[p].run /\ seen[p] \in Seen
                            /\ Finished(p, r) /\ runs'[r].complete
      <3>1. ASSUME NEW p \in Hook, NEW q \in Run, NEW b \in BOOLEAN,
                   runs' = [runs EXCEPT ![q] = Begun(q, session[p], b)]
            PROVE  FALSE
        BY <1>0, <1>2, <3>1 DEF Complete, Begun
      <3>2. runs' # runs
        BY <1>2 DEF Complete
      <3>3. PICK p \in Hook : LET q == seen[p].run IN
                  /\ q \in Run /\ seen[p] \in Seen
                  /\ \A o \in Run \ {q} : runs'[o] = runs[o]
                  /\ Marked(q) \/ Finished(p, q)
        BY <1>0, <3>1, <3>2 DEF RowsStep
      <3>4. seen[p].run = r /\ runs'[r].complete
        BY <1>2, <3>3 DEF Complete
      <3>. QED  BY <3>3, <3>4 DEF Marked
    <2>2. pc'[p] = "ok" /\ ~seen[p].failed /\ outcome[p] = "drained" /\ pc[p] = "finish"
      BY <2>1 DEF Finished
    <2>3. /\ hook[p] = "SessionEnd" /\ seen[p] # None
          /\ \A k \in Kind : Covered(p, k)
      BY <2>1, <2>2, NoneIsNotSeen DEF CountInv, CountOf, Flushes
    <2>4. \A k \in Kind : Covered(p, k)'
      BY <1>0, <2>2, <2>3, CoveredKept DEF CountInv
    <2>. QED  BY <2>1, <2>2, <2>3, <2>4 DEF Witness, Finished
  <1>. QED  BY <1>1, <1>2

VerdictInv == TypeInv /\ DeliveryInv /\ RowsInv /\ CountInv /\ Witnessed

LEMMA VerdictHolds == Spec => []VerdictInv
  <1>1. Init => VerdictInv
    <2>1. Init => Witnessed
      BY DEF Init, LocalInit, Witnessed, Complete
    <2>. QED  BY <2>1, TypeInit, DeliveryInit, RowsInit, CountInit DEF VerdictInv
  <1>2. VerdictInv /\ [Next]_vars => VerdictInv'
    BY TypeNext, DeliveryNext, RowsInvNext, CountInvNext, WitnessedNext DEF VerdictInv, DeliveryInv
  <1>. QED  BY <1>1, <1>2, PTL DEF Spec

(***************************************************************************)
(* A drained flush delivered all that was staged when its process started, *)
(* whoever else drained, appended or died meanwhile.                       *)
(***************************************************************************)
THEOREM Drained == Spec => []DrainedCovers
  <1>1. VerdictInv => DrainedCovers
    BY DEF VerdictInv, CountInv, CountOf, DrainedCovers, Covered, Flushes
  <1>. QED  BY <1>1, VerdictHolds, PTL

(***************************************************************************)
(* D23: COMPLETE rests on a SessionEnd whose flush drained, its own events *)
(* included.                                                               *)
(***************************************************************************)
THEOREM CompleteDrained == Spec => []CompleteWasDrained
  <1>1. VerdictInv => CompleteWasDrained
    BY DEF VerdictInv, Witnessed, Witness, Covered, CompleteWasDrained
  <1>. QED  BY <1>1, VerdictHolds, PTL

-----------------------------------------------------------------------------
(***************************************************************************)
(* The refinement.  Opening the database moves nothing into what was       *)
(* recorded, an emission or a document adds one item, an answer delivers   *)
(* part of a page that was recorded, an acknowledgement settles what the   *)
(* plane holds; and a row's verdict moves as the promise allows, because a *)
(* process that comes to judge with a drained flush has nothing left.      *)
(***************************************************************************)
recordedBar == Tagged(staged) \union ({"event"} \X outbox)

LEMMA InTagged ==
    \A f, x : x \in Tagged(f) <=> \E k \in Kind : \E i \in f[k] : x = <<k, i>>
  BY DEF Tagged

VerdictMoves ==
    \/ verdictBar' = verdictBar
    \/ \E r \in Run : \E v \in {"open", "measured", "lost"} :
          <<verdictBar[r], v>> \in Delivery!Moves /\ verdictBar' = [verdictBar EXCEPT ![r] = v]

Word(row) == IF row = None THEN "none" ELSE IF row.failed THEN "lost"
             ELSE IF row.complete THEN "measured" ELSE "open"

LEMMA VerdictNext == VerdictInv /\ [Next]_vars => VerdictMoves
  <1>. SUFFICES ASSUME VerdictInv, [Next]_vars PROVE VerdictMoves
    OBVIOUS
  <1>0. RowsStep /\ runs \in [Run -> Row \union {None}]
    BY RowsNext DEF VerdictInv, TypeInv, TypeOK, LocalTypeOK
  <1>1. verdictBar = [r \in Run |-> Word(runs[r])] /\ verdictBar' = [r \in Run |-> Word(runs'[r])]
    BY Zenon DEF verdictBar, Word
  <1>2. CASE runs' = runs
    BY <1>1, <1>2 DEF VerdictMoves
  <1>3. ASSUME NEW r \in Run, \A q \in Run \ {r} : runs'[q] = runs[q],
               \/ Word(runs'[r]) = Word(runs[r])
               \/ /\ Word(runs'[r]) \in {"open", "measured", "lost"}
                  /\ <<Word(runs[r]), Word(runs'[r])>> \in Delivery!Moves
        PROVE  VerdictMoves
    <2>. HIDE DEF Word
    <2>1. verdictBar' = [verdictBar EXCEPT ![r] = Word(runs'[r])]
      BY <1>1, <1>3
    <2>2. verdictBar[r] = Word(runs[r])
      BY <1>1
    <2>3. CASE Word(runs'[r]) = Word(runs[r])
      BY <1>1, <2>1, <2>3 DEF VerdictMoves
    <2>. QED  BY <1>3, <2>1, <2>2, <2>3 DEF VerdictMoves
  <1>4. ASSUME NEW p \in Hook, NEW r \in Run, NEW b \in BOOLEAN, runs[r] = None,
               session[p] \in Session, runs' = [runs EXCEPT ![r] = Begun(r, session[p], b)]
        PROVE  VerdictMoves
    <2>1. /\ runs'[r] = Begun(r, session[p], b)
          /\ \A q \in Run \ {r} : runs'[q] = runs[q]
      BY <1>0, <1>4
    <2>2. /\ Begun(r, session[p], b) \in Row
          /\ ~Begun(r, session[p], b).failed /\ ~Begun(r, session[p], b).complete
      BY <1>4 DEF Begun, Row
    <2>3. Word(runs[r]) = "none" /\ Word(runs'[r]) = "open"
      BY <1>4, <2>1, <2>2, NoneIsNoRow DEF Word
    <2>. QED  BY <1>3, <2>1, <2>3 DEF Delivery!Moves
  <1>5. ASSUME NEW p \in Hook, NEW r \in Run, r = seen[p].run, runs[r] # None, runs'[r] \in Row,
               \A q \in Run \ {r} : runs'[q] = runs[q], Marked(r) \/ Finished(p, r)
        PROVE  VerdictMoves
    <2>1. runs[r] \in Row /\ runs'[r] # None
      BY <1>0, <1>5, NoneIsNoRow
    <2>2. Word(runs[r]) \in {"open", "measured", "lost"}
      BY <1>5 DEF Word
    <2>3. runs'[r].failed \/ runs'[r].complete
      BY <1>5 DEF Marked, Finished, VerdictInv, CountInv, CountOf
    <2>4. runs[r].failed => runs'[r].failed
      BY <1>5 DEF Marked, Finished
    <2>5. /\ Word(runs'[r]) \in {"measured", "lost"}
          /\ Word(runs[r]) = "lost" => Word(runs'[r]) = "lost"
      BY <1>5, <2>1, <2>3, <2>4 DEF Word
    <2>. HIDE DEF Word
    <2>. QED  BY <1>3, <1>5, <2>2, <2>5 DEF Delivery!Moves
  <1>. QED  BY <1>0, <1>2, <1>4, <1>5 DEF RowsStep

\* A step that leaves the queues and the plane alone judges a run, or nothing.
LEMMA JudgeStep ==
    ASSUME VerdictMoves, UNCHANGED <<staged, acked, outbox, durable>>
    PROVE  [Delivery!Next]_(Delivery!vars)
  <1>1. UNCHANGED <<recordedBar, Tagged(durable), Tagged(acked)>>
    BY DEF recordedBar, Tagged
  <1>2. CASE verdictBar' = verdictBar
    BY <1>1, <1>2 DEF Delivery!vars, recordedBar
  <1>3. CASE \E r \in Run : Delivery!Judge(r)
    BY <1>3 DEF Delivery!Next
  <1>4. CASE \E r \in Run : \E v \in {"open", "measured", "lost"} :
               <<verdictBar[r], v>> \in Delivery!Moves /\ verdictBar' = [verdictBar EXCEPT ![r] = v]
    BY <1>1, <1>3, <1>4 DEF Delivery!Judge, recordedBar
  <1>. QED  BY <1>2, <1>4 DEF VerdictMoves

\* More items under one kind are more tagged items, and nothing else.
Grown(f, g, k, ids) == \A j \in Kind : g[j] = IF j = k THEN f[j] \union ids ELSE f[j]

LEMMA TaggedGrows ==
    \A f, g, ids : \A k \in Kind :
        Grown(f, g, k, ids) => Tagged(g) = Tagged(f) \union ({k} \X ids)
  <1>. SUFFICES ASSUME NEW f, NEW g, NEW ids, NEW k \in Kind, Grown(f, g, k, ids)
                PROVE  Tagged(g) = Tagged(f) \union ({k} \X ids)
    OBVIOUS
  <1>1. \A x : x \in Tagged(g) <=> \E j \in Kind : \E i \in g[j] : x = <<j, i>>
    BY InTagged
  <1>2. \A x : x \in Tagged(f) <=> \E j \in Kind : \E i \in f[j] : x = <<j, i>>
    BY InTagged
  <1>3. \A x : x \in {k} \X ids <=> \E i \in ids : x = <<k, i>>
    OBVIOUS
  <1>4. \A x : x \in Tagged(g) <=> x \in Tagged(f) \union ({k} \X ids)
    BY <1>1, <1>2, <1>3 DEF Grown
  <1>. QED  BY <1>4

LEMMA TaggedIncludes ==
    \A f, ids : \A k \in Kind : ids \subseteq f[k] => {k} \X ids \subseteq Tagged(f)
  BY InTagged

\* Recording, delivering and settling, as the abstract promise has them.
LEMMA RecordStep ==
    ASSUME NEW k \in Kind, NEW i \in Item, recordedBar' = recordedBar \union {<<k, i>>},
           UNCHANGED <<runs, acked, durable>>
    PROVE  Delivery!Next
  <1>1. <<k, i>> \in Kind \X Item
    OBVIOUS
  <1>2. UNCHANGED <<Tagged(durable), Tagged(acked), verdictBar>>
    BY DEF Tagged, verdictBar
  <1>3. Delivery!Record(<<k, i>>)
    BY <1>2 DEF Delivery!Record, recordedBar
  <1>. QED  BY <1>1, <1>3 DEF Delivery!Next

LEMMA DeliverStep ==
    ASSUME TypeInv, NEW k \in Kind, NEW ids, ids \subseteq staged[k],
           durable' = [durable EXCEPT ![k] = @ \union ids],
           UNCHANGED <<staged, outbox, runs, acked>>
    PROVE  Delivery!Next
  <1>0. DOMAIN durable = Kind
    BY DEF TypeInv, TypeOK
  <1>1. Tagged(durable') = Tagged(durable) \union ({k} \X ids)
    <2>1. Grown(durable, durable', k, ids)
      BY <1>0 DEF Grown
    <2>. QED  BY <2>1, TaggedGrows
  <1>2. {k} \X ids \subseteq Tagged(staged)
    BY TaggedIncludes
  <1>3. UNCHANGED <<recordedBar, Tagged(acked), verdictBar>>
    BY DEF Tagged, verdictBar, recordedBar
  <1>4. Tagged(durable)' = Tagged(durable')
    BY DEF Tagged
  <1>5. Delivery!Deliver({k} \X ids)
    BY <1>1, <1>2, <1>3, <1>4 DEF Delivery!Deliver, recordedBar
  <1>6. {k} \X ids \in SUBSET (Tagged(staged) \union ({"event"} \X outbox))
    BY <1>2
  <1>. QED  BY <1>5, <1>6 DEF Delivery!Next

LEMMA SettleStep ==
    ASSUME TypeInv, NEW k \in Kind, NEW ids, ids \subseteq durable[k],
           acked' = [acked EXCEPT ![k] = @ \union ids], recordedBar' = recordedBar,
           UNCHANGED <<runs, durable>>
    PROVE  Delivery!Next
  <1>0. DOMAIN acked = Kind
    BY DEF TypeInv, TypeOK, LocalTypeOK
  <1>1. Tagged(acked') = Tagged(acked) \union ({k} \X ids)
    <2>1. Grown(acked, acked', k, ids)
      BY <1>0 DEF Grown
    <2>. QED  BY <2>1, TaggedGrows
  <1>2. {k} \X ids \in SUBSET Tagged(durable)
    BY TaggedIncludes
  <1>3. UNCHANGED <<Tagged(durable), verdictBar>>
    BY DEF Tagged, verdictBar
  <1>4. Tagged(acked)' = Tagged(acked')
    BY DEF Tagged
  <1>5. Delivery!Settle({k} \X ids)
    BY <1>1, <1>2, <1>3, <1>4 DEF Delivery!Settle, recordedBar
  <1>. QED  BY <1>2, <1>5 DEF Delivery!Next

LEMMA SimulationStep ==
    ASSUME VerdictInv, NEW p \in Hook, Step(p), VerdictMoves
    PROVE  [Delivery!Next]_(Delivery!vars)
  <1>0. TypeInv /\ DeliveryInv
    BY DEF VerdictInv
  <1>. USE DEF TypeInv, TypeOK, LocalTypeOK
  <1>1. CASE \/ FindRun(p) \/ NoRun(p) \/ Reread(p) \/ \E r \in Run, b \in BOOLEAN : Begin(p, r, b)
             \/ Mark(p) \/ Finish(p) \/ Catch(p)
    <2>1. UNCHANGED <<staged, acked, outbox, durable>>
      BY <1>1 DEF FindRun, NoRun, Reread, Adopt, Begin, Mark, Finish, Catch
    <2>. QED  BY <2>1, JudgeStep
  <1>2. CASE Fetch(p) \/ Rejected(p) \/ Count(p)
    <2>1. UNCHANGED <<staged, acked, outbox, durable>>
      BY <1>2 DEF Fetch, Rejected, Count
    <2>. QED  BY <2>1, JudgeStep
  <1>3. CASE Emit(p)
    <2>. DEFINE e == [emitter |-> p, sequence |-> emitted[p], run |-> seen[p].run]
    <2>1. AppendEvent(e) /\ UNCHANGED <<runs, acked, durable>>
      BY <1>3 DEF Emit, AppendEvent
    <2>2. e \in Item
      <3>1. /\ seen[p] \in Seen /\ emitted[p] \in 0 .. MaxAttribution
        BY <1>0, <1>3, HookAssumption DEF LocalsSound, Emit
      <3>. QED  BY <3>1, HookAssumption DEF Item, Event, Seen
    <2>. HIDE DEF e
    <2>3. Tagged(staged') = Tagged(staged) \union ({"event"} \X {e})
      <3>1. Grown(staged, staged', "event", {e})
        BY <1>0, <2>1 DEF AppendEvent, Grown
      <3>. QED  BY <3>1, TaggedGrows
    <2>4. Tagged(staged)' = Tagged(staged')
      BY DEF Tagged
    <2>5. outbox' = outbox \/ outbox' = outbox \union {e}
      BY <2>1 DEF AppendEvent
    <2>6. recordedBar' = recordedBar \union {<<"event", e>>}
      BY <2>3, <2>4, <2>5 DEF recordedBar
    <2>. QED  BY <2>1, <2>2, <2>6, RecordStep
  <1>4. CASE Accepted(p) \/ Unreachable(p) \/ ForeignId(p)
    <2>1. queue[p] \in Kind /\ batch[p] \subseteq staged[queue[p]]
      BY <1>0, <1>4 DEF DeliveryInv, PageStaged, Accepted, Unreachable, ForeignId
    <2>2. UNCHANGED <<staged, outbox, runs, acked>>
      BY <1>4 DEF Accepted, Unreachable, ForeignId
    <2>3. PICK ids \in SUBSET batch[p] : durable' = [durable EXCEPT ![queue[p]] = @ \union ids]
      BY <1>4 DEF Accepted, Unreachable, ForeignId
    <2>4. ids \subseteq staged[queue[p]]
      BY <2>1
    <2>. QED  BY <1>0, <2>1, <2>2, <2>3, <2>4, DeliverStep
  <1>5. CASE Ack(p)
    <2>1. /\ queue[p] \in Kind /\ accepted[p] \subseteq staged[queue[p]]
          /\ accepted[p] \subseteq durable[queue[p]]
      BY <1>0, <1>5 DEF DeliveryInv, AnswerDurable, Ack
    <2>2. /\ acked' = [acked EXCEPT ![queue[p]] = @ \union accepted[p]]
          /\ outbox' = IF queue[p] = "event" THEN outbox \ accepted[p] ELSE outbox
          /\ UNCHANGED <<staged, runs, durable>>
      BY <1>5 DEF Ack, Acknowledge
    <2>3. queue[p] = "event" => {"event"} \X accepted[p] \subseteq Tagged(staged)
      BY <2>1, TaggedIncludes
    <2>4. Tagged(staged)' = Tagged(staged)
      BY <2>2 DEF Tagged
    <2>5. recordedBar' = recordedBar
      BY <2>2, <2>3, <2>4 DEF recordedBar
    <2>. QED  BY <1>0, <2>1, <2>2, <2>5, SettleStep
  <1>. QED  BY <1>1, <1>2, <1>3, <1>4, <1>5 DEF Step

LEMMA Simulation == VerdictInv /\ [Next]_vars => [Delivery!Next]_(Delivery!vars)
  <1>. SUFFICES ASSUME VerdictInv, [Next]_vars PROVE [Delivery!Next]_(Delivery!vars)
    OBVIOUS
  <1>0. TypeInv /\ VerdictMoves
    BY VerdictNext DEF VerdictInv
  <1>. USE DEF TypeInv, TypeOK, LocalTypeOK
  <1>1. ASSUME NEW p \in Hook, Step(p) PROVE [Delivery!Next]_(Delivery!vars)
    BY <1>0, <1>1, SimulationStep
  <1>2. ASSUME NEW p \in Hook, NEW h \in HookEvent, NEW s \in Session,
               NEW n \in Emissions(h), Start(p, h, s, n)
        PROVE  [Delivery!Next]_(Delivery!vars)
    <2>1. /\ staged' = [staged EXCEPT !["event"] = @ \union outbox]
          /\ UNCHANGED <<acked, outbox, runs, durable>>
      BY <1>2 DEF Start, UpgradeHistory
    <2>2. Tagged(staged') = Tagged(staged) \union ({"event"} \X outbox)
      <3>1. Grown(staged, staged', "event", outbox)
        BY <1>0, <2>1 DEF Grown
      <3>. QED  BY <3>1, TaggedGrows
    <2>3. Tagged(staged)' = Tagged(staged')
      BY DEF Tagged
    <2>4. recordedBar' = recordedBar
      BY <2>1, <2>2, <2>3 DEF recordedBar
    <2>5. UNCHANGED <<Tagged(durable), Tagged(acked), verdictBar>>
      BY <2>1 DEF Tagged, verdictBar
    <2>. QED  BY <2>4, <2>5 DEF Delivery!vars, recordedBar
  <1>3. ASSUME NEW p \in Hook, Throw(p) \/ Crash(p) \/ \E h \in HookEvent, s \in Session : StartFails(p, h, s)
        PROVE  [Delivery!Next]_(Delivery!vars)
    <2>1. UNCHANGED <<staged, acked, outbox, durable>>
      BY <1>3 DEF Throw, Crash, StartFails
    <2>. QED  BY <1>0, <2>1, JudgeStep
  <1>4. ASSUME NEW k \in {"observation", "snapshot"}, NEW d \in Document, McpStage(k, d)
        PROVE  [Delivery!Next]_(Delivery!vars)
    <2>1. UNCHANGED <<acked, outbox, runs, durable>>
      BY <1>4 DEF McpStage, StageDocument
    <2>2. CASE staged' = staged
      BY <1>0, <2>1, <2>2, JudgeStep
    <2>3. CASE staged' = [staged EXCEPT ![k] = @ \union {d}]
      <3>1. Tagged(staged') = Tagged(staged) \union ({k} \X {d})
        <4>1. k \in Kind /\ Grown(staged, staged', k, {d})
          BY <1>0, <2>3 DEF Grown
        <4>. QED  BY <4>1, TaggedGrows
      <3>2. Tagged(staged)' = Tagged(staged')
        BY DEF Tagged
      <3>3. recordedBar' = recordedBar \union {<<k, d>>}
        BY <2>1, <3>1, <3>2 DEF recordedBar
      <3>. QED  BY <2>1, <3>3, RecordStep DEF Item
    <2>. QED  BY <1>4, <2>2, <2>3 DEF McpStage, StageDocument
  <1>5. CASE UNCHANGED vars
    <2>1. UNCHANGED <<staged, acked, outbox, durable>>
      BY <1>5 DEF vars
    <2>. QED  BY <1>0, <2>1, JudgeStep
  <1>. QED  BY <1>1, <1>2, <1>3, <1>4, <1>5 DEF Next, Environment

(***************************************************************************)
(* The hook processes, with every page, retry, lost answer, crash and race *)
(* of theirs, implement the promise of EvidenceDelivery.                   *)
(***************************************************************************)
THEOREM Implements == Spec => ImplementsDelivery
  <1>1. Init => Delivery!Init
    <2>. SUFFICES ASSUME Init PROVE Delivery!Init
      OBVIOUS
    <2>1. staged = [k \in Kind |-> {}] /\ outbox = Legacy /\ runs = [r \in Run |-> None]
          /\ durable = [k \in Kind |-> {}] /\ acked = [k \in Kind |-> {}]
      BY DEF Init, LocalInit
    <2>2. Tagged(durable) = {} /\ Tagged(acked) = {} /\ Tagged(staged) = {}
      BY <2>1, InTagged
    <2>3. verdictBar = [r \in Run |-> "none"]
      BY <2>1 DEF verdictBar
    <2>4. {"event"} \X outbox \subseteq Kind \X Item
      BY <2>1, HookAssumption DEF Item
    <2>. QED  BY <2>2, <2>3, <2>4 DEF Delivery!Init
  <1>. QED  BY <1>1, Simulation, VerdictHolds, PTL DEF Spec, ImplementsDelivery, Delivery!Spec
=============================================================================
