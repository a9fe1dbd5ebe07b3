----------------------------- MODULE TrialProofs -----------------------------
(***************************************************************************)
(* Trials.  First qualification trials, proved for any number of           *)
(* processes, trials, campaigns and commits; then the supervisor of one    *)
(* agent, proved for every timeout, grace and limit on output: it keeps    *)
(* its types, it is done in time, it runs one ladder, and it reports once. *)
(***************************************************************************)
EXTENDS QualificationTrial, TrialProcess, TLAPS

(***************************************************************************)
(* A process is registered with the plane exactly while it may run its     *)
(* agent or has run it; the plane's class for a run never changes; and a   *)
(* record is the work of a process that was registered and has finished    *)
(* with it.                                                                *)
(***************************************************************************)
Early == {"idle", "campaign", "fresh", "proxy", "prepare", "register"}
Paid  == {"agent", "transcript", "head", "create", "write"}

Registered ==
    \A h \in Host :
        /\ pc[h] \in Early => registry[h] = "none"
        /\ pc[h] \in Paid => registry[h] = "plane"
        /\ pc[h] # "idle" => job[h] \in Run /\ revision[h] \in Revision
        /\ registry[h] = "plane" => planeRuns[job[h]] = "qualification"
        /\ registry[h] # "none" => job[h] \in Run

Alone ==
    \A g, h \in Host :
        registry[g] = "plane" /\ registry[h] = "plane" /\ job[g] = job[h] => g = h

Signed ==
    \A t \in TrialId : records[t] \in Record =>
        /\ records[t].class = "qualification"
        /\ job[records[t].by] = <<records[t].campaign, t>>
        /\ registry[records[t].by] = "plane"
        /\ pc[records[t].by] \notin Paid

IInv == TypeOK /\ Registered /\ Alone /\ Signed

USE DEF Class, Steps, Early, Paid, Run

-----------------------------------------------------------------------------
LEMMA InitInv == Init => IInv
  BY NoneIsDistinct DEF Init, IInv, TypeOK, Registered, Alone, Signed

\* Steps that only move a process on, or choose what its trial was worth.
LEMMA MoveInv ==
    ASSUME IInv, NEW h \in Host, NEW where \in Steps \union {"done", "dead"},
           pc[h] \in Steps, Goto(h, where),
           where \in Early => pc[h] \in Early,
           where \in Paid => pc[h] \in Paid,
           UNCHANGED <<records, planeRuns, started, job, revision, registry>>,
           head' \in Revision, transcripts' \subseteq TrialId,
           sound' \in [Host -> BOOLEAN]
    PROVE  IInv'
  <1>. USE DEF IInv, Goto
  <1>1. TypeOK'
    BY DEF TypeOK
  <1>2. Registered'
    BY DEF TypeOK, Registered
  <1>3. Alone'
    BY DEF Alone
  <1>4. Signed'
    BY DEF TypeOK, Signed, Record, Registered
  <1>. QED  BY <1>1, <1>2, <1>3, <1>4

LEMMA StartInv ==
    ASSUME IInv, NEW h \in Host, NEW r \in Run, Start(h, r)
    PROVE  IInv'
  <1>. USE DEF IInv, Start, Goto, files, plane
  <1>1. TypeOK'
    BY DEF TypeOK
  <1>2. Registered'
    BY DEF TypeOK, Registered
  <1>3. Alone'
    BY DEF TypeOK, Alone, Registered
  <1>4. Signed'
    BY DEF TypeOK, Signed, Record, Registered
  <1>. QED  BY <1>1, <1>2, <1>3, <1>4

\* The plane confirms a registration only of a run it has no row for: nobody
\* else's can have been confirmed, or its class would be there.
LEMMA AnsweredInv ==
    ASSUME IInv, NEW h \in Host, Answered(h)
    PROVE  IInv'
  <1>. USE DEF IInv, Answered, Goto, files, plane
  <1>1. job[h] \in Run /\ registry[h] = "none"
    BY DEF TypeOK, Registered
  <1>2. CASE Registrable(job[h])
    <2>. USE <1>1, <1>2, NoneIsDistinct DEF Registrable
    <2>1. \A g \in Host : registry[g] = "plane" => job[g] # job[h]
      BY DEF Registered
    <2>2. TypeOK'
      <3>1. planeRuns' \in [Run -> Class \union {None}]
        BY DEF TypeOK
      <3>2. pc' \in [Host -> Steps \union {"idle", "done", "dead"}]
        BY DEF TypeOK
      <3>. QED  BY <3>1, <3>2 DEF TypeOK
    <2>3. Registered'
      BY <2>1 DEF TypeOK, Registered
    <2>4. Alone'
      BY <2>1 DEF TypeOK, Alone
    <2>5. Signed'
      BY DEF TypeOK, Signed, Record, Registered
    <2>. QED  BY <2>2, <2>3, <2>4, <2>5
  <1>3. CASE ~Registrable(job[h])
    <2>. USE <1>1, <1>3
    <2>1. TypeOK'
      BY DEF TypeOK
    <2>2. Registered'
      BY DEF TypeOK, Registered
    <2>3. Alone'
      BY DEF TypeOK, Alone
    <2>4. Signed'
      BY DEF TypeOK, Signed, Record, Registered
    <2>. QED  BY <2>1, <2>2, <2>3, <2>4
  <1>. QED  BY <1>2, <1>3

LEMMA UnansweredInv ==
    ASSUME IInv, NEW h \in Host, Unanswered(h)
    PROVE  IInv'
  <1>. USE NoneIsDistinct DEF IInv, Unanswered, Goto, files, plane, Registrable
  <1>1. job[h] \in Run /\ registry[h] = "none"
    BY DEF TypeOK, Registered
  <1>2. TypeOK'
    BY <1>1 DEF TypeOK
  <1>3. Registered'
    BY <1>1 DEF TypeOK, Registered
  <1>4. Alone'
    BY <1>1 DEF TypeOK, Alone
  <1>5. Signed'
    BY <1>1 DEF TypeOK, Signed, Record, Registered
  <1>. QED  BY <1>2, <1>3, <1>4, <1>5

LEMMA FirstEventInv ==
    ASSUME IInv, NEW r \in Run, FirstEvent(r)
    PROVE  IInv'
  <1>. USE NoneIsDistinct DEF IInv, FirstEvent, files, Stamps
  <1>1. TypeOK'
    BY DEF TypeOK
  <1>2. Registered'
    BY DEF TypeOK, Registered
  <1>3. Alone'
    BY DEF Alone
  <1>4. Signed'
    BY DEF TypeOK, Signed
  <1>. QED  BY <1>1, <1>2, <1>3, <1>4

LEMMA CreateInv ==
    ASSUME IInv, NEW h \in Host, CreateRecord(h)
    PROVE  IInv'
  <1>. USE NoneIsDistinct DEF IInv, CreateRecord, Goto, plane, TrialOf
  <1>1. job[h] \in Run
    BY DEF TypeOK, Registered
  <1>2. TypeOK'
    BY <1>1 DEF TypeOK
  <1>3. Registered'
    BY DEF TypeOK, Registered
  <1>4. Alone'
    BY DEF TypeOK, Alone
  <1>5. Signed'
    BY <1>1 DEF TypeOK, Signed, Record, Registered
  <1>. QED  BY <1>2, <1>3, <1>4, <1>5

LEMMA WriteInv ==
    ASSUME IInv, NEW h \in Host, WriteRecord(h)
    PROVE  IInv'
  <1>. DEFINE t == TrialOf(h)
              written == [campaign |-> job[h][1], revision |-> revision[h],
                          eligible |-> sound[h] /\ Confirmed(h),
                          class |-> OriginClassFor(h), by |-> h]
  <1>1. /\ job[h] \in Run
        /\ revision[h] \in Revision
        /\ registry[h] = "plane"
        /\ pc[h] \in Paid
    BY DEF IInv, TypeOK, Registered, WriteRecord
  <1>2. t \in TrialId /\ job[h] = <<job[h][1], t>> /\ job[h][1] \in Campaign
    BY <1>1 DEF TrialOf
  <1>3. (sound[h] /\ Confirmed(h)) \in BOOLEAN
    BY DEF Confirmed
  <1>4. OriginClassFor(h) = "qualification"
    BY <1>1 DEF OriginClassFor
  <1>5. written \in Record
    BY <1>1, <1>2, <1>3, <1>4 DEF Record
  <1>6. records' = [records EXCEPT ![t] = written]
    BY DEF WriteRecord
  <1>. HIDE DEF written, t
  <1>. USE DEF IInv
  <1>7. TypeOK'
    BY <1>2, <1>5, <1>6 DEF TypeOK, WriteRecord, Goto, plane
  <1>8. Registered'
    BY <1>1 DEF TypeOK, Registered, WriteRecord, Goto, plane
  <1>9. Alone'
    BY DEF Alone, WriteRecord
  <1>10. Signed'
    <2>. SUFFICES ASSUME NEW u \in TrialId, records'[u] \in Record
                  PROVE  /\ records'[u].class = "qualification"
                         /\ job'[records'[u].by] = <<records'[u].campaign, u>>
                         /\ registry'[records'[u].by] = "plane"
                         /\ pc'[records'[u].by] \notin Paid
      BY DEF Signed
    <2>1. UNCHANGED <<job, registry>> /\ pc' = [pc EXCEPT ![h] = "close"]
      BY DEF WriteRecord, Goto
    <2>2. CASE u = t
      <3>1. records'[u] = written
        BY <1>2, <1>6, <2>2 DEF TypeOK
      <3>2. /\ written.class = "qualification" /\ written.by = h
            /\ written.campaign = job[h][1]
        BY <1>4 DEF written
      <3>. QED  BY <1>1, <1>2, <2>1, <2>2, <3>1, <3>2 DEF TypeOK
    <2>3. CASE u # t
      <3>1. records'[u] = records[u]
        BY <1>6, <2>3 DEF TypeOK
      <3>2. records[u].by \in Host /\ pc[records[u].by] \notin Paid
        BY <3>1 DEF Signed, Record
      <3>3. records[u].by # h
        BY <1>1, <3>2
      <3>. QED  BY <2>1, <3>1, <3>2, <3>3 DEF Signed, TypeOK
    <2>. QED  BY <2>2, <2>3
  <1>. QED  BY <1>7, <1>8, <1>9, <1>10

-----------------------------------------------------------------------------
LEMMA StepInv == IInv /\ [Next]_vars => IInv'
  <1>. SUFFICES ASSUME IInv, [Next]_vars
                PROVE  IInv'
    OBVIOUS
  <1>1. ASSUME NEW h \in Host, NEW r \in Run, Start(h, r)
        PROVE  IInv'
    BY <1>1, StartInv
  <1>2. ASSUME NEW h \in Host, CheckCampaign(h)
        PROVE  IInv'
    <2>1. Goto(h, "fresh") \/ Goto(h, "done")
      BY <1>2 DEF CheckCampaign
    <2>. QED  BY <1>2, <2>1, MoveInv DEF CheckCampaign, files, plane, IInv, TypeOK
  <1>3. ASSUME NEW h \in Host, CheckFresh(h)
        PROVE  IInv'
    <2>1. Goto(h, "proxy") \/ Goto(h, "done")
      BY <1>3 DEF CheckFresh
    <2>. QED  BY <1>3, <2>1, MoveInv DEF CheckFresh, files, plane, IInv, TypeOK
  <1>4. ASSUME NEW h \in Host, OpenProxy(h)
        PROVE  IInv'
    BY <1>4, MoveInv DEF OpenProxy, files, plane, IInv, TypeOK
  <1>5. ASSUME NEW h \in Host, Prepare(h)
        PROVE  IInv'
    BY <1>5, MoveInv DEF Prepare, files, plane, IInv, TypeOK
  <1>6. ASSUME NEW h \in Host, Answered(h) \/ Unanswered(h)
        PROVE  IInv'
    BY <1>6, AnsweredInv, UnansweredInv
  <1>7. ASSUME NEW h \in Host, RunAgent(h)
        PROVE  IInv'
    <2>1. sound' \in [Host -> BOOLEAN]
      BY <1>7 DEF RunAgent, IInv, TypeOK
    <2>2. Goto(h, "transcript") \/ Goto(h, "close")
      BY <1>7 DEF RunAgent
    <2>. QED  BY <1>7, <2>1, <2>2, MoveInv DEF RunAgent, files, plane, IInv, TypeOK
  <1>8. ASSUME NEW h \in Host, WriteTranscript(h)
        PROVE  IInv'
    <2>1. TrialOf(h) \in TrialId
      BY <1>8 DEF WriteTranscript, TrialOf, IInv, TypeOK, Registered
    <2>. QED  BY <1>8, <2>1, MoveInv DEF WriteTranscript, plane, IInv, TypeOK
  <1>9. ASSUME NEW h \in Host, CheckHead(h)
        PROVE  IInv'
    <2>1. Goto(h, "create") \/ Goto(h, "close")
      BY <1>9 DEF CheckHead
    <2>. QED  BY <1>9, <2>1, MoveInv DEF CheckHead, files, plane, IInv, TypeOK
  <1>10. ASSUME NEW h \in Host, CreateRecord(h) \/ WriteRecord(h)
         PROVE  IInv'
    BY <1>10, CreateInv, WriteInv
  <1>11. ASSUME NEW h \in Host, CloseProxy(h)
         PROVE  IInv'
    BY <1>11, MoveInv DEF CloseProxy, files, plane, IInv, TypeOK
  <1>12. ASSUME NEW h \in Host, Crash(h)
         PROVE  IInv'
    BY <1>12, MoveInv DEF Crash, files, plane, IInv, TypeOK
  <1>13. ASSUME NEW r \in Run, FirstEvent(r)
         PROVE  IInv'
    BY <1>13, FirstEventInv
  <1>14. ASSUME NEW r \in Revision, MoveHead(r)
         PROVE  IInv'
    <2>. USE <1>14 DEF MoveHead, files, plane, IInv
    <2>1. TypeOK'
      BY DEF TypeOK
    <2>2. Registered' /\ Alone' /\ Signed'
      BY DEF Registered, Alone, Signed
    <2>. QED  BY <2>1, <2>2
  <1>15. CASE UNCHANGED vars
    <2>. USE <1>15 DEF vars, files, plane, IInv
    <2>1. TypeOK'
      BY DEF TypeOK
    <2>2. Registered' /\ Alone' /\ Signed'
      BY DEF Registered, Alone, Signed
    <2>. QED  BY <2>1, <2>2
  <1>. QED
    BY <1>1, <1>2, <1>3, <1>4, <1>5, <1>6, <1>7, <1>8, <1>9, <1>10, <1>11,
       <1>12, <1>13, <1>14, <1>15 DEF Next

LEMMA Invariant == Spec => []IInv
  BY InitInv, StepInv, PTL DEF Spec

\* The files, the plane and every process keep their types: in particular a
\* record file is absent, torn or a complete record, whoever wrote it.
THEOREM TypeCorrect == Spec => []TypeOK
  <1>1. IInv => TypeOK
    BY DEF IInv
  <1>. QED  BY <1>1, Invariant, PTL

\* A complete record names the class the plane stamps on the run's evidence,
\* and one that counts as qualification is about a qualification run.
THEOREM Truthful == Spec => []RecordsTruthful
  <1>1. IInv => RecordsTruthful
    <2>. SUFFICES ASSUME IInv, NEW t \in TrialId, records[t] \in Record
                  PROVE  /\ records[t].class = Stamps(<<records[t].campaign, t>>)
                         /\ records[t].eligible => records[t].class = "qualification"
      BY DEF RecordsTruthful
    <2>1. /\ records[t].class = "qualification"
          /\ records[t].by \in Host
          /\ job[records[t].by] = <<records[t].campaign, t>>
          /\ registry[records[t].by] = "plane"
      BY DEF IInv, Signed, Record
    <2>2. planeRuns[<<records[t].campaign, t>>] = "qualification"
      BY <2>1 DEF IInv, Registered
    <2>. QED  BY <2>1, <2>2, NoneIsDistinct DEF Stamps
  <1>. QED  BY <1>1, Invariant, PTL

\* However many processes are started for a run, only one has its registration
\* confirmed or runs an agent for it.
THEOREM OneAgent == Spec => []OneAgentPerRun
  <1>1. IInv => OneAgentPerRun
    BY DEF IInv, Registered, Alone, OneAgentPerRun
  <1>. QED  BY <1>1, Invariant, PTL

\* With one campaign per directory a complete record is never touched again:
\* a process about to write the file would be registered for the same run.
THEOREM Final ==
    ASSUME \A c, d \in Campaign : c = d
    PROVE  Spec => RecordsFinal
  <1>1. IInv /\ [Next]_vars =>
          [\A t \in TrialId : records[t] \in Record => records'[t] = records[t]]_records
    <2>. SUFFICES ASSUME IInv, Next, NEW t \in TrialId, records[t] \in Record,
                         records'[t] # records[t]
                  PROVE  FALSE
      BY DEF vars, files
    <2>1. PICK h \in Host : CreateRecord(h) \/ WriteRecord(h)
      BY DEF Next, Start, CheckCampaign, CheckFresh, OpenProxy, Prepare, Answered,
             Unanswered, RunAgent, WriteTranscript, CheckHead, CloseProxy, Crash,
             FirstEvent, MoveHead, files
    <2>2. /\ pc[h] \in Paid /\ registry[h] = "plane" /\ job[h] \in Run
          /\ TrialOf(h) = t
      BY <2>1 DEF CreateRecord, WriteRecord, IInv, TypeOK, Registered
    <2>3. /\ records[t].by \in Host /\ records[t].campaign \in Campaign
          /\ job[records[t].by] = <<records[t].campaign, t>>
          /\ registry[records[t].by] = "plane"
          /\ pc[records[t].by] \notin Paid
      BY DEF IInv, Signed, Record
    <2>4. job[h] = job[records[t].by]
      BY <2>2, <2>3 DEF TrialOf
    <2>. QED  BY <2>2, <2>3, <2>4 DEF IInv, Alone
  <1>. QED  BY <1>1, Invariant, PTL DEF Spec, RecordsFinal

-----------------------------------------------------------------------------
(***************************************************************************)
(* Where the ladder stands while there is no result: not begun, waiting to *)
(* escalate, or waiting to settle; and what a result leaves behind.        *)
(***************************************************************************)
NotBegun ==
    /\ termAt = Unset /\ killAt = Unset
    /\ due["timer"] = Timeout
    /\ due["escalation"] = Unset /\ due["settlement"] = Unset

Escalating ==
    /\ termAt \in 0 .. Timeout /\ killAt = Unset
    /\ due["escalation"] = termAt + Grace /\ due["settlement"] = Unset
    /\ now <= termAt + Grace

Settling ==
    /\ termAt \in 0 .. Timeout /\ killAt = termAt + Grace
    /\ due["escalation"] = Unset /\ due["settlement"] = killAt + Grace
    /\ now <= killAt + Grace

TimerSet == due["timer"] # Unset => due["timer"] = Timeout /\ now <= Timeout

Reported ==
    /\ \A t \in Timer : due[t] = Unset
    /\ termAt # Unset \/ closed \/ child = "failed"
    /\ now <= Timeout + 2 * Grace

Ladder ==
    IF result = Unset THEN TimerSet /\ (NotBegun \/ Escalating \/ Settling)
                     ELSE Reported

ProcessInv == ProcessTypeOK /\ Ladder

USE DEF Timer, Stream, Exit

-----------------------------------------------------------------------------
\* Finishing resolves the promise with a result, or leaves everything alone.
LEMMA FinishType ==
    ASSUME ProcessTypeOK, NEW e \in Exit \union {"none"},
           NEW w \in {"none", "spawn", "overflow"}, Finish(e, w)
    PROVE  /\ result' \in Result \union {Unset}
           /\ result' # Unset
           /\ due' \in [Timer -> Nat \union {Unset}]
           /\ result = Unset => \A t \in Timer : due'[t] = Unset
  <1>1. CASE result # Unset
    BY <1>1 DEF Finish, ProcessTypeOK
  <1>2. CASE result = Unset
    <2>1. [ending |-> e, timedOut |-> timedOut, error |-> w, kept |-> kept] \in Result
      BY DEF ProcessTypeOK, Result
    <2>. QED  BY <1>2, <2>1, UnsetIsNoResult DEF Finish
  <1>. QED  BY <1>1, <1>2

\* Reports are final: no event that arrives later changes what was reported.
LEMMA ResultStays ==
    ASSUME ProcessNext, result # Unset
    PROVE  result' = result
  BY DEF ProcessNext, Tick, HostStep, TimeoutFires, EscalationFires, SettlementFires,
         SpawnError, Close, Data, Spawned, DescendantStarts, DescendantEnds,
         Exits, Becomes, Finish

-----------------------------------------------------------------------------
LEMMA ProcessStart == ProcessInit => ProcessInv
  <1>. SUFFICES ASSUME ProcessInit PROVE ProcessInv
    OBVIOUS
  <1>1. ProcessTypeOK
    BY TrialAssumption DEF ProcessInit, ProcessTypeOK
  <1>2. Ladder
    BY TrialAssumption DEF ProcessInit, Ladder, TimerSet, NotBegun
  <1>. QED  BY <1>1, <1>2 DEF ProcessInv

\* Stopping the child begins the ladder, or finds it begun.
LEMMA TerminateLadder ==
    ASSUME ProcessInv, result = Unset, UNCHANGED <<now, killAt, result>>,
           NEW rest, rest \in {due, Fired("timer")}, Terminate(rest),
           termAt # Unset \/ now <= Timeout
    PROVE  /\ Ladder'
           /\ due' \in [Timer -> Nat \union {Unset}]
           /\ termAt' \in Nat \union {Unset}
  <1>. USE TrialAssumption DEF ProcessInv, ProcessTypeOK
  <1>1. /\ rest \in [Timer -> Nat \union {Unset}]
        /\ rest["escalation"] = due["escalation"]
        /\ rest["settlement"] = due["settlement"]
        /\ rest["timer"] \in {Unset, due["timer"]}
    BY DEF Fired
  <1>2. CASE termAt # Unset
    <2>1. due' = rest /\ termAt' = termAt
      BY <1>2 DEF Terminate
    <2>2. (Escalating \/ Settling) /\ TimerSet
      BY <1>2 DEF Ladder, NotBegun
    <2>3. TimerSet'
      BY <1>1, <2>1, <2>2 DEF TimerSet
    <2>4. Escalating' \/ Settling'
      BY <1>1, <2>1, <2>2 DEF Escalating, Settling
    <2>. QED  BY <1>1, <2>1, <2>3, <2>4 DEF Ladder
  <1>3. CASE termAt = Unset
    <2>1. termAt' = now /\ due' = [rest EXCEPT !["escalation"] = now + Grace]
      BY <1>3 DEF Terminate
    <2>2. /\ due' \in [Timer -> Nat \union {Unset}]
          /\ due'["escalation"] = now + Grace
          /\ due'["settlement"] = Unset
          /\ due'["timer"] \in {Unset, due["timer"]}
      BY <1>1, <1>3, <2>1 DEF Ladder, NotBegun, Escalating, Settling
    <2>3. Escalating'
      BY <1>3, <2>1, <2>2 DEF Ladder, NotBegun, Escalating, Settling
    <2>4. TimerSet'
      BY <2>2 DEF Ladder, TimerSet
    <2>. QED  BY <2>1, <2>2, <2>3, <2>4 DEF Ladder
  <1>. QED  BY <1>2, <1>3

\* While the ladder runs, the bound is kept.
LEMMA LadderInTime ==
    ASSUME ProcessInv
    PROVE  now <= Timeout + 2 * Grace
  BY TrialAssumption DEF ProcessInv, ProcessTypeOK, Ladder, TimerSet, NotBegun, Escalating,
     Settling, Reported

\* Reporting ends the ladder.
LEMMA FinishLadder ==
    ASSUME ProcessInv, UNCHANGED <<now, termAt>>,
           NEW e \in Exit \union {"none"}, NEW w \in {"none", "spawn", "overflow"},
           Finish(e, w), termAt # Unset \/ closed' \/ child' = "failed"
    PROVE  Ladder'
  <1>1. result' # Unset /\ \A t \in Timer : due'[t] = Unset
    <2>1. CASE result = Unset
      BY <2>1, FinishType DEF ProcessInv
    <2>2. CASE result # Unset
      BY <2>2 DEF ProcessInv, Ladder, Reported, Finish
    <2>. QED  BY <2>1, <2>2
  <1>2. now' <= Timeout + 2 * Grace
    BY LadderInTime
  <1>. QED  BY <1>1, <1>2 DEF Ladder, Reported

-----------------------------------------------------------------------------
\* Timers: time stops at the next one that is due.
LEMMA TickInv ==
    ASSUME ProcessInv, Tick
    PROVE  ProcessInv'
  <1>. USE TrialAssumption DEF ProcessInv, ProcessTypeOK, Tick, process, output
  <1>1. ProcessTypeOK'
    OBVIOUS
  <1>2. TimerSet /\ (NotBegun \/ Escalating \/ Settling)
    BY DEF Ladder
  <1>3. TimerSet'
    BY <1>2 DEF TimerSet
  <1>4. NotBegun' \/ Escalating' \/ Settling'
    BY <1>2 DEF NotBegun, Escalating, Settling
  <1>. QED  BY <1>1, <1>3, <1>4 DEF Ladder

LEMMA TimeoutInv ==
    ASSUME ProcessInv, TimeoutFires
    PROVE  ProcessInv'
  <1>. USE TrialAssumption DEF ProcessInv, ProcessTypeOK, TimeoutFires, process, output
  <1>1. result = Unset /\ now <= Timeout
    BY DEF Ladder, Reported, TimerSet
  <1>2. /\ Ladder'
        /\ due' \in [Timer -> Nat \union {Unset}]
        /\ termAt' \in Nat \union {Unset}
    BY <1>1, TerminateLadder
  <1>3. ProcessTypeOK'
    BY <1>2
  <1>. QED  BY <1>2, <1>3

LEMMA EscalationInv ==
    ASSUME ProcessInv, EscalationFires
    PROVE  ProcessInv'
  <1>. USE TrialAssumption DEF ProcessInv, ProcessTypeOK, EscalationFires, process, output, Fired
  <1>1. result = Unset /\ Escalating /\ TimerSet
    BY DEF Ladder, Reported, NotBegun, Settling
  <1>2. ProcessTypeOK'
    OBVIOUS
  <1>3. TimerSet'
    BY <1>1 DEF TimerSet
  <1>4. Settling'
    BY <1>1 DEF Escalating, Settling
  <1>. QED  BY <1>1, <1>2, <1>3, <1>4 DEF Ladder

LEMMA SettlementInv ==
    ASSUME ProcessInv, SettlementFires
    PROVE  ProcessInv'
  <1>. USE TrialAssumption DEF ProcessInv, SettlementFires, process, output
  <1>1. error \in {"none", "spawn", "overflow"} /\ "SIGKILL" \in Exit
    BY DEF ProcessTypeOK
  <1>2. termAt # Unset
    BY DEF ProcessTypeOK, Ladder, Reported, NotBegun, Escalating, Settling
  <1>3. Ladder'
    BY <1>1, <1>2, FinishLadder
  <1>4. ProcessTypeOK'
    BY <1>1, FinishType DEF ProcessTypeOK
  <1>. QED  BY <1>3, <1>4

-----------------------------------------------------------------------------
\* Events of the child.
LEMMA SpawnErrorInv ==
    ASSUME ProcessInv, SpawnError
    PROVE  ProcessInv'
  <1>. USE DEF ProcessInv, SpawnError, process, output
  <1>1. Ladder'
    BY FinishLadder
  <1>2. ProcessTypeOK'
    BY FinishType DEF ProcessTypeOK
  <1>. QED  BY <1>1, <1>2

LEMMA CloseInv ==
    ASSUME ProcessInv, Close
    PROVE  ProcessInv'
  <1>. USE DEF ProcessInv, Close, process, output
  <1>. DEFINE e == IF child = "failed" THEN "none" ELSE child
  <1>1. e \in Exit \union {"none"} /\ error \in {"none", "spawn", "overflow"}
    BY DEF ProcessTypeOK
  <1>2. Finish(e, error)
    OBVIOUS
  <1>. HIDE DEF e
  <1>3. Ladder'
    BY <1>1, <1>2, FinishLadder
  <1>4. ProcessTypeOK'
    BY <1>1, <1>2, FinishType DEF ProcessTypeOK
  <1>. QED  BY <1>3, <1>4

LEMMA DataInv ==
    ASSUME ProcessInv, NEW s \in Stream, NEW n \in 1 .. MaxChunk, Data(s, n)
    PROVE  ProcessInv'
  <1>. USE TrialAssumption DEF ProcessInv, Data, process, output
  <1>0. n \in Nat
    OBVIOUS
  <1>1. bytes' \in Nat /\ kept' \in [Stream -> Nat] /\ lost' \subseteq Stream
    <2>1. bytes' \in Nat
      BY <1>0 DEF ProcessTypeOK
    <2>2. kept' \in [Stream -> Nat]
      BY <1>0 DEF ProcessTypeOK
    <2>3. lost' \subseteq Stream
      BY DEF ProcessTypeOK
    <2>. QED  BY <2>1, <2>2, <2>3
  <1>2. error' \in {"none", "spawn", "overflow"}
    BY DEF ProcessTypeOK
  <1>3. CASE bytes + n > MaxBuffer
    <2>1. Terminate(due)
      BY <1>3
    <2>2. CASE result = Unset
      <3>1. termAt # Unset \/ now <= Timeout
        BY <2>2 DEF ProcessTypeOK, Ladder, TimerSet, NotBegun, Escalating, Settling
      <3>2. /\ Ladder'
            /\ due' \in [Timer -> Nat \union {Unset}]
            /\ termAt' \in Nat \union {Unset}
        BY <2>1, <2>2, <3>1, TerminateLadder
      <3>. QED  BY <1>1, <1>2, <3>2 DEF ProcessTypeOK
    <2>3. CASE result # Unset
      <3>1. termAt # Unset
        BY <2>3 DEF Ladder, Reported
      <3>2. due' = due /\ termAt' = termAt
        BY <2>1, <3>1 DEF Terminate
      <3>. QED  BY <1>1, <1>2, <2>3, <3>1, <3>2 DEF ProcessTypeOK, Ladder, Reported
    <2>. QED  BY <2>2, <2>3
  <1>4. CASE ~(bytes + n > MaxBuffer)
    <2>1. UNCHANGED <<due, termAt, now, killAt, result, closed, child>>
      BY <1>4
    <2>2. Ladder'
      BY <2>1 DEF Ladder, TimerSet, NotBegun, Escalating, Settling, Reported
    <2>. QED  BY <1>1, <1>2, <1>4, <2>1, <2>2 DEF ProcessTypeOK
  <1>. QED  BY <1>3, <1>4

\* What the child does by itself leaves the ladder alone.
LEMMA ChildInv ==
    ASSUME ProcessInv, NEW c \in {"spawning", "running", "failed"} \union Exit, NEW held \in BOOLEAN,
           child = "failed" => c = "failed", Becomes(c, held)
    PROVE  ProcessInv'
  BY DEF ProcessInv, ProcessTypeOK, Ladder, TimerSet, NotBegun, Escalating, Settling, Reported,
         Becomes, output

LEMMA StutterInv ==
    ASSUME ProcessInv, UNCHANGED processVars
    PROVE  ProcessInv'
  BY DEF ProcessInv, ProcessTypeOK, Ladder, TimerSet, NotBegun, Escalating, Settling, Reported,
         processVars, process, output

-----------------------------------------------------------------------------
\* ProcessInv is inductive: one lemma per event.
LEMMA ProcessStep ==
    ASSUME ProcessInv, [ProcessNext]_processVars
    PROVE  ProcessInv'
  <1>1. CASE Tick
    BY <1>1, TickInv
  <1>2. CASE HostStep
    BY <1>2, TimeoutInv, EscalationInv, SettlementInv DEF HostStep
  <1>3. CASE SpawnError
    BY <1>3, SpawnErrorInv
  <1>4. CASE Close
    BY <1>4, CloseInv
  <1>5. CASE \E s \in Stream, n \in 1 .. MaxChunk : Data(s, n)
    BY <1>5, DataInv
  <1>6. CASE Spawned
    BY <1>6, ChildInv DEF Spawned
  <1>7. CASE DescendantStarts
    BY <1>7, ChildInv DEF DescendantStarts
  <1>8. CASE DescendantEnds
    BY <1>8, ChildInv DEF DescendantEnds, ProcessInv, ProcessTypeOK
  <1>9. CASE \E how \in Exit : Exits(how)
    BY <1>9, ChildInv DEF Exits, ProcessInv, ProcessTypeOK
  <1>10. CASE UNCHANGED processVars
    BY <1>10, StutterInv
  <1>. QED
    BY <1>1, <1>2, <1>3, <1>4, <1>5, <1>6, <1>7, <1>8, <1>9, <1>10 DEF ProcessNext

(***************************************************************************)
(* Type correctness of the supervisor.                                     *)
(***************************************************************************)
THEOREM ProcessTypes == ProcessSpec => []ProcessTypeOK
  <1>1. ProcessInit => ProcessInv
    BY ProcessStart
  <1>2. ProcessInv /\ [ProcessNext]_processVars => ProcessInv'
    BY ProcessStep
  <1>3. ProcessInv => ProcessTypeOK
    BY DEF ProcessInv
  <1>. QED  BY <1>1, <1>2, <1>3, PTL DEF ProcessSpec

(***************************************************************************)
(* A trial takes no longer than its timeout and two graces, whatever the   *)
(* child, its descendants and its output do.                               *)
(***************************************************************************)
THEOREM EndsInTime == ProcessSpec => []WithinBound
  <1>1. ProcessInit => ProcessInv
    BY ProcessStart
  <1>2. ProcessInv /\ [ProcessNext]_processVars => ProcessInv'
    BY ProcessStep
  <1>3. ProcessInv => WithinBound
    BY LadderInTime DEF WithinBound
  <1>. QED  BY <1>1, <1>2, <1>3, PTL DEF ProcessSpec

(***************************************************************************)
(* What was reported of a trial is never reported otherwise.               *)
(***************************************************************************)
THEOREM ReportsOnce == ProcessSpec => ResultFinal
  <1>1. [ProcessNext]_processVars => [result # Unset => result' = result]_processVars
    BY ResultStays
  <1>. QED  BY <1>1, PTL DEF ProcessSpec, ResultFinal

(***************************************************************************)
(* The child is sent one SIGTERM and one SIGKILL, a grace apart, and none  *)
(* after the report.                                                       *)
(***************************************************************************)
THEOREM OneLadderOnly == ProcessSpec => OneLadder
  <1>. DEFINE Once ==
         /\ termAt # Unset => termAt' = termAt
         /\ killAt # Unset => killAt' = killAt
         /\ killAt' # killAt => /\ termAt # Unset
                                /\ now >= termAt + Grace
                                /\ result = Unset
         /\ termAt' # termAt => result = Unset
  <1>1. ASSUME ProcessInv, ProcessNext PROVE Once
    <2>. USE TrialAssumption DEF ProcessInv, ProcessTypeOK
    <2>1. CASE TimeoutFires
      BY <1>1, <2>1 DEF TimeoutFires, Terminate, Ladder, Reported
    <2>2. CASE EscalationFires
      BY <1>1, <2>2 DEF EscalationFires, Ladder, Reported, NotBegun, Escalating, Settling
    <2>3. CASE SettlementFires \/ SpawnError \/ Close \/ Tick
      BY <2>3 DEF SettlementFires, SpawnError, Close, Tick
    <2>4. CASE \E s \in Stream, n \in 1 .. MaxChunk : Data(s, n)
      BY <1>1, <2>4 DEF Data, Terminate, Ladder, Reported
    <2>5. CASE \/ Spawned \/ DescendantStarts \/ DescendantEnds
               \/ \E how \in Exit : Exits(how)
      BY <2>5 DEF Spawned, DescendantStarts, DescendantEnds, Exits, Becomes
    <2>. QED  BY <1>1, <2>1, <2>2, <2>3, <2>4, <2>5 DEF ProcessNext, HostStep
  <1>2. ProcessInit => ProcessInv
    BY ProcessStart
  <1>3. ProcessInv /\ [ProcessNext]_processVars => ProcessInv'
    BY ProcessStep
  <1>4. ProcessInv /\ [ProcessNext]_processVars => [Once]_processVars
    BY <1>1
  <1>. QED  BY <1>2, <1>3, <1>4, PTL DEF ProcessSpec, OneLadder

-----------------------------------------------------------------------------
(***************************************************************************)
(* Output: what is kept is all that was counted until the limit is passed, *)
(* and nothing is kept after that.                                         *)
(***************************************************************************)
Counted ==
    /\ kept["stdout"] + kept["stderr"] <= MaxBuffer
    /\ bytes <= MaxBuffer => kept["stdout"] + kept["stderr"] = bytes
    /\ lost # {} => bytes > MaxBuffer

LEMMA CountedNext == ProcessTypeOK /\ Counted /\ [ProcessNext]_processVars => Counted'
  <1>. SUFFICES ASSUME ProcessTypeOK, Counted, [ProcessNext]_processVars PROVE Counted'
    OBVIOUS
  <1>. USE TrialAssumption DEF ProcessTypeOK, Counted
  <1>1. CASE UNCHANGED output
    BY <1>1 DEF output
  <1>2. ASSUME NEW s \in Stream, NEW n \in 1 .. MaxChunk, Data(s, n) PROVE Counted'
    <2>1. CASE bytes + n > MaxBuffer
      BY <1>2, <2>1 DEF Data
    <2>2. CASE ~(bytes + n > MaxBuffer)
      <3>1. kept' = [kept EXCEPT ![s] = @ + n] /\ bytes' = bytes + n /\ lost' = lost
        BY <1>2, <2>2 DEF Data
      <3>2. kept'["stdout"] + kept'["stderr"] = kept["stdout"] + kept["stderr"] + n
        <4>1. CASE s = "stdout"
          BY <3>1, <4>1
        <4>2. CASE s = "stderr"
          BY <3>1, <4>2
        <4>. QED  BY <4>1, <4>2
      <3>. QED  BY <2>2, <3>1, <3>2
    <2>. QED  BY <2>1, <2>2
  <1>3. CASE \/ Tick \/ HostStep \/ SpawnError \/ Close \/ Spawned \/ DescendantStarts
             \/ DescendantEnds \/ (\E how \in Exit : Exits(how)) \/ UNCHANGED processVars
    <2>1. UNCHANGED output
      BY <1>3 DEF Tick, HostStep, TimeoutFires, EscalationFires, SettlementFires, SpawnError,
                  Close, Spawned, DescendantStarts, DescendantEnds, Exits, Becomes, processVars
    <2>. QED  BY <1>1, <2>1
  <1>. QED  BY <1>2, <1>3 DEF ProcessNext

(***************************************************************************)
(* What is kept of a stream is a beginning of what was written to it, and  *)
(* the two together fit the limit.                                         *)
(***************************************************************************)
THEOREM Prefix == ProcessSpec => OutputIsPrefix
  <1>. DEFINE Kept == /\ \A s \in lost : kept'[s] = kept[s]
                      /\ kept'["stdout"] + kept'["stderr"] <= MaxBuffer
  <1>1. ProcessInit => ProcessTypeOK /\ Counted
    BY ProcessStart, TrialAssumption DEF ProcessInv, ProcessInit, Counted
  <1>2. ProcessTypeOK /\ Counted /\ [ProcessNext]_processVars => [Kept]_processVars
    <2>. SUFFICES ASSUME ProcessTypeOK, Counted, [ProcessNext]_processVars PROVE Kept
      OBVIOUS
    <2>1. kept'["stdout"] + kept'["stderr"] <= MaxBuffer
      BY CountedNext DEF Counted
    <2>2. ASSUME lost # {} PROVE kept' = kept
      BY <2>2, TrialAssumption DEF ProcessTypeOK, Counted, ProcessNext, Data, Tick, HostStep, TimeoutFires,
         EscalationFires, SettlementFires, SpawnError, Close, Spawned, DescendantStarts,
         DescendantEnds, Exits, Becomes, processVars, output
    <2>. QED  BY <2>1, <2>2
  <1>. QED  BY <1>1, <1>2, CountedNext, ProcessTypes, PTL DEF ProcessSpec, OutputIsPrefix

-----------------------------------------------------------------------------
(***************************************************************************)
(* A trial nobody stopped: every failure the host noticed stopped it, so   *)
(* its report was made at `close`, after which nothing is written.         *)
(***************************************************************************)
Unstopped ==
    /\ error = "overflow" \/ timedOut => termAt # Unset
    /\ error = "spawn" => child = "failed"
    /\ result # Unset /\ termAt = Unset /\ child # "failed" => closed /\ child \in Exit

Ordinary == OrdinaryExitExact /\ Unstopped

\* Stopping is for good, and begins at the latest when it is asked for.
LEMMA TerminateStops ==
    ASSUME ProcessTypeOK, NEW rest, Terminate(rest)
    PROVE  termAt' # Unset /\ (termAt # Unset => termAt' = termAt)
  BY TrialAssumption DEF ProcessTypeOK, Terminate

LEMMA OrdinaryNext == ProcessInv /\ Ordinary /\ [ProcessNext]_processVars => Ordinary'
  <1>. SUFFICES ASSUME ProcessInv, Ordinary, [ProcessNext]_processVars PROVE Ordinary'
    OBVIOUS
  <1>0. ProcessTypeOK /\ OrdinaryExitExact /\ Unstopped
    BY DEF ProcessInv, Ordinary
  <1>1. CASE TimeoutFires
    <2>1. termAt' # Unset /\ UNCHANGED <<process, error, output, result>>
      BY <1>0, <1>1, TerminateStops DEF TimeoutFires
    <2>. QED  BY <1>0, <2>1 DEF Ordinary, OrdinaryExitExact, Unstopped, process, output
  <1>2. CASE EscalationFires \/ Tick
    BY <1>0, <1>2 DEF EscalationFires, Tick, Ordinary, OrdinaryExitExact, Unstopped, process, output
  <1>3. CASE SettlementFires
    <2>1. termAt # Unset
      BY <1>3, TrialAssumption DEF SettlementFires, ProcessInv, ProcessTypeOK, Ladder, NotBegun, Escalating,
                                   Settling, Reported
    <2>2. UNCHANGED <<process, termAt, timedOut, error, output>>
      BY <1>3 DEF SettlementFires
    <2>. QED  BY <1>0, <2>1, <2>2 DEF Ordinary, OrdinaryExitExact, Unstopped, process
  <1>4. CASE SpawnError
    BY <1>0, <1>4 DEF SpawnError, Ordinary, OrdinaryExitExact, Unstopped
  <1>5. ASSUME NEW s \in Stream, NEW n \in 1 .. MaxChunk, Data(s, n) PROVE Ordinary'
    <2>1. ~closed /\ child # "failed" /\ UNCHANGED <<process, timedOut, result>>
      BY <1>5 DEF Data
    <2>2. result = Unset \/ termAt # Unset
      BY <1>0, <2>1 DEF Unstopped
    <2>3. termAt # Unset => termAt' # Unset
      BY <1>0, <1>5, TerminateStops DEF Data
    <2>4. \/ error' = error
          \/ error' \in {error, "overflow"} /\ termAt' # Unset
      BY <1>0, <1>5, TerminateStops DEF Data
    <2>. QED  BY <1>0, <2>1, <2>2, <2>3, <2>4
                 DEF Ordinary, OrdinaryExitExact, Unstopped, process
  <1>6. CASE Close
    <2>1. /\ ~closed /\ closed' /\ child \in Exit \union {"failed"}
          /\ UNCHANGED <<child, termAt, timedOut, error, output>>
      BY <1>6 DEF Close
    <2>2. CASE termAt # Unset \/ child = "failed"
      BY <1>0, <2>1, <2>2 DEF Ordinary, OrdinaryExitExact, Unstopped
    <2>3. CASE termAt = Unset /\ child # "failed"
      <3>1. result = Unset /\ error = "none" /\ ~timedOut
        BY <1>0, <2>1, <2>3 DEF Unstopped, ProcessTypeOK
      <3>2. result' = [ending |-> child, timedOut |-> timedOut, error |-> error, kept |-> kept]
        BY <1>6, <2>3, <3>1 DEF Close, Finish
      <3>3. OrdinaryExitExact'
        BY <2>1, <3>1, <3>2 DEF OrdinaryExitExact, output
      <3>4. Unstopped'
        BY <1>0, <2>1, <2>3, <3>1 DEF Unstopped
      <3>. QED  BY <3>3, <3>4 DEF Ordinary
    <2>. QED  BY <2>2, <2>3
  <1>7. CASE Spawned \/ DescendantStarts \/ \E how \in Exit : Exits(how)
    <2>1. /\ child \in {"spawning", "running"} /\ child' # "failed"
          /\ UNCHANGED <<closed, termAt, timedOut, error, output, result>>
      BY <1>7 DEF Spawned, DescendantStarts, Exits, Becomes
    <2>2. (result = Unset \/ termAt # Unset) /\ error # "spawn"
      BY <1>0, <2>1 DEF Unstopped
    <2>. QED  BY <1>0, <2>1, <2>2 DEF Ordinary, OrdinaryExitExact, Unstopped
  <1>8. CASE DescendantEnds
    BY <1>0, <1>8 DEF DescendantEnds, Becomes, Ordinary, OrdinaryExitExact, Unstopped, output
  <1>9. CASE UNCHANGED processVars
    BY <1>0, <1>9 DEF processVars, process, output, Ordinary, OrdinaryExitExact, Unstopped
  <1>. QED  BY <1>1, <1>2, <1>3, <1>4, <1>5, <1>6, <1>7, <1>8, <1>9 DEF ProcessNext, HostStep

(***************************************************************************)
(* A trial nobody stopped is reported exactly: its own exit, and all it    *)
(* ever wrote.                                                             *)
(***************************************************************************)
THEOREM ExactWhenOrdinary == ProcessSpec => []OrdinaryExitExact
  <1>1. ProcessInit => ProcessInv /\ Ordinary
    BY ProcessStart DEF ProcessInit, Ordinary, OrdinaryExitExact, Unstopped
  <1>2. ProcessInv /\ Ordinary /\ [ProcessNext]_processVars => (ProcessInv /\ Ordinary)'
    BY ProcessStep, OrdinaryNext
  <1>3. Ordinary => OrdinaryExitExact
    BY DEF Ordinary
  <1>. QED  BY <1>1, <1>2, <1>3, PTL DEF ProcessSpec
=============================================================================
