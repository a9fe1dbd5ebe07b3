----------------------------- MODULE Stage3Gate -----------------------------
(***************************************************************************)
(* One Stage 3 campaign: the trial processes of its matrix                 *)
(* (stage3-cli.ts), each of which runs an agent for money and leaves one   *)
(* record, and the report that reads the records and states the verdict    *)
(* (stage3-campaign-report-cli.ts).  While they run somebody may commit,   *)
(* rebuild the knowledge index, or kill them.  How a trial registers with  *)
(* the plane is QualificationTrial's subject; here it succeeds or the      *)
(* trial ends.                                                             *)
(***************************************************************************)
EXTENDS TrialJudgement

CONSTANTS
    Primary, Hard,         \* the two task banks
    MinTasks, MinPerTask,  \* T1: 3 and 2
    Repeats,               \* trials of a task and arm in the matrix: 2
    Trials,                \* the trials somebody may run
    Expected,              \* the profile of the machine the report is made on
    Commit, Digest,
    Shows,                 \* what a trial shows, under names for it
    Usual,                 \* the name of what happens in all but MaxOdd trials
    MaxOdd, MaxMoves,      \* bounds: unusual trials; commits and rebuilds
    Torn

ASSUME TrialsAreTrials ==
    Trials \subseteq [task : Primary \union Hard, arm : {"eos", "native"}, n : Nat]
\* The rows ask for no less than the matrix holds: the three tasks, twice each.
ASSUME RowsAskForTheMatrix ==
    /\ IsFiniteSet(Trials) /\ IsFiniteSet(Primary)
    /\ {MinTasks, MinPerTask, Repeats} \subseteq Nat
    /\ Cardinality(Primary) <= MinTasks /\ Repeats <= MinPerTask
ASSUME ShowsSights == Shows \in [DOMAIN Shows -> Sight] /\ Usual \in DOMAIN Shows

VARIABLES
    head,    \* the commit checked out
    index,   \* digest of knowledge.sqlite, None while there is none
    moves,   \* how often either changed
    pc, job, \* the trial processes
    record,  \* the campaign's directory
    report

vars == <<head, index, moves, pc, job, record, report>>

NoJob == [revision |-> None, digest |-> None, ranAt |-> None, served |-> None, saw |-> None]

Init ==
    /\ head \in Commit /\ index \in Digest /\ moves = 0
    /\ pc = [t \in Trials |-> "idle"]
    /\ job = [t \in Trials |-> NoJob]
    /\ record = [t \in Trials |-> None]
    /\ report = [pc |-> "idle"]

Goto(t, where) == pc' = [pc EXCEPT ![t] = where]
Recorded == {t \in Trials : record[t] # None}
Unusual == {t \in Trials : job[t].saw \notin {None, Usual}}

-----------------------------------------------------------------------------

\* HEAD and the index are read once; the campaign so far must be readable and of
\* the same revision.  What the process prepares, the plane's confirmation
\* included, stands or the process dies.
Launch(t) ==
    /\ pc[t] = "idle" /\ record[t] = None
    /\ index # None
    /\ \A o \in Recorded : record[o] # Torn /\ record[o].revision = head
    /\ job' = [job EXCEPT ![t].revision = head, ![t].digest = index]
    /\ Goto(t, "ready")
    /\ UNCHANGED <<head, index, moves, record, report>>

\* The agent's MCP server opens the index for itself.
AgentStarts(t) ==
    /\ pc[t] = "ready"
    /\ \E s \in DOMAIN Shows :
          /\ s = Usual \/ Cardinality(Unusual) < MaxOdd
          /\ job' = [job EXCEPT ![t].ranAt = head, ![t].served = index, ![t].saw = s]
    /\ Goto(t, "running")
    /\ UNCHANGED <<head, index, moves, record, report>>

\* Wrong variant: HEAD is not looked at again.
WriteRecordAnyway(t) ==
    /\ pc[t] = "running"
    /\ record' = [record EXCEPT
           ![t] = TrialRecord(t, job[t].revision, job[t].digest, Shows[job[t].saw])]
    /\ Goto(t, "done")
    /\ UNCHANGED <<head, index, moves, job, report>>

\* The agent has ended: what the second probe, the check, the grades and the
\* telemetry find is what job[t].saw shows.  If HEAD moved the process throws.
WriteRecord(t) ==
    /\ pc[t] = "running" /\ head = job[t].revision
    /\ record' = [record EXCEPT
           ![t] = TrialRecord(t, job[t].revision, job[t].digest, Shows[job[t].saw])]
    /\ Goto(t, "done")
    /\ UNCHANGED <<head, index, moves, job, report>>

\* Throws or is killed, while it writes its record too.
Dies(t) ==
    /\ pc[t] \in {"ready", "running"}
    /\ Goto(t, "dead")
    /\ job' = [job EXCEPT ![t] = NoJob]
    /\ record' \in {record} \union
          IF pc[t] = "running" /\ head = job[t].revision
            THEN {[record EXCEPT ![t] = Torn]} ELSE {}
    /\ UNCHANGED <<head, index, moves, report>>

CommitMoves(c) ==
    /\ moves < MaxMoves /\ c # head
    /\ head' = c /\ moves' = moves + 1
    /\ UNCHANGED <<index, pc, job, record, report>>

\* A rebuild removes the file and writes another.
IndexChanges(d) ==
    /\ moves < MaxMoves /\ d # index
    /\ index' = d /\ moves' = moves + 1
    /\ UNCHANGED <<head, pc, job, record, report>>

-----------------------------------------------------------------------------
(***************************************************************************)
(* The report.                                                             *)
(***************************************************************************)

\* True of all of them, and of one at least.
Every(claims) == claims = {TRUE}

AllRulesPassed(r) ==
    Every({v.status = "proven" : v \in {w \in r.verdicts : w.kind = "deterministic"}})

\* T1 to T9.  The primary bank's records carry no arm by now.
DeriveRows(records) ==
    LET graded == {r \in records : r.graded}
        first  == {r \in graded : r.trial.task \in Primary}
        tasks  == {r.trial.task : r \in first}
        of(k)  == {r \in first : r.trial.task = k}
    IN  [T1 |-> /\ Cardinality(tasks) >= MinTasks
                /\ Every({Cardinality(of(k)) >= MinPerTask : k \in tasks}),
         T2 |-> Every({AllRulesPassed(r) : r \in first}),
         T3 |-> Every({r.isolation /\ r.integrity : r \in graded}),
         T7 |-> Every({r.telemetry.state = "COMPLETE" /\ r.telemetry.eligible : r \in records}),
         T8 |-> Every({AllRulesPassed(r) : r \in first}),
         T9 |-> Every({r.budget = "within" : r \in graded})]

One(records, field) == {r[field] : r \in records}

\* The matrix: so many records of every task and arm, one revision, the current
\* one, one profile, one index, one model, each of them stated.
ValidateCampaign(records, current) ==
    LET of(task, arm) == {r \in records : r.trial.task = task /\ r.trial.arm = arm}
    IN  /\ One(records, "revision") = {current}
        /\ One(records, "profile") = {Expected}
        /\ \A field \in {"digest", "model"} :
              Cardinality(One(records, field)) = 1 /\ None \notin One(records, field)
        /\ \A task \in Primary : Cardinality(of(task, "eos")) = Repeats /\ of(task, "native") = {}
        /\ \A task \in Hard, arm \in {"eos", "native"} : Cardinality(of(task, arm)) = Repeats

Verdict(records, current) ==
    LET rows == DeriveRows(records)
    IN  IF ValidateCampaign(records, current) /\ \A id \in DOMAIN rows : rows[id]
          THEN "PASSED" ELSE "NOT PASSED"

ReportStarts ==
    /\ report.pc = "idle"
    /\ report' = [pc |-> "reading", current |-> head]
    /\ UNCHANGED <<head, index, moves, pc, job, record>>

\* A file that is not JSON ends the report, an empty directory does too.
ReportReads ==
    /\ report.pc = "reading"
    /\ LET records == {record[t] : t \in Recorded}
       IN  report' = IF Torn \in records \/ records = {} THEN [pc |-> "refused"]
                     ELSE [pc |-> "done", current |-> report.current, ran |-> Recorded,
                           verdict |-> Verdict(records, report.current)]
    /\ UNCHANGED <<head, index, moves, pc, job, record>>

Next ==
    \/ \E t \in Trials : \/ Launch(t) \/ AgentStarts(t)
                         \/ WriteRecord(t) \/ Dies(t)
    \/ \E c \in Commit : CommitMoves(c)
    \/ \E d \in Digest \union {None} : IndexChanges(d)
    \/ ReportStarts \/ ReportReads

Spec == Init /\ [][Next]_vars

-----------------------------------------------------------------------------
Done(t) == record[t] \notin {None, Torn}
Passed == report.pc = "done" /\ report.verdict = "PASSED"

TypeOK ==
    /\ head \in Commit /\ index \in Digest \union {None} /\ moves \in 0..MaxMoves
    /\ \A t \in Trials :
          /\ pc[t] \in {"idle", "ready", "running", "done", "dead"}
          /\ pc[t] = "done" => Done(t)
          /\ Done(t) => /\ record[t].revision \in Commit /\ record[t].digest \in Digest
                        /\ record[t].status \in Claim
                        /\ record[t].budget \in {"within", "over_budget", "aborted"}
          /\ record[t] # None => pc[t] \in {"done", "dead"}

\* The trial went as the gate demands of every trial of the primary bank.
WentWell(s) ==
    /\ s.ended = "success" /\ ~s.denied
    /\ \A r \in Rule : s.check[r] = "right"
    /\ s.wallClock <= WallClock /\ Len(s.calls) <= ToolCalls /\ s.cost <= Cost
    /\ s.row = "COMPLETE" /\ ~s.queued

(***************************************************************************)
(* stage3-rows.ts: T1, T2, T7, T9.  A PASSED campaign holds the whole      *)
(* matrix, each primary trial of which really finished, did everything the *)
(* hidden check looks for, kept its budget and delivered its telemetry;    *)
(* and of no trial at all is the telemetry lost.                           *)
(***************************************************************************)
PassedIsComplete ==
    Passed =>
        LET of(task, arm) == {t \in report.ran : t.task = task /\ t.arm = arm}
        IN  /\ \A task \in Primary : Cardinality(of(task, "eos")) = Repeats
            /\ \A task \in Hard, arm \in {"eos", "native"} :
                  Cardinality(of(task, arm)) = Repeats
            /\ \A t \in report.ran :
                  /\ Shows[job[t].saw].row = "COMPLETE" /\ ~Shows[job[t].saw].queued
                  /\ t.task \in Primary => WentWell(Shows[job[t].saw])

(***************************************************************************)
(* stage3-campaign-report-cli.ts: "one exact repository revision".  All    *)
(* trials of a PASSED campaign ran on the commit the report names and      *)
(* served the one index it names, unless HEAD left and came back, or the   *)
(* index was replaced, behind a running trial.                             *)
(***************************************************************************)
PassedIsOneExperiment ==
    Passed =>
        \A t \in report.ran :
            /\ job[t].revision = report.current
            /\ job[t].ranAt # report.current => moves >= 2
            /\ \A o \in report.ran :
                  /\ job[o].digest = job[t].digest
                  /\ job[o].served # job[t].served => moves >= 1

(***************************************************************************)
(* isolation.ts: "anything violated stays violated however many other      *)
(* probers were happy", and a trial is judged by both of its probes.  No   *)
(* record of a trial that could reach outside, before or after, or that    *)
(* held a token of the host, counts as qualification evidence; on Linux    *)
(* neither does one whose namespace left no report.                        *)
(***************************************************************************)
EscapeIsNotEvidence ==
    \A t \in Trials : Done(t) /\ record[t].eligible =>
        LET s == Shows[job[t].saw]
        IN  /\ ~s.linkBefore /\ ~s.linkAfter /\ ~s.secret
            /\ s.profile = "linux-namespace-v1" =>
                   /\ s.namespace # None
                   /\ ~s.namespace.deniedVisible /\ s.namespace.pid1
                   /\ s.namespace.controlRefused /\ s.namespace.socket = "mounted"

(***************************************************************************)
(* collect.ts: "pessimistic and conjunctive".  A trial whose status is     *)
(* proven ended in success, had no tool refused, was not aborted, counts   *)
(* as evidence, was right somewhere and wrong nowhere.  A rule nobody      *)
(* observed does not keep it from being proven: combineVerdicts drops it.  *)
(* But each rule has its verdict in the record, which reads proven exactly *)
(* where the check was right, so that one unobserved rule keeps the record *)
(* from passing T2 and T8.                                                 *)
(***************************************************************************)
ProvenIsObserved ==
    \A t \in Trials : Done(t) /\ record[t].status = "proven" =>
        LET s      == Shows[job[t].saw]
            graded == {v \in record[t].verdicts : v.kind = "deterministic"}
        IN  /\ s.ended = "success" /\ ~s.denied /\ record[t].eligible
            /\ \A a \in Used(s) : a[1] <= 2 * a[2]
            /\ \A r \in Rule : s.check[r] # "wrong"
            /\ \E r \in Rule : s.check[r] = "right"
            /\ {v.rule : v \in graded} = Rule
            /\ \A v \in graded : v.status = "proven" <=> s.check[v.rule] = "right"
            /\ AllRulesPassed(record[t]) => \A r \in Rule : s.check[r] # "absent"

(***************************************************************************)
(* graders.ts: "the grader did not run" is "a first-class outcome and      *)
(* never collapses into a pass".  Beside a rule that was right it does:    *)
(* the trial is proven, the rule unobserved.  False.                       *)
(***************************************************************************)
ProvenWasObservedThroughout ==
    \A t \in Trials : Done(t) /\ record[t].status = "proven" =>
        \A r \in Rule : Shows[job[t].saw].check[r] = "right"

(***************************************************************************)
(* collect.ts: a trial is proven only when its graders decided proven "AND *)
(* it stayed within budget".  Between the budget and its double it need    *)
(* not have: buildTrialReport looks for `aborted` alone.                   *)
(***************************************************************************)
ProvenStayedWithinBudget ==
    \A t \in Trials : Done(t) /\ record[t].status = "proven" =>
        record[t].budget = "within"
=============================================================================
