-------------------------- MODULE StageReportProofs --------------------------
(***************************************************************************)
(* What holds of StageReport for all machines, commits, evidence files,    *)
(* observations and moves of a checkout.                                   *)
(*                                                                         *)
(* Two of the properties are of the judgement alone, whatever records it   *)
(* is given: they need only that a judged report holds the rows of what it *)
(* judged.  The others need what the records are, and `PassIsOneTree` that *)
(* a record names the commit its suites ran on unless the checkout moved:  *)
(* the invariant follows the commit from the machine through the job and   *)
(* the file into the report, and the report's own commit beside it.        *)
(***************************************************************************)
EXTENDS StageReport, FiniteSetTheorems, TLAPS

\* A record names the tree its suites ran on, if that tree stayed in place.
Truthful(r) == r.still => r.commit \in {r.tested, Unknown}

Filed(r) == r \in Evidence /\ Truthful(r)

Job == [platform : Host, commit : Label \union {None}, sees : Collects \union {None},
        tested : Commit \union {None}, still : BOOLEAN]

\* The job j of a collection at `step`, with the commits `at` checked out.
JobIs(step, j, at) ==
    step \in CollectSteps =>
        /\ j \in Job
        /\ step # "suites" => j.sees \in Collects /\ j.tested \in Commit
        /\ step \notin {"suites", "label"} => j.commit \in Label
        /\ j.still =>
              /\ step # "suites" => j.tested = at[j.platform]
              /\ j.commit \in {None, Unknown, at[j.platform]}
              /\ step \notin {"suites", "label"} => j.commit \in {Unknown, at[j.platform]}

FileIs(x) == x \in {None, Torn} \/ Filed(x)

Shaped ==
    /\ checkout \in [Host -> Commit]
    /\ pc \in [File -> CollectSteps \union {"idle", "done"}]
    /\ job \in [File -> Job \union {None}]
    /\ DOMAIN file = File /\ file = [f \in File |-> file[f]]

CollectInv ==
    /\ Shaped
    /\ \A f \in File : JobIs(pc[f], job[f], checkout) /\ FileIs(file[f])
    /\ \A r \in older : Filed(r)

\* What the report was given, before it judges.
Asked(r) == /\ \A e \in r.platforms : Filed(e)
            /\ r.stage \in 0..2

\* What it judged, and the rows it found.
JudgedIs(r) ==
    /\ {"platforms", "stage", "own", "expected"} \subseteq DOMAIN r.in
    /\ Asked(r.in) /\ r.in.own \in Measures
    /\ r.rows = Rows(r.in) /\ r.verdict = Verdict(r.rows)
    /\ r.still /\ r.flag = None /\ r.in.expected # Unknown => r.measured = r.in.expected

\* While it runs, the tree it measured is the one on its machine.
InPlace(r, at) == r.still => r.measured = at[Reporter]

ReportIs(r, at) ==
    /\ r.pc \in {"idle", "threw", "fitness", "judge", "render", "written"}
    /\ r.pc \in {"fitness", "judge", "render"} => "still" \in DOMAIN r
    /\ r.pc = "fitness" => {"pc", "stage", "platforms"} \subseteq DOMAIN r /\ Asked(r)
    /\ r.pc = "judge" =>
          /\ {"pc", "stage", "platforms", "own", "measured"} \subseteq DOMAIN r
          /\ Asked(r) /\ r.own \in Measures /\ InPlace(r, at)
    /\ r.pc = "render" =>
          /\ {"pc", "in", "rows", "verdict", "flag", "measured"} \subseteq DOMAIN r
          /\ InPlace(r, at)
    /\ r.pc \in {"render", "written"} => JudgedIs(r)
    /\ r.pc = "written" /\ r.still => r.commit \in {r.measured, Unknown}

StageInv == CollectInv /\ ReportIs(report, checkout)

-----------------------------------------------------------------------------
(***************************************************************************)
(* Collections.                                                            *)
(***************************************************************************)

\* A collection starts and ends with what it knows.
LEMMA InitCollects == Init => CollectInv
<1> SUFFICES ASSUME Init PROVE CollectInv
  OBVIOUS
<1>1. Shaped
  BY DEF Init, Shaped
<1>2. \A f \in File : JobIs(pc[f], job[f], checkout) /\ FileIs(file[f])
  BY DEF Init, JobIs, FileIs, CollectSteps
<1>3. \A r \in older : Filed(r)
  BY OlderAreEvidence DEF Init, Filed, Truthful
<1> QED
  BY <1>1, <1>2, <1>3 DEF CollectInv

\* A step of one collection that leaves it and its file as they should be
\* disturbs no other.
LEMMA CollectStep ==
    ASSUME CollectInv, NEW f \in File, NEW step \in CollectSteps \union {"idle", "done"},
           NEW j \in Job \union {None}, NEW x,
           pc' = [pc EXCEPT ![f] = step], job' = [job EXCEPT ![f] = j],
           file' = [file EXCEPT ![f] = x],
           checkout' = checkout, older' = older,
           JobIs(step, j, checkout), FileIs(x)
    PROVE  CollectInv'
<1>1. Shaped'
  BY DEF CollectInv, Shaped
<1>2. ASSUME NEW g \in File
      PROVE  JobIs(pc'[g], job'[g], checkout') /\ FileIs(file'[g])
  <2>1. CASE g = f
    BY <2>1 DEF CollectInv, Shaped
  <2>2. CASE g # f
    <3>1. pc'[g] = pc[g] /\ job'[g] = job[g] /\ file'[g] = file[g]
      BY <2>2 DEF CollectInv, Shaped
    <3> QED
      BY <3>1 DEF CollectInv
  <2> QED
    BY <2>1, <2>2
<1>3. \A r \in older' : Filed(r)
  BY DEF CollectInv
<1> QED
  BY <1>1, <1>2, <1>3 DEF CollectInv

\* A step that leaves the job alone, or the file, as one that sets it to itself.
LEMMA SameEntry ==
    ASSUME CollectInv, NEW f \in File
    PROVE  /\ job = [job EXCEPT ![f] = job[f]]
           /\ file = [file EXCEPT ![f] = file[f]]
           /\ FileIs(file[f]) /\ JobIs(pc[f], job[f], checkout)
           /\ job[f] \in Job \union {None}
  BY DEF CollectInv, Shaped

LEMMA CollectsCollectInv ==
    ASSUME CollectInv, NEW f \in File,
           \/ \E h \in Host, flagged \in BOOLEAN : StartCollect(f, h, flagged)
           \/ \E sees \in Collects : RunSuites(f, sees)
           \/ ReadCommit(f) \/ CollectStages(f) \/ CreateFile(f) \/ WriteFile(f)
           \/ Dies(f)
    PROVE  CollectInv'
<1> USE SameEntry
<1>1. ASSUME NEW h \in Host, NEW flagged \in BOOLEAN, StartCollect(f, h, flagged)
      PROVE  CollectInv'
  <2> DEFINE j == [platform |-> h, commit |-> IF flagged THEN checkout[h] ELSE None,
                   sees |-> None, tested |-> None, still |-> TRUE]
  <2>1. checkout[h] \in Commit
    BY DEF CollectInv, Shaped
  <2>2. j \in Job /\ j.commit \in {None, checkout[h]} /\ j.platform = h
    BY <2>1 DEF Job, Label
  <2>3. JobIs("suites", j, checkout)
    BY <2>2 DEF JobIs
  <2>4. job' = [job EXCEPT ![f] = j] /\ pc' = [pc EXCEPT ![f] = "suites"]
        /\ file' = file /\ checkout' = checkout /\ older' = older
    BY <1>1 DEF StartCollect, Goto
  <2> HIDE DEF j
  <2> QED
    BY <2>2, <2>3, <2>4, CollectStep, "suites" \in CollectSteps DEF CollectSteps
<1>2. ASSUME NEW sees \in Collects, RunSuites(f, sees)
      PROVE  CollectInv'
  <2> DEFINE j == [job[f] EXCEPT !.sees = sees, !.tested = checkout[job[f].platform]]
  <2>1. pc[f] = "suites" /\ job[f] \in Job
    BY <1>2 DEF RunSuites, JobIs, CollectSteps
  <2>2. checkout[job[f].platform] \in Commit
    BY <2>1 DEF CollectInv, Shaped, Job
  <2>3. j \in Job /\ j.sees = sees /\ j.tested = checkout[j.platform]
        /\ j.commit = job[f].commit /\ j.still = job[f].still /\ j.platform = job[f].platform
    BY <2>1, <2>2 DEF Job
  <2>4. job[f].still => job[f].commit \in {None, Unknown, checkout[job[f].platform]}
    BY <2>1 DEF JobIs, CollectSteps
  <2>5. job' = [job EXCEPT ![f] = j] /\ pc' = [pc EXCEPT ![f] = "label"]
        /\ file' = file /\ checkout' = checkout /\ older' = older
    BY <1>2 DEF RunSuites, Goto
  <2> HIDE DEF j
  <2>6. JobIs("label", j, checkout)
    BY <2>2, <2>3, <2>4 DEF JobIs
  <2> QED
    BY <2>3, <2>5, <2>6, CollectStep, "label" \in CollectSteps DEF CollectSteps
<1>3. ASSUME ReadCommit(f)
      PROVE  CollectInv'
  <2>1. pc[f] = "label" /\ job[f] \in Job
    BY <1>3 DEF ReadCommit, JobIs, CollectSteps
  <2>2. PICK c \in IF job[f].commit = None THEN Git(job[f].platform) ELSE {job[f].commit} :
            job' = [job EXCEPT ![f].commit = c]
    BY <1>3 DEF ReadCommit
  <2> DEFINE j == [job[f] EXCEPT !.commit = c]
  <2>3. checkout[job[f].platform] \in Commit
    BY <2>1 DEF CollectInv, Shaped, Job
  <2>4. c \in Label
    BY <2>1, <2>2, <2>3 DEF Git, Label, Job
  <2>5. j \in Job /\ j.sees = job[f].sees /\ j.tested = job[f].tested
        /\ j.commit = c /\ j.still = job[f].still /\ j.platform = job[f].platform
    BY <2>1, <2>4 DEF Job
  <2>6. /\ job[f].sees \in Collects /\ job[f].tested \in Commit
        /\ job[f].still => /\ job[f].tested = checkout[job[f].platform]
                           /\ job[f].commit \in {None, Unknown, checkout[job[f].platform]}
    BY <2>1 DEF JobIs, CollectSteps
  <2>7. job[f].still => c \in {Unknown, checkout[job[f].platform]}
    BY <2>2, <2>6 DEF Git
  <2>8. job' = [job EXCEPT ![f] = j] /\ pc' = [pc EXCEPT ![f] = "measure"]
        /\ file' = file /\ checkout' = checkout /\ older' = older
    BY <1>3, <2>2 DEF ReadCommit, Goto
  <2> HIDE DEF j
  <2>9. JobIs("measure", j, checkout)
    BY <2>4, <2>5, <2>6, <2>7 DEF JobIs
  <2> QED
    BY <2>5, <2>8, <2>9, CollectStep, "measure" \in CollectSteps DEF CollectSteps
<1>4. ASSUME CollectStages(f)
      PROVE  CollectInv'
  <2>1. pc[f] = "measure" /\ pc' = [pc EXCEPT ![f] = "create"] /\ job' = job
        /\ file' = file /\ checkout' = checkout /\ older' = older
    BY <1>4 DEF CollectStages, Goto
  <2>2. JobIs("create", job[f], checkout)
    BY <2>1 DEF JobIs, CollectSteps
  <2> QED
    BY <2>1, <2>2, CollectStep, "create" \in CollectSteps DEF CollectSteps
<1>5. ASSUME CreateFile(f)
      PROVE  CollectInv'
  <2>1. pc[f] = "create" /\ pc' = [pc EXCEPT ![f] = "write"] /\ job' = job
        /\ file' = [file EXCEPT ![f] = Torn] /\ checkout' = checkout /\ older' = older
    BY <1>5 DEF CreateFile, Goto
  <2>2. JobIs("write", job[f], checkout) /\ FileIs(Torn)
    BY <2>1 DEF JobIs, CollectSteps, FileIs
  <2> QED
    BY <2>1, <2>2, CollectStep, "write" \in CollectSteps DEF CollectSteps
<1>6. ASSUME WriteFile(f)
      PROVE  CollectInv'
  <2>1. pc[f] = "write" /\ pc' = [pc EXCEPT ![f] = "done"] /\ job' = job
        /\ file' = [file EXCEPT ![f] = job[f]] /\ checkout' = checkout /\ older' = older
    BY <1>6 DEF WriteFile, Goto
  <2>2. /\ job[f] \in Job /\ job[f].sees \in Collects /\ job[f].tested \in Commit
        /\ job[f].commit \in Label
        /\ job[f].still => /\ job[f].tested = checkout[job[f].platform]
                           /\ job[f].commit \in {Unknown, checkout[job[f].platform]}
    BY <2>1 DEF JobIs, CollectSteps
  <2>3. Filed(job[f])
    BY <2>2, CollectsAreObservations DEF Filed, Truthful, Job, Evidence
  <2>4. FileIs(job[f]) /\ JobIs("done", job[f], checkout)
    BY <2>3 DEF FileIs, JobIs, CollectSteps
  <2> QED
    BY <2>1, <2>4, CollectStep
<1>7. ASSUME Dies(f)
      PROVE  CollectInv'
  <2>1. pc' = [pc EXCEPT ![f] = "done"] /\ job' = job
        /\ file' = file /\ checkout' = checkout /\ older' = older
    BY <1>7 DEF Dies, Goto
  <2>2. JobIs("done", job[f], checkout)
    BY DEF JobIs, CollectSteps
  <2> QED
    BY <2>1, <2>2, CollectStep
<1> QED
  BY <1>1, <1>2, <1>3, <1>4, <1>5, <1>6, <1>7

\* A job whose machine's checkout moves no longer vouches for it.
LEMMA MovedJob ==
    ASSUME NEW step, NEW j, NEW at \in [Host -> Commit], NEW h \in Host, NEW c \in Commit,
           JobIs(step, j, at)
    PROVE  JobIs(step, IF step \in CollectSteps /\ j.platform = h
                       THEN [j EXCEPT !.still = FALSE] ELSE j, [at EXCEPT ![h] = c])
<1>1. CASE step \notin CollectSteps
  BY <1>1 DEF JobIs
<1>2. CASE step \in CollectSteps /\ j.platform = h
  <2> DEFINE k == [j EXCEPT !.still = FALSE]
  <2>1. k \in Job /\ k.still = FALSE /\ k.sees = j.sees /\ k.tested = j.tested
        /\ k.commit = j.commit
    BY <1>2 DEF JobIs, Job
  <2> HIDE DEF k
  <2>2. JobIs(step, k, [at EXCEPT ![h] = c])
    BY <1>2, <2>1 DEF JobIs
  <2> QED
    BY <1>2, <2>2 DEF k
<1>3. CASE step \in CollectSteps /\ j.platform # h
  <2>1. j.platform \in Host
    BY <1>3 DEF JobIs, Job
  <2>2. [at EXCEPT ![h] = c][j.platform] = at[j.platform]
    BY <1>3, <2>1
  <2> QED
    BY <1>3, <2>2 DEF JobIs
<1> QED
  BY <1>1, <1>2, <1>3

LEMMA MoveCollectInv ==
    ASSUME CollectInv, NEW h \in Host, NEW c \in Commit, Move(h, c)
    PROVE  CollectInv'
<1> DEFINE moved(f) == IF pc[f] \in CollectSteps /\ job[f].platform = h
                       THEN [job[f] EXCEPT !.still = FALSE] ELSE job[f]
<1>1. /\ checkout' = [checkout EXCEPT ![h] = c] /\ job' = [f \in File |-> moved(f)]
      /\ pc' = pc /\ older' = older /\ file' = file
  BY DEF Move
<1>2. ASSUME NEW f \in File
      PROVE  JobIs(pc[f], moved(f), [checkout EXCEPT ![h] = c])
  <2>1. JobIs(pc[f], job[f], checkout) /\ checkout \in [Host -> Commit]
    BY DEF CollectInv, Shaped
  <2> QED
    BY <2>1, MovedJob
<1>3. ASSUME NEW f \in File
      PROVE  moved(f) \in Job \union {None}
  <2>1. CASE pc[f] \in CollectSteps /\ job[f].platform = h
    <3>1. job[f] \in Job
      BY <2>1 DEF CollectInv, JobIs
    <3>2. [job[f] EXCEPT !.still = FALSE] \in Job
      BY <3>1 DEF Job
    <3> QED
      BY <2>1, <3>2
  <2>2. CASE ~(pc[f] \in CollectSteps /\ job[f].platform = h)
    BY <2>2 DEF CollectInv, Shaped
  <2> QED
    BY <2>1, <2>2
<1> HIDE DEF moved
<1>4. Shaped'
  BY <1>1, <1>3 DEF CollectInv, Shaped
<1>5. \A f \in File : JobIs(pc'[f], job'[f], checkout') /\ FileIs(file'[f])
  BY <1>1, <1>2 DEF CollectInv
<1> QED
  BY <1>1, <1>4, <1>5 DEF CollectInv

-----------------------------------------------------------------------------
(***************************************************************************)
(* The report.                                                             *)
(***************************************************************************)

LEMMA ReadIs ==
    ASSUME CollectInv, NEW stage \in 0..2, NEW flag, ReadRecords(stage, flag)
    PROVE  ReportIs(report', checkout)
<1>1. CASE \E f \in File : file[f] = Torn
  <2>1. report' = [pc |-> "threw"]
    BY <1>1 DEF ReadRecords
  <2> QED
    BY <2>1 DEF ReportIs
<1>2. CASE ~\E f \in File : file[f] = Torn
  <2> DEFINE got == older \union {file[f] : f \in {g \in File : file[g] # None}}
  <2>1. report' = [pc |-> "fitness", stage |-> stage, flag |-> flag, still |-> TRUE,
                   platforms |-> got]
    BY <1>2 DEF ReadRecords
  <2>2. \A e \in got : Filed(e)
    BY <1>2 DEF CollectInv, FileIs
  <2> HIDE DEF got
  <2> QED
    BY <2>1, <2>2 DEF ReportIs, Asked
<1> QED
  BY <1>1, <1>2

LEMMA FitnessIs ==
    ASSUME ReportIs(report, checkout), NEW own \in Measures, RunFitness(own)
    PROVE  ReportIs(report', checkout)
<1>1. report.pc = "fitness"
      /\ report' = [pc |-> "judge", stage |-> report.stage, flag |-> report.flag,
                    still |-> report.still, platforms |-> report.platforms,
                    own |-> own, measured |-> checkout[Reporter]]
  BY DEF RunFitness
<1>2. Asked(report)
  BY <1>1 DEF ReportIs
<1> QED
  BY <1>1, <1>2 DEF ReportIs, Asked, InPlace

LEMMA JudgeIs ==
    ASSUME ReportIs(report, checkout), Judge
    PROVE  ReportIs(report', checkout)
<1>1. report.pc = "judge"
  BY DEF Judge
<1>2. PICK expected \in IF report.flag = None THEN Git(Reporter) ELSE {report.flag} :
          LET in == [platforms |-> report.platforms, stage |-> report.stage,
                     own |-> report.own, expected |-> expected]
          IN  report' = [pc |-> "render", in |-> in, rows |-> Rows(in),
                         verdict |-> Verdict(Rows(in)), flag |-> report.flag,
                         still |-> report.still, measured |-> report.measured]
  BY DEF Judge
<1> DEFINE in == [platforms |-> report.platforms, stage |-> report.stage,
                  own |-> report.own, expected |-> expected]
<1>3. /\ {"platforms", "stage", "own", "expected"} \subseteq DOMAIN in
      /\ in.platforms = report.platforms /\ in.stage = report.stage
      /\ in.own = report.own /\ in.expected = expected
  OBVIOUS
<1>4. Asked(report) /\ report.own \in Measures /\ InPlace(report, checkout)
  BY <1>1 DEF ReportIs
<1>5. Asked(in) /\ in.own \in Measures
  BY <1>3, <1>4 DEF Asked
<1>6. report' = [pc |-> "render", in |-> in, rows |-> Rows(in),
                 verdict |-> Verdict(Rows(in)), flag |-> report.flag,
                 still |-> report.still, measured |-> report.measured]
  BY <1>2
<1>7. report.still /\ report.flag = None /\ in.expected # Unknown => report.measured = in.expected
  BY <1>2, <1>3, <1>4 DEF InPlace, Git
<1> HIDE DEF in
<1>8. JudgedIs(report')
  BY <1>3, <1>5, <1>6, <1>7 DEF JudgedIs
<1>9. InPlace(report', checkout)
  BY <1>4, <1>6 DEF InPlace
<1> QED
  BY <1>6, <1>8, <1>9 DEF ReportIs

LEMMA RenderIs ==
    ASSUME ReportIs(report, checkout), Render
    PROVE  ReportIs(report', checkout)
<1>1. report.pc = "render"
  BY DEF Render
<1>2. PICK c \in Git(Reporter) :
          report' = [pc |-> "written", in |-> report.in, rows |-> report.rows,
                     verdict |-> report.verdict, flag |-> report.flag,
                     still |-> report.still, measured |-> report.measured,
                     commit |-> c]
  BY DEF Render
<1>3. JudgedIs(report) /\ InPlace(report, checkout)
  BY <1>1 DEF ReportIs
<1>4. JudgedIs(report')
  BY <1>2, <1>3 DEF JudgedIs
<1>5. report'.still => report'.commit \in {report'.measured, Unknown}
  BY <1>2, <1>3 DEF InPlace, Git
<1> QED
  BY <1>2, <1>4, <1>5 DEF ReportIs

\* What EXCEPT leaves of a record.
LEMMA Stilled ==
    ASSUME NEW r, "still" \in DOMAIN r
    PROVE  /\ DOMAIN [r EXCEPT !.still = FALSE] = DOMAIN r
           /\ [r EXCEPT !.still = FALSE].still = FALSE
           /\ \A x \in DOMAIN r \ {"still"} : [r EXCEPT !.still = FALSE][x] = r[x]
  OBVIOUS

\* Setting `still` to FALSE, or leaving a report that does not look at its
\* checkout, keeps all that is known of it.
LEMMA MovedReport ==
    ASSUME ReportIs(report, checkout), checkout \in [Host -> Commit],
           NEW h \in Host, NEW c \in Commit, Move(h, c)
    PROVE  ReportIs(report', checkout')
<1>1. checkout' = [checkout EXCEPT ![h] = c]
  BY DEF Move
<1>2. CASE h = Reporter /\ report.pc \in {"fitness", "judge", "render"}
  <2>1. report' = [report EXCEPT !.still = FALSE]
    BY <1>2 DEF Move
  <2>2. /\ DOMAIN report' = DOMAIN report /\ "still" \in DOMAIN report
        /\ report'.still = FALSE
        /\ \A x \in DOMAIN report \ {"still"} : report'[x] = report[x]
    BY <1>2, <2>1, Stilled DEF ReportIs
  <2>3. CASE report.pc = "fitness"
    <3>1. report'.pc = report.pc /\ report'.stage = report.stage
          /\ report'.platforms = report.platforms
      BY <2>2, <2>3 DEF ReportIs
    <3> QED
      BY <2>2, <2>3, <3>1 DEF ReportIs, Asked
  <2>4. CASE report.pc = "judge"
    <3>1. /\ report'.pc = report.pc /\ report'.stage = report.stage
          /\ report'.platforms = report.platforms /\ report'.own = report.own
      BY <2>2, <2>4 DEF ReportIs
    <3> QED
      BY <2>2, <2>4, <3>1 DEF ReportIs, Asked, InPlace
  <2>5. CASE report.pc = "render"
    <3>1. /\ report'.pc = report.pc /\ report'.in = report.in /\ report'.rows = report.rows
          /\ report'.verdict = report.verdict
      BY <2>2, <2>5 DEF ReportIs
    <3>2. JudgedIs(report')
      BY <2>2, <2>5, <3>1 DEF ReportIs, JudgedIs
    <3> QED
      BY <2>2, <2>5, <3>1, <3>2 DEF ReportIs, InPlace
  <2> QED
    BY <1>2, <2>3, <2>4, <2>5
<1>3. CASE ~(h = Reporter /\ report.pc \in {"fitness", "judge", "render"})
  <2>1. report' = report
    BY <1>3 DEF Move
  <2>2. report.pc \in {"judge", "render"} => checkout'[Reporter] = checkout[Reporter]
    BY <1>1, <1>3, RequiredAreHosts
  <2> QED
    BY <2>1, <2>2 DEF ReportIs, InPlace
<1> QED
  BY <1>2, <1>3

LEMMA StageInductive == StageInv /\ [Next]_vars => StageInv'
<1> SUFFICES ASSUME StageInv, [Next]_vars PROVE StageInv'
  OBVIOUS
<1> USE DEF StageInv
<1>1. ASSUME NEW f \in File,
             \/ \E h \in Host, flagged \in BOOLEAN : StartCollect(f, h, flagged)
             \/ \E sees \in Collects : RunSuites(f, sees)
             \/ ReadCommit(f) \/ CollectStages(f) \/ CreateFile(f) \/ WriteFile(f)
             \/ Dies(f)
      PROVE  StageInv'
  <2>1. CollectInv'
    BY <1>1, CollectsCollectInv
  <2>2. report' = report /\ checkout' = checkout
    BY <1>1 DEF StartCollect, RunSuites, ReadCommit, CollectStages, CreateFile, WriteFile, Dies
  <2> QED
    BY <2>1, <2>2
<1>2. ASSUME UNCHANGED <<older, checkout, moves, pc, job, file>>
      PROVE  CollectInv' /\ checkout' = checkout
  BY <1>2 DEF CollectInv, Shaped
<1>3. ASSUME NEW stage \in 0..2, NEW flag, ReadRecords(stage, flag)
      PROVE  StageInv'
  <2>1. UNCHANGED <<older, checkout, moves, pc, job, file>>
    BY <1>3 DEF ReadRecords
  <2> QED
    BY <1>2, <1>3, <2>1, ReadIs
<1>4. ASSUME NEW own \in Measures, RunFitness(own)
      PROVE  StageInv'
  <2>1. UNCHANGED <<older, checkout, moves, pc, job, file>>
    BY <1>4 DEF RunFitness
  <2> QED
    BY <1>2, <1>4, <2>1, FitnessIs
<1>5. CASE Judge
  <2>1. UNCHANGED <<older, checkout, moves, pc, job, file>>
    BY <1>5 DEF Judge
  <2> QED
    BY <1>2, <1>5, <2>1, JudgeIs
<1>6. CASE Render
  <2>1. UNCHANGED <<older, checkout, moves, pc, job, file>>
    BY <1>6 DEF Render
  <2> QED
    BY <1>2, <1>6, <2>1, RenderIs
<1>7. ASSUME NEW h \in Host, NEW c \in Commit, Move(h, c)
      PROVE  StageInv'
  <2>1. CollectInv'
    BY <1>7, MoveCollectInv
  <2>2. checkout \in [Host -> Commit]
    BY DEF CollectInv, Shaped
  <2> QED
    BY <1>7, <2>1, <2>2, MovedReport
<1>8. CASE UNCHANGED vars
  <2>1. UNCHANGED <<older, checkout, moves, pc, job, file>> /\ report' = report
    BY <1>8 DEF vars
  <2> QED
    BY <1>2, <2>1
<1> QED
  BY <1>1, <1>3, <1>4, <1>5, <1>6, <1>7, <1>8 DEF Next

LEMMA InitStage == Init => StageInv
<1> SUFFICES ASSUME Init PROVE StageInv
  OBVIOUS
<1>1. report = [pc |-> "idle"]
  BY DEF Init, NoReport
<1>2. ReportIs(report, checkout)
  BY <1>1 DEF ReportIs
<1> QED
  BY <1>2, InitCollects DEF StageInv

LEMMA StageHolds == Spec => []StageInv
<1> QED
  BY InitStage, StageInductive, PTL DEF Spec

-----------------------------------------------------------------------------
(***************************************************************************)
(* The judgement.                                                          *)
(***************************************************************************)

\* Every row rests on the records that stand and on what the report measured.
LEMMA SameRows ==
    ASSUME NEW in, NEW on, in.stage = on.stage, in.own = on.own,
           UsablePlatforms(in) = UsablePlatforms(on)
    PROVE  Rows(in) = Rows(on)
<1>1. Stands(in) = Stands(on) /\ MissingPlatforms(in) = MissingPlatforms(on)
  BY DEF Stands, MissingPlatforms
<1>2. FitnessRow(in) = FitnessRow(on)
  BY <1>1 DEF FitnessRow
<1>3. \A digest : DigestRow(in, digest) = DigestRow(on, digest)
  BY <1>1, Zenon DEF DigestRow
<1>4. ChampionRow(in) = ChampionRow(on)
  BY DEF ChampionRow
<1>5. \A stage, tests, mode : Observed(in, stage, tests, mode) <=> Observed(on, stage, tests, mode)
  BY <1>1 DEF Observed
<1>6. \A stage, tests, mode :
          NamedTestRow(in, stage, tests, mode) = NamedTestRow(on, stage, tests, mode)
  BY <1>1, <1>5 DEF NamedTestRow
<1>7. CommandsRow(in) = CommandsRow(on)
  BY <1>1 DEF CommandsRow
<1>8. DeterminismRow(in) = DeterminismRow(on)
  BY <1>1, <1>6, Zenon DEF DeterminismRow
<1>9. SnapshotRow(in) = SnapshotRow(on)
  BY <1>1, <1>3 DEF SnapshotRow
<1>10. SeedRow(in) = SeedRow(on)
  BY <1>1, <1>6 DEF SeedRow
<1>11. EvaluateStage0(in) = EvaluateStage0(on)
  BY <1>2, <1>3, <1>4 DEF EvaluateStage0
<1>12. EvaluateStage1(in) = EvaluateStage1(on)
  BY <1>2, <1>6, <1>7, <1>8, <1>9 DEF EvaluateStage1
<1>13. EvaluateStage2(in) = EvaluateStage2(on)
  BY <1>2, <1>6, <1>10 DEF EvaluateStage2
<1> QED
  BY <1>11, <1>12, <1>13, Zenon DEF Rows

\* Taking away a record that is not usable leaves the usable ones.
LEMMA WithoutUnusable ==
    ASSUME NEW in, {"platforms", "stage", "own", "expected"} \subseteq DOMAIN in,
           NEW r \in in.platforms \ UsablePlatforms(in)
    PROVE  Rows([in EXCEPT !.platforms = @ \ {r}]) = Rows(in)
<1> DEFINE on == [in EXCEPT !.platforms = @ \ {r}]
<1>1. on.platforms = in.platforms \ {r} /\ on.expected = in.expected
      /\ on.stage = in.stage /\ on.own = in.own
  OBVIOUS
<1> HIDE DEF on
<1>2. UsablePlatforms(on) = UsablePlatforms(in)
  BY <1>1 DEF UsablePlatforms
<1>3. Rows(on) = Rows(in)
  BY <1>1, <1>2, SameRows
<1> QED
  BY <1>3 DEF on

(***************************************************************************)
(* Whatever else lies in the evidence directory changes no row: gate.ts    *)
(* looks for a usable record of each platform and never at the others.     *)
(***************************************************************************)
THEOREM Ignores == Spec => []UnusableIsIgnored
<1>1. StageInv => UnusableIsIgnored
  <2> SUFFICES ASSUME StageInv, Judged,
                      NEW r \in report.in.platforms \ UsablePlatforms(report.in)
               PROVE  Rows([report.in EXCEPT !.platforms = @ \ {r}]) = report.rows
    BY DEF UnusableIsIgnored
  <2>1. /\ {"platforms", "stage", "own", "expected"} \subseteq DOMAIN report.in
        /\ report.rows = Rows(report.in)
    BY DEF StageInv, ReportIs, Judged, JudgedIs
  <2> QED
    BY <2>1, WithoutUnusable
<1> QED
  BY <1>1, StageHolds, PTL

(***************************************************************************)
(* A PASS is about one tree, when git answered and no checkout moved: the  *)
(* records' own commits, the one measured for the report, and the one on   *)
(* its face (collect.ts, cli.ts and render.ts each ask git again).         *)
(***************************************************************************)
THEOREM OneCommit == Spec => []PassIsOneTree
<1>1. StageInv => PassIsOneTree
  <2> SUFFICES ASSUME StageInv, Passed, report.in.expected # Unknown
               PROVE  /\ \A r \in Stands(report.in) : r.still => r.tested = report.in.expected
                      /\ report.still /\ report.flag = None =>
                            /\ report.measured = report.in.expected
                            /\ report.pc = "written" => report.commit \in {report.measured, Unknown}
    BY DEF PassIsOneTree
  <2>1. JudgedIs(report) /\ (report.pc = "written" /\ report.still =>
                                report.commit \in {report.measured, Unknown})
    BY DEF StageInv, ReportIs, Passed, Judged
  <2>2. ASSUME NEW r \in Stands(report.in), r.still
        PROVE  r.tested = report.in.expected
    <3>1. r \in report.in.platforms /\ r.commit = report.in.expected
      BY DEF Stands, UsablePlatforms
    <3>2. Truthful(r)
      BY <2>1, <3>1 DEF JudgedIs, Asked, Filed
    <3> QED
      BY <2>2, <3>1, <3>2 DEF Truthful
  <2> QED
    BY <2>1, <2>2 DEF JudgedIs
<1> QED
  BY <1>1, StageHolds, PTL

-----------------------------------------------------------------------------
(***************************************************************************)
(* What a row says when it passes.                                         *)
(***************************************************************************)

LEMMA NamedTestPasses ==
    ASSUME NEW in, NEW stage, NEW tests, NEW mode,
           NamedTestRow(in, stage, tests, mode) = "pass"
    PROVE  MissingPlatforms(in) = {} /\ tests # {} /\ Observed(in, stage, tests, mode)
  BY DEF NamedTestRow

\* In mode "all", every record that stands passed every test.
LEMMA AllPassed ==
    ASSUME NEW in, NEW stage, NamedTestRow(in, stage, AllTests, "all") = "pass",
           NEW r \in Stands(in), NEW t \in AllTests
    PROVE  r.sees.test[t] = "passed"
<1>1. Observed(in, stage, AllTests, "all")
  BY NamedTestPasses
<1>2. TestVerdict(r, t, stage) = "passed"
  BY <1>1 DEF Observed
<1> QED
  BY <1>2 DEF TestVerdict

\* In mode "any", some record that stands passed it.
LEMMA AnyPassed ==
    ASSUME NEW in, NEW stage, NamedTestRow(in, stage, AnyTests, "any") = "pass",
           NEW t \in AnyTests
    PROVE  \E r \in Stands(in) : r.sees.test[t] = "passed"
<1>1. Observed(in, stage, AnyTests, "any")
  BY NamedTestPasses
<1>2. PICK r \in Stands(in) : TestVerdict(r, t, stage) = "passed"
  BY <1>1 DEF Observed
<1> QED
  BY <1>2 DEF TestVerdict

LEMMA BuildsAreFinite ==
    ASSUME NEW B \in SUBSET ((1..2) \X Digest)
    PROVE  /\ IsFiniteSet(B) /\ Cardinality(B) \in Nat
           /\ IsFiniteSet({b[2] : b \in B}) /\ Cardinality({b[2] : b \in B}) \in Nat
<1>1. IsFiniteSet(1..2) /\ IsFiniteSet(Digest)
  <2>1. \A n \in 1..2 : n <= 2
    OBVIOUS
  <2>2. IsFiniteSet(1..2)
    BY <2>1, FS_BoundedSetOfNaturals, 1..2 \in SUBSET Nat, 2 \in Nat
  <2> QED
    BY <2>2, PinnedIsDigest
<1>2. IsFiniteSet((1..2) \X Digest)
  BY <1>1, FS_Product
<1>3. IsFiniteSet(B)
  BY <1>2, FS_Subset
<1>4. {b[2] : b \in B} \subseteq Digest
  OBVIOUS
<1>5. IsFiniteSet({b[2] : b \in B})
  BY <1>1, <1>4, FS_Subset
<1> QED
  BY <1>3, <1>5, FS_CardinalityType

\* Two builds and one digest between them: both builds gave that digest.
LEMMA TwoBuilds ==
    ASSUME NEW B \in SUBSET ((1..2) \X Digest),
           ~(Cardinality(B) < 2), Cardinality({b[2] : b \in B}) = 1
    PROVE  \E d \in Digest : B = {<<1, d>>, <<2, d>>}
<1>1. IsFiniteSet(B) /\ IsFiniteSet({b[2] : b \in B})
  BY BuildsAreFinite
<1>2. PICK d : {b[2] : b \in B} = {d}
  BY <1>1, FS_Singleton
<1>3. \A b \in B : b = <<1, d>> \/ b = <<2, d>>
  <2> SUFFICES ASSUME NEW b \in B PROVE b = <<1, d>> \/ b = <<2, d>>
    OBVIOUS
  <2>1. b[2] = d
    BY <1>2
  <2>2. b[1] \in 1..2 /\ b = <<b[1], b[2]>>
    OBVIOUS
  <2> QED
    BY <2>1, <2>2
<1>4. d \in Digest
  BY <1>2
<1>5. ASSUME NEW x, B \subseteq {x} PROVE FALSE
  <2>1. IsFiniteSet({x}) /\ Cardinality({x}) = 1
    BY FS_Singleton
  <2>2. Cardinality(B) <= 1
    BY <1>5, <2>1, FS_Subset
  <2> QED
    BY <2>2, BuildsAreFinite
<1>6. <<1, d>> \in B /\ <<2, d>> \in B
  <2>1. CASE <<1, d>> \notin B
    <3>1. B \subseteq {<<2, d>>}
      BY <1>3, <2>1
    <3> QED
      BY <1>5, <3>1
  <2>2. CASE <<2, d>> \notin B
    <3>1. B \subseteq {<<1, d>>}
      BY <1>3, <2>2
    <3> QED
      BY <1>5, <3>1
  <2> QED
    BY <2>1, <2>2
<1>7. B = {<<1, d>>, <<2, d>>}
  BY <1>3, <1>6
<1> QED
  BY <1>4, <1>7

LEMMA DeterminismPasses ==
    ASSUME NEW in, DeterminismRow(in) = "pass", NEW r \in Stands(in),
           r.sees.builds \in SUBSET ((1..2) \X Digest)
    PROVE  \E d \in Digest : r.sees.builds = {<<1, d>>, <<2, d>>}
<1> DEFINE builds(q) == IF q.sees.stage >= 1 THEN q.sees.builds ELSE {}
           few(q) == Cardinality(builds(q)) < 2
           disagrees(q) == ~few(q) /\ Cardinality({b[2] : b \in builds(q)}) # 1
<1>1. ~few(r) /\ ~disagrees(r)
  BY DEF DeterminismRow
<1>2. builds(r) # {}
  BY <1>1, FS_EmptySet
<1>3. builds(r) = r.sees.builds
  BY <1>2
<1> QED
  BY <1>1, <1>3, TwoBuilds

\* What a PASS found on each platform, whatever records were judged.
LEMMA PassSees ==
    ASSUME NEW in, Asked(in), Verdict(Rows(in)) = "PASS"
    PROVE  /\ MissingPlatforms(in) = {}
           /\ \A r \in Stands(in) :
                 /\ r.sees.stage >= in.stage
                 /\ in.stage >= 1 => \A t \in AllTests : r.sees.test[t] = "passed"
                 /\ in.stage = 1 => /\ r.sees.exitedZero /\ r.sees.snapshot = Pinned
                                    /\ \E d \in Digest : r.sees.builds = {<<1, d>>, <<2, d>>}
                 /\ in.stage = 2 => r.sees.corpus
           /\ in.stage = 2 => \A t \in AnyTests : \E r \in Stands(in) : r.sees.test[t] = "passed"
<1> DEFINE rows == Rows(in)
<1>1. \A id \in DOMAIN rows : rows[id] = "pass"
  BY DEF Verdict
<1>2. ASSUME NEW r \in Stands(in)
      PROVE  /\ r.sees.stage \in 0..2 /\ r.sees.builds \in SUBSET ((1..2) \X Digest)
             /\ r.sees.exitedZero \in BOOLEAN /\ r.sees.corpus \in BOOLEAN
  <2>1. r \in Evidence
    BY DEF Asked, Filed, Stands, UsablePlatforms
  <2> QED
    BY <2>1 DEF Evidence, Observation
<1>3. CASE in.stage = 0
  <2>1. rows = EvaluateStage0(in)
    BY <1>3 DEF Rows
  <2> HIDE DEF rows
  <2>2. DigestRow(in, "tree") = "pass"
    BY <1>1, <2>1 DEF EvaluateStage0
  <2>3. MissingPlatforms(in) = {}
    BY <2>2 DEF DigestRow
  <2> QED
    BY <1>2, <1>3, <2>3
<1>4. CASE in.stage = 1
  <2>1. rows = EvaluateStage1(in)
    BY <1>4 DEF Rows
  <2> HIDE DEF rows
  <2>2. /\ CommandsRow(in) = "pass" /\ DeterminismRow(in) = "pass"
        /\ SnapshotRow(in) = "pass" /\ NamedTestRow(in, 1, AllTests, "all") = "pass"
    BY <1>1, <2>1 DEF EvaluateStage1
  <2>3. MissingPlatforms(in) = {} /\ \A r \in Stands(in) :
            ~(r.sees.stage < 1) /\ ~(r.sees.stage >= 1 /\ ~r.sees.exitedZero)
    BY <2>2 DEF CommandsRow
  <2>4. \A r \in Stands(in) : r.sees.snapshot = Pinned
    BY <2>2 DEF SnapshotRow
  <2>5. ASSUME NEW r \in Stands(in)
        PROVE  /\ r.sees.stage >= 1 /\ r.sees.exitedZero /\ r.sees.snapshot = Pinned
               /\ \A t \in AllTests : r.sees.test[t] = "passed"
               /\ \E d \in Digest : r.sees.builds = {<<1, d>>, <<2, d>>}
    <3>1. r.sees.stage >= 1
      BY <1>2, <2>3
    <3>2. r.sees.exitedZero
      BY <2>3, <3>1
    <3>3. \A t \in AllTests : r.sees.test[t] = "passed"
      BY <2>2, AllPassed
    <3>4. \E d \in Digest : r.sees.builds = {<<1, d>>, <<2, d>>}
      BY <1>2, <2>2, DeterminismPasses
    <3> QED
      BY <2>4, <3>1, <3>2, <3>3, <3>4
  <2> QED
    BY <1>4, <2>3, <2>5
<1>5. CASE in.stage = 2
  <2>1. rows = EvaluateStage2(in)
    BY <1>5 DEF Rows
  <2> HIDE DEF rows
  <2>2. /\ SeedRow(in) = "pass" /\ NamedTestRow(in, 2, AllTests, "all") = "pass"
        /\ NamedTestRow(in, 2, AnyTests, "any") = "pass"
    BY <1>1, <2>1 DEF EvaluateStage2
  <2>3. MissingPlatforms(in) = {} /\ \A r \in Stands(in) : ~(r.sees.stage < 2) /\ r.sees.corpus
    BY <2>2 DEF SeedRow
  <2>4. ASSUME NEW r \in Stands(in)
        PROVE  /\ r.sees.stage >= 2 /\ r.sees.corpus
               /\ \A t \in AllTests : r.sees.test[t] = "passed"
    BY <1>2, <2>2, <2>3, AllPassed
  <2>5. \A t \in AnyTests : \E r \in Stands(in) : r.sees.test[t] = "passed"
    BY <2>2, AnyPassed
  <2> QED
    BY <1>5, <2>3, <2>4, <2>5
<1>6. in.stage \in 0..2
  BY DEF Asked
<1> QED
  BY <1>3, <1>4, <1>5, <1>6

(***************************************************************************)
(* A PASS is observed: on every required platform some record of the       *)
(* judged commit shows all that its stage rests on (evaluateStage0,        *)
(* evaluateStage1 and evaluateStage2), and nothing absent counts.          *)
(***************************************************************************)
THEOREM Observes == Spec => []PassIsObserved
<1>1. StageInv => PassIsObserved
  <2> SUFFICES ASSUME StageInv, Passed PROVE PassIsObserved
    BY DEF PassIsObserved
  <2> DEFINE in == report.in
             good(r, p) ==
               /\ r.platform = p /\ r.commit = in.expected
               /\ r.sees.enough /\ Failures(r) = {}
               /\ r.sees.stage >= in.stage
               /\ in.stage >= 1 => \A t \in AllTests : r.sees.test[t] = "passed"
               /\ in.stage = 1 => /\ r.sees.exitedZero /\ r.sees.snapshot = Pinned
                                  /\ \E d \in Digest : r.sees.builds = {<<1, d>>, <<2, d>>}
               /\ in.stage = 2 => r.sees.corpus
  <2>1. Asked(in) /\ Verdict(Rows(in)) = "PASS"
    BY DEF StageInv, ReportIs, Passed, Judged, JudgedIs
  <2>2. ASSUME NEW p \in Required
        PROVE  \E r \in in.platforms : good(r, p)
    <3>1. PICK r \in UsablePlatforms(in) : r.platform = p
      BY <2>1, PassSees DEF MissingPlatforms
    <3>2. r \in in.platforms /\ r.commit = in.expected /\ r.sees.enough /\ Failures(r) = {}
          /\ r \in Stands(in)
      BY <3>1 DEF UsablePlatforms, Stands
    <3>3. good(r, p)
      BY <2>1, <3>1, <3>2, PassSees
    <3> QED
      BY <3>2, <3>3
  <2>3. ASSUME in.stage = 2, NEW t \in AnyTests
        PROVE  \E r \in in.platforms : r.platform \in Required /\ r.sees.test[t] = "passed"
    <3>1. PICK r \in Stands(in) : r.sees.test[t] = "passed"
      BY <2>1, <2>3, PassSees
    <3> QED
      BY <3>1 DEF Stands, UsablePlatforms
  <2> QED
    BY <2>2, <2>3 DEF PassIsObserved
<1> QED
  BY <1>1, StageHolds, PTL

-----------------------------------------------------------------------------
(***************************************************************************)
(* What a row says when nothing is broken.                                 *)
(***************************************************************************)

\* Required platforms without a missing one leave a record that stands.
LEMMA SomeStands ==
    ASSUME NEW in, MissingPlatforms(in) = {}
    PROVE  Stands(in) # {}
  BY RequiredAreHosts DEF MissingPlatforms, Stands

LEMMA SameDigest ==
    ASSUME NEW in, NEW digest, \A r \in Stands(in) : r.sees[digest] = Pinned
    PROVE  DigestRow(in, digest) # "fail"
<1>1. CASE MissingPlatforms(in) # {}
  BY <1>1 DEF DigestRow
<1>2. CASE MissingPlatforms(in) = {}
  <2>1. {r.sees[digest] : r \in Stands(in)} = {Pinned}
    BY <1>2, SomeStands
  <2>2. Cardinality({r.sees[digest] : r \in Stands(in)}) = 1
    BY <2>1, FS_Singleton
  <2> QED
    BY <1>2, <2>2 DEF DigestRow
<1> QED
  BY <1>1, <1>2

LEMMA NoTestFailed ==
    ASSUME NEW in, NEW stage, NEW tests \in SUBSET Test, NEW mode
    PROVE  NamedTestRow(in, stage, tests, mode) # "fail"
<1>1. \A r \in Stands(in) : Failures(r) = {}
  BY DEF Stands, UsablePlatforms
<1>2. ASSUME NEW t \in tests, NEW r \in Stands(in), TestVerdict(r, t, stage) = "failed"
      PROVE  FALSE
  <2>1. r.sees.test[t] = "failed"
    BY <1>2 DEF TestVerdict
  <2> QED
    BY <1>1, <2>1 DEF Failures
<1> QED
  BY <1>2 DEF NamedTestRow

LEMMA BuildsAgree ==
    ASSUME NEW in,
           \A r \in Stands(in) : /\ r.sees.builds \in SUBSET ((1..2) \X Digest)
                                 /\ Cardinality({b[2] : b \in r.sees.builds}) <= 1
    PROVE  DeterminismRow(in) # "fail"
<1> DEFINE builds(q) == IF q.sees.stage >= 1 THEN q.sees.builds ELSE {}
           few(q) == Cardinality(builds(q)) < 2
           disagrees(q) == ~few(q) /\ Cardinality({b[2] : b \in builds(q)}) # 1
<1>1. ASSUME NEW r \in Stands(in), disagrees(r)
      PROVE  FALSE
  <2>1. builds(r) # {}
    BY <1>1, FS_EmptySet
  <2>2. builds(r) = r.sees.builds
    BY <2>1
  <2> DEFINE D == {b[2] : b \in r.sees.builds}
  <2>3. IsFiniteSet(D) /\ Cardinality(D) \in Nat /\ Cardinality(D) <= 1 /\ Cardinality(D) # 1
    BY <1>1, <2>2, BuildsAreFinite
  <2>4. D # {}
    BY <2>1, <2>2
  <2> HIDE DEF D
  <2>5. Cardinality(D) = 0
    BY <2>3
  <2> QED
    BY <2>3, <2>4, <2>5, FS_EmptySet
<1>2. NamedTestRow(in, 1, AllTests, "all") # "fail"
  BY NoTestFailed DEF Test
<1> QED
  BY <1>1, <1>2, Zenon DEF DeterminismRow

\* No row but H1 fails where nothing is broken.
LEMMA NothingFails ==
    ASSUME NEW in, Asked(in), NothingBroken(in), NEW id \in DOMAIN Rows(in) \ {"H1"}
    PROVE  Rows(in)[id] # "fail"
<1>1. ASSUME NEW r \in Stands(in)
      PROVE  /\ r.sees.exitedZero /\ r.sees["snapshot"] = Pinned /\ r.sees["tree"] = Pinned
             /\ r.sees.builds \in SUBSET ((1..2) \X Digest)
             /\ Cardinality({b[2] : b \in r.sees.builds}) <= 1
  <2>1. r \in in.platforms
    BY DEF Stands, UsablePlatforms
  <2>2. r \in Evidence
    BY <2>1 DEF Asked, Filed
  <2>3. r.sees.builds \in SUBSET ((1..2) \X Digest)
    BY <2>2 DEF Evidence, Observation
  <2>4. /\ r.sees.exitedZero /\ r.sees.snapshot = Pinned /\ r.sees.tree = Pinned
        /\ Cardinality({b[2] : b \in r.sees.builds}) <= 1
    BY <2>1 DEF NothingBroken
  <2> QED
    BY <2>3, <2>4
<1>2. DigestRow(in, "tree") # "fail" /\ DigestRow(in, "snapshot") # "fail"
  BY <1>1, SameDigest
<1>3. FitnessRow(in) # "fail"
  BY DEF FitnessRow, NothingBroken
<1>4. ChampionRow(in) # "fail"
  BY DEF ChampionRow, NothingBroken
<1>5. PassIf(in.own.contracts) = "pass" /\ PassIf(in.own.adrs) = "pass"
  BY DEF PassIf, NothingBroken
<1>6. CommandsRow(in) # "fail"
  BY <1>1 DEF CommandsRow
<1>7. \A stage, mode : /\ NamedTestRow(in, stage, AllTests, mode) # "fail"
                       /\ NamedTestRow(in, stage, AnyTests, mode) # "fail"
  BY NoTestFailed DEF Test
<1>8. DeterminismRow(in) # "fail"
  BY <1>1, BuildsAgree
<1>9. SnapshotRow(in) # "fail"
  BY <1>1, <1>2 DEF SnapshotRow
<1>10. CASE in.stage = 0
  <2>1. Rows(in) = EvaluateStage0(in)
    BY <1>10 DEF Rows
  <2> QED
    BY <1>2, <1>3, <1>4, <1>5, <2>1 DEF EvaluateStage0
<1>11. CASE in.stage = 1
  <2>1. Rows(in) = EvaluateStage1(in)
    BY <1>11 DEF Rows
  <2> QED
    BY <1>3, <1>6, <1>7, <1>8, <1>9, <2>1 DEF EvaluateStage1
<1>12. CASE in.stage = 2
  <2>1. Rows(in) = EvaluateStage2(in)
    BY <1>12 DEF Rows
  <2> QED
    BY <1>3, <1>7, <2>1 DEF EvaluateStage2
<1> QED
  BY <1>10, <1>11, <1>12 DEF Asked

(***************************************************************************)
(* An observation that was not made fails no row, of any stage, but H1.    *)
(***************************************************************************)
THEOREM Absences == Spec => []AbsenceNeverFails
<1>1. StageInv => AbsenceNeverFails
  <2> SUFFICES ASSUME StageInv, Judged, NothingBroken(report.in),
                      NEW id \in DOMAIN report.rows \ {"H1"}
               PROVE  report.rows[id] # "fail"
    BY DEF AbsenceNeverFails
  <2>1. Asked(report.in) /\ report.rows = Rows(report.in)
    BY DEF StageInv, ReportIs, Judged, JudgedIs
  <2> QED
    BY <2>1, NothingFails
<1> QED
  BY <1>1, StageHolds, PTL

-----------------------------------------------------------------------------
\* Every row has one of the three statuses.
LEMMA RowsAreStatuses ==
    ASSUME NEW in, in.stage \in 0..2, NEW id \in DOMAIN Rows(in)
    PROVE  Rows(in)[id] \in Status
<1>1. \A digest : DigestRow(in, digest) \in Status
  BY DEF DigestRow, Status
<1>2. FitnessRow(in) \in Status /\ ChampionRow(in) \in Status /\ CommandsRow(in) \in Status
  BY DEF FitnessRow, ChampionRow, CommandsRow, Status
<1>3. \A stage, tests, mode : NamedTestRow(in, stage, tests, mode) \in Status
  BY DEF NamedTestRow, Status
<1>4. DeterminismRow(in) \in Status
  BY <1>3, Zenon DEF DeterminismRow, Status
<1>5. SnapshotRow(in) \in Status /\ SeedRow(in) \in Status
  BY <1>1, <1>3 DEF SnapshotRow, SeedRow, Status
<1>6. \A condition : PassIf(condition) \in Status
  BY DEF PassIf, Status
<1>7. CASE in.stage = 0
  <2>1. Rows(in) = EvaluateStage0(in)
    BY <1>7 DEF Rows
  <2> QED
    BY <1>1, <1>2, <1>6, <2>1 DEF EvaluateStage0
<1>8. CASE in.stage = 1
  <2>1. Rows(in) = EvaluateStage1(in)
    BY <1>8 DEF Rows
  <2> QED
    BY <1>2, <1>3, <1>4, <1>5, <2>1 DEF EvaluateStage1
<1>9. CASE in.stage = 2
  <2>1. Rows(in) = EvaluateStage2(in)
    BY <1>9 DEF Rows
  <2> QED
    BY <1>2, <1>3, <1>5, <2>1 DEF EvaluateStage2
<1> QED
  BY <1>7, <1>8, <1>9

\* Nothing moves a checkout beyond the bound.
LEMMA MovesBounded ==
    ASSUME moves \in 0..MaxMoves, [Next]_vars
    PROVE  moves' \in 0..MaxMoves
<1>1. ASSUME NEW h \in Host, NEW c \in Commit, Move(h, c)
      PROVE  moves' \in 0..MaxMoves
  BY <1>1, MaxMovesIsNat DEF Move
<1>2. CASE moves' = moves
  BY <1>2
<1> QED
  BY <1>1, <1>2 DEF Next, StartCollect, RunSuites, ReadCommit, CollectStages, CreateFile,
     WriteFile, Dies, ReadRecords, RunFitness, Judge, Render, vars

(***************************************************************************)
(* Every file holds a whole record, a torn one or nothing, and every row   *)
(* of a report has one of gate.ts's three statuses.                        *)
(***************************************************************************)
THEOREM StageTypes == Spec => []TypeOK
<1>1. Init => moves \in 0..MaxMoves
  BY MaxMovesIsNat DEF Init
<1>2. StageInv /\ moves \in 0..MaxMoves => TypeOK
  <2> SUFFICES ASSUME StageInv, moves \in 0..MaxMoves PROVE TypeOK
    OBVIOUS
  <2>1. checkout \in [Host -> Commit] /\ pc \in [File -> CollectSteps \union {"idle", "done"}]
    BY DEF StageInv, CollectInv, Shaped
  <2>2. \A f \in File : file[f] \in {None, Torn} \union Evidence
    BY DEF StageInv, CollectInv, FileIs, Filed
  <2>3. ASSUME Judged, NEW id \in DOMAIN report.rows
        PROVE  report.rows[id] \in Status
    <3>1. Asked(report.in) /\ report.rows = Rows(report.in)
      BY <2>3 DEF StageInv, ReportIs, Judged, JudgedIs
    <3> QED
      BY <2>3, <3>1, RowsAreStatuses DEF Asked
  <2> QED
    BY <2>1, <2>2, <2>3 DEF TypeOK
<1>3. moves \in 0..MaxMoves /\ [Next]_vars => (moves \in 0..MaxMoves)'
  BY MovesBounded
<1>4. Spec => [](moves \in 0..MaxMoves)
  BY <1>1, <1>3, PTL DEF Spec
<1> QED
  BY <1>2, <1>4, StageHolds, PTL

=============================================================================
