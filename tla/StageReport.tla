----------------------------- MODULE StageReport -----------------------------
(***************************************************************************)
(* Stage 0-2 qualification reports: tools/qualification-report.            *)
(*                                                                         *)
(* `--collect` runs on a machine of each platform, measures the checkout   *)
(* it finds there and writes one record.  `--report` runs on some machine  *)
(* later, reads whatever records it is given, measures its own checkout    *)
(* and judges.  Nothing stops a checkout from moving under either of them, *)
(* and a process may die anywhere.                                         *)
(***************************************************************************)
EXTENDS Naturals, FiniteSets

CONSTANTS
    Host,        \* machines; the name is their process.platform
    Required,    \* REQUIRED_PLATFORMS
    Reporter,    \* the machine the report is made on
    Commit,
    Unknown,     \* what git() returns when git fails
    File,        \* names in the evidence directory, one collection each
    AllTests,    \* named tests that must pass on every platform
    AnyTests,    \* those of ANY_PLATFORM_ROWS
    Pinned,      \* STAGE_0_EMPTY_SNAPSHOT_DIGEST
    Digest,
    Collects,    \* what a collection may be asked for and see
    Measures,    \* what the report may see of its own checkout
    Older,       \* records an earlier collection may have left there
    MaxMoves,    \* bound on how often a checkout moves
    Torn, None

Test   == AllTests \union AnyTests
Label  == Commit \union {Unknown}
Status == {"pass", "fail", "unproven"}

\* What one machine showed: suites, commands, two builds, the corpus, digests.
Observation == [stage : (0..2), enough : BOOLEAN,
                test : [Test -> {"passed", "failed", "skipped", "missing"}],
                exitedZero : BOOLEAN, builds : SUBSET ((1..2) \X Digest),
                corpus : BOOLEAN, tree : Digest, snapshot : Digest]

\* What the report measures itself.
Measure == [fitness : BOOLEAN,
            rules : SUBSET [enforced : BOOLEAN, whileAbsent : SUBSET {"dir"}],
            present : SUBSET {"dir"},
            champion : {"passed", "failed", "skipped"},
            contracts : BOOLEAN, adrs : BOOLEAN]

\* A record; `tested` and `still` are history: the tree the suites ran on, and
\* whether the checkout was left alone throughout.
Evidence == [platform : Host, commit : Label, sees : Observation,
             tested : Commit, still : BOOLEAN]

ASSUME CollectsAreObservations == Collects \subseteq Observation
ASSUME MeasuresAreMeasures == Measures \subseteq Measure
ASSUME RequiredAreHosts == Required \subseteq Host /\ Required # {} /\ Reporter \in Host
ASSUME MaxMovesIsNat == MaxMoves \in Nat
ASSUME PinnedIsDigest == Pinned \in Digest /\ IsFiniteSet(Digest)
\* An earlier collection is one like those modelled here: see `ReadCommit`.
ASSUME OlderAreEvidence == /\ Older \subseteq Evidence
                           /\ \A r \in Older : r.still => r.commit \in {r.tested, Unknown}

VARIABLES
    checkout,  \* the commit checked out on each machine
    moves,     \* how often one moved
    pc,        \* where each collection is
    job,       \* its machine, label, and what it saw
    older,     \* what was in the evidence directory before
    file,      \* the records collected into it
    report     \* the report being made

vars == <<checkout, moves, pc, job, older, file, report>>

-----------------------------------------------------------------------------
(***************************************************************************)
(* The judgement.  `in` has the records, the commit they must be of, and   *)
(* what the report measured itself.                                        *)
(***************************************************************************)

Failures(r) == {t \in Test : r.sees.test[t] = "failed"}

\* Wrong variant: a record of any commit will do.
UsableAtAnyCommit(in) ==
    {r \in in.platforms : r.sees.enough /\ Failures(r) = {}}

\* Records that can stand for their platform.
UsablePlatforms(in) ==
    {r \in in.platforms : /\ r.commit = in.expected
                          /\ r.sees.enough
                          /\ Failures(r) = {}}

Stands(in) == {r \in UsablePlatforms(in) : r.platform \in Required}

\* Wrong variant: one unusable record is enough to lose a platform.
MissingIfAnyUnusable(in) ==
    {p \in Required : \/ ~\E r \in UsablePlatforms(in) : r.platform = p
                      \/ \E r \in in.platforms \ UsablePlatforms(in) : r.platform = p}

MissingPlatforms(in) ==
    {p \in Required : ~\E r \in UsablePlatforms(in) : r.platform = p}

DigestRow(in, digest) ==
    IF MissingPlatforms(in) # {} THEN "unproven"
    ELSE IF Cardinality({r.sees[digest] : r \in Stands(in)}) # 1 THEN "fail"
    ELSE "pass"

FitnessRow(in) ==
    LET dormant == {f \in in.own.rules : ~f.enforced}
    IN  IF in.own.rules = {} THEN "unproven"
        ELSE IF ~in.own.fitness THEN "fail"
        ELSE IF \E f \in dormant : f.whileAbsent = {} THEN "fail"
        ELSE IF \E f \in dormant : f.whileAbsent \intersect in.own.present # {} THEN "fail"
        ELSE IF MissingPlatforms(in) # {} THEN "unproven"
        ELSE "pass"

\* The named tests of this machine's own run; the row is never without a run.
ChampionRow(in) ==
    CASE in.own.champion = "failed" -> "fail"
      [] in.own.champion = "passed" -> "pass"
      [] OTHER -> "unproven"

\* A record of an earlier stage has no block for the tests of a later one.
TestVerdict(r, t, stage) == IF r.sees.stage >= stage THEN r.sees.test[t] ELSE "missing"

\* Wrong variant: only a failure counts against a test.
ObservedUnlessFailed(in, stage, tests, mode) ==
    \A t \in tests, r \in Stands(in) : TestVerdict(r, t, stage) # "failed"

\* In mode "any" a test must have passed somewhere, in "all" everywhere.
Observed(in, stage, tests, mode) ==
    \A t \in tests :
        LET passes(r) == TestVerdict(r, t, stage) = "passed"
        IN  IF mode = "any" THEN \E r \in Stands(in) : passes(r)
                            ELSE \A r \in Stands(in) : passes(r)

NamedTestRow(in, stage, tests, mode) ==
    IF MissingPlatforms(in) # {} \/ tests = {} THEN "unproven"
    ELSE IF \E t \in tests, r \in Stands(in) : TestVerdict(r, t, stage) = "failed" THEN "fail"
    ELSE IF ~Observed(in, stage, tests, mode) THEN "unproven"
    ELSE "pass"

\* Wrong variant: a command that was not run counts like one that failed.
CommandsRowAllFail(in) ==
    IF MissingPlatforms(in) # {} THEN "unproven"
    ELSE IF \E r \in Stands(in) : r.sees.stage < 1 \/ ~r.sees.exitedZero THEN "fail"
    ELSE "pass"

CommandsRow(in) ==
    IF MissingPlatforms(in) # {} THEN "unproven"
    ELSE IF \E r \in Stands(in) : r.sees.stage >= 1 /\ ~r.sees.exitedZero THEN "fail"
    ELSE IF \E r \in Stands(in) : r.sees.stage < 1 THEN "unproven"
    ELSE "pass"

\* A build that exits non-zero leaves no digest.
DeterminismRow(in) ==
    LET builds(r)    == IF r.sees.stage >= 1 THEN r.sees.builds ELSE {}
        few(r)       == Cardinality(builds(r)) < 2
        disagrees(r) == ~few(r) /\ Cardinality({b[2] : b \in builds(r)}) # 1
    IN  IF MissingPlatforms(in) # {} THEN "unproven"
        ELSE IF \E r \in Stands(in) : disagrees(r) THEN "fail"
        ELSE IF \E r \in Stands(in) : few(r) THEN "unproven"
        ELSE NamedTestRow(in, 1, AllTests, "all")

SnapshotRow(in) ==
    LET across == DigestRow(in, "snapshot")
    IN  IF across # "pass" THEN across
        ELSE IF \E r \in Stands(in) : r.sees.snapshot # Pinned THEN "fail"
        ELSE "pass"

\* A record with no measurement of the corpus is a problem like any other.
SeedRow(in) ==
    IF MissingPlatforms(in) # {} THEN "unproven"
    ELSE IF \E r \in Stands(in) : r.sees.stage < 2 \/ ~r.sees.corpus THEN "fail"
    ELSE NamedTestRow(in, 2, AllTests, "all")

PassIf(condition) == IF condition THEN "pass" ELSE "fail"

EvaluateStage0(in) ==
    [G1 |-> FitnessRow(in), G2 |-> DigestRow(in, "tree"),
     G3 |-> ChampionRow(in), G4 |-> DigestRow(in, "snapshot"),
     G5 |-> PassIf(in.own.contracts), G6 |-> PassIf(in.own.adrs)]

\* G2-G6 rest on named tests alike.
EvaluateStage1(in) ==
    [G1 |-> CommandsRow(in), G2 |-> NamedTestRow(in, 1, AllTests, "all"),
     G7 |-> DeterminismRow(in), G8 |-> SnapshotRow(in), G9 |-> FitnessRow(in)]

\* H2-H10 rest on named tests; H5 and H8 are proved by any platform.
EvaluateStage2(in) ==
    [H1 |-> SeedRow(in), H2 |-> NamedTestRow(in, 2, AllTests, "all"),
     H5 |-> NamedTestRow(in, 2, AnyTests, "any"), H11 |-> FitnessRow(in)]

Rows(in) == CASE in.stage = 0 -> EvaluateStage0(in)
              [] in.stage = 1 -> EvaluateStage1(in)
              [] in.stage = 2 -> EvaluateStage2(in)

Verdict(rows) ==
    IF \A id \in DOMAIN rows : rows[id] = "pass" THEN "PASS" ELSE "NOT PASSED"

-----------------------------------------------------------------------------
(***************************************************************************)
(* Collecting a record.                                                    *)
(***************************************************************************)

Git(h) == {checkout[h], Unknown}
CollectSteps == {"suites", "label", "measure", "create", "write"}

Goto(f, where) == pc' = [pc EXCEPT ![f] = where]

\* `flagged`: --commit names the commit checked out, as the workflow does.
StartCollect(f, h, flagged) ==
    /\ pc[f] = "idle"
    /\ job' = [job EXCEPT ![f] =
           [platform |-> h, commit |-> IF flagged THEN checkout[h] ELSE None,
            sees |-> None, tested |-> None, still |-> TRUE]]
    /\ Goto(f, "suites")
    /\ UNCHANGED <<older, checkout, moves, file, report>>

RunSuites(f, sees) ==
    /\ pc[f] = "suites"
    /\ job' = [job EXCEPT ![f].sees = sees, ![f].tested = checkout[job[f].platform]]
    /\ Goto(f, "label")
    /\ UNCHANGED <<older, checkout, moves, file, report>>

\* HEAD is asked for after the suites ran, and only without --commit.
ReadCommit(f) ==
    /\ pc[f] = "label"
    /\ \E c \in IF job[f].commit = None THEN Git(job[f].platform) ELSE {job[f].commit} :
           job' = [job EXCEPT ![f].commit = c]
    /\ Goto(f, "measure")
    /\ UNCHANGED <<older, checkout, moves, file, report>>

\* The commands, the builds and the corpus: what they show is in `sees`.
CollectStages(f) ==
    /\ pc[f] = "measure"
    /\ Goto(f, "create")
    /\ UNCHANGED <<older, checkout, moves, job, file, report>>

CreateFile(f) ==
    /\ pc[f] = "create"
    /\ file' = [file EXCEPT ![f] = Torn]
    /\ Goto(f, "write")
    /\ UNCHANGED <<older, checkout, moves, job, report>>

WriteFile(f) ==
    /\ pc[f] = "write"
    /\ file' = [file EXCEPT ![f] = job[f]]
    /\ Goto(f, "done")
    /\ UNCHANGED <<older, checkout, moves, job, report>>

Dies(f) ==
    /\ pc[f] \in CollectSteps
    /\ Goto(f, "done")
    /\ UNCHANGED <<older, checkout, moves, job, file, report>>

-----------------------------------------------------------------------------
(***************************************************************************)
(* Making the report.                                                      *)
(***************************************************************************)

NoReport == [pc |-> "idle"]

\* A record that is not JSON ends the process before it judges anything.
ReadRecords(stage, flag) ==
    /\ report.pc = "idle"
    /\ report' = IF \E f \in File : file[f] = Torn THEN [pc |-> "threw"]
                 ELSE [pc |-> "fitness", stage |-> stage, flag |-> flag, still |-> TRUE,
                       platforms |-> older \union {file[f] : f \in {g \in File : file[g] # None}}]
    /\ UNCHANGED <<older, checkout, moves, pc, job, file>>

RunFitness(own) ==
    /\ report.pc = "fitness"
    /\ report' = [pc |-> "judge", stage |-> report.stage, flag |-> report.flag,
                  still |-> report.still, platforms |-> report.platforms,
                  own |-> own, measured |-> checkout[Reporter]]
    /\ UNCHANGED <<older, checkout, moves, pc, job, file>>

\* The expected commit is the flag's, or HEAD's at this moment.
Judge ==
    /\ report.pc = "judge"
    /\ \E expected \in IF report.flag = None THEN Git(Reporter) ELSE {report.flag} :
           LET in == [platforms |-> report.platforms, stage |-> report.stage,
                      own |-> report.own, expected |-> expected]
           IN  report' = [pc |-> "render", in |-> in, rows |-> Rows(in),
                          verdict |-> Verdict(Rows(in)), flag |-> report.flag,
                          still |-> report.still, measured |-> report.measured]
    /\ UNCHANGED <<older, checkout, moves, pc, job, file>>

\* The commit on the report's face is HEAD, asked for once more.
Render ==
    /\ report.pc = "render"
    /\ \E c \in Git(Reporter) :
           report' = [pc |-> "written", in |-> report.in, rows |-> report.rows,
                      verdict |-> report.verdict, flag |-> report.flag,
                      still |-> report.still, measured |-> report.measured,
                      commit |-> c]
    /\ UNCHANGED <<older, checkout, moves, pc, job, file>>

\* Someone checks out another commit under whatever is running there.
Move(h, c) ==
    /\ moves < MaxMoves /\ c # checkout[h]
    /\ moves' = moves + 1
    /\ checkout' = [checkout EXCEPT ![h] = c]
    /\ job' = [f \in File |-> IF pc[f] \in CollectSteps /\ job[f].platform = h
                                THEN [job[f] EXCEPT !.still = FALSE] ELSE job[f]]
    /\ report' = IF h = Reporter /\ report.pc \in {"fitness", "judge", "render"}
                   THEN [report EXCEPT !.still = FALSE] ELSE report
    /\ UNCHANGED <<pc, older, file>>

-----------------------------------------------------------------------------
Init ==
    /\ checkout \in [Host -> Commit]
    /\ moves = 0
    /\ pc = [f \in File |-> "idle"]
    /\ job = [f \in File |-> None]
    /\ older \in {{}} \union {{r} : r \in Older}
    /\ file = [f \in File |-> None]
    /\ report = NoReport

Next ==
    \/ \E f \in File :
          \/ \E h \in Host, flagged \in BOOLEAN : StartCollect(f, h, flagged)
          \/ \E sees \in Collects : RunSuites(f, sees)
          \/ ReadCommit(f) \/ CollectStages(f) \/ CreateFile(f) \/ WriteFile(f)
          \/ Dies(f)
    \/ \E stage \in 0..2, flag \in Commit \union {None} : ReadRecords(stage, flag)
    \/ \E own \in Measures : RunFitness(own)
    \/ Judge \/ Render
    \/ \E h \in Host, c \in Commit : Move(h, c)

Spec == Init /\ [][Next]_vars

-----------------------------------------------------------------------------
Judged == report.pc \in {"render", "written"}
Passed == Judged /\ report.verdict = "PASS"

TypeOK ==
    /\ checkout \in [Host -> Commit]
    /\ moves \in 0..MaxMoves
    /\ pc \in [File -> CollectSteps \union {"idle", "done"}]
    /\ \A f \in File : file[f] \in {None, Torn} \union Evidence
    /\ Judged => \A id \in DOMAIN report.rows : report.rows[id] \in Status

(***************************************************************************)
(* gate.ts: "a row with no measurement is unproven, never pass".  A PASS   *)
(* means every required platform showed, in some record of the judged      *)
(* commit, enough tests and no failure, and all its stage rests on: what   *)
(* was skipped, missing, or collected for an earlier stage never counts.   *)
(***************************************************************************)
PassIsObserved ==
    Passed =>
      LET good(r, p) ==
            /\ r.platform = p /\ r.commit = report.in.expected
            /\ r.sees.enough /\ Failures(r) = {}
            /\ r.sees.stage >= report.in.stage
            /\ report.in.stage >= 1 => \A t \in AllTests : r.sees.test[t] = "passed"
            /\ report.in.stage = 1 => /\ r.sees.exitedZero /\ r.sees.snapshot = Pinned
                                      /\ \E d \in Digest : r.sees.builds = {<<1, d>>, <<2, d>>}
            /\ report.in.stage = 2 => r.sees.corpus
      IN  /\ \A p \in Required : \E r \in report.in.platforms : good(r, p)
          /\ report.in.stage = 2 => \A t \in AnyTests :
                 \E r \in report.in.platforms : r.platform \in Required /\ r.sees.test[t] = "passed"

(***************************************************************************)
(* gate.ts: "evidence from two different trees is not cross-platform       *)
(* evidence".  When git answered and no checkout moved under a running     *)
(* process, a PASS is about one tree: every record that stands was made on *)
(* the judged commit, and without --commit so were the report's own half   *)
(* and its face.                                                           *)
(***************************************************************************)
PassIsOneTree ==
    Passed /\ report.in.expected # Unknown =>
        /\ \A r \in Stands(report.in) : r.still => r.tested = report.in.expected
        /\ report.still /\ report.flag = None =>
               /\ report.measured = report.in.expected
               /\ report.pc = "written" => report.commit \in {report.measured, Unknown}

(***************************************************************************)
(* Whatever else lies in the evidence directory, a record that cannot      *)
(* stand for its platform changes no row.                                  *)
(***************************************************************************)
UnusableIsIgnored ==
    Judged => \A r \in report.in.platforms \ UsablePlatforms(report.in) :
                  Rows([report.in EXCEPT !.platforms = @ \ {r}]) = report.rows

\* No record and no measurement of the report itself shows anything broken.
NothingBroken(in) ==
    /\ in.own.fitness /\ in.own.contracts /\ in.own.adrs /\ in.own.champion # "failed"
    /\ \A f \in in.own.rules : f.enforced \/ (f.whileAbsent # {} /\ in.own.present = {})
    /\ \A r \in in.platforms :
           /\ Failures(r) = {} /\ r.sees.exitedZero /\ r.sees.corpus
           /\ r.sees.snapshot = Pinned /\ r.sees.tree = Pinned
           /\ Cardinality({b[2] : b \in r.sees.builds}) <= 1

(***************************************************************************)
(* render.ts: a row is unproven when the observation was never made, "that *)
(* is deliberately not the same as fail".  Records that are missing, from  *)
(* another commit or of an earlier stage fail no row but H1.               *)
(***************************************************************************)
AbsenceNeverFails ==
    Judged /\ NothingBroken(report.in) =>
        \A id \in DOMAIN report.rows \ {"H1"} : report.rows[id] # "fail"

\* The same of every row, as render.ts says it: H1 breaks it.
UnmeasuredIsUnproven ==
    Judged /\ NothingBroken(report.in) =>
        \A id \in DOMAIN report.rows : report.rows[id] # "fail"

=============================================================================
