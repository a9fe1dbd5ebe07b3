--------------------------- MODULE TrialJudgement ---------------------------
(***************************************************************************)
(* What a Stage 3 trial shows and what tools/harness makes of it: the      *)
(* boundaries, the integrity of the experiment, the grade, the budget, the *)
(* telemetry and the record.  State-free; Stage3Gate and Stage3Canary are  *)
(* the processes that use it.                                              *)
(***************************************************************************)
EXTENDS Naturals, Sequences, FiniteSets

CONSTANTS
    Rule,      \* the deterministic rules of a task
    WallClock, ToolCalls, Cost,  \* the budget of a trial
    Model,     \* what a run may report it ran as
    None

ASSUME BudgetIsNat == {WallClock, ToolCalls, Cost} \subseteq Nat

Boundary == {"filesystem", "environment", "process", "network"}
Claim    == {"proven", "unproven", "failed"}

\* What the namespace script wrote down from inside.
Namespace == [deniedVisible : BOOLEAN, pid1 : BOOLEAN, controlRefused : BOOLEAN,
              socket : {"mounted", "undeclared", "missing", "elsewhere", "notUnix"}]

\* What happened in one trial, seen from everywhere.
Sight == [profile : {"linux-namespace-v1", "windows-personal-v1"},
          linkBefore : BOOLEAN, linkAfter : BOOLEAN,
          namespace : Namespace \union {None},
          secret : BOOLEAN, sources : {"project", "user"},
          ended : {"success", "error", "silent"}, denied : BOOLEAN,
          model : Model \union {None},
          calls : Seq(STRING), wallClock : Nat, cost : Nat,
          check : [Rule -> {"right", "wrong", "absent"}],
          row : {"none", "COMPLETE", "INCOMPLETE"}, queued : BOOLEAN]

-----------------------------------------------------------------------------
(***************************************************************************)
(* Isolation.  A report of one prober is a function of the boundaries; of  *)
(* several, a set of pairs.                                                *)
(***************************************************************************)

\* A directory can show that nothing in it leads out, and nothing about
\* processes or the network.  The environment is built from the allowlist.
Probe(link) ==
    [b \in Boundary |-> CASE b = "filesystem" -> IF link THEN "violated" ELSE "proven"
                          [] b = "environment" -> "proven"
                          [] OTHER -> "unproven"]

NamespaceFindings(ns) ==
    LET holds == [filesystem |-> ~ns.deniedVisible /\ ns.socket = "mounted",
                  environment |-> TRUE,
                  process |-> ns.pid1,
                  network |-> ns.controlRefused]
    IN  IF ns = None THEN [b \in Boundary |-> "unproven"]
        ELSE [b \in Boundary |-> IF holds[b] THEN "proven" ELSE "violated"]

Rank == [proven |-> 0, unproven |-> 1, violated |-> 2]

\* Wrong variant: the verdict of the moment before the agent ran.
StrictestIsFirst(before, after) == before

StrictestOf(before, after) ==
    [b \in Boundary |-> IF Rank[after[b]] >= Rank[before[b]] THEN after[b] ELSE before[b]]

\* Kernel boundaries gate on Linux only.
RequiredBoundaries(profile) ==
    IF profile = "linux-namespace-v1" THEN Boundary ELSE {"filesystem", "environment"}

Findings(s) ==
    LET probed == StrictestOf(Probe(s.linkBefore), Probe(s.linkAfter))
        pairs(f) == {<<b, f[b]>> : b \in Boundary}
    IN  pairs(probed) \union (IF s.profile = "linux-namespace-v1"
                                THEN pairs(NamespaceFindings(s.namespace)) ELSE {})

IsolationEligible(s) ==
    \A b \in RequiredBoundaries(s.profile) :
        /\ <<b, "violated">> \notin Findings(s)
        /\ <<b, "proven">> \in Findings(s)

\* The transcript's place, the names of the environment, the tools, the prompt
\* and the socket are fixed by the runner; what can go wrong is below.
Integrity(s) == ~s.secret /\ s.sources = "project"

-----------------------------------------------------------------------------
(***************************************************************************)
(* Grading.                                                                *)
(***************************************************************************)

AggregateClaims(claims) ==
    IF claims = {} THEN "unproven"
    ELSE IF "failed" \in claims THEN "failed"
    ELSE IF "unproven" \in claims THEN "unproven"
    ELSE "proven"

GradeDeterministic(rule, s) ==
    [rule |-> rule, kind |-> "deterministic",
     status |-> CASE s.check[rule] = "absent" -> "unproven"
                  [] s.check[rule] = "right"  -> "proven"
                  [] s.check[rule] = "wrong"  -> "failed"]

\* The one trace rule of every task: `resolve` was called.
GradeTrace(s) ==
    [rule |-> "resolve", kind |-> "trace_rule",
     status |-> CASE s.calls = <<>> -> "unproven"
                  [] \E i \in DOMAIN s.calls : s.calls[i] = "resolve" -> "proven"
                  [] OTHER -> "failed"]

Precedence == [deterministic |-> 0, static_check |-> 1, trace_rule |-> 2, model |-> 3, human |-> 4]

CombineVerdicts(verdicts) ==
    LET decisive == {v \in verdicts : v.status # "unproven"}
        decides(v) == \A w \in decisive : Precedence[v.kind] <= Precedence[w.kind]
    IN  AggregateClaims({v.status : v \in {w \in decisive : decides(w)}})

\* A run completes when its last event says so; one whose tools were refused
\* is not graded.
Completed(s) == s.ended = "success"

\* Wrong variant: tools that were refused are nobody's business.
RanToCompletionDespiteDenials(s) == Completed(s)

RanToCompletion(s) == Completed(s) /\ ~s.denied

Deterministic(s) ==
    IF RanToCompletion(s) THEN {GradeDeterministic(r, s) : r \in Rule} ELSE {}

Verdicts(s) == Deterministic(s) \union (IF RanToCompletion(s) THEN {GradeTrace(s)} ELSE {})

-----------------------------------------------------------------------------
(***************************************************************************)
(* The budget.  Without a result event there is no usage: the clock counts *)
(* as zero and the cost is not judged.                                     *)
(***************************************************************************)

Used(s) == {<<IF s.ended = "silent" THEN 0 ELSE s.wallClock, WallClock>>,
            <<Len(s.calls), ToolCalls>>}
           \union (IF s.ended = "silent" THEN {} ELSE {<<s.cost, Cost>>})

ABORT_MULTIPLIER == 2

ClassifyUsage(s) ==
    IF \E a \in Used(s) : a[1] > a[2] * ABORT_MULTIPLIER THEN "aborted"
    ELSE IF \E a \in Used(s) : a[1] > a[2] THEN "over_budget"
    ELSE "within"

\* runTrial's verdict on the trial as evidence; registration was confirmed or
\* the trial never ran.
QualificationEligible(s) == IsolationEligible(s) /\ Integrity(s)

BuildTrialReport(s) ==
    AggregateClaims(
        {CombineVerdicts(Deterministic(s))}
        \union (IF ClassifyUsage(s) = "aborted" THEN {"failed"} ELSE {})
        \union (IF QualificationEligible(s) THEN {} ELSE {"unproven"})
        \union (IF Completed(s) THEN {} ELSE {"unproven"}))

\* Wrong variant: what the queues still hold is not looked at.
ReadTrialTelemetryUncounted(s) ==
    [state |-> IF s.row = "COMPLETE" THEN "COMPLETE" ELSE "INCOMPLETE",
     eligible |-> s.row = "COMPLETE"]

\* No outbox, or no row for the run, reads as INCOMPLETE.
ReadTrialTelemetry(s) ==
    [state |-> IF s.row = "COMPLETE" THEN "COMPLETE" ELSE "INCOMPLETE",
     eligible |-> s.row = "COMPLETE" /\ ~s.queued]

\* What a trial's file holds; `trial` is its task, arm and number.
TrialRecord(trial, revision, digest, s) ==
    [trial |-> trial, revision |-> revision, digest |-> digest,
     profile |-> s.profile, model |-> s.model,
     status |-> BuildTrialReport(s), graded |-> RanToCompletion(s),
     eligible |-> QualificationEligible(s),
     isolation |-> IsolationEligible(s), integrity |-> Integrity(s),
     budget |-> ClassifyUsage(s), verdicts |-> Verdicts(s),
     telemetry |-> ReadTrialTelemetry(s)]
=============================================================================
