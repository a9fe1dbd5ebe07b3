-------------------------- MODULE Stage3GateProofs --------------------------
(***************************************************************************)
(* A campaign, proved for every matrix, every task bank and whatever a     *)
(* trial may show: a trial that could reach outside is never evidence,     *)
(* a proven one was right where it was observed and wrong nowhere, and a   *)
(* campaign that passed is one experiment and a complete one.              *)
(***************************************************************************)
EXTENDS Stage3Gate, FiniteSetTheorems, TLAPS

USE DEF Goto

-----------------------------------------------------------------------------
(***************************************************************************)
(* A whole record is that of its own trial, and of all the trial showed;   *)
(* it is written once, by a process that then is done.                     *)
(***************************************************************************)
Sees(t) == Shows[job[t].saw]

RecordIsOf(t) ==
    /\ record[t] # None => pc[t] \in {"done", "dead"}
    /\ pc[t] \in {"running", "done"} => job[t].saw \in DOMAIN Shows
    /\ Done(t) =>
         /\ pc[t] = "done"
         /\ record[t] = TrialRecord(t, job[t].revision, job[t].digest, Sees(t))

Shaped ==
    /\ pc \in [Trials -> {"idle", "ready", "running", "done", "dead"}]
    /\ job = [t \in Trials |-> job[t]]
    /\ \A t \in Trials : job[t] = [revision |-> job[t].revision, digest |-> job[t].digest,
                                   ranAt |-> job[t].ranAt, served |-> job[t].served,
                                   saw |-> job[t].saw]
    /\ record = [t \in Trials |-> record[t]]

RecordInv == Shaped /\ \A t \in Trials : RecordIsOf(t)

\* A step leaves the other trials as they are.
Apart(t) ==
    \A u \in Trials \ {t} : pc'[u] = pc[u] /\ job'[u] = job[u] /\ record'[u] = record[u]

Moves(t) == Launch(t) \/ AgentStarts(t) \/ WriteRecord(t) \/ Dies(t)

LEMMA TrialStep ==
    ASSUME RecordInv, NEW t \in Trials, Moves(t)
    PROVE  Shaped' /\ Apart(t) /\ RecordIsOf(t)'
  <1>. USE DEF RecordInv, Shaped
  <1>1. CASE Launch(t)
    <2>1. /\ pc[t] = "idle" /\ record[t] = None /\ record' = record
          /\ pc' = [pc EXCEPT ![t] = "ready"]
          /\ job' = [job EXCEPT ![t].revision = head, ![t].digest = index]
      BY <1>1 DEF Launch
    <2>2. pc'[t] = "ready"
      BY <2>1
    <2>3. Shaped' /\ Apart(t)
      BY <2>1 DEF Apart
    <2>4. RecordIsOf(t)'
      BY <2>1, <2>2 DEF RecordIsOf, Done
    <2>. QED  BY <2>3, <2>4
  <1>2. CASE AgentStarts(t)
    <2>1. PICK s \in DOMAIN Shows :
             job' = [job EXCEPT ![t].ranAt = head, ![t].served = index, ![t].saw = s]
      BY <1>2 DEF AgentStarts
    <2>2. pc[t] = "ready" /\ record' = record /\ pc' = [pc EXCEPT ![t] = "running"]
      BY <1>2 DEF AgentStarts
    <2>3. Shaped' /\ Apart(t)
      BY <2>1, <2>2 DEF Apart
    <2>4. job'[t].saw = s /\ record[t] = None
      BY <2>1, <2>2 DEF RecordIsOf
    <2>5. RecordIsOf(t)'
      BY <2>2, <2>4 DEF RecordIsOf, Done
    <2>. QED  BY <2>3, <2>5
  <1>3. CASE WriteRecord(t)
    <2>1. /\ pc[t] = "running" /\ job' = job /\ pc' = [pc EXCEPT ![t] = "done"]
          /\ record' = [record EXCEPT
                ![t] = TrialRecord(t, job[t].revision, job[t].digest, Sees(t))]
      BY <1>3 DEF WriteRecord, Sees
    <2>2. Shaped' /\ Apart(t)
      BY <2>1 DEF Apart
    <2>3. /\ pc'[t] = "done" /\ job'[t].saw \in DOMAIN Shows
          /\ record'[t] = TrialRecord(t, job'[t].revision, job'[t].digest, Sees(t)')
      BY <2>1 DEF RecordIsOf, Sees
    <2>4. RecordIsOf(t)'
      BY <2>3 DEF RecordIsOf
    <2>. QED  BY <2>2, <2>4
  <1>4. CASE Dies(t)
    <2>1. /\ pc[t] \in {"ready", "running"} /\ pc' = [pc EXCEPT ![t] = "dead"]
          /\ job' = [job EXCEPT ![t] = NoJob]
          /\ record' = record \/ record' = [record EXCEPT ![t] = Torn]
      BY <1>4 DEF Dies
    <2>2. record[t] = None
      BY <2>1 DEF RecordIsOf
    <2>3. Shaped' /\ Apart(t)
      BY <2>1 DEF Apart, NoJob
    <2>4. pc'[t] = "dead" /\ record'[t] \in {None, Torn}
      BY <2>1, <2>2
    <2>5. RecordIsOf(t)'
      BY <2>4 DEF RecordIsOf, Done
    <2>. QED  BY <2>3, <2>5
  <1>. QED  BY <1>1, <1>2, <1>3, <1>4 DEF Moves

LEMMA RecordNext == RecordInv /\ [Next]_vars => RecordInv'
  <1>. SUFFICES ASSUME RecordInv, [Next]_vars PROVE RecordInv'
    OBVIOUS
  <1>1. ASSUME NEW t \in Trials, Moves(t) PROVE RecordInv'
    <2>1. Shaped' /\ Apart(t) /\ RecordIsOf(t)'
      BY <1>1, TrialStep
    <2>2. ASSUME NEW u \in Trials \ {t} PROVE RecordIsOf(u)'
      BY <2>1 DEF RecordInv, RecordIsOf, Apart, Done, Sees
    <2>. QED  BY <2>1, <2>2 DEF RecordInv
  <1>2. CASE UNCHANGED <<pc, job, record>>
    BY <1>2 DEF RecordInv, Shaped, RecordIsOf, Done, Sees
  <1>. QED  BY <1>1, <1>2
            DEF Next, Moves, CommitMoves, IndexChanges, ReportStarts, ReportReads, vars

LEMMA RecordStart == Init => RecordInv
  BY DEF Init, NoJob, RecordInv, Shaped, RecordIsOf, Done

\* What the record of a trial says of it.
LEMMA RecordSays ==
    ASSUME RecordInv, NEW t \in Trials, Done(t)
    PROVE  /\ Sees(t) \in Sight
           /\ record[t].eligible = QualificationEligible(Sees(t))
           /\ record[t].status = BuildTrialReport(Sees(t))
           /\ record[t].verdicts = Verdicts(Sees(t))
  <1>1. /\ job[t].saw \in DOMAIN Shows
        /\ record[t] = TrialRecord(t, job[t].revision, job[t].digest, Sees(t))
    BY DEF RecordInv, RecordIsOf
  <1>2. Sees(t) \in Sight
    BY <1>1, ShowsSights DEF Sees
  <1>3. record[t].eligible = QualificationEligible(Sees(t))
    <2>. DEFINE all == TrialRecord(t, job[t].revision, job[t].digest, Sees(t))
    <2>1. all.eligible = QualificationEligible(Sees(t))
      BY DEF TrialRecord
    <2>. HIDE DEF all
    <2>. QED  BY <1>1, <2>1 DEF all
  <1>4. record[t].status = BuildTrialReport(Sees(t))
    BY <1>1 DEF TrialRecord
  <1>5. record[t].verdicts = Verdicts(Sees(t))
    <2>. DEFINE all == TrialRecord(t, job[t].revision, job[t].digest, Sees(t))
    <2>1. all.verdicts = Verdicts(Sees(t))
      BY DEF TrialRecord
    <2>. HIDE DEF all
    <2>. QED  BY <1>1, <2>1 DEF all
  <1>. QED  BY <1>2, <1>3, <1>4, <1>5

-----------------------------------------------------------------------------
(***************************************************************************)
(* Boundaries.                                                             *)
(***************************************************************************)

\* What either probe saw of a link out is in the findings.
LEMMA LinkFound ==
    ASSUME NEW s \in Sight, s.linkBefore \/ s.linkAfter
    PROVE  <<"filesystem", "violated">> \in Findings(s)
  <1>1. StrictestOf(Probe(s.linkBefore), Probe(s.linkAfter))["filesystem"] = "violated"
    BY DEF StrictestOf, Probe, Rank, Boundary, Sight
  <1>. QED  BY <1>1 DEF Findings, Boundary

\* The probes say nothing of processes.
LEMMA ProbesSayNothing ==
    ASSUME NEW s \in Sight
    PROVE  StrictestOf(Probe(s.linkBefore), Probe(s.linkAfter))["process"] = "unproven"
  BY DEF StrictestOf, Probe, Rank, Boundary, Sight

LEMMA EligibleHeld ==
    ASSUME NEW s \in Sight, QualificationEligible(s)
    PROVE  /\ ~s.linkBefore /\ ~s.linkAfter /\ ~s.secret
           /\ s.profile = "linux-namespace-v1" =>
                  /\ s.namespace # None
                  /\ ~s.namespace.deniedVisible /\ s.namespace.pid1
                  /\ s.namespace.controlRefused /\ s.namespace.socket = "mounted"
  <1>1. \A b \in RequiredBoundaries(s.profile) :
           <<b, "violated">> \notin Findings(s) /\ <<b, "proven">> \in Findings(s)
    BY DEF QualificationEligible, IsolationEligible
  <1>2. ~s.linkBefore /\ ~s.linkAfter
    BY <1>1, LinkFound DEF RequiredBoundaries, Boundary, Sight
  <1>3. ~s.secret
    BY DEF QualificationEligible, Integrity
  <1>4. ASSUME s.profile = "linux-namespace-v1"
        PROVE  /\ s.namespace # None
               /\ ~s.namespace.deniedVisible /\ s.namespace.pid1
               /\ s.namespace.controlRefused /\ s.namespace.socket = "mounted"
    <2>1. \A b \in Boundary : <<b, NamespaceFindings(s.namespace)[b]>> \in Findings(s)
      BY <1>4 DEF Findings
    <2>2. \A b \in Boundary : NamespaceFindings(s.namespace)[b] # "violated"
      BY <1>1, <1>4, <2>1 DEF RequiredBoundaries
    <2>3. s.namespace # None
      <3>1. SUFFICES ASSUME s.namespace = None PROVE FALSE
        OBVIOUS
      <3>2. NamespaceFindings(s.namespace)["process"] = "unproven"
        BY <3>1 DEF NamespaceFindings, Boundary
      <3>3. <<"process", "proven">> \notin Findings(s)
        BY <1>4, <3>2, ProbesSayNothing DEF Findings, Boundary
      <3>. QED  BY <1>1, <1>4, <3>3 DEF RequiredBoundaries, Boundary
    <2>. QED  BY <2>2, <2>3 DEF NamespaceFindings, Boundary
  <1>. QED  BY <1>2, <1>3, <1>4

(***************************************************************************)
(* isolation.ts: "anything violated stays violated": no record of a trial  *)
(* that could reach outside, or that held a token, is evidence.            *)
(***************************************************************************)
THEOREM Escape == Spec => []EscapeIsNotEvidence
  <1>1. RecordInv => EscapeIsNotEvidence
    <2>. SUFFICES ASSUME RecordInv, NEW t \in Trials, Done(t), record[t].eligible
                  PROVE  LET s == Shows[job[t].saw]
                         IN  /\ ~s.linkBefore /\ ~s.linkAfter /\ ~s.secret
                             /\ s.profile = "linux-namespace-v1" =>
                                    /\ s.namespace # None
                                    /\ ~s.namespace.deniedVisible /\ s.namespace.pid1
                                    /\ s.namespace.controlRefused /\ s.namespace.socket = "mounted"
      BY DEF EscapeIsNotEvidence
    <2>1. Sees(t) \in Sight /\ QualificationEligible(Sees(t))
      BY RecordSays
    <2>. QED  BY <2>1, EligibleHeld DEF Sees
  <1>. QED  BY RecordStart, RecordNext, <1>1, PTL DEF Spec

-----------------------------------------------------------------------------
(***************************************************************************)
(* Grades.                                                                 *)
(***************************************************************************)

\* A combined claim is proven only if it has parts, and all of them are.
LEMMA AllProven ==
    ASSUME NEW claims, AggregateClaims(claims) = "proven"
    PROVE  claims # {} /\ "failed" \notin claims /\ "unproven" \notin claims
  BY DEF AggregateClaims

\* Of deterministic verdicts alone, every decisive one decides.
LEMMA DeterministicDecide ==
    ASSUME NEW s \in Sight, RanToCompletion(s)
    PROVE  CombineVerdicts(Deterministic(s)) =
             AggregateClaims({v.status : v \in {w \in Deterministic(s) : w.status # "unproven"}})
  <1>1. \A v \in Deterministic(s) : v.kind = "deterministic"
    BY DEF Deterministic, GradeDeterministic
  <1>. DEFINE decisive == {v \in Deterministic(s) : v.status # "unproven"}
              decides(v) == \A w \in decisive : Precedence[v.kind] <= Precedence[w.kind]
  <1>2. \A v \in decisive : decides(v)
    BY <1>1 DEF Precedence
  <1>3. {w \in decisive : decides(w)} = decisive
    BY <1>2
  <1>. QED  BY <1>3 DEF CombineVerdicts

LEMMA GradedRight ==
    ASSUME NEW s \in Sight, CombineVerdicts(Deterministic(s)) = "proven"
    PROVE  /\ RanToCompletion(s)
           /\ \A r \in Rule : s.check[r] # "wrong"
           /\ \E r \in Rule : s.check[r] = "right"
  <1>1. RanToCompletion(s)
    <2>1. SUFFICES ASSUME ~RanToCompletion(s) PROVE FALSE
      OBVIOUS
    <2>2. Deterministic(s) = {}
      BY <2>1 DEF Deterministic
    <2>. QED  BY <2>2 DEF CombineVerdicts, AggregateClaims
  <1>. DEFINE decisive == {v \in Deterministic(s) : v.status # "unproven"}
              claims == {v.status : v \in decisive}
  <1>2. claims # {} /\ "failed" \notin claims
    BY <1>1, DeterministicDecide, AllProven
  <1>3. Deterministic(s) = {GradeDeterministic(r, s) : r \in Rule}
    BY <1>1 DEF Deterministic
  <1>4. \A r \in Rule : s.check[r] \in {"right", "wrong", "absent"}
    BY DEF Sight
  <1>5. ASSUME NEW r \in Rule PROVE s.check[r] # "wrong"
    <2>1. SUFFICES ASSUME s.check[r] = "wrong" PROVE FALSE
      OBVIOUS
    <2>2. GradeDeterministic(r, s) \in Deterministic(s) /\ GradeDeterministic(r, s).status = "failed"
      BY <1>3, <2>1 DEF GradeDeterministic
    <2>3. GradeDeterministic(r, s) \in decisive
      BY <2>2
    <2>. QED  BY <1>2, <2>2, <2>3
  <1>6. \E r \in Rule : s.check[r] = "right"
    <2>1. PICK v \in decisive : TRUE
      BY <1>2
    <2>2. PICK r \in Rule : v = GradeDeterministic(r, s)
      BY <1>3, <2>1
    <2>3. s.check[r] # "absent"
      BY <2>1, <2>2 DEF GradeDeterministic
    <2>. QED  BY <1>4, <1>5, <2>3
  <1>. QED  BY <1>1, <1>5, <1>6

\* What a graded record keeps of the rules.
LEMMA VerdictOfEach ==
    ASSUME NEW s \in Sight, RanToCompletion(s), NEW verdicts, verdicts = Verdicts(s)
    PROVE  LET graded == {v \in verdicts : v.kind = "deterministic"}
           IN  /\ {v.rule : v \in graded} = Rule
               /\ \A v \in graded : v.status = "proven" <=> s.check[v.rule] = "right"
               /\ (\A v \in graded : v.status = "proven") =>
                     \A r \in Rule : s.check[r] # "absent"
  <1>. DEFINE graded == {v \in verdicts : v.kind = "deterministic"}
  <1>1. Deterministic(s) = {GradeDeterministic(r, s) : r \in Rule}
    BY DEF Deterministic
  <1>2. GradeTrace(s).kind # "deterministic"
    BY DEF GradeTrace
  <1>3. graded = {GradeDeterministic(r, s) : r \in Rule}
    <2>1. verdicts = Deterministic(s) \union {GradeTrace(s)}
      BY DEF Verdicts
    <2>2. \A v \in Deterministic(s) : v.kind = "deterministic"
      BY <1>1 DEF GradeDeterministic
    <2>. QED  BY <1>1, <1>2, <2>1, <2>2
  <1>4. ASSUME NEW r \in Rule
        PROVE  /\ GradeDeterministic(r, s).rule = r
               /\ GradeDeterministic(r, s).status = "proven" <=> s.check[r] = "right"
    <2>1. s.check[r] \in {"right", "wrong", "absent"}
      BY DEF Sight
    <2>. QED  BY <2>1 DEF GradeDeterministic
  <1>5. {v.rule : v \in graded} = Rule
    BY <1>3, <1>4
  <1>6. \A v \in graded : v.status = "proven" <=> s.check[v.rule] = "right"
    BY <1>3, <1>4
  <1>7. (\A v \in graded : v.status = "proven") => \A r \in Rule : s.check[r] # "absent"
    BY <1>3, <1>4
  <1>. QED  BY <1>5, <1>6, <1>7

LEMMA ProvenHeld ==
    ASSUME NEW s \in Sight, BuildTrialReport(s) = "proven"
    PROVE  /\ RanToCompletion(s)
           /\ s.ended = "success" /\ ~s.denied /\ QualificationEligible(s)
           /\ \A r \in Rule : s.check[r] # "wrong"
           /\ \E r \in Rule : s.check[r] = "right"
           /\ \A a \in Used(s) : a[1] <= 2 * a[2]
  <1>. DEFINE grade == CombineVerdicts(Deterministic(s))
              claims == {grade}
                        \union (IF ClassifyUsage(s) = "aborted" THEN {"failed"} ELSE {})
                        \union (IF QualificationEligible(s) THEN {} ELSE {"unproven"})
                        \union (IF Completed(s) THEN {} ELSE {"unproven"})
  <1>1. "failed" \notin claims /\ "unproven" \notin claims
    <2>1. AggregateClaims(claims) = "proven"
      BY DEF BuildTrialReport
    <2>. HIDE DEF claims
    <2>. QED  BY <2>1, AllProven
  <1>2. grade = "proven"
    <2>1. grade \in {"proven", "unproven", "failed"}
      BY DEF CombineVerdicts, AggregateClaims
    <2>. QED  BY <1>1, <2>1
  <1>3. QualificationEligible(s) /\ ClassifyUsage(s) # "aborted"
    BY <1>1
  <1>4. /\ RanToCompletion(s)
        /\ \A r \in Rule : s.check[r] # "wrong"
        /\ \E r \in Rule : s.check[r] = "right"
    BY <1>2, GradedRight
  <1>5. ASSUME NEW a \in Used(s) PROVE a[1] <= 2 * a[2]
    <2>1. ~(\E b \in Used(s) : b[1] > b[2] * ABORT_MULTIPLIER)
      BY <1>3 DEF ClassifyUsage
    <2>2. a[1] \in Nat /\ a[2] \in Nat
      BY BudgetIsNat DEF Used, Sight
    <2>. QED  BY <2>1, <2>2 DEF ABORT_MULTIPLIER
  <1>. QED  BY <1>3, <1>4, <1>5 DEF RanToCompletion, Completed

(***************************************************************************)
(* collect.ts: "pessimistic and conjunctive": a trial that is proven was   *)
(* right wherever a check looked, somewhere at least, and its record says  *)
(* of each rule whether one did.                                           *)
(***************************************************************************)
THEOREM Proven == Spec => []ProvenIsObserved
  <1>1. RecordInv => ProvenIsObserved
    <2>. SUFFICES ASSUME RecordInv, NEW t \in Trials, Done(t), record[t].status = "proven"
                  PROVE  LET s == Shows[job[t].saw]
                             graded == {v \in record[t].verdicts : v.kind = "deterministic"}
                         IN  /\ s.ended = "success" /\ ~s.denied /\ record[t].eligible
                             /\ \A a \in Used(s) : a[1] <= 2 * a[2]
                             /\ \A r \in Rule : s.check[r] # "wrong"
                             /\ \E r \in Rule : s.check[r] = "right"
                             /\ {v.rule : v \in graded} = Rule
                             /\ \A v \in graded : v.status = "proven" <=> s.check[v.rule] = "right"
                             /\ AllRulesPassed(record[t]) => \A r \in Rule : s.check[r] # "absent"
      BY DEF ProvenIsObserved
    <2>. DEFINE graded == {v \in record[t].verdicts : v.kind = "deterministic"}
    <2>1. Sees(t) \in Sight /\ BuildTrialReport(Sees(t)) = "proven"
      BY RecordSays
    <2>2. record[t].eligible = QualificationEligible(Sees(t)) /\ record[t].verdicts = Verdicts(Sees(t))
      BY RecordSays
    <2>3. /\ RanToCompletion(Sees(t))
          /\ Sees(t).ended = "success" /\ ~Sees(t).denied /\ record[t].eligible
          /\ \A a \in Used(Sees(t)) : a[1] <= 2 * a[2]
          /\ \A r \in Rule : Sees(t).check[r] # "wrong"
          /\ \E r \in Rule : Sees(t).check[r] = "right"
      BY <2>1, <2>2, ProvenHeld
    <2>4. /\ {v.rule : v \in graded} = Rule
          /\ \A v \in graded : v.status = "proven" <=> Sees(t).check[v.rule] = "right"
          /\ (\A v \in graded : v.status = "proven") =>
                \A r \in Rule : Sees(t).check[r] # "absent"
      BY <2>1, <2>2, <2>3, VerdictOfEach
    <2>5. AllRulesPassed(record[t]) => \A v \in graded : v.status = "proven"
      BY DEF AllRulesPassed, Every
    <2>. QED  BY <2>3, <2>4, <2>5 DEF Sees
  <1>. QED  BY RecordStart, RecordNext, <1>1, PTL DEF Spec

-----------------------------------------------------------------------------
(***************************************************************************)
(* The commit and the index behind a trial.                                *)
(***************************************************************************)

\* How often HEAD and the index must have moved for a trial to be where it is.
MovedBehind(t) ==
    /\ pc[t] = "ready" =>
         /\ head # job[t].revision => moves >= 1
         /\ index # job[t].digest => moves >= 1
    /\ pc[t] \in {"running", "done"} /\ job[t].served # job[t].digest => moves >= 1
    /\ pc[t] = "running" /\ job[t].ranAt # job[t].revision =>
         moves >= 1 /\ (head = job[t].revision => moves >= 2)
    /\ pc[t] = "done" /\ job[t].ranAt # job[t].revision => moves >= 2

\* What a report that is done says, it says of records that no longer change.
ReportIsOf ==
    report.pc = "done" =>
        /\ report.ran \subseteq Trials /\ \A t \in report.ran : Done(t)
        /\ report.verdict = Verdict({record[t] : t \in report.ran}, report.current)

GateInv ==
    /\ RecordInv
    /\ moves \in Nat /\ \A t \in Trials : MovedBehind(t)
    /\ ReportIsOf

LEMMA GateStart == Init => GateInv
  BY RecordStart DEF Init, GateInv, MovedBehind, ReportIsOf

LEMMA BehindTrial ==
    ASSUME GateInv, NEW t \in Trials, Moves(t)
    PROVE  MovedBehind(t)' /\ UNCHANGED moves
  <1>. USE DEF GateInv, MovedBehind
  <1>0. Shaped
    BY DEF RecordInv
  <1>1. CASE Launch(t)
    <2>1. /\ UNCHANGED <<head, index, moves>>
          /\ pc' = [pc EXCEPT ![t] = "ready"]
          /\ job' = [job EXCEPT ![t].revision = head, ![t].digest = index]
      BY <1>1 DEF Launch
    <2>2. pc'[t] = "ready"
      BY <2>1, <1>0 DEF Shaped
    <2>3. job'[t].revision = head /\ job'[t].digest = index
      <3>. HIDE DEF GateInv, MovedBehind
      <3>1. t \in DOMAIN job /\ {"revision", "digest"} \subseteq DOMAIN job[t]
        BY <1>0 DEF Shaped
      <3>. QED  BY <2>1, <3>1
    <2>. QED  BY <2>1, <2>2, <2>3
  <1>2. CASE AgentStarts(t)
    <2>1. PICK s \in DOMAIN Shows :
             job' = [job EXCEPT ![t].ranAt = head, ![t].served = index, ![t].saw = s]
      BY <1>2 DEF AgentStarts
    <2>2. /\ pc[t] = "ready" /\ UNCHANGED <<head, index, moves>>
          /\ pc' = [pc EXCEPT ![t] = "running"]
      BY <1>2 DEF AgentStarts
    <2>3. /\ pc'[t] = "running" /\ job'[t].revision = job[t].revision
          /\ job'[t].digest = job[t].digest
          /\ job'[t].ranAt = head /\ job'[t].served = index
      BY <2>1, <2>2, <1>0 DEF Shaped
    <2>. QED  BY <2>2, <2>3
  <1>3. CASE WriteRecord(t)
    <2>1. /\ pc[t] = "running" /\ head = job[t].revision /\ UNCHANGED <<job, moves>>
          /\ pc' = [pc EXCEPT ![t] = "done"]
      BY <1>3 DEF WriteRecord
    <2>2. pc'[t] = "done"
      BY <2>1, <1>0 DEF Shaped
    <2>. QED  BY <2>1, <2>2
  <1>4. CASE Dies(t)
    <2>1. pc' = [pc EXCEPT ![t] = "dead"] /\ UNCHANGED moves
      BY <1>4 DEF Dies
    <2>2. pc'[t] = "dead"
      BY <2>1, <1>0 DEF Shaped
    <2>. QED  BY <2>1, <2>2
  <1>. QED  BY <1>1, <1>2, <1>3, <1>4 DEF Moves

\* Whoever moves, a whole record stays what it is.
LEMMA DoneStays ==
    ASSUME RecordInv, [Next]_vars, NEW t \in Trials, Done(t)
    PROVE  record'[t] = record[t] /\ job'[t] = job[t] /\ Done(t)'
  <1>1. ASSUME NEW u \in Trials, Moves(u) PROVE record'[t] = record[t] /\ job'[t] = job[t]
    <2>1. pc[t] = "done"
      BY DEF RecordInv, RecordIsOf
    <2>2. pc[u] # "done"
      BY <1>1 DEF Moves, Launch, AgentStarts, WriteRecord, Dies
    <2>3. Apart(u)
      BY <1>1, TrialStep
    <2>. QED  BY <2>1, <2>2, <2>3 DEF Apart
  <1>2. ASSUME UNCHANGED <<pc, job, record>>
        PROVE  record'[t] = record[t] /\ job'[t] = job[t]
    BY <1>2
  <1>3. record'[t] = record[t] /\ job'[t] = job[t]
    BY <1>1, <1>2 DEF Next, Moves, CommitMoves, IndexChanges, ReportStarts, ReportReads, vars
  <1>. QED  BY <1>3 DEF Done

LEMMA ReportNext ==
    ASSUME GateInv, [Next]_vars
    PROVE  ReportIsOf'
  <1>1. RecordInv
    BY DEF GateInv
  <1>2. CASE UNCHANGED report
    <2>. SUFFICES ASSUME report.pc = "done"
                  PROVE  /\ report.ran \subseteq Trials /\ \A t \in report.ran : Done(t)'
                         /\ report.verdict = Verdict({record'[t] : t \in report.ran}, report.current)
      BY <1>2 DEF ReportIsOf, Verdict, ValidateCampaign
    <2>1. /\ report.ran \subseteq Trials /\ \A t \in report.ran : Done(t)
          /\ report.verdict = Verdict({record[t] : t \in report.ran}, report.current)
      BY DEF GateInv, ReportIsOf
    <2>2. \A t \in report.ran : record'[t] = record[t] /\ Done(t)'
      BY <1>1, <2>1, DoneStays
    <2>3. {record'[t] : t \in report.ran} = {record[t] : t \in report.ran}
      BY <2>2
    <2>. QED  BY <2>1, <2>2, <2>3
  <1>3. CASE ReportReads
    <2>. DEFINE records == {record[t] : t \in Recorded}
    <2>1. /\ record' = record
          /\ report' = IF Torn \in records \/ records = {} THEN [pc |-> "refused"]
                       ELSE [pc |-> "done", current |-> report.current, ran |-> Recorded,
                             verdict |-> Verdict(records, report.current)]
      BY <1>3 DEF ReportReads
    <2>2. CASE Torn \in records \/ records = {}
      BY <2>1, <2>2 DEF ReportIsOf
    <2>3. CASE ~(Torn \in records \/ records = {})
      <3>1. /\ report'.ran = Recorded /\ report'.current = report.current
            /\ report'.verdict = Verdict(records, report.current)
        BY <2>1, <2>3
      <3>2. \A t \in Recorded : t \in Trials /\ Done(t)'
        BY <2>1, <2>3 DEF Recorded, Done
      <3>3. {record'[t] : t \in report'.ran} = records
        BY <2>1, <3>1
      <3>. QED  BY <3>1, <3>2, <3>3 DEF ReportIsOf
    <2>. QED  BY <2>2, <2>3
  <1>4. CASE ReportStarts
    BY <1>4 DEF ReportStarts, ReportIsOf
  <1>. QED  BY <1>2, <1>3, <1>4
            DEF Next, Launch, AgentStarts, WriteRecord, Dies, CommitMoves, IndexChanges, vars

LEMMA GateNext == GateInv /\ [Next]_vars => GateInv'
  <1>. SUFFICES ASSUME GateInv, [Next]_vars PROVE GateInv'
    OBVIOUS
  <1>1. RecordInv' /\ ReportIsOf'
    BY RecordNext, ReportNext DEF GateInv
  <1>2. moves' \in Nat /\ \A t \in Trials : MovedBehind(t)'
    <2>1. ASSUME NEW t \in Trials, Moves(t) PROVE <1>2!1 /\ <1>2!2
      <3>1. MovedBehind(t)' /\ UNCHANGED moves /\ UNCHANGED <<head, index>>
        BY <2>1, BehindTrial DEF Moves, Launch, AgentStarts, WriteRecord, Dies
      <3>2. Apart(t)
        BY <2>1, TrialStep DEF GateInv
      <3>3. ASSUME NEW u \in Trials \ {t} PROVE MovedBehind(u)'
        BY <3>1, <3>2 DEF GateInv, MovedBehind, Apart
      <3>. QED  BY <3>1, <3>3 DEF GateInv
    <2>2. ASSUME NEW c \in Commit, CommitMoves(c) PROVE <1>2!1 /\ <1>2!2
      BY <2>2 DEF CommitMoves, GateInv, MovedBehind
    <2>3. ASSUME NEW d \in Digest \union {None}, IndexChanges(d) PROVE <1>2!1 /\ <1>2!2
      BY <2>3 DEF IndexChanges, GateInv, MovedBehind
    <2>4. CASE ReportStarts \/ ReportReads \/ UNCHANGED vars
      BY <2>4 DEF ReportStarts, ReportReads, vars, GateInv, MovedBehind
    <2>. QED  BY <2>1, <2>2, <2>3, <2>4 DEF Next, Moves
  <1>. QED  BY <1>1, <1>2 DEF GateInv

-----------------------------------------------------------------------------
(***************************************************************************)
(* What a verdict says of the records.                                     *)
(***************************************************************************)

\* Each field of a record, of the process that wrote it and of what its trial showed.
LEMMA RecordHas ==
    ASSUME RecordInv, NEW t \in Trials, Done(t)
    PROVE  /\ pc[t] = "done"
           /\ record[t].trial = t
           /\ record[t].revision = job[t].revision
           /\ record[t].digest = job[t].digest
           /\ record[t].graded = RanToCompletion(Sees(t))
           /\ record[t].budget = ClassifyUsage(Sees(t))
           /\ record[t].verdicts = Verdicts(Sees(t))
           /\ record[t].telemetry = ReadTrialTelemetry(Sees(t))
  <1>1. pc[t] = "done" /\ record[t] = TrialRecord(t, job[t].revision, job[t].digest, Sees(t))
    BY DEF RecordInv, RecordIsOf
  <1>. DEFINE all == TrialRecord(t, job[t].revision, job[t].digest, Sees(t))
  <1>2. all.graded = RanToCompletion(Sees(t))
    BY DEF TrialRecord
  <1>3. /\ all.trial = t /\ all.revision = job[t].revision /\ all.digest = job[t].digest
        /\ all.budget = ClassifyUsage(Sees(t)) /\ all.verdicts = Verdicts(Sees(t))
        /\ all.telemetry = ReadTrialTelemetry(Sees(t))
    BY DEF TrialRecord
  <1>. HIDE DEF all
  <1>. QED  BY <1>1, <1>2, <1>3 DEF all

\* The records a PASSED report read.
LEMMA PassedSays ==
    ASSUME GateInv, Passed
    PROVE  LET records == {record[t] : t \in report.ran}
           IN  /\ report.ran \subseteq Trials /\ \A t \in report.ran : Done(t)
               /\ ValidateCampaign(records, report.current)
               /\ LET rows == DeriveRows(records) IN \A id \in DOMAIN rows : rows[id]
  BY DEF GateInv, ReportIsOf, Passed, Verdict

\* Different trials have different records: as many of the one as of the other.
LEMMA AsManyRecords ==
    ASSUME RecordInv, NEW ran \in SUBSET Trials, \A t \in ran : Done(t)
    PROVE  /\ IsFiniteSet(ran) /\ IsFiniteSet({record[t] : t \in ran})
           /\ Cardinality({record[t] : t \in ran}) = Cardinality(ran)
  <1>. DEFINE f == [t \in ran |-> record[t]]
              T == {record[t] : t \in ran}
  <1>1. IsFiniteSet(ran)
    BY RowsAskForTheMatrix, FS_Subset
  <1>2. \A t, u \in ran : record[t] = record[u] => t = u
    BY RecordHas
  <1>3. f \in Surjection(ran, T) /\ f \in Injection(ran, T)
    BY <1>2 DEF Surjection, Injection, IsInjective
  <1>. QED  BY <1>1, <1>3, FS_Surjection

\* One value of a field, and no other.
LEMMA OneOf ==
    ASSUME NEW records, IsFiniteSet(records), NEW field,
           Cardinality(One(records, field)) = 1, NEW r \in records, NEW q \in records
    PROVE  r[field] = q[field]
  <1>. DEFINE f == [x \in records |-> x[field]]
  <1>1. f \in Surjection(records, One(records, field))
    BY DEF Surjection, One
  <1>2. IsFiniteSet(One(records, field))
    BY <1>1, FS_Surjection
  <1>3. PICK v : One(records, field) = {v}
    BY <1>2, FS_Singleton
  <1>. QED  BY <1>3 DEF One

(***************************************************************************)
(* stage3-campaign-report-cli.ts: "one exact repository revision": all     *)
(* trials of a PASSED campaign ran on the commit the report names and      *)
(* served one index, unless something moved behind a running trial.        *)
(***************************************************************************)
THEOREM OneExperiment == Spec => []PassedIsOneExperiment
  <1>1. GateInv => PassedIsOneExperiment
    <2>. SUFFICES ASSUME GateInv, Passed, NEW t \in report.ran
                  PROVE  /\ job[t].revision = report.current
                         /\ job[t].ranAt # report.current => moves >= 2
                         /\ \A o \in report.ran :
                               /\ job[o].digest = job[t].digest
                               /\ job[o].served # job[t].served => moves >= 1
      BY DEF PassedIsOneExperiment
    <2>. DEFINE records == {record[o] : o \in report.ran}
    <2>0. RecordInv /\ \A o \in Trials : MovedBehind(o)
      BY DEF GateInv
    <2>1. /\ report.ran \subseteq Trials /\ \A o \in report.ran : Done(o)
          /\ ValidateCampaign(records, report.current)
      BY PassedSays
    <2>2. \A o \in report.ran : /\ pc[o] = "done" /\ record[o].revision = job[o].revision
                                /\ record[o].digest = job[o].digest
      BY <2>0, <2>1, RecordHas
    <2>3. IsFiniteSet(records)
      BY <2>0, <2>1, AsManyRecords
    <2>4. /\ One(records, "revision") = {report.current}
          /\ Cardinality(One(records, "digest")) = 1
      BY <2>1 DEF ValidateCampaign
    <2>5. job[t].revision = report.current
      BY <2>2, <2>4 DEF One
    <2>6. \A o \in report.ran : record[o] \in records
      OBVIOUS
    <2>. HIDE DEF records
    <2>7. \A o \in report.ran : record[o].digest = record[t].digest
      BY <2>3, <2>4, <2>6, OneOf
    <2>. QED  BY <2>0, <2>1, <2>2, <2>5, <2>7 DEF MovedBehind
  <1>. QED  BY GateStart, GateNext, <1>1, PTL DEF Spec

\* The rows that bear on what is complete, of any records.
LEMMA RowsSay ==
    ASSUME NEW records, LET rows == DeriveRows(records) IN \A id \in DOMAIN rows : rows[id]
    PROVE  LET graded == {r \in records : r.graded}
               first  == {r \in graded : r.trial.task \in Primary}
               tasks  == {r.trial.task : r \in first}
               of(k)  == {r \in first : r.trial.task = k}
           IN  /\ Cardinality(tasks) >= MinTasks
               /\ \A k \in tasks : Cardinality(of(k)) >= MinPerTask
               /\ \A r \in first : AllRulesPassed(r)
               /\ \A r \in records : r.telemetry.state = "COMPLETE" /\ r.telemetry.eligible
               /\ \A r \in graded : r.budget = "within"
  <1>. DEFINE graded == {r \in records : r.graded}
              first  == {r \in graded : r.trial.task \in Primary}
              tasks  == {r.trial.task : r \in first}
              of(k)  == {r \in first : r.trial.task = k}
              rows   == DeriveRows(records)
  <1>1. rows["T1"] /\ rows["T2"] /\ rows["T7"] /\ rows["T9"]
    <2>1. {"T1", "T2", "T7", "T9"} \subseteq DOMAIN rows
      BY DEF DeriveRows
    <2>. QED  BY <2>1
  <1>2. /\ Cardinality(tasks) >= MinTasks
        /\ Every({Cardinality(of(k)) >= MinPerTask : k \in tasks})
    BY <1>1 DEF DeriveRows
  <1>3. Every({AllRulesPassed(r) : r \in first})
    BY <1>1 DEF DeriveRows
  <1>4. Every({r.telemetry.state = "COMPLETE" /\ r.telemetry.eligible : r \in records})
    BY <1>1 DEF DeriveRows
  <1>5. Every({r.budget = "within" : r \in graded})
    BY <1>1 DEF DeriveRows
  <1>6. \A k \in tasks : Cardinality(of(k)) >= MinPerTask
    BY <1>2, Zenon DEF Every
  <1>7. \A r \in first : AllRulesPassed(r)
    BY <1>3, Zenon DEF Every
  <1>8. \A r \in records : r.telemetry.state = "COMPLETE" /\ r.telemetry.eligible
    BY <1>4, Zenon DEF Every
  <1>9. \A r \in graded : r.budget = "within"
    BY <1>5, Zenon DEF Every
  <1>. HIDE DEF graded, first, tasks, of, rows
  <1>. QED  BY <1>2, <1>6, <1>7, <1>8, <1>9 DEF graded, first, tasks, of

\* A graded trial all of whose deterministic rules passed was right about all of them.
LEMMA PassedRules ==
    ASSUME NEW s \in Sight, RanToCompletion(s), NEW r, r.verdicts = Verdicts(s), AllRulesPassed(r)
    PROVE  \A rule \in Rule : s.check[rule] = "right"
  <1>. SUFFICES ASSUME NEW rule \in Rule PROVE s.check[rule] = "right"
    OBVIOUS
  <1>. DEFINE v == GradeDeterministic(rule, s)
  <1>1. v \in Deterministic(s)
    BY DEF Deterministic
  <1>2. v \in {w \in r.verdicts : w.kind = "deterministic"}
    BY <1>1 DEF Verdicts, GradeDeterministic
  <1>3. v.status = "proven"
    <2>. HIDE DEF v
    <2>. QED  BY <1>2, Zenon DEF AllRulesPassed, Every
  <1>4. s.check[rule] \in {"right", "wrong", "absent"}
    BY DEF Sight
  <1>. QED  BY <1>3, <1>4 DEF GradeDeterministic

\* As many trials of a task and an arm as records.
Cell(ran, task, arm) == {t \in ran : t.task = task /\ t.arm = arm}
CellRecords(ran, task, arm) ==
    {r \in {record[t] : t \in ran} : r.trial.task = task /\ r.trial.arm = arm}

LEMMA CellsAgree ==
    ASSUME RecordInv, NEW ran \in SUBSET Trials, \A t \in ran : Done(t), NEW task, NEW arm
    PROVE  /\ IsFiniteSet(CellRecords(ran, task, arm))
           /\ Cardinality(CellRecords(ran, task, arm)) = Cardinality(Cell(ran, task, arm))
  <1>. DEFINE T == Cell(ran, task, arm)
  <1>1. \A t \in ran : record[t].trial = t
    BY RecordHas
  <1>2. CellRecords(ran, task, arm) = {record[t] : t \in T}
    BY <1>1 DEF CellRecords, Cell
  <1>3. T \in SUBSET Trials /\ \A t \in T : Done(t)
    BY DEF Cell
  <1>. HIDE DEF T
  <1>4. /\ IsFiniteSet({record[t] : t \in T})
        /\ Cardinality({record[t] : t \in T}) = Cardinality(T)
    BY <1>3, AsManyRecords
  <1>. QED  BY <1>2, <1>4 DEF T

\* Of a primary task all records are graded, or the first row is not met.
LEMMA PrimaryGraded ==
    ASSUME GateInv, Passed, NEW t \in report.ran, t.task \in Primary
    PROVE  record[t].graded
  <1>. DEFINE records == {record[o] : o \in report.ran}
              first  == {r \in {q \in records : q.graded} : r.trial.task \in Primary}
              tasks  == {r.trial.task : r \in first}
              of(k)  == {r \in first : r.trial.task = k}
              cell   == {r \in records : r.trial.task = t.task /\ r.trial.arm = "eos"}
              native == {r \in records : r.trial.task = t.task /\ r.trial.arm = "native"}
  <1>0. RecordInv
    BY DEF GateInv
  <1>1. /\ report.ran \in SUBSET Trials /\ \A o \in report.ran : Done(o)
        /\ ValidateCampaign(records, report.current)
        /\ LET rows == DeriveRows(records) IN \A id \in DOMAIN rows : rows[id]
    BY PassedSays
  <1>2. Cardinality(cell) = Repeats /\ native = {}
    BY <1>1 DEF ValidateCampaign
  <1>3. /\ Cardinality(tasks) >= MinTasks
        /\ \A k \in tasks : Cardinality(of(k)) >= MinPerTask
    <2>. HIDE DEF records
    <2>. QED  BY <1>1, RowsSay
  <1>4. IsFiniteSet(cell)
    <2>1. IsFiniteSet(CellRecords(report.ran, t.task, "eos"))
      BY <1>0, <1>1, CellsAgree
    <2>. QED  BY <2>1 DEF CellRecords
  <1>5. \A o \in report.ran : record[o].trial = o /\ o.arm \in {"eos", "native"}
    BY <1>0, <1>1, RecordHas, TrialsAreTrials
  <1>6. \A o \in report.ran : o.task = t.task => record[o] \in cell
    BY <1>2, <1>5
  <1>7. of(t.task) \subseteq cell /\ record[t] \in cell
    BY <1>5, <1>6
  <1>8. t.task \in tasks
    <2>1. tasks \subseteq Primary
      OBVIOUS
    <2>. HIDE DEF tasks
    <2>2. IsFiniteSet(tasks) /\ Cardinality(tasks) <= Cardinality(Primary)
      BY <2>1, RowsAskForTheMatrix, FS_Subset
    <2>3. /\ Cardinality(tasks) \in Nat /\ Cardinality(Primary) \in Nat /\ MinTasks \in Nat
          /\ Cardinality(Primary) <= MinTasks
      BY <2>2, RowsAskForTheMatrix, FS_CardinalityType
    <2>4. Cardinality(tasks) = Cardinality(Primary)
      BY <1>3, <2>2, <2>3
    <2>. QED  BY <2>1, <2>4, RowsAskForTheMatrix, FS_Subset
  <1>9. of(t.task) = cell
    <2>. HIDE DEF cell, of, tasks
    <2>1. /\ IsFiniteSet(of(t.task)) /\ Cardinality(of(t.task)) <= Cardinality(cell)
          /\ Cardinality(of(t.task)) \in Nat
      BY <1>4, <1>7, FS_Subset, FS_CardinalityType
    <2>2. Cardinality(of(t.task)) >= MinPerTask /\ Cardinality(cell) = Repeats
      BY <1>2, <1>3, <1>8
    <2>3. Cardinality(of(t.task)) = Cardinality(cell)
      BY <2>1, <2>2, RowsAskForTheMatrix
    <2>. QED  BY <1>4, <1>7, <2>3, FS_Subset
  <1>. QED  BY <1>7, <1>9

(***************************************************************************)
(* stage3-rows.ts: a PASSED campaign holds the whole matrix, each primary  *)
(* trial of which went well, and of no trial is the telemetry lost.        *)
(***************************************************************************)
THEOREM Complete == Spec => []PassedIsComplete
  <1>1. ASSUME GateInv, Passed PROVE PassedIsComplete
    <2>. DEFINE records == {record[o] : o \in report.ran}
    <2>0. RecordInv
      BY <1>1 DEF GateInv
    <2>1. /\ report.ran \in SUBSET Trials /\ \A o \in report.ran : Done(o)
          /\ ValidateCampaign(records, report.current)
          /\ LET rows == DeriveRows(records) IN \A id \in DOMAIN rows : rows[id]
      BY <1>1, PassedSays
    <2>2. /\ \A task \in Primary : Cardinality(CellRecords(report.ran, task, "eos")) = Repeats
          /\ \A task \in Hard, arm \in {"eos", "native"} :
                Cardinality(CellRecords(report.ran, task, arm)) = Repeats
      BY <2>1 DEF ValidateCampaign, CellRecords
    <2>3. \A task, arm : Cardinality(CellRecords(report.ran, task, arm))
                            = Cardinality(Cell(report.ran, task, arm))
      BY <2>0, <2>1, CellsAgree
    <2>4. \A r \in records : r.telemetry.state = "COMPLETE" /\ r.telemetry.eligible
      <3>. HIDE DEF records
      <3>. QED  BY <2>1, RowsSay
    <2>5. ASSUME NEW t \in report.ran
          PROVE  Sees(t).row = "COMPLETE" /\ ~Sees(t).queued
      <3>1. record[t].telemetry = ReadTrialTelemetry(Sees(t))
        BY <2>0, <2>1, RecordHas
      <3>2. /\ ReadTrialTelemetry(Sees(t)).state = "COMPLETE"
            /\ ReadTrialTelemetry(Sees(t)).eligible
        BY <2>4, <3>1
      <3>. QED  BY <3>2 DEF ReadTrialTelemetry
    <2>6. ASSUME NEW t \in report.ran, t.task \in Primary PROVE WentWell(Sees(t))
      <3>. DEFINE s == Sees(t)
      <3>1. /\ s \in Sight
            /\ record[t].trial = t /\ record[t].graded = RanToCompletion(s)
            /\ record[t].budget = ClassifyUsage(s) /\ record[t].verdicts = Verdicts(s)
        BY <2>0, <2>1, RecordHas, RecordSays
      <3>2. record[t].graded
        BY <1>1, <2>6, PrimaryGraded
      <3>3. AllRulesPassed(record[t]) /\ record[t].budget = "within"
        <4>1. /\ \A r \in {q \in records : q.graded} : r.budget = "within"
              /\ \A r \in {q \in {x \in records : x.graded} : q.trial.task \in Primary} :
                    AllRulesPassed(r)
          <5>. HIDE DEF records
          <5>. QED  BY <2>1, RowsSay
        <4>. QED  BY <4>1, <3>1, <3>2, <2>6
      <3>4. RanToCompletion(s)
        BY <3>1, <3>2
      <3>5. \A r \in Rule : s.check[r] = "right"
        <4>. HIDE DEF s
        <4>. QED  BY <3>1, <3>3, <3>4, PassedRules
      <3>6. s.ended = "success" /\ ~s.denied
        BY <3>4 DEF RanToCompletion, Completed
      <3>7. \A a \in Used(s) : ~(a[1] > a[2])
        BY <3>1, <3>3 DEF ClassifyUsage
      <3>8. s.wallClock <= WallClock /\ Len(s.calls) <= ToolCalls /\ s.cost <= Cost
        <4>1. /\ <<s.wallClock, WallClock>> \in Used(s) /\ <<Len(s.calls), ToolCalls>> \in Used(s)
              /\ <<s.cost, Cost>> \in Used(s)
          BY <3>6 DEF Used
        <4>2. /\ {s.wallClock, Len(s.calls), s.cost} \subseteq Nat
              /\ {WallClock, ToolCalls, Cost} \subseteq Nat
          BY <3>1, BudgetIsNat DEF Sight
        <4>. HIDE DEF s
        <4>. QED  BY <3>7, <4>1, <4>2
      <3>9. s.row = "COMPLETE" /\ ~s.queued
        BY <2>5
      <3>. QED  BY <3>5, <3>6, <3>8, <3>9 DEF WentWell
    <2>7. /\ \A task \in Primary : Cardinality(Cell(report.ran, task, "eos")) = Repeats
          /\ \A task \in Hard, arm \in {"eos", "native"} :
                Cardinality(Cell(report.ran, task, arm)) = Repeats
      BY <2>2, <2>3
    <2>. QED  BY <2>5, <2>6, <2>7 DEF PassedIsComplete, Cell, Sees
  <1>2. GateInv => PassedIsComplete
    BY <1>1 DEF PassedIsComplete
  <1>. QED  BY GateStart, GateNext, <1>2, PTL DEF Spec
=============================================================================
