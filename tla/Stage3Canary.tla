---------------------------- MODULE Stage3Canary ----------------------------
(***************************************************************************)
(* The no-model canary of a Stage 3 host (tools/harness): it loads the two *)
(* credentials, opens a proxy, registers a run, drives the hooks and the   *)
(* MCP server in a child between two probes of the sandbox, judges what it *)
(* saw, and leaves one evidence file and an exit code.                     *)
(*                                                                         *)
(* Meanwhile credentials are rotated and revoked (Credentials), HEAD moves,*)
(* answers are lost, steps throw, the process is killed. Two canaries may  *)
(* be given one --out path.                                                *)
(***************************************************************************)
EXTENDS Credentials

CONSTANTS
    Canary,      \* runs of stage3-canary-cli
    Commit,      \* what HEAD may point at
    MaxMoves     \* bound on how often HEAD moves

\* Nobody is no canary, nothing is no commit, and no exit code is no success.
ASSUME CanaryAssumption ==
    /\ None \notin Canary /\ None \notin Commit /\ None # 0
    /\ MaxMoves \in Nat

VARIABLES
    canary,      \* what each run is at, and what it holds; `ran`, `before` and `seen` are history:
                 \* HEAD as the child ran, the moves before the start, and what the probes saw
    evidence,    \* the file at the --out path
    head,        \* HEAD of the checkout
    registered,  \* the plane: runs classified as qualification
    delivered,   \* history: runs whose events the plane accepted, all of them
    moves        \* history: how often HEAD moved
canaryVars == <<canary, evidence, head, registered, delivered, moves>>

NoEvidence   == [is |-> "absent", by |-> None, verdict |-> None, error |-> FALSE]
TornEvidence == [NoEvidence EXCEPT !.is = "torn"]
Evidence(c, verdict, error) == [is |-> "whole", by |-> c, verdict |-> verdict, error |-> error]

CanaryInit ==
    /\ canary = [c \in Canary |->
                   [at |-> "none", start |-> None, ran |-> None, before |-> 0,
                    service |-> None, installation |-> None,
                    findings |-> {}, seen |-> {}, chain |-> FALSE, complete |-> FALSE,
                    verdict |-> "NOT PASSED", exit |-> None]]
    /\ evidence = NoEvidence
    /\ head \in Commit
    /\ registered = {}
    /\ delivered = {}
    /\ moves = 0

At(c, step) == canary[c].at = step

Goes(c, step) == canary' = [canary EXCEPT ![c].at = step]

Exits(c, code) == canary' = [canary EXCEPT ![c].at = "ended", ![c].exit = code]

\* An error outside the try ends the process before anything was written.
Uncaught(c) == Exits(c, 1) /\ UNCHANGED <<evidence, head, registered, delivered, moves>>

Throws(c) == Goes(c, "catch")

\* The checks of the host: platform, versions, tools, links or namespaces.
InspectHost(c) ==
    /\ At(c, "none")
    /\ \/ Exits(c, 69)
       \/ canary' = [canary EXCEPT ![c].at = "load", ![c].start = head,
                                        ![c].before = moves]
    /\ UNCHANGED <<evidence, head, registered, delivered, moves>>

LoadPlaneConfig(c) ==
    /\ At(c, "load")
    /\ IF \A k \in Principal : credential[k].is = "whole"
       THEN /\ canary' = [canary EXCEPT ![c].at = "proxy",
                                        ![c].service = credential["service"].token,
                                        ![c].installation = credential["installation"].token]
            /\ UNCHANGED <<evidence, head, registered, delivered, moves>>
       ELSE Uncaught(c)

\* The authenticated path is asked, then a proxy listens.
OpenProxy(c) ==
    /\ At(c, "proxy")
    /\ \/ /\ Authenticates("installation", canary[c].installation)
          /\ Goes(c, "fixture")
          /\ UNCHANGED <<evidence, head, registered, delivered, moves>>
       \/ Uncaught(c)

\* A repository is made and `ieos init --with-hooks` run in it.
MakeFixture(c) ==
    /\ At(c, "fixture")
    /\ Goes(c, "register") \/ Throws(c)
    /\ UNCHANGED <<evidence, head, registered, delivered, moves>>

\* The request may not arrive, be refused, or its answer be lost.
RegisterCanary(c) ==
    /\ At(c, "register")
    /\ \/ Throws(c) /\ UNCHANGED registered
       \/ /\ Authenticates("service", canary[c].service)
          /\ registered' = registered \union {c}
          /\ Goes(c, "before") \/ Throws(c)
    /\ UNCHANGED <<evidence, head, delivered, moves>>

\* A wrong merge: the later probe replaces what the earlier one found.
LatestFindings(c, found) == {found}

\* strictestOf: what either probe or the mechanism denied is denied.
Findings(c, found) == canary[c].findings \union {found}

\* The sandbox as the environment makes it: the probe, and on Linux the mechanism's report.
Probe(c, step, next) ==
    /\ At(c, step)
    /\ \E found \in {"held", "escaped"} :
           canary' = [canary EXCEPT ![c].at = next, ![c].findings = Findings(c, found),
                                        ![c].seen = @ \union {found}]
    /\ UNCHANGED <<evidence, head, registered, delivered, moves>>

ProbeBefore(c) == Probe(c, "before", "child")
ProbeAfter(c)  == Probe(c, "after", "judge")

\* The child: SessionStart, resolve, a restart, inspect, observe, SessionEnd. It exits 0
\* only when every step went well; the run reads COMPLETE only when all was acknowledged.
RunChild(c) ==
    /\ At(c, "child")
    /\ \E chain, complete \in BOOLEAN :
         /\ complete => Authenticates("installation", canary[c].installation)
         /\ delivered' = IF complete THEN delivered \union {c} ELSE delivered
         /\ canary' = [canary EXCEPT ![c].at = "after", ![c].chain = chain,
                                     ![c].complete = complete, ![c].ran = head]
    /\ UNCHANGED <<evidence, head, registered, moves>>

Passed(c, integrity) ==
    /\ canary[c].chain
    /\ canary[c].findings = {"held"}
    /\ integrity
    /\ canary[c].complete

Judge(c) ==
    /\ At(c, "judge")
    /\ \/ Throws(c)    \* the integrity report, or the run's rows, cannot be read
       \/ \E integrity \in BOOLEAN :
            canary' = [canary EXCEPT ![c].at = "recheck",
                         ![c].verdict = IF Passed(c, integrity) THEN "PASSED" ELSE "NOT PASSED"]
    /\ UNCHANGED <<evidence, head, registered, delivered, moves>>

HeadHeld(c) == head = canary[c].start

CheckHead(c) ==
    /\ At(c, "recheck")
    /\ IF HeadHeld(c) THEN Goes(c, "write") ELSE Throws(c)
    /\ UNCHANGED <<evidence, head, registered, delivered, moves>>

WriteEvidence(c) ==
    /\ At(c, "write")
    /\ \/ Throws(c) /\ evidence' \in {evidence, TornEvidence}
       \/ /\ evidence' = Evidence(c, canary[c].verdict, FALSE)
          /\ Exits(c, IF canary[c].verdict = "PASSED" THEN 0 ELSE 3)
    /\ UNCHANGED <<head, registered, delivered, moves>>

\* The catch block adds the error to the evidence there is, its verdict included.
WriteFailure(c) ==
    /\ At(c, "catch")
    /\ evidence' = Evidence(c, canary[c].verdict, TRUE)
    /\ Exits(c, 3)
    /\ UNCHANGED <<head, registered, delivered, moves>>

CanaryDies(c) ==
    /\ canary[c].at \notin {"none", "ended", "dead"}
    /\ Goes(c, "dead")
    /\ \/ evidence' = evidence
       \/ At(c, "write") /\ evidence' = TornEvidence
       \/ At(c, "catch") /\ evidence' = TornEvidence
    /\ UNCHANGED <<head, registered, delivered, moves>>

\* A commit, a checkout or a reset: HEAD may come back to where it was.
MoveHead(c) ==
    /\ moves < MaxMoves
    /\ c # head
    /\ head' = c
    /\ moves' = moves + 1
    /\ UNCHANGED <<canary, evidence, registered, delivered>>

CanaryNext ==
    \/ \E c \in Canary :
         \/ InspectHost(c) \/ LoadPlaneConfig(c) \/ OpenProxy(c) \/ MakeFixture(c)
         \/ RegisterCanary(c) \/ ProbeBefore(c) \/ RunChild(c) \/ ProbeAfter(c) \/ Judge(c)
         \/ CheckHead(c) \/ WriteEvidence(c) \/ WriteFailure(c) \/ CanaryDies(c)
    \/ \E c \in Commit : MoveHead(c)

Init == CredentialsInit /\ CanaryInit
Next == \/ CredentialsNext /\ UNCHANGED canaryVars
        \/ CanaryNext /\ UNCHANGED credentialVars

Spec == Init /\ [][Next]_<<credentialVars, canaryVars>>

----------------------------------------------------------------------------
TypeOK ==
    /\ CredentialsTypeOK
    /\ \A c \in Canary :
         /\ canary[c].exit \in {None, 0, 1, 3, 69}
         /\ canary[c].exit # None <=> canary[c].at = "ended"
         /\ canary[c].findings \subseteq {"held", "escaped"}
         /\ {canary[c].service, canary[c].installation} \subseteq AuthCommand \union {None}
    /\ evidence.is \in {"absent", "torn", "whole"}
    /\ head \in Commit /\ moves \in 0 .. MaxMoves

\* A canary that exits 0, and an evidence file that reads PASSED, stand for a run the plane
\* registered before its first event and whose events it accepted whole, for a child that
\* went through, and for two probes that found nothing; and unless the file carries an
\* error too, for one revision: the child ran at the HEAD the canary started from. HEAD is
\* read at the two ends only, so one thing is excepted: it moved away before the child ran
\* and was moved back before the second reading, two moves behind the canary.
PassedIsObserved ==
    \A c \in Canary :
        (canary[c].exit = 0 \/ (evidence.by = c /\ evidence.verdict = "PASSED")) =>
            /\ c \in registered /\ c \in delivered
            /\ canary[c].chain
            /\ "escaped" \notin canary[c].seen
            /\ canary[c].exit = 0 \/ ~evidence.error =>
                   canary[c].ran = canary[c].start \/ moves >= canary[c].before + 2

\* "canary is no-model and fail-closed" (stage-3-plan.md): when the canary has ended, a file
\* that reads PASSED is of a canary that exited 0.
VerdictIsTheExit ==
    evidence.verdict = "PASSED" /\ canary[evidence.by].at = "ended"
        => canary[evidence.by].exit = 0
=============================================================================
