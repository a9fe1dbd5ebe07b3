---------------------------- MODULE MCStageReport ----------------------------
(***************************************************************************)
(* An instance of StageReport small enough for TLC: everything a record    *)
(* can lack or get wrong, one thing at a time.                             *)
(***************************************************************************)
EXTENDS StageReport, TLC

CONSTANTS linux, win32, tAll, tAny

Good == [stage |-> 2, enough |-> TRUE, test |-> [t \in Test |-> "passed"],
         exitedZero |-> TRUE, builds |-> {<<1, Pinned>>, <<2, Pinned>>},
         corpus |-> TRUE, tree |-> Pinned, snapshot |-> Pinned]

OneFault ==
    {Good,
     [Good EXCEPT !.stage = 1, !.builds = {<<1, Pinned>>}],
     [Good EXCEPT !.stage = 0],
     [Good EXCEPT !.test[tAll] = "skipped"],
     [Good EXCEPT !.test[tAny] = "missing", !.corpus = FALSE],
     [Good EXCEPT !.snapshot = "drifted", !.exitedZero = FALSE, !.test[tAll] = "failed",
                  !.builds = {<<1, Pinned>>, <<2, "drifted">>}]}

\* A machine's earlier record, of either commit, with too few tests or a failure.
Leftover ==
    {[platform |-> linux, commit |-> c, tested |-> c, still |-> TRUE, sees |-> s] :
        c \in Commit, s \in {[Good EXCEPT !.enough = FALSE, !.test[tAll] = "failed"]}}

Clean == [fitness |-> TRUE, present |-> {}, champion |-> "passed",
          contracts |-> TRUE, adrs |-> TRUE,
          rules |-> {[enforced |-> TRUE, whileAbsent |-> {}],
                     [enforced |-> FALSE, whileAbsent |-> {"dir"}]}]

Own == {Clean, [Clean EXCEPT !.champion = "skipped", !.present = {"dir"}]}

Interchangeable == Permutations(File) \union Permutations(Commit)

\* A collection matters until its record is written, and until the report has
\* read the records; the checkouts matter until the report is written.
Relevant ==
    CASE report.pc = "idle" ->
           <<checkout, moves, pc, older, file,
             [f \in File |-> IF pc[f] \in {"idle", "done"} THEN None ELSE job[f]]>>
      [] report.pc \in {"threw", "written"} -> <<report>>
      [] OTHER -> <<checkout[Reporter], moves, report>>
=============================================================================
