---------------------------- MODULE MCStage3Gate ----------------------------
(***************************************************************************)
(* An instance of Stage3Gate: one task of each bank, the whole matrix      *)
(* once, and everything a trial can lack or get wrong, about one thing at  *)
(* a time.                                                                 *)
(***************************************************************************)
EXTENDS Stage3Gate, TLC

CONSTANTS p, h, r1, r2

Matrix == {[task |-> p, arm |-> "eos", n |-> 1],
           [task |-> h, arm |-> "eos", n |-> 1],
           [task |-> h, arm |-> "native", n |-> 1]}

Inside == [deniedVisible |-> FALSE, pid1 |-> TRUE, controlRefused |-> TRUE,
           socket |-> "mounted"]

Good == [profile |-> "linux-namespace-v1", linkBefore |-> FALSE, linkAfter |-> FALSE,
         namespace |-> Inside, secret |-> FALSE, sources |-> "project",
         ended |-> "success", denied |-> FALSE, model |-> "asked",
         calls |-> <<"Read">>, wallClock |-> 1, cost |-> 1,
         check |-> [r \in Rule |-> "right"], row |-> "COMPLETE", queued |-> FALSE]

OneFault ==
    [usual      |-> Good,
     linksOut   |-> [Good EXCEPT !.linkAfter = TRUE],
     silent     |-> [Good EXCEPT !.namespace = None, !.ended = "silent", !.calls = <<>>],
     windows    |-> [Good EXCEPT !.profile = "windows-personal-v1", !.namespace = None],
     leaks      |-> [Good EXCEPT !.secret = TRUE, !.sources = "user"],
     refused    |-> [Good EXCEPT !.denied = TRUE],
     otherModel |-> [Good EXCEPT !.model = "other", !.calls = <<"Read", "resolve">>],
     aborted    |-> [Good EXCEPT !.calls = <<"Read", "Read", "Read">>, !.wallClock = 3],
     dear       |-> [Good EXCEPT !.cost = 2],
     unchecked  |-> [Good EXCEPT !.check[r1] = "absent"],
     wrong      |-> [Good EXCEPT !.check[r2] = "wrong"],
     queued     |-> [Good EXCEPT !.queued = TRUE],
     noRow      |-> [Good EXCEPT !.row = "none"]]

\* A trial is unusual, or HEAD and the index may move twice, not both.
Bounded == Unusual = {} \/ moves <= 1

\* What no step or property will look at again: a dead process, what came
\* before a report's verdict.
Relevant ==
    CASE report.pc = "done"    -> <<report, [t \in report.ran |-> job[t]], moves>>
      [] report.pc = "refused" -> <<report>>
      [] OTHER -> <<head, index, moves, pc, job, report, {t \in Trials : record[t] = Torn}>>

Interchangeable == Permutations(Commit) \union Permutations(Digest)
=============================================================================
