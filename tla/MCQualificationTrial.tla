------------------------- MODULE MCQualificationTrial -------------------------
(***************************************************************************)
(* Instances of QualificationTrial small enough for TLC.                   *)
(***************************************************************************)
EXTENDS QualificationTrial, TLC

\* Processes and commits are interchangeable; so are campaigns and trials.
Interchangeable ==
    Permutations(Host) \union Permutations(Campaign)
      \union Permutations(TrialId) \union Permutations(Revision)
=============================================================================
