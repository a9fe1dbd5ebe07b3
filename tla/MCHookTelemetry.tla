--------------------------- MODULE MCHookTelemetry ---------------------------
(***************************************************************************)
(* Instances of HookTelemetry small enough for TLC.                        *)
(***************************************************************************)
EXTENDS HookTelemetry, TLC

CONSTANTS r1, r2, s1, s2, h1, h2, h3, d1, legacyEmitter

MCEmitter  == Hook \union {legacyEmitter}
MCSequence == 0 .. MaxAttribution

\* One event left in the queue by a version that kept no history.
OneLegacy == {[emitter |-> legacyEmitter, sequence |-> 0, run |-> CHOOSE r \in Run : TRUE]}
NoLegacy  == {}

\* Hook processes and documents are interchangeable.
Interchangeable == Permutations(Hook) \union Permutations(DocId)

(***************************************************************************)
(* What can still matter of a state: the scratch memory of a process that  *)
(* has ended cannot, nor what was staged before a process that will not    *)
(* flush.                                                                  *)
(***************************************************************************)
Relevant ==
    << localVars, pc, durable,
       [p \in Hook |->
           << hook[p], session[p], seen[p], outcome[p],
              IF Flushes(hook[p]) THEN before[p] ELSE None,
              IF pc[p] \in Ended THEN None
              ELSE << toEmit[p], emitted[p], queue[p], leftover[p],
                      IF pc[p] = "send" THEN <<batch[p], attempt[p]>>
                      ELSE IF pc[p] = "ack" THEN <<batch[p], accepted[p]>>
                      ELSE None >> >>] >>
=============================================================================
