----------------------------- MODULE TrialProcess -----------------------------
(***************************************************************************)
(* runTrialProcess (tools/harness/src/trial-process.ts): the host runs one *)
(* agent as a child process, collects its output, and stops it when it     *)
(* runs too long or writes too much: SIGTERM, a grace, SIGKILL, a grace,   *)
(* and then the result without waiting for the child's `close`.            *)
(*                                                                         *)
(* The host is one event loop: each callback is an action.  Time is        *)
(* counted in units, and a timer that is due fires before time goes on:    *)
(* the loop is never blocked while a trial runs.                           *)
(***************************************************************************)
EXTENDS Naturals

CONSTANTS
    Timeout,     \* timeoutMs
    Grace,       \* killGraceMs
    MaxBuffer,   \* maxBufferBytes
    MaxChunk,    \* bound on the length of one chunk of output
    Horizon,     \* bound on time, beyond every deadline of the trial
    Unset

ASSUME TrialAssumption ==
    /\ Timeout \in Nat \ {0}
    /\ Grace \in Nat \ {0}
    /\ MaxBuffer \in Nat
    /\ MaxChunk \in Nat
    /\ Horizon \in Nat /\ Horizon > Timeout + 2 * Grace
    /\ Unset \notin Nat

Timer  == {"timer", "escalation", "settlement"}
Stream == {"stdout", "stderr"}
Exit   == {"zero", "nonzero", "SIGTERM", "SIGKILL"}

\* status and signal in one: an exit, or "none" for finish(null, null).
Result == [ending : Exit \union {"none"}, timedOut : BOOLEAN,
           error : {"none", "spawn", "overflow"}, kept : [Stream -> Nat]]

ASSUME UnsetIsNoResult == Unset \notin Result

VARIABLES
    now,        \* time since the spawn
    child,      \* "spawning", "running", "failed" (to start), or how it exited
    inherited,  \* external: does a descendant hold the output pipes?
    closed,     \* has the child's `close` been delivered?
    due,        \* when each timer fires, or Unset
    termAt,     \* when SIGTERM was sent: `escalation !== undefined`
    killAt,     \* when SIGKILL was sent
    timedOut, error, bytes,
    kept,       \* bytes of each stream in its buffer
    lost,       \* streams a chunk of which was dropped
    result      \* what the promise was resolved with, or Unset

process     == <<child, inherited, closed>>
output      == <<bytes, kept, lost>>
processVars == <<now, process, due, termAt, killAt, timedOut, error, output, result>>

ProcessTypeOK ==
    /\ now \in Nat
    /\ child \in {"spawning", "running", "failed"} \union Exit
    /\ inherited \in BOOLEAN
    /\ closed \in BOOLEAN
    /\ due \in [Timer -> Nat \union {Unset}]
    /\ termAt \in Nat \union {Unset}
    /\ killAt \in Nat \union {Unset}
    /\ timedOut \in BOOLEAN
    /\ error \in {"none", "spawn", "overflow"}
    /\ bytes \in Nat
    /\ kept \in [Stream -> Nat]
    /\ lost \subseteq Stream
    /\ result \in Result \union {Unset}

ProcessInit ==
    /\ now = 0
    /\ child = "spawning"
    /\ inherited = FALSE
    /\ closed = FALSE
    /\ due = [t \in Timer |-> IF t = "timer" THEN Timeout ELSE Unset]
    /\ termAt = Unset
    /\ killAt = Unset
    /\ timedOut = FALSE
    /\ error = "none"
    /\ bytes = 0
    /\ kept = [s \in Stream |-> 0]
    /\ lost = {}
    /\ result = Unset

-----------------------------------------------------------------------------
(***************************************************************************)
(* The two inner functions.                                                *)
(***************************************************************************)

\* Wrong variant: every reason to stop the child starts a ladder of its own.
TerminateAgain(rest) ==
    /\ termAt' = now
    /\ due' = [rest EXCEPT !["escalation"] = now + Grace]

\* terminate: the first reason to stop the child sends SIGTERM, later ones nothing.
Terminate(rest) ==
    IF termAt # Unset
      THEN /\ due' = rest
           /\ UNCHANGED termAt
      ELSE /\ termAt' = now
           /\ due' = [rest EXCEPT !["escalation"] = now + Grace]

\* Wrong variant: the last caller's result wins.
FinishAgain(ending, why) ==
    /\ result' = [ending |-> ending, timedOut |-> timedOut, error |-> why, kept |-> kept]
    /\ due' = [t \in Timer |-> Unset]

\* finish: the first caller resolves the promise and clears the timers.
Finish(ending, why) ==
    IF result # Unset
      THEN UNCHANGED <<result, due>>
      ELSE /\ result' = [ending |-> ending, timedOut |-> timedOut, error |-> why,
                         kept |-> kept]
           /\ due' = [t \in Timer |-> Unset]

Fired(t) == [due EXCEPT ![t] = Unset]

-----------------------------------------------------------------------------
(***************************************************************************)
(* Timers.                                                                 *)
(***************************************************************************)

\* Time passes while the host waits, never past a timer that is due.
Tick ==
    /\ result = Unset /\ now < Horizon
    /\ \A t \in Timer : due[t] # Unset => now < due[t]
    /\ now' = now + 1
    /\ UNCHANGED <<process, due, termAt, killAt, timedOut, error, output, result>>

TimeoutFires ==
    /\ due["timer"] = now
    /\ timedOut' = TRUE
    /\ Terminate(Fired("timer"))
    /\ UNCHANGED <<now, process, killAt, error, output, result>>

\* Wrong variant: after SIGKILL the host waits for `close` alone.
EscalationTrustsKill ==
    /\ due["escalation"] = now
    /\ killAt' = now
    /\ due' = Fired("escalation")
    /\ UNCHANGED <<now, process, termAt, timedOut, error, output, result>>

EscalationFires ==
    /\ due["escalation"] = now
    /\ killAt' = now
    /\ due' = [Fired("escalation") EXCEPT !["settlement"] = now + Grace]
    /\ UNCHANGED <<now, process, termAt, timedOut, error, output, result>>

SettlementFires ==
    /\ due["settlement"] = now
    /\ Finish("SIGKILL", error)
    /\ UNCHANGED <<now, process, termAt, killAt, timedOut, error, output>>

-----------------------------------------------------------------------------
(***************************************************************************)
(* Events of the child.                                                    *)
(***************************************************************************)

\* The command cannot be started: `error`, followed by `close`.
SpawnError ==
    /\ child = "spawning"
    /\ child' = "failed"
    /\ error' = "spawn"
    /\ Finish("none", "spawn")
    /\ UNCHANGED <<now, inherited, closed, termAt, killAt, timedOut, output>>

(***************************************************************************)
(* A chunk arrives, from the child or a descendant, also after the result. *)
(* Once the limit has been passed every chunk is dropped; how far past is  *)
(* not counted.                                                            *)
(***************************************************************************)
Data(s, n) ==
    /\ child \notin {"spawning", "failed"} /\ ~closed
    /\ bytes' = IF bytes + n > MaxBuffer THEN MaxBuffer + 1 ELSE bytes + n
    /\ IF bytes + n > MaxBuffer
         THEN /\ error' = IF error = "none" THEN "overflow" ELSE error
              /\ lost' = lost \union {s}
              /\ Terminate(due)
              /\ UNCHANGED kept
         ELSE /\ kept' = [kept EXCEPT ![s] = @ + n]
              /\ UNCHANGED <<error, lost, due, termAt>>
    /\ UNCHANGED <<now, process, killAt, timedOut, result>>

\* Wrong variant: the result is taken at `exit`, before the pipes are empty.
CloseAtExit ==
    /\ child \in Exit /\ ~closed
    /\ closed' = ~inherited
    /\ Finish(child, error)
    /\ UNCHANGED <<now, child, inherited, termAt, killAt, timedOut, error, output>>

\* `close`: the child is gone and nobody holds its pipes.
Close ==
    /\ child \in Exit \union {"failed"}
    /\ ~inherited /\ ~closed
    /\ closed' = TRUE
    /\ Finish(IF child = "failed" THEN "none" ELSE child, error)
    /\ UNCHANGED <<now, child, inherited, termAt, killAt, timedOut, error, output>>

-----------------------------------------------------------------------------
(***************************************************************************)
(* External: the child and its descendants.                                *)
(***************************************************************************)

Becomes(c, held) ==
    /\ child' = c
    /\ inherited' = held
    /\ UNCHANGED <<now, closed, due, termAt, killAt, timedOut, error, output, result>>

Spawned == child = "spawning" /\ Becomes("running", FALSE)

\* It ends by itself, or by a signal it was sent and did not ignore.
Exits(how) ==
    /\ child = "running"
    /\ how = "SIGTERM" => termAt # Unset
    /\ how = "SIGKILL" => killAt # Unset
    /\ Becomes(how, inherited)

\* A descendant inherits the pipes; SIGTERM and SIGKILL do not reach it.
DescendantStarts == child = "running" /\ ~inherited /\ Becomes(child, TRUE)
DescendantEnds   == inherited /\ Becomes(child, FALSE)

-----------------------------------------------------------------------------
HostStep == TimeoutFires \/ EscalationFires \/ SettlementFires

ProcessNext ==
    \/ Tick \/ HostStep \/ SpawnError \/ Close
    \/ \E s \in Stream, n \in 1 .. MaxChunk : Data(s, n)
    \/ Spawned \/ DescendantStarts \/ DescendantEnds
    \/ \E how \in Exit : Exits(how)

ProcessSpec == ProcessInit /\ [][ProcessNext]_processVars

\* Time passes and timers fire; nothing is assumed of the child.
Fairness == WF_processVars(Tick) /\ WF_processVars(HostStep)

FairSpec == ProcessSpec /\ Fairness

-----------------------------------------------------------------------------
(***************************************************************************)
(* The trial is over within its timeout and two graces, whatever the child *)
(* and its descendants do, also when the limit on output and the timeout   *)
(* both want to stop it.                                                   *)
(***************************************************************************)
WithinBound == now <= Timeout + 2 * Grace

\* The trial does get a result.
Settles == <>(result # Unset)

(***************************************************************************)
(* What was reported stays: the events that still arrive after a result,   *)
(* `close` after `error` or after the settlement among them, change        *)
(* nothing.                                                                *)
(***************************************************************************)
ResultFinal == [][result # Unset => result' = result]_processVars

(***************************************************************************)
(* One ladder: one SIGTERM, one SIGKILL no sooner than a grace later, and  *)
(* no signal to a process that was already reported on.                    *)
(***************************************************************************)
OneLadder ==
    [][/\ termAt # Unset => termAt' = termAt
       /\ killAt # Unset => killAt' = killAt
       /\ killAt' # killAt => /\ termAt # Unset
                              /\ now >= termAt + Grace
                              /\ result = Unset
       /\ termAt' # termAt => result = Unset]_processVars

(***************************************************************************)
(* What is reported of a stream is a beginning of what was written to it,  *)
(* and the two together fit the limit: nothing follows a dropped chunk.    *)
(***************************************************************************)
OutputIsPrefix ==
    [][/\ \A s \in lost : kept'[s] = kept[s]
       /\ kept'["stdout"] + kept'["stderr"] <= MaxBuffer]_processVars

(***************************************************************************)
(* A trial nobody stopped is reported exactly: its own exit, and all it    *)
(* ever wrote.                                                             *)
(***************************************************************************)
OrdinaryExitExact ==
    result # Unset /\ termAt = Unset /\ child # "failed" =>
        /\ result.ending = child
        /\ ~result.timedOut
        /\ result.error = "none"
        /\ result.kept = kept
=============================================================================
