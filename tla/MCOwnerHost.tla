---------------------------- MODULE MCOwnerHost ----------------------------
(***************************************************************************)
(* What the owner types on a trusted host, on small instances: `ieos init` *)
(* over a project (Footprint), and the credential commands with the canary *)
(* that uses the credentials (Stage3Canary).                               *)
(*                                                                         *)
(* The two share no file, so they are explored side by side and not        *)
(* interleaved: a behaviour is of the one or of the other.                 *)
(***************************************************************************)
EXTENDS Footprint, Stage3Canary, TLC

CONSTANTS
    i1, i2, i0, here, moved, drive, stop,   \* of Footprint
    a1, a2, a3, c1, main, other             \* of Stage3Canary

\* A project whose owner already uses files `ieos init` merges into, and one that was
\* registered before.
Lived ==
    [path \in Path |->
        CASE path = "AGENTS.md"     -> Held(<<Theirs(0)>>)
          [] path = "mcp.json"      -> Held(<<Theirs(0)>>)
          [] path = "config.toml"   -> Held(<<Theirs(0)>>)
          [] path = "settings.json" -> Held(<<Entry(stop, {"theirs"})>>)
          [] OTHER                  -> Absent]

Registered ==
    [path \in Path |->
        CASE path = "AGENTS.md" ->
                Held(BootstrapParagraph(i0, here) \o <<Theirs(0)>>)
          [] path = "CLAUDE.md" -> Held(BootstrapParagraph(i0, here))
          [] path \in {"mcp.json", "config.toml"} -> Held(<<Server(here)>>)
          [] path \in {"installation.json", "profile.yaml"} -> Held(<<About(i0, here)>>)
          [] OTHER -> Absent]

Projects == {Lived, Registered}

\* Commits are told apart by nothing but where HEAD is.
HostInit == Init /\ FootprintInit /\ head = main

\* Nobody has typed anything on the one side, or on the other.
FootprintIdle  == disk = Lived /\ edits = 0 /\ \A p \in Command : pc[p] = "none"
CredentialIdle == /\ moves = 0
                  /\ \A p \in AuthCommand : auth[p].at = "none"
                  /\ \A c \in Canary : canary[c].at = "none"

HostNext ==
    \/ CredentialIdle /\ FootprintNext /\ UNCHANGED <<credentialVars, canaryVars>>
    \/ FootprintIdle /\ Next /\ UNCHANGED footprintVars

HostSpec == HostInit /\ [][HostNext]_<<footprintVars, credentialVars, canaryVars>>

\* What a command knew is forgotten with it, unless a property still asks.
Asked(p) == Running(p) \/ Completed(p) \/ prior = p

RelevantFootprint ==
    <<disk, pc, at, draft, edits,
      [p \in Command |-> IF Asked(p) THEN <<identity[p], checkout[p], hooked[p]>> ELSE <<>>],
      IF alone # Nobody /\ Asked(alone) THEN <<alone, base, prior>> ELSE <<>> >>

Enrolled(p) == auth[p].verb = "enroll" /\ auth[p].at = "done"

\* Commands are told apart by nothing but the order they are typed in.
InTurn ==
    /\ pc[i1] = "none" => pc[i2] = "none"
    /\ auth[a1].at = "none" => auth[a2].at = "none"
    /\ auth[a2].at = "none" => auth[a3].at = "none"

\* Some command may yet run alone, or has, or nothing but commands touched the files.
Judged == \/ \E p \in Command : pc[p] = "none" \/ alone = p
          \/ edits = 0 /\ \A p \in Command : pc[p] # "dead"

\* Both credentials were enrolled.
Equipped == \A k \in Principal : \E p \in AuthCommand : Enrolled(p) /\ auth[p].kind = k

\* A canary starts on an equipped host; beside it HEAD moves, away and back perhaps, or one
\* command is not an enrolment that went through. HEAD moves only then, and nothing follows
\* a canary's end.
Bounded ==
    /\ InTurn /\ Judged
    /\ IF \A c \in Canary : canary[c].at = "none" THEN moves = 0
       ELSE LET odd == {p \in AuthCommand : auth[p].at # "none" /\ ~Enrolled(p)} IN
            /\ Equipped /\ Cardinality(odd) <= 1
            /\ moves = 0 \/ odd = {}
    /\ \A c \in Canary : canary[c].at \notin {"ended", "dead"}

\* The order of statements matters while a history is tidy, and which came last.
RelevantHistory ==
    <<tidy, sole,
      [k \in Principal |->
         <<IF tidy[k] THEN printed[k] ELSE <<>>, Range(printed[k]), Range(applied[k]),
           sole # None /\ applied[k] # <<>> /\ Last(applied[k]).token = sole>>]>>

\* A canary changes nothing about credentials: their histories are told apart only as long
\* as none has started, and beside one a statement is applied or it is not.
RelevantHost ==
    LET apart == \A c \in Canary : canary[c].at = "none" IN
    <<canaryVars, credential, principals,
      [p \in AuthCommand |->
         IF Busy(p) \/ auth[p].at = "none" \/ (apart /\ sole = p) THEN auth[p]
         ELSE <<auth[p].verb, Enrolled(p)>>],
      IF apart THEN RelevantHistory
      ELSE [k \in Principal |-> <<Known(k), Range(printed[k]) \ Range(applied[k])>>] >>

Relevant == <<RelevantFootprint, RelevantHost>>
=============================================================================
