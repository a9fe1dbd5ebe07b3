-------------------------- MODULE QualificationTrial --------------------------
(***************************************************************************)
(* Qualification trials: processes of tools/harness/src/stage3-cli.ts over *)
(* one output directory, one repository and one Evidence Plane.            *)
(*                                                                         *)
(* A process reads the repository's HEAD, looks at the records already in  *)
(* the directory, opens a proxy to the plane, registers its run, runs the  *)
(* agent, and writes one record.  Nothing locks the directory: two         *)
(* processes interleave between any two file operations or calls.  The     *)
(* plane is reduced to its runs table, one transaction per call.           *)
(***************************************************************************)
CONSTANTS
    Host,        \* stage3-cli processes
    Campaign,    \* --campaign; the directory is the same, as with --out
    TrialId,     \* task, arm and number: the names of the files
    Revision,    \* commits of the repository
    Torn,        \* a file that was created and is not complete
    None

Run == Campaign \X TrialId
Class == {"qualification", "operational"}

\* A complete record file.  Its qualification_eligible is `eligible`.
Record == [campaign : Campaign, revision : Revision, eligible : BOOLEAN,
           class : Class, by : Host]

ASSUME NoneIsDistinct ==
    /\ None \notin Record
    /\ None \notin Host \union Campaign \union TrialId \union Revision \union Class
    /\ Torn \notin Record \union {None}

VARIABLES
    head,        \* the commit checked out
    records,     \* the file <trial>.json of each trial, or None
    transcripts, \* the trials whose transcript file exists
    planeRuns,   \* the plane's class for each run, or None
    started,     \* runs whose first event reached the plane
    pc,          \* where each process is
    job,         \* its campaign and trial
    revision,    \* currentRevision, as it read it
    registry,    \* RunRegistry: "none", "local_only" or "plane"
    sound        \* did isolation and integrity hold in its trial?

files == <<records, transcripts>>
plane == <<planeRuns, started>>
vars  == <<head, files, plane, pc, job, revision, registry, sound>>

Steps == {"campaign", "fresh", "proxy", "prepare", "register", "agent",
          "transcript", "head", "create", "write", "close"}

TypeOK ==
    /\ head \in Revision
    /\ records \in [TrialId -> Record \union {None, Torn}]
    /\ transcripts \subseteq TrialId
    /\ planeRuns \in [Run -> Class \union {None}]
    /\ started \subseteq Run
    /\ pc \in [Host -> Steps \union {"idle", "done", "dead"}]
    /\ job \in [Host -> Run \union {None}]
    /\ revision \in [Host -> Revision \union {None}]
    /\ registry \in [Host -> {"none", "local_only", "plane"}]
    /\ sound \in [Host -> BOOLEAN]

Init ==
    /\ head \in Revision
    /\ records = [t \in TrialId |-> None]
    /\ transcripts = {}
    /\ planeRuns = [r \in Run |-> None]
    /\ started = {}
    /\ pc = [h \in Host |-> "idle"]
    /\ job = [h \in Host |-> None]
    /\ revision = [h \in Host |-> None]
    /\ registry = [h \in Host |-> "none"]
    /\ sound = [h \in Host |-> FALSE]

Goto(h, where) == pc' = [pc EXCEPT ![h] = where]
TrialOf(h) == job[h][2]

-----------------------------------------------------------------------------
(***************************************************************************)
(* Before anything is paid for.                                            *)
(***************************************************************************)

Start(h, r) ==
    /\ pc[h] = "idle"
    /\ job' = [job EXCEPT ![h] = r]
    /\ revision' = [revision EXCEPT ![h] = head]
    /\ Goto(h, "campaign")
    /\ UNCHANGED <<head, files, plane, registry, sound>>

\* assertCampaignRevisionCompatible, per file.
Compatible(h, file) ==
    /\ file # Torn
    /\ file.campaign = job[h][1]
    /\ file.revision = revision[h]

CheckCampaign(h) ==
    /\ pc[h] = "campaign"
    /\ Goto(h, IF \A t \in TrialId : records[t] # None => Compatible(h, records[t])
                 THEN "fresh" ELSE "done")
    /\ UNCHANGED <<head, files, plane, job, revision, registry, sound>>

\* assertFreshTrialArtifacts.
CheckFresh(h) ==
    /\ pc[h] = "fresh"
    /\ Goto(h, IF records[TrialOf(h)] = None /\ TrialOf(h) \notin transcripts
                 THEN "proxy" ELSE "done")
    /\ UNCHANGED <<head, files, plane, job, revision, registry, sound>>

\* The plane answers a health question, and the socket opens, or neither.
OpenProxy(h) ==
    /\ pc[h] = "proxy"
    /\ \E where \in {"prepare", "done"} : Goto(h, where)
    /\ UNCHANGED <<head, files, plane, job, revision, registry, sound>>

\* The workspace is filled and initialised; any command may fail.
Prepare(h) ==
    /\ pc[h] = "prepare"
    /\ \E where \in {"register", "close"} : Goto(h, where)
    /\ UNCHANGED <<head, files, plane, job, revision, registry, sound>>

-----------------------------------------------------------------------------
(***************************************************************************)
(* register_run, from both ends.                                           *)
(***************************************************************************)

\* The plane takes a registration of a run it does not know.
Registrable(r) == planeRuns[r] = None

\* 200 confirms; a refusal is local_only, and the trial is called off.
Answered(h) ==
    /\ pc[h] = "register"
    /\ IF Registrable(job[h])
         THEN /\ planeRuns' = [planeRuns EXCEPT ![job[h]] = "qualification"]
              /\ registry' = [registry EXCEPT ![h] = "plane"]
              /\ Goto(h, "agent")
         ELSE /\ registry' = [registry EXCEPT ![h] = "local_only"]
              /\ Goto(h, "close")
              /\ UNCHANGED planeRuns
    /\ UNCHANGED <<head, files, started, job, revision, sound>>

(***************************************************************************)
(* Wrong variant: a failed call is sent again, and "already registered" is *)
(* read as success.                                                        *)
(***************************************************************************)
UnansweredRetried(h) ==
    /\ pc[h] = "register"
    /\ planeRuns' = IF Registrable(job[h])
                      THEN [planeRuns EXCEPT ![job[h]] = "qualification"]
                      ELSE planeRuns
    /\ registry' = [registry EXCEPT ![h] = "plane"]
    /\ Goto(h, "agent")
    /\ UNCHANGED <<head, files, started, job, revision, sound>>

\* No answer: the request was lost, or it was carried out and the answer lost.
Unanswered(h) ==
    /\ pc[h] = "register"
    /\ planeRuns' \in {planeRuns,
                       IF Registrable(job[h])
                         THEN [planeRuns EXCEPT ![job[h]] = "qualification"]
                         ELSE planeRuns}
    /\ registry' = [registry EXCEPT ![h] = "local_only"]
    /\ Goto(h, "close")
    /\ UNCHANGED <<head, files, started, job, revision, sound>>

\* originClassFor: what the harness says the plane will stamp.
OriginClassFor(h) == IF registry[h] = "plane" THEN "qualification" ELSE "operational"

\* What the plane stamps on evidence of a run: its own row's class.
Stamps(r) == IF planeRuns[r] = None THEN "operational" ELSE planeRuns[r]

(***************************************************************************)
(* The first event of a run reaches the plane: its row is made if there is *)
(* none, and registration is closed.  Events come from this trial's hooks  *)
(* while its proxy is open, or from any other session under that run id.   *)
(***************************************************************************)
FirstEvent(r) ==
    /\ r \notin started
    /\ planeRuns' = [planeRuns EXCEPT ![r] = Stamps(r)]
    /\ started' = started \union {r}
    /\ UNCHANGED <<head, files, pc, job, revision, registry, sound>>

-----------------------------------------------------------------------------
(***************************************************************************)
(* The trial, and what is left of it.                                      *)
(***************************************************************************)

\* The agent ran; what the probes and the integrity report say of it is data.
RunAgent(h) ==
    /\ pc[h] = "agent"
    /\ \/ /\ \E s \in BOOLEAN : sound' = [sound EXCEPT ![h] = s]
          /\ Goto(h, "transcript")
       \/ /\ Goto(h, "close")
          /\ UNCHANGED sound
    /\ UNCHANGED <<head, files, plane, job, revision, registry>>

\* The driver writes the transcript, over whatever is there.
WriteTranscript(h) ==
    /\ pc[h] = "transcript"
    /\ transcripts' = transcripts \union {TrialOf(h)}
    /\ Goto(h, "head")
    /\ UNCHANGED <<head, records, plane, job, revision, registry, sound>>

\* A trial during which HEAD moved is not recorded.
CheckHead(h) ==
    /\ pc[h] = "head"
    /\ Goto(h, IF head = revision[h] THEN "create" ELSE "close")
    /\ UNCHANGED <<head, files, plane, job, revision, registry, sound>>

\* writeFileSync creates or truncates the file, and then fills it.
CreateRecord(h) ==
    /\ pc[h] = "create"
    /\ records' = [records EXCEPT ![TrialOf(h)] = Torn]
    /\ Goto(h, "write")
    /\ UNCHANGED <<head, transcripts, plane, job, revision, registry, sound>>

\* runTrial: what speaks against eligibility, of the registration.
Confirmed(h) == registry[h] = "plane" /\ OriginClassFor(h) = "qualification"

WriteRecord(h) ==
    /\ pc[h] = "write"
    /\ records' = [records EXCEPT ![TrialOf(h)] =
           [campaign |-> job[h][1], revision |-> revision[h],
            eligible |-> sound[h] /\ Confirmed(h),
            class |-> OriginClassFor(h), by |-> h]]
    /\ Goto(h, "close")
    /\ UNCHANGED <<head, transcripts, plane, job, revision, registry, sound>>

CloseProxy(h) ==
    /\ pc[h] = "close"
    /\ Goto(h, "done")
    /\ UNCHANGED <<head, files, plane, job, revision, registry, sound>>

\* The host process is killed, or a step throws that nothing catches.
Crash(h) ==
    /\ pc[h] \in Steps
    /\ Goto(h, "dead")
    /\ UNCHANGED <<head, files, plane, job, revision, registry, sound>>

\* Someone commits, or checks out another commit.
MoveHead(r) ==
    /\ head' = r
    /\ UNCHANGED <<files, plane, pc, job, revision, registry, sound>>

-----------------------------------------------------------------------------
Next ==
    \/ \E h \in Host :
          \/ \E r \in Run : Start(h, r)
          \/ CheckCampaign(h) \/ CheckFresh(h) \/ OpenProxy(h) \/ Prepare(h)
          \/ Answered(h) \/ Unanswered(h) \/ RunAgent(h) \/ WriteTranscript(h)
          \/ CheckHead(h) \/ CreateRecord(h) \/ WriteRecord(h) \/ CloseProxy(h)
          \/ Crash(h)
    \/ \E r \in Run : FirstEvent(r)
    \/ \E r \in Revision : MoveHead(r)

Spec == Init /\ [][Next]_vars

-----------------------------------------------------------------------------
(***************************************************************************)
(* A record says of its run what the plane says: the class it names is the *)
(* class on the run's evidence, and a record that counts as qualification  *)
(* is about a run the plane classified so, whatever became of requests,    *)
(* answers and processes.                                                  *)
(***************************************************************************)
RecordsTruthful ==
    \A t \in TrialId : records[t] \in Record =>
        /\ records[t].class = Stamps(<<records[t].campaign, t>>)
        /\ records[t].eligible => records[t].class = "qualification"

(***************************************************************************)
(* A run is somebody's alone: however many processes are started for it,   *)
(* one gets its registration confirmed, and only that one runs an agent.   *)
(***************************************************************************)
OneAgentPerRun ==
    \A g, h \in Host :
        /\ job[g] = job[h]
        /\ registry[g] = "plane" \/ pc[g] = "agent"
        /\ registry[h] = "plane" \/ pc[h] = "agent"
        => g = h

(***************************************************************************)
(* assertFreshTrialArtifacts: "refusing to overwrite qualification         *)
(* evidence".  It is checked long before the record is written; what keeps *)
(* the record is that a second process for the run is refused by the       *)
(* plane.  Two campaigns in one directory share file names, not runs.      *)
(***************************************************************************)
RecordsFinal ==
    [][\A t \in TrialId : records[t] \in Record => records'[t] = records[t]]_records

=============================================================================
