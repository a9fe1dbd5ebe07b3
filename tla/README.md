# A formal model of the engineering operating system

This directory holds TLA+ specifications of the parts of this repository whose
correctness depends on the order in which processes, transactions and messages
happen to run, the TLC configurations that check them, and proofs that hold for
all values of their parameters. Paths below are relative to the repository.

    tlc -workers 2 -config hooks_two_sessions.cfg MCHookTelemetry   # one run
    tlapm HookTelemetryProofs.tla                                   # the proofs

## The system and its parts

A coding agent works in a checkout. Hook processes record what it does as events
in a local SQLite file; an MCP server answers its questions from a knowledge
index and stages the observations it makes; at the end of a turn or a session a
hook flushes everything to the *Evidence Plane*, a Postgres database behind an
Edge Function. `ieos init` puts all this into somebody's project, and `ieos auth`
mints the credentials. A harness runs qualification trials of the whole, and two
kinds of report decide whether a stage has passed.

| Part | State | Operations | Hard part |
| --- | --- | --- | --- |
| Local evidence file: `packages/store-sqlite/src/{outbox,evidence-documents,run-state}.ts` | event queue and append-only history, staged documents with an acknowledged flag, one row per run | append, stage, page, acknowledge, count; begin, mark failed, finish | many processes share the file; a row is judged from a copy read earlier |
| Flusher: `packages/telemetry/src/flush.ts` | a loop over three queues | drain, retry, count what is left | lost, partial and wrong answers; other processes drain and append meanwhile |
| Emitter: `packages/telemetry/src/emitter.ts` | next sequence number | emit | a number per valid event, one emitter per process |
| Hook process: `packages/adapters/claude-code/src/{hook-cli,hooks}.ts` | one process per lifecycle event | find or begin the run, emit, flush, mark, finish | killed at any point; two sessions, two starts of one session |
| Plane client and proxy: `tools/harness/src/{plane-ingest,plane-registrar,run-registry}.ts`, `socket-ingest.ts` | none that lasts | forward a batch, register a run | a request that was carried out and whose answer is lost |
| Edge Function: `supabase/functions/ingest/index.ts` | a rate limiter's windows | authenticate, limit, call an RPC, map refusals | a refusal that is final for the client |
| Evidence Plane: `supabase/migrations/000{1,2,3}_*.sql` | principals, runs, raw events, observations, snapshots | register_run and three ingest RPCs | concurrent transactions at READ COMMITTED, check constraints over now(), lock order |
| Releases and index: `packages/releases/src`, `packages/store-sqlite/src/knowledge-index.ts` | the index file | compile the tree, remove the old file, fill the new one | replaced in place, under readers and other builders |
| MCP server, resolver, champion: `packages/{adapters/mcp,resolver,core}/src` | the open file, the snapshots it remembers | start, resolve, expand, inspect, observe | a decision must cite one index, whatever happens to the file |
| CLI: `packages/adapters/cli/src`, hook settings | up to seven files of the project; the credential file | init, doctor; enrol, rotate, revoke | files of somebody else's, read and written back without a lock; a file and a database row that must agree |
| Trial runner: `tools/harness/src/{stage3-cli,trial,trial-process,stage3-trial-artifacts}.ts` | a campaign directory of records, a child process | register, run, read telemetry, judge, record | concurrent trials; timers against the child's exit; a HEAD and an index that move |
| Judgement and gate: `tools/harness/src/{isolation,integrity,grade,budget,collect,stage3-rows,...}.ts` | none | isolation, integrity, grades, budget, rows, verdict | what was not observed must not count |
| Canary: `tools/harness/src/stage3-canary-cli.ts` | one evidence file, an exit code | check the host, load, register, probe, run, judge, write | it throws anywhere, after its verdict too; HEAD moves behind it |
| Qualification report: `tools/qualification-report/src` | a directory of records | collect on each platform, report | checkouts move; records of other commits, stages and platforms lie about |
| Evidence derivation: `packages/evidence-derivation/src` | none | attribute, investigate | ordering of evidence; not modelled yet |

They interact as follows. A hook process and an MCP server meet only in the
SQLite file. A flush goes through a local socket to a proxy held by the host (it
has the credential), from there over HTTPS to the Edge Function and so to an RPC
in the database; the answer names the ids that are now durable. The harness
registers a run with a service credential before the agent starts, and reads the
run's local row when the agent has ended. The builder of the index and its
servers meet in one path of the file system. The credential commands never call
the plane: they print a statement, which the owner applies or does not.

What makes each part correct:

- *local side*: nothing leaves a queue before the plane holds it; a run reads
  COMPLETE only when everything recorded before its last flush is in the plane; a
  failed boundary is never forgotten; a session has one run; telemetry never
  blocks the agent;
- *plane*: the class on a piece of evidence is the class its run keeps for good;
  nothing crosses between owners; an answer names exactly what is stored; calls
  end whatever order they run in;
- *knowledge*: an answer is one ranking over one tree, never of half an index;
  nothing but the champion of a known set is proposed; what was cited can be
  inspected, on any server, later; a wider question loses nothing;
- *owner's host*: a repeated `init` repairs what earlier ones left, as far as it reads
  what it merges into, touches nothing of the owner's and never doubles a block, a
  server or the hook of one checkout; the credential in the file is the one that
  authenticates;
- *trial runner*: a record is written once, and a record that says
  "qualification" is about a run the plane has registered so; a run has one agent;
  a trial ends within its bounds, is reported once, and exactly;
- *judgements*: what was not observed never passes a row, the canary or a verdict; a
  record that is proven was right wherever a check looked and says where none did;
  what passed is one experiment on one tree, as far as a comparison of the two ends
  can tell.

## The modules

| Module | Models | EXTENDS / uses |
| --- | --- | --- |
| `LocalEvidence` | the SQLite file: each operator is one statement or one `begin immediate` transaction | |
| `HookTelemetry` | hook processes, the Flusher, the proxy's answers as they reach it, MCP staging | `LocalEvidence`, instance of `EvidenceDelivery` |
| `EvidenceDelivery` | what the local side promises: record, deliver, settle, judge | |
| `IngestPath` | a request's way through socket, proxy, Edge Function and RPC, and its answer's way back | |
| `EvidencePlane` | the RPCs of the migrations as interleaved transactions | |
| `KnowledgeIndex` | builders and MCP servers over one index file, and the ranking | |
| `Footprint` | `ieos init` and what `ieos doctor` says of its work | |
| `Credentials` | `ieos auth`, `stage3-service-auth`, and the owner at the plane | |
| `Stage3Canary` | the canary, from its host checks to its evidence file | `Credentials` |
| `TrialProcess` | the host's supervision of one agent process | |
| `QualificationTrial` | `stage3-cli` processes over one directory, repository and plane | |
| `TrialJudgement` | what is made of all a trial showed; no state | |
| `Stage3Gate` | the trials of a matrix, and the campaign report | `TrialJudgement` |
| `StageReport` | `--collect` and `--report` of stages 0 to 2 | |
| `MC*` | constant values, symmetry and the state view for TLC | their module; `MCOwnerHost` extends `Footprint` and `Stage3Canary` |
| `HookTelemetryProofs`, `IngestPathProofs`, `EvidencePlaneProofs`, `KnowledgeIndexProofs`, `Stage3GateProofs`, `StageReportProofs` | theorems | the module they are named for, TLAPS |
| `TrialProofs` | theorems | `QualificationTrial` and `TrialProcess`, TLAPS |
| `OwnerHostProofs` | theorems | `Footprint` and `Stage3Canary` (so `Credentials`), TLAPS |

Definitions marked "wrong" beside an operator say what a plausible mistake in
that code would be. No behaviour uses them; they show that the properties can
fail.

### LocalEvidence and HookTelemetry

`staged` and `acked` are what the tables hold and what carries
`acknowledged = 1`, by kind; `outbox` is the table of that name, which unlike the
other queues deletes what was acknowledged; `runs` is the row of each run.
An event is its emitter, its sequence number and its run; a document is its id
and its run. `Run` abstracts run ids, `Session` the session ids the agent passes.

A process of `HookTelemetry` has a program counter, and each action is one
statement, transaction or network call of `runHook`:
`Start` (parse, open, upgrade the history), `FindRun` / `NoRun` / `Begin` /
`Adopt`, `Emit` (once per event), `Fetch` (a page of the current queue), then
one of `Accepted`, `Rejected`, `Unreachable`, `ForeignId`, then `Ack`; `Count`
(one select per queue), `Mark`, `Finish`. `Throw` lets any statement fail, `Catch`
is the catch block, `Crash` kills the process. `seen` is the copy of the run row
read at the start, from which the verdict is computed much later: that gap is
where most of the hazards are.

`durable` is the plane as the local side can know it: an answer names a subset of
the page, all of which is then stored; without a usable answer the page was
stored or was not. A page that is stored later than the client's timeout is
modelled as stored at the timeout: `durable` only grows, and no property has it
in a position where growing later matters.

### IngestPath

What `HookTelemetry` takes as the plane's answer is here a request's way: the
client's promise (`ask`, `outcome`), its connection as the proxy sees it (`conn`,
`reply`), the request under way (`http`, `at`, `response`), the limiter of each
isolate (`windows`) and what the RPC stored (`storedBy`). A client's promise and
its socket are apart, since it may give up while the proxy forwards; so are the
proxy's `fetch` and the request it sent, which goes on after the `fetch` has
failed or the host was killed. A request that is lost is one that never goes on.
The plane is one committed transaction or none, which `EvidencePlane` justifies;
all requests carry one token, so a limiter has one window; an isolate that is
recycled is another isolate.
`AcceptedIsStored` and `RejectedIsDecided` are what `HookTelemetry` assumes of the
answers it enumerates: accepted ids are stored, and rejected is said of a request
that stored nothing and never will. A refusal for the rate is filed under
rejected as well, and the Flusher does not retry it. `RateBound` is about one
window: two adjacent ones may let twice the limit pass.

### EvidencePlane

A transaction is a program counter, its arguments, its time `now`, its
uncommitted rows `wrote` and `put`. `Visible` is what a statement sees. Inserting
a run row, one row at a time and in any order, waits while another transaction has
an uncommitted row of that key (`HeldElsewhere`); `Touch` is the update of
`principals.last_seen_at`, which serialises one principal's calls;
`FirstTooEarly` is the check constraint `runs_registration_precedes_first_event`;
`ForeignOwner` the composite key of migration 0002; `PlaceTaken` the unique index
`raw_events_ordering`. `WaitsFor` and `Victim` are Postgres' deadlock detection,
`Disconnect` a connection lost in mid-transaction, `Revoke` the owner's update of
`principals`. Expiry of a token is folded into `Revoke`: both are read by one
select. An empty batch is left out (it changes only `last_seen_at`), and so is
the update branch of `register_run`: `UpdateBranchDead`, which is proved, says
that no state reaches it.

### KnowledgeIndex

The worktree is a record for each asset, the contents of its body, and the solution
sets; what a record may say is a constant, so an edit chooses among names. A builder
reads asset by asset, each body twice (once for the index, once for `content_hash`),
then the sets, removes the path, opens it, and commits in the order of `Stages`. A
file is who fills it and how far. Removing the path follows POSIX: whoever has
the file open keeps it, and two builders that both passed the removal fill one file,
until the second one's `create table` fails. On Windows the removal fails instead
while a server is open; that case is not modelled.

A server keeps the handle it opened and the HEAD it read when it started. Each
query of a call is a step, so the builder may commit between the search and the
reading of the solution sets. `Rank` is the whole of `rank.ts` as the composed
server uses it: it supplies no project facts and no capabilities, so no candidate
is contradicted and none is missing. A lexical match is a rank. `store` is the
memory of one server, `durable` the local evidence database. `met` remembers that
another process came between a build's steps; `AloneItServes` is about builds of
which that is not so.

### Footprint

A file is the sequence of its lines, servers, sections or hook entries, as far as
the merges tell them apart: the owner's, ours (with the identity or the checkout
they name), the two markers, and text torn in the middle. A command reads and
merges, then writes, one file after another; another command, the owner or a kill
may come between. `alone`, `base` and `prior` are history: which command had the
project to itself, what it found, and who left it so. `Line` is every line there
can be; `Without` is the code's `filter` as a recursive function, which the proofs can
reason about. A project may start as any tree (`ProjectsAreTrees`: the two files that
name the installation hold one identity, nothing, or a torn text) that holds at most one
of ours each and no lone marker (`ProjectsHoldOneOfEach`, which only the proof of
`NeverStacks` uses). `RerunRepairs` and
`TheirsSurvives` except a document whose markers were already broken: there `init`
appends a second block (`SpliceMarkedBlock` falls back to appending), which
`doctor` then calls drifted.

`init` does not read everything it merges into, and the model has that too.
`mergeCodexToml` is a substitution and never parses: of a torn `config.toml` only our
own section below its header (`Half`) is replaced; anything else that was cut off
(`Cut`) stays, our section is appended, and the file is not TOML. `RerunRepairs` says
that the agent launches our server (`Launches`: the file can be read and names it)
for `mcp.json`, which is parsed or refused, and for a `config.toml` without a cut. A
`profile.yaml` that exists is kept, torn or not (`Kept`).

`Slashed` is the set of checkouts whose paths are written with slashes: all of them on
Linux and macOS, none on Windows, where `path.join` gives backslashes. `isOurs` and
`observeHooks` look for `packages/adapters/claude-code/src/hook.ts` in the command, so
they know the hook of a slashed checkout and no other (`IsOurs`, `RunsTheHook`);
another is ours only to an `init` with the very same command. So `NeverStacks` bounds
the hooks with slashes together and those of each other checkout by themselves,
`RerunRepairs` asks `doctor` about hooks only for a slashed checkout, and
`HooksStandOnce`, below, is false. A command is its checkout here; it also holds the
path of Node and of the project, so on Windows an upgrade of Node has the effect of
another checkout.

### Credentials and Stage3Canary

A token and an identity are named by the command that minted them. The file of
each kind is absent, torn or whole; `printed` is, by kind, the sequence of statements
and `applied` what the owner did with them; `principals` is the plane's table.
`tidy` and `sole` are history, for properties about commands that were typed one
at a time. `TidyIsInStep` excepts the installation's `rotate` without a file: it
mints an identity no row has, and prints an update that matches none.

The canary reads both files, asks the plane through its proxy, registers, probes,
runs its child, probes again, judges, looks at HEAD again and writes; every step
may throw or be the last. `Authenticates` ties it to the credentials: a token that
is rotated or revoked meanwhile stops its next call. What the sandbox is like is
chosen at each probe, since nothing in the program keeps it the same. The child,
with its hooks and its MCP server, is one step: `HookTelemetry` and
`KnowledgeIndex` are what it is made of. `MoveHead` takes HEAD to any other commit, one
it was at before included, and `moves` counts. The canary compares HEAD at its two
ends only: a HEAD that is away while the child runs and back at the end goes
unnoticed, and `PassedIsObserved` excepts exactly that, two moves behind the canary's
back.

### TrialProcess

One action per callback of `runTrialProcess`: the three timers, `error`, `data`
and `close`. `terminate` and `finish` are operators, as they are inner functions
there. `due` holds the time of each armed timer, `termAt` is the time of SIGTERM
and also stands for `escalation !== undefined`, which is never reset. Time is a
counter that waits for a timer that is due: Node fires timers late when its loop
is blocked, so the bound shown is that of an idle loop. The child ends when it
likes, ignores signals when it likes, and may leave a descendant that holds its
pipes, which delays `close` and keeps `data` coming. Output is counted in bytes,
in chunks of at most `MaxChunk`; beyond the limit the count stays one above it,
because every later chunk is dropped whatever the count.

### QualificationTrial

Each process is a `stage3-cli.ts` invocation with its `--campaign` and trial, cut
at every file operation and call: read HEAD, look at the directory, check
freshness, open the proxy, prepare, register, run, write the transcript, check
HEAD again, create the record, fill it, close. A file that is created and not
filled is `Torn`, which a process killed in between leaves behind. `Answered` and
`Unanswered` are `registerWithPlane`: an answer is what the plane did; no answer
is either. The plane is its `runs` table and `FirstEvent`, one transaction per
call, which `EvidencePlane` justifies: there a registration and a first batch are
taken apart, and `StampIsRunClass` and `RunsSettled` hold. What the isolation
probes and the integrity report conclude is one Boolean, `sound`; what it rests on
is the subject of `TrialJudgement`. `by`, the process that wrote a record, is no
field of the file: no action reads it, only the invariants of the proof.

### TrialJudgement and Stage3Gate

`Sight` is everything that can differ from one trial to another: a link out of the
sandbox before or after, the namespace's own report, a secret in the environment,
how the agent ended, whether its tools were refused, its calls and usage, what the
check finds for each rule, the run's row and its queue. The operators of
`TrialJudgement` take one `Sight` to one record, by the names of the functions
that do so: `StrictestOf`, `CombineVerdicts`, `ClassifyUsage`, `BuildTrialReport`,
`ReadTrialTelemetry`. Grading rules are compared by kind and status only.
`CombineVerdicts` drops an unproven verdict beside a decided one, as the code does: a
trial with one rule right and another that nobody observed is recorded as proven.
`ProvenIsObserved` says what such a status is worth: nothing was wrong, something was
right, and the record's verdicts say of each rule which it was, so that rows T2 and T8
do not pass over it.

`Stage3Gate` runs a matrix of such trials while HEAD and the index move and
processes die, and the report folds whatever records there are:
`DeriveRows` is rows T1 to T9 without those that need no trial, `ValidateCampaign`
the matrix and its one revision, profile, index and model. `job` keeps what really
happened (`ranAt`, `served`, `saw`), which no process knows; the properties compare
the record with it.

### StageReport

A collection runs its suites on the checkout it finds, asks for HEAD afterwards
(unless `--commit` told it), measures, creates and fills its file. The report reads
what lies in the directory, measures its own checkout, asks for HEAD, judges, and
asks once more for the commit on its face. An `Observation` is what one machine
showed; the rows are those of `gate.ts`, `stage1.ts` and `stage2.ts`, where rows that
differ only in the names of their tests stand for one another (said beside
`EvaluateStage1` and `EvaluateStage2`). `tested` and `still` are history. A git
that does not answer gives `Unknown`, on a record and as the expected commit alike;
two `unknown`s are equal to the code, which is why `PassIsOneTree` excepts it.

## The runs

| Run | Instance | Shows |
| --- | --- | --- |
| `hooks_two_sessions` | 2 processes, 2 sessions, 2 runs, a document, an event from before the history, pages of 2 | `NothingLost`, `OneRunPerSession`, `CompleteWasDrained` |
| `hooks_delivery` | 2 processes, 1 run, a document, an old event, pages of 1, 2 attempts | `HookTelemetry` implements `EvidenceDelivery` (`ImplementsDelivery`), and every started process ends (`HookEnds`) |
| `hooks_resume` | 3 processes, 1 session | `CompleteArrived` is violated |
| `plane` | 2 transactions begun in order, 2 installations of 2 owners and a service, 2 runs, 2 ids at one place, 2 times, events and snapshots | `StampIsRunClass`, `OwnerBoundary`, `AnswerIsExact`, `RunsSettled`, and every transaction ends (`CallsEnd`) |
| `ingest_path` | 2 requests, 1 isolate, a limit of 1 in a window of 2 | `AcceptedIsStored`, `RejectedIsDecided`, `RateBound`, `CloseEnds` |
| `knowledge` | 2 builders, 1 server, 4 assets, 1 solution set, limits 1, 4 and 2 for 5, 50 and 4, one edit or commit, 2 answers | `AnswersAreOneTree`, `OnlyChampionsAreProposed`, `ExpandWidens`, `CitedIsInspectable`, `AloneItServes` |
| `owner_host` | either 2 `init`s from any of 3 checkouts, 2 with slashes and 1 without, 2 projects, 1 edit; or 3 credential commands, 1 canary, each statement applied once at most, 2 moves of HEAD | `RerunRepairs`, `TheirsSurvives`, `NeverStacks`, `TidyIsInStep`, `RotationRepairs`, `PassedIsObserved` |
| `canary_verdict` | the same | `VerdictIsTheExit` is violated |
| `trial_process` | timeout 3, grace 2, 3 bytes of output in chunks of 1 or 2 | `WithinBound`, `OrdinaryExitExact`, `OneLadder`, `Settles` |
| `trial_records` | 3 processes, 1 campaign, 2 trials, 2 commits | `RecordsTruthful`, `OneAgentPerRun`, `RecordsFinal` |
| `stage3_gate` | a primary task, a hard one in both arms, 3 trials of which one shows any of 12 faults, 2 commits, 2 indexes, 2 moves | `PassedIsComplete`, `PassedIsOneExperiment`, `EscapeIsNotEvidence`, `ProvenIsObserved` |
| `stage_report` | 2 platforms, 2 collections, 6 observations, a leftover record, 2 commits, 1 move, all three stages | `PassIsObserved`, `PassIsOneTree`, `UnusableIsIgnored`, `AbsenceNeverFails` |

Why these bounds are enough to show something. Two requests, one of which the
limiter refuses unless a window has passed, meet every pair of hops. A verdict on a
run involves the process that judges, one that interferes and one that came before;
with two processes and two sessions the interference is there, and `HookTelemetryProofs`
proves the rest for any number. Pages of one item make every drain loop; pages of
two let an answer be partial. Two attempts let a stored page be sent again. In the
plane, the race of a registration with a batch needs two transactions; two times
tell "began before" from "committed before"; two runs named in either order
deadlock. A timeout longer than a grace lets the overflow's ladder be anywhere on
its way when the timeout passes; three bytes in chunks of up to two let a chunk
cross the limit and a shorter one still fit. `Horizon` caps time beyond the last
deadline, so that a supervisor that never reported would be seen. A trial process
needs one that interferes on its own trial and one on another. Limits of 1 and 4
with four assets let the search window cut below what `expand` asks for. One edit
falls between any two readings of a build. Two `init`s are the one that leaves a
mess and the one that repairs it, or two that overlap; two projects are one its
owner already uses and one that was registered; two checkouts with slashes know each
other's hooks and a third without is known to nobody. Two commits and two moves take
HEAD away and back. Three credential commands are an
enrolment of each kind and one more, or three of one kind. One trial with one
fault in an otherwise good matrix must lose the gate. `CHECK_DEADLOCK FALSE` appears
because processes and transactions run once and the system then stops.

Constraints leave out what repeats: in `MCEvidencePlane` transactions begin in their
order, the first is not the second installation's, the second document is only for the
first run, and one principal at most is revoked; in `MCOwnerHost` commands are typed in
their order, a canary starts once both credentials were enrolled, beside it HEAD moves
or one command is not a finished enrolment, nothing follows its end, and once nobody
can run alone any more a torn or edited project is left; in `MCStage3Gate` a trial is
unusual or there are two moves, not both; in `MCKnowledgeIndex` edits are to the set,
its members or the presence of one more asset, and nothing follows the last answer. The two halves of `MCOwnerHost` share no file and are
explored side by side.

`SYMMETRY` makes processes, transactions, files and commits interchangeable in the
runs without liveness properties. `VIEW Relevant` drops what no later
step and no checked property reads: scratch memory of ended processes, a checkout
nobody will look at again. What is left enables the same steps, so `hooks_delivery`
keeps the view while checking liveness.

`TypeOK` of each module was checked on these instances as the module was
written; where a module has proofs it is a theorem. The configurations list the
properties a change of the code could break.

### Fairness

`hooks_delivery` assumes weak fairness of each process' own steps: the operating
system schedules a process that was started, and its network call ends because
the socket client has a timeout. It assumes nothing of crashes, throwing
statements, new processes or the order of answers. `plane` assumes weak
fairness of each transaction's statements, deadlock detection being one of the
ways a waiting statement ends: Postgres aborts a victim after its timeout. `ingest_path`
assumes only that the client's socket delivers its events, the timer's among
them, and that the proxy learns of a client that has left; nothing of the
network, of the Edge Function or of the proxy's `fetch`, which has no timeout of
its own. `trial_process`
assumes that time passes and that timers fire, and nothing of the child.

## Where the repository says something else

Two runs check a sentence of the repository that the code does not keep; each
run's counterexample is the story.

- The build guide, line 305: events of a killed container arrive "or the run is
  `INCOMPLETE`, never silently "complete"". A session resumed after SessionEnd
  appends to a run that is COMPLETE already (`hooks_resume`).
- The Stage 3 plan, line 180: the "canary is no-model and fail-closed". Its verdict
  is put into the evidence before HEAD is looked at again; what throws after that
  adds an error to the file and leaves `verdict: PASSED` in it, while the process says
  NOT PASSED and exits 3 (`canary_verdict`, `stage3-canary-cli.ts:271`).

More have no run of their own. These are defined and can be added to a
configuration:

- `PartialAckIsSticky` in `HookTelemetry`. `flush.ts:79`: "A single partial ACK is
  sticky failure for the run even if a later process eventually delivers the rest".
  The failure is in the process' memory until `markFlushFailed`; a process killed
  before it takes it along. Three processes show it.
- `SnapshotsAcknowledged` in `EvidencePlane`, with one owner for both installations
  (`OneOwner`). The build guide, line 332: a snapshot "syncs through `ingest`
  as a `context_snapshots` row keyed by the same id; the id is therefore stable across
  machines". The second machine is never told that it is stored.
- `UnmeasuredIsUnproven` in `StageReport`. `render.ts` says of a row without an
  observation that it is unproven, "deliberately not the same as fail"; row H1 fails
  for a record of an earlier stage.
- `ProvenStayedWithinBudget` in `Stage3Gate`. `collect.ts` says a trial is proven only
  when its graders decided so "AND it stayed within budget"; between the budget and
  its double `buildTrialReport` does not look.
- `BodiesAreTheHashed` in `KnowledgeIndex`, with `OneTree` and `ResolveOnly`.
  `build-index.ts`: "Everything is validated here, at the boundary". The body that is
  indexed and the body that is hashed are two readings of a file.
- `SnapshotIsTheSituation` in `KnowledgeIndex`, likewise. `context.ts`: a snapshot is
  "the situation a `resolve` happened in". Its `repo_sha` is the HEAD of the server's
  start.
- `RerunningIsIdempotent` in `Footprint`. `init.ts`, lines 234 to 241: "Re-running is
  therefore idempotent". In a document with a lone marker the next `init` appends a
  second block; the one after appends another, or replaces everything from the lone
  marker to the end of the new block. Over a project that `doctor` calls healthy it
  is so, and proved: `RerunChangesNothing`.
- `HooksStandOnce` in `Footprint`. `init.ts`, lines 300 to 302: "Re-running `ieos init`
  does not stack duplicates". On Windows the path that identifies the hook (lines 55
  and 343) is not found in a command that `path.join` built (`cli.ts:325`), so `init`
  from a second checkout, or after Node has moved, adds a second hook to each event.
  With the constants of `owner_host` it takes two `init --with-hooks`, one from
  `drive`.
- `ProvenWasObservedThroughout` in `Stage3Gate`. `graders.ts`, lines 15 and 16: a grader
  that did not run "never collapses into a pass"; `claim.ts`, lines 139 to 142: "only an
  entirely proven set is `proven`". `combineVerdicts` takes the unproven verdicts out
  before it aggregates (`graders.ts:250`), so one rule that was right proves a trial whose
  other rule nobody observed. The campaign's T2 and T8 look at each verdict of a primary
  trial, and `PassedIsComplete` holds; of the hard bank no row does.

For eight more, the formula is:

- `hooks.ts:275`, on every failed exit: "the run is marked INCOMPLETE (D23)". A
  hook whose database does not open says so too, and marks nothing:
  `\A p \in Hook : pc[p] = "failed" => \A r \in RunsOf(session[p]) : ~Complete(r)`
  in `HookTelemetry`.
- `trial-process.ts:36`, of `timedOut`: "True when the host killed the child for
  exceeding `timeoutMs`." It is also true of a child that was being killed for its
  output when the timeout passed:
  `result # None /\ result.timedOut => termAt = Timeout` in `TrialProcess`.
- `run-registry.ts:17`: "Unconfirmed registrations answer `operational`, which is
  what the plane will actually do." Not when the answer was lost:
  `\A h \in Host : registry[h] = "local_only" => Stamps(job[h]) = OriginClassFor(h)`
  in `QualificationTrial`. `stage3-cli` gives the trial up, so no record tells the
  difference: `RecordsTruthful` holds.
- The Windows runbook, line 188: a trial "refuses to overwrite an existing trial
  record/transcript". Two campaigns in one `--out` directory share file names but
  not runs: `RecordsFinal` in `QualificationTrial` with two campaigns.
- The Windows runbook, line 189: a trial "refuses to mix campaign revisions". Two
  processes that look before either has recorded do mix them when a commit falls
  between their starts: `\A s, t \in TrialId : {records[s], records[t]} \subseteq
  Record => records[s].revision = records[t].revision` in `QualificationTrial`. The
  campaign report notices: `PassedIsOneExperiment` holds.
- `stage3-canary-cli.ts:280`, "repository HEAD changed during the canary", which is an
  error: it is one only if HEAD is elsewhere when it is read again. A HEAD that was
  away while the child ran gives exit 0, PASSED and the revision of the start:
  `\A c \in Canary : canary[c].exit = 0 => canary[c].ran = canary[c].start` in
  `Stage3Canary`, which two moves break.
- `doctor.ts` says `unregistered` of hooks that `init --with-hooks` has just registered
  from a checkout without slashes (lines 319 to 325):
  `\A p \in Command : Completed(p) /\ hooked[p] => ObserveHooks(disk) = "registered"` in
  `Footprint`.
- `init.ts:267`, of a file that cannot be read: "Fix or remove it before running
  `ieos init`". It is said of `.mcp.json` and `settings.json`; over a torn `config.toml`
  the next `init` reports success:
  `\A p \in Command : Completed(p) => Launches(disk["config.toml"].text, checkout[p])` in
  `Footprint`.

Hazards that no property is about: what a hook says when its database does not
open (`hook-cli.ts:110`), an exit code computed from the row read at the start
(`:215`), a failure that is only in memory (`:194`), snapshots of a second
machine (`0001_evidence_plane.sql:506`), two records of unknown commits that equal
one another in a report, a `profile.yaml` that names an old identity after
`installation.json` was deleted or that was torn, a `rotate` without a file, a hook
entry that runs both ours and the owner's command and is replaced whole, a revoked
principal that a late rotation brings back, a drain that others keep feeding, and a
limiter's double burst about a reset. `HistoryUnambiguous`, `OutputIsPrefix` and
`OutcomeFinal` are proved and no run lists them.

## What is proved

`HookTelemetryProofs` proves, for any number of processes, sessions, runs and
documents, any page size and any retry budget:

- `TypeCorrect`: `Spec => []TypeOK`. `TypeOK` is not inductive alone: an emitter's
  counter stays in range only because an invocation never emits more than it
  planned, and a process that writes a run row must know its run. `LocalsSound`
  adds those two facts; `TypeInv` is the inductive invariant.
- `NothingIsLost`: `Spec => []NothingLost`. The strengthening says that what a
  process is about to acknowledge is already durable, and was staged; it needs
  type correctness, and that acknowledged items are never queued again because
  the history remembers them.

It proves as well what the verdict on a run means, for the same parameters:

- `OneRun` (`OneRunPerSession`), `Honest` (`RowsHonest`), `Sticky`
  (`FailureIsSticky`), `Drained` (`DrainedCovers`) and `CompleteDrained`
  (`CompleteWasDrained`). The invariant `VerdictInv` follows a process through its
  flush: what it has still to fetch, of what was staged when it began, is in the
  queue, what it has been through is durable, and an outcome of "drained" is only
  kept while nothing was refused.
- `Implements` (`ImplementsDelivery`): the initial states map to initial states of
  `EvidenceDelivery`, and every step to one of its steps or to a stutter. The
  mapping needs the invariants of both modules: a step that acknowledges settles
  what was delivered, a step that judges COMPLETE follows one that drained.

`EvidencePlaneProofs` proves, for any number of transactions, principals, owners,
runs and documents, all the safety properties of `EvidencePlane`, in four
layers. `RowInv` is about run rows: an uncommitted row belongs to one transaction,
continues the committed one, and says when the run started or was registered;
from it `TypeCorrect`, `Settled` (`RunsSettled`) and `DeadBranch`
(`UpdateBranchDead`). `Settled` includes that a run is never registered later than its
first event, although both times are those at which transactions began. `StampInv` adds that evidence, from the statement that inserts
it, agrees with the run row its transaction sees, and that what a transaction sees
of a run never changes owner or class, whoever commits: `Stamps`
(`StampIsRunClass`), `Owned` (`OwnerBoundary`), `Holds` (`RegistrationHolds`).
`IdInv` adds that a caller has one transaction past its first update and that what
is inserted is new to everybody: `Unambiguous` (`HistoryUnambiguous`). `AnswerInv`
adds that after its insert a transaction finds every id of its batch: no later
evidence can change whose it is, hence `ExactAnswer` (`AnswerIsExact`).

`IngestPathProofs` proves, for any number of requests, ids and isolates, any limit
and any window, `TypeCorrect`, `Accepted` (`AcceptedIsStored`), `Rejected`
(`RejectedIsDecided`), `SettledOnce` (`OutcomeFinal`) and `RateLimited`
(`RateBound`). `PathInv` says of every request what it can have done at each hop
(nothing stored before it is admitted), that an HTTP response is honest about it,
and that a reply or an outcome is just; `Reading` is the lemma that what
`outcomeFor` reads from an honest response is just. The limiter's bound needs
that a window's count is the cardinality of the set it let pass, and that
everything admitted before lies before a new window's beginning.

`TrialProofs` proves two things. First, for any number of processes, campaigns,
trials and commits, `TypeCorrect`, `Truthful` (`RecordsTruthful`), `OneAgent`
(`OneAgentPerRun`), and, when the directory is one campaign's, `Final`
(`RecordsFinal`). Its invariant `IInv` adds that a process which may still write was
confirmed for its run, that a class once stamped stays, that two processes are
never confirmed for one run, and that whoever wrote a record is finished with it.
The assumption of `Final` is needed: see the runbook's line 188 above.
Then, of the supervisor and for every timeout, grace, limit and length of chunk,
`ProcessTypes`, `EndsInTime` (`WithinBound`), `ReportsOnce` (`ResultFinal`),
`OneLadderOnly` (`OneLadder`), `Prefix` (`OutputIsPrefix`) and `ExactWhenOrdinary`
(`OrdinaryExitExact`). The bound on time is not inductive: `Ladder` says
which timers are armed at each stage (not begun, escalating, settling, reported)
and how they lie relative to the timeout, so that before the result one timer is
always armed, and in time. For the output, `Counted` says that the count is what was
kept until a chunk crosses the limit, and that nothing is kept after; `Ordinary`
that without a signal nothing was dropped.

`Stage3GateProofs` proves, for every matrix, every set of rules and whatever trials
may show, `Escape` (`EscapeIsNotEvidence`) and `Proven` (`ProvenIsObserved`).
`RecordInv` says that a whole record is that of its own trial and of all the trial
showed, although other trials, a commit or a kill come between; the rest is the algebra
of `StrictestOf`, `CombineVerdicts` and `AggregateClaims` (`EligibleHeld`,
`ProvenHeld`, `VerdictOfEach`): an unproven claim about the trial as a whole keeps it from
being proven, an unproven verdict on one rule is dropped, and stands in the record. `GateInv` adds how
often HEAD and the index must have moved for a trial to be where it is, and that a
report that is done speaks of records that no longer change: hence
`OneExperiment` (`PassedIsOneExperiment`) and `Complete` (`PassedIsComplete`).

`StageReportProofs` proves, for every set of machines, commits, records and
observations, `StageTypes`, `OneCommit` (`PassIsOneTree`), `Observes`
(`PassIsObserved`), `Ignores` (`UnusableIsIgnored`) and `Absences`
(`AbsenceNeverFails`). The last two are about the judgement alone: they need only
that a judged report holds the rows of what it judged. `StageInv` follows a commit
from the machine on which suites ran through the job and its file into the report,
and beside it the report's own: as long as the checkout stayed in place each names
the same tree, or is unknown.

`KnowledgeIndexProofs` proves, for any number of assets, sets, builders, servers,
edits and answers, `OneTree` (`AnswersAreOneTree`), `Champions`
(`OnlyChampionsAreProposed`), `Widens` (`ExpandWidens`), `Inspectable`
(`CitedIsInspectable`) and `Alone` (`AloneItServes`). `BuildInv` says that a file in
use was opened by a builder that has read its tree and reads no more, that it is
filled by one such builder, and that it is full only when that one is done; so what
a server reads from its file, at whatever step, is of one tree (`ServerInv`), and stays
so (`Kept`). `Widens` and `Champions` rest on the ranking: the order of candidates is
strict and total, so each of a finite set has a place of its own and no place is
empty (`NoPlaceIsEmpty`, by counting), and a
candidate keeps its place when the window widens.

`OwnerHostProofs` proves, for any number of commands, checkouts, events, edits and
lines, of credential commands and statements, and of canaries:

- `FootprintTypes` (`FootprintTypeOK`), with what a command that runs must know of its
  checkout, identity and place (`FilesInv`).
- `InitRepairs` (`RerunRepairs`) and `InitKeepsTheirs` (`TheirsSurvives`). `AloneInv`
  says of a command that has had the project to itself since it started that each file
  it is through with is what it makes of what it found (`ResultOf`), and every other
  one as it found it. The rest is about the merges, for texts of any length:
  `SpliceIs` (the block is found again, around it nothing moved), `MergeServerIs`,
  `MergeSettingsIs` (each event runs the hook of this checkout once, slashed hooks once
  together, and what is not ours is as it was). `ServersInv` is why a file that can be
  read and has our entry launches our server: no file ever names two, torn ones
  included.
- `RerunIdempotent` (`RerunChangesNothing`, which no run lists; TLC finds no counterexample
  to it with the constants of `owner_host`), from `PriorInv`: while a command has the
  project to itself, what it found is still what the one before it had left. Each merge
  made twice is the merge made once (`SpliceSame`, `MergeServerSame`,
  `MergeSettingsSame`).
- `NothingStacks` (`NeverStacks`), from `OnceInv`: what stands in a file and what is about
  to be written to it both hold one of each, however old the text is that it was
  made of.
- `Stored` (`TokensWereStored`), from `AuthInv`: what each command, file, statement and
  row is, and that identities of the two kinds are apart.
- `Repairs` (`RotationRepairs`), from `SoleInv`: while a command has been alone since
  it was typed, the file is as it left it; and the row of the last statement applied,
  if that is a rotation which found one, has its token.
- `InStepWhenTidy` (`TidyIsInStep`). In a tidy history each printed statement goes on
  from the identity that stands (`Linked`, `InTurn`), no two commands of a kind run at
  once, the file has the last statement's token except between a file and its
  statement (`Settled`, `FileInStep`), what was applied is a prefix of what was printed,
  and the rows are those the last applied statement leaves (`RowsInStep`).
- `Observed` (`PassedIsObserved`), from `CanaryInv`: at each step of a canary, what its
  fields can only say if it was observed; `HeadSound` counts the moves HEAD must have made
  for the child to have run elsewhere: one, and two once it is back. HEAD may go to
  any commit at any time, and return.

The assumptions are the named ones of the modules: bounds are
numbers, requests and digests finitely many, records and requests meet their
schemas, principals are of one kind, and the values that
stand for "nothing" and "torn" are no data. Each action has its own lemma or case, and
the last step of a theorem combines them by temporal logic.

Only model-checked: liveness (`HookEnds`, `CallsEnd`, `CloseEnds`, `Settles`): the
prover has no ENABLED. The library's induction theorems take an operator, which the
provers cannot instantiate; where a proof needs induction (`Without` over the lines of a
text) it goes through the least element of a set of numbers, `Least`, and `UpTo`, which
follow from the well-foundedness of `<` and hold up to a bound.

## The plan

Done, in this order: the local side and its abstract specification; the plane; the
kill ladder; the trial processes; a request's path; the stage report; the judgement of
trials and the Stage 3 gate; the knowledge index with the servers and the resolver;
`init`; the credentials and the canary; the proofs above.

Left, most important first.

1. Evidence derivation: attribution and investigation as functions of ordered evidence,
   against the order in which evidence arrives.
2. The read-only routes of the proxy and the Edge Function, and expiry of tokens.
3. Replay, and the identifiers' normalisation.

## What is not modelled, and why

Contracts and generated code, secret scanning, hashing, report formatting and
the knowledge content are data or text. Row-level security, grants and the plane's
views are declarative and read-only. What a sandbox, a namespace or a link can
enforce is the operating system's; what is made of their reports is in
`TrialJudgement`. Preparing target repositories and prompts, `doctor`'s other
findings, the SQLite benchmark, the fitness checks and the one-off imports keep no
state that another actor sees. Tokens do not expire in `Credentials`: an
expiry is to a command what a revocation is that nobody typed. Windows' refusal to
remove an open file is left out of `KnowledgeIndex`.
