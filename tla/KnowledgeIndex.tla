--------------------------- MODULE KnowledgeIndex ---------------------------
(***************************************************************************)
(* The knowledge index and the decisions made over it: packages/releases   *)
(* compiles a tree of files into one SQLite file, in place; an MCP server  *)
(* (packages/adapters/mcp) opens that file, keeps the handle, and answers  *)
(* `resolve` and `expand` through packages/resolver.                       *)
(*                                                                         *)
(* The tree is edited while it is read, the file is removed and rebuilt    *)
(* while servers hold it, two builders may run at once, and any process    *)
(* may die between two steps.                                              *)
(***************************************************************************)
EXTENDS Naturals, FiniteSets, SequencesExt

CONSTANTS
    NumAssets,     \* assets are numbered in the order of their ids and paths
    SetId,         \* solution sets
    Version,       \* contents a body can have; content_hash is of one of them
    Record,        \* names of what an asset.yaml may say,
    Says,          \* and what each says
    SolutionSet,   \* names of what a solution set's file may say,
    Holds,         \* and what each says
    Start,         \* the trees work begins with
    Builder,       \* runs of `pnpm build:index`
    Server,        \* MCP servers
    Commit,        \* of the project the servers run in
    Pinned,        \* --ranking-mode of each server, or None
    Ask,           \* the requests agents make, but for the view they name
    DefaultLimit, MaxLimit, Overfetch,   \* 5, 50 and 4 in the code
    MaxChanges,    \* bound on edits of the tree and commits made in the project
    MaxAnswers,    \* bound on answers given
    None

Asset == 1 .. NumAssets
Mode  == {"live_overlay", "recorded"}

\* rank 0: the hint does not match; otherwise the better match has the lower rank.
AssetSchema == [hash : Version, type : {"solution", "failed_solution"},
                set : SetId \union {None}, rank : (0..2)]

SolutionSetSchema == {s \in [state : {"pinned", "unresolved"}, champion : Asset \union {None},
                             members : SUBSET Asset] :
                        IF s.state = "pinned" THEN s.champion \in s.members
                                              ELSE s.champion = None}

ASSUME LimitsAreNat == /\ NumAssets \in Nat \ {0} /\ MaxLimit \in Nat /\ Overfetch \in Nat
                       /\ DefaultLimit \in 1 .. MaxLimit
ASSUME RecordsMeetTheirSchemas == /\ Says \in [Record -> AssetSchema]
                                  /\ Holds \in [SolutionSet -> SolutionSetSchema]

ASSUME NoneIsNothing == None \notin Builder \union Asset

\* The schemas of the two requests, but for what nothing here depends on.
Request ==
    [verb : {"resolve"}, limit : 1 .. MaxLimit \union {None}, mode : Mode \union {None}]
        \union [verb : {"expand"}, beyond : {"solution_set", "type", "corpus"}]

ASSUME AsksMeetTheirSchemas == Ask \subseteq Request

VARIABLES
    worktree,  \* the knowledge tree on disk
    head,      \* the project's HEAD
    changes,   \* how often either changed
    bpc,       \* what each builder is at
    cursor,    \* the asset it reads next
    compiled,  \* the tree it has read
    target,    \* the file it has open
    met,       \* history: another process came between its steps
    path,      \* the file the index's path names
    file,      \* the files ever created: who fills one, and how far
    spc,       \* what each server is at
    handle,    \* the file it has open
    facts,     \* the HEAD it read when it started
    call,      \* the request it answers, and what it has read for it
    store,     \* the context snapshots it remembers
    durable,   \* those in the local evidence database
    answers    \* history: what agents were answered

treeVars   == <<worktree, head, changes>>
buildVars  == <<bpc, cursor, compiled, target, met, path, file>>
serverVars == <<spc, handle, facts, call, store, durable, answers>>
vars == <<treeVars, buildVars, serverVars>>

-----------------------------------------------------------------------------
(***************************************************************************)
(* Ranking: packages/resolver/src/rank.ts over packages/core.              *)
(***************************************************************************)

ChampionOf(set) ==
    IF Holds[set].state = "pinned" /\ Holds[set].champion \in Holds[set].members
    THEN Holds[set].champion ELSE None

\* The bootstrap snapshot: every asset at the prior, in percent.
EmitUnprovenSnapshot(tree) == [a \in {b \in Asset : tree.assets[b] # None} |-> 50]

\* The order of `searchAssets`, and of what `rank` returns.
Sooner(rankOf, score, a, b) ==
    \/ rankOf[a] < rankOf[b]
    \/ rankOf[a] = rankOf[b] /\ score[a] > score[b]
    \/ rankOf[a] = rankOf[b] /\ score[a] = score[b] /\ a < b

Before(S, x, rankOf, score) == Cardinality({y \in S : Sooner(rankOf, score, y, x)})

First(S, n, rankOf, score) == {x \in S : Before(S, x, rankOf, score) < n}

InOrder(S, rankOf, score) ==
    [i \in 1 .. Cardinality(S) |-> CHOOSE x \in S : Before(S, x, rankOf, score) = i - 1]

\* Wrong variant: BM25's sign misread, the least relevant first.
CompareCandidatesReversed(kept, hits, scores) ==
    InOrder(kept, [c \in kept |-> 3 - Says[hits[c]].rank], scores)

CompareCandidates(kept, hits, scores) ==
    InOrder(kept, [c \in kept |-> Says[hits[c]].rank], scores)

\* Wrong variant: a failed solution is an asset like any other.
RecommendableAll(hits) == DOMAIN hits

Recommendable(hits) == {a \in DOMAIN hits : Says[hits[a]].type # "failed_solution"}

\* `hits` maps each asset found to its record, `sets` each known set to its own.
\* The composed server supplies no project facts and no capabilities, so every
\* candidate matches and none is contradicted.
Rank(hits, sets, scores, limit) ==
    LET setOf(a) == Says[hits[a]].set
        kept == {a \in Recommendable(hits) :
                    \/ setOf(a) \notin DOMAIN sets
                    \/ ChampionOf(sets[setOf(a)]) = a}
        ordered == CompareCandidates(kept, hits, scores)
        items == SubSeq(ordered, 1, IF limit < Len(ordered) THEN limit ELSE Len(ordered))
    IN  [items |-> items,
         coverage |-> {setOf(a) : a \in {b \in Recommendable(hits) :
                           /\ setOf(b) \in DOMAIN sets
                           /\ ChampionOf(sets[setOf(b)]) = None}},
         omitted |-> Cardinality(DOMAIN hits) - Len(items)]

SearchAssets(tree, limit) ==
    LET matching == {a \in Asset : tree.assets[a] # None /\ Says[tree.assets[a]].rank > 0}
        rankOf == [a \in matching |-> Says[tree.assets[a]].rank]
        found == First(matching, limit, rankOf, [c \in matching |-> 0])
    IN  [a \in found |-> tree.assets[a]]

ListSolutionSets(tree) ==
    [s \in {t \in SetId : tree.sets[t] # None} |-> tree.sets[s]]

Least(m, n) == IF m < n THEN m ELSE n

Limit(request) ==
    IF request.verb = "resolve"
    THEN Least(IF request.limit = None THEN DefaultLimit ELSE request.limit, MaxLimit)
    ELSE IF request.beyond = "corpus" THEN MaxLimit ELSE DefaultLimit * 2

Window(limit) == Least(MaxLimit, limit * Overfetch)

RankingMode(s, request) ==
    IF Pinned[s] # None THEN Pinned[s]
    ELSE IF request.verb = "resolve" /\ request.mode # None THEN request.mode
    ELSE "live_overlay"

EffectiveViewIdFor(scores, mode) == <<mode, scores>>

\* contextSnapshotId hashes these; the digest stands for the tree compiled.
ContextSnapshot(sha, tree, mode, view) ==
    [repo_sha |-> sha, index_digest |-> tree, ranking_mode |-> mode, view |-> view]

-----------------------------------------------------------------------------
(***************************************************************************)
(* The tree, the project and their files change under everyone.            *)
(***************************************************************************)

Tree == [assets : [Asset -> Record \union {None}], body : [Asset -> Version],
         sets : [SetId -> SolutionSet \union {None}]]

Edit ==
    /\ changes < MaxChanges
    /\ changes' = changes + 1
    /\ \/ \E a \in Asset, r \in Record \union {None} : worktree' = [worktree EXCEPT !.assets[a] = r]
       \/ \E a \in Asset, v \in Version : worktree' = [worktree EXCEPT !.body[a] = v]
       \/ \E t \in SetId, s \in SolutionSet \union {None} : worktree' = [worktree EXCEPT !.sets[t] = s]
    /\ worktree' # worktree
    /\ UNCHANGED <<head, buildVars, serverVars>>

MoveHead ==
    /\ changes < MaxChanges
    /\ changes' = changes + 1
    /\ \E c \in Commit \ {head} : head' = c
    /\ UNCHANGED <<worktree, buildVars, serverVars>>

ASSUME WorkStartsWithTrees == Start \subseteq Tree

-----------------------------------------------------------------------------
(***************************************************************************)
(* Building: read the tree, remove the old file, fill a new one.           *)
(***************************************************************************)

Reading  == {"read", "check", "remove", "open"}
Building == Reading \union {"write"}

BuilderAt(b, where) == bpc' = [bpc EXCEPT ![b] = where]

NoTree == [assets |-> [a \in Asset |-> None], sets |-> [t \in SetId |-> None],
           body |-> [a \in Asset |-> CHOOSE v \in Version : TRUE]]

BeginBuild(b) ==
    /\ bpc[b] = "idle"
    /\ BuilderAt(b, "read")
    /\ met' = [x \in Builder |->
                  \/ met[x]
                  \/ x = b /\ \E y \in Builder : bpc[y] \in Building
                  \/ bpc[x] \in Building \union {"done"}]
    /\ UNCHANGED <<treeVars, cursor, compiled, target, path, file, serverVars>>

\* asset.yaml, then the body it names.
ReadAsset(b) ==
    LET a == cursor[b] IN
    /\ bpc[b] = "read" /\ a <= NumAssets
    /\ IF worktree.assets[a] = None
       THEN /\ cursor' = [cursor EXCEPT ![b] = a + 1]
            /\ UNCHANGED <<bpc, compiled>>
       ELSE /\ compiled' = [compiled EXCEPT ![b].assets[a] = worktree.assets[a],
                                           ![b].body[a] = worktree.body[a]]
            /\ BuilderAt(b, "check")
            /\ UNCHANGED cursor
    /\ UNCHANGED <<treeVars, target, met, path, file, serverVars>>

\* content_hash is compared with a second reading of the body.
CheckContentHash(b) ==
    LET a == cursor[b] IN
    /\ bpc[b] = "check"
    /\ IF worktree.body[a] = Says[compiled[b].assets[a]].hash
       THEN BuilderAt(b, "read") /\ cursor' = [cursor EXCEPT ![b] = a + 1]
       ELSE BuilderAt(b, "refused") /\ UNCHANGED cursor
    /\ UNCHANGED <<treeVars, compiled, target, met, path, file, serverVars>>

ReadSolutionSets(b) ==
    /\ bpc[b] = "read" /\ cursor[b] > NumAssets
    /\ compiled' = [compiled EXCEPT ![b].sets = worktree.sets]
    /\ BuilderAt(b, "remove")
    /\ UNCHANGED <<treeVars, cursor, target, met, path, file, serverVars>>

\* Wrong variant: what an earlier build left is built upon.
RemoveNothing(b) ==
    /\ bpc[b] = "remove"
    /\ BuilderAt(b, "open")
    /\ UNCHANGED <<treeVars, cursor, compiled, target, met, path, file, serverVars>>

\* The name goes; whoever has the file open keeps it.
RemoveStale(b) ==
    /\ bpc[b] = "remove"
    /\ path' = None
    /\ BuilderAt(b, "open")
    /\ UNCHANGED <<treeVars, cursor, compiled, target, met, file, serverVars>>

\* A file somebody else created in between is opened, not replaced.
OpenWritable(b) ==
    /\ bpc[b] = "open"
    /\ IF path = None
       THEN /\ path' = b
            /\ file' = [file EXCEPT ![b] = [by |-> None, stage |-> 0]]
       ELSE UNCHANGED <<path, file>>
    /\ target' = [target EXCEPT ![b] = path']
    /\ BuilderAt(b, "write")
    /\ UNCHANGED <<treeVars, cursor, compiled, met, serverVars>>

\* Wrong variant: the file says what it is before it is.
StagesMetaFirst == <<"schema", "version", "digest", "scores", "rows", "full">>

\* What is committed, in order: `create table`s, the assets with
\* their bodies and the solution sets, and the rows of meta one by one.
Stages == <<"schema", "rows", "version", "digest", "scores", "full">>

Has(f, what) == \E i \in 1 .. file[f].stage : Stages[i] = what

\* `create table` fails where another builder's tables are.
Write(b) ==
    LET f == target[b] IN
    /\ bpc[b] = "write"
    /\ IF file[f].by \in {None, b}
       THEN /\ file' = [file EXCEPT ![f] = [by |-> b, stage |-> @.stage + 1]]
            /\ IF file'[f].stage = Len(Stages) THEN BuilderAt(b, "done") ELSE UNCHANGED bpc
       ELSE BuilderAt(b, "failed") /\ UNCHANGED file
    /\ UNCHANGED <<treeVars, cursor, compiled, target, met, path, serverVars>>

\* A server reads the file at the moment a statement commits: SQLITE_BUSY.
ReadersOf(f) == {s \in Server : handle[s] = f /\ spc[s] \in {"version", "digest", "scores", "search", "sets"}}
WriterOf(f)  == {b \in Builder : target[b] = f /\ bpc[b] = "write"}

BuildIsLocked(b) ==
    /\ bpc[b] = "write" /\ ReadersOf(target[b]) # {}
    /\ BuilderAt(b, "failed")
    /\ met' = [met EXCEPT ![b] = TRUE]
    /\ UNCHANGED <<treeVars, cursor, compiled, target, path, file, serverVars>>

BuildDies(b) ==
    /\ bpc[b] \in Building
    /\ BuilderAt(b, "dead")
    /\ UNCHANGED <<treeVars, cursor, compiled, target, met, path, file, serverVars>>

Build(b) ==
    \/ BeginBuild(b) \/ ReadAsset(b) \/ CheckContentHash(b) \/ ReadSolutionSets(b)
    \/ RemoveStale(b) \/ OpenWritable(b) \/ Write(b) \/ BuildIsLocked(b) \/ BuildDies(b)

-----------------------------------------------------------------------------
(***************************************************************************)
(* Serving: one server holds one file from its start to its end.           *)
(***************************************************************************)

ServerAt(s, where) == spc' = [spc EXCEPT ![s] = where]
TreeOf(f) == IF Has(f, "rows") THEN compiled[file[f].by] ELSE NoTree
SetsOf(f) == IF Has(f, "rows") THEN ListSolutionSets(compiled[file[f].by]) ELSE << >>
Digest(s) == compiled[file[handle[s]].by]

\* The facts every later answer is bound to are read here, once.
StartServer(s) ==
    /\ spc[s] = "off" /\ path # None
    /\ facts' = [facts EXCEPT ![s] = head]
    /\ handle' = [handle EXCEPT ![s] = path]
    /\ ServerAt(s, "version")
    /\ UNCHANGED <<treeVars, buildVars, call, store, durable, answers>>

StopServer(s) ==
    /\ ServerAt(s, "off")
    /\ handle' = [handle EXCEPT ![s] = None]
    /\ facts' = [facts EXCEPT ![s] = None]
    /\ call' = [call EXCEPT ![s] = None]
    /\ store' = [store EXCEPT ![s] = {}]
    /\ UNCHANGED <<treeVars, buildVars, durable, answers>>

\* Killed, or the index is not one it understands.
ExitServer(s) == spc[s] # "off" /\ StopServer(s)

ReadMeta(s, now, key, next) ==
    /\ spc[s] = now /\ Has(handle[s], key)
    /\ ServerAt(s, next)
    /\ UNCHANGED <<treeVars, buildVars, handle, facts, call, store, durable, answers>>

OpenIndex(s) == ReadMeta(s, "version", "version", "digest") \/ ReadMeta(s, "digest", "digest", "ready")

Receive(s, request, view) ==
    /\ spc[s] = "ready" /\ Cardinality(answers) < MaxAnswers
    /\ call' = [call EXCEPT ![s] = [request |-> request, names |-> view, since |-> head,
                                    scores |-> None, hits |-> None, ranked |-> None,
                                    snapshot |-> None]]
    /\ ServerAt(s, "scores")
    /\ UNCHANGED <<treeVars, buildVars, handle, facts, store, durable, answers>>

Refuse(s) ==
    /\ ServerAt(s, "ready")
    /\ call' = [call EXCEPT ![s] = None]
    /\ UNCHANGED <<treeVars, buildVars, handle, facts, store, durable, answers>>

ReadScores(s) ==
    LET scores == EmitUnprovenSnapshot(Digest(s))
        view == EffectiveViewIdFor(scores, RankingMode(s, call[s].request))
    IN  /\ spc[s] = "scores"
        /\ IF Has(handle[s], "scores") /\ call[s].names \in {None, view}
           THEN /\ call' = [call EXCEPT ![s].scores = scores]
                /\ ServerAt(s, "search")
                /\ UNCHANGED <<treeVars, buildVars, handle, facts, store, durable, answers>>
           ELSE Refuse(s)

Search(s) ==
    /\ spc[s] = "search"
    /\ call' = [call EXCEPT ![s].hits =
                  SearchAssets(TreeOf(handle[s]), Window(Limit(call[s].request)))]
    /\ ServerAt(s, "sets")
    /\ UNCHANGED <<treeVars, buildVars, handle, facts, store, durable, answers>>

RankAndRemember(s) ==
    LET c == call[s]
        mode == RankingMode(s, c.request)
        snapshot == ContextSnapshot(facts[s], Digest(s), mode, EffectiveViewIdFor(c.scores, mode))
    IN  /\ spc[s] = "sets"
        /\ call' = [call EXCEPT
              ![s].ranked = Rank(c.hits, SetsOf(handle[s]), c.scores, Limit(c.request)),
              ![s].snapshot = snapshot]
        /\ store' = [store EXCEPT ![s] = @ \union {snapshot}]
        /\ ServerAt(s, "persist")
        /\ UNCHANGED <<treeVars, buildVars, handle, facts, durable, answers>>

\* Wrong variant: what is remembered is taken to have been persisted.
PersistSnapshotOnce(s) ==
    /\ spc[s] = "persist"
    /\ durable' = IF call[s].snapshot \in store[s] THEN durable
                  ELSE durable \union {call[s].snapshot}
    /\ ServerAt(s, "answer")
    /\ UNCHANGED <<treeVars, buildVars, handle, facts, call, store, answers>>

PersistSnapshot(s) ==
    /\ spc[s] = "persist"
    /\ durable' = durable \union {call[s].snapshot}
    /\ ServerAt(s, "answer")
    /\ UNCHANGED <<treeVars, buildVars, handle, facts, call, store, answers>>

\* The index is locked by its builder, or the evidence database refuses.
CallFails(s) ==
    /\ \/ spc[s] \in {"scores", "search", "sets"} /\ WriterOf(handle[s]) # {}
       \/ spc[s] = "persist"
    /\ Refuse(s)

Answer(s) ==
    /\ spc[s] = "answer"
    /\ answers' = answers \union
          {[request |-> call[s].request, snapshot |-> call[s].snapshot,
            ranked |-> call[s].ranked, during |-> {call[s].since, head}]}
    /\ call' = [call EXCEPT ![s] = None]
    /\ ServerAt(s, "ready")
    /\ UNCHANGED <<treeVars, buildVars, handle, facts, store, durable>>

\* What `inspect` shows later, nothing where it refuses.
Inspect(s, kind, id) ==
    LET tree == TreeOf(handle[s])
        sets == SetsOf(handle[s])
    IN  CASE kind = "snapshot" -> (store[s] \union durable) \intersect {id}
          [] kind = "solution_set" -> {sets[t] : t \in DOMAIN sets \intersect {id}}
          [] kind = "asset" -> {<<tree.assets[a], tree.body[a]>> :
                                   a \in {b \in Asset : b = id /\ tree.assets[b] # None}}

Serve(s) ==
    \/ StartServer(s) \/ ExitServer(s) \/ OpenIndex(s)
    \/ \E r \in Ask, v \in {None} \union {x.snapshot.view : x \in answers} :
           (v # None => r.verb = "resolve") /\ Receive(s, r, v)
    \/ ReadScores(s) \/ Search(s) \/ RankAndRemember(s) \/ PersistSnapshot(s)
    \/ CallFails(s) \/ Answer(s)

-----------------------------------------------------------------------------
Consistent(tree) ==
    \A a \in Asset : tree.assets[a] # None => tree.body[a] = Says[tree.assets[a]].hash

Init ==
    /\ worktree \in Start
    /\ head = CHOOSE c \in Commit : TRUE
    /\ changes = 0
    /\ bpc = [b \in Builder |-> "idle"]
    /\ cursor = [b \in Builder |-> 1]
    /\ compiled = [b \in Builder |-> NoTree]
    /\ target = [b \in Builder |-> None]
    /\ met = [b \in Builder |-> FALSE]
    /\ path = None
    /\ file = [b \in Builder |-> None]
    /\ spc = [s \in Server |-> "off"]
    /\ handle = [s \in Server |-> None]
    /\ facts = [s \in Server |-> None]
    /\ call = [s \in Server |-> None]
    /\ store = [s \in Server |-> {}]
    /\ durable = {}
    /\ answers = {}

Next == Edit \/ MoveHead \/ (\E b \in Builder : Build(b)) \/ (\E s \in Server : Serve(s))

Spec == Init /\ [][Next]_vars

-----------------------------------------------------------------------------
Snapshot == [repo_sha : Commit, index_digest : Tree, ranking_mode : Mode,
             view : Mode \X {EmitUnprovenSnapshot(compiled[b]) : b \in Builder}]

(***************************************************************************)
(* Types.  A server that answers has a file that says what it is, and the  *)
(* file somebody fills is one somebody created.                            *)
(***************************************************************************)
TypeOK ==
    /\ worktree \in Tree /\ head \in Commit /\ changes \in 0 .. MaxChanges
    /\ bpc \in [Builder -> Building \union {"idle", "refused", "failed", "dead", "done"}]
    /\ cursor \in [Builder -> 1 .. NumAssets + 1]
    /\ \A b \in Builder : compiled[b] \in Tree
    /\ target \in [Builder -> Builder \union {None}]
    /\ met \in [Builder -> BOOLEAN]
    /\ path \in Builder \union {None}
    /\ \A b \in Builder : file[b] # None =>
           file[b].by \in Builder \union {None} /\ file[b].stage \in 0 .. Len(Stages)
    /\ \A b \in Builder : target[b] # None => file[target[b]] # None
    /\ path # None => file[path] # None
    /\ \A s \in Server : \/ spc[s] = "off" /\ handle[s] = None /\ facts[s] = None
                         \/ /\ spc[s] \in {"version", "digest", "ready", "scores", "search",
                                             "sets", "persist", "answer"}
                            /\ file[handle[s]] # None /\ facts[s] \in Commit
                            /\ spc[s] \notin {"version", "digest"} => Has(handle[s], "digest")
    /\ durable \subseteq Snapshot
    /\ Cardinality(answers) <= MaxAnswers + Cardinality(Server)

\* Answers on their way to an agent.
Given == {call[s] : s \in {t \in Server : spc[t] = "answer"}}

(***************************************************************************)
(* A decision never cites an index it did not see (build-index.ts, T-05):  *)
(* whatever happened to the file between the readings of one call, the     *)
(* answer is what one ranking over the tree of its index_digest gives, and *)
(* that tree is one a builder read to the end.                             *)
(***************************************************************************)
AnswersAreOneTree ==
    \A x \in Given :
        LET tree == x.snapshot.index_digest
            scores == EmitUnprovenSnapshot(tree)
            limit == Limit(x.request)
        IN  /\ \E b \in Builder : compiled[b] = tree /\ bpc[b] \notin Reading
            /\ x.ranked = Rank(SearchAssets(tree, Window(limit)), ListSolutionSets(tree), scores, limit)
            /\ x.snapshot.view = EffectiveViewIdFor(scores, x.snapshot.ranking_mode)

(***************************************************************************)
(* What is put in front of an agent (D9, D28): never a failed solution, of *)
(* a known set nothing but its pinned champion, and no set both answered   *)
(* and reported unresolved.                                                *)
(***************************************************************************)
OnlyChampionsAreProposed ==
    \A x \in Given :
        LET tree == x.snapshot.index_digest
            known == DOMAIN ListSolutionSets(tree)
        IN  \A i \in DOMAIN x.ranked.items :
               LET a == x.ranked.items[i]
                   set == Says[tree.assets[a]].set
               IN  /\ Says[tree.assets[a]].type # "failed_solution"
                   /\ set \in known => /\ Holds[tree.sets[set]].state = "pinned"
                                       /\ Holds[tree.sets[set]].champion = a
                                       /\ set \notin x.ranked.coverage

(***************************************************************************)
(* `expand` deliberately widens the limit: over the same index, what the   *)
(* default `resolve` proposed or reported is still there, although the     *)
(* search behind it fetched other rows.                                    *)
(***************************************************************************)
ExpandWidens ==
    \A x, y \in answers :
        /\ x.request.verb = "resolve" /\ x.request.limit = None
        /\ y.request.verb = "expand"
        /\ x.snapshot.index_digest = y.snapshot.index_digest
        => /\ ToSet(x.ranked.items) \subseteq ToSet(y.ranked.items)
           /\ x.ranked.coverage \subseteq y.ranked.coverage

(***************************************************************************)
(* What an answer cites can be inspected: its snapshot on any server, also *)
(* after a restart or a call that failed to persist, and its items and     *)
(* sets on every server of the same index.                                 *)
(***************************************************************************)
CitedIsInspectable ==
    \A x \in answers, s \in Server :
        spc[s] = "ready" =>
           /\ Inspect(s, "snapshot", x.snapshot) # {}
           /\ Digest(s) = x.snapshot.index_digest =>
                 /\ \A i \in DOMAIN x.ranked.items :
                       Inspect(s, "asset", x.ranked.items[i]) # {}
                 /\ \A t \in x.ranked.coverage : Inspect(s, "solution_set", t) # {}

(***************************************************************************)
(* A build that no other process came between fails only for what is in    *)
(* the tree, whatever earlier builds left when they died, and leaves a     *)
(* whole index of the tree it read.                                        *)
(***************************************************************************)
AloneItServes ==
    \A b \in Builder : ~met[b] =>
        /\ bpc[b] # "failed"
        /\ bpc[b] = "done" => path = b /\ file[b] = [by |-> b, stage |-> Len(Stages)]

(***************************************************************************)
(* build-index.ts: "Everything is validated here, at the boundary, so an   *)
(* invalid asset never reaches the index": what an index holds as a body   *)
(* is what content_hash was taken over.                                    *)
(***************************************************************************)
BodiesAreTheHashed == \A s \in Server : spc[s] = "ready" => Consistent(TreeOf(handle[s]))

(***************************************************************************)
(* context.ts: a context snapshot is "the situation a `resolve` happened   *)
(* in": its repo_sha is the project's HEAD when the call came or when it   *)
(* was answered.                                                           *)
(***************************************************************************)
SnapshotIsTheSituation == \A x \in answers : x.snapshot.repo_sha \in x.during
=============================================================================
