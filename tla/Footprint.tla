----------------------------- MODULE Footprint -----------------------------
(***************************************************************************)
(* What `ieos init` writes into somebody else's repository, and what       *)
(* `ieos doctor` then says of it (packages/adapters/cli).                  *)
(*                                                                         *)
(* A command writes up to seven files one after another, each read, merged *)
(* and written back without a lock; the owner of the project edits the     *)
(* same files at any time; a command may die in the middle of a write; two *)
(* commands may run at once, from one checkout of the EOS or from two.     *)
(*                                                                         *)
(* A file is the sequence of its lines, servers, sections or entries, as   *)
(* far as the merges tell them apart. An empty file and a missing one are  *)
(* told apart only where the code does.                                    *)
(***************************************************************************)
EXTENDS Naturals, FiniteSets, SequencesExt

CONSTANTS
    Command,     \* runs of `ieos init`; an identity is named by the run that minted it
    Minted,      \* identities from before
    Checkout,    \* EOS checkouts commands are started from
    Slashed,     \* those whose paths are written with slashes; path.join gives backslashes on Windows
    Event,       \* the events hooks are registered for, four in the code
    Project,     \* the trees the project may hold before the first command
    MaxEdits,    \* bound on what the owner does to the files
    Nobody

Documents == {"AGENTS.md", "CLAUDE.md"}
Files     == <<"installation.json", "profile.yaml", "mcp.json", "config.toml",
               "AGENTS.md", "CLAUDE.md", "settings.json">>
Path      == Range(Files)
Json      == {"installation.json", "mcp.json", "settings.json"}

VARIABLES
    disk,      \* the project's files
    pc,        \* what each command is at
    at,        \* the file it is at, by its place in Files
    draft,     \* what it is about to write there
    identity,  \* the installation it writes
    checkout,  \* the checkout it was started from
    hooked,    \* --with-hooks
    edits,     \* how often the owner changed a file
    alone,     \* history: the last command that had the project to itself since it started
    base,      \* history: the files it found
    prior      \* history: the command that had left them so, alone, just before
footprintVars == <<disk, pc, at, draft, identity, checkout, hooked, edits, alone, base, prior>>

----------------------------------------------------------------------------
(***************************************************************************)
(* Lines.                                                                  *)
(***************************************************************************)
Begin         == [is |-> "begin"]
End           == [is |-> "end"]
Cut           == [is |-> "cut"]      \* text that was torn off in the middle
Half          == [is |-> "half"]     \* our section of config.toml, torn off below its header
Theirs(n)     == [is |-> "theirs", line |-> n]
About(id, c)  == [is |-> "about", of |-> id, from |-> c]
Server(c)     == [is |-> "server", from |-> c]
Entry(e, run) == [is |-> "entry", on |-> e, runs |-> run]

Identity == Command \union Minted

Line == [is : {"begin", "end", "cut", "half"}] \union [is : {"theirs"}, line : Nat]
            \union [is : {"about"}, of : Identity, from : Checkout]
            \union [is : {"server"}, from : Checkout]
            \union [is : {"entry"}, on : Event, runs : SUBSET (Checkout \union {"theirs"})]

Absent  == [there |-> FALSE, text |-> <<>>]
Held(t) == [there |-> TRUE, text |-> t]

ProjectFile == [there : BOOLEAN, text : Seq(Line)]

\* What the files that name the installation hold, torn ones included.
Named == {<<>>, <<Cut>>} \union {<<About(id, c)>> : id \in Identity, c \in Checkout}

Naming == {"installation.json", "profile.yaml"}

ASSUME NobodyIsNoCommand == Nobody \notin Command
ASSUME SlashedAreCheckouts == Slashed \subseteq Checkout
ASSUME EventsAreFinite   == IsFiniteSet(Event) /\ Event # {}
ASSUME MaxEditsIsNat     == MaxEdits \in Nat
ASSUME ProjectsAreTrees  ==
    \A files \in Project : /\ files \in [Path -> ProjectFile]
                           /\ \A path \in Naming : files[path].text \in Named

\* A text but for some of its lines.
Without(text, lines) ==
    LET kept[n \in 0 .. Len(text)] ==
            IF n = 0 THEN <<>>
            ELSE IF text[n] \in lines THEN kept[n - 1] ELSE Append(kept[n - 1], text[n])
    IN  kept[Len(text)]

\* The generated block: its text is a function of the identity and the checkout.
BootstrapParagraph(id, c) == <<Begin, About(id, c), End>>

\* Where a line first stands in a text; 0 where it does not.
IndexOf(text, line) == SelectInSeq(text, LAMBDA x : x = line)

MarkedBlock(text) ==
    LET b == IndexOf(text, Begin)
        e == IndexOf(text, End) IN
    IF b = 0 \/ e = 0 \/ e < b THEN <<>> ELSE SubSeq(text, b, e)

\* A wrong Splice: what follows the block is taken from the END marker on.
SpliceKeepingEnd(text, block) ==
    LET b == IndexOf(text, Begin)
        e == IndexOf(text, End) IN
    IF b = 0 \/ e = 0 \/ e < b THEN text \o block
    ELSE SubSeq(text, 1, b - 1) \o block \o SubSeq(text, e, Len(text))

SpliceMarkedBlock(text, block) ==
    LET b == IndexOf(text, Begin)
        e == IndexOf(text, End) IN
    IF b = 0 \/ e = 0 \/ e < b THEN text \o block
    ELSE SubSeq(text, 1, b - 1) \o block \o SubSeq(text, e + 1, Len(text))

Parses(text) == {Cut, Half} \intersect Range(text) = {}

\* Our server in mcp.json, or what the header of our section is found by in config.toml.
IsServer(x) == x.is \in {"server", "half"}

\* A wrong merge: ours is added whatever stands there.
MergeServerAdded(text, c) == Append(text, Server(c))

\* Both merges: our server or section where it stands, or after the project's own. That of
\* config.toml is a substitution in a text it does not parse: what was cut off stays.
MergeServer(text, c) ==
    LET ours == SelectInSeq(text, IsServer) IN
    IF ours = 0 THEN Append(text, Server(c)) ELSE [text EXCEPT ![ours] = Server(c)]

\* An entry with the very command, or with one that names the hook by its path with
\* slashes, whatever else it runs.
IsOurs(entry, c) == entry.is = "entry" /\ entry.runs \intersect (Slashed \union {c}) # {}

MergeClaudeSettings(text, c) ==
    Without(text, {x \in Range(text) : IsOurs(x, c)})
        \o SetToSeq({Entry(e, {c}) : e \in Event})

----------------------------------------------------------------------------
(***************************************************************************)
(* ieos doctor, on the files as they are.                                  *)
(***************************************************************************)
\* An entry with a command that names the hook by its path with slashes.
RunsTheHook(entry) == entry.is = "entry" /\ entry.runs \intersect Slashed # {}

\* The file names an identity.
Whole(files) == /\ files["installation.json"].there
                /\ \E x \in Range(files["installation.json"].text) : x.is = "about"

Installed(files) == files["installation.json"].text[1]

ObserveBootstrap(files) ==
    IF ~files["installation.json"].there THEN "uninstalled"
    ELSE IF /\ Whole(files)
            /\ \A d \in Documents : MarkedBlock(files[d].text)
                    = BootstrapParagraph(Installed(files).of, Installed(files).from)
         THEN "healthy" ELSE "drifted"

ObserveHooks(files) ==
    LET text  == files["settings.json"].text
        found == {e \in Event : \E x \in Range(text) : RunsTheHook(x) /\ x.on = e} IN
    IF ~Parses(text) \/ found = {} THEN "unregistered"
    ELSE IF found = Event THEN "registered" ELSE "partial"

----------------------------------------------------------------------------
FootprintInit ==
    /\ disk \in Project
    /\ pc = [p \in Command |-> "none"]
    /\ at = [p \in Command |-> 0]
    /\ draft = [p \in Command |-> <<>>]
    /\ identity = [p \in Command |-> Nobody]
    /\ checkout = [p \in Command |-> Nobody]
    /\ hooked = [p \in Command |-> FALSE]
    /\ edits = 0
    /\ alone = Nobody
    /\ base = <<>>
    /\ prior = Nobody

Running(p) == pc[p] \in {"identity", "read", "write"}

\* The history of who has the project to itself is given up.
Disturbed == alone' = Nobody /\ base' = <<>> /\ prior' = Nobody

\* A command that ran to its end with nobody else at the files.
Completed(p) == alone = p /\ pc[p] = "done"

\* `ieos init` is typed.
Start(p, c, h) ==
    /\ pc[p] = "none"
    /\ pc' = [pc EXCEPT ![p] = "identity"]
    /\ checkout' = [checkout EXCEPT ![p] = c]
    /\ hooked' = [hooked EXCEPT ![p] = h]
    /\ IF \E q \in Command : Running(q)
       THEN Disturbed
       ELSE /\ alone' = p /\ base' = <<disk>>
            /\ prior' = IF \E q \in Command : Completed(q) THEN alone ELSE Nobody
    /\ UNCHANGED <<disk, at, draft, identity, edits>>

\* The identity the project has, or a new one.
IdentityOf(p) == IF disk["installation.json"].there THEN Installed(disk).of ELSE p

\* installation.json is JSON and holds both ids.
Readable(files) == Whole(files)

ExistingIdentity(p) ==
    /\ pc[p] = "identity"
    /\ disk["installation.json"].there => Readable(disk)
    /\ identity' = [identity EXCEPT ![p] = IdentityOf(p)]
    /\ pc' = [pc EXCEPT ![p] = "read"]
    /\ at' = [at EXCEPT ![p] = 1]
    /\ UNCHANGED <<disk, draft, checkout, hooked, edits, alone, base, prior>>

\* Exit 2: an identity is never minted over a file that cannot be read.
Refuse(p) ==
    /\ pc[p] = "identity"
    /\ disk["installation.json"].there /\ ~Readable(disk)
    /\ pc' = [pc EXCEPT ![p] = "refused"]
    /\ UNCHANGED <<disk, at, draft, identity, checkout, hooked, edits, alone, base, prior>>

\* What init writes to a file that holds text.
Merged(p, path, text) ==
    LET c == checkout[p] IN
    CASE path \in {"mcp.json", "config.toml"} -> MergeServer(text, c)
      [] path = "settings.json" -> MergeClaudeSettings(text, c)
      [] path \in Documents -> SpliceMarkedBlock(text, BootstrapParagraph(identity[p], c))
      [] OTHER -> <<About(identity[p], c)>>

\* A wrong Kept: what exists is kept wherever init owns the whole file.
KeptWherever(path) == path \in {"profile.yaml", "installation.json"} /\ disk[path].there

\* The profile is the project's after it was first written.
Kept(path) == path = "profile.yaml" /\ disk[path].there

\* settings.json comes last, and only --with-hooks writes it.
After(p, i) == IF i = Len(Files) \/ (Files[i + 1] = "settings.json" /\ ~hooked[p])
               THEN "done" ELSE "read"

Advance(p) ==
    /\ pc' = [pc EXCEPT ![p] = After(p, at[p])]
    /\ at' = [at EXCEPT ![p] = IF After(p, at[p]) = "done" THEN 0 ELSE @ + 1]

Keep(p) ==
    /\ pc[p] = "read" /\ Kept(Files[at[p]])
    /\ Advance(p)
    /\ UNCHANGED <<disk, draft, identity, checkout, hooked, edits, alone, base, prior>>

ReadFile(p) ==
    /\ pc[p] = "read"
    /\ LET path == Files[at[p]] IN
         /\ ~Kept(path)
         /\ path \in {"mcp.json", "settings.json"} => Parses(disk[path].text)
         /\ draft' = [draft EXCEPT ![p] = Merged(p, path, disk[path].text)]
    /\ pc' = [pc EXCEPT ![p] = "write"]
    /\ UNCHANGED <<disk, at, identity, checkout, hooked, edits, alone, base, prior>>

\* A file of the project's that is not JSON ends the command, files already written stay.
Throw(p) ==
    /\ pc[p] = "read"
    /\ Files[at[p]] \in {"mcp.json", "settings.json"} /\ ~Parses(disk[Files[at[p]]].text)
    /\ pc' = [pc EXCEPT ![p] = "threw"]
    /\ at' = [at EXCEPT ![p] = 0]
    /\ UNCHANGED <<disk, draft, identity, checkout, hooked, edits, alone, base, prior>>

WriteFile(p) ==
    /\ pc[p] = "write"
    /\ disk' = [disk EXCEPT ![Files[at[p]]] = Held(draft[p])]
    /\ draft' = [draft EXCEPT ![p] = <<>>]
    /\ Advance(p)
    /\ UNCHANGED <<identity, checkout, hooked, edits, alone, base, prior>>

\* What a write that does not end leaves of a text: some of its first lines, and
\* part of the next, the header of our section or less. Part of a JSON document is not JSON.
Torn(path, text) ==
    IF path \in Json THEN {<<>>, <<Cut>>}
    ELSE LET firsts == {SubSeq(text, 1, k) : k \in 0 .. (Len(text) - 1)} IN
         firsts \union {Append(t, Cut) : t \in firsts}
                \union {Append(t, Half) : t \in {u \in firsts : IsServer(text[Len(u) + 1])}}

Die(p) ==
    /\ Running(p)
    /\ pc' = [pc EXCEPT ![p] = "dead"]
    /\ at' = [at EXCEPT ![p] = 0]
    /\ draft' = [draft EXCEPT ![p] = <<>>]
    /\ \/ disk' = disk
       \/ /\ pc[p] = "write"
          /\ \E t \in Torn(Files[at[p]], draft[p]) :
                 disk' = [disk EXCEPT ![Files[at[p]]] = Held(t)]
    /\ UNCHANGED <<identity, checkout, hooked, edits, alone, base, prior>>

----------------------------------------------------------------------------
(***************************************************************************)
(* The project's owner.                                                    *)
(***************************************************************************)
Edit(path, file) ==
    /\ edits < MaxEdits
    /\ edits' = edits + 1
    /\ disk' = [disk EXCEPT ![path] = file]
    /\ Disturbed
    /\ UNCHANGED <<pc, at, draft, identity, checkout, hooked>>

\* A line of the owner's at the top or at the end of a document.
AddLine ==
    \E d \in Documents :
        LET text == disk[d].text
            line == Theirs(edits + 1) IN
        \/ Edit(d, Held(Append(text, line)))
        \/ Edit(d, Held(<<line>> \o text))

\* One line of a document is deleted, a marker perhaps.
DeleteLine ==
    \E d \in Documents : \E i \in 1 .. Len(disk[d].text) :
        Edit(d, Held(RemoveAt(disk[d].text, i)))

\* A file is deleted, one that cannot be read perhaps.
DeleteFile ==
    \E path \in Path : disk[path].there /\ Edit(path, Absent)

\* Another hook on one event: an entry of its own, or put into ours.
AddHook ==
    /\ Parses(disk["settings.json"].text)
    /\ LET text == disk["settings.json"].text IN
         \E e \in Event :
            \/ Edit("settings.json", Held(Append(text, Entry(e, {"theirs"}))))
            \/ \E i \in 1 .. Len(text) :
                 /\ text[i].is = "entry" /\ text[i].on = e
                 /\ Edit("settings.json",
                         Held([text EXCEPT ![i].runs = @ \union {"theirs"}]))

Owner == AddLine \/ DeleteLine \/ DeleteFile \/ AddHook

Step(p) ==
    \/ \E c \in Checkout, h \in BOOLEAN : Start(p, c, h)
    \/ ExistingIdentity(p) \/ Refuse(p)
    \/ Keep(p) \/ ReadFile(p) \/ Throw(p) \/ WriteFile(p)
    \/ Die(p)

FootprintNext == Owner \/ \E p \in Command : Step(p)

FootprintSpec == FootprintInit /\ [][FootprintNext]_footprintVars

----------------------------------------------------------------------------
(***************************************************************************)
(* Properties.                                                             *)
(***************************************************************************)
FootprintTypeOK ==
    /\ disk \in [Path -> ProjectFile] /\ \A path \in Naming : disk[path].text \in Named
    /\ pc \in [Command -> {"none", "identity", "read", "write", "done", "refused",
                           "threw", "dead"}]
    /\ at \in [Command -> 0 .. Len(Files)]
    /\ draft \in [Command -> Seq(Line)]
    /\ identity \in [Command -> Identity \union {Nobody}]
    /\ checkout \in [Command -> Checkout \union {Nobody}]
    /\ hooked \in [Command -> BOOLEAN]
    /\ edits \in 0 .. MaxEdits
    /\ alone \in Command \union {Nobody} /\ prior \in Command \union {Nobody}

\* A marker without the other, or the two the wrong way round.
Broken(text) == /\ {Begin, End} \intersect Range(text) # {}
                /\ MarkedBlock(text) = <<>>

\* A document but for its block.
Outside(text) ==
    IF MarkedBlock(text) = <<>> THEN text
    ELSE SubSeq(text, 1, IndexOf(text, Begin) - 1)
             \o SubSeq(text, IndexOf(text, End) + 1, Len(text))

OursOn(text, e) == {i \in 1 .. Len(text) : RunsTheHook(text[i]) /\ text[i].on = e}

\* The entries that run the hook of one checkout, however its path is written.
HooksOf(text, e, c) ==
    {i \in 1 .. Len(text) : text[i].is = "entry" /\ text[i].on = e /\ c \in text[i].runs}

\* The file can be read, and names the server of this checkout.
Launches(text, c) == Parses(text) /\ Server(c) \in Range(text)

\* Whatever earlier commands left half written, moved or overlapped, and whatever the
\* owner did, an `ieos init` that runs alone to its end leaves a project whose blocks `ieos
\* doctor` calls healthy, that launches the server of the checkout it was run from, and
\* that runs that checkout's hook once if it was asked for hooks; and it is the
\* installation it was, in installation.json and in a recreated profile, if it was one, so
\* that its evidence stays one installation's. Four things are excepted, as the code has
\* them: a document whose markers were broken; a config.toml cut off anywhere but below
\* our header, which no merge parses and the section is added to; a profile, which is kept
\* as it stands, whole or torn; and what doctor says of a hook whose path has backslashes,
\* which it does not find.
RerunRepairs ==
    \A p \in Command : Completed(p) =>
        /\ (\A d \in Documents : ~Broken(base[1][d].text)) => ObserveBootstrap(disk) = "healthy"
        /\ Launches(disk["mcp.json"].text, checkout[p])
        /\ Cut \notin Range(base[1]["config.toml"].text) =>
               Launches(disk["config.toml"].text, checkout[p])
        /\ hooked[p] => LET text == disk["settings.json"].text IN
               /\ checkout[p] \in Slashed => ObserveHooks(disk) = "registered"
               /\ \A e \in Event : /\ Cardinality(HooksOf(text, e, checkout[p])) = 1
                                   /\ Cardinality(OursOn(text, e)) <= 1
        /\ Whole(base[1]) =>
               /\ Installed(disk).of = Installed(base[1]).of
               /\ ~base[1]["profile.yaml"].there =>
                      disk["profile.yaml"].text[1].of = Installed(base[1]).of

\* What the owner wrote around the block, in the profile, and beside our server, section
\* and hook entries is the same after an `ieos init` as before it.
TheirsSurvives ==
    \A p \in Command : Completed(p) =>
        /\ \A d \in Documents : ~Broken(base[1][d].text) =>
               Outside(disk[d].text) = Outside(base[1][d].text)
        /\ base[1]["profile.yaml"].there => disk["profile.yaml"] = base[1]["profile.yaml"]
        /\ \A path \in {"mcp.json", "config.toml"} :
               LET others(text) == Without(text, {x \in Range(text) : IsServer(x)}) IN
               others(disk[path].text) = others(base[1][path].text)
        /\ LET foreign(text) == Without(text, {x \in Range(text) : IsOurs(x, checkout[p])}) IN
           foreign(disk["settings.json"].text) = foreign(base[1]["settings.json"].text)

\* One block and one server, at most; and for each event one hook named with slashes and
\* one of each checkout, at most.
OneOfEach(files) ==
    /\ \A d \in Documents :
         Cardinality({i \in 1 .. Len(files[d].text) : files[d].text[i] = Begin}) <= 1
    /\ \A path \in {"mcp.json", "config.toml"} :
         Cardinality({i \in 1 .. Len(files[path].text) : IsServer(files[path].text[i])}) <= 1
    /\ \A e \in Event :
         /\ Cardinality(OursOn(files["settings.json"].text, e)) <= 1
         /\ \A c \in Checkout : Cardinality(HooksOf(files["settings.json"].text, e, c)) <= 1

\* Commands that overlap or are run again, from one checkout or from several, never make
\* the agent read two blocks or start two servers, nor run one checkout's hook twice for an
\* event, nor those of two whose paths have slashes: at most one of each stands in every
\* file, as long as the owner has not touched one and no write was torn. Of checkouts whose
\* paths have backslashes each has its own hook, side by side: see HooksStandOnce.
NeverStacks ==
    (edits = 0 /\ \A p \in Command : pc[p] # "dead") => OneOfEach(disk)

\* "Re-running `ieos init` does not stack duplicates ... every re-init would add another copy
\* and the agent would emit each event twice" (init.ts): whatever checkout it is re-run
\* from, one hook for each event. It is not so on Windows, where the hook of another
\* checkout is not found by its path.
HooksStandOnce ==
    (edits = 0 /\ \A p \in Command : pc[p] # "dead") =>
        \A e \in Event :
            Cardinality({i \in 1 .. Len(disk["settings.json"].text) :
                            LET x == disk["settings.json"].text[i] IN
                            x.is = "entry" /\ x.on = e /\ x.runs \intersect Checkout # {}}) <= 1

\* NeverStacks is about what the commands add: what a project holds twice before the
\* first of them, or a marker that stands alone, is its owner's doing.
ASSUME ProjectsHoldOneOfEach ==
    \A files \in Project : OneOfEach(files) /\ \A d \in Documents : ~Broken(files[d].text)

\* "Re-running is therefore idempotent" (init.ts): a second `ieos init` from the checkout
\* and with the flags of the first, nothing else having happened, changes no file.
RerunningIsIdempotent ==
    \A p \in Command :
        (/\ Completed(p) /\ prior # Nobody
         /\ checkout[p] = checkout[prior] /\ hooked[p] = hooked[prior]) => disk = base[1]

\* It is so of a project that `ieos doctor` calls healthy: with no marker alone in either
\* document, the second command finds its own block, server and entries, and nothing moves.
RerunChangesNothing ==
    \A p \in Command :
        (/\ Completed(p) /\ prior # Nobody
         /\ checkout[p] = checkout[prior] /\ hooked[p] = hooked[prior]
         /\ ObserveBootstrap(base[1]) = "healthy") => disk = base[1]
=============================================================================
