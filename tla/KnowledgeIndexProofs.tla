------------------------ MODULE KnowledgeIndexProofs ------------------------
(***************************************************************************)
(* What an answer of the knowledge index is, proved for every number of    *)
(* assets, solution sets, builders and servers, whatever the limits, the   *)
(* edits and the requests.                                                 *)
(***************************************************************************)
EXTENDS KnowledgeIndex, FiniteSetTheorems, TLAPS

-----------------------------------------------------------------------------
(***************************************************************************)
(* Ranking.  The order of candidates is strict and total, so that of a     *)
(* finite set of them each has a place of its own and no place is empty.   *)
(***************************************************************************)
Ordered(S, rankOf, score) == \A x \in S : x \in Asset /\ rankOf[x] \in Int /\ score[x] \in Int

LEMMA SoonerOrders ==
    ASSUME NEW S, NEW rankOf, NEW score, Ordered(S, rankOf, score)
    PROVE  /\ \A x \in S : ~Sooner(rankOf, score, x, x)
           /\ \A x, y, z \in S : Sooner(rankOf, score, x, y) /\ Sooner(rankOf, score, y, z)
                                     => Sooner(rankOf, score, x, z)
           /\ \A x, y \in S : x # y => \/ Sooner(rankOf, score, x, y)
                                       \/ Sooner(rankOf, score, y, x)
  BY LimitsAreNat DEF Ordered, Sooner, Asset

LEMMA AssetsAreFinite ==
    ASSUME NEW S \in SUBSET Asset
    PROVE  IsFiniteSet(S) /\ Cardinality(S) \in Nat
  <1>1. IsFiniteSet(Asset)
    BY LimitsAreNat, FS_Interval DEF Asset
  <1>. QED  BY <1>1, FS_Subset, FS_CardinalityType

\* What comes sooner has a smaller place.
LEMMA PlacesGrow ==
    ASSUME NEW S, NEW rankOf, NEW score, Ordered(S, rankOf, score), NEW x \in S, NEW y \in S,
           Sooner(rankOf, score, x, y)
    PROVE  Before(S, x, rankOf, score) < Before(S, y, rankOf, score)
  <1>. DEFINE X == {z \in S : Sooner(rankOf, score, z, x)}
              Y == {z \in S : Sooner(rankOf, score, z, y)}
  <1>1. X \union {x} \subseteq Y /\ x \notin X /\ Y \subseteq Asset
    BY SoonerOrders DEF Ordered
  <1>. HIDE DEF X, Y
  <1>2. /\ IsFiniteSet(X) /\ IsFiniteSet(Y)
        /\ Cardinality(X) \in Nat /\ Cardinality(Y) \in Nat
    BY <1>1, AssetsAreFinite
  <1>3. Cardinality(X \union {x}) = Cardinality(X) + 1
    BY <1>1, <1>2, FS_AddElement
  <1>4. Cardinality(X \union {x}) <= Cardinality(Y)
    BY <1>1, <1>2, FS_Subset
  <1>. QED  BY <1>2, <1>3, <1>4 DEF X, Y, Before

LEMMA PlaceInRange ==
    ASSUME NEW S, NEW rankOf, NEW score, Ordered(S, rankOf, score), NEW x \in S
    PROVE  Before(S, x, rankOf, score) \in 0 .. Cardinality(S) - 1
  <1>. DEFINE X == {z \in S : Sooner(rankOf, score, z, x)}
  <1>1. X \subseteq S \ {x} /\ X \subseteq Asset /\ S \subseteq Asset
    BY SoonerOrders DEF Ordered
  <1>. HIDE DEF X
  <1>2. /\ IsFiniteSet(S) /\ IsFiniteSet(S \ {x}) /\ Cardinality(X) \in Nat
        /\ Cardinality(S) \in Nat
    BY <1>1, AssetsAreFinite
  <1>3. Cardinality(S \ {x}) = Cardinality(S) - 1
    BY <1>2, FS_RemoveElement
  <1>4. Cardinality(X) <= Cardinality(S \ {x})
    BY <1>1, <1>2, FS_Subset
  <1>. QED  BY <1>2, <1>3, <1>4 DEF X, Before

LEMMA NoPlaceIsEmpty ==
    ASSUME NEW S, NEW rankOf, NEW score, Ordered(S, rankOf, score),
           NEW i \in 1 .. Cardinality(S)
    PROVE  \E x \in S : Before(S, x, rankOf, score) = i - 1
  <1>. DEFINE place == [x \in S |-> Before(S, x, rankOf, score)]
              places == 0 .. Cardinality(S) - 1
  <1>1. S \subseteq Asset /\ Cardinality(S) \in Nat
    BY AssetsAreFinite DEF Ordered
  <1>2. \A x \in S : place[x] \in places
    BY PlaceInRange
  <1>3. \A x, y \in S : place[x] = place[y] => x = y
    <2>. SUFFICES ASSUME NEW x \in S, NEW y \in S, x # y PROVE place[x] # place[y]
      OBVIOUS
    <2>1. Sooner(rankOf, score, x, y) \/ Sooner(rankOf, score, y, x)
      BY SoonerOrders
    <2>2. place[x] < place[y] \/ place[y] < place[x]
      BY <2>1, PlacesGrow
    <2>3. place[x] \in Int /\ place[y] \in Int
      BY <1>2
    <2>. HIDE DEF place
    <2>. QED  BY <2>2, <2>3
  <1>4. place \in Injection(S, places)
    <2>1. place \in [S -> places] /\ DOMAIN place = S
      BY <1>2
    <2>. HIDE DEF place, places
    <2>. QED  BY <1>3, <2>1 DEF Injection, IsInjective
  <1>5. IsFiniteSet(places) /\ Cardinality(places) = Cardinality(S)
    <2>. DEFINE n == Cardinality(S)
    <2>1. n \in Nat /\ 0 \in Int /\ n - 1 \in Int
      BY <1>1
    <2>. HIDE DEF n
    <2>2. /\ IsFiniteSet(0 .. n - 1)
          /\ Cardinality(0 .. n - 1) = IF 0 > n - 1 THEN 0 ELSE (n - 1) - 0 + 1
      BY <2>1, FS_Interval
    <2>. QED  BY <2>1, <2>2 DEF n
  <1>6. place \in Surjection(S, places)
    <2>. HIDE DEF place, places
    <2>. QED  BY <1>4, <1>5, FS_Injection
  <1>7. i - 1 \in places
    BY <1>1
  <1>. QED  BY <1>6, <1>7 DEF Surjection

\* InOrder lists the whole set, each element at its place.
LEMMA InOrderLists ==
    ASSUME NEW S, NEW rankOf, NEW score, Ordered(S, rankOf, score)
    PROVE  LET list == InOrder(S, rankOf, score)
           IN  /\ list \in Seq(S) /\ Len(list) = Cardinality(S)
               /\ \A i \in 1 .. Cardinality(S) :
                     list[i] \in S /\ Before(S, list[i], rankOf, score) = i - 1
               /\ \A x \in S : LET i == Before(S, x, rankOf, score) + 1
                               IN  i \in 1 .. Cardinality(S) /\ list[i] = x
  <1>. DEFINE list == InOrder(S, rankOf, score)
  <1>1. S \subseteq Asset /\ Cardinality(S) \in Nat
    BY AssetsAreFinite DEF Ordered
  <1>2. \A i \in 1 .. Cardinality(S) :
           list[i] \in S /\ Before(S, list[i], rankOf, score) = i - 1
    BY NoPlaceIsEmpty DEF InOrder
  <1>3. list \in Seq(S) /\ Len(list) = Cardinality(S)
    BY <1>1, <1>2 DEF InOrder
  <1>4. ASSUME NEW x \in S
        PROVE  LET i == Before(S, x, rankOf, score) + 1
               IN  i \in 1 .. Cardinality(S) /\ list[i] = x
    <2>. DEFINE i == Before(S, x, rankOf, score) + 1
    <2>1. Before(S, x, rankOf, score) \in 0 .. Cardinality(S) - 1
      BY PlaceInRange
    <2>2. i \in 1 .. Cardinality(S)
      BY <1>1, <2>1
    <2>3. list[i] \in S /\ Before(S, list[i], rankOf, score) = Before(S, x, rankOf, score)
      BY <1>2, <2>1, <2>2
    <2>4. list[i] = x
      <3>. SUFFICES ASSUME list[i] # x PROVE FALSE
        OBVIOUS
      <3>1. Sooner(rankOf, score, x, list[i]) \/ Sooner(rankOf, score, list[i], x)
        BY <2>3, SoonerOrders
      <3>. HIDE DEF list, i
      <3>2. \/ Before(S, x, rankOf, score) < Before(S, list[i], rankOf, score)
            \/ Before(S, list[i], rankOf, score) < Before(S, x, rankOf, score)
        BY <2>3, <3>1, PlacesGrow
      <3>. QED  BY <2>1, <2>3, <3>2
    <2>. QED  BY <2>2, <2>4
  <1>. HIDE DEF list
  <1>. QED  BY <1>2, <1>3, <1>4 DEF list

-----------------------------------------------------------------------------
(***************************************************************************)
(* Building.  A file in use was created by a builder past its opening and  *)
(* is filled by one; what such a builder has read, it does not read again. *)
(***************************************************************************)
Committed(b) == bpc[b] \notin {"idle"} \union Reading

Used(f) ==
    \/ path = f
    \/ \E b \in Builder : target[b] = f
    \/ \E s \in Server : handle[s] = f

FileIs(f) ==
    /\ Committed(f)
    /\ file[f] = [by |-> file[f].by, stage |-> file[f].stage]
    /\ file[f].by \in Builder \union {None} /\ file[f].stage \in 0 .. 6
    /\ file[f].by = None => file[f].stage = 0
    /\ file[f].by \in Builder => Committed(file[f].by)

\* Whoever writes may still: the file is full only when its writer is done.
TargetIs(b) ==
    bpc[b] = "write" => /\ target[b] \in Builder
                        /\ file[target[b]].by \in {None, b} => file[target[b]].stage < 6

\* A build nobody came between finds no other file and shares its own with none.
AloneIs(b) ==
    ~met[b] =>
        /\ bpc[b] # "failed"
        /\ bpc[b] \in Building \union {"done"} =>
               \A y \in Builder \ {b} : bpc[y] \notin Building
        /\ bpc[b] = "open" => path = None
        /\ bpc[b] = "write" => path = b /\ target[b] = b /\ file[b].by \in {None, b}
        /\ bpc[b] = "done" => path = b /\ file[b] = [by |-> b, stage |-> 6]

Shaped ==
    /\ worktree \in Tree
    /\ bpc \in [Builder -> Building \union {"idle", "refused", "failed", "dead", "done"}]
    /\ compiled \in [Builder -> Tree]
    /\ target \in [Builder -> Builder \union {None}]
    /\ met \in [Builder -> BOOLEAN]
    /\ path \in Builder \union {None}
    /\ file = [b \in Builder |-> file[b]]
    /\ handle \in [Server -> Builder \union {None}]

BuildInv ==
    /\ Shaped
    /\ \A f \in Builder : Used(f) => FileIs(f)
    /\ \A b \in Builder : TargetIs(b) /\ AloneIs(b)

\* What a step of anybody leaves to those who hold a file.
Kept ==
    /\ \A b \in Builder : Committed(b) => Committed(b)' /\ compiled'[b] = compiled[b]
    /\ \A f \in Builder : Used(f) =>
          /\ file'[f].stage >= file[f].stage
          /\ file[f].by \in Builder => file'[f].by = file[f].by

Whole == BuildInv' /\ Kept

LEMMA UnchangedIsKept ==
    ASSUME BuildInv, \A f \in Builder : Used(f) => file'[f] = file[f],
           \A b \in Builder : Committed(b) => Committed(b)' /\ compiled'[b] = compiled[b]
    PROVE  Kept
  <1>1. ASSUME NEW f \in Builder, Used(f) PROVE file[f].stage \in Int
    <2>1. FileIs(f)
      BY <1>1 DEF BuildInv
    <2>. QED  BY <2>1 DEF FileIs
  <1>. QED  BY <1>1 DEF Kept

LEMMA BeginStep ==
    ASSUME BuildInv, NEW b \in Builder, BeginBuild(b) PROVE Whole
  <1>1. /\ bpc[b] = "idle" /\ bpc' = [bpc EXCEPT ![b] = "read"]
        /\ met' = [x \in Builder |->
                     \/ met[x]
                     \/ x = b /\ \E y \in Builder : bpc[y] \in Building
                     \/ bpc[x] \in Building \union {"done"}]
        /\ UNCHANGED <<worktree, compiled, target, path, file, handle>>
    BY DEF BeginBuild, BuilderAt, treeVars, serverVars
  <1>2. Shaped'
    BY <1>1 DEF BuildInv, Shaped, Building, Reading
  <1>3. Kept /\ \A x \in Builder : Committed(x) => Committed(x)'
    BY <1>1 DEF BuildInv, Shaped, Kept, Committed, Reading, Used, FileIs
  <1>4. \A f \in Builder : Used(f)' => FileIs(f)'
    BY <1>1, <1>3 DEF BuildInv, Used, FileIs
  <1>5. \A x \in Builder : TargetIs(x)'
    BY <1>1 DEF BuildInv, Shaped, TargetIs
  <1>6. \A x \in Builder : AloneIs(x)'
    <2>. TAKE x \in Builder
    <2>1. CASE x = b
      BY <1>1, <2>1 DEF BuildInv, Shaped, AloneIs, Building, Reading
    <2>2. CASE x # b
      BY <1>1, <2>2 DEF BuildInv, Shaped, AloneIs, Building, Reading
    <2>. QED  BY <2>1, <2>2
  <1>. QED  BY <1>2, <1>3, <1>4, <1>5, <1>6 DEF Whole, BuildInv

\* A builder that only reads the tree, or that ends, is of no concern to others.
LEMMA QuietStep ==
    ASSUME BuildInv, NEW b \in Builder, NEW where,
           \/ /\ bpc[b] \in {"read", "check"} /\ where \in {"read", "check", "remove", "refused"}
              /\ compiled' \in [Builder -> Tree]
              /\ \A x \in Builder \ {b} : compiled'[x] = compiled[x]
              /\ met' = met
           \/ bpc[b] \in Building /\ where = "dead" /\ met' = met /\ compiled' = compiled
           \/ /\ bpc[b] = "write" /\ where = "failed" /\ met' = [met EXCEPT ![b] = TRUE]
              /\ compiled' = compiled,
           bpc' = [bpc EXCEPT ![b] = where],
           UNCHANGED <<worktree, target, path, file, handle>>
    PROVE  Whole
  <1>1. Shaped'
    BY DEF BuildInv, Shaped, Building, Reading
  <1>2. Kept /\ \A x \in Builder : Committed(x) => Committed(x)'
    BY DEF BuildInv, Shaped, Kept, Committed, Reading, Building, Used, FileIs
  <1>3. \A f \in Builder : Used(f)' => FileIs(f)'
    BY <1>2 DEF BuildInv, Used, FileIs
  <1>4. \A x \in Builder : TargetIs(x)'
    BY DEF BuildInv, Shaped, TargetIs
  <1>5. \A x \in Builder : AloneIs(x)'
    <2>. TAKE x \in Builder
    <2>1. CASE x = b
      BY <2>1 DEF BuildInv, Shaped, AloneIs, Building, Reading
    <2>2. CASE x # b
      BY <2>2 DEF BuildInv, Shaped, AloneIs, Building, Reading
    <2>. QED  BY <2>1, <2>2
  <1>. QED  BY <1>1, <1>2, <1>3, <1>4, <1>5 DEF Whole, BuildInv

LEMMA ReadOne ==
    ASSUME NEW S, NEW T, NEW f \in [S -> T], NEW g \in [S -> T], NEW a
    PROVE  [f EXCEPT ![a] = g[a]] \in [S -> T]
  OBVIOUS

LEMMA ReadInto ==
    ASSUME NEW read, NEW B, NEW b \in B, NEW a, NEW asset, NEW body, NEW next,
           read = [x \in B |-> read[x]],
           read[b] = [assets |-> read[b].assets, body |-> read[b].body, sets |-> read[b].sets],
           next = [read EXCEPT ![b].assets[a] = asset, ![b].body[a] = body]
    PROVE  /\ next[b].assets = [read[b].assets EXCEPT ![a] = asset]
           /\ next[b].body = [read[b].body EXCEPT ![a] = body]
           /\ next[b].sets = read[b].sets
           /\ next[b] = [assets |-> next[b].assets, body |-> next[b].body, sets |-> next[b].sets]
           /\ next = [x \in B |-> next[x]]
           /\ \A x \in B \ {b} : next[x] = read[x]
  OBVIOUS

LEMMA ReadingStep ==
    ASSUME BuildInv, NEW b \in Builder,
           ReadAsset(b) \/ CheckContentHash(b) \/ ReadSolutionSets(b)
    PROVE  Whole
  <1>. USE DEF BuilderAt, treeVars, serverVars
  <1>1. worktree \in Tree /\ compiled \in [Builder -> Tree]
    BY DEF BuildInv, Shaped
  <1>2. CASE ReadAsset(b)
    <2>. DEFINE a == cursor[b]
    <2>1. /\ bpc[b] = "read" /\ met' = met
          /\ UNCHANGED <<worktree, target, path, file, handle>>
      BY <1>2 DEF ReadAsset
    <2>2. CASE worktree.assets[a] = None
      <3>1. bpc' = [bpc EXCEPT ![b] = "read"] /\ compiled' = compiled
        BY <1>2, <2>1, <2>2 DEF ReadAsset, BuildInv, Shaped
      <3>. QED  BY <1>1, <2>1, <3>1, QuietStep
    <2>3. CASE worktree.assets[a] # None
      <3>1. /\ bpc' = [bpc EXCEPT ![b] = "check"]
            /\ compiled' = [compiled EXCEPT ![b].assets[a] = worktree.assets[a],
                                            ![b].body[a] = worktree.body[a]]
        BY <1>2, <2>3 DEF ReadAsset
      <3>. DEFINE new == compiled'[b]
      <3>2. /\ compiled[b].assets \in [Asset -> Record \union {None}]
            /\ compiled[b].body \in [Asset -> Version]
            /\ compiled[b].sets \in [SetId -> SolutionSet \union {None}]
            /\ compiled[b] = [assets |-> compiled[b].assets, body |-> compiled[b].body,
                              sets |-> compiled[b].sets]
            /\ worktree.assets \in [Asset -> Record \union {None}]
            /\ worktree.body \in [Asset -> Version]
            /\ compiled = [x \in Builder |-> compiled[x]]
        BY <1>1 DEF Tree
      <3>3. /\ new.assets = [compiled[b].assets EXCEPT ![a] = worktree.assets[a]]
            /\ new.body = [compiled[b].body EXCEPT ![a] = worktree.body[a]]
            /\ new.sets = compiled[b].sets
            /\ new = [assets |-> new.assets, body |-> new.body, sets |-> new.sets]
            /\ compiled' = [x \in Builder |-> compiled'[x]]
            /\ \A x \in Builder \ {b} : compiled'[x] = compiled[x]
        BY <3>1, <3>2, ReadInto
      <3>4. new.assets \in [Asset -> Record \union {None}] /\ new.body \in [Asset -> Version]
        <4>1. [compiled[b].assets EXCEPT ![a] = worktree.assets[a]] \in [Asset -> Record \union {None}]
          BY <3>2, ReadOne
        <4>2. [compiled[b].body EXCEPT ![a] = worktree.body[a]] \in [Asset -> Version]
          BY <3>2, ReadOne
        <4>. QED  BY <3>3, <4>1, <4>2
      <3>5. new \in Tree
        BY <3>2, <3>3, <3>4 DEF Tree
      <3>6. compiled' \in [Builder -> Tree]
        BY <1>1, <3>3, <3>5
      <3>. QED  BY <2>1, <3>1, <3>3, <3>6, QuietStep
    <2>. QED  BY <2>2, <2>3
  <1>3. CASE CheckContentHash(b)
    <2>1. /\ bpc[b] = "check" /\ met' = met /\ compiled' = compiled
          /\ UNCHANGED <<worktree, target, path, file, handle>>
          /\ bpc' = [bpc EXCEPT ![b] = "read"] \/ bpc' = [bpc EXCEPT ![b] = "refused"]
      BY <1>3 DEF CheckContentHash
    <2>. QED  BY <1>1, <2>1, QuietStep
  <1>4. CASE ReadSolutionSets(b)
    <2>1. /\ bpc[b] = "read" /\ met' = met
          /\ UNCHANGED <<worktree, target, path, file, handle>>
          /\ bpc' = [bpc EXCEPT ![b] = "remove"]
          /\ compiled' = [compiled EXCEPT ![b].sets = worktree.sets]
      BY <1>4 DEF ReadSolutionSets
    <2>2. compiled' \in [Builder -> Tree] /\ \A x \in Builder \ {b} : compiled'[x] = compiled[x]
      BY <1>1, <2>1 DEF Tree
    <2>. QED  BY <2>1, <2>2, QuietStep
  <1>. QED  BY <1>2, <1>3, <1>4

LEMMA EndingStep ==
    ASSUME BuildInv, NEW b \in Builder, BuildIsLocked(b) \/ BuildDies(b) PROVE Whole
  <1>1. CASE BuildIsLocked(b)
    <2>1. /\ bpc[b] = "write" /\ bpc' = [bpc EXCEPT ![b] = "failed"]
          /\ met' = [met EXCEPT ![b] = TRUE] /\ compiled' = compiled
          /\ UNCHANGED <<worktree, target, path, file, handle>>
      BY <1>1 DEF BuildIsLocked, BuilderAt, treeVars, serverVars
    <2>. QED  BY <2>1, QuietStep
  <1>2. CASE BuildDies(b)
    <2>1. /\ bpc[b] \in Building /\ bpc' = [bpc EXCEPT ![b] = "dead"]
          /\ met' = met /\ compiled' = compiled
          /\ UNCHANGED <<worktree, target, path, file, handle>>
      BY <1>2 DEF BuildDies, BuilderAt, treeVars, serverVars
    <2>. QED  BY <2>1, QuietStep
  <1>. QED  BY <1>1, <1>2

LEMMA RemoveStep ==
    ASSUME BuildInv, NEW b \in Builder, RemoveStale(b) PROVE Whole
  <1>1. /\ bpc[b] = "remove" /\ path' = None /\ bpc' = [bpc EXCEPT ![b] = "open"]
        /\ UNCHANGED <<worktree, compiled, target, met, file, handle>>
    BY DEF RemoveStale, BuilderAt, treeVars, serverVars
  <1>2. Shaped'
    BY <1>1 DEF BuildInv, Shaped, Building, Reading
  <1>3. Kept /\ \A x \in Builder : Committed(x) => Committed(x)'
    BY <1>1 DEF BuildInv, Shaped, Kept, Committed, Reading, Used, FileIs
  <1>4. \A f \in Builder : Used(f)' => FileIs(f)'
    BY <1>1, <1>3, NoneIsNothing DEF BuildInv, Used, FileIs
  <1>5. \A x \in Builder : TargetIs(x)'
    BY <1>1 DEF BuildInv, Shaped, TargetIs
  <1>6. \A x \in Builder : AloneIs(x)'
    <2>. TAKE x \in Builder
    <2>1. CASE x = b
      BY <1>1, <2>1 DEF BuildInv, Shaped, AloneIs, Building, Reading
    <2>2. CASE x # b
      BY <1>1, <2>2 DEF BuildInv, Shaped, AloneIs, Building, Reading
    <2>. QED  BY <2>1, <2>2
  <1>. QED  BY <1>2, <1>3, <1>4, <1>5, <1>6 DEF Whole, BuildInv

LEMMA OpenStep ==
    ASSUME BuildInv, NEW b \in Builder, OpenWritable(b) PROVE Whole
  <1>. DEFINE new == [by |-> None, stage |-> 0]
  <1>1. /\ bpc[b] = "open" /\ bpc' = [bpc EXCEPT ![b] = "write"]
        /\ target' = [target EXCEPT ![b] = path']
        /\ UNCHANGED <<worktree, compiled, met, handle>>
        /\ \/ path = None /\ path' = b /\ file' = [file EXCEPT ![b] = new]
           \/ path # None /\ path' = path /\ file' = file
    BY DEF OpenWritable, BuilderAt, treeVars, serverVars
  <1>2. path' \in Builder /\ Shaped'
    BY <1>1 DEF BuildInv, Shaped, Building, Reading
  <1>3. ~Committed(b) /\ ~Used(b)
    BY <1>1 DEF BuildInv, FileIs, Committed, Reading
  <1>4. /\ Kept
        /\ \A x \in Builder : Committed(x) => Committed(x)'
        /\ \A f \in Builder \ {b} : file'[f] = file[f]
    <2>1. \A f \in Builder \ {b} : file'[f] = file[f]
      BY <1>1 DEF BuildInv, Shaped
    <2>2. \A x \in Builder : Committed(x) => Committed(x)' /\ compiled'[x] = compiled[x]
      BY <1>1 DEF BuildInv, Shaped, Committed, Reading
    <2>3. \A f \in Builder : Used(f) => file'[f] = file[f]
      BY <1>3, <2>1
    <2>. QED  BY <2>1, <2>2, <2>3, UnchangedIsKept
  <1>5. \A f \in Builder : Used(f)' => FileIs(f)'
    <2>. SUFFICES ASSUME NEW f \in Builder, Used(f)' PROVE FileIs(f)'
      OBVIOUS
    <2>1. CASE Used(f)
      BY <1>3, <1>4, <2>1 DEF BuildInv, FileIs
    <2>2. CASE ~Used(f)
      <3>1. f = path'
        BY <1>1, <1>2, <2>2 DEF Used, BuildInv, Shaped
      <3>2. f = b /\ file'[b] = new
        BY <1>1, <2>2, <3>1 DEF Used, BuildInv, Shaped
      <3>3. bpc'[b] = "write"
        BY <1>1 DEF BuildInv, Shaped
      <3>. QED  BY <3>2, <3>3, NoneIsNothing DEF FileIs, Committed, Reading
    <2>. QED  BY <2>1, <2>2
  <1>6. \A x \in Builder : TargetIs(x)'
    <2>. TAKE x \in Builder
    <2>1. CASE x = b
      <3>1. CASE path = None
        <4>1. target'[b] = b /\ file'[b] = new
          BY <1>1, <3>1 DEF BuildInv, Shaped
        <4>. QED  BY <2>1, <4>1 DEF TargetIs
      <3>2. CASE path # None
        <4>1. target'[b] = path /\ file'[path] = file[path] /\ path \in Builder /\ Used(path)
          BY <1>1, <1>2, <3>2 DEF BuildInv, Shaped, Used
        <4>2. FileIs(path)
          BY <4>1 DEF BuildInv
        <4>3. file[path].by # b
          BY <1>3, <4>2 DEF FileIs
        <4>. QED  BY <2>1, <4>1, <4>2, <4>3 DEF TargetIs, FileIs
      <3>. QED  BY <3>1, <3>2
    <2>2. CASE x # b /\ bpc[x] = "write"
      <3>1. target[x] \in Builder \ {b} /\ target'[x] = target[x] /\ bpc'[x] = bpc[x]
        BY <1>1, <1>3, <2>2 DEF BuildInv, Shaped, TargetIs, Used
      <3>2. TargetIs(x)
        BY DEF BuildInv
      <3>. QED  BY <1>4, <3>1, <3>2 DEF TargetIs
    <2>3. CASE x # b /\ bpc[x] # "write"
      BY <1>1, <2>3 DEF BuildInv, Shaped, TargetIs
    <2>. QED  BY <2>1, <2>2, <2>3
  <1>7. \A x \in Builder : AloneIs(x)'
    <2>. TAKE x \in Builder
    <2>1. CASE x = b
      <3>1. AloneIs(b) /\ bpc'[b] = "write" /\ met'[b] = met[b]
        BY <1>1 DEF BuildInv, Shaped
      <3>2. CASE ~met[b]
        <4>1. /\ path = None /\ path' = b /\ target'[b] = b /\ file'[b] = new
              /\ \A y \in Builder \ {b} : bpc[y] \notin Building /\ bpc'[y] = bpc[y]
          BY <1>1, <3>1, <3>2 DEF AloneIs, Building, Reading, BuildInv, Shaped
        <4>. QED  BY <2>1, <3>1, <4>1 DEF AloneIs
      <3>3. CASE met[b]
        BY <2>1, <3>1, <3>3 DEF AloneIs
      <3>. QED  BY <3>2, <3>3
    <2>2. CASE x # b
      BY <1>1, <2>2 DEF BuildInv, Shaped, AloneIs, Building, Reading
    <2>. QED  BY <2>1, <2>2
  <1>. QED  BY <1>2, <1>4, <1>5, <1>6, <1>7 DEF Whole, BuildInv

\* What is committed may be told from the number of commits.
LEMMA HasIs ==
    ASSUME NEW f, file[f].stage \in 0 .. 6
    PROVE  /\ Has(f, "rows") <=> file[f].stage >= 2
           /\ Has(f, "version") <=> file[f].stage >= 3
           /\ Has(f, "digest") <=> file[f].stage >= 4
           /\ Has(f, "scores") <=> file[f].stage >= 5
           /\ Len(Stages) = 6
  <1>1. /\ Stages[1] = "schema" /\ Stages[2] = "rows" /\ Stages[3] = "version"
        /\ Stages[4] = "digest" /\ Stages[5] = "scores" /\ Stages[6] = "full"
        /\ Len(Stages) = 6
    BY DEF Stages
  <1>. QED  BY <1>1 DEF Has

LEMMA WriteStep ==
    ASSUME BuildInv, NEW b \in Builder, Write(b) PROVE Whole
  <1>1. PICK own \in Builder :
           /\ own = target[b] /\ Used(own) /\ FileIs(own) /\ Committed(b) /\ bpc[b] = "write"
           /\ file[own].by \in {None, b} => file[own].stage < 6
           /\ Shaped
    BY DEF Write, BuildInv, TargetIs, Used, Committed, Reading
  <1>. DEFINE new == [by |-> b, stage |-> file[own].stage + 1]
  <1>2. UNCHANGED <<worktree, compiled, target, met, path, handle>>
    BY DEF Write, treeVars, serverVars
  <1>3. CASE file[own].by \in {None, b}
    <2>1. file' = [file EXCEPT ![own] = new] /\ file'[own] = new
      BY <1>1, <1>3 DEF Write, Shaped
    <2>2. new.stage \in 1 .. 6
      BY <1>1, <1>3 DEF FileIs
    <2>3. \/ file'[own].stage = 6 /\ bpc' = [bpc EXCEPT ![b] = "done"]
          \/ file'[own].stage < 6 /\ bpc' = bpc
      <3>1. Len(Stages) = 6
        BY DEF Stages
      <3>2. IF file'[own].stage = 6 THEN bpc' = [bpc EXCEPT ![b] = "done"] ELSE bpc' = bpc
        BY <1>1, <1>3, <3>1 DEF Write, BuilderAt
      <3>. QED  BY <2>1, <2>2, <3>2
    <2>4. /\ Shaped' /\ \A g \in Builder \ {own} : file'[g] = file[g]
          /\ \A x \in Builder \ {b} : bpc'[x] = bpc[x]
          /\ bpc'[b] = IF file'[own].stage = 6 THEN "done" ELSE "write"
      BY <1>1, <1>2, <2>1, <2>2, <2>3 DEF Shaped, Building, Reading
    <2>5. \A x \in Builder : Committed(x) => Committed(x)' /\ compiled'[x] = compiled[x]
      BY <1>2, <2>4 DEF Committed, Reading
    <2>6. FileIs(own)'
      BY <1>1, <2>1, <2>2, <2>5, NoneIsNothing DEF FileIs
    <2>7. Kept
      <3>1. ASSUME NEW g \in Builder, Used(g)
            PROVE  /\ file'[g].stage >= file[g].stage
                   /\ file[g].by \in Builder => file'[g].by = file[g].by
        <4>1. CASE g = own
          BY <1>1, <1>3, <2>1, <4>1, NoneIsNothing DEF FileIs
        <4>2. CASE g # own
          <5>1. FileIs(g)
            BY <3>1 DEF BuildInv
          <5>2. file[g].stage \in Int
            BY <5>1 DEF FileIs
          <5>. QED  BY <2>4, <4>2, <5>2
        <4>. QED  BY <4>1, <4>2
      <3>. QED  BY <2>5, <3>1 DEF Kept
    <2>8. \A g \in Builder : Used(g)' => FileIs(g)'
      <3>. SUFFICES ASSUME NEW g \in Builder, Used(g), g # own PROVE FileIs(g)'
        BY <1>2, <2>6 DEF Used
      <3>1. FileIs(g)
        BY DEF BuildInv
      <3>. QED  BY <2>4, <2>5, <3>1 DEF FileIs
    <2>9. ASSUME NEW x \in Builder PROVE TargetIs(x)'
      <3>. SUFFICES ASSUME bpc'[x] = "write" PROVE TargetIs(x)'
        BY DEF TargetIs
      <3>1. TargetIs(x) /\ target'[x] = target[x] /\ bpc[x] = "write"
        BY <1>2, <1>1, <2>4 DEF BuildInv
      <3>2. CASE target[x] = own
        <4>1. file'[own].by = b
          BY <2>1
        <4>2. x = b => file'[own].stage < 6
          BY <2>1, <2>2, <2>4
        <4>. QED  BY <1>1, <3>1, <3>2, <4>1, <4>2, NoneIsNothing DEF TargetIs
      <3>3. CASE target[x] # own
        BY <2>4, <3>1, <3>3 DEF TargetIs
      <3>. QED  BY <3>2, <3>3
    <2>10. ASSUME NEW x \in Builder PROVE AloneIs(x)'
      <3>1. AloneIs(x) /\ met'[x] = met[x] /\ path' = path /\ target' = target
        BY <1>2 DEF BuildInv
      <3>2. SUFFICES ASSUME ~met[x] PROVE AloneIs(x)'
        BY <3>1 DEF AloneIs
      <3>3. \A y \in Builder : bpc'[y] \in Building => bpc[y] \in Building
        BY <1>1, <2>4 DEF Building
      <3>4. CASE x = b
        <4>1. /\ path = b /\ own = b /\ \A y \in Builder \ {b} : bpc[y] \notin Building
          BY <1>1, <3>1, <3>2, <3>4 DEF AloneIs, Building
        <4>2. \/ bpc'[b] = "done" /\ new.stage = 6
              \/ bpc'[b] = "write"
          BY <2>1, <2>4
        <4>3. file'[b] = new /\ new.by = b
          BY <2>1, <4>1
        <4>4. \A y \in Builder \ {b} : bpc'[y] \notin Building
          BY <3>3, <4>1
        <4>5. path' = b /\ target'[b] = b
          BY <1>1, <3>1, <4>1
        <4>6. CASE bpc'[b] = "done"
          <5>1. file'[b] = [by |-> b, stage |-> 6]
            BY <4>2, <4>3, <4>6
          <5>. QED  BY <3>4, <4>4, <4>5, <4>6, <5>1 DEF AloneIs
        <4>7. CASE bpc'[b] = "write"
          BY <3>4, <4>3, <4>4, <4>5, <4>7 DEF AloneIs
        <4>. QED  BY <4>2, <4>6, <4>7
      <3>5. CASE x # b
        <4>1. bpc[x] \notin Building \union {"done"} /\ bpc'[x] = bpc[x] /\ bpc[x] # "failed"
          BY <1>1, <2>4, <3>1, <3>2, <3>5 DEF AloneIs, Building
        <4>. QED  BY <4>1 DEF AloneIs, Building, Reading
      <3>. QED  BY <3>4, <3>5
    <2>. QED  BY <2>4, <2>7, <2>8, <2>9, <2>10 DEF Whole, BuildInv
  <1>4. CASE file[own].by \notin {None, b}
    <2>1. file' = file /\ bpc' = [bpc EXCEPT ![b] = "failed"] /\ met' = met
      BY <1>1, <1>2, <1>4 DEF Write, BuilderAt
    <2>2. met[b]
      BY <1>1, <1>4 DEF BuildInv, AloneIs
    <2>3. met' = [met EXCEPT ![b] = TRUE]
      BY <1>1, <2>1, <2>2 DEF Shaped
    <2>. QED  BY <1>1, <1>2, <2>1, <2>3, QuietStep
  <1>. QED  BY <1>3, <1>4

LEMMA BuildStep ==
    ASSUME BuildInv, NEW b \in Builder, Build(b) PROVE Whole /\ UNCHANGED serverVars
  <1>1. UNCHANGED serverVars
    BY DEF Build, BeginBuild, ReadAsset, CheckContentHash, ReadSolutionSets, RemoveStale,
           OpenWritable, Write, BuildIsLocked, BuildDies
  <1>2. Whole
    BY BeginStep, ReadingStep, RemoveStep, OpenStep, WriteStep, EndingStep DEF Build
  <1>. QED  BY <1>1, <1>2

\* An edit is of no concern to who holds a file, nor is a server.
LEMMA EditStep ==
    ASSUME BuildInv, Edit \/ MoveHead PROVE Whole /\ UNCHANGED serverVars
  <1>1. UNCHANGED <<buildVars, serverVars>>
    BY DEF Edit, MoveHead
  <1>2. worktree' \in Tree
    <2>1. worktree \in Tree
      BY DEF BuildInv, Shaped
    <2>2. CASE MoveHead
      BY <2>1, <2>2 DEF MoveHead
    <2>3. ASSUME NEW a \in Asset, NEW r \in Record \union {None},
                 worktree' = [worktree EXCEPT !.assets[a] = r]
          PROVE  worktree' \in Tree
      BY <2>1, <2>3 DEF Tree
    <2>4. ASSUME NEW a \in Asset, NEW v \in Version,
                 worktree' = [worktree EXCEPT !.body[a] = v]
          PROVE  worktree' \in Tree
      BY <2>1, <2>4 DEF Tree
    <2>5. ASSUME NEW t \in SetId, NEW x \in SolutionSet \union {None},
                 worktree' = [worktree EXCEPT !.sets[t] = x]
          PROVE  worktree' \in Tree
      BY <2>1, <2>5 DEF Tree
    <2>. QED  BY <2>2, <2>3, <2>4, <2>5 DEF Edit
  <1>3. BuildInv'
    BY <1>1, <1>2 DEF BuildInv, Shaped, FileIs, Used, TargetIs, AloneIs, Committed,
                      buildVars, serverVars
  <1>4. Kept
    BY <1>1, UnchangedIsKept DEF Committed, buildVars
  <1>. QED  BY <1>1, <1>3, <1>4 DEF Whole

LEMMA ServersOnlyRead ==
    ASSUME BuildInv, NEW s \in Server, Serve(s) PROVE Whole /\ UNCHANGED <<treeVars, buildVars>>
  <1>1. UNCHANGED <<treeVars, buildVars>>
    BY DEF Serve, StartServer, ExitServer, StopServer, OpenIndex, ReadMeta, Receive, ReadScores,
           Search, RankAndRemember, PersistSnapshot, CallFails, Refuse, Answer
  <1>2. \/ handle' = handle
        \/ handle' = [handle EXCEPT ![s] = None]
        \/ handle' = [handle EXCEPT ![s] = path] /\ path # None
    BY DEF Serve, StartServer, ExitServer, StopServer, OpenIndex, ReadMeta, Receive, ReadScores,
           Search, RankAndRemember, PersistSnapshot, CallFails, Refuse, Answer
  <1>3. Shaped'
    BY <1>1, <1>2 DEF BuildInv, Shaped, buildVars, treeVars
  <1>4. \A f \in Builder : Used(f)' => Used(f)
    BY <1>1, <1>2, NoneIsNothing DEF BuildInv, Shaped, Used, buildVars
  <1>5. \A f \in Builder : FileIs(f)' <=> FileIs(f)
    BY <1>1 DEF FileIs, Committed, buildVars
  <1>6. \A b \in Builder : (TargetIs(b)' <=> TargetIs(b)) /\ (AloneIs(b)' <=> AloneIs(b))
    BY <1>1 DEF TargetIs, AloneIs, buildVars
  <1>7. Kept
    BY <1>1, UnchangedIsKept DEF Committed, buildVars
  <1>. QED  BY <1>1, <1>3, <1>4, <1>5, <1>6, <1>7 DEF Whole, BuildInv

-----------------------------------------------------------------------------
(***************************************************************************)
(* Serving.  A handle is of a file in use; what a server has read from it  *)
(* was there to stay, so an answer is of the file's one tree.              *)
(***************************************************************************)
Sound(x) ==
    LET tree == x.snapshot.index_digest
        scores == EmitUnprovenSnapshot(tree)
        limit == Limit(x.request)
    IN  /\ x.request \in Ask
        /\ x.ranked = Rank(SearchAssets(tree, Window(limit)), ListSolutionSets(tree), scores, limit)
        /\ x.snapshot.view = EffectiveViewIdFor(scores, x.snapshot.ranking_mode)

\* The tree is one a builder read to the end.
Read(x) == \E b \in Builder : compiled[b] = x.snapshot.index_digest /\ Committed(b)

Calling == {"scores", "search", "sets", "persist", "answer"}

FileOf(s) == file[handle[s]]

HandleIs(s) ==
    spc[s] # "off" =>
        /\ handle[s] \in Builder
        /\ spc[s] # "version" => FileOf(s).stage >= 3
        /\ spc[s] \notin {"version", "digest"} => FileOf(s).stage >= 4

CallIs(s) ==
    LET c == call[s] IN
    /\ spc[s] \in Calling =>
          /\ c = [request |-> c.request, names |-> c.names, since |-> c.since, scores |-> c.scores,
                  hits |-> c.hits, ranked |-> c.ranked, snapshot |-> c.snapshot]
          /\ c.request \in Ask
    /\ spc[s] \in {"search", "sets"} => c.scores = EmitUnprovenSnapshot(Digest(s))
    /\ spc[s] = "sets" => c.hits = SearchAssets(Digest(s), Window(Limit(c.request)))
    /\ spc[s] \in {"persist", "answer"} => Sound(c) /\ Read(c)
    /\ spc[s] = "answer" => c.snapshot \in durable

ServerInv ==
    /\ spc \in [Server -> Calling \union {"off", "version", "digest", "ready"}]
    /\ call = [s \in Server |-> call[s]]
    /\ \A s \in Server : HandleIs(s) /\ CallIs(s)
    /\ \A x \in answers : Sound(x) /\ Read(x) /\ x.snapshot \in durable

KnowledgeInv == BuildInv /\ ServerInv

\* What a server past the reading of the digest holds is one whole tree.
LEMMA HeldIsWhole ==
    ASSUME KnowledgeInv, NEW s \in Server, spc[s] \notin {"off", "version", "digest"}
    PROVE  /\ handle[s] \in Builder /\ FileOf(s).by \in Builder /\ Committed(FileOf(s).by)
           /\ Digest(s) = compiled[FileOf(s).by] /\ Digest(s) \in Tree
           /\ TreeOf(handle[s]) = Digest(s) /\ SetsOf(handle[s]) = ListSolutionSets(Digest(s))
  <1>1. /\ handle[s] \in Builder /\ Used(handle[s]) /\ FileIs(handle[s])
        /\ FileOf(s).stage >= 4
    BY DEF KnowledgeInv, BuildInv, ServerInv, HandleIs, Used
  <1>2. FileOf(s).by \in Builder /\ Committed(FileOf(s).by)
    BY <1>1 DEF FileIs, FileOf
  <1>3. Has(handle[s], "rows")
    BY <1>1, HasIs DEF FileIs, FileOf
  <1>. QED  BY <1>1, <1>2, <1>3 DEF Digest, TreeOf, SetsOf, FileOf, KnowledgeInv, BuildInv, Shaped

\* What others do leaves it so.
LEMMA OthersKeep ==
    ASSUME KnowledgeInv, Whole, UNCHANGED serverVars
    PROVE  ServerInv'
  <1>. USE DEF serverVars
  <1>1. ASSUME NEW s \in Server PROVE HandleIs(s)'
    <2>. SUFFICES ASSUME spc[s] # "off" PROVE HandleIs(s)'
      BY DEF HandleIs
    <2>1. PICK f \in Builder : f = handle[s] /\ f = handle'[s] /\ HandleIs(s) /\ Used(f) /\ FileIs(f)
      BY DEF KnowledgeInv, BuildInv, ServerInv, HandleIs, Used
    <2>2. Used(f)'
      BY <2>1 DEF Used
    <2>3. FileIs(f)'
      BY <2>2 DEF Whole, BuildInv
    <2>4. file'[f].stage >= file[f].stage
      BY <2>1 DEF Whole, Kept
    <2>5. file[f].stage \in Int /\ file'[f].stage \in Int
      BY <2>1, <2>3 DEF FileIs
    <2>. QED  BY <2>1, <2>4, <2>5 DEF HandleIs, FileOf
  <1>2. \A x : Read(x) => Read(x)'
    BY DEF Read, Whole, Kept
  <1>3. \A x : Sound(x) => Sound(x)'
    BY DEF Sound
  <1>4. ASSUME NEW s \in Server PROVE CallIs(s)'
    <2>1. CallIs(s)
      BY DEF KnowledgeInv, ServerInv
    <2>2. CASE spc[s] \in {"off", "version", "digest", "ready"}
      BY <2>2 DEF CallIs, Calling
    <2>3. CASE spc[s] \notin {"off", "version", "digest", "ready"}
      <3>1. PICK f \in Builder, b \in Builder :
               /\ f = handle[s] /\ f = handle'[s] /\ Used(f)
               /\ b = file[f].by /\ Committed(b)
        BY <2>3, HeldIsWhole DEF Used, FileOf
      <3>2. file'[f].by = b /\ compiled'[b] = compiled[b]
        BY <3>1 DEF Whole, Kept
      <3>3. Digest(s)' = Digest(s)
        BY <3>1, <3>2 DEF Digest
      <3>. QED  BY <1>2, <1>3, <2>1, <3>3 DEF CallIs
    <2>. QED  BY <2>2, <2>3
  <1>5. \A x \in answers' : (Sound(x) /\ Read(x))' /\ x.snapshot \in durable'
    BY <1>2, <1>3 DEF KnowledgeInv, ServerInv
  <1>. QED  BY <1>1, <1>4, <1>5 DEF KnowledgeInv, ServerInv

\* Others keep their call; a server's own step is judged by what it leaves.
LEMMA OwnStep ==
    ASSUME KnowledgeInv, NEW s \in Server, Whole, UNCHANGED buildVars,
           spc' \in [Server -> Calling \union {"off", "version", "digest", "ready"}],
           call' = [x \in Server |-> call'[x]],
           \A x \in Server \ {s} : spc'[x] = spc[x] /\ handle'[x] = handle[x] /\ call'[x] = call[x],
           HandleIs(s)', CallIs(s)', durable \subseteq durable',
           \A x \in answers' : (Sound(x) /\ Read(x))' /\ x.snapshot \in durable'
    PROVE  KnowledgeInv'
  <1>. USE DEF buildVars
  <1>1. ASSUME NEW x \in Server \ {s} PROVE HandleIs(x)' /\ CallIs(x)'
    <2>1. HandleIs(x) /\ CallIs(x)
      BY DEF KnowledgeInv, ServerInv
    <2>2. HandleIs(x)'
      BY <2>1 DEF HandleIs, FileOf
    <2>3. CallIs(x)'
      BY <2>1 DEF CallIs, Digest, Sound, Read, Committed
    <2>. QED  BY <2>2, <2>3
  <1>. QED  BY <1>1 DEF Whole, KnowledgeInv, ServerInv

LEMMA ComeAndGo ==
    ASSUME KnowledgeInv, NEW s \in Server, StartServer(s) \/ ExitServer(s), Whole
    PROVE  KnowledgeInv'
  <1>. USE DEF ServerAt
  <1>1. /\ UNCHANGED <<buildVars, durable, answers>>
        /\ spc \in [Server -> Calling \union {"off", "version", "digest", "ready"}]
        /\ handle \in [Server -> Builder \union {None}]
        /\ call = [x \in Server |-> call[x]]
    BY DEF StartServer, ExitServer, StopServer, KnowledgeInv, BuildInv, Shaped, ServerInv
  <1>2. \A x \in answers' : (Sound(x) /\ Read(x))' /\ x.snapshot \in durable'
    BY <1>1 DEF Sound, Read, Committed, KnowledgeInv, ServerInv, buildVars
  <1>3. CASE StartServer(s)
    <2>1. /\ path # None /\ call' = call /\ spc' = [spc EXCEPT ![s] = "version"]
          /\ handle' = [handle EXCEPT ![s] = path]
      BY <1>3 DEF StartServer
    <2>2. spc'[s] = "version" /\ handle'[s] \in Builder
      BY <1>1, <2>1 DEF KnowledgeInv, BuildInv, Shaped
    <2>3. HandleIs(s)' /\ CallIs(s)'
      BY <2>2 DEF HandleIs, CallIs, Calling
    <2>. QED  BY <1>1, <1>2, <2>1, <2>3, OwnStep
  <1>4. CASE ExitServer(s)
    <2>1. /\ call' = [call EXCEPT ![s] = None] /\ spc' = [spc EXCEPT ![s] = "off"]
          /\ handle' = [handle EXCEPT ![s] = None]
      BY <1>4 DEF ExitServer, StopServer
    <2>2. spc'[s] = "off"
      BY <1>1, <2>1
    <2>3. HandleIs(s)' /\ CallIs(s)'
      BY <2>2 DEF HandleIs, CallIs, Calling
    <2>. QED  BY <1>1, <1>2, <2>1, <2>3, OwnStep
  <1>. QED  BY <1>3, <1>4

\* The steps that answer nothing and let go of no file.
LEMMA MetaStep ==
    ASSUME KnowledgeInv, NEW s \in Server, OpenIndex(s), Whole
    PROVE  KnowledgeInv'
  <1>1. PICK now, key, next :
           /\ \/ now = "version" /\ key = "version" /\ next = "digest"
              \/ now = "digest" /\ key = "digest" /\ next = "ready"
           /\ ReadMeta(s, now, key, next)
    BY DEF OpenIndex
  <1>2. /\ spc[s] = now /\ Has(handle[s], key) /\ spc' = [spc EXCEPT ![s] = next]
        /\ UNCHANGED <<buildVars, handle, call, durable, answers>>
        /\ spc \in [Server -> Calling \union {"off", "version", "digest", "ready"}]
        /\ call = [x \in Server |-> call[x]]
    BY <1>1 DEF ReadMeta, ServerAt, KnowledgeInv, ServerInv
  <1>3. handle[s] \in Builder /\ FileOf(s).stage \in 0 .. 6
    <2>1. handle[s] \in Builder
      BY <1>1, <1>2 DEF KnowledgeInv, ServerInv, HandleIs
    <2>2. FileIs(handle[s])
      BY <2>1 DEF KnowledgeInv, BuildInv, Used
    <2>. QED  BY <2>1, <2>2 DEF FileIs, FileOf
  <1>4. FileOf(s).stage >= 3 /\ (next = "ready" => FileOf(s).stage >= 4)
    BY <1>1, <1>2, <1>3, HasIs DEF FileOf
  <1>5. spc'[s] = next /\ FileOf(s)' = FileOf(s)
    BY <1>2 DEF FileOf, buildVars
  <1>6. HandleIs(s)' /\ CallIs(s)'
    <2>1. HandleIs(s)'
      BY <1>2, <1>3, <1>4, <1>5, <1>1 DEF HandleIs
    <2>2. CallIs(s)'
      BY <1>1, <1>5 DEF CallIs, Calling
    <2>. QED  BY <2>1, <2>2
  <1>7. \A x \in answers' : (Sound(x) /\ Read(x))' /\ x.snapshot \in durable'
    BY <1>2 DEF Sound, Read, Committed, KnowledgeInv, ServerInv, buildVars
  <1>. QED  BY <1>1, <1>2, <1>6, <1>7, OwnStep DEF Calling

LEMMA RefuseStep ==
    ASSUME KnowledgeInv, NEW s \in Server, Refuse(s), spc[s] \in Calling, Whole
    PROVE  KnowledgeInv'
  <1>1. /\ spc' = [spc EXCEPT ![s] = "ready"] /\ call' = [call EXCEPT ![s] = None]
        /\ UNCHANGED <<buildVars, handle, durable, answers>>
        /\ spc \in [Server -> Calling \union {"off", "version", "digest", "ready"}]
        /\ call = [x \in Server |-> call[x]]
    BY DEF Refuse, ServerAt, KnowledgeInv, ServerInv
  <1>2. spc'[s] = "ready" /\ HandleIs(s) /\ FileOf(s)' = FileOf(s)
    BY <1>1 DEF KnowledgeInv, ServerInv, FileOf, buildVars
  <1>3. HandleIs(s)'
    BY <1>1, <1>2 DEF HandleIs, Calling
  <1>4. CallIs(s)'
    BY <1>2 DEF CallIs, Calling
  <1>5. \A x \in answers' : (Sound(x) /\ Read(x))' /\ x.snapshot \in durable'
    BY <1>1 DEF Sound, Read, Committed, KnowledgeInv, ServerInv, buildVars
  <1>. QED  BY <1>1, <1>3, <1>4, <1>5, OwnStep

\* The steps of a call, each with what it adds to the call.
LEMMA CallStep ==
    ASSUME KnowledgeInv, NEW s \in Server, Whole, NEW next \in Calling, NEW c,
           spc[s] \in Calling \union {"ready"},
           spc' = [spc EXCEPT ![s] = next],
           call' = [x \in Server |-> call'[x]], c = call'[s],
           \A x \in Server \ {s} : call'[x] = call[x],
           UNCHANGED <<buildVars, handle, answers>>, durable \subseteq durable',
           c = [request |-> c.request, names |-> c.names, since |-> c.since, scores |-> c.scores,
                hits |-> c.hits, ranked |-> c.ranked, snapshot |-> c.snapshot],
           c.request \in Ask,
           next \in {"search", "sets"} => c.scores = EmitUnprovenSnapshot(Digest(s)),
           next = "sets" => c.hits = SearchAssets(Digest(s), Window(Limit(c.request))),
           next \in {"persist", "answer"} => Sound(c) /\ Read(c),
           next = "answer" => c.snapshot \in durable'
    PROVE  KnowledgeInv'
  <1>1. /\ spc \in [Server -> Calling \union {"off", "version", "digest", "ready"}]
        /\ call = [x \in Server |-> call[x]]
    BY DEF KnowledgeInv, ServerInv
  <1>2. /\ spc'[s] = next /\ call'[s] = c /\ HandleIs(s)
        /\ FileOf(s)' = FileOf(s) /\ Digest(s)' = Digest(s)
    BY <1>1 DEF KnowledgeInv, ServerInv, FileOf, Digest, buildVars
  <1>3. HandleIs(s)'
    BY <1>2 DEF HandleIs, Calling
  <1>4. /\ Sound(c)' <=> Sound(c)
        /\ Read(c)' <=> Read(c)
    BY DEF Sound, Read, Committed, buildVars
  <1>5. CallIs(s)'
    BY <1>2, <1>4 DEF CallIs
  <1>6. \A x \in answers' : (Sound(x) /\ Read(x))' /\ x.snapshot \in durable'
    BY DEF Sound, Read, Committed, KnowledgeInv, ServerInv, buildVars
  <1>. QED  BY <1>1, <1>3, <1>5, <1>6, OwnStep

LEMMA ReceiveStep ==
    ASSUME KnowledgeInv, NEW s \in Server, NEW r \in Ask, NEW view, Receive(s, r, view), Whole
    PROVE  KnowledgeInv'
  <1>. DEFINE c == [request |-> r, names |-> view, since |-> head, scores |-> None, hits |-> None,
                    ranked |-> None, snapshot |-> None]
  <1>1. /\ spc[s] = "ready" /\ spc' = [spc EXCEPT ![s] = "scores"]
        /\ call' = [call EXCEPT ![s] = c]
        /\ UNCHANGED <<buildVars, handle, answers, durable>>
    BY DEF Receive, ServerAt
  <1>2. /\ c = [request |-> c.request, names |-> c.names, since |-> c.since, scores |-> c.scores,
                hits |-> c.hits, ranked |-> c.ranked, snapshot |-> c.snapshot]
        /\ c.request \in Ask
    OBVIOUS
  <1>3. /\ call' = [x \in Server |-> call'[x]] /\ c = call'[s]
        /\ \A x \in Server \ {s} : call'[x] = call[x]
    BY <1>1 DEF KnowledgeInv, ServerInv
  <1>. HIDE DEF c
  <1>. QED  BY <1>1, <1>2, <1>3, CallStep DEF Calling

LEMMA ScoresStep ==
    ASSUME KnowledgeInv, NEW s \in Server, ReadScores(s), Whole
    PROVE  KnowledgeInv'
  <1>. DEFINE scores == EmitUnprovenSnapshot(Digest(s))
              c == call'[s]
  <1>1. spc[s] = "scores" /\ CallIs(s) /\ call = [x \in Server |-> call[x]]
    BY DEF ReadScores, KnowledgeInv, ServerInv
  <1>2. CASE Refuse(s)
    BY <1>1, <1>2, RefuseStep DEF Calling
  <1>3. CASE /\ call' = [call EXCEPT ![s].scores = scores]
             /\ spc' = [spc EXCEPT ![s] = "search"]
             /\ UNCHANGED <<buildVars, handle, answers, durable>>
    <2>1. /\ c = [request |-> c.request, names |-> c.names, since |-> c.since, scores |-> c.scores,
                  hits |-> c.hits, ranked |-> c.ranked, snapshot |-> c.snapshot]
          /\ c.request \in Ask /\ c.scores = scores
      BY <1>1, <1>3 DEF CallIs, Calling
    <2>2. /\ call' = [x \in Server |-> call'[x]]
          /\ \A x \in Server \ {s} : call'[x] = call[x]
      BY <1>1, <1>3
    <2>. HIDE DEF c, scores
    <2>. QED  BY <1>1, <1>3, <2>1, <2>2, CallStep DEF Calling, c, scores
  <1>. QED  BY <1>2, <1>3 DEF ReadScores, ServerAt

LEMMA SearchStep ==
    ASSUME KnowledgeInv, NEW s \in Server, Search(s), Whole
    PROVE  KnowledgeInv'
  <1>. DEFINE hits == SearchAssets(TreeOf(handle[s]), Window(Limit(call[s].request)))
              c == call'[s]
  <1>1. /\ spc[s] = "search" /\ CallIs(s) /\ call = [x \in Server |-> call[x]]
        /\ call' = [call EXCEPT ![s].hits = hits]
        /\ spc' = [spc EXCEPT ![s] = "sets"]
        /\ UNCHANGED <<buildVars, handle, answers, durable>>
    BY DEF Search, ServerAt, KnowledgeInv, ServerInv
  <1>2. TreeOf(handle[s]) = Digest(s)
    BY <1>1, HeldIsWhole
  <1>. HIDE DEF hits
  <1>3. /\ c = [request |-> c.request, names |-> c.names, since |-> c.since, scores |-> c.scores,
                hits |-> c.hits, ranked |-> c.ranked, snapshot |-> c.snapshot]
        /\ c.request \in Ask /\ c.hits = hits /\ c.scores = EmitUnprovenSnapshot(Digest(s))
        /\ c.request = call[s].request
    BY <1>1 DEF CallIs, Calling
  <1>4. /\ call' = [x \in Server |-> call'[x]]
        /\ \A x \in Server \ {s} : call'[x] = call[x]
    BY <1>1
  <1>5. c.hits = SearchAssets(Digest(s), Window(Limit(c.request)))
    BY <1>2, <1>3 DEF hits
  <1>. HIDE DEF c
  <1>. QED  BY <1>1, <1>3, <1>4, <1>5, CallStep DEF Calling, c

LEMMA RankStep ==
    ASSUME KnowledgeInv, NEW s \in Server, RankAndRemember(s), Whole
    PROVE  KnowledgeInv'
  <1>. DEFINE old == call[s]
              c == call'[s]
              mode == RankingMode(s, old.request)
              view == EffectiveViewIdFor(old.scores, mode)
              snapshot == ContextSnapshot(facts[s], Digest(s), mode, view)
              ranked == Rank(old.hits, SetsOf(handle[s]), old.scores, Limit(old.request))
  <1>1. /\ spc[s] = "sets" /\ CallIs(s) /\ call = [x \in Server |-> call[x]]
        /\ call' = [call EXCEPT ![s].ranked = ranked, ![s].snapshot = snapshot]
        /\ spc' = [spc EXCEPT ![s] = "persist"]
        /\ UNCHANGED <<buildVars, handle, answers, durable>>
    BY DEF RankAndRemember, ServerAt, KnowledgeInv, ServerInv
  <1>2. /\ SetsOf(handle[s]) = ListSolutionSets(Digest(s))
        /\ FileOf(s).by \in Builder /\ Committed(FileOf(s).by)
        /\ Digest(s) = compiled[FileOf(s).by]
    BY <1>1, HeldIsWhole
  <1>3. /\ old.scores = EmitUnprovenSnapshot(Digest(s))
        /\ old.hits = SearchAssets(Digest(s), Window(Limit(old.request)))
        /\ old.request \in Ask
    BY <1>1 DEF CallIs, Calling
  <1>4. /\ snapshot.index_digest = Digest(s) /\ snapshot.ranking_mode = mode
        /\ snapshot.view = view
    BY DEF ContextSnapshot
  <1>5. ranked = Rank(SearchAssets(Digest(s), Window(Limit(old.request))),
                      ListSolutionSets(Digest(s)), EmitUnprovenSnapshot(Digest(s)),
                      Limit(old.request))
    BY <1>2, <1>3
  <1>6. view = EffectiveViewIdFor(EmitUnprovenSnapshot(Digest(s)), mode)
    BY <1>3
  <1>. HIDE DEF ranked, snapshot, view, mode
  <1>7. /\ c = [request |-> c.request, names |-> c.names, since |-> c.since, scores |-> c.scores,
                hits |-> c.hits, ranked |-> c.ranked, snapshot |-> c.snapshot]
        /\ c.request = old.request /\ c.ranked = ranked /\ c.snapshot = snapshot
    BY <1>1 DEF CallIs, Calling
  <1>8. /\ call' = [x \in Server |-> call'[x]]
        /\ \A x \in Server \ {s} : call'[x] = call[x]
    BY <1>1
  <1>. HIDE DEF c
  <1>9. Sound(c) /\ Read(c)
    BY <1>2, <1>3, <1>4, <1>5, <1>6, <1>7 DEF Sound, Read
  <1>. QED  BY <1>1, <1>3, <1>7, <1>8, <1>9, CallStep DEF Calling, c

LEMMA PersistStep ==
    ASSUME KnowledgeInv, NEW s \in Server, PersistSnapshot(s), Whole
    PROVE  KnowledgeInv'
  <1>. DEFINE c == call[s]
  <1>1. /\ spc[s] = "persist" /\ CallIs(s) /\ call = [x \in Server |-> call[x]]
        /\ call' = call /\ spc' = [spc EXCEPT ![s] = "answer"]
        /\ durable' = durable \union {c.snapshot}
        /\ UNCHANGED <<buildVars, handle, answers>>
    BY DEF PersistSnapshot, ServerAt, KnowledgeInv, ServerInv
  <1>2. /\ c = [request |-> c.request, names |-> c.names, since |-> c.since, scores |-> c.scores,
                hits |-> c.hits, ranked |-> c.ranked, snapshot |-> c.snapshot]
        /\ c.request \in Ask /\ Sound(c) /\ Read(c)
    BY <1>1 DEF CallIs, Calling
  <1>3. c = call'[s] /\ \A x \in Server : call'[x] = call[x]
    BY <1>1
  <1>. HIDE DEF c
  <1>. QED  BY <1>1, <1>2, <1>3, CallStep DEF Calling

LEMMA AnswerStep ==
    ASSUME KnowledgeInv, NEW s \in Server, Answer(s), Whole
    PROVE  KnowledgeInv'
  <1>. DEFINE c == call[s]
              x == [request |-> c.request, snapshot |-> c.snapshot, ranked |-> c.ranked,
                    during |-> {c.since, head}]
  <1>1. /\ spc[s] = "answer" /\ CallIs(s) /\ HandleIs(s) /\ call = [y \in Server |-> call[y]]
        /\ spc \in [Server -> Calling \union {"off", "version", "digest", "ready"}]
        /\ call' = [call EXCEPT ![s] = None] /\ spc' = [spc EXCEPT ![s] = "ready"]
        /\ answers' = answers \union {x}
        /\ UNCHANGED <<buildVars, handle, durable>>
    BY DEF Answer, ServerAt, KnowledgeInv, ServerInv
  <1>2. Sound(c) /\ Read(c) /\ c.snapshot \in durable
    BY <1>1 DEF CallIs
  <1>3. x.request = c.request /\ x.snapshot = c.snapshot /\ x.ranked = c.ranked
    OBVIOUS
  <1>. HIDE DEF x, c
  <1>4. Sound(x) /\ Read(x) /\ x.snapshot \in durable
    BY <1>2, <1>3 DEF Sound, Read
  <1>5. \A y \in answers' : (Sound(y) /\ Read(y))' /\ y.snapshot \in durable'
    <2>. TAKE y \in answers'
    <2>1. Sound(y) /\ Read(y) /\ y.snapshot \in durable
      BY <1>1, <1>4 DEF KnowledgeInv, ServerInv
    <2>. QED  BY <1>1, <2>1 DEF Sound, Read, Committed, buildVars
  <1>6. spc'[s] = "ready" /\ FileOf(s)' = FileOf(s)
    BY <1>1 DEF FileOf, buildVars
  <1>7. HandleIs(s)' /\ CallIs(s)'
    BY <1>1, <1>6 DEF HandleIs, CallIs, Calling
  <1>. QED  BY <1>1, <1>5, <1>7, OwnStep

LEMMA ServeStep ==
    ASSUME KnowledgeInv, NEW s \in Server, Serve(s)
    PROVE  KnowledgeInv'
  <1>1. Whole
    BY ServersOnlyRead DEF KnowledgeInv
  <1>2. CASE CallFails(s)
    BY <1>1, <1>2, RefuseStep DEF CallFails, Calling
  <1>3. CASE \E r \in Ask, v \in {None} \union {x.snapshot.view : x \in answers} : Receive(s, r, v)
    BY <1>1, <1>3, ReceiveStep
  <1>. QED  BY <1>1, <1>2, <1>3, ComeAndGo, MetaStep, ScoresStep, SearchStep, RankStep, PersistStep,
               AnswerStep DEF Serve

LEMMA KnowledgeNext == KnowledgeInv /\ [Next]_vars => KnowledgeInv'
  <1>. SUFFICES ASSUME KnowledgeInv, [Next]_vars PROVE KnowledgeInv'
    OBVIOUS
  <1>1. ASSUME NEW b \in Builder, Build(b) PROVE KnowledgeInv'
    BY <1>1, BuildStep, OthersKeep DEF KnowledgeInv, Whole
  <1>2. CASE Edit \/ MoveHead
    BY <1>2, EditStep, OthersKeep DEF KnowledgeInv, Whole
  <1>3. ASSUME NEW s \in Server, Serve(s) PROVE KnowledgeInv'
    BY <1>3, ServeStep
  <1>4. CASE UNCHANGED vars
    <2>. USE <1>4 DEF vars, treeVars, buildVars, serverVars
    <2>1. BuildInv'
      BY DEF KnowledgeInv, BuildInv, Shaped, FileIs, Used, TargetIs, AloneIs, Committed
    <2>2. Kept
      BY UnchangedIsKept DEF KnowledgeInv, Committed
    <2>. QED  BY <2>1, <2>2, OthersKeep DEF Whole, KnowledgeInv
  <1>. QED  BY <1>1, <1>2, <1>3, <1>4 DEF Next

LEMMA KnowledgeStart == Init => KnowledgeInv
  <1>. SUFFICES ASSUME Init PROVE KnowledgeInv
    OBVIOUS
  <1>1. worktree \in Tree
    BY WorkStartsWithTrees DEF Init
  <1>2. NoTree \in Tree
    <2>1. \E v : v \in Version
      BY <1>1, LimitsAreNat DEF Tree, Asset
    <2>. QED  BY <2>1 DEF NoTree, Tree
  <1>3. BuildInv
    BY <1>1, <1>2, NoneIsNothing
       DEF Init, BuildInv, Shaped, Used, TargetIs, AloneIs, Building, Reading
  <1>4. ServerInv
    BY DEF Init, ServerInv, HandleIs, CallIs, Calling
  <1>. QED  BY <1>3, <1>4 DEF KnowledgeInv

LEMMA KnowledgeAlways == Spec => []KnowledgeInv
  BY KnowledgeStart, KnowledgeNext, PTL DEF Spec

-----------------------------------------------------------------------------
(***************************************************************************)
(* What a sound answer is.  Its items are taken from what the search found *)
(* in the tree, of a known set only the champion.                          *)
(***************************************************************************)
SetOf(hits, a) == Says[hits[a]].set

\* The candidates `Rank` orders.
KeptOf(hits, sets) ==
    {a \in Recommendable(hits) : \/ SetOf(hits, a) \notin DOMAIN sets
                                 \/ ChampionOf(sets[SetOf(hits, a)]) = a}

RankOf(hits, sets) == [c \in KeptOf(hits, sets) |-> Says[hits[c]].rank]

CoverageOf(hits, sets) ==
    {SetOf(hits, a) : a \in {b \in Recommendable(hits) :
                                /\ SetOf(hits, b) \in DOMAIN sets
                                /\ ChampionOf(sets[SetOf(hits, b)]) = None}}

LEMMA RankIs ==
    ASSUME NEW hits, NEW sets, NEW scores, NEW limit
    PROVE  LET list == InOrder(KeptOf(hits, sets), RankOf(hits, sets), scores)
               x == Rank(hits, sets, scores, limit)
           IN  /\ x.items = SubSeq(list, 1, IF limit < Len(list) THEN limit ELSE Len(list))
               /\ x.coverage = CoverageOf(hits, sets)
  BY DEF Rank, KeptOf, RankOf, CoverageOf, SetOf, CompareCandidates

\* The search in a tree.
Matching(tree) == {a \in Asset : tree.assets[a] # None /\ Says[tree.assets[a]].rank > 0}

Relevance(tree) == [a \in Matching(tree) |-> Says[tree.assets[a]].rank]

Found(tree, n) == First(Matching(tree), n, Relevance(tree), [c \in Matching(tree) |-> 0])

LEMMA SearchIs ==
    ASSUME NEW tree, NEW n
    PROVE  /\ SearchAssets(tree, n) = [a \in Found(tree, n) |-> tree.assets[a]]
           /\ DOMAIN SearchAssets(tree, n) = Found(tree, n)
           /\ Found(tree, n) \subseteq Matching(tree)
           /\ \A a \in Found(tree, n) : SearchAssets(tree, n)[a] = tree.assets[a]
  BY DEF SearchAssets, Found, First, Matching, Relevance

LEMMA SaysIs ==
    ASSUME NEW tree \in Tree, NEW a \in Asset, tree.assets[a] # None
    PROVE  /\ tree.assets[a] \in Record /\ Says[tree.assets[a]].rank \in 0 .. 2
           /\ EmitUnprovenSnapshot(tree)[a] = 50
  BY RecordsMeetTheirSchemas DEF Tree, AssetSchema, EmitUnprovenSnapshot

LEMMA LimitIsNat == ASSUME NEW r \in Ask PROVE Limit(r) \in Nat
  BY AsksMeetTheirSchemas, LimitsAreNat DEF Request, Limit, Least

\* The items of an answer, each at its place among the candidates.
LEMMA ItemsAre ==
    ASSUME NEW tree \in Tree, NEW n, NEW limit \in Nat
    PROVE  LET hits == SearchAssets(tree, n)
               sets == ListSolutionSets(tree)
               scores == EmitUnprovenSnapshot(tree)
               items == Rank(hits, sets, scores, limit).items
               kept == KeptOf(hits, sets)
               place(a) == Before(kept, a, RankOf(hits, sets), scores)
           IN  /\ kept \subseteq Found(tree, n)
               /\ Ordered(kept, RankOf(hits, sets), scores)
               /\ \A i \in DOMAIN items : items[i] \in kept /\ place(items[i]) < limit
               /\ \A a \in kept : place(a) < limit => a \in ToSet(items)
  <1>. DEFINE hits == SearchAssets(tree, n)
              sets == ListSolutionSets(tree)
              scores == EmitUnprovenSnapshot(tree)
              kept == KeptOf(hits, sets)
              rankOf == RankOf(hits, sets)
              list == InOrder(kept, rankOf, scores)
              size == Cardinality(kept)
              taken == IF limit < Len(list) THEN limit ELSE Len(list)
              items == Rank(hits, sets, scores, limit).items
  <1>1. kept \subseteq Found(tree, n)
    BY SearchIs DEF KeptOf, Recommendable
  <1>2. \A a \in Found(tree, n) : a \in Asset /\ tree.assets[a] # None /\ hits[a] = tree.assets[a]
    BY SearchIs DEF Matching
  <1>3. Ordered(kept, rankOf, scores)
    <2>. SUFFICES ASSUME NEW a \in kept
                  PROVE  a \in Asset /\ rankOf[a] \in Int /\ scores[a] \in Int
      BY DEF Ordered
    <2>1. /\ a \in Asset /\ tree.assets[a] # None /\ hits[a] = tree.assets[a]
      BY <1>1, <1>2
    <2>2. rankOf[a] = Says[tree.assets[a]].rank
      BY <2>1 DEF RankOf
    <2>. QED  BY <2>1, <2>2, SaysIs
  <1>4. items = SubSeq(list, 1, taken)
    BY RankIs
  <1>. HIDE DEF kept, rankOf, scores, hits, sets, list, items
  <1>5. /\ list \in Seq(kept) /\ Len(list) = size
        /\ \A i \in 1 .. size : list[i] \in kept /\ Before(kept, list[i], rankOf, scores) = i - 1
        /\ \A a \in kept : Before(kept, a, rankOf, scores) + 1 \in 1 .. size
                           /\ list[Before(kept, a, rankOf, scores) + 1] = a
    BY <1>3, InOrderLists DEF list
  <1>6. size \in Nat /\ taken \in Nat /\ taken <= size /\ taken <= limit
        /\ (taken = limit \/ taken = size)
    <2>1. kept \subseteq Asset
      BY <1>3 DEF Ordered
    <2>. QED  BY <1>5, <2>1, AssetsAreFinite
  <1>7. DOMAIN items = 1 .. taken /\ \A i \in 1 .. taken : items[i] = list[i]
    <2>. HIDE DEF taken, size
    <2>. QED  BY <1>4, <1>5, <1>6
  <1>8. ASSUME NEW i \in DOMAIN items
        PROVE  items[i] \in kept /\ Before(kept, items[i], rankOf, scores) < limit
    BY <1>5, <1>6, <1>7
  <1>9. ASSUME NEW a \in kept, Before(kept, a, rankOf, scores) < limit
        PROVE  \E i \in DOMAIN items : items[i] = a
    <2>1. Before(kept, a, rankOf, scores) + 1 \in 1 .. taken
      BY <1>3, <1>5, <1>6, <1>9, PlaceInRange
    <2>. QED  BY <1>5, <1>7, <2>1
  <1>10. \A a \in kept : Before(kept, a, rankOf, scores) < limit => a \in ToSet(items)
    BY <1>9 DEF ToSet
  <1>. QED  BY <1>1, <1>3, <1>8, <1>10 DEF kept, rankOf, scores, hits, sets, items

LEMMA ItemIs ==
    ASSUME NEW tree \in Tree, NEW n, NEW limit \in Nat,
           NEW a \in KeptOf(SearchAssets(tree, n), ListSolutionSets(tree)),
           Before(KeptOf(SearchAssets(tree, n), ListSolutionSets(tree)), a,
                  RankOf(SearchAssets(tree, n), ListSolutionSets(tree)),
                  EmitUnprovenSnapshot(tree)) < limit
    PROVE  a \in ToSet(Rank(SearchAssets(tree, n), ListSolutionSets(tree),
                            EmitUnprovenSnapshot(tree), limit).items)
  BY ItemsAre

\* What was taken of a known set is its pinned champion.
LEMMA KeptAreChampions ==
    ASSUME NEW tree \in Tree, NEW n, NEW a \in KeptOf(SearchAssets(tree, n), ListSolutionSets(tree))
    PROVE  LET set == Says[tree.assets[a]].set
           IN  /\ a \in Asset /\ tree.assets[a] # None
               /\ Says[tree.assets[a]].type # "failed_solution"
               /\ set \in DOMAIN ListSolutionSets(tree) =>
                     /\ Holds[tree.sets[set]].state = "pinned"
                     /\ Holds[tree.sets[set]].champion = a
                     /\ ChampionOf(tree.sets[set]) = a
                     /\ set \notin CoverageOf(SearchAssets(tree, n), ListSolutionSets(tree))
  <1>. DEFINE hits == SearchAssets(tree, n)
              sets == ListSolutionSets(tree)
              set == Says[tree.assets[a]].set
  <1>1. /\ a \in Recommendable(hits) /\ a \in DOMAIN hits
        /\ SetOf(hits, a) \notin DOMAIN sets \/ ChampionOf(sets[SetOf(hits, a)]) = a
    BY DEF KeptOf, Recommendable
  <1>2. a \in Asset /\ tree.assets[a] # None /\ hits[a] = tree.assets[a] /\ SetOf(hits, a) = set
    BY <1>1, SearchIs DEF Matching, SetOf
  <1>3. Says[tree.assets[a]].type # "failed_solution"
    BY <1>1, <1>2 DEF Recommendable
  <1>4. ASSUME set \in DOMAIN sets
        PROVE  /\ Holds[tree.sets[set]].state = "pinned"
               /\ Holds[tree.sets[set]].champion = a
               /\ ChampionOf(tree.sets[set]) = a
               /\ ChampionOf(sets[set]) # None
    <2>1. sets[set] = tree.sets[set]
      BY <1>4 DEF ListSolutionSets
    <2>2. ChampionOf(tree.sets[set]) = a /\ a # None
      BY <1>1, <1>2, <1>4, <2>1, NoneIsNothing
    <2>. QED  BY <2>1, <2>2 DEF ChampionOf
  <1>5. ASSUME set \in DOMAIN sets PROVE set \notin CoverageOf(hits, sets)
    BY <1>4, <1>5 DEF CoverageOf
  <1>. QED  BY <1>2, <1>3, <1>4, <1>5

LEMMA SoundIs ==
    ASSUME KnowledgeInv, NEW x, Sound(x), Read(x)
    PROVE  LET tree == x.snapshot.index_digest
               hits == SearchAssets(tree, Window(Limit(x.request)))
               sets == ListSolutionSets(tree)
           IN  /\ tree \in Tree /\ Limit(x.request) \in Nat
               /\ \A i \in DOMAIN x.ranked.items : x.ranked.items[i] \in KeptOf(hits, sets)
               /\ x.ranked.coverage = CoverageOf(hits, sets)
  <1>. DEFINE tree == x.snapshot.index_digest
              limit == Limit(x.request)
              hits == SearchAssets(tree, Window(limit))
              sets == ListSolutionSets(tree)
              scores == EmitUnprovenSnapshot(tree)
  <1>1. tree \in Tree
    BY DEF Read, KnowledgeInv, BuildInv, Shaped
  <1>2. limit \in Nat /\ x.ranked = Rank(hits, sets, scores, limit)
    BY LimitIsNat DEF Sound
  <1>. HIDE DEF limit
  <1>3. \A i \in DOMAIN x.ranked.items : x.ranked.items[i] \in KeptOf(hits, sets)
    BY <1>1, <1>2, ItemsAre
  <1>4. x.ranked.coverage = CoverageOf(hits, sets)
    BY <1>2, RankIs
  <1>. QED  BY <1>1, <1>2, <1>3, <1>4 DEF limit

LEMMA GivenAreSound ==
    ASSUME KnowledgeInv, NEW x \in Given PROVE Sound(x) /\ Read(x)
  BY DEF Given, KnowledgeInv, ServerInv, CallIs

-----------------------------------------------------------------------------
(***************************************************************************)
(* A decision never cites an index it did not see: whatever happened to    *)
(* the file between the readings of a call, the answer is what one ranking *)
(* over the tree of its digest gives.                                      *)
(***************************************************************************)
THEOREM OneTree == Spec => []AnswersAreOneTree
  <1>1. KnowledgeInv => AnswersAreOneTree
    <2>. SUFFICES ASSUME KnowledgeInv PROVE AnswersAreOneTree
      OBVIOUS
    <2>1. \A x \in Given : Sound(x) /\ Read(x)
      BY GivenAreSound
    <2>. QED  BY <2>1 DEF AnswersAreOneTree, Sound, Read, Committed
  <1>. QED  BY <1>1, KnowledgeAlways, PTL

(***************************************************************************)
(* No failed solution is put in front of an agent, of a known set nothing  *)
(* but its pinned champion, and no set both answered and unresolved.       *)
(***************************************************************************)
THEOREM Champions == Spec => []OnlyChampionsAreProposed
  <1>1. KnowledgeInv => OnlyChampionsAreProposed
    <2>. SUFFICES ASSUME KnowledgeInv, NEW x \in Given, NEW i \in DOMAIN x.ranked.items
                  PROVE  LET tree == x.snapshot.index_digest
                             known == DOMAIN ListSolutionSets(tree)
                             a == x.ranked.items[i]
                             set == Says[tree.assets[a]].set
                         IN  /\ Says[tree.assets[a]].type # "failed_solution"
                             /\ set \in known => /\ Holds[tree.sets[set]].state = "pinned"
                                                 /\ Holds[tree.sets[set]].champion = a
                                                 /\ set \notin x.ranked.coverage
      BY DEF OnlyChampionsAreProposed
    <2>. DEFINE tree == x.snapshot.index_digest
                n == Window(Limit(x.request))
                a == x.ranked.items[i]
    <2>1. /\ tree \in Tree
          /\ a \in KeptOf(SearchAssets(tree, n), ListSolutionSets(tree))
          /\ x.ranked.coverage = CoverageOf(SearchAssets(tree, n), ListSolutionSets(tree))
      BY GivenAreSound, SoundIs
    <2>. HIDE DEF n, tree, a
    <2>2. LET set == Says[tree.assets[a]].set
          IN  /\ Says[tree.assets[a]].type # "failed_solution"
              /\ set \in DOMAIN ListSolutionSets(tree) =>
                    /\ Holds[tree.sets[set]].state = "pinned"
                    /\ Holds[tree.sets[set]].champion = a
                    /\ set \notin x.ranked.coverage
      BY <2>1, KeptAreChampions
    <2>. QED  BY <2>2 DEF a, tree
  <1>. QED  BY <1>1, KnowledgeAlways, PTL

(***************************************************************************)
(* What an answer cites can be inspected: its snapshot on any server, its  *)
(* items and sets on every server of the same index.                       *)
(***************************************************************************)
THEOREM Inspectable == Spec => []CitedIsInspectable
  <1>1. ASSUME KnowledgeInv, NEW x \in answers, NEW s \in Server, spc[s] = "ready"
        PROVE  /\ Inspect(s, "snapshot", x.snapshot) # {}
               /\ Digest(s) = x.snapshot.index_digest =>
                     /\ \A i \in DOMAIN x.ranked.items :
                           Inspect(s, "asset", x.ranked.items[i]) # {}
                     /\ \A t \in x.ranked.coverage : Inspect(s, "solution_set", t) # {}
    <2>. DEFINE tree == x.snapshot.index_digest
                n == Window(Limit(x.request))
    <2>1. Sound(x) /\ Read(x) /\ x.snapshot \in durable
      BY <1>1 DEF KnowledgeInv, ServerInv
    <2>2. Inspect(s, "snapshot", x.snapshot) # {}
      BY <2>1 DEF Inspect
    <2>3. /\ tree \in Tree
          /\ \A i \in DOMAIN x.ranked.items :
                x.ranked.items[i] \in KeptOf(SearchAssets(tree, n), ListSolutionSets(tree))
          /\ x.ranked.coverage = CoverageOf(SearchAssets(tree, n), ListSolutionSets(tree))
      BY <1>1, <2>1, SoundIs
    <2>. HIDE DEF n
    <2>4. SUFFICES ASSUME Digest(s) = tree
                   PROVE  /\ \A i \in DOMAIN x.ranked.items :
                                Inspect(s, "asset", x.ranked.items[i]) # {}
                          /\ \A t \in x.ranked.coverage : Inspect(s, "solution_set", t) # {}
      BY <2>2
    <2>5. TreeOf(handle[s]) = tree /\ SetsOf(handle[s]) = ListSolutionSets(tree)
      BY <1>1, <2>4, HeldIsWhole
    <2>6. ASSUME NEW i \in DOMAIN x.ranked.items
          PROVE  Inspect(s, "asset", x.ranked.items[i]) # {}
      <3>1. x.ranked.items[i] \in Asset /\ tree.assets[x.ranked.items[i]] # None
        <4>. HIDE DEF tree
        <4>. QED  BY <2>3, KeptAreChampions
      <3>. QED  BY <2>5, <3>1 DEF Inspect
    <2>7. ASSUME NEW t \in x.ranked.coverage PROVE Inspect(s, "solution_set", t) # {}
      <3>1. t \in DOMAIN ListSolutionSets(tree)
        BY <2>3 DEF CoverageOf
      <3>. QED  BY <2>5, <3>1 DEF Inspect
    <2>. QED  BY <2>6, <2>7
  <1>2. KnowledgeInv => CitedIsInspectable
    BY <1>1 DEF CitedIsInspectable
  <1>. QED  BY <1>2, KnowledgeAlways, PTL

(***************************************************************************)
(* A build nobody came between does not fail for what earlier builds left, *)
(* and leaves a whole index of the tree it read.                           *)
(***************************************************************************)
THEOREM Alone == Spec => []AloneItServes
  <1>1. KnowledgeInv => AloneItServes
    <2>1. Len(Stages) = 6
      BY DEF Stages
    <2>. QED  BY <2>1 DEF KnowledgeInv, BuildInv, AloneIs, AloneItServes
  <1>. QED  BY <1>1, KnowledgeAlways, PTL

-----------------------------------------------------------------------------
(***************************************************************************)
(* A wider search.  Every asset of a fresh index has one score, so what    *)
(* comes sooner than a hit is a hit, and a candidate keeps its place when  *)
(* more is searched.                                                       *)
(***************************************************************************)
LEMMA WindowsGrow ==
    ASSUME NEW m \in Nat, NEW n \in Nat, m <= n
    PROVE  Window(m) \in Nat /\ Window(n) \in Nat /\ Window(m) <= Window(n)
  <1>1. MaxLimit \in Nat /\ Overfetch \in Nat
    BY LimitsAreNat
  <1>2. m * Overfetch \in Nat /\ n * Overfetch \in Nat /\ m * Overfetch <= n * Overfetch
    BY <1>1
  <1>. QED  BY <1>1, <1>2 DEF Window, Least

LEMMA MoreIsFound ==
    ASSUME NEW tree \in Tree, NEW m \in Nat, NEW n \in Nat, m <= n
    PROVE  /\ Found(tree, m) \subseteq Found(tree, n)
           /\ \A x \in Found(tree, m), y \in Matching(tree) :
                 Sooner(Relevance(tree), [c \in Matching(tree) |-> 0], y, x) => y \in Found(tree, m)
  <1>. DEFINE S == Matching(tree)
              none == [c \in S |-> 0]
              place(x) == Before(S, x, Relevance(tree), none)
  <1>1. Ordered(S, Relevance(tree), none)
    BY SaysIs DEF Ordered, Relevance, Matching
  <1>. HIDE DEF S, none
  <1>2. S \subseteq Asset /\ Cardinality(S) \in Nat
    BY <1>1, AssetsAreFinite DEF Ordered
  <1>3. \A x \in S : place(x) \in Nat
    BY <1>1, <1>2, PlaceInRange
  <1>4. \A k : Found(tree, k) = {x \in S : place(x) < k}
    BY DEF Found, First, S, none
  <1>. HIDE DEF place
  <1>5. Found(tree, m) \subseteq Found(tree, n)
    BY <1>3, <1>4
  <1>6. ASSUME NEW x \in Found(tree, m), NEW y \in S, Sooner(Relevance(tree), none, y, x)
        PROVE  y \in Found(tree, m)
    <2>1. x \in S /\ place(x) < m
      BY <1>4
    <2>2. place(y) < place(x)
      BY <1>1, <1>6, <2>1, PlacesGrow DEF place
    <2>. QED  BY <1>3, <1>4, <2>1, <2>2
  <1>. QED  BY <1>5, <1>6 DEF S, none

LEMMA PlacesKeep ==
    ASSUME NEW tree \in Tree, NEW m \in Nat, NEW n \in Nat, m <= n
    PROVE  LET sets == ListSolutionSets(tree)
               few == SearchAssets(tree, m)
               many == SearchAssets(tree, n)
               scores == EmitUnprovenSnapshot(tree)
           IN  /\ CoverageOf(few, sets) \subseteq CoverageOf(many, sets)
               /\ KeptOf(few, sets) \subseteq KeptOf(many, sets)
               /\ \A a \in KeptOf(few, sets) :
                     Before(KeptOf(many, sets), a, RankOf(many, sets), scores)
                       = Before(KeptOf(few, sets), a, RankOf(few, sets), scores)
  <1>. DEFINE sets == ListSolutionSets(tree)
              few == SearchAssets(tree, m)
              many == SearchAssets(tree, n)
              scores == EmitUnprovenSnapshot(tree)
              F == KeptOf(few, sets)
              M == KeptOf(many, sets)
              sooner(y, x) == \/ Says[tree.assets[y]].rank < Says[tree.assets[x]].rank
                              \/ Says[tree.assets[y]].rank = Says[tree.assets[x]].rank /\ y < x
  <1>1. /\ DOMAIN few \subseteq DOMAIN many /\ DOMAIN few = Found(tree, m)
        /\ \A a \in DOMAIN many : /\ many[a] = tree.assets[a] /\ a \in Matching(tree)
                                  /\ a \in Asset /\ a \in Int /\ tree.assets[a] # None
        /\ \A a \in DOMAIN few : few[a] = tree.assets[a]
    BY SearchIs, MoreIsFound, LimitsAreNat DEF Matching, Asset
  <1>2. /\ Recommendable(few) = {a \in Recommendable(many) : a \in DOMAIN few}
        /\ \A a \in DOMAIN few : SetOf(few, a) = SetOf(many, a)
    BY <1>1 DEF Recommendable, SetOf
  <1>3. CoverageOf(few, sets) \subseteq CoverageOf(many, sets)
    <2>. HIDE DEF few, many, sets
    <2>. QED  BY <1>2 DEF CoverageOf, Recommendable
  <1>4. /\ F = {a \in M : a \in DOMAIN few} /\ M \subseteq DOMAIN many
    <2>. HIDE DEF few, many, sets
    <2>. QED  BY <1>2 DEF KeptOf, Recommendable
  <1>5. ASSUME NEW a \in F
        PROVE  Before(M, a, RankOf(many, sets), scores) = Before(F, a, RankOf(few, sets), scores)
    <2>1. \A y \in M : Sooner(RankOf(many, sets), scores, y, a) <=> sooner(y, a)
      <3>1. \A y \in M : /\ RankOf(many, sets)[y] = Says[tree.assets[y]].rank
                         /\ scores[y] = 50
        BY <1>1, <1>4, SaysIs DEF RankOf
      <3>. HIDE DEF scores, few, many, F, M, sets
      <3>. QED  BY <1>4, <3>1 DEF Sooner
    <2>2. \A y \in F : Sooner(RankOf(few, sets), scores, y, a) <=> sooner(y, a)
      <3>1. \A y \in F : /\ RankOf(few, sets)[y] = Says[tree.assets[y]].rank
                         /\ scores[y] = 50
        BY <1>1, <1>4, SaysIs DEF RankOf
      <3>. HIDE DEF scores, few, many, F, M, sets
      <3>. QED  BY <1>4, <3>1 DEF Sooner
    <2>3. ASSUME NEW y \in M, sooner(y, a) PROVE y \in F
      <3>1. y \in Matching(tree) /\ a \in Found(tree, m) /\ a \in Matching(tree)
        BY <1>1, <1>4
      <3>2. Sooner(Relevance(tree), [c \in Matching(tree) |-> 0], y, a)
        BY <2>3, <3>1 DEF Sooner, Relevance
      <3>3. y \in Found(tree, m)
        BY <3>1, <3>2, MoreIsFound
      <3>. QED  BY <1>1, <1>4, <3>3
    <2>. HIDE DEF F, M, sooner, scores, few, many, sets
    <2>4. {y \in M : Sooner(RankOf(many, sets), scores, y, a)}
            = {y \in F : Sooner(RankOf(few, sets), scores, y, a)}
      BY <1>4, <2>1, <2>2, <2>3
    <2>. QED  BY <2>4 DEF Before
  <1>. QED  BY <1>3, <1>4, <1>5

(***************************************************************************)
(* `expand` widens: over the same index, what the default `resolve`        *)
(* proposed or reported is still there.                                    *)
(***************************************************************************)
THEOREM Widens == Spec => []ExpandWidens
  <1>1. ASSUME KnowledgeInv, NEW x \in answers, NEW y \in answers,
               x.request.verb = "resolve", x.request.limit = None, y.request.verb = "expand",
               x.snapshot.index_digest = y.snapshot.index_digest
        PROVE  /\ ToSet(x.ranked.items) \subseteq ToSet(y.ranked.items)
               /\ x.ranked.coverage \subseteq y.ranked.coverage
    <2>. DEFINE tree == x.snapshot.index_digest
                sets == ListSolutionSets(tree)
                scores == EmitUnprovenSnapshot(tree)
                lx == Limit(x.request)
                ly == Limit(y.request)
                few == SearchAssets(tree, Window(lx))
                many == SearchAssets(tree, Window(ly))
    <2>1. Sound(x) /\ Read(x) /\ Sound(y) /\ Read(y)
      BY <1>1 DEF KnowledgeInv, ServerInv
    <2>2. /\ tree \in Tree /\ lx \in Nat /\ ly \in Nat
          /\ x.ranked = Rank(few, sets, scores, lx) /\ y.ranked = Rank(many, sets, scores, ly)
      BY <1>1, <2>1, SoundIs DEF Sound
    <2>3. lx <= ly
      BY <1>1, LimitsAreNat DEF Limit, Least
    <2>4. Window(lx) \in Nat /\ Window(ly) \in Nat /\ Window(lx) <= Window(ly)
      BY <2>2, <2>3, WindowsGrow
    <2>. HIDE DEF tree, lx, ly
    <2>5. /\ CoverageOf(few, sets) \subseteq CoverageOf(many, sets)
          /\ KeptOf(few, sets) \subseteq KeptOf(many, sets)
          /\ \A a \in KeptOf(few, sets) :
                Before(KeptOf(many, sets), a, RankOf(many, sets), scores)
                  = Before(KeptOf(few, sets), a, RankOf(few, sets), scores)
      BY <2>2, <2>4, PlacesKeep
    <2>6. x.ranked.coverage \subseteq y.ranked.coverage
      BY <2>2, <2>5, RankIs
    <2>7. ASSUME NEW i \in DOMAIN x.ranked.items
          PROVE  x.ranked.items[i] \in ToSet(y.ranked.items)
      <3>. DEFINE a == x.ranked.items[i]
      <3>1. /\ a \in KeptOf(few, sets)
            /\ Before(KeptOf(few, sets), a, RankOf(few, sets), scores) < lx
        BY <2>2, ItemsAre
      <3>2. Before(KeptOf(few, sets), a, RankOf(few, sets), scores) \in Int
        <4>1. Ordered(KeptOf(few, sets), RankOf(few, sets), scores)
          BY <2>2, ItemsAre
        <4>. HIDE DEF few, sets, scores, a
        <4>2. KeptOf(few, sets) \subseteq Asset
          BY <4>1 DEF Ordered
        <4>. QED  BY <3>1, <4>1, <4>2, PlaceInRange, AssetsAreFinite
      <3>3. /\ a \in KeptOf(many, sets)
            /\ Before(KeptOf(many, sets), a, RankOf(many, sets), scores) < ly
        <4>. HIDE DEF few, many, sets, scores, a
        <4>. QED  BY <2>2, <2>3, <2>5, <3>1, <3>2
      <3>. HIDE DEF a
      <3>4. a \in ToSet(Rank(many, sets, scores, ly).items)
        <4>. HIDE DEF a
        <4>. QED  BY <2>2, <3>3, ItemIs
      <3>. HIDE DEF many, sets, scores
      <3>. QED  BY <2>2, <3>4 DEF a
    <2>. QED  BY <2>6, <2>7 DEF ToSet
  <1>2. KnowledgeInv => ExpandWidens
    BY <1>1 DEF ExpandWidens
  <1>. QED  BY <1>2, KnowledgeAlways, PTL
=============================================================================
