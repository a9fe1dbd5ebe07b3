--------------------------- MODULE OwnerHostProofs ---------------------------
(***************************************************************************)
(* What the owner of a host can rely on, proved of Footprint, Credentials  *)
(* and Stage3Canary for every number of lines, commands, edits, statements *)
(* and canaries: an `ieos init` that ran alone, once or again, inits that  *)
(* overlap, a printed statement, a rotation, a history in which nothing    *)
(* overlapped, and a canary that passed.                                   *)
(***************************************************************************)
EXTENDS Footprint, Stage3Canary, FiniteSetTheorems, SequenceTheorems, WellFoundedInduction,
        TLAPS

-----------------------------------------------------------------------------
(***************************************************************************)
(* Footprint: texts, and texts without some of their lines.                *)
(***************************************************************************)
\* Every set of numbers has a least one.
LEMMA Least == ASSUME NEW T \in SUBSET Nat, T # {} PROVE \E n \in T : \A m \in T : n <= m
<1>1. PICK n \in T : \A m \in T : ~ (<<m, n>> \in OpToRel(<, Nat))
  BY NatLessThanWellFounded, WFMin
<1>2. ASSUME NEW m \in T PROVE ~(m < n)
  BY <1>1, Zenon DEF OpToRel
<1> QED
  BY <1>2

\* Induction up to a bound: what holds of 0 and of each next number holds of all.
LEMMA UpTo ==
    ASSUME NEW N \in Nat, NEW T \in SUBSET (0 .. N), 0 \in T,
           \A n \in 0 .. N : n \in T /\ n < N => n + 1 \in T
    PROVE  \A n \in 0 .. N : n \in T
<1> SUFFICES ASSUME (0 .. N) \ T # {} PROVE FALSE
  OBVIOUS
<1>0. (0 .. N) \ T \in SUBSET Nat
  OBVIOUS
<1>1. PICK n \in (0 .. N) \ T : \A m \in (0 .. N) \ T : n <= m
  BY <1>0, Least
<1>2. n # 0 /\ n - 1 \in 0 .. N /\ n - 1 < N /\ (n - 1) + 1 = n
  BY <1>1
<1>3. n - 1 \in T
  BY <1>1, <1>2
<1> QED
  BY <1>1, <1>2, <1>3

\* The stages of Without.
Stages(f, text, S, N) ==
    f = [n \in 0 .. N |-> IF n = 0 THEN <<>>
                          ELSE IF text[n] \in S THEN f[n - 1] ELSE Append(f[n - 1], text[n])]

LEMMA StagesExist ==
    ASSUME NEW text, NEW S, NEW N \in Nat
    PROVE  \E f : Stages(f, text, S, N)
<1> DEFINE T == {n \in 0 .. N : \E f : Stages(f, text, S, n)}
<1>1. 0 \in T
  <2>1. Stages([n \in 0 .. 0 |-> <<>>], text, S, 0)
    BY DEF Stages
  <2> QED
    BY <2>1
<1>2. ASSUME NEW n \in 0 .. N, n \in T, n < N PROVE n + 1 \in T
  <2>1. PICK f : Stages(f, text, S, n)
    BY <1>2
  <2> DEFINE next == IF text[n + 1] \in S THEN f[n] ELSE Append(f[n], text[n + 1])
             g == [m \in 0 .. (n + 1) |-> IF m <= n THEN f[m] ELSE next]
  <2>2. n \in Nat /\ n + 1 \in 0 .. N
    BY <1>2
  <2>3. ASSUME NEW m \in 0 .. (n + 1)
        PROVE  g[m] = IF m = 0 THEN <<>>
                      ELSE IF text[m] \in S THEN g[m - 1] ELSE Append(g[m - 1], text[m])
    <3>1. CASE m = 0
      BY <2>1, <2>2, <3>1 DEF Stages
    <3>2. CASE m \in 1 .. n
      <4>1. m \in 0 .. n /\ m - 1 \in 0 .. n /\ m - 1 \in 0 .. (n + 1) /\ m # 0
        BY <2>2, <3>2
      <4>2. g[m] = f[m] /\ g[m - 1] = f[m - 1]
        BY <4>1, <2>2
      <4>3. f[m] = IF text[m] \in S THEN f[m - 1] ELSE Append(f[m - 1], text[m])
        BY <2>1, <4>1 DEF Stages
      <4> HIDE DEF g
      <4> QED
        BY <4>1, <4>2, <4>3
    <3>3. CASE m = n + 1
      <4>1. g[m] = next /\ g[m - 1] = f[n] /\ m # 0
        BY <2>2, <3>3
      <4> HIDE DEF g
      <4> QED
        BY <3>3, <4>1
    <3> QED
      BY <2>2, <3>1, <3>2, <3>3
  <2>4. Stages(g, text, S, n + 1)
    <3> DEFINE h == [m \in 0 .. (n + 1) |-> IF m = 0 THEN <<>>
                      ELSE IF text[m] \in S THEN g[m - 1] ELSE Append(g[m - 1], text[m])]
    <3>1. DOMAIN g = 0 .. (n + 1) /\ g = [m \in DOMAIN g |-> g[m]]
      OBVIOUS
    <3> HIDE DEF g
    <3>2. g = h
      BY <2>3, <3>1
    <3> QED
      BY <3>2 DEF Stages
  <2> QED
    BY <2>2, <2>4
<1>3. \A n \in 0 .. N : n \in T
  <2> HIDE DEF T
  <2>1. T \in SUBSET (0 .. N)
    BY DEF T
  <2> QED
    BY <1>1, <1>2, <2>1, UpTo
<1> QED
  BY <1>3

LEMMA WithoutIs ==
    ASSUME NEW L, NEW text \in Seq(L), NEW S
    PROVE  \E f : /\ Without(text, S) = f[Len(text)] /\ f[0] = <<>>
                  /\ \A n \in 1 .. Len(text) :
                        f[n] = IF text[n] \in S THEN f[n - 1] ELSE Append(f[n - 1], text[n])
<1> DEFINE F == CHOOSE f : Stages(f, text, S, Len(text))
<1>1. Without(text, S) = F[Len(text)]
  BY DEF Without, Stages
<1>2. Len(text) \in Nat
  OBVIOUS
<1>3. Stages(F, text, S, Len(text))
  BY <1>2, StagesExist
<1> HIDE DEF F
<1>4. F[0] = <<>> /\ \A n \in 1 .. Len(text) :
                        F[n] = IF text[n] \in S THEN F[n - 1] ELSE Append(F[n - 1], text[n])
  <2>1. ASSUME NEW n \in 0 .. Len(text)
        PROVE  F[n] = IF n = 0 THEN <<>>
                      ELSE IF text[n] \in S THEN F[n - 1] ELSE Append(F[n - 1], text[n])
    BY <1>3 DEF Stages
  <2>2. 0 \in 0 .. Len(text) /\ \A n \in 1 .. Len(text) : n \in 0 .. Len(text) /\ n # 0
    BY <1>2
  <2> QED
    BY <2>1, <2>2
<1> QED
  BY <1>1, <1>4

\* What is left of a text depends on what is left of each line.
LEMMA WithoutSame ==
    ASSUME NEW L, NEW s \in Seq(L), NEW t \in Seq(L), NEW S, NEW T, Len(s) = Len(t),
           \A n \in 1 .. Len(s) : (s[n] \in S <=> t[n] \in T) /\ (s[n] \notin S => s[n] = t[n])
    PROVE  Without(s, S) = Without(t, T)
<1>1. PICK f : /\ Without(s, S) = f[Len(s)] /\ f[0] = <<>>
               /\ \A n \in 1 .. Len(s) :
                     f[n] = IF s[n] \in S THEN f[n - 1] ELSE Append(f[n - 1], s[n])
  BY WithoutIs
<1>2. PICK g : /\ Without(t, T) = g[Len(t)] /\ g[0] = <<>>
               /\ \A n \in 1 .. Len(t) :
                     g[n] = IF t[n] \in T THEN g[n - 1] ELSE Append(g[n - 1], t[n])
  BY WithoutIs
<1>3. PICK N \in Nat : N = Len(s)
  OBVIOUS
<1> DEFINE I == {n \in 0 .. N : f[n] = g[n]}
<1>4. 0 \in I
  BY <1>1, <1>2
<1>5. ASSUME NEW n \in 0 .. N, n \in I, n < N PROVE n + 1 \in I
  <2>1. n + 1 \in 1 .. Len(s) /\ n + 1 \in 0 .. N /\ (n + 1) - 1 = n
    BY <1>3, <1>5
  <2>2. f[n + 1] = IF s[n + 1] \in S THEN f[n] ELSE Append(f[n], s[n + 1])
    BY <1>1, <2>1
  <2>3. g[n + 1] = IF t[n + 1] \in T THEN g[n] ELSE Append(g[n], t[n + 1])
    BY <1>2, <2>1
  <2>4. f[n] = g[n]
    BY <1>5
  <2> QED
    BY <2>1, <2>2, <2>3, <2>4
<1>6. \A n \in 0 .. N : n \in I
  <2>1. I \in SUBSET (0 .. N)
    OBVIOUS
  <2> HIDE DEF I
  <2> QED
    BY <1>4, <1>5, <2>1, UpTo
<1> QED
  BY <1>1, <1>2, <1>3, <1>6

LEMMA RangeAppend ==
    ASSUME NEW L, NEW u \in Seq(L), NEW x \in L
    PROVE  Append(u, x) \in Seq(L) /\ Range(Append(u, x)) = Range(u) \union {x}
<1>1. /\ Len(u) \in Nat /\ DOMAIN u = 1 .. Len(u) /\ DOMAIN Append(u, x) = 1 .. (Len(u) + 1)
      /\ \A i \in 1 .. Len(u) : Append(u, x)[i] = u[i]
      /\ Append(u, x)[Len(u) + 1] = x /\ Append(u, x) \in Seq(L)
  OBVIOUS
<1> QED
  BY <1>1 DEF Range

\* What is left is of the text's lines, in sequence, and none that was to go.
LEMMA WithoutRange ==
    ASSUME NEW L, NEW s \in Seq(L), NEW S
    PROVE  Without(s, S) \in Seq(L) /\ Range(Without(s, S)) = Range(s) \ S
<1>1. PICK f : /\ Without(s, S) = f[Len(s)] /\ f[0] = <<>>
               /\ \A n \in 1 .. Len(s) :
                     f[n] = IF s[n] \in S THEN f[n - 1] ELSE Append(f[n - 1], s[n])
  BY WithoutIs
<1>2. PICK N \in Nat : N = Len(s)
  OBVIOUS
<1> DEFINE Left(n) == f[n] \in Seq(L) /\ Range(f[n]) = {s[m] : m \in 1 .. n} \ S
           I == {n \in 0 .. N : Left(n)}
<1>3. 0 \in I
  <2>1. <<>> \in Seq(L) /\ Range(<<>>) = {} /\ 1 .. 0 = {} /\ 0 \in 0 .. N
    BY DEF Range
  <2> QED
    BY <1>1, <2>1
<1>4. ASSUME NEW n \in 0 .. N, n \in I, n < N PROVE n + 1 \in I
  <2>1. n + 1 \in 1 .. Len(s) /\ n + 1 \in 0 .. N /\ (n + 1) - 1 = n
        /\ s[n + 1] \in L
    BY <1>2, <1>4
  <2>2. f[n + 1] = IF s[n + 1] \in S THEN f[n] ELSE Append(f[n], s[n + 1])
    BY <1>1, <2>1
  <2>3. {s[m] : m \in 1 .. (n + 1)} = {s[m] : m \in 1 .. n} \union {s[n + 1]}
    BY <2>1
  <2>4. Left(n)
    BY <1>4
  <2>5. CASE s[n + 1] \in S
    BY <2>1, <2>2, <2>3, <2>4, <2>5
  <2>6. CASE s[n + 1] \notin S
    <3>1. f[n + 1] \in Seq(L) /\ Range(f[n + 1]) = Range(f[n]) \union {s[n + 1]}
      BY <2>1, <2>2, <2>4, <2>6, RangeAppend
    <3> QED
      BY <2>1, <2>3, <2>4, <2>6, <3>1
  <2> QED
    BY <2>5, <2>6
<1>5. \A n \in 0 .. N : n \in I
  <2>1. I \in SUBSET (0 .. N)
    OBVIOUS
  <2> HIDE DEF I
  <2> QED
    BY <1>3, <1>4, <2>1, UpTo
<1>6. Range(s) = {s[m] : m \in 1 .. Len(s)}
  BY DEF Range
<1>7. Left(N)
  <2>1. N \in I
    <3>1. N \in 0 .. N
      OBVIOUS
    <3> HIDE DEF I
    <3> QED
      BY <1>5, <3>1
  <2> HIDE DEF Left
  <2> QED
    BY <2>1
<1> QED
  BY <1>1, <1>2, <1>6, <1>7

\* What stood once at most stands once at most in what is left.
LEMMA WithoutOnce ==
    ASSUME NEW L, NEW s \in Seq(L), NEW S, NEW Q,
           \A i, j \in 1 .. Len(s) : s[i] \in Q /\ s[j] \in Q => i = j
    PROVE  \A i, j \in 1 .. Len(Without(s, S)) :
               Without(s, S)[i] \in Q /\ Without(s, S)[j] \in Q => i = j
<1>1. PICK f : /\ Without(s, S) = f[Len(s)] /\ f[0] = <<>>
               /\ \A n \in 1 .. Len(s) :
                     f[n] = IF s[n] \in S THEN f[n - 1] ELSE Append(f[n - 1], s[n])
  BY WithoutIs
<1>2. PICK N \in Nat : N = Len(s)
  OBVIOUS
<1> DEFINE Once(n) == /\ f[n] \in Seq(L)
                      /\ \A i \in 1 .. Len(f[n]) : \E m \in 1 .. n : f[n][i] = s[m]
                      /\ \A i, j \in 1 .. Len(f[n]) : f[n][i] \in Q /\ f[n][j] \in Q => i = j
           I == {n \in 0 .. N : Once(n)}
<1>3. 0 \in I
  <2>1. <<>> \in Seq(L) /\ 1 .. Len(<<>>) = {} /\ 0 \in 0 .. N
    OBVIOUS
  <2> QED
    BY <1>1, <2>1
<1>4. ASSUME NEW n \in 0 .. N, n \in I, n < N PROVE n + 1 \in I
  <2>1. n + 1 \in 1 .. Len(s) /\ n + 1 \in 0 .. N /\ (n + 1) - 1 = n
        /\ s[n + 1] \in L /\ 1 .. n \subseteq 1 .. (n + 1) /\ n + 1 \notin 1 .. n
        /\ 1 .. n \subseteq 1 .. Len(s) /\ n + 1 \in 1 .. (n + 1)
    BY <1>2, <1>4
  <2>2. f[n + 1] = IF s[n + 1] \in S THEN f[n] ELSE Append(f[n], s[n + 1])
    BY <1>1, <2>1
  <2>3. Once(n)
    BY <1>4
  <2>4. CASE s[n + 1] \in S
    <3>1. Once(n + 1)
      BY <2>1, <2>2, <2>3, <2>4
    <3> QED
      BY <2>1, <3>1
  <2>5. CASE s[n + 1] \notin S
    <3>1. PICK u \in Seq(L) : u = f[n]
      BY <2>3
    <3>2. PICK v : v = f[n + 1]
      OBVIOUS
    <3>3. PICK x \in L : x = s[n + 1]
      BY <2>1
    <3>4. /\ v \in Seq(L) /\ Len(v) = Len(u) + 1 /\ v[Len(u) + 1] = x
          /\ \A i \in 1 .. Len(u) : v[i] = u[i]
          /\ \A i \in 1 .. Len(v) : i \in 1 .. Len(u) \/ i = Len(u) + 1
      <4>1. v = Append(u, x)
        BY <2>2, <2>5, <3>1, <3>2, <3>3
      <4> QED
        BY <4>1
    <3>5. \A i \in 1 .. Len(u) : \E m \in 1 .. n : u[i] = s[m]
      BY <2>3, <3>1
    <3>6. \A i, j \in 1 .. Len(u) : u[i] \in Q /\ u[j] \in Q => i = j
      BY <2>3, <3>1
    <3>7. \A i \in 1 .. Len(v) : \E m \in 1 .. (n + 1) : v[i] = s[m]
      BY <2>1, <3>3, <3>4, <3>5
    <3>8. ASSUME x \in Q, NEW i \in 1 .. Len(u), u[i] \in Q PROVE FALSE
      BY <2>1, <3>3, <3>5, <3>8
    <3>9. \A i, j \in 1 .. Len(v) : v[i] \in Q /\ v[j] \in Q => i = j
      BY <3>4, <3>6, <3>8
    <3>10. Once(n + 1)
      BY <3>2, <3>4, <3>7, <3>9
    <3> HIDE DEF Once
    <3> QED
      BY <2>1, <3>10
  <2> QED
    BY <2>4, <2>5
<1>5. \A n \in 0 .. N : n \in I
  <2>1. I \in SUBSET (0 .. N)
    OBVIOUS
  <2> HIDE DEF I
  <2> QED
    BY <1>3, <1>4, <2>1, UpTo
<1>6. Once(N)
  <2>1. N \in I
    <3>1. N \in 0 .. N
      OBVIOUS
    <3> HIDE DEF I
    <3> QED
      BY <1>5, <3>1
  <2> HIDE DEF Once
  <2> QED
    BY <2>1
<1> QED
  BY <1>1, <1>2, <1>6

\* Where nothing is to go, all is left.
LEMMA WithoutNone ==
    ASSUME NEW L, NEW s \in Seq(L), NEW S, \A n \in 1 .. Len(s) : s[n] \notin S
    PROVE  Without(s, S) = s
<1>1. PICK f : /\ Without(s, S) = f[Len(s)] /\ f[0] = <<>>
               /\ \A n \in 1 .. Len(s) :
                     f[n] = IF s[n] \in S THEN f[n - 1] ELSE Append(f[n - 1], s[n])
  BY WithoutIs
<1>2. PICK N \in Nat : N = Len(s)
  OBVIOUS
<1> DEFINE I == {n \in 0 .. N : f[n] = SubSeq(s, 1, n)}
<1>3. 0 \in I
  <2>1. f[0] = SubSeq(s, 1, 0) /\ 0 \in 0 .. N
    BY <1>1
  <2> QED
    BY <2>1
<1>4. ASSUME NEW n \in 0 .. N, n \in I, n < N PROVE n + 1 \in I
  <2>1. n + 1 \in 1 .. Len(s) /\ n + 1 \in 0 .. N /\ (n + 1) - 1 = n /\ n \in Nat
    BY <1>2, <1>4
  <2>2. f[n + 1] = Append(SubSeq(s, 1, n), s[n + 1])
    BY <1>1, <1>4, <2>1
  <2>3. Append(SubSeq(s, 1, n), s[n + 1]) = SubSeq(s, 1, n + 1)
    BY <2>1
  <2> QED
    BY <2>1, <2>2, <2>3
<1>5. \A n \in 0 .. N : n \in I
  <2>1. I \in SUBSET (0 .. N)
    OBVIOUS
  <2> HIDE DEF I
  <2> QED
    BY <1>3, <1>4, <2>1, UpTo
<1>6. SubSeq(s, 1, Len(s)) = s
  OBVIOUS
<1>7. f[N] = SubSeq(s, 1, N)
  <2>1. N \in I
    <3>1. N \in 0 .. N
      OBVIOUS
    <3> HIDE DEF I
    <3> QED
      BY <1>5, <3>1
  <2> QED
    BY <2>1
<1> HIDE DEF I
<1> QED
  BY <1>1, <1>2, <1>6, <1>7

\* What is left of two texts in a row.
LEMMA WithoutConcat ==
    ASSUME NEW L, NEW s \in Seq(L), NEW t \in Seq(L), NEW S
    PROVE  Without(s \o t, S) = Without(s, S) \o Without(t, S)
<1> DEFINE u == s \o t
<1>0. u \in Seq(L)
  OBVIOUS
<1>1. PICK f : /\ Without(s, S) = f[Len(s)] /\ f[0] = <<>>
               /\ \A n \in 1 .. Len(s) :
                     f[n] = IF s[n] \in S THEN f[n - 1] ELSE Append(f[n - 1], s[n])
  BY WithoutIs
<1>2. PICK g : /\ Without(t, S) = g[Len(t)] /\ g[0] = <<>>
               /\ \A n \in 1 .. Len(t) :
                     g[n] = IF t[n] \in S THEN g[n - 1] ELSE Append(g[n - 1], t[n])
  BY WithoutIs
<1>3. PICK h : /\ Without(u, S) = h[Len(u)] /\ h[0] = <<>>
               /\ \A n \in 1 .. Len(u) :
                     h[n] = IF u[n] \in S THEN h[n - 1] ELSE Append(h[n - 1], u[n])
  <2> HIDE DEF u
  <2> QED
    BY <1>0, WithoutIs
<1>4. PICK M \in Nat, N \in Nat : M = Len(s) /\ N = Len(t)
  OBVIOUS
<1>5. /\ Len(u) = M + N
      /\ \A n \in 1 .. M : n \in 1 .. Len(u) /\ u[n] = s[n]
      /\ \A n \in 1 .. N : M + n \in 1 .. Len(u) /\ u[M + n] = t[n]
  BY <1>4
<1> HIDE DEF u
<1>6. h[M] = Without(s, S)
  <2> DEFINE I == {n \in 0 .. M : h[n] = f[n]}
  <2>1. 0 \in I
    BY <1>1, <1>3
  <2>2. ASSUME NEW n \in 0 .. M, n \in I, n < M PROVE n + 1 \in I
    <3>1. n + 1 \in 1 .. M /\ n + 1 \in 0 .. M /\ (n + 1) - 1 = n
      BY <2>2
    <3>2. f[n + 1] = IF s[n + 1] \in S THEN f[n] ELSE Append(f[n], s[n + 1])
      BY <1>1, <1>4, <3>1
    <3>3. h[n + 1] = IF u[n + 1] \in S THEN h[n] ELSE Append(h[n], u[n + 1])
      BY <1>3, <1>5, <3>1
    <3>4. h[n] = f[n] /\ u[n + 1] = s[n + 1]
      BY <1>5, <2>2, <3>1
    <3> QED
      BY <3>1, <3>2, <3>3, <3>4
  <2>3. \A n \in 0 .. M : n \in I
    <3>1. I \in SUBSET (0 .. M)
      OBVIOUS
    <3> HIDE DEF I
    <3> QED
      BY <2>1, <2>2, <3>1, UpTo
  <2> QED
    BY <1>1, <1>4, <2>3
<1>7. PICK w \in Seq(L) : w = Without(s, S)
  BY WithoutRange
<1> DEFINE Joined(n) == g[n] \in Seq(L) /\ h[M + n] = w \o g[n]
           J == {n \in 0 .. N : Joined(n)}
<1>8. 0 \in J
  <2>1. <<>> \in Seq(L) /\ w \o <<>> = w /\ M + 0 = M /\ 0 \in 0 .. N
    OBVIOUS
  <2> QED
    BY <1>2, <1>6, <1>7, <2>1
<1>9. ASSUME NEW n \in 0 .. N, n \in J, n < N PROVE n + 1 \in J
  <2>1. n + 1 \in 1 .. N /\ n + 1 \in 0 .. N
        /\ (n + 1) - 1 = n /\ (M + (n + 1)) - 1 = M + n /\ t[n + 1] \in L
    BY <1>4, <1>9
  <2>2. g[n + 1] = IF t[n + 1] \in S THEN g[n] ELSE Append(g[n], t[n + 1])
    BY <1>2, <1>4, <2>1
  <2>3. h[M + (n + 1)] = IF t[n + 1] \in S THEN h[M + n]
                              ELSE Append(h[M + n], t[n + 1])
    BY <1>3, <1>5, <2>1
  <2>4. ASSUME NEW v \in Seq(L), NEW x \in L
        PROVE  Append(v, x) \in Seq(L) /\ w \o Append(v, x) = Append(w \o v, x)
    OBVIOUS
  <2>5. Joined(n)
    BY <1>9
  <2>6. g[n + 1] \in Seq(L) /\ h[M + (n + 1)] = w \o g[n + 1]
    BY <2>1, <2>2, <2>3, <2>4, <2>5
  <2> QED
    BY <2>1, <2>6
<1>10. \A n \in 0 .. N : n \in J
  <2>1. J \in SUBSET (0 .. N)
    OBVIOUS
  <2> HIDE DEF J
  <2> QED
    BY <1>8, <1>9, <2>1, UpTo
<1>11. Joined(N)
  BY <1>10
<1> QED
  BY <1>2, <1>3, <1>4, <1>5, <1>7, <1>11 DEF u

-----------------------------------------------------------------------------
(***************************************************************************)
(* Footprint: what the three merges make of a text.                        *)
(***************************************************************************)
\* IndexOf finds the first of a text's lines that is the one asked for.
LEMMA IndexIs ==
    ASSUME NEW L, NEW text \in Seq(L), NEW line
    PROVE  \/ IndexOf(text, line) = 0 /\ \A i \in 1 .. Len(text) : text[i] # line
           \/ /\ IndexOf(text, line) \in 1 .. Len(text) /\ text[IndexOf(text, line)] = line
              /\ \A i \in 1 .. Len(text) : text[i] = line => IndexOf(text, line) <= i
<1> DEFINE I == {i \in 1 .. Len(text) : text[i] = line}
<1>1. IndexOf(text, line) = IF I # {} THEN Min(I) ELSE 0
  BY DEF IndexOf, SelectInSeq
<1>2. I \in SUBSET Nat
  OBVIOUS
<1>3. I # {} => \E n \in I : \A m \in I : n <= m
  BY <1>2, Least
<1>4. I # {} => Min(I) \in I /\ \A m \in I : Min(I) <= m
  BY <1>3 DEF Min
<1> QED
  BY <1>1, <1>4

\* A line that stands nowhere before is found where it stands.
LEMMA IndexAt ==
    ASSUME NEW L, NEW text \in Seq(L), NEW n \in 1 .. Len(text),
           \A i \in 1 .. (n - 1) : text[i] # text[n]
    PROVE  IndexOf(text, text[n]) = n
<1>1. PICK line : line = text[n]
  OBVIOUS
<1>2. PICK k : k = IndexOf(text, line)
  OBVIOUS
<1>3. k \in 1 .. Len(text) /\ text[k] = line /\ k <= n
  BY <1>1, <1>2, IndexIs
<1> QED
  BY <1>1, <1>2, <1>3

\* Opaque, so that a fact about two texts is applied as a whole.
Joined(u, s, t) == u = s \o t

Concats(u, s, t, L) ==
    /\ u \in Seq(L) /\ Len(u) = Len(s) + Len(t)
    /\ Len(s) \in Nat /\ Len(t) \in Nat
    /\ \A i \in 1 .. Len(s) : u[i] = s[i]
    /\ \A i \in 1 .. Len(t) : u[Len(s) + i] = t[i]

LEMMA ConcatIs ==
    ASSUME NEW L, NEW s \in Seq(L), NEW t \in Seq(L), NEW u, Joined(u, s, t)
    PROVE  Concats(u, s, t, L)
  BY DEF Joined, Concats

\* A part of a text.
LEMMA SubIs ==
    ASSUME NEW L, NEW t \in Seq(L), NEW m \in Nat, NEW n \in Nat, m <= n, n <= Len(t)
    PROVE  /\ SubSeq(t, m + 1, n) \in Seq(L) /\ Len(SubSeq(t, m + 1, n)) = n - m
           /\ \A i \in 1 .. (n - m) : SubSeq(t, m + 1, n)[i] = t[m + i]
<1>1. /\ m + 1 \in Int /\ n \in Int /\ \A i \in (m + 1) .. n : t[i] \in L
      /\ n - (m + 1) + 1 = n - m /\ (m + 1 <= n \/ n - m = 0)
      /\ \A i \in 1 .. (n - m) : m + 1 + i - 1 = m + i
  OBVIOUS
<1>2. /\ SubSeq(t, m + 1, n) \in Seq(L)
      /\ Len(SubSeq(t, m + 1, n)) = IF m + 1 <= n THEN n - (m + 1) + 1 ELSE 0
      /\ \A i \in 1 .. (n - (m + 1) + 1) : SubSeq(t, m + 1, n)[i] = t[m + 1 + i - 1]
  BY <1>1, SubSeqProperties
<1> QED
  BY <1>1, <1>2

\* A text with a block in it: the block, what is around it, and the marks there are.
Marks == {Begin, End}

HasBlock(text, pre, block, post, L) ==
    /\ text \in Seq(L)
    /\ MarkedBlock(text) = block
    /\ Outside(text) = pre \o post
    /\ \A i \in 1 .. Len(text) : text[i] = Begin =>
          i = Len(pre) + 1 \/ \E j \in 1 .. Len(post) : i = Len(pre) + 3 + j /\ post[j] = Begin

\* A text without marks, a block, and what comes after.
LEMMA BlockIn ==
    ASSUME NEW L, Begin \in L, End \in L, NEW a \in L \ Marks,
           NEW pre \in Seq(L), NEW post \in Seq(L),
           \A i \in 1 .. Len(pre) : pre[i] \notin Marks
    PROVE  HasBlock((pre \o <<Begin, a, End>>) \o post, pre, <<Begin, a, End>>, post, L)
<1> DEFINE block == <<Begin, a, End>>
           text == (pre \o block) \o post
<1>1. PICK M \in Nat, N \in Nat : M = Len(pre) /\ N = Len(post)
  OBVIOUS
<1>2. Begin # End /\ a # Begin /\ a # End
  BY DEF Begin, End, Marks
<1>b. block \in Seq(L) /\ Len(block) = 3 /\ block[1] = Begin /\ block[2] = a /\ block[3] = End
  OBVIOUS
<1>c. block # <<>>
  OBVIOUS
<1> HIDE DEF block
<1>3. /\ text \in Seq(L) /\ Len(text) = M + 3 + N
      /\ \A i \in 1 .. M : text[i] = pre[i]
      /\ text[M + 1] = Begin /\ text[M + 2] = a /\ text[M + 3] = End
      /\ \A i \in 1 .. N : text[M + 3 + i] = post[i]
  <2>1. PICK u : Joined(u, pre, block)
    BY DEF Joined
  <2>2. /\ u \in Seq(L) /\ Len(u) = M + 3
        /\ \A i \in 1 .. M : u[i] = pre[i]
        /\ \A i \in 1 .. 3 : u[M + i] = block[i]
    <3>1. Concats(u, pre, block, L)
      BY <1>b, <2>1, ConcatIs, Zenon
    <3> QED
      BY <1>1, <1>b, <3>1 DEF Concats
  <2>3. PICK v : Joined(v, u, post)
    BY DEF Joined
  <2>4. /\ v \in Seq(L) /\ Len(v) = M + 3 + N
        /\ \A i \in 1 .. (M + 3) : v[i] = u[i]
        /\ \A i \in 1 .. N : v[M + 3 + i] = post[i]
    <3>1. Concats(v, u, post, L)
      BY <2>2, <2>3, ConcatIs, Zenon
    <3> QED
      BY <1>1, <2>2, <3>1 DEF Concats
  <2>5. text = v
    BY <2>1, <2>3 DEF Joined
  <2>6. /\ \A i \in 1 .. M : i \in 1 .. (M + 3)
        /\ M + 1 \in 1 .. (M + 3) /\ M + 2 \in 1 .. (M + 3) /\ M + 3 \in 1 .. (M + 3)
        /\ 1 \in 1 .. 3 /\ 2 \in 1 .. 3 /\ 3 \in 1 .. 3
    OBVIOUS
  <2> HIDE DEF text
  <2>7. \A i \in 1 .. M : v[i] = pre[i]
    BY <2>2, <2>4, <2>6
  <2>8. v[M + 1] = Begin /\ v[M + 2] = a /\ v[M + 3] = End
    BY <1>b, <2>2, <2>4, <2>6
  <2> QED
    BY <2>4, <2>5, <2>7, <2>8
<1> HIDE DEF text
<1>4. SubSeq(text, M + 1, M + 3) = block
  <2>1. /\ SubSeq(text, M + 1, M + 3) \in Seq(L) /\ Len(SubSeq(text, M + 1, M + 3)) = (M + 3) - M
        /\ \A i \in 1 .. ((M + 3) - M) : SubSeq(text, M + 1, M + 3)[i] = text[M + i]
    <3>1. M + 3 \in Nat /\ M <= M + 3 /\ M + 3 <= Len(text) /\ text \in Seq(L)
      BY <1>3
    <3>2. \A m, n \in Nat : m <= n /\ n <= Len(text) =>
             /\ SubSeq(text, m + 1, n) \in Seq(L) /\ Len(SubSeq(text, m + 1, n)) = n - m
             /\ \A i \in 1 .. (n - m) : SubSeq(text, m + 1, n)[i] = text[m + i]
      BY <3>1, SubIs
    <3> QED
      BY <3>1, <3>2
  <2>2. (M + 3) - M = 3
    OBVIOUS
  <2>3. PICK w : w = SubSeq(text, M + 1, M + 3)
    OBVIOUS
  <2>4. w \in Seq(L) /\ Len(w) = 3 /\ \A i \in 1 .. 3 : w[i] = text[M + i]
    BY <2>1, <2>2, <2>3
  <2>5. \A i \in 1 .. 3 : i = 1 \/ i = 2 \/ i = 3
    OBVIOUS
  <2>6. \A i \in 1 .. 3 : w[i] = block[i]
    BY <1>3, <1>b, <2>4, <2>5
  <2> QED
    BY <1>b, <2>3, <2>4, <2>6, SeqEqual
<1>5. SubSeq(text, 1, M) = pre
  <2>1. PICK w : w = SubSeq(text, 0 + 1, M)
    OBVIOUS
  <2>2. w \in Seq(L) /\ Len(w) = M - 0 /\ \A i \in 1 .. (M - 0) : w[i] = text[0 + i]
    <3>1. 0 \in Nat /\ 0 <= M /\ M <= Len(text) /\ text \in Seq(L)
      BY <1>3
    <3>2. \A m, n \in Nat : m <= n /\ n <= Len(text) =>
             /\ SubSeq(text, m + 1, n) \in Seq(L) /\ Len(SubSeq(text, m + 1, n)) = n - m
             /\ \A i \in 1 .. (n - m) : SubSeq(text, m + 1, n)[i] = text[m + i]
      BY <3>1, SubIs
    <3>3. /\ SubSeq(text, 0 + 1, M) \in Seq(L) /\ Len(SubSeq(text, 0 + 1, M)) = M - 0
          /\ \A i \in 1 .. (M - 0) : SubSeq(text, 0 + 1, M)[i] = text[0 + i]
      BY <3>1, <3>2, Zenon
    <3> QED
      BY <2>1, <3>3
  <2>3. w \in Seq(L) /\ Len(w) = M /\ \A i \in 1 .. M : w[i] = pre[i]
    <3>1. M \in Nat
      BY <1>3
    <3>2. M - 0 = M /\ \A i \in 1 .. M : 0 + i = i
      BY <3>1
    <3> QED
      BY <1>3, <2>2, <3>2
  <2>4. w = pre
    BY <1>1, <2>3, SeqEqual
  <2>5. 0 + 1 = 1
    OBVIOUS
  <2> QED
    BY <2>1, <2>4, <2>5
<1>6. SubSeq(text, M + 4, M + 3 + N) = post
  <2>1. PICK w : w = SubSeq(text, (M + 3) + 1, M + 3 + N)
    OBVIOUS
  <2>2. /\ w \in Seq(L) /\ Len(w) = (M + 3 + N) - (M + 3)
        /\ \A i \in 1 .. ((M + 3 + N) - (M + 3)) : w[i] = text[(M + 3) + i]
    <3>1. M + 3 \in Nat /\ M + 3 + N \in Nat /\ M + 3 <= M + 3 + N /\ M + 3 + N <= Len(text)
      BY <1>3
    <3> QED
      BY <1>3, <2>1, <3>1, SubIs
  <2>3. (M + 3 + N) - (M + 3) = N /\ (M + 3) + 1 = M + 4
    OBVIOUS
  <2>4. w \in Seq(L) /\ Len(w) = N /\ \A i \in 1 .. N : w[i] = post[i]
    BY <1>3, <2>2, <2>3
  <2>5. w = post
    BY <1>1, <2>4, SeqEqual
  <2> QED
    BY <2>1, <2>3, <2>5
<1>7. \A i \in 1 .. M : text[i] # Begin /\ text[i] # End
  BY <1>1, <1>3 DEF Marks
<1>8. IndexOf(text, Begin) = M + 1
  <2>1. \A i \in 1 .. ((M + 1) - 1) : text[i] # Begin
    BY <1>7
  <2>2. M + 1 \in 1 .. Len(text)
    BY <1>3
  <2> QED
    BY <1>3, <2>1, <2>2, IndexAt
<1>9. IndexOf(text, End) = M + 3
  <2>1. \A i \in 1 .. ((M + 3) - 1) : i \in 1 .. M \/ i = M + 1 \/ i = M + 2
    OBVIOUS
  <2>2. \A i \in 1 .. ((M + 3) - 1) : text[i] # End
    BY <1>2, <1>3, <1>7, <2>1
  <2>3. M + 3 \in 1 .. Len(text)
    BY <1>3
  <2> QED
    BY <1>3, <2>2, <2>3, IndexAt
<1>10. MarkedBlock(text) = block
  <2>1. ~(M + 1 = 0 \/ M + 3 = 0 \/ M + 3 < M + 1)
    OBVIOUS
  <2> QED
    BY <1>4, <1>8, <1>9, <2>1 DEF MarkedBlock
<1>11. Outside(text) = pre \o post
  <2>1. (M + 1) - 1 = M /\ (M + 3) + 1 = M + 4 /\ Len(text) = M + 3 + N
    BY <1>3
  <2>2. Outside(text) = SubSeq(text, 1, (M + 1) - 1) \o SubSeq(text, (M + 3) + 1, Len(text))
    BY <1>c, <1>8, <1>9, <1>10 DEF Outside
  <2>3. SubSeq(text, 1, (M + 1) - 1) = pre
    BY <1>5, <2>1
  <2>4. SubSeq(text, (M + 3) + 1, Len(text)) = post
    BY <1>6, <2>1
  <2> QED
    BY <2>2, <2>3, <2>4
<1>12. ASSUME NEW i \in 1 .. Len(text), text[i] = Begin
       PROVE  i = Len(pre) + 1 \/ \E j \in 1 .. Len(post) : i = Len(pre) + 3 + j /\ post[j] = Begin
  <2>1. i \in 1 .. M \/ i = M + 1 \/ i = M + 2 \/ i = M + 3 \/ i - (M + 3) \in 1 .. N
    <3>1. Len(text) = M + 3 + N /\ M \in Nat /\ N \in Nat
      BY <1>3
    <3>2. \A k \in 1 .. (M + 3 + N) :
              k \in 1 .. M \/ k = M + 1 \/ k = M + 2 \/ k = M + 3 \/ k - (M + 3) \in 1 .. N
      BY <3>1
    <3> QED
      BY <3>1, <3>2, Zenon
  <2>2. CASE i - (M + 3) \in 1 .. N
    <3>1. i = M + 3 + (i - (M + 3))
      OBVIOUS
    <3>2. post[i - (M + 3)] = Begin
      BY <1>3, <1>12, <2>2, <3>1
    <3> QED
      BY <1>1, <2>2, <3>1, <3>2
  <2> QED
    BY <1>1, <1>2, <1>3, <1>7, <1>12, <2>1, <2>2
<1> QED
  <2>1. HasBlock(text, pre, block, post, L)
    BY <1>3, <1>10, <1>11, <1>12 DEF HasBlock
  <2> QED
    BY <2>1 DEF text, block

\* What the merges write are lines.
LEMMA LinesAre ==
    /\ Begin \in Line /\ End \in Line /\ Cut \in Line /\ Half \in Line
    /\ \A n \in Nat : Theirs(n) \in Line
    /\ \A id \in Identity, c \in Checkout : About(id, c) \in Line \ Marks
    /\ \A c \in Checkout : Server(c) \in Line
    /\ \A e \in Event, r \in SUBSET (Checkout \union {"theirs"}) : Entry(e, r) \in Line
<1>1. Begin \in Line /\ End \in Line /\ Cut \in Line /\ Half \in Line
  BY DEF Begin, End, Cut, Half, Line
<1>2. \A n \in Nat : Theirs(n) \in Line
  BY DEF Theirs, Line
<1>3. \A id \in Identity, c \in Checkout : About(id, c) \in Line
  BY DEF About, Line
<1>4. \A id \in Identity, c \in Checkout : About(id, c) \notin Marks
  BY DEF About, Marks, Begin, End
<1>5. \A c \in Checkout : Server(c) \in Line
  BY DEF Server, Line
<1>6. \A e \in Event, r \in SUBSET (Checkout \union {"theirs"}) : Entry(e, r) \in Line
  BY DEF Entry, Line
<1> QED
  BY <1>1, <1>2, <1>3, <1>4, <1>5, <1>6

OneBegin(t) == \A i, j \in 1 .. Len(t) : t[i] = Begin /\ t[j] = Begin => i = j

\* A spliced text holds the block, and around it what was around the one before.
LEMMA SpliceIs ==
    ASSUME NEW text \in Seq(Line), NEW a \in Line \ Marks
    PROVE  LET new == SpliceMarkedBlock(text, <<Begin, a, End>>) IN
           /\ new \in Seq(Line)
           /\ ~Broken(text) => /\ MarkedBlock(new) = <<Begin, a, End>>
                               /\ Outside(new) = Outside(text)
                               /\ OneBegin(text) => OneBegin(new)
<1> DEFINE block == <<Begin, a, End>>
           new == SpliceMarkedBlock(text, block)
<1>1. PICK b : b = IndexOf(text, Begin)
  OBVIOUS
<1>2. PICK e : e = IndexOf(text, End)
  OBVIOUS
<1>3. \/ b = 0 /\ \A i \in 1 .. Len(text) : text[i] # Begin
      \/ /\ b \in 1 .. Len(text) /\ text[b] = Begin
         /\ \A i \in 1 .. Len(text) : text[i] = Begin => b <= i
  BY <1>1, IndexIs
<1>4. \/ e = 0 /\ \A i \in 1 .. Len(text) : text[i] # End
      \/ /\ e \in 1 .. Len(text) /\ text[e] = End
         /\ \A i \in 1 .. Len(text) : text[i] = End => e <= i
  BY <1>2, IndexIs
<1>5. Begin # End /\ Begin \in Line /\ End \in Line /\ Len(text) \in Nat
  BY LinesAre DEF Begin, End
<1>b. block \in Seq(Line) /\ block # <<>>
  BY <1>5
<1> HIDE DEF block
<1>6. CASE b = 0 /\ e = 0
  <2>1. new = text \o block
    BY <1>1, <1>2, <1>6 DEF SpliceMarkedBlock
  <2>2. PICK post : post = <<>>
    OBVIOUS
  <2>3. post \in Seq(Line) /\ Len(post) = 0 /\ text \o post = text
    BY <2>2
  <2>4. new \in Seq(Line) /\ new \o post = new
    BY <1>b, <2>1, <2>2
  <2>5. \A i \in 1 .. Len(text) : text[i] \notin Marks
    BY <1>3, <1>4, <1>6 DEF Marks
  <2>6. (text \o block) \o post = new
    BY <2>1, <2>4
  <2>7. /\ MarkedBlock(new) = block /\ Outside(new) = text \o post
        /\ \A i \in 1 .. Len(new) : new[i] = Begin =>
              \/ i = Len(text) + 1
              \/ \E j \in 1 .. Len(post) : i = Len(text) + 3 + j /\ post[j] = Begin
    <3>1. HasBlock((text \o <<Begin, a, End>>) \o post, text, <<Begin, a, End>>, post, Line)
      BY <1>5, <2>3, <2>5, BlockIn, Zenon
    <3> HIDE DEF new
    <3> QED
      BY <2>6, <3>1, Zenon DEF HasBlock, block
  <2>8. Outside(text) = text
    <3>1. MarkedBlock(text) = <<>>
      BY <1>1, <1>6 DEF MarkedBlock
    <3> QED
      BY <3>1 DEF Outside
  <2>9. OneBegin(new)
    <3> HIDE DEF new
    <3> QED
      BY <2>3, <2>7 DEF OneBegin
  <2> QED
    BY <2>3, <2>4, <2>7, <2>8, <2>9 DEF block
<1>7. CASE b # 0 /\ e # 0 /\ b < e
  <2>0. /\ b \in 1 .. Len(text) /\ e \in 1 .. Len(text) /\ text[b] = Begin
        /\ ~(b = 0 \/ e = 0 \/ e < b)
    BY <1>3, <1>4, <1>7
  <2>1. PICK pre : pre = SubSeq(text, 1, b - 1)
    OBVIOUS
  <2>2. PICK post : post = SubSeq(text, e + 1, Len(text))
    OBVIOUS
  <2>3. new = (pre \o block) \o post
    BY <1>1, <1>2, <2>0, <2>1, <2>2 DEF SpliceMarkedBlock
  <2>4. pre \in Seq(Line) /\ Len(pre) = b - 1 /\ \A i \in 1 .. (b - 1) : pre[i] = text[i]
    BY <2>0, <2>1
  <2>5. post \in Seq(Line) /\ Len(post) = Len(text) - e
        /\ \A i \in 1 .. (Len(text) - e) : post[i] = text[e + i]
    BY <2>0, <2>2
  <2>6. \A i \in 1 .. Len(pre) : pre[i] \notin Marks
    <3>1. \A i \in 1 .. Len(pre) : i \in 1 .. Len(text) /\ i < b /\ i < e /\ pre[i] = text[i]
      BY <2>0, <2>4, <1>7
    <3>2. \A i \in 1 .. Len(pre) : text[i] # Begin /\ text[i] # End
      BY <1>3, <1>4, <1>7, <3>1
    <3> QED
      BY <3>1, <3>2 DEF Marks
  <2>7. /\ new \in Seq(Line) /\ MarkedBlock(new) = block /\ Outside(new) = pre \o post
        /\ \A i \in 1 .. Len(new) : new[i] = Begin =>
              i = Len(pre) + 1 \/ \E j \in 1 .. Len(post) : i = Len(pre) + 3 + j /\ post[j] = Begin
    <3>1. HasBlock((pre \o <<Begin, a, End>>) \o post, pre, <<Begin, a, End>>, post, Line)
      BY <1>5, <2>4, <2>5, <2>6, BlockIn, Zenon
    <3> HIDE DEF new
    <3> QED
      BY <2>3, <3>1, Zenon DEF HasBlock, block
  <2>8. Outside(text) = pre \o post
    <3>1. MarkedBlock(text) = SubSeq(text, b, e)
      BY <1>1, <1>2, <2>0 DEF MarkedBlock
    <3>2. SubSeq(text, b, e) # <<>>
      <4>1. PICK w : w = SubSeq(text, b, e)
        OBVIOUS
      <4>2. w \in Seq(Line) /\ Len(w) = e - b + 1
        BY <1>7, <2>0, <4>1
      <4>3. Len(w) # 0
        BY <1>7, <2>0, <4>2
      <4> QED
        BY <4>1, <4>3
    <3> QED
      BY <1>1, <1>2, <2>1, <2>2, <3>1, <3>2 DEF Outside
  <2>9. ASSUME OneBegin(text) PROVE OneBegin(new)
    <3> HIDE DEF new
    <3>1. \A j \in 1 .. Len(post) : post[j] # Begin
      <4>1. \A j \in 1 .. Len(post) : e + j \in 1 .. Len(text) /\ e + j # b /\ post[j] = text[e + j]
        BY <1>7, <2>0, <2>5
      <4> QED
        BY <2>0, <2>9, <4>1 DEF OneBegin
    <3> QED
      BY <2>7, <3>1 DEF OneBegin
  <2> QED
    BY <2>7, <2>8, <2>9 DEF block
<1>8. CASE ~(b = 0 /\ e = 0) /\ ~(b # 0 /\ e # 0 /\ b < e)
  <2>1. b = 0 \/ e = 0 \/ e < b
    BY <1>3, <1>4, <1>5, <1>8
  <2>2. MarkedBlock(text) = <<>> /\ new = text \o block
    BY <1>1, <1>2, <2>1 DEF MarkedBlock, SpliceMarkedBlock
  <2>3. Begin \in Range(text) \/ End \in Range(text)
    BY <1>3, <1>4, <1>8 DEF Range
  <2>4. Broken(text)
    BY <2>2, <2>3 DEF Broken
  <2>5. new \in Seq(Line)
    BY <1>b, <2>2
  <2> QED
    BY <2>4, <2>5 DEF block
<1> QED
  BY <1>6, <1>7, <1>8

OneServer(t) == \A i, j \in 1 .. Len(t) : IsServer(t[i]) /\ IsServer(t[j]) => i = j

Servers(t) == {x \in Range(t) : IsServer(x)}

LEMMA InRange ==
    ASSUME NEW L, NEW t \in Seq(L)
    PROVE  /\ \A i \in 1 .. Len(t) : t[i] \in Range(t)
           /\ \A x \in Range(t) : \E i \in 1 .. Len(t) : x = t[i]
  BY DEF Range

\* A text of nothing but what is left out is left empty.
LEMMA WithoutAll ==
    ASSUME NEW L, NEW t \in Seq(L), NEW S, Range(t) \subseteq S
    PROVE  Without(t, S) = <<>>
<1>1. Without(t, S) \in Seq(L) /\ Range(Without(t, S)) = {}
  BY WithoutRange
<1>2. PICK w : w = Without(t, S)
  OBVIOUS
<1>3. \A i \in 1 .. Len(w) : FALSE
  BY <1>1, <1>2, InRange
<1>4. w \in Seq(L) /\ Len(w) = 0
  BY <1>1, <1>2, <1>3
<1> QED
  BY <1>2, <1>4

\* Our server is started once, and what else the project has is as it was.
LEMMA MergeServerIs ==
    ASSUME NEW text \in Seq(Line), NEW c \in Checkout
    PROVE  LET new == MergeServer(text, c) IN
           /\ new \in Seq(Line) /\ Server(c) \in Range(new)
           /\ OneServer(text) => OneServer(new)
           /\ OneServer(text) /\ Cut \notin Range(text) => Parses(new)
           /\ Without(new, Servers(new)) = Without(text, Servers(text))
<1> DEFINE new == MergeServer(text, c)
           I == {i \in 1 .. Len(text) : IsServer(text[i])}
<1>1. PICK x : x = Server(c)
  OBVIOUS
<1>2. x \in Line /\ IsServer(x) /\ x # Cut /\ x # Half /\ IsServer(Half)
  BY <1>1, LinesAre DEF Server, IsServer, Cut, Half
<1>3. PICK k : k = IF I # {} THEN Min(I) ELSE 0
  OBVIOUS
<1>4. new = IF k = 0 THEN Append(text, x) ELSE [text EXCEPT ![k] = x]
  BY <1>1, <1>3 DEF MergeServer, SelectInSeq
<1>5. \/ k = 0 /\ I = {}
      \/ k \in I
  <2>1. I # {} => \E n \in I : \A m \in I : n <= m
    <3>1. I \in SUBSET Nat
      OBVIOUS
    <3> QED
      BY <3>1, Least
  <2>2. I # {} => Min(I) \in I
    BY <2>1 DEF Min
  <2> QED
    BY <1>3, <2>2
<1>6. Len(text) \in Nat
  OBVIOUS
<1> HIDE DEF new
<1>7. CASE k = 0
  <2>1. new = Append(text, x) /\ \A i \in 1 .. Len(text) : ~IsServer(text[i])
    BY <1>4, <1>5, <1>7
  <2>2. /\ new \in Seq(Line) /\ Len(new) = Len(text) + 1 /\ new[Len(text) + 1] = x
        /\ \A i \in 1 .. Len(text) : new[i] = text[i]
    BY <1>2, <1>6, <2>1
  <2>3. x \in Range(new)
    BY <1>6, <2>2, InRange
  <2>4. OneServer(new)
    BY <1>6, <2>1, <2>2 DEF OneServer
  <2>5. Without(new, Servers(new)) = Without(text, Servers(text))
    <3>1. PICK one : one = <<x>>
      OBVIOUS
    <3>2. one \in Seq(Line) /\ Range(one) = {x} /\ new = text \o one
      <4>1. one \in Seq(Line) /\ DOMAIN one = {1} /\ one[1] = x
        BY <1>2, <3>1
      <4>2. new = text \o one
        BY <2>1, <3>1
      <4> QED
        BY <4>1, <4>2 DEF Range
    <3>3. Without(new, Servers(new)) = Without(text, Servers(new)) \o Without(one, Servers(new))
      BY <3>2, WithoutConcat
    <3>4. Without(one, Servers(new)) = <<>>
      <4>1. Range(one) \subseteq Servers(new)
        BY <1>2, <2>3, <3>2 DEF Servers
      <4> QED
        BY <3>2, <4>1, WithoutAll
    <3>5. Without(text, Servers(new)) = text /\ Without(text, Servers(text)) = text
      <4>1. \A i \in 1 .. Len(text) : text[i] \notin Servers(new) /\ text[i] \notin Servers(text)
        BY <2>1 DEF Servers
      <4> QED
        BY <4>1, WithoutNone
    <3>6. text \o <<>> = text
      OBVIOUS
    <3> QED
      BY <3>3, <3>4, <3>5, <3>6
  <2>6. ASSUME Cut \notin Range(text) PROVE Parses(new)
    <3>1. ASSUME NEW i \in 1 .. Len(new) PROVE new[i] # Cut /\ new[i] # Half
      <4>1. i \in 1 .. Len(text) \/ i = Len(text) + 1
        BY <1>6, <2>2
      <4>2. CASE i \in 1 .. Len(text)
        BY <1>2, <2>1, <2>2, <2>6, <4>2, InRange
      <4> QED
        BY <1>2, <2>2, <4>1, <4>2
    <3> QED
      BY <2>2, <3>1, InRange DEF Parses
  <2> QED
    BY <1>1, <2>2, <2>3, <2>4, <2>5, <2>6 DEF new
<1>8. CASE k \in I
  <2>1. k \in 1 .. Len(text) /\ IsServer(text[k]) /\ k # 0
    BY <1>8
  <2>2. new = [text EXCEPT ![k] = x]
    BY <1>4, <2>1
  <2>3. /\ new \in Seq(Line) /\ Len(new) = Len(text) /\ new[k] = x
        /\ \A i \in 1 .. Len(text) : i # k => new[i] = text[i]
    BY <1>2, <2>1, <2>2, ExceptSeq
  <2>4. x \in Range(new)
    BY <2>1, <2>3, InRange
  <2>5. \A i \in 1 .. Len(text) : IsServer(new[i]) <=> IsServer(text[i])
    BY <1>2, <2>1, <2>3
  <2>6. OneServer(text) => OneServer(new)
    BY <2>3, <2>5 DEF OneServer
  <2>7. Without(new, Servers(new)) = Without(text, Servers(text))
    <3>1. \A i \in 1 .. Len(new) : /\ new[i] \in Servers(new) <=> IsServer(new[i])
                                   /\ text[i] \in Servers(text) <=> IsServer(text[i])
      BY <2>3, InRange DEF Servers
    <3>2. \A i \in 1 .. Len(new) : /\ new[i] \in Servers(new) <=> text[i] \in Servers(text)
                                   /\ new[i] \notin Servers(new) => new[i] = text[i]
      BY <2>1, <2>3, <2>5, <3>1
    <3> QED
      BY <2>3, <3>2, WithoutSame
  <2>8. ASSUME OneServer(text), Cut \notin Range(text) PROVE Parses(new)
    <3>1. ASSUME NEW i \in 1 .. Len(new) PROVE new[i] # Cut /\ new[i] # Half
      <4>1. CASE i # k
        <5>1. i \in 1 .. Len(text) /\ new[i] = text[i] /\ ~IsServer(text[i])
          BY <2>1, <2>3, <2>8, <4>1 DEF OneServer
        <5> QED
          BY <1>2, <2>8, <5>1, InRange
      <4> QED
        BY <1>2, <2>3, <4>1
    <3> QED
      BY <2>3, <3>1, InRange DEF Parses
  <2> QED
    BY <1>1, <2>3, <2>4, <2>6, <2>7, <2>8 DEF new
<1> QED
  BY <1>5, <1>7, <1>8

\* A sequence of a finite set lists each element once.
LEMMA SetToSeqIs ==
    ASSUME NEW S, IsFiniteSet(S)
    PROVE  \E s \in Seq(S) : /\ s = SetToSeq(S)
                             /\ \A x \in S : \E i \in 1 .. Len(s) : s[i] = x
                             /\ \A i, j \in 1 .. Len(s) : s[i] = s[j] => i = j
<1>1. PICK n \in Nat : n = Cardinality(S)
  BY FS_CardinalityType
<1>2. ExistsBijection(1 .. n, S)
  BY <1>1, FS_CardinalityType
<1>3. \E f \in [1 .. n -> S] : IsInjective(f)
  BY <1>2 DEF ExistsBijection, Bijection, Injection
<1>4. PICK s : s = SetToSeq(S)
  OBVIOUS
<1>5. s \in [1 .. n -> S] /\ IsInjective(s)
  BY <1>1, <1>3, <1>4 DEF SetToSeq
<1>6. Cardinality(1 .. n) = n
  <2> DEFINE id == [i \in 1 .. n |-> i]
  <2>1. /\ id \in [1 .. n -> 1 .. n] /\ IsInjective(id)
        /\ \A t \in 1 .. n : \E r \in 1 .. n : id[r] = t
    BY DEF IsInjective
  <2>2. id \in Bijection(1 .. n, 1 .. n)
    BY <2>1 DEF Bijection, Injection, Surjection
  <2>3. ExistsBijection(1 .. n, 1 .. n)
    BY <2>2 DEF ExistsBijection
  <2> QED
    BY <2>3, FS_CountingElements
<1>7. s \in Surjection(1 .. n, S)
  <2>1. s \in Injection(1 .. n, S)
    BY <1>5 DEF Injection
  <2> QED
    BY <1>1, <1>6, <2>1, FS_Injection
<1>8. s \in Seq(S) /\ Len(s) = n
  BY <1>5
<1>9. \A x \in S : \E i \in 1 .. n : s[i] = x
  BY <1>7 DEF Surjection
<1>10. \A i, j \in 1 .. n : s[i] = s[j] => i = j
  BY <1>5 DEF IsInjective
<1> QED
  BY <1>4, <1>8, <1>9, <1>10

\* The hook entries a command adds, one for each event.
LEMMA EntriesAre ==
    ASSUME NEW c \in Checkout
    PROVE  \E s \in Seq(Line) :
               /\ s = SetToSeq({Entry(e, {c}) : e \in Event})
               /\ \A i \in 1 .. Len(s) : \E e \in Event : s[i] = Entry(e, {c})
               /\ \A e \in Event : \E i \in 1 .. Len(s) : s[i] = Entry(e, {c})
               /\ \A i, j \in 1 .. Len(s) : s[i] = s[j] => i = j
<1> DEFINE S == {Entry(e, {c}) : e \in Event}
<1>1. IsFiniteSet(S)
  <2> DEFINE f == [e \in Event |-> Entry(e, {c})]
  <2>1. f \in Surjection(Event, S)
    BY DEF Surjection
  <2> HIDE DEF f, S
  <2> QED
    BY <2>1, EventsAreFinite, FS_Surjection
<1>2. S \subseteq Line
  BY LinesAre
<1>3. PICK s \in Seq(S) : /\ s = SetToSeq(S)
                          /\ \A x \in S : \E i \in 1 .. Len(s) : s[i] = x
                          /\ \A i, j \in 1 .. Len(s) : s[i] = s[j] => i = j
  <2> HIDE DEF S
  <2> QED
    BY <1>1, SetToSeqIs
<1>4. s \in Seq(Line)
  <2> HIDE DEF S
  <2> QED
    BY <1>2, SeqMonotonic
<1>5. \A i \in 1 .. Len(s) : s[i] \in S
  <2> HIDE DEF S
  <2> QED
    OBVIOUS
<1>6. \A i \in 1 .. Len(s) : \E e \in Event : s[i] = Entry(e, {c})
  BY <1>5
<1>7. \A e \in Event : \E i \in 1 .. Len(s) : s[i] = Entry(e, {c})
  BY <1>3
<1> QED
  BY <1>3, <1>4, <1>6, <1>7

Hooks(t, c) == {x \in Range(t) : IsOurs(x, c)}

OneHook(t, e, c) == \A i, j \in HooksOf(t, e, c) : i = j

\* The settings after a merge: each event runs the hook of this checkout once, and no other
\* named with slashes; no other checkout's runs more often than before, and what else there
\* was is as it was.
Registers(new, text, c) ==
    /\ new \in Seq(Line)
    /\ \A e \in Event : /\ \E k \in 1 .. Len(new) : HooksOf(new, e, c) = {k}
                         /\ OursOn(new, e) \subseteq HooksOf(new, e, c)
                         /\ \A d \in Checkout : OneHook(text, e, d) => OneHook(new, e, d)
    /\ Parses(text) => Parses(new)
    /\ Without(new, Hooks(new, c)) = Without(text, Hooks(text, c))

LEMMA MergeSettingsIs ==
    ASSUME NEW text \in Seq(Line), NEW c \in Checkout
    PROVE  Registers(MergeClaudeSettings(text, c), text, c)
<1>1. PICK s \in Seq(Line) :
               /\ s = SetToSeq({Entry(e, {c}) : e \in Event})
               /\ \A i \in 1 .. Len(s) : \E e \in Event : s[i] = Entry(e, {c})
               /\ \A e \in Event : \E i \in 1 .. Len(s) : s[i] = Entry(e, {c})
               /\ \A i, j \in 1 .. Len(s) : s[i] = s[j] => i = j
  BY EntriesAre
<1>4. PICK kept : kept = Without(text, Hooks(text, c))
  OBVIOUS
<1>5. kept \in Seq(Line) /\ Range(kept) = Range(text) \ Hooks(text, c)
  BY <1>4, WithoutRange
<1>6. PICK new : Joined(new, kept, s)
  BY DEF Joined
<1>7. MergeClaudeSettings(text, c) = new
  BY <1>1, <1>4, <1>6 DEF MergeClaudeSettings, Joined, Hooks
<1>8. Concats(new, kept, s, Line)
  BY <1>5, <1>6, ConcatIs, Zenon
<1>9. \A i \in 1 .. Len(kept) : ~IsOurs(kept[i], c)
  BY <1>5, InRange DEF Hooks
<1>10. \A e \in Event : LET x == Entry(e, {c}) IN
          /\ IsOurs(x, c) /\ x.is = "entry" /\ x.on = e /\ x.runs = {c} /\ x # Cut /\ x # Half
  BY DEF IsOurs, Entry, Cut, Half
<1>11. \A i \in 1 .. Len(new) : \/ i \in 1 .. Len(kept) /\ new[i] = kept[i]
                                \/ \E j \in 1 .. Len(s) : i = Len(kept) + j /\ new[i] = s[j]
  <2> SUFFICES ASSUME NEW i \in 1 .. Len(new), i \notin 1 .. Len(kept)
               PROVE  \E j \in 1 .. Len(s) : i = Len(kept) + j /\ new[i] = s[j]
    BY <1>8 DEF Concats
  <2>1. i - Len(kept) \in 1 .. Len(s) /\ i = Len(kept) + (i - Len(kept))
    BY <1>8 DEF Concats
  <2> QED
    BY <1>8, <2>1 DEF Concats
<1>12. ASSUME NEW e \in Event PROVE \E k \in 1 .. Len(new) : HooksOf(new, e, c) = {k}
  <2>1. PICK j \in 1 .. Len(s) : s[j] = Entry(e, {c})
    BY <1>1
  <2>2. PICK k : k = Len(kept) + j
    OBVIOUS
  <2>3. k \in 1 .. Len(new) /\ new[k] = Entry(e, {c})
    BY <1>8, <2>1, <2>2 DEF Concats
  <2>4. k \in HooksOf(new, e, c)
    BY <1>10, <2>3 DEF HooksOf
  <2>5. ASSUME NEW i \in HooksOf(new, e, c) PROVE i = k
    <3>1. i \in 1 .. Len(new) /\ IsOurs(new[i], c) /\ new[i].on = e
      BY <2>5 DEF HooksOf, IsOurs
    <3>2. PICK m \in 1 .. Len(s) : i = Len(kept) + m /\ new[i] = s[m]
      BY <1>9, <1>11, <3>1
    <3>3. PICK d \in Event : s[m] = Entry(d, {c})
      BY <1>1
    <3>4. d = e
      BY <1>10, <3>1, <3>2, <3>3
    <3>5. m = j
      <4>1. s[m] = s[j]
        BY <2>1, <3>3, <3>4
      <4> QED
        BY <1>1, <4>1, Zenon
    <3> QED
      BY <2>2, <3>2, <3>5
  <2> QED
    BY <2>3, <2>4, <2>5
<1>2. ASSUME NEW e \in Event, NEW i \in OursOn(new, e) PROVE i \in HooksOf(new, e, c)
  <2>1. i \in 1 .. Len(new) /\ RunsTheHook(new[i]) /\ new[i].on = e
    BY <1>2 DEF OursOn
  <2>2. IsOurs(new[i], c)
    BY <2>1 DEF RunsTheHook, IsOurs
  <2>3. PICK j \in 1 .. Len(s) : new[i] = s[j]
    BY <1>9, <1>11, <2>1, <2>2
  <2>4. PICK d \in Event : s[j] = Entry(d, {c})
    BY <1>1
  <2> QED
    BY <1>10, <2>1, <2>3, <2>4 DEF HooksOf
<1>3. ASSUME NEW e \in Event, NEW d \in Checkout, OneHook(text, e, d) PROVE OneHook(new, e, d)
  <2>1. CASE d = c
    BY <1>12, <2>1 DEF OneHook
  <2>2. CASE d # c
    <3>1. PICK Q : Q = {x \in Line : x.is = "entry" /\ x.on = e /\ d \in x.runs}
      OBVIOUS
    <3>2. \A i, j \in 1 .. Len(text) : text[i] \in Q /\ text[j] \in Q => i = j
      BY <1>3, <3>1 DEF OneHook, HooksOf
    <3>3. \A i, j \in 1 .. Len(kept) : kept[i] \in Q /\ kept[j] \in Q => i = j
      BY <1>4, <3>2, WithoutOnce
    <3>4. ASSUME NEW i \in HooksOf(new, e, d) PROVE i \in 1 .. Len(kept) /\ kept[i] \in Q
      <4>1. i \in 1 .. Len(new) /\ new[i].is = "entry" /\ new[i].on = e /\ d \in new[i].runs
        BY <3>4 DEF HooksOf
      <4>2. ASSUME NEW j \in 1 .. Len(s), new[i] = s[j] PROVE FALSE
        <5>1. PICK b \in Event : s[j] = Entry(b, {c})
          BY <1>1
        <5>2. new[i].runs = {c}
          BY <1>10, <4>2, <5>1
        <5> QED
          BY <2>2, <4>1, <5>2
      <4>3. i \in 1 .. Len(kept) /\ new[i] = kept[i]
        BY <1>11, <4>1, <4>2
      <4> QED
        BY <1>5, <3>1, <4>1, <4>3
    <3> QED
      BY <3>3, <3>4 DEF OneHook
  <2> QED
    BY <2>1, <2>2
<1>13. ASSUME Parses(text) PROVE Parses(new)
  <2>1. ASSUME NEW i \in 1 .. Len(new) PROVE new[i] # Cut /\ new[i] # Half
    <3>1. CASE i \in 1 .. Len(kept) /\ new[i] = kept[i]
      <4>1. kept[i] \in Range(text)
        BY <1>5, <3>1, InRange
      <4> QED
        BY <1>13, <3>1, <4>1 DEF Parses
    <3>2. CASE \E j \in 1 .. Len(s) : i = Len(kept) + j /\ new[i] = s[j]
      <4>1. PICK j \in 1 .. Len(s) : new[i] = s[j]
        BY <3>2
      <4>2. PICK e \in Event : s[j] = Entry(e, {c})
        BY <1>1
      <4> QED
        BY <1>10, <4>1, <4>2
    <3> QED
      BY <1>11, <3>1, <3>2
  <2>2. new \in Seq(Line)
    BY <1>8 DEF Concats
  <2> QED
    BY <2>1, <2>2, InRange DEF Parses
<1>14. Without(new, Hooks(new, c)) = kept
  <2>1. Without(new, Hooks(new, c)) = Without(kept, Hooks(new, c)) \o Without(s, Hooks(new, c))
    BY <1>5, <1>6, WithoutConcat DEF Joined
  <2>2. Without(kept, Hooks(new, c)) = kept
    <3>1. \A i \in 1 .. Len(kept) : kept[i] \notin Hooks(new, c)
      BY <1>9 DEF Hooks
    <3> QED
      BY <1>5, <3>1, WithoutNone
  <2>3. Without(s, Hooks(new, c)) = <<>>
    <3>1. ASSUME NEW x \in Range(s) PROVE x \in Hooks(new, c)
      <4>1. PICK j \in 1 .. Len(s) : x = s[j]
        BY InRange
      <4>2. IsOurs(x, c)
        <5>1. PICK e \in Event : s[j] = Entry(e, {c})
          BY <1>1
        <5> QED
          BY <1>10, <4>1, <5>1
      <4>3. Len(kept) + j \in 1 .. Len(new) /\ new[Len(kept) + j] = x
        BY <1>8, <4>1 DEF Concats
      <4>4. x \in Range(new)
        BY <1>8, <4>3, InRange DEF Concats
      <4> QED
        BY <4>2, <4>4 DEF Hooks
    <3>2. Range(s) \subseteq Hooks(new, c)
      BY <3>1
    <3> QED
      BY <3>2, WithoutAll
  <2>4. kept \o <<>> = kept
    BY <1>5
  <2> QED
    BY <2>1, <2>2, <2>3, <2>4
<1>15. new \in Seq(Line)
  BY <1>8 DEF Concats
<1> QED
  BY <1>2, <1>3, <1>4, <1>7, <1>12, <1>13, <1>14, <1>15 DEF Registers

\* Seven files, each in its place.
LEMMA PathsAre ==
    /\ Len(Files) = 7 /\ Path = {Files[j] : j \in 1 .. 7}
    /\ Files[1] = "installation.json" /\ Files[2] = "profile.yaml" /\ Files[3] = "mcp.json"
    /\ Files[4] = "config.toml" /\ Files[5] = "AGENTS.md" /\ Files[6] = "CLAUDE.md"
    /\ Files[7] = "settings.json"
    /\ \A i, j \in 1 .. 7 : Files[i] = Files[j] => i = j
<1>1. /\ Files[1] = "installation.json" /\ Files[2] = "profile.yaml" /\ Files[3] = "mcp.json"
      /\ Files[4] = "config.toml" /\ Files[5] = "AGENTS.md" /\ Files[6] = "CLAUDE.md"
      /\ Files[7] = "settings.json" /\ Len(Files) = 7 /\ DOMAIN Files = 1 .. 7
  BY DEF Files
<1>2. \A i \in 1 .. 7 : i = 1 \/ i = 2 \/ i = 3 \/ i = 4 \/ i = 5 \/ i = 6 \/ i = 7
  OBVIOUS
<1>3. \A i, j \in 1 .. 7 : Files[i] = Files[j] => i = j
  BY <1>1, <1>2
<1>4. Path = {Files[j] : j \in 1 .. 7}
  BY <1>1 DEF Path, Range
<1> QED
  BY <1>1, <1>3, <1>4

\* What a command of an identity and a checkout makes of a text.
MergedBy(id, c, path, text) ==
    CASE path \in {"mcp.json", "config.toml"} -> MergeServer(text, c)
      [] path = "settings.json" -> MergeClaudeSettings(text, c)
      [] path \in Documents -> SpliceMarkedBlock(text, BootstrapParagraph(id, c))
      [] OTHER -> <<About(id, c)>>

LEMMA MergedIs ==
    ASSUME NEW p, NEW path, NEW text
    PROVE  Merged(p, path, text) = MergedBy(identity[p], checkout[p], path, text)
  BY DEF Merged, MergedBy

LEMMA MergedCases ==
    ASSUME NEW id, NEW c, NEW path \in Path, NEW text
    PROVE  LET new == MergedBy(id, c, path, text) IN
           \/ path \in {"mcp.json", "config.toml"} /\ new = MergeServer(text, c)
           \/ path = "settings.json" /\ new = MergeClaudeSettings(text, c)
           \/ path \in Documents /\ new = SpliceMarkedBlock(text, BootstrapParagraph(id, c))
           \/ path \in Naming /\ new = <<About(id, c)>>
<1>1. \/ path \in {"mcp.json", "config.toml"} \/ path = "settings.json" \/ path \in Documents
      \/ path \in Naming
  <2>1. PICK j \in 1 .. 7 : path = Files[j]
    BY PathsAre
  <2>2. j = 1 \/ j = 2 \/ j = 3 \/ j = 4 \/ j = 5 \/ j = 6 \/ j = 7
    OBVIOUS
  <2> QED
    BY <2>1, <2>2, PathsAre DEF Documents, Naming
<1>2. CASE path \in {"mcp.json", "config.toml"}
  BY <1>2 DEF MergedBy, Documents
<1>3. CASE path = "settings.json"
  BY <1>3 DEF MergedBy, Documents
<1>4. CASE path \in Documents
  BY <1>4 DEF MergedBy, Documents
<1>5. CASE path \in Naming
  BY <1>5 DEF MergedBy, Documents, Naming
<1> QED
  BY <1>1, <1>2, <1>3, <1>4, <1>5

LEMMA MergedTypes ==
    ASSUME NEW id \in Identity, NEW c \in Checkout, NEW path \in Path, NEW text \in Seq(Line)
    PROVE  /\ MergedBy(id, c, path, text) \in Seq(Line)
           /\ path \in Naming => MergedBy(id, c, path, text) \in Named
<1>1. CASE path \in {"mcp.json", "config.toml"}
  <2>1. MergeServer(text, c) \in Seq(Line)
    BY MergeServerIs
  <2>2. path \notin Naming /\ path \notin Documents /\ path # "settings.json"
    BY <1>1 DEF Documents, Naming
  <2> QED
    BY <2>1, <2>2, MergedCases
<1>2. CASE path = "settings.json"
  <2>1. MergeClaudeSettings(text, c) \in Seq(Line)
    BY MergeSettingsIs DEF Registers
  <2>2. path \notin Naming /\ path \notin Documents /\ path \notin {"mcp.json", "config.toml"}
    BY <1>2 DEF Documents, Naming
  <2> QED
    BY <2>1, <2>2, MergedCases
<1>3. CASE path \in Documents
  <2>1. SpliceMarkedBlock(text, BootstrapParagraph(id, c)) \in Seq(Line)
    BY LinesAre, SpliceIs DEF BootstrapParagraph
  <2>2. path \notin Naming /\ path \notin {"mcp.json", "config.toml"} /\ path # "settings.json"
    BY <1>3 DEF Documents, Naming
  <2> QED
    BY <1>3, <2>1, <2>2, MergedCases
<1>4. CASE path \in Naming
  <2>1. <<About(id, c)>> \in Seq(Line) /\ <<About(id, c)>> \in Named
    BY LinesAre DEF Named
  <2>2. path \notin Documents /\ path \notin {"mcp.json", "config.toml"} /\ path # "settings.json"
    BY <1>4 DEF Documents, Naming
  <2> QED
    BY <2>1, <2>2, MergedCases
<1> QED
  BY <1>1, <1>2, <1>3, <1>4, MergedCases

\* A set of numbers has one element at most if its cardinality says so.
LEMMA AtMostOne ==
    ASSUME NEW n \in Nat, NEW S \in SUBSET (1 .. n)
    PROVE  Cardinality(S) <= 1 <=> \A i, j \in S : i = j
<1>1. IsFiniteSet(S) /\ Cardinality(S) \in Nat
  <2>1. S \in SUBSET Nat /\ \A s \in S : s <= n
    OBVIOUS
  <2> QED
    BY <2>1, FS_BoundedSetOfNaturals, FS_CardinalityType
<1>2. ASSUME NEW i \in S, NEW j \in S, i # j, Cardinality(S) <= 1 PROVE FALSE
  <2>1. IsFiniteSet({i}) /\ Cardinality({i}) = 1
    BY FS_Singleton
  <2>2. Cardinality({i} \union {j}) = 2
    BY <1>2, <2>1, FS_AddElement
  <2>3. {i} \union {j} \in SUBSET S
    OBVIOUS
  <2>4. Cardinality({i} \union {j}) <= Cardinality(S)
    BY <1>1, <2>3, FS_Subset
  <2> QED
    BY <1>1, <1>2, <2>2, <2>4
<1>3. ASSUME \A i, j \in S : i = j PROVE Cardinality(S) <= 1
  <2>1. CASE S = {}
    BY <2>1, FS_EmptySet
  <2>2. CASE S # {}
    <3>1. PICK i \in S : S = {i}
      BY <1>3, <2>2
    <3> QED
      BY <3>1, FS_Singleton
  <2> QED
    BY <2>1, <2>2
<1> QED
  BY <1>2, <1>3

-----------------------------------------------------------------------------
(***************************************************************************)
(* Footprint: what the files and the commands are.                         *)
(***************************************************************************)
CommandSound(p) ==
    /\ pc[p] # "none" => checkout[p] \in Checkout
    /\ pc[p] \in {"read", "write", "done"} => identity[p] \in Identity
    /\ pc[p] \in {"read", "write"} => at[p] \in 1 .. 7 /\ (at[p] = 7 => hooked[p])
    /\ pc[p] = "write" /\ Files[at[p]] \in Naming => draft[p] \in Named

FilesInv == FootprintTypeOK /\ \A p \in Command : CommandSound(p)

\* The others' part of a command's step.
Others(p) ==
    \A q \in Command \ {p} :
        /\ pc'[q] = pc[q] /\ at'[q] = at[q] /\ draft'[q] = draft[q] /\ identity'[q] = identity[q]
        /\ checkout'[q] = checkout[q] /\ hooked'[q] = hooked[q]

LEMMA OthersSound ==
    ASSUME NEW p \in Command, FilesInv, Others(p), CommandSound(p)'
    PROVE  \A q \in Command : CommandSound(q)'
<1>1. ASSUME NEW q \in Command \ {p} PROVE CommandSound(q)'
  <2>1. CommandSound(q)
    BY DEF FilesInv
  <2> QED
    BY <2>1 DEF Others, CommandSound
<1> QED
  BY <1>1

LEMMA NamedIs ==
    ASSUME NEW t \in Named
    PROVE  /\ t \in Seq(Line)
           /\ t = <<>> \/ t = <<Cut>> \/ \E id \in Identity, c \in Checkout : t = <<About(id, c)>>
<1>1. t = <<>> \/ t = <<Cut>> \/ \E id \in Identity, c \in Checkout : t = <<About(id, c)>>
  BY DEF Named
<1>2. <<Cut>> \in Seq(Line) /\ \A id \in Identity, c \in Checkout : <<About(id, c)>> \in Seq(Line)
  BY LinesAre
<1>3. <<>> \in Seq(Line)
  OBVIOUS
<1> QED
  BY <1>1, <1>2, <1>3

\* An identity that can be read is one.
LEMMA WholeIs ==
    ASSUME NEW files, files["installation.json"].text \in Named, Whole(files)
    PROVE  Installed(files).of \in Identity
<1>1. PICK t : t = files["installation.json"].text
  OBVIOUS
<1>2. PICK x \in Range(t) : x.is = "about"
  BY <1>1 DEF Whole
<1>3. t = <<>> \/ t = <<Cut>> \/ \E id \in Identity, c \in Checkout : t = <<About(id, c)>>
  BY <1>1 DEF Named
<1>4. t # <<>>
  BY <1>2 DEF Range
<1>5. t # <<Cut>>
  <2> SUFFICES ASSUME t = <<Cut>> PROVE FALSE
    OBVIOUS
  <2>1. x = Cut
    BY <1>2 DEF Range
  <2> QED
    BY <1>2, <2>1 DEF Cut
<1>6. PICK id \in Identity, c \in Checkout : t = <<About(id, c)>>
  BY <1>3, <1>4, <1>5
<1>7. t[1].of = id
  BY <1>6 DEF About
<1> QED
  BY <1>1, <1>7 DEF Installed

\* A file that is put in a project leaves it one.
LEMMA PutIs ==
    ASSUME FilesInv, NEW path \in Path, NEW there \in BOOLEAN, NEW t \in Seq(Line),
           path \in Naming => t \in Named,
           disk' = [disk EXCEPT ![path] = [there |-> there, text |-> t]]
    PROVE  disk' \in [Path -> ProjectFile] /\ \A q \in Naming : disk'[q].text \in Named
<1>1. [there |-> there, text |-> t] \in ProjectFile
  BY DEF ProjectFile
<1>2. disk \in [Path -> ProjectFile] /\ \A q \in Naming : disk[q].text \in Named
  BY DEF FilesInv, FootprintTypeOK
<1>3. \A q \in Path : disk'[q] = IF q = path THEN [there |-> there, text |-> t] ELSE disk[q]
  BY <1>2
<1>4. Naming \subseteq Path
  BY PathsAre DEF Naming
<1>5. disk' \in [Path -> ProjectFile]
  BY <1>1, <1>2
<1>6. ASSUME NEW q \in Naming PROVE disk'[q].text \in Named
  <2>1. CASE q = path
    <3>1. disk'[q] = [there |-> there, text |-> t]
      BY <1>3, <1>4, <2>1
    <3> QED
      BY <2>1, <3>1
  <2>2. CASE q # path
    BY <1>2, <1>3, <1>4, <2>2
  <2> QED
    BY <2>1, <2>2
<1> QED
  BY <1>5, <1>6

States == {"none", "identity", "read", "write", "done", "refused", "threw", "dead"}

LEMMA TypesAre ==
    ASSUME FilesInv, NEW p \in Command
    PROVE  /\ CommandSound(p) /\ at[p] \in 0 .. 7 /\ draft[p] \in Seq(Line) /\ pc[p] \in States
           /\ \A path \in Path : disk[path] \in ProjectFile /\ disk[path].text \in Seq(Line)
                                  /\ disk[path].there \in BOOLEAN
           /\ \A path \in Naming : disk[path].text \in Named
<1>1. /\ CommandSound(p) /\ at[p] \in 0 .. Len(Files) /\ draft[p] \in Seq(Line) /\ pc[p] \in States
      /\ disk \in [Path -> ProjectFile] /\ \A path \in Naming : disk[path].text \in Named
  BY DEF FilesInv, FootprintTypeOK, States
<1>2. \A path \in Path : disk[path] \in ProjectFile
  BY <1>1
<1>3. \A file \in ProjectFile : file.text \in Seq(Line) /\ file.there \in BOOLEAN
  BY DEF ProjectFile
<1> QED
  BY <1>1, <1>2, <1>3, PathsAre

LEMMA StartTypes ==
    ASSUME FilesInv, NEW p \in Command, NEW c \in Checkout, NEW h \in BOOLEAN, Start(p, c, h)
    PROVE  FilesInv' /\ Others(p)
<1> USE DEF FilesInv, FootprintTypeOK
<1>1. /\ pc' = [pc EXCEPT ![p] = "identity"] /\ checkout' = [checkout EXCEPT ![p] = c]
      /\ hooked' = [hooked EXCEPT ![p] = h]
      /\ UNCHANGED <<disk, at, draft, identity, edits>>
  BY DEF Start
<1>2. alone' \in Command \union {Nobody} /\ prior' \in Command \union {Nobody}
  BY DEF Start, Disturbed
<1>3. Others(p)
  BY <1>1 DEF Others
<1>4. CommandSound(p)'
  BY <1>1 DEF CommandSound
<1>5. FootprintTypeOK'
  BY <1>1, <1>2
<1>6. \A q \in Command : CommandSound(q)'
  <2> USE DEF FilesInv
  <2> QED
    BY <1>3, <1>4, OthersSound
<1> QED
  BY <1>3, <1>5, <1>6

LEMMA AdvanceIs ==
    ASSUME FilesInv, NEW p \in Command, pc[p] \in {"read", "write"}, Advance(p)
    PROVE  \/ /\ pc' = [pc EXCEPT ![p] = "done"] /\ at' = [at EXCEPT ![p] = 0]
              /\ at[p] = 7 \/ (at[p] = 6 /\ ~hooked[p])
           \/ /\ pc' = [pc EXCEPT ![p] = "read"] /\ at' = [at EXCEPT ![p] = at[p] + 1]
              /\ at[p] + 1 \in 1 .. 7 /\ (at[p] + 1 = 7 => hooked[p])
<1>1. at[p] \in 1 .. 7 /\ (at[p] = 7 => hooked[p])
  BY TypesAre DEF CommandSound
<1>2. at[p] + 1 \in 1 .. 7 => (Files[at[p] + 1] = "settings.json" <=> at[p] = 6)
  <2>1. at[p] + 1 \in 1 .. 7 => (Files[at[p] + 1] = Files[7] <=> at[p] + 1 = 7)
    BY <1>1, PathsAre
  <2> QED
    BY <1>1, <2>1, PathsAre
<1>3. /\ pc' = [pc EXCEPT ![p] = After(p, at[p])]
      /\ at' = [at EXCEPT ![p] = IF After(p, at[p]) = "done" THEN 0 ELSE at[p] + 1]
  BY DEF Advance
<1>4. CASE at[p] = 7 \/ (at[p] = 6 /\ ~hooked[p])
  <2>1. After(p, at[p]) = "done"
    BY <1>2, <1>4, PathsAre DEF After
  <2> QED
    BY <1>3, <1>4, <2>1
<1>5. CASE ~(at[p] = 7 \/ (at[p] = 6 /\ ~hooked[p]))
  <2>1. After(p, at[p]) = "read" /\ at[p] + 1 \in 1 .. 7 /\ (at[p] + 1 = 7 => hooked[p])
    BY <1>1, <1>2, <1>5, PathsAre DEF After
  <2> QED
    BY <1>3, <2>1
<1> QED
  BY <1>4, <1>5

Moves(p) == ExistingIdentity(p) \/ Refuse(p) \/ Keep(p) \/ ReadFile(p) \/ Throw(p)
                \/ WriteFile(p) \/ Die(p)

\* What a command's step, once it has begun, leaves alone.
LEMMA MovesLeave ==
    ASSUME FilesInv, NEW p \in Command, Moves(p)
    PROVE  /\ Running(p) /\ Others(p) /\ UNCHANGED <<checkout, hooked, edits, alone, base, prior>>
           /\ \A q \in Command \ {p} : pc'[q] = pc[q]
<1> USE DEF FilesInv, FootprintTypeOK
<1>1. Running(p) /\ UNCHANGED <<checkout, hooked, edits, alone, base, prior>>
  BY DEF Moves, ExistingIdentity, Refuse, Keep, ReadFile, Throw, WriteFile, Die, Running
<1>2. \A q \in Command \ {p} : pc'[q] = pc[q]
  BY DEF Moves, ExistingIdentity, Refuse, Keep, ReadFile, Throw, WriteFile, Die, Advance
<1>3. \A q \in Command \ {p} : at'[q] = at[q]
  BY DEF Moves, ExistingIdentity, Refuse, Keep, ReadFile, Throw, WriteFile, Die, Advance
<1>4. \A q \in Command \ {p} : draft'[q] = draft[q] /\ identity'[q] = identity[q]
  BY DEF Moves, ExistingIdentity, Refuse, Keep, ReadFile, Throw, WriteFile, Die
<1> QED
  BY <1>1, <1>2, <1>3, <1>4 DEF Others

LEMMA IdentityTypes ==
    ASSUME FilesInv, NEW p \in Command, ExistingIdentity(p) \/ Refuse(p)
    PROVE  FilesInv'
<1>1. Others(p) /\ UNCHANGED <<disk, draft, checkout, hooked, edits, alone, prior>>
  BY MovesLeave DEF Moves, ExistingIdentity, Refuse
<1>2. CASE ExistingIdentity(p)
  <2>1. IdentityOf(p) \in Identity
    <3>1. CASE disk["installation.json"].there
      BY <1>2, <3>1, WholeIs, TypesAre DEF ExistingIdentity, Readable, IdentityOf, Naming
    <3>2. CASE ~disk["installation.json"].there
      BY <3>2 DEF IdentityOf, Identity
    <3> QED
      BY <3>1, <3>2
  <2>2. /\ identity' = [identity EXCEPT ![p] = IdentityOf(p)]
        /\ pc' = [pc EXCEPT ![p] = "read"] /\ at' = [at EXCEPT ![p] = 1] /\ pc[p] = "identity"
    BY <1>2 DEF ExistingIdentity
  <2>3. FootprintTypeOK'
    BY <1>1, <2>1, <2>2, PathsAre DEF FilesInv, FootprintTypeOK
  <2>4. CommandSound(p)'
    BY <1>1, <2>1, <2>2 DEF FilesInv, FootprintTypeOK, CommandSound
  <2> QED
    BY <1>1, <2>3, <2>4, OthersSound DEF FilesInv
<1>3. CASE Refuse(p)
  <2>1. pc' = [pc EXCEPT ![p] = "refused"] /\ pc[p] = "identity" /\ UNCHANGED <<at, identity>>
    BY <1>3 DEF Refuse
  <2>2. FootprintTypeOK'
    BY <1>1, <2>1 DEF FilesInv, FootprintTypeOK
  <2>3. CommandSound(p)'
    BY <1>1, <2>1 DEF FilesInv, FootprintTypeOK, CommandSound
  <2> QED
    BY <1>1, <2>2, <2>3, OthersSound DEF FilesInv
<1> QED
  BY <1>2, <1>3

LEMMA KeepTypes ==
    ASSUME FilesInv, NEW p \in Command, Keep(p) \/ Throw(p)
    PROVE  FilesInv'
<1>1. Others(p) /\ UNCHANGED <<disk, draft, identity, checkout, hooked, edits, alone, prior>>
  BY MovesLeave DEF Moves, Keep, Throw
<1>2. \/ /\ pc' = [pc EXCEPT ![p] = "done"] /\ at' = [at EXCEPT ![p] = 0]
      \/ /\ pc' = [pc EXCEPT ![p] = "threw"] /\ at' = [at EXCEPT ![p] = 0]
      \/ /\ pc' = [pc EXCEPT ![p] = "read"] /\ at' = [at EXCEPT ![p] = at[p] + 1]
         /\ at[p] + 1 \in 1 .. 7 /\ (at[p] + 1 = 7 => hooked[p])
  BY AdvanceIs DEF Keep, Throw
<1>3. pc[p] = "read" /\ CommandSound(p)
  BY TypesAre DEF Keep, Throw
<1>a. pc' \in [Command -> States]
  <2>1. pc \in [Command -> States] /\ "done" \in States /\ "threw" \in States /\ "read" \in States
    BY DEF FilesInv, FootprintTypeOK, States
  <2> QED
    BY <1>2, <2>1
<1>b. at' \in [Command -> 0 .. 7]
  <2>1. at \in [Command -> 0 .. 7]
    BY PathsAre DEF FilesInv, FootprintTypeOK
  <2> QED
    BY <1>2, <2>1
<1>4. FootprintTypeOK'
  BY <1>1, <1>a, <1>b, PathsAre DEF FilesInv, FootprintTypeOK, States
<1>5. CommandSound(p)'
  <2>1. pc \in [Command -> States] /\ at \in [Command -> 0 .. 7]
    BY PathsAre DEF FilesInv, FootprintTypeOK, States
  <2> QED
    BY <1>1, <1>2, <1>3, <2>1 DEF CommandSound
<1> QED
  BY <1>1, <1>4, <1>5, OthersSound DEF FilesInv

LEMMA ReadTypes ==
    ASSUME FilesInv, NEW p \in Command, ReadFile(p)
    PROVE  FilesInv'
<1>1. Others(p) /\ UNCHANGED <<disk, at, identity, checkout, hooked, edits, alone, prior>>
  BY MovesLeave DEF Moves, ReadFile
<1>2. /\ pc[p] = "read" /\ pc' = [pc EXCEPT ![p] = "write"]
      /\ draft' = [draft EXCEPT ![p] = Merged(p, Files[at[p]], disk[Files[at[p]]].text)]
  BY DEF ReadFile
<1>3. CommandSound(p) /\ at[p] \in 1 .. 7
  BY <1>2, TypesAre DEF CommandSound
<1>4. PICK path \in Path : path = Files[at[p]]
  BY <1>3, PathsAre
<1>5. PICK new : new = Merged(p, path, disk[path].text)
  OBVIOUS
<1>6. new \in Seq(Line) /\ (path \in Naming => new \in Named)
  <2>1. identity[p] \in Identity /\ checkout[p] \in Checkout /\ disk[path].text \in Seq(Line)
    BY <1>2, <1>3, TypesAre DEF CommandSound
  <2> QED
    BY <1>5, <2>1, MergedIs, MergedTypes
<1>7. draft' = [draft EXCEPT ![p] = new]
  BY <1>2, <1>4, <1>5
<1>8. FootprintTypeOK'
  BY <1>1, <1>2, <1>6, <1>7 DEF FilesInv, FootprintTypeOK
<1>9. CommandSound(p)'
  BY <1>1, <1>2, <1>3, <1>4, <1>6, <1>7 DEF FilesInv, FootprintTypeOK, CommandSound
<1> QED
  BY <1>1, <1>8, <1>9, OthersSound DEF FilesInv

LEMMA WriteTypes ==
    ASSUME FilesInv, NEW p \in Command, WriteFile(p)
    PROVE  FilesInv'
<1>1. Others(p) /\ UNCHANGED <<identity, checkout, hooked, edits, alone, prior>>
  BY MovesLeave DEF Moves, WriteFile
<1>2. pc[p] = "write" /\ draft' = [draft EXCEPT ![p] = <<>>]
      /\ disk' = [disk EXCEPT ![Files[at[p]]] = Held(draft[p])]
  BY DEF WriteFile
<1>3. \/ /\ pc' = [pc EXCEPT ![p] = "done"] /\ at' = [at EXCEPT ![p] = 0]
      \/ /\ pc' = [pc EXCEPT ![p] = "read"] /\ at' = [at EXCEPT ![p] = at[p] + 1]
         /\ at[p] + 1 \in 1 .. 7 /\ (at[p] + 1 = 7 => hooked[p])
  BY AdvanceIs DEF WriteFile
<1>4. CommandSound(p) /\ at[p] \in 1 .. 7 /\ draft[p] \in Seq(Line)
  BY <1>2, TypesAre DEF CommandSound
<1>5. PICK path \in Path : path = Files[at[p]]
  BY <1>4, PathsAre
<1>6. disk' \in [Path -> ProjectFile] /\ \A q \in Naming : disk'[q].text \in Named
  BY <1>2, <1>4, <1>5, PutIs DEF Held, CommandSound
<1>a. pc' \in [Command -> States]
  <2>1. pc \in [Command -> States] /\ "done" \in States /\ "read" \in States
    BY DEF FilesInv, FootprintTypeOK, States
  <2> QED
    BY <1>3, <2>1
<1>b. at' \in [Command -> 0 .. 7]
  <2>1. at \in [Command -> 0 .. 7]
    BY PathsAre DEF FilesInv, FootprintTypeOK
  <2> QED
    BY <1>3, <2>1
<1>c. draft' \in [Command -> Seq(Line)]
  <2>1. <<>> \in Seq(Line) /\ draft \in [Command -> Seq(Line)]
    BY DEF FilesInv, FootprintTypeOK
  <2> QED
    BY <1>2, <2>1
<1>7. FootprintTypeOK'
  BY <1>1, <1>6, <1>a, <1>b, <1>c, PathsAre DEF FilesInv, FootprintTypeOK, States
<1>8. CommandSound(p)'
  <2>1. pc \in [Command -> States] /\ at \in [Command -> 0 .. 7]
    BY PathsAre DEF FilesInv, FootprintTypeOK, States
  <2> QED
    BY <1>1, <1>2, <1>3, <1>4, <2>1 DEF CommandSound
<1> QED
  BY <1>1, <1>7, <1>8, OthersSound DEF FilesInv

LEMMA TornOne ==
    ASSUME NEW path, path \notin Json, NEW text \in Seq(Line), NEW t \in Torn(path, text)
    PROVE  \E k \in 0 .. (Len(text) - 1) :
               \/ t = SubSeq(text, 1, k) \/ t = Append(SubSeq(text, 1, k), Cut)
               \/ t = Append(SubSeq(text, 1, k), Half) /\ IsServer(text[k + 1])
<1>1. PICK firsts : firsts = {SubSeq(text, 1, k) : k \in 0 .. (Len(text) - 1)}
  OBVIOUS
<1>2. Torn(path, text) = firsts \union {Append(u, Cut) : u \in firsts}
          \union {Append(u, Half) : u \in {v \in firsts : IsServer(text[Len(v) + 1])}}
  BY <1>1 DEF Torn
<1>3. \/ t \in firsts
      \/ \E u \in firsts : t = Append(u, Cut)
      \/ \E u \in firsts : t = Append(u, Half) /\ IsServer(text[Len(u) + 1])
  BY <1>2
<1>4. ASSUME NEW u \in firsts
      PROVE  \E k \in 0 .. (Len(text) - 1) : u = SubSeq(text, 1, k) /\ Len(u) = k
  <2>1. PICK k \in 0 .. (Len(text) - 1) : u = SubSeq(text, 1, k)
    BY <1>1
  <2> QED
    BY <2>1
<1>5. CASE t \in firsts
  BY <1>4, <1>5, Zenon
<1>6. ASSUME NEW u \in firsts, t = Append(u, Cut)
      PROVE  \E k \in 0 .. (Len(text) - 1) : t = Append(SubSeq(text, 1, k), Cut)
  BY <1>4, <1>6, Zenon
<1>7. ASSUME NEW u \in firsts, t = Append(u, Half), IsServer(text[Len(u) + 1])
      PROVE  \E k \in 0 .. (Len(text) - 1) :
                 t = Append(SubSeq(text, 1, k), Half) /\ IsServer(text[k + 1])
  BY <1>4, <1>7, Zenon
<1> QED
  BY <1>3, <1>5, <1>6, <1>7, Zenon

\* What is left of a write that did not end is a text of the file's kind.
LEMMA TornIs ==
    ASSUME NEW path \in Path, NEW text \in Seq(Line), path \in Naming => text \in Named,
           NEW t \in Torn(path, text)
    PROVE  t \in Seq(Line) /\ (path \in Naming => t \in Named)
<1>1. <<>> \in Seq(Line) /\ <<Cut>> \in Seq(Line) /\ <<>> \in Named /\ <<Cut>> \in Named
      /\ Append(<<>>, Cut) = <<Cut>> /\ Cut \in Line /\ Half \in Line
  BY LinesAre DEF Named
<1>2. CASE path \in Json
  <2>1. t = <<>> \/ t = <<Cut>>
    BY <1>2 DEF Torn
  <2> QED
    BY <1>1, <2>1
<1>3. CASE path \notin Json
  <2>1. PICK k \in 0 .. (Len(text) - 1) :
           \/ t = SubSeq(text, 1, k) \/ t = Append(SubSeq(text, 1, k), Cut)
           \/ t = Append(SubSeq(text, 1, k), Half) /\ IsServer(text[k + 1])
    BY <1>3, TornOne
  <2>2. PICK w : w = SubSeq(text, 1, k)
    OBVIOUS
  <2>3. w \in Seq(Line) /\ Append(w, Cut) \in Seq(Line) /\ Append(w, Half) \in Seq(Line)
    BY <1>1, <2>1, <2>2
  <2>4. ASSUME path \in Naming PROVE t \in Named
    <3>1. text \in Named
      BY <2>4
    <3>2. \/ text = <<>> \/ text = <<Cut>>
          \/ \E id \in Identity, c \in Checkout : text = <<About(id, c)>>
      BY <3>1, NamedIs
    <3>3. Len(text) = 0 \/ Len(text) = 1
      BY <3>2
    <3>4. k = 0 /\ k + 1 = 1 /\ Len(text) = 1
      BY <2>1, <3>3
    <3>5. w = <<>>
      BY <2>2, <3>4
    <3>6. ~IsServer(text[1])
      <4>1. text[1] = Cut \/ \E id \in Identity, c \in Checkout : text[1] = About(id, c)
        BY <3>2, <3>4
      <4>2. ~IsServer(Cut) /\ \A id \in Identity, c \in Checkout : ~IsServer(About(id, c))
        BY DEF IsServer, Cut, About
      <4> QED
        BY <4>1, <4>2
    <3>7. t = w \/ t = Append(w, Cut)
      BY <2>1, <2>2, <3>4, <3>6
    <3> QED
      BY <1>1, <3>5, <3>7
  <2> QED
    BY <2>1, <2>2, <2>3, <2>4
<1> QED
  BY <1>2, <1>3

LEMMA DieTypes ==
    ASSUME FilesInv, NEW p \in Command, Die(p)
    PROVE  FilesInv'
<1>1. Others(p) /\ UNCHANGED <<identity, checkout, hooked, edits, alone, prior>>
  BY MovesLeave DEF Moves, Die
<1>2. /\ Running(p) /\ pc' = [pc EXCEPT ![p] = "dead"] /\ at' = [at EXCEPT ![p] = 0]
      /\ draft' = [draft EXCEPT ![p] = <<>>]
      /\ \/ disk' = disk
         \/ /\ pc[p] = "write"
            /\ \E t \in Torn(Files[at[p]], draft[p]) :
                   disk' = [disk EXCEPT ![Files[at[p]]] = Held(t)]
  BY DEF Die
<1>3. CommandSound(p) /\ draft[p] \in Seq(Line)
  BY TypesAre
<1>4. disk' \in [Path -> ProjectFile] /\ \A q \in Naming : disk'[q].text \in Named
  <2>1. CASE disk' = disk
    BY <2>1 DEF FilesInv, FootprintTypeOK
  <2>2. CASE disk' # disk
    <3>1. pc[p] = "write"
      BY <1>2, <2>2
    <3>2. PICK t \in Torn(Files[at[p]], draft[p]) : disk' = [disk EXCEPT ![Files[at[p]]] = Held(t)]
      BY <1>2, <2>2
    <3>3. at[p] \in 1 .. 7
      BY <1>3, <3>1 DEF CommandSound
    <3>4. PICK path \in Path : path = Files[at[p]]
      BY <3>3, PathsAre
    <3>5. path \in Naming => draft[p] \in Named
      BY <1>3, <3>1, <3>4 DEF CommandSound
    <3>6. t \in Seq(Line) /\ (path \in Naming => t \in Named)
      BY <1>3, <3>2, <3>4, <3>5, TornIs
    <3> QED
      BY <3>2, <3>4, <3>6, PutIs DEF Held
  <2> QED
    BY <2>1, <2>2
<1>a. pc' \in [Command -> States]
  <2>1. pc \in [Command -> States] /\ "dead" \in States
    BY DEF FilesInv, FootprintTypeOK, States
  <2> QED
    BY <1>2, <2>1
<1>b. at' \in [Command -> 0 .. 7]
  <2>1. at \in [Command -> 0 .. 7]
    BY PathsAre DEF FilesInv, FootprintTypeOK
  <2> QED
    BY <1>2, <2>1
<1>c. draft' \in [Command -> Seq(Line)]
  <2>1. <<>> \in Seq(Line) /\ draft \in [Command -> Seq(Line)]
    BY DEF FilesInv, FootprintTypeOK
  <2> QED
    BY <1>2, <2>1
<1>5. FootprintTypeOK'
  BY <1>1, <1>4, <1>a, <1>b, <1>c, PathsAre DEF FilesInv, FootprintTypeOK, States
<1>6. CommandSound(p)'
  <2>1. pc'[p] = "dead"
    BY <1>2 DEF FilesInv, FootprintTypeOK
  <2>2. checkout'[p] \in Checkout
    BY <1>1, <1>2, <1>3 DEF CommandSound, Running
  <2> QED
    BY <2>1, <2>2 DEF CommandSound
<1> QED
  BY <1>1, <1>5, <1>6, OthersSound DEF FilesInv

\* An entry into which the owner put another hook is still one.
LEMMA EntryGrows ==
    ASSUME NEW x \in Line, x.is = "entry"
    PROVE  [x EXCEPT !.runs = @ \union {"theirs"}] \in Line
<1>1. x \in [is : {"entry"}, on : Event, runs : SUBSET (Checkout \union {"theirs"})]
  BY DEF Line
<1>2. [x EXCEPT !.runs = @ \union {"theirs"}]
         \in [is : {"entry"}, on : Event, runs : SUBSET (Checkout \union {"theirs"})]
  BY <1>1
<1> QED
  BY <1>2 DEF Line

\* What an edit makes of a file.
LEMMA OwnerIs ==
    ASSUME FilesInv, Owner
    PROVE  \E path \in Path, there \in BOOLEAN, t \in Seq(Line) :
              /\ path \in Naming => t \in Named
              /\ Edit(path, [there |-> there, text |-> t])
<1>0. {"AGENTS.md", "CLAUDE.md", "settings.json"} \subseteq Path /\ Documents \subseteq Path
      /\ edits \in Nat /\ \A path \in Documents : path \notin Naming
  BY PathsAre, MaxEditsIsNat DEF Documents, Naming, FilesInv, FootprintTypeOK
<1>9. \A path \in Path : disk[path].text \in Seq(Line)
  <2>1. disk \in [Path -> ProjectFile]
    BY DEF FilesInv, FootprintTypeOK
  <2> QED
    BY <2>1 DEF ProjectFile
<1>1. CASE AddLine
  <2>1. PICK d \in Documents : \/ Edit(d, Held(Append(disk[d].text, Theirs(edits + 1))))
                               \/ Edit(d, Held(<<Theirs(edits + 1)>> \o disk[d].text))
    BY <1>1 DEF AddLine
  <2>2. PICK x \in Line : x = Theirs(edits + 1)
    BY <1>0, LinesAre
  <2>3. PICK text \in Seq(Line) : text = disk[d].text
    BY <1>0, <1>9
  <2>4. Append(text, x) \in Seq(Line) /\ <<x>> \o text \in Seq(Line)
    <3>1. <<x>> \in Seq(Line)
      OBVIOUS
    <3> QED
      BY <3>1
  <2> QED
    BY <1>0, <2>1, <2>2, <2>3, <2>4 DEF Held
<1>2. CASE DeleteLine
  <2>0. PICK d \in Documents : \E i \in 1 .. Len(disk[d].text) :
                                  Edit(d, Held(RemoveAt(disk[d].text, i)))
    BY <1>2 DEF DeleteLine
  <2>1. PICK i \in 1 .. Len(disk[d].text) : Edit(d, Held(RemoveAt(disk[d].text, i)))
    BY <2>0
  <2>2. PICK text \in Seq(Line) : text = disk[d].text
    BY <1>0, <1>9
  <2>3. RemoveAt(text, i) \in Seq(Line)
    <3>0. i \in 1 .. Len(text) /\ Len(text) \in Nat
      BY <2>1, <2>2
    <3>3. SubSeq(text, 1, i - 1) \in Seq(Line)
      <4>1. SubSeq(text, 0 + 1, i - 1) \in Seq(Line)
        BY <3>0, SubIs
      <4>2. 0 + 1 = 1
        OBVIOUS
      <4> QED
        BY <4>1, <4>2
    <3>4. SubSeq(text, i + 1, Len(text)) \in Seq(Line)
      BY <3>0, SubIs
    <3>5. PICK pre \in Seq(Line) : pre = SubSeq(text, 1, i - 1)
      BY <3>3
    <3>1. PICK post \in Seq(Line) : post = SubSeq(text, i + 1, Len(text))
      BY <3>4
    <3>2. pre \o post \in Seq(Line)
      OBVIOUS
    <3> QED
      BY <3>1, <3>2, <3>5 DEF RemoveAt
  <2> QED
    BY <1>0, <2>1, <2>2, <2>3 DEF Held
<1>3. CASE DeleteFile
  <2>1. PICK path \in Path : Edit(path, Absent)
    BY <1>3 DEF DeleteFile
  <2>2. <<>> \in Seq(Line) /\ <<>> \in Named
    BY DEF Named
  <2> QED
    BY <2>1, <2>2 DEF Absent
<1>4. CASE AddHook
  <2>1. PICK text \in Seq(Line) : text = disk["settings.json"].text
    BY <1>0, <1>9
  <2>2. PICK e \in Event :
            \/ Edit("settings.json", Held(Append(text, Entry(e, {"theirs"}))))
            \/ \E i \in 1 .. Len(text) :
                 /\ text[i].is = "entry" /\ text[i].on = e
                 /\ Edit("settings.json", Held([text EXCEPT ![i].runs = @ \union {"theirs"}]))
    BY <1>4, <2>1 DEF AddHook
  <2>3. "settings.json" \notin Naming
    BY DEF Naming
  <2>4. CASE Edit("settings.json", Held(Append(text, Entry(e, {"theirs"}))))
    <3>1. PICK x \in Line : x = Entry(e, {"theirs"})
      BY LinesAre
    <3>2. Append(text, x) \in Seq(Line)
      OBVIOUS
    <3> QED
      BY <1>0, <2>3, <2>4, <3>1, <3>2 DEF Held
  <2>5. CASE \E i \in 1 .. Len(text) :
                 /\ text[i].is = "entry" /\ text[i].on = e
                 /\ Edit("settings.json", Held([text EXCEPT ![i].runs = @ \union {"theirs"}]))
    <3>1. PICK i \in 1 .. Len(text) :
                 /\ text[i].is = "entry"
                 /\ Edit("settings.json", Held([text EXCEPT ![i].runs = @ \union {"theirs"}]))
      BY <2>5
    <3>2. PICK x \in Line : x = [text[i] EXCEPT !.runs = @ \union {"theirs"}]
      BY <3>1, EntryGrows
    <3>3. [text EXCEPT ![i].runs = @ \union {"theirs"}] = [text EXCEPT ![i] = x]
      BY <3>2
    <3>4. [text EXCEPT ![i] = x] \in Seq(Line)
      OBVIOUS
    <3> QED
      BY <1>0, <2>3, <3>1, <3>3, <3>4 DEF Held
  <2> QED
    BY <2>2, <2>4, <2>5
<1> QED
  BY <1>1, <1>2, <1>3, <1>4 DEF Owner

LEMMA OwnerTypes ==
    ASSUME FilesInv, Owner
    PROVE  FilesInv'
<1>1. PICK path \in Path, there \in BOOLEAN, t \in Seq(Line) :
              /\ path \in Naming => t \in Named
              /\ Edit(path, [there |-> there, text |-> t])
  BY OwnerIs
<1>2. /\ edits < MaxEdits /\ edits' = edits + 1 /\ alone' = Nobody /\ prior' = Nobody
      /\ disk' = [disk EXCEPT ![path] = [there |-> there, text |-> t]]
      /\ UNCHANGED <<pc, at, draft, identity, checkout, hooked>>
  BY <1>1 DEF Edit, Disturbed
<1>3. disk' \in [Path -> ProjectFile] /\ \A q \in Naming : disk'[q].text \in Named
  BY <1>1, <1>2, PutIs
<1>4. edits' \in 0 .. MaxEdits
  BY <1>2, MaxEditsIsNat DEF FilesInv, FootprintTypeOK
<1>5. FootprintTypeOK'
  BY <1>2, <1>3, <1>4 DEF FilesInv, FootprintTypeOK
<1>6. \A p \in Command : CommandSound(p)'
  BY <1>2 DEF FilesInv, CommandSound
<1> QED
  BY <1>5, <1>6 DEF FilesInv

LEMMA FootprintStarts == FootprintInit => FilesInv
<1> SUFFICES ASSUME FootprintInit PROVE FilesInv
  OBVIOUS
<1>1. FootprintTypeOK
  <2>1. <<>> \in Seq(Line) /\ 0 \in 0 .. Len(Files) /\ edits \in 0 .. MaxEdits
    BY PathsAre, MaxEditsIsNat DEF FootprintInit
  <2> QED
    BY <2>1, ProjectsAreTrees DEF FootprintInit, FootprintTypeOK
<1>2. \A p \in Command : CommandSound(p)
  BY DEF FootprintInit, CommandSound
<1> QED
  BY <1>1, <1>2 DEF FilesInv

LEMMA FilesNext == FilesInv /\ [FootprintNext]_footprintVars => FilesInv'
<1> SUFFICES ASSUME FilesInv, [FootprintNext]_footprintVars PROVE FilesInv'
  OBVIOUS
<1>1. CASE UNCHANGED footprintVars
  <2>1. FootprintTypeOK'
    BY <1>1 DEF FilesInv, FootprintTypeOK, footprintVars
  <2>2. \A p \in Command : CommandSound(p)'
    BY <1>1 DEF FilesInv, CommandSound, footprintVars
  <2> QED
    BY <2>1, <2>2 DEF FilesInv
<1>2. ASSUME NEW p \in Command, Step(p) PROVE FilesInv'
  BY <1>2, StartTypes, IdentityTypes, KeepTypes, ReadTypes, WriteTypes, DieTypes DEF Step
<1> QED
  BY <1>1, <1>2, OwnerTypes DEF FootprintNext

(***************************************************************************)
(* The project's files, and what each command knows, keep their types.     *)
(***************************************************************************)
THEOREM FootprintTypes == FootprintSpec => []FootprintTypeOK
<1>1. FilesInv => FootprintTypeOK
  BY DEF FilesInv
<1> QED
  BY FootprintStarts, FilesNext, <1>1, PTL DEF FootprintSpec

-----------------------------------------------------------------------------
(***************************************************************************)
(* Footprint: no command makes a second block, server or hook entry.       *)
(***************************************************************************)
OnceText(path, t) ==
    /\ path \in Documents => OneBegin(t) /\ ~Broken(t)
    /\ path \in {"mcp.json", "config.toml"} => OneServer(t)
    /\ path = "settings.json" => \A e \in Event : /\ \A i, j \in OursOn(t, e) : i = j
                                                /\ \A d \in Checkout : OneHook(t, e, d)

Untouched == edits = 0 /\ \A p \in Command : pc[p] # "dead"

\* What is about to be written holds one of each as well: it was made of a file that did.
OnceInv ==
    Untouched => /\ \A path \in Path : OnceText(path, disk[path].text)
                 /\ \A p \in Command : pc[p] = "write" => OnceText(Files[at[p]], draft[p])

LEMMA MergedOnce ==
    ASSUME NEW id \in Identity, NEW c \in Checkout, NEW path \in Path, NEW text \in Seq(Line),
           OnceText(path, text)
    PROVE  OnceText(path, MergedBy(id, c, path, text))
<1>1. PICK new : new = MergedBy(id, c, path, text)
  OBVIOUS
<1>2. \/ path \in {"mcp.json", "config.toml"} /\ new = MergeServer(text, c)
      \/ path = "settings.json" /\ new = MergeClaudeSettings(text, c)
      \/ path \in Documents /\ new = SpliceMarkedBlock(text, BootstrapParagraph(id, c))
      \/ path \in Naming /\ new = <<About(id, c)>>
  BY <1>1, MergedCases
<1>3. CASE path \in {"mcp.json", "config.toml"} /\ new = MergeServer(text, c)
  <2>1. OneServer(new)
    BY <1>3, MergeServerIs DEF OnceText
  <2> QED
    BY <1>1, <1>3, <2>1 DEF OnceText, Documents
<1>4. CASE path = "settings.json" /\ new = MergeClaudeSettings(text, c)
  <2>1. Registers(new, text, c)
    BY <1>4, MergeSettingsIs
  <2>2. \A e \in Event : \A i, j \in OursOn(new, e) : i = j
    BY <2>1 DEF Registers
  <2>3. \A e \in Event : \A d \in Checkout : OneHook(text, e, d)
    BY <1>4 DEF OnceText
  <2>4. \A e \in Event : \A d \in Checkout : OneHook(new, e, d)
    BY <2>1, <2>3 DEF Registers
  <2> QED
    BY <1>1, <1>4, <2>2, <2>4 DEF OnceText, Documents
<1>5. CASE path \in Documents /\ new = SpliceMarkedBlock(text, BootstrapParagraph(id, c))
  <2>1. PICK a \in Line \ Marks : a = About(id, c)
    BY LinesAre
  <2>2. new = SpliceMarkedBlock(text, <<Begin, a, End>>)
    BY <1>5, <2>1 DEF BootstrapParagraph
  <2>3. OneBegin(new) /\ MarkedBlock(new) = <<Begin, a, End>>
    BY <1>5, <2>2, SpliceIs DEF OnceText
  <2>4. <<Begin, a, End>> # <<>>
    OBVIOUS
  <2>5. ~Broken(new)
    BY <2>3, <2>4 DEF Broken
  <2> QED
    BY <1>1, <1>5, <2>3, <2>5 DEF OnceText, Documents
<1>6. CASE path \in Naming /\ new = <<About(id, c)>>
  <2>1. path \notin Documents /\ path \notin {"mcp.json", "config.toml"} /\ path # "settings.json"
    BY <1>6 DEF Naming, Documents
  <2> QED
    BY <1>1, <2>1 DEF OnceText
<1> QED
  BY <1>2, <1>3, <1>4, <1>5, <1>6

\* A project of one of each is one whose texts are so.
LEMMA OnceIs ==
    ASSUME NEW files \in [Path -> ProjectFile]
    PROVE  OneOfEach(files) /\ (\A d \in Documents : ~Broken(files[d].text))
              <=> \A path \in Path : OnceText(path, files[path].text)
<1>1. \A path \in Path : files[path].text \in Seq(Line)
  BY DEF ProjectFile
<1>2. Documents \subseteq Path /\ {"mcp.json", "config.toml"} \subseteq Path
      /\ "settings.json" \in Path
  BY PathsAre DEF Documents
<1>3. ASSUME NEW d \in Documents
      PROVE  Cardinality({i \in 1 .. Len(files[d].text) : files[d].text[i] = Begin}) <= 1
                <=> OneBegin(files[d].text)
  <2>1. Len(files[d].text) \in Nat
    BY <1>1, <1>2
  <2>2. PICK S \in SUBSET (1 .. Len(files[d].text)) :
           S = {i \in 1 .. Len(files[d].text) : files[d].text[i] = Begin}
    OBVIOUS
  <2>3. Cardinality(S) <= 1 <=> \A i, j \in S : i = j
    BY <2>1, AtMostOne
  <2>4. (\A i, j \in S : i = j) <=> OneBegin(files[d].text)
    BY <2>2 DEF OneBegin
  <2> QED
    BY <2>2, <2>3, <2>4
<1>4. ASSUME NEW d \in {"mcp.json", "config.toml"}
      PROVE  Cardinality({i \in 1 .. Len(files[d].text) : IsServer(files[d].text[i])}) <= 1
                <=> OneServer(files[d].text)
  <2>1. Len(files[d].text) \in Nat
    BY <1>1, <1>2
  <2>2. PICK S \in SUBSET (1 .. Len(files[d].text)) :
           S = {i \in 1 .. Len(files[d].text) : IsServer(files[d].text[i])}
    OBVIOUS
  <2>3. Cardinality(S) <= 1 <=> \A i, j \in S : i = j
    BY <2>1, AtMostOne
  <2>4. (\A i, j \in S : i = j) <=> OneServer(files[d].text)
    BY <2>2 DEF OneServer
  <2> QED
    BY <2>2, <2>3, <2>4
<1>5. ASSUME NEW e \in Event
      PROVE  Cardinality(OursOn(files["settings.json"].text, e)) <= 1
                <=> \A i, j \in OursOn(files["settings.json"].text, e) : i = j
  <2>1. Len(files["settings.json"].text) \in Nat
    BY <1>1, <1>2
  <2>2. OursOn(files["settings.json"].text, e) \in SUBSET (1 .. Len(files["settings.json"].text))
    BY DEF OursOn
  <2> QED
    BY <2>1, <2>2, AtMostOne
<1>7. ASSUME NEW e \in Event, NEW c \in Checkout
      PROVE  Cardinality(HooksOf(files["settings.json"].text, e, c)) <= 1
                <=> OneHook(files["settings.json"].text, e, c)
  <2>1. Len(files["settings.json"].text) \in Nat
    BY <1>1, <1>2
  <2>2. HooksOf(files["settings.json"].text, e, c)
            \in SUBSET (1 .. Len(files["settings.json"].text))
    BY DEF HooksOf
  <2> QED
    BY <2>1, <2>2, AtMostOne DEF OneHook
<1>6. OneOfEach(files) <=> /\ \A d \in Documents : OneBegin(files[d].text)
                           /\ \A d \in {"mcp.json", "config.toml"} : OneServer(files[d].text)
                           /\ \A e \in Event : LET text == files["settings.json"].text IN
                                 /\ \A i, j \in OursOn(text, e) : i = j
                                 /\ \A c \in Checkout : OneHook(text, e, c)
  BY <1>3, <1>4, <1>5, <1>7 DEF OneOfEach
<1> HIDE <1>3, <1>4, <1>5, <1>7
<1> QED
  BY <1>2, <1>6 DEF OnceText

LEMMA OnceStarts == FootprintInit => OnceInv
<1> SUFFICES ASSUME FootprintInit PROVE OnceInv
  OBVIOUS
<1>1. disk \in Project /\ \A p \in Command : pc[p] # "write"
  BY DEF FootprintInit
<1>2. \A path \in Path : OnceText(path, disk[path].text)
  BY <1>1, ProjectsAreTrees, ProjectsHoldOneOfEach, OnceIs
<1> QED
  BY <1>1, <1>2 DEF OnceInv

LEMMA OnceMoves ==
    ASSUME FilesInv, OnceInv, NEW p \in Command, Moves(p), Untouched'
    PROVE  OnceInv'
<1>1. /\ Running(p) /\ Others(p) /\ UNCHANGED <<checkout, hooked, edits, alone, base, prior>>
      /\ \A q \in Command \ {p} : pc'[q] = pc[q]
  BY MovesLeave
<1>2. Untouched
  BY <1>1 DEF Untouched, Running
<1>3. /\ \A path \in Path : OnceText(path, disk[path].text)
      /\ \A q \in Command : pc[q] = "write" => OnceText(Files[at[q]], draft[q])
  BY <1>2 DEF OnceInv
<1>4. pc \in [Command -> States] /\ draft \in [Command -> Seq(Line)]
      /\ disk \in [Path -> ProjectFile] /\ CommandSound(p)
  BY DEF FilesInv, FootprintTypeOK, States
<1>5. ASSUME NEW q \in Command \ {p}, pc'[q] = "write" PROVE OnceText(Files[at'[q]], draft'[q])
  BY <1>1, <1>3, <1>5 DEF Others
<1>6. CASE ExistingIdentity(p) \/ Refuse(p) \/ Keep(p) \/ Throw(p)
  <2>1. disk' = disk
    BY <1>6 DEF ExistingIdentity, Refuse, Keep, Throw
  <2>2. pc'[p] # "write"
    <3>1. CASE ExistingIdentity(p) \/ Refuse(p) \/ Throw(p)
      BY <1>4, <3>1 DEF ExistingIdentity, Refuse, Throw
    <3>2. CASE Keep(p)
      BY <1>4, <3>2 DEF Keep, Advance, After
    <3> QED
      BY <1>6, <3>1, <3>2
  <2> QED
    BY <1>3, <1>5, <2>1, <2>2 DEF OnceInv
<1>7. CASE ReadFile(p)
  <2>1. /\ pc[p] = "read" /\ UNCHANGED <<disk, at>>
        /\ draft' = [draft EXCEPT ![p] = Merged(p, Files[at[p]], disk[Files[at[p]]].text)]
    BY <1>7 DEF ReadFile
  <2>2. PICK path \in Path : path = Files[at[p]]
    BY <1>4, <2>1, PathsAre DEF CommandSound
  <2>3. identity[p] \in Identity /\ checkout[p] \in Checkout /\ disk[path].text \in Seq(Line)
    BY <1>4, <2>1, TypesAre DEF CommandSound
  <2>4. draft'[p] = MergedBy(identity[p], checkout[p], path, disk[path].text)
    BY <1>4, <2>1, <2>2, MergedIs
  <2>5. OnceText(path, draft'[p])
    BY <1>3, <2>3, <2>4, MergedOnce
  <2>6. OnceText(Files[at'[p]], draft'[p])
    BY <2>1, <2>2, <2>5
  <2> QED
    BY <1>3, <1>5, <2>1, <2>6 DEF OnceInv
<1>8. CASE WriteFile(p)
  <2>1. pc[p] = "write" /\ disk' = [disk EXCEPT ![Files[at[p]]] = Held(draft[p])] /\ Advance(p)
    BY <1>8 DEF WriteFile
  <2>2. PICK path \in Path : path = Files[at[p]]
    BY <1>4, <2>1, PathsAre DEF CommandSound
  <2>3. OnceText(path, draft[p])
    BY <1>3, <2>1, <2>2
  <2>4. ASSUME NEW q \in Path PROVE OnceText(q, disk'[q].text)
    <3>1. disk'[q] = IF q = path THEN Held(draft[p]) ELSE disk[q]
      BY <1>4, <2>1, <2>2
    <3>2. CASE q = path
      <4>1. disk'[q].text = draft[p]
        BY <3>1, <3>2 DEF Held
      <4> QED
        BY <2>3, <3>2, <4>1
    <3>3. CASE q # path
      BY <1>3, <3>1, <3>3
    <3> QED
      BY <3>2, <3>3
  <2>5. pc'[p] # "write"
    BY <1>4, <2>1 DEF Advance, After
  <2> QED
    BY <1>5, <2>4, <2>5 DEF OnceInv
<1>9. CASE Die(p)
  <2>1. pc'[p] = "dead"
    BY <1>4, <1>9 DEF Die
  <2> QED
    BY <2>1 DEF Untouched
<1> QED
  BY <1>6, <1>7, <1>8, <1>9 DEF Moves

LEMMA OnceNext == FilesInv /\ OnceInv /\ [FootprintNext]_footprintVars => OnceInv'
<1> SUFFICES ASSUME FilesInv, OnceInv, [FootprintNext]_footprintVars, Untouched' PROVE OnceInv'
  BY DEF OnceInv
<1>1. CASE UNCHANGED footprintVars
  BY <1>1 DEF OnceInv, Untouched, footprintVars
<1>2. CASE Owner
  <2>1. PICK path \in Path, there \in BOOLEAN, t \in Seq(Line) :
              Edit(path, [there |-> there, text |-> t])
    BY <1>2, OwnerIs
  <2>2. edits' = edits + 1 /\ edits \in Nat
    BY <2>1, MaxEditsIsNat DEF Edit, FilesInv, FootprintTypeOK
  <2> QED
    BY <2>2 DEF Untouched
<1>3. ASSUME NEW p \in Command, NEW c \in Checkout, NEW h \in BOOLEAN, Start(p, c, h)
      PROVE  OnceInv'
  <2>1. /\ pc[p] = "none" /\ pc' = [pc EXCEPT ![p] = "identity"]
        /\ UNCHANGED <<disk, at, draft, edits>> /\ pc \in [Command -> States]
    BY <1>3 DEF Start, FilesInv, FootprintTypeOK, States
  <2>2. Untouched
    BY <2>1 DEF Untouched
  <2> QED
    BY <2>1, <2>2 DEF OnceInv
<1>4. ASSUME NEW p \in Command, Step(p) PROVE OnceInv'
  BY <1>3, <1>4, OnceMoves DEF Step, Moves
<1> QED
  BY <1>1, <1>2, <1>4 DEF FootprintNext

(***************************************************************************)
(* As long as the owner has not touched a file and no write was torn, at   *)
(* most one block and one server stands in every file, and for each event  *)
(* one hook of each checkout and one whose path has slashes, however       *)
(* commands overlap and wherever they are run from.                        *)
(***************************************************************************)
THEOREM NothingStacks == FootprintSpec => []NeverStacks
<1>1. FilesInv /\ OnceInv => NeverStacks
  <2> SUFFICES ASSUME FilesInv, OnceInv, Untouched PROVE OneOfEach(disk)
    BY DEF NeverStacks, Untouched
  <2>1. disk \in [Path -> ProjectFile]
    BY DEF FilesInv, FootprintTypeOK
  <2> QED
    BY <2>1, OnceIs DEF OnceInv
<1> QED
  BY FootprintStarts, OnceStarts, FilesNext, OnceNext, <1>1, PTL DEF FootprintSpec

-----------------------------------------------------------------------------
(***************************************************************************)
(* Footprint: a command alone writes what it makes of what it found.       *)
(***************************************************************************)
ResultOf(id, c, path, file) ==
    IF path = "profile.yaml" /\ file.there THEN file ELSE Held(MergedBy(id, c, path, file.text))

\* A command is through with its j-th file.
Dealt(p, j) == \/ pc[p] \in {"read", "write"} /\ j < at[p]
               \/ pc[p] = "done" /\ (j < 7 \/ hooked[p])

\* The files it is through with are what it makes of what it found, the others are as it
\* found them, and the identity it writes is the one it found, if it found one.
Proceeds(p) ==
    /\ base[1]["installation.json"].there =>
           Whole(base[1]) /\ identity[p] = Installed(base[1]).of
    /\ \A j \in 1 .. 7 :
           disk[Files[j]] = IF Dealt(p, j)
                            THEN ResultOf(identity[p], checkout[p], Files[j], base[1][Files[j]])
                            ELSE base[1][Files[j]]
    /\ \A j \in {3, 7} : Dealt(p, j) => Parses(base[1][Files[j]].text)
    /\ pc[p] = "write" =>
           /\ Held(draft[p])
                = ResultOf(identity[p], checkout[p], Files[at[p]], base[1][Files[at[p]]])
           /\ at[p] \in {3, 7} => Parses(base[1][Files[at[p]]].text)

AloneIs(p) ==
    /\ base[1] \in [Path -> ProjectFile] /\ \A path \in Naming : base[1][path].text \in Named
    /\ \A q \in Command \ {p} : ~Running(q)
    /\ pc[p] = "identity" => disk = base[1]
    /\ pc[p] \in {"read", "write", "done"} => Proceeds(p)

AloneInv == \A p \in Command : alone = p => AloneIs(p)

LEMMA DealtMoves ==
    ASSUME FilesInv, NEW p \in Command, pc[p] \in {"read", "write"}, Advance(p),
           UNCHANGED hooked
    PROVE  /\ \A j \in 1 .. 7 : Dealt(p, j)' <=> Dealt(p, j) \/ j = at[p]
           /\ ~Dealt(p, at[p])
           /\ pc'[p] # "write"
<1>1. pc \in [Command -> States] /\ at \in [Command -> 0 .. 7] /\ CommandSound(p)
  BY PathsAre DEF FilesInv, FootprintTypeOK, States
<1>2. at[p] \in 1 .. 7 /\ (at[p] = 7 => hooked[p])
  BY <1>1 DEF CommandSound
<1>3. \/ /\ pc'[p] = "done" /\ at'[p] = 0
         /\ at[p] = 7 \/ (at[p] = 6 /\ ~hooked[p])
      \/ /\ pc'[p] = "read" /\ at'[p] = at[p] + 1
  BY <1>1, AdvanceIs
<1>4. \A j \in 1 .. 7 : Dealt(p, j) <=> j < at[p]
  BY DEF Dealt
<1>5. CASE pc'[p] = "done"
  BY <1>2, <1>3, <1>4, <1>5 DEF Dealt
<1>6. CASE pc'[p] = "read"
  BY <1>2, <1>3, <1>4, <1>6 DEF Dealt
<1> QED
  BY <1>3, <1>5, <1>6

LEMMA AloneStarts == FootprintInit => AloneInv
  BY NobodyIsNoCommand DEF FootprintInit, AloneInv

LEMMA AloneBegins ==
    ASSUME FilesInv, NEW p \in Command, NEW c \in Checkout, NEW h \in BOOLEAN, Start(p, c, h),
           alone' = p
    PROVE  AloneIs(p)'
<1>1. /\ pc[p] = "none" /\ pc' = [pc EXCEPT ![p] = "identity"] /\ disk' = disk
      /\ pc \in [Command -> States]
  BY DEF Start, FilesInv, FootprintTypeOK, States
<1>2. ~(\E q \in Command : Running(q)) /\ base' = <<disk>>
  BY NobodyIsNoCommand DEF Start, Disturbed
<1>3. base'[1] = disk
  BY <1>2
<1>4. disk \in [Path -> ProjectFile] /\ \A path \in Naming : disk[path].text \in Named
  BY DEF FilesInv, FootprintTypeOK
<1>5. \A q \in Command \ {p} : ~Running(q)'
  BY <1>1, <1>2 DEF Running
<1>6. pc'[p] = "identity"
  BY <1>1
<1> QED
  BY <1>1, <1>3, <1>4, <1>5, <1>6 DEF AloneIs

LEMMA AloneIdentifies ==
    ASSUME FilesInv, NEW p \in Command, AloneIs(p), ExistingIdentity(p)
    PROVE  Proceeds(p)'
<1>1. /\ pc[p] = "identity" /\ identity' = [identity EXCEPT ![p] = IdentityOf(p)]
      /\ disk["installation.json"].there => Whole(disk)
      /\ pc' = [pc EXCEPT ![p] = "read"] /\ at' = [at EXCEPT ![p] = 1]
      /\ UNCHANGED <<disk, checkout, base>> /\ disk = base[1]
  BY DEF ExistingIdentity, Readable, AloneIs
<1>2. /\ pc \in [Command -> States] /\ at \in [Command -> 0 .. 7]
      /\ identity \in [Command -> Identity \union {Nobody}]
  BY PathsAre DEF FilesInv, FootprintTypeOK, States
<1>3. pc'[p] = "read" /\ at'[p] = 1 /\ identity'[p] = IdentityOf(p)
  BY <1>1, <1>2
<1>4. \A j \in 1 .. 7 : ~Dealt(p, j)'
  BY <1>3 DEF Dealt
<1>5. base'[1] = disk /\ disk' = disk
  BY <1>1
<1>6. disk["installation.json"].there => Whole(disk) /\ identity'[p] = Installed(disk).of
  BY <1>1, <1>3 DEF IdentityOf
<1> QED
  BY <1>3, <1>4, <1>5, <1>6 DEF Proceeds

LEMMA AloneReads ==
    ASSUME FilesInv, NEW p \in Command, AloneIs(p), ReadFile(p)
    PROVE  Proceeds(p)'
<1>1. /\ pc[p] = "read" /\ pc' = [pc EXCEPT ![p] = "write"]
      /\ ~Kept(Files[at[p]])
      /\ Files[at[p]] \in {"mcp.json", "settings.json"} => Parses(disk[Files[at[p]]].text)
      /\ draft' = [draft EXCEPT ![p] = Merged(p, Files[at[p]], disk[Files[at[p]]].text)]
      /\ UNCHANGED <<disk, at, identity, checkout, hooked, base>> /\ Proceeds(p)
  BY DEF ReadFile, AloneIs
<1>2. pc \in [Command -> States] /\ draft \in [Command -> Seq(Line)] /\ at[p] \in 1 .. 7
  BY <1>1, TypesAre DEF FilesInv, FootprintTypeOK, States, CommandSound
<1>3. pc'[p] = "write" /\ draft'[p] = Merged(p, Files[at[p]], disk[Files[at[p]]].text)
  BY <1>1, <1>2
<1>4. \A j \in 1 .. 7 : Dealt(p, j)' <=> Dealt(p, j)
  BY <1>1, <1>3 DEF Dealt
<1>5. ~Dealt(p, at[p])
  BY <1>1, <1>2 DEF Dealt
<1>6. disk[Files[at[p]]] = base[1][Files[at[p]]]
  BY <1>1, <1>2, <1>5 DEF Proceeds
<1>7. Held(draft'[p]) = ResultOf(identity[p], checkout[p], Files[at[p]], base[1][Files[at[p]]])
  BY <1>1, <1>3, <1>6, MergedIs DEF ResultOf, Kept
<1>8. at[p] \in {3, 7} => Parses(base[1][Files[at[p]]].text)
  BY <1>1, <1>6, PathsAre
<1> QED
  BY <1>1, <1>3, <1>4, <1>7, <1>8 DEF Proceeds

LEMMA AloneWrites ==
    ASSUME FilesInv, NEW p \in Command, AloneIs(p), Keep(p) \/ WriteFile(p)
    PROVE  Proceeds(p)'
<1>1. /\ pc[p] \in {"read", "write"} /\ Advance(p) /\ Proceeds(p)
      /\ UNCHANGED <<identity, checkout, hooked, base>>
  BY DEF Keep, WriteFile, AloneIs
<1>2. disk \in [Path -> ProjectFile] /\ at[p] \in 1 .. 7
  BY <1>1, TypesAre DEF FilesInv, FootprintTypeOK, CommandSound
<1>3. /\ \A j \in 1 .. 7 : Dealt(p, j)' <=> Dealt(p, j) \/ j = at[p]
      /\ ~Dealt(p, at[p]) /\ pc'[p] # "write"
  BY <1>1, DealtMoves
<1>4. /\ \A j \in 1 .. 7 : j # at[p] => disk'[Files[j]] = disk[Files[j]]
      /\ disk'[Files[at[p]]]
            = ResultOf(identity[p], checkout[p], Files[at[p]], base[1][Files[at[p]]])
      /\ at[p] \in {3, 7} => Parses(base[1][Files[at[p]]].text)
  <2>1. CASE Keep(p)
    <3>1. disk' = disk /\ Files[at[p]] = "profile.yaml" /\ disk["profile.yaml"].there
      BY <2>1 DEF Keep, Kept
    <3>2. disk[Files[at[p]]] = base[1][Files[at[p]]]
      BY <1>1, <1>2, <1>3 DEF Proceeds
    <3>3. at[p] \notin {3, 7}
      BY <3>1, PathsAre
    <3> QED
      BY <3>1, <3>2, <3>3 DEF ResultOf
  <2>2. CASE WriteFile(p)
    <3>1. pc[p] = "write" /\ disk' = [disk EXCEPT ![Files[at[p]]] = Held(draft[p])]
      BY <2>2 DEF WriteFile
    <3>2. PICK path \in Path : path = Files[at[p]]
      BY <1>2, PathsAre
    <3>3. disk'[path] = Held(draft[p]) /\ \A q \in Path \ {path} : disk'[q] = disk[q]
      BY <1>2, <3>1, <3>2
    <3>4. \A j \in 1 .. 7 : j # at[p] => Files[j] \in Path \ {path}
      BY <1>2, <3>2, PathsAre
    <3> QED
      BY <1>1, <3>1, <3>2, <3>3, <3>4 DEF Proceeds
  <2> QED
    BY <2>1, <2>2
<1>5. \A j \in 1 .. 7 :
         disk'[Files[j]] = IF Dealt(p, j)'
                           THEN ResultOf(identity[p], checkout[p], Files[j], base[1][Files[j]])
                           ELSE base[1][Files[j]]
  BY <1>1, <1>3, <1>4 DEF Proceeds
<1>6. \A j \in {3, 7} : Dealt(p, j)' => Parses(base[1][Files[j]].text)
  BY <1>1, <1>3, <1>4 DEF Proceeds
<1> QED
  BY <1>1, <1>3, <1>5, <1>6 DEF Proceeds

LEMMA AloneMoves ==
    ASSUME FilesInv, NEW p \in Command, AloneIs(p), Moves(p)
    PROVE  AloneIs(p)'
<1>1. UNCHANGED base /\ \A q \in Command \ {p} : pc'[q] = pc[q]
  BY MovesLeave
<1>2. \A q \in Command \ {p} : ~Running(q)'
  BY <1>1 DEF AloneIs, Running
<1>3. base[1] \in [Path -> ProjectFile] /\ \A path \in Naming : base[1][path].text \in Named
  BY DEF AloneIs
<1>4. pc \in [Command -> States]
  BY DEF FilesInv, FootprintTypeOK, States
<1>5. pc'[p] # "identity"
  BY <1>4 DEF Moves, ExistingIdentity, Refuse, Keep, ReadFile, Throw, WriteFile, Die, Advance, After
<1>6. ASSUME pc'[p] \in {"read", "write", "done"} PROVE Proceeds(p)'
  <2>1. ~Refuse(p) /\ ~Throw(p) /\ ~Die(p)
    BY <1>4, <1>6 DEF Refuse, Throw, Die
  <2> QED
    BY <2>1, AloneIdentifies, AloneReads, AloneWrites DEF Moves
<1> QED
  BY <1>1, <1>2, <1>3, <1>5, <1>6 DEF AloneIs

LEMMA AloneNext == FilesInv /\ AloneInv /\ [FootprintNext]_footprintVars => AloneInv'
<1> SUFFICES ASSUME FilesInv, AloneInv, [FootprintNext]_footprintVars, NEW p \in Command, alone' = p
             PROVE  AloneIs(p)'
  BY DEF AloneInv
<1>1. CASE UNCHANGED footprintVars
  BY <1>1 DEF AloneInv, AloneIs, Proceeds, Dealt, Running, footprintVars
<1>2. CASE Owner
  <2>1. PICK path \in Path, there \in BOOLEAN, t \in Seq(Line) :
              Edit(path, [there |-> there, text |-> t])
    BY <1>2, OwnerIs
  <2> QED
    BY <2>1, NobodyIsNoCommand DEF Edit, Disturbed
<1>3. ASSUME NEW q \in Command, NEW c \in Checkout, NEW h \in BOOLEAN, Start(q, c, h)
      PROVE  AloneIs(p)'
  <2>1. q = p
    BY <1>3, NobodyIsNoCommand DEF Start, Disturbed
  <2> QED
    BY <1>3, <2>1, AloneBegins
<1>4. ASSUME NEW q \in Command, Moves(q) PROVE AloneIs(p)'
  <2>1. Running(q) /\ alone' = alone
    BY <1>4, MovesLeave
  <2>2. AloneIs(p)
    BY <2>1 DEF AloneInv
  <2>3. q = p
    BY <2>1, <2>2 DEF AloneIs
  <2> QED
    BY <1>4, <2>2, <2>3, AloneMoves
<1> QED
  BY <1>1, <1>2, <1>3, <1>4 DEF FootprintNext, Step, Moves

\* Whoever writes them, and however a write ends, the two lists of servers hold ours once at
\* most: no owner adds one, and a merge finds the one there is, torn or not.
Lists == {"mcp.json", "config.toml"}

ServersInv ==
    /\ \A path \in Lists : OneServer(disk[path].text)
    /\ \A p \in Command : pc[p] = "write" /\ Files[at[p]] \in Lists => OneServer(draft[p])
    /\ alone # Nobody => \A path \in Lists : OneServer(base[1][path].text)

LEMMA ServersStart == FootprintInit => ServersInv
<1> SUFFICES ASSUME FootprintInit PROVE ServersInv
  OBVIOUS
<1>1. disk \in Project /\ alone = Nobody /\ \A p \in Command : pc[p] # "write"
  BY DEF FootprintInit
<1>2. disk \in [Path -> ProjectFile]
  BY <1>1, ProjectsAreTrees
<1>3. \A path \in Path : OnceText(path, disk[path].text)
  BY <1>1, <1>2, ProjectsHoldOneOfEach, OnceIs
<1>4. Lists \subseteq Path
  BY PathsAre DEF Lists
<1> QED
  BY <1>1, <1>3, <1>4 DEF ServersInv, OnceText, Lists

LEMMA TornServers ==
    ASSUME NEW path \in Lists, NEW text \in Seq(Line), OneServer(text), NEW t \in Torn(path, text)
    PROVE  OneServer(t)
<1>1. CASE path \in Json
  <2>1. t = <<>> \/ t = <<Cut>>
    BY <1>1 DEF Torn
  <2> QED
    BY <2>1 DEF OneServer
<1>2. CASE path \notin Json
  <2>1. PICK k \in 0 .. (Len(text) - 1) :
           \/ t = SubSeq(text, 1, k) \/ t = Append(SubSeq(text, 1, k), Cut)
           \/ t = Append(SubSeq(text, 1, k), Half) /\ IsServer(text[k + 1])
    BY <1>2, TornOne
  <2>2. PICK w : w = SubSeq(text, 1, k)
    OBVIOUS
  <2>3. /\ w \in Seq(Line) /\ Len(w) = k /\ k \in Nat
        /\ \A i \in 1 .. k : w[i] = text[i] /\ i \in 1 .. Len(text)
    BY <2>1, <2>2
  <2>4. k + 1 \in 1 .. Len(text) /\ \A i \in 1 .. k : i # k + 1
    BY <2>1, <2>3
  <2>5. OneServer(w)
    BY <2>3 DEF OneServer
  <2>6. \A x : /\ Len(Append(w, x)) = k + 1 /\ Append(w, x)[k + 1] = x
              /\ \A i \in 1 .. k : Append(w, x)[i] = w[i]
    BY <2>3
  <2>7. \A i \in 1 .. (k + 1) : i \in 1 .. k \/ i = k + 1
    BY <2>3
  <2>8. CASE t = Append(w, Cut)
    <3>1. ~IsServer(Cut)
      BY DEF IsServer, Cut
    <3> QED
      BY <2>3, <2>5, <2>6, <2>7, <2>8, <3>1 DEF OneServer
  <2>9. CASE t = Append(w, Half) /\ IsServer(text[k + 1])
    <3>1. \A i \in 1 .. k : ~IsServer(w[i])
      BY <2>3, <2>4, <2>9 DEF OneServer
    <3> QED
      BY <2>6, <2>7, <2>9, <3>1 DEF OneServer
  <2> QED
    BY <2>1, <2>2, <2>5, <2>8, <2>9
<1> QED
  BY <1>1, <1>2

\* The owner writes no server: the lists are deleted or left alone.
LEMMA OwnerServers ==
    ASSUME FilesInv, Owner, NEW path \in Lists
    PROVE  disk'[path] = disk[path] \/ disk'[path] = Absent
<1>1. disk \in [Path -> ProjectFile] /\ path \in Path /\ path \notin Documents
      /\ path # "settings.json"
  BY PathsAre DEF FilesInv, FootprintTypeOK, Lists, Documents
<1>2. ASSUME NEW q, NEW file, Edit(q, file) PROVE disk'[path] = IF q = path THEN file ELSE disk[path]
  BY <1>1, <1>2 DEF Edit
<1>3. CASE AddLine
  BY <1>1, <1>2, <1>3 DEF AddLine
<1>4. CASE DeleteLine
  BY <1>1, <1>2, <1>4 DEF DeleteLine
<1>5. CASE DeleteFile
  BY <1>2, <1>5 DEF DeleteFile
<1>6. CASE AddHook
  <2>1. \E file : Edit("settings.json", file)
    BY <1>6 DEF AddHook
  <2> QED
    BY <1>1, <1>2, <2>1
<1> QED
  BY <1>3, <1>4, <1>5, <1>6 DEF Owner

LEMMA ServersMove ==
    ASSUME FilesInv, ServersInv, NEW p \in Command, Moves(p)
    PROVE  ServersInv'
<1>1. /\ Others(p) /\ UNCHANGED <<alone, base>> /\ \A q \in Command \ {p} : pc'[q] = pc[q]
  BY MovesLeave
<1>2. /\ \A path \in Lists : OneServer(disk[path].text)
      /\ \A q \in Command : pc[q] = "write" /\ Files[at[q]] \in Lists => OneServer(draft[q])
      /\ alone' # Nobody => \A path \in Lists : OneServer(base'[1][path].text)
  BY <1>1 DEF ServersInv
<1>3. pc \in [Command -> States] /\ draft \in [Command -> Seq(Line)]
      /\ disk \in [Path -> ProjectFile] /\ CommandSound(p) /\ Lists \subseteq Path
  BY PathsAre DEF FilesInv, FootprintTypeOK, States, Lists
<1>4. ASSUME NEW q \in Command \ {p}, pc'[q] = "write", Files[at'[q]] \in Lists
      PROVE  OneServer(draft'[q])
  BY <1>1, <1>2, <1>4 DEF Others
<1>5. CASE ExistingIdentity(p) \/ Refuse(p) \/ Keep(p) \/ Throw(p)
  <2>1. disk' = disk
    BY <1>5 DEF ExistingIdentity, Refuse, Keep, Throw
  <2>2. pc'[p] # "write"
    <3>1. CASE ExistingIdentity(p) \/ Refuse(p) \/ Throw(p)
      BY <1>3, <3>1 DEF ExistingIdentity, Refuse, Throw
    <3>2. CASE Keep(p)
      BY <1>3, <3>2 DEF Keep, Advance, After
    <3> QED
      BY <1>5, <3>1, <3>2
  <2> QED
    BY <1>2, <1>4, <2>1, <2>2 DEF ServersInv
<1>6. CASE ReadFile(p)
  <2>1. /\ pc[p] = "read" /\ UNCHANGED <<disk, at>>
        /\ draft' = [draft EXCEPT ![p] = Merged(p, Files[at[p]], disk[Files[at[p]]].text)]
    BY <1>6 DEF ReadFile
  <2>2. ASSUME Files[at[p]] \in Lists PROVE OneServer(draft'[p])
    <3>1. PICK path \in Lists : path = Files[at[p]]
      BY <2>2
    <3>2. checkout[p] \in Checkout /\ disk[path].text \in Seq(Line)
      BY <1>3, <2>1, TypesAre DEF CommandSound
    <3>3. draft'[p] = MergedBy(identity[p], checkout[p], path, disk[path].text)
      BY <1>3, <2>1, <3>1, MergedIs
    <3>5. path \in {"mcp.json", "config.toml"}
      BY DEF Lists
    <3>6. \A id, c, text : MergedBy(id, c, path, text) = MergeServer(text, c)
      BY <3>5 DEF MergedBy, Documents
    <3>4. draft'[p] = MergeServer(disk[path].text, checkout[p])
      BY <3>3, <3>6
    <3> QED
      BY <1>2, <3>2, <3>4, MergeServerIs
  <2> QED
    BY <1>2, <1>4, <2>1, <2>2 DEF ServersInv
<1>7. ASSUME NEW t, pc[p] = "write", disk' = [disk EXCEPT ![Files[at[p]]] = Held(t)],
             Files[at[p]] \in Lists => OneServer(t)
      PROVE  \A path \in Lists : OneServer(disk'[path].text)
  <2>1. PICK q \in Path : q = Files[at[p]]
    BY <1>3, <1>7, PathsAre DEF CommandSound
  <2>2. ASSUME NEW path \in Lists PROVE OneServer(disk'[path].text)
    <3>1. disk'[path] = IF path = q THEN Held(t) ELSE disk[path]
      BY <1>3, <1>7, <2>1
    <3>2. CASE path = q
      <4>1. disk'[path].text = t
        BY <3>1, <3>2 DEF Held
      <4> QED
        BY <1>7, <2>1, <3>2, <4>1
    <3>3. CASE path # q
      BY <1>2, <3>1, <3>3
    <3> QED
      BY <3>2, <3>3
  <2> QED
    BY <2>2
<1>8. CASE WriteFile(p)
  <2>1. pc[p] = "write" /\ disk' = [disk EXCEPT ![Files[at[p]]] = Held(draft[p])] /\ Advance(p)
    BY <1>8 DEF WriteFile
  <2>2. pc'[p] # "write"
    BY <1>3, <2>1 DEF Advance, After
  <2>3. \A path \in Lists : OneServer(disk'[path].text)
    BY <1>2, <1>7, <2>1
  <2> QED
    BY <1>2, <1>4, <2>2, <2>3 DEF ServersInv
<1>9. CASE Die(p)
  <2>1. pc'[p] = "dead"
    BY <1>3, <1>9 DEF Die
  <2>2. \/ disk' = disk
        \/ /\ pc[p] = "write"
           /\ \E t \in Torn(Files[at[p]], draft[p]) :
                  disk' = [disk EXCEPT ![Files[at[p]]] = Held(t)]
    BY <1>9 DEF Die
  <2>3. CASE disk' = disk
    BY <1>2, <1>4, <2>1, <2>3 DEF ServersInv
  <2>4. CASE disk' # disk
    <3>1. PICK t \in Torn(Files[at[p]], draft[p]) :
               disk' = [disk EXCEPT ![Files[at[p]]] = Held(t)]
      BY <2>2, <2>4
    <3>2. pc[p] = "write" /\ draft[p] \in Seq(Line)
      BY <1>3, <2>2, <2>4
    <3>3. Files[at[p]] \in Lists => OneServer(t)
      BY <1>2, <3>1, <3>2, TornServers
    <3>4. \A path \in Lists : OneServer(disk'[path].text)
      BY <1>7, <3>1, <3>2, <3>3
    <3> QED
      BY <1>2, <1>4, <2>1, <3>4 DEF ServersInv
  <2> QED
    BY <2>3, <2>4
<1> QED
  BY <1>5, <1>6, <1>8, <1>9 DEF Moves

LEMMA ServersNext == FilesInv /\ ServersInv /\ [FootprintNext]_footprintVars => ServersInv'
<1> SUFFICES ASSUME FilesInv, ServersInv, [FootprintNext]_footprintVars PROVE ServersInv'
  OBVIOUS
<1>1. CASE UNCHANGED footprintVars
  BY <1>1 DEF ServersInv, footprintVars
<1>2. CASE Owner
  <2>1. PICK path \in Path, there \in BOOLEAN, t \in Seq(Line) :
              Edit(path, [there |-> there, text |-> t])
    BY <1>2, OwnerIs
  <2>2. UNCHANGED <<pc, at, draft>> /\ alone' = Nobody
    BY <2>1 DEF Edit, Disturbed
  <2>3. OneServer(Absent.text)
    BY DEF OneServer, Absent
  <2>4. \A q \in Lists : OneServer(disk'[q].text)
    BY <1>2, <2>3, OwnerServers DEF ServersInv
  <2> QED
    BY <2>2, <2>4 DEF ServersInv
<1>3. ASSUME NEW p \in Command, NEW c \in Checkout, NEW h \in BOOLEAN, Start(p, c, h)
      PROVE  ServersInv'
  <2>1. /\ pc[p] = "none" /\ pc' = [pc EXCEPT ![p] = "identity"]
        /\ UNCHANGED <<disk, at, draft>> /\ pc \in [Command -> States]
        /\ alone' = Nobody \/ base' = <<disk>>
    BY <1>3 DEF Start, Disturbed, FilesInv, FootprintTypeOK, States
  <2>2. \A q \in Command : pc'[q] = "write" => pc[q] = "write"
    BY <2>1
  <2>3. alone' # Nobody => base'[1] = disk
    BY <2>1
  <2> QED
    BY <2>1, <2>2, <2>3 DEF ServersInv
<1>4. ASSUME NEW p \in Command, Step(p) PROVE ServersInv'
  BY <1>3, <1>4, ServersMove DEF Step, Moves
<1> QED
  BY <1>1, <1>2, <1>4 DEF FootprintNext

\* What a command that was alone to its end leaves of each file.
LEMMA LeavesBehind ==
    ASSUME FilesInv, AloneInv, NEW p \in Command, Completed(p)
    PROVE  /\ identity[p] \in Identity /\ checkout[p] \in Checkout
           /\ \A path \in Path : base[1][path].text \in Seq(Line)
           /\ Parses(base[1]["mcp.json"].text)
           /\ base[1]["installation.json"].there =>
                  Whole(base[1]) /\ identity[p] = Installed(base[1]).of
           /\ \A path \in Path \ {"settings.json"} :
                  disk[path] = ResultOf(identity[p], checkout[p], path, base[1][path])
           /\ IF hooked[p]
              THEN /\ Parses(base[1]["settings.json"].text)
                   /\ disk["settings.json"]
                        = Held(MergeClaudeSettings(base[1]["settings.json"].text, checkout[p]))
              ELSE disk["settings.json"] = base[1]["settings.json"]
<1>1. pc[p] = "done" /\ Proceeds(p) /\ base[1] \in [Path -> ProjectFile]
  BY DEF Completed, AloneInv, AloneIs
<1>2. identity[p] \in Identity /\ checkout[p] \in Checkout
  BY <1>1, TypesAre DEF CommandSound
<1>3. \A path \in Path : base[1][path].text \in Seq(Line)
  BY <1>1 DEF ProjectFile
<1>4. \A j \in 1 .. 6 : Dealt(p, j)
  BY <1>1 DEF Dealt
<1>5. Dealt(p, 7) <=> hooked[p]
  BY <1>1 DEF Dealt
<1>9. /\ Parses(base[1]["mcp.json"].text)
      /\ hooked[p] => Parses(base[1]["settings.json"].text)
  <2>1. Files[3] = "mcp.json" /\ Files[7] = "settings.json"
    BY PathsAre
  <2>2. \A j \in {3, 7} : Dealt(p, j) => Parses(base[1][Files[j]].text)
    BY <1>1 DEF Proceeds
  <2> QED
    BY <1>4, <1>5, <2>1, <2>2
<1>6. ASSUME NEW path \in Path \ {"settings.json"}
      PROVE  disk[path] = ResultOf(identity[p], checkout[p], path, base[1][path])
  <2>1. PICK j \in 1 .. 7 : path = Files[j]
    BY PathsAre
  <2>2. j \in 1 .. 6
    BY <1>6, <2>1, PathsAre
  <2> QED
    BY <1>1, <1>4, <2>1, <2>2 DEF Proceeds
<1>7. CASE hooked[p]
  <2>1. Files[7] = "settings.json" /\ 7 \in 1 .. 7
    BY PathsAre
  <2>2. disk["settings.json"]
          = ResultOf(identity[p], checkout[p], "settings.json", base[1]["settings.json"])
    BY <1>1, <1>5, <1>7, <2>1 DEF Proceeds
  <2>3. \A id, c, text : MergedBy(id, c, "settings.json", text) = MergeClaudeSettings(text, c)
    BY DEF MergedBy, Documents
  <2>4. disk["settings.json"]
          = Held(MergeClaudeSettings(base[1]["settings.json"].text, checkout[p]))
    BY <2>2, <2>3 DEF ResultOf
  <2> QED
    BY <1>1, <1>2, <1>3, <1>5, <1>6, <1>7, <1>9, <2>4 DEF Proceeds
<1>8. CASE ~hooked[p]
  <2>1. Files[7] = "settings.json" /\ 7 \in 1 .. 7
    BY PathsAre
  <2>2. disk["settings.json"] = base[1]["settings.json"]
    BY <1>1, <1>5, <1>8, <2>1 DEF Proceeds
  <2> QED
    BY <1>1, <1>2, <1>3, <1>6, <1>8, <1>9, <2>2 DEF Proceeds
<1> QED
  BY <1>7, <1>8

\* Both documents hold the block, and what was around it; both lists hold the server of
\* the checkout, and what was beside it, and can be read if nothing else was torn.
LEMMA LeavesDocuments ==
    ASSUME FilesInv, AloneInv, ServersInv, NEW p \in Command, Completed(p)
    PROVE  /\ \A d \in Documents : ~Broken(base[1][d].text) =>
                 /\ MarkedBlock(disk[d].text) = BootstrapParagraph(identity[p], checkout[p])
                 /\ Outside(disk[d].text) = Outside(base[1][d].text)
           /\ Launches(disk["mcp.json"].text, checkout[p])
           /\ \A path \in {"mcp.json", "config.toml"} :
                 /\ Cut \notin Range(base[1][path].text) => Launches(disk[path].text, checkout[p])
                 /\ Without(disk[path].text, Servers(disk[path].text))
                      = Without(base[1][path].text, Servers(base[1][path].text))
<1>1. /\ identity[p] \in Identity /\ checkout[p] \in Checkout
      /\ \A path \in Path : base[1][path].text \in Seq(Line)
      /\ \A path \in Path \ {"settings.json"} :
             disk[path] = ResultOf(identity[p], checkout[p], path, base[1][path])
  BY LeavesBehind
<1>2. ASSUME NEW d \in Documents, ~Broken(base[1][d].text)
      PROVE  /\ MarkedBlock(disk[d].text) = BootstrapParagraph(identity[p], checkout[p])
             /\ Outside(disk[d].text) = Outside(base[1][d].text)
  <2>1. d \in Path \ {"settings.json"} /\ d # "profile.yaml"
    BY PathsAre DEF Documents
  <2>2. PICK a \in Line \ Marks : a = About(identity[p], checkout[p])
    BY <1>1, LinesAre
  <2>3. PICK text \in Seq(Line) : text = base[1][d].text
    BY <1>1, <2>1
  <2>4. disk[d] = Held(MergedBy(identity[p], checkout[p], d, text))
    BY <1>1, <2>1, <2>3 DEF ResultOf
  <2>5. MergedBy(identity[p], checkout[p], d, text) = SpliceMarkedBlock(text, <<Begin, a, End>>)
    BY <2>2 DEF MergedBy, Documents, BootstrapParagraph
  <2>6. disk[d].text = SpliceMarkedBlock(text, <<Begin, a, End>>)
    BY <2>4, <2>5 DEF Held
  <2>7. MarkedBlock(disk[d].text) = <<Begin, a, End>> /\ Outside(disk[d].text) = Outside(text)
    BY <1>2, <2>3, <2>6, SpliceIs
  <2> QED
    BY <2>2, <2>3, <2>7 DEF BootstrapParagraph
<1>3. ASSUME NEW path \in {"mcp.json", "config.toml"}
      PROVE  /\ Cut \notin Range(base[1][path].text) => Launches(disk[path].text, checkout[p])
             /\ Without(disk[path].text, Servers(disk[path].text))
                  = Without(base[1][path].text, Servers(base[1][path].text))
  <2>1. path \in Path \ {"settings.json"} /\ path # "profile.yaml"
    BY PathsAre
  <2>2. \A id, c, text : MergedBy(id, c, path, text) = MergeServer(text, c)
    BY DEF MergedBy, Documents
  <2>5. disk[path] = Held(MergedBy(identity[p], checkout[p], path, base[1][path].text))
    BY <1>1, <2>1 DEF ResultOf
  <2>3. disk[path].text = MergeServer(base[1][path].text, checkout[p])
    BY <2>2, <2>5 DEF Held
  <2>4. base[1][path].text \in Seq(Line)
    BY <1>1, <2>1
  <2>6. OneServer(base[1][path].text)
    BY NobodyIsNoCommand DEF ServersInv, Lists, Completed
  <2> QED
    BY <1>1, <2>3, <2>4, <2>6, MergeServerIs DEF Launches
<1>4. Cut \notin Range(base[1]["mcp.json"].text)
  BY LeavesBehind DEF Parses
<1> QED
  BY <1>2, <1>3, <1>4

LEMMA LeavesIdentity ==
    ASSUME FilesInv, AloneInv, NEW p \in Command, Completed(p)
    PROVE  /\ disk["installation.json"] = Held(<<About(identity[p], checkout[p])>>)
           /\ ~base[1]["profile.yaml"].there =>
                  disk["profile.yaml"] = Held(<<About(identity[p], checkout[p])>>)
           /\ base[1]["profile.yaml"].there => disk["profile.yaml"] = base[1]["profile.yaml"]
           /\ Whole(base[1]) => identity[p] = Installed(base[1]).of
<1>1. /\ base[1]["installation.json"].there =>
                  Whole(base[1]) /\ identity[p] = Installed(base[1]).of
      /\ \A path \in Path \ {"settings.json"} :
             disk[path] = ResultOf(identity[p], checkout[p], path, base[1][path])
  BY LeavesBehind
<1>2. {"installation.json", "profile.yaml"} \subseteq Path \ {"settings.json"}
  BY PathsAre
<1>3. \A id, c, text :
         /\ MergedBy(id, c, "installation.json", text) = <<About(id, c)>>
         /\ MergedBy(id, c, "profile.yaml", text) = <<About(id, c)>>
  BY DEF MergedBy, Documents
<1> QED
  BY <1>1, <1>2, <1>3 DEF ResultOf, Whole

LEMMA LeavesHooks ==
    ASSUME FilesInv, AloneInv, NEW p \in Command, Completed(p)
    PROVE  LET old == base[1]["settings.json"].text
               new == disk["settings.json"].text
               c   == checkout[p] IN
           /\ hooked[p] =>
                 /\ c \in Slashed => ObserveHooks(disk) = "registered"
                 /\ \A e \in Event : /\ Cardinality(HooksOf(new, e, c)) = 1
                                     /\ Cardinality(OursOn(new, e)) <= 1
           /\ Without(new, Hooks(new, c)) = Without(old, Hooks(old, c))
<1>1. PICK old \in Seq(Line) : old = base[1]["settings.json"].text
  BY LeavesBehind, PathsAre
<1>2. PICK new : new = disk["settings.json"].text
  OBVIOUS
<1>3. CASE ~hooked[p]
  BY <1>3, LeavesBehind
<1>4. CASE hooked[p]
  <2>0. /\ Parses(old) /\ checkout[p] \in Checkout
        /\ disk["settings.json"] = Held(MergeClaudeSettings(old, checkout[p]))
    BY <1>1, <1>4, LeavesBehind
  <2>7. PICK c \in Checkout : c = checkout[p]
    BY <2>0
  <2>1. Parses(old) /\ new = MergeClaudeSettings(old, c)
    BY <1>2, <2>0, <2>7 DEF Held
  <2>2. Registers(new, old, c)
    BY <2>1, MergeSettingsIs
  <2>3. new \in Seq(Line) /\ Parses(new) /\ Without(new, Hooks(new, c)) = Without(old, Hooks(old, c))
        /\ \A e \in Event : /\ \E k \in 1 .. Len(new) : HooksOf(new, e, c) = {k}
                            /\ OursOn(new, e) \subseteq HooksOf(new, e, c)
    BY <2>1, <2>2, Zenon DEF Registers
  <2>4. ASSUME NEW e \in Event
        PROVE  /\ Cardinality(HooksOf(new, e, c)) = 1
               /\ Cardinality(OursOn(new, e)) <= 1
               /\ c \in Slashed => \E x \in Range(new) : RunsTheHook(x) /\ x.on = e
    <3>1. PICK k \in 1 .. Len(new) : HooksOf(new, e, c) = {k}
      BY <2>3
    <3>2. Cardinality({k}) = 1 /\ Cardinality({}) = 0
      BY FS_Singleton, FS_EmptySet
    <3>3. OursOn(new, e) = {} \/ OursOn(new, e) = {k}
      BY <2>3, <3>1
    <3>4. Cardinality(OursOn(new, e)) <= 1
      <4>1. CASE OursOn(new, e) = {}
        BY <3>2, <4>1
      <4>2. CASE OursOn(new, e) = {k}
        BY <3>2, <4>2
      <4> QED
        BY <3>3, <4>1, <4>2
    <3>5. new[k].is = "entry" /\ c \in new[k].runs /\ new[k].on = e
      BY <3>1 DEF HooksOf
    <3>6. new[k] \in Range(new)
      BY <2>3, InRange
    <3>7. ASSUME c \in Slashed PROVE \E x \in Range(new) : RunsTheHook(x) /\ x.on = e
      <4>1. RunsTheHook(new[k])
        BY <3>5, <3>7 DEF RunsTheHook
      <4> QED
        BY <3>5, <3>6, <4>1
    <3> QED
      BY <3>1, <3>2, <3>4, <3>7
  <2>6. ASSUME c \in Slashed PROVE ObserveHooks(disk) = "registered"
    <3>1. {e \in Event : \E x \in Range(new) : RunsTheHook(x) /\ x.on = e} = Event
      BY <2>4, <2>6
    <3> QED
      BY <1>2, <2>3, <3>1, EventsAreFinite DEF ObserveHooks
  <2> QED
    BY <1>1, <1>2, <2>3, <2>4, <2>6, <2>7
<1> QED
  BY <1>3, <1>4

(***************************************************************************)
(* Whatever was left half written, moved or overlapped, an `ieos init`     *)
(* that runs alone to its end leaves a project whose blocks doctor calls   *)
(* healthy, that can be read and launches the server of its own checkout   *)
(* (config.toml unless it was cut off elsewhere), with its own checkout's  *)
(* hook once, seen by doctor where paths have slashes, and of the          *)
(* installation it was.                                                    *)
(***************************************************************************)
THEOREM InitRepairs == FootprintSpec => []RerunRepairs
<1>1. ASSUME FilesInv, AloneInv, ServersInv, NEW p \in Command, Completed(p),
             \A d \in Documents : ~Broken(base[1][d].text)
      PROVE  ObserveBootstrap(disk) = "healthy"
  <2>1. disk["installation.json"] = Held(<<About(identity[p], checkout[p])>>)
    BY <1>1, LeavesIdentity
  <2>2. disk["installation.json"].there
        /\ disk["installation.json"].text = <<About(identity[p], checkout[p])>>
    BY <2>1 DEF Held
  <2>3. Installed(disk) = About(identity[p], checkout[p])
    BY <2>2 DEF Installed
  <2>4. Installed(disk).of = identity[p] /\ Installed(disk).from = checkout[p]
        /\ Installed(disk).is = "about"
    BY <2>3 DEF About
  <2>5. Installed(disk) \in Range(disk["installation.json"].text)
    BY <2>2, <2>3 DEF Range
  <2>6. Whole(disk)
    BY <2>2, <2>4, <2>5 DEF Whole
  <2>7. \A d \in Documents :
           MarkedBlock(disk[d].text) = BootstrapParagraph(identity[p], checkout[p])
    BY <1>1, LeavesDocuments
  <2> QED
    BY <2>2, <2>4, <2>6, <2>7 DEF ObserveBootstrap
<1>2. ASSUME FilesInv, AloneInv, NEW p \in Command, Completed(p), Whole(base[1])
      PROVE  /\ Installed(disk).of = Installed(base[1]).of
             /\ ~base[1]["profile.yaml"].there =>
                    disk["profile.yaml"].text[1].of = Installed(base[1]).of
  <2>1. /\ disk["installation.json"] = Held(<<About(identity[p], checkout[p])>>)
        /\ ~base[1]["profile.yaml"].there =>
               disk["profile.yaml"] = Held(<<About(identity[p], checkout[p])>>)
        /\ identity[p] = Installed(base[1]).of
    BY <1>2, LeavesIdentity
  <2>2. Installed(disk).of = identity[p]
    BY <2>1 DEF Held, Installed, About
  <2>3. ~base[1]["profile.yaml"].there => disk["profile.yaml"].text[1].of = identity[p]
    BY <2>1 DEF Held, About
  <2> QED
    BY <2>1, <2>2, <2>3
<1>3. FilesInv /\ AloneInv /\ ServersInv => RerunRepairs
  BY <1>1, <1>2, LeavesDocuments, LeavesHooks DEF RerunRepairs
<1> QED
  BY FootprintStarts, AloneStarts, ServersStart, FilesNext, AloneNext, ServersNext, <1>3, PTL
     DEF FootprintSpec

(***************************************************************************)
(* What the owner wrote around the block, in the profile, and beside our   *)
(* server and hook entries is the same after an `ieos init` as before.     *)
(***************************************************************************)
THEOREM InitKeepsTheirs == FootprintSpec => []TheirsSurvives
<1>1. ASSUME FilesInv, AloneInv, ServersInv, NEW p \in Command, Completed(p),
             NEW path \in {"mcp.json", "config.toml"}
      PROVE  LET others(text) == Without(text, {x \in Range(text) : IsServer(x)}) IN
             others(disk[path].text) = others(base[1][path].text)
  BY <1>1, LeavesDocuments DEF Servers
<1>2. ASSUME FilesInv, AloneInv, NEW p \in Command, Completed(p)
      PROVE  LET foreign(text) == Without(text, {x \in Range(text) : IsOurs(x, checkout[p])}) IN
             foreign(disk["settings.json"].text) = foreign(base[1]["settings.json"].text)
  BY <1>2, LeavesHooks DEF Hooks
<1>3. FilesInv /\ AloneInv /\ ServersInv => TheirsSurvives
  BY <1>1, <1>2, LeavesDocuments, LeavesIdentity DEF TheirsSurvives
<1> QED
  BY FootprintStarts, AloneStarts, ServersStart, FilesNext, AloneNext, ServersNext, <1>3, PTL
     DEF FootprintSpec

-----------------------------------------------------------------------------
(***************************************************************************)
(* Footprint: a second command over a healthy project.                     *)
(***************************************************************************)
\* A text in three parts is the three parts.
LEMMA InThree ==
    ASSUME NEW L, NEW t \in Seq(L), NEW m \in Nat, NEW n \in Nat, m <= n, n <= Len(t)
    PROVE  SubSeq(t, 1, m) \o SubSeq(t, m + 1, n) \o SubSeq(t, n + 1, Len(t)) = t
<1>1. \A i, j \in Nat : i <= j /\ j <= Len(t) =>
         /\ SubSeq(t, i + 1, j) \in Seq(L) /\ Len(SubSeq(t, i + 1, j)) = j - i
         /\ \A k \in 1 .. (j - i) : SubSeq(t, i + 1, j)[k] = t[i + k]
  BY SubIs
<1>2. PICK N \in Nat : N = Len(t)
  OBVIOUS
<1>3. PICK a : a = SubSeq(t, 0 + 1, m)
  OBVIOUS
<1>4. PICK b : b = SubSeq(t, m + 1, n)
  OBVIOUS
<1>5. PICK c : c = SubSeq(t, n + 1, N)
  OBVIOUS
<1>6. a \in Seq(L) /\ Len(a) = m - 0 /\ \A k \in 1 .. (m - 0) : a[k] = t[0 + k]
  <2>1. 0 \in Nat /\ 0 <= m /\ m <= Len(t)
    OBVIOUS
  <2> QED
    BY <1>1, <1>3, <2>1, Zenon
<1>7. b \in Seq(L) /\ Len(b) = n - m /\ \A k \in 1 .. (n - m) : b[k] = t[m + k]
  BY <1>1, <1>4, Zenon
<1>8. c \in Seq(L) /\ Len(c) = N - n /\ \A k \in 1 .. (N - n) : c[k] = t[n + k]
  <2>1. n <= N /\ N <= Len(t)
    BY <1>2
  <2> QED
    BY <1>1, <1>5, <2>1, Zenon
<1>9. a \in Seq(L) /\ Len(a) = m /\ \A k \in 1 .. m : a[k] = t[k]
  <2>1. m - 0 = m /\ \A k \in 1 .. m : 0 + k = k
    OBVIOUS
  <2> QED
    BY <1>6, <2>1
<1>10. PICK u : Joined(u, a, b)
  BY DEF Joined
<1>11. Concats(u, a, b, L)
  BY <1>7, <1>9, <1>10, ConcatIs, Zenon
<1>12. u \in Seq(L) /\ Len(u) = n /\ \A k \in 1 .. n : u[k] = t[k]
  <2>1. u \in Seq(L) /\ Len(u) = n
    BY <1>7, <1>9, <1>11 DEF Concats
  <2>2. ASSUME NEW k \in 1 .. n PROVE u[k] = t[k]
    <3>1. CASE k \in 1 .. m
      BY <1>9, <1>11, <3>1 DEF Concats
    <3>2. CASE k \notin 1 .. m
      <4>1. PICK j \in 1 .. (n - m) : k = m + j
        <5>1. k - m \in 1 .. (n - m) /\ k = m + (k - m)
          BY <3>2
        <5> QED
          BY <5>1
      <4> QED
        BY <1>7, <1>9, <1>11, <4>1 DEF Concats
    <3> QED
      BY <3>1, <3>2
  <2> QED
    BY <2>1, <2>2
<1>13. PICK v : Joined(v, u, c)
  BY DEF Joined
<1>14. Concats(v, u, c, L)
  BY <1>8, <1>12, <1>13, ConcatIs, Zenon
<1>15. v \in Seq(L) /\ Len(v) = N /\ \A k \in 1 .. N : v[k] = t[k]
  <2>1. v \in Seq(L) /\ Len(v) = N
    BY <1>2, <1>8, <1>12, <1>14 DEF Concats
  <2>2. ASSUME NEW k \in 1 .. N PROVE v[k] = t[k]
    <3>1. CASE k \in 1 .. n
      BY <1>12, <1>14, <3>1 DEF Concats
    <3>2. CASE k \notin 1 .. n
      <4>1. PICK j \in 1 .. (N - n) : k = n + j
        <5>1. k - n \in 1 .. (N - n) /\ k = n + (k - n)
          BY <3>2
        <5> QED
          BY <5>1
      <4> QED
        BY <1>8, <1>12, <1>14, <4>1 DEF Concats
    <3> QED
      BY <3>1, <3>2
  <2> QED
    BY <2>1, <2>2
<1>16. v = t
  BY <1>2, <1>15, SeqEqual
<1>17. 0 + 1 = 1
  OBVIOUS
<1> QED
  BY <1>2, <1>3, <1>4, <1>5, <1>10, <1>13, <1>16, <1>17 DEF Joined

\* A text that holds the block already is left as it is.
LEMMA SpliceSame ==
    ASSUME NEW text \in Seq(Line), NEW block, block # <<>>, MarkedBlock(text) = block
    PROVE  SpliceMarkedBlock(text, block) = text
<1>1. PICK b : b = IndexOf(text, Begin)
  OBVIOUS
<1>2. PICK e : e = IndexOf(text, End)
  OBVIOUS
<1>3. ~(b = 0 \/ e = 0 \/ e < b) /\ SubSeq(text, b, e) = block
  BY <1>1, <1>2 DEF MarkedBlock
<1>4. b \in 1 .. Len(text) /\ e \in 1 .. Len(text)
  <2>1. b = 0 \/ b \in 1 .. Len(text)
    BY <1>1, IndexIs
  <2>2. e = 0 \/ e \in 1 .. Len(text)
    BY <1>2, IndexIs
  <2> QED
    BY <1>3, <2>1, <2>2
<1>5. PICK m \in Nat : m = b - 1 /\ m + 1 = b /\ m <= e
  <2>1. b - 1 \in Nat /\ (b - 1) + 1 = b /\ b - 1 <= e
    BY <1>3, <1>4
  <2> QED
    BY <2>1
<1>6. e \in Nat /\ e <= Len(text)
  BY <1>4
<1>7. SubSeq(text, 1, m) \o SubSeq(text, m + 1, e) \o SubSeq(text, e + 1, Len(text)) = text
  BY <1>5, <1>6, InThree
<1>8. SubSeq(text, 1, b - 1) \o block \o SubSeq(text, e + 1, Len(text)) = text
  BY <1>3, <1>5, <1>7
<1> QED
  BY <1>1, <1>2, <1>3, <1>8 DEF SpliceMarkedBlock

\* Our server put where our server stands.
LEMMA MergeServerSame ==
    ASSUME NEW text \in Seq(Line), NEW c \in Checkout
    PROVE  MergeServer(MergeServer(text, c), c) = MergeServer(text, c)
<1> DEFINE I(t) == {i \in 1 .. Len(t) : IsServer(t[i])}
           Foremost(t) == IF I(t) # {} THEN Min(I(t)) ELSE 0
<1>1. PICK x \in Line : x = Server(c) /\ IsServer(x)
  BY LinesAre DEF Server, IsServer
<1>2. \A t : MergeServer(t, c)
             = IF Foremost(t) = 0 THEN Append(t, x) ELSE [t EXCEPT ![Foremost(t)] = x]
  BY <1>1 DEF MergeServer, SelectInSeq
<1>3. ASSUME NEW t \in Seq(Line) PROVE IF I(t) = {} THEN Foremost(t) = 0 ELSE Foremost(t) \in I(t)
  <2>1. I(t) # {} => \E n \in I(t) : \A m \in I(t) : n <= m
    <3>1. I(t) \in SUBSET Nat
      OBVIOUS
    <3> QED
      BY <3>1, Least
  <2>2. I(t) # {} => Min(I(t)) \in I(t)
    BY <2>1 DEF Min
  <2> QED
    BY <2>2
<1>4. PICK new \in Seq(Line) : new = MergeServer(text, c)
  BY MergeServerIs
<1>5. PICK k : k = Foremost(text)
  OBVIOUS
<1>6. PICK n : n = Foremost(new)
  OBVIOUS
<1>7. Len(text) \in Nat
  OBVIOUS
<1>8. n \in 1 .. Len(new) /\ new[n] = x
  <2>1. CASE I(text) = {}
    <3>1. new = Append(text, x) /\ \A i \in 1 .. Len(text) : ~IsServer(text[i])
      BY <1>2, <1>3, <1>4, <2>1
    <3>2. /\ Len(new) = Len(text) + 1 /\ new[Len(text) + 1] = x
          /\ \A i \in 1 .. Len(text) : new[i] = text[i]
      BY <1>7, <3>1
    <3>3. I(new) = {Len(text) + 1}
      BY <1>1, <1>7, <3>1, <3>2
    <3> QED
      BY <1>3, <1>6, <3>2, <3>3
  <2>2. CASE I(text) # {}
    <3>1. k \in 1 .. Len(text) /\ IsServer(text[k]) /\ k # 0
      BY <1>3, <1>5, <2>2
    <3>2. new = [text EXCEPT ![k] = x]
      BY <1>2, <1>4, <1>5, <3>1
    <3>3. /\ Len(new) = Len(text) /\ new[k] = x
          /\ \A i \in 1 .. Len(text) : i # k => new[i] = text[i]
      BY <1>1, <3>1, <3>2, ExceptSeq
    <3>4. I(new) = I(text)
      BY <1>1, <3>1, <3>3
    <3>5. n = k
      BY <1>5, <1>6, <3>4
    <3> QED
      BY <3>1, <3>3, <3>5
  <2> QED
    BY <2>1, <2>2
<1>9. n # 0
  BY <1>8
<1>10. MergeServer(new, c) = [new EXCEPT ![n] = x]
  BY <1>2, <1>6, <1>9
<1>11. [new EXCEPT ![n] = x] = new
  BY <1>8
<1> QED
  BY <1>4, <1>10, <1>11

\* Settings merged twice: what is not ours was kept by the first merge.
LEMMA MergeSettingsSame ==
    ASSUME NEW text \in Seq(Line), NEW c \in Checkout
    PROVE  MergeClaudeSettings(MergeClaudeSettings(text, c), c) = MergeClaudeSettings(text, c)
<1>1. PICK s : s = SetToSeq({Entry(e, {c}) : e \in Event})
  OBVIOUS
<1>4. \A t : MergeClaudeSettings(t, c) = Without(t, Hooks(t, c)) \o s
  BY <1>1 DEF MergeClaudeSettings, Hooks
<1>5. PICK new : new = MergeClaudeSettings(text, c)
  OBVIOUS
<1>6. Registers(new, text, c)
  BY <1>5, MergeSettingsIs
<1>7. Without(new, Hooks(new, c)) = Without(text, Hooks(text, c))
  BY <1>6, Zenon DEF Registers
<1> QED
  BY <1>4, <1>5, <1>7

\* What a command found is what an earlier one had left, alone.
FoundLeft(r) ==
    /\ pc[r] = "done" /\ identity[r] \in Identity /\ checkout[r] \in Checkout
    /\ base[1]["installation.json"] = Held(<<About(identity[r], checkout[r])>>)
    /\ base[1]["profile.yaml"].there
    /\ \A d \in Documents : \E t : base[1][d] = Held(t)
    /\ \A path \in {"mcp.json", "config.toml"} :
           \E t \in Seq(Line) : base[1][path] = Held(MergeServer(t, checkout[r]))
    /\ hooked[r] => \E t \in Seq(Line) :
           base[1]["settings.json"] = Held(MergeClaudeSettings(t, checkout[r]))

PriorInv == \A r \in Command : prior = r => FoundLeft(r)

LEMMA PriorStarts == FootprintInit => PriorInv
  BY NobodyIsNoCommand DEF FootprintInit, PriorInv

LEMMA PriorBegins ==
    ASSUME FilesInv, AloneInv, NEW p \in Command, NEW c \in Checkout, NEW h \in BOOLEAN,
           Start(p, c, h), NEW r \in Command, prior' = r
    PROVE  FoundLeft(r)'
<1>1. /\ pc[p] = "none" /\ pc' = [pc EXCEPT ![p] = "identity"]
      /\ checkout' = [checkout EXCEPT ![p] = c] /\ hooked' = [hooked EXCEPT ![p] = h]
      /\ identity' = identity
  BY DEF Start
<1>2. Completed(r) /\ base' = <<disk>>
  <2>1. base' = <<disk>> /\ prior' = IF \E q \in Command : Completed(q) THEN alone ELSE Nobody
    BY NobodyIsNoCommand DEF Start, Disturbed
  <2>2. PICK q \in Command : Completed(q) /\ alone = r
    BY <2>1, NobodyIsNoCommand
  <2>3. q = r
    BY <2>2 DEF Completed
  <2> QED
    BY <2>1, <2>2, <2>3
<1>3. base'[1] = disk
  BY <1>2
<1>4. /\ pc \in [Command -> States] /\ checkout \in [Command -> Checkout \union {Nobody}]
      /\ hooked \in [Command -> BOOLEAN]
  BY DEF FilesInv, FootprintTypeOK, States
<1>5. pc[r] = "done" /\ r # p
  BY <1>1, <1>2 DEF Completed
<1>6. pc'[r] = "done" /\ checkout'[r] = checkout[r] /\ hooked'[r] = hooked[r]
  BY <1>1, <1>4, <1>5
<1>7. /\ identity[r] \in Identity /\ checkout[r] \in Checkout
      /\ \A path \in Path : base[1][path].text \in Seq(Line)
      /\ \A path \in Path \ {"settings.json"} :
             disk[path] = ResultOf(identity[r], checkout[r], path, base[1][path])
      /\ hooked[r] => disk["settings.json"]
            = Held(MergeClaudeSettings(base[1]["settings.json"].text, checkout[r]))
  BY <1>2, LeavesBehind
<1>8. /\ disk["installation.json"] = Held(<<About(identity[r], checkout[r])>>)
      /\ disk["profile.yaml"].there
  BY <1>2, LeavesIdentity DEF Held
<1>9. ASSUME NEW d \in Documents PROVE \E t : disk[d] = Held(t)
  <2>1. d \in Path \ {"settings.json"} /\ d # "profile.yaml"
    BY PathsAre DEF Documents
  <2> QED
    BY <1>7, <2>1 DEF ResultOf
<1>10. ASSUME NEW path \in {"mcp.json", "config.toml"}
       PROVE  \E t \in Seq(Line) : disk[path] = Held(MergeServer(t, checkout[r]))
  <2>1. path \in Path \ {"settings.json"} /\ path # "profile.yaml"
    BY PathsAre
  <2>2. \A id, k, text : MergedBy(id, k, path, text) = MergeServer(text, k)
    BY DEF MergedBy, Documents
  <2>3. disk[path] = Held(MergedBy(identity[r], checkout[r], path, base[1][path].text))
    BY <1>7, <2>1 DEF ResultOf
  <2> QED
    BY <1>7, <2>1, <2>2, <2>3
<1>11. hooked[r] => \E t \in Seq(Line) :
           disk["settings.json"] = Held(MergeClaudeSettings(t, checkout[r]))
  BY <1>7, PathsAre
<1> QED
  BY <1>1, <1>3, <1>6, <1>7, <1>8, <1>9, <1>10, <1>11 DEF FoundLeft

LEMMA PriorNext ==
    FilesInv /\ AloneInv /\ PriorInv /\ [FootprintNext]_footprintVars => PriorInv'
<1> SUFFICES ASSUME FilesInv, AloneInv, PriorInv, [FootprintNext]_footprintVars,
                    NEW r \in Command, prior' = r
             PROVE  FoundLeft(r)'
  BY DEF PriorInv
<1>1. CASE UNCHANGED footprintVars
  BY <1>1 DEF PriorInv, FoundLeft, footprintVars
<1>2. CASE Owner
  <2>1. PICK path \in Path, there \in BOOLEAN, t \in Seq(Line) :
              Edit(path, [there |-> there, text |-> t])
    BY <1>2, OwnerIs
  <2> QED
    BY <2>1, NobodyIsNoCommand DEF Edit, Disturbed
<1>3. ASSUME NEW q \in Command, NEW c \in Checkout, NEW h \in BOOLEAN, Start(q, c, h)
      PROVE  FoundLeft(r)'
  BY <1>3, PriorBegins
<1>4. ASSUME NEW q \in Command, Moves(q) PROVE FoundLeft(r)'
  <2>1. Running(q) /\ Others(q) /\ UNCHANGED <<checkout, hooked, base, prior>>
    BY <1>4, MovesLeave
  <2>2. FoundLeft(r)
    BY <2>1 DEF PriorInv
  <2>3. r \in Command \ {q}
    BY <2>1, <2>2 DEF FoundLeft, Running
  <2>4. pc'[r] = pc[r] /\ identity'[r] = identity[r]
    BY <2>1, <2>3 DEF Others
  <2> QED
    BY <2>1, <2>2, <2>4 DEF FoundLeft
<1> QED
  BY <1>1, <1>2, <1>3, <1>4 DEF FootprintNext, Step, Moves

LEMMA NothingMoves ==
    ASSUME FilesInv, AloneInv, PriorInv, NEW p \in Command, Completed(p),
           NEW r \in Command, prior = r, checkout[p] = checkout[r], hooked[p] = hooked[r],
           ObserveBootstrap(base[1]) = "healthy"
    PROVE  disk = base[1]
<1>1. FoundLeft(r)
  BY DEF PriorInv
<1>2. PICK c \in Checkout : c = checkout[p] /\ c = checkout[r]
  BY <1>1 DEF FoundLeft
<1>3. /\ base[1]["installation.json"].there =>
             Whole(base[1]) /\ identity[p] = Installed(base[1]).of
      /\ \A path \in Path : base[1][path].text \in Seq(Line)
      /\ \A path \in Path \ {"settings.json"} :
             disk[path] = ResultOf(identity[p], checkout[p], path, base[1][path])
      /\ IF hooked[p]
         THEN disk["settings.json"]
                = Held(MergeClaudeSettings(base[1]["settings.json"].text, checkout[p]))
         ELSE disk["settings.json"] = base[1]["settings.json"]
  BY LeavesBehind
<1>4. /\ base[1]["installation.json"].there
      /\ base[1]["installation.json"].text = <<About(identity[r], c)>>
  BY <1>1, <1>2 DEF FoundLeft, Held
<1>5. Installed(base[1]).of = identity[r] /\ Installed(base[1]).from = c
  BY <1>4 DEF Installed, About
<1>6. PICK id : id = identity[p] /\ id = identity[r]
  BY <1>3, <1>4, <1>5
<1>7. disk["installation.json"] = base[1]["installation.json"]
      /\ disk["profile.yaml"] = base[1]["profile.yaml"]
  <2>1. base[1]["installation.json"] = Held(<<About(id, c)>>) /\ base[1]["profile.yaml"].there
    BY <1>1, <1>2, <1>6 DEF FoundLeft
  <2>2. disk["installation.json"] = Held(<<About(id, c)>>)
        /\ (base[1]["profile.yaml"].there => disk["profile.yaml"] = base[1]["profile.yaml"])
    BY <1>2, <1>6, LeavesIdentity
  <2> QED
    BY <2>1, <2>2
<1>8. ASSUME NEW path \in {"mcp.json", "config.toml"} PROVE disk[path] = base[1][path]
  <2>1. path \in Path \ {"settings.json"} /\ path # "profile.yaml"
    BY PathsAre
  <2>2. PICK t \in Seq(Line) : base[1][path] = Held(MergeServer(t, c))
    BY <1>1, <1>2 DEF FoundLeft
  <2>3. base[1][path].text = MergeServer(t, c)
    BY <2>2 DEF Held
  <2>4. \A i, k, text : MergedBy(i, k, path, text) = MergeServer(text, k)
    BY DEF MergedBy, Documents
  <2>5. disk[path] = Held(MergedBy(id, c, path, base[1][path].text))
    BY <1>2, <1>3, <1>6, <2>1 DEF ResultOf
  <2>6. disk[path] = Held(MergeServer(MergeServer(t, c), c))
    BY <2>3, <2>4, <2>5
  <2> QED
    BY <2>2, <2>6, MergeServerSame
<1>9. ASSUME NEW d \in Documents PROVE disk[d] = base[1][d]
  <2>1. d \in Path \ {"settings.json"} /\ d # "profile.yaml"
    BY PathsAre DEF Documents
  <2>2. PICK text \in Seq(Line) : text = base[1][d].text /\ base[1][d] = Held(text)
    <3>1. PICK t : base[1][d] = Held(t)
      BY <1>1 DEF FoundLeft
    <3>2. base[1][d].text = t
      BY <3>1 DEF Held
    <3> QED
      BY <1>3, <2>1, <3>1, <3>2
  <2>3. MarkedBlock(text) = BootstrapParagraph(id, c)
    <3>1. MarkedBlock(base[1][d].text)
            = BootstrapParagraph(Installed(base[1]).of, Installed(base[1]).from)
      BY <1>4 DEF ObserveBootstrap
    <3> QED
      BY <1>5, <1>6, <2>2, <3>1
  <2>4. BootstrapParagraph(id, c) # <<>>
    BY DEF BootstrapParagraph
  <2>5. SpliceMarkedBlock(text, BootstrapParagraph(id, c)) = text
    BY <2>3, <2>4, SpliceSame
  <2>6. \A i, k, t : MergedBy(i, k, d, t) = SpliceMarkedBlock(t, BootstrapParagraph(i, k))
    BY DEF MergedBy, Documents
  <2>7. disk[d] = Held(MergedBy(id, c, d, text))
    BY <1>2, <1>3, <1>6, <2>1, <2>2 DEF ResultOf
  <2> QED
    BY <2>2, <2>5, <2>6, <2>7
<1>10. disk["settings.json"] = base[1]["settings.json"]
  <2>1. CASE ~hooked[p]
    BY <1>3, <2>1
  <2>2. CASE hooked[p]
    <3>1. PICK t \in Seq(Line) : base[1]["settings.json"] = Held(MergeClaudeSettings(t, c))
      BY <1>1, <1>2, <2>2 DEF FoundLeft
    <3>2. base[1]["settings.json"].text = MergeClaudeSettings(t, c)
      BY <3>1 DEF Held
    <3>3. disk["settings.json"] = Held(MergeClaudeSettings(MergeClaudeSettings(t, c), c))
      BY <1>2, <1>3, <2>2, <3>2
    <3> QED
      BY <3>1, <3>3, MergeSettingsSame
  <2> QED
    BY <2>1, <2>2
<1>11. ASSUME NEW path \in Path PROVE disk[path] = base[1][path]
  <2>1. \/ path \in {"mcp.json", "config.toml"} \/ path = "settings.json" \/ path \in Documents
        \/ path \in Naming
    BY MergedCases
  <2> QED
    BY <1>7, <1>8, <1>9, <1>10, <2>1 DEF Naming
<1>12. disk \in [Path -> ProjectFile] /\ base[1] \in [Path -> ProjectFile]
  BY DEF FilesInv, FootprintTypeOK, Completed, AloneInv, AloneIs
<1> QED
  BY <1>11, <1>12

(***************************************************************************)
(* A second `ieos init` from the checkout of the first, both alone, over a *)
(* project that `ieos doctor` calls healthy, changes no file.              *)
(***************************************************************************)
THEOREM RerunIdempotent == FootprintSpec => []RerunChangesNothing
<1>1. FootprintInit => FilesInv /\ AloneInv /\ PriorInv
  BY FootprintStarts, AloneStarts, PriorStarts
<1>2. FilesInv /\ AloneInv /\ PriorInv /\ [FootprintNext]_footprintVars
        => (FilesInv /\ AloneInv /\ PriorInv)'
  BY FilesNext, AloneNext, PriorNext
<1>3. FilesInv /\ AloneInv /\ PriorInv => RerunChangesNothing
  <2> SUFFICES ASSUME FilesInv, AloneInv, PriorInv, NEW p \in Command, Completed(p),
                      prior # Nobody, checkout[p] = checkout[prior], hooked[p] = hooked[prior],
                      ObserveBootstrap(base[1]) = "healthy"
               PROVE  disk = base[1]
    BY DEF RerunChangesNothing
  <2>1. PICK r \in Command : r = prior
    BY DEF FilesInv, FootprintTypeOK
  <2> QED
    BY <2>1, NothingMoves
<1> QED
  BY <1>1, <1>2, <1>3, PTL DEF FootprintSpec

-----------------------------------------------------------------------------
(***************************************************************************)
(* Credentials: what every command, file, statement and row is.            *)
(***************************************************************************)
Someone == AuthCommand \union {None}

AuthRecord == [at : {"none", "typed", "write", "print", "remove", "refused", "done", "dead"},
               verb : Verb \union {None}, kind : Principal \union {None},
               given : Someone, id : Someone]
FileRecord == [is : {"absent", "torn", "whole"}, id : Someone, token : Someone]
StatementRecord == [verb : Verb, kind : Principal, id : AuthCommand, token : Someone]
RowRecord == [kind : Principal \union {None}, token : Someone, revoked : BOOLEAN]

AuthTypes ==
    /\ credential \in [Principal -> FileRecord]
    /\ auth \in [AuthCommand -> AuthRecord]
    /\ printed \in [Principal -> Seq(StatementRecord)]
    /\ applied \in [Principal -> Seq(StatementRecord)]
    /\ principals \in [AuthCommand -> RowRecord]
    /\ tidy \in [Principal -> BOOLEAN]
    /\ sole \in Someone

\* The identities of the two kinds are apart: one is of the kind of the command it is named for.
Mints(i, k) == i \in AuthCommand /\ auth[i].at # "none" /\ auth[i].kind = k

CommandIs(p) ==
    /\ auth[p].at # "none" =>
          /\ auth[p].verb \in Verb /\ auth[p].kind \in Principal
          /\ auth[p].given # None => Mints(auth[p].given, auth[p].kind)
    /\ auth[p].at \in {"write", "print", "remove", "done"} => Mints(auth[p].id, auth[p].kind)
    /\ auth[p].at = "write" => auth[p].verb # "revoke"
    /\ auth[p].at = "remove" => auth[p].verb = "revoke"
    /\ auth[p].at = "print" /\ auth[p].verb # "revoke" => p \in stored

\* A printed statement is the one of the command that minted its token, which is done.
StatementIs(s, k) ==
    /\ s.kind = k /\ Mints(s.id, k)
    /\ s.verb = "revoke" => s.token = None
    /\ s.verb # "revoke" =>
          /\ s.token \in AuthCommand /\ s.token \in stored
          /\ auth[s.token].at = "done" /\ auth[s.token].verb = s.verb
          /\ auth[s.token].kind = k /\ auth[s.token].id = s.id

\* A whole file names a principal of its kind.
Names(k) ==
    credential[k].is = "whole" =>
        Mints(credential[k].id, k) /\ credential[k].token \in AuthCommand

KindIs(k) ==
    /\ Names(k)
    /\ \A n \in 1 .. Len(printed[k]) : StatementIs(printed[k][n], k)
    /\ \A n \in 1 .. Len(applied[k]) : \E m \in 1 .. Len(printed[k]) :
           applied[k][n] = printed[k][m]

\* A row is of its identity's kind, and an enrolment made it.
RowIs(i) ==
    IF principals[i].kind = None THEN principals[i] = NoRow
    ELSE /\ Mints(i, principals[i].kind)
         /\ \E n \in 1 .. Len(applied[principals[i].kind]) :
                LET s == applied[principals[i].kind][n] IN s.verb = "enroll" /\ s.id = i

AuthInv ==
    /\ AuthTypes
    /\ \A p \in AuthCommand : CommandIs(p) /\ RowIs(p)
    /\ \A k \in Principal : KindIs(k)

LEMMA Grows ==
    ASSUME NEW S, NEW a \in Seq(S), NEW x \in S, NEW b, b = Append(a, x)
    PROVE  /\ Len(a) \in Nat /\ Len(b) = Len(a) + 1 /\ b \in Seq(S) /\ b # <<>>
           /\ \A n \in 1 .. Len(a) : n \in 1 .. Len(b) /\ b[n] = a[n]
           /\ b[Len(b)] = x /\ Len(b) \in 1 .. Len(b)
           /\ \A n \in 1 .. Len(b) : n \in 1 .. Len(a) \/ n = Len(b)
  OBVIOUS

\* A step of command p: its record goes on, those of the others stay.
Onward(p) ==
    /\ auth[p].at \notin {"done", "dead", "refused"}
    /\ auth'[p].at # "none"
    /\ auth[p].at # "none" => /\ auth'[p].verb = auth[p].verb /\ auth'[p].kind = auth[p].kind
                              /\ auth'[p].given = auth[p].given
    /\ \A q \in AuthCommand \ {p} : auth'[q] = auth[q]

LEMMA OnwardMints ==
    ASSUME NEW p \in AuthCommand, Onward(p), NEW i, NEW k, Mints(i, k)
    PROVE  Mints(i, k)'
  BY DEF Onward, Mints

LEMMA OnwardStatement ==
    ASSUME NEW p \in AuthCommand, Onward(p), stored \subseteq stored', NEW s, NEW k,
           StatementIs(s, k)
    PROVE  StatementIs(s, k)'
<1>1. Mints(s.id, k)'
  BY OnwardMints DEF StatementIs
<1>2. s.verb # "revoke" => s.token # p
  BY DEF StatementIs, Onward
<1> QED
  BY <1>1, <1>2 DEF StatementIs, Onward

\* A step of one command that neither prints nor applies.
LEMMA AuthKept ==
    ASSUME AuthInv, NEW p \in AuthCommand, Onward(p), AuthTypes', stored \subseteq stored',
           UNCHANGED <<printed, applied, principals>>,
           CommandIs(p)', \A k \in Principal : Names(k)'
    PROVE  AuthInv'
<1>1. ASSUME NEW q \in AuthCommand PROVE CommandIs(q)'
  <2>1. CASE q = p
    BY <2>1
  <2>2. CASE q # p
    <3>1. CommandIs(q) /\ auth'[q] = auth[q]
      BY <2>2 DEF AuthInv, Onward
    <3>2. /\ auth[q].at # "none" /\ auth[q].given # None => Mints(auth[q].given, auth[q].kind)'
          /\ auth[q].at \in {"write", "print", "remove", "done"} => Mints(auth[q].id, auth[q].kind)'
      BY <3>1, OnwardMints DEF CommandIs
    <3> QED
      BY <3>1, <3>2 DEF CommandIs
  <2> QED
    BY <2>1, <2>2
<1>2. ASSUME NEW i \in AuthCommand PROVE RowIs(i)'
  <2>1. RowIs(i) /\ principals'[i] = principals[i] /\ applied' = applied
    BY DEF AuthInv
  <2>2. principals[i].kind # None => Mints(i, principals[i].kind)'
    BY <2>1, OnwardMints DEF RowIs
  <2> QED
    BY <2>1, <2>2 DEF RowIs
<1>3. ASSUME NEW k \in Principal PROVE KindIs(k)'
  <2>1. KindIs(k)
    BY DEF AuthInv
  <2>2. ASSUME NEW n \in 1 .. Len(printed'[k])
        PROVE  StatementIs(printed[k][n], k)'
    <3>1. PICK s : s = printed[k][n]
      OBVIOUS
    <3>2. printed'[k][n] = s /\ StatementIs(s, k)
      BY <2>1, <3>1 DEF KindIs
    <3>3. StatementIs(s, k)'
      BY <3>2, OnwardStatement
    <3> QED
      BY <3>2, <3>3
  <2>3. /\ \A n \in 1 .. Len(applied'[k]) : \E m \in 1 .. Len(printed'[k]) :
              applied'[k][n] = printed'[k][m]
    BY <2>1 DEF KindIs
  <2> QED
    BY <2>1, <2>2, <2>3 DEF KindIs
<1> QED
  BY <1>1, <1>2, <1>3 DEF AuthInv

LEMMA KnownMints ==
    ASSUME AuthInv, NEW kind \in Principal, NEW i \in Known(kind)
    PROVE  Mints(i, kind)
<1>1. PICK s \in Range(printed[kind]) : i = s.id
  BY DEF Known
<1>2. printed[kind] \in Seq(StatementRecord)
  BY DEF AuthInv, AuthTypes
<1>3. PICK n \in 1 .. Len(printed[kind]) : s = printed[kind][n]
  BY <1>1, <1>2 DEF Range
<1>4. StatementIs(s, kind)
  BY <1>3 DEF AuthInv, KindIs
<1> QED
  BY <1>1, <1>4 DEF StatementIs

\* Every step of a command goes onward, and what it may change.
LEMMA Steps ==
    ASSUME AuthInv, NEW p \in AuthCommand, AuthStep(p)
    PROVE  /\ Onward(p) /\ auth' \in [AuthCommand -> AuthRecord]
           /\ credential' \in [Principal -> FileRecord] /\ stored \subseteq stored'
           /\ UNCHANGED <<applied, principals>>
           /\ tidy' \in [Principal -> BOOLEAN] /\ sole' \in Someone
<1>0. AuthTypes /\ CommandIs(p) /\ \A k \in Principal : KindIs(k)
  BY DEF AuthInv
<1>00. auth[p] \in AuthRecord /\ auth \in [AuthCommand -> AuthRecord]
       /\ credential \in [Principal -> FileRecord]
       /\ tidy \in [Principal -> BOOLEAN] /\ sole \in Someone
  BY <1>0 DEF AuthTypes
<1>1. ASSUME NEW verb \in Verb, NEW kind \in Principal, NEW given \in Known(kind) \union {None},
             Type(p, verb, kind, given)
      PROVE  /\ Onward(p) /\ auth' \in [AuthCommand -> AuthRecord]
             /\ tidy' \in [Principal -> BOOLEAN] /\ sole' \in Someone
  <2>1. given \in Someone
    <3>1. CASE given \in Known(kind)
      BY <3>1, KnownMints DEF Mints, Someone
    <3> QED
      BY <3>1 DEF Someone
  <2>2. [at |-> "typed", verb |-> verb, kind |-> kind, given |-> given, id |-> None] \in AuthRecord
    BY <2>1 DEF AuthRecord, Someone
  <2>3. auth' \in [AuthCommand -> AuthRecord]
    BY <1>1, <1>00, <2>2 DEF Type
  <2>4. Onward(p)
    BY <1>1, <1>00 DEF Type, Onward
  <2>5. tidy' \in [Principal -> BOOLEAN]
    <3> DEFINE overlaps == \E q \in AuthCommand : Busy(q) /\ auth[q].kind = kind
    <3>1. tidy' = [tidy EXCEPT ![kind] = @ /\ ~overlaps /\ given = None]
      BY <1>1 DEF Type
    <3>2. (tidy[kind] /\ ~overlaps /\ given = None) \in BOOLEAN
      BY Zenon
    <3> QED
      BY <1>00, <3>1, <3>2, Zenon
  <2>6. sole' \in Someone
    BY <1>1 DEF Type, Someone
  <2> QED
    BY <2>3, <2>4, <2>5, <2>6
<1>2. ASSUME RefuseAuth(p)
      PROVE  Onward(p) /\ auth' \in [AuthCommand -> AuthRecord]
  BY <1>2, <1>00 DEF RefuseAuth, Onward, AuthRecord
<1>3. ASSUME Identify(p)
      PROVE  Onward(p) /\ auth' \in [AuthCommand -> AuthRecord]
  <2>1. KnownId(p) \in Someone
    <3>1. credential[auth[p].kind] \in FileRecord
      BY <1>0, <1>00, <1>3 DEF Identify, CommandIs
    <3> QED
      BY <1>00, <3>1 DEF KnownId, ReadId, FileRecord, AuthRecord, Someone
  <2>2. First(auth[p].verb) \in {"print", "write"}
    BY DEF First
  <2> DEFINE i == IF KnownId(p) = None THEN p ELSE KnownId(p)
             go == First(auth[p].verb)
  <2>3. i \in Someone
    BY <2>1 DEF Someone
  <2>4. auth' = [auth EXCEPT ![p].id = i, ![p].at = go] /\ auth[p].at = "typed"
    BY <1>3 DEF Identify
  <2>5. go \in {"print", "write"}
    BY <2>2
  <2> HIDE DEF i, go
  <2> QED
    BY <1>00, <2>3, <2>4, <2>5 DEF Onward, AuthRecord
<1>4. ASSUME WriteCredential(p)
      PROVE  /\ Onward(p) /\ auth' \in [AuthCommand -> AuthRecord]
             /\ credential' \in [Principal -> FileRecord]
  BY <1>4, <1>00 DEF WriteCredential, Onward, AuthRecord, FileRecord, File, Someone
<1>5. ASSUME PrintStatement(p)
      PROVE  Onward(p) /\ auth' \in [AuthCommand -> AuthRecord]
  <2> DEFINE go == IF auth[p].verb = "revoke" THEN "remove" ELSE "done"
  <2>1. go \in {"remove", "done"}
    OBVIOUS
  <2>2. auth' = [auth EXCEPT ![p].at = go] /\ auth[p].at = "print"
    BY <1>5 DEF PrintStatement
  <2> HIDE DEF go
  <2> QED
    BY <1>00, <2>1, <2>2 DEF Onward, AuthRecord
<1>6. ASSUME RemoveCredential(p)
      PROVE  /\ Onward(p) /\ auth' \in [AuthCommand -> AuthRecord]
             /\ credential' \in [Principal -> FileRecord]
  BY <1>6, <1>00 DEF RemoveCredential, Onward, AuthRecord, FileRecord, NoFile, Someone
<1>7. ASSUME AuthDies(p)
      PROVE  /\ Onward(p) /\ auth' \in [AuthCommand -> AuthRecord]
             /\ credential' \in [Principal -> FileRecord]
             /\ tidy' \in [Principal -> BOOLEAN]
  <2>1. auth' = [auth EXCEPT ![p].at = "dead"] /\ Busy(p)
        /\ tidy' = [tidy EXCEPT ![auth[p].kind] = FALSE]
        /\ \/ credential' = credential
           \/ credential' = [credential EXCEPT ![auth[p].kind] = TornFile]
    BY <1>7 DEF AuthDies
  <2>2. TornFile \in FileRecord
    BY DEF TornFile, FileRecord, Someone
  <2>3. Onward(p) /\ auth' \in [AuthCommand -> AuthRecord]
    BY <1>00, <2>1 DEF Onward, AuthRecord, Busy
  <2>4. tidy' \in [Principal -> BOOLEAN]
    BY <1>00, <2>1
  <2>5. credential' \in [Principal -> FileRecord]
    BY <1>00, <2>1, <2>2
  <2> QED
    BY <2>3, <2>4, <2>5
<1>8. /\ credential' = credential \/ WriteCredential(p) \/ RemoveCredential(p) \/ AuthDies(p)
      /\ tidy' = tidy \/ AuthDies(p) \/ \E verb \in Verb, kind \in Principal :
            \E given \in Known(kind) \union {None} : Type(p, verb, kind, given)
      /\ sole' = sole \/ \E verb \in Verb, kind \in Principal :
            \E given \in Known(kind) \union {None} : Type(p, verb, kind, given)
      /\ UNCHANGED <<applied, principals>> /\ stored \subseteq stored'
  BY DEF AuthStep, Type, RefuseAuth, Identify, WriteCredential, PrintStatement,
         RemoveCredential, AuthDies
<1>9. /\ Onward(p) /\ auth' \in [AuthCommand -> AuthRecord]
  BY <1>1, <1>2, <1>3, <1>4, <1>5, <1>6, <1>7 DEF AuthStep
<1>10. credential' \in [Principal -> FileRecord]
  BY <1>00, <1>4, <1>6, <1>7, <1>8
<1>11. tidy' \in [Principal -> BOOLEAN]
  BY <1>00, <1>1, <1>7, <1>8
<1>12. sole' \in Someone
  BY <1>00, <1>1, <1>8
<1> QED
  BY <1>8, <1>9, <1>10, <1>11, <1>12

LEMMA StepKeeps ==
    ASSUME AuthInv, NEW p \in AuthCommand, AuthStep(p), ~PrintStatement(p)
    PROVE  AuthInv'
<1>0. AuthTypes /\ CommandIs(p) /\ \A k \in Principal : KindIs(k)
  BY DEF AuthInv
<1>1. UNCHANGED <<printed, applied, principals>>
  BY DEF AuthStep, Type, RefuseAuth, Identify, WriteCredential, RemoveCredential, AuthDies
<1>2. Onward(p) /\ stored \subseteq stored' /\ AuthTypes'
  BY <1>0, <1>1, Steps DEF AuthTypes
<1>3. auth[p] \in AuthRecord /\ auth \in [AuthCommand -> AuthRecord]
  BY <1>0 DEF AuthTypes
<1>4. \A k \in Principal : Names(k)'
  <2>1. ASSUME NEW k \in Principal, credential'[k] = credential[k]
        PROVE  Names(k)'
    <3>1. Names(k) /\ credential[k] = credential'[k]
      BY <1>0, <2>1 DEF KindIs
    <3> QED
      BY <1>2, <3>1, OnwardMints DEF Names
  <2>2. CASE credential' = credential
    BY <2>1, <2>2
  <2>3. CASE WriteCredential(p)
    <3>1. /\ auth[p].at = "write"
          /\ credential' = [credential EXCEPT ![auth[p].kind] = File(auth[p].id, p)]
          /\ Mints(auth[p].id, auth[p].kind) /\ auth[p].kind \in Principal
      BY <1>0, <2>3 DEF WriteCredential, CommandIs
    <3>2. PICK i, kind : i = auth[p].id /\ kind = auth[p].kind
      OBVIOUS
    <3>3. /\ credential'[kind] = File(i, p)
          /\ \A k \in Principal \ {kind} : credential'[k] = credential[k]
      BY <1>0, <3>1, <3>2 DEF AuthTypes
    <3>4. Mints(i, kind)'
      BY <1>2, <3>1, <3>2, OnwardMints
    <3>5. Names(kind)'
      BY <3>3, <3>4 DEF Names, File
    <3> QED
      BY <2>1, <3>2, <3>3, <3>5
  <2>4. CASE \E x \in {NoFile, TornFile} : \E k \in Principal :
                 credential' = [credential EXCEPT ![k] = x]
    <3>1. PICK x \in {NoFile, TornFile}, kind \in Principal :
              credential' = [credential EXCEPT ![kind] = x]
      BY <2>4
    <3>2. credential'[kind] = x /\ \A k \in Principal \ {kind} : credential'[k] = credential[k]
      BY <1>0, <3>1 DEF AuthTypes
    <3>3. Names(kind)'
      BY <3>1, <3>2 DEF Names, NoFile, TornFile
    <3> QED
      BY <2>1, <3>2, <3>3
  <2>5. auth[p].at # "none" => auth[p].kind \in Principal
    BY <1>0 DEF CommandIs
  <2> QED
    BY <2>2, <2>3, <2>4, <2>5
       DEF AuthStep, Type, RefuseAuth, Identify, RemoveCredential, AuthDies, Busy
<1>5. CommandIs(p)'
  <2>1. ASSUME NEW verb \in Verb, NEW kind \in Principal, NEW given \in Known(kind) \union {None},
               Type(p, verb, kind, given)
        PROVE  CommandIs(p)'
    <3>1. auth'[p] = [at |-> "typed", verb |-> verb, kind |-> kind, given |-> given, id |-> None]
      BY <1>3, <2>1 DEF Type
    <3>2. given # None => Mints(given, kind)'
      BY <1>2, KnownMints, OnwardMints
    <3> QED
      BY <3>1, <3>2 DEF CommandIs
  <2>2. CASE RefuseAuth(p) \/ AuthDies(p)
    <3>1. /\ auth'[p].at \in {"refused", "dead"} /\ auth[p].at # "none"
          /\ auth'[p].verb = auth[p].verb /\ auth'[p].kind = auth[p].kind
          /\ auth'[p].given = auth[p].given
      BY <1>3, <2>2 DEF RefuseAuth, AuthDies, Busy, AuthRecord
    <3>2. PICK given, kind : given = auth[p].given /\ kind = auth[p].kind
      OBVIOUS
    <3>3. given # None => Mints(given, kind)'
      BY <1>0, <1>2, <3>1, <3>2, OnwardMints DEF CommandIs
    <3> QED
      BY <1>0, <3>1, <3>2, <3>3 DEF CommandIs
  <2>3. CASE Identify(p)
    <3> DEFINE i == IF KnownId(p) = None THEN p ELSE KnownId(p)
    <3>1. /\ auth'[p].at = First(auth[p].verb) /\ auth[p].at = "typed" /\ auth'[p].id = i
          /\ auth'[p].verb = auth[p].verb /\ auth'[p].kind = auth[p].kind
          /\ auth'[p].given = auth[p].given
      BY <1>3, <2>3 DEF Identify, AuthRecord
    <3>2. PICK given, kind : given = auth[p].given /\ kind = auth[p].kind
      OBVIOUS
    <3>3. kind \in Principal /\ auth[p].verb \in Verb /\ (given # None => Mints(given, kind))
      BY <1>0, <3>1, <3>2 DEF CommandIs
    <3>4. Names(kind)
      BY <1>0, <3>3 DEF KindIs
    <3>5. Mints(i, kind)
      <4>1. Mints(p, kind)
        BY <3>1, <3>2 DEF Mints
      <4> QED
        BY <3>2, <3>3, <3>4, <4>1 DEF KnownId, ReadId, Names
    <3> HIDE DEF i
    <3>6. PICK j : j = i
      OBVIOUS
    <3>7. Mints(j, kind)' /\ (given # None => Mints(given, kind)')
      BY <1>2, <3>3, <3>5, <3>6, OnwardMints
    <3> QED
      BY <3>1, <3>2, <3>3, <3>6, <3>7 DEF CommandIs, First
  <2>4. CASE WriteCredential(p)
    <3>1. /\ auth'[p].at = "print" /\ auth[p].at = "write" /\ auth'[p].id = auth[p].id
          /\ auth'[p].verb = auth[p].verb /\ auth'[p].kind = auth[p].kind
          /\ auth'[p].given = auth[p].given /\ p \in stored'
      BY <1>3, <2>4 DEF WriteCredential, AuthRecord
    <3>2. PICK given, kind, i : given = auth[p].given /\ kind = auth[p].kind /\ i = auth[p].id
      OBVIOUS
    <3>3. Mints(i, kind)' /\ (given # None => Mints(given, kind)')
      BY <1>0, <1>2, <3>1, <3>2, OnwardMints DEF CommandIs
    <3> QED
      BY <1>0, <3>1, <3>2, <3>3 DEF CommandIs
  <2>5. CASE RemoveCredential(p)
    <3>1. /\ auth'[p].at = "done" /\ auth[p].at = "remove" /\ auth'[p].id = auth[p].id
          /\ auth'[p].verb = auth[p].verb /\ auth'[p].kind = auth[p].kind
          /\ auth'[p].given = auth[p].given
      BY <1>3, <2>5 DEF RemoveCredential, AuthRecord
    <3>2. PICK given, kind, i : given = auth[p].given /\ kind = auth[p].kind /\ i = auth[p].id
      OBVIOUS
    <3>3. Mints(i, kind)' /\ (given # None => Mints(given, kind)')
      BY <1>0, <1>2, <3>1, <3>2, OnwardMints DEF CommandIs
    <3> QED
      BY <1>0, <3>1, <3>2, <3>3 DEF CommandIs
  <2> QED
    BY <2>1, <2>2, <2>3, <2>4, <2>5 DEF AuthStep
<1> QED
  BY <1>1, <1>2, <1>4, <1>5, AuthKept

\* Printing: the record goes on, and the sequence of its kind grows by one statement.
LEMMA PrintIs ==
    ASSUME AuthInv, NEW p \in AuthCommand, PrintStatement(p)
    PROVE  /\ auth[p].kind \in Principal /\ auth[p].verb \in Verb /\ auth[p].at = "print"
           /\ Mints(auth[p].id, auth[p].kind)
           /\ auth'[p].at = IF auth[p].verb = "revoke" THEN "remove" ELSE "done"
           /\ auth'[p].verb = auth[p].verb /\ auth'[p].kind = auth[p].kind
           /\ auth'[p].id = auth[p].id /\ auth'[p].given = auth[p].given
           /\ Printed(p) \in StatementRecord
           /\ printed'[auth[p].kind] = Append(printed[auth[p].kind], Printed(p))
           /\ \A k \in Principal \ {auth[p].kind} : printed'[k] = printed[k]
           /\ printed' \in [Principal -> Seq(StatementRecord)]
           /\ UNCHANGED <<credential, applied, principals, stored, tidy, sole>>
           /\ Onward(p) /\ auth' \in [AuthCommand -> AuthRecord]
<1>1. AuthTypes /\ CommandIs(p)
  BY DEF AuthInv
<1>2. /\ auth[p].kind \in Principal /\ auth[p].verb \in Verb /\ auth[p].at = "print"
      /\ Mints(auth[p].id, auth[p].kind)
  BY <1>1 DEF PrintStatement, CommandIs
<1>3. /\ auth'[p].at = IF auth[p].verb = "revoke" THEN "remove" ELSE "done"
      /\ auth'[p].verb = auth[p].verb /\ auth'[p].kind = auth[p].kind
      /\ auth'[p].id = auth[p].id /\ auth'[p].given = auth[p].given
  <2> DEFINE go == IF auth[p].verb = "revoke" THEN "remove" ELSE "done"
  <2>1. auth' = [auth EXCEPT ![p].at = go] /\ auth[p] \in AuthRecord /\ p \in DOMAIN auth
    BY <1>1 DEF PrintStatement, AuthTypes
  <2> HIDE DEF go
  <2>2. auth'[p].at = go /\ auth'[p].verb = auth[p].verb /\ auth'[p].kind = auth[p].kind
        /\ auth'[p].id = auth[p].id /\ auth'[p].given = auth[p].given
    BY <2>1 DEF AuthRecord
  <2> QED
    BY <2>2 DEF go
<1>4. Printed(p) \in StatementRecord
  BY <1>2 DEF Printed, Statement, StatementRecord, Mints, Someone
<1>5. /\ printed' = [printed EXCEPT ![auth[p].kind] = Append(@, Printed(p))]
      /\ printed \in [Principal -> Seq(StatementRecord)]
  BY <1>1 DEF PrintStatement, AuthTypes
<1>6. Append(printed[auth[p].kind], Printed(p)) \in Seq(StatementRecord)
  BY <1>2, <1>4, <1>5
<1>7. AuthStep(p)
  BY DEF AuthStep
<1>8. Onward(p) /\ auth' \in [AuthCommand -> AuthRecord]
  BY <1>7, Steps
<1>9. UNCHANGED <<credential, applied, principals, stored, tidy, sole>>
  BY DEF PrintStatement
<1> HIDE DEF Printed
<1>10. /\ printed'[auth[p].kind] = Append(printed[auth[p].kind], Printed(p))
       /\ \A k \in Principal \ {auth[p].kind} : printed'[k] = printed[k]
       /\ printed' \in [Principal -> Seq(StatementRecord)]
  BY <1>2, <1>5, <1>6
<1> QED
  BY <1>2, <1>3, <1>4, <1>8, <1>9, <1>10

LEMMA PrintKeeps ==
    ASSUME AuthInv, NEW p \in AuthCommand, PrintStatement(p)
    PROVE  AuthInv'
<1>0. AuthTypes /\ CommandIs(p) /\ \A k \in Principal : KindIs(k)
  BY DEF AuthInv
<1>1. PICK kind, s, i, verb : kind = auth[p].kind /\ s = Printed(p) /\ i = auth[p].id
                              /\ verb = auth[p].verb
  OBVIOUS
<1>2. /\ kind \in Principal /\ Mints(i, kind) /\ s \in StatementRecord
      /\ printed'[kind] = Append(printed[kind], s) /\ printed[kind] \in Seq(StatementRecord)
      /\ \A k \in Principal \ {kind} : printed'[k] = printed[k]
      /\ UNCHANGED <<credential, applied, principals, stored>> /\ AuthTypes'
      /\ Onward(p) /\ verb \in Verb
  BY <1>0, <1>1, PrintIs DEF AuthTypes
<1>3. /\ auth'[p].at = IF verb = "revoke" THEN "remove" ELSE "done"
      /\ auth'[p].verb = verb /\ auth'[p].kind = kind /\ auth'[p].id = i
      /\ auth'[p].given = auth[p].given
  BY <1>1, PrintIs
<1>4. Mints(i, kind)'
  BY <1>2, OnwardMints
<1>5. StatementIs(s, kind)'
  <2>1. /\ s.verb = verb /\ s.kind = kind /\ s.id = i
        /\ s.token = IF verb = "revoke" THEN None ELSE p
    BY <1>1 DEF Printed, Statement
  <2>2. verb # "revoke" => p \in stored'
    BY <1>0, <1>1, <1>2, PrintIs DEF CommandIs
  <2> QED
    BY <1>2, <1>3, <1>4, <2>1, <2>2 DEF StatementIs
<1>6. ASSUME NEW k \in Principal PROVE KindIs(k)'
  <2>1. KindIs(k) /\ credential'[k] = credential[k] /\ applied'[k] = applied[k]
        /\ printed[k] \in Seq(StatementRecord)
    BY <1>0, <1>2 DEF AuthTypes
  <2>2. Names(k)'
    BY <1>2, <2>1, OnwardMints DEF KindIs, Names
  <2>3. ASSUME NEW n \in 1 .. Len(printed[k])
        PROVE  StatementIs(printed[k][n], k)'
    <3>1. printed'[k][n] = printed[k][n]
      BY <1>2, <2>1
    <3>2. PICK t : t = printed[k][n]
      OBVIOUS
    <3>3. StatementIs(t, k)'
      BY <1>2, <2>1, <3>2, OnwardStatement DEF KindIs
    <3> QED
      BY <3>1, <3>2, <3>3
  <2>4. /\ Len(printed'[k]) \in Nat /\ Len(printed[k]) \in Nat
        /\ Len(printed[k]) <= Len(printed'[k])
        /\ \A n \in 1 .. Len(printed[k]) : printed'[k][n] = printed[k][n]
        /\ \A n \in 1 .. Len(printed'[k]) :
              n \in 1 .. Len(printed[k]) \/ (k = kind /\ printed'[k][n] = s)
    BY <1>2, <2>1
  <2>5. (\A n \in 1 .. Len(printed[k]) : StatementIs(printed[k][n], k))'
    <3> SUFFICES ASSUME NEW n \in 1 .. Len(printed'[k])
                 PROVE  StatementIs(printed[k][n], k)'
      OBVIOUS
    <3>1. CASE n \in 1 .. Len(printed[k])
      BY <2>3, <3>1
    <3>2. CASE k = kind /\ printed'[k][n] = s
      BY <1>5, <3>2
    <3> QED
      BY <2>4, <3>1, <3>2
  <2>6. (\A n \in 1 .. Len(applied[k]) : \E m \in 1 .. Len(printed[k]) :
             applied[k][n] = printed[k][m])'
    <3> SUFFICES ASSUME NEW n \in 1 .. Len(applied[k])
                 PROVE  \E m \in 1 .. Len(printed'[k]) : applied[k][n] = printed'[k][m]
      BY <2>1
    <3>1. PICK m \in 1 .. Len(printed[k]) : applied[k][n] = printed[k][m]
      BY <2>1 DEF KindIs
    <3> QED
      BY <2>4, <3>1
  <2> QED
    BY <2>2, <2>5, <2>6 DEF KindIs
<1>7. ASSUME NEW q \in AuthCommand PROVE CommandIs(q)' /\ RowIs(q)'
  <2>1. CommandIs(q) /\ RowIs(q)
    BY DEF AuthInv
  <2>2. PICK given, k, j, row : given = auth[q].given /\ k = auth[q].kind /\ j = auth[q].id
                                /\ row = principals[q]
    OBVIOUS
  <2>3. (auth[q].at # "none" /\ given # None => Mints(given, k)')
    BY <1>2, <2>1, <2>2, OnwardMints DEF CommandIs
  <2>4. CommandIs(q)'
    <3>1. CASE q = p
      <4>1. auth[p].at # "none" /\ k = kind
        BY <1>1, <2>2, <3>1, PrintIs
      <4> QED
        BY <1>2, <1>3, <1>4, <2>2, <2>3, <3>1, <4>1 DEF CommandIs
    <3>2. CASE q # p
      <4>1. auth'[q] = auth[q]
        BY <1>2, <3>2 DEF Onward
      <4>2. auth[q].at \in {"write", "print", "remove", "done"} => Mints(j, k)'
        BY <1>2, <2>1, <2>2, OnwardMints DEF CommandIs
      <4> QED
        BY <1>2, <2>1, <2>2, <2>3, <4>1, <4>2 DEF CommandIs
    <3> QED
      BY <3>1, <3>2
  <2>5. principals'[q] = row /\ applied' = applied /\ (row.kind # None => Mints(q, row.kind)')
    BY <1>2, <2>1, <2>2, OnwardMints DEF RowIs
  <2>6. RowIs(q)'
    BY <2>1, <2>2, <2>5 DEF RowIs
  <2> QED
    BY <2>4, <2>6
<1> QED
  BY <1>2, <1>6, <1>7 DEF AuthInv

LEMMA LoseKeeps ==
    ASSUME AuthInv, NEW kind \in Principal, LoseCredential(kind)
    PROVE  AuthInv'
<1>1. /\ credential' = [credential EXCEPT ![kind] = NoFile]
      /\ UNCHANGED <<auth, printed, applied, principals, stored>>
      /\ tidy' = [tidy EXCEPT ![kind] = FALSE] /\ sole' = None
  BY DEF LoseCredential
<1>2. AuthTypes'
  BY <1>1 DEF AuthInv, AuthTypes, NoFile, FileRecord, Someone
<1>3. ASSUME NEW k \in Principal PROVE KindIs(k)'
  <2>1. Names(k)'
    BY <1>1 DEF AuthInv, AuthTypes, KindIs, Names, Mints, NoFile
  <2> QED
    BY <1>1, <2>1 DEF AuthInv, KindIs, StatementIs, Mints
<1>4. ASSUME NEW p \in AuthCommand PROVE CommandIs(p)' /\ RowIs(p)'
  BY <1>1 DEF AuthInv, CommandIs, RowIs, Mints
<1> QED
  BY <1>2, <1>3, <1>4 DEF AuthInv

\* What a statement makes of its identity's row.
Outcome(s) ==
    CASE s.verb = "enroll" -> IF principals[s.id] # NoRow THEN principals[s.id]
                              ELSE Row(s.kind, s.token)
      [] s.verb = "rotate" -> IF principals[s.id].kind # s.kind THEN principals[s.id]
                              ELSE [principals[s.id] EXCEPT !.token = s.token, !.revoked = FALSE]
      [] s.verb = "revoke" -> IF principals[s.id] = NoRow \/ principals[s.id].revoked
                              THEN principals[s.id]
                              ELSE [principals[s.id] EXCEPT !.revoked = TRUE]

LEMMA ApplyIs ==
    ASSUME AuthInv, NEW kind \in Principal, NEW s \in Range(printed[kind]), Apply(s)
    PROVE  /\ StatementIs(s, kind) /\ s \in StatementRecord
           /\ \E m \in 1 .. Len(printed[kind]) : s = printed[kind][m]
           /\ applied'[kind] = Append(applied[kind], s)
           /\ \A k \in Principal \ {kind} : applied'[k] = applied[k]
           /\ applied' \in [Principal -> Seq(StatementRecord)]
           /\ principals' \in [AuthCommand -> RowRecord]
           /\ principals'[s.id] = Outcome(s) /\ Outcome(s) \in RowRecord
           /\ \A i \in AuthCommand \ {s.id} : principals'[i] = principals[i]
           /\ \A k \in Principal \ {kind} : tidy'[k] = tidy[k]
           /\ tidy'[kind] => tidy[kind] /\ IsPrefix(applied'[kind], printed[kind])
           /\ tidy' \in [Principal -> BOOLEAN]
           /\ UNCHANGED <<credential, auth, printed, stored, sole>>
<1>1. AuthTypes /\ KindIs(kind)
  BY DEF AuthInv
<1>2. printed[kind] \in Seq(StatementRecord)
  BY <1>1 DEF AuthTypes
<1>3. PICK m \in 1 .. Len(printed[kind]) : s = printed[kind][m]
  BY <1>2 DEF Range
<1>4. StatementIs(s, kind) /\ s \in StatementRecord /\ s.kind = kind /\ s.id \in AuthCommand
      /\ s.verb \in Verb /\ s.token \in Someone
  <2>1. StatementIs(s, kind)
    BY <1>1, <1>3 DEF KindIs
  <2>2. s \in StatementRecord
    BY <1>2, <1>3
  <2> QED
    BY <2>1, <2>2 DEF StatementIs, StatementRecord
<1>5. /\ applied'[kind] = Append(applied[kind], s)
      /\ \A k \in Principal \ {kind} : applied'[k] = applied[k]
      /\ applied' \in [Principal -> Seq(StatementRecord)]
  BY <1>1, <1>4 DEF Apply, AuthTypes
<1>6. principals[s.id] \in RowRecord
  BY <1>1, <1>4 DEF AuthTypes
<1>7. Outcome(s) \in RowRecord
  BY <1>4, <1>6 DEF Outcome, RowRecord, Row, Verb
<1>8. principals' = [principals EXCEPT ![s.id] = Outcome(s)]
  <2>0. principals \in [AuthCommand -> RowRecord]
    BY <1>1 DEF AuthTypes
  <2>1. principals = [principals EXCEPT ![s.id] = principals[s.id]]
    BY <1>4, <2>0
  <2>2. CASE s.verb = "enroll"
    BY <2>1, <2>2 DEF Apply, EnrolmentStatement, Outcome
  <2>3. CASE s.verb = "rotate"
    <3>1. principals' = RotationStatement(s)
      BY <2>3 DEF Apply
    <3>2. CASE principals[s.id].kind # s.kind
      BY <2>1, <2>3, <3>1, <3>2 DEF RotationStatement, Outcome
    <3>3. CASE principals[s.id].kind = s.kind
      <4>1. principals' = [principals EXCEPT ![s.id].token = s.token, ![s.id].revoked = FALSE]
        BY <3>1, <3>3 DEF RotationStatement
      <4>2. Outcome(s) = [principals[s.id] EXCEPT !.token = s.token, !.revoked = FALSE]
        BY <2>3, <3>3 DEF Outcome
      <4> QED
        BY <1>4, <2>0, <4>1, <4>2
    <3> QED
      BY <3>2, <3>3
  <2>4. CASE s.verb = "revoke"
    <3>1. principals' = RevocationStatement(s)
      BY <2>4 DEF Apply
    <3>2. CASE principals[s.id] = NoRow \/ principals[s.id].revoked
      BY <2>1, <2>4, <3>1, <3>2 DEF RevocationStatement, Outcome
    <3>3. CASE ~(principals[s.id] = NoRow \/ principals[s.id].revoked)
      <4>1. principals' = [principals EXCEPT ![s.id].revoked = TRUE]
        BY <3>1, <3>3 DEF RevocationStatement
      <4>2. Outcome(s) = [principals[s.id] EXCEPT !.revoked = TRUE]
        BY <2>4, <3>3 DEF Outcome
      <4> QED
        BY <1>4, <2>0, <4>1, <4>2
    <3> QED
      BY <3>2, <3>3
  <2> QED
    BY <1>4, <2>2, <2>3, <2>4 DEF Verb
<1>9. /\ principals' \in [AuthCommand -> RowRecord] /\ principals'[s.id] = Outcome(s)
      /\ \A i \in AuthCommand \ {s.id} : principals'[i] = principals[i]
  BY <1>1, <1>4, <1>7, <1>8 DEF AuthTypes
<1>10. /\ \A k \in Principal \ {kind} : tidy'[k] = tidy[k]
       /\ tidy'[kind] => tidy[kind] /\ IsPrefix(applied'[kind], printed[kind])
       /\ tidy' \in [Principal -> BOOLEAN]
  <2> DEFINE t == tidy[kind] /\ IsPrefix(applied'[kind], printed[kind])
  <2>1. tidy' = [tidy EXCEPT ![kind] = t] /\ t \in BOOLEAN
    BY <1>4 DEF Apply
  <2>2. t => tidy[kind] /\ IsPrefix(applied'[kind], printed[kind])
    OBVIOUS
  <2> HIDE DEF t
  <2>3. tidy'[kind] = t /\ tidy' \in [Principal -> BOOLEAN]
        /\ \A k \in Principal \ {kind} : tidy'[k] = tidy[k]
    BY <1>1, <2>1 DEF AuthTypes
  <2> QED
    BY <2>2, <2>3
<1>11. UNCHANGED <<credential, auth, printed, stored, sole>>
  BY DEF Apply
<1> QED
  BY <1>3, <1>4, <1>5, <1>7, <1>9, <1>10, <1>11

LEMMA ApplyKeeps ==
    ASSUME AuthInv, NEW kind \in Principal, NEW s \in Range(printed[kind]), Apply(s)
    PROVE  AuthInv'
<1>0. AuthTypes /\ \A k \in Principal : KindIs(k)
  BY DEF AuthInv
<1>1. AuthTypes' /\ UNCHANGED <<credential, auth, printed, stored>>
  BY <1>0, ApplyIs DEF AuthTypes
<1>2. ASSUME NEW k \in Principal PROVE KindIs(k)'
  <2>1. KindIs(k) /\ applied[k] \in Seq(StatementRecord)
    BY <1>0 DEF AuthTypes
  <2>2. \A n \in 1 .. Len(applied'[k]) : \E m \in 1 .. Len(printed[k]) :
            applied'[k][n] = printed[k][m]
    <3>1. CASE k = kind
      <4>1. applied'[k] = Append(applied[k], s) /\ s \in StatementRecord
            /\ \E m \in 1 .. Len(printed[k]) : s = printed[k][m]
        BY <3>1, ApplyIs
      <4>2. ASSUME NEW n \in 1 .. Len(applied'[k])
            PROVE  \E m \in 1 .. Len(printed[k]) : applied'[k][n] = printed[k][m]
        BY <2>1, <4>1, Grows DEF KindIs
      <4> QED
        BY <4>2
    <3>2. CASE k # kind
      BY <2>1, <3>2, ApplyIs DEF KindIs
    <3> QED
      BY <3>1, <3>2
  <2> QED
    BY <1>1, <2>1, <2>2 DEF KindIs, Names, StatementIs, Mints
<1>3. ASSUME NEW i \in AuthCommand PROVE RowIs(i)'
  <2>1. RowIs(i)
    BY DEF AuthInv
  <2>2. ASSUME NEW k \in Principal, NEW n \in 1 .. Len(applied[k])
        PROVE  n \in 1 .. Len(applied'[k]) /\ applied'[k][n] = applied[k][n]
    <3>1. applied[k] \in Seq(StatementRecord)
      BY <1>0 DEF AuthTypes
    <3>2. CASE k = kind
      <4>1. applied'[k] = Append(applied[k], s) /\ s \in StatementRecord
        BY <3>2, ApplyIs
      <4> QED
        BY <3>1, <4>1, Grows
    <3>3. CASE k # kind
      BY <3>3, ApplyIs
    <3> QED
      BY <3>2, <3>3
  <2>3. CASE principals'[i].kind = principals[i].kind /\ principals[i].kind # None
    <3>1. PICK k : k = principals[i].kind
      OBVIOUS
    <3>2. k \in Principal /\ Mints(i, k)
      BY <1>0, <2>1, <2>3, <3>1 DEF AuthTypes, RowRecord, RowIs
    <3> QED
      BY <1>1, <2>1, <2>2, <2>3, <3>1, <3>2 DEF RowIs, Mints
  <2>4. CASE principals'[i] = principals[i] /\ principals[i].kind = None
    BY <2>1, <2>4 DEF RowIs
  <2>5. CASE i = s.id /\ s.verb = "enroll" /\ principals'[i] = Row(kind, s.token)
    <3>1. principals'[i].kind = kind /\ kind # None
      BY <2>5, NoneIsApart DEF Row
    <3>2. Mints(i, kind)
      BY <2>5, ApplyIs DEF StatementIs
    <3>3. \E n \in 1 .. Len(applied'[kind]) : applied'[kind][n] = s
      <4>1. applied[kind] \in Seq(StatementRecord) /\ s \in StatementRecord
            /\ applied'[kind] = Append(applied[kind], s)
        BY <1>0, ApplyIs DEF AuthTypes
      <4> QED
        BY <4>1, Grows
    <3> QED
      BY <1>1, <2>5, <3>1, <3>2, <3>3 DEF RowIs, Mints
  <2>6. \/ principals'[i] = principals[i]
        \/ i = s.id /\ s.verb = "enroll" /\ principals'[i] = Row(kind, s.token)
        \/ principals'[i].kind = principals[i].kind /\ principals[i].kind # None
    <3>1. CASE i # s.id
      BY <3>1, ApplyIs
    <3>2. CASE i = s.id
      <4>1. principals'[i] = Outcome(s) /\ s.kind = kind /\ s.verb \in Verb
            /\ principals[i] \in RowRecord
        BY <1>0, <3>2, ApplyIs DEF StatementIs, StatementRecord, AuthTypes
      <4>2. principals[i].kind = None => principals[i] = NoRow
        BY <2>1 DEF RowIs
      <4> QED
        BY <3>2, <4>1, <4>2, NoneIsApart DEF Outcome, RowRecord, Verb
    <3> QED
      BY <3>1, <3>2
  <2> QED
    BY <2>3, <2>4, <2>5, <2>6
<1>4. ASSUME NEW p \in AuthCommand PROVE CommandIs(p)'
  BY <1>1 DEF AuthInv, CommandIs, Mints
<1> QED
  BY <1>1, <1>2, <1>3, <1>4 DEF AuthInv

LEMMA AuthInit == CredentialsInit => AuthInv
<1> SUFFICES ASSUME CredentialsInit PROVE AuthInv
  OBVIOUS
<1>1. AuthTypes
  BY DEF CredentialsInit, AuthTypes, NoFile, NoRow, FileRecord, AuthRecord, RowRecord, Someone
<1>2. \A p \in AuthCommand : CommandIs(p) /\ RowIs(p)
  BY DEF CredentialsInit, CommandIs, RowIs, NoRow
<1>3. \A k \in Principal : KindIs(k)
  BY DEF CredentialsInit, KindIs, Names, NoFile
<1> QED
  BY <1>1, <1>2, <1>3 DEF AuthInv

LEMMA AuthNext == AuthInv /\ [CredentialsNext]_credentialVars => AuthInv'
<1> SUFFICES ASSUME AuthInv, [CredentialsNext]_credentialVars PROVE AuthInv'
  OBVIOUS
<1>1. CASE UNCHANGED credentialVars
  <2>1. UNCHANGED <<credential, auth, printed, applied, principals, stored, tidy, sole>>
    BY <1>1 DEF credentialVars
  <2>2. AuthTypes'
    BY <2>1 DEF AuthInv, AuthTypes
  <2>3. \A p \in AuthCommand : CommandIs(p)' /\ RowIs(p)'
    BY <2>1 DEF AuthInv, CommandIs, RowIs, Mints
  <2>4. \A k \in Principal : KindIs(k)'
    BY <2>1 DEF AuthInv, KindIs, Names, StatementIs, Mints
  <2> QED
    BY <2>2, <2>3, <2>4 DEF AuthInv
<1> QED
  BY <1>1, StepKeeps, PrintKeeps, LoseKeeps, ApplyKeeps DEF CredentialsNext

(***************************************************************************)
(* No statement ever puts a token's hash into the plane before the token   *)
(* was whole in a credential file: a killed command strands no principal.  *)
(***************************************************************************)
THEOREM Stored == CredentialsSpec => []TokensWereStored
<1>1. AuthInv => TokensWereStored
  <2> SUFFICES ASSUME AuthInv, NEW k \in Principal, NEW s \in Range(printed[k]), s.verb # "revoke"
               PROVE  s.token \in stored
    BY DEF TokensWereStored
  <2>1. printed[k] \in Seq(StatementRecord)
    BY DEF AuthInv, AuthTypes
  <2>2. PICK n \in 1 .. Len(printed[k]) : s = printed[k][n]
    BY <2>1 DEF Range
  <2> QED
    BY <2>2 DEF AuthInv, KindIs, StatementIs
<1> QED
  BY AuthInit, AuthNext, <1>1, PTL DEF CredentialsSpec

-----------------------------------------------------------------------------
(***************************************************************************)
(* Credentials: a rotation that runs alone.                                *)
(***************************************************************************)
SoleIs(p) ==
    sole = p =>
        /\ auth[p].at # "none"
        /\ \A q \in AuthCommand \ {p} : ~Busy(q)
        /\ auth[p].at \in {"print", "done"} /\ auth[p].verb = "rotate" =>
               credential[auth[p].kind] = File(auth[p].id, p)

\* The row of the last statement applied, if it is a rotation that found it.
LastIs(k) ==
    applied[k] # <<>> =>
        LET s == Last(applied[k]) IN
        s.verb = "rotate" /\ principals[s.id].kind = k =>
            principals[s.id].token = s.token /\ ~principals[s.id].revoked

SoleInv == /\ \A p \in AuthCommand : SoleIs(p)
           /\ \A k \in Principal : LastIs(k)

LEMMA SoleStep ==
    ASSUME AuthInv, SoleInv, NEW p \in AuthCommand, AuthStep(p)
    PROVE  \A r \in AuthCommand : SoleIs(r)'
<1>0. /\ auth[p] \in AuthRecord /\ auth \in [AuthCommand -> AuthRecord]
      /\ credential \in [Principal -> FileRecord] /\ CommandIs(p)
      /\ Onward(p)
  BY Steps DEF AuthInv, AuthTypes
<1>1. ASSUME NEW verb \in Verb, NEW kind \in Principal, NEW given \in Known(kind) \union {None},
             Type(p, verb, kind, given)
      PROVE  \A r \in AuthCommand : SoleIs(r)'
  <2>1. sole' \in {None, p} /\ (sole' = p => \A q \in AuthCommand : ~Busy(q))
    BY <1>1, NoneIsApart DEF Type
  <2>2. auth'[p].at = "typed" /\ \A q \in AuthCommand \ {p} : auth'[q] = auth[q]
    BY <1>0, <1>1 DEF Type
  <2> QED
    BY <2>1, <2>2, NoneIsApart DEF SoleIs, Busy
<1>2. ASSUME Busy(p), sole' = sole,
             auth'[p].at \in {"print", "done"} /\ auth'[p].verb = "rotate" =>
                 credential'[auth'[p].kind] = File(auth'[p].id, p)
      PROVE  \A r \in AuthCommand : SoleIs(r)'
  <2>1. ASSUME NEW r \in AuthCommand, sole' = r
        PROVE  r = p
    BY <1>2, <2>1 DEF SoleInv, SoleIs
  <2>2. auth'[p].at # "none" /\ \A q \in AuthCommand \ {p} : auth'[q] = auth[q]
    BY <1>0 DEF Onward
  <2>3. ASSUME sole = p
        PROVE  \A q \in AuthCommand \ {p} : ~Busy(q)'
    BY <2>2, <2>3 DEF SoleInv, SoleIs, Busy
  <2>4. SoleIs(p)'
    BY <1>2, <2>2, <2>3 DEF SoleIs
  <2>5. ASSUME NEW r \in AuthCommand, r # p PROVE SoleIs(r)'
    BY <2>1, <2>5 DEF SoleIs
  <2> QED
    BY <2>4, <2>5
<1>3. CASE RefuseAuth(p)
  BY <1>0, <1>2, <1>3 DEF RefuseAuth, Busy, AuthRecord
<1>4. CASE Identify(p)
  <2>1. auth'[p].at = First(auth[p].verb) /\ auth'[p].verb = auth[p].verb
    BY <1>0, <1>4 DEF Identify, AuthRecord
  <2>2. auth'[p].verb = "rotate" => auth'[p].at = "write"
    BY <2>1 DEF First
  <2>3. Busy(p) /\ sole' = sole
    BY <1>4 DEF Identify, Busy
  <2> QED
    BY <1>2, <2>2, <2>3
<1>5. CASE WriteCredential(p)
  <2>1. auth[p].kind \in Principal
    BY <1>0, <1>5 DEF WriteCredential, CommandIs
  <2>2. /\ auth'[p].kind = auth[p].kind /\ auth'[p].id = auth[p].id
        /\ credential'[auth[p].kind] = File(auth[p].id, p)
    BY <1>0, <1>5, <2>1 DEF WriteCredential, AuthRecord
  <2>3. Busy(p) /\ sole' = sole
    BY <1>5 DEF WriteCredential, Busy
  <2> QED
    BY <1>2, <2>2, <2>3
<1>6. CASE PrintStatement(p)
  <2>1. /\ auth[p].at = "print" /\ auth'[p].verb = auth[p].verb /\ auth'[p].kind = auth[p].kind
        /\ auth'[p].id = auth[p].id /\ credential' = credential /\ sole' = sole
    BY <1>6, PrintIs
  <2>2. Busy(p)
    BY <2>1 DEF Busy
  <2>3. CASE sole = p
    <3>1. auth'[p].verb = "rotate" => credential'[auth'[p].kind] = File(auth'[p].id, p)
      BY <2>1, <2>3 DEF SoleInv, SoleIs
    <3> QED
      BY <1>2, <2>1, <2>2, <3>1
  <2>4. CASE sole # p
    <3>1. ASSUME NEW r \in AuthCommand PROVE sole # r
      BY <2>2, <2>4 DEF SoleInv, SoleIs
    <3> QED
      BY <2>1, <3>1 DEF SoleIs
  <2> QED
    BY <2>3, <2>4
<1>7. CASE RemoveCredential(p)
  <2>1. auth'[p].verb = "revoke" /\ Busy(p) /\ sole' = sole
    BY <1>0, <1>7 DEF RemoveCredential, AuthRecord, CommandIs, Busy
  <2> QED
    BY <1>2, <2>1
<1>8. CASE AuthDies(p)
  <2>1. auth'[p].at = "dead" /\ Busy(p) /\ sole' = sole
    BY <1>0, <1>8 DEF AuthDies, AuthRecord
  <2> QED
    BY <1>2, <2>1
<1> QED
  BY <1>1, <1>3, <1>4, <1>5, <1>6, <1>7, <1>8 DEF AuthStep

LEMMA ApplyLast ==
    ASSUME AuthInv, SoleInv, NEW kind \in Principal, NEW s \in Range(printed[kind]), Apply(s)
    PROVE  \A k \in Principal : LastIs(k)'
<1>1. ASSUME NEW k \in Principal, k # kind PROVE LastIs(k)'
  <2>1. applied'[k] = applied[k] /\ LastIs(k) /\ KindIs(k) /\ applied[k] \in Seq(StatementRecord)
    BY <1>1, ApplyIs DEF SoleInv, AuthInv, AuthTypes
  <2>2. CASE applied[k] # <<>>
    <3> DEFINE t == Last(applied[k])
    <3>0. Len(applied[k]) \in 1 .. Len(applied[k]) /\ t = applied[k][Len(applied[k])]
      BY <2>1, <2>2 DEF Last
    <3>1. PICK m \in 1 .. Len(printed[k]) : t = printed[k][m]
      BY <2>1, <3>0 DEF KindIs
    <3>2. Mints(t.id, k)
      BY <2>1, <3>1 DEF KindIs, StatementIs
    <3>3. Mints(s.id, kind)
      BY ApplyIs DEF StatementIs
    <3>4. principals'[t.id] = principals[t.id]
      <4>1. t.id \in AuthCommand \ {s.id}
        BY <1>1, <3>2, <3>3 DEF Mints
      <4> QED
        BY <4>1, ApplyIs
    <3> QED
      BY <2>1, <2>2, <3>4 DEF LastIs
  <2>3. CASE applied[k] = <<>>
    BY <2>1, <2>3 DEF LastIs
  <2> QED
    BY <2>2, <2>3
<1>2. LastIs(kind)'
  <2>1. applied'[kind] = Append(applied[kind], s) /\ applied[kind] \in Seq(StatementRecord)
        /\ s \in StatementRecord /\ s.kind = kind
    BY ApplyIs DEF AuthInv, AuthTypes, StatementIs
  <2>2. Last(applied'[kind]) = s
    BY <2>1, Grows DEF Last
  <2>3. principals'[s.id] = Outcome(s)
    BY ApplyIs
  <2>4. principals[s.id] \in RowRecord
    BY <2>1 DEF AuthInv, AuthTypes, StatementRecord
  <2>5. s.verb = "rotate" /\ Outcome(s).kind = kind =>
            Outcome(s).token = s.token /\ Outcome(s).revoked = FALSE
    BY <2>1, <2>4 DEF Outcome, RowRecord
  <2> QED
    BY <2>2, <2>3, <2>5 DEF LastIs
<1> QED
  BY <1>1, <1>2

LEMMA SoleNext == AuthInv /\ SoleInv /\ [CredentialsNext]_credentialVars => SoleInv'
<1> SUFFICES ASSUME AuthInv, SoleInv, [CredentialsNext]_credentialVars PROVE SoleInv'
  OBVIOUS
<1>1. ASSUME NEW p \in AuthCommand, AuthStep(p)
      PROVE  SoleInv'
  <2>1. UNCHANGED <<applied, principals>>
    BY <1>1, Steps
  <2>2. \A k \in Principal : LastIs(k)'
    BY <2>1 DEF SoleInv, LastIs
  <2> QED
    BY <1>1, <2>2, SoleStep DEF SoleInv
<1>2. ASSUME NEW kind \in Principal, LoseCredential(kind)
      PROVE  SoleInv'
  BY <1>2, NoneIsApart DEF SoleInv, SoleIs, LastIs, LoseCredential
<1>3. ASSUME NEW kind \in Principal, NEW s \in Range(printed[kind]), Apply(s)
      PROVE  SoleInv'
  <2>1. UNCHANGED <<credential, auth, sole>>
    BY <1>3, ApplyIs
  <2>2. \A p \in AuthCommand : SoleIs(p)'
    BY <2>1 DEF SoleInv, SoleIs, Busy
  <2> QED
    BY <1>3, <2>2, ApplyLast DEF SoleInv
<1>4. CASE UNCHANGED credentialVars
  BY <1>4 DEF credentialVars, SoleInv, SoleIs, LastIs, Busy
<1> QED
  BY <1>1, <1>2, <1>3, <1>4 DEF CredentialsNext

(***************************************************************************)
(* `rotate` repairs (auth.ts, stage3-service-auth.ts): whatever came       *)
(* before, the token it leaves in the file is the one that authenticates,  *)
(* once its statement is the last applied. Its file is its own because it  *)
(* ran alone, its row because a rotation clears revoked_at.                *)
(***************************************************************************)
THEOREM Repairs == CredentialsSpec => []RotationRepairs
<1>1. CredentialsInit => SoleInv
  BY NoneIsApart DEF CredentialsInit, SoleInv, SoleIs, LastIs
<1>2. AuthInv /\ SoleInv => RotationRepairs
  <2> SUFFICES ASSUME AuthInv, SoleInv, NEW p \in AuthCommand,
                      sole = p, auth[p].at = "done", auth[p].verb = "rotate",
                      applied[auth[p].kind] # <<>>, Last(applied[auth[p].kind]).token = p,
                      principals[auth[p].id].kind = auth[p].kind
               PROVE  /\ credential[auth[p].kind] = File(auth[p].id, p)
                      /\ Authenticates(auth[p].kind, p)
    BY DEF RotationRepairs
  <2> DEFINE kind == auth[p].kind
             s == Last(applied[kind])
  <2>1. kind \in Principal /\ CommandIs(p)
    BY DEF AuthInv, CommandIs
  <2>2. KindIs(kind) /\ LastIs(kind) /\ applied[kind] \in Seq(StatementRecord)
    BY <2>1 DEF AuthInv, AuthTypes, SoleInv
  <2>. DEFINE n == Len(applied[kind])
  <2>a. applied[kind] # <<>>
    OBVIOUS
  <2>b. n \in 1 .. n
    BY <2>2, <2>a
  <2>c. s = applied[kind][n]
    BY DEF Last
  <2>3. PICK m \in 1 .. Len(printed[kind]) : s = printed[kind][m]
    <3>. HIDE DEF kind, s
    <3>1. \A i \in 1 .. n : \E m \in 1 .. Len(printed[kind]) : applied[kind][i] = printed[kind][m]
      BY <2>2 DEF KindIs
    <3>. QED  BY <3>1, <2>b, <2>c
  <2>4. StatementIs(s, kind)
    BY <2>2, <2>3 DEF KindIs
  <2>5. s.verb = "rotate" /\ s.id = auth[p].id
    BY <2>4, NoneIsApart DEF StatementIs
  <2>6. principals[auth[p].id].token = p /\ ~principals[auth[p].id].revoked
    BY <2>2, <2>5 DEF LastIs
  <2>7. auth[p].id \in AuthCommand
    BY <2>1 DEF CommandIs, Mints
  <2>8. Authenticates(kind, p)
    BY <2>6, <2>7 DEF Authenticates, Live
  <2>9. credential[kind] = File(auth[p].id, p)
    BY DEF SoleInv, SoleIs
  <2> QED
    BY <2>8, <2>9
<1>3. AuthInv /\ SoleInv /\ [CredentialsNext]_credentialVars => (AuthInv /\ SoleInv)'
  BY AuthNext, SoleNext
<1> QED
  BY AuthInit, <1>1, <1>2, <1>3, PTL DEF CredentialsSpec

-----------------------------------------------------------------------------
(***************************************************************************)
(* Credentials: commands one at a time, statements as printed.             *)
(***************************************************************************)

\* After the first n statements t, a principal stands whose token was not revoked.
StandsAt(t, n) == n > 0 /\ t[n].verb # "revoke"

\* A statement goes on from the one printed before it: it is of the identity that stands
\* or, where none does, of a new one, and its token is its own.
Linked(k, n) ==
    LET t == printed[k] IN
    /\ t[n].verb = "enroll" => ~StandsAt(t, n - 1) /\ t[n].id = t[n].token
    /\ t[n].verb # "enroll" => IF StandsAt(t, n - 1) THEN t[n].id = t[n - 1].id
                               ELSE auth[t[n].id].verb # "enroll" /\ k # "service"
    /\ t[n].verb # "revoke" /\ k = "service" => auth[t[n].id].verb = "enroll"
    /\ t[n].verb # "revoke" => \A m \in 1 .. (n - 1) : t[m].token # t[n].token

\* The same of the statement a command is about to print.
Continues(p, k) ==
    LET t == printed[k] IN
    /\ auth[p].verb = "enroll" => ~StandsAt(t, Len(t)) /\ auth[p].id = p
    /\ auth[p].verb # "enroll" => IF StandsAt(t, Len(t)) THEN auth[p].id = t[Len(t)].id
                                  ELSE auth[p].id = p /\ k # "service"

InTurn(p, k) ==
    Mints(p, k) =>
        /\ auth[p].given = None
        /\ auth[p].at \in {"write", "print"} => Continues(p, k)
        /\ auth[p].at = "print" /\ auth[p].verb # "revoke" => credential[k] = File(auth[p].id, p)
        /\ auth[p].at = "remove" => ~StandsAt(printed[k], Len(printed[k]))

OneAtATime(k) ==
    \A p, q \in AuthCommand : Busy(p) /\ Busy(q) /\ Mints(p, k) /\ Mints(q, k) => p = q

\* No command of the kind is between its file and its statement.
Settled(k) ==
    \A p \in AuthCommand : Mints(p, k) => /\ auth[p].at # "remove"
                                          /\ auth[p].at = "print" => auth[p].verb = "revoke"

\* The file holds the token of the last statement.
FileInStep(k) ==
    LET t == printed[k] IN
    /\ credential[k].is = "whole" <=> StandsAt(t, Len(t))
    /\ credential[k].is = "whole" => /\ credential[k].id = t[Len(t)].id
                                     /\ credential[k].token = t[Len(t)].token

Agrees(t, u) == Len(t) <= Len(u) /\ \A m \in 1 .. Len(t) : t[m] = u[m]

\* The rows are those the last statement applied leaves.
RowsInStep(k) ==
    LET t == applied[k]
        n == Len(t) IN
    /\ \A i \in AuthCommand :
          principals[i].kind = k /\ principals[i].revoked = FALSE =>
              /\ StandsAt(t, n) /\ i = t[n].id /\ auth[i].verb = "enroll"
              /\ principals[i].token = t[n].token
    /\ StandsAt(t, n) /\ auth[t[n].id].verb = "enroll" =>
          principals[t[n].id].kind = k /\ principals[t[n].id].revoked = FALSE

InStep(k) ==
    /\ \A n \in 1 .. Len(printed[k]) : Linked(k, n)
    /\ \A p \in AuthCommand : InTurn(p, k)
    /\ OneAtATime(k)
    /\ credential[k].is # "torn"
    /\ Settled(k) => FileInStep(k)
    /\ Agrees(applied[k], printed[k]) /\ RowsInStep(k)

TidyInv == \A k \in Principal : tidy[k] => InStep(k)

LEMMA PrefixAgrees ==
    ASSUME NEW S, NEW t \in Seq(S), NEW u \in Seq(S), IsPrefix(t, u)
    PROVE  Agrees(t, u)
<1>1. Len(t) \in Nat /\ Len(u) \in Nat /\ Len(t) <= Len(u)
      /\ SubSeq(t, 1, Len(t)) = SubSeq(u, 1, Len(t))
  BY DEF IsPrefix
<1>2. ASSUME NEW m \in 1 .. Len(t) PROVE t[m] = u[m]
  <2>1. SubSeq(t, 1, Len(t))[m] = t[m] /\ SubSeq(u, 1, Len(t))[m] = u[m]
    BY <1>1
  <2> QED
    BY <1>1, <2>1
<1> QED
  BY <1>1, <1>2 DEF Agrees

\* What a step of another kind, or none, leaves in step.
LEMMA ElsewhereKeeps ==
    ASSUME AuthInv, NEW k \in Principal, InStep(k), NEW p,
           \A q \in AuthCommand \ {p} : auth'[q] = auth[q],
           ~Mints(p, k), ~Mints(p, k)',
           credential'[k] = credential[k], printed'[k] = printed[k], applied'[k] = applied[k],
           \A i \in AuthCommand : principals'[i] = principals[i]
                                  \/ (principals[i].kind # k /\ principals'[i].kind # k)
    PROVE  InStep(k)'
<1>1. KindIs(k) /\ applied[k] \in Seq(StatementRecord) /\ printed[k] \in Seq(StatementRecord)
  BY DEF AuthInv, AuthTypes
<1>2. ASSUME NEW n \in 1 .. Len(printed[k])
      PROVE  auth'[printed[k][n].id] = auth[printed[k][n].id] /\ Mints(printed[k][n].id, k)
  <2>1. Mints(printed[k][n].id, k)
    BY <1>1 DEF KindIs, StatementIs
  <2> QED
    BY <2>1 DEF Mints
<1>3. (\A n \in 1 .. Len(printed[k]) : Linked(k, n))'
  BY <1>2 DEF InStep, Linked
<1>4. ASSUME NEW q \in AuthCommand
      PROVE  InTurn(q, k)' /\ (Mints(q, k)' <=> Mints(q, k)) /\ (Mints(q, k) => auth'[q] = auth[q])
  <2>1. CASE q = p
    BY <2>1 DEF InTurn
  <2>2. CASE q # p
    <3>1. auth'[q] = auth[q] /\ InTurn(q, k)
      BY <2>2 DEF InStep
    <3> QED
      BY <3>1 DEF InTurn, Mints, Continues
  <2> QED
    BY <2>1, <2>2
<1>5. OneAtATime(k)'
  BY <1>4 DEF InStep, OneAtATime, Busy
<1>6. (Settled(k) => FileInStep(k))'
  BY <1>4 DEF InStep, Settled, FileInStep
<1>7. RowsInStep(k)'
  <2>1. \A i \in AuthCommand : principals'[i].kind = k => principals'[i] = principals[i]
    OBVIOUS
  <2>2. \A i \in AuthCommand : principals[i].kind = k =>
            auth'[i] = auth[i] /\ principals'[i] = principals[i]
    <3>1. ASSUME NEW i \in AuthCommand, principals[i].kind = k
          PROVE  Mints(i, k)
      BY <3>1, NoneIsApart DEF AuthInv, RowIs
    <3> QED
      BY <3>1
  <2>3. CASE Len(applied[k]) = 0
    BY <2>1, <2>2, <2>3 DEF InStep, RowsInStep, StandsAt
  <2>4. CASE Len(applied[k]) # 0
    <3>1. Len(applied[k]) \in 1 .. Len(applied[k])
      BY <1>1, <2>4
    <3>2. PICK n \in 1 .. Len(printed[k]) : applied[k][Len(applied[k])] = printed[k][n]
      BY <1>1, <3>1 DEF KindIs
    <3>3. auth'[applied[k][Len(applied[k])].id] = auth[applied[k][Len(applied[k])].id]
          /\ applied[k][Len(applied[k])].id \in AuthCommand
      BY <1>2, <3>2 DEF Mints
    <3> QED
      BY <2>1, <2>2, <3>3 DEF InStep, RowsInStep
  <2> QED
    BY <2>3, <2>4
<1> QED
  BY <1>3, <1>4, <1>5, <1>6, <1>7 DEF InStep

\* Which command minted an identity does not change, so neither does what the statements
\* and the rows say of it.
LEMMA LinkedOnward ==
    ASSUME AuthInv, NEW k \in Principal, NEW n \in 1 .. Len(printed[k]), Linked(k, n),
           NEW p \in AuthCommand, Onward(p),
           \A m \in 1 .. n : printed'[k][m] = printed[k][m]
    PROVE  Linked(k, n)'
<1>1. printed[k] \in Seq(StatementRecord) /\ n \in Nat /\ n > 0
      /\ n \in 1 .. n /\ (n - 1 > 0 => n - 1 \in 1 .. n)
  BY DEF AuthInv, AuthTypes
<1>2. Mints(printed[k][n].id, k)
  BY DEF AuthInv, KindIs, StatementIs
<1>3. auth'[printed[k][n].id].verb = auth[printed[k][n].id].verb
  BY <1>2 DEF Mints, Onward
<1>4. /\ printed'[k][n] = printed[k][n]
      /\ n - 1 > 0 => printed'[k][n - 1] = printed[k][n - 1]
  BY <1>1
<1>5. StandsAt(printed'[k], n - 1) <=> StandsAt(printed[k], n - 1)
  BY <1>4 DEF StandsAt
<1>6. \A m \in 1 .. (n - 1) : printed'[k][m] = printed[k][m]
  BY <1>1
<1>7. StandsAt(printed[k], n - 1) => printed'[k][n - 1] = printed[k][n - 1]
  BY <1>4 DEF StandsAt
<1> QED
  BY <1>3, <1>4, <1>5, <1>6, <1>7 DEF Linked

LEMMA RowsOnward ==
    ASSUME AuthInv, NEW k \in Principal, RowsInStep(k), NEW p \in AuthCommand, Onward(p),
           UNCHANGED <<applied, principals>>
    PROVE  RowsInStep(k)'
<1>1. ASSUME NEW i \in AuthCommand, Mints(i, k) PROVE auth'[i].verb = auth[i].verb
  BY <1>1 DEF Mints, Onward
<1>2. ASSUME NEW i \in AuthCommand, principals[i].kind = k PROVE Mints(i, k)
  BY <1>2, NoneIsApart DEF AuthInv, RowIs
<1>3. StandsAt(applied[k], Len(applied[k])) =>
          Mints(applied[k][Len(applied[k])].id, k)
  <2>1. applied[k] \in Seq(StatementRecord) /\ KindIs(k)
    BY DEF AuthInv, AuthTypes
  <2>2. Len(applied[k]) > 0 => Len(applied[k]) \in 1 .. Len(applied[k])
    BY <2>1
  <2>3. \A m \in 1 .. Len(printed[k]) : Mints(printed[k][m].id, k)
    BY <2>1 DEF KindIs, StatementIs
  <2> QED
    BY <2>1, <2>2, <2>3 DEF KindIs, StandsAt
<1>4. Mints(applied[k][Len(applied[k])].id, k) =>
          auth'[applied[k][Len(applied[k])].id].verb = auth[applied[k][Len(applied[k])].id].verb
  BY <1>1 DEF Mints
<1> QED
  BY <1>1, <1>2, <1>3, <1>4 DEF RowsInStep

\* A step of the only command of the kind that is at work, and that prints nothing.
LEMMA OwnKeeps ==
    ASSUME AuthInv, NEW k \in Principal, InStep(k), NEW p \in AuthCommand, Onward(p),
           Mints(p, k)', \A q \in AuthCommand \ {p} : Mints(q, k) => ~Busy(q),
           printed'[k] = printed[k], UNCHANGED <<applied, principals>>,
           credential'[k].is # "torn", InTurn(p, k)', (Settled(k) => FileInStep(k))'
    PROVE  InStep(k)'
<1>1. ASSUME NEW n \in 1 .. Len(printed'[k]) PROVE Linked(k, n)'
  BY LinkedOnward DEF InStep
<1>2. ASSUME NEW q \in AuthCommand \ {p}
      PROVE  InTurn(q, k)' /\ (Mints(q, k)' => ~Busy(q)')
  <2>1. auth'[q] = auth[q] /\ InTurn(q, k)
    BY DEF Onward, InStep
  <2> QED
    BY <2>1 DEF InTurn, Mints, Busy
<1>3. OneAtATime(k)'
  BY <1>2 DEF OneAtATime
<1>4. RowsInStep(k)' /\ Agrees(applied[k], printed[k])'
  BY RowsOnward DEF InStep
<1>5. (\A n \in 1 .. Len(printed[k]) : Linked(k, n))'
  BY <1>1
<1>6. (\A q \in AuthCommand : InTurn(q, k))'
  BY <1>2
<1> QED
  BY <1>3, <1>4, <1>5, <1>6 DEF InStep

\* What a command decides to do, with a file in step.
LEMMA IdentifyContinues ==
    ASSUME AuthInv, NEW k \in Principal, NEW p \in AuthCommand, Mints(p, k), Identify(p),
           FileInStep(k), auth[p].given = None
    PROVE  Continues(p, k)'
<1> DEFINE t == printed[k]
           i == IF KnownId(p) = None THEN p ELSE KnownId(p)
<1>1. /\ auth[p].at = "typed" /\ ~Refused(p) /\ auth[p].kind = k /\ auth[p] \in AuthRecord
      /\ auth'[p].id = i /\ auth'[p].verb = auth[p].verb /\ printed' = printed
  BY DEF Identify, Mints, AuthInv, AuthTypes, AuthRecord
<1>2. p # None /\ Names(k)
  BY NoneIsApart DEF AuthInv, KindIs
<1>3. KnownId(p) = IF k = "service" /\ auth[p].verb = "enroll" THEN None ELSE ReadId(k)
  BY <1>1 DEF KnownId
<1>4. CASE auth[p].verb = "enroll"
  <2>1. credential[k].is # "whole"
    BY <1>1, <1>4 DEF Refused
  <2>2. i = p /\ ~StandsAt(t, Len(t))
    BY <1>3, <2>1 DEF ReadId, FileInStep
  <2> QED
    BY <1>1, <1>4, <2>2 DEF Continues
<1>5. CASE auth[p].verb # "enroll" /\ StandsAt(t, Len(t))
  <2>1. ReadId(k) = t[Len(t)].id /\ ReadId(k) # None
    BY <1>2, <1>5, NoneIsApart DEF FileInStep, ReadId, Names, Mints
  <2>2. i = t[Len(t)].id
    BY <1>3, <1>5, <2>1
  <2> QED
    BY <1>1, <1>5, <2>2 DEF Continues
<1>6. CASE auth[p].verb # "enroll" /\ ~StandsAt(t, Len(t))
  <2>1. KnownId(p) = None
    BY <1>3, <1>6 DEF FileInStep, ReadId
  <2>2. i = p /\ k # "service"
    BY <1>1, <1>6, <2>1 DEF Refused
  <2> QED
    BY <1>1, <1>6, <2>2 DEF Continues
<1> QED
  BY <1>4, <1>5, <1>6

\* The statement printed goes on from the one before it.
LEMMA PrintLinks ==
    ASSUME AuthInv, NEW p \in AuthCommand, PrintStatement(p), NEW k, k = auth[p].kind,
           InStep(k), NEW n, n = Len(printed[k]) + 1
    PROVE  Linked(k, n)'
<1> DEFINE t == printed[k]
<1>1. PICK s : s = Printed(p)
  OBVIOUS
<1>2. /\ k \in Principal /\ s \in StatementRecord /\ t \in Seq(StatementRecord)
      /\ printed'[k] = Append(t, s) /\ KindIs(k) /\ Mints(auth[p].id, k) /\ Mints(p, k)
      /\ auth[p].at = "print" /\ Onward(p)
  BY <1>1, PrintIs DEF AuthInv, AuthTypes, Mints
<1>3. /\ s.verb = auth[p].verb /\ s.kind = k /\ s.id = auth[p].id
      /\ s.token = IF auth[p].verb = "revoke" THEN None ELSE p
  BY <1>1 DEF Printed, Statement
<1>4. Continues(p, k)
  BY <1>2 DEF InStep, InTurn
<1>5. /\ n - 1 = Len(t) /\ Len(t) \in Nat /\ printed'[k][n] = s
      /\ \A m \in 1 .. (n - 1) : m \in 1 .. Len(t) /\ printed'[k][m] = t[m]
      /\ n - 1 > 0 => printed'[k][n - 1] = t[n - 1] /\ n - 1 \in 1 .. Len(t)
  BY <1>2
<1>6. StandsAt(printed'[k], n - 1) <=> StandsAt(t, n - 1)
  BY <1>5 DEF StandsAt
<1>7. auth'[s.id].verb = auth[s.id].verb /\ auth'[p].verb = auth[p].verb
  BY <1>2, <1>3 DEF Mints, Onward
<1>8. s.verb = "enroll" => ~StandsAt(t, n - 1) /\ s.id = s.token
  BY <1>3, <1>4, <1>5 DEF Continues
<1>9. s.verb # "enroll" => IF StandsAt(t, n - 1) THEN s.id = t[n - 1].id
                           ELSE auth[s.id].verb # "enroll" /\ k # "service"
  BY <1>3, <1>4, <1>5 DEF Continues
<1>10. ASSUME s.verb # "revoke", k = "service"
       PROVE  auth[s.id].verb = "enroll"
  <2>1. CASE s.verb = "enroll"
    BY <1>3, <1>8, <2>1
  <2>2. CASE s.verb # "enroll"
    <3>1. StandsAt(t, n - 1) /\ s.id = t[n - 1].id
      BY <1>9, <1>10, <2>2
    <3>2. Linked(k, n - 1) /\ t[n - 1].verb # "revoke"
      BY <1>5, <3>1 DEF InStep, StandsAt
    <3> QED
      BY <1>10, <3>1, <3>2 DEF Linked
  <2> QED
    BY <2>1, <2>2
<1>11. ASSUME s.verb # "revoke", NEW m \in 1 .. (n - 1)
       PROVE  printed'[k][m].token # s.token
  <2>1. StatementIs(t[m], k) /\ printed'[k][m] = t[m] /\ s.token = p
    BY <1>2, <1>3, <1>5, <1>11 DEF KindIs
  <2>2. p # None /\ auth[p].at # "done"
    BY <1>2, NoneIsApart
  <2> QED
    BY <2>1, <2>2 DEF StatementIs
<1>12. StandsAt(t, n - 1) => printed'[k][n - 1] = t[n - 1]
  BY <1>5 DEF StandsAt
<1> QED
  BY <1>5, <1>6, <1>7, <1>8, <1>9, <1>10, <1>11, <1>12 DEF Linked

LEMMA PrintInStep ==
    ASSUME AuthInv, NEW p \in AuthCommand, PrintStatement(p), NEW k, k = auth[p].kind, InStep(k)
    PROVE  InStep(k)'
<1> DEFINE t == printed[k]
<1>1. PICK s : s = Printed(p)
  OBVIOUS
<1>2. /\ k \in Principal /\ s \in StatementRecord /\ t \in Seq(StatementRecord)
      /\ printed'[k] = Append(t, s) /\ Mints(p, k) /\ auth[p].at = "print" /\ Onward(p)
      /\ UNCHANGED <<credential, applied, principals>>
      /\ applied[k] \in Seq(StatementRecord)
  BY <1>1, PrintIs DEF AuthInv, AuthTypes, Mints
<1>3. /\ auth'[p].at = IF auth[p].verb = "revoke" THEN "remove" ELSE "done"
      /\ auth'[p].verb = auth[p].verb /\ auth'[p].kind = k
      /\ auth'[p].given = auth[p].given
  BY PrintIs
<1>4. /\ s.verb = auth[p].verb /\ s.id = auth[p].id
      /\ s.token = IF auth[p].verb = "revoke" THEN None ELSE p
  BY <1>1 DEF Printed, Statement
<1>5. /\ Len(printed'[k]) = Len(t) + 1 /\ Len(t) \in Nat /\ printed'[k][Len(t) + 1] = s
      /\ \A m \in 1 .. Len(t) : printed'[k][m] = t[m]
      /\ \A m \in 1 .. Len(printed'[k]) : m \in 1 .. Len(t) \/ m = Len(t) + 1
  BY <1>2, Grows
<1>6. (\A n \in 1 .. Len(printed[k]) : Linked(k, n))'
  <2> SUFFICES ASSUME NEW n \in 1 .. Len(printed'[k]) PROVE Linked(k, n)'
    OBVIOUS
  <2>1. CASE n \in 1 .. Len(t)
    <3>1. Linked(k, n) /\ \A m \in 1 .. n : printed'[k][m] = t[m]
      BY <1>5, <2>1 DEF InStep
    <3> QED
      BY <1>2, <2>1, <3>1, LinkedOnward
  <2>2. CASE n = Len(t) + 1
    BY <2>2, PrintLinks
  <2> QED
    BY <1>5, <2>1, <2>2
<1>7. StandsAt(printed[k], Len(printed[k]))' <=> s.verb # "revoke"
  BY <1>5 DEF StandsAt
<1>8. ASSUME NEW q \in AuthCommand \ {p}
      PROVE  InTurn(q, k)' /\ (Mints(q, k)' => ~Busy(q)')
  <2>1. auth'[q] = auth[q] /\ InTurn(q, k)
    BY <1>2 DEF Onward, InStep
  <2>2. Mints(q, k) => ~Busy(q)
    BY <1>2 DEF InStep, OneAtATime, Busy
  <2> QED
    BY <2>1, <2>2 DEF InTurn, Mints, Busy
<1>9. InTurn(p, k)'
  <2>1. auth[p].given = None
    BY <1>2 DEF InStep, InTurn
  <2>2. auth'[p].at \notin {"write", "print"} /\ (auth'[p].at = "remove" => s.verb = "revoke")
    BY <1>3, <1>4
  <2> QED
    BY <1>3, <1>7, <2>1, <2>2 DEF InTurn
<1>10. (\A q \in AuthCommand : InTurn(q, k))'
  BY <1>8, <1>9
<1>11. OneAtATime(k)'
  BY <1>8 DEF OneAtATime
<1>12. (Settled(k) => FileInStep(k))'
  <2>1. CASE auth[p].verb = "revoke"
    BY <1>3, <2>1 DEF Settled, Mints
  <2>2. CASE auth[p].verb # "revoke"
    <3>1. credential'[k] = File(auth[p].id, p)
      BY <1>2, <2>2 DEF InStep, InTurn
    <3>2. credential'[k].is = "whole" /\ credential'[k].id = s.id /\ credential'[k].token = s.token
      BY <1>4, <2>2, <3>1 DEF File
    <3> QED
      BY <1>4, <1>5, <1>7, <2>2, <3>2 DEF FileInStep
  <2> QED
    BY <2>1, <2>2
<1>13. Agrees(applied[k], printed[k])'
  <2>1. Agrees(applied[k], t) /\ Len(applied[k]) \in Nat
    BY <1>2 DEF InStep
  <2> QED
    BY <1>2, <1>5, <2>1 DEF Agrees
<1>14. RowsInStep(k)' /\ credential'[k].is # "torn"
  BY <1>2, RowsOnward DEF InStep
<1> QED
  BY <1>6, <1>10, <1>11, <1>12, <1>13, <1>14 DEF InStep

\* A row is of an identity that an enrolment minted, which bears its own first token.
LEMMA RowsAreEnrolled ==
    ASSUME AuthInv, NEW k \in Principal, InStep(k), NEW i \in AuthCommand,
           principals[i].kind = k
    PROVE  /\ auth[i].verb = "enroll"
           /\ \E m \in 1 .. Len(applied[k]) : m \in 1 .. Len(printed[k]) /\ printed[k][m].token = i
<1>1. RowIs(i) /\ KindIs(k) /\ k # None
      /\ applied[k] \in Seq(StatementRecord) /\ printed[k] \in Seq(StatementRecord)
  BY NoneIsApart DEF AuthInv, AuthTypes
<1>2. PICK m \in 1 .. Len(applied[k]) : applied[k][m].verb = "enroll" /\ applied[k][m].id = i
  BY <1>1 DEF RowIs
<1>3. m \in 1 .. Len(printed[k]) /\ printed[k][m] = applied[k][m]
  BY <1>1 DEF InStep, Agrees
<1>4. printed[k][m].token = i
  BY <1>2, <1>3 DEF InStep, Linked
<1>5. auth[i].verb = "enroll"
  BY <1>1, <1>2, <1>3, <1>4 DEF KindIs, StatementIs
<1> QED
  BY <1>3, <1>4, <1>5

LEMMA ApplyRows ==
    ASSUME AuthInv, NEW k \in Principal, NEW s \in Range(printed[k]), Apply(s), InStep(k),
           Agrees(applied'[k], printed[k])
    PROVE  RowsInStep(k)'
<1> DEFINE a == applied[k]
           n == Len(a)
           t == printed[k]
<1>1. /\ StatementIs(s, k) /\ s \in StatementRecord /\ a \in Seq(StatementRecord)
      /\ applied'[k] = Append(a, s) /\ auth' = auth /\ principals'[s.id] = Outcome(s)
      /\ \A i \in AuthCommand \ {s.id} : principals'[i] = principals[i]
      /\ principals \in [AuthCommand -> RowRecord] /\ s.id \in AuthCommand
      /\ t \in Seq(StatementRecord) /\ s.kind = k /\ s.verb \in Verb /\ k # None
  <2>1. /\ StatementIs(s, k) /\ s \in StatementRecord /\ auth' = auth
        /\ applied'[k] = Append(a, s) /\ principals'[s.id] = Outcome(s)
        /\ \A i \in AuthCommand \ {s.id} : principals'[i] = principals[i]
    BY ApplyIs
  <2>2. /\ a \in Seq(StatementRecord) /\ t \in Seq(StatementRecord) /\ k # None
        /\ principals \in [AuthCommand -> RowRecord]
    BY NoneIsApart DEF AuthInv, AuthTypes
  <2>3. s.kind = k /\ s.verb \in Verb /\ s.id \in AuthCommand
    BY <2>1 DEF StatementRecord, StatementIs
  <2> QED
    BY <2>1, <2>2, <2>3
<1>2. /\ Len(applied'[k]) = n + 1 /\ n \in Nat /\ applied'[k][n + 1] = s
      /\ t[n + 1] = s /\ n + 1 \in 1 .. Len(t)
      /\ \A m \in 1 .. n : t[m] = a[m] /\ m \in 1 .. Len(t) /\ m \in 1 .. (n + 1 - 1)
      /\ n + 1 - 1 = n
  <2>1. /\ Len(applied'[k]) = n + 1 /\ n \in Nat /\ applied'[k][n + 1] = s
        /\ n + 1 \in 1 .. Len(applied'[k]) /\ Len(t) \in Nat
    BY <1>1
  <2>2. t[n + 1] = s /\ n + 1 \in 1 .. Len(t)
    BY <2>1 DEF Agrees
  <2>3. \A m \in 1 .. n : t[m] = a[m] /\ m \in 1 .. Len(t)
    BY <1>1, <2>1 DEF InStep, Agrees
  <2> QED
    BY <2>1, <2>2, <2>3
<1>3. (StandsAt(t, n) <=> StandsAt(a, n)) /\ (StandsAt(a, n) => t[n] = a[n])
  BY <1>2 DEF StandsAt
<1>4. Linked(k, n + 1)
  BY <1>2 DEF InStep
<1>5. ASSUME NEW i \in AuthCommand, principals[i].kind = k, principals[i].revoked = FALSE
      PROVE  /\ StandsAt(t, n) /\ i = t[n].id /\ i = s.id /\ s.verb # "enroll"
  <2>1. StandsAt(t, n) /\ i = t[n].id
    BY <1>3, <1>5 DEF InStep, RowsInStep
  <2> QED
    BY <1>2, <1>4, <2>1 DEF Linked
<1>6. StandsAt(applied[k], Len(applied[k]))' <=> s.verb # "revoke"
  BY <1>2 DEF StandsAt
<1>7. principals[s.id] \in RowRecord
  BY <1>1
<1>8. CASE s.verb = "enroll"
  <2>1. principals[s.id].kind # k
    <3> SUFFICES ASSUME principals[s.id].kind = k PROVE FALSE
      OBVIOUS
    <3>1. PICK m \in 1 .. n : t[m].token = s.id
      BY <1>1, RowsAreEnrolled
    <3>2. s.id = s.token /\ t[m].token # s.token
      BY <1>2, <1>4, <1>8 DEF Linked
    <3> QED
      BY <3>1, <3>2
  <2>2. principals[s.id] = NoRow
    BY <1>1, <2>1 DEF AuthInv, RowIs, StatementIs, Mints
  <2>3. principals'[s.id] = Row(k, s.token)
    BY <1>1, <1>8, <2>2 DEF Outcome
  <2>4. auth[s.id].verb = "enroll" /\ s.id = s.token
    BY <1>1, <1>2, <1>4, <1>8 DEF Linked, StatementIs
  <2>5. principals'[s.id].kind = k /\ principals'[s.id].revoked = FALSE
        /\ principals'[s.id].token = s.token
    BY <2>3 DEF Row
  <2> QED
    BY <1>1, <1>2, <1>5, <1>6, <1>8, <2>4, <2>5 DEF RowsInStep
<1>9. CASE s.verb = "rotate" /\ auth[s.id].verb = "enroll"
  <2>1. StandsAt(t, n) /\ s.id = t[n].id
    BY <1>2, <1>4, <1>9 DEF Linked
  <2>2. principals[s.id].kind = k
    BY <1>3, <1>9, <2>1 DEF InStep, RowsInStep
  <2>3. principals'[s.id].kind = k /\ principals'[s.id].revoked = FALSE
        /\ principals'[s.id].token = s.token
    BY <1>1, <1>7, <1>9, <2>2 DEF Outcome, RowRecord
  <2> QED
    BY <1>1, <1>2, <1>5, <1>6, <1>9, <2>3 DEF RowsInStep
<1>10. CASE s.verb = "rotate" /\ auth[s.id].verb # "enroll"
  <2>1. principals[s.id].kind # k
    BY <1>1, <1>10, RowsAreEnrolled
  <2>2. principals'[s.id] = principals[s.id]
    BY <1>1, <1>10, <2>1 DEF Outcome
  <2> QED
    BY <1>1, <1>2, <1>5, <1>10, <2>1, <2>2 DEF RowsInStep
<1>11. CASE s.verb = "revoke"
  <2>1. principals'[s.id].kind = k => principals'[s.id].revoked = TRUE
    BY <1>1, <1>7, <1>11 DEF Outcome, RowRecord, NoRow
  <2> QED
    BY <1>1, <1>2, <1>5, <1>6, <1>11, <2>1 DEF RowsInStep
<1> QED
  BY <1>1, <1>8, <1>9, <1>10, <1>11 DEF Verb

LEMMA ApplyInStep ==
    ASSUME AuthInv, TidyInv, NEW kind \in Principal, NEW s \in Range(printed[kind]), Apply(s)
    PROVE  TidyInv'
<1>1. UNCHANGED <<credential, auth, printed>> /\ AuthInv' /\ AuthInv
  BY ApplyIs, ApplyKeeps
<1>2. ASSUME NEW k \in Principal, k # kind, tidy'[k] PROVE InStep(k)'
  <2>1. tidy'[k] = tidy[k] /\ applied'[k] = applied[k]
        /\ StatementIs(s, kind) /\ \A i \in AuthCommand \ {s.id} : principals'[i] = principals[i]
    BY <1>2, ApplyIs
  <2>2. InStep(k)
    BY <1>2, <2>1 DEF TidyInv
  <2>3. Mints(s.id, kind) /\ ~Mints(s.id, k) /\ ~Mints(s.id, k)'
    BY <1>1, <1>2, <2>1 DEF StatementIs, Mints
  <2>4. principals[s.id].kind # k /\ principals'[s.id].kind # k
    BY <1>1, <2>3, NoneIsApart DEF AuthInv, RowIs, Mints
  <2>5. \A i \in AuthCommand : principals'[i] = principals[i]
                               \/ (principals[i].kind # k /\ principals'[i].kind # k)
    BY <2>1, <2>4
  <2>6. ~Mints(None, k) /\ ~Mints(None, k)'
    BY NoneIsApart DEF Mints
  <2> QED
    BY <1>1, <2>1, <2>2, <2>5, <2>6, ElsewhereKeeps
<1>3. ASSUME tidy'[kind] PROVE InStep(kind)'
  <2>1. tidy[kind] /\ IsPrefix(applied'[kind], printed[kind])
    BY <1>3, ApplyIs
  <2>2. InStep(kind)
    BY <2>1 DEF TidyInv
  <2>3. applied'[kind] \in Seq(StatementRecord) /\ printed[kind] \in Seq(StatementRecord)
    BY <1>1 DEF AuthInv, AuthTypes
  <2>4. Agrees(applied'[kind], printed[kind])
    BY <2>1, <2>3, PrefixAgrees
  <2>5. RowsInStep(kind)'
    BY <2>2, <2>4, ApplyRows
  <2> QED
    BY <1>1, <2>2, <2>4, <2>5
       DEF InStep, Linked, InTurn, Continues, OneAtATime, Busy, Settled, FileInStep, Mints
<1> QED
  BY <1>2, <1>3 DEF TidyInv

LEMMA StepInStep ==
    ASSUME AuthInv, TidyInv, NEW p \in AuthCommand, AuthStep(p)
    PROVE  TidyInv'
<1>1. /\ Onward(p) /\ UNCHANGED <<applied, principals>> /\ CommandIs(p) /\ AuthInv
      /\ auth[p] \in AuthRecord /\ auth \in [AuthCommand -> AuthRecord]
      /\ credential \in [Principal -> FileRecord] /\ tidy \in [Principal -> BOOLEAN]
  BY Steps DEF AuthInv, AuthTypes
<1>2. PICK kind : kind = auth'[p].kind
  OBVIOUS
<1>3. Busy(p) => kind \in Principal /\ Mints(p, kind) /\ auth[p].kind = kind
  BY <1>1, <1>2 DEF Busy, CommandIs, Mints, Onward
<1>4. ASSUME NEW k \in Principal, k # kind, tidy'[k] PROVE InStep(k)'
  <2>1. ~Mints(p, k) /\ ~Mints(p, k)'
    BY <1>1, <1>2, <1>4 DEF Mints, Onward
  <2>2. auth[p].at \in {"typed", "write", "print", "remove"} => auth[p].kind # k
    BY <2>1 DEF Mints
  <2>3. credential'[k] = credential[k] /\ printed'[k] = printed[k]
    BY <1>1, <2>2, PrintIs
       DEF AuthStep, Type, RefuseAuth, Identify, WriteCredential, RemoveCredential, AuthDies, Busy
  <2>4. tidy[k]
    <3>1. ASSUME NEW verb \in Verb, NEW z \in Principal, NEW given \in Known(z) \union {None},
                 Type(p, verb, z, given)
          PROVE  z = kind /\ tidy'[k] = tidy[k]
      <4>1. z = kind
        BY <1>1, <1>2, <3>1 DEF Type
      <4> QED
        BY <1>1, <1>4, <3>1, <4>1 DEF Type
    <3>2. AuthDies(p) => tidy'[k] = tidy[k]
      BY <1>1, <2>2 DEF AuthDies, Busy
    <3>3. \/ tidy' = tidy \/ AuthDies(p)
          \/ \E verb \in Verb, z \in Principal : \E given \in Known(z) \union {None} :
                 Type(p, verb, z, given)
      BY DEF AuthStep, RefuseAuth, Identify, WriteCredential, PrintStatement, RemoveCredential
    <3> QED
      BY <1>4, <3>1, <3>2, <3>3
  <2>5. InStep(k)
    BY <2>4 DEF TidyInv
  <2>6. /\ \A q \in AuthCommand \ {p} : auth'[q] = auth[q]
        /\ applied'[k] = applied[k] /\ \A i \in AuthCommand : principals'[i] = principals[i]
    BY <1>1 DEF Onward
  <2> QED
    BY <2>1, <2>3, <2>5, <2>6, ElsewhereKeeps
<1>5. ASSUME kind \in Principal, tidy'[kind] PROVE InStep(kind)'
  <2>1. ASSUME NEW verb \in Verb, NEW z \in Principal, NEW given \in Known(z) \union {None},
               Type(p, verb, z, given)
        PROVE  InStep(kind)'
    <3>1. /\ z = kind /\ auth'[p].at = "typed" /\ auth'[p].given = given /\ auth[p].at = "none"
          /\ UNCHANGED <<credential, printed>>
      BY <1>1, <1>2, <2>1 DEF Type
    <3>2. tidy[kind] /\ ~(\E q \in AuthCommand : Busy(q) /\ auth[q].kind = kind) /\ given = None
      <4> DEFINE overlaps == \E q \in AuthCommand : Busy(q) /\ auth[q].kind = kind
      <4>1. tidy' = [tidy EXCEPT ![kind] = @ /\ ~overlaps /\ given = None]
        BY <2>1, <3>1 DEF Type
      <4> HIDE DEF overlaps
      <4>2. tidy'[kind] <=> (tidy[kind] /\ ~overlaps /\ given = None)
        BY <1>1, <1>5, <4>1, Zenon
      <4> QED
        BY <1>5, <4>2 DEF overlaps
    <3>3. InStep(kind) /\ Mints(p, kind)'
      BY <1>2, <1>5, <3>1, <3>2 DEF TidyInv, Mints
    <3>4. InTurn(p, kind)'
      BY <3>1, <3>2 DEF InTurn
    <3>5. \A q \in AuthCommand : Mints(q, kind) => ~Busy(q)
      BY <3>2 DEF Mints
    <3>6. Settled(kind) /\ FileInStep(kind)
      BY <3>3, <3>5 DEF Settled, Busy, InStep
    <3>7. FileInStep(kind)' /\ credential'[kind].is # "torn" /\ printed'[kind] = printed[kind]
      BY <3>1, <3>3, <3>6 DEF FileInStep, InStep
    <3> QED
      BY <1>1, <1>5, <3>3, <3>4, <3>5, <3>7, OwnKeeps
  <2>2. CASE PrintStatement(p)
    <3>1. tidy'[kind] = tidy[kind] /\ kind = auth[p].kind
      BY <1>2, <2>2, PrintIs
    <3> QED
      BY <1>5, <2>2, <3>1, PrintInStep DEF TidyInv
  <2>3. CASE AuthDies(p)
    BY <1>1, <1>3, <1>5, <2>3 DEF AuthDies
  <2>4. ASSUME Busy(p), tidy' = tidy, printed' = printed,
               credential'[kind].is # "torn", InStep(kind) => InTurn(p, kind)',
               InStep(kind) => (Settled(kind) => FileInStep(kind))'
        PROVE  InStep(kind)'
    <3>1. InStep(kind) /\ Mints(p, kind) /\ Mints(p, kind)'
      BY <1>1, <1>3, <1>5, <2>4, OnwardMints DEF TidyInv
    <3>2. \A q \in AuthCommand \ {p} : Mints(q, kind) => ~Busy(q)
      BY <2>4, <3>1 DEF InStep, OneAtATime
    <3> QED
      BY <1>1, <1>5, <2>4, <3>1, <3>2, OwnKeeps
  <2>5. ASSUME RefuseAuth(p) \/ Identify(p), InStep(kind)
        PROVE  /\ FileInStep(kind) /\ FileInStep(kind)' /\ Busy(p)
               /\ credential'[kind].is # "torn" /\ auth[p].given = None /\ Mints(p, kind)
    <3>1. auth[p].at = "typed" /\ UNCHANGED <<credential, printed>>
      BY <2>5 DEF RefuseAuth, Identify
    <3>2. Busy(p) /\ Mints(p, kind)
      BY <1>3, <3>1 DEF Busy
    <3>3. \A q \in AuthCommand \ {p} : Mints(q, kind) => ~Busy(q)
      BY <2>5, <3>2 DEF InStep, OneAtATime
    <3>4. Settled(kind)
      BY <3>1, <3>3 DEF Settled, Busy
    <3>5. FileInStep(kind) /\ auth[p].given = None
      BY <2>5, <3>2, <3>4 DEF InStep, InTurn
    <3>6. FileInStep(kind)' /\ credential'[kind].is # "torn"
      BY <2>5, <3>1, <3>5 DEF InStep, FileInStep
    <3> QED
      BY <3>2, <3>5, <3>6
  <2>6. tidy' = tidy => InStep(kind)
    BY <1>5 DEF TidyInv
  <2>7. CASE RefuseAuth(p)
    <3>1. auth'[p].at = "refused" /\ auth'[p].given = auth[p].given
          /\ tidy' = tidy /\ printed' = printed
      BY <1>1, <2>7 DEF RefuseAuth, AuthRecord
    <3> QED
      BY <2>4, <2>5, <2>6, <2>7, <3>1 DEF InTurn
  <2>8. CASE Identify(p)
    <3>1. /\ auth'[p].at = First(auth[p].verb) /\ auth'[p].given = auth[p].given
          /\ auth'[p].verb = auth[p].verb
          /\ tidy' = tidy /\ printed' = printed
      BY <1>1, <2>8 DEF Identify, AuthRecord
    <3>2. Continues(p, kind)'
      BY <1>5, <2>5, <2>6, <2>8, <3>1, IdentifyContinues
    <3>3. auth'[p].at # "remove" /\ (auth'[p].at = "print" => auth'[p].verb = "revoke")
      BY <3>1 DEF First
    <3> QED
      BY <2>4, <2>5, <2>6, <2>8, <3>1, <3>2, <3>3 DEF InTurn
  <2>9. CASE WriteCredential(p)
    <3>1. /\ auth[p].at = "write" /\ auth'[p].at = "print" /\ auth'[p].given = auth[p].given
          /\ auth'[p].verb = auth[p].verb /\ auth'[p].id = auth[p].id
          /\ auth'[p].verb # "revoke" /\ tidy' = tidy /\ printed' = printed
      BY <1>1, <2>9 DEF WriteCredential, AuthRecord, CommandIs
    <3>2. Busy(p) /\ Mints(p, kind) /\ Mints(p, kind)'
      BY <1>1, <1>3, <3>1, OnwardMints DEF Busy
    <3>3. credential'[kind] = File(auth[p].id, p)
      BY <1>1, <1>3, <1>5, <2>9, <3>2 DEF WriteCredential
    <3>4. Continues(p, kind)' /\ auth[p].given = None
      BY <2>6, <3>1, <3>2 DEF InStep, InTurn, Continues
    <3>5. ~Settled(kind)' /\ credential'[kind].is # "torn"
      BY <3>1, <3>2, <3>3 DEF Settled, File
    <3> QED
      BY <2>4, <3>1, <3>2, <3>3, <3>4, <3>5 DEF InTurn
  <2>10. CASE RemoveCredential(p)
    <3>1. /\ auth[p].at = "remove" /\ auth'[p].at = "done" /\ auth'[p].given = auth[p].given
          /\ tidy' = tidy /\ printed' = printed
      BY <1>1, <2>10 DEF RemoveCredential, AuthRecord
    <3>2. Busy(p) /\ Mints(p, kind)
      BY <1>3, <3>1 DEF Busy
    <3>3. credential'[kind] = NoFile
      BY <1>1, <1>3, <1>5, <2>10, <3>2 DEF RemoveCredential
    <3>4. ~StandsAt(printed[kind], Len(printed[kind])) /\ auth[p].given = None
      BY <2>6, <3>1, <3>2 DEF InStep, InTurn
    <3>5. FileInStep(kind)' /\ credential'[kind].is # "torn"
      BY <3>1, <3>3, <3>4 DEF FileInStep, NoFile
    <3> QED
      BY <2>4, <3>1, <3>2, <3>4, <3>5 DEF InTurn
  <2> QED
    BY <2>1, <2>2, <2>3, <2>7, <2>8, <2>9, <2>10 DEF AuthStep
<1> QED
  BY <1>4, <1>5 DEF TidyInv

LEMMA TidyNext == AuthInv /\ TidyInv /\ [CredentialsNext]_credentialVars => TidyInv'
<1> SUFFICES ASSUME AuthInv, TidyInv, [CredentialsNext]_credentialVars PROVE TidyInv'
  OBVIOUS
<1>1. ASSUME NEW kind \in Principal, LoseCredential(kind), NEW k \in Principal, tidy'[k]
      PROVE  InStep(k)'
  <2>1. /\ k # kind /\ tidy[k] /\ credential'[k] = credential[k]
        /\ UNCHANGED <<auth, printed, applied, principals>>
    BY <1>1 DEF LoseCredential, AuthInv, AuthTypes
  <2>2. ~Mints(None, k) /\ ~Mints(None, k)'
    BY NoneIsApart DEF Mints
  <2>3. \A q \in AuthCommand : auth'[q] = auth[q] /\ principals'[q] = principals[q]
    BY <2>1
  <2> QED
    BY <2>1, <2>2, <2>3, ElsewhereKeeps DEF TidyInv
<1>2. CASE UNCHANGED credentialVars
  BY <1>2 DEF credentialVars, TidyInv, InStep, Linked, InTurn, Continues, OneAtATime, Busy,
              Settled, FileInStep, RowsInStep, Mints
<1>3. ASSUME NEW kind \in Principal, LoseCredential(kind) PROVE TidyInv'
  BY <1>1, <1>3 DEF TidyInv
<1> QED
  BY <1>2, <1>3, ApplyInStep, StepInStep DEF CredentialsNext

(***************************************************************************)
(* Commands one at a time, statements applied as printed (auth.ts,         *)
(* stage3-service-auth.ts): the plane ends up where the file is. The file  *)
(* holds the token of the last statement, the rows those of the last one   *)
(* applied, and each statement goes on from the one before it.             *)
(***************************************************************************)
THEOREM InStepWhenTidy == CredentialsSpec => []TidyIsInStep
<1>1. CredentialsInit => TidyInv
  <2> SUFFICES ASSUME CredentialsInit, NEW k \in Principal PROVE InStep(k)
    BY DEF TidyInv
  <2>1. /\ credential[k] = NoFile /\ printed[k] = <<>> /\ applied[k] = <<>>
        /\ \A p \in AuthCommand : auth[p].at = "none" /\ principals[p] = NoRow
    BY DEF CredentialsInit
  <2>2. k # None
    BY NoneIsApart
  <2> QED
    BY <2>1, <2>2 DEF InStep, Linked, InTurn, OneAtATime, Busy, Mints, FileInStep, RowsInStep,
                      StandsAt, Agrees, NoFile, NoRow
<1>2. AuthInv /\ TidyInv => TidyIsInStep
  <2> SUFFICES ASSUME AuthInv, TidyInv, NEW kind \in Principal, tidy[kind],
                      ~\E p \in AuthCommand : Busy(p) /\ auth[p].kind = kind,
                      applied[kind] = printed[kind]
               PROVE  LET file == credential[kind]
                          live == {principals[i].token : i \in Live(kind)} IN
                      /\ file.is = "absent" => live = {}
                      /\ (file.is = "whole" /\ auth[file.id].verb = "enroll")
                            => live = {file.token}
                      /\ (file.is = "whole" /\ kind = "service")
                            => auth[file.id].verb = "enroll"
    BY DEF TidyIsInStep
  <2> DEFINE file == credential[kind]
             t == printed[kind]
             n == Len(t)
  <2>1. InStep(kind) /\ KindIs(kind) /\ t \in Seq(StatementRecord)
        /\ principals \in [AuthCommand -> RowRecord]
    BY DEF TidyInv, AuthInv, AuthTypes
  <2>2. Settled(kind)
    BY DEF Settled, Mints, Busy
  <2>3. FileInStep(kind) /\ RowsInStep(kind)
    BY <2>1, <2>2 DEF InStep
  <2>4. \A i \in AuthCommand : i \in Live(kind)
            <=> principals[i].kind = kind /\ principals[i].revoked = FALSE
    BY <2>1 DEF Live, RowRecord
  <2>5. \A i \in Live(kind) : i \in AuthCommand
    BY DEF Live
  <2>6. \A i \in Live(kind) : StandsAt(t, n) /\ i = t[n].id /\ principals[i].token = t[n].token
    BY <2>3, <2>4, <2>5 DEF RowsInStep
  <2>7. file.is = "absent" => {principals[i].token : i \in Live(kind)} = {}
    BY <2>3, <2>6 DEF FileInStep
  <2>8. ASSUME file.is = "whole"
        PROVE  StandsAt(t, n) /\ file.id = t[n].id /\ file.token = t[n].token
               /\ n \in 1 .. n /\ t[n].id \in AuthCommand
    <3>1. StandsAt(t, n) /\ file.id = t[n].id /\ file.token = t[n].token
      BY <2>3, <2>8 DEF FileInStep
    <3>2. n \in 1 .. n
      BY <2>1, <3>1 DEF StandsAt
    <3> QED
      BY <2>1, <3>1, <3>2 DEF KindIs, StatementIs, Mints
  <2>9. ASSUME file.is = "whole", auth[file.id].verb = "enroll"
        PROVE  {principals[i].token : i \in Live(kind)} = {file.token}
    <3>1. t[n].id \in Live(kind)
      BY <2>3, <2>4, <2>8, <2>9 DEF RowsInStep
    <3> QED
      BY <2>6, <2>8, <2>9, <3>1
  <2>10. file.is = "whole" /\ kind = "service" => auth[file.id].verb = "enroll"
    BY <2>1, <2>8 DEF InStep, Linked, StandsAt
  <2> QED
    BY <2>7, <2>9, <2>10
<1>3. AuthInv /\ TidyInv /\ [CredentialsNext]_credentialVars => (AuthInv /\ TidyInv)'
  BY AuthNext, TidyNext
<1> QED
  BY AuthInit, <1>1, <1>2, <1>3, PTL DEF CredentialsSpec

-----------------------------------------------------------------------------
(***************************************************************************)
(* The canary.                                                             *)
(***************************************************************************)
Fields == {"at", "start", "ran", "before", "service", "installation", "findings", "seen", "chain",
           "complete", "verdict", "exit"}

\* The steps a canary is at once its run is registered, and once its child has run.
Underway == {"before", "child", "after", "judge", "recheck", "write"}
ChildRan == {"after", "judge", "recheck", "write"}
Begun    == {"load", "proxy", "fixture", "register"} \union Underway

\* What its verdict rests on.
Earned(c) ==
    /\ c \in registered /\ c \in delivered
    /\ canary[c].chain
    /\ "escaped" \notin canary[c].seen

\* One revision, or HEAD went and came back behind the canary.
OneRevision(c) == canary[c].ran = canary[c].start \/ moves >= canary[c].before + 2

\* Each time HEAD is not where the canary, or its child, saw it, it has moved; and twice if
\* it is back where the canary started after the child saw another.
HeadSound(c) ==
    /\ canary[c].before \in Nat /\ canary[c].before <= moves
    /\ canary[c].at \in Begun /\ head # canary[c].start => moves >= canary[c].before + 1
    /\ canary[c].at \in ChildRan /\ canary[c].ran # canary[c].start =>
         /\ moves >= canary[c].before + 1
         /\ head = canary[c].start => OneRevision(c)
    /\ canary[c].at = "write" => OneRevision(c)

\* One canary: what it holds is what was seen, a verdict is earned and stays so, and HEAD
\* was the one it started from when the child ran, by the time it writes, or moved twice.
Sound(c) ==
    /\ DOMAIN canary[c] = Fields
    /\ canary[c].findings = canary[c].seen
    /\ canary[c].at \in Underway => c \in registered
    /\ canary[c].complete => c \in delivered
    /\ canary[c].verdict = "PASSED" =>
         Earned(c) /\ canary[c].at \in {"recheck", "write", "catch", "ended", "dead"}
    /\ HeadSound(c)
    /\ canary[c].exit = 0 =>
         canary[c].at = "ended" /\ canary[c].verdict = "PASSED" /\ OneRevision(c)

\* The file a canary wrote when it ended says what the canary held.
FileSound(c) ==
    evidence.by = c /\ evidence.verdict = "PASSED" =>
        /\ canary[c].at = "ended" /\ canary[c].verdict = "PASSED"
        /\ ~evidence.error => OneRevision(c)

CanaryInv ==
    /\ DOMAIN canary = Canary
    /\ moves \in Nat
    /\ \A c \in Canary : Sound(c) /\ FileSound(c)

LEMMA CanaryStarts == CanaryInit => CanaryInv
  <1>. SUFFICES ASSUME CanaryInit PROVE CanaryInv
    OBVIOUS
  <1>1. DOMAIN canary = Canary /\ moves \in Nat
    BY DEF CanaryInit
  <1>2. ASSUME NEW c \in Canary PROVE Sound(c)
    <2>0. canary[c].complete = FALSE
      BY <1>2 DEF CanaryInit
    <2>1. /\ canary[c].at = "none" /\ canary[c].verdict = "NOT PASSED" /\ canary[c].exit = None
          /\ canary[c].findings = {} /\ canary[c].seen = {}
      BY <1>2 DEF CanaryInit
    <2>2. DOMAIN canary[c] = Fields
      BY <1>2 DEF CanaryInit, Fields
    <2>3. canary[c].exit # 0 /\ canary[c].verdict # "PASSED"
          /\ canary[c].at \notin Begun \union Underway \union ChildRan \union {"write"}
      BY <2>1, CanaryAssumption DEF Begun, Underway, ChildRan
    <2>4. HeadSound(c)
      <3>1. canary[c].before = 0 /\ moves = 0
        BY <1>2 DEF CanaryInit
      <3>. QED  BY <2>3, <3>1 DEF HeadSound
    <2>. QED  BY <2>0, <2>1, <2>2, <2>3, <2>4, Zenon DEF Sound
  <1>3. ASSUME NEW c \in Canary PROVE FileSound(c)
    BY <1>3, CanaryAssumption DEF CanaryInit, FileSound, NoEvidence
  <1>. QED  BY <1>1, <1>2, <1>3 DEF CanaryInv

LEMMA CanaryImplies == CanaryInv => PassedIsObserved
  BY DEF CanaryInv, PassedIsObserved, Sound, FileSound, Earned, OneRevision

\* What a canary's step may change is its own record, and nobody else's verdict.
LEMMA OthersKept ==
    ASSUME CanaryInv, NEW c \in Canary, DOMAIN canary' = Canary, head' = head, moves' = moves,
           \A d \in Canary \ {c} : canary'[d] = canary[d],
           registered \subseteq registered', delivered \subseteq delivered',
           \/ evidence' = evidence
           \/ evidence' = TornEvidence
           \/ \E v, e : evidence' = Evidence(c, v, e),
           Sound(c)', FileSound(c)'
    PROVE  CanaryInv'
  <1>1. ASSUME NEW d \in Canary \ {c} PROVE Sound(d)' /\ FileSound(d)'
    <2>1. Sound(d) /\ FileSound(d) /\ canary'[d] = canary[d]
      BY DEF CanaryInv
    <2>2. Sound(d)'
      BY <2>1 DEF Sound, HeadSound, OneRevision, Earned
    <2>3. FileSound(d)'
      BY <2>1, CanaryAssumption DEF FileSound, OneRevision, TornEvidence, NoEvidence, Evidence
    <2>. QED  BY <2>2, <2>3
  <1>. QED  BY <1>1 DEF CanaryInv


LEMMA CanaryStep ==
    ASSUME CanaryInv, NEW c \in Canary,
           \/ InspectHost(c) \/ LoadPlaneConfig(c) \/ OpenProxy(c) \/ MakeFixture(c)
           \/ RegisterCanary(c) \/ ProbeBefore(c) \/ RunChild(c) \/ ProbeAfter(c) \/ Judge(c)
           \/ CheckHead(c) \/ WriteEvidence(c) \/ WriteFailure(c) \/ CanaryDies(c)
    PROVE  CanaryInv'
  <1>0. /\ DOMAIN canary = Canary /\ moves \in Nat
        /\ Sound(c) /\ FileSound(c)
    BY DEF CanaryInv
  <1>. USE DEF Goes, Exits, Throws, Uncaught, At
  <1>1. CASE InspectHost(c) \/ LoadPlaneConfig(c) \/ OpenProxy(c) \/ MakeFixture(c)
    <2>. USE <1>1 DEF InspectHost, LoadPlaneConfig, OpenProxy, MakeFixture
    <2>1. /\ DOMAIN canary' = Canary /\ head' = head /\ moves' = moves
          /\ \A d \in Canary \ {c} : canary'[d] = canary[d]
          /\ UNCHANGED <<registered, delivered, evidence>>
      BY <1>0
    <2>2. Sound(c)'
      BY <1>0, CanaryAssumption DEF Sound, HeadSound, OneRevision, Earned, Fields, Begun, Underway, ChildRan
    <2>3. FileSound(c)'
      BY <1>0 DEF FileSound, OneRevision
    <2>. QED  BY <2>1, <2>2, <2>3, OthersKept
  <1>2. CASE RegisterCanary(c)
    <2>. USE <1>2 DEF RegisterCanary
    <2>1. /\ DOMAIN canary' = Canary /\ head' = head /\ moves' = moves
          /\ \A d \in Canary \ {c} : canary'[d] = canary[d]
          /\ registered \subseteq registered' /\ UNCHANGED <<delivered, evidence>>
      BY <1>0
    <2>2. Sound(c)'
      BY <1>0 DEF Sound, HeadSound, OneRevision, Earned, Fields, Begun, Underway, ChildRan
    <2>3. FileSound(c)'
      BY <1>0 DEF FileSound, OneRevision
    <2>. QED  BY <2>1, <2>2, <2>3, OthersKept
  <1>3. CASE ProbeBefore(c) \/ ProbeAfter(c)
    <2>. USE <1>3 DEF ProbeBefore, ProbeAfter, Probe, Findings
    <2>1. /\ DOMAIN canary' = Canary /\ head' = head /\ moves' = moves
          /\ \A d \in Canary \ {c} : canary'[d] = canary[d]
          /\ UNCHANGED <<registered, delivered, evidence>>
      BY <1>0
    <2>2. Sound(c)'
      BY <1>0 DEF Sound, HeadSound, OneRevision, Earned, Fields, Begun, Underway, ChildRan
    <2>3. FileSound(c)'
      BY <1>0 DEF FileSound, OneRevision, Fields, Sound
    <2>. QED  BY <2>1, <2>2, <2>3, OthersKept
  <1>4. CASE RunChild(c)
    <2>. USE <1>4 DEF RunChild
    <2>1. /\ DOMAIN canary' = Canary /\ head' = head /\ moves' = moves
          /\ \A d \in Canary \ {c} : canary'[d] = canary[d]
          /\ delivered \subseteq delivered' /\ UNCHANGED <<registered, evidence>>
      BY <1>0
    <2>2. PICK chain \in BOOLEAN, complete \in BOOLEAN :
             /\ complete => c \in delivered'
             /\ canary' = [canary EXCEPT ![c].at = "after", ![c].chain = chain,
                                        ![c].complete = complete, ![c].ran = head]
      BY <1>0
    <2>3. /\ canary'[c].at = "after" /\ canary'[c].complete = complete
          /\ canary'[c].ran = head /\ canary'[c].start = canary[c].start
          /\ canary'[c].before = canary[c].before
          /\ canary'[c].findings = canary[c].findings /\ canary'[c].seen = canary[c].seen
          /\ canary'[c].verdict = canary[c].verdict /\ canary'[c].exit = canary[c].exit
          /\ DOMAIN canary'[c] = Fields
      BY <1>0, <2>2 DEF Sound, Fields
    <2>4. /\ canary[c].at = "child" /\ c \in registered /\ UNCHANGED <<registered, head, moves>>
          /\ canary[c].verdict # "PASSED" /\ canary[c].exit # 0
      BY <1>0 DEF Sound, Underway
    <2>5. canary'[c].complete => c \in delivered'
      BY <2>2, <2>3, Zenon
    <2>6. Sound(c)'
      BY <1>0, <2>3, <2>4, <2>5 DEF Sound, HeadSound, OneRevision, Begun, Underway, ChildRan
    <2>7. FileSound(c)'
      BY <1>0 DEF FileSound, OneRevision
    <2>. QED  BY <2>1, <2>6, <2>7, OthersKept
  <1>5. CASE Judge(c)
    <2>. USE <1>5 DEF Judge
    <2>1. /\ DOMAIN canary' = Canary /\ head' = head /\ moves' = moves
          /\ \A d \in Canary \ {c} : canary'[d] = canary[d]
          /\ UNCHANGED <<registered, delivered, evidence>>
      BY <1>0
    <2>2. ASSUME NEW integrity \in BOOLEAN, Passed(c, integrity) PROVE Earned(c)
      <3>1. c \in registered /\ canary[c].findings = canary[c].seen
        BY <1>0 DEF Sound, Underway
      <3>2. canary[c].chain /\ canary[c].complete
        BY <2>2, Zenon DEF Passed
      <3>5. canary[c].findings = {"held"}
        BY <2>2, Zenon DEF Passed
      <3>3. c \in delivered
        BY <1>0, <3>2, Zenon DEF Sound
      <3>4. "escaped" \notin canary[c].seen
        <4>1. canary[c].seen = {"held"}
          BY <3>1, <3>5, Zenon
        <4>. QED  BY <4>1
      <3>. QED  BY <3>1, <3>2, <3>3, <3>4, Zenon DEF Earned
    <2>3. CASE Throws(c)
      BY <1>0, <2>1, <2>3, OthersKept
         DEF Sound, HeadSound, OneRevision, FileSound, Earned, Fields, Begun, Underway, ChildRan
    <2>4. ASSUME NEW integrity \in BOOLEAN,
                 canary' = [canary EXCEPT ![c].at = "recheck",
                    ![c].verdict = IF Passed(c, integrity) THEN "PASSED" ELSE "NOT PASSED"]
          PROVE  CanaryInv'
      <3>1. /\ canary'[c].at = "recheck"
            /\ canary'[c] = [canary[c] EXCEPT !.at = "recheck", !.verdict = canary'[c].verdict]
            /\ canary'[c].verdict = "PASSED" => Earned(c)
        BY <1>0, <2>2, <2>4 DEF Sound, Fields
      <3>2. canary'[c].verdict = "PASSED" => Earned(c)'
        BY <1>0, <3>1 DEF Earned, Sound, Fields
      <3>. HIDE DEF Passed
      <3>3. Sound(c)'
        BY <1>0, <3>1, <3>2 DEF Sound, HeadSound, OneRevision, Fields, Begun, Underway, ChildRan
      <3>4. FileSound(c)'
        BY <1>0 DEF FileSound, OneRevision, Fields, Sound
      <3>. QED  BY <2>1, <3>3, <3>4, OthersKept
    <2>. QED  BY <2>3, <2>4
  <1>6. CASE CheckHead(c)
    <2>. USE <1>6 DEF CheckHead, HeadHeld
    <2>1. /\ DOMAIN canary' = Canary /\ head' = head /\ moves' = moves
          /\ \A d \in Canary \ {c} : canary'[d] = canary[d]
          /\ UNCHANGED <<registered, delivered, evidence>>
      BY <1>0
    <2>2. Sound(c)'
      BY <1>0 DEF Sound, HeadSound, OneRevision, Earned, Fields, Begun, Underway, ChildRan
    <2>3. FileSound(c)'
      BY <1>0 DEF FileSound, OneRevision, Fields, Sound
    <2>. QED  BY <2>1, <2>2, <2>3, OthersKept
  <1>7. CASE WriteEvidence(c) \/ WriteFailure(c)
    <2>. USE <1>7 DEF WriteEvidence, WriteFailure
    <2>1. /\ DOMAIN canary' = Canary /\ head' = head /\ moves' = moves
          /\ \A d \in Canary \ {c} : canary'[d] = canary[d]
          /\ UNCHANGED <<registered, delivered>>
          /\ \/ evidence' = evidence
             \/ evidence' = TornEvidence
             \/ \E v, e : evidence' = Evidence(c, v, e)
      BY <1>0
    <2>2. Sound(c)'
      <3>1. CASE WriteFailure(c)
        BY <1>0, <3>1 DEF Sound, HeadSound, OneRevision, Earned, Fields, Begun, Underway, ChildRan
      <3>2. CASE WriteEvidence(c)
        <4>1. CASE /\ canary' = [canary EXCEPT ![c].at = "catch"]
                   /\ UNCHANGED <<head, registered, delivered>>
          BY <1>0, <3>2, <4>1 DEF Sound, HeadSound, OneRevision, Earned, Fields, Begun, Underway, ChildRan, WriteEvidence
        <4>2. CASE /\ canary' = [canary EXCEPT ![c].at = "ended",
                                ![c].exit = IF canary[c].verdict = "PASSED" THEN 0 ELSE 3]
                   /\ UNCHANGED <<head, registered, delivered>>
          BY <1>0, <3>2, <4>2 DEF Sound, HeadSound, OneRevision, Earned, Fields, Begun, Underway, ChildRan, WriteEvidence
        <4>. QED  BY <3>2, <4>1, <4>2 DEF WriteEvidence
      <3>. QED  BY <1>7, <3>1, <3>2
    <2>3. FileSound(c)'
      BY <1>0, CanaryAssumption
         DEF FileSound, OneRevision, Fields, Sound, Evidence, TornEvidence, NoEvidence
    <2>. QED  BY <2>1, <2>2, <2>3, OthersKept
  <1>8. CASE CanaryDies(c)
    <2>. USE <1>8 DEF CanaryDies
    <2>1. /\ DOMAIN canary' = Canary /\ head' = head /\ moves' = moves
          /\ \A d \in Canary \ {c} : canary'[d] = canary[d]
          /\ UNCHANGED <<registered, delivered>>
          /\ evidence' = evidence \/ evidence' = TornEvidence
      BY <1>0
    <2>2. Sound(c)'
      BY <1>0 DEF Sound, HeadSound, OneRevision, Earned, Fields, Begun, Underway, ChildRan
    <2>3. FileSound(c)'
      BY <1>0, CanaryAssumption DEF FileSound, OneRevision, Fields, Sound, TornEvidence, NoEvidence
    <2>. QED  BY <2>1, <2>2, <2>3, OthersKept
  <1>. QED  BY <1>1, <1>2, <1>3, <1>4, <1>5, <1>6, <1>7, <1>8

LEMMA CanaryKept ==
    CanaryInv /\ [Next]_<<credentialVars, canaryVars>> => CanaryInv'
  <1>. SUFFICES ASSUME CanaryInv, [Next]_<<credentialVars, canaryVars>> PROVE CanaryInv'
    OBVIOUS
  <1>1. CASE UNCHANGED canaryVars
    BY <1>1 DEF canaryVars, CanaryInv, Sound, HeadSound, OneRevision, FileSound, Earned
  <1>2. ASSUME NEW h \in Commit, MoveHead(h) PROVE CanaryInv'
    <2>1. /\ moves' = moves + 1 /\ UNCHANGED <<canary, evidence, registered, delivered>>
          /\ moves \in Nat /\ DOMAIN canary = Canary
      BY <1>2 DEF MoveHead, CanaryInv
    <2>2. ASSUME NEW c \in Canary PROVE Sound(c)' /\ FileSound(c)'
      <3>1. Sound(c) /\ FileSound(c)
        BY DEF CanaryInv
      <3>2. canary[c].before \in Nat /\ canary[c].before <= moves
        BY <3>1 DEF Sound, HeadSound
      <3>3. OneRevision(c) => OneRevision(c)'
        BY <2>1, <3>2 DEF OneRevision
      <3>4. HeadSound(c)'
        BY <2>1, <3>1, <3>2, <3>3 DEF Sound, HeadSound, OneRevision
      <3>5. Sound(c)'
        BY <2>1, <3>1, <3>3, <3>4 DEF Sound, Earned
      <3>6. FileSound(c)'
        BY <2>1, <3>1, <3>3 DEF FileSound
      <3>. QED  BY <3>5, <3>6
    <2>. QED  BY <2>1, <2>2 DEF CanaryInv
  <1>. QED  BY <1>1, <1>2, CanaryStep DEF Next, CanaryNext

(***************************************************************************)
(* An exit 0, and a file that reads PASSED, stand for a registered run, a  *)
(* whole delivery, a child that went through and two silent probes; and,   *)
(* unless the file carries an error too, for one revision, or HEAD moved   *)
(* away and back between the two readings.                                 *)
(***************************************************************************)
THEOREM Observed == Spec => []PassedIsObserved
  <1>1. Init => CanaryInv
    BY CanaryStarts DEF Init
  <1>. QED  BY <1>1, CanaryKept, CanaryImplies, PTL DEF Spec
=============================================================================
