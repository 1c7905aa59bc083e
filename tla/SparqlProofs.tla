----------------------------- MODULE SparqlProofs ------------------------------
(* Theorems of Sparql, for any text, any requests and any graphs. The lexer,   *)
(* the reference it is compared with and the sequences that carry texts are    *)
(* recursive functions; each is shown to exist by the lemma Recursion, and     *)
(* what it computes by taking a least counterexample.                          *)
EXTENDS Sparql, SequenceTheorems, WellFoundedInduction, TLAPS

-------------------------------------------------------------------------------
(* Induction. A set of numbers that has an element has a least one.            *)
LEMMA Least ==
    ASSUME NEW T \in SUBSET Nat, T # {}
    PROVE  \E n \in T : \A m \in T : n <= m
<1> DEFINE R == {p \in Nat \X Nat : p[1] < p[2]}
<1>1. IsWellFoundedOn(R, Nat)
  BY NatLessThanWellFounded, Zenon DEF OpToRel
<1> HIDE DEF R
<1>2. PICK n \in T : \A m \in T : ~ (<<m, n>> \in R)
  BY <1>1, WFMin
<1>3. ASSUME NEW m \in T PROVE n <= m
  <2>1. n \in Nat /\ m \in Nat /\ ~ (<<m, n>> \in R)
    BY <1>2
  <2> QED BY <2>1 DEF R
<1> QED BY <1>3

(* The least and the greatest of a set of numbers.                             *)
LEMMA MinLeast ==
    ASSUME NEW T \in SUBSET Nat, T # {}
    PROVE  Min(T) \in T /\ \A m \in T : Min(T) <= m
BY Least DEF Min

(* A function whose value at a place depends on its values at places of lesser *)
(* rank is well defined by the equation that says so.                          *)
Local(D, V, rank, step) ==
    \A i \in D, g, h \in [D -> V] :
        (\A j \in D : rank[j] < rank[i] => g[j] = h[j]) => step[<<i, g>>] = step[<<i, h>>]

Solvable(D, V, step) == \E f \in [D -> V] : f = [i \in D |-> step[<<i, f>>]]

LEMMA Recursion ==
    ASSUME NEW D, NEW V, V # {}, NEW b \in Nat, NEW rank \in [D -> 0 .. b],
           NEW step \in [D \X [D -> V] -> V], Local(D, V, rank, step)
    PROVE  Solvable(D, V, step)
<1> DEFINE Solves(f, k) == \A i \in D : rank[i] < k => f[i] = step[<<i, f>>]
           Solved(k) == \E f \in [D -> V] : Solves(f, k)
           T == {k \in Nat : ~ Solved(k)}
<1>s. \A m, n \in Nat : m < n => m = n - 1 \/ m < n - 1
  OBVIOUS
<1>r. \A i \in D : rank[i] \in Nat /\ rank[i] < b + 1
  OBVIOUS
<1>1. ASSUME T # {} PROVE FALSE
  <2>1. PICK k \in T : \A m \in T : k <= m
    BY <1>1, Least
  <2>2. k # 0
    <3>1. PICK v \in V : TRUE
      OBVIOUS
    <3>2. [i \in D |-> v] \in [D -> V]
      OBVIOUS
    <3>3. \A i \in D : ~ (rank[i] < 0)
      OBVIOUS
    <3>4. Solves([i \in D |-> v], 0)
      BY <3>3
    <3>5. Solved(0)
      BY <3>2, <3>4
    <3> QED BY <3>5
  <2>3. k \in Nat /\ k - 1 \in Nat /\ ~ (k <= k - 1)
    BY <2>2
  <2>4. k - 1 \notin T
    BY <2>1, <2>3
  <2>5. PICK f \in [D -> V] : Solves(f, k - 1)
    BY <2>3, <2>4
  <2> DEFINE h == [i \in D |-> IF rank[i] = k - 1 THEN step[<<i, f>>] ELSE f[i]]
  <2>6. h \in [D -> V]
    OBVIOUS
  <2>7. ASSUME NEW i \in D, rank[i] < k PROVE h[i] = step[<<i, h>>]
    <3>1. \A j \in D : rank[j] < rank[i] => h[j] = f[j]
      BY <2>3, <2>7
    <3>2. step[<<i, h>>] = step[<<i, f>>]
      BY <2>6, <3>1 DEF Local
    <3>3. rank[i] = k - 1 \/ rank[i] < k - 1
      BY <1>r, <1>s, <2>3, <2>7, Zenon
    <3> QED BY <2>5, <3>2, <3>3
  <2>8. Solves(h, k)
    BY <2>7
  <2> HIDE DEF h, Solves
  <2>9. Solved(k)
    BY <2>6, <2>8
  <2> QED BY <2>9
<1>2. b + 1 \in Nat
  OBVIOUS
<1>4. Solved(b + 1)
  <2>1. b + 1 \notin T
    BY <1>1
  <2> HIDE DEF Solved
  <2> QED BY <1>2, <2>1
<1>5. PICK f \in [D -> V] : Solves(f, b + 1)
  BY <1>4
<1>3. \A i \in D : f[i] = step[<<i, f>>]
  BY <1>r, <1>5
<1> QED BY <1>3 DEF Solvable

(* Induction up to a bound, and down from one.                                 *)
LEMMA Upward ==
    ASSUME NEW b \in Nat, NEW T, 0 \in T, \A n \in 0 .. b - 1 : n \in T => n + 1 \in T
    PROVE  \A n \in 0 .. b : n \in T
<1> DEFINE W == {n \in 0 .. b : n \notin T}
<1>0. W \in SUBSET Nat
  OBVIOUS
<1>1. ASSUME W # {} PROVE FALSE
  <2>1. PICK n \in W : \A m \in W : n <= m
    <3> HIDE DEF W
    <3> QED BY <1>0, <1>1, Least
  <2>2. n - 1 \in 0 .. b - 1 /\ n - 1 \notin W /\ n - 1 + 1 = n
    BY <2>1
  <2> QED BY <2>2
<1> QED BY <1>1

LEMMA Downward ==
    ASSUME NEW b \in Nat, NEW T,
           \A i \in 1 .. b : (\A j \in i + 1 .. b : j \in T) => i \in T
    PROVE  \A i \in 1 .. b : i \in T
<1> DEFINE W == {n \in 0 .. b - 1 : b - n \notin T}
<1>0. W \in SUBSET Nat
  OBVIOUS
<1>1. ASSUME W # {} PROVE FALSE
  <2>1. PICK n \in W : \A m \in W : n <= m
    <3> HIDE DEF W
    <3> QED BY <1>0, <1>1, Least
  <2>2. ASSUME NEW j \in b - n + 1 .. b PROVE j \in T
    <3>1. b - j \in 0 .. b - 1 /\ ~ (n <= b - j) /\ b - (b - j) = j
      OBVIOUS
    <3> QED BY <2>1, <3>1
  <2>3. b - n \in 1 .. b
    OBVIOUS
  <2> QED BY <2>2, <2>3
<1>2. ASSUME NEW i \in 1 .. b PROVE i \in T
  <2>1. b - i \in 0 .. b - 1 /\ b - (b - i) = i
    OBVIOUS
  <2> QED BY <1>1, <2>1
<1> QED BY <1>2

-------------------------------------------------------------------------------
(* Without. The function that computes it.                                     *)
Keeps(f, s, dropped) ==
    f = [i \in 0..Len(s) |->
            IF i = 0 THEN <<>>
            ELSE IF s[i] \in dropped THEN f[i - 1] ELSE Append(f[i - 1], s[i])]

LEMMA KeptExists ==
    ASSUME NEW S, NEW s \in Seq(S), NEW dropped
    PROVE  \E f : Keeps(f, s, dropped)
<1> DEFINE D == 0 .. Len(s)
           V == Seq(S)
           rank == [i \in D |-> i]
           step == [p \in D \X [D -> V] |->
                      IF p[1] = 0 THEN <<>>
                      ELSE IF s[p[1]] \in dropped THEN p[2][p[1] - 1]
                      ELSE Append(p[2][p[1] - 1], s[p[1]])]
<1>1. Len(s) \in Nat /\ rank \in [D -> 0 .. Len(s)] /\ V # {}
  OBVIOUS
<1>2. ASSUME NEW i \in D, NEW g \in [D -> V]
      PROVE  /\ i # 0 => i - 1 \in D /\ s[i] \in S /\ rank[i - 1] < rank[i]
             /\ step[<<i, g>>] = IF i = 0 THEN <<>>
                                 ELSE IF s[i] \in dropped THEN g[i - 1]
                                 ELSE Append(g[i - 1], s[i])
  OBVIOUS
<1>3. step \in [D \X [D -> V] -> V]
  <2>1. \A i \in D, g \in [D -> V] : (IF i = 0 THEN <<>>
                                 ELSE IF s[i] \in dropped THEN g[i - 1]
                                 ELSE Append(g[i - 1], s[i])) \in V
    OBVIOUS
  <2> HIDE DEF D, V
  <2> QED BY <2>1
<1>4. Local(D, V, rank, step)
  <2> SUFFICES ASSUME NEW i \in D, NEW g \in [D -> V], NEW h \in [D -> V],
                      \A j \in D : rank[j] < rank[i] => g[j] = h[j]
               PROVE  step[<<i, g>>] = step[<<i, h>>]
    BY DEF Local
  <2>1. i # 0 => g[i - 1] = h[i - 1]
    BY <1>2
  <2> HIDE DEF D, V, rank, step
  <2> QED BY <1>2, <2>1
<1>5. Solvable(D, V, step)
  <2> HIDE DEF D, V, rank, step
  <2> QED BY <1>1, <1>3, <1>4, Recursion, ZenonT(30)
<1>6. PICK f \in [D -> V] : f = [i \in D |-> step[<<i, f>>]]
  BY <1>5 DEF Solvable
<1>7. f = [i \in D |-> IF i = 0 THEN <<>>
                       ELSE IF s[i] \in dropped THEN f[i - 1] ELSE Append(f[i - 1], s[i])]
  <2> HIDE DEF D, V, rank, step
  <2> QED BY <1>2, <1>6
<1> QED BY <1>7 DEF Keeps

LEMMA WithoutKept ==
    ASSUME NEW S, NEW s \in Seq(S), NEW dropped
    PROVE  \E f : Keeps(f, s, dropped) /\ Without(s, dropped) = f[Len(s)]
<1>1. Without(s, dropped) = (CHOOSE f : Keeps(f, s, dropped))[Len(s)]
  BY DEF Without, Keeps
<1> QED BY <1>1, KeptExists

LEMMA KeepsAt ==
    ASSUME NEW f, NEW s, Len(s) \in Nat, NEW dropped, Keeps(f, s, dropped)
    PROVE  /\ f[0] = <<>>
           /\ \A n \in 0 .. Len(s) - 1 :
                f[n + 1] = IF s[n + 1] \in dropped THEN f[n] ELSE Append(f[n], s[n + 1])
<1>1. f[0] = <<>>
  BY DEF Keeps
<1>2. ASSUME NEW n \in 0 .. Len(s) - 1
      PROVE f[n + 1] = IF s[n + 1] \in dropped THEN f[n] ELSE Append(f[n], s[n + 1])
  <2>1. \A i \in 1 .. Len(s) :
           f[i] = IF s[i] \in dropped THEN f[i - 1] ELSE Append(f[i - 1], s[i])
    <3> DEFINE e(i) == IF i = 0 THEN <<>>
                       ELSE IF s[i] \in dropped THEN f[i - 1] ELSE Append(f[i - 1], s[i])
    <3>1. f = [i \in 0 .. Len(s) |-> e(i)]
      BY DEF Keeps
    <3> HIDE DEF e
    <3>2. \A i \in 1 .. Len(s) : i \in 0 .. Len(s) /\ i # 0
      OBVIOUS
    <3>3. \A i \in 1 .. Len(s) : f[i] = e(i)
      BY <3>1, <3>2
    <3> QED BY <3>2, <3>3 DEF e
  <2>2. n + 1 \in 1 .. Len(s) /\ n + 1 - 1 = n
    OBVIOUS
  <2> QED BY <2>1, <2>2
<1> QED BY <1>1, <1>2

(* Without, one element at a time.                                             *)
LEMMA WithoutAppend ==
    ASSUME NEW S, NEW s \in Seq(S), NEW e \in S, NEW dropped
    PROVE  Without(Append(s, e), dropped)
             = IF e \in dropped THEN Without(s, dropped)
               ELSE Append(Without(s, dropped), e)
<1> DEFINE t == Append(s, e)
<1>1. t \in Seq(S) /\ Len(t) = Len(s) + 1 /\ t[Len(t)] = e /\ Len(s) \in Nat
      /\ \A i \in 1 .. Len(s) : t[i] = s[i]
  OBVIOUS
<1> HIDE DEF t
<1>2. PICK f : Keeps(f, s, dropped) /\ Without(s, dropped) = f[Len(s)]
  BY WithoutKept
<1>3. PICK g : Keeps(g, t, dropped) /\ Without(t, dropped) = g[Len(t)]
  BY <1>1, WithoutKept
<1> DEFINE T == {n \in 0 .. Len(s) : f[n] = g[n]}
<1>4. 0 \in T
  BY <1>1, <1>2, <1>3 DEF Keeps
<1>5. ASSUME NEW n \in 0 .. Len(s) - 1, n \in T PROVE n + 1 \in T
  <2>1. n + 1 \in 1 .. Len(s) /\ n + 1 # 0 /\ n + 1 - 1 = n /\ n + 1 \in 0 .. Len(t)
    BY <1>1
  <2>2. f[n + 1] = IF s[n + 1] \in dropped THEN f[n] ELSE Append(f[n], s[n + 1])
    BY <1>1, <1>2, KeepsAt
  <2>3. g[n + 1] = IF s[n + 1] \in dropped THEN g[n] ELSE Append(g[n], s[n + 1])
    <3>1. n \in 0 .. Len(t) - 1
      BY <1>1
    <3> QED BY <1>1, <1>3, <3>1, KeepsAt
  <2> QED BY <1>5, <2>1, <2>2, <2>3
<1>6. f[Len(s)] = g[Len(s)]
  <2>1. \A n \in 0 .. Len(s) : n \in T
    <3> HIDE DEF T
    <3> QED BY <1>1, <1>4, <1>5, Upward
  <2> QED BY <1>1, <2>1
<1>7. g[Len(t)] = IF e \in dropped THEN g[Len(s)] ELSE Append(g[Len(s)], e)
  <2>1. Len(t) \in 0 .. Len(t) /\ Len(t) # 0 /\ Len(t) - 1 = Len(s)
    BY <1>1
  <2> QED BY <1>1, <1>3, <2>1 DEF Keeps
<1> QED BY <1>2, <1>3, <1>6, <1>7 DEF t

(* What Without keeps, all it keeps, and that it changes nothing where there   *)
(* is nothing to drop.                                                         *)
LEMMA WithoutElements ==
    ASSUME NEW S, NEW s \in Seq(S), NEW dropped
    PROVE  /\ Without(s, dropped) \in Seq(S \ dropped)
           /\ \A i \in 1 .. Len(s) : s[i] \notin dropped =>
                \E j \in 1 .. Len(Without(s, dropped)) : Without(s, dropped)[j] = s[i]
           /\ \A j \in 1 .. Len(Without(s, dropped)) :
                \E i \in 1 .. Len(s) : Without(s, dropped)[j] = s[i]
           /\ (\A i \in 1 .. Len(s) : s[i] \notin dropped) => Without(s, dropped) = s
           /\ dropped \subseteq Space => (IsBlank(s) <=> IsBlank(Without(s, dropped)))
<1> DEFINE B == S \ dropped
           Good(i, w) ==
             /\ w \in Seq(B)
             /\ \A k \in 1 .. i : s[k] \notin dropped =>
                  \E j \in 1 .. Len(w) : w[j] = s[k]
             /\ \A j \in 1 .. Len(w) : \E k \in 1 .. i : w[j] = s[k]
             /\ (\A k \in 1 .. i : s[k] \notin dropped) =>
                  Len(w) = i /\ \A k \in 1 .. i : w[k] = s[k]
<1>1. PICK f : Keeps(f, s, dropped) /\ Without(s, dropped) = f[Len(s)]
  BY WithoutKept
<1> DEFINE T == {n \in 0 .. Len(s) : Good(n, f[n])}
<1>2. 0 \in T
  <2>1. f[0] = <<>>
    BY <1>1 DEF Keeps
  <2>2. Good(0, <<>>)
    <3>1. <<>> \in Seq(B) /\ Len(<<>>) = 0 /\ 1 .. 0 = {}
      OBVIOUS
    <3> QED BY <3>1
  <2>3. 0 \in 0 .. Len(s)
    OBVIOUS
  <2> HIDE DEF Good
  <2> QED BY <2>1, <2>2, <2>3
<1>3. ASSUME NEW n \in 0 .. Len(s) - 1, n \in T PROVE n + 1 \in T
  <2>1. n + 1 \in 1 .. Len(s) /\ n + 1 # 0 /\ n + 1 - 1 = n /\ n + 1 \in 0 .. Len(s)
    OBVIOUS
  <2>2. f[n + 1] = IF s[n + 1] \in dropped THEN f[n] ELSE Append(f[n], s[n + 1])
    BY <1>1, KeepsAt
  <2>3. Good(n, f[n])
    BY <1>3
  <2>k. \A k \in 1 .. n + 1 : k \in 1 .. n \/ k = n + 1
    OBVIOUS
  <2>l. 1 .. n \subseteq 1 .. n + 1 /\ n + 1 \in 1 .. n + 1
    BY <2>1
  <2>4. CASE s[n + 1] \in dropped
    <3>1. f[n + 1] = f[n]
      BY <2>2, <2>4
    <3>2. Good(n + 1, f[n])
      BY <2>3, <2>4, <2>k, <2>l
    <3> HIDE DEF Good
    <3> QED BY <2>1, <3>1, <3>2
  <2>5. CASE s[n + 1] \notin dropped
    <3> DEFINE w == f[n]
               v == Append(f[n], s[n + 1])
    <3>1. f[n + 1] = v
      BY <2>2, <2>5
    <3>2. s[n + 1] \in B
      BY <2>1, <2>5
    <3>3. w \in Seq(B) /\ v \in Seq(B) /\ Len(w) \in Nat /\ Len(v) = Len(w) + 1 /\ v[Len(w) + 1] = s[n + 1]
          /\ \A j \in 1 .. Len(w) : v[j] = w[j] /\ j \in 1 .. Len(v)
      BY <2>3, <3>2
    <3> HIDE DEF w, v
    <3>4. Len(v) \in 1 .. Len(v) /\ \A j \in 1 .. Len(v) : j \in 1 .. Len(w) \/ j = Len(w) + 1
      BY <3>3
    <3>5. \A k \in 1 .. n + 1 : s[k] \notin dropped => \E j \in 1 .. Len(v) : v[j] = s[k]
      <4>1. ASSUME NEW k \in 1 .. n, s[k] \notin dropped
            PROVE  \E j \in 1 .. Len(v) : v[j] = s[k]
        <5>1. PICK j \in 1 .. Len(w) : w[j] = s[k]
          BY <2>3, <4>1 DEF w
        <5> QED BY <3>3, <5>1
      <4> QED BY <2>k, <3>3, <3>4, <4>1
    <3>6. \A j \in 1 .. Len(v) : \E k \in 1 .. n + 1 : v[j] = s[k]
      BY <2>3, <2>l, <3>3, <3>4 DEF w
    <3>7. ASSUME \A k \in 1 .. n + 1 : s[k] \notin dropped
          PROVE  Len(v) = n + 1 /\ \A k \in 1 .. n + 1 : v[k] = s[k]
      <4>1. Len(w) = n /\ \A k \in 1 .. n : w[k] = s[k]
        BY <2>3, <2>l, <3>7 DEF w
      <4> QED BY <2>k, <3>3, <4>1
    <3>8. Good(n + 1, v)
      BY <3>3, <3>5, <3>6, <3>7
    <3> HIDE DEF Good
    <3> QED BY <2>1, <3>1, <3>8
  <2> QED BY <2>4, <2>5
<1>4. Good(Len(s), f[Len(s)])
  <2>1. \A n \in 0 .. Len(s) : n \in T
    <3>1. Len(s) \in Nat
      OBVIOUS
    <3> HIDE DEF T
    <3> QED BY <1>2, <1>3, <3>1, Upward
  <2> QED BY <2>1
<1>5. ASSUME \A i \in 1 .. Len(s) : s[i] \notin dropped PROVE Without(s, dropped) = s
  <2>1. Without(s, dropped) \in Seq(S)
    BY <1>1, <1>4
  <2> QED BY <1>1, <1>4, <1>5, <2>1, SeqEqual
<1>6. ASSUME dropped \subseteq Space PROVE IsBlank(s) <=> IsBlank(Without(s, dropped))
  <2> DEFINE w == f[Len(s)]
  <2>1. /\ w \in Seq(B)
        /\ \A k \in 1 .. Len(s) : s[k] \notin dropped => \E j \in 1 .. Len(w) : w[j] = s[k]
        /\ \A j \in 1 .. Len(w) : \E k \in 1 .. Len(s) : w[j] = s[k]
    BY <1>4
  <2> HIDE DEF w, B
  <2>2. DOMAIN s = 1 .. Len(s) /\ DOMAIN w = 1 .. Len(w)
    BY <2>1
  <2>3. IsBlank(s) <=> IsBlank(w)
    BY <1>6, <2>1, <2>2, Zenon DEF IsBlank
  <2> QED BY <1>1, <2>3 DEF w
<1> QED BY <1>1, <1>4, <1>5, <1>6


LEMMA WithoutEmpty ==
    ASSUME NEW dropped
    PROVE  Without(<<>>, dropped) = <<>>
<1>1. <<>> \in Seq({}) /\ \A i \in 1 .. Len(<<>>) : <<>>[i] \notin dropped
  OBVIOUS
<1> QED BY <1>1, WithoutElements

LEMMA WithoutTwice ==
    ASSUME NEW S, NEW s \in Seq(S), NEW dropped
    PROVE  Without(Without(s, dropped), dropped) = Without(s, dropped)
<1> DEFINE w == Without(s, dropped)
<1>0. w \in Seq(S \ dropped)
  BY WithoutElements
<1> HIDE DEF w
<1>1. w \in Seq(S)
  BY <1>0
<1>2. \A j \in 1 .. Len(w) : w[j] \notin dropped
  BY <1>0
<1>3. Without(w, dropped) = w
  BY <1>1, <1>2, WithoutElements
<1> QED BY <1>3 DEF w

-------------------------------------------------------------------------------
(* Flattening: what rewrites a text place by place.                            *)
Flattens(f, seqs) ==
    f = [i \in 1..Len(seqs) |-> IF i = 1 THEN seqs[i] ELSE f[i-1] \o seqs[i]]

LEMMA FlatExists ==
    ASSUME NEW S, NEW seqs \in Seq(Seq(S))
    PROVE  \E f : Flattens(f, seqs)
<1> DEFINE D == 1 .. Len(seqs)
           V == Seq(S)
           rank == [i \in D |-> i]
           step == [p \in D \X [D -> V] |->
                      IF p[1] = 1 THEN seqs[p[1]] ELSE p[2][p[1] - 1] \o seqs[p[1]]]
<1>1. Len(seqs) \in Nat /\ rank \in [D -> 0 .. Len(seqs)] /\ V # {}
  OBVIOUS
<1>2. ASSUME NEW i \in D, NEW g \in [D -> V]
      PROVE  /\ seqs[i] \in V
             /\ i # 1 => i - 1 \in D /\ rank[i - 1] < rank[i]
             /\ step[<<i, g>>] = IF i = 1 THEN seqs[i] ELSE g[i - 1] \o seqs[i]
  OBVIOUS
<1>3. step \in [D \X [D -> V] -> V]
  <2>1. \A i \in D, g \in [D -> V] :
           (IF i = 1 THEN seqs[i] ELSE g[i - 1] \o seqs[i]) \in V
    <3> SUFFICES ASSUME NEW i \in D, NEW g \in [D -> V]
                 PROVE  (IF i = 1 THEN seqs[i] ELSE g[i - 1] \o seqs[i]) \in V
      OBVIOUS
    <3>1. seqs[i] \in V /\ (i # 1 => g[i - 1] \in V)
      BY <1>2
    <3> QED BY <3>1, ConcatProperties
  <2> HIDE DEF D, V
  <2> QED BY <2>1
<1>4. Local(D, V, rank, step)
  <2> SUFFICES ASSUME NEW i \in D, NEW g \in [D -> V], NEW h \in [D -> V],
                      \A j \in D : rank[j] < rank[i] => g[j] = h[j]
               PROVE  step[<<i, g>>] = step[<<i, h>>]
    BY DEF Local
  <2>1. i # 1 => g[i - 1] = h[i - 1]
    BY <1>2
  <2>2. /\ step[<<i, g>>] = IF i = 1 THEN seqs[i] ELSE g[i - 1] \o seqs[i]
        /\ step[<<i, h>>] = IF i = 1 THEN seqs[i] ELSE h[i - 1] \o seqs[i]
    BY <1>2
  <2> HIDE DEF D, V, rank, step
  <2> QED BY <2>1, <2>2
<1>5. Solvable(D, V, step)
  <2> HIDE DEF D, V, rank, step
  <2> QED BY <1>1, <1>3, <1>4, Recursion, ZenonT(30)
<1>6. PICK f \in [D -> V] : f = [i \in D |-> step[<<i, f>>]]
  BY <1>5 DEF Solvable
<1>7. f = [i \in D |-> IF i = 1 THEN seqs[i] ELSE f[i - 1] \o seqs[i]]
  <2> HIDE DEF D, V, rank, step
  <2> QED BY <1>2, <1>6
<1> QED BY <1>7 DEF Flattens

LEMMA FlattensAt ==
    ASSUME NEW f, NEW seqs, Len(seqs) \in Nat, Flattens(f, seqs)
    PROVE  \A n \in 0 .. Len(seqs) - 1 :
              f[n + 1] = IF n = 0 THEN seqs[n + 1] ELSE f[n] \o seqs[n + 1]
<1> DEFINE e(i) == IF i = 1 THEN seqs[i] ELSE f[i-1] \o seqs[i]
<1>1. f = [i \in 1 .. Len(seqs) |-> e(i)]
  BY DEF Flattens
<1>2. \A i \in 1 .. Len(seqs) : f[i] = e(i)
  <2> HIDE DEF e
  <2> QED BY <1>1
<1>3. \A n \in 0 .. Len(seqs) - 1 : n + 1 \in 1 .. Len(seqs) /\ n + 1 - 1 = n /\ (n + 1 = 1 <=> n = 0)
  OBVIOUS
<1>4. \A n \in 0 .. Len(seqs) - 1 :
         e(n + 1) = IF n = 0 THEN seqs[n + 1] ELSE f[n] \o seqs[n + 1]
  BY <1>3
<1> HIDE DEF e
<1> QED BY <1>2, <1>3, <1>4

LEMMA FlatSteps ==
    ASSUME NEW S, NEW seqs \in Seq(Seq(S))
    PROVE  \E G : /\ G[0] = <<>> /\ G[Len(seqs)] = FlattenSeq(seqs)
                  /\ \A n \in 0 .. Len(seqs) - 1 : G[n + 1] = G[n] \o seqs[n + 1]
                  /\ \A n \in 0 .. Len(seqs) : G[n] \in Seq(S)
<1>1. Len(seqs) \in Nat /\ \A i \in 1 .. Len(seqs) : seqs[i] \in Seq(S)
  OBVIOUS
<1>2. PICK f : Flattens(f, seqs) /\ (Len(seqs) # 0 => FlattenSeq(seqs) = f[Len(seqs)])
  <2>1. Len(seqs) # 0 => FlattenSeq(seqs) = (CHOOSE f : Flattens(f, seqs))[Len(seqs)]
    BY DEF FlattenSeq, Flattens
  <2> QED BY <2>1, FlatExists
<1> DEFINE G == [n \in 0 .. Len(seqs) |-> IF n = 0 THEN <<>> ELSE f[n]]
<1>3. G[0] = <<>> /\ \A n \in 1 .. Len(seqs) : G[n] = f[n]
  BY <1>1
<1>4. G[Len(seqs)] = FlattenSeq(seqs)
  <2>1. CASE Len(seqs) = 0
    <3>1. seqs = <<>>
      BY <2>1
    <3>2. FlattenSeq(seqs) = <<>>
      BY <2>1, <3>1 DEF FlattenSeq
    <3> HIDE DEF G
    <3> QED BY <1>3, <2>1, <3>2
  <2>2. CASE Len(seqs) # 0
    <3>1. Len(seqs) \in 1 .. Len(seqs)
      BY <1>1, <2>2
    <3> HIDE DEF G
    <3> QED BY <1>2, <1>3, <2>2, <3>1
  <2> QED BY <2>1, <2>2
<1>5. ASSUME NEW n \in 0 .. Len(seqs) - 1 PROVE G[n + 1] = G[n] \o seqs[n + 1]
  <2>1. f[n + 1] = IF n = 0 THEN seqs[n + 1] ELSE f[n] \o seqs[n + 1]
    BY <1>1, <1>2, FlattensAt
  <2>2. n + 1 \in 1 .. Len(seqs) /\ (n # 0 => n \in 1 .. Len(seqs))
    BY <1>1
  <2>3. <<>> \o seqs[n + 1] = seqs[n + 1]
    BY <1>1, <2>2, ConcatEmptySeq
  <2> HIDE DEF G
  <2> QED BY <1>3, <2>1, <2>2, <2>3
<1> HIDE DEF G
<1>6. \A n \in 0 .. Len(seqs) : G[n] \in Seq(S)
  <2> DEFINE T == {n \in 0 .. Len(seqs) : G[n] \in Seq(S)}
  <2>1. 0 \in T
    <3>1. <<>> \in Seq(S) /\ 0 \in 0 .. Len(seqs)
      BY <1>1
    <3> QED BY <1>3, <3>1
  <2>2. ASSUME NEW n \in 0 .. Len(seqs) - 1, n \in T PROVE n + 1 \in T
    <3>1. n + 1 \in 1 .. Len(seqs) /\ n + 1 \in 0 .. Len(seqs)
      BY <1>1
    <3>2. G[n] \o seqs[n + 1] \in Seq(S)
      BY <1>1, <2>2, <3>1, ConcatProperties
    <3> QED BY <1>5, <3>1, <3>2
  <2>3. \A n \in 0 .. Len(seqs) : n \in T
    <3> HIDE DEF T
    <3> QED BY <1>1, <2>1, <2>2, Upward
  <2> QED BY <2>3
<1> QED BY <1>3, <1>4, <1>5, <1>6

(* One or two elements put at the end.                                         *)
LEMMA ConcatFew ==
    ASSUME NEW S, NEW g \in Seq(S), NEW a \in S, NEW c \in S
    PROVE  /\ g \o <<a>> = Append(g, a) /\ Append(g, a) \in Seq(S)
           /\ g \o <<a, c>> = Append(Append(g, a), c)
<1>1. <<a>> \in Seq(S) /\ <<c>> \in Seq(S) /\ <<a, c>> \in Seq(S)
  OBVIOUS
<1> DEFINE x == <<a>> \o <<c>>
           y == <<a, c>>
<1>2. x \in Seq(S) /\ y \in Seq(S) /\ Len(x) = 2 /\ Len(y) = 2
      /\ x[1] = y[1] /\ x[2] = y[2]
  BY <1>1
<1>3. \A i \in 1 .. 2 : i = 1 \/ i = 2
  OBVIOUS
<1>4. x = y
  <2> HIDE DEF x, y
  <2> QED BY <1>2, <1>3, SeqEqual
<1>5. (g \o <<a>>) \o <<c>> = g \o (<<a>> \o <<c>>)
  BY <1>1, ConcatAssociative
<1>6. g \o <<a>> = Append(g, a) /\ Append(g, a) \in Seq(S)
  OBVIOUS
<1>7. Append(g, a) \o <<c>> = Append(Append(g, a), c)
  BY <1>6
<1> QED BY <1>4, <1>5, <1>6, <1>7

(* A text rewritten place by place, where a place becomes itself or, if its    *)
(* element is one of `dropped`, at most two of those: the rest is the same.    *)
Rewrites(S, text, L, dropped) ==
    /\ L \in Seq(Seq(S)) /\ Len(L) = Len(text)
    /\ \A i \in 1 .. Len(text) :
          \/ L[i] = <<text[i]>>
          \/ /\ text[i] \in dropped
             /\ \/ L[i] = <<>>
                \/ \E a \in S \cap dropped : L[i] = <<a>>
                \/ \E a, c \in S \cap dropped : L[i] = <<a, c>>

LEMMA FlatSame ==
    ASSUME NEW S, NEW text \in Seq(S), NEW L, NEW dropped, Rewrites(S, text, L, dropped)
    PROVE  /\ FlattenSeq(L) \in Seq(S)
           /\ Without(FlattenSeq(L), dropped) = Without(text, dropped)
<1>1. L \in Seq(Seq(S)) /\ Len(L) = Len(text) /\ Len(text) \in Nat
  BY DEF Rewrites
<1>2. PICK G : /\ G[0] = <<>> /\ G[Len(L)] = FlattenSeq(L)
               /\ \A n \in 0 .. Len(L) - 1 : G[n + 1] = G[n] \o L[n + 1]
               /\ \A n \in 0 .. Len(L) : G[n] \in Seq(S)
  BY <1>1, FlatSteps
<1> DEFINE T == {n \in 0 .. Len(text) : Without(G[n], dropped) = Without(SubSeq(text, 1, n), dropped)}
<1>3. 0 \in T
  <2>1. SubSeq(text, 1, 0) = <<>> /\ 0 \in 0 .. Len(text)
    BY <1>1, SubSeqEmpty
  <2> QED BY <1>2, <2>1
<1>4. ASSUME NEW n \in 0 .. Len(text) - 1, n \in T PROVE n + 1 \in T
  <2> DEFINE e == text[n + 1]
             g == G[n]
             h == SubSeq(text, 1, n)
  <2>1. n + 1 \in 1 .. Len(text) /\ n + 1 \in 0 .. Len(text) /\ e \in S /\ n \in 0 .. Len(text)
    BY <1>1
  <2>2. SubSeq(text, 1, n + 1) = Append(h, e) /\ h \in Seq(S)
    BY <2>1
  <2>a. Without(g, dropped) = Without(h, dropped)
    BY <1>4
  <2>b. G[n + 1] = g \o L[n + 1] /\ g \in Seq(S)
    BY <1>1, <1>2, <2>1
  <2>3. G[n + 1] = g \o L[n + 1] /\ g \in Seq(S) /\ Without(g, dropped) = Without(h, dropped)
    BY <2>a, <2>b
  <2>4. /\ \A a \in S, w \in Seq(S) : Append(w, a) \in Seq(S)
        /\ \A a \in S \cap dropped, w \in Seq(S) :
              Without(Append(w, a), dropped) = Without(w, dropped)
    BY WithoutAppend
  <2>5. \/ L[n + 1] = <<e>>
        \/ /\ e \in dropped
           /\ \/ L[n + 1] = <<>>
              \/ \E a \in S \cap dropped : L[n + 1] = <<a>>
              \/ \E a, c \in S \cap dropped : L[n + 1] = <<a, c>>
    BY <2>1 DEF Rewrites
  <2> HIDE DEF e, g, h, T
  <2>6. CASE L[n + 1] = <<e>>
    <3>1. G[n + 1] = Append(g, e)
      BY <2>1, <2>3, <2>6, ConcatFew
    <3>2. /\ Without(Append(g, e), dropped)
                = IF e \in dropped THEN Without(g, dropped) ELSE Append(Without(g, dropped), e)
          /\ Without(Append(h, e), dropped)
                = IF e \in dropped THEN Without(h, dropped) ELSE Append(Without(h, dropped), e)
      BY <2>1, <2>2, <2>3, WithoutAppend
    <3> QED BY <2>1, <2>2, <2>3, <3>1, <3>2 DEF T
  <2>7. CASE e \in dropped /\ L[n + 1] = <<>>
    <3>1. G[n + 1] = g
      BY <2>3, <2>7, ConcatEmptySeq
    <3> QED BY <2>1, <2>2, <2>3, <2>4, <2>7, <3>1 DEF T
  <2>8. CASE e \in dropped /\ \E a \in S \cap dropped : L[n + 1] = <<a>>
    <3>1. PICK a \in S \cap dropped : L[n + 1] = <<a>>
      BY <2>8
    <3>2. G[n + 1] = Append(g, a)
      BY <2>3, <3>1, ConcatFew
    <3>3. Without(Append(g, a), dropped) = Without(g, dropped)
          /\ Without(Append(h, e), dropped) = Without(h, dropped)
      BY <2>1, <2>2, <2>3, <2>4, <2>8
    <3> QED BY <2>1, <2>2, <2>3, <3>2, <3>3 DEF T
  <2>9. CASE e \in dropped /\ \E a, c \in S \cap dropped : L[n + 1] = <<a, c>>
    <3>1. PICK a \in S \cap dropped, c \in S \cap dropped : L[n + 1] = <<a, c>>
      BY <2>9
    <3>2. G[n + 1] = Append(Append(g, a), c)
      BY <2>3, <3>1, ConcatFew
    <3>3. /\ Append(g, a) \in Seq(S)
          /\ Without(Append(g, a), dropped) = Without(g, dropped)
          /\ Without(Append(h, e), dropped) = Without(h, dropped)
      BY <2>1, <2>2, <2>3, <2>4, <2>9
    <3>4. Without(Append(Append(g, a), c), dropped) = Without(Append(g, a), dropped)
      BY <2>4, <3>3
    <3> QED BY <2>1, <2>2, <2>3, <3>2, <3>3, <3>4 DEF T
  <2> QED BY <2>5, <2>6, <2>7, <2>8, <2>9
<1>5. Len(text) \in T
  <2>1. \A n \in 0 .. Len(text) : n \in T
    <3> HIDE DEF T
    <3> QED BY <1>1, <1>3, <1>4, Upward
  <2> QED BY <1>1, <2>1
<1>6. SubSeq(text, 1, Len(text)) = text
  BY SubSeqFull
<1>7. FlattenSeq(L) \in Seq(S)
  <2>1. Len(text) \in 0 .. Len(text)
    BY <1>1
  <2> QED BY <1>2, <2>1
<1> QED BY <1>1, <1>2, <1>5, <1>6, <1>7

(* One in which a place only stays or goes, by its element.                    *)
LEMMA FlatKeeps ==
    ASSUME NEW S, NEW text \in Seq(S), NEW L, NEW dropped,
           L \in Seq(Seq(S)), Len(L) = Len(text),
           \A i \in 1 .. Len(text) : L[i] = IF text[i] \in dropped THEN <<>> ELSE <<text[i]>>
    PROVE  FlattenSeq(L) = Without(text, dropped)
<1>1. Len(text) \in Nat
  OBVIOUS
<1>2. PICK G : /\ G[0] = <<>> /\ G[Len(L)] = FlattenSeq(L)
               /\ \A n \in 0 .. Len(L) - 1 : G[n + 1] = G[n] \o L[n + 1]
               /\ \A n \in 0 .. Len(L) : G[n] \in Seq(S)
  BY FlatSteps
<1> DEFINE T == {n \in 0 .. Len(text) : G[n] = Without(SubSeq(text, 1, n), dropped)}
<1>3. 0 \in T
  <2>1. SubSeq(text, 1, 0) = <<>> /\ 0 \in 0 .. Len(text) /\ Without(<<>>, dropped) = <<>>
    BY <1>1, SubSeqEmpty, WithoutEmpty
  <2> QED BY <1>2, <2>1
<1>4. ASSUME NEW n \in 0 .. Len(text) - 1, n \in T PROVE n + 1 \in T
  <2> DEFINE e == text[n + 1]
             g == G[n]
             h == SubSeq(text, 1, n)
  <2>1. n + 1 \in 1 .. Len(text) /\ n + 1 \in 0 .. Len(text) /\ e \in S /\ n \in 0 .. Len(text)
    BY <1>1
  <2>2. SubSeq(text, 1, n + 1) = Append(h, e) /\ h \in Seq(S)
    BY <2>1
  <2>3. G[n + 1] = g \o L[n + 1] /\ g \in Seq(S) /\ g = Without(h, dropped)
        /\ L[n + 1] = IF e \in dropped THEN <<>> ELSE <<e>>
    BY <1>2, <1>4, <2>1
  <2> HIDE DEF e, g, h, T
  <2>4. G[n + 1] = IF e \in dropped THEN g ELSE Append(g, e)
    <3>1. g \o <<>> = g /\ g \o <<e>> = Append(g, e)
      BY <2>1, <2>3, ConcatFew, ConcatEmptySeq
    <3> QED BY <2>3, <3>1
  <2>5. Without(Append(h, e), dropped)
          = IF e \in dropped THEN Without(h, dropped) ELSE Append(Without(h, dropped), e)
    BY <2>1, <2>2, WithoutAppend
  <2> QED BY <2>1, <2>2, <2>3, <2>4, <2>5 DEF T
<1>5. Len(text) \in T
  <2>1. \A n \in 0 .. Len(text) : n \in T
    <3> HIDE DEF T
    <3> QED BY <1>1, <1>3, <1>4, Upward
  <2> QED BY <1>1, <2>1
<1>6. SubSeq(text, 1, Len(text)) = text
  BY SubSeqFull
<1> QED BY <1>2, <1>5, <1>6

(* The first element of a text, if it is one of `dropped`, is none of the rest.*)
LEMMA WithoutTail ==
    ASSUME NEW S, NEW h \in Seq(S), h # <<>>, NEW dropped, h[1] \in dropped
    PROVE  Tail(h) \in Seq(S) /\ Without(Tail(h), dropped) = Without(h, dropped)
<1> DEFINE t == Tail(h)
<1>1. /\ t \in Seq(S) /\ Len(t) = Len(h) - 1 /\ Len(h) \in Nat /\ Len(t) \in Nat
      /\ \A i \in 1 .. Len(t) : t[i] = h[i + 1]
  BY HeadTailProperties
<1> HIDE DEF t
<1> DEFINE T == {n \in 0 .. Len(t) :
                   Without(SubSeq(t, 1, n), dropped) = Without(SubSeq(h, 1, n + 1), dropped)}
<1>2. 0 \in T
  <2> DEFINE o == <<>>
  <2>1. SubSeq(t, 1, 0) = o /\ SubSeq(h, 1, 0) = o /\ 0 \in 0 .. Len(t) /\ o \in Seq(S)
    BY <1>1, SubSeqEmpty
  <2>2. /\ h[1] \in S /\ 0 + 1 = 1
        /\ SubSeq(h, 1, 1) = Append(SubSeq(h, 1, 0), h[1])
    BY <1>1
  <2> DEFINE e == h[1]
  <2>3. e \in S /\ e \in dropped
    BY <2>2
  <2> HIDE DEF o, e
  <2>4. Without(Append(o, e), dropped) = Without(o, dropped)
    BY <2>1, <2>3, WithoutAppend
  <2> USE DEF e
  <2> QED BY <2>1, <2>2, <2>4
<1>3. ASSUME NEW n \in 0 .. Len(t) - 1, n \in T PROVE n + 1 \in T
  <2>1. n + 1 \in 0 .. Len(t) /\ n + 1 \in 1 .. Len(t) /\ n + 1 + 1 \in 1 .. Len(h)
    BY <1>1
  <2> DEFINE a == SubSeq(t, 1, n)
             c == SubSeq(h, 1, n + 1)
             e == t[n + 1]
  <2>2. /\ SubSeq(t, 1, n + 1) = Append(a, e)
        /\ a \in Seq(S) /\ e \in S
    BY <1>1, <2>1
  <2>3. e = h[n + 1 + 1]
    BY <1>1, <2>1
  <2>4. /\ SubSeq(h, 1, n + 1 + 1) = Append(c, h[n + 1 + 1])
        /\ c \in Seq(S)
    BY <1>1, <2>1
  <2>5. Without(a, dropped) = Without(c, dropped)
    BY <1>3
  <2> HIDE DEF a, c, e, T
  <2>6. /\ Without(Append(a, e), dropped)
              = IF e \in dropped THEN Without(a, dropped) ELSE Append(Without(a, dropped), e)
        /\ Without(Append(c, e), dropped)
              = IF e \in dropped THEN Without(c, dropped) ELSE Append(Without(c, dropped), e)
    BY <2>2, <2>4, WithoutAppend
  <2> QED BY <2>1, <2>2, <2>3, <2>4, <2>5, <2>6 DEF T
<1>4. Len(t) \in T
  <2>1. \A n \in 0 .. Len(t) : n \in T
    <3> HIDE DEF T
    <3> QED BY <1>1, <1>2, <1>3, Upward
  <2> QED BY <1>1, <2>1
<1>5. SubSeq(t, 1, Len(t)) = t /\ SubSeq(h, 1, Len(h)) = h /\ Len(t) + 1 = Len(h)
  BY <1>1, SubSeqFull
<1>6. Without(t, dropped) = Without(h, dropped)
  BY <1>4, <1>5
<1> QED BY <1>1, <1>6 DEF t

-------------------------------------------------------------------------------
(* The lexer. The characters it tells apart.                                   *)
LEMMA Alphabet ==
    /\ Space \subseteq Delimiters /\ WhiteSpace \subseteq Space /\ LineEnds \subseteq WhiteSpace
    /\ LineEnds = {"\r", "\n"} /\ "#" \notin LineEnds
    /\ "#" \in Delimiters /\ "<" \in Delimiters /\ Quote \in Delimiters
    /\ "#" \notin Space /\ "<" \notin Space /\ Quote \notin Space
    /\ Quote # "<" /\ Quote # "#"
    /\ "PREFIX" \notin Delimiters /\ "BASE" \notin Delimiters
    /\ \A form \in ReadForms : form \notin Delimiters
BY Zenon DEF Space, WhiteSpace, LineEnds, Delimiters, Quote, ReadForms

LEMMA ReachBounds ==
    ASSUME NEW S, NEW text \in Seq(S), NEW i \in 1 .. Len(text) + 1, NEW stops
    PROVE  /\ Reach(text, i, stops) \in i .. Len(text) + 1
           /\ \A j \in i .. Len(text) : text[j] \in stops => Reach(text, i, stops) <= j
           /\ Reach(text, i, stops) <= Len(text) => text[Reach(text, i, stops)] \in stops
<1> DEFINE M == {j \in i..Len(text) : text[j] \in stops} \cup {Len(text) + 1}
<1>1. M \in SUBSET Nat /\ M # {} /\ Reach(text, i, stops) = Min(M)
  BY DEF Reach
<1>2. Min(M) \in M /\ \A m \in M : Min(M) <= m
  <2> HIDE DEF M
  <2> QED BY <1>1, MinLeast
<1> QED BY <1>1, <1>2

(* A comment is skipped up to its line's end, or the text's.                   *)
LEMMA CommentEnd ==
    ASSUME NEW S, NEW text \in Seq(S), NEW i \in 1 .. Len(text), NEW stops
    PROVE  Min({Reach(text, i, stops), Len(text)}) \in i .. Len(text)
<1> DEFINE r == Reach(text, i, stops)
           M == {r, Len(text)}
<1>1. i \in 1 .. Len(text) + 1
  OBVIOUS
<1>2. r \in i .. Len(text) + 1
  BY <1>1, ReachBounds
<1> HIDE DEF r
<1>3. M \in SUBSET Nat /\ M # {}
  BY <1>2
<1>4. Min(M) \in M /\ \A m \in M : Min(M) <= m
  <2> HIDE DEF M
  <2> QED BY <1>3, MinLeast
<1> QED BY <1>2, <1>4 DEF r

LEMMA TokenEndBounds ==
    ASSUME NEW S, NEW text \in Seq(S), NEW i \in 1 .. Len(text),
           text[i] \notin Space, text[i] # "#"
    PROVE  /\ TokenEnd(text, i) \in i .. Len(text)
           /\ text[i] \notin Delimiters =>
                TokenEnd(text, i) = Reach(text, i, Delimiters) - 1
           /\ text[i] = "<" => \A j \in i .. Len(text) :
                j = Reach(text, i, {">"}) => TokenEnd(text, i) = j
<1>1. CASE text[i] = "<"
  <2> DEFINE r == Reach(text, i + 1, {">"})
             M == {r, Len(text)}
  <2>1. TokenEnd(text, i) = Min(M)
    BY <1>1, Alphabet DEF TokenEnd
  <2>2. i + 1 \in 1 .. Len(text) + 1
    OBVIOUS
  <2>3. /\ r \in i + 1 .. Len(text) + 1
        /\ \A j \in i + 1 .. Len(text) : text[j] \in {">"} => r <= j
        /\ r <= Len(text) => text[r] \in {">"}
    BY <2>2, ReachBounds
  <2> HIDE DEF r
  <2>4. M \in SUBSET Nat /\ M # {}
    BY <2>3
  <2>5. Min(M) \in M /\ \A m \in M : Min(M) <= m
    <3> HIDE DEF M
    <3> QED BY <2>4, MinLeast
  <2>6. Min(M) \in i .. Len(text)
    BY <2>3, <2>5
  <2>7. ASSUME NEW j \in i .. Len(text), j = Reach(text, i, {">"}) PROVE Min(M) = j
    <3>1. i \in 1 .. Len(text) + 1
      OBVIOUS
    <3>2. /\ \A k \in i .. Len(text) : text[k] \in {">"} => j <= k
          /\ text[j] \in {">"}
      BY <2>7, <3>1, ReachBounds
    <3>3. j # i
      BY <1>1, <3>2
    <3>4. r <= j
      BY <2>3, <3>2, <3>3
    <3>5. j <= r
      BY <2>3, <3>2, <3>4
    <3>6. r = j
      BY <2>3, <3>4, <3>5
    <3> QED BY <2>5, <3>6
  <2> HIDE DEF M
  <2> QED BY <1>1, <2>1, <2>6, <2>7, Alphabet
<1>2. CASE text[i] = Quote
  <2> DEFINE M == {j \in i + 1..Len(text) : Closes(text, i, j)} \cup {Len(text)}
  <2>1. TokenEnd(text, i) = Min(M)
    BY <1>2, Alphabet DEF TokenEnd
  <2>2. M \in SUBSET Nat /\ M # {} /\ M \subseteq i .. Len(text)
    OBVIOUS
  <2>3. Min(M) \in M
    <3> HIDE DEF M
    <3> QED BY <2>2, MinLeast
  <2> HIDE DEF M
  <2> QED BY <1>2, <2>1, <2>2, <2>3, Alphabet
<1>3. CASE text[i] # "<" /\ text[i] # Quote
  <2> DEFINE r == Reach(text, i, Delimiters)
  <2>1. TokenEnd(text, i) = r - 1
    BY <1>3 DEF TokenEnd
  <2>2. i \in 1 .. Len(text) + 1
    OBVIOUS
  <2>3. r \in i .. Len(text) + 1 /\ (r <= Len(text) => text[r] \in Delimiters)
    BY <2>2, ReachBounds
  <2>4. text[i] \notin Delimiters
    BY <1>3 DEF Delimiters
  <2> QED BY <1>3, <2>1, <2>3, <2>4
<1> QED BY <1>1, <1>2, <1>3


(* A function of places 1 to b whose value depends on those at later places.   *)
LaterOnly(b, V, step) ==
    \A i \in 1 .. b, g, h \in [1 .. b -> V] :
        (\A j \in i + 1 .. b : g[j] = h[j]) => step[<<i, g>>] = step[<<i, h>>]

LEMMA RecursionDown ==
    ASSUME NEW V, V # {}, NEW b \in Nat,
           NEW step \in [(1 .. b) \X [1 .. b -> V] -> V], LaterOnly(b, V, step)
    PROVE  Solvable(1 .. b, V, step)
<1> DEFINE D == 1 .. b
           rank == [i \in D |-> b - i]
<1>1. rank \in [D -> 0 .. b]
  OBVIOUS
<1>2. \A i, j \in D : rank[j] < rank[i] <=> j \in i + 1 .. b
  OBVIOUS
<1>3. \A i \in D : i + 1 .. b \subseteq D
  OBVIOUS
<1> HIDE DEF D, rank
<1>4. step \in [D \X [D -> V] -> V]
  BY DEF D
<1>5. Local(D, V, rank, step)
  <2> SUFFICES ASSUME NEW i \in D, NEW g \in [D -> V], NEW h \in [D -> V],
                      \A j \in D : rank[j] < rank[i] => g[j] = h[j]
               PROVE  step[<<i, g>>] = step[<<i, h>>]
    BY DEF Local
  <2>1. \A j \in i + 1 .. b : g[j] = h[j]
    BY <1>2, <1>3
  <2> QED BY <2>1 DEF LaterOnly, D
<1>6. Solvable(D, V, step)
  BY <1>1, <1>4, <1>5, Recursion, ZenonT(30)
<1> QED BY <1>6 DEF D

(* The tokens of a text from each place on.                                    *)
CommentOver(text, i) == Min({Reach(text, i, {"\n"}), Len(text)}) + 1
TokensFrom(text, f, i) ==
    IF i > Len(text) THEN <<>>
    ELSE IF text[i] \in Space THEN f[i + 1]
    ELSE IF text[i] = "#" THEN f[CommentOver(text, i)]
    ELSE <<SubSeq(text, i, TokenEnd(text, i))>> \o f[TokenEnd(text, i) + 1]
Tokenizes(f, text) == f = [i \in 1 .. Len(text) + 1 |-> TokensFrom(text, f, i)]

LEMMA NextPlaces ==
    ASSUME NEW S, NEW text \in Seq(S), NEW i \in 1 .. Len(text)
    PROVE  /\ i + 1 \in i + 1 .. Len(text) + 1
           /\ CommentOver(text, i) \in i + 1 .. Len(text) + 1
           /\ text[i] \notin Space /\ text[i] # "#" =>
                /\ TokenEnd(text, i) + 1 \in i + 1 .. Len(text) + 1
                /\ SubSeq(text, i, TokenEnd(text, i)) \in Seq(S)
                /\ Len(SubSeq(text, i, TokenEnd(text, i))) = TokenEnd(text, i) - i + 1
                /\ SubSeq(text, i, TokenEnd(text, i))[1] = text[i]
<1>1. CommentOver(text, i) \in i + 1 .. Len(text) + 1
  BY CommentEnd DEF CommentOver
<1>2. ASSUME text[i] \notin Space, text[i] # "#"
      PROVE  /\ TokenEnd(text, i) + 1 \in i + 1 .. Len(text) + 1
             /\ SubSeq(text, i, TokenEnd(text, i)) \in Seq(S)
             /\ Len(SubSeq(text, i, TokenEnd(text, i))) = TokenEnd(text, i) - i + 1
             /\ SubSeq(text, i, TokenEnd(text, i))[1] = text[i]
  <2> DEFINE e == TokenEnd(text, i)
  <2>1. e \in i .. Len(text)
    BY <1>2, TokenEndBounds
  <2> HIDE DEF e
  <2>2. \A j \in i .. e : text[j] \in S
    BY <2>1
  <2>3. /\ SubSeq(text, i, e) \in Seq(S)
        /\ Len(SubSeq(text, i, e)) = e - i + 1
        /\ SubSeq(text, i, e)[1] = text[i]
    BY <2>1, <2>2
  <2> QED BY <2>1, <2>3 DEF e
<1> QED BY <1>1, <1>2

LEMMA TokensExist ==
    ASSUME NEW S, NEW text \in Seq(S)
    PROVE  \E f \in [1 .. Len(text) + 1 -> Seq(Seq(S))] : Tokenizes(f, text)
<1> DEFINE b == Len(text) + 1
           V == Seq(Seq(S))
           step == [p \in (1 .. b) \X [1 .. b -> V] |-> TokensFrom(text, p[2], p[1])]
<1>1. b \in Nat /\ V # {}
  <2>1. <<>> \in V
    OBVIOUS
  <2> HIDE DEF V
  <2> QED BY <2>1
<1>2. \A i \in 1 .. b, g \in [1 .. b -> V] : step[<<i, g>>] = TokensFrom(text, g, i)
  OBVIOUS
<1>3. ASSUME NEW i \in 1 .. b, NEW g \in [1 .. b -> V] PROVE TokensFrom(text, g, i) \in V
  <2>1. CASE i > Len(text)
    BY <2>1 DEF TokensFrom
  <2>2. CASE ~ (i > Len(text))
    <3>1. i \in 1 .. Len(text)
      BY <2>2
    <3>2. CASE text[i] \in Space
      BY <2>2, <3>1, <3>2 DEF TokensFrom
    <3>3. CASE text[i] \notin Space /\ text[i] = "#"
      <4>1. CommentOver(text, i) \in 1 .. b
        BY <3>1, NextPlaces
      <4> QED BY <2>2, <3>3, <4>1 DEF TokensFrom
    <3>4. CASE text[i] \notin Space /\ text[i] # "#"
      <4> DEFINE t == SubSeq(text, i, TokenEnd(text, i))
                 e == TokenEnd(text, i) + 1
      <4>1. e \in 1 .. b /\ t \in Seq(S)
        BY <3>1, <3>4, NextPlaces
      <4>2. TokensFrom(text, g, i) = <<t>> \o g[e]
        BY <2>2, <3>4 DEF TokensFrom
      <4> HIDE DEF t, e
      <4>3. <<t>> \in V /\ g[e] \in V
        BY <4>1
      <4>4. <<t>> \o g[e] \in V
        BY <4>3, ConcatProperties
      <4> QED BY <4>2, <4>4
    <3> QED BY <3>2, <3>3, <3>4
  <2> QED BY <2>1, <2>2
<1>4. step \in [(1 .. b) \X [1 .. b -> V] -> V]
  <2> HIDE DEF b, V
  <2> QED BY <1>3
<1>5. LaterOnly(b, V, step)
  <2> SUFFICES ASSUME NEW i \in 1 .. b, NEW g \in [1 .. b -> V], NEW h \in [1 .. b -> V],
                      \A j \in i + 1 .. b : g[j] = h[j]
               PROVE  step[<<i, g>>] = step[<<i, h>>]
    BY DEF LaterOnly
  <2>1. TokensFrom(text, g, i) = TokensFrom(text, h, i)
    <3>1. CASE i > Len(text)
      BY <3>1 DEF TokensFrom
    <3>2. CASE ~ (i > Len(text))
      <4>1. i \in 1 .. Len(text)
        BY <3>2
      <4>2. /\ g[i + 1] = h[i + 1]
            /\ g[CommentOver(text, i)] = h[CommentOver(text, i)]
            /\ text[i] \notin Space /\ text[i] # "#" =>
                 g[TokenEnd(text, i) + 1] = h[TokenEnd(text, i) + 1]
        BY <4>1, NextPlaces
      <4> QED BY <4>2 DEF TokensFrom
    <3> QED BY <3>1, <3>2
  <2> HIDE DEF b, V, step
  <2> QED BY <1>2, <2>1
<1>6. Solvable(1 .. b, V, step)
  <2> HIDE DEF b, V, step
  <2> QED BY <1>1, <1>4, <1>5, RecursionDown, ZenonT(30)
<1>7. PICK f \in [1 .. b -> V] : f = [i \in 1 .. b |-> step[<<i, f>>]]
  BY <1>6 DEF Solvable
<1>8. f = [i \in 1 .. b |-> TokensFrom(text, f, i)]
  <2> HIDE DEF b, V, step
  <2> QED BY <1>2, <1>7
<1> QED BY <1>8 DEF Tokenizes


LEMMA TokensOf ==
    ASSUME NEW S, NEW text \in Seq(S)
    PROVE  \E f \in [1 .. Len(text) + 1 -> Seq(Seq(S))] :
              /\ \A i \in 1 .. Len(text) + 1 : f[i] = TokensFrom(text, f, i)
              /\ Tokenize(text) = f[1]
<1> DEFINE f == CHOOSE g : Tokenizes(g, text)
           V == Seq(Seq(S))
           b == Len(text) + 1
<1>1. Tokenize(text) = f[1]
  BY DEF Tokenize, Tokenizes, TokensFrom, CommentOver
<1>2. Tokenizes(f, text)
  BY TokensExist
<1> HIDE DEF f
<1>3. \A i \in 1 .. b : f[i] = TokensFrom(text, f, i)
  BY <1>2 DEF Tokenizes
<1>4. \A i \in 1 .. b : f[i] \in V
  <2> DEFINE T == {i \in 1 .. b : f[i] \in V}
  <2>1. ASSUME NEW i \in 1 .. b, \A j \in i + 1 .. b : j \in T PROVE i \in T
    <3>1. CASE i > Len(text)
      <4>1. f[i] = <<>>
        BY <1>3, <3>1 DEF TokensFrom
      <4>2. <<>> \in V
        OBVIOUS
      <4> QED BY <4>1, <4>2
    <3>2. CASE ~ (i > Len(text))
      <4>1. i \in 1 .. Len(text) /\ (\A j \in i + 1 .. b : j \in 1 .. b /\ f[j] \in V)
        BY <2>1, <3>2
      <4>2. CASE text[i] \in Space
        <5>1. i + 1 \in i + 1 .. b
          BY <4>1
        <5> QED BY <1>3, <3>2, <4>1, <4>2, <5>1 DEF TokensFrom
      <4>3. CASE text[i] \notin Space /\ text[i] = "#"
        <5>1. CommentOver(text, i) \in i + 1 .. b
          BY <4>1, NextPlaces
        <5> QED BY <1>3, <3>2, <4>1, <4>3, <5>1 DEF TokensFrom
      <4>4. CASE text[i] \notin Space /\ text[i] # "#"
        <5> DEFINE t == SubSeq(text, i, TokenEnd(text, i))
                   e == TokenEnd(text, i) + 1
        <5>1. e \in i + 1 .. b /\ t \in Seq(S)
          BY <4>1, <4>4, NextPlaces
        <5>2. f[i] = <<t>> \o f[e]
          BY <1>3, <3>2, <4>4 DEF TokensFrom
        <5> HIDE DEF t, e
        <5>3. <<t>> \in V /\ f[e] \in V
          BY <4>1, <5>1
        <5>4. <<t>> \o f[e] \in V
          BY <5>3, ConcatProperties
        <5> QED BY <5>2, <5>4
      <4> QED BY <4>2, <4>3, <4>4
    <3> QED BY <3>1, <3>2
  <2>2. b \in Nat
    OBVIOUS
  <2> HIDE DEF T, b
  <2>3. \A i \in 1 .. b : i \in T
    BY <2>1, <2>2, Downward
  <2> QED BY <2>3 DEF T
<1>5. f \in [1 .. b -> V]
  <2>1. f = [i \in 1 .. b |-> TokensFrom(text, f, i)]
    BY <1>2 DEF Tokenizes
  <2> HIDE DEF b, V
  <2> QED BY <1>3, <1>4, <2>1
<1> QED BY <1>1, <1>3, <1>5


(* The form found from each token on.                                          *)
FormFrom(tokens, f, i) ==
    IF i > Len(tokens) THEN "none"
    ELSE IF tokens[i] = <<"PREFIX">> THEN f[i + 3]
    ELSE IF tokens[i] = <<"BASE">> THEN f[i + 2]
    ELSE IF tokens[i] \in {<<form>> : form \in ReadForms} THEN tokens[i][1] ELSE "none"
Finds(f, tokens) == f = [i \in 1 .. Len(tokens) + 3 |-> FormFrom(tokens, f, i)]
Forms == ReadForms \cup {"none"}

LEMMA FormFromLater ==
    ASSUME NEW tokens, Len(tokens) \in Nat, NEW i \in 1 .. Len(tokens) + 3, NEW g, NEW h,
           \A j \in i + 1 .. Len(tokens) + 3 : g[j] = h[j]
    PROVE  FormFrom(tokens, g, i) = FormFrom(tokens, h, i)
<1>1. CASE i > Len(tokens)
  BY <1>1 DEF FormFrom
<1>2. CASE ~ (i > Len(tokens))
  <2>1. g[i + 3] = h[i + 3] /\ g[i + 2] = h[i + 2]
    BY <1>2
  <2> QED BY <2>1 DEF FormFrom
<1> QED BY <1>1, <1>2

LEMMA FormFromForms ==
    ASSUME NEW tokens, Len(tokens) \in Nat, NEW i \in 1 .. Len(tokens) + 3, NEW g,
           \A j \in i + 1 .. Len(tokens) + 3 : g[j] \in Forms
    PROVE  FormFrom(tokens, g, i) \in Forms
<1>1. CASE i > Len(tokens)
  BY <1>1 DEF FormFrom, Forms
<1>2. CASE ~ (i > Len(tokens))
  <2>1. g[i + 3] \in Forms /\ g[i + 2] \in Forms
    BY <1>2
  <2>2. CASE tokens[i] \in {<<form>> : form \in ReadForms}
    <3>1. tokens[i][1] \in ReadForms
      BY <2>2
    <3> QED BY <2>1, <3>1 DEF FormFrom, Forms
  <2>3. CASE ~ (tokens[i] \in {<<form>> : form \in ReadForms})
    BY <2>1, <2>3 DEF FormFrom, Forms
  <2> QED BY <2>2, <2>3
<1> QED BY <1>1, <1>2

LEMMA FormsExist ==
    ASSUME NEW tokens, Len(tokens) \in Nat
    PROVE  \E f : Finds(f, tokens)
<1> DEFINE b == Len(tokens) + 3
           step == [p \in (1 .. b) \X [1 .. b -> Forms] |-> FormFrom(tokens, p[2], p[1])]
<1>1. b \in Nat /\ Forms # {}
  BY DEF Forms
<1>2. \A i \in 1 .. b, g \in [1 .. b -> Forms] : step[<<i, g>>] = FormFrom(tokens, g, i)
  OBVIOUS
<1>3. ASSUME NEW i \in 1 .. b, NEW g \in [1 .. b -> Forms]
      PROVE  FormFrom(tokens, g, i) \in Forms
  <2>1. \A j \in i + 1 .. b : g[j] \in Forms
    OBVIOUS
  <2> QED BY <2>1, FormFromForms
<1>4. step \in [(1 .. b) \X [1 .. b -> Forms] -> Forms]
  <2> HIDE DEF b
  <2> QED BY <1>3
<1>5. LaterOnly(b, Forms, step)
  <2> SUFFICES ASSUME NEW i \in 1 .. b,
                      NEW g \in [1 .. b -> Forms], NEW h \in [1 .. b -> Forms],
                      \A j \in i + 1 .. b : g[j] = h[j]
               PROVE  step[<<i, g>>] = step[<<i, h>>]
    BY DEF LaterOnly
  <2>1. FormFrom(tokens, g, i) = FormFrom(tokens, h, i)
    BY FormFromLater
  <2> HIDE DEF b, step
  <2> QED BY <1>2, <2>1
<1>6. Solvable(1 .. b, Forms, step)
  <2> HIDE DEF b, step
  <2> QED BY <1>1, <1>4, <1>5, RecursionDown, ZenonT(30)
<1>7. PICK f \in [1 .. b -> Forms] : f = [i \in 1 .. b |-> step[<<i, f>>]]
  BY <1>6 DEF Solvable
<1>8. f = [i \in 1 .. b |-> FormFrom(tokens, f, i)]
  <2> HIDE DEF b, step
  <2> QED BY <1>2, <1>7
<1> QED BY <1>8 DEF Finds

LEMMA FormsOf ==
    ASSUME NEW text, Len(Tokenize(text)) \in Nat
    PROVE  \E f :
              /\ \A i \in 1 .. Len(Tokenize(text)) + 3 :
                    f[i] = FormFrom(Tokenize(text), f, i) /\ f[i] \in Forms
              /\ QueryForm(text) = f[1]
<1> DEFINE tokens == Tokenize(text)
           f == CHOOSE g : Finds(g, tokens)
           b == Len(tokens) + 3
<1>1. QueryForm(text) = f[1]
  BY DEF QueryForm, Finds, FormFrom
<1> HIDE DEF tokens
<1>0. Len(tokens) \in Nat
  BY DEF tokens
<1>2. Finds(f, tokens)
  BY <1>0, FormsExist
<1> HIDE DEF f
<1>3. \A i \in 1 .. b : f[i] = FormFrom(tokens, f, i)
  BY <1>2 DEF Finds
<1>4. \A i \in 1 .. b : f[i] \in Forms
  <2> DEFINE T == {i \in 1 .. b : f[i] \in Forms}
  <2>1. ASSUME NEW i \in 1 .. b, \A j \in i + 1 .. b : j \in T PROVE i \in T
    <3>1. \A j \in i + 1 .. b : f[j] \in Forms
      BY <2>1
    <3>2. FormFrom(tokens, f, i) \in Forms
      BY <1>0, <3>1, FormFromForms
    <3> QED BY <1>3, <3>2
  <2>2. b \in Nat
    BY <1>0
  <2> HIDE DEF T, b
  <2>3. \A i \in 1 .. b : i \in T
    BY <2>1, <2>2, Downward
  <2> QED BY <2>3 DEF T
<1> QED BY <1>1, <1>3, <1>4 DEF tokens


(* What the grammar reads from each place on.                                  *)
LineOver(text, i) == Min({Reach(text, i, LineEnds), Len(text)}) + 1
AloneAt(text, i) == i = Len(text) \/ text[i + 1] \in Delimiters
Expected == {"query", "name", "iri"}
Read(text, f, i, expected) ==
    IF i > Len(text) THEN IF expected = "query" THEN "none" ELSE "malformed"
    ELSE IF text[i] \in WhiteSpace THEN f[i + 1][expected]
    ELSE IF text[i] \in Space THEN "malformed"
    ELSE IF text[i] = "#" THEN f[LineOver(text, i)][expected]
    ELSE IF expected = "iri"
         THEN IF text[i] = "<" /\ Reach(text, i, {">"}) <= Len(text)
              THEN f[Reach(text, i, {">"}) + 1]["query"] ELSE "malformed"
    ELSE IF expected = "name"
         THEN IF text[i] \notin Delimiters /\ text[Reach(text, i, Delimiters) - 1] = ":"
              THEN f[Reach(text, i, Delimiters)]["iri"] ELSE "malformed"
    ELSE IF text[i] = "PREFIX" /\ AloneAt(text, i) THEN f[i + 1]["name"]
    ELSE IF text[i] = "BASE" /\ AloneAt(text, i) THEN f[i + 1]["iri"]
    ELSE IF text[i] \in ReadForms /\ AloneAt(text, i) THEN text[i] ELSE "none"
ReadFrom(text, f, i) == [expected \in Expected |-> Read(text, f, i, expected)]
Reads(f, text) == f = [i \in 1 .. Len(text) + 1 |-> ReadFrom(text, f, i)]
Readings == [Expected -> Forms \cup {"malformed"}]

(* The places a reading can go on from.                                        *)
LEMMA ReadPlaces ==
    ASSUME NEW S, NEW text \in Seq(S), NEW i \in 1 .. Len(text)
    PROVE  /\ i + 1 \in i + 1 .. Len(text) + 1
           /\ LineOver(text, i) \in i + 1 .. Len(text) + 1
           /\ Reach(text, i, {">"}) <= Len(text) =>
                Reach(text, i, {">"}) + 1 \in i + 1 .. Len(text) + 1
           /\ text[i] \notin Delimiters =>
                Reach(text, i, Delimiters) \in i + 1 .. Len(text) + 1
<1>1. i \in 1 .. Len(text) + 1 /\ i + 1 \in i + 1 .. Len(text) + 1
  OBVIOUS
<1>2. Reach(text, i, {">"}) \in i .. Len(text) + 1
  BY <1>1, ReachBounds
<1>3. Reach(text, i, Delimiters) \in i .. Len(text) + 1
      /\ (Reach(text, i, Delimiters) <= Len(text) =>
            text[Reach(text, i, Delimiters)] \in Delimiters)
  BY <1>1, ReachBounds
<1>4. LineOver(text, i) \in i + 1 .. Len(text) + 1
  BY CommentEnd DEF LineOver
<1> QED BY <1>1, <1>2, <1>3, <1>4

LEMMA ReadLater ==
    ASSUME NEW S, NEW text \in Seq(S), NEW i \in 1 .. Len(text) + 1, NEW g, NEW h,
           \A j \in i + 1 .. Len(text) + 1 : g[j] = h[j], NEW expected
    PROVE  Read(text, g, i, expected) = Read(text, h, i, expected)
<1>1. CASE i > Len(text)
  BY <1>1 DEF Read
<1>2. CASE ~ (i > Len(text))
  <2>1. i \in 1 .. Len(text)
    BY <1>2
  <2>2. /\ g[i + 1] = h[i + 1]
        /\ g[LineOver(text, i)] = h[LineOver(text, i)]
        /\ Reach(text, i, {">"}) <= Len(text) =>
             g[Reach(text, i, {">"}) + 1] = h[Reach(text, i, {">"}) + 1]
        /\ text[i] \notin Delimiters =>
             g[Reach(text, i, Delimiters)] = h[Reach(text, i, Delimiters)]
    BY <2>1, ReadPlaces
  <2> QED BY <2>2 DEF Read
<1> QED BY <1>1, <1>2

LEMMA ReadFormed ==
    ASSUME NEW S, NEW text \in Seq(S), NEW i \in 1 .. Len(text) + 1, NEW g,
           \A j \in i + 1 .. Len(text) + 1 : g[j] \in Readings, NEW expected \in Expected
    PROVE  Read(text, g, i, expected) \in Forms \cup {"malformed"}
<1> DEFINE W == Forms \cup {"malformed"}
<1>1. CASE i > Len(text)
  BY <1>1 DEF Read, Forms
<1>2. CASE ~ (i > Len(text))
  <2>1. i \in 1 .. Len(text)
    BY <1>2
  <2>2. /\ "query" \in Expected /\ "name" \in Expected /\ "iri" \in Expected
        /\ "none" \in W /\ "malformed" \in W /\ ReadForms \subseteq W
    BY DEF Expected, Forms
  <2>3. /\ g[i + 1] \in Readings
        /\ g[LineOver(text, i)] \in Readings
        /\ Reach(text, i, {">"}) <= Len(text) => g[Reach(text, i, {">"}) + 1] \in Readings
        /\ text[i] \notin Delimiters => g[Reach(text, i, Delimiters)] \in Readings
    BY <2>1, ReadPlaces
  <2>4. \A r \in Readings, x \in Expected : r[x] \in W
    BY DEF Readings
  <2> HIDE DEF W
  <2>5. /\ g[i + 1][expected] \in W /\ g[i + 1]["name"] \in W /\ g[i + 1]["iri"] \in W
        /\ g[LineOver(text, i)][expected] \in W
        /\ Reach(text, i, {">"}) <= Len(text) => g[Reach(text, i, {">"}) + 1]["query"] \in W
        /\ text[i] \notin Delimiters => g[Reach(text, i, Delimiters)]["iri"] \in W
    BY <2>2, <2>3, <2>4
  <2>6. Read(text, g, i, expected) \in W
    BY <1>2, <2>2, <2>5 DEF Read
  <2> QED BY <2>6 DEF W
<1> QED BY <1>1, <1>2

LEMMA ReadsExist ==
    ASSUME NEW S, NEW text \in Seq(S)
    PROVE  \E f : Reads(f, text)
<1> DEFINE b == Len(text) + 1
           step == [p \in (1 .. b) \X [1 .. b -> Readings] |-> ReadFrom(text, p[2], p[1])]
<1>1. b \in Nat /\ Readings # {}
  <2>1. [x \in Expected |-> "none"] \in Readings
    BY DEF Readings, Forms
  <2> QED BY <2>1
<1>2. \A i \in 1 .. b, g \in [1 .. b -> Readings] : step[<<i, g>>] = ReadFrom(text, g, i)
  OBVIOUS
<1>3. ASSUME NEW i \in 1 .. b, NEW g \in [1 .. b -> Readings]
      PROVE  ReadFrom(text, g, i) \in Readings
  <2>1. \A j \in i + 1 .. b : g[j] \in Readings
    OBVIOUS
  <2>2. \A x \in Expected : Read(text, g, i, x) \in Forms \cup {"malformed"}
    BY <2>1, ReadFormed
  <2> QED BY <2>2 DEF ReadFrom, Readings
<1>4. step \in [(1 .. b) \X [1 .. b -> Readings] -> Readings]
  <2> HIDE DEF b
  <2> QED BY <1>3
<1>5. LaterOnly(b, Readings, step)
  <2> SUFFICES ASSUME NEW i \in 1 .. b,
                      NEW g \in [1 .. b -> Readings], NEW h \in [1 .. b -> Readings],
                      \A j \in i + 1 .. b : g[j] = h[j]
               PROVE  step[<<i, g>>] = step[<<i, h>>]
    BY DEF LaterOnly
  <2>1. \A x \in Expected : Read(text, g, i, x) = Read(text, h, i, x)
    BY ReadLater
  <2>2. ReadFrom(text, g, i) = ReadFrom(text, h, i)
    BY <2>1 DEF ReadFrom
  <2> HIDE DEF b, step
  <2> QED BY <1>2, <2>2
<1>6. Solvable(1 .. b, Readings, step)
  <2> HIDE DEF b, step
  <2> QED BY <1>1, <1>4, <1>5, RecursionDown, ZenonT(30)
<1>7. PICK f \in [1 .. b -> Readings] : f = [i \in 1 .. b |-> step[<<i, f>>]]
  BY <1>6 DEF Solvable
<1>8. f = [i \in 1 .. b |-> ReadFrom(text, f, i)]
  <2> HIDE DEF b, step
  <2> QED BY <1>2, <1>7
<1> QED BY <1>8 DEF Reads

LEMMA ReadingOf ==
    ASSUME NEW S, NEW text \in Seq(S)
    PROVE  \E f :
              /\ \A i \in 1 .. Len(text) + 1, x \in Expected : f[i][x] = Read(text, f, i, x)
              /\ FormOf(text) = f[1]["query"]
<1> DEFINE f == CHOOSE g : Reads(g, text)
<1>1. FormOf(text) = f[1]["query"]
  BY DEF FormOf, Reads, ReadFrom, Read, AloneAt, LineOver, Expected
<1>2. Reads(f, text)
  BY ReadsExist
<1> HIDE DEF f
<1>3. \A i \in 1 .. Len(text) + 1 : f[i] = ReadFrom(text, f, i)
  BY <1>2 DEF Reads
<1>4. \A i \in 1 .. Len(text) + 1, x \in Expected : f[i][x] = Read(text, f, i, x)
  BY <1>3 DEF ReadFrom
<1> QED BY <1>1, <1>4


(* A token stands at i alone exactly where the character does.                 *)
LEMMA TokenAlone ==
    ASSUME NEW S, NEW text \in Seq(S), NEW i \in 1 .. Len(text), text[i] \notin Delimiters
    PROVE  TokenEnd(text, i) = i <=> AloneAt(text, i)
<1> DEFINE r == Reach(text, i, Delimiters)
<1>1. TokenEnd(text, i) = r - 1
  BY Alphabet, TokenEndBounds
<1>2. i \in 1 .. Len(text) + 1
  OBVIOUS
<1>3. /\ r \in i .. Len(text) + 1
      /\ \A j \in i .. Len(text) : text[j] \in Delimiters => r <= j
      /\ r <= Len(text) => text[r] \in Delimiters
  BY <1>2, ReachBounds
<1> HIDE DEF r
<1>4. r \in i + 1 .. Len(text) + 1
  BY <1>3
<1>5. ASSUME AloneAt(text, i) PROVE r = i + 1
  <2>1. CASE i = Len(text)
    BY <1>4, <2>1
  <2>2. CASE i # Len(text) /\ text[i + 1] \in Delimiters
    <3>1. i + 1 \in i .. Len(text)
      BY <2>2
    <3>2. r <= i + 1
      BY <1>3, <2>2, <3>1
    <3> QED BY <1>4, <3>2
  <2> QED BY <1>5, <2>1, <2>2 DEF AloneAt
<1>6. ASSUME r = i + 1 PROVE AloneAt(text, i)
  BY <1>3, <1>6 DEF AloneAt
<1> QED BY <1>1, <1>4, <1>5, <1>6

(* The tokens from k on are those of the text from i on.                       *)
Suffix(tokens, k, rest) ==
    /\ Len(tokens) = k - 1 + Len(rest)
    /\ \A j \in 1 .. Len(rest) : tokens[k - 1 + j] = rest[j]

LEMMA SuffixStep ==
    ASSUME NEW V, NEW tokens \in Seq(V), NEW k \in Nat, NEW t \in V, NEW rest \in Seq(V),
           Suffix(tokens, k, <<t>> \o rest)
    PROVE  k <= Len(tokens) /\ tokens[k] = t /\ Suffix(tokens, k + 1, rest)
<1> DEFINE all == <<t>> \o rest
<1>1. <<t>> \in Seq(V) /\ Len(<<t>>) = 1 /\ <<t>>[1] = t /\ Len(rest) \in Nat
  OBVIOUS
<1>2. Len(all) = 1 + Len(rest)
      /\ \A j \in 1 .. 1 + Len(rest) : all[j] = IF j <= 1 THEN t ELSE rest[j - 1]
  <2> DEFINE one == <<t>>
  <2>1. one \in Seq(V) /\ Len(one) = 1 /\ one[1] = t
    BY <1>1
  <2>2. all = one \o rest
    OBVIOUS
  <2> HIDE DEF one, all
  <2>3. Len(all) = Len(one) + Len(rest)
        /\ \A j \in 1 .. Len(one) + Len(rest) :
             all[j] = IF j <= Len(one) THEN one[j] ELSE rest[j - Len(one)]
    BY <2>1, <2>2, ConcatProperties
  <2>4. \A j \in 1 .. 1 + Len(rest) : j <= 1 => j = 1
    OBVIOUS
  <2> QED BY <2>1, <2>3, <2>4
<1>3. Len(tokens) = k - 1 + Len(all) /\ \A j \in 1 .. Len(all) : tokens[k - 1 + j] = all[j]
  BY DEF Suffix
<1> HIDE DEF all
<1>4. k <= Len(tokens) /\ tokens[k] = t
  <2>1. 1 \in 1 .. Len(all) /\ k - 1 + 1 = k
    BY <1>1, <1>2
  <2>2. tokens[k - 1 + 1] = all[1] /\ all[1] = t
    BY <1>1, <1>2, <1>3, <2>1
  <2> QED BY <1>1, <1>2, <1>3, <2>1, <2>2
<1>5. Len(tokens) = k + 1 - 1 + Len(rest)
  BY <1>1, <1>2, <1>3
<1>6. ASSUME NEW j \in 1 .. Len(rest) PROVE tokens[k + 1 - 1 + j] = rest[j]
  <2>1. j + 1 \in 1 .. Len(all) /\ ~ (j + 1 <= 1) /\ j + 1 - 1 = j /\ k - 1 + (j + 1) = k + 1 - 1 + j
    BY <1>1, <1>2
  <2>2. tokens[k - 1 + (j + 1)] = all[j + 1] /\ all[j + 1] = rest[j + 1 - 1]
    BY <1>2, <1>3, <2>1
  <2> QED BY <2>1, <2>2
<1> QED BY <1>4, <1>5, <1>6 DEF Suffix

(* A comment ends for the grammar where it does for the lexer, or at the       *)
(* carriage return before the newline that ends it for the lexer.              *)
LEMMA MinOfTwo ==
    ASSUME NEW a \in Nat, NEW c \in Nat
    PROVE  Min({a, c}) = IF a <= c THEN a ELSE c
<1> DEFINE M == {a, c}
<1>1. M \in SUBSET Nat /\ M # {}
  OBVIOUS
<1>2. Min(M) \in M /\ \A m \in M : Min(M) <= m
  <2> HIDE DEF M
  <2> QED BY <1>1, MinLeast
<1>3. (Min(M) = a \/ Min(M) = c) /\ Min(M) <= a /\ Min(M) <= c
  BY <1>2
<1> HIDE DEF M
<1>4. Min(M) = IF a <= c THEN a ELSE c
  BY <1>3
<1> QED BY <1>4 DEF M

LEMMA CommentsAgree ==
    ASSUME NEW S, NEW text \in Seq(S), NEW i \in 1 .. Len(text), text[i] = "#",
           ~ CutShort(text)
    PROVE  \/ LineOver(text, i) = CommentOver(text, i)
           \/ /\ LineOver(text, i) \in i + 1 .. Len(text) /\ text[LineOver(text, i)] = "\n"
              /\ CommentOver(text, i) = LineOver(text, i) + 1
<1> DEFINE LF == {"\n"}
           p == Reach(text, i, LF)
           q == Reach(text, i, LineEnds)
<1>1. i \in 1 .. Len(text) + 1 /\ Len(text) \in Nat
  OBVIOUS
<1>2. /\ p \in i .. Len(text) + 1 /\ (\A j \in i .. Len(text) : text[j] \in LF => p <= j)
      /\ (p <= Len(text) => text[p] \in LF)
  BY <1>1, ReachBounds
<1>3. /\ q \in i .. Len(text) + 1 /\ (\A j \in i .. Len(text) : text[j] \in LineEnds => q <= j)
      /\ (q <= Len(text) => text[q] \in LineEnds)
  BY <1>1, ReachBounds
<1>4. /\ CommentOver(text, i) = (IF p <= Len(text) THEN p ELSE Len(text)) + 1
      /\ LineOver(text, i) = (IF q <= Len(text) THEN q ELSE Len(text)) + 1
  <2>1. p \in Nat /\ q \in Nat
    BY <1>2, <1>3
  <2> QED BY <1>1, <2>1, MinOfTwo DEF CommentOver, LineOver
<1> HIDE DEF p, q
<1>5. LF \subseteq LineEnds /\ (\A w \in LineEnds : w \in LF \/ w = "\r") /\ "#" \notin LineEnds
  BY Alphabet, Zenon
<1>6. q <= p
  BY <1>2, <1>3, <1>5
<1>7. CASE q = p
  BY <1>4, <1>7
<1>8. CASE q < p
  <2>1. q <= Len(text) /\ text[q] \in LineEnds /\ text[q] \notin LF
    BY <1>2, <1>3, <1>8
  <2>2. text[q] = "\r" /\ q # i
    BY <1>5, <2>1
  <2>3. CASE q = Len(text)
    BY <1>2, <1>4, <1>8, <2>3
  <2>4. CASE q < Len(text)
    <3>1. i \in DOMAIN text /\ q \in 1 .. Len(text) - 1 /\ i < q
      BY <1>3, <2>2, <2>4
    <3>2. \A j \in i .. q : text[j] \notin LF
      BY <1>1, <1>2, <1>3, <1>8, <2>4
    <3>3. \A j \in i .. q : text[j] # "\n"
      BY <3>2
    <3>4. CRLF(text, q)
      BY <2>2, <3>1, <3>3, Zenon DEF CutShort
    <3>5. text[q + 1] \in LF
      BY <3>4 DEF CRLF
    <3>6. p = q + 1
      BY <1>2, <1>3, <1>8, <2>4, <3>5
    <3> QED BY <1>3, <1>4, <2>4, <3>5, <3>6
  <2> QED BY <1>3, <2>1, <2>3, <2>4
<1> QED BY <1>2, <1>3, <1>6, <1>7, <1>8

LEMMA QueryForms ==
    ASSUME NEW S, NEW text \in Seq(S)
    PROVE  QueryForm(text) \in Forms
<1>1. PICK F \in [1 .. Len(text) + 1 -> Seq(Seq(S))] : Tokenize(text) = F[1]
  BY TokensOf
<1>2. Len(text) \in Nat
  OBVIOUS
<1>3. Tokenize(text) \in Seq(Seq(S))
  BY <1>1, <1>2
<1>4. Len(Tokenize(text)) \in Nat
  BY <1>3
<1>5. 1 \in 1 .. Len(Tokenize(text)) + 3
  BY <1>4
<1> QED BY <1>4, <1>5, FormsOf

(* On every text the grammar does not call malformed, the lexer and its short  *)
(* walk over the tokens find the form the grammar reads.                       *)
LEMMA LexerReads ==
    ASSUME NEW S, NEW text \in Seq(S), ~ CutShort(text)
    PROVE  FormOf(text) \in {QueryForm(text), "malformed"}
<1> DEFINE n == Len(text)
           V == Seq(S)
           tokens == Tokenize(text)
<1>1. PICK F \in [1 .. n + 1 -> Seq(V)] :
         (\A i \in 1 .. n + 1 : F[i] = TokensFrom(text, F, i)) /\ tokens = F[1]
  BY TokensOf
<1>2. tokens \in Seq(V) /\ Len(tokens) \in Nat /\ n \in Nat
  BY <1>1
<1>3. PICK At :
         /\ \A k \in 1 .. Len(tokens) + 3 : At[k] = FormFrom(tokens, At, k) /\ At[k] \in Forms
         /\ QueryForm(text) = At[1]
  BY <1>2, FormsOf
<1>4. PICK R :
         /\ \A i \in 1 .. n + 1, x \in Expected : R[i][x] = Read(text, R, i, x)
         /\ FormOf(text) = R[1]["query"]
  BY ReadingOf
<1> HIDE DEF tokens
<1> DEFINE Agrees(i, k) ==
             /\ R[i]["query"] \in {At[k], "malformed"}
             /\ R[i]["iri"] \in {At[k + 1], "malformed"}
             /\ R[i]["name"] \in {At[k + 2], "malformed"}
           T == {i \in 1 .. n + 1 :
                   \A k \in 1 .. Len(tokens) + 1 : Suffix(tokens, k, F[i]) => Agrees(i, k)}
<1>5. ASSUME NEW i \in 1 .. n + 1, \A j \in i + 1 .. n + 1 : j \in T PROVE i \in T
  <2> SUFFICES ASSUME NEW k \in 1 .. Len(tokens) + 1, Suffix(tokens, k, F[i])
               PROVE  Agrees(i, k)
    OBVIOUS
  <2>1. /\ F[i] = TokensFrom(text, F, i)
        /\ R[i]["query"] = Read(text, R, i, "query")
        /\ R[i]["iri"] = Read(text, R, i, "iri")
        /\ R[i]["name"] = Read(text, R, i, "name")
    BY <1>1, <1>4 DEF Expected
  <2>2. At[k] = FormFrom(tokens, At, k)
    BY <1>2, <1>3
  <2>3. \A j \in i + 1 .. n + 1 : Suffix(tokens, k, F[j]) => Agrees(j, k)
    BY <1>5
  <2>4. CASE i > n
    <3>1. F[i] = <<>>
      BY <2>1, <2>4 DEF TokensFrom
    <3>2. k = Len(tokens) + 1
      <4>1. Len(tokens) = k - 1 + Len(<<>>)
        BY <3>1 DEF Suffix
      <4> QED BY <1>2, <4>1
    <3>3. At[k] = "none"
      BY <1>2, <2>2, <3>2 DEF FormFrom
    <3>4. R[i]["query"] = "none" /\ R[i]["iri"] = "malformed" /\ R[i]["name"] = "malformed"
      BY <2>1, <2>4 DEF Read
    <3> QED BY <3>3, <3>4
  <2>5. CASE i \in 1 .. n
    <3>0. ~ (i > Len(text)) /\ i \in 1 .. Len(text)
      BY <2>5
    <3>1. CASE text[i] \in Space
      <4>1. i + 1 \in i + 1 .. n + 1
        BY <2>5
      <4>2. F[i] = F[i + 1]
        BY <2>1, <3>0, <3>1 DEF TokensFrom
      <4>3. CASE text[i] \in WhiteSpace
        <5>1. /\ R[i]["query"] = R[i + 1]["query"]
              /\ R[i]["iri"] = R[i + 1]["iri"]
              /\ R[i]["name"] = R[i + 1]["name"]
          BY <2>1, <3>0, <4>3 DEF Read
        <5> QED BY <2>3, <4>1, <4>2, <5>1
      <4>4. CASE text[i] \notin WhiteSpace
        <5>1. R[i]["query"] = "malformed" /\ R[i]["iri"] = "malformed" /\ R[i]["name"] = "malformed"
          BY <2>1, <3>0, <3>1, <4>4 DEF Read
        <5> QED BY <5>1
      <4> QED BY <4>3, <4>4
    <3>2. CASE text[i] \notin Space /\ text[i] = "#"
      <4> DEFINE c == CommentOver(text, i)
                 d == LineOver(text, i)
      <4>0. text[i] \notin WhiteSpace
        BY <3>2, Alphabet
      <4>1. c \in i + 1 .. n + 1
        BY <3>0, NextPlaces
      <4>2. F[i] = F[c]
        BY <2>1, <3>0, <3>2 DEF TokensFrom
      <4>3. /\ R[i]["query"] = R[d]["query"]
            /\ R[i]["iri"] = R[d]["iri"]
            /\ R[i]["name"] = R[d]["name"]
        BY <2>1, <3>0, <3>2, <4>0 DEF Read
      <4>4. \/ d = c
            \/ d \in i + 1 .. Len(text) /\ text[d] = "\n" /\ c = d + 1
        <5>1. i \in 1 .. Len(text) /\ text[i] = "#"
          BY <3>0, <3>2
        <5> QED BY <5>1, CommentsAgree, ZenonT(30)
      <4> HIDE DEF c, d
      <4>5. /\ R[d]["query"] = R[c]["query"]
            /\ R[d]["iri"] = R[c]["iri"]
            /\ R[d]["name"] = R[c]["name"]
        <5>1. CASE d = c
          BY <5>1
        <5>2. CASE d # c
          <6>1. d \in i + 1 .. n /\ c = d + 1 /\ text[d] = "\n"
            BY <4>4, <5>2
          <6>2. ~ (d > Len(text)) /\ d \in 1 .. n + 1
            BY <3>0, <6>1
          <6>3. text[d] \in WhiteSpace
            BY <6>1, Alphabet, Zenon
          <6>4. /\ R[d]["query"] = Read(text, R, d, "query")
                /\ R[d]["iri"] = Read(text, R, d, "iri")
                /\ R[d]["name"] = Read(text, R, d, "name")
            BY <1>4, <6>2 DEF Expected
          <6>5. /\ R[d]["query"] = R[d + 1]["query"]
                /\ R[d]["iri"] = R[d + 1]["iri"]
                /\ R[d]["name"] = R[d + 1]["name"]
            BY <6>2, <6>3, <6>4 DEF Read
          <6> QED BY <6>1, <6>5
        <5> QED BY <5>1, <5>2
      <4> QED BY <2>3, <4>1, <4>2, <4>3, <4>5
    <3>3. CASE text[i] \notin Space /\ text[i] # "#"
      <4> DEFINE e == TokenEnd(text, i)
                 t == SubSeq(text, i, e)
      <4>0. text[i] \notin WhiteSpace
        BY <3>3, Alphabet
      <4>1. /\ e + 1 \in i + 1 .. n + 1 /\ e \in i .. n
            /\ t \in V /\ Len(t) = e - i + 1 /\ t[1] = text[i]
        <5>1. e + 1 \in i + 1 .. n + 1
          BY <3>0, <3>3, NextPlaces
        <5>2. e \in i .. n
          BY <3>0, <3>3, TokenEndBounds
        <5>3. t \in V /\ Len(t) = e - i + 1 /\ t[1] = text[i]
          BY <3>0, <3>3, NextPlaces
        <5> HIDE DEF e, t
        <5> QED BY <5>1, <5>2, <5>3
      <4>2. F[i] = <<t>> \o F[e + 1]
        BY <2>1, <3>0, <3>3 DEF TokensFrom
      <4>3. /\ text[i] \notin Delimiters => e = Reach(text, i, Delimiters) - 1
            /\ text[i] = "<" => \A j \in i .. Len(text) : j = Reach(text, i, {">"}) => e = j
        BY <3>0, <3>3, TokenEndBounds
      <4>4. text[i] \notin Delimiters => (e = i <=> AloneAt(text, i))
        BY <3>0, TokenAlone
      <4> HIDE DEF e, t
      <4>5. k <= Len(tokens) /\ tokens[k] = t /\ Suffix(tokens, k + 1, F[e + 1])
        <5>1. F[e + 1] \in Seq(V) /\ k \in Nat /\ Suffix(tokens, k, <<t>> \o F[e + 1])
          BY <1>1, <1>2, <4>1, <4>2
        <5> HIDE DEF V
        <5> QED BY <1>2, <4>1, <5>1, SuffixStep
      <4>6. Agrees(e + 1, k + 1)
        <5>1. k + 1 \in 1 .. Len(tokens) + 1 /\ e + 1 \in T
          <6>1. e + 1 \in T
            <7> HIDE DEF T
            <7> QED BY <1>5, <4>1
          <6> HIDE DEF T
          <6> QED BY <1>2, <4>5, <6>1
        <5> QED BY <4>5, <5>1
      <4>7. R[i]["iri"] \in {At[k + 1], "malformed"}
        <5>1. R[i]["iri"] = IF text[i] = "<" /\ Reach(text, i, {">"}) <= Len(text)
                            THEN R[Reach(text, i, {">"}) + 1]["query"] ELSE "malformed"
          BY <2>1, <3>0, <3>3, <4>0 DEF Read
        <5>2. i \in 1 .. Len(text) + 1
          BY <3>0
        <5>3. Reach(text, i, {">"}) \in i .. Len(text) + 1
          BY <5>2, ReachBounds
        <5>4. ASSUME text[i] = "<", Reach(text, i, {">"}) <= Len(text)
              PROVE  Reach(text, i, {">"}) = e
          BY <4>3, <5>3, <5>4
        <5> QED BY <4>6, <5>1, <5>4
      <4>8. R[i]["name"] \in {At[k + 2], "malformed"}
        <5>1. R[i]["name"] =
                IF text[i] \notin Delimiters /\ text[Reach(text, i, Delimiters) - 1] = ":"
                THEN R[Reach(text, i, Delimiters)]["iri"] ELSE "malformed"
          BY <2>1, <3>0, <3>3, <4>0 DEF Read
        <5>2. i \in 1 .. Len(text) + 1
          BY <3>0
        <5>3. Reach(text, i, Delimiters) \in i .. Len(text) + 1
          BY <5>2, ReachBounds
        <5>4. ASSUME text[i] \notin Delimiters PROVE Reach(text, i, Delimiters) = e + 1
          <6>1. e = Reach(text, i, Delimiters) - 1
            BY <4>3, <5>4
          <6>2. Reach(text, i, Delimiters) \in Int
            BY <5>3
          <6> QED BY <6>1, <6>2
        <5>5. k + 1 + 1 = k + 2
          BY <1>2
        <5> QED BY <4>6, <5>1, <5>4, <5>5
      <4>9. R[i]["query"] \in {At[k], "malformed"}
        <5>1. R[i]["query"] =
                IF text[i] = "PREFIX" /\ AloneAt(text, i) THEN R[i + 1]["name"]
                ELSE IF text[i] = "BASE" /\ AloneAt(text, i) THEN R[i + 1]["iri"]
                ELSE IF text[i] \in ReadForms /\ AloneAt(text, i) THEN text[i] ELSE "none"
          BY <2>1, <3>0, <3>3, <4>0 DEF Read
        <5>2. At[k] = IF t = <<"PREFIX">> THEN At[k + 3]
                      ELSE IF t = <<"BASE">> THEN At[k + 2]
                      ELSE IF t \in {<<form>> : form \in ReadForms} THEN t[1] ELSE "none"
          BY <1>2, <2>2, <4>5 DEF FormFrom
        <5>3. \A w : w \notin Delimiters => (t = <<w>> <=> text[i] = w /\ AloneAt(text, i))
          <6> SUFFICES ASSUME NEW w, w \notin Delimiters
                       PROVE  t = <<w>> <=> text[i] = w /\ AloneAt(text, i)
            OBVIOUS
          <6>1. ASSUME t = <<w>> PROVE text[i] = w /\ AloneAt(text, i)
            <7>1. t[1] = w /\ Len(t) = 1
              BY <6>1
            <7>2. e = i
              <8>0. Len(t) = e - i + 1
                BY <4>1
              <8>1. i \in Int
                BY <3>0
              <8>2. e \in Int
                BY <4>1
              <8>3. e - i + 1 = 1
                BY <7>1, <8>0
              <8> QED BY <8>1, <8>2, <8>3
            <7> QED BY <4>1, <4>4, <7>1, <7>2
          <6>2. ASSUME text[i] = w, AloneAt(text, i) PROVE t = <<w>>
            <7>1. e = i
              BY <4>4, <6>2
            <7>2. t[1] = w /\ Len(t) = 1 /\ t \in Seq(S) /\ w \in S
              BY <3>0, <4>1, <6>2, <7>1
            <7> QED BY <7>2
          <6> QED BY <6>1, <6>2
        <5>4. /\ t = <<"PREFIX">> <=> text[i] = "PREFIX" /\ AloneAt(text, i)
              /\ t = <<"BASE">> <=> text[i] = "BASE" /\ AloneAt(text, i)
              /\ \A w \in ReadForms : t = <<w>> <=> text[i] = w /\ AloneAt(text, i)
          BY <5>3, Alphabet
        <5>5. t \in {<<form>> : form \in ReadForms} <=> text[i] \in ReadForms /\ AloneAt(text, i)
          BY <5>4
        <5>6. k + 1 + 1 = k + 2 /\ k + 1 + 2 = k + 3
          BY <1>2
        <5>7. CASE AloneAt(text, i) /\ text[i] \in {"PREFIX", "BASE"}
          <6>1. e = i
            BY <4>4, <5>7, Alphabet
          <6> QED BY <4>6, <5>1, <5>2, <5>4, <5>6, <5>7, <6>1
        <5>8. CASE ~ (AloneAt(text, i) /\ text[i] \in {"PREFIX", "BASE"})
          BY <4>1, <5>1, <5>2, <5>4, <5>5, <5>8
        <5> QED BY <5>7, <5>8
      <4> QED BY <4>7, <4>8, <4>9
    <3> QED BY <3>1, <3>2, <3>3
  <2> QED BY <1>2, <2>4, <2>5
<1>6. 1 \in T
  <2>1. n + 1 \in Nat /\ 1 \in 1 .. n + 1
    BY <1>2
  <2> HIDE DEF T
  <2>2. \A i \in 1 .. n + 1 : i \in T
    <3> DEFINE b == n + 1
    <3>1. b \in Nat /\ \A i \in 1 .. b : (\A j \in i + 1 .. b : j \in T) => i \in T
      BY <1>5, <2>1
    <3> HIDE DEF b
    <3>2. \A i \in 1 .. b : i \in T
      BY <3>1, Downward
    <3> QED BY <3>2 DEF b
  <2> QED BY <2>1, <2>2
<1>7. Agrees(1, 1)
  <2>1. Suffix(tokens, 1, F[1]) /\ 1 \in 1 .. Len(tokens) + 1
    BY <1>1, <1>2 DEF Suffix
  <2> QED BY <1>6, <2>1
<1> QED BY <1>3, <1>4, <1>7


(* The lexer is right on every text in which no comment is ended by a carriage *)
(* return on its own: unless the text's declarations break off, query_form     *)
(* finds the form that the SPARQL grammar gives the query, whatever comments,  *)
(* prefixes, IRIs, strings and spaces stand before its word.                   *)
THEOREM LexerRight ==
    \A text \in Texts :
        ~ CutShort(text) /\ FormOf(text) # "malformed" => QueryForm(text) = FormOf(text)
BY LexerReads DEF Texts

-------------------------------------------------------------------------------
(* What travels. A text is tidy when it has no carriage return, and one text   *)
(* is about another when it says the same: to the character, if the other has  *)
(* no carriage return on its own, and up to line ends if it has.               *)
Chars == STRING \cup LineEnds
Tidy == {text \in Texts : \A i \in 1..Len(text) : text[i] # "\r"}
About(t, q) ==
    /\ q \in Texts
    /\ Without(q, LineEnds) = Without(t, LineEnds)
    /\ ~ Bare(t) => q = Received(t)
AllArguments == [query : Seq(Texts), as : Seq(Types), graph : Seq(Graphs \cup {""})]

LEMMA SeqWider ==
    ASSUME NEW S, NEW A, S \subseteq A, NEW s \in Seq(S)
    PROVE  s \in Seq(A)
<1>1. DOMAIN s = 1 .. Len(s) /\ \A i \in 1 .. Len(s) : s[i] \in A
  OBVIOUS
<1> QED BY <1>1

LEMMA FirstIn ==
    ASSUME NEW S, NEW s \in Seq(S), s # <<>>
    PROVE  s[1] \in S
OBVIOUS

LEMMA Characters ==
    /\ Texts = Seq(Chars) /\ "\r" \in Chars /\ "\n" \in Chars /\ "\n" \in LineEnds /\ "\r" \in LineEnds
    /\ Chars \cap LineEnds = LineEnds /\ LineEnds \subseteq Chars /\ LineEnds \subseteq Space
<1>1. LineEnds = {"\r", "\n"} /\ LineEnds \subseteq Space
  BY Alphabet
<1> QED BY <1>1, Zenon DEF Texts, Chars

(* What the rewritings of a text make of each of its places.                   *)
LEMMA Rewriting ==
    ASSUME NEW text \in Texts, NEW L,
           L = [i \in DOMAIN text |-> L[i]],
           \A i \in 1 .. Len(text) :
              \/ L[i] = <<text[i]>>
              \/ text[i] \in LineEnds /\ L[i] \in {<<>>, <<"\n">>, <<"\r", "\n">>}
    PROVE  /\ L \in Seq(Seq(Chars)) /\ Len(L) = Len(text)
           /\ FlattenSeq(L) \in Texts
           /\ Without(FlattenSeq(L), LineEnds) = Without(text, LineEnds)
<1>1. text \in Seq(Chars) /\ DOMAIN text = 1 .. Len(text) /\ Len(text) \in Nat
      /\ \A i \in 1 .. Len(text) : text[i] \in Chars
  BY Characters
<1>2. /\ \A a \in Chars : <<a>> \in Seq(Chars)
      /\ \A a, c \in Chars : <<a, c>> \in Seq(Chars)
      /\ <<>> \in Seq(Chars)
  OBVIOUS
<1>3. \A i \in 1 .. Len(text) : L[i] \in Seq(Chars)
  BY <1>1, <1>2, Characters, ZenonT(30)
<1>4. L \in [1 .. Len(text) -> Seq(Chars)]
  BY <1>1, <1>3
<1>5. L \in Seq(Seq(Chars)) /\ Len(L) = Len(text)
  BY <1>1, <1>4
<1>6. Rewrites(Chars, text, L, LineEnds)
  <2> SUFFICES ASSUME NEW i \in 1 .. Len(text), L[i] # <<text[i]>>
               PROVE  /\ text[i] \in LineEnds
                      /\ \/ L[i] = <<>>
                         \/ \E a \in Chars \cap LineEnds : L[i] = <<a>>
                         \/ \E a, c \in Chars \cap LineEnds : L[i] = <<a, c>>
    BY <1>5, Zenon DEF Rewrites
  <2> QED BY Characters, ZenonT(30)
<1>7. /\ FlattenSeq(L) \in Seq(Chars)
      /\ Without(FlattenSeq(L), LineEnds) = Without(text, LineEnds)
  BY <1>1, <1>6, FlatSame
<1> QED BY <1>5, <1>7, Characters

(* A line end is kept as one by what is submitted, received and parsed.        *)
LEMMA ReceivedSame ==
    ASSUME NEW text \in Texts
    PROVE  Received(text) \in Texts /\ Without(Received(text), LineEnds) = Without(text, LineEnds)
<1> DEFINE L == [i \in DOMAIN text |-> IF CRLF(text, i) THEN <<>> ELSE <<text[i]>>]
<1>1. DOMAIN text = 1 .. Len(text)
  BY DEF Texts
<1>2. \A i \in 1 .. Len(text) : L[i] = IF CRLF(text, i) THEN <<>> ELSE <<text[i]>>
  BY <1>1
<1>3. L = [i \in DOMAIN text |-> L[i]]
  OBVIOUS
<1>4. Received(text) = FlattenSeq(L)
  BY DEF Received
<1> HIDE DEF L
<1>5. \A i \in 1 .. Len(text) :
         \/ L[i] = <<text[i]>>
         \/ text[i] \in LineEnds /\ L[i] \in {<<>>, <<"\n">>, <<"\r", "\n">>}
  BY <1>2, Characters, Zenon DEF CRLF
<1> QED BY <1>3, <1>4, <1>5, Rewriting

LEMMA LinedSame ==
    ASSUME NEW text \in Texts
    PROVE  Lined(text) \in Texts /\ Without(Lined(text), LineEnds) = Without(text, LineEnds)
<1> DEFINE L == [i \in DOMAIN text |-> IF CRLF(text, i) THEN <<>>
                                      ELSE IF text[i] = "\r" THEN <<"\n">> ELSE <<text[i]>>]
<1>1. DOMAIN text = 1 .. Len(text)
  BY DEF Texts
<1>2. \A i \in 1 .. Len(text) : L[i] = IF CRLF(text, i) THEN <<>>
                                      ELSE IF text[i] = "\r" THEN <<"\n">> ELSE <<text[i]>>
  BY <1>1
<1>3. L = [i \in DOMAIN text |-> L[i]]
  OBVIOUS
<1>4. Lined(text) = FlattenSeq(L)
  BY DEF Lined
<1> HIDE DEF L
<1>5. \A i \in 1 .. Len(text) :
         \/ L[i] = <<text[i]>>
         \/ text[i] \in LineEnds /\ L[i] \in {<<>>, <<"\n">>, <<"\r", "\n">>}
  BY <1>2, Characters, Zenon DEF CRLF
<1> QED BY <1>3, <1>4, <1>5, Rewriting

LEMMA SubmittedSame ==
    ASSUME NEW text \in Texts
    PROVE  Submitted(text) \in Texts /\ Without(Submitted(text), LineEnds) = Without(text, LineEnds)
<1> DEFINE L == [i \in DOMAIN text |-> IF text[i] = "\n" THEN <<"\r", "\n">> ELSE <<text[i]>>]
<1>1. DOMAIN text = 1 .. Len(text)
  BY DEF Texts
<1>2. \A i \in 1 .. Len(text) : L[i] = IF text[i] = "\n" THEN <<"\r", "\n">> ELSE <<text[i]>>
  BY <1>1
<1>3. L = [i \in DOMAIN text |-> L[i]]
  OBVIOUS
<1>4. Submitted(text) = FlattenSeq(L)
  BY DEF Submitted
<1> HIDE DEF L
<1>5. \A i \in 1 .. Len(text) :
         \/ L[i] = <<text[i]>>
         \/ text[i] \in LineEnds /\ L[i] \in {<<>>, <<"\n">>, <<"\r", "\n">>}
  BY <1>2, Characters, Zenon
<1> QED BY <1>3, <1>4, <1>5, Rewriting

(* Of a text with no carriage return on its own, every one is dropped.         *)
LEMMA ReceivedTidy ==
    ASSUME NEW text \in Texts, ~ Bare(text)
    PROVE  Received(text) = Without(text, {"\r"}) /\ Received(text) \in Tidy
<1> DEFINE L == [i \in DOMAIN text |-> IF CRLF(text, i) THEN <<>> ELSE <<text[i]>>]
           CR == {"\r"}
<1>1. DOMAIN text = 1 .. Len(text) /\ text \in Seq(Chars) /\ Len(text) \in Nat
      /\ \A i \in 1 .. Len(text) : text[i] \in Chars
  BY Characters
<1>2. \A i \in 1 .. Len(text) : CRLF(text, i) <=> text[i] \in CR
  BY <1>1 DEF Bare, CRLF
<1>3. L \in Seq(Seq(Chars)) /\ Len(L) = Len(text)
      /\ \A i \in 1 .. Len(text) : L[i] = IF text[i] \in CR THEN <<>> ELSE <<text[i]>>
  <2> DEFINE e(i) == IF CRLF(text, i) THEN <<>> ELSE <<text[i]>>
  <2>1. L = [i \in 1 .. Len(text) |-> e(i)]
    BY <1>1
  <2>2. \A i \in 1 .. Len(text) : e(i) \in Seq(Chars)
    BY <1>1
  <2>3. \A i \in 1 .. Len(text) : e(i) = IF text[i] \in CR THEN <<>> ELSE <<text[i]>>
    BY <1>2
  <2> HIDE DEF e, L, CR
  <2> QED BY <1>1, <2>1, <2>2, <2>3
<1>4. Received(text) = FlattenSeq(L)
  BY DEF Received
<1> HIDE DEF L, CR
<1>5. Received(text) = Without(text, CR)
  <2>1. FlattenSeq(L) = Without(text, CR)
    <3> HIDE DEF Chars
    <3> QED BY <1>1, <1>3, FlatKeeps
  <2> QED BY <1>4, <2>1
<1>6. Without(text, CR) \in Seq(Chars \ CR)
  BY <1>1, WithoutElements
<1> DEFINE w == Without(text, CR)
<1>7. w \in Seq(Chars) /\ \A i \in 1 .. Len(w) : w[i] \notin CR
  <2> HIDE DEF w
  <2> QED BY <1>6 DEF w
<1> HIDE DEF w
<1>8. w \in Tidy
  BY <1>7, Characters DEF Tidy, CR
<1> QED BY <1>5, <1>8 DEF w, CR

LEMMA TidyReceived ==
    ASSUME NEW text \in Tidy
    PROVE  ~ Bare(text) /\ Received(text) = text /\ Lined(text) = text
<1>1. text \in Texts /\ \A i \in 1 .. Len(text) : text[i] # "\r"
  BY DEF Tidy
<1>2. text \in Seq(Chars) /\ DOMAIN text = 1 .. Len(text) /\ Len(text) \in Nat
      /\ \A i \in 1 .. Len(text) : text[i] \in Chars /\ text[i] \notin {}
  BY <1>1, Characters
<1>3. ~ Bare(text)
  BY <1>1, <1>2 DEF Bare
<1> DEFINE L == [i \in 1 .. Len(text) |-> <<text[i]>>]
<1>4. L \in Seq(Seq(Chars)) /\ Len(L) = Len(text)
      /\ \A i \in 1 .. Len(text) : L[i] = IF text[i] \in {} THEN <<>> ELSE <<text[i]>>
  <2>1. \A i \in 1 .. Len(text) : <<text[i]>> \in Seq(Chars)
    BY <1>2
  <2> QED BY <1>2, <2>1
<1>5. Received(text) = FlattenSeq(L) /\ Lined(text) = FlattenSeq(L)
  <2>1. [i \in DOMAIN text |-> IF CRLF(text, i) THEN <<>> ELSE <<text[i]>>] = L
    BY <1>1, <1>2 DEF CRLF
  <2>2. [i \in DOMAIN text |-> IF CRLF(text, i) THEN <<>>
                              ELSE IF text[i] = "\r" THEN <<"\n">> ELSE <<text[i]>>] = L
    BY <1>1, <1>2 DEF CRLF
  <2> HIDE DEF L
  <2> QED BY <2>1, <2>2 DEF Received, Lined
<1> HIDE DEF L
<1>6. FlattenSeq(L) = Without(text, {})
  BY <1>2, <1>4, FlatKeeps
<1>7. Without(text, {}) = text
  BY <1>2, WithoutElements
<1> QED BY <1>3, <1>5, <1>6, <1>7

(* What a browser submits of a tidy text has no carriage return on its own,    *)
(* and is received as the text.                                                *)
LEMMA SubmittedReceived ==
    ASSUME NEW text \in Tidy
    PROVE  Received(Submitted(text)) = text
<1> DEFINE L == [i \in DOMAIN text |-> IF text[i] = "\n" THEN <<"\r", "\n">> ELSE <<text[i]>>]
           CR == {"\r"}
<1>1. text \in Texts /\ text \in Seq(Chars) /\ DOMAIN text = 1 .. Len(text) /\ Len(text) \in Nat
      /\ \A i \in 1 .. Len(text) : text[i] \in Chars /\ text[i] \notin CR
  BY Characters DEF Tidy
<1>2. \A i \in 1 .. Len(text) : L[i] = IF text[i] = "\n" THEN <<"\r", "\n">> ELSE <<text[i]>>
  BY <1>1
<1>3. L = [i \in DOMAIN text |-> L[i]]
  OBVIOUS
<1>4. Submitted(text) = FlattenSeq(L)
  BY DEF Submitted
<1>d. "\r" \in CR /\ "\n" \notin CR /\ "\r" \in Chars /\ "\n" \in Chars
  BY Characters
<1> HIDE DEF L
<1>5. \A i \in 1 .. Len(text) :
         \/ L[i] = <<text[i]>>
         \/ text[i] \in LineEnds /\ L[i] \in {<<>>, <<"\n">>, <<"\r", "\n">>}
  BY <1>2, Characters, Zenon
<1>6. L \in Seq(Seq(Chars)) /\ Len(L) = Len(text) /\ FlattenSeq(L) \in Texts
  BY <1>1, <1>3, <1>5, Rewriting
<1>7. PICK G : /\ G[0] = <<>> /\ G[Len(L)] = FlattenSeq(L)
               /\ \A n \in 0 .. Len(L) - 1 : G[n + 1] = G[n] \o L[n + 1]
               /\ \A n \in 0 .. Len(L) : G[n] \in Seq(Chars)
  BY <1>6, FlatSteps
<1> DEFINE Ended(g) == \A j \in 1 .. Len(g) : g[j] = "\r" => j < Len(g) /\ g[j + 1] = "\n"
           T == {n \in 0 .. Len(text) :
                   Ended(G[n]) /\ Without(G[n], CR) = SubSeq(text, 1, n)}
<1>8. 0 \in T
  <2> DEFINE o == <<>>
  <2>1. SubSeq(text, 1, 0) = o /\ 0 \in 0 .. Len(text) /\ Without(o, CR) = o
    BY <1>1, SubSeqEmpty, WithoutEmpty
  <2>2. Ended(o)
    OBVIOUS
  <2> HIDE DEF Ended
  <2> QED BY <1>7, <2>1, <2>2
<1>9. ASSUME NEW n \in 0 .. Len(text) - 1, n \in T PROVE n + 1 \in T
  <2> DEFINE e == text[n + 1]
             g == G[n]
  <2>1. n + 1 \in 1 .. Len(text) /\ n + 1 \in 0 .. Len(text) /\ e \in Chars /\ e \notin CR
    BY <1>1
  <2>2. SubSeq(text, 1, n + 1) = Append(SubSeq(text, 1, n), e)
    BY <1>1, <2>1
  <2>3. G[n + 1] = g \o L[n + 1] /\ g \in Seq(Chars)
    <3>1. n \in 0 .. Len(L) - 1 /\ n \in 0 .. Len(L)
      BY <1>1, <1>6
    <3> QED BY <1>7, <3>1
  <2>4. Ended(g) /\ Without(g, CR) = SubSeq(text, 1, n)
    BY <1>9
  <2>5. L[n + 1] = IF e = "\n" THEN <<"\r", "\n">> ELSE <<e>>
    BY <1>2, <2>1
  <2> HIDE DEF e, g, T
  <2>6. CASE e = "\n"
    <3> DEFINE h == Append(g, "\r")
               k == Append(h, "\n")
    <3>1. G[n + 1] = k
      BY <1>d, <2>3, <2>5, <2>6, ConcatFew
    <3>2. /\ h \in Seq(Chars) /\ Len(h) = Len(g) + 1 /\ h[Len(g) + 1] = "\r"
          /\ (\A j \in 1 .. Len(g) : h[j] = g[j]) /\ Len(g) \in Nat
      BY <1>d, <2>3
    <3> HIDE DEF h
    <3>3. /\ k \in Seq(Chars) /\ Len(k) = Len(h) + 1 /\ k[Len(h) + 1] = "\n"
          /\ \A j \in 1 .. Len(h) : k[j] = h[j]
      BY <1>d, <3>2
    <3> HIDE DEF k
    <3>4. Without(h, CR) = Without(g, CR)
      BY <1>d, <2>3, WithoutAppend DEF h
    <3>5. Without(k, CR) = Append(Without(h, CR), "\n")
      BY <1>d, <3>2, WithoutAppend DEF k
    <3>6. Ended(k)
      <4> SUFFICES ASSUME NEW j \in 1 .. Len(k), k[j] = "\r"
                   PROVE  j < Len(k) /\ k[j + 1] = "\n"
        OBVIOUS
      <4>1. j # Len(h) + 1
        BY <1>d, <3>3
      <4>2. CASE j = Len(g) + 1
        BY <3>2, <3>3, <4>2
      <4>3. CASE j \in 1 .. Len(g)
        <5>1. g[j] = "\r"
          BY <3>2, <3>3, <4>3
        <5>2. j < Len(g) /\ g[j + 1] = "\n"
          BY <2>4, <4>3, <5>1
        <5>3. j + 1 \in 1 .. Len(g) /\ j + 1 \in 1 .. Len(h)
          BY <3>2, <4>3, <5>2
        <5>4. k[j + 1] = h[j + 1] /\ h[j + 1] = g[j + 1]
          BY <3>2, <3>3, <5>3
        <5> QED BY <3>2, <3>3, <5>2, <5>4
      <4> QED BY <3>2, <3>3, <4>1, <4>2, <4>3
    <3> HIDE DEF Ended
    <3> QED BY <2>1, <2>2, <2>4, <2>6, <3>1, <3>4, <3>5, <3>6 DEF T
  <2>7. CASE e # "\n"
    <3> DEFINE k == Append(g, e)
    <3>1. G[n + 1] = k
      BY <2>1, <2>3, <2>5, <2>7, ConcatFew
    <3>2. /\ k \in Seq(Chars) /\ Len(k) = Len(g) + 1 /\ k[Len(g) + 1] = e
          /\ (\A j \in 1 .. Len(g) : k[j] = g[j]) /\ Len(g) \in Nat
      BY <2>1, <2>3
    <3>3. Without(k, CR) = Append(Without(g, CR), e)
      BY <2>1, <2>3, WithoutAppend
    <3> HIDE DEF k
    <3>4. Ended(k)
      <4> SUFFICES ASSUME NEW j \in 1 .. Len(k), k[j] = "\r"
                   PROVE  j < Len(k) /\ k[j + 1] = "\n"
        OBVIOUS
      <4>1. j # Len(g) + 1
        BY <1>d, <2>1, <3>2
      <4>2. j \in 1 .. Len(g)
        BY <3>2, <4>1
      <4>3. j < Len(g) /\ g[j + 1] = "\n"
        BY <2>4, <3>2, <4>2
      <4>4. j + 1 \in 1 .. Len(g)
        BY <3>2, <4>2, <4>3
      <4> QED BY <3>2, <4>3, <4>4
    <3> HIDE DEF Ended
    <3> QED BY <2>1, <2>2, <2>4, <3>1, <3>3, <3>4 DEF T
  <2> QED BY <2>6, <2>7
<1>10. Len(text) \in T
  <2>1. \A n \in 0 .. Len(text) : n \in T
    <3> HIDE DEF T
    <3> QED BY <1>1, <1>8, <1>9, Upward
  <2> HIDE DEF T
  <2> QED BY <1>1, <2>1
<1> DEFINE w == Submitted(text)
<1>11. Ended(w) /\ Without(w, CR) = text /\ w \in Texts
  <2>1. SubSeq(text, 1, Len(text)) = text
    BY <1>1, SubSeqFull
  <2> HIDE DEF Ended
  <2> QED BY <1>4, <1>6, <1>7, <1>10, <2>1
<1> HIDE DEF w
<1>12. DOMAIN w = 1 .. Len(w)
  BY <1>11 DEF Texts
<1>13. ~ Bare(w)
  BY <1>11, <1>12 DEF Bare, CRLF
<1>14. Received(w) = Without(w, CR)
  BY <1>11, <1>13, ReceivedTidy
<1> QED BY <1>11, <1>14 DEF w

(* Texts that differ in their line ends are blank together.                    *)
LEMMA BlankBy ==
    ASSUME NEW text \in Texts
    PROVE  IsBlank(text) <=> IsBlank(Without(text, LineEnds))
<1>1. text \in Seq(Chars) /\ LineEnds \subseteq Space
  BY Characters
<1> QED BY <1>1, WithoutElements

LEMMA BlankSame ==
    ASSUME NEW a \in Texts, NEW c \in Texts, Without(a, LineEnds) = Without(c, LineEnds)
    PROVE  IsBlank(a) <=> IsBlank(c)
BY BlankBy

LEMMA BlankReceived ==
    ASSUME NEW text \in Texts
    PROVE  IsBlank(Received(text)) <=> IsBlank(text)
BY ReceivedSame, BlankSame

(* What a page's textarea has of a text it is given: it is tidy, and about the *)
(* text, whose first newline is not lost.                                      *)
LEMMA LinedTidy ==
    ASSUME NEW text \in Texts
    PROVE  Lined(text) \in Tidy
<1> DEFINE e(i) == IF CRLF(text, i) THEN <<>>
                   ELSE IF text[i] = "\r" THEN <<"\n">> ELSE <<text[i]>>
           L == [i \in DOMAIN text |-> e(i)]
           S == Chars \ {"\r"}
<1>1. DOMAIN text = 1 .. Len(text) /\ Len(text) \in Nat
      /\ \A i \in 1 .. Len(text) : text[i] \in Chars
  BY Characters
<1>2. "\n" \in S /\ \A a \in S : <<a>> \in Seq(S)
  BY Characters
<1>3. <<>> \in Seq(S)
  OBVIOUS
<1>4. \A i \in 1 .. Len(text) : e(i) \in Seq(S)
  <2> SUFFICES ASSUME NEW i \in 1 .. Len(text) PROVE e(i) \in Seq(S)
    OBVIOUS
  <2>1. text[i] # "\r" => text[i] \in S
    BY <1>1
  <2> HIDE DEF S
  <2> QED BY <1>2, <1>3, <2>1
<1>5. L \in Seq(Seq(S)) /\ Lined(text) = FlattenSeq(L)
  <2>1. Lined(text) = FlattenSeq(L)
    BY DEF Lined
  <2> HIDE DEF e, S
  <2>2. L \in [1 .. Len(text) -> Seq(S)]
    BY <1>1, <1>4
  <2>3. L \in Seq(Seq(S))
    BY <1>1, <2>2
  <2> QED BY <2>1, <2>3
<1> HIDE DEF L
<1>6. FlattenSeq(L) \in Seq(S)
  <2> HIDE DEF S
  <2>1. PICK G : /\ G[Len(L)] = FlattenSeq(L)
                 /\ \A n \in 0 .. Len(L) : G[n] \in Seq(S)
    BY <1>5, FlatSteps
  <2>2. Len(L) \in 0 .. Len(L)
    BY <1>5
  <2> QED BY <2>1, <2>2
<1> DEFINE w == Lined(text)
<1>7. w \in Seq(S)
  BY <1>5, <1>6
<1> HIDE DEF w
<1>8. w \in Seq(Chars) /\ \A i \in 1 .. Len(w) : w[i] # "\r"
  BY <1>7
<1> QED BY <1>8, Characters DEF Tidy, w

LEMMA TailTidy ==
    ASSUME NEW text \in Tidy, text # <<>>, text[1] = "\n"
    PROVE  Tail(text) \in Tidy /\ Without(Tail(text), LineEnds) = Without(text, LineEnds)
<1> DEFINE t == Tail(text)
<1>1. text \in Seq(Chars) /\ \A i \in 1 .. Len(text) : text[i] # "\r"
  BY Characters DEF Tidy
<1>2. /\ t \in Seq(Chars) /\ Len(t) = Len(text) - 1
      /\ \A i \in 1 .. Len(t) : t[i] = text[i + 1]
  BY <1>1, HeadTailProperties
<1>3. Without(t, LineEnds) = Without(text, LineEnds)
  BY <1>1, Characters, WithoutTail
<1> HIDE DEF t
<1>4. \A i \in 1 .. Len(t) : t[i] # "\r"
  <2>1. \A i \in 1 .. Len(t) : i + 1 \in 1 .. Len(text)
    BY <1>1, <1>2
  <2> QED BY <1>1, <1>2, <2>1
<1> QED BY <1>2, <1>3, <1>4, Characters DEF Tidy, t

LEMMA BoxText ==
    ASSUME NEW text \in Texts
    PROVE  /\ Parsed(Written(text)) \in Tidy
           /\ Without(Parsed(Written(text)), LineEnds) = Without(text, LineEnds)
           /\ text \in Tidy => Parsed(Written(text)) = text
<1> DEFINE h == <<"\n">> \o text
           lines == Lined(Written(text))
<1>1. text \in Seq(Chars) /\ "\n" \in Chars /\ "\n" \in LineEnds
  BY Characters
<1>2. /\ h \in Seq(Chars) /\ h # <<>> /\ h[1] = "\n" /\ Len(h) = 1 + Len(text)
      /\ \A i \in 1 .. Len(text) : h[i + 1] = text[i]
  <2>1. <<"\n">> \in Seq(Chars)
    BY <1>1
  <2> QED BY <1>1, <2>1
<1> HIDE DEF h
<1>3. Tail(h) = text
  <2>1. Tail(h) \in Seq(Chars) /\ Len(Tail(h)) = Len(text)
        /\ \A i \in 1 .. Len(text) : Tail(h)[i] = text[i]
    BY <1>1, <1>2, HeadTailProperties
  <2> QED BY <1>1, <2>1, SeqEqual
<1>4. Without(text, LineEnds) = Without(h, LineEnds)
  BY <1>1, <1>2, <1>3, WithoutTail
<1>5. Written(text) = IF text # <<>> /\ text[1] = "\n" THEN h ELSE text
  BY DEF Written, h
<1>6. Written(text) \in Texts /\ Without(Written(text), LineEnds) = Without(text, LineEnds)
  BY <1>1, <1>2, <1>4, <1>5, Characters
<1>7. lines \in Tidy /\ Without(lines, LineEnds) = Without(text, LineEnds)
  BY <1>6, LinedTidy, LinedSame
<1>8. Parsed(Written(text)) = IF lines # <<>> /\ lines[1] = "\n" THEN Tail(lines) ELSE lines
  BY DEF Parsed
<1> HIDE DEF lines
<1>9. /\ Parsed(Written(text)) \in Tidy
      /\ Without(Parsed(Written(text)), LineEnds) = Without(text, LineEnds)
  BY <1>7, <1>8, TailTidy
<1>10. ASSUME text \in Tidy PROVE Parsed(Written(text)) = text
  <2>1. Written(text) \in Tidy
    <3>1. CASE ~ (text # <<>> /\ text[1] = "\n")
      BY <1>5, <1>10, <3>1
    <3>2. CASE text # <<>> /\ text[1] = "\n"
      <4>1. \A i \in 1 .. Len(text) : text[i] # "\r"
        BY <1>10 DEF Tidy
      <4>2. \A i \in 1 .. Len(h) : i = 1 \/ (i - 1 \in 1 .. Len(text) /\ h[i] = text[i - 1])
        BY <1>1, <1>2
      <4>3. h[1] # "\r"
        BY <1>10, <1>2, <3>2, <4>1
      <4>4. \A i \in 1 .. Len(h) : h[i] # "\r"
        BY <4>1, <4>2, <4>3
      <4>5. h \in Tidy
        BY <1>2, <4>4, Characters DEF Tidy
      <4> QED BY <1>5, <3>2, <4>5
    <3> QED BY <3>1, <3>2
  <2>2. lines = Written(text)
    BY <2>1, TidyReceived DEF lines
  <2> QED BY <1>2, <1>3, <1>5, <1>8, <2>2
<1> QED BY <1>9, <1>10

(* Texts about a text.                                                         *)
LEMMA AboutItself ==
    ASSUME NEW text \in Tidy
    PROVE  About(text, text)
BY TidyReceived DEF About, Tidy

LEMMA AboutReceived ==
    ASSUME NEW t \in Texts, NEW q, About(t, q)
    PROVE  About(t, Received(q)) /\ (~ Bare(t) => q \in Tidy)
<1>1. Received(q) \in Texts /\ Without(Received(q), LineEnds) = Without(t, LineEnds)
  BY ReceivedSame DEF About
<1>2. ~ Bare(t) => q \in Tidy /\ Received(q) = q /\ q = Received(t)
  BY ReceivedTidy, TidyReceived DEF About
<1> QED BY <1>1, <1>2 DEF About

LEMMA AboutBlank ==
    ASSUME NEW t \in Texts, NEW q, About(t, q)
    PROVE  IsBlank(q) <=> IsBlank(t)
BY BlankSame DEF About

LEMMA AboutBox ==
    ASSUME NEW t \in Texts, NEW q, About(t, q)
    PROVE  /\ About(t, Parsed(Written(q))) /\ Parsed(Written(q)) \in Tidy
<1>1. q \in Texts
  BY DEF About
<1>2. /\ Parsed(Written(q)) \in Tidy
      /\ Without(Parsed(Written(q)), LineEnds) = Without(q, LineEnds)
      /\ q \in Tidy => Parsed(Written(q)) = q
  BY <1>1, BoxText
<1>3. ~ Bare(t) => q \in Tidy
  BY AboutReceived
<1> QED BY <1>2, <1>3 DEF About, Tidy

LEMMA QueryOf ==
    ASSUME NEW a, a.query \in Seq(Texts)
    PROVE  Query(a) = IF a.query = <<>> \/ IsBlank(a.query[1]) THEN None
                      ELSE Received(a.query[1])
<1>1. CASE a.query = <<>>
  BY <1>1 DEF Query
<1>2. CASE a.query # <<>>
  <2>1. a.query[1] \in Texts
    BY <1>2, FirstIn
  <2>2. IsBlank(Received(a.query[1])) <=> IsBlank(a.query[1])
    BY <2>1, BlankReceived
  <2> QED BY <1>2, <2>2 DEF Query
<1> QED BY <1>1, <1>2

LEMMA NamedGraphs ==
    ASSUME NEW graph \in Seq(Graphs \cup {""})
    PROVE  Named(graph) \in Seq(Graphs) /\ Named(Named(graph)) = Named(graph)
<1>1. Named(graph) \in Seq((Graphs \cup {""}) \ {""})
  BY WithoutElements DEF Named
<1>2. (Graphs \cup {""}) \ {""} \subseteq Graphs
  OBVIOUS
<1>3. Named(Named(graph)) = Named(graph)
  BY WithoutTwice DEF Named
<1>4. Named(graph) \in Seq(Graphs)
  BY <1>1, <1>2, SeqWider
<1> QED BY <1>3, <1>4


(* The invariant: what the request says once merged, what the face was asked   *)
(* and what a page shows are all what the chain is about.                      *)
RequestInv ==
    /\ req.url \in AllArguments /\ req.body \in AllArguments
    /\ req.accept \in Seq(STRING \cup {"html"})
HistoryInv ==
    /\ written # None => written \in Texts /\ ~ IsBlank(written)
    /\ narrowed \in Seq(Graphs) /\ Named(narrowed) = narrowed
Carries(a) ==
    /\ Named(a.graph) = narrowed
    /\ IF written = None THEN Query(a) = None ELSE About(written, Query(a))
ReceivedInv ==
    phase = "received" => /\ asked = None /\ resp.page = None
                          /\ Served => Carries(Merge(req))
ArgsInv ==
    phase \in {"merged", "asking"} =>
        /\ resp.page = None
        /\ Served /\ args \in AllArguments /\ Carries(args)
AskedInv ==
    /\ phase = "merged" => asked = None
    /\ phase = "asking" => asked # None
    /\ asked # None => /\ written # None /\ About(written, asked.query)
                       /\ asked.graphs = narrowed
                       /\ asked.form = QueryForm(asked.query) /\ asked.form \in ReadForms
RefusedInv ==
    phase = "answered" /\ Served /\ asked = None /\ Query(args) # None =>
        Query(args) \in Texts /\ QueryForm(Query(args)) = "none"
PageInv ==
    resp.page # None =>
        /\ About(Shown, resp.page.query)
        /\ About(Shown, resp.page.box) /\ resp.page.box \in Tidy
        /\ resp.page.graphs = narrowed
SparqlInv ==
    /\ RequestInv /\ HistoryInv /\ ReceivedInv /\ ArgsInv /\ AskedInv
    /\ RefusedInv /\ PageInv /\ Answerable

(* The text the first request is about, and its page.                          *)
LEMMA ShownText ==
    ASSUME HistoryInv
    PROVE  Shown \in Texts /\ ~ IsBlank(Shown)
BY DefaultAssumption DEF HistoryInv, Shown

LEMMA DefaultTidy == Default \in Tidy
<1>1. DOMAIN Default = 1 .. Len(Default)
  BY DefaultAssumption DEF Texts
<1> QED BY <1>1, DefaultAssumption DEF Tidy

(* A chain is about what its first request says once it is merged.             *)
LEMMA StartsCarried ==
    ASSUME NEW r \in Requests,
           r.method \in {"GET", "POST"}, r.method = "POST" => r.kind \notin {"bad-form", "bad-raw"}
    PROVE  /\ Named(Merge(r).graph) = Starts(r).graphs
           /\ IF Starts(r).query = None THEN Query(Merge(r)) = None
              ELSE About(Starts(r).query, Query(Merge(r)))
<1>1. /\ r.url \in AllArguments /\ r.body \in AllArguments
      /\ r.kind = "raw" => Len(r.body.query) = 1 /\ r.body.as = <<>> /\ r.body.graph = <<>>
  BY RequestsAssumption DEF Arguments, AllArguments
<1> DEFINE by == IF r.method = "POST" /\ r.kind \in {"form", "raw"} THEN r.body ELSE r.url
           query == IF by.query # <<>> THEN by.query ELSE r.url.query
           graph == IF by.graph # <<>> THEN by.graph ELSE r.url.graph
<1>2. Merge(r).query = query /\ Merge(r).graph = graph
  <2>1. DOMAIN r.url = {"query", "as", "graph"}
    BY <1>1 DEF AllArguments
  <2>2. CASE r.method = "POST" /\ r.kind = "form"
    BY <2>1, <2>2 DEF Merge
  <2>3. CASE r.method = "POST" /\ r.kind = "raw"
    <3>1. r.body.query # <<>> /\ r.body.graph = <<>>
      <4>1. Len(r.body.query) = 1 /\ r.body.graph = <<>>
        BY <1>1, <2>3
      <4>2. Len(<<>>) = 0
        OBVIOUS
      <4> QED BY <4>1, <4>2
    <3>2. Merge(r) = [r.url EXCEPT !.query = r.body.query]
      BY <2>3 DEF Merge
    <3>3. r.url = [query |-> r.url.query, as |-> r.url.as, graph |-> r.url.graph]
      BY <1>1 DEF AllArguments
    <3>4. Merge(r).query = r.body.query /\ Merge(r).graph = r.url.graph
      BY <2>1, <3>2
    <3> QED BY <2>3, <3>1, <3>4
  <2>4. CASE ~ (r.method = "POST" /\ r.kind \in {"form", "raw"})
    BY <2>4 DEF Merge
  <2> QED BY <2>2, <2>3, <2>4
<1>3. query \in Seq(Texts)
  BY <1>1 DEF AllArguments
<1>4. Query(Merge(r)) = IF query = <<>> \/ IsBlank(query[1]) THEN None ELSE Received(query[1])
  <2>1. Merge(r).query \in Seq(Texts)
    BY <1>2, <1>3
  <2>2. Query(Merge(r)) = IF Merge(r).query = <<>> \/ IsBlank(Merge(r).query[1]) THEN None
                          ELSE Received(Merge(r).query[1])
    BY <2>1, QueryOf
  <2> HIDE DEF query
  <2> QED BY <1>2, <2>2
<1>5. /\ Starts(r).query = IF query = <<>> \/ IsBlank(query[1]) THEN None ELSE query[1]
      /\ Starts(r).graphs = Named(graph)
  BY DEF Starts
<1> HIDE DEF query, graph
<1>6. query # <<>> => query[1] \in Texts /\ About(query[1], Received(query[1]))
  <2> SUFFICES ASSUME query # <<>> PROVE query[1] \in Texts /\ About(query[1], Received(query[1]))
    OBVIOUS
  <2>1. query[1] \in Texts
    BY <1>3, FirstIn
  <2> QED BY <2>1, ReceivedSame DEF About
<1>7. None \notin Texts
  BY NoneAssumption
<1> QED BY <1>2, <1>4, <1>5, <1>6, <1>7

LEMMA StartsTyped ==
    ASSUME NEW r \in Requests
    PROVE  /\ Starts(r).query # None => Starts(r).query \in Texts /\ ~ IsBlank(Starts(r).query)
           /\ Starts(r).graphs \in Seq(Graphs) /\ Named(Starts(r).graphs) = Starts(r).graphs
<1>1. r.url \in Arguments /\ r.body \in Arguments
  BY RequestsAssumption
<1> DEFINE by == IF r.method = "POST" /\ r.kind \in {"form", "raw"} THEN r.body ELSE r.url
           query == IF by.query # <<>> THEN by.query ELSE r.url.query
           graph == IF by.graph # <<>> THEN by.graph ELSE r.url.graph
<1>2. query \in Seq(Texts) /\ graph \in Seq(Graphs \cup {""})
  BY <1>1 DEF Arguments
<1>3. /\ Starts(r).query = IF query = <<>> \/ IsBlank(query[1]) THEN None ELSE query[1]
      /\ Starts(r).graphs = Named(graph)
  BY DEF Starts
<1> HIDE DEF query, graph
<1>4. query # <<>> => query[1] \in Texts
  BY <1>2, FirstIn
<1> QED BY <1>2, <1>3, <1>4, NamedGraphs

LEMMA SparqlInitially == Init => SparqlInv
<1> SUFFICES ASSUME Init PROVE SparqlInv
  OBVIOUS
<1> USE DEF Init
<1>1. RequestInv
  <2>1. req.url \in AllArguments /\ req.body \in AllArguments /\ req.accept \in Seq(STRING)
    BY RequestsAssumption DEF Arguments, AllArguments
  <2> DEFINE A == STRING \cup {"html"}
  <2>2. STRING \subseteq A
    OBVIOUS
  <2> HIDE DEF A
  <2>3. req.accept \in Seq(A)
    BY <2>1, <2>2, SeqWider
  <2> QED BY <2>1, <2>3 DEF RequestInv, A
<1>2. HistoryInv
  BY StartsTyped DEF HistoryInv
<1>3. ReceivedInv
  BY StartsCarried DEF ReceivedInv, Carries, Served, NoAnswer
<1>4. ArgsInv /\ AskedInv /\ RefusedInv /\ PageInv /\ Answerable
  BY DEF ArgsInv, AskedInv, RefusedInv, PageInv, Answerable, NoAnswer
<1> QED BY <1>1, <1>2, <1>3, <1>4 DEF SparqlInv


LEMMA MergeTyped ==
    ASSUME RequestInv
    PROVE  Merge(req) \in AllArguments
<1>1. /\ DOMAIN req.url = {"query", "as", "graph"}
      /\ req.url.query \in Seq(Texts) /\ req.body.query \in Seq(Texts)
      /\ req.url.as \in Seq(Types) /\ req.body.as \in Seq(Types)
      /\ req.url.graph \in Seq(Graphs \cup {""}) /\ req.body.graph \in Seq(Graphs \cup {""})
      /\ req.url \in AllArguments
  BY DEF RequestInv, AllArguments
<1>2. CASE req.method = "POST" /\ req.kind = "form"
  <2>1. Merge(req) = [name \in {"query", "as", "graph"} |->
                        IF req.body[name] # <<>> THEN req.body[name] ELSE req.url[name]]
    BY <1>1, <1>2 DEF Merge
  <2> QED BY <1>1, <2>1 DEF AllArguments
<1>3. CASE req.method = "POST" /\ req.kind = "raw"
  <2>1. Merge(req) = [req.url EXCEPT !.query = req.body.query]
    BY <1>3 DEF Merge
  <2> QED BY <1>1, <2>1 DEF AllArguments
<1>4. CASE ~ (req.method = "POST" /\ req.kind \in {"form", "raw"})
  BY <1>1, <1>4 DEF Merge
<1> QED BY <1>2, <1>3, <1>4

LEMMA FirstOfTyped ==
    ASSUME NEW A, NEW accept \in Seq(A), NEW types, None \notin types
    PROVE  /\ FirstOf(accept, types) \in types \cup {None}
           /\ FirstOf(accept, types) = None => \A i \in DOMAIN accept : accept[i] \notin types
<1> DEFINE known == {i \in DOMAIN accept : accept[i] \in types}
<1>1. known \in SUBSET Nat
  OBVIOUS
<1>2. FirstOf(accept, types) = IF known = {} THEN None ELSE accept[Min(known)]
  BY DEF FirstOf
<1>3. CASE known = {}
  BY <1>2, <1>3
<1>4. CASE known # {}
  <2>1. Min(known) \in known
    <3> HIDE DEF known
    <3> QED BY <1>1, <1>4, MinLeast
  <2>2. accept[Min(known)] \in types
    BY <2>1
  <2> HIDE DEF known
  <2> QED BY <1>2, <1>4, <2>2
<1> QED BY <1>3, <1>4

(* The form that runs, and the type it is asked for in.                        *)
LEMMA RunForm ==
    ASSUME Carries(args)
    PROVE  /\ ReadForm = IF Query(args) = None THEN "none" ELSE QueryForm(Query(args))
           /\ ReadForm \in Forms /\ (Query(args) # None => Query(args) \in Texts)
<1>1. ReadForm = IF Query(args) = None THEN "none" ELSE QueryForm(Query(args))
  BY DEF ReadForm
<1>2. Query(args) # None => Query(args) \in Texts
  BY DEF Carries, About
<1>3. Query(args) \in Texts => QueryForm(Query(args)) \in Forms
  BY QueryForms DEF Texts
<1> QED BY <1>1, <1>2, <1>3 DEF Forms

LEMMA FamilyTypes ==
    ASSUME NEW form
    PROVE  Family(form) \subseteq Types /\ None \notin Family(form)
           /\ (form \in ReadForms => PageAs(form) \in Family(form) \cup {None})
<1>1. Family(form) \subseteq Types
  BY DEF Family, Types
<1>2. None \notin Family(form)
  BY <1>1, NoneAssumption
<1>3. ASSUME form \in ReadForms PROVE PageAs(form) \in Family(form) \cup {None}
  BY <1>3 DEF ReadForms, PageAs, Family, Results
<1> QED BY <1>1, <1>2, <1>3

(* What a page shows.                                                          *)
LEMMA PageShows ==
    ASSUME HistoryInv, Carries(args)
    PROVE  /\ About(Shown, Page.query)
           /\ About(Shown, Page.box) /\ Page.box \in Tidy
           /\ Page.graphs = narrowed
<1> DEFINE q == IF Query(args) = None THEN Default ELSE Query(args)
<1>1. Page.query = q /\ Page.box = Parsed(Written(q)) /\ Page.graphs = narrowed
  BY DEF Page, Carries
<1>2. About(Shown, q)
  <2>1. CASE written = None
    BY <2>1, DefaultTidy, AboutItself DEF Carries, Shown
  <2>2. CASE written # None
    <3>1. About(written, Query(args)) /\ Query(args) # None
      BY <2>2, NoneAssumption DEF Carries, About
    <3> QED BY <2>2, <3>1 DEF Shown
  <2> QED BY <2>1, <2>2
<1> HIDE DEF q
<1>3. About(Shown, Parsed(Written(q))) /\ Parsed(Written(q)) \in Tidy
  BY <1>2, ShownText, AboutBox
<1> QED BY <1>1, <1>2, <1>3

(* A browser that asks again for a text, however its line ends are spelled,    *)
(* and for graphs none of which is blank, starts a chain that is about them.   *)
LEMMA AskedAgain ==
    ASSUME NEW query \in Texts, NEW as \in Seq(Types), NEW graphs \in Seq(Graphs), SparqlInv,
           Asks(query, as, graphs), written' \in Texts, ~ IsBlank(written'),
           About(written', Received(query)), Named(graphs) = graphs, narrowed' = graphs
    PROVE  SparqlInv'
<1> USE DEF Asks
<1> DEFINE url == [query |-> <<query>>, as |-> as, graph |-> graphs]
<1>1. req'.url = url /\ req'.body = req.body /\ req'.method = "GET" /\ req'.accept = <<"html">>
      /\ req'.kind = "none"
  OBVIOUS
<1>2. url \in AllArguments
  <2>1. graphs \in Seq(Graphs \cup {""})
    <3>1. Graphs \subseteq Graphs \cup {""}
      OBVIOUS
    <3> QED BY <3>1, SeqWider
  <2>2. <<query>> \in Seq(Texts)
    OBVIOUS
  <2> QED BY <2>1, <2>2 DEF AllArguments
<1>3. RequestInv'
  <2>1. <<"html">> \in Seq(STRING \cup {"html"})
    OBVIOUS
  <2>2. req.body \in AllArguments
    BY DEF SparqlInv, RequestInv
  <2> QED BY <1>1, <1>2, <2>1, <2>2 DEF RequestInv
<1>4. HistoryInv'
  BY DEF HistoryInv
<1>5. ReceivedInv'
  <2>1. Merge(req') = url
    BY <1>1 DEF Merge
  <2>2. Query(url) = Received(query)
    <3>1. url.query # <<>> /\ url.query[1] = query
      OBVIOUS
    <3>2. ~ IsBlank(Received(query))
      BY AboutBlank
    <3> HIDE DEF url
    <3> QED BY <3>1, <3>2 DEF Query
  <2>3. Named(url.graph) = narrowed'
    OBVIOUS
  <2>4. asked' = None /\ resp'.page = None
    BY DEF NoAnswer
  <2>5. written' # None
    BY NoneAssumption
  <2> HIDE DEF url
  <2> QED BY <2>1, <2>2, <2>3, <2>4, <2>5 DEF ReceivedInv, Carries
<1>6. ArgsInv' /\ AskedInv' /\ RefusedInv' /\ PageInv' /\ Answerable'
  BY DEF ArgsInv, AskedInv, RefusedInv, PageInv, Answerable, NoAnswer
<1> QED BY <1>3, <1>4, <1>5, <1>6 DEF SparqlInv


LEMMA SparqlStep == SparqlInv /\ [Next]_vars => SparqlInv'
<1> SUFFICES ASSUME SparqlInv, [Next]_vars PROVE SparqlInv'
  OBVIOUS
<1> USE DEF SparqlInv
<1>1. CASE RefuseMethod \/ RefuseBody
  <2> USE <1>1 DEF RefuseMethod, RefuseBody, Answer, Request
  <2>1. phase = "received" /\ phase' = "answered" /\ asked = None /\ asked' = None
        /\ ~ Served' /\ resp'.page = None /\ UNCHANGED <<args, req, written, narrowed>>
    BY DEF ReceivedInv, Served
  <2>2. RequestInv' /\ HistoryInv'
    BY <2>1 DEF RequestInv, HistoryInv
  <2>3. ReceivedInv' /\ ArgsInv' /\ AskedInv' /\ RefusedInv' /\ PageInv' /\ Answerable'
    BY <2>1 DEF ReceivedInv, ArgsInv, AskedInv, RefusedInv, PageInv, Answerable
  <2> QED BY <2>2, <2>3
<1>2. CASE MergeArgs
  <2> USE <1>2 DEF MergeArgs, Request
  <2>1. phase = "received" /\ phase' = "merged" /\ asked = None /\ asked' = None
        /\ Served /\ args' = Merge(req) /\ resp'.page = None /\ Carries(Merge(req))
        /\ UNCHANGED <<req, written, narrowed>>
    BY DEF ReceivedInv, Served
  <2>2. RequestInv' /\ HistoryInv'
    BY <2>1 DEF RequestInv, HistoryInv
  <2>3. ArgsInv'
    BY <2>1, MergeTyped DEF ArgsInv, Carries, Served
  <2>4. ReceivedInv' /\ AskedInv' /\ RefusedInv' /\ PageInv' /\ Answerable'
    BY <2>1 DEF ReceivedInv, AskedInv, RefusedInv, PageInv, Answerable
  <2> QED BY <2>2, <2>3, <2>4
<1>3. CASE ShowPage \/ RefuseQuery
  <2> USE <1>3 DEF ShowPage, RefuseQuery, Answer, Request
  <2>1. phase = "merged" /\ phase' = "answered" /\ asked = None /\ asked' = None
        /\ Served /\ Carries(args) /\ ReadForm = "none"
        /\ (resp'.page = None \/ resp'.page = Page)
        /\ UNCHANGED <<args, req, written, narrowed>>
    BY DEF ArgsInv, AskedInv
  <2>2. RequestInv' /\ HistoryInv'
    BY <2>1 DEF RequestInv, HistoryInv
  <2>3. PageInv'
    <3>1. Shown' = Shown
      BY <2>1 DEF Shown
    <3>2. /\ About(Shown, Page.query) /\ Page.graphs = narrowed
          /\ About(Shown, Page.box) /\ Page.box \in Tidy
      BY <2>1, PageShows
    <3> HIDE DEF ShowPage, RefuseQuery, Answer, Request
    <3> QED BY <2>1, <3>1, <3>2 DEF PageInv
  <2>4. RefusedInv'
    <3>1. Query(args) # None => Query(args) \in Texts /\ QueryForm(Query(args)) = "none"
      BY <2>1, RunForm
    <3>2. Query(args') = Query(args)
      BY <2>1
    <3> QED BY <3>1, <3>2 DEF RefusedInv
  <2>5. ReceivedInv' /\ ArgsInv' /\ AskedInv' /\ Answerable'
    BY <2>1 DEF ReceivedInv, ArgsInv, AskedInv, Answerable
  <2> QED BY <2>2, <2>3, <2>4, <2>5
<1>4. CASE RunPage \/ RunRaw
  <2> DEFINE as == asked'.as
  <2>1. phase = "merged" /\ phase' = "asking" /\ ReadForm # "none"
        /\ UNCHANGED <<args, req, resp, written, narrowed>>
        /\ asked' = [form |-> ReadForm, query |-> Query(args), as |-> as,
                     graphs |-> Named(args.graph)]
        /\ \/ WantsPage /\ as = PageAs(ReadForm)
           \/ ~ WantsPage /\ as = IF args.as # <<>> THEN args.as[1]
                                  ELSE AcceptForForm(req.accept, ReadForm)
    BY <1>4 DEF RunPage, RunRaw, Execute, Request
  <2>2. resp.page = None /\ Served /\ args \in AllArguments /\ Carries(args)
        /\ HistoryInv /\ RequestInv
    BY <2>1 DEF ArgsInv
  <2>3. /\ ReadForm \in ReadForms /\ written # None /\ ReadForm = QueryForm(Query(args))
        /\ Query(args) \in Texts /\ About(written, Query(args))
    <3>1. Query(args) # None /\ ReadForm = QueryForm(Query(args)) /\ ReadForm \in ReadForms
      BY <2>1, <2>2, RunForm DEF Forms
    <3> QED BY <2>2, <3>1, RunForm DEF Carries
  <2>4. /\ Family(ReadForm) \subseteq Types
        /\ None \notin Family(ReadForm)
        /\ PageAs(ReadForm) \in Family(ReadForm) \cup {None}
    BY <2>3, FamilyTypes
  <2>5. /\ AcceptForForm(req.accept, ReadForm) \in Family(ReadForm) \cup {None}
        /\ AcceptForForm(req.accept, ReadForm) = None =>
             \A i \in DOMAIN req.accept : req.accept[i] \notin Family(ReadForm)
    BY <2>2, <2>4, FirstOfTyped DEF RequestInv, AcceptForForm
  <2>6. as \in Types \cup {None}
    <3>1. args.as # <<>> => args.as[1] \in Types
      BY <2>2, FirstIn DEF AllArguments
    <3> HIDE DEF as
    <3> QED BY <2>1, <2>4, <2>5, <3>1
  <2>7. asked' # None
    <3>1. Query(args) \in Texts /\ Named(args.graph) \in Seq(Graphs)
      BY <2>2, <2>3 DEF HistoryInv, Carries
    <3>2. asked' \in [form : ReadForms, query : Texts, as : Types \cup {None},
                      graphs : Seq(Graphs)]
      <4> HIDE DEF as
      <4> QED BY <2>1, <2>3, <2>6, <3>1
    <3> QED BY <3>2, NoneAssumption
  <2>8. asked'.form = ReadForm /\ asked'.query = Query(args) /\ asked'.graphs = Named(args.graph)
    <3> HIDE DEF as
    <3> QED BY <2>1
  <2>9. RequestInv' /\ HistoryInv'
    BY <2>1, <2>2 DEF RequestInv, HistoryInv
  <2>10. ReceivedInv' /\ ArgsInv' /\ RefusedInv' /\ PageInv'
    BY <2>1, <2>2 DEF ReceivedInv, ArgsInv, RefusedInv, PageInv, Served, Carries
  <2>11. AskedInv'
    BY <2>1, <2>2, <2>3, <2>7, <2>8 DEF AskedInv, Carries
  <2>12. Answerable'
    <3>1. WantsPage' <=> WantsPage
      BY <2>1 DEF WantsPage
    <3>2. ASSUME args.as = <<>>
          PROVE  /\ as \in Family(ReadForm) \cup {None}
                 /\ as = None /\ ~ WantsPage =>
                      \A i \in DOMAIN req.accept : req.accept[i] \notin Family(ReadForm)
      <4> HIDE DEF as
      <4> QED BY <2>1, <2>4, <2>5, <3>2
    <3> QED BY <2>1, <2>8, <3>1, <3>2 DEF Answerable
  <2> QED BY <2>9, <2>10, <2>11, <2>12
<1>5. CASE KernelAnswers
  <2>1. phase = "asking" /\ phase' = "answered" /\ asked # None
        /\ (resp'.page = None \/ resp'.page = Page)
        /\ UNCHANGED <<args, asked, req, written, narrowed>>
    BY <1>5 DEF KernelAnswers, Answer, Request, AskedInv
  <2>2. Carries(args)
    BY <2>1 DEF ArgsInv
  <2>3. RequestInv' /\ HistoryInv'
    BY <2>1 DEF RequestInv, HistoryInv
  <2>4. PageInv'
    <3>1. Shown' = Shown
      BY <2>1 DEF Shown
    <3>2. /\ About(Shown, Page.query) /\ Page.graphs = narrowed
          /\ About(Shown, Page.box) /\ Page.box \in Tidy
      BY <2>2, PageShows
    <3> QED BY <2>1, <3>1, <3>2 DEF PageInv
  <2>5. ReceivedInv' /\ ArgsInv' /\ RefusedInv' /\ AskedInv'
    BY <2>1 DEF ReceivedInv, ArgsInv, RefusedInv, AskedInv
  <2>6. Answerable'
    BY <2>1 DEF Answerable, WantsPage
  <2> QED BY <2>3, <2>4, <2>5, <2>6
<1>s. Shown \in Texts /\ ~ IsBlank(Shown)
  BY ShownText
<1>d. Default \in Tidy /\ Default \in Texts /\ ~ IsBlank(Default) /\ About(Default, Default)
      /\ Received(Default) = Default
  BY DefaultTidy, DefaultAssumption, AboutItself, TidyReceived
<1>e. <<>> \in Seq(Types) /\ <<>> \in Seq(Graphs) /\ Named(<<>>) = <<>>
  <2>1. Named(<<>>) = <<>>
    BY WithoutEmpty DEF Named
  <2>2. <<>> \in Seq(Types) /\ <<>> \in Seq(Graphs)
    OBVIOUS
  <2> QED BY <2>1, <2>2
<1>g. narrowed \in Seq(Graphs) /\ Named(narrowed) = narrowed
  BY DEF HistoryInv
<1>6. CASE Run
  <2>1. Asks(Submitted(resp.page.box), <<>>, resp.page.graphs) /\ written' = Shown
        /\ narrowed' = narrowed /\ resp.page # None
    BY <1>6 DEF Run, Asks
  <2>2. resp.page.box \in Tidy /\ About(Shown, resp.page.box) /\ resp.page.graphs = narrowed
    BY <2>1 DEF PageInv
  <2>3. Submitted(resp.page.box) \in Texts /\ Received(Submitted(resp.page.box)) = resp.page.box
    BY <2>2, SubmittedSame, SubmittedReceived DEF Tidy
  <2> QED BY <1>s, <1>e, <1>g, <2>1, <2>2, <2>3, AskedAgain
<1>7. CASE \E type \in {"json", "csv"} : FollowRaw(type)
  <2>1. PICK type \in {"json", "csv"} : FollowRaw(type)
    BY <1>7
  <2>2. Asks(resp.page.query, <<type>>, resp.page.graphs) /\ written' = Shown
        /\ narrowed' = narrowed /\ resp.page # None
    BY <2>1 DEF FollowRaw, Asks
  <2>3. About(Shown, resp.page.query) /\ resp.page.graphs = narrowed
    BY <2>2 DEF PageInv
  <2>4. resp.page.query \in Texts /\ About(Shown, Received(resp.page.query))
    BY <1>s, <2>3, AboutReceived DEF About
  <2>5. <<type>> \in Seq(Types)
    BY DEF Types, Results
  <2> QED BY <1>s, <1>g, <2>2, <2>3, <2>4, <2>5, AskedAgain
<1>8. CASE RunEdited(Default)
  <2>1. Asks(Submitted(Default), <<>>, resp.page.graphs) /\ written' = Default
        /\ narrowed' = narrowed /\ resp.page # None
    BY <1>8 DEF RunEdited, Asks
  <2>2. resp.page.graphs = narrowed
    BY <2>1 DEF PageInv
  <2>3. Submitted(Default) \in Texts /\ Received(Submitted(Default)) = Default
    BY <1>d, SubmittedSame, SubmittedReceived
  <2> QED BY <1>d, <1>e, <1>g, <2>1, <2>2, <2>3, AskedAgain
<1>9. CASE FollowSample(Default)
  <2>1. Asks(Default, <<>>, <<>>) /\ written' = Default /\ narrowed' = <<>>
    BY <1>9 DEF FollowSample
  <2> QED BY <1>d, <1>e, <2>1, AskedAgain
<1>10. CASE UNCHANGED vars
  BY <1>10 DEF vars, RequestInv, HistoryInv, ReceivedInv, ArgsInv, AskedInv, RefusedInv,
               PageInv, Answerable, Served, Carries, WantsPage, Shown
<1> QED BY <1>1, <1>2, <1>3, <1>4, <1>5, <1>6, <1>7, <1>8, <1>9, <1>10 DEF Next

LEMMA SparqlInvariant == Spec => []SparqlInv
BY SparqlInitially, SparqlStep, PTL DEF Spec

(* The kernel is asked under the form the grammar gives the query, and a query *)
(* of a read form is never refused for its form, whatever stands before its    *)
(* word but a comment that a carriage return on its own ends.                  *)
THEOREM FormAlwaysOfTheQuery == Spec => []FormOfTheQuery
<1>1. SparqlInv => FormOfTheQuery
  <2> SUFFICES ASSUME SparqlInv PROVE FormOfTheQuery
    OBVIOUS
  <2> USE DEF SparqlInv
  <2>1. \A text \in Texts : CutShort(text) \/ FormOf(text) \in {QueryForm(text), "malformed"}
    BY LexerReads DEF Texts
  <2>2. "none" \notin ReadForms /\ "malformed" \notin ReadForms
    BY DEF ReadForms
  <2>3. ASSUME asked # None
        PROVE  /\ asked.form \in ReadForms
               /\ CutShort(asked.query) \/ FormOf(asked.query) \in {asked.form, "malformed"}
    <3>1. asked.query \in Texts /\ asked.form = QueryForm(asked.query) /\ asked.form \in ReadForms
      BY <2>3 DEF AskedInv, About
    <3> QED BY <2>1, <3>1
  <2>4. ASSUME phase = "answered", Served, Query(args) # None, asked = None
        PROVE  CutShort(Query(args)) \/ FormOf(Query(args)) \notin ReadForms
    <3>1. Query(args) \in Texts /\ QueryForm(Query(args)) = "none"
      BY <2>4 DEF RefusedInv
    <3> QED BY <2>1, <2>2, <3>1
  <2> QED BY <2>3, <2>4 DEF FormOfTheQuery
<1> QED BY <1>1, SparqlInvariant, PTL

(* The graphs a chain of requests began with are those every query of it runs  *)
(* over, none lost on its way through a page's fields and links.               *)
THEOREM NarrowingAlwaysTravels == Spec => []NarrowingTravels
<1>1. SparqlInv => NarrowingTravels
  BY DEF SparqlInv, AskedInv, NarrowingTravels
<1> QED BY <1>1, SparqlInvariant, PTL

(* The query run is the one written, through line ends, textarea and links: to *)
(* the character, or up to its line ends if a carriage return stands on its    *)
(* own in it.                                                                  *)
THEOREM QueryAlwaysTravels == Spec => []QueryTravels
<1>1. SparqlInv => QueryTravels
  BY DEF SparqlInv, AskedInv, About, QueryTravels
<1> QED BY <1>1, SparqlInvariant, PTL

(* A client that spells no `as` is asked for in a type the form can answer in. *)
THEOREM AlwaysAnswerable == Spec => []Answerable
<1>1. SparqlInv => Answerable
  BY DEF SparqlInv
<1> QED BY <1>1, SparqlInvariant, PTL


===============================================================================
