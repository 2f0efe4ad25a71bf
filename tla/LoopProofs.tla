------------------------------ MODULE LoopProofs ----------------------------
(***************************************************************************)
(* Loops and sums: induction over the rounds of a loop and over the        *)
(* elements of a finite set, in a form without operator parameters; how    *)
(* sums are rearranged; and what the loop that plans an import computes.   *)
(***************************************************************************)
EXTENDS Import, FiniteSetTheorems, NaturalsInduction, WellFoundedInduction, TLAPS

\* A set of naturals that has 0, and with each number the next, is all of them.
LEMMA NatSet ==
    ASSUME NEW S, 0 \in S, \A n \in Nat : n \in S => n + 1 \in S
    PROVE  \A n \in Nat : n \in S
<1> DEFINE Below == {ss \in Nat \X Nat : ss[1] < ss[2]}
           Out == Nat \ S
<1> SUFFICES ASSUME Out # {} PROVE FALSE
  OBVIOUS
<1>1. IsWellFoundedOn(Below, Nat)
  BY NatLessThanWellFounded DEF OpToRel
<1>2. PICK x \in Out : \A y \in Out : ~ (<<y, x>> \in Below)
  <2>1. Out \in SUBSET Nat
    OBVIOUS
  <2> HIDE DEF Out, Below
  <2> QED
    BY <1>1, <2>1, WFMin
<1>3. x # 0 /\ x - 1 \in Nat
  OBVIOUS
<1>4. x - 1 \in Out
  BY <1>3
<1>5. <<x - 1, x>> \in Below
  BY <1>3
<1> QED
  BY <1>2, <1>4, <1>5

\* A value computed N times over from the one before, and the values it passes through.
IsLoop(step, N, V, a) == N \in Nat /\ a \in V /\ step \in [1 .. N -> [V -> V]]
Runs(step, N, V, a) == {f \in [0 .. N -> V] : f[0] = a /\ \A i \in 1 .. N : f[i] = step[i][f[i - 1]]}

LEMMA Iteration ==
    ASSUME NEW step, NEW N, NEW V, NEW a, IsLoop(step, N, V, a)
    PROVE  Runs(step, N, V, a) # {}
<1> USE DEF IsLoop
<1> DEFINE Good(n, f) == /\ f \in [0 .. n -> V] /\ f[0] = a
                         /\ \A i \in 1 .. n : f[i] = step[i][f[i - 1]]
           S == {n \in Nat : n <= N => \E f : Good(n, f)}
<1>1. 0 \in S
  <2>1. Good(0, [i \in 0 .. 0 |-> a])
    OBVIOUS
  <2> QED
    BY <2>1
<1>2. ASSUME NEW n \in Nat, n \in S PROVE n + 1 \in S
  <2> SUFFICES ASSUME n + 1 <= N PROVE \E f : Good(n + 1, f)
    OBVIOUS
  <2>1. PICK f : Good(n, f)
    BY <1>2
  <2> DEFINE g == [i \in 0 .. n + 1 |-> IF i <= n THEN f[i] ELSE step[n + 1][f[n]]]
  <2>2. step[n + 1][f[n]] \in V
    BY <2>1
  <2>3. g \in [0 .. n + 1 -> V] /\ g[0] = a
    BY <2>1, <2>2
  <2>4. ASSUME NEW i \in 1 .. n + 1 PROVE g[i] = step[i][g[i - 1]]
    <3>1. CASE i <= n
      BY <2>1, <3>1
    <3>2. CASE i = n + 1
      BY <3>2
    <3> QED
      BY <3>1, <3>2
  <2> QED
    BY <2>3, <2>4
<1> HIDE DEF S
<1>3. N \in S
  BY <1>1, <1>2, NatSet
<1> QED
  BY <1>3 DEF S, Runs

----------------\* A set has one element fewer when one is taken out.
LEMMA OneFewer ==
    ASSUME NEW T, IsFiniteSet(T), NEW x \in T
    PROVE  Cardinality(T) \in Nat /\ Cardinality(T) = Cardinality(T \ {x}) + 1 /\ Cardinality(T \ {x}) \in Nat
<1> DEFINE U == T \ {x}
<1>1. IsFiniteSet(U) /\ x \notin U /\ U \cup {x} = T
  BY FS_Subset
<1> HIDE DEF U
<1>2. Cardinality(U \cup {x}) = Cardinality(U) + 1 /\ Cardinality(U) \in Nat
  BY <1>1, FS_AddElement, FS_CardinalityType
<1>3. Cardinality(T) = Cardinality(U) + 1
  BY <1>1, <1>2, Zenon
<1>4. Cardinality(T) \in Nat
  BY <1>2, <1>3
<1> QED
  BY <1>2, <1>3, <1>4 DEF U

\* Induction over the subsets of a finite set.
LEMMA SetInduction ==
    ASSUME NEW S, IsFiniteSet(S), NEW P, {} \in P,
           \A T \in SUBSET S : \A x \in S \ T : T \in P => T \cup {x} \in P
    PROVE  \A T \in SUBSET S : T \in P
<1> DEFINE Q == {n \in Nat : \A T \in SUBSET S : Cardinality(T) = n => T \in P}
<1>1. \A T \in SUBSET S : IsFiniteSet(T) /\ Cardinality(T) \in Nat
  BY FS_Subset, FS_CardinalityType
<1>2. 0 \in Q
  <2>1. ASSUME NEW T \in SUBSET S, Cardinality(T) = 0 PROVE T \in P
    BY <1>1, <2>1, FS_EmptySet
  <2> QED
    BY <2>1
<1>3. ASSUME NEW n \in Nat, n \in Q PROVE n + 1 \in Q
  <2> SUFFICES ASSUME NEW T \in SUBSET S, Cardinality(T) = n + 1 PROVE T \in P
    OBVIOUS
  <2>1. IsFiniteSet(T) /\ T # {}
    BY <1>1, FS_EmptySet
  <2>2. PICK x \in T : TRUE
    BY <2>1
  <2>3. Cardinality(T \ {x}) = n
    BY <2>1, <2>2, OneFewer
  <2>4. T \ {x} \in P
    BY <1>3, <2>3
  <2>5. (T \ {x}) \cup {x} = T /\ x \in S \ (T \ {x}) /\ T \ {x} \in SUBSET S
    BY <2>2
  <2> QED
    BY <2>4, <2>5
<1> HIDE DEF Q
<1>4. \A n \in Nat : n \in Q
  BY <1>2, <1>3, NatSet
<1> QED
  BY <1>1, <1>4 DEF Q

----------------------------------------------------------------------------
\* Sums.  Folding adds the elements of a set up in the order CHOOSE takes them.

Added(f, s, g) == IF s = {} THEN 0 ELSE f[CHOOSE x \in s : TRUE] + g[s \ {CHOOSE x \in s : TRUE}]
Tallies(f, S) == {g \in [SUBSET S -> Int] : \A s \in SUBSET S : g[s] = Added(f, s, g)}
Summable(f, S) == IsFiniteSet(S) /\ \A x \in S : f[x] \in Int

LEMMA TallyExists ==
    ASSUME NEW f, NEW S, Summable(f, S)
    PROVE  Tallies(f, S) # {}
<1> DEFINE Maps == [SUBSET S -> Int]
           zero == [s \in SUBSET S |-> 0]
           Count == Cardinality(S) + 1
           Round == [i \in 1 .. Count |-> [g \in Maps |-> [s \in SUBSET S |-> Added(f, s, g)]]]
<1>1. Count \in Nat /\ IsFiniteSet(S)
  BY FS_CardinalityType DEF Summable
<1>2. ASSUME NEW g \in Maps, NEW s \in SUBSET S PROVE Added(f, s, g) \in Int
  <2>1. CASE s = {}
    BY <2>1 DEF Added
  <2>2. CASE s # {}
    <3>1. PICK x : x = (CHOOSE y \in s : TRUE) /\ x \in s
      BY <2>2
    <3>2. f[x] \in Int /\ g[s \ {x}] \in Int
      BY <3>1 DEF Summable
    <3> QED
      BY <2>2, <3>1, <3>2 DEF Added
  <2> QED
    BY <2>1, <2>2
<1>3. IsLoop(Round, Count, Maps, zero)
  <2>1. zero \in Maps
    OBVIOUS
  <2>2. \A g \in Maps : [s \in SUBSET S |-> Added(f, s, g)] \in Maps
    BY <1>2
  <2>3. Round \in [1 .. Count -> [Maps -> Maps]]
    <3> HIDE DEF Maps, Count
    <3> QED
      BY <2>2
  <2> HIDE DEF Maps, Count, zero, Round
  <2> QED
    BY <1>1, <2>1, <2>3 DEF IsLoop
<1>4. PICK F : /\ F \in [0 .. Count -> Maps] /\ F[0] = zero
               /\ \A i \in 1 .. Count : F[i] = Round[i][F[i - 1]]
  <2> HIDE DEF Count, Maps, zero, Round
  <2>2. PICK F \in Runs(Round, Count, Maps, zero) : TRUE
    BY <1>3, Iteration
  <2> QED
    BY <2>2 DEF Runs
<1>5. ASSUME NEW i \in 1 .. Count, NEW s \in SUBSET S PROVE F[i][s] = Added(f, s, F[i - 1])
  <2>1. F[i - 1] \in Maps
    BY <1>1, <1>4
  <2>2. F[i] = Round[i][F[i - 1]]
    BY <1>4
  <2> HIDE DEF Maps
  <2>3. F[i] = [t \in SUBSET S |-> Added(f, t, F[i - 1])]
    BY <2>1, <2>2
  <2> QED
    BY <2>3
<1> DEFINE Q == {n \in Nat : n + 1 <= Count =>
                    \A s \in SUBSET S : Cardinality(s) <= n => F[n + 1][s] = F[n][s]}
<1> HIDE DEF Count, Round
<1>6. \A s \in SUBSET S : IsFiniteSet(s) /\ Cardinality(s) \in Nat
  BY <1>1, FS_Subset, FS_CardinalityType
<1>7. 0 \in Q
  <2> SUFFICES ASSUME 1 <= Count, NEW s \in SUBSET S, Cardinality(s) <= 0 PROVE F[1][s] = F[0][s]
    OBVIOUS
  <2>1. s = {}
    BY <1>6, FS_EmptySet
  <2>2. F[1][s] = Added(f, s, F[0])
    BY <1>1, <1>5
  <2> QED
    BY <1>4, <2>1, <2>2 DEF Added
<1>8. ASSUME NEW n \in Nat, n \in Q PROVE n + 1 \in Q
  <2> SUFFICES ASSUME n + 2 <= Count, NEW s \in SUBSET S, Cardinality(s) <= n + 1
               PROVE  F[n + 2][s] = F[n + 1][s]
    OBVIOUS
  <2>1. F[n + 2][s] = Added(f, s, F[n + 1]) /\ F[n + 1][s] = Added(f, s, F[n])
    BY <1>1, <1>5
  <2>2. CASE s = {}
    BY <2>1, <2>2 DEF Added
  <2>3. CASE s # {}
    <3>1. PICK x : x = (CHOOSE y \in s : TRUE) /\ x \in s
      BY <2>3
    <3>2. Cardinality(s) = Cardinality(s \ {x}) + 1 /\ Cardinality(s \ {x}) \in Nat
      BY <1>6, <3>1, OneFewer
    <3>3. F[n + 1][s \ {x}] = F[n][s \ {x}]
      <4>1. Cardinality(s \ {x}) <= n /\ s \ {x} \in SUBSET S
        BY <3>2
      <4> QED
        BY <1>1, <1>8, <4>1
    <3> QED
      BY <2>1, <2>3, <3>1, <3>3 DEF Added
  <2> QED
    BY <2>2, <2>3
<1>9. \A n \in Nat : n \in Q
  <2> HIDE DEF Q
  <2> QED
    BY <1>7, <1>8, NatSet
<1>10. PICK n \in Nat : n = Cardinality(S) /\ n + 1 = Count
  BY <1>1, FS_CardinalityType DEF Count
<1>11. ASSUME NEW s \in SUBSET S PROVE F[n][s] = Added(f, s, F[n])
  <2>1. Cardinality(s) <= n
    BY <1>1, <1>10, FS_Subset
  <2>2. F[n + 1][s] = F[n][s]
    BY <1>6, <1>9, <1>10, <2>1
  <2> QED
    BY <1>5, <1>10, <2>2
<1>12. F[n] \in Tallies(f, S)
  <2>1. F[n] \in Maps
    BY <1>4, <1>10
  <2> QED
    BY <1>11, <2>1 DEF Tallies
<1> QED
  BY <1>12

\* The order does not matter: any element can be the one that is added last.
LEMMA TallyRemove ==
    ASSUME NEW f, NEW S, Summable(f, S), NEW g \in Tallies(f, S)
    PROVE  \A s \in SUBSET S : \A x \in s : g[s] = f[x] + g[s \ {x}]
<1> DEFINE Q == {n \in Nat : \A s \in SUBSET S : Cardinality(s) = n => \A x \in s : g[s] = f[x] + g[s \ {x}]}
<1>1. \A s \in SUBSET S : IsFiniteSet(s) /\ Cardinality(s) \in Nat
  BY FS_Subset, FS_CardinalityType DEF Summable
<1>2. \A s \in SUBSET S : g[s] = Added(f, s, g) /\ g[s] \in Int
  BY DEF Tallies
<1>3. 0 \in Q
  BY <1>1, FS_EmptySet
<1>4. ASSUME NEW n \in Nat, n \in Q PROVE n + 1 \in Q
  <2> SUFFICES ASSUME NEW s \in SUBSET S, Cardinality(s) = n + 1, NEW x \in s
               PROVE  g[s] = f[x] + g[s \ {x}]
    OBVIOUS
  <2>1. PICK c : c = (CHOOSE y \in s : TRUE) /\ c \in s
    OBVIOUS
  <2>2. g[s] = f[c] + g[s \ {c}]
    BY <1>2, <2>1 DEF Added
  <2>3. CASE x = c
    BY <2>2, <2>3
  <2>4. CASE x # c
    <3> DEFINE t == s \ {c}
               u == s \ {x}
               r == s \ {c, x}
    <3>1. /\ t \in SUBSET S /\ u \in SUBSET S /\ r \in SUBSET S
          /\ x \in t /\ c \in u /\ t \ {x} = r /\ u \ {c} = r
      BY <2>1, <2>4
    <3>2. Cardinality(t) = n /\ Cardinality(u) = n
      <4>1. /\ Cardinality(s) = Cardinality(s \ {c}) + 1 /\ Cardinality(s \ {c}) \in Nat
            /\ Cardinality(s) = Cardinality(s \ {x}) + 1 /\ Cardinality(s \ {x}) \in Nat
        BY <1>1, <2>1, OneFewer
      <4> QED
        BY <4>1
    <3> HIDE DEF t, u, r
    <3>3. g[t] = f[x] + g[r] /\ g[u] = f[c] + g[r]
      BY <1>4, <3>1, <3>2
    <3>4. f[x] \in Int /\ f[c] \in Int /\ g[r] \in Int
      BY <1>2, <2>1, <3>1 DEF Summable
    <3>5. g[s] = f[c] + g[t]
      BY <2>2 DEF t
    <3>6. \A i, j, k \in Int : i + (j + k) = j + (i + k)
      OBVIOUS
    <3>7. f[c] + (f[x] + g[r]) = f[x] + (f[c] + g[r])
      BY <3>4, <3>6
    <3>8. g[s] = f[x] + g[u]
      BY <3>3, <3>5, <3>7
    <3> QED
      BY <3>8 DEF u
  <2> QED
    BY <2>3, <2>4
<1> HIDE DEF Q
<1>5. \A n \in Nat : n \in Q
  BY <1>3, <1>4, NatSet
<1> QED
  BY <1>1, <1>5 DEF Q

\* Functions that agree on a set have the same sums within it.
LEMMA TallySame ==
    ASSUME NEW f, NEW S, Summable(f, S), NEW g \in Tallies(f, S),
           NEW e, NEW T, T \subseteq S, \A x \in T : e[x] = f[x], NEW h \in Tallies(e, T)
    PROVE  \A s \in SUBSET T : g[s] = h[s]
<1> DEFINE P == {s \in SUBSET T : g[s] = h[s]}
<1>1. Summable(e, T)
  BY FS_Subset DEF Summable
<1>2. {} \in P
  BY DEF Tallies, Added
<1>3. ASSUME NEW s \in SUBSET T, NEW x \in T \ s, s \in P PROVE s \cup {x} \in P
  <2>1. PICK t : t = s \cup {x}
    OBVIOUS
  <2>2. t \in SUBSET T /\ t \in SUBSET S /\ x \in t /\ t \ {x} = s
    BY <2>1
  <2>3. g[t] = f[x] + g[s] /\ h[t] = e[x] + h[s]
    BY <1>1, <2>2, TallyRemove
  <2> QED
    BY <1>3, <2>1, <2>2, <2>3
<1> HIDE DEF P
<1>4. \A s \in SUBSET T : s \in P
  BY <1>1, <1>2, <1>3, SetInduction DEF Summable
<1> QED
  BY <1>4 DEF P

LEMMA SumIsTally ==
    ASSUME NEW f, NEW S, Summable(f, S)
    PROVE  \E g \in Tallies(f, S) : SumFunctionOnSet(f, S) = g[S]
<1> DEFINE Is(g) == g = [s \in SUBSET S |->
                            IF s = {} THEN 0
                            ELSE f[CHOOSE x \in s : TRUE] + g[s \ {CHOOSE x \in s : TRUE}]]
<1>1. PICK t \in Tallies(f, S) : TRUE
  BY TallyExists
<1>2. Is(t)
  BY SMT DEF Tallies, Added
<1>3. \E h : Is(h) /\ SumFunctionOnSet(f, S) = h[S]
  BY <1>2, Zenon DEF SumFunctionOnSet, FoldFunctionOnSet, MapThenFoldSet
<1>4. PICK h : Is(h) /\ SumFunctionOnSet(f, S) = h[S]
  BY <1>3
<1>5. DOMAIN h = SUBSET S /\ \A s \in SUBSET S : h[s] = Added(f, s, h)
  BY <1>4, SMT DEF Added
<1> HIDE DEF Is
<1> DEFINE P == {s \in SUBSET S : h[s] \in Int}
<1>6. {} \in P
  BY <1>5 DEF Added
<1> DEFINE Q == {n \in Nat : \A s \in SUBSET S : Cardinality(s) = n => h[s] \in Int}
<1>7. \A s \in SUBSET S : IsFiniteSet(s) /\ Cardinality(s) \in Nat
  BY FS_Subset, FS_CardinalityType DEF Summable
<1>8. 0 \in Q
  BY <1>6, <1>7, FS_EmptySet
<1>9. ASSUME NEW n \in Nat, n \in Q PROVE n + 1 \in Q
  <2> SUFFICES ASSUME NEW s \in SUBSET S, Cardinality(s) = n + 1 PROVE h[s] \in Int
    OBVIOUS
  <2>1. s # {}
    BY <1>7, FS_EmptySet
  <2>2. PICK c : c = (CHOOSE y \in s : TRUE) /\ c \in s
    BY <2>1
  <2>3. h[s] = f[c] + h[s \ {c}]
    BY <1>5, <2>1, <2>2 DEF Added
  <2>4. Cardinality(s \ {c}) = n /\ s \ {c} \in SUBSET S
    <3>1. Cardinality(s) = Cardinality(s \ {c}) + 1 /\ Cardinality(s \ {c}) \in Nat
      BY <1>7, <2>2, OneFewer
    <3> QED
      BY <3>1
  <2> QED
    BY <1>9, <2>2, <2>3, <2>4 DEF Summable
<1>10. \A n \in Nat : n \in Q
  <2> HIDE DEF Q
  <2> QED
    BY <1>8, <1>9, NatSet
<1>11. \A s \in SUBSET S : h[s] \in Int
  BY <1>7, <1>10
<1>12. h \in [SUBSET S -> Int]
  <2>1. h = [s \in SUBSET S |-> h[s]]
    BY <1>4, SMT DEF Is
  <2> QED
    BY <1>11, <2>1
<1>13. h \in Tallies(f, S)
  BY <1>5, <1>12 DEF Tallies
<1> QED
  BY <1>4, <1>13

\* What a sum over a finite set is, element by element.
LEMMA SumRemove ==
    ASSUME NEW f, NEW S, Summable(f, S)
    PROVE  /\ SumFunctionOnSet(f, S) \in Int
           /\ S = {} => SumFunctionOnSet(f, S) = 0
           /\ \A x \in S : SumFunctionOnSet(f, S) = f[x] + SumFunctionOnSet(f, S \ {x})
<1>1. PICK g \in Tallies(f, S) : SumFunctionOnSet(f, S) = g[S]
  BY SumIsTally
<1>2. g[S] \in Int /\ g[S] = Added(f, S, g)
  BY DEF Tallies
<1>3. S = {} => g[S] = 0
  BY <1>2 DEF Added
<1>4. ASSUME NEW x \in S PROVE SumFunctionOnSet(f, S) = f[x] + SumFunctionOnSet(f, S \ {x})
  <2>1. PICK T : T = S \ {x}
    OBVIOUS
  <2>2. Summable(f, T) /\ T \subseteq S
    BY <2>1, FS_Subset DEF Summable
  <2>3. PICK h \in Tallies(f, T) : SumFunctionOnSet(f, T) = h[T]
    BY <2>2, SumIsTally
  <2>4. g[T] = h[T]
    BY <2>2, TallySame
  <2>5. g[S] = f[x] + g[T]
    BY <2>1, TallyRemove
  <2> QED
    BY <1>1, <2>1, <2>3, <2>4, <2>5
<1> QED
  BY <1>1, <1>2, <1>3, <1>4

LEMMA SumAdd ==
    ASSUME NEW f, NEW S, NEW x, Summable(f, S \cup {x}), x \notin S
    PROVE  /\ SumFunctionOnSet(f, S \cup {x}) = f[x] + SumFunctionOnSet(f, S)
           /\ SumFunctionOnSet(f, S) \in Int /\ f[x] \in Int
<1>1. PICK T : T = S \cup {x}
  OBVIOUS
<1>2. Summable(f, T) /\ x \in T /\ T \ {x} = S
  BY <1>1
<1>3. Summable(f, S)
  BY <1>1, FS_Subset DEF Summable
<1>4. SumFunctionOnSet(f, T) = f[x] + SumFunctionOnSet(f, T \ {x})
  BY <1>2, SumRemove
<1>5. SumFunctionOnSet(f, S) \in Int
  BY <1>3, SumRemove
<1> QED
  BY <1>1, <1>2, <1>4, <1>5 DEF Summable

LEMMA SumAgree ==
    ASSUME NEW f, NEW e, NEW S, Summable(f, S), \A x \in S : e[x] = f[x]
    PROVE  SumFunctionOnSet(e, S) = SumFunctionOnSet(f, S)
<1>1. Summable(e, S)
  BY DEF Summable
<1>2. PICK g \in Tallies(f, S) : SumFunctionOnSet(f, S) = g[S]
  BY SumIsTally
<1>3. PICK h \in Tallies(e, S) : SumFunctionOnSet(e, S) = h[S]
  BY <1>1, SumIsTally
<1> QED
  BY <1>2, <1>3, TallySame

LEMMA SumUnion ==
    ASSUME NEW f, NEW S, NEW T, Summable(f, S), Summable(f, T), S \cap T = {}
    PROVE  SumFunctionOnSet(f, S \cup T) = SumFunctionOnSet(f, S) + SumFunctionOnSet(f, T)
<1> DEFINE Sum(X) == SumFunctionOnSet(f, X)
           P == {U \in SUBSET T : Sum(S \cup U) = Sum(S) + Sum(U)}
<1>1. {} \in P
  <2>1. S \cup {} = S
    OBVIOUS
  <2>2. Summable(f, {})
    BY FS_EmptySet DEF Summable
  <2>3. Sum({}) = 0 /\ Sum(S) \in Int
    BY <2>2, SumRemove
  <2> HIDE DEF Sum
  <2> QED
    BY <2>1, <2>3
<1>2. ASSUME NEW U \in SUBSET T, NEW x \in T \ U, U \in P PROVE U \cup {x} \in P
  <2>1. PICK A : A = S \cup U
    OBVIOUS
  <2>2. S \cup (U \cup {x}) = A \cup {x} /\ x \notin A
    BY <2>1
  <2>3. Summable(f, A \cup {x}) /\ Summable(f, U \cup {x}) /\ Summable(f, U)
    <3>1. IsFiniteSet(S \cup T)
      BY FS_Union DEF Summable
    <3>2. A \cup {x} \subseteq S \cup T /\ U \cup {x} \subseteq S \cup T /\ U \subseteq S \cup T
      BY <2>1
    <3> QED
      BY <3>1, <3>2, FS_Subset DEF Summable
  <2>4. Sum(A \cup {x}) = f[x] + Sum(A) /\ Sum(U \cup {x}) = f[x] + Sum(U) /\ f[x] \in Int
    BY <2>2, <2>3, SumAdd
  <2>5. Sum(S) \in Int /\ Sum(U) \in Int
    BY <2>3, SumRemove
  <2>6. Sum(A) = Sum(S) + Sum(U)
    BY <1>2, <2>1
  <2>7. \A i, j, k \in Int : i + (j + k) = j + (i + k)
    OBVIOUS
  <2> HIDE DEF Sum
  <2>8. Sum(A \cup {x}) = Sum(S) + Sum(U \cup {x})
    BY <2>4, <2>5, <2>6, <2>7
  <2> QED
    BY <2>2, <2>8
<1> HIDE DEF P
<1>3. T \in P
  BY <1>1, <1>2, SetInduction DEF Summable
<1> QED
  BY <1>3 DEF P

\* Term by term.
LEMMA SumMinus ==
    ASSUME NEW f, NEW e, NEW h, NEW S, Summable(f, S), Summable(e, S),
           \A x \in S : h[x] = f[x] - e[x]
    PROVE  SumFunctionOnSet(h, S) = SumFunctionOnSet(f, S) - SumFunctionOnSet(e, S)
<1> DEFINE Sum(k, X) == SumFunctionOnSet(k, X)
           P == {U \in SUBSET S : Sum(h, U) = Sum(f, U) - Sum(e, U)}
<1>1. Summable(h, S)
  BY DEF Summable
<1>2. {} \in P
  <2>1. Summable(f, {})
    BY FS_EmptySet DEF Summable
  <2>2. Summable(e, {}) /\ Summable(h, {})
    BY FS_EmptySet DEF Summable
  <2>3. Sum(f, {}) = 0 /\ Sum(e, {}) = 0 /\ Sum(h, {}) = 0
    BY <2>1, <2>2, SumRemove
  <2> HIDE DEF Sum
  <2> QED
    BY <2>3
<1>3. ASSUME NEW U \in SUBSET S, NEW x \in S \ U, U \in P PROVE U \cup {x} \in P
  <2>1. Summable(f, U \cup {x}) /\ Summable(e, U \cup {x}) /\ Summable(h, U \cup {x})
    <3>1. IsFiniteSet(U \cup {x})
      BY FS_Subset DEF Summable
    <3> QED
      BY <1>1, <3>1 DEF Summable
  <2>2. /\ Sum(f, U \cup {x}) = f[x] + Sum(f, U) /\ f[x] \in Int /\ Sum(f, U) \in Int
        /\ Sum(e, U \cup {x}) = e[x] + Sum(e, U) /\ e[x] \in Int /\ Sum(e, U) \in Int
        /\ Sum(h, U \cup {x}) = h[x] + Sum(h, U)
    BY <2>1, SumAdd
  <2>3. Sum(h, U) = Sum(f, U) - Sum(e, U) /\ h[x] = f[x] - e[x]
    BY <1>3
  <2>4. \A i, j, k, l \in Int : (i - j) + (k - l) = (i + k) - (j + l)
    OBVIOUS
  <2> HIDE DEF Sum
  <2>5. Sum(h, U \cup {x}) = Sum(f, U \cup {x}) - Sum(e, U \cup {x})
    BY <2>2, <2>3, <2>4
  <2> QED
    BY <2>5
<1> HIDE DEF P
<1>4. S \in P
  BY <1>2, <1>3, SetInduction DEF Summable
<1> QED
  BY <1>4 DEF P

LEMMA SumNegated ==
    ASSUME NEW f, NEW e, NEW S, Summable(f, S), \A x \in S : e[x] = -f[x]
    PROVE  SumFunctionOnSet(e, S) = -SumFunctionOnSet(f, S)
<1> DEFINE zero == [x \in S |-> 0]
<1>1. \A x \in S : zero[x] = f[x] - f[x] /\ e[x] = zero[x] - f[x]
  BY DEF Summable
<1>2. Summable(zero, S)
  BY DEF Summable
<1> HIDE DEF zero
<1>3. PICK n \in Int : n = SumFunctionOnSet(f, S)
  BY SumRemove
<1>4. SumFunctionOnSet(zero, S) = SumFunctionOnSet(f, S) - SumFunctionOnSet(f, S)
  BY <1>1, SumMinus
<1>5. SumFunctionOnSet(e, S) = SumFunctionOnSet(zero, S) - SumFunctionOnSet(f, S)
  BY <1>1, <1>2, SumMinus
<1> QED
  BY <1>3, <1>4, <1>5

\* Filed under keys and added up key by key, the same amounts come to the same.
Filed(f, S, key, K, w) ==
    /\ Summable(f, S) /\ IsFiniteSet(K)
    /\ \A x \in S : key[x] \in K
    /\ \A k \in K : w[k] = SumFunctionOnSet(f, {x \in S : key[x] = k})

LEMMA SumFibres ==
    ASSUME NEW f, NEW S, NEW key, NEW K, NEW w, Filed(f, S, key, K, w)
    PROVE  SumFunctionOnSet(w, K) = SumFunctionOnSet(f, S)
<1> USE DEF Filed
<1> DEFINE Sum(h, X) == SumFunctionOnSet(h, X)
           Under(L) == {x \in S : key[x] \in L}
           Fibre(k) == {x \in S : key[x] = k}
           P == {L \in SUBSET K : Sum(w, L) = Sum(f, Under(L))}
<1>1. \A X \in SUBSET S : Summable(f, X)
  BY FS_Subset DEF Summable
<1>2. Summable(w, K)
  <2>1. \A k \in K : w[k] \in Int
    BY <1>1, SumRemove
  <2> QED
    BY <2>1 DEF Summable
<1>3. {} \in P
  <2>1. Under({}) = {}
    OBVIOUS
  <2>2. Summable(w, {}) /\ Summable(f, {})
    BY FS_EmptySet DEF Summable
  <2>3. Sum(w, {}) = 0 /\ Sum(f, {}) = 0
    BY <2>2, SumRemove
  <2> HIDE DEF Sum, Under
  <2> QED
    BY <2>1, <2>3
<1>4. ASSUME NEW L \in SUBSET K, NEW k \in K \ L, L \in P PROVE L \cup {k} \in P
  <2>1. Summable(w, L \cup {k})
    <3>1. IsFiniteSet(L \cup {k})
      BY FS_Subset
    <3> QED
      BY <1>2, <3>1 DEF Summable
  <2>2. Sum(w, L \cup {k}) = w[k] + Sum(w, L) /\ w[k] \in Int /\ Sum(w, L) \in Int
    BY <2>1, SumAdd
  <2>3. Under(L \cup {k}) = Fibre(k) \cup Under(L) /\ Fibre(k) \cap Under(L) = {}
    OBVIOUS
  <2>4. Summable(f, Fibre(k)) /\ Summable(f, Under(L))
    <3>1. Fibre(k) \in SUBSET S /\ Under(L) \in SUBSET S
      OBVIOUS
    <3> QED
      BY <1>1, <3>1
  <2>5. w[k] = Sum(f, Fibre(k)) /\ Sum(w, L) = Sum(f, Under(L))
    BY <1>4
  <2> HIDE DEF Fibre, Under
  <2>6. Sum(f, Fibre(k) \cup Under(L)) = Sum(f, Fibre(k)) + Sum(f, Under(L))
    BY <2>3, <2>4, SumUnion
  <2> HIDE DEF Sum
  <2>7. Sum(w, L \cup {k}) = Sum(f, Under(L \cup {k}))
    BY <2>2, <2>3, <2>5, <2>6
  <2> QED
    BY <2>7
<1>5. Under(K) = S
  OBVIOUS
<1> HIDE DEF P
<1>6. K \in P
  BY <1>3, <1>4, SetInduction
<1> HIDE DEF Under
<1> QED
  BY <1>5, <1>6 DEF P

------------------------------------------------------------
\* The plan for importing a statement.

\* What a line of a statement holds, whatever its texts are.
Readable(line) ==
    /\ line.blank \in BOOLEAN
    /\ line.first \in Nat /\ line.second \in Nat /\ line.year \in Nat
    /\ line.amount \in Int \cup {Null}

Plans(Keys, Rows) == [seen : SUBSET Keys, ready : Seq(Rows), duplicates : Nat, failed : Nat]

LEMMA PlanLineType ==
    ASSUME NEW line, NEW dayFirst, NEW Keys, NEW Rows,
           PlannedRow(line, dayFirst) \in Rows, duplicateKey(PlannedRow(line, dayFirst)) \in Keys,
           NEW plan \in Plans(Keys, Rows)
    PROVE  planLine(plan, line, dayFirst) \in Plans(Keys, Rows)
<1> DEFINE row == PlannedRow(line, dayFirst)
           key == duplicateKey(row)
<1>1. /\ plan.seen \in SUBSET Keys /\ plan.ready \in Seq(Rows)
      /\ plan.duplicates \in Nat /\ plan.failed \in Nat
  BY DEF Plans
<1> HIDE DEF row, key
<1>2. Append(plan.ready, row) \in Seq(Rows) /\ plan.seen \cup {key} \in SUBSET Keys
  BY <1>1 DEF row, key
<1>3. \/ planLine(plan, line, dayFirst) = plan
      \/ planLine(plan, line, dayFirst) = [plan EXCEPT !.failed = @ + 1]
      \/ planLine(plan, line, dayFirst) = [plan EXCEPT !.duplicates = @ + 1]
      \/ planLine(plan, line, dayFirst) =
            [seen |-> plan.seen \cup {key}, ready |-> Append(plan.ready, row),
             duplicates |-> plan.duplicates, failed |-> plan.failed]
  BY DEF planLine, row, key
<1> HIDE DEF row, key
<1>4. ASSUME planLine(plan, line, dayFirst) = [plan EXCEPT !.failed = @ + 1]
      PROVE  planLine(plan, line, dayFirst) \in Plans(Keys, Rows)
  BY <1>1, <1>4 DEF Plans
<1>5. ASSUME planLine(plan, line, dayFirst) = [plan EXCEPT !.duplicates = @ + 1]
      PROVE  planLine(plan, line, dayFirst) \in Plans(Keys, Rows)
  BY <1>1, <1>5 DEF Plans
<1>6. [seen |-> plan.seen \cup {key}, ready |-> Append(plan.ready, row),
       duplicates |-> plan.duplicates, failed |-> plan.failed] \in Plans(Keys, Rows)
  BY <1>1, <1>2 DEF Plans
<1> QED
  BY <1>3, <1>4, <1>5, <1>6, Zenon

LEMMA PlanUnfold ==
    ASSUME NEW lines, Len(lines) \in Nat, NEW dayFirst, NEW existing, NEW Keys, NEW Rows,
           existing \subseteq Keys,
           \A i \in 1 .. Len(lines) : /\ PlannedRow(lines[i], dayFirst) \in Rows
                                      /\ duplicateKey(PlannedRow(lines[i], dayFirst)) \in Keys
    PROVE  LET f == planUpto(lines, dayFirst, existing) IN
           /\ f \in [0 .. Len(lines) -> Plans(Keys, Rows)]
           /\ f[0] = [seen |-> existing, ready |-> <<>>, duplicates |-> 0, failed |-> 0]
           /\ \A i \in 1 .. Len(lines) : f[i] = planLine(f[i - 1], lines[i], dayFirst)
<1> DEFINE Rounds == Len(lines)
           States == Plans(Keys, Rows)
           start == [seen |-> existing, ready |-> <<>>, duplicates |-> 0, failed |-> 0]
           Round == [i \in 1 .. Rounds |-> [s \in States |-> planLine(s, lines[i], dayFirst)]]
<1>1. Rounds \in Nat
  OBVIOUS
<1>2. start \in States
  BY DEF Plans
<1>3. Round \in [1 .. Rounds -> [States -> States]]
  BY PlanLineType
<1>4. PICK f : /\ f \in [0 .. Rounds -> States] /\ f[0] = start
               /\ \A i \in 1 .. Rounds : f[i] = Round[i][f[i - 1]]
  <2>1. IsLoop(Round, Rounds, States, start)
    BY <1>1, <1>2, <1>3 DEF IsLoop
  <2> HIDE DEF Rounds, States, start, Round
  <2>2. PICK f \in Runs(Round, Rounds, States, start) : TRUE
    BY <2>1, Iteration
  <2> QED
    BY <2>2 DEF Runs
<1>5. \A i \in 1 .. Rounds : f[i] = planLine(f[i - 1], lines[i], dayFirst)
  <2> SUFFICES ASSUME NEW i \in 1 .. Rounds PROVE f[i] = planLine(f[i - 1], lines[i], dayFirst)
    OBVIOUS
  <2>1. f[i - 1] \in States
    BY <1>4
  <2> HIDE DEF States
  <2> QED
    BY <1>4, <2>1
<1>6. f = [i \in 0 .. Rounds |-> IF i = 0 THEN start ELSE planLine(f[i - 1], lines[i], dayFirst)]
  <2> HIDE DEF States, start
  <2> QED
    BY <1>4, <1>5
<1> DEFINE F == planUpto(lines, dayFirst, existing)
<1>7. F = [i \in 0 .. Rounds |-> IF i = 0 THEN start ELSE planLine(F[i - 1], lines[i], dayFirst)]
  BY <1>6, Zenon DEF planUpto
<1> HIDE DEF F, States, start
<1>8. F[0] = start /\ \A i \in 1 .. Rounds : F[i] = planLine(F[i - 1], lines[i], dayFirst)
  BY <1>7
<1> DEFINE S == {j \in Nat : j <= Rounds => F[j] \in States}
<1>9. \A i \in Nat : i \in S
  <2>1. 0 \in S
    BY <1>2, <1>8
  <2>2. ASSUME NEW j \in Nat, j \in S PROVE j + 1 \in S
    <3> SUFFICES ASSUME j + 1 <= Rounds PROVE F[j + 1] \in States
      OBVIOUS
    <3>1. F[j + 1] = planLine(F[j], lines[j + 1], dayFirst) /\ F[j] \in States
      BY <1>8, <2>2
    <3> QED
      BY <3>1, PlanLineType DEF States
  <2> HIDE DEF S
  <2> QED
    BY <2>1, <2>2, NatSet
<1>10. F \in [0 .. Rounds -> States]
  BY <1>7, <1>9
<1> QED
  BY <1>8, <1>10 DEF F, States, start

\* The plan's loop, whatever the file and the ledger.
LEMMA PlanRounds ==
    ASSUME NEW lines, Len(lines) \in Nat, NEW dayFirst, NEW existing
    PROVE  LET f == planUpto(lines, dayFirst, existing)
               Rows == {PlannedRow(lines[i], dayFirst) : i \in 1 .. Len(lines)}
               Keys == existing \cup {duplicateKey(r) : r \in Rows}
           IN  /\ f \in [0 .. Len(lines) -> Plans(Keys, Rows)]
               /\ f[0] = [seen |-> existing, ready |-> <<>>, duplicates |-> 0, failed |-> 0]
               /\ \A i \in 1 .. Len(lines) : f[i] = planLine(f[i - 1], lines[i], dayFirst)
<1> DEFINE Rows == {PlannedRow(lines[i], dayFirst) : i \in 1 .. Len(lines)}
           Keys == existing \cup {duplicateKey(r) : r \in Rows}
<1>1. \A i \in 1 .. Len(lines) : /\ PlannedRow(lines[i], dayFirst) \in Rows
                                 /\ duplicateKey(PlannedRow(lines[i], dayFirst)) \in Keys
  OBVIOUS
<1>2. existing \subseteq Keys
  OBVIOUS
<1> DEFINE f == planUpto(lines, dayFirst, existing)
<1> HIDE DEF Rows, Keys
<1>3. /\ f \in [0 .. Len(lines) -> Plans(Keys, Rows)]
      /\ f[0] = [seen |-> existing, ready |-> <<>>, duplicates |-> 0, failed |-> 0]
      /\ \A i \in 1 .. Len(lines) : f[i] = planLine(f[i - 1], lines[i], dayFirst)
  BY <1>1, <1>2, PlanUnfold
<1> HIDE DEF f
<1> QED
  BY <1>3, Zenon DEF Rows, Keys, f

\* Whether line i of a statement has a row to give, and the key it is known by.
Gives(lines, dayFirst, i) == ~lines[i].blank /\ ~Fails(lines[i], dayFirst)
KeyOf(lines, dayFirst, i) == duplicateKey(PlannedRow(lines[i], dayFirst))
KeysOf(ready) == {duplicateKey(ready[k]) : k \in DOMAIN ready}

\* What planImport gives for any file and any ledger: the rows to write have keys of their
\* own, which the ledger has not, they come from lines that give a row, and every such
\* line has its key in the ledger or among them.
LEMMA PlanKeeps ==
    ASSUME NEW lines, Len(lines) \in Nat, NEW dayFirst, NEW existing
    PROVE  LET ready == planImport(lines, dayFirst, existing).ready IN
           /\ Len(ready) \in Nat /\ DOMAIN ready = 1 .. Len(ready)
           /\ \A j, k \in DOMAIN ready : duplicateKey(ready[j]) = duplicateKey(ready[k]) => j = k
           /\ \A k \in DOMAIN ready :
                /\ duplicateKey(ready[k]) \notin existing
                /\ \E i \in 1 .. Len(lines) : /\ Gives(lines, dayFirst, i)
                                              /\ ready[k] = PlannedRow(lines[i], dayFirst)
           /\ \A i \in 1 .. Len(lines) : Gives(lines, dayFirst, i) =>
                KeyOf(lines, dayFirst, i) \in existing \cup KeysOf(ready)
<1> DEFINE Rows == {PlannedRow(lines[i], dayFirst) : i \in 1 .. Len(lines)}
           Keys == existing \cup {duplicateKey(r) : r \in Rows}
           F == planUpto(lines, dayFirst, existing)
           Kept(s, n) ==
            /\ \A j, k \in DOMAIN s.ready : duplicateKey(s.ready[j]) = duplicateKey(s.ready[k]) => j = k
            /\ \A k \in DOMAIN s.ready :
                /\ duplicateKey(s.ready[k]) \in s.seen \ existing
                /\ \E i \in 1 .. Len(lines) : /\ Gives(lines, dayFirst, i)
                                              /\ s.ready[k] = PlannedRow(lines[i], dayFirst)
            /\ s.seen = existing \cup KeysOf(s.ready)
            /\ \A i \in 1 .. n : Gives(lines, dayFirst, i) => KeyOf(lines, dayFirst, i) \in s.seen
           S == {n \in Nat : n <= Len(lines) => Kept(F[n], n)}
<1>1. /\ F \in [0 .. Len(lines) -> Plans(Keys, Rows)]
      /\ F[0] = [seen |-> existing, ready |-> <<>>, duplicates |-> 0, failed |-> 0]
      /\ \A i \in 1 .. Len(lines) : F[i] = planLine(F[i - 1], lines[i], dayFirst)
  BY PlanRounds
<1> HIDE DEF F, Rows, Keys
<1>2. 0 \in S
  <2>1. Kept(F[0], 0)
    BY <1>1 DEF KeysOf
  <2> QED
    BY <2>1
<1>3. ASSUME NEW n \in Nat, n \in S PROVE n + 1 \in S
  <2> SUFFICES ASSUME n + 1 <= Len(lines) PROVE Kept(F[n + 1], n + 1)
    OBVIOUS
  <2> DEFINE s == F[n]
             t == F[n + 1]
             row == PlannedRow(lines[n + 1], dayFirst)
             key == duplicateKey(row)
  <2>1. t = planLine(s, lines[n + 1], dayFirst) /\ s \in Plans(Keys, Rows) /\ Kept(s, n)
    BY <1>1, <1>3
  <2>2. s.ready \in Seq(Rows)
    BY <2>1 DEF Plans
  <2>3. n + 1 \in 1 .. Len(lines) /\ \A i \in 1 .. n + 1 : i \in 1 .. n \/ i = n + 1
    OBVIOUS
  <2> HIDE DEF s, t
  <2>4. CASE ~Gives(lines, dayFirst, n + 1)
    <3>1. t.seen = s.seen /\ t.ready = s.ready
      BY <2>1, <2>4 DEF planLine, Gives, Plans
    <3> QED
      BY <2>1, <2>3, <2>4, <3>1 DEF t
  <2>5. CASE Gives(lines, dayFirst, n + 1) /\ key \in s.seen
    <3>1. t.seen = s.seen /\ t.ready = s.ready
      BY <2>1, <2>5 DEF planLine, Gives, Plans
    <3> QED
      BY <2>1, <2>3, <2>5, <3>1 DEF t, KeyOf
  <2>6. CASE Gives(lines, dayFirst, n + 1) /\ key \notin s.seen
    <3> HIDE DEF row
    <3>1. t.seen = s.seen \cup {key} /\ t.ready = Append(s.ready, row)
      BY <2>1, <2>6 DEF planLine, Gives, row
    <3> HIDE DEF key
    <3>2. /\ Len(s.ready) \in Nat /\ DOMAIN s.ready = 1 .. Len(s.ready)
          /\ DOMAIN t.ready = 1 .. Len(s.ready) + 1
          /\ \A k \in DOMAIN s.ready : t.ready[k] = s.ready[k]
          /\ t.ready[Len(s.ready) + 1] = row
      BY <2>2, <3>1
    <3>3. key = duplicateKey(row) /\ key = KeyOf(lines, dayFirst, n + 1)
      BY DEF key, row, KeyOf
    <3>4. \A j, k \in DOMAIN t.ready : duplicateKey(t.ready[j]) = duplicateKey(t.ready[k]) => j = k
      <4>1. \A k \in DOMAIN s.ready : duplicateKey(t.ready[k]) \in s.seen
        BY <2>1, <3>2
      <4>2. duplicateKey(t.ready[Len(s.ready) + 1]) \notin s.seen
        BY <2>6, <3>2, <3>3
      <4>3. \A k \in DOMAIN t.ready : k \in DOMAIN s.ready \/ k = Len(s.ready) + 1
        BY <3>2
      <4>4. \A j, k \in DOMAIN s.ready : duplicateKey(t.ready[j]) = duplicateKey(t.ready[k]) => j = k
        BY <2>1, <3>2
      <4> QED
        BY <4>1, <4>2, <4>3, <4>4, Zenon
    <3>5. ASSUME NEW k \in DOMAIN t.ready
          PROVE  /\ duplicateKey(t.ready[k]) \in t.seen \ existing
                 /\ \E i \in 1 .. Len(lines) : /\ Gives(lines, dayFirst, i)
                                               /\ t.ready[k] = PlannedRow(lines[i], dayFirst)
      <4>1. CASE k \in DOMAIN s.ready
        BY <2>1, <3>1, <3>2, <4>1
      <4>2. CASE k = Len(s.ready) + 1
        BY <2>1, <2>3, <2>6, <3>1, <3>2, <3>3, <4>2 DEF row
      <4> QED
        BY <3>2, <4>1, <4>2
    <3>6. t.seen = existing \cup KeysOf(t.ready)
      <4>1. KeysOf(t.ready) = KeysOf(s.ready) \cup {key}
        <5>1. DOMAIN t.ready = DOMAIN s.ready \cup {Len(s.ready) + 1}
          BY <3>2
        <5>2. \A x : x \in KeysOf(t.ready) <=> \E k \in DOMAIN t.ready : x = duplicateKey(t.ready[k])
          BY DEF KeysOf
        <5>3. \A x : x \in KeysOf(s.ready) <=> \E k \in DOMAIN s.ready : x = duplicateKey(s.ready[k])
          BY DEF KeysOf
        <5>4. \A k \in DOMAIN s.ready : duplicateKey(t.ready[k]) = duplicateKey(s.ready[k])
          BY <3>2
        <5>5. duplicateKey(t.ready[Len(s.ready) + 1]) = key
          BY <3>2, <3>3
        <5>6. \A x : x \in KeysOf(t.ready) <=> x \in KeysOf(s.ready) \cup {key}
          BY <5>1, <5>2, <5>3, <5>4, <5>5, Zenon
        <5> QED
          BY <5>6
      <4> QED
        BY <2>1, <3>1, <4>1
    <3>7. \A i \in 1 .. n + 1 : Gives(lines, dayFirst, i) => KeyOf(lines, dayFirst, i) \in t.seen
      BY <2>1, <2>3, <3>1, <3>3
    <3> QED
      BY <3>4, <3>5, <3>6, <3>7 DEF t
  <2> QED
    BY <2>4, <2>5, <2>6
<1> HIDE DEF S
<1>4. Len(lines) \in S
  BY <1>2, <1>3, NatSet
<1>5. Kept(F[Len(lines)], Len(lines)) /\ F[Len(lines)] \in Plans(Keys, Rows)
  BY <1>1, <1>4 DEF S
<1>6. F[Len(lines)].ready \in Seq(Rows)
  BY <1>5 DEF Plans
<1>7. planImport(lines, dayFirst, existing) = F[Len(lines)]
  BY DEF planImport, F
<1> QED
  BY <1>5, <1>6, <1>7

\* Every line is accounted for: blank, ready, a duplicate or failed.
LEMMA PlanCounts ==
    ASSUME NEW lines, Len(lines) \in Nat, NEW dayFirst, NEW existing
    PROVE  LET plan == planImport(lines, dayFirst, existing) IN
           Cardinality({i \in 1 .. Len(lines) : lines[i].blank})
                + Len(plan.ready) + plan.duplicates + plan.failed = Len(lines)
<1> DEFINE Rows == {PlannedRow(lines[i], dayFirst) : i \in 1 .. Len(lines)}
           Keys == existing \cup {duplicateKey(r) : r \in Rows}
           F == planUpto(lines, dayFirst, existing)
           Blank(n) == {i \in 1 .. n : lines[i].blank}
           Counted(s, n) == Cardinality(Blank(n)) + Len(s.ready) + s.duplicates + s.failed = n
           S == {n \in Nat : n <= Len(lines) => Counted(F[n], n)}
<1>1. /\ F \in [0 .. Len(lines) -> Plans(Keys, Rows)]
      /\ F[0] = [seen |-> existing, ready |-> <<>>, duplicates |-> 0, failed |-> 0]
      /\ \A i \in 1 .. Len(lines) : F[i] = planLine(F[i - 1], lines[i], dayFirst)
  BY PlanRounds
<1> HIDE DEF F, Rows, Keys
<1>2. 0 \in S
  <2>1. Blank(0) = {}
    OBVIOUS
  <2>2. Cardinality(Blank(0)) = 0
    BY <2>1, FS_EmptySet
  <2> HIDE DEF Blank
  <2>3. Counted(F[0], 0)
    BY <1>1, <2>2
  <2> QED
    BY <2>3
<1>3. ASSUME NEW n \in Nat, n \in S PROVE n + 1 \in S
  <2> SUFFICES ASSUME n + 1 <= Len(lines) PROVE Counted(F[n + 1], n + 1)
    OBVIOUS
  <2> DEFINE s == F[n]
             t == F[n + 1]
             row == PlannedRow(lines[n + 1], dayFirst)
  <2>1. t = planLine(s, lines[n + 1], dayFirst) /\ s \in Plans(Keys, Rows) /\ Counted(s, n)
    BY <1>1, <1>3
  <2>2. s.ready \in Seq(Rows) /\ s.duplicates \in Nat /\ s.failed \in Nat
    BY <2>1 DEF Plans
  <2>3. Len(s.ready) \in Nat
    BY <2>2
  <2>4. IsFiniteSet(Blank(n)) /\ Cardinality(Blank(n)) \in Nat
    <3>1. PICK a, b \in Int : a = 1 /\ b = n
      OBVIOUS
    <3>2. IsFiniteSet(a .. b)
      BY FS_Interval
    <3>3. Blank(n) \subseteq a .. b
      BY <3>1
    <3> HIDE DEF Blank
    <3> QED
      BY <3>2, <3>3, FS_Subset, FS_CardinalityType
  <2> HIDE DEF s, t, row
  <2>5. CASE lines[n + 1].blank
    <3>1. Blank(n + 1) = Blank(n) \cup {n + 1} /\ n + 1 \notin Blank(n)
      BY <2>5
    <3> HIDE DEF Blank
    <3>2. Cardinality(Blank(n + 1)) = Cardinality(Blank(n)) + 1
      BY <2>4, <3>1, FS_AddElement
    <3>3. t = s
      BY <2>1, <2>5 DEF planLine
    <3> QED
      BY <2>1, <2>2, <2>3, <2>4, <3>2, <3>3, SMTT(60) DEF t
  <2>6. CASE ~lines[n + 1].blank
    <3>1. Blank(n + 1) = Blank(n)
      BY <2>6
    <3> HIDE DEF Blank
    <3>2. \/ t.ready = s.ready /\ t.duplicates = s.duplicates /\ t.failed = s.failed + 1
          \/ t.ready = s.ready /\ t.duplicates = s.duplicates + 1 /\ t.failed = s.failed
          \/ t.ready = Append(s.ready, row) /\ t.duplicates = s.duplicates /\ t.failed = s.failed
      <4>1. CASE Fails(lines[n + 1], dayFirst)
        BY <2>1, <2>6, <4>1 DEF planLine, Plans
      <4>2. CASE ~Fails(lines[n + 1], dayFirst) /\ duplicateKey(row) \in s.seen
        BY <2>1, <2>6, <4>2 DEF planLine, Plans, row
      <4>3. CASE ~Fails(lines[n + 1], dayFirst) /\ duplicateKey(row) \notin s.seen
        BY <2>1, <2>6, <4>3 DEF planLine, row
      <4> QED
        BY <4>1, <4>2, <4>3
    <3>3. Len(Append(s.ready, row)) = Len(s.ready) + 1
      BY <2>2
    <3>4. Len(t.ready) + t.duplicates + t.failed = Len(s.ready) + s.duplicates + s.failed + 1
      <4>1. \A x, y, z \in Nat : /\ x + 1 + y + z = x + y + z + 1
                                 /\ x + (y + 1) + z = x + y + z + 1
                                 /\ x + y + (z + 1) = x + y + z + 1
        OBVIOUS
      <4>2. PICK x, y, z \in Nat : x = Len(s.ready) /\ y = s.duplicates /\ z = s.failed
        BY <2>2, <2>3
      <4>3. \/ Len(t.ready) = x /\ t.duplicates = y /\ t.failed = z + 1
            \/ Len(t.ready) = x /\ t.duplicates = y + 1 /\ t.failed = z
            \/ Len(t.ready) = x + 1 /\ t.duplicates = y /\ t.failed = z
        BY <3>2, <3>3, <4>2, Zenon
      <4>4. Len(t.ready) + t.duplicates + t.failed = x + y + z + 1
        BY <4>1, <4>3
      <4> QED
        BY <4>2, <4>4
    <3>5. Len(t.ready) \in Nat /\ t.duplicates \in Nat /\ t.failed \in Nat
      BY <2>2, <2>3, <3>2, <3>3
    <3>6. Cardinality(Blank(n)) + Len(s.ready) + s.duplicates + s.failed = n
      BY <2>1
    <3>7. Cardinality(Blank(n + 1)) + Len(t.ready) + t.duplicates + t.failed = n + 1
      <4>3. PICK c, x, y, z \in Nat :
                c = Cardinality(Blank(n)) /\ x = Len(s.ready) /\ y = s.duplicates /\ z = s.failed
        BY <2>2, <2>3, <2>4
      <4>4. PICK u, v, w \in Nat : u = Len(t.ready) /\ v = t.duplicates /\ w = t.failed
        BY <3>5
      <4>5. c + x + y + z = n /\ u + v + w = x + y + z + 1
        BY <3>4, <3>6, <4>3, <4>4
      <4>6. c + u + v + w = n + 1
        BY <4>5
      <4> QED
        BY <3>1, <4>3, <4>4, <4>6
    <3> QED
      BY <3>7 DEF t
  <2> QED
    BY <2>5, <2>6
<1> HIDE DEF S
<1>4. Len(lines) \in S
  BY <1>2, <1>3, NatSet
<1>5. Counted(F[Len(lines)], Len(lines))
  <2> DEFINE Done(n) == Counted(F[n], n)
  <2> HIDE DEF Done
  <2>1. \A n \in S : n <= Len(lines) => Done(n)
    BY DEF S, Done
  <2> QED
    BY <1>4, <2>1 DEF Done
<1>6. planImport(lines, dayFirst, existing) = F[Len(lines)]
  BY DEF planImport, F
<1> QED
  BY <1>5, <1>6
\* A file planned again, once its rows are in the ledger, has nothing to write.
LEMMA PlanAgain ==
    ASSUME NEW lines, Len(lines) \in Nat, NEW dayFirst
    PROVE  LET first == planImport(lines, dayFirst, {})
               again == planImport(lines, dayFirst, KeysOf(first.ready))
           IN  again.ready = <<>> /\ again.failed = first.failed
<1> DEFINE first == planImport(lines, dayFirst, {})
           existing == KeysOf(first.ready)
           F == planUpto(lines, dayFirst, {})
           G == planUpto(lines, dayFirst, existing)
           Same(s, t) == t.ready = <<>> /\ t.seen = existing /\ t.failed = s.failed
           S == {n \in Nat : n <= Len(lines) => Same(F[n], G[n])}
           Rows == {PlannedRow(lines[i], dayFirst) : i \in 1 .. Len(lines)}
           KeysF == {} \cup {duplicateKey(r) : r \in Rows}
           KeysG == existing \cup {duplicateKey(r) : r \in Rows}
<1>1. /\ F \in [0 .. Len(lines) -> Plans(KeysF, Rows)]
      /\ F[0] = [seen |-> {}, ready |-> <<>>, duplicates |-> 0, failed |-> 0]
      /\ \A i \in 1 .. Len(lines) : F[i] = planLine(F[i - 1], lines[i], dayFirst)
  BY PlanRounds
<1>2. /\ G \in [0 .. Len(lines) -> Plans(KeysG, Rows)]
      /\ G[0] = [seen |-> existing, ready |-> <<>>, duplicates |-> 0, failed |-> 0]
      /\ \A i \in 1 .. Len(lines) : G[i] = planLine(G[i - 1], lines[i], dayFirst)
  BY PlanRounds
<1>3. \A i \in 1 .. Len(lines) : Gives(lines, dayFirst, i) => KeyOf(lines, dayFirst, i) \in existing
  BY PlanKeeps
<1> HIDE DEF F, G, existing, Rows, KeysF, KeysG
<1>4. 0 \in S
  BY <1>1, <1>2
<1>5. ASSUME NEW n \in Nat, n \in S PROVE n + 1 \in S
  <2> SUFFICES ASSUME n + 1 <= Len(lines) PROVE Same(F[n + 1], G[n + 1])
    OBVIOUS
  <2> DEFINE s == F[n]
             t == G[n]
             u == F[n + 1]
             v == G[n + 1]
             row == PlannedRow(lines[n + 1], dayFirst)
  <2>1. u = planLine(s, lines[n + 1], dayFirst) /\ s \in Plans(KeysF, Rows)
    BY <1>1, <1>5
  <2>2. v = planLine(t, lines[n + 1], dayFirst) /\ t \in Plans(KeysG, Rows)
    BY <1>2, <1>5
  <2>3. Same(s, t)
    BY <1>5
  <2> HIDE DEF s, t, u, v
  <2>4. CASE lines[n + 1].blank
    BY <2>1, <2>2, <2>3, <2>4 DEF planLine, u, v
  <2>5. CASE ~lines[n + 1].blank /\ Fails(lines[n + 1], dayFirst)
    <3>1. u = [s EXCEPT !.failed = @ + 1] /\ v = [t EXCEPT !.failed = @ + 1]
      BY <2>1, <2>2, <2>5 DEF planLine
    <3>2. u.failed = s.failed + 1 /\ v.failed = t.failed + 1 /\ v.ready = t.ready /\ v.seen = t.seen
      BY <2>1, <2>2, <3>1 DEF Plans
    <3> QED
      BY <2>3, <3>2 DEF u, v
  <2>6. CASE Gives(lines, dayFirst, n + 1)
    <3>1. duplicateKey(row) \in t.seen
      BY <1>3, <2>3, <2>6 DEF KeyOf
    <3>2. v = [t EXCEPT !.duplicates = @ + 1]
      BY <2>2, <2>6, <3>1 DEF planLine, Gives
    <3>3. v.ready = t.ready /\ v.seen = t.seen /\ v.failed = t.failed
      BY <2>2, <3>2 DEF Plans
    <3>4. u.failed = s.failed
      BY <2>1, <2>6 DEF planLine, Gives, Plans
    <3> QED
      BY <2>3, <3>3, <3>4 DEF u, v
  <2> QED
    BY <2>4, <2>5, <2>6 DEF Gives
<1> HIDE DEF S
<1>6. Len(lines) \in S
  BY <1>4, <1>5, NatSet
<1> QED
  BY <1>6 DEF S, planImport, F, G, existing

\* A date has the year and the month it was put together from.
LEMMA FormatFields ==
    ASSUME NEW year \in Nat, NEW month \in 1 .. 12, NEW day \in 1 .. 31
    PROVE  YearOf(format(year, month, day)) = year /\ MonthOf(format(year, month, day)) = month
<1> DEFINE date == format(year, month, day)
<1>1. date = 10000 * year + 100 * month + day
  BY DEF format
<1>2. date \div 10000 = year
  BY <1>1
<1>3. date \div 100 = 100 * year + month
  BY <1>1
<1>4. (100 * year + month) % 100 = month
  OBVIOUS
<1> QED
  BY <1>2, <1>3, <1>4 DEF YearOf, MonthOf

\* A row that is planned has an amount above zero, and a day its month has.
LEMMA PlannedDated ==
    ASSUME NEW line, Readable(line), NEW dayFirst \in BOOLEAN, ~Fails(line, dayFirst)
    PROVE  LET r == PlannedRow(line, dayFirst) IN
           r.amount > 0 /\ r.date <= endOfMonth(r.date) /\ r.date >= startOfMonth(r.date)
<1> DEFINE r == PlannedRow(line, dayFirst)
<1>1. line.amount \in Int \ {0} /\ r.amount = Abs(line.amount)
  BY DEF Fails, Readable, PlannedRow
<1>2. r.amount > 0
  BY <1>1 DEF Abs
<1>3. PICK year \in Nat, month \in 1 .. 12, day \in 1 .. 31 :
        r.date = format(year, month, day) /\ day <= daysInMonth(year, month)
  <2>1. \A y \in Nat, m \in Nat, d \in Nat :
            assemble(y, m, d) # 0 => /\ m \in 1 .. 12 /\ d \in 1 .. 31
                                     /\ assemble(y, m, d) = format(y, m, d)
                                     /\ d <= daysInMonth(y, m)
    BY DEF assemble, daysInMonth
  <2>2. normaliseYear(line.year) \in Nat
    BY DEF Readable, normaliseYear
  <2>3. r.date = parseSlashDate(line.first, line.second, line.year, dayFirst) /\ r.date # 0
    BY DEF Fails, PlannedRow
  <2> HIDE DEF r
  <2>4. PICK y \in Nat, m \in Nat, d \in Nat : r.date = assemble(y, m, d)
    BY <2>2, <2>3 DEF parseSlashDate, Readable
  <2>5. /\ m \in 1 .. 12 /\ d \in 1 .. 31
        /\ r.date = format(y, m, d) /\ d <= daysInMonth(y, m)
    BY <2>1, <2>3, <2>4
  <2> QED
    BY <2>5
<1>4. YearOf(r.date) = year /\ MonthOf(r.date) = month
  BY <1>3, FormatFields
<1>5. daysInMonth(year, month) \in Nat
  BY DEF daysInMonth
<1> HIDE DEF r
<1>6. r.date <= endOfMonth(r.date) /\ r.date >= startOfMonth(r.date)
  <2>1. /\ endOfMonth(r.date) = format(year, month, daysInMonth(year, month))
        /\ startOfMonth(r.date) = format(year, month, 1)
    BY <1>3, <1>4 DEF endOfMonth, startOfMonth
  <2> QED
    BY <1>3, <1>5, <2>1 DEF format
<1> QED
  BY <1>2, <1>6 DEF r
=============================================================================
