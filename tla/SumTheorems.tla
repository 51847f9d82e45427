---------------------------- MODULE SumTheorems ----------------------------
(***************************************************************************)
(* The laws of sums over finite sets that the exposure cap, the vault's    *)
(* solvency and the quantity sold rest on.                                 *)
(*                                                                         *)
(* SumFunctionOnSet is defined by a recursive function on the subsets of   *)
(* its index set.  What it computes for every finite set is shown by       *)
(* looking at a smallest set for which it would be wrong (Smallest).       *)
(***************************************************************************)
EXTENDS Functions, FiniteSetTheorems, WellFoundedInduction, TLAPS

\* The element a sum takes first.
First(s) == CHOOSE x \in s : TRUE

\* g is the recursive function by which the sum of f over S is defined.
Recursion(g, f, S) ==
    g = [s \in SUBSET S |-> IF s = {} THEN 0 ELSE f[First(s)] + g[s \ {First(s)}]]

Unfolded(f, S) == CHOOSE g : Recursion(g, f, S)

\* A nonempty set of subsets of a finite set has a smallest element.
LEMMA Smallest ==
    ASSUME NEW S, IsFiniteSet(S), NEW T \in SUBSET (SUBSET S), T # {}
    PROVE  \E s \in T : \A t \in T : t \subseteq s => t = s
  <1>1. IsWellFoundedOn(StrictSubsetOrdering(S), SUBSET S)
    BY FS_StrictSubsetOrderingWellFounded, FS_FiniteSubsetsOfFinite
  <1>2. PICK s \in T : \A t \in T : <<t, s>> \notin StrictSubsetOrdering(S)
    BY <1>1, WFMin
  <1>3. \A t \in T : t \subseteq s => t = s
    <2>1. SUFFICES ASSUME NEW t \in T, t \subseteq s, t # s PROVE FALSE
      OBVIOUS
    <2>2. <<t, s>> \in StrictSubsetOrdering(S)
      BY <2>1 DEF StrictSubsetOrdering
    <2> QED BY <1>2, <2>2
  <1> QED BY <1>3

\* First picks an element.
LEMMA FirstIsIn ==
    ASSUME NEW s, s # {}
    PROVE  First(s) \in s
  BY DEF First

\* The sum as the definition unfolds.
LEMMA SumUnfolds ==
    ASSUME NEW f, NEW S
    PROVE  SumFunctionOnSet(f, S) = Unfolded(f, S)[S]
  BY DEF SumFunctionOnSet, FoldFunctionOnSet, MapThenFoldSet, Unfolded, Recursion, First

\* Two recursions agree on the subsets they share.
LEMMA RecursionsAgree ==
    ASSUME NEW f, NEW S, NEW T \in SUBSET S, IsFiniteSet(T),
           NEW g, NEW h, Recursion(g, f, S), Recursion(h, f, T)
    PROVE  \A t \in SUBSET T : g[t] = h[t]
  <1>1. SUFFICES ASSUME {t \in SUBSET T : g[t] # h[t]} # {} PROVE FALSE
    OBVIOUS
  <1>2. PICK s \in {t \in SUBSET T : g[t] # h[t]} :
            \A t \in {u \in SUBSET T : g[u] # h[u]} : t \subseteq s => t = s
    <2> DEFINE Bad == {t \in SUBSET T : g[t] # h[t]}
    <2>1. Bad \in SUBSET (SUBSET T) /\ Bad # {}
      BY <1>1
    <2> HIDE DEF Bad
    <2>2. \E s \in Bad : \A t \in Bad : t \subseteq s => t = s
      BY <2>1, Smallest
    <2> QED BY <2>2 DEF Bad
  <1>3. s \in SUBSET S /\ s \in SUBSET T
    OBVIOUS
  <1>4. CASE s = {}
    <2>1. g[s] = 0
      BY <1>3, <1>4 DEF Recursion
    <2>2. h[s] = 0
      BY <1>3, <1>4 DEF Recursion
    <2> QED BY <2>1, <2>2
  <1>5. CASE s # {}
    <2> DEFINE r == s \ {First(s)}
    <2>1. r \in SUBSET T /\ r \subseteq s /\ r # s
      BY <1>3, <1>5, FirstIsIn
    <2>2. g[r] = h[r]
      BY <1>2, <2>1
    <2>3. g[s] = f[First(s)] + g[r]
      BY <1>3, <1>5 DEF Recursion
    <2>4. h[s] = f[First(s)] + h[r]
      BY <1>3, <1>5 DEF Recursion
    <2> QED BY <2>2, <2>3, <2>4
  <1> QED BY <1>4, <1>5

\* The recursion exists for every finite set.
LEMMA RecursionExists ==
    ASSUME NEW f, NEW S, IsFiniteSet(S)
    PROVE  Recursion(Unfolded(f, S), f, S)
  <1> DEFINE Bad == {t \in SUBSET S : ~ \E g : Recursion(g, f, t)}
  <1>1. ASSUME Bad # {} PROVE FALSE
    <2>1. Bad \in SUBSET (SUBSET S)
      OBVIOUS
    <2>2. PICK s \in Bad : \A t \in Bad : t \subseteq s => t = s
      <3> HIDE DEF Bad
      <3> QED BY <1>1, <2>1, Smallest
    <2> DEFINE value(t) == f[First(t)] + Unfolded(f, t \ {First(t)})[t \ {First(t)}]
               h == [t \in SUBSET s |-> IF t = {} THEN 0 ELSE value(t)]
    <2>3. \A u \in SUBSET s : u # s => Recursion(Unfolded(f, u), f, u)
      <3>1. SUFFICES ASSUME NEW u \in SUBSET s, u # s PROVE \E g : Recursion(g, f, u)
        BY DEF Unfolded
      <3>2. u \notin Bad /\ u \in SUBSET S
        BY <2>2, <3>1
      <3> QED BY <3>2
    <2>4. \A u \in SUBSET s : u # s => h[u] = Unfolded(f, u)[u]
      <3>1. SUFFICES ASSUME NEW u \in SUBSET s, u # s PROVE h[u] = Unfolded(f, u)[u]
        OBVIOUS
      <3>2. Recursion(Unfolded(f, u), f, u)
        BY <2>3, <3>1
      <3>3. CASE u = {}
        <4>1. Unfolded(f, u)[u] = 0
          BY <3>2, <3>3 DEF Recursion
        <4> QED BY <3>3, <4>1
      <3>4. CASE u # {}
        <4> DEFINE v == u \ {First(u)}
        <4>1. v \in SUBSET u /\ v # s /\ v \in SUBSET s
          BY <3>1
        <4>2. Recursion(Unfolded(f, v), f, v)
          BY <2>3, <4>1
        <4>3. v \in SUBSET S /\ IsFiniteSet(v)
          BY <4>1, FS_Subset
        <4>4. Unfolded(f, u)[v] = Unfolded(f, v)[v]
          <5> HIDE DEF v
          <5>1. \A t \in SUBSET v : Unfolded(f, u)[t] = Unfolded(f, v)[t]
            BY <3>2, <4>1, <4>2, <4>3, RecursionsAgree
          <5> QED BY <5>1
        <4>5. Unfolded(f, u)[u] = f[First(u)] + Unfolded(f, u)[v]
          BY <3>2, <3>4 DEF Recursion
        <4>6. h[u] = value(u)
          BY <3>4
        <4> QED BY <4>4, <4>5, <4>6
      <3> QED BY <3>3, <3>4
    <2>5. \A t \in SUBSET s : t # {} => h[t] = f[First(t)] + h[t \ {First(t)}]
      <3>1. SUFFICES ASSUME NEW t \in SUBSET s, t # {}
                     PROVE  h[t] = f[First(t)] + h[t \ {First(t)}]
        OBVIOUS
      <3>2. t \ {First(t)} \in SUBSET s /\ t \ {First(t)} # s
        BY <3>1, FirstIsIn
      <3>3. h[t \ {First(t)}] = Unfolded(f, t \ {First(t)})[t \ {First(t)}]
        BY <2>4, <3>2
      <3> QED BY <3>1, <3>3
    <2>6. Recursion(h, f, s)
      <3>1. h = [t \in SUBSET s |-> IF t = {} THEN 0 ELSE h[t]]
        OBVIOUS
      <3> HIDE DEF h
      <3>2. h = [t \in SUBSET s |-> IF t = {} THEN 0 ELSE f[First(t)] + h[t \ {First(t)}]]
        BY <2>5, <3>1
      <3> QED BY <3>2 DEF Recursion
    <2> QED BY <2>2, <2>6
  <1>2. \E g : Recursion(g, f, S)
    BY <1>1
  <1> QED BY <1>2 DEF Unfolded

-----------------------------------------------------------------------------
(* The laws.                                                               *)

\* Nothing sums to zero.
LEMMA SumEmpty ==
    ASSUME NEW f
    PROVE  SumFunctionOnSet(f, {}) = 0
  <1>1. IsFiniteSet({})
    BY FS_EmptySet
  <1>2. Recursion(Unfolded(f, {}), f, {})
    BY <1>1, RecursionExists
  <1>3. Unfolded(f, {})[{}] = 0
    BY <1>2 DEF Recursion
  <1> QED BY <1>3, SumUnfolds

\* One element is taken, then the rest is summed.
LEMMA SumStep ==
    ASSUME NEW f, NEW S, IsFiniteSet(S), S # {}
    PROVE  SumFunctionOnSet(f, S) = f[First(S)] + SumFunctionOnSet(f, S \ {First(S)})
  <1> DEFINE T == S \ {First(S)}
  <1>1. T \in SUBSET S /\ IsFiniteSet(T)
    BY FS_Subset
  <1>2. Recursion(Unfolded(f, S), f, S) /\ Recursion(Unfolded(f, T), f, T)
    BY <1>1, RecursionExists
  <1>3. Unfolded(f, S)[T] = Unfolded(f, T)[T]
    BY <1>1, <1>2, RecursionsAgree
  <1>4. Unfolded(f, S)[S] = f[First(S)] + Unfolded(f, S)[T]
    BY <1>2 DEF Recursion
  <1> QED BY <1>3, <1>4, SumUnfolds

\* A sum of integers is an integer.
LEMMA SumInt ==
    ASSUME NEW S, IsFiniteSet(S), NEW f, \A x \in S : f[x] \in Int
    PROVE  SumFunctionOnSet(f, S) \in Int
  <1> DEFINE Bad == {t \in SUBSET S : SumFunctionOnSet(f, t) \notin Int}
  <1>1. ASSUME Bad # {} PROVE FALSE
    <2>1. Bad \in SUBSET (SUBSET S)
      OBVIOUS
    <2>2. PICK s \in Bad : \A t \in Bad : t \subseteq s => t = s
      <3> HIDE DEF Bad
      <3> QED BY <1>1, <2>1, Smallest
    <2>3. s # {}
      BY SumEmpty
    <2>4. IsFiniteSet(s) /\ First(s) \in s
      BY <2>3, FS_Subset, FirstIsIn
    <2> DEFINE r == s \ {First(s)}
    <2>5. r \in SUBSET S /\ r \subseteq s /\ r # s
      BY <2>4
    <2>6. SumFunctionOnSet(f, r) \in Int
      BY <2>2, <2>5
    <2>7. SumFunctionOnSet(f, s) = f[First(s)] + SumFunctionOnSet(f, r)
      BY <2>3, <2>4, SumStep
    <2>8. f[First(s)] \in Int
      BY <2>4
    <2> QED BY <2>6, <2>7, <2>8
  <1> QED BY <1>1

\* Any element may be taken first.
LEMMA SumRemove ==
    ASSUME NEW S, IsFiniteSet(S), NEW f, \A x \in S : f[x] \in Int, NEW x \in S
    PROVE  SumFunctionOnSet(f, S) = f[x] + SumFunctionOnSet(f, S \ {x})
  <1> DEFINE Splits(t, y) == SumFunctionOnSet(f, t) = f[y] + SumFunctionOnSet(f, t \ {y})
             Bad == {t \in SUBSET S : ~ \A y \in t : Splits(t, y)}
  <1>1. ASSUME Bad # {} PROVE FALSE
    <2>1. Bad \in SUBSET (SUBSET S)
      OBVIOUS
    <2>2. PICK s \in Bad : \A t \in Bad : t \subseteq s => t = s
      <3> HIDE DEF Bad
      <3> QED BY <1>1, <2>1, Smallest
    <2>3. PICK y \in s : ~Splits(s, y)
      BY <2>2
    <2> DEFINE c == First(s)
    <2>4. s \in SUBSET S /\ IsFiniteSet(s) /\ c \in s
      BY FS_Subset, FirstIsIn
    <2>5. Splits(s, c)
      BY <2>4, SumStep
    <2>6. y # c
      BY <2>3, <2>5
    <2>7. Splits(s \ {c}, y) /\ Splits(s \ {y}, c)
      <3>1. s \ {c} \in SUBSET S /\ s \ {c} \subseteq s /\ s \ {c} # s /\ y \in s \ {c}
        BY <2>4, <2>6
      <3>2. s \ {y} \in SUBSET S /\ s \ {y} \subseteq s /\ s \ {y} # s /\ c \in s \ {y}
        BY <2>4, <2>6
      <3>3. s \ {c} \notin Bad /\ s \ {y} \notin Bad
        BY <2>2, <3>1, <3>2
      <3> QED BY <3>1, <3>2, <3>3
    <2>8. (s \ {c}) \ {y} = (s \ {y}) \ {c}
      OBVIOUS
    <2>9. f[c] \in Int /\ f[y] \in Int /\ SumFunctionOnSet(f, (s \ {c}) \ {y}) \in Int
      <3>1. (s \ {c}) \ {y} \in SUBSET S /\ IsFiniteSet((s \ {c}) \ {y})
        BY <2>4, FS_Subset
      <3>2. \A z \in (s \ {c}) \ {y} : f[z] \in Int
        BY <3>1
      <3> QED BY <2>4, <3>1, <3>2, SumInt
    <2> DEFINE whole == SumFunctionOnSet(f, s)
               rest == SumFunctionOnSet(f, (s \ {c}) \ {y})
    <2>10. whole = f[c] + (f[y] + rest)
      BY <2>5, <2>7
    <2>11. SumFunctionOnSet(f, s \ {y}) = f[c] + rest
      BY <2>7, <2>8
    <2>12. whole # f[y] + (f[c] + rest)
      BY <2>3, <2>11
    <2> HIDE DEF c, whole, rest
    <2> QED BY <2>9, <2>10, <2>12 DEF rest
  <1>2. S \notin Bad
    BY <1>1
  <1> QED BY <1>2

\* A sum of naturals is a natural.
LEMMA SumNat ==
    ASSUME NEW S, IsFiniteSet(S), NEW f, \A x \in S : f[x] \in Nat
    PROVE  SumFunctionOnSet(f, S) \in Nat
  <1> DEFINE Bad == {t \in SUBSET S : SumFunctionOnSet(f, t) \notin Nat}
  <1>1. ASSUME Bad # {} PROVE FALSE
    <2>1. Bad \in SUBSET (SUBSET S)
      OBVIOUS
    <2>2. PICK s \in Bad : \A t \in Bad : t \subseteq s => t = s
      <3> HIDE DEF Bad
      <3> QED BY <1>1, <2>1, Smallest
    <2>3. s # {}
      BY SumEmpty
    <2>4. IsFiniteSet(s) /\ First(s) \in s
      BY <2>3, FS_Subset, FirstIsIn
    <2> DEFINE r == s \ {First(s)}
    <2>5. r \in SUBSET S /\ r \subseteq s /\ r # s
      BY <2>4
    <2>6. SumFunctionOnSet(f, r) \in Nat
      BY <2>2, <2>5
    <2>7. SumFunctionOnSet(f, s) = f[First(s)] + SumFunctionOnSet(f, r)
      BY <2>3, <2>4, SumStep
    <2>8. f[First(s)] \in Nat
      BY <2>4
    <2> QED BY <2>6, <2>7, <2>8
  <1> QED BY <1>1

\* Zeros sum to zero.
LEMMA SumZero ==
    ASSUME NEW S, IsFiniteSet(S), NEW f, \A x \in S : f[x] = 0
    PROVE  SumFunctionOnSet(f, S) = 0
  <1> DEFINE Bad == {t \in SUBSET S : SumFunctionOnSet(f, t) # 0}
  <1>1. ASSUME Bad # {} PROVE FALSE
    <2>1. Bad \in SUBSET (SUBSET S)
      OBVIOUS
    <2>2. PICK s \in Bad : \A t \in Bad : t \subseteq s => t = s
      <3> HIDE DEF Bad
      <3> QED BY <1>1, <2>1, Smallest
    <2>3. s # {}
      BY SumEmpty
    <2>4. IsFiniteSet(s) /\ First(s) \in s
      BY <2>3, FS_Subset, FirstIsIn
    <2> DEFINE r == s \ {First(s)}
    <2>5. r \in SUBSET S /\ r \subseteq s /\ r # s
      BY <2>4
    <2>6. SumFunctionOnSet(f, r) = 0
      BY <2>2, <2>5
    <2>7. SumFunctionOnSet(f, s) = f[First(s)] + SumFunctionOnSet(f, r)
      BY <2>3, <2>4, SumStep
    <2>8. f[First(s)] = 0
      BY <2>4
    <2> QED BY <2>6, <2>7, <2>8
  <1> QED BY <1>1

\* A sum depends on the values at its indices only.
LEMMA SumSame ==
    ASSUME NEW S, IsFiniteSet(S), NEW f, NEW g, \A x \in S : f[x] = g[x]
    PROVE  SumFunctionOnSet(f, S) = SumFunctionOnSet(g, S)
  <1> DEFINE Bad == {t \in SUBSET S : SumFunctionOnSet(f, t) # SumFunctionOnSet(g, t)}
  <1>1. ASSUME Bad # {} PROVE FALSE
    <2>1. Bad \in SUBSET (SUBSET S)
      OBVIOUS
    <2>2. PICK s \in Bad : \A t \in Bad : t \subseteq s => t = s
      <3> HIDE DEF Bad
      <3> QED BY <1>1, <2>1, Smallest
    <2>3. s # {}
      BY SumEmpty
    <2>4. IsFiniteSet(s) /\ First(s) \in s
      BY <2>3, FS_Subset, FirstIsIn
    <2> DEFINE r == s \ {First(s)}
    <2>5. r \in SUBSET S /\ r \subseteq s /\ r # s
      BY <2>4
    <2>6. SumFunctionOnSet(f, r) = SumFunctionOnSet(g, r)
      BY <2>2, <2>5
    <2>7. /\ SumFunctionOnSet(f, s) = f[First(s)] + SumFunctionOnSet(f, r)
          /\ SumFunctionOnSet(g, s) = g[First(s)] + SumFunctionOnSet(g, r)
      BY <2>3, <2>4, SumStep
    <2>8. f[First(s)] = g[First(s)]
      BY <2>4
    <2> QED BY <2>6, <2>7, <2>8
  <1> QED BY <1>1

\* A change at one index changes the sum by as much.
LEMMA SumExcept ==
    ASSUME NEW S, IsFiniteSet(S), NEW f \in [S -> Int], NEW x \in S, NEW n \in Int,
           NEW g, g = [f EXCEPT ![x] = n]
    PROVE  /\ SumFunctionOnSet(f, S) \in Int
           /\ SumFunctionOnSet(g, S) = SumFunctionOnSet(f, S) + (n - f[x])
  <1> DEFINE T == S \ {x}
  <1>1. IsFiniteSet(T) /\ \A y \in T : f[y] \in Int
    BY FS_Subset
  <1>2. \A y \in T : f[y] = g[y]
    OBVIOUS
  <1>3. SumFunctionOnSet(f, T) = SumFunctionOnSet(g, T) /\ SumFunctionOnSet(f, T) \in Int
    BY <1>1, <1>2, SumSame, SumInt
  <1>4. \A y \in S : f[y] \in Int
    OBVIOUS
  <1>5. \A y \in S : g[y] \in Int
    OBVIOUS
  <1>6. g[x] = n
    OBVIOUS
  <1>7. SumFunctionOnSet(f, S) = f[x] + SumFunctionOnSet(f, T)
    BY <1>4, SumRemove
  <1>8. SumFunctionOnSet(g, S) = g[x] + SumFunctionOnSet(g, T)
    BY <1>5, SumRemove
  <1> HIDE DEF T
  <1> QED BY <1>3, <1>6, <1>7, <1>8

\* An index that was not there adds its value.
LEMMA SumAdd ==
    ASSUME NEW S, IsFiniteSet(S), NEW f, NEW x, x \notin S,
           \A y \in S \cup {x} : f[y] \in Int
    PROVE  SumFunctionOnSet(f, S \cup {x}) = SumFunctionOnSet(f, S) + f[x]
  <1> DEFINE T == S \cup {x}
  <1>1. IsFiniteSet(T)
    BY FS_AddElement
  <1>2. x \in T /\ T \ {x} = S
    OBVIOUS
  <1>3. SumFunctionOnSet(f, T) = f[x] + SumFunctionOnSet(f, T \ {x})
    BY <1>1, <1>2, SumRemove
  <1>4. SumFunctionOnSet(f, S) \in Int /\ f[x] \in Int
    BY SumInt
  <1>5. SumFunctionOnSet(f, T) = f[x] + SumFunctionOnSet(f, S)
    BY <1>2, <1>3
  <1> QED BY <1>4, <1>5

\* A sum of naturals over fewer indices is no larger.
LEMMA SumMonotone ==
    ASSUME NEW S, IsFiniteSet(S), NEW T \in SUBSET S, NEW f, \A x \in S : f[x] \in Nat
    PROVE  SumFunctionOnSet(f, T) <= SumFunctionOnSet(f, S)
  <1> DEFINE Bad == {t \in SUBSET S : T \subseteq t
                        /\ ~(SumFunctionOnSet(f, T) <= SumFunctionOnSet(f, t))}
  <1>1. ASSUME Bad # {} PROVE FALSE
    <2>1. Bad \in SUBSET (SUBSET S)
      OBVIOUS
    <2>2. PICK s \in Bad : \A t \in Bad : t \subseteq s => t = s
      <3> HIDE DEF Bad
      <3> QED BY <1>1, <2>1, Smallest
    <2>3. s \in SUBSET S /\ IsFiniteSet(s) /\ IsFiniteSet(T)
      BY FS_Subset
    <2>4. SumFunctionOnSet(f, T) \in Nat
      BY <2>3, SumNat
    <2>5. s # T
      BY <2>4
    <2>6. PICK x \in s : x \notin T
      BY <2>5
    <2> DEFINE r == s \ {x}
    <2>7. r \in SUBSET S /\ T \subseteq r /\ r # s /\ r \subseteq s
      BY <2>6
    <2>8. SumFunctionOnSet(f, T) <= SumFunctionOnSet(f, r)
      BY <2>2, <2>7
    <2>9. SumFunctionOnSet(f, s) = f[x] + SumFunctionOnSet(f, r)
      BY <2>3, SumRemove
    <2>10. IsFiniteSet(r) /\ SumFunctionOnSet(f, r) \in Nat /\ f[x] \in Nat
      BY <2>7, <2>3, FS_Subset, SumNat
    <2> HIDE DEF r
    <2>11. SumFunctionOnSet(f, T) <= SumFunctionOnSet(f, s)
      BY <2>4, <2>8, <2>9, <2>10
    <2> QED BY <2>11
  <1> QED BY <1>1

\* The sum over a union is at most the two sums together.
LEMMA SumUnion ==
    ASSUME NEW A, NEW B, IsFiniteSet(A), IsFiniteSet(B), NEW f,
           \A x \in A \cup B : f[x] \in Nat
    PROVE  SumFunctionOnSet(f, A \cup B) <= SumFunctionOnSet(f, A) + SumFunctionOnSet(f, B)
  <1> DEFINE Bad == {t \in SUBSET A :
                ~(SumFunctionOnSet(f, t \cup B) <= SumFunctionOnSet(f, t) + SumFunctionOnSet(f, B))}
  <1>1. ASSUME Bad # {} PROVE FALSE
    <2>1. Bad \in SUBSET (SUBSET A)
      OBVIOUS
    <2>2. PICK s \in Bad : \A t \in Bad : t \subseteq s => t = s
      <3> HIDE DEF Bad
      <3> QED BY <1>1, <2>1, Smallest
    <2>3. SumFunctionOnSet(f, B) \in Nat
      BY SumNat
    <2>4. s # {}
      <3>1. SUFFICES ASSUME s = {} PROVE FALSE
        OBVIOUS
      <3>2. s \cup B = B /\ SumFunctionOnSet(f, s) = 0
        BY <3>1, SumEmpty
      <3> QED BY <2>3, <3>2
    <2>5. PICK x \in s : TRUE
      BY <2>4
    <2> DEFINE r == s \ {x}
    <2>6. r \in SUBSET A /\ r # s /\ r \subseteq s
      BY <2>5
    <2>7. IsFiniteSet(s) /\ IsFiniteSet(r) /\ IsFiniteSet(r \cup B) /\ IsFiniteSet(s \cup B)
      BY <2>6, FS_Subset, FS_Union
    <2>8. /\ SumFunctionOnSet(f, r) \in Nat /\ SumFunctionOnSet(f, r \cup B) \in Nat
          /\ f[x] \in Nat
      BY <2>6, <2>7, SumNat
    <2>9. SumFunctionOnSet(f, r \cup B) <= SumFunctionOnSet(f, r) + SumFunctionOnSet(f, B)
      BY <2>2, <2>6
    <2>10. SumFunctionOnSet(f, s) = f[x] + SumFunctionOnSet(f, r)
      BY <2>5, <2>7, SumRemove
    <2>11. SumFunctionOnSet(f, s \cup B) <= f[x] + SumFunctionOnSet(f, r \cup B)
      <3>1. CASE x \in B
        <4>1. s \cup B = r \cup B
          BY <3>1
        <4>2. SumFunctionOnSet(f, s \cup B) = SumFunctionOnSet(f, r \cup B)
          BY <4>1
        <4> HIDE DEF r
        <4> QED BY <2>8, <4>2
      <3>2. CASE x \notin B
        <4>1. (s \cup B) \ {x} = r \cup B /\ x \in s \cup B
          BY <3>2
        <4>2. \A y \in s \cup B : f[y] \in Int
          BY <2>5
        <4>3. SumFunctionOnSet(f, s \cup B) = f[x] + SumFunctionOnSet(f, (s \cup B) \ {x})
          BY <2>7, <4>1, <4>2, SumRemove
        <4> HIDE DEF r
        <4> QED BY <2>8, <4>1, <4>3
      <3> QED BY <3>1, <3>2
    <2> HIDE DEF r
    <2>12. SumFunctionOnSet(f, s \cup B) <= SumFunctionOnSet(f, s) + SumFunctionOnSet(f, B)
      <3>1. SumFunctionOnSet(f, s \cup B) \in Nat
        BY <2>7, SumNat
      <3> QED BY <2>3, <2>8, <2>9, <2>10, <2>11, <3>1
    <2> QED BY <2>12
  <1> QED BY <1>1

=============================================================================
