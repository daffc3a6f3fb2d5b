------------------------------ MODULE SumLemmas ------------------------------
(***************************************************************************)
(* The sum of a function over a finite set, as the community modules fold  *)
(* it: one element is taken at a time, in an order CHOOSE fixes.  For any  *)
(* finite set of integers the order does not matter.  The inductions are   *)
(* over the size of the set, each by a smallest counterexample.  At the    *)
(* end, what the rate limiter needs of division.                           *)
(***************************************************************************)
EXTENDS Integers, Functions, FiniteSets, TLAPS, FiniteSetTheorems, WellFoundedInduction

Pick(s) == CHOOSE x \in s : TRUE

Unfold(f, U, g) ==
  [s \in SUBSET U |-> IF s = {} THEN 0 ELSE f[Pick(s)] + g[s \ {Pick(s)}]]

LEMMA SumIsFold ==
  ASSUME NEW f, NEW U
  PROVE  SumFunctionOnSet(f, U) = (CHOOSE g : g = Unfold(f, U, g))[U]
BY DEF SumFunctionOnSet, FoldFunctionOnSet, MapThenFoldSet, Unfold, Pick

\* What fails for some number fails first for one of them.
LEMMA FirstFailure ==
  ASSUME NEW Fails \in SUBSET Nat, Fails # {}
  PROVE  \E n \in Fails : \A m \in Nat : m < n => m \notin Fails
<1>1. IsWellFoundedOn(OpToRel(<, Nat), Nat)
  BY NatLessThanWellFounded
<1>2. PICK n \in Fails : \A m \in Fails : ~(<<m, n>> \in OpToRel(<, Nat))
  BY <1>1, WFMin
<1>3. \A m \in Fails : ~(m < n)
  BY <1>2 DEF OpToRel
<1> QED BY <1>3

\* Sizes of the subsets of a finite set, and of what is left of them.
LEMMA Sizes ==
  ASSUME NEW U, IsFiniteSet(U), NEW s \in SUBSET U
  PROVE  /\ Cardinality(s) \in Nat
         /\ Cardinality(s) = 0 <=> s = {}
         /\ \A x \in s : Cardinality(s \ {x}) = Cardinality(s) - 1 /\ s \ {x} \in SUBSET U
         /\ s # {} => Pick(s) \in s
<1>1. IsFiniteSet(s)
  BY FS_Subset
<1>2. Cardinality(s) \in Nat /\ (Cardinality(s) = 0 <=> s = {})
  BY <1>1, FS_CardinalityType, FS_EmptySet
<1>3. \A x \in s : Cardinality(s \ {x}) = Cardinality(s) - 1
  BY <1>1, FS_RemoveElement
<1> QED BY <1>2, <1>3 DEF Pick

\* The fold exists: it is defined for larger and larger subsets.
FoldsUpTo(f, U, n) ==
  \E g : \A s \in SUBSET U : Cardinality(s) <= n =>
    g[s] = (IF s = {} THEN 0 ELSE f[Pick(s)] + g[s \ {Pick(s)}])

LEMMA FoldExists ==
  ASSUME NEW f, NEW U, IsFiniteSet(U)
  PROVE  \E g : g = Unfold(f, U, g)
<1>1. FoldsUpTo(f, U, 0)
  <2>1. PICK g : g = [s \in SUBSET U |-> 0]
    OBVIOUS
  <2>2. \A s \in SUBSET U : Cardinality(s) <= 0 => s = {}
    BY Sizes
  <2> QED BY <2>1, <2>2 DEF FoldsUpTo
<1>2. ASSUME NEW n \in Nat, FoldsUpTo(f, U, n)
      PROVE  FoldsUpTo(f, U, n + 1)
  <2>1. PICK g : \A s \in SUBSET U : Cardinality(s) <= n =>
                   g[s] = (IF s = {} THEN 0 ELSE f[Pick(s)] + g[s \ {Pick(s)}])
    BY <1>2 DEF FoldsUpTo
  <2>2. PICK h : h = [s \in SUBSET U |-> IF s = {} THEN 0 ELSE f[Pick(s)] + g[s \ {Pick(s)}]]
    OBVIOUS
  <2>3. \A s \in SUBSET U : Cardinality(s) <= n => h[s] = g[s]
    BY <2>1, <2>2
  <2>4. ASSUME NEW s \in SUBSET U, Cardinality(s) <= n + 1
        PROVE  h[s] = (IF s = {} THEN 0 ELSE f[Pick(s)] + h[s \ {Pick(s)}])
    <3>1. CASE s = {}
      BY <2>2, <3>1
    <3>2. CASE s # {}
      <4>1. s \ {Pick(s)} \in SUBSET U /\ Cardinality(s \ {Pick(s)}) <= n
        BY <2>4, <3>2, Sizes
      <4>2. h[s \ {Pick(s)}] = g[s \ {Pick(s)}]
        BY <2>3, <4>1
      <4> QED BY <2>2, <3>2, <4>2
    <3> QED BY <3>1, <3>2
  <2> QED BY <2>4 DEF FoldsUpTo
<1>3. \A n \in Nat : FoldsUpTo(f, U, n)
  <2>1. SUFFICES ASSUME {n \in Nat : ~FoldsUpTo(f, U, n)} # {} PROVE FALSE
    OBVIOUS
  <2>2. PICK n \in Nat : ~FoldsUpTo(f, U, n) /\ \A m \in Nat : m < n => FoldsUpTo(f, U, m)
    BY <2>1, FirstFailure
  <2>3. n # 0 /\ n - 1 \in Nat /\ n - 1 < n /\ (n - 1) + 1 = n
    BY <1>1, <2>2
  <2> QED BY <1>2, <2>2, <2>3
<1>4. PICK g : \A s \in SUBSET U : Cardinality(s) <= Cardinality(U) =>
                 g[s] = (IF s = {} THEN 0 ELSE f[Pick(s)] + g[s \ {Pick(s)}])
  BY <1>3, FS_CardinalityType DEF FoldsUpTo
<1>5. PICK h : h = [s \in SUBSET U |-> g[s]]
  OBVIOUS
<1>6. \A s \in SUBSET U : Cardinality(s) <= Cardinality(U)
  BY FS_Subset
<1>7. ASSUME NEW s \in SUBSET U
      PROVE  h[s] = (IF s = {} THEN 0 ELSE f[Pick(s)] + h[s \ {Pick(s)}])
  BY <1>4, <1>5, <1>6
<1>8. h = Unfold(f, U, h)
  BY <1>5, <1>7 DEF Unfold
<1> QED BY <1>8

\* Among the sets where something goes wrong there is one of which no smaller
\* part goes wrong.
LEMMA SmallestWrong ==
  ASSUME NEW U, IsFiniteSet(U), NEW Wrong \in SUBSET (SUBSET U), Wrong # {}
  PROVE  \E s \in Wrong : \A t \in SUBSET s : t # s => t \notin Wrong
<1> DEFINE Fails == {Cardinality(s) : s \in Wrong}
<1>1. Fails \in SUBSET Nat /\ Fails # {}
  BY Sizes
<1>2. PICK n \in Fails : \A m \in Nat : m < n => m \notin Fails
  BY <1>1, FirstFailure
<1>3. PICK s \in Wrong : n = Cardinality(s)
  OBVIOUS
<1>4. \A t \in SUBSET U : Cardinality(t) \in Nat /\ Cardinality(t) < n => t \notin Wrong
  BY <1>2
<1> HIDE DEF Fails
<1>5. ASSUME NEW t \in SUBSET s, t # s PROVE t \notin Wrong
  <2>1. IsFiniteSet(s) /\ t \in SUBSET U
    BY FS_Subset
  <2>2. Cardinality(t) \in Nat /\ Cardinality(t) < Cardinality(s)
    BY <1>5, <2>1, FS_Subset, FS_CardinalityType
  <2> QED BY <1>3, <1>4, <2>1, <2>2
<1> QED BY <1>5

FoldOf(f, U) == CHOOSE g : g = Unfold(f, U, g)

LEMMA FoldUnfolds ==
  ASSUME NEW f, NEW U, IsFiniteSet(U), NEW s \in SUBSET U
  PROVE  FoldOf(f, U)[s] = IF s = {} THEN 0 ELSE f[Pick(s)] + FoldOf(f, U)[s \ {Pick(s)}]
<1>1. FoldOf(f, U) = Unfold(f, U, FoldOf(f, U))
  BY FoldExists DEF FoldOf
<1> QED BY <1>1 DEF Unfold

\* The fold over a set is the one over a larger set, and over functions that
\* have the same values there.
LEMMA FoldsAgree ==
  ASSUME NEW f, NEW h, NEW U, IsFiniteSet(U), NEW T \in SUBSET U, \A x \in T : f[x] = h[x]
  PROVE  \A s \in SUBSET T : FoldOf(f, U)[s] = FoldOf(h, T)[s]
<1> DEFINE Differ == {s \in SUBSET T : FoldOf(f, U)[s] # FoldOf(h, T)[s]}
<1>1. IsFiniteSet(T)
  BY FS_Subset
<1>2. SUFFICES ASSUME Differ # {} PROVE FALSE
  OBVIOUS
<1>3. PICK s \in Differ : \A t \in SUBSET s : t # s => t \notin Differ
  <2>1. Differ \in SUBSET (SUBSET T)
    OBVIOUS
  <2> HIDE DEF Differ
  <2> QED BY <1>1, <1>2, <2>1, SmallestWrong
<1>4. s \in SUBSET T /\ s \in SUBSET U /\ FoldOf(f, U)[s] # FoldOf(h, T)[s]
  OBVIOUS
<1>5. \A t \in SUBSET s : t # s => FoldOf(f, U)[t] = FoldOf(h, T)[t]
  BY <1>3
<1> HIDE DEF Differ
<1>6. /\ FoldOf(f, U)[s] = IF s = {} THEN 0 ELSE f[Pick(s)] + FoldOf(f, U)[s \ {Pick(s)}]
      /\ FoldOf(h, T)[s] = IF s = {} THEN 0 ELSE h[Pick(s)] + FoldOf(h, T)[s \ {Pick(s)}]
  <2>1. FoldOf(f, U)[s] = IF s = {} THEN 0 ELSE f[Pick(s)] + FoldOf(f, U)[s \ {Pick(s)}]
    BY <1>4, FoldUnfolds
  <2>2. FoldOf(h, T)[s] = IF s = {} THEN 0 ELSE h[Pick(s)] + FoldOf(h, T)[s \ {Pick(s)}]
    BY <1>1, <1>4, FoldUnfolds
  <2> QED BY <2>1, <2>2
<1>7. CASE s = {}
  BY <1>4, <1>6, <1>7
<1>8. CASE s # {}
  <2>1. Pick(s) \in s /\ s \ {Pick(s)} \in SUBSET s /\ s \ {Pick(s)} # s
    BY <1>8 DEF Pick
  <2>2. FoldOf(f, U)[s \ {Pick(s)}] = FoldOf(h, T)[s \ {Pick(s)}]
    BY <1>5, <2>1
  <2>3. f[Pick(s)] = h[Pick(s)]
    BY <1>4, <2>1
  <2> QED BY <1>4, <1>6, <1>8, <2>2, <2>3
<1> QED BY <1>7, <1>8

LEMMA SumIsFoldOf ==
  ASSUME NEW f, NEW U, IsFiniteSet(U), NEW T \in SUBSET U
  PROVE  SumFunctionOnSet(f, T) = FoldOf(f, U)[T]
<1>1. SumFunctionOnSet(f, T) = FoldOf(f, T)[T]
  BY SumIsFold DEF FoldOf
<1>2. \A x \in T : f[x] = f[x]
  OBVIOUS
<1>3. \A s \in SUBSET T : FoldOf(f, U)[s] = FoldOf(f, T)[s]
  BY <1>2, FoldsAgree
<1> QED BY <1>1, <1>3

\* Each value of the fold is an integer, and any element may be taken first.
AnyFirst(f, U, s) ==
  /\ FoldOf(f, U)[s] \in Int
  /\ \A x \in s : FoldOf(f, U)[s] = f[x] + FoldOf(f, U)[s \ {x}]

LEMMA AnyElementFirst ==
  ASSUME NEW f, NEW U, IsFiniteSet(U), \A x \in U : f[x] \in Int
  PROVE  \A s \in SUBSET U : AnyFirst(f, U, s)
<1> DEFINE Wrong == {s \in SUBSET U : ~AnyFirst(f, U, s)}
           g == FoldOf(f, U)
<1>1. SUFFICES ASSUME Wrong # {} PROVE FALSE
  OBVIOUS
<1>2. PICK s \in Wrong : \A t \in SUBSET s : t # s => t \notin Wrong
  <2>1. Wrong \in SUBSET (SUBSET U)
    OBVIOUS
  <2> HIDE DEF Wrong
  <2> QED BY <1>1, <2>1, SmallestWrong
<1>3. s \in SUBSET U /\ ~AnyFirst(f, U, s)
  OBVIOUS
<1>4. \A t \in SUBSET s : t # s => AnyFirst(f, U, t)
  BY <1>2, <1>3
<1> HIDE DEF Wrong
<1> DEFINE p == Pick(s)
<1>5. \A x \in s : AnyFirst(f, U, s \ {x}) /\ f[x] \in Int
  BY <1>3, <1>4
<1>6. CASE s = {}
  <2>1. g[s] = 0
    BY <1>3, <1>6, FoldUnfolds
  <2> HIDE DEF g
  <2>2. g[s] \in Int /\ \A x \in s : g[s] = f[x] + g[s \ {x}]
    BY <1>6, <2>1
  <2> QED BY <1>3, <2>2 DEF AnyFirst, g
<1>7. CASE s # {}
  <2>1. p \in s /\ g[s] = f[p] + g[s \ {p}]
    BY <1>3, <1>7, FoldUnfolds DEF Pick
  <2> HIDE DEF p
  <2>2. g[s \ {p}] \in Int /\ g[s] \in Int
    <3>1. g[s \ {p}] \in Int /\ f[p] \in Int
      BY <1>5, <2>1 DEF AnyFirst
    <3> HIDE DEF g
    <3> QED BY <2>1, <3>1
  <2>3. ASSUME NEW x \in s \ {p} PROVE g[s] = f[x] + g[s \ {x}]
    <3>1. g[s \ {p}] = f[x] + g[(s \ {p}) \ {x}]
      BY <1>5, <2>1, <2>3 DEF AnyFirst
    <3>2. p \in s \ {x} /\ x \in s
      BY <2>1, <2>3
    <3>3. g[s \ {x}] = f[p] + g[(s \ {x}) \ {p}]
      BY <1>5, <3>2 DEF AnyFirst
    <3>4. (s \ {p}) \ {x} = (s \ {x}) \ {p}
      OBVIOUS
    <3>5. AnyFirst(f, U, (s \ {x}) \ {p})
      BY <1>4, <3>2
    <3>6. g[(s \ {x}) \ {p}] \in Int /\ f[x] \in Int /\ f[p] \in Int
      BY <1>5, <2>1, <3>2, <3>5 DEF AnyFirst
    <3> HIDE DEF g
    <3>7. g[s] = f[p] + (f[x] + g[(s \ {x}) \ {p}])
      BY <2>1, <3>1, <3>4
    <3> QED BY <3>3, <3>6, <3>7
  <2> QED BY <1>3, <2>1, <2>2, <2>3 DEF AnyFirst
<1> QED BY <1>6, <1>7

\* The sum over nothing is 0.
LEMMA SumEmpty ==
  ASSUME NEW f
  PROVE  SumFunctionOnSet(f, {}) = 0
<1>1. IsFiniteSet({}) /\ {} \in SUBSET {}
  BY FS_EmptySet
<1>2. FoldOf(f, {})[{}] = 0
  BY <1>1, FoldUnfolds
<1> QED BY <1>1, <1>2, SumIsFoldOf

LEMMA SumType ==
  ASSUME NEW f, NEW U, IsFiniteSet(U), \A x \in U : f[x] \in Int
  PROVE  SumFunctionOnSet(f, U) \in Int
<1>1. U \in SUBSET U
  OBVIOUS
<1>2. FoldOf(f, U)[U] \in Int
  BY <1>1, AnyElementFirst DEF AnyFirst
<1>3. SumFunctionOnSet(f, U) = FoldOf(f, U)[U]
  BY <1>1, SumIsFoldOf
<1> QED BY <1>2, <1>3

\* An element more adds its value.
LEMMA SumAdd ==
  ASSUME NEW f, NEW U, IsFiniteSet(U), NEW x, x \notin U, \A y \in U \cup {x} : f[y] \in Int
  PROVE  SumFunctionOnSet(f, U \cup {x}) = SumFunctionOnSet(f, U) + f[x]
<1> DEFINE W == U \cup {x}
<1>1. IsFiniteSet(W) /\ x \in W /\ W \ {x} = U /\ U \in SUBSET W
  BY FS_AddElement
<1>2. FoldOf(f, W)[W] = f[x] + FoldOf(f, W)[U] /\ AnyFirst(f, W, U)
  <2>1. AnyFirst(f, W, W) /\ AnyFirst(f, W, U)
    <3>1. W \in SUBSET W /\ U \in SUBSET W /\ \A y \in W : f[y] \in Int
      BY <1>1
    <3> HIDE DEF W
    <3> QED BY <1>1, <3>1, AnyElementFirst
  <2> HIDE DEF W
  <2>2. FoldOf(f, W)[W] = f[x] + FoldOf(f, W)[W \ {x}]
    BY <1>1, <2>1 DEF AnyFirst
  <2> QED BY <1>1, <2>1, <2>2
<1>3. SumFunctionOnSet(f, W) = FoldOf(f, W)[W] /\ SumFunctionOnSet(f, U) = FoldOf(f, W)[U]
  BY <1>1, SumIsFoldOf
<1>4. FoldOf(f, W)[U] \in Int /\ f[x] \in Int
  BY <1>1, <1>2 DEF AnyFirst
<1> QED BY <1>2, <1>3, <1>4

\* Functions that agree on a set have the same sum over it.
LEMMA SumSame ==
  ASSUME NEW f, NEW h, NEW U, IsFiniteSet(U), \A x \in U : f[x] = h[x]
  PROVE  SumFunctionOnSet(f, U) = SumFunctionOnSet(h, U)
<1>1. U \in SUBSET U
  OBVIOUS
<1>2. FoldOf(f, U)[U] = FoldOf(h, U)[U]
  BY <1>1, FoldsAgree
<1> QED BY <1>1, <1>2, SumIsFoldOf

\* A value changed by c changes the sum by c.
LEMMA SumChange ==
  ASSUME NEW U, IsFiniteSet(U), NEW f, NEW h, NEW x, NEW c \in Int,
         \A y \in U : f[y] \in Int, h[x] = f[x] + c, \A y \in U \ {x} : h[y] = f[y]
  PROVE  SumFunctionOnSet(h, U) = IF x \in U THEN SumFunctionOnSet(f, U) + c ELSE SumFunctionOnSet(f, U)
<1>1. CASE x \notin U
  <2>1. \A y \in U : h[y] = f[y]
    BY <1>1
  <2> QED BY <1>1, <2>1, SumSame
<1>2. CASE x \in U
  <2> DEFINE V == U \ {x}
  <2>1. IsFiniteSet(V) /\ x \notin V /\ V \cup {x} = U /\ V \subseteq U
    BY <1>2, FS_Subset
  <2>2. \A y \in V : h[y] = f[y]
    OBVIOUS
  <2> HIDE DEF V
  <2>3. SumFunctionOnSet(h, U) = SumFunctionOnSet(h, V) + h[x]
    <3>1. \A y \in V \cup {x} : h[y] \in Int
      BY <1>2, <2>1, <2>2
    <3> QED BY <2>1, <3>1, SumAdd
  <2>4. SumFunctionOnSet(f, U) = SumFunctionOnSet(f, V) + f[x]
    <3>1. \A y \in V \cup {x} : f[y] \in Int
      BY <2>1
    <3> QED BY <2>1, <3>1, SumAdd
  <2>5. SumFunctionOnSet(h, V) = SumFunctionOnSet(f, V)
    BY <2>1, <2>2, SumSame
  <2>6. SumFunctionOnSet(f, V) \in Int /\ f[x] \in Int
    <3>1. \A y \in V : f[y] \in Int
      BY <2>1
    <3> QED BY <1>2, <2>1, <3>1, SumType
  <2> QED BY <1>2, <2>3, <2>4, <2>5, <2>6
<1> QED BY <1>1, <1>2

\* Smaller values over fewer elements have a smaller sum,
LEMMA SumBelow ==
  ASSUME NEW U, IsFiniteSet(U), NEW T \in SUBSET U, NEW f, NEW h,
         \A x \in U : f[x] \in Int /\ h[x] \in Int,
         \A x \in T : f[x] <= h[x], \A x \in U \ T : 0 <= h[x]
  PROVE  SumFunctionOnSet(f, T) <= SumFunctionOnSet(h, U)
<1> DEFINE Below(s) == FoldOf(f, U)[s \cap T] <= FoldOf(h, U)[s]
           Wrong == {s \in SUBSET U : ~Below(s)}
<1>1. \A s \in SUBSET U : AnyFirst(f, U, s) /\ AnyFirst(h, U, s)
  BY AnyElementFirst
<1>2. ASSUME Wrong # {} PROVE FALSE
  <2>1. PICK s \in Wrong : \A t \in SUBSET s : t # s => t \notin Wrong
    <3>1. Wrong \in SUBSET (SUBSET U)
      OBVIOUS
    <3> HIDE DEF Wrong
    <3> QED BY <1>2, <3>1, SmallestWrong
  <2>2. s \in SUBSET U /\ ~Below(s) /\ \A t \in SUBSET s : t # s => Below(t)
    BY <2>1
  <2> HIDE DEF Wrong
  <2>3. CASE s = {}
    <3>1. s \cap T = {}
      BY <2>3
    <3>2. FoldOf(f, U)[{}] = 0 /\ FoldOf(h, U)[{}] = 0
      BY FoldUnfolds
    <3> QED BY <2>2, <2>3, <3>1, <3>2
  <2>4. CASE s # {}
    <3>1. PICK x \in s : TRUE
      BY <2>4
    <3> DEFINE rest == s \ {x}
    <3>2. rest \in SUBSET s /\ rest # s /\ rest \in SUBSET U /\ rest \cap T \in SUBSET U
          /\ s \cap T \in SUBSET U
      BY <2>2
    <3>3. FoldOf(f, U)[rest \cap T] <= FoldOf(h, U)[rest]
      BY <2>2, <3>2
    <3>4. FoldOf(h, U)[s] = h[x] + FoldOf(h, U)[rest] /\ FoldOf(h, U)[rest] \in Int
      BY <1>1, <2>2, <3>2 DEF AnyFirst
    <3>5. FoldOf(f, U)[rest \cap T] \in Int
      BY <1>1, <3>2 DEF AnyFirst
    <3>6. x \in T => FoldOf(f, U)[s \cap T] = f[x] + FoldOf(f, U)[rest \cap T]
      <4>1. (s \cap T) \ {x} = rest \cap T
        OBVIOUS
      <4> HIDE DEF rest
      <4> QED BY <1>1, <3>2, <4>1 DEF AnyFirst
    <3>7. x \notin T => FoldOf(f, U)[s \cap T] = FoldOf(f, U)[rest \cap T]
      <4>1. x \notin T => s \cap T = rest \cap T
        OBVIOUS
      <4> HIDE DEF rest
      <4> QED BY <4>1
    <3>8. f[x] \in Int /\ h[x] \in Int /\ (x \in T => f[x] <= h[x]) /\ (x \notin T => 0 <= h[x])
      BY <2>2
    <3> HIDE DEF rest
    <3>9. Below(s)
      <4>1. CASE x \in T
        BY <3>3, <3>4, <3>5, <3>6, <3>8, <4>1
      <4>2. CASE x \notin T
        BY <3>3, <3>4, <3>5, <3>7, <3>8, <4>2
      <4> QED BY <4>1, <4>2
    <3> QED BY <2>2, <3>9
  <2> QED BY <2>3, <2>4
<1>3. U \in SUBSET U /\ U \cap T = T
  OBVIOUS
<1>4. FoldOf(f, U)[T] <= FoldOf(h, U)[U]
  BY <1>2, <1>3
<1> QED BY <1>3, <1>4, SumIsFoldOf

\* and elements of value 0 may be left out.
LEMMA SumOutside ==
  ASSUME NEW U, IsFiniteSet(U), NEW T \in SUBSET U, NEW f,
         \A x \in U : f[x] \in Int, \A x \in U \ T : f[x] = 0
  PROVE  SumFunctionOnSet(f, U) = SumFunctionOnSet(f, T)
<1> DEFINE Wrong == {s \in SUBSET U : FoldOf(f, U)[s \cap T] # FoldOf(f, U)[s]}
<1>1. \A s \in SUBSET U : AnyFirst(f, U, s)
  BY AnyElementFirst
<1>2. ASSUME Wrong # {} PROVE FALSE
  <2>1. PICK s \in Wrong : \A t \in SUBSET s : t # s => t \notin Wrong
    <3>1. Wrong \in SUBSET (SUBSET U)
      OBVIOUS
    <3> HIDE DEF Wrong
    <3> QED BY <1>2, <3>1, SmallestWrong
  <2>2. /\ s \in SUBSET U /\ FoldOf(f, U)[s \cap T] # FoldOf(f, U)[s]
        /\ \A t \in SUBSET s : t # s => FoldOf(f, U)[t \cap T] = FoldOf(f, U)[t]
    BY <2>1
  <2> HIDE DEF Wrong
  <2>3. PICK x \in s : x \notin T
    <3>1. CASE s \subseteq T
      <4>1. s \cap T = s
        BY <3>1
      <4> QED BY <2>2, <4>1
    <3> QED BY <3>1
  <2>4. s \ {x} \in SUBSET s /\ s \ {x} # s /\ (s \ {x}) \cap T = s \cap T
    BY <2>3
  <2>5. FoldOf(f, U)[s \cap T] = FoldOf(f, U)[s \ {x}]
    BY <2>2, <2>4
  <2>6. FoldOf(f, U)[s] = f[x] + FoldOf(f, U)[s \ {x}] /\ FoldOf(f, U)[s \ {x}] \in Int
    BY <1>1, <2>2, <2>4 DEF AnyFirst
  <2>7. f[x] = 0
    BY <2>2, <2>3
  <2> QED BY <2>2, <2>5, <2>6, <2>7
<1>3. U \in SUBSET U /\ U \cap T = T
  OBVIOUS
<1>4. FoldOf(f, U)[T] = FoldOf(f, U)[U]
  BY <1>2, <1>3
<1> QED BY <1>3, <1>4, SumIsFoldOf

-----------------------------------------------------------------------------
(***************************************************************************)
(* Numbers: the least of a set, products in the order of their factors, and *)
(* the aligned windows a division cuts time into.                           *)
(***************************************************************************)

LEMMA Oldest ==
  ASSUME NEW S \in SUBSET Nat, S # {}
  PROVE  (CHOOSE t \in S : \A u \in S : t <= u) \in S
<1>1. PICK n \in S : \A m \in Nat : m < n => m \notin S
  BY FirstFailure
<1>2. \A u \in S : n <= u
  BY <1>1
<1> QED BY <1>2

LEMMA Multiples ==
  ASSUME NEW w \in Nat, NEW p \in Int, NEW q \in Int, p < q
  PROVE  w * p + w <= w * q
<1>1. PICK d \in Nat : q = p + 1 + d
  <2>1. q - p - 1 \in Nat /\ q = p + 1 + (q - p - 1)
    OBVIOUS
  <2> QED BY <2>1
<1>2. w * q = w * p + w + w * d /\ w * d \in Nat /\ w * p \in Int
  BY <1>1
<1> QED BY <1>2

LEMMA QuotientAndRest ==
  ASSUME NEW n \in Int, NEW w \in Int, w > 0
  PROVE  \E q \in Int, r \in Int : q = n \div w /\ r = n % w /\ n = w * q + r
OBVIOUS

LEMMA Dividing ==
  ASSUME NEW n \in Nat, NEW w \in Nat \ {0}
  PROVE  \E q \in Nat, r \in Nat, m \in Nat :
           q = n \div w /\ r = n % w /\ m = w * q /\ r < w /\ n = m + r
<1>1. n % w \in Nat /\ n % w < w
  OBVIOUS
<1>2. n \in Int /\ w \in Int /\ w > 0
  OBVIOUS
<1>3. PICK q \in Int, r \in Int : q = n \div w /\ r = n % w /\ n = w * q + r
  BY ONLY <1>2, QuotientAndRest
<1>4. PICK m \in Int : m = w * q
  OBVIOUS
<1>5. r \in Nat /\ r < w /\ n = m + r
  <2>1. r = n % w /\ n = w * q + r
    BY <1>3
  <2>2. r \in Nat /\ r < w
    BY ONLY <1>1, <2>1
  <2> QED BY ONLY <1>4, <2>1, <2>2
<1>6. ASSUME q < 0 PROVE FALSE
  <2>1. w * q + w <= w * 0
    BY <1>6, Multiples
  <2>2. m + w <= 0
    BY ONLY <1>4, <2>1, w \in Nat, q \in Int, m \in Int
  <2> QED BY ONLY <1>5, <2>2, m \in Int, r \in Nat, n \in Nat, w \in Nat
<1>7. q \in Nat /\ m \in Nat
  <2>1. q \in Nat
    BY <1>6
  <2> QED BY <1>4, <2>1
<1> QED BY <1>3, <1>4, <1>5, <1>7, Zenon

LEMMA Products ==
  ASSUME NEW m \in Nat, NEW x \in Nat, NEW y \in Nat, x <= y
  PROVE  m * x \in Nat /\ m * y \in Nat /\ m * x <= m * y
<1>1. PICK d \in Nat : y = x + d
  <2>1. y - x \in Nat /\ y = x + (y - x)
    OBVIOUS
  <2> QED BY <2>1
<1>2. m * y = m * x + m * d /\ m * d \in Nat /\ m * x \in Nat
  BY <1>1
<1> QED BY <1>2

\* Two times, the aligned windows they are in and the starts of those.
WindowsOf(a, b, w) ==
  \E q \in Nat, p \in Nat, x \in Nat, y \in Nat :
    /\ q = a \div w /\ p = b \div w /\ x = a - (a % w) /\ y = b - (b % w)
    /\ x <= a /\ a < x + w /\ y <= b /\ b < y + w
    /\ q <= p /\ (q = p => x = y) /\ (q # p => a < y)

\* Of two times the earlier one is in an earlier aligned window or in the same;
\* one window has one start, and the next starts when it ends.
LEMMA WindowsInOrder ==
  ASSUME NEW a \in Nat, NEW b \in Nat, a <= b, NEW w \in Nat \ {0}
  PROVE  WindowsOf(a, b, w)
<1>1. PICK q \in Nat, r \in Nat, x \in Nat :
        q = a \div w /\ r = a % w /\ x = w * q /\ r < w /\ a = x + r
  BY Dividing
<1>2. PICK p \in Nat, s \in Nat, y \in Nat :
        p = b \div w /\ s = b % w /\ y = w * p /\ s < w /\ b = y + s
  BY Dividing
<1>3. p < q => y + w <= x
  BY <1>1, <1>2, Multiples
<1>4. q < p => x + w <= y
  BY <1>1, <1>2, Multiples
<1>5. q = p => x = y
  BY <1>1, <1>2
<1>6. /\ a = x + r /\ b = y + s /\ r < w /\ s < w /\ a <= b
  BY <1>1, <1>2
<1>7. /\ x = a - r /\ y = b - s /\ x <= a /\ a < x + w /\ y <= b /\ b < y + w
      /\ q <= p /\ (q = p => x = y) /\ (q # p => a < y)
  BY ONLY <1>3, <1>4, <1>5, <1>6, q \in Nat, p \in Nat, r \in Nat, s \in Nat, x \in Nat, y \in Nat, w \in Nat
<1>8. q = a \div w /\ r = a % w /\ p = b \div w /\ s = b % w
  BY <1>1, <1>2
<1>9. x = a - (a % w) /\ y = b - (b % w)
  BY ONLY <1>7, <1>8, Zenon
<1> QED BY ONLY <1>7, <1>8, <1>9, q \in Nat, p \in Nat, x \in Nat, y \in Nat, Zenon DEF WindowsOf
=============================================================================
