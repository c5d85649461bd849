----------------------------- MODULE SumTheorems -----------------------------
(***************************************************************************)
(* Sums over sets of any finite size, for the proofs about balances, and   *)
(* sequences of values that have no type.                                  *)
(*                                                                         *)
(* SumFunction of the community modules is a fold that takes the elements  *)
(* of its domain in an order CHOOSE fixes.  The lemmas say what a proof    *)
(* needs of it: how the sum follows one changed value, one element more or *)
(* less, a pointwise sum or a renaming.  They rest on induction, stated    *)
(* over sets (of numbers, of subsets) and not over operators, so that each *)
(* is an ordinary lemma to cite.                                           *)
(***************************************************************************)
EXTENDS Sequences, FiniteSetsExt, Functions, FiniteSetTheorems, TLAPS

(* A minimal element of an order that contains < is the least number. *)
LEMMA LeastOf ==
  ASSUME NEW Less, \A m, n \in Nat : m < n => <<m, n>> \in Less,
         NEW T, T \subseteq Nat, NEW n \in T, \A m \in T : ~ (<<m, n>> \in Less)
  PROVE  \A m \in T : n <= m
<1> SUFFICES ASSUME NEW m \in T PROVE n <= m
  OBVIOUS
<1>1. m \in Nat /\ n \in Nat /\ ~ (m < n)
  OBVIOUS
<1> QED BY <1>1

(* A set of natural numbers that is not empty has a least element. *)
LEMMA NatMinimum ==
  ASSUME NEW T, T \subseteq Nat, T # {}
  PROVE  \E n \in T : \A m \in T : n <= m
<1> DEFINE Less == OpToRel(<, Nat)
<1>1. \A m, n \in Nat : m < n => <<m, n>> \in Less
  BY DEF OpToRel
<1>2. IsWellFoundedOn(Less, Nat)
  BY NatLessThanWellFounded
<1> HIDE DEF Less
<1>3. PICK n \in T : \A m \in T : ~ (<<m, n>> \in Less)
  BY <1>2, WFMin, Zenon
<1>4. \A m \in T : n <= m
  BY <1>1, <1>3, LeastOf, Zenon
<1> QED BY <1>4

(* A set with 0 and the successor of each of its members is Nat. *)
LEMMA Induction ==
  ASSUME NEW T, T \subseteq Nat, 0 \in T, \A n \in T : n + 1 \in T
  PROVE  T = Nat
<1>1. SUFFICES ASSUME Nat \ T # {} PROVE FALSE
  OBVIOUS
<1>2. PICK n \in Nat \ T : \A m \in Nat \ T : n <= m
  BY <1>1, NatMinimum
<1>3. n - 1 \in Nat /\ n - 1 \notin Nat \ T
  BY <1>2
<1> QED BY <1>2, <1>3

(* A set that has every number whose predecessors it has is Nat. *)
LEMMA StrongInduction ==
  ASSUME NEW T, T \subseteq Nat, \A n \in Nat : (\A m \in Nat : m < n => m \in T) => n \in T
  PROVE  T = Nat
<1>1. SUFFICES ASSUME Nat \ T # {} PROVE FALSE
  OBVIOUS
<1>2. PICK n \in Nat \ T : \A m \in Nat \ T : n <= m
  BY <1>1, NatMinimum
<1>3. \A m \in Nat : m < n => m \in T
  BY <1>2
<1> QED BY <1>2, <1>3

(* X has the sets of n + 1 elements when it has those of n. *)
LEMMA LargerSets ==
  ASSUME NEW S, IsFiniteSet(S), NEW X,
         \A T \in SUBSET S : \A x \in S \ T : T \in X => T \cup {x} \in X,
         NEW n \in Nat, \A T \in SUBSET S : Cardinality(T) = n => T \in X,
         NEW T \in SUBSET S, Cardinality(T) = n + 1
  PROVE  T \in X
<1>1. IsFiniteSet(T)
  BY FS_Subset
<1>2. T # {}
  BY <1>1, FS_EmptySet
<1>3. PICK x \in T : TRUE
  BY <1>2
<1>4. T \ {x} \in SUBSET S /\ Cardinality(T \ {x}) = n
  <2>1. Cardinality(T \ {x}) = Cardinality(T) - 1
    BY <1>1, <1>3, FS_RemoveElement
  <2> QED BY <2>1
<1>5. (T \ {x}) \cup {x} \in X
  BY <1>3, <1>4
<1>6. (T \ {x}) \cup {x} = T
  BY <1>3
<1> QED BY <1>5, <1>6

(* X has the finite set S when it has {} and, with a part of S,
   that part and one element more. *)
LEMMA FiniteInduction ==
  ASSUME NEW S, IsFiniteSet(S), NEW X, {} \in X,
         \A T \in SUBSET S : \A x \in S \ T : T \in X => T \cup {x} \in X
  PROVE  S \in X
<1> DEFINE N == {n \in Nat : \A T \in SUBSET S : Cardinality(T) = n => T \in X}
<1>1. \A T \in SUBSET S : IsFiniteSet(T) /\ Cardinality(T) \in Nat
  BY FS_Subset, FS_CardinalityType
<1>2. 0 \in N
  BY <1>1, FS_EmptySet
<1>3. ASSUME NEW n \in N PROVE n + 1 \in N
  <2>1. n \in Nat /\ \A T \in SUBSET S : Cardinality(T) = n => T \in X
    BY <1>3
  <2> HIDE DEF N
  <2>2. ASSUME NEW T \in SUBSET S, Cardinality(T) = n + 1 PROVE T \in X
    BY <2>1, <2>2, LargerSets
  <2>3. n + 1 \in Nat /\ \A T \in SUBSET S : Cardinality(T) = n + 1 => T \in X
    BY <2>1, <2>2
  <2> QED BY <2>3 DEF N
<1>4. N = Nat
  <2> HIDE DEF N
  <2>1. N \subseteq Nat
    BY DEF N
  <2> QED BY <1>2, <1>3, <2>1, Induction
<1> QED BY <1>1, <1>4

-----------------------------------------------------------------------------

(* The element the fold takes first. *)
Chosen(s) == CHOOSE x \in s : TRUE

(* One step of the fold, given the sums of the smaller sets. *)
FoldStep(f, sum, s) == IF s = {} THEN 0 ELSE f[Chosen(s)] + sum[s \ {Chosen(s)}]

(* sum gives every part of f's domain its fold. *)
IsFold(f, sum) == sum = [s \in SUBSET DOMAIN f |-> FoldStep(f, sum, s)]

FoldOf(f) == CHOOSE sum : IsFold(f, sum)

(* The community definition, without its operator parameters. *)
LEMMA SumIsFold == \A f : SumFunction(f) = FoldOf(f)[DOMAIN f]
BY DEF SumFunction, SumFunctionOnSet, FoldFunctionOnSet, MapThenFoldSet, FoldOf, IsFold, FoldStep, Chosen

(* A function with a finite domain and integer values. *)
Summable(f) == /\ IsFiniteSet(DOMAIN f) /\ f = [x \in DOMAIN f |-> f[x]]
               /\ \A x \in DOMAIN f : f[x] \in Int

(* The element the fold takes is one of the set. *)
LEMMA ChosenOf == ASSUME NEW s, s # {} PROVE Chosen(s) \in s
BY DEF Chosen

(* What the fold leaves is smaller by one. *)
LEMMA PartsOf ==
  ASSUME NEW f, Summable(f), NEW s \in SUBSET DOMAIN f
  PROVE  /\ IsFiniteSet(s) /\ Cardinality(s) \in Nat
         /\ s # {} => /\ Chosen(s) \in s /\ f[Chosen(s)] \in Int
                      /\ s \ {Chosen(s)} \in SUBSET DOMAIN f
                      /\ Cardinality(s \ {Chosen(s)}) = Cardinality(s) - 1
                      /\ Cardinality(s) > 0
<1>1. IsFiniteSet(s) /\ Cardinality(s) \in Nat
  BY FS_Subset, FS_CardinalityType DEF Summable
<1>2. ASSUME s # {}
      PROVE  /\ Chosen(s) \in s /\ f[Chosen(s)] \in Int /\ s \ {Chosen(s)} \in SUBSET DOMAIN f
             /\ Cardinality(s \ {Chosen(s)}) = Cardinality(s) - 1 /\ Cardinality(s) > 0
  <2>1. Chosen(s) \in s
    BY <1>2, ChosenOf
  <2>2. Cardinality(s) # 0
    BY <1>1, <1>2, FS_EmptySet
  <2>3. Cardinality(s \ {Chosen(s)}) = Cardinality(s) - 1
    BY <1>1, <2>1, FS_RemoveElement
  <2> QED BY <1>1, <2>1, <2>2, <2>3 DEF Summable
<1> QED BY <1>1, <1>2

(* The parts of the domain with at most n elements. *)
SmallParts(f, n) == {s \in SUBSET DOMAIN f : Cardinality(s) <= n}

(* sum folds those parts. *)
FoldsTo(f, n, sum) == \A s \in SmallParts(f, n) : sum[s] \in Int /\ sum[s] = FoldStep(f, sum, s)

(* A fold over the sets of up to n elements extends to n + 1. *)
LEMMA FoldFurther ==
  ASSUME NEW f, Summable(f), NEW n \in Nat, NEW sum, FoldsTo(f, n, sum),
         NEW next, next = [s \in SmallParts(f, n + 1) |-> FoldStep(f, sum, s)]
  PROVE  FoldsTo(f, n + 1, next)
<1> SUFFICES ASSUME NEW s \in SmallParts(f, n + 1)
             PROVE  next[s] \in Int /\ next[s] = FoldStep(f, next, s)
  BY DEF FoldsTo
<1>1. next[s] = FoldStep(f, sum, s)
  OBVIOUS
<1>2. CASE s = {}
  BY <1>1, <1>2 DEF FoldStep
<1>3. CASE s # {}
  <2> DEFINE t == s \ {Chosen(s)}
  <2>1. s \in SUBSET DOMAIN f /\ Cardinality(s) <= n + 1
    BY DEF SmallParts
  <2>2. /\ f[Chosen(s)] \in Int /\ t \in SUBSET DOMAIN f
        /\ Cardinality(t) = Cardinality(s) - 1 /\ Cardinality(s) \in Nat
    BY <1>3, <2>1, PartsOf
  <2> HIDE DEF t
  <2>3. t \in SmallParts(f, n) /\ t \in SmallParts(f, n + 1)
    BY <2>1, <2>2 DEF SmallParts
  <2>4. sum[t] \in Int /\ sum[t] = FoldStep(f, sum, t)
    BY <2>3 DEF FoldsTo
  <2>5. next[t] = FoldStep(f, sum, t)
    BY <2>3
  <2>6. next[s] = f[Chosen(s)] + sum[t] /\ FoldStep(f, next, s) = f[Chosen(s)] + next[t]
    BY <1>1, <1>3 DEF FoldStep, t
  <2> QED BY <2>2, <2>4, <2>5, <2>6
<1> QED BY <1>2, <1>3

(* There is a fold, so CHOOSE finds one. *)
LEMMA FoldExists ==
  ASSUME NEW f, Summable(f)
  PROVE  \E sum : IsFold(f, sum)
<1> DEFINE N == {n \in Nat : \E sum : FoldsTo(f, n, sum) /\ sum = [s \in SmallParts(f, n) |-> sum[s]]}
<1>1. 0 \in N
  <2>1. ASSUME NEW s \in SmallParts(f, 0) PROVE s = {}
    <3>1. s \in SUBSET DOMAIN f /\ Cardinality(s) <= 0
      BY DEF SmallParts
    <3>2. IsFiniteSet(s) /\ Cardinality(s) \in Nat
      <4> HIDE DEF N
      <4> QED BY <3>1, PartsOf
    <3> QED BY <3>1, <3>2, FS_EmptySet
  <2> DEFINE zero == [s \in SmallParts(f, 0) |-> 0]
  <2>2. FoldsTo(f, 0, zero) /\ zero = [s \in SmallParts(f, 0) |-> zero[s]]
    BY <2>1 DEF FoldStep, FoldsTo
  <2> HIDE DEF zero
  <2> QED BY <2>2
<1>2. ASSUME NEW n \in N PROVE n + 1 \in N
  <2>1. n \in Nat
    BY <1>2
  <2>2. PICK sum : FoldsTo(f, n, sum)
    BY <1>2
  <2> DEFINE next == [s \in SmallParts(f, n + 1) |-> FoldStep(f, sum, s)]
  <2>3. FoldsTo(f, n + 1, next) /\ next = [s \in SmallParts(f, n + 1) |-> next[s]]
    BY <2>1, <2>2, FoldFurther
  <2> HIDE DEF next
  <2> QED BY <2>1, <2>3
<1>3. N = Nat
  <2>1. N \subseteq Nat
    OBVIOUS
  <2> HIDE DEF N
  <2> QED BY <1>1, <1>2, <2>1, Induction
<1> DEFINE c == Cardinality(DOMAIN f)
<1>4. c \in N /\ SmallParts(f, c) = SUBSET DOMAIN f
  <2>1. c \in Nat
    BY FS_CardinalityType DEF Summable
  <2>2. \A s \in SUBSET DOMAIN f : Cardinality(s) <= c
    BY FS_Subset DEF Summable
  <2> QED BY <1>3, <2>1, <2>2 DEF SmallParts
<1> HIDE DEF c
<1>5. PICK sum : FoldsTo(f, c, sum) /\ sum = [s \in SUBSET DOMAIN f |-> sum[s]]
  BY <1>4
<1>6. \A s \in SUBSET DOMAIN f : sum[s] = FoldStep(f, sum, s)
  BY <1>4, <1>5 DEF FoldsTo
<1> QED BY <1>5, <1>6 DEF IsFold

(* The equation of the fold. *)
LEMMA FoldEquation ==
  ASSUME NEW f, Summable(f)
  PROVE  /\ FoldOf(f) \in [SUBSET DOMAIN f -> Int]
         /\ \A s \in SUBSET DOMAIN f : FoldOf(f)[s] = FoldStep(f, FoldOf(f), s)
<1>1. \E sum : IsFold(f, sum)
  BY FoldExists
<1>2. IsFold(f, FoldOf(f))
  BY <1>1 DEF FoldOf
<1> DEFINE sum == FoldOf(f)
           N == {n \in Nat : \A s \in SUBSET DOMAIN f : Cardinality(s) = n => sum[s] \in Int}
<1>3. \A s \in SUBSET DOMAIN f : sum[s] = FoldStep(f, sum, s)
  BY <1>2 DEF IsFold
<1>4. sum = [s \in SUBSET DOMAIN f |-> sum[s]]
  BY <1>2 DEF IsFold
<1> HIDE DEF sum
<1>5. ASSUME NEW n \in Nat, \A m \in Nat : m < n => m \in N PROVE n \in N
  <2>1. SUFFICES ASSUME NEW s \in SUBSET DOMAIN f, Cardinality(s) = n PROVE sum[s] \in Int
    OBVIOUS
  <2>2. sum[s] = FoldStep(f, sum, s)
    BY <1>3
  <2>3. CASE s = {}
    BY <2>2, <2>3 DEF FoldStep
  <2>4. CASE s # {}
    <3>1. /\ n - 1 \in Nat /\ n - 1 < n /\ f[Chosen(s)] \in Int
          /\ s \ {Chosen(s)} \in SUBSET DOMAIN f /\ Cardinality(s \ {Chosen(s)}) = n - 1
      BY <2>1, <2>4, PartsOf
    <3>2. sum[s \ {Chosen(s)}] \in Int
      BY <1>5, <3>1
    <3>3. sum[s] = f[Chosen(s)] + sum[s \ {Chosen(s)}]
      BY <2>2, <2>4 DEF FoldStep
    <3> QED BY <3>1, <3>2, <3>3
  <2> QED BY <2>3, <2>4
<1>6. N = Nat
  <2>1. N \subseteq Nat
    OBVIOUS
  <2> HIDE DEF N
  <2> QED BY <1>5, <2>1, StrongInduction
<1>7. \A s \in SUBSET DOMAIN f : sum[s] \in Int
  BY <1>6, PartsOf
<1> QED BY <1>3, <1>4, <1>7 DEF sum

(* In whatever order: any element can be taken out. *)
LEMMA FoldAnyOrder ==
  ASSUME NEW f, Summable(f), NEW S \in SUBSET DOMAIN f, NEW y \in S
  PROVE  FoldOf(f)[S] = f[y] + FoldOf(f)[S \ {y}]
<1> DEFINE sum == FoldOf(f)
           N == {n \in Nat : \A s \in SUBSET DOMAIN f : Cardinality(s) = n =>
                               \A x \in s : sum[s] = f[x] + sum[s \ {x}]}
<1>1. \A s \in SUBSET DOMAIN f : sum[s] \in Int /\ sum[s] = FoldStep(f, sum, s)
  BY FoldEquation
<1>2. \A x \in DOMAIN f : f[x] \in Int
  BY DEF Summable
<1> HIDE DEF sum
<1>3. ASSUME NEW n \in Nat, \A m \in Nat : m < n => m \in N PROVE n \in N
  <2>1. SUFFICES ASSUME NEW s \in SUBSET DOMAIN f, Cardinality(s) = n, NEW x \in s
                 PROVE  sum[s] = f[x] + sum[s \ {x}]
    OBVIOUS
  <2> DEFINE c == Chosen(s)
             t == s \ {c}
             u == s \ {x}
             v == (s \ {c}) \ {x}
  <2>2. /\ c \in s /\ t \in SUBSET DOMAIN f /\ Cardinality(t) = n - 1
        /\ n - 1 \in Nat /\ n - 1 < n
    <3>1. s # {}
      BY <2>1
    <3>2. /\ Chosen(s) \in s /\ s \ {Chosen(s)} \in SUBSET DOMAIN f /\ Cardinality(s) > 0
          /\ Cardinality(s \ {Chosen(s)}) = Cardinality(s) - 1
      BY <3>1, PartsOf
    <3> QED BY <2>1, <3>2
  <2>3. sum[s] = f[c] + sum[t]
    BY <1>1, <2>1 DEF FoldStep
  <2>4. CASE x = c
    BY <2>3, <2>4
  <2>5. CASE x # c
    <3>1. /\ x \in t /\ c \in u /\ u \in SUBSET DOMAIN f /\ v \in SUBSET DOMAIN f
          /\ v = u \ {c} /\ v = t \ {x}
      BY <2>1, <2>2, <2>5
    <3>2. Cardinality(u) = n - 1
      <4>1. IsFiniteSet(s)
        BY FS_Subset DEF Summable
      <4> QED BY <2>1, <4>1, FS_RemoveElement
    <3>3. n - 1 \in N
      BY <1>3, <2>2
    <3> HIDE DEF c, t, u, v
    <3>4. sum[t] = f[x] + sum[v]
      BY <2>2, <3>1, <3>3
    <3>5. sum[u] = f[c] + sum[v]
      BY <3>1, <3>2, <3>3
    <3>6. sum[v] \in Int /\ f[x] \in Int /\ f[c] \in Int
      BY <1>1, <1>2, <2>1, <2>2, <3>1
    <3>7. sum[s] = f[x] + sum[u]
      BY <2>3, <3>4, <3>5, <3>6
    <3> QED BY <3>7 DEF u
  <2> QED BY <2>4, <2>5
<1>4. N = Nat
  <2>1. N \subseteq Nat
    OBVIOUS
  <2> HIDE DEF N
  <2> QED BY <1>3, <2>1, StrongInduction
<1>5. Cardinality(S) \in Nat
  BY PartsOf
<1>6. FoldOf(f)[S] = f[y] + FoldOf(f)[S \ {y}]
  BY <1>4, <1>5 DEF sum
<1> QED BY <1>6

-----------------------------------------------------------------------------

(* A function into Int with a finite domain can be summed. *)
LEMMA SummableOf ==
  ASSUME NEW S, IsFiniteSet(S), NEW f \in [S -> Int]
  PROVE  Summable(f) /\ DOMAIN f = S
BY DEF Summable

(* The fold grows with the set by the value of the element it gains. *)
Additive(f, S) ==
  /\ FoldOf(f)[{}] = 0
  /\ \A T \in SUBSET S : FoldOf(f)[T] \in Int
  /\ \A T \in SUBSET S : \A x \in S \ T : FoldOf(f)[T \cup {x}] = f[x] + FoldOf(f)[T]

(* The fold of such a function is additive, and the sum is its value. *)
LEMMA FoldAdditive ==
  ASSUME NEW S, IsFiniteSet(S), NEW f \in [S -> Int]
  PROVE  Additive(f, S) /\ SumFunction(f) = FoldOf(f)[S]
<1>1. Summable(f) /\ DOMAIN f = S
  BY SummableOf
<1>2. SumFunction(f) = FoldOf(f)[S]
  BY <1>1, SumIsFold
<1>3. /\ \A T \in SUBSET S : FoldOf(f)[T] \in Int
      /\ FoldOf(f)[{}] = FoldStep(f, FoldOf(f), {})
  BY <1>1, FoldEquation
<1>4. ASSUME NEW T \in SUBSET S, NEW x \in S \ T
      PROVE  FoldOf(f)[T \cup {x}] = f[x] + FoldOf(f)[T]
  <2>1. T \cup {x} \in SUBSET DOMAIN f /\ x \in T \cup {x} /\ (T \cup {x}) \ {x} = T
    BY <1>1
  <2> QED BY <1>1, <2>1, FoldAnyOrder
<1> QED BY <1>2, <1>3, <1>4 DEF FoldStep, Additive

(* A sum of integers is an integer. *)
LEMMA SumType ==
  ASSUME NEW S, IsFiniteSet(S), NEW f \in [S -> Int]
  PROVE  SumFunction(f) \in Int
BY FoldAdditive DEF Additive

(* A sum of nothing is 0. *)
LEMMA SumEmpty ==
  ASSUME NEW f \in [{} -> Int]
  PROVE  SumFunction(f) = 0
BY FoldAdditive, FS_EmptySet DEF Additive

(* The sums of two functions over a set one of them may exceed. *)
LEMMA FoldSame ==
  ASSUME NEW S, IsFiniteSet(S), NEW f \in [S -> Int],
         NEW R, IsFiniteSet(R), NEW g \in [R -> Int],
         R \subseteq S, \A x \in R : f[x] = g[x]
  PROVE  FoldOf(f)[R] = SumFunction(g)
<1> DEFINE X == {T \in SUBSET R : FoldOf(f)[T] = FoldOf(g)[T]}
<1>0. Additive(f, S) /\ Additive(g, R) /\ SumFunction(g) = FoldOf(g)[R]
  BY FoldAdditive
<1>1. {} \in X
  BY <1>0 DEF Additive
<1>2. ASSUME NEW T \in SUBSET R, NEW x \in R \ T, T \in X
      PROVE  T \cup {x} \in X
  <2>1. FoldOf(f)[T \cup {x}] = f[x] + FoldOf(f)[T]
    BY <1>0 DEF Additive
  <2>2. FoldOf(g)[T \cup {x}] = g[x] + FoldOf(g)[T]
    BY <1>0 DEF Additive
  <2> QED BY <1>2, <2>1, <2>2
<1>3. R \in X
  <2> HIDE DEF X
  <2> QED BY <1>1, <1>2, FiniteInduction
<1>4. SumFunction(g) = FoldOf(g)[R]
  BY <1>0
<1> QED BY <1>3, <1>4

(* A sum is one of its terms and the sum of the others. *)
LEMMA SumWithout ==
  ASSUME NEW S, IsFiniteSet(S), NEW f \in [S -> Int], NEW x \in S,
         NEW g \in [S \ {x} -> Int], \A y \in S \ {x} : g[y] = f[y]
  PROVE  SumFunction(f) = f[x] + SumFunction(g)
<1>1. IsFiniteSet(S \ {x})
  BY FS_RemoveElement
<1>2. FoldOf(f)[S \ {x}] = SumFunction(g)
  BY <1>1, FoldSame
<1>3. FoldOf(f)[(S \ {x}) \cup {x}] = f[x] + FoldOf(f)[S \ {x}]
  BY FoldAdditive DEF Additive
<1>4. SumFunction(f) = FoldOf(f)[S] /\ (S \ {x}) \cup {x} = S
  BY FoldAdditive
<1> QED BY <1>2, <1>3, <1>4

(* A term more adds its value. *)
LEMMA SumWith ==
  ASSUME NEW S, IsFiniteSet(S), NEW g \in [S -> Int], NEW x, x \notin S,
         NEW f \in [S \cup {x} -> Int], \A y \in S : f[y] = g[y]
  PROVE  SumFunction(f) = f[x] + SumFunction(g)
<1>1. IsFiniteSet(S \cup {x}) /\ (S \cup {x}) \ {x} = S
  BY FS_AddElement
<1> QED BY <1>1, SumWithout

(* One changed value moves the sum by the difference. *)
LEMMA SumChange ==
  ASSUME NEW S, IsFiniteSet(S), NEW f \in [S -> Int], NEW g \in [S -> Int], NEW x \in S,
         \A y \in S \ {x} : g[y] = f[y]
  PROVE  SumFunction(g) = SumFunction(f) - f[x] + g[x]
<1> DEFINE rest == [y \in S \ {x} |-> f[y]]
<1>1. rest \in [S \ {x} -> Int] /\ \A y \in S \ {x} : rest[y] = f[y] /\ rest[y] = g[y]
  OBVIOUS
<1> HIDE DEF rest
<1>2. SumFunction(f) = f[x] + SumFunction(rest)
  BY <1>1, SumWithout
<1>3. SumFunction(g) = g[x] + SumFunction(rest)
  BY <1>1, SumWithout
<1>4. SumFunction(rest) \in Int /\ f[x] \in Int /\ g[x] \in Int
  BY <1>1, SumType, FS_RemoveElement
<1> QED BY <1>2, <1>3, <1>4

(* Larger terms have a larger sum. *)
LEMMA SumMonotone ==
  ASSUME NEW S, IsFiniteSet(S), NEW f \in [S -> Int], NEW g \in [S -> Int],
         \A x \in S : f[x] <= g[x]
  PROVE  SumFunction(f) <= SumFunction(g)
<1> DEFINE X == {T \in SUBSET S : FoldOf(f)[T] <= FoldOf(g)[T]}
<1>0. /\ Additive(f, S) /\ SumFunction(f) = FoldOf(f)[S]
      /\ Additive(g, S) /\ SumFunction(g) = FoldOf(g)[S]
  BY FoldAdditive
<1>1. {} \in X
  BY <1>0 DEF Additive
<1>2. ASSUME NEW T \in SUBSET S, NEW x \in S \ T, T \in X
      PROVE  T \cup {x} \in X
  <2>1. FoldOf(f)[T \cup {x}] = f[x] + FoldOf(f)[T] /\ FoldOf(f)[T] \in Int
    BY <1>0 DEF Additive
  <2>2. FoldOf(g)[T \cup {x}] = g[x] + FoldOf(g)[T] /\ FoldOf(g)[T] \in Int
    BY <1>0 DEF Additive
  <2>3. f[x] \in Int /\ g[x] \in Int /\ f[x] <= g[x] /\ FoldOf(f)[T] <= FoldOf(g)[T]
    BY <1>2
  <2>4. FoldOf(f)[T \cup {x}] <= FoldOf(g)[T \cup {x}]
    BY <2>1, <2>2, <2>3
  <2> QED BY <2>4
<1>3. S \in X
  <2> HIDE DEF X
  <2> QED BY <1>1, <1>2, FiniteInduction
<1> QED BY <1>0, <1>3

(* The sum of the sums is the sum of the pointwise sums. *)
LEMMA SumPlus ==
  ASSUME NEW S, IsFiniteSet(S), NEW f \in [S -> Int], NEW g \in [S -> Int],
         NEW h \in [S -> Int], \A x \in S : h[x] = f[x] + g[x]
  PROVE  SumFunction(h) = SumFunction(f) + SumFunction(g)
<1> DEFINE X == {T \in SUBSET S : FoldOf(h)[T] = FoldOf(f)[T] + FoldOf(g)[T]}
<1>0. /\ Additive(f, S) /\ SumFunction(f) = FoldOf(f)[S]
      /\ Additive(g, S) /\ SumFunction(g) = FoldOf(g)[S]
      /\ Additive(h, S) /\ SumFunction(h) = FoldOf(h)[S]
  BY FoldAdditive
<1>1. {} \in X
  BY <1>0 DEF Additive
<1>2. ASSUME NEW T \in SUBSET S, NEW x \in S \ T, T \in X
      PROVE  T \cup {x} \in X
  <2>1. FoldOf(f)[T \cup {x}] = f[x] + FoldOf(f)[T] /\ FoldOf(f)[T] \in Int
    BY <1>0 DEF Additive
  <2>2. FoldOf(g)[T \cup {x}] = g[x] + FoldOf(g)[T] /\ FoldOf(g)[T] \in Int
    BY <1>0 DEF Additive
  <2>3. FoldOf(h)[T \cup {x}] = h[x] + FoldOf(h)[T]
    BY <1>0 DEF Additive
  <2>4. f[x] \in Int /\ g[x] \in Int /\ h[x] = f[x] + g[x]
    OBVIOUS
  <2>5. FoldOf(h)[T \cup {x}] = FoldOf(f)[T \cup {x}] + FoldOf(g)[T \cup {x}]
    BY <1>2, <2>1, <2>2, <2>3, <2>4
  <2> QED BY <2>5
<1>3. S \in X
  <2> HIDE DEF X
  <2> QED BY <1>1, <1>2, FiniteInduction
<1> QED BY <1>0, <1>3

(* A sum of zeros is 0. *)
LEMMA SumZero ==
  ASSUME NEW S, IsFiniteSet(S), NEW f \in [S -> Int], \A x \in S : f[x] = 0
  PROVE  SumFunction(f) = 0
<1> DEFINE X == {T \in SUBSET S : FoldOf(f)[T] = 0}
<1>0. Additive(f, S) /\ SumFunction(f) = FoldOf(f)[S]
  BY FoldAdditive
<1>1. {} \in X
  BY <1>0 DEF Additive
<1>2. ASSUME NEW T \in SUBSET S, NEW x \in S \ T, T \in X
      PROVE  T \cup {x} \in X
  <2>1. FoldOf(f)[T \cup {x}] = f[x] + FoldOf(f)[T]
    BY <1>0 DEF Additive
  <2> QED BY <1>2, <2>1
<1>3. S \in X
  <2> HIDE DEF X
  <2> QED BY <1>1, <1>2, FiniteInduction
<1> QED BY <1>0, <1>3

(* A sum of naturals bounds each of them. *)
LEMMA SumNat ==
  ASSUME NEW S, IsFiniteSet(S), NEW f \in [S -> Nat]
  PROVE  SumFunction(f) \in Nat /\ \A x \in S : f[x] <= SumFunction(f)
<1> DEFINE zero == [x \in S |-> 0]
<1>1. zero \in [S -> Int] /\ f \in [S -> Int] /\ \A x \in S : zero[x] = 0 /\ zero[x] <= f[x]
  OBVIOUS
<1> HIDE DEF zero
<1>2. SumFunction(zero) = 0 /\ SumFunction(zero) <= SumFunction(f) /\ SumFunction(f) \in Int
  BY <1>1, SumZero, SumMonotone, SumType
<1>3. ASSUME NEW x \in S PROVE f[x] <= SumFunction(f)
  <2> DEFINE only == [y \in S |-> IF y = x THEN f[x] ELSE 0]
  <2>1. only \in [S -> Int] /\ (\A y \in S \ {x} : only[y] = zero[y]) /\ only[x] = f[x]
    BY <1>1
  <2>2. \A y \in S : only[y] <= f[y]
    OBVIOUS
  <2> HIDE DEF only
  <2>3. SumFunction(only) = SumFunction(zero) - zero[x] + only[x]
    BY <1>1, <2>1, SumChange
  <2>4. SumFunction(only) <= SumFunction(f)
    BY <1>1, <2>1, <2>2, SumMonotone
  <2> QED BY <1>1, <1>2, <2>1, <2>3, <2>4
<1> QED BY <1>2, <1>3

(* Summed along a bijection. *)
LEMMA SumAlong ==
  ASSUME NEW S, IsFiniteSet(S), NEW R, IsFiniteSet(R), NEW f \in [S -> Int], NEW g \in [R -> Int],
         NEW b \in [S -> R], \A x, y \in S : b[x] = b[y] => x = y,
         R = {b[x] : x \in S}, \A x \in S : g[b[x]] = f[x]
  PROVE  SumFunction(f) = SumFunction(g)
<1> DEFINE Image(T) == {b[x] : x \in T}
           X == {T \in SUBSET S : FoldOf(f)[T] = FoldOf(g)[Image(T)]}
<1>0. /\ Additive(f, S) /\ SumFunction(f) = FoldOf(f)[S]
      /\ Additive(g, R) /\ SumFunction(g) = FoldOf(g)[R]
  BY FoldAdditive
<1>1. {} \in X
  <2>1. Image({}) = {}
    OBVIOUS
  <2>2. FoldOf(f)[{}] = 0 /\ FoldOf(g)[{}] = 0
    BY <1>0 DEF Additive
  <2> QED BY <2>1, <2>2
<1>2. ASSUME NEW T \in SUBSET S, NEW x \in S \ T, T \in X
      PROVE  T \cup {x} \in X
  <2>1. FoldOf(f)[T \cup {x}] = f[x] + FoldOf(f)[T]
    BY <1>0 DEF Additive
  <2>2. Image(T) \in SUBSET R /\ b[x] \in R \ Image(T) /\ Image(T \cup {x}) = Image(T) \cup {b[x]}
    OBVIOUS
  <2>3. FoldOf(g)[Image(T) \cup {b[x]}] = g[b[x]] + FoldOf(g)[Image(T)]
    <3> DEFINE I == Image(T)
               y == b[x]
    <3>1. I \in SUBSET R /\ y \in R \ I
      BY <2>2
    <3> HIDE DEF I, y
    <3>2. FoldOf(g)[I \cup {y}] = g[y] + FoldOf(g)[I]
      BY <1>0, <3>1 DEF Additive
    <3> QED BY <3>2 DEF I, y
  <2>4. FoldOf(f)[T \cup {x}] = FoldOf(g)[Image(T \cup {x})]
    BY <1>2, <2>1, <2>2, <2>3
  <2> QED BY <2>4
<1>3. S \in X
  <2> HIDE DEF X
  <2> QED BY <1>1, <1>2, FiniteInduction
<1>4. FoldOf(f)[S] = FoldOf(g)[R]
  BY <1>3
<1> QED BY <1>0, <1>4

-----------------------------------------------------------------------------
(* A sequence of anything: receipts and hashes, nested tuples of any depth,   *)
(* have no set to belong to.                                                 *)
IsSequence(s) == \E S : s \in Seq(S)

LEMMA SequenceFacts ==
  ASSUME NEW s, IsSequence(s)
  PROVE  /\ Len(s) \in Nat
         /\ DOMAIN s = 1 .. Len(s)
         /\ s = << >> <=> Len(s) = 0
BY DEF IsSequence

LEMMA ListIsSequence ==
  ASSUME NEW n \in Nat, NEW s, DOMAIN s = 1 .. n, s = [i \in 1 .. n |-> s[i]]
  PROVE  IsSequence(s) /\ Len(s) = n
<1> DEFINE S == {s[i] : i \in 1 .. n}
<1>1. s \in [1 .. n -> S]
  OBVIOUS
<1>2. s \in Seq(S)
  BY <1>1
<1>3. IsSequence(s)
  BY <1>2 DEF IsSequence
<1>4. Len(s) \in Nat /\ DOMAIN s = 1 .. Len(s)
  BY <1>3, SequenceFacts
<1> QED BY <1>3, <1>4

LEMMA AppendFacts ==
  ASSUME NEW s, IsSequence(s), NEW x
  PROVE  /\ IsSequence(Append(s, x))
         /\ Len(Append(s, x)) = Len(s) + 1
         /\ DOMAIN Append(s, x) = 1 .. Len(s) + 1
         /\ Append(s, x)[Len(s) + 1] = x
         /\ \A i \in 1 .. Len(s) : Append(s, x)[i] = s[i]
<1>1. PICK S : s \in Seq(S)
  BY DEF IsSequence
<1>2. s \in Seq(S \cup {x})
  BY <1>1
<1>3. Append(s, x) \in Seq(S \cup {x})
  BY <1>2
<1> QED
  BY <1>2, <1>3 DEF IsSequence
=============================================================================
