---------------------------- MODULE SumTheorems ----------------------------
(***************************************************************************)
(* What the sums of Functions are: SumFunctionOnSet adds the values of a   *)
(* function over a finite set, in any order.  It is a fold, a function     *)
(* defined by recursion on subsets; the induction is made on a smallest    *)
(* counterexample, which a finite set of sets always has.  Max and Min of  *)
(* a finite set of integers are among its members, by the same argument.   *)
(***************************************************************************)
EXTENDS Integers, FiniteSets, FiniteSetsExt, Functions, FiniteSetTheorems, TLAPS

(* Every non-empty collection of subsets of a finite set has a member that  *)
(* contains no other member.                                                *)
LEMMA SmallestSubset ==
    ASSUME NEW S, IsFiniteSet(S), NEW C, C \subseteq SUBSET S, C # {}
    PROVE  \E s \in C : \A t \in C : t \subseteq s => t = s
<1>1. IsWellFoundedOn(StrictSubsetOrdering(S), FiniteSubsetsOf(S))
    BY FS_StrictSubsetOrderingWellFounded
<1>2. FiniteSubsetsOf(S) = SUBSET S
    BY FS_FiniteSubsetsOfFinite
<1>3. PICK s \in C : \A t \in C : ~ (<<t, s>> \in StrictSubsetOrdering(S))
    BY <1>1, <1>2, WFMin
<1>4. \A t \in C : t \subseteq s => t = s
    BY <1>3 DEF StrictSubsetOrdering
<1> QED BY <1>4

(* The greatest member of a finite set of numbers, the least of any.        *)
THEOREM GreatestOf ==
    ASSUME NEW S, S \subseteq Int, IsFiniteSet(S), S # {}
    PROVE  Max(S) \in S /\ \A y \in S : Max(S) >= y
<1> DEFINE From(x) == {y \in S : y >= x}
           C == {From(x) : x \in S}
<1>1. \A y \in S : y \in Int
    OBVIOUS
<1>2. C \subseteq SUBSET S /\ \A x \in S : From(x) \in C
    OBVIOUS
<1>3. C # {}
    BY <1>2
<1>4. PICK c \in C : \A d \in C : d \subseteq c => d = c
  <2> HIDE DEF C
  <2> QED BY ONLY IsFiniteSet(S), <1>2, <1>3, SmallestSubset
<1>5. PICK x \in S : c = From(x)
    OBVIOUS
<1>6. ASSUME NEW y \in S, y > x PROVE FALSE
  <2>1. x \in Int /\ y \in Int
    BY <1>1
  <2>2. \A z \in Int : z >= y => z >= x
    BY <1>6, <2>1
  <2>3. From(y) \subseteq c
    BY <1>1, <1>5, <2>2
  <2>4. x \in c /\ x \notin From(y)
    BY <1>5, <1>6, <2>1
  <2> QED BY <1>2, <1>4, <2>3, <2>4
<1>7. \A y \in S : x >= y
    BY <1>1, <1>6
<1> QED BY <1>7 DEF Max

THEOREM LeastOf ==
    ASSUME NEW S, S \subseteq Nat, S # {}
    PROVE  Min(S) \in S /\ \A y \in S : Min(S) <= y
<1>1. PICK s : s \in S
    OBVIOUS
<1> DEFINE low == {y \in S : y <= s}
           To(x) == {y \in low : y <= x}
           C == {To(x) : x \in low}
<1>2. \A y \in S : y \in Nat
    OBVIOUS
<1>3. low \in SUBSET Nat /\ \A y \in low : y <= s
    BY <1>2
<1>4. s \in Nat /\ s \in low
    BY <1>1, <1>2
<1>5. IsFiniteSet(low)
  <2> HIDE DEF low
  <2> QED BY ONLY <1>3, <1>4, FS_BoundedSetOfNaturals
<1>6. C \subseteq SUBSET low /\ \A x \in low : To(x) \in C
    OBVIOUS
<1>7. C # {}
    BY <1>4, <1>6
<1>8. PICK c \in C : \A d \in C : d \subseteq c => d = c
  <2> HIDE DEF C, low
  <2> QED BY ONLY <1>5, <1>6, <1>7, SmallestSubset
<1>9. PICK x \in low : c = To(x)
    OBVIOUS
<1>10. ASSUME NEW y \in low, y < x PROVE FALSE
  <2>1. x \in Nat /\ y \in Nat
    BY <1>3
  <2>2. \A z \in Nat : z <= y => z <= x
    BY <1>10, <2>1
  <2> HIDE DEF low
  <2>3. To(y) \subseteq c
    BY <1>3, <1>9, <2>2
  <2>4. x \in c /\ x \notin To(y)
    BY <1>9, <1>10, <2>1
  <2> QED BY <1>6, <1>8, <2>3, <2>4
<1>11. \A y \in S : x <= y
  <2> SUFFICES ASSUME NEW y \in S PROVE x <= y
    OBVIOUS
  <2>1. x \in Nat /\ y \in Nat /\ x <= s
    BY <1>2, <1>3
  <2>2. y <= s => x <= y
    BY <1>10, <2>1
  <2> QED BY <1>4, <2>1, <2>2
<1>12. x \in S
    BY <1>9
<1> QED BY <1>11, <1>12 DEF Min

(* The fold is well defined. *)

(* The member of s that is added next. *)
Chosen(s) == CHOOSE x \in s : TRUE

(* "it" gives the sum of f over every subset of S. *)
Iterates(it, f, S) ==
    it = [s \in SUBSET S |-> IF s = {} THEN 0 ELSE f[Chosen(s)] + it[s \ {Chosen(s)}]]

(* SumFunctionOnSet is what the recursive function of the fold yields.      *)
LEMMA SumIterates ==
    ASSUME NEW f, NEW S
    PROVE  SumFunctionOnSet(f, S) = (CHOOSE it : Iterates(it, f, S))[S]
  BY DEF SumFunctionOnSet, FoldFunctionOnSet, MapThenFoldSet, Iterates, Chosen

(* The next member is a member. *)
LEMMA ChosenIn ==
    ASSUME NEW s, s # {}
    PROVE  Chosen(s) \in s
  BY DEF Chosen

(* Two functions that iterate agree where both are defined.                 *)
LEMMA IteratesUnique ==
    ASSUME NEW f, NEW S, IsFiniteSet(S), NEW it, Iterates(it, f, S),
           NEW T, NEW jt, Iterates(jt, f, T), NEW u, u \subseteq S, u \subseteq T
    PROVE  it[u] = jt[u]
<1> DEFINE C == {s \in SUBSET S : s \subseteq T /\ it[s] # jt[s]}
<1>1. SUFFICES ASSUME C # {} PROVE FALSE
    BY <1>1
<1>2. PICK s \in C : \A t \in C : t \subseteq s => t = s
  <2>1. C \subseteq SUBSET S
    OBVIOUS
  <2> HIDE DEF C
  <2> QED BY <1>1, <2>1, SmallestSubset
<1>3. CASE s = {}
    BY <1>3, <1>2 DEF Iterates
<1>4. CASE s # {}
  <2>1. Chosen(s) \in s
    BY <1>4, ChosenIn
  <2>2. s \ {Chosen(s)} \notin C
    BY <2>1, <1>2
  <2>3. it[s \ {Chosen(s)}] = jt[s \ {Chosen(s)}]
    BY <2>2, <1>2
  <2>4. it[s] = f[Chosen(s)] + it[s \ {Chosen(s)}]
    BY <1>2, <1>4 DEF Iterates
  <2>5. jt[s] = f[Chosen(s)] + jt[s \ {Chosen(s)}]
    BY <1>2, <1>4 DEF Iterates
  <2> QED BY <2>3, <2>4, <2>5, <1>2
<1> QED BY <1>3, <1>4

(* Every finite set has a function that iterates over it. *)
LEMMA IteratesExists ==
    ASSUME NEW f, NEW S, IsFiniteSet(S)
    PROVE  \E it : Iterates(it, f, S)
<1> DEFINE C == {s \in SUBSET S : ~ \E it : Iterates(it, f, s)}
           It(s) == CHOOSE it : Iterates(it, f, s)
<1>1. SUFFICES ASSUME C # {} PROVE FALSE
    BY <1>1
<1>2. PICK s \in C : \A t \in C : t \subseteq s => t = s
  <2>1. C \subseteq SUBSET S
    OBVIOUS
  <2> HIDE DEF C
  <2> QED BY <1>1, <2>1, SmallestSubset
<1>3. \A t \in SUBSET s : t # s => Iterates(It(t), f, t)
    BY <1>2
<1> DEFINE below(t) == It(t)[t]
           it == [t \in SUBSET s |->
                    IF t = {} THEN 0
                    ELSE f[Chosen(t)] + below(t \ {Chosen(t)})]
<1>4. ASSUME NEW t \in SUBSET s, t # s
      PROVE  it[t] = below(t)
  <2>1. CASE t = {}
    <3>1. Iterates(It(t), f, t)
      BY <1>3, <1>4
    <3> HIDE DEF It
    <3>2. It(t)[t] = 0
      BY <3>1, <2>1 DEF Iterates
    <3> QED BY <3>2, <2>1
  <2>2. CASE t # {}
    <3> DEFINE rest == t \ {Chosen(t)}
    <3>1. Chosen(t) \in t
      BY <2>2, ChosenIn
    <3>2. Iterates(It(t), f, t) /\ Iterates(It(rest), f, rest)
      BY <1>3, <1>4, <3>1
    <3>3. IsFiniteSet(t)
      BY <1>4, FS_Subset
    <3>4. It(t)[rest] = It(rest)[rest]
      <4> HIDE DEF It, rest
      <4>1. rest \subseteq t
        BY DEF rest
      <4> QED BY <3>2, <3>3, <4>1, IteratesUnique
    <3>5. It(t)[t] = f[Chosen(t)] + It(t)[rest]
      <4> HIDE DEF It
      <4> QED BY <3>2, <2>2 DEF Iterates
    <3> QED BY <3>4, <3>5, <2>2, <1>4
  <2> QED BY <2>1, <2>2
<1>5. Iterates(it, f, s)
  <2>1. ASSUME NEW t \in SUBSET s, t # {}
        PROVE  it[t \ {Chosen(t)}] = below(t \ {Chosen(t)})
    <3>1. Chosen(t) \in t
      BY <2>1, ChosenIn
    <3> HIDE DEF it, below
    <3> QED BY <3>1, <1>4, <2>1
  <2> HIDE DEF below
  <2>2. it = [t \in SUBSET s |-> IF t = {} THEN 0 ELSE f[Chosen(t)] + it[t \ {Chosen(t)}]]
    BY <2>1
  <2> QED BY <2>2 DEF Iterates
<1> QED BY <1>5, <1>2

(* So the sum is the value of such a function. *)
LEMMA SumIterated ==
    ASSUME NEW f, NEW S, IsFiniteSet(S)
    PROVE  \E it : Iterates(it, f, S) /\ SumFunctionOnSet(f, S) = it[S]
<1> DEFINE it == CHOOSE i : Iterates(i, f, S)
<1>1. Iterates(it, f, S)
    BY IteratesExists
<1>2. SumFunctionOnSet(f, S) = it[S]
    BY SumIterates
<1> QED BY <1>1, <1>2

(* The sum of a non-empty set takes out the chosen member. *)
LEMMA SumStep ==
    ASSUME NEW f, NEW S, IsFiniteSet(S), S # {}
    PROVE  SumFunctionOnSet(f, S) = f[Chosen(S)] + SumFunctionOnSet(f, S \ {Chosen(S)})
<1>1. PICK rest : rest = S \ {Chosen(S)}
    OBVIOUS
<1>2. IsFiniteSet(rest) /\ rest \subseteq S /\ rest \subseteq rest
    BY <1>1, FS_Subset
<1>3. PICK it : Iterates(it, f, S) /\ SumFunctionOnSet(f, S) = it[S]
    BY SumIterated
<1>4. PICK jt : Iterates(jt, f, rest) /\ SumFunctionOnSet(f, rest) = jt[rest]
    BY <1>2, SumIterated
<1>5. it[S] = f[Chosen(S)] + it[rest]
    BY <1>1, <1>3 DEF Iterates
<1>6. it[rest] = jt[rest]
    BY <1>2, <1>3, <1>4, IteratesUnique
<1> QED BY <1>1, <1>3, <1>4, <1>5, <1>6

(* The sum over nothing is zero. *)
LEMMA SumEmpty ==
    ASSUME NEW f
    PROVE  SumFunctionOnSet(f, {}) = 0
<1>1. PICK it : Iterates(it, f, {}) /\ SumFunctionOnSet(f, {}) = it[{}]
    BY FS_EmptySet, SumIterated
<1> QED BY <1>1 DEF Iterates

-----------------------------------------------------------------------------
(* What the sums are. *)

(* A sum of integers is an integer. *)
THEOREM SumInt ==
    ASSUME NEW S, IsFiniteSet(S), NEW f, \A x \in S : f[x] \in Int
    PROVE  SumFunctionOnSet(f, S) \in Int
<1> DEFINE C == {s \in SUBSET S : SumFunctionOnSet(f, s) \notin Int}
<1>1. SUFFICES ASSUME C # {} PROVE FALSE
    BY <1>1
<1>2. PICK s \in C : \A t \in C : t \subseteq s => t = s
  <2>1. C \subseteq SUBSET S
    OBVIOUS
  <2> HIDE DEF C
  <2> QED BY <1>1, <2>1, SmallestSubset
<1>3. s # {}
  <2>1. s = {} => SumFunctionOnSet(f, s) = 0
    BY SumEmpty
  <2> QED BY <1>2, <2>1
<1>4. Chosen(s) \in s /\ IsFiniteSet(s)
    BY <1>2, <1>3, ChosenIn, FS_Subset
<1>5. SumFunctionOnSet(f, s \ {Chosen(s)}) \in Int
    BY <1>2, <1>4
<1> QED BY <1>2, <1>3, <1>4, <1>5, SumStep

(* Any member may be taken out first. *)
THEOREM SumRemove ==
    ASSUME NEW S, IsFiniteSet(S), NEW f, \A x \in S : f[x] \in Int, NEW y \in S
    PROVE  SumFunctionOnSet(f, S) = f[y] + SumFunctionOnSet(f, S \ {y})
<1> DEFINE Out(s, z) == SumFunctionOnSet(f, s) = f[z] + SumFunctionOnSet(f, s \ {z})
           C == {s \in SUBSET S : \E z \in s : ~ Out(s, z)}
<1>1. SUFFICES ASSUME C # {} PROVE FALSE
    BY <1>1
<1>2. PICK s \in C : \A t \in C : t \subseteq s => t = s
  <2>1. C \subseteq SUBSET S
    OBVIOUS
  <2> HIDE DEF C
  <2> QED BY <1>1, <2>1, SmallestSubset
<1>3. PICK z \in s : ~ Out(s, z)
    BY <1>2
<1> DEFINE x == Chosen(s)
<1>4. x \in s /\ IsFiniteSet(s) /\ s \subseteq S
    BY <1>2, <1>3, ChosenIn, FS_Subset
<1> HIDE DEF x
<1>5. Out(s, x)
    BY <1>4, SumStep DEF x
<1>6. x # z
    BY <1>3, <1>5
<1>7. Out(s \ {x}, z) /\ Out(s \ {z}, x)
  <2>1. s \ {x} \notin C /\ s \ {z} \notin C
    BY <1>2, <1>3, <1>4
  <2>2. z \in s \ {x} /\ x \in s \ {z}
    BY <1>3, <1>4, <1>6
  <2> HIDE DEF Out
  <2> QED BY <2>1, <2>2, <1>4
<1>8. (s \ {x}) \ {z} = (s \ {z}) \ {x}
    OBVIOUS
<1>9. f[x] \in Int /\ f[z] \in Int /\ SumFunctionOnSet(f, (s \ {x}) \ {z}) \in Int
  <2>1. IsFiniteSet((s \ {x}) \ {z})
    BY <1>4, FS_Subset
  <2> QED BY <1>3, <1>4, <2>1, SumInt
<1> DEFINE both == SumFunctionOnSet(f, (s \ {x}) \ {z})
<1>10. SumFunctionOnSet(f, s) = f[x] + (f[z] + both)
    BY <1>5, <1>7
<1>11. SumFunctionOnSet(f, s \ {z}) = f[x] + both
    BY <1>7, <1>8
<1>12. Out(s, z)
  <2> HIDE DEF both
  <2>1. f[x] + (f[z] + both) = f[z] + (f[x] + both)
    BY <1>9 DEF both
  <2> QED BY <1>10, <1>11, <2>1
<1> QED BY <1>3, <1>12

(* Functions that agree on a set have one sum over it. *)
THEOREM SumSame ==
    ASSUME NEW S, IsFiniteSet(S), NEW f, NEW g, \A x \in S : f[x] = g[x]
    PROVE  SumFunctionOnSet(f, S) = SumFunctionOnSet(g, S)
<1> DEFINE C == {s \in SUBSET S : SumFunctionOnSet(f, s) # SumFunctionOnSet(g, s)}
<1>1. SUFFICES ASSUME C # {} PROVE FALSE
    BY <1>1
<1>2. PICK s \in C : \A t \in C : t \subseteq s => t = s
  <2>1. C \subseteq SUBSET S
    OBVIOUS
  <2> HIDE DEF C
  <2> QED BY <1>1, <2>1, SmallestSubset
<1>3. s # {}
    BY <1>2, SumEmpty
<1>4. Chosen(s) \in s /\ IsFiniteSet(s)
    BY <1>2, <1>3, ChosenIn, FS_Subset
<1>5. SumFunctionOnSet(f, s \ {Chosen(s)}) = SumFunctionOnSet(g, s \ {Chosen(s)})
    BY <1>2, <1>4
<1> QED BY <1>2, <1>3, <1>4, <1>5, SumStep

(* Sums are added term by term. *)
THEOREM SumOfSums ==
    ASSUME NEW S, IsFiniteSet(S), NEW f, NEW g, NEW h,
           \A x \in S : f[x] \in Int /\ g[x] \in Int /\ h[x] = f[x] + g[x]
    PROVE  SumFunctionOnSet(h, S) = SumFunctionOnSet(f, S) + SumFunctionOnSet(g, S)
<1> DEFINE Total(s) == SumFunctionOnSet(h, s) = SumFunctionOnSet(f, s) + SumFunctionOnSet(g, s)
           C == {s \in SUBSET S : ~ Total(s)}
<1>1. SUFFICES ASSUME C # {} PROVE FALSE
    BY <1>1
<1>2. PICK s \in C : \A t \in C : t \subseteq s => t = s
  <2>1. C \subseteq SUBSET S
    OBVIOUS
  <2> HIDE DEF C
  <2> QED BY <1>1, <2>1, SmallestSubset
<1>3. s # {}
  <2>1. s = {} => /\ SumFunctionOnSet(f, s) = 0
                  /\ SumFunctionOnSet(g, s) = 0
                  /\ SumFunctionOnSet(h, s) = 0
    BY SumEmpty
  <2> QED BY <1>2, <2>1
<1> DEFINE x == Chosen(s)
<1>4. x \in s /\ IsFiniteSet(s) /\ IsFiniteSet(s \ {x})
    BY <1>2, <1>3, ChosenIn, FS_Subset
<1> HIDE DEF x
<1>5. Total(s \ {x})
    BY <1>2, <1>4
<1>6. /\ SumFunctionOnSet(f, s) = f[x] + SumFunctionOnSet(f, s \ {x})
      /\ SumFunctionOnSet(g, s) = g[x] + SumFunctionOnSet(g, s \ {x})
      /\ SumFunctionOnSet(h, s) = h[x] + SumFunctionOnSet(h, s \ {x})
    BY <1>3, <1>4, SumStep DEF x
<1>7. f[x] \in Int /\ g[x] \in Int /\ h[x] = f[x] + g[x]
    BY <1>2, <1>4
<1>8. SumFunctionOnSet(f, s \ {x}) \in Int /\ SumFunctionOnSet(g, s \ {x}) \in Int
    BY <1>2, <1>4, SumInt
<1>9. Total(s)
    BY <1>5, <1>6, <1>7, <1>8
<1> QED BY <1>2, <1>9

(* A factor of every term is a factor of the sum. *)
THEOREM SumScale ==
    ASSUME NEW S, IsFiniteSet(S), NEW f, NEW g, NEW c \in Int,
           \A x \in S : f[x] \in Int /\ g[x] = f[x] * c
    PROVE  SumFunctionOnSet(g, S) = SumFunctionOnSet(f, S) * c
<1> DEFINE Scaled(s) == SumFunctionOnSet(g, s) = SumFunctionOnSet(f, s) * c
           C == {s \in SUBSET S : ~ Scaled(s)}
<1>1. SUFFICES ASSUME C # {} PROVE FALSE
    BY <1>1
<1>2. PICK s \in C : \A t \in C : t \subseteq s => t = s
  <2>1. C \subseteq SUBSET S
    OBVIOUS
  <2> HIDE DEF C
  <2> QED BY <1>1, <2>1, SmallestSubset
<1>3. s # {}
  <2>1. s = {} => SumFunctionOnSet(f, s) = 0 /\ SumFunctionOnSet(g, s) = 0
    BY SumEmpty
  <2> QED BY <1>2, <2>1
<1> DEFINE x == Chosen(s)
<1>4. x \in s /\ IsFiniteSet(s) /\ IsFiniteSet(s \ {x})
    BY <1>2, <1>3, ChosenIn, FS_Subset
<1> HIDE DEF x
<1>5. Scaled(s \ {x})
    BY <1>2, <1>4
<1>6. /\ SumFunctionOnSet(f, s) = f[x] + SumFunctionOnSet(f, s \ {x})
      /\ SumFunctionOnSet(g, s) = g[x] + SumFunctionOnSet(g, s \ {x})
    BY <1>3, <1>4, SumStep DEF x
<1>7. f[x] \in Int /\ g[x] = f[x] * c
    BY <1>2, <1>4
<1>8. SumFunctionOnSet(f, s \ {x}) \in Int
    BY <1>2, <1>4, SumInt
<1>9. \A a, b \in Int : (a + b) * c = a * c + b * c
    OBVIOUS
<1>10. Scaled(s)
    BY <1>5, <1>6, <1>7, <1>8, <1>9
<1> QED BY <1>2, <1>10

(* A sum is monotone in its terms. *)
THEOREM SumMonotone ==
    ASSUME NEW S, IsFiniteSet(S), NEW f, NEW g,
           \A x \in S : f[x] \in Int /\ g[x] \in Int /\ f[x] <= g[x]
    PROVE  SumFunctionOnSet(f, S) <= SumFunctionOnSet(g, S)
<1> DEFINE Below(s) == SumFunctionOnSet(f, s) <= SumFunctionOnSet(g, s)
           C == {s \in SUBSET S : ~ Below(s)}
<1>1. SUFFICES ASSUME C # {} PROVE FALSE
    BY <1>1
<1>2. PICK s \in C : \A t \in C : t \subseteq s => t = s
  <2>1. C \subseteq SUBSET S
    OBVIOUS
  <2> HIDE DEF C
  <2> QED BY <1>1, <2>1, SmallestSubset
<1>3. s # {}
    BY <1>2, SumEmpty
<1> DEFINE x == Chosen(s)
<1>4. x \in s /\ IsFiniteSet(s) /\ IsFiniteSet(s \ {x})
    BY <1>2, <1>3, ChosenIn, FS_Subset
<1> HIDE DEF x
<1>5. Below(s \ {x})
    BY <1>2, <1>4
<1>6. /\ SumFunctionOnSet(f, s) = f[x] + SumFunctionOnSet(f, s \ {x})
      /\ SumFunctionOnSet(g, s) = g[x] + SumFunctionOnSet(g, s \ {x})
    BY <1>3, <1>4, SumStep DEF x
<1>7. f[x] \in Int /\ g[x] \in Int /\ f[x] <= g[x]
    BY <1>2, <1>4
<1>8. SumFunctionOnSet(f, s \ {x}) \in Int /\ SumFunctionOnSet(g, s \ {x}) \in Int
    BY <1>2, <1>4, SumInt
<1>9. Below(s)
    BY <1>5, <1>6, <1>7, <1>8
<1> QED BY <1>2, <1>9

(* Terms that are zero do not count. *)
THEOREM SumZero ==
    ASSUME NEW S, IsFiniteSet(S), NEW f, \A x \in S : f[x] = 0
    PROVE  SumFunctionOnSet(f, S) = 0
<1>1. SumFunctionOnSet(f, S) + SumFunctionOnSet(f, S) = SumFunctionOnSet(f, S)
  <2>1. \A x \in S : f[x] \in Int /\ f[x] \in Int /\ f[x] = f[x] + f[x]
    OBVIOUS
  <2> QED BY <2>1, SumOfSums
<1>2. SumFunctionOnSet(f, S) \in Int
    BY SumInt
<1> DEFINE total == SumFunctionOnSet(f, S)
<1>3. total \in Int /\ total + total = total
    BY <1>1, <1>2
<1> HIDE DEF total
<1>4. total = 0
    BY <1>3
<1> QED BY <1>4 DEF total

(* A sum of natural numbers is one, and bounds each of its terms. *)
THEOREM SumNat ==
    ASSUME NEW S, IsFiniteSet(S), NEW f, \A x \in S : f[x] \in Nat
    PROVE  /\ SumFunctionOnSet(f, S) \in Nat
           /\ \A x \in S : f[x] <= SumFunctionOnSet(f, S)
<1>1. ASSUME NEW T \in SUBSET S
      PROVE  SumFunctionOnSet(f, T) \in Nat
  <2> DEFINE zero == [x \in T |-> 0]
  <2>1. IsFiniteSet(T)
    BY FS_Subset
  <2>2. SumFunctionOnSet(zero, T) = 0
    BY <2>1, SumZero
  <2>3. SumFunctionOnSet(zero, T) <= SumFunctionOnSet(f, T)
    <3>1. \A x \in T : zero[x] \in Int /\ f[x] \in Int /\ zero[x] <= f[x]
      OBVIOUS
    <3> HIDE DEF zero
    <3> QED BY <2>1, <3>1, SumMonotone
  <2>4. SumFunctionOnSet(f, T) \in Int
    BY <2>1, SumInt
  <2> QED BY <2>2, <2>3, <2>4
<1>2. ASSUME NEW x \in S
      PROVE  f[x] <= SumFunctionOnSet(f, S)
  <2>1. SumFunctionOnSet(f, S) = f[x] + SumFunctionOnSet(f, S \ {x})
    BY SumRemove
  <2>2. SumFunctionOnSet(f, S \ {x}) \in Nat
    BY <1>1
  <2> QED BY <2>1, <2>2
<1> QED BY <1>1, <1>2

(* Changing one term changes the sum by as much. *)
THEOREM SumChange ==
    ASSUME NEW S, IsFiniteSet(S), NEW f, NEW g, NEW y \in S,
           \A x \in S : f[x] \in Int /\ g[x] \in Int,
           \A x \in S \ {y} : g[x] = f[x]
    PROVE  SumFunctionOnSet(g, S) = SumFunctionOnSet(f, S) - f[y] + g[y]
<1>1. SumFunctionOnSet(f, S) = f[y] + SumFunctionOnSet(f, S \ {y})
    BY SumRemove
<1>2. SumFunctionOnSet(g, S) = g[y] + SumFunctionOnSet(g, S \ {y})
    BY SumRemove
<1>3. IsFiniteSet(S \ {y})
    BY FS_Subset
<1>4. SumFunctionOnSet(f, S \ {y}) = SumFunctionOnSet(g, S \ {y})
    BY <1>3, SumSame
<1>5. SumFunctionOnSet(f, S \ {y}) \in Int
    BY <1>3, SumInt
<1> QED BY <1>1, <1>2, <1>4, <1>5

(* A sum over a part, the other terms being zero, is the sum over the whole. *)
THEOREM SumPart ==
    ASSUME NEW S, IsFiniteSet(S), NEW T, T \subseteq S, NEW f, NEW g,
           \A x \in S : f[x] \in Int,
           \A x \in T : g[x] = f[x], \A x \in S \ T : f[x] = 0
    PROVE  SumFunctionOnSet(g, T) = SumFunctionOnSet(f, S)
<1> DEFINE Agree(s) == SumFunctionOnSet(g, s \cap T) = SumFunctionOnSet(f, s)
           C == {s \in SUBSET S : ~ Agree(s)}
<1>1. SUFFICES ASSUME C # {} PROVE FALSE
  <2>1. Agree(S) => SumFunctionOnSet(g, T) = SumFunctionOnSet(f, S)
    <3>1. S \cap T = T
      OBVIOUS
    <3> QED BY <3>1
  <2> QED BY <2>1, <1>1
<1>2. PICK s \in C : \A t \in C : t \subseteq s => t = s
  <2>1. C \subseteq SUBSET S
    OBVIOUS
  <2> HIDE DEF C
  <2> QED BY <1>1, <2>1, SmallestSubset
<1>3. s # {}
  <2>1. {} \cap T = {}
    OBVIOUS
  <2> QED BY <1>2, SumEmpty, <2>1
<1>4. PICK x : x \in s
    BY <1>3
<1>5. IsFiniteSet(s) /\ IsFiniteSet(s \cap T) /\ x \in S /\ \A y \in s : f[y] \in Int
    BY <1>2, <1>4, FS_Subset
<1>6. SumFunctionOnSet(f, s) = f[x] + SumFunctionOnSet(f, s \ {x})
    BY <1>4, <1>5, SumRemove
<1>7. Agree(s \ {x})
    BY <1>2, <1>4
<1>8. CASE x \in T
  <2>1. SumFunctionOnSet(g, s \cap T) = g[x] + SumFunctionOnSet(g, (s \cap T) \ {x})
    BY <1>4, <1>5, <1>8, SumRemove
  <2>2. (s \cap T) \ {x} = (s \ {x}) \cap T
    OBVIOUS
  <2> QED BY <1>2, <1>6, <1>7, <1>8, <2>1, <2>2
<1>9. CASE x \notin T
  <2>1. (s \ {x}) \cap T = s \cap T
    BY <1>9
  <2>2. f[x] = 0 /\ SumFunctionOnSet(f, s \ {x}) \in Int
    <3>1. IsFiniteSet(s \ {x})
      BY <1>5, FS_Subset
    <3> QED BY <1>5, <1>9, <3>1, SumInt
  <2>3. SumFunctionOnSet(g, s \cap T) = SumFunctionOnSet(f, s \ {x})
    BY <1>7, <2>1
  <2>4. SumFunctionOnSet(f, s) = SumFunctionOnSet(f, s \ {x})
    BY <1>6, <2>2
  <2> QED BY <1>2, <2>3, <2>4
<1> QED BY <1>8, <1>9

(* A sum equals a sum of no smaller terms only if the terms are equal. *)
THEOREM SumEqual ==
    ASSUME NEW S, IsFiniteSet(S), NEW f, NEW g,
           \A x \in S : f[x] \in Int /\ g[x] \in Int /\ f[x] <= g[x],
           SumFunctionOnSet(f, S) >= SumFunctionOnSet(g, S)
    PROVE  \A x \in S : f[x] = g[x]
<1> SUFFICES ASSUME NEW x \in S PROVE f[x] = g[x]
    OBVIOUS
<1>1. IsFiniteSet(S \ {x})
    BY FS_Subset
<1>2. SumFunctionOnSet(f, S) = f[x] + SumFunctionOnSet(f, S \ {x})
    BY SumRemove
<1>3. SumFunctionOnSet(g, S) = g[x] + SumFunctionOnSet(g, S \ {x})
    BY SumRemove
<1>4. SumFunctionOnSet(f, S \ {x}) \in Int /\ SumFunctionOnSet(g, S \ {x}) \in Int
    BY <1>1, SumInt
<1>5. SumFunctionOnSet(f, S \ {x}) <= SumFunctionOnSet(g, S \ {x})
    BY <1>1, SumMonotone
<1> QED BY <1>2, <1>3, <1>4, <1>5

(* Rows and columns of a table have one sum. *)
THEOREM SumSwap ==
    ASSUME NEW A, IsFiniteSet(A), NEW B, IsFiniteSet(B), NEW f,
           \A x \in A, y \in B : f[x][y] \in Int
    PROVE  SumFunctionOnSet([x \in A |-> SumFunctionOnSet(f[x], B)], A)
             = SumFunctionOnSet([y \in B |-> SumFunctionOnSet([x \in A |-> f[x][y]], A)], B)
<1> DEFINE row == [x \in A |-> SumFunctionOnSet(f[x], B)]
           column(y) == [x \in A |-> f[x][y]]
           columns(s) == [y \in B |-> SumFunctionOnSet(column(y), s)]
           Agree(s) == SumFunctionOnSet(row, s) = SumFunctionOnSet(columns(s), B)
           C == {s \in SUBSET A : ~ Agree(s)}
<1>1. SUFFICES ASSUME C # {} PROVE FALSE
  <2>1. A \in SUBSET A
    OBVIOUS
  <2>2. Agree(A)
    BY <1>1, <2>1
  <2> QED BY <2>2
<1>2. PICK s \in C : \A t \in C : t \subseteq s => t = s
  <2>1. C \subseteq SUBSET A
    OBVIOUS
  <2> HIDE DEF C
  <2> QED BY <1>1, <2>1, SmallestSubset
<1>3. s \in SUBSET A /\ ~ Agree(s) /\ IsFiniteSet(s)
    BY <1>2, FS_Subset
<1>4. s # {}
  <2>1. ASSUME s = {} PROVE Agree(s)
    <3>1. SumFunctionOnSet(row, s) = 0
      BY <2>1, SumEmpty
    <3>2. \A y \in B : columns(s)[y] = 0
      <4>1. \A y \in B : SumFunctionOnSet(column(y), s) = 0
        BY <2>1, SumEmpty
      <4> QED BY <4>1
    <3> HIDE DEF columns, row
    <3>3. SumFunctionOnSet(columns(s), B) = 0
      BY <3>2, SumZero
    <3> QED BY <3>1, <3>3
  <2> QED BY <1>3, <2>1
<1>5. PICK x : x \in s
    BY <1>4
<1> DEFINE rest == s \ {x}
<1>6. Agree(rest)
  <2>1. rest \in SUBSET A /\ rest \subseteq s /\ rest # s
    BY <1>3, <1>5
  <2> HIDE DEF rest, Agree
  <2> QED BY <1>2, <2>1
<1>7. x \in A /\ rest \subseteq A /\ IsFiniteSet(rest)
    BY <1>3, <1>5, FS_Subset
<1>8. \A z \in A : row[z] \in Int
    BY SumInt
<1>9. SumFunctionOnSet(row, s) = SumFunctionOnSet(f[x], B) + SumFunctionOnSet(row, rest)
  <2>1. row[x] = SumFunctionOnSet(f[x], B)
    BY <1>7
  <2>2. \A z \in s : row[z] \in Int
    BY <1>3, <1>8
  <2> HIDE DEF row
  <2>3. SumFunctionOnSet(row, s) = row[x] + SumFunctionOnSet(row, s \ {x})
    BY <1>3, <1>5, <2>2, SumRemove
  <2> QED BY <2>1, <2>3
<1>10. \A y \in B : /\ columns(s)[y] = f[x][y] + columns(rest)[y]
                    /\ columns(rest)[y] \in Int
  <2> SUFFICES ASSUME NEW y \in B
               PROVE  /\ columns(s)[y] = f[x][y] + columns(rest)[y]
                      /\ columns(rest)[y] \in Int
    OBVIOUS
  <2>1. \A z \in A : column(y)[z] \in Int /\ column(y)[z] = f[z][y]
    OBVIOUS
  <2>2. SumFunctionOnSet(column(y), s) = f[x][y] + SumFunctionOnSet(column(y), rest)
    <3> HIDE DEF column
    <3>1. SumFunctionOnSet(column(y), s)
            = column(y)[x] + SumFunctionOnSet(column(y), s \ {x})
      BY <1>3, <1>5, <2>1, SumRemove
    <3> QED BY <2>1, <3>1, <1>7
  <2>3. SumFunctionOnSet(column(y), rest) \in Int
    <3> HIDE DEF column, rest
    <3> QED BY <1>7, <2>1, SumInt
  <2> HIDE DEF column
  <2> QED BY <2>2, <2>3
<1>11. SumFunctionOnSet(columns(s), B)
          = SumFunctionOnSet(f[x], B) + SumFunctionOnSet(columns(rest), B)
  <2>1. \A y \in B : f[x][y] \in Int
    BY <1>7
  <2> HIDE DEF columns, rest
  <2> QED BY <1>10, <2>1, SumOfSums
<1> HIDE DEF columns, row, rest
<1>12. Agree(s)
    BY <1>6, <1>9, <1>11
<1> QED BY <1>3, <1>12

(* The sums over the parts of a set add up to the sum over the set, when    *)
(* every member is in exactly one part.                                     *)
THEOREM SumParts ==
    ASSUME NEW S, IsFiniteSet(S), NEW B, IsFiniteSet(B), NEW part, NEW f, NEW g,
           \A x \in S : f[x] \in Int,
           \A b \in B : part[b] \subseteq S /\ g[b] = SumFunctionOnSet(f, part[b]),
           \A x \in S : \E b \in B : x \in part[b] /\ \A c \in B : x \in part[c] => c = b
    PROVE  SumFunctionOnSet(g, B) = SumFunctionOnSet(f, S)
<1> DEFINE cut(s) == [b \in B |-> SumFunctionOnSet(f, part[b] \cap s)]
           Agree(s) == SumFunctionOnSet(cut(s), B) = SumFunctionOnSet(f, s)
           C == {s \in SUBSET S : ~ Agree(s)}
<1>1. SUFFICES ASSUME C # {} PROVE FALSE
  <2>1. Agree(S)
    BY <1>1
  <2>2. \A b \in B : cut(S)[b] = g[b]
    <3>1. \A b \in B : part[b] \cap S = part[b]
      OBVIOUS
    <3> QED BY <3>1
  <2> HIDE DEF cut
  <2> QED BY <2>1, <2>2, SumSame
<1>2. PICK s \in C : \A t \in C : t \subseteq s => t = s
  <2>1. C \subseteq SUBSET S
    OBVIOUS
  <2> HIDE DEF C
  <2> QED BY <1>1, <2>1, SmallestSubset
<1>3. s \in SUBSET S /\ ~ Agree(s) /\ IsFiniteSet(s)
    BY <1>2, FS_Subset
<1>4. s # {}
  <2>1. ASSUME s = {} PROVE Agree(s)
    <3>1. \A b \in B : part[b] \cap s = {}
      BY <2>1
    <3>2. \A b \in B : cut(s)[b] = 0
      BY <3>1, SumEmpty
    <3> HIDE DEF cut
    <3>3. SumFunctionOnSet(cut(s), B) = 0
      BY <3>2, SumZero
    <3> QED BY <2>1, <3>3, SumEmpty
  <2> QED BY <1>3, <2>1
<1>5. PICK x : x \in s
    BY <1>4
<1> DEFINE rest == s \ {x}
<1>6. Agree(rest)
  <2>1. rest \in SUBSET S /\ rest \subseteq s /\ rest # s
    BY <1>3, <1>5
  <2> HIDE DEF rest, Agree
  <2> QED BY <1>2, <2>1
<1>7. PICK b \in B : x \in part[b] /\ \A c \in B : x \in part[c] => c = b
    BY <1>3, <1>5
<1>8. \A c \in B : cut(s)[c] \in Int /\ cut(rest)[c] \in Int
  <2> SUFFICES ASSUME NEW c \in B, NEW t \in SUBSET S
               PROVE  SumFunctionOnSet(f, part[c] \cap t) \in Int
    BY <1>3
  <2>1. IsFiniteSet(part[c] \cap t) /\ \A y \in part[c] \cap t : f[y] \in Int
    BY FS_Subset
  <2> QED BY <2>1, SumInt
<1>9. \A c \in B \ {b} : cut(s)[c] = cut(rest)[c]
  <2>1. \A c \in B \ {b} : part[c] \cap s = part[c] \cap rest
    BY <1>7
  <2> QED BY <2>1
<1>10. cut(s)[b] = f[x] + cut(rest)[b]
  <2> DEFINE here == part[b] \cap s
  <2>1. IsFiniteSet(here) /\ x \in here /\ here \ {x} = part[b] \cap rest
    BY <1>3, <1>5, <1>7, FS_Subset
  <2>2. \A y \in here : f[y] \in Int
    BY <1>3
  <2>3. cut(s)[b] = SumFunctionOnSet(f, here)
    OBVIOUS
  <2>4. cut(rest)[b] = SumFunctionOnSet(f, here \ {x})
    BY <2>1
  <2> HIDE DEF here, cut, rest
  <2>5. SumFunctionOnSet(f, here) = f[x] + SumFunctionOnSet(f, here \ {x})
    BY <2>1, <2>2, SumRemove
  <2> QED BY <2>3, <2>4, <2>5
<1>11. SumFunctionOnSet(f, s) = f[x] + SumFunctionOnSet(f, rest)
  <2>1. \A y \in s : f[y] \in Int
    BY <1>3
  <2> QED BY <1>3, <1>5, <2>1, SumRemove
<1>12. f[x] \in Int /\ SumFunctionOnSet(f, rest) \in Int
  <2>1. IsFiniteSet(rest) /\ \A y \in rest : f[y] \in Int
    BY <1>3, FS_Subset
  <2> QED BY <1>3, <1>5, <2>1, SumInt
<1> HIDE DEF cut, rest
<1>13. SumFunctionOnSet(cut(s), B)
          = SumFunctionOnSet(cut(rest), B) - cut(rest)[b] + cut(s)[b]
  <2>1. PICK before, after : before = cut(rest) /\ after = cut(s)
    OBVIOUS
  <2>2. \A c \in B : before[c] \in Int /\ after[c] \in Int
    BY <1>8, <2>1
  <2>3. \A c \in B \ {b} : after[c] = before[c]
    BY <1>9, <2>1
  <2>4. SumFunctionOnSet(after, B) = SumFunctionOnSet(before, B) - before[b] + after[b]
    BY ONLY IsFiniteSet(B), b \in B, <2>2, <2>3, SumChange
  <2> QED BY <2>1, <2>4
<1>14. SumFunctionOnSet(cut(rest), B) = SumFunctionOnSet(f, rest)
    BY <1>6
<1>15. Agree(s)
    BY <1>7, <1>8, <1>10, <1>11, <1>12, <1>13, <1>14
<1> QED BY <1>3, <1>15

(* A sum of ones counts. *)
THEOREM SumOnes ==
    ASSUME NEW S, IsFiniteSet(S), NEW f, \A x \in S : f[x] = 1
    PROVE  SumFunctionOnSet(f, S) = Cardinality(S)
<1> DEFINE Counts(s) == SumFunctionOnSet(f, s) = Cardinality(s)
           C == {s \in SUBSET S : ~ Counts(s)}
<1>1. SUFFICES ASSUME C # {} PROVE FALSE
    BY <1>1
<1>2. PICK s \in C : \A t \in C : t \subseteq s => t = s
  <2>1. C \subseteq SUBSET S
    OBVIOUS
  <2> HIDE DEF C
  <2> QED BY <1>1, <2>1, SmallestSubset
<1>3. s # {}
    BY <1>2, SumEmpty, FS_EmptySet
<1>4. PICK x : x \in s
    BY <1>3
<1>5. IsFiniteSet(s) /\ \A y \in s : f[y] \in Int
    BY <1>2, FS_Subset
<1>6. Counts(s \ {x})
    BY <1>2, <1>4
<1>7. SumFunctionOnSet(f, s) = f[x] + SumFunctionOnSet(f, s \ {x})
    BY <1>4, <1>5, SumRemove
<1>8. Cardinality(s \ {x}) = Cardinality(s) - 1 /\ Cardinality(s) \in Nat
    BY <1>4, <1>5, FS_RemoveElement, FS_CardinalityType
<1>9. f[x] = 1
    BY <1>2, <1>4
<1>10. Counts(s)
    BY <1>6, <1>7, <1>8, <1>9
<1> QED BY <1>2, <1>10

-----------------------------------------------------------------------------
(* The same of SumFunction, the sum over the whole domain of a function.   *)

(* SumFunction adds over the domain. *)
LEMMA SumWhole ==
    ASSUME NEW S, NEW f, DOMAIN f = S
    PROVE  SumFunction(f) = SumFunctionOnSet(f, S)
  BY DEF SumFunction

(* A sum of integers is an integer. *)
THEOREM SumFunInt ==
    ASSUME NEW S, IsFiniteSet(S), NEW f \in [S -> Int]
    PROVE  SumFunction(f) \in Int
<1>1. SumFunction(f) = SumFunctionOnSet(f, S)
    BY SumWhole
<1> QED BY <1>1, SumInt

(* A sum of natural numbers is one, and bounds each of its terms. *)
THEOREM SumFunNat ==
    ASSUME NEW S, IsFiniteSet(S), NEW f \in [S -> Nat]
    PROVE  SumFunction(f) \in Nat /\ \A x \in S : f[x] <= SumFunction(f)
<1>1. SumFunction(f) = SumFunctionOnSet(f, S)
    BY SumWhole
<1> QED BY <1>1, SumNat

(* A sum of zeros is zero. *)
THEOREM SumFunZero ==
    ASSUME NEW S, IsFiniteSet(S), NEW f \in [S -> Int], \A x \in S : f[x] = 0
    PROVE  SumFunction(f) = 0
<1>1. SumFunction(f) = SumFunctionOnSet(f, S)
    BY SumWhole
<1> QED BY <1>1, SumZero

(* Changing one term changes the sum by as much. *)
THEOREM SumFunChange ==
    ASSUME NEW S, IsFiniteSet(S), NEW f \in [S -> Int], NEW g \in [S -> Int],
           NEW y \in S, \A x \in S \ {y} : g[x] = f[x]
    PROVE  SumFunction(g) = SumFunction(f) - f[y] + g[y]
<1>1. SumFunction(f) = SumFunctionOnSet(f, S) /\ SumFunction(g) = SumFunctionOnSet(g, S)
    BY SumWhole
<1>2. SumFunctionOnSet(g, S) = SumFunctionOnSet(f, S) - f[y] + g[y]
    BY SumChange
<1> QED BY <1>1, <1>2

(* Sums are added term by term. *)
THEOREM SumFunPlus ==
    ASSUME NEW S, IsFiniteSet(S), NEW f \in [S -> Int], NEW g \in [S -> Int],
           NEW h \in [S -> Int], \A x \in S : h[x] = f[x] + g[x]
    PROVE  SumFunction(h) = SumFunction(f) + SumFunction(g)
<1>1. /\ SumFunction(f) = SumFunctionOnSet(f, S)
      /\ SumFunction(g) = SumFunctionOnSet(g, S)
      /\ SumFunction(h) = SumFunctionOnSet(h, S)
    BY SumWhole
<1>2. SumFunctionOnSet(h, S) = SumFunctionOnSet(f, S) + SumFunctionOnSet(g, S)
    BY SumOfSums
<1> QED BY <1>1, <1>2

(* A sum is monotone in its terms, and equal sums have equal terms. *)
THEOREM SumFunMonotone ==
    ASSUME NEW S, IsFiniteSet(S), NEW f \in [S -> Int], NEW g \in [S -> Int],
           \A x \in S : f[x] <= g[x]
    PROVE  /\ SumFunction(f) <= SumFunction(g)
           /\ SumFunction(f) >= SumFunction(g) => \A x \in S : f[x] = g[x]
<1>1. SumFunction(f) = SumFunctionOnSet(f, S) /\ SumFunction(g) = SumFunctionOnSet(g, S)
    BY SumWhole
<1>2. SumFunctionOnSet(f, S) <= SumFunctionOnSet(g, S)
    BY SumMonotone
<1>3. SumFunctionOnSet(f, S) >= SumFunctionOnSet(g, S) => \A x \in S : f[x] = g[x]
    BY SumEqual
<1> QED BY <1>1, <1>2, <1>3

(* A factor of every term is a factor of the sum. *)
THEOREM SumFunScale ==
    ASSUME NEW S, IsFiniteSet(S), NEW f \in [S -> Int], NEW g \in [S -> Int],
           NEW c \in Int, \A x \in S : g[x] = f[x] * c
    PROVE  SumFunction(g) = SumFunction(f) * c
<1>1. SumFunction(f) = SumFunctionOnSet(f, S) /\ SumFunction(g) = SumFunctionOnSet(g, S)
    BY SumWhole
<1>2. SumFunctionOnSet(g, S) = SumFunctionOnSet(f, S) * c
    BY SumScale
<1> QED BY <1>1, <1>2

(* A sum over a part, the other terms being zero, is the sum over the whole. *)
THEOREM SumFunPart ==
    ASSUME NEW S, IsFiniteSet(S), NEW T, T \subseteq S,
           NEW f \in [S -> Int], NEW g \in [T -> Int],
           \A x \in T : g[x] = f[x], \A x \in S \ T : f[x] = 0
    PROVE  SumFunction(g) = SumFunction(f)
<1>1. SumFunction(f) = SumFunctionOnSet(f, S) /\ SumFunction(g) = SumFunctionOnSet(g, T)
    BY SumWhole
<1>2. SumFunctionOnSet(g, T) = SumFunctionOnSet(f, S)
    BY SumPart
<1> QED BY <1>1, <1>2

(* Rows and columns of a table have one sum. *)
THEOREM SumFunSwap ==
    ASSUME NEW A, IsFiniteSet(A), NEW B, IsFiniteSet(B), NEW f \in [A -> [B -> Int]]
    PROVE  SumFunction([x \in A |-> SumFunction(f[x])])
             = SumFunction([y \in B |-> SumFunction([x \in A |-> f[x][y]])])
<1> DEFINE row == [x \in A |-> SumFunctionOnSet(f[x], B)]
           column == [y \in B |-> SumFunctionOnSet([x \in A |-> f[x][y]], A)]
<1>1. [x \in A |-> SumFunction(f[x])] = row
  <2>1. \A x \in A : SumFunction(f[x]) = SumFunctionOnSet(f[x], B)
    BY SumWhole
  <2> QED BY <2>1
<1>2. [y \in B |-> SumFunction([x \in A |-> f[x][y]])] = column
  <2>1. \A y \in B : SumFunction([x \in A |-> f[x][y]])
                       = SumFunctionOnSet([x \in A |-> f[x][y]], A)
    BY SumWhole
  <2> QED BY <2>1
<1>3. SumFunctionOnSet(row, A) = SumFunctionOnSet(column, B)
    BY SumSwap
<1>4. DOMAIN row = A /\ DOMAIN column = B
    OBVIOUS
<1> HIDE DEF row, column
<1>5. SumFunction(row) = SumFunctionOnSet(row, A) /\ SumFunction(column) = SumFunctionOnSet(column, B)
    BY <1>4, SumWhole
<1> QED BY <1>1, <1>2, <1>3, <1>5

(* A table of integers, by rows and by columns, and the sums of its rows. *)
Transposed(f, g, A, B) ==
    /\ f \in [A -> [B -> Int]]
    /\ g \in [B -> [A -> Int]]
    /\ \A x \in A, y \in B : g[y][x] = f[x][y]

RowSums(rows, f, A) == rows = [x \in A |-> SumFunction(f[x])]

(* Summed by rows or by columns, a table has one sum. *)
THEOREM SumTranspose ==
    ASSUME NEW A, IsFiniteSet(A), NEW B, IsFiniteSet(B),
           NEW f, NEW g, Transposed(f, g, A, B),
           NEW rows, RowSums(rows, f, A), NEW columns, RowSums(columns, g, B)
    PROVE  SumFunction(rows) = SumFunction(columns)
<1>1. f \in [A -> [B -> Int]] /\ g \in [B -> [A -> Int]]
    BY DEF Transposed
<1>2. SumFunction([x \in A |-> SumFunction(f[x])])
        = SumFunction([y \in B |-> SumFunction([x \in A |-> f[x][y]])])
    BY <1>1, SumFunSwap
<1>3. \A y \in B : [x \in A |-> f[x][y]] = g[y]
    BY DEF Transposed
<1>4. [y \in B |-> SumFunction([x \in A |-> f[x][y]])] = columns
    BY <1>3 DEF RowSums
<1>5. [x \in A |-> SumFunction(f[x])] = rows
    BY DEF RowSums
<1> QED BY <1>2, <1>4, <1>5

=============================================================================
