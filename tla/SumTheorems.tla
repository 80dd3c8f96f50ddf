------------------------------- MODULE SumTheorems ------------------------------
(***************************************************************************)
(* Facts about sums over finite sets, as the folds of the community modules define  *)
(* them, and about quotients: what the proofs about amounts, severities and scores   *)
(* rest on.                                                                  *)
(***************************************************************************)
EXTENDS Integers, FiniteSets, Functions, FiniteSetTheorems, TLAPS

-----------------------------------------------------------------------------
(* Sums over finite sets                                                      *)

\* The element that the fold of the community modules takes next.
Next1(s) == CHOOSE x \in s : TRUE

\* The function by which it is defined: it[s] is the sum of f over s, for the subsets of S.
SumsOf(it, f, S) ==
    it = [s \in SUBSET S |-> IF s = {} THEN 0 ELSE f[Next1(s)] + it[s \ {Next1(s)}]]

\* A non-empty set of subsets of a finite set has a smallest one: induction over finite sets.
LEMMA Smallest ==
    ASSUME NEW S, IsFiniteSet(S), NEW P, P \subseteq SUBSET S, P # {}
    PROVE  \E x \in P : \A y \in P : ~(y \subseteq x /\ y # x)
<1>1. IsWellFoundedOn(StrictSubsetOrdering(S), FiniteSubsetsOf(S))
    BY FS_StrictSubsetOrderingWellFounded
<1>2. P \subseteq FiniteSubsetsOf(S)
    BY FS_Subset DEF FiniteSubsetsOf
<1>3. PICK x \in P : \A y \in P : ~(<<y, x>> \in StrictSubsetOrdering(S))
    BY <1>1, <1>2, WFMin
<1> QED
    BY <1>3 DEF StrictSubsetOrdering

\* What the defining equation says of one subset.
LEMMA SumsAt ==
    ASSUME NEW S, NEW f, NEW it, SumsOf(it, f, S), NEW T \in SUBSET S
    PROVE  /\ T = {} => it[T] = 0
           /\ T # {} => Next1(T) \in T /\ it[T] = f[Next1(T)] + it[T \ {Next1(T)}]
<1>1. it[T] = IF T = {} THEN 0 ELSE f[Next1(T)] + it[T \ {Next1(T)}]
    BY DEF SumsOf
<1>2. T # {} => Next1(T) \in T
    BY DEF Next1
<1> QED
    BY <1>1, <1>2

\* Two such functions agree where both are defined.
LEMMA SumsAgree ==
    ASSUME NEW S, NEW R, IsFiniteSet(S), NEW f, NEW it, NEW jt,
           SumsOf(it, f, S), SumsOf(jt, f, R)
    PROVE  \A T \in SUBSET (S \cap R) : it[T] = jt[T]
<1> DEFINE P == {T \in SUBSET (S \cap R) : it[T] # jt[T]}
<1> SUFFICES ASSUME P # {} PROVE FALSE
    OBVIOUS
<1>a. P \subseteq SUBSET S
    OBVIOUS
<1> HIDE DEF P
<1>1. PICK x \in P : \A y \in P : ~(y \subseteq x /\ y # x)
    BY <1>a, Smallest
<1>2. x \subseteq S /\ x \subseteq R /\ it[x] # jt[x]
    BY DEF P
<1>3. x # {}
    BY <1>2, SumsAt
<1> DEFINE y == x \ {Next1(x)}
<1>4. /\ Next1(x) \in x
      /\ it[x] = f[Next1(x)] + it[y] /\ jt[x] = f[Next1(x)] + jt[y]
    BY <1>2, <1>3, SumsAt
<1>5. it[y] = jt[y]
    <2>1. y \in SUBSET (S \cap R) /\ y \subseteq x /\ y # x
        BY <1>2, <1>4
    <2> HIDE DEF y
    <2> QED
        BY <1>1, <2>1 DEF P
<1> QED
    BY <1>2, <1>4, <1>5

\* There is such a function for every finite set.
LEMMA SumsExist ==
    ASSUME NEW S, IsFiniteSet(S), NEW f
    PROVE  \E it : SumsOf(it, f, S)
<1> DEFINE P == {T \in SUBSET S : ~\E it : SumsOf(it, f, T)}
<1> SUFFICES ASSUME P # {} PROVE FALSE
    OBVIOUS
<1>a. P \subseteq SUBSET S
    OBVIOUS
<1> HIDE DEF P
<1>1. PICK U \in P : \A y \in P : ~(y \subseteq U /\ y # U)
    BY <1>a, Smallest
<1>2. U \subseteq S /\ ~\E it : SumsOf(it, f, U)
    BY DEF P
<1> DEFINE sums(T) == CHOOSE it : SumsOf(it, f, T)
<1>3. ASSUME NEW T \in SUBSET U, T # U PROVE SumsOf(sums(T), f, T) /\ IsFiniteSet(T)
    <2>1. \E it : SumsOf(it, f, T)
        BY <1>1, <1>2, <1>3 DEF P
    <2>2. SumsOf(sums(T), f, T)
        BY <2>1
    <2> QED
        BY <1>2, <2>2, FS_Subset
<1> HIDE DEF sums
<1> DEFINE whole == [s \in SUBSET U |->
               IF s = {} THEN 0 ELSE f[Next1(s)] + sums(s \ {Next1(s)})[s \ {Next1(s)}]]
<1>4. \A s \in SUBSET U : s # {} => Next1(s) \in s
    BY DEF Next1
<1>5. ASSUME NEW T \in SUBSET U, T # U PROVE whole[T] = sums(T)[T]
    <2>1. SumsOf(sums(T), f, T)
        BY <1>3, <1>5
    <2>2. CASE T = {}
        BY <2>1, <2>2, SumsAt
    <2>3. CASE T # {}
        <3> DEFINE R == T \ {Next1(T)}
        <3>1. R \subseteq T /\ R # T /\ R # U /\ R \subseteq U
            BY <1>4, <1>5, <2>3
        <3>2. sums(T)[T] = f[Next1(T)] + sums(T)[R]
            BY <2>1, <2>3, SumsAt
        <3>3. SumsOf(sums(R), f, R) /\ IsFiniteSet(R)
            BY <1>3, <3>1
        <3>4. sums(T)[R] = sums(R)[R]
            <4> HIDE DEF R
            <4>1. \A V \in SUBSET (R \cap T) : sums(R)[V] = sums(T)[V]
                BY <2>1, <3>3, SumsAgree
            <4> QED
                BY <3>1, <4>1
        <3>5. whole[T] = f[Next1(T)] + sums(R)[R]
            BY <1>5, <2>3
        <3> QED
            BY <3>2, <3>4, <3>5
    <2> QED
        BY <2>2, <2>3
<1>6. \A s \in SUBSET U : s # {} =>
          sums(s \ {Next1(s)})[s \ {Next1(s)}] = whole[s \ {Next1(s)}]
    BY <1>4, <1>5
<1>7. SumsOf(whole, f, U)
    <2>1. \A s \in SUBSET U :
              whole[s] = IF s = {} THEN 0 ELSE f[Next1(s)] + whole[s \ {Next1(s)}]
        BY <1>6
    <2>2. whole = [s \in SUBSET U |-> whole[s]]
        OBVIOUS
    <2> HIDE DEF whole
    <2> QED
        BY <2>1, <2>2 DEF SumsOf
<1> QED
    BY <1>2, <1>7

\* Sums of natural numbers are natural numbers.
LEMMA SumsNat ==
    ASSUME NEW S, IsFiniteSet(S), NEW f, \A x \in S : f[x] \in Nat, NEW it, SumsOf(it, f, S)
    PROVE  \A T \in SUBSET S : it[T] \in Nat
<1> DEFINE P == {T \in SUBSET S : it[T] \notin Nat}
<1> SUFFICES ASSUME P # {} PROVE FALSE
    OBVIOUS
<1>a. P \subseteq SUBSET S
    OBVIOUS
<1> HIDE DEF P
<1>1. PICK U \in P : \A y \in P : ~(y \subseteq U /\ y # U)
    BY <1>a, Smallest
<1>b. U \subseteq S /\ it[U] \notin Nat
    BY DEF P
<1> DEFINE R == U \ {Next1(U)}
<1>c. U # {}
    <2>1. it[{}] = 0
        BY SumsAt
    <2> QED
        BY <1>b, <2>1
<1>2. Next1(U) \in U /\ it[U] = f[Next1(U)] + it[R]
    BY <1>b, <1>c, SumsAt
<1>3. it[R] \in Nat
    <2>1. R \in SUBSET S /\ R \subseteq U /\ R # U
        BY <1>b, <1>2
    <2> HIDE DEF R
    <2> QED
        BY <1>1, <2>1 DEF P
<1>4. f[Next1(U)] \in Nat
    BY <1>b, <1>2
<1> QED
    BY <1>b, <1>2, <1>3, <1>4

\* A sum does not depend on the order in which its terms are taken.
LEMMA SumsTake ==
    ASSUME NEW S, IsFiniteSet(S), NEW f, \A x \in S : f[x] \in Nat, NEW it, SumsOf(it, f, S)
    PROVE  \A T \in SUBSET S : \A x \in T : it[T] = f[x] + it[T \ {x}]
<1> DEFINE P == {T \in SUBSET S : \E x \in T : it[T] # f[x] + it[T \ {x}]}
<1> SUFFICES ASSUME P # {} PROVE FALSE
    OBVIOUS
<1>a. P \subseteq SUBSET S
    OBVIOUS
<1> HIDE DEF P
<1>1. PICK U \in P : \A y \in P : ~(y \subseteq U /\ y # U)
    BY <1>a, Smallest
<1>b. U \subseteq S
    BY DEF P
<1>2. PICK x \in U : it[U] # f[x] + it[U \ {x}]
    BY DEF P
<1> PICK n : n = Next1(U)
    OBVIOUS
<1>3. n \in U /\ it[U] = f[n] + it[U \ {n}]
    BY <1>b, <1>2, SumsAt
<1>4. n # x
    BY <1>2, <1>3
<1>5. ASSUME NEW T \in SUBSET U, T # U, NEW y \in T PROVE it[T] = f[y] + it[T \ {y}]
    <2>1. T \notin P /\ T \in SUBSET S
        BY <1>1, <1>5, <1>b
    <2> QED
        BY <2>1 DEF P
<1>6. it[U \ {n}] = f[x] + it[(U \ {n}) \ {x}]
    BY <1>3, <1>4, <1>5
<1>7. it[U \ {x}] = f[n] + it[(U \ {x}) \ {n}]
    BY <1>2, <1>3, <1>4, <1>5
<1>8. (U \ {n}) \ {x} = (U \ {x}) \ {n}
    OBVIOUS
<1>9. it[(U \ {n}) \ {x}] \in Nat /\ f[x] \in Nat /\ f[n] \in Nat
    <2>1. (U \ {n}) \ {x} \in SUBSET S
        BY <1>b
    <2> QED
        BY <1>b, <1>3, <2>1, SumsNat
<1> PICK w : w = it[(U \ {n}) \ {x}]
    OBVIOUS
<1>10. it[U] = f[n] + (f[x] + w) /\ it[U \ {x}] = f[n] + w
    BY <1>3, <1>6, <1>7, <1>8
<1>11. f[n] + (f[x] + w) = f[x] + (f[n] + w)
    <2>1. \A a, b, c \in Nat : a + (b + c) = b + (a + c)
        OBVIOUS
    <2> QED
        BY <1>9, <2>1
<1> QED
    BY <1>2, <1>10, <1>11

\* The sum over a larger set is no smaller.
LEMMA SumsGrow ==
    ASSUME NEW S, IsFiniteSet(S), NEW f, \A x \in S : f[x] \in Nat, NEW it, SumsOf(it, f, S)
    PROVE  \A T \in SUBSET S : \A R \in SUBSET T : it[R] <= it[T]
<1> DEFINE P == {T \in SUBSET S : \E R \in SUBSET T : ~(it[R] <= it[T])}
<1> SUFFICES ASSUME P # {} PROVE FALSE
    OBVIOUS
<1>a. P \subseteq SUBSET S
    OBVIOUS
<1> HIDE DEF P
<1>1. PICK U \in P : \A y \in P : ~(y \subseteq U /\ y # U)
    BY <1>a, Smallest
<1>b. U \subseteq S
    BY DEF P
<1>2. PICK R \in SUBSET U : ~(it[R] <= it[U])
    BY DEF P
<1>3. it[U] \in Nat /\ it[R] \in Nat
    BY <1>b, SumsNat
<1>4. PICK x \in U : x \notin R
    <2>1. R # U
        BY <1>2, <1>3
    <2> QED
        BY <2>1
<1>5. it[R] <= it[U \ {x}]
    <2>1. U \ {x} \in SUBSET S /\ U \ {x} \subseteq U /\ U \ {x} # U
        BY <1>b
    <2>2. U \ {x} \notin P
        BY <1>1, <2>1
    <2> QED
        BY <1>4, <2>1, <2>2 DEF P
<1>6. /\ it[U] = f[x] + it[U \ {x}]
      /\ it[U \ {x}] \in Nat
      /\ f[x] \in Nat
    <2>1. it[U] = f[x] + it[U \ {x}]
        BY <1>b, SumsTake
    <2>2. it[U \ {x}] \in Nat
        BY <1>b, SumsNat
    <2> QED
        BY <1>b, <2>1, <2>2
<1> QED
    BY <1>2, <1>3, <1>5, <1>6

\* Terms of thirty at least have a mean of thirty at least.
LEMMA SumsMean ==
    ASSUME NEW S, IsFiniteSet(S), NEW f, \A x \in S : f[x] \in Nat, NEW it, SumsOf(it, f, S),
           \A x \in S : f[x] >= 30
    PROVE  it[S] >= 30 * Cardinality(S)
<1> DEFINE P == {T \in SUBSET S : ~(it[T] >= 30 * Cardinality(T))}
<1> SUFFICES ASSUME P # {} PROVE FALSE
    OBVIOUS
<1>a. P \subseteq SUBSET S
    OBVIOUS
<1> HIDE DEF P
<1>1. PICK U \in P : \A y \in P : ~(y \subseteq U /\ y # U)
    BY <1>a, Smallest
<1>b. U \subseteq S /\ ~(it[U] >= 30 * Cardinality(U))
    BY DEF P
<1>2. U # {}
    <2>1. it[{}] = 0 /\ Cardinality({}) = 0
        BY SumsAt, FS_EmptySet
    <2> QED
        BY <1>b, <2>1
<1>3. PICK x \in U : TRUE
    BY <1>2
<1>4. it[U \ {x}] >= 30 * Cardinality(U \ {x})
    <2>1. U \ {x} \in SUBSET S /\ U \ {x} \subseteq U /\ U \ {x} # U
        BY <1>b
    <2> QED
        BY <1>1, <2>1 DEF P
<1>5. IsFiniteSet(U) /\ Cardinality(U) \in Nat /\ Cardinality(U \ {x}) = Cardinality(U) - 1
    BY <1>b, FS_Subset, FS_RemoveElement, FS_CardinalityType
<1>6. it[U] = f[x] + it[U \ {x}] /\ it[U \ {x}] \in Nat /\ f[x] \in Nat /\ f[x] >= 30
    BY <1>b, SumsTake, SumsNat
<1> QED
    BY <1>b, <1>4, <1>5, <1>6

\* The sum of the community modules is such a sum.
LEMMA SumFunctionIs ==
    ASSUME NEW S, IsFiniteSet(S), NEW f, NEW it, SumsOf(it, f, S), NEW T \in SUBSET S
    PROVE  SumFunctionOnSet(f, T) = it[T]
<1> DEFINE step(vt) == [s \in SUBSET T |-> IF s = {} THEN 0
                                           ELSE f[Next1(s)] + vt[s \ {Next1(s)}]]
<1> DEFINE sum == CHOOSE vt : vt = step(vt)
<1>1. SumFunctionOnSet(f, T) = sum[T]
    BY DEF SumFunctionOnSet, FoldFunctionOnSet, MapThenFoldSet, Next1
<1>2. \A vt : vt = step(vt) <=> SumsOf(vt, f, T)
    BY DEF SumsOf
<1> HIDE DEF step
<1>3. \E vt : vt = step(vt)
    BY <1>2, SumsExist, FS_Subset
<1>4. SumsOf(sum, f, T)
    BY <1>2, <1>3
<1> HIDE DEF sum
<1>5. \A V \in SUBSET (S \cap T) : it[V] = sum[V]
    BY <1>4, SumsAgree
<1> QED
    BY <1>1, <1>5

\* A sum of natural numbers is one, no smaller over more of them, and positive with any
\* that is.
LEMMA SumFunctionNat ==
    ASSUME NEW S, IsFiniteSet(S), NEW f, \A x \in S : f[x] \in Nat
    PROVE  /\ SumFunctionOnSet(f, S) \in Nat
           /\ \A T \in SUBSET S : SumFunctionOnSet(f, T) \in Nat
                                 /\ SumFunctionOnSet(f, T) <= SumFunctionOnSet(f, S)
           /\ \A x \in S : f[x] <= SumFunctionOnSet(f, S)
<1>1. PICK it : SumsOf(it, f, S)
    BY SumsExist
<1>2. \A T \in SUBSET S : SumFunctionOnSet(f, T) = it[T]
    BY <1>1, SumFunctionIs
<1>3. \A T \in SUBSET S : it[T] \in Nat
    BY <1>1, SumsNat
<1>4. \A T \in SUBSET S : it[T] <= it[S]
    BY <1>1, SumsGrow
<1>5. \A x \in S : it[S] = f[x] + it[S \ {x}]
    BY <1>1, SumsTake
<1>6. ASSUME NEW x \in S PROVE f[x] <= it[S]
    <2>1. S \ {x} \in SUBSET S
        OBVIOUS
    <2>2. f[x] \in Nat /\ it[S \ {x}] \in Nat /\ it[S] = f[x] + it[S \ {x}]
        BY <1>3, <1>5, <2>1
    <2> QED
        BY <2>2
<1> QED
    BY <1>2, <1>3, <1>4, <1>6

\* A sum depends on nothing but its terms.
LEMMA SumFunctionSame ==
    ASSUME NEW S, IsFiniteSet(S), NEW f, NEW g, \A x \in S : f[x] = g[x]
    PROVE  SumFunctionOnSet(f, S) = SumFunctionOnSet(g, S)
<1>1. PICK it : SumsOf(it, f, S)
    BY SumsExist
<1>2. SumsOf(it, g, S)
    <2>1. \A s \in SUBSET S : s # {} => f[Next1(s)] = g[Next1(s)]
        BY DEF Next1
    <2> QED
        BY <1>1, <2>1 DEF SumsOf
<1> QED
    BY <1>1, <1>2, SumFunctionIs

-----------------------------------------------------------------------------
(* Quotients                                                                 *)

\* A quotient reaches every bound that its terms reach.
LEMMA DivBound ==
    ASSUME NEW a \in Nat, NEW b \in Nat \ {0}, NEW c \in Nat, a >= c * b
    PROVE  a \div b \in Nat /\ a \div b >= c
<1>1. a \div b \in Nat /\ a < b * ((a \div b) + 1)
    BY SMT
<1> PICK q \in Nat : q = a \div b
    BY <1>1
<1>2. a < b * (q + 1)
    BY <1>1
<1>3. q >= c
    <2> SUFFICES ASSUME q + 1 <= c PROVE FALSE
        OBVIOUS
    <2>1. b * (q + 1) <= b * c
        OBVIOUS
    <2> QED
        BY <1>2, <2>1
<1> QED
    BY <1>3

\* A larger number has no smaller quotient.
LEMMA DivGrows ==
    ASSUME NEW a \in Nat, NEW c \in Nat, NEW b \in Nat \ {0}, a <= c
    PROVE  a \div b \in Nat /\ c \div b \in Nat /\ a \div b <= c \div b
<1>1. a \div b \in Nat /\ (a \div b) * b <= a
    BY SMT
<1>2. c >= (a \div b) * b
    BY <1>1, SMT
<1> QED
    BY <1>1, <1>2, DivBound

\* A product grows with its factors.
LEMMA ProductGrows ==
    ASSUME NEW a \in Nat, NEW b \in Nat, NEW c \in Nat, NEW d \in Nat, a <= c, b <= d
    PROVE  a * b \in Nat /\ c * d \in Nat /\ a * b <= c * d
<1>1. a * b <= c * b
    BY SMT
<1>2. c * b <= c * d
    BY SMT
<1> QED
    BY <1>1, <1>2

================================================================================
