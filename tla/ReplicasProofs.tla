--------------------------- MODULE ReplicasProofs ---------------------------
(***************************************************************************)
(* Proofs about Replicas, for every set of nodes, all inputs and ints of   *)
(* every width.                                                            *)
(***************************************************************************)
EXTENDS Replicas, FiniteSetTheorems, SequenceTheorems, WellFoundedInduction, TLAPS

-----------------------------------------------------------------------------
(***************************************************************************)
(* Ints.  Cong is equality of integers modulo the number of ints.          *)
(***************************************************************************)
Cong(x, y) == \E k \in Int : x = y + (IntCount * k)

\* There are ints, and half of them are negative.
LEMMA CountOfInts ==
  /\ MaxInt \in Nat /\ IntCount \in Nat \ {0}
  /\ IntCount = MaxInt + MaxInt + 2
  /\ GoInt \subseteq Int
  /\ \A x \in Int : x \in GoInt <=> -MaxInt - 1 <= x /\ x <= MaxInt
BY MaxIntAssumption DEF IntCount, GoInt

\* Cong is an equivalence.
LEMMA CongEquivalence ==
  ASSUME NEW x \in Int, NEW y \in Int, NEW z \in Int
  PROVE  /\ Cong(x, x)
         /\ Cong(x, y) => Cong(y, x)
         /\ Cong(x, y) /\ Cong(y, z) => Cong(x, z)
<1>1. IntCount \in Int
  BY CountOfInts
<1>2. Cong(x, x)
  <2>1. x = x + (IntCount * 0) /\ 0 \in Int
    BY <1>1
  <2>2. QED  BY <2>1 DEF Cong
<1>3. ASSUME Cong(x, y)  PROVE Cong(y, x)
  <2>1. PICK k \in Int : x = y + (IntCount * k)
    BY <1>3 DEF Cong
  <2>2. IntCount * (-k) = -(IntCount * k) /\ IntCount * k \in Int /\ -k \in Int
    BY <1>1
  <2>3. y = x + (IntCount * (-k))
    BY <2>1, <2>2
  <2>4. QED  BY <2>2, <2>3 DEF Cong
<1>4. ASSUME Cong(x, y), Cong(y, z)  PROVE Cong(x, z)
  <2>1. PICK k \in Int : x = y + (IntCount * k)
    BY <1>4 DEF Cong
  <2>2. PICK j \in Int : y = z + (IntCount * j)
    BY <1>4 DEF Cong
  <2>3. /\ IntCount * (j + k) = (IntCount * j) + (IntCount * k)
        /\ IntCount * k \in Int /\ IntCount * j \in Int /\ j + k \in Int
    BY <1>1
  <2>4. x = z + (IntCount * (j + k))
    BY <2>1, <2>2, <2>3
  <2>5. QED  BY <2>3, <2>4 DEF Cong
<1>5. QED  BY <1>2, <1>3, <1>4

\* Sums and differences of congruent integers are congruent.
LEMMA CongSum ==
  ASSUME NEW x \in Int, NEW y \in Int, NEW u \in Int, NEW v \in Int,
         Cong(x, y), Cong(u, v)
  PROVE  Cong(x + u, y + v) /\ Cong(x - u, y - v)
<1>1. IntCount \in Int
  BY CountOfInts
<1>2. PICK k \in Int : x = y + (IntCount * k)
  BY DEF Cong
<1>3. PICK j \in Int : u = v + (IntCount * j)
  BY DEF Cong
<1>4. /\ IntCount * (k + j) = (IntCount * k) + (IntCount * j)
      /\ IntCount * (k - j) = (IntCount * k) - (IntCount * j)
      /\ IntCount * k \in Int /\ IntCount * j \in Int
      /\ k + j \in Int /\ k - j \in Int
  BY <1>1
<1>5. x + u = (y + v) + (IntCount * (k + j))
  BY <1>2, <1>3, <1>4
<1>6. x - u = (y - v) + (IntCount * (k - j))
  BY <1>2, <1>3, <1>4
<1>7. QED  BY <1>4, <1>5, <1>6 DEF Cong

\* An integer has the remainder of one that it is congruent to.
LEMMA CongRemainder ==
  ASSUME NEW x \in Int, NEW y \in 0 .. IntCount - 1, Cong(x, y)
  PROVE  x % IntCount = y
<1>1. IntCount \in Nat \ {0}
  BY CountOfInts
<1>2. PICK k \in Int : x = y + (IntCount * k)
  BY DEF Cong
<1>3. x = (IntCount * k) + y
  BY <1>1, <1>2
<1>4. \A M \in Nat \ {0}, q \in Int : \A r \in 0 .. M - 1 : ((M * q) + r) % M = r
  OBVIOUS
<1>5. QED  BY <1>1, <1>3, <1>4

\* Congruent ints are equal.
LEMMA CongInts ==
  ASSUME NEW x \in GoInt, NEW y \in GoInt, Cong(x, y)
  PROVE  x = y
<1>1. PICK k \in Int : x = y + (IntCount * k)
  BY DEF Cong
<1>2. x \in Int /\ y \in Int /\ IntCount \in Nat \ {0} /\ MaxInt \in Nat
  BY CountOfInts
<1>3. x - y < IntCount /\ y - x < IntCount
  BY <1>2, CountOfInts
<1>4. IntCount * k < IntCount /\ -IntCount < IntCount * k
  BY <1>1, <1>2, <1>3
<1>5. k = 0
  <2>1. \A M \in Nat \ {0}, q \in Int : M * q < M /\ -M < M * q => q = 0
    OBVIOUS
  <2>2. QED  BY <1>2, <1>4, <2>1
<1>6. IntCount * k = 0
  BY <1>2, <1>5
<1>7. QED  BY <1>1, <1>2, <1>6

\* Wrap returns the int that is congruent to its argument.
LEMMA WrapInt ==
  ASSUME NEW x \in Int
  PROVE  /\ Wrap(x) \in GoInt /\ Wrap(x) \in Int /\ Cong(Wrap(x), x)
         /\ x \in GoInt => Wrap(x) = x
<1> DEFINE s == x + MaxInt + 1
<1>1. IntCount \in Nat \ {0} /\ MaxInt \in Nat /\ s \in Int
  BY CountOfInts
<1> HIDE DEF s
<1>2. s % IntCount \in 0 .. IntCount - 1
  BY <1>1
<1>3. s = (IntCount * (s \div IntCount)) + (s % IntCount) /\ s \div IntCount \in Int
  BY <1>1
<1>4. Wrap(x) = (s % IntCount) - MaxInt - 1
  BY DEF Wrap, s
<1>5. Wrap(x) \in Int /\ -MaxInt - 1 <= Wrap(x) /\ Wrap(x) <= MaxInt
  BY <1>1, <1>2, <1>4, CountOfInts
<1>6. Wrap(x) \in GoInt
  BY <1>5, CountOfInts
<1>7. Cong(x, Wrap(x))
  <2>1. IntCount * (s \div IntCount) \in Int
    BY <1>1, <1>3
  <2>2. x = Wrap(x) + (IntCount * (s \div IntCount))
    BY <1>1, <1>2, <1>3, <1>4, <2>1 DEF s
  <2>3. QED  BY <1>3, <2>2 DEF Cong
<1>8. Cong(Wrap(x), x)
  BY <1>5, <1>7, CongEquivalence
<1>9. QED  BY <1>5, <1>6, <1>8, CongInts

-----------------------------------------------------------------------------
(***************************************************************************)
(* Sums over finite sets.  SumFunctionOnSet(f, S) picks an element of S,   *)
(* adds the sum over the others, and does so with a recursive function on  *)
(* the subsets of S.                                                       *)
(***************************************************************************)
Iteration(f, S, iter) ==
  iter = [s \in SUBSET S |->
            IF s = {} THEN 0
            ELSE f[CHOOSE x \in s : TRUE] + iter[s \ {CHOOSE x \in s : TRUE}]]

Picked(s) == CHOOSE x \in s : TRUE

\* A set of subsets that has each subset whose strict subsets it has.
LEMMA SubsetInduction ==
  ASSUME NEW T, IsFiniteSet(T), NEW Good,
         \A S \in SUBSET T : (\A U \in SUBSET S : U # S => U \in Good) => S \in Good
  PROVE  SUBSET T \subseteq Good
<1> DEFINE Bad == (SUBSET T) \ Good
<1>1. SUFFICES ASSUME Bad # {}  PROVE FALSE
  OBVIOUS
<1>2. Bad \subseteq FiniteSubsetsOf(T)
  BY FS_Subset DEF FiniteSubsetsOf
<1> HIDE DEF Bad
<1>3. PICK S \in Bad : \A U \in Bad : <<U, S>> \notin StrictSubsetOrdering(T)
  BY <1>1, <1>2, FS_StrictSubsetOrderingWellFounded, WFMin
<1> USE DEF Bad
<1>4. ASSUME NEW U \in SUBSET S, U # S  PROVE U \in Good
  <2>1. <<U, S>> \in StrictSubsetOrdering(T)
    BY <1>4 DEF StrictSubsetOrdering
  <2>2. QED  BY <1>3, <2>1
<1>5. QED  BY <1>3, <1>4

\* Removing the element that is picked leaves a strict subset.
LEMMA PickedElement ==
  ASSUME NEW S, S # {}
  PROVE  /\ Picked(S) \in S
         /\ S \ {Picked(S)} \in SUBSET S /\ S \ {Picked(S)} # S
BY DEF Picked

\* Iterations agree where both are defined.
LEMMA IterationUnique ==
  ASSUME NEW f, NEW T, IsFiniteSet(T), NEW one, NEW W, NEW other,
         Iteration(f, T, one), Iteration(f, W, other), T \subseteq W
  PROVE  one[T] = other[T]
<1> DEFINE Good == {S \in SUBSET T : one[S] = other[S]}
<1>1. ASSUME NEW S \in SUBSET T, \A U \in SUBSET S : U # S => U \in Good
      PROVE  S \in Good
  <2>1. /\ one[S] = IF S = {} THEN 0 ELSE f[Picked(S)] + one[S \ {Picked(S)}]
        /\ other[S] = IF S = {} THEN 0 ELSE f[Picked(S)] + other[S \ {Picked(S)}]
    BY DEF Iteration, Picked
  <2>2. S # {} => one[S \ {Picked(S)}] = other[S \ {Picked(S)}]
    BY <1>1, PickedElement
  <2>3. QED  BY <2>1, <2>2
<1> HIDE DEF Good
<1>2. SUBSET T \subseteq Good
  BY <1>1, SubsetInduction
<1>3. QED  BY <1>2 DEF Good

\* What a sum is, when there is an iteration.
LEMMA SumIsIteration ==
  ASSUME NEW f, NEW S
  PROVE  SumFunctionOnSet(f, S) = (CHOOSE iter : Iteration(f, S, iter))[S]
BY DEF SumFunctionOnSet, FoldFunctionOnSet, MapThenFoldSet, Iteration

\* There is an iteration on every finite set, so that a sum over it is an
\* element added to the sum over the others.
LEMMA SumSteps ==
  ASSUME NEW f, NEW T, IsFiniteSet(T)
  PROVE  /\ \E iter : Iteration(f, T, iter)
         /\ SumFunctionOnSet(f, T) =
              IF T = {} THEN 0 ELSE f[Picked(T)] + SumFunctionOnSet(f, T \ {Picked(T)})
<1> DEFINE Steps(S) == SumFunctionOnSet(f, S) =
              IF S = {} THEN 0 ELSE f[Picked(S)] + SumFunctionOnSet(f, S \ {Picked(S)})
           Has(S) == \E iter : Iteration(f, S, iter)
           Good == {S \in SUBSET T : Has(S) /\ Steps(S)}
<1>1. ASSUME NEW S \in SUBSET T, \A U \in SUBSET S : U # S => U \in Good
      PROVE  S \in Good
  <2>1. PICK iter : iter = [s \in SUBSET S |->
                              IF s = {} THEN 0
                              ELSE f[Picked(s)] + SumFunctionOnSet(f, s \ {Picked(s)})]
    OBVIOUS
  <2>2. \A U \in SUBSET S : U # S => SumFunctionOnSet(f, U) = iter[U]
    BY <1>1, <2>1
  <2>3. ASSUME NEW s \in SUBSET S
        PROVE  iter[s] = IF s = {} THEN 0 ELSE f[Picked(s)] + iter[s \ {Picked(s)}]
    <3>1. CASE s = {}
      BY <2>1, <3>1
    <3>2. CASE s # {}
      <4>1. s \ {Picked(s)} \in SUBSET S /\ s \ {Picked(s)} # S
        BY <3>2, PickedElement
      <4>2. SumFunctionOnSet(f, s \ {Picked(s)}) = iter[s \ {Picked(s)}]
        BY <2>2, <4>1
      <4>3. QED  BY <2>1, <3>2, <4>2
    <3>3. QED  BY <3>1, <3>2
  <2>4. Iteration(f, S, iter)
    <3>1. iter = [s \in SUBSET S |->
                    IF s = {} THEN 0 ELSE f[Picked(s)] + iter[s \ {Picked(s)}]]
      BY <2>1, <2>3
    <3>2. QED  BY <3>1 DEF Iteration, Picked
  <2>5. PICK chosen : chosen = (CHOOSE it : Iteration(f, S, it))
    OBVIOUS
  <2>6. Iteration(f, S, chosen)
    BY <2>4, <2>5
  <2>7. chosen[S] = iter[S]
    BY <2>4, <2>6, IterationUnique, FS_Subset
  <2>8. SumFunctionOnSet(f, S) = iter[S]
    BY <2>5, <2>7, SumIsIteration
  <2>9. Steps(S)
    BY <2>1, <2>8
  <2>10. QED  BY <2>4, <2>9
<1> HIDE DEF Good
<1>2. SUBSET T \subseteq Good
  BY <1>1, SubsetInduction
<1>3. T \in Good
  BY <1>2
<1>4. QED  BY <1>3 DEF Good
\* A sum of integers is one, and any of them can be taken out of it.
LEMMA SumOfIntegers ==
  ASSUME NEW f, NEW T, IsFiniteSet(T), \A x \in T : f[x] \in Int
  PROVE  /\ SumFunctionOnSet(f, T) \in Int
         /\ \A x \in T : SumFunctionOnSet(f, T) = f[x] + SumFunctionOnSet(f, T \ {x})
<1> DEFINE Sum(S) == SumFunctionOnSet(f, S)
           Good == {S \in SUBSET T : Sum(S) \in Int /\ \A x \in S : Sum(S) = f[x] + Sum(S \ {x})}
<1>1. ASSUME NEW S \in SUBSET T, \A U \in SUBSET S : U # S => U \in Good
      PROVE  S \in Good
  <2>1. IsFiniteSet(S)
    BY FS_Subset
  <2>2. CASE S = {}
    <3>1. Sum(S) = 0
      BY <2>1, <2>2, SumSteps
    <3>2. QED  BY <2>2, <3>1
  <2>3. CASE S # {}
    <3> DEFINE c == Picked(S)
    <3>1. c \in S /\ S \ {c} \in SUBSET S /\ S \ {c} # S
      BY <2>3, PickedElement
    <3>2. Sum(S) = f[c] + Sum(S \ {c})
      BY <2>1, <2>3, SumSteps
    <3> HIDE DEF c
    <3>3. Sum(S \ {c}) \in Int /\ f[c] \in Int
      BY <1>1, <3>1
    <3>4. ASSUME NEW x \in S, x # c  PROVE Sum(S) = f[x] + Sum(S \ {x})
      <4>1. x \in S \ {c} /\ c \in S \ {x} /\ S \ {x} \in SUBSET S /\ S \ {x} # S
        BY <3>1, <3>4
      <4>2. (S \ {c}) \ {x} = (S \ {x}) \ {c}
        OBVIOUS
      <4>3. /\ Sum(S \ {c}) = f[x] + Sum((S \ {c}) \ {x})
            /\ Sum(S \ {x}) = f[c] + Sum((S \ {x}) \ {c})
        BY <1>1, <3>1, <4>1
      <4>4. (S \ {c}) \ {x} \in SUBSET S /\ (S \ {c}) \ {x} # S
        BY <3>1
      <4>5. PICK rest \in Int : rest = Sum((S \ {c}) \ {x})
        BY <1>1, <4>4
      <4>6. Sum(S) = f[c] + (f[x] + rest) /\ Sum(S \ {x}) = f[c] + rest
        BY <3>2, <4>2, <4>3, <4>5
      <4>7. f[x] \in Int /\ f[c] \in Int
        BY <3>3
      <4>8. f[c] + (f[x] + rest) = f[x] + (f[c] + rest)
        BY <4>7
      <4>9. QED  BY <4>6, <4>8
    <3>5. ASSUME NEW x \in S  PROVE Sum(S) = f[x] + Sum(S \ {x})
      BY <3>2, <3>4
    <3>6. Sum(S) \in Int
      BY <3>2, <3>3
    <3>7. QED  BY <3>5, <3>6
  <2>4. QED  BY <2>2, <2>3
<1> HIDE DEF Good
<1>2. SUBSET T \subseteq Good
  BY <1>1, SubsetInduction
<1>3. T \in Good
  BY <1>2
<1>4. QED  BY <1>3 DEF Good

\* Functions that agree on a set have one sum over it.
LEMMA SumAgrees ==
  ASSUME NEW f, NEW g, NEW T, IsFiniteSet(T), \A x \in T : f[x] = g[x]
  PROVE  SumFunctionOnSet(f, T) = SumFunctionOnSet(g, T)
<1> DEFINE Good == {S \in SUBSET T : SumFunctionOnSet(f, S) = SumFunctionOnSet(g, S)}
<1>1. ASSUME NEW S \in SUBSET T, \A U \in SUBSET S : U # S => U \in Good
      PROVE  S \in Good
  <2>1. IsFiniteSet(S)
    BY FS_Subset
  <2>2. /\ SumFunctionOnSet(f, S) =
             IF S = {} THEN 0 ELSE f[Picked(S)] + SumFunctionOnSet(f, S \ {Picked(S)})
        /\ SumFunctionOnSet(g, S) =
             IF S = {} THEN 0 ELSE g[Picked(S)] + SumFunctionOnSet(g, S \ {Picked(S)})
    BY <2>1, SumSteps
  <2>3. S # {} => /\ f[Picked(S)] = g[Picked(S)]
                  /\ SumFunctionOnSet(f, S \ {Picked(S)}) = SumFunctionOnSet(g, S \ {Picked(S)})
    BY <1>1, PickedElement
  <2>4. QED  BY <2>2, <2>3
<1> HIDE DEF Good
<1>2. SUBSET T \subseteq Good
  BY <1>1, SubsetInduction
<1>3. QED  BY <1>2 DEF Good

\* A sum of naturals is one, and no less than each of them.
LEMMA SumOfNaturals ==
  ASSUME NEW f, NEW T, IsFiniteSet(T), \A x \in T : f[x] \in Nat
  PROVE  /\ SumFunctionOnSet(f, T) \in Nat
         /\ \A x \in T : f[x] <= SumFunctionOnSet(f, T)
         /\ \A x, y \in T : x # y => f[x] + f[y] <= SumFunctionOnSet(f, T)
<1> DEFINE Sum(S) == SumFunctionOnSet(f, S)
           Good == {S \in SUBSET T : Sum(S) \in Nat}
<1>1. ASSUME NEW S \in SUBSET T, \A U \in SUBSET S : U # S => U \in Good
      PROVE  S \in Good
  <2>1. IsFiniteSet(S)
    BY FS_Subset
  <2>2. Sum(S) = IF S = {} THEN 0 ELSE f[Picked(S)] + Sum(S \ {Picked(S)})
    BY <2>1, SumSteps
  <2>3. S # {} => f[Picked(S)] \in Nat /\ Sum(S \ {Picked(S)}) \in Nat
    BY <1>1, PickedElement
  <2>4. QED  BY <2>2, <2>3
<1> HIDE DEF Good
<1>2. SUBSET T \subseteq Good
  BY <1>1, SubsetInduction
<1>3. \A S \in SUBSET T : Sum(S) \in Nat /\ IsFiniteSet(S)
  BY <1>2, FS_Subset DEF Good
<1>4. \A S \in SUBSET T : \A x \in S : Sum(S) = f[x] + Sum(S \ {x})
  <2> SUFFICES ASSUME NEW S \in SUBSET T  PROVE \A x \in S : Sum(S) = f[x] + Sum(S \ {x})
    OBVIOUS
  <2>1. IsFiniteSet(S) /\ \A x \in S : f[x] \in Int
    BY <1>3
  <2>2. QED  BY <2>1, SumOfIntegers
<1>5. ASSUME NEW x \in T  PROVE f[x] <= Sum(T)
  <2>1. Sum(T) = f[x] + Sum(T \ {x}) /\ Sum(T \ {x}) \in Nat
    BY <1>3, <1>4
  <2>2. QED  BY <2>1
<1>6. ASSUME NEW x \in T, NEW y \in T, x # y  PROVE f[x] + f[y] <= Sum(T)
  <2>1. Sum(T) = f[x] + Sum(T \ {x})
    BY <1>4
  <2>2. y \in T \ {x} /\ T \ {x} \in SUBSET T /\ (T \ {x}) \ {y} \in SUBSET T
    BY <1>6
  <2>3. Sum(T \ {x}) = f[y] + Sum((T \ {x}) \ {y}) /\ Sum((T \ {x}) \ {y}) \in Nat
    BY <1>3, <1>4, <2>2
  <2>4. QED  BY <2>1, <2>3
<1>7. QED  BY <1>3, <1>5, <1>6

\* A sum of zeroes is zero.
LEMMA SumOfZeroes ==
  ASSUME NEW f, NEW T, IsFiniteSet(T), \A x \in T : f[x] = 0
  PROVE  SumFunctionOnSet(f, T) = 0
<1> DEFINE Good == {S \in SUBSET T : SumFunctionOnSet(f, S) = 0}
<1>1. ASSUME NEW S \in SUBSET T, \A U \in SUBSET S : U # S => U \in Good
      PROVE  S \in Good
  <2>1. IsFiniteSet(S)
    BY FS_Subset
  <2>2. SumFunctionOnSet(f, S) =
          IF S = {} THEN 0 ELSE f[Picked(S)] + SumFunctionOnSet(f, S \ {Picked(S)})
    BY <2>1, SumSteps
  <2>3. S # {} => f[Picked(S)] = 0 /\ SumFunctionOnSet(f, S \ {Picked(S)}) = 0
    BY <1>1, PickedElement
  <2>4. QED  BY <2>2, <2>3
<1> HIDE DEF Good
<1>2. SUBSET T \subseteq Good
  BY <1>1, SubsetInduction
<1>3. QED  BY <1>2 DEF Good
-----------------------------------------------------------------------------
(***************************************************************************)
(* The accounts.  What an account holds is 0 before it is in the map.      *)
(***************************************************************************)
IsMap(b) == IsFiniteSet(DOMAIN b) /\ b \in [DOMAIN b -> GoInt]

Held(b, a) == IF a \in DOMAIN b THEN b[a] ELSE 0

\* The new map is empty.
LEMMA NoAccountsMap ==
  IsMap(NoAccounts) /\ DOMAIN NoAccounts = {} /\ Total(NoAccounts) = 0
<1>1. DOMAIN NoAccounts = {} /\ NoAccounts \in [{} -> GoInt]
  BY DEF NoAccounts
<1>2. SumFunctionOnSet(NoAccounts, {}) = 0
  BY SumSteps, FS_EmptySet
<1>3. QED  BY <1>1, <1>2, FS_EmptySet DEF IsMap, Total, SumFunction

\* The balances of a map.
LEMMA MapTotal ==
  ASSUME NEW b, IsMap(b)
  PROVE  /\ Total(b) \in Int
         /\ \A a : Held(b, a) \in GoInt /\ Held(b, a) \in Int
<1>1. \A a \in DOMAIN b : b[a] \in GoInt /\ b[a] \in Int
  BY CountOfInts DEF IsMap
<1>2. 0 \in GoInt
  BY CountOfInts
<1>3. Total(b) \in Int
  BY <1>1, SumOfIntegers DEF Total, SumFunction, IsMap
<1>4. QED  BY <1>1, <1>2, <1>3 DEF Held

\* What an assignment of v to the account a makes of a map b.
IsAssigned(c, b, a, v) ==
  /\ IsMap(c)
  /\ DOMAIN c = DOMAIN b \cup {a}
  /\ \A x \in DOMAIN b \cup {a} : c[x] = IF x = a THEN v ELSE b[x]
  /\ Total(c) = (Total(b) - Held(b, a)) + v

\* An assignment to an account changes the total by what it changes there.
LEMMA AssignedMap ==
  ASSUME NEW b, IsMap(b), NEW a, NEW v \in GoInt
  PROVE  IsAssigned(Assigned(b, a, v), b, a, v)
<1> DEFINE c == Assigned(b, a, v)
           E == DOMAIN b \cup {a}
<1>1. /\ DOMAIN c = E
      /\ \A x \in E : c[x] = IF x = a THEN v ELSE b[x]
      /\ c = [x \in E |-> c[x]]
  BY DEF Assigned
<1>2. \A x \in DOMAIN b : b[x] \in GoInt
  BY DEF IsMap
<1>3. IsFiniteSet(E)
  BY FS_AddElement DEF IsMap
<1> HIDE DEF c
<1>4. \A x \in E : c[x] \in GoInt /\ c[x] \in Int
  BY <1>1, <1>2, CountOfInts
<1>5. IsMap(c)
  BY <1>1, <1>3, <1>4 DEF IsMap
<1>6. Total(c) = SumFunctionOnSet(c, E) /\ Total(b) = SumFunctionOnSet(b, DOMAIN b)
  BY <1>1 DEF Total, SumFunction
<1>7. SumFunctionOnSet(c, E) = c[a] + SumFunctionOnSet(c, E \ {a})
  BY <1>3, <1>4, SumOfIntegers
<1>8. \A x \in E \ {a} : c[x] = b[x]
  BY <1>1
<1>9. IsFiniteSet(E \ {a})
  BY <1>3, FS_Subset
<1>10. SumFunctionOnSet(c, E \ {a}) = SumFunctionOnSet(b, E \ {a})
  BY <1>8, <1>9, SumAgrees
<1>11. c[a] = v /\ v \in Int
  BY <1>1, CountOfInts
<1>12. PICK rest : rest = SumFunctionOnSet(b, E \ {a})
  OBVIOUS
<1>13. Total(c) = v + rest
  BY <1>6, <1>7, <1>10, <1>11, <1>12
<1>14. rest \in Int /\ Total(b) = Held(b, a) + rest
  <2>1. CASE a \in DOMAIN b
    <3>1. E = DOMAIN b
      BY <2>1
    <3>2. \A x \in DOMAIN b : b[x] \in Int
      BY <1>2, CountOfInts
    <3>3. Total(b) = b[a] + rest
      BY <1>3, <1>6, <1>12, <2>1, <3>1, <3>2, SumOfIntegers
    <3>4. rest \in Int
      <4>1. \A x \in E \ {a} : b[x] \in Int
        BY <3>1, <3>2
      <4>2. QED  BY <1>9, <1>12, <4>1, SumOfIntegers
    <3>5. QED  BY <2>1, <3>3, <3>4 DEF Held
  <2>2. CASE a \notin DOMAIN b
    <3>1. E \ {a} = DOMAIN b
      BY <2>2
    <3>2. Total(b) = rest /\ rest \in Int
      BY <1>6, <1>12, <3>1, MapTotal
    <3>3. QED  BY <2>2, <3>2 DEF Held
  <2>3. QED  BY <2>1, <2>2
<1>15. Held(b, a) \in Int
  BY MapTotal
<1>16. Total(c) = (Total(b) - Held(b, a)) + v
  BY <1>11, <1>13, <1>14, <1>15
<1>17. QED  BY <1>1, <1>5, <1>16 DEF c, IsAssigned
\* What a credited account holds.
LEMMA CreditedInt ==
  ASSUME NEW b, IsMap(b), NEW a, NEW amount \in GoInt
  PROVE  /\ Credited(b, a, amount) \in GoInt /\ Credited(b, a, amount) \in Int
         /\ Cong(Credited(b, a, amount), Held(b, a) + amount)
         /\ Held(b, a) + amount \in GoInt => Credited(b, a, amount) = Held(b, a) + amount
<1>1. amount \in Int /\ Held(b, a) \in Int /\ Held(b, a) + amount \in Int
  BY MapTotal, CountOfInts
<1>2. CASE a \in DOMAIN b
  <2>1. Credited(b, a, amount) = Wrap(Held(b, a) + amount)
    BY <1>2 DEF Credited, Held
  <2>2. QED  BY <1>1, <2>1, WrapInt
<1>3. CASE a \notin DOMAIN b
  <2>1. Credited(b, a, amount) = amount /\ Held(b, a) = 0
    BY <1>3 DEF Credited, Held
  <2>2. QED  BY <1>1, <2>1, CongEquivalence
<1>4. QED  BY <1>2, <1>3

\* What Deposit makes of the accounts.
LEMMA DepositStep ==
  ASSUME NEW b, IsMap(b), NEW a, NEW amount \in GoInt
  PROVE  /\ IsMap(Deposit(b, a, amount))
         /\ DOMAIN Deposit(b, a, amount) = DOMAIN b \cup {a}
         /\ \A x : Cong(Held(Deposit(b, a, amount), x),
                        Held(b, x) + (IF x = a THEN amount ELSE 0))
         /\ Cong(Total(Deposit(b, a, amount)), Total(b) + amount)
<1> DEFINE v == Credited(b, a, amount)
           c == Assigned(b, a, v)
<1>1. amount \in Int /\ v \in GoInt /\ v \in Int /\ Cong(v, Held(b, a) + amount)
  BY CreditedInt, CountOfInts
<1>2. /\ IsMap(c)
      /\ DOMAIN c = DOMAIN b \cup {a}
      /\ \A x \in DOMAIN b \cup {a} : c[x] = IF x = a THEN v ELSE b[x]
      /\ Total(c) = (Total(b) - Held(b, a)) + v
  BY <1>1, AssignedMap DEF IsAssigned
<1>3. Deposit(b, a, amount) = c
  BY DEF Deposit
<1> HIDE DEF v, c
<1>4. Held(b, a) \in Int /\ Total(b) \in Int /\ \A x : Held(b, x) \in Int
  BY MapTotal
<1>5. ASSUME NEW x  PROVE Cong(Held(c, x), Held(b, x) + (IF x = a THEN amount ELSE 0))
  <2>1. CASE x = a
    <3>1. Held(c, x) = v
      BY <1>2, <2>1 DEF Held
    <3>2. QED  BY <1>1, <2>1, <3>1
  <2>2. CASE x # a
    <3>1. Held(c, x) = Held(b, x)
      BY <1>2, <2>2 DEF Held
    <3>2. Held(b, x) + 0 = Held(b, x)
      BY <1>4
    <3>3. Cong(Held(b, x), Held(b, x))
      BY <1>4, CongEquivalence
    <3>4. QED  BY <2>2, <3>1, <3>2, <3>3
  <2>3. QED  BY <2>1, <2>2
<1>6. Cong(Total(c), Total(b) + amount)
  <2>1. Total(b) - Held(b, a) \in Int /\ Held(b, a) + amount \in Int
    BY <1>1, <1>4
  <2>2. Cong(Total(b) - Held(b, a), Total(b) - Held(b, a))
    BY <2>1, CongEquivalence
  <2>3. Cong((Total(b) - Held(b, a)) + v, (Total(b) - Held(b, a)) + (Held(b, a) + amount))
    BY <1>1, <2>1, <2>2, CongSum
  <2>4. (Total(b) - Held(b, a)) + (Held(b, a) + amount) = Total(b) + amount
    BY <1>1, <1>4
  <2>5. QED  BY <1>2, <2>3, <2>4
<1>7. QED  BY <1>2, <1>3, <1>5, <1>6

\* What a transfer makes of a map b.  The amount leaves one account and
\* enters another; for one account it only enters.
IsTransferred(c, b, from, to, amount) ==
  /\ IsMap(c)
  /\ DOMAIN c = DOMAIN b \cup {to}
  /\ \A x : Cong(Held(c, x), Held(b, x) + (IF x = to THEN amount
                                           ELSE IF x = from THEN -amount ELSE 0))
  /\ Cong(Total(c), Total(b) + (IF from = to THEN amount ELSE 0))

\* What Transfer makes of the accounts.
LEMMA TransferStep ==
  ASSUME NEW b, IsMap(b), NEW from \in DOMAIN b, NEW to, NEW amount \in GoInt
  PROVE  IsTransferred(Transfer(b, from, to, amount), b, from, to, amount)
<1> DEFINE u == Wrap(b[from] - amount)
           v == Credited(b, to, amount)
           c == Assigned(b, from, u)
           d == Assigned(c, to, v)
<1>1. Held(b, from) = b[from] /\ amount \in Int /\ -amount \in Int
  BY CountOfInts DEF Held
<1>2. Total(b) \in Int /\ \A x : Held(b, x) \in Int
  BY MapTotal
<1>3. v \in GoInt /\ v \in Int /\ Cong(v, Held(b, to) + amount)
  BY CreditedInt
<1>4. u \in GoInt /\ u \in Int /\ Cong(u, Held(b, from) - amount)
  BY <1>1, <1>2, WrapInt
<1>5. /\ IsMap(c)
      /\ DOMAIN c = DOMAIN b
      /\ \A x \in DOMAIN b : c[x] = IF x = from THEN u ELSE b[x]
      /\ Total(c) = (Total(b) - Held(b, from)) + u
  <2>1. DOMAIN b \cup {from} = DOMAIN b
    OBVIOUS
  <2> HIDE DEF u
  <2>2. u \in GoInt
    BY <1>4
  <2>3. IsAssigned(c, b, from, u)
    BY <2>2, AssignedMap
  <2> HIDE DEF c
  <2>4. QED  BY <2>1, <2>3 DEF IsAssigned
<1>6. /\ IsMap(d)
      /\ DOMAIN d = DOMAIN b \cup {to}
      /\ \A x \in DOMAIN c \cup {to} : d[x] = IF x = to THEN v ELSE c[x]
      /\ Total(d) = (Total(c) - Held(c, to)) + v
  <2> HIDE DEF v, c
  <2>1. IsMap(c) /\ v \in GoInt
    BY <1>3, <1>5
  <2>2. IsAssigned(d, c, to, v)
    BY <2>1, AssignedMap
  <2> HIDE DEF d
  <2>3. QED  BY <1>5, <2>2 DEF IsAssigned
<1>7. Transfer(b, from, to, amount) = d
  BY DEF Transfer
<1> HIDE DEF u, v, c, d
<1>8. ASSUME NEW x
      PROVE  Cong(Held(d, x), Held(b, x) + (IF x = to THEN amount
                                            ELSE IF x = from THEN -amount ELSE 0))
  <2>1. CASE x = to
    <3>1. Held(d, x) = v
      BY <1>6, <2>1 DEF Held
    <3>2. QED  BY <1>3, <2>1, <3>1
  <2>2. CASE x # to /\ x = from
    <3>1. Held(d, x) = u
      BY <1>5, <1>6, <2>2 DEF Held
    <3>2. Held(b, from) + (-amount) = Held(b, from) - amount
      BY <1>1, <1>2
    <3>3. QED  BY <1>4, <2>2, <3>1, <3>2
  <2>3. CASE x # to /\ x # from
    <3>1. Held(d, x) = Held(b, x)
      BY <1>5, <1>6, <2>3 DEF Held
    <3>2. Held(b, x) + 0 = Held(b, x)
      BY <1>2
    <3>3. Cong(Held(b, x), Held(b, x))
      BY <1>2, CongEquivalence
    <3>4. QED  BY <2>3, <3>1, <3>2, <3>3
  <2>4. QED  BY <2>1, <2>2, <2>3
<1>9. PICK T \in Int, F \in Int, G \in Int : T = Total(b) /\ F = Held(b, from) /\ G = Held(b, to)
  BY <1>2
<1>10. CASE from = to
  <2>1. Held(c, to) = u
    BY <1>5, <1>10 DEF Held
  <2>2. Total(d) = (((T - F) + u) - u) + v
    BY <1>5, <1>6, <1>9, <2>1
  <2>3. Total(d) = (T - F) + v /\ T - F \in Int /\ F + amount \in Int
    BY <1>1, <1>3, <1>4, <1>9, <2>2
  <2>4. Cong(v, F + amount) /\ Cong(T - F, T - F)
    BY <1>3, <1>9, <1>10, <2>3, CongEquivalence
  <2>5. Cong((T - F) + v, (T - F) + (F + amount))
    BY <1>3, <2>3, <2>4, CongSum
  <2>6. (T - F) + (F + amount) = T + amount
    BY <1>1, <1>9
  <2>7. Cong(Total(d), Total(b) + amount)
    BY <1>9, <2>3, <2>5, <2>6
  <2>8. QED  BY <1>6, <1>7, <1>8, <1>10, <2>7 DEF IsTransferred
<1>11. CASE from # to
  <2>1. Held(c, to) = G
    BY <1>5, <1>9, <1>11 DEF Held
  <2>2. Total(d) = (((T - F) + u) - G) + v
    BY <1>5, <1>6, <1>9, <2>1
  <2>3. /\ T - F \in Int /\ F - amount \in Int /\ (T - F) + u \in Int
        /\ (T - F) + (F - amount) \in Int /\ T - amount \in Int
        /\ ((T - F) + u) - G \in Int /\ (T - amount) - G \in Int /\ G + amount \in Int
    BY <1>1, <1>4, <1>9
  <2>4. Cong(T - F, T - F) /\ Cong(G, G) /\ Cong(u, F - amount) /\ Cong(v, G + amount)
    BY <1>3, <1>4, <1>9, <2>3, CongEquivalence
  <2>5. Cong((T - F) + u, (T - F) + (F - amount))
    BY <1>4, <2>3, <2>4, CongSum
  <2>6. (T - F) + (F - amount) = T - amount
    BY <1>1, <1>9
  <2>7. Cong(((T - F) + u) - G, (T - amount) - G)
    BY <1>9, <2>3, <2>4, <2>5, <2>6, CongSum
  <2>8. Cong((((T - F) + u) - G) + v, ((T - amount) - G) + (G + amount))
    BY <1>3, <2>3, <2>4, <2>7, CongSum
  <2>9. ((T - amount) - G) + (G + amount) = T + 0
    BY <1>1, <1>9
  <2>10. Cong(Total(d), Total(b) + 0)
    BY <1>9, <2>2, <2>8, <2>9
  <2>11. QED  BY <1>6, <1>7, <1>8, <1>11, <2>10 DEF IsTransferred
<1>12. QED  BY <1>10, <1>11
-----------------------------------------------------------------------------
(***************************************************************************)
(* Without debt, and while the money fits in an int, nothing wraps.        *)
(***************************************************************************)
NoDebt(b) == \A a \in DOMAIN b : b[a] >= 0

\* No account holds more than the total, and neither do two of them.
LEMMA HeldBounds ==
  ASSUME NEW b, IsMap(b), NoDebt(b)
  PROVE  /\ Total(b) \in Nat
         /\ \A a : Held(b, a) \in Nat /\ Held(b, a) <= Total(b)
         /\ \A a, c : a # c => Held(b, a) + Held(b, c) <= Total(b)
<1>1. IsFiniteSet(DOMAIN b) /\ \A a \in DOMAIN b : b[a] \in Nat
  BY CountOfInts DEF IsMap, NoDebt
<1>2. /\ Total(b) \in Nat
      /\ \A a \in DOMAIN b : b[a] <= Total(b)
      /\ \A a, c \in DOMAIN b : a # c => b[a] + b[c] <= Total(b)
  BY <1>1, SumOfNaturals DEF Total, SumFunction
<1>3. \A a : Held(b, a) \in Nat /\ Held(b, a) <= Total(b)
  BY <1>1, <1>2 DEF Held
<1>4. ASSUME NEW a, NEW c, a # c  PROVE Held(b, a) + Held(b, c) <= Total(b)
  <2>1. CASE a \in DOMAIN b /\ c \in DOMAIN b
    BY <1>2, <1>4, <2>1 DEF Held
  <2>2. CASE a \notin DOMAIN b
    <3>1. Held(b, a) = 0
      BY <2>2 DEF Held
    <3>2. QED  BY <1>3, <3>1
  <2>3. CASE c \notin DOMAIN b
    <3>1. Held(b, c) = 0
      BY <2>3 DEF Held
    <3>2. QED  BY <1>3, <3>1
  <2>4. QED  BY <2>1, <2>2, <2>3
<1>5. QED  BY <1>2, <1>3, <1>4

\* A deposit that fits in an int adds its amount to the total.
LEMMA DepositExact ==
  ASSUME NEW b, IsMap(b), NoDebt(b), NEW a, NEW amount \in GoInt,
         amount >= 0, Total(b) + amount <= MaxInt
  PROVE  /\ NoDebt(Deposit(b, a, amount))
         /\ Total(Deposit(b, a, amount)) = Total(b) + amount
<1> DEFINE v == Credited(b, a, amount)
           c == Assigned(b, a, v)
<1>1. /\ Held(b, a) \in Nat /\ Total(b) \in Nat /\ Held(b, a) <= Total(b)
      /\ amount \in Nat /\ MaxInt \in Nat
  BY HeldBounds, CountOfInts
<1>2. Held(b, a) + amount \in Int /\ -MaxInt - 1 <= Held(b, a) + amount
      /\ Held(b, a) + amount <= MaxInt
  BY <1>1
<1>3. Held(b, a) + amount \in GoInt
  BY <1>2, CountOfInts
<1>4. v = Held(b, a) + amount
  BY <1>3, CreditedInt
<1>5. v \in GoInt
  BY CreditedInt
<1>6. IsAssigned(c, b, a, v)
  BY <1>5, AssignedMap
<1>7. /\ DOMAIN c = DOMAIN b \cup {a}
      /\ \A x \in DOMAIN b \cup {a} : c[x] = IF x = a THEN v ELSE b[x]
      /\ Total(c) = (Total(b) - Held(b, a)) + v
  BY <1>6 DEF IsAssigned
<1>8. Deposit(b, a, amount) = c
  BY DEF Deposit
<1> HIDE DEF v, c
<1>9. Total(c) = Total(b) + amount
  BY <1>1, <1>4, <1>7
<1>10. NoDebt(c)
  BY <1>1, <1>4, <1>7 DEF NoDebt
<1>11. QED  BY <1>8, <1>9, <1>10

\* A transfer that the source can pay moves its amount, and one to the same
\* account adds it.
LEMMA TransferExact ==
  ASSUME NEW b, IsMap(b), NoDebt(b), NEW from \in DOMAIN b, NEW to, NEW amount \in GoInt,
         amount >= 0, EnoughFunds(b, from, amount),
         Total(b) + (IF from = to THEN amount ELSE 0) <= MaxInt
  PROVE  /\ NoDebt(Transfer(b, from, to, amount))
         /\ Total(Transfer(b, from, to, amount)) =
              Total(b) + (IF from = to THEN amount ELSE 0)
<1> DEFINE u == Wrap(b[from] - amount)
           v == Credited(b, to, amount)
           c == Assigned(b, from, u)
           d == Assigned(c, to, v)
<1>1. PICK T \in Nat, F \in Nat, G \in Nat : T = Total(b) /\ F = Held(b, from) /\ G = Held(b, to)
  BY HeldBounds
<1>2. /\ amount \in Nat /\ MaxInt \in Nat /\ F <= T /\ G <= T
      /\ from # to => F + G <= T
      /\ b[from] = F
      /\ T <= MaxInt /\ (from = to => T + amount <= MaxInt)
      /\ amount <= MaxInt
  BY <1>1, HeldBounds, CountOfInts DEF Held
<1>3. u = F - amount /\ amount <= F /\ u \in GoInt
  <2>1. F - amount \in Int /\ -MaxInt - 1 <= F - amount /\ F - amount <= MaxInt
    BY <1>2
  <2>2. F - amount \in GoInt
    BY <2>1, CountOfInts
  <2>3. u = F - amount
    BY <1>2, <2>1, <2>2, WrapInt
  <2>4. F - amount >= 0
    BY <1>2, <2>3 DEF EnoughFunds
  <2>5. QED  BY <1>2, <2>2, <2>3, <2>4
<1>4. v = G + amount /\ v \in GoInt
  <2>1. G + amount <= MaxInt
    BY <1>1, <1>2, <1>3
  <2>2. G + amount \in Int /\ -MaxInt - 1 <= G + amount
    BY <1>2
  <2>3. G + amount \in GoInt
    BY <2>1, <2>2, CountOfInts
  <2>4. QED  BY <1>1, <2>3, CreditedInt
<1>5. /\ IsMap(c)
      /\ DOMAIN c = DOMAIN b
      /\ \A x \in DOMAIN b : c[x] = IF x = from THEN u ELSE b[x]
      /\ Total(c) = (T - F) + u
  <2>1. DOMAIN b \cup {from} = DOMAIN b
    OBVIOUS
  <2> HIDE DEF u
  <2>2. u \in GoInt
    BY <1>3
  <2>3. IsAssigned(c, b, from, u)
    BY <2>2, AssignedMap
  <2> HIDE DEF c
  <2>4. QED  BY <1>1, <2>1, <2>3 DEF IsAssigned
<1>6. /\ DOMAIN d = DOMAIN b \cup {to}
      /\ \A x \in DOMAIN b \cup {to} : d[x] = IF x = to THEN v ELSE c[x]
      /\ Total(d) = (Total(c) - Held(c, to)) + v
  <2> HIDE DEF v, c
  <2>1. IsMap(c) /\ v \in GoInt
    BY <1>4, <1>5
  <2>2. IsAssigned(d, c, to, v)
    BY <2>1, AssignedMap
  <2> HIDE DEF d
  <2>3. QED  BY <1>5, <2>2 DEF IsAssigned
<1>7. Transfer(b, from, to, amount) = d
  BY DEF Transfer
<1> HIDE DEF u, v, c, d
<1>8. \A x \in DOMAIN b \cup {to} : d[x] >= 0
  <2>1. u >= 0 /\ v >= 0
    BY <1>1, <1>2, <1>3, <1>4
  <2>2. \A x \in DOMAIN b : c[x] >= 0
    BY <1>5, <2>1 DEF NoDebt
  <2>3. QED  BY <1>6, <2>1, <2>2
<1>9. Total(d) = T + (IF from = to THEN amount ELSE 0)
  <2>1. CASE from = to
    <3>1. Held(c, to) = u
      BY <1>5, <2>1 DEF Held
    <3>2. Total(d) = (((T - F) + u) - u) + v
      BY <1>5, <1>6, <3>1
    <3>3. F = G
      BY <1>1, <2>1
    <3>4. (((T - F) + u) - u) + v = T + amount
      BY <1>1, <1>2, <1>3, <1>4, <3>3
    <3>5. QED  BY <2>1, <3>2, <3>4
  <2>2. CASE from # to
    <3>1. Held(c, to) = G
      BY <1>1, <1>5, <2>2 DEF Held
    <3>2. Total(d) = (((T - F) + u) - G) + v
      BY <1>5, <1>6, <3>1
    <3>3. (((T - F) + u) - G) + v = T
      BY <1>1, <1>2, <1>3, <1>4
    <3>4. QED  BY <1>1, <2>2, <3>2, <3>3
  <2>3. QED  BY <2>1, <2>2
<1>10. QED  BY <1>1, <1>6, <1>7, <1>8, <1>9 DEF NoDebt
-----------------------------------------------------------------------------
(***************************************************************************)
(* The handlers.  An event touches accounts, and changes what each of them *)
(* holds by an amount that does not depend on the accounts.                *)
(***************************************************************************)
Touched(f) == IF IsDeposit(f) THEN {DepositOf(f).account}
                              ELSE {TransferOf(f).from, TransferOf(f).to}

Delta(f, a) ==
  IF IsDeposit(f) THEN IF a = DepositOf(f).account THEN DepositOf(f).amount ELSE 0
  ELSE IF a = TransferOf(f).to THEN TransferOf(f).amount
  ELSE IF a = TransferOf(f).from THEN -TransferOf(f).amount ELSE 0

\* What a successful event f makes of the map b.
IsResult(c, b, f) ==
  /\ IsMap(c)
  /\ DOMAIN c = DOMAIN b \cup Touched(f)
  /\ \A a : Cong(Held(c, a), Held(b, a) + Delta(f, a))
  /\ Cong(Total(c), Total(b) + Money(f))
  /\ NoDebt(b) /\ Total(b) + Money(f) <= MaxInt
       => NoDebt(c) /\ Total(c) = Total(b) + Money(f)

\* The amounts of an event are ints.
LEMMA EventAmounts ==
  ASSUME NEW f, IsEvent(f)
  PROVE  /\ IsDeposit(f) => DepositOf(f).amount \in GoInt
         /\ ~IsDeposit(f) => IsTransfer(f) /\ TransferOf(f).amount \in GoInt
         /\ Money(f) \in Int
         /\ \A a : Delta(f, a) \in Int /\ (a \notin Touched(f) => Delta(f, a) = 0)
<1>1. IsDeposit(f) => DepositOf(f).amount \in GoInt
  BY AtoiAssumption DEF IsDeposit, DepositOf
<1>2. ~IsDeposit(f) => IsTransfer(f) /\ TransferOf(f).amount \in GoInt
  BY AtoiAssumption DEF IsEvent, IsTransfer, TransferOf
<1>0. \A x \in GoInt : x \in Int /\ -x \in Int
  BY CountOfInts
<1>3. Money(f) \in Int
  BY <1>0, <1>1, <1>2 DEF Money
<1>4. ASSUME NEW a  PROVE Delta(f, a) \in Int /\ (a \notin Touched(f) => Delta(f, a) = 0)
  <2>1. CASE IsDeposit(f)
    BY <1>0, <1>1, <2>1 DEF Delta, Touched
  <2>2. CASE ~IsDeposit(f)
    <3>1. TransferOf(f).amount \in Int /\ -TransferOf(f).amount \in Int
      BY <1>0, <1>2, <2>2
    <3>2. QED  BY <2>2, <3>1 DEF Delta, Touched
  <2>3. QED  BY <2>1, <2>2
<1>5. QED  BY <1>1, <1>2, <1>3, <1>4

\* What a handler that returns no error has done.
LEMMA ResultStep ==
  ASSUME NEW b, IsMap(b), NEW f, IsEvent(f), Succeeds(b, f)
  PROVE  IsResult(Result(b, f), b, f) /\ Money(f) \in Nat
<1>0. \A x \in GoInt : x >= 0 => x \in Nat
  BY CountOfInts
<1>1. CASE IsDeposit(f)
  <2> DEFINE account == DepositOf(f).account
             amount == DepositOf(f).amount
             c == Deposit(b, account, amount)
  <2>1. amount \in GoInt /\ amount >= 0 /\ amount \in Nat
    <3>1. amount \in GoInt
      BY <1>1, EventAmounts
    <3>2. amount >= 0
      BY <1>1 DEF Succeeds, Deposits
    <3>3. QED  BY <1>0, <3>1, <3>2
  <2>2. /\ Result(b, f) = c /\ Touched(f) = {account} /\ Money(f) = amount
        /\ \A a : Delta(f, a) = IF a = account THEN amount ELSE 0
    BY <1>1 DEF Result, Touched, Money, Delta
  <2> HIDE DEF account, amount
  <2>3. /\ IsMap(c) /\ DOMAIN c = DOMAIN b \cup {account}
        /\ \A x : Cong(Held(c, x), Held(b, x) + (IF x = account THEN amount ELSE 0))
        /\ Cong(Total(c), Total(b) + amount)
    BY <2>1, DepositStep
  <2>4. NoDebt(b) /\ Total(b) + amount <= MaxInt
          => NoDebt(c) /\ Total(c) = Total(b) + amount
    BY <2>1, DepositExact
  <2> HIDE DEF c
  <2>5. \A a : Cong(Held(c, a), Held(b, a) + Delta(f, a))
    BY <2>2, <2>3
  <2>6. IsResult(c, b, f)
    BY <2>2, <2>3, <2>4, <2>5 DEF IsResult
  <2>7. QED  BY <2>1, <2>2, <2>6
<1>2. CASE ~IsDeposit(f)
  <2> DEFINE from == TransferOf(f).from
             to == TransferOf(f).to
             amount == TransferOf(f).amount
             c == Transfer(b, from, to, amount)
  <2>1. /\ amount \in GoInt /\ amount >= 0 /\ amount \in Nat
        /\ from \in DOMAIN b /\ EnoughFunds(b, from, amount)
    <3>1. amount \in GoInt
      BY <1>2, EventAmounts
    <3>2. amount >= 0 /\ from \in DOMAIN b /\ EnoughFunds(b, from, amount)
      BY <1>2 DEF Succeeds, Transfers
    <3>3. QED  BY <1>0, <3>1, <3>2
  <2>2. /\ Result(b, f) = c /\ Touched(f) = {from, to}
        /\ Money(f) = IF from = to THEN amount ELSE 0
        /\ \A a : Delta(f, a) = IF a = to THEN amount ELSE IF a = from THEN -amount ELSE 0
    BY <1>2 DEF Result, Touched, Money, Delta
  <2> HIDE DEF from, to, amount
  <2>3. /\ IsMap(c) /\ DOMAIN c = DOMAIN b \cup {to}
        /\ \A x : Cong(Held(c, x), Held(b, x) + (IF x = to THEN amount
                                                 ELSE IF x = from THEN -amount ELSE 0))
        /\ Cong(Total(c), Total(b) + (IF from = to THEN amount ELSE 0))
    <3>1. amount \in GoInt /\ from \in DOMAIN b
      BY <2>1
    <3>2. IsTransferred(c, b, from, to, amount)
      BY <3>1, TransferStep
    <3> HIDE DEF c
    <3>3. QED  BY <3>2 DEF IsTransferred
  <2>4. NoDebt(b) /\ Total(b) + (IF from = to THEN amount ELSE 0) <= MaxInt
          => NoDebt(c) /\ Total(c) = Total(b) + (IF from = to THEN amount ELSE 0)
    BY <2>1, TransferExact
  <2> HIDE DEF c
  <2>5. \A a : Cong(Held(c, a), Held(b, a) + Delta(f, a))
    BY <2>2, <2>3
  <2>6. DOMAIN c = DOMAIN b \cup Touched(f)
    BY <2>1, <2>2, <2>3
  <2>7. Cong(Total(c), Total(b) + Money(f))
    BY <2>2, <2>3
  <2>8. NoDebt(b) /\ Total(b) + Money(f) <= MaxInt
          => NoDebt(c) /\ Total(c) = Total(b) + Money(f)
    BY <2>2, <2>4
  <2>9. IsResult(c, b, f)
    BY <2>3, <2>5, <2>6, <2>7, <2>8 DEF IsResult
  <2>10. Money(f) \in Nat
    BY <2>1, <2>2
  <2>11. QED  BY <2>2, <2>9, <2>10
<1>3. QED  BY <1>1, <1>2
-----------------------------------------------------------------------------
(***************************************************************************)
(* The ledger.  A set of events says which accounts there are, what each   *)
(* of them holds and what all of them hold, each modulo the number of      *)
(* ints, and whatever the order of the events was.                         *)
(***************************************************************************)
Accounts(S) == UNION {Touched(m.fields) : m \in S}
Flow(S, a) == SumFunction([m \in S |-> Delta(m.fields, a)])
Earned(S) == SumFunction([m \in S |-> Money(m.fields)])

\* The map b is what the events of S, all of them successful, make.
LedgerOK(b, S) ==
  /\ IsMap(b)
  /\ IsFiniteSet(S)
  /\ \A m \in S : IsEvent(m.fields) /\ Money(m.fields) \in Nat
  /\ DOMAIN b = Accounts(S)
  /\ \A a : Cong(Held(b, a), Flow(S, a))
  /\ Cong(Total(b), Earned(S))
  /\ Earned(S) <= MaxInt => NoDebt(b) /\ Total(b) = Earned(S)

\* One more element adds what it maps to.
LEMMA SumOneMore ==
  ASSUME NEW g, NEW h, IsFiniteSet(DOMAIN g), NEW m, m \notin DOMAIN g,
         DOMAIN h = DOMAIN g \cup {m}, \A x \in DOMAIN g : h[x] = g[x],
         \A x \in DOMAIN h : h[x] \in Int
  PROVE  SumFunction(g) \in Int /\ SumFunction(h) = SumFunction(g) + h[m]
<1>1. IsFiniteSet(DOMAIN h) /\ DOMAIN h \ {m} = DOMAIN g /\ m \in DOMAIN h
  BY FS_AddElement
<1>2. \A x \in DOMAIN g : g[x] \in Int
  OBVIOUS
<1>3. PICK s \in Int : s = SumFunctionOnSet(g, DOMAIN g)
  BY <1>2, SumOfIntegers
<1>4. SumFunctionOnSet(h, DOMAIN g) = s
  BY <1>3, SumAgrees
<1>5. SumFunctionOnSet(h, DOMAIN h) = h[m] + SumFunctionOnSet(h, DOMAIN h \ {m})
  BY <1>1, SumOfIntegers
<1>6. SumFunctionOnSet(h, DOMAIN h) = h[m] + s /\ h[m] \in Int
  BY <1>1, <1>4, <1>5
<1>7. SumFunctionOnSet(h, DOMAIN h) = s + h[m]
  BY <1>6
<1>8. QED  BY <1>3, <1>7 DEF SumFunction

\* Without events there are no accounts.
LEMMA LedgerStart ==
  LedgerOK(NoAccounts, {})
<1>1. ASSUME NEW g, DOMAIN g = {}  PROVE SumFunction(g) = 0
  <2>1. SumFunctionOnSet(g, {}) = 0
    BY SumSteps, FS_EmptySet
  <2>2. QED  BY <1>1, <2>1 DEF SumFunction
<1>2. Earned({}) = 0 /\ \A a : Flow({}, a) = 0
  BY <1>1 DEF Earned, Flow
<1>3. IsMap(NoAccounts) /\ DOMAIN NoAccounts = {} /\ Total(NoAccounts) = 0
  BY NoAccountsMap
<1>4. Cong(0, 0)
  BY CongEquivalence
<1>5. \A a : Held(NoAccounts, a) = 0
  BY <1>3 DEF Held
<1>6. Accounts({}) = {} /\ NoDebt(NoAccounts)
  BY <1>3 DEF Accounts, NoDebt
<1>7. QED  BY <1>2, <1>3, <1>4, <1>5, <1>6, FS_EmptySet DEF LedgerOK

\* One more successful event is one more entry of the ledger.
LEMMA LedgerStep ==
  ASSUME NEW b, NEW S, LedgerOK(b, S), NEW m, m \notin S,
         IsEvent(m.fields), Succeeds(b, m.fields)
  PROVE  LedgerOK(Result(b, m.fields), S \cup {m})
<1> DEFINE f == m.fields
           c == Result(b, f)
           U == S \cup {m}
<1>1. /\ IsMap(b) /\ IsFiniteSet(S)
      /\ \A l \in S : IsEvent(l.fields) /\ Money(l.fields) \in Nat
      /\ DOMAIN b = Accounts(S)
      /\ \A a : Cong(Held(b, a), Flow(S, a))
      /\ Cong(Total(b), Earned(S))
      /\ Earned(S) <= MaxInt => NoDebt(b) /\ Total(b) = Earned(S)
  BY DEF LedgerOK
<1>2. IsResult(c, b, f) /\ Money(f) \in Nat
  BY <1>1, ResultStep
<1>3. /\ \A l \in U : IsEvent(l.fields) /\ Money(l.fields) \in Nat
      /\ IsFiniteSet(U)
  BY <1>1, <1>2, FS_AddElement
<1> HIDE DEF c
<1>4. IsMap(c) /\ DOMAIN c = DOMAIN b \cup Touched(f)
  BY <1>2 DEF IsResult
<1>5. DOMAIN c = Accounts(U)
  BY <1>1, <1>4 DEF Accounts
<1>6. ASSUME NEW a  PROVE Cong(Held(c, a), Flow(U, a))
  <2>1. /\ Flow(S, a) \in Int /\ Flow(U, a) = Flow(S, a) + Delta(f, a) /\ Delta(f, a) \in Int
    <3> DEFINE g == [l \in S |-> Delta(l.fields, a)]
               h == [l \in U |-> Delta(l.fields, a)]
    <3>1. /\ DOMAIN g = S /\ DOMAIN h = S \cup {m}
          /\ \A x \in S : h[x] = g[x]
          /\ h[m] = Delta(f, a)
      OBVIOUS
    <3>2. \A l \in U : Delta(l.fields, a) \in Int
      BY <1>3, EventAmounts
    <3>3. \A x \in DOMAIN h : h[x] \in Int
      BY <3>2
    <3>4. Flow(S, a) = SumFunction(g) /\ Flow(U, a) = SumFunction(h)
      BY DEF Flow
    <3> HIDE DEF g, h
    <3>5. SumFunction(g) \in Int /\ SumFunction(h) = SumFunction(g) + h[m]
      BY <1>1, <3>1, <3>3, SumOneMore
    <3>6. Delta(f, a) \in Int
      BY <3>2
    <3>7. QED  BY <3>1, <3>4, <3>5, <3>6
  <2>2. Held(b, a) \in Int /\ Held(c, a) \in Int
    BY <1>1, <1>4, MapTotal
  <2>3. Cong(Held(b, a), Flow(S, a)) /\ Cong(Delta(f, a), Delta(f, a))
    BY <1>1, <2>1, CongEquivalence
  <2>4. Cong(Held(b, a) + Delta(f, a), Flow(U, a))
    BY <2>1, <2>2, <2>3, CongSum
  <2>5. Cong(Held(c, a), Held(b, a) + Delta(f, a))
    BY <1>2 DEF IsResult
  <2>6. Held(b, a) + Delta(f, a) \in Int /\ Flow(U, a) \in Int
    BY <2>1, <2>2
  <2>7. QED  BY <2>2, <2>4, <2>5, <2>6, CongEquivalence
<1>7. /\ Earned(S) \in Int /\ Earned(U) = Earned(S) + Money(f) /\ Money(f) \in Int
  <2> DEFINE g == [l \in S |-> Money(l.fields)]
             h == [l \in U |-> Money(l.fields)]
  <2>1. /\ DOMAIN g = S /\ DOMAIN h = S \cup {m}
        /\ \A x \in S : h[x] = g[x]
        /\ h[m] = Money(f)
    OBVIOUS
  <2>2. \A l \in U : Money(l.fields) \in Int
    BY <1>3
  <2>3. \A x \in DOMAIN h : h[x] \in Int
    BY <2>2
  <2>4. Earned(S) = SumFunction(g) /\ Earned(U) = SumFunction(h)
    BY DEF Earned
  <2> HIDE DEF g, h
  <2>5. SumFunction(g) \in Int /\ SumFunction(h) = SumFunction(g) + h[m]
    BY <1>1, <2>1, <2>3, SumOneMore
  <2>6. Money(f) \in Int
    BY <1>2
  <2>7. QED  BY <2>1, <2>4, <2>5, <2>6
<1>8. Total(b) \in Int /\ Total(c) \in Int
  BY <1>1, <1>4, MapTotal
<1>9. Cong(Total(c), Earned(U))
  <2>1. Cong(Money(f), Money(f))
    BY <1>7, CongEquivalence
  <2>2. Cong(Total(b) + Money(f), Earned(U))
    BY <1>1, <1>7, <1>8, <2>1, CongSum
  <2>3. Cong(Total(c), Total(b) + Money(f))
    BY <1>2 DEF IsResult
  <2>4. Total(b) + Money(f) \in Int /\ Earned(U) \in Int
    BY <1>7, <1>8
  <2>5. QED  BY <1>8, <2>2, <2>3, <2>4, CongEquivalence
<1>10. ASSUME Earned(U) <= MaxInt  PROVE NoDebt(c) /\ Total(c) = Earned(U)
  <2>1. Earned(S) <= MaxInt
    BY <1>2, <1>7, <1>10, CountOfInts
  <2>2. NoDebt(b) /\ Total(b) = Earned(S)
    BY <1>1, <2>1
  <2>3. Total(b) + Money(f) = Earned(U) /\ Total(b) + Money(f) <= MaxInt
    BY <1>7, <1>10, <2>2
  <2>4. QED  BY <1>2, <2>2, <2>3 DEF IsResult
<1>11. LedgerOK(c, U)
  BY <1>3, <1>4, <1>5, <1>6, <1>9, <1>10 DEF LedgerOK
<1>12. QED  BY <1>11 DEF c

\* Two maps of one ledger are equal.
LEMMA LedgerUnique ==
  ASSUME NEW b, NEW c, NEW S, LedgerOK(b, S), LedgerOK(c, S)
  PROVE  b = c
<1>1. /\ IsMap(b) /\ IsMap(c)
      /\ DOMAIN b = Accounts(S) /\ DOMAIN c = Accounts(S) /\ IsFiniteSet(S)
      /\ \A m \in S : IsEvent(m.fields)
      /\ \A a : Cong(Held(b, a), Flow(S, a)) /\ Cong(Held(c, a), Flow(S, a))
  BY DEF LedgerOK
<1>2. ASSUME NEW a \in Accounts(S)  PROVE b[a] = c[a]
  <2>1. Held(b, a) = b[a] /\ Held(c, a) = c[a] /\ b[a] \in GoInt /\ c[a] \in GoInt
    BY <1>1 DEF Held, IsMap
  <2>2. b[a] \in Int /\ c[a] \in Int
    BY <2>1, CountOfInts
  <2>3. Flow(S, a) \in Int
    <3> DEFINE g == [m \in S |-> Delta(m.fields, a)]
    <3>1. DOMAIN g = S /\ \A x \in S : g[x] \in Int
      BY <1>1, EventAmounts
    <3>2. Flow(S, a) = SumFunctionOnSet(g, S)
      BY DEF Flow, SumFunction
    <3> HIDE DEF g
    <3>3. QED  BY <1>1, <3>1, <3>2, SumOfIntegers
  <2>4. Cong(b[a], Flow(S, a)) /\ Cong(c[a], Flow(S, a))
    BY <1>1, <2>1
  <2>5. Cong(b[a], c[a])
    <3>1. Cong(Flow(S, a), c[a])
      BY <2>2, <2>3, <2>4, CongEquivalence
    <3>2. QED  BY <2>2, <2>3, <2>4, <3>1, CongEquivalence
  <2>6. QED  BY <2>1, <2>5, CongInts
<1>3. QED  BY <1>1, <1>2 DEF IsMap
-----------------------------------------------------------------------------
(***************************************************************************)
(* The inductive invariant: types, and that each node's accounts are what  *)
(* its successful events make.                                             *)
(***************************************************************************)
EventMsg == {m \in Message : IsEvent(m.fields)}

InputOK ==
  /\ up \subseteq Node
  /\ input \in [Node -> Inputs]
  /\ read \in [Node -> Nat]
  /\ out \in [Node -> Seq(EventMsg)]
  /\ \A n \in Node : read[n] <= Len(input[n]) /\ Len(out[n]) <= Cap

DeliveryOK ==
  /\ asked \subseteq EventMsg
  /\ applied \in [Node -> Seq(Message)]
  /\ succeeded \in [Node -> SUBSET Message]
  /\ \A n \in Node : succeeded[n] \subseteq Range(applied[n])
  /\ balances = [n \in Node |-> balances[n]]

LedgersOK == \A n \in Node : LedgerOK(balances[n], succeeded[n])

IInv == InputOK /\ DeliveryOK /\ LedgersOK

\* The lines of an input, and the message of one that is an event.
LEMMA InputLines ==
  ASSUME InputOK, NEW n \in Node
  PROVE  /\ Len(input[n]) \in Nat
         /\ \A i \in 1 .. Len(input[n]) : IsEvent(input[n][i]) => Msg(n, i) \in EventMsg
<1>1. input[n] \in Inputs /\ input[n] \in Seq(Range(input[n]))
  BY InputsAssumption DEF InputOK
<1>2. Len(input[n]) \in Nat /\ \A i \in 1 .. Len(input[n]) : input[n][i] \in Range(input[n])
  BY <1>1, LenProperties, ElementOfSeq
<1>3. ASSUME NEW i \in 1 .. Len(input[n]), IsEvent(input[n][i])
      PROVE  Msg(n, i) \in EventMsg
  <2>1. input[n][i] \in UNION {Range(lines) : lines \in Inputs} /\ i \in Nat
    BY <1>1, <1>2
  <2>2. Msg(n, i) \in Message /\ Msg(n, i).fields = input[n][i]
    BY <2>1 DEF Msg, Message
  <2>3. QED  BY <1>3, <2>2 DEF EventMsg
<1>4. QED  BY <1>2, <1>3

\* What a sequence gains and loses at its ends.
LEMMA SequenceEnds ==
  ASSUME NEW T, NEW s \in Seq(T)
  PROVE  /\ Len(s) \in Nat
         /\ \A x \in T : /\ Append(s, x) \in Seq(T) /\ Len(Append(s, x)) = Len(s) + 1
                         /\ Range(Append(s, x)) = Range(s) \cup {x}
         /\ s # <<>> => Head(s) \in T /\ Tail(s) \in Seq(T) /\ Len(Tail(s)) = Len(s) - 1
<1>1. Len(s) \in Nat /\ DOMAIN s = 1 .. Len(s)
  BY LenProperties
<1>2. ASSUME NEW x \in T
      PROVE  /\ Append(s, x) \in Seq(T) /\ Len(Append(s, x)) = Len(s) + 1
             /\ Range(Append(s, x)) = Range(s) \cup {x}
  <2>1. /\ Append(s, x) \in Seq(T) /\ Len(Append(s, x)) = Len(s) + 1
        /\ \A i \in 1 .. Len(s) : Append(s, x)[i] = s[i]
        /\ Append(s, x)[Len(s) + 1] = x
    BY AppendProperties
  <2>2. DOMAIN Append(s, x) = (1 .. Len(s)) \cup {Len(s) + 1}
    BY <1>1, <2>1, LenProperties
  <2>3. QED  BY <1>1, <2>1, <2>2 DEF Range
<1>3. s # <<>> => Head(s) \in T /\ Tail(s) \in Seq(T) /\ Len(Tail(s)) = Len(s) - 1
  BY HeadTailProperties
<1>4. QED  BY <1>1, <1>2, <1>3

\* The pipeline: its channel holds events, no more than fit.
LEMMA ReadLineStep ==
  ASSUME IInv, NEW n \in Node, ReadLine(n)
  PROVE  IInv'
<1>1. InputOK /\ Len(input[n]) \in Nat /\ Len(out[n]) \in Nat /\ read[n] \in Nat /\ Cap \in Nat
  <2>1. InputOK /\ out[n] \in Seq(EventMsg) /\ read[n] \in Nat
    BY DEF IInv, InputOK
  <2>2. QED  BY <2>1, InputLines, SequenceEnds, CapAssumption
<1> DEFINE i == read[n] + 1
<1>2. i \in Nat /\ i \in 1 .. Len(input[n]) /\ i <= Len(input[n])
  BY <1>1 DEF ReadLine
<1>3. UNCHANGED <<up, input, asked, applied, succeeded, balances>>
  BY DEF ReadLine, deliveryVars
<1>4. read' = [read EXCEPT ![n] = i]
  BY DEF ReadLine, Continue
<1>5. out' \in [Node -> Seq(EventMsg)] /\ \A m \in Node : Len(out'[m]) <= Cap
  <2>1. CASE IsEvent(input[n][i])
    <3>1. Msg(n, i) \in EventMsg
      BY <1>1, <1>2, <2>1, InputLines
    <3>2. Len(out[n]) < Cap /\ out' = [out EXCEPT ![n] = Append(@, Msg(n, i))]
      BY <2>1 DEF ReadLine
    <3>3. out[n] \in Seq(EventMsg)
      BY <1>1 DEF InputOK
    <3>4. Append(out[n], Msg(n, i)) \in Seq(EventMsg) /\ Len(Append(out[n], Msg(n, i))) <= Cap
      BY <1>1, <3>1, <3>2, <3>3, SequenceEnds
    <3> HIDE DEF i
    <3>5. QED  BY <1>1, <3>2, <3>4 DEF InputOK
  <2>2. CASE ~IsEvent(input[n][i])
    <3>1. out' = out
      BY <2>2 DEF ReadLine
    <3>2. QED  BY <1>1, <3>1 DEF InputOK
  <2>3. QED  BY <2>1, <2>2
<1> HIDE DEF i
<1>6. InputOK'
  BY <1>1, <1>2, <1>3, <1>4, <1>5 DEF InputOK
<1>7. DeliveryOK' /\ LedgersOK'
  BY <1>3 DEF IInv, DeliveryOK, LedgersOK
<1>8. QED  BY <1>6, <1>7 DEF IInv

\* What is multicast is an event.
LEMMA MulticastEventStep ==
  ASSUME IInv, NEW n \in Node, MulticastEvent(n)
  PROVE  IInv'
<1>1. out[n] \in Seq(EventMsg) /\ out[n] # <<>>
  BY DEF IInv, InputOK, MulticastEvent
<1>2. /\ Head(out[n]) \in EventMsg /\ Tail(out[n]) \in Seq(EventMsg)
      /\ Len(Tail(out[n])) = Len(out[n]) - 1 /\ Len(out[n]) \in Nat
  BY <1>1, SequenceEnds
<1>3. /\ out' = [out EXCEPT ![n] = Tail(@)] /\ asked' = asked \cup {Head(out[n])}
      /\ UNCHANGED <<up, input, read, applied, succeeded, balances>>
  BY DEF MulticastEvent, deliveryVars
<1>4. Len(Tail(out[n])) <= Cap
  <2>1. Len(out[n]) <= Cap /\ Cap \in Nat
    BY CapAssumption DEF IInv, InputOK
  <2>2. QED  BY <1>2, <2>1
<1>5. InputOK'
  BY <1>2, <1>3, <1>4 DEF IInv, InputOK
<1>6. DeliveryOK' /\ LedgersOK'
  BY <1>2, <1>3 DEF IInv, DeliveryOK, LedgersOK
<1>7. QED  BY <1>5, <1>6 DEF IInv

\* A delivery adds an entry to the ledger of the node, or none.
LEMMA DeliverStep ==
  ASSUME IInv, NEW n \in Node, NEW m \in asked, Deliver(n, m)
  PROVE  IInv'
<1>1. InputOK /\ DeliveryOK /\ LedgersOK /\ m \in EventMsg /\ m \in Message /\ IsEvent(m.fields)
  BY DEF IInv, DeliveryOK, EventMsg
<1>2. m \notin Range(applied[n]) /\ succeeded[n] \subseteq Range(applied[n])
  BY <1>1 DEF Deliver, DeliveryOK
<1>3. UNCHANGED <<up, input, read, out, asked>>
  BY DEF Deliver, inputVars
<1>4. applied' = [applied EXCEPT ![n] = Append(@, m)]
  BY DEF Deliver, Process
<1>5. /\ applied' \in [Node -> Seq(Message)]
      /\ Range(applied'[n]) = Range(applied[n]) \cup {m}
      /\ \A d \in Node \ {n} : applied'[d] = applied[d]
  <2>1. applied[n] \in Seq(Message)
    BY <1>1 DEF DeliveryOK
  <2>2. Append(applied[n], m) \in Seq(Message)
        /\ Range(Append(applied[n], m)) = Range(applied[n]) \cup {m}
    BY <1>1, <2>1, SequenceEnds
  <2>3. QED  BY <1>1, <1>4, <2>2 DEF DeliveryOK
<1>6. InputOK'
  BY <1>1, <1>3 DEF InputOK
<1>7. CASE Succeeds(balances[n], m.fields)
  <2>1. /\ balances' = [balances EXCEPT ![n] = Result(@, m.fields)]
        /\ succeeded' = [succeeded EXCEPT ![n] = @ \cup {m}]
    BY <1>7 DEF Deliver, Process
  <2>2. LedgerOK(Result(balances[n], m.fields), succeeded[n] \cup {m})
    <3>1. LedgerOK(balances[n], succeeded[n])
      BY <1>1 DEF LedgersOK
    <3>2. QED  BY <1>1, <1>2, <1>7, <3>1, LedgerStep
  <2>3. /\ balances'[n] = Result(balances[n], m.fields)
        /\ succeeded'[n] = succeeded[n] \cup {m}
        /\ \A d \in Node \ {n} : balances'[d] = balances[d] /\ succeeded'[d] = succeeded[d]
        /\ balances' = [d \in Node |-> balances'[d]]
        /\ succeeded' \in [Node -> SUBSET Message]
    BY <1>1, <2>1 DEF DeliveryOK
  <2>4. LedgersOK'
    BY <1>1, <2>2, <2>3 DEF LedgersOK
  <2>5. \A d \in Node : succeeded'[d] \subseteq Range(applied'[d])
    BY <1>1, <1>5, <2>3 DEF DeliveryOK
  <2>6. DeliveryOK'
    BY <1>1, <1>3, <1>5, <2>3, <2>5 DEF DeliveryOK
  <2>7. QED  BY <1>6, <2>4, <2>6 DEF IInv
<1>8. CASE ~Succeeds(balances[n], m.fields)
  <2>1. UNCHANGED <<balances, succeeded>>
    BY <1>8 DEF Deliver, Process
  <2>2. LedgersOK'
    BY <1>1, <2>1 DEF LedgersOK
  <2>3. \A d \in Node : succeeded'[d] \subseteq Range(applied'[d])
    BY <1>1, <1>5, <2>1 DEF DeliveryOK
  <2>4. DeliveryOK'
    BY <1>1, <1>3, <1>5, <2>1, <2>3 DEF DeliveryOK
  <2>5. QED  BY <1>6, <2>2, <2>4 DEF IInv
<1>9. QED  BY <1>7, <1>8

\* A crash changes nothing else that the invariant is about.
LEMMA CrashStep ==
  ASSUME IInv, NEW n \in Node, Crash(n)
  PROVE  IInv'
<1>1. up' = up \ {n} /\ UNCHANGED <<input, read, out, asked, applied, succeeded, balances>>
  BY DEF Crash, inputVars, deliveryVars
<1>2. InputOK'
  BY <1>1 DEF IInv, InputOK
<1>3. DeliveryOK' /\ LedgersOK'
  BY <1>1 DEF IInv, DeliveryOK, LedgersOK
<1>4. QED  BY <1>2, <1>3 DEF IInv

\* The invariant holds at the start, and every step preserves it.
LEMMA IInvInductive ==
  /\ Init => IInv
  /\ IInv /\ [Next]_vars => IInv'
<1>1. ASSUME Init  PROVE IInv
  <2>1. <<>> \in Seq(EventMsg) /\ <<>> \in Seq(Message) /\ Len(<<>>) = 0
    BY EmptySeq
  <2>2. InputOK
    <3>1. ASSUME NEW n \in Node  PROVE Len(input[n]) \in Nat
      <4>1. input[n] \in Inputs
        BY <1>1 DEF Init
      <4>2. QED  BY <4>1, InputsAssumption, LenProperties
    <3>2. /\ up \subseteq Node /\ input \in [Node -> Inputs]
          /\ read = [n \in Node |-> 0] /\ out = [n \in Node |-> <<>>]
      BY <1>1 DEF Init
    <3>3. \A n \in Node : read[n] <= Len(input[n]) /\ Len(out[n]) <= Cap
      BY <2>1, <3>1, <3>2, CapAssumption
    <3>4. QED  BY <2>1, <3>2, <3>3 DEF InputOK
  <2>3. DeliveryOK
    BY <1>1, <2>1 DEF Init, DeliveryOK
  <2>4. \A n \in Node : balances[n] = NoAccounts /\ succeeded[n] = {}
    BY <1>1 DEF Init
  <2>5. LedgersOK
    BY <2>4, LedgerStart DEF LedgersOK
  <2>6. QED  BY <2>2, <2>3, <2>5 DEF IInv
<1>2. ASSUME IInv, [Next]_vars  PROVE IInv'
  <2>1. ASSUME NEW n \in Node, ReadLine(n)  PROVE IInv'
    BY <1>2, <2>1, ReadLineStep
  <2>2. ASSUME NEW n \in Node, MulticastEvent(n)  PROVE IInv'
    BY <1>2, <2>2, MulticastEventStep
  <2>3. ASSUME NEW n \in Node, DeliverAny(n)  PROVE IInv'
    BY <1>2, <2>3, DeliverStep DEF DeliverAny
  <2>4. ASSUME NEW n \in Node, Crash(n)  PROVE IInv'
    BY <1>2, <2>4, CrashStep
  <2>5. CASE UNCHANGED vars
    BY <1>2, <2>5 DEF IInv, InputOK, DeliveryOK, LedgersOK, vars, inputVars, deliveryVars
  <2>6. QED  BY <1>2, <2>1, <2>2, <2>3, <2>4, <2>5 DEF Next
<1>3. QED  BY <1>1, <1>2

\* What the runs check of the types follows from the invariant.
LEMMA IInvTypes ==
  ASSUME IInv  PROVE TypeOK
<1>1. InputOK /\ DeliveryOK /\ LedgersOK
  BY DEF IInv
<1>2. \A n \in Node : read[n] \in 0 .. Len(input[n]) /\ Len(out[n]) <= Cap
  BY <1>1, InputLines DEF InputOK
<1>3. out \in [Node -> Seq(Message)]
  <2>1. EventMsg \subseteq Message
    BY DEF EventMsg
  <2>2. Seq(EventMsg) \subseteq Seq(Message)
    <3>1. ASSUME NEW s \in Seq(EventMsg)  PROVE s \in Seq(Message)
      BY <2>1, SeqDef
    <3>2. QED  BY <3>1
  <2>3. QED  BY <1>1, <2>2 DEF InputOK
<1>4. \A n \in Node : Range(balances[n]) \subseteq GoInt
  BY <1>1 DEF LedgersOK, LedgerOK, IsMap, Range
<1>5. asked \subseteq Message /\ \A m \in asked : IsEvent(m.fields)
  BY <1>1 DEF DeliveryOK, EventMsg
<1>6. QED  BY <1>1, <1>2, <1>3, <1>4, <1>5 DEF TypeOK, InputOK, DeliveryOK

\* Balances add up to what came in.
LEMMA IInvMoney ==
  ASSUME IInv  PROVE MoneyAccounted
<1> SUFFICES ASSUME NEW n \in Node
             PROVE  /\ (Total(balances[n]) - Income(n)) % IntCount = 0
                    /\ Income(n) <= MaxInt =>
                         /\ Total(balances[n]) = Income(n)
                         /\ \A a \in DOMAIN balances[n] : balances[n][a] >= 0
  BY DEF MoneyAccounted
<1>1. Income(n) = Earned(succeeded[n])
  BY DEF Income, Earned
<1>2. LedgerOK(balances[n], succeeded[n])
  BY DEF IInv, LedgersOK
<1>3. /\ Cong(Total(balances[n]), Income(n))
      /\ Income(n) <= MaxInt => NoDebt(balances[n]) /\ Total(balances[n]) = Income(n)
      /\ Total(balances[n]) \in Int
  BY <1>1, <1>2, MapTotal DEF LedgerOK
<1>4. Income(n) \in Int
  <2>1. PICK S : S = succeeded[n]
    OBVIOUS
  <2> DEFINE g == [m \in S |-> Money(m.fields)]
  <2>2. DOMAIN g = S /\ IsFiniteSet(S) /\ \A m \in S : g[m] \in Int
    BY <1>2, <2>1 DEF LedgerOK
  <2>3. Income(n) = SumFunctionOnSet(g, S)
    BY <2>1 DEF Income, SumFunction
  <2> HIDE DEF g
  <2>4. QED  BY <2>2, <2>3, SumOfIntegers
<1>5. (Total(balances[n]) - Income(n)) % IntCount = 0
  <2>1. PICK t \in Int, i \in Int : t = Total(balances[n]) /\ i = Income(n)
    BY <1>3, <1>4
  <2>2. Cong(t, i) /\ Cong(i, i) /\ t - i \in Int /\ i - i = 0
    BY <1>3, <2>1, CongEquivalence
  <2>3. Cong(t - i, 0)
    BY <2>2, CongSum
  <2>4. 0 \in 0 .. IntCount - 1
    BY CountOfInts
  <2>5. QED  BY <2>1, <2>2, <2>3, <2>4, CongRemainder
<1>6. QED  BY <1>3, <1>5 DEF NoDebt

\* TypeOK of Replicas: variables have their types, channels hold no more than
\* they can, only events are multicast and balances are ints (event_listener.go,
\* types.go, transaction.go).
THEOREM TypeCorrect ==
  Spec => []TypeOK
BY IInvInductive, IInvTypes, PTL DEF Spec

\* MoneyAccounted: the balances of each node add up to what its successful
\* events bring in, modulo the number of ints, and exactly while that fits in an
\* int, when nobody is in debt (transaction.go:30-82).
THEOREM MoneyIsAccounted ==
  Spec => []MoneyAccounted
BY IInvInductive, IInvMoney, PTL DEF Spec

\* SameEventsSameBalances: nodes whose successful events are the same have the
\* same accounts with the same balances (processor.go:25-61).
THEOREM SameEventsHaveSameBalances ==
  Spec => []SameEventsSameBalances
<1>1. ASSUME IInv  PROVE SameEventsSameBalances
  <2>1. \A n \in Node : LedgerOK(balances[n], succeeded[n])
    BY <1>1 DEF IInv, LedgersOK
  <2>2. QED  BY <2>1, LedgerUnique DEF SameEventsSameBalances
<1>2. QED  BY <1>1, IInvInductive, PTL DEF Spec
=============================================================================
