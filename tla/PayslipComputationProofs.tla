---------------------- MODULE PayslipComputationProofs ----------------------
(***************************************************************************)
(* What Money's quantization promises, for every amount and divisor; that  *)
(* a statutory parameter has one value a day; that a rerun reproduces the  *)
(* payslip; and that a payslip pays what is owed.                          *)
(***************************************************************************)
EXTENDS PayslipComputation, FiniteSetTheorems, WellFoundedInduction, TLAPS

\* A rounded amount is the nearest whole number of cents: half a cent away
\* from the exact one at most, and upwards if it is exactly half a cent.
THEOREM RoundedIsNearest ==
  ASSUME NEW num \in Nat, NEW den \in Nat \ {0}
  PROVE  /\ Rounded(num, den) \in Nat
         /\ 2 * num - den < 2 * (Rounded(num, den) * den)
         /\ 2 * (Rounded(num, den) * den) <= 2 * num + den
<1> DEFINE a == 2 * num + den
           b == 2 * den
           q == a \div b
           r == a % b
<1>1. a \in Nat /\ b \in Nat \ {0}
  OBVIOUS
<1> HIDE DEF a, b
<1>2. q \in Int /\ r \in 0 .. (b - 1) /\ a = b * q + r
  BY <1>1
<1>3. q \in Nat
  BY <1>1
<1>4. Rounded(num, den) = q
  BY DEF Rounded, a, b
<1>5. b * q = 2 * (q * den)
  BY <1>3 DEF b
<1> HIDE DEF q, r
<1>6. b * q <= a /\ a < b * q + b
  BY <1>1, <1>2
<1> QED
  BY <1>3, <1>4, <1>5, <1>6 DEF a, b

\* A tax rate of at most one never takes more than the gross, however it rounds.
THEOREM TaxWithinGross ==
  ASSUME NEW gross \in Nat, NEW num \in Nat, NEW den \in Nat \ {0}, num <= den
  PROVE  Times(gross, [num |-> num, den |-> den]) <= gross
<1> DEFINE tax == Rounded(gross * num, den)
<1>1. gross * num \in Nat /\ gross * num <= gross * den
  OBVIOUS
<1>2. tax \in Nat /\ 2 * (tax * den) <= 2 * (gross * num) + den
  BY <1>1, RoundedIsNearest
<1> HIDE DEF tax
<1>3. 2 * (tax * den) < 2 * ((gross + 1) * den)
  BY <1>1, <1>2
<1>4. tax < gross + 1
  BY <1>2, <1>3
<1> QED
  BY <1>2, <1>4 DEF Times, tax

-----------------------------------------------------------------------------
(* Sums and products over finite sets.  Induction over a finite set is by   *)
(* the smallest set that would be an exception: see SmallestSet.            *)

Picked(S) == CHOOSE x \in S : TRUE
Others(S) == S \ {Picked(S)}

\* The two operations that are folded, and what they give of no numbers.
Joined(op, a, b) == IF op = "sum" THEN a + b ELSE a * b
Unit(op) == IF op = "sum" THEN 0 ELSE 1

\* fold is the recursive function that folds f over the subsets of S, as
\* MapThenSumSet and ProductSet do.
IsFold(op, f, fold, S) ==
  fold = [s \in SUBSET S |->
            IF s = {} THEN Unit(op) ELSE Joined(op, f[Picked(s)], fold[Others(s)])]

Folded(op, f, S) == (CHOOSE fold : IsFold(op, f, fold, S))[S]

\* Induction over finite sets: of some of them, one is smallest.
LEMMA SmallestSet ==
  ASSUME NEW F, F # {}, \A s \in F : IsFiniteSet(s)
  PROVE  \E s \in F : \A r \in F : r \subseteq s => r = s
<1> DEFINE T == {Cardinality(s) : s \in F}
<1>1. T \subseteq Nat /\ T # {}
  BY FS_CardinalityType
<1>2. PICK n \in T : \A m \in T : <<m, n>> \notin OpToRel(<, Nat)
  BY <1>1, WFMin, NatLessThanWellFounded
<1>3. \A m \in T : ~(m < n)
  BY <1>1, <1>2 DEF OpToRel
<1>4. PICK s \in F : n = Cardinality(s)
  BY <1>2
<1>5. ASSUME NEW r \in F, r \subseteq s, r # s PROVE FALSE
  <2>1. Cardinality(r) < Cardinality(s)
    BY <1>5, FS_Subset, FS_CardinalityType
  <2> QED
    BY <1>3, <1>4, <2>1
<1> QED
  BY <1>5

\* A set that is not empty has an element to pick, and fewer others.
LEMMA OthersAreFewer ==
  ASSUME NEW s, s # {}
  PROVE  Picked(s) \in s /\ Others(s) \subseteq s /\ Others(s) # s
BY DEF Picked, Others

\* The function is the same on the sets that two such domains share.
LEMMA FoldsAgree ==
  ASSUME NEW op, NEW f, NEW S, IsFiniteSet(S), NEW R \in SUBSET S,
         NEW a, IsFold(op, f, a, S), NEW b, IsFold(op, f, b, R)
  PROVE  \A s \in SUBSET R : a[s] = b[s]
<1> DEFINE F == {s \in SUBSET R : a[s] # b[s]}
<1>1. SUFFICES ASSUME F # {} PROVE FALSE
  OBVIOUS
<1>2. \A s \in F : IsFiniteSet(s)
  BY FS_Subset
<1>3. PICK s \in F : \A r \in F : r \subseteq s => r = s
  <2> HIDE DEF F
  <2> QED
    BY <1>1, <1>2, SmallestSet
<1>4. s \in SUBSET R /\ s \in SUBSET S /\ a[s] # b[s]
  OBVIOUS
<1>5. /\ a[s] = IF s = {} THEN Unit(op) ELSE Joined(op, f[Picked(s)], a[Others(s)])
      /\ b[s] = IF s = {} THEN Unit(op) ELSE Joined(op, f[Picked(s)], b[Others(s)])
  BY <1>4 DEF IsFold
<1>6. s # {}
  BY <1>4, <1>5
<1>7. Others(s) \in SUBSET R /\ Others(s) \notin F
  BY <1>3, <1>4, <1>6, OthersAreFewer
<1>8. a[Others(s)] = b[Others(s)]
  BY <1>7
<1> QED
  BY <1>4, <1>5, <1>6, <1>8

\* There is such a function for every finite set.
LEMMA FoldsExist ==
  ASSUME NEW op, NEW f, NEW S, IsFiniteSet(S)
  PROVE  \E fold : IsFold(op, f, fold, S)
<1> DEFINE F == {s \in SUBSET S : ~ \E fold : IsFold(op, f, fold, s)}
<1>1. SUFFICES ASSUME F # {} PROVE FALSE
  BY DEF F
<1>2. \A s \in F : IsFiniteSet(s)
  BY FS_Subset
<1>3. PICK s \in F : \A r \in F : r \subseteq s => r = s
  <2> HIDE DEF F
  <2> QED
    BY <1>1, <1>2, SmallestSet
<1>4. s \in SUBSET S /\ IsFiniteSet(s) /\ ~ \E fold : IsFold(op, f, fold, s)
  BY <1>2
<1> DEFINE foldOf(r) == CHOOSE fold : IsFold(op, f, fold, r)
           part(r) == foldOf(r)[r]
           joined(r) == IF r = {} THEN Unit(op)
                        ELSE Joined(op, f[Picked(r)], part(Others(r)))
<1>5. ASSUME NEW r \in SUBSET s, r # s
      PROVE  IsFold(op, f, foldOf(r), r)
  <2>1. r \in SUBSET S /\ r \notin F
    BY <1>3, <1>4, <1>5
  <2>2. \E fold : IsFold(op, f, fold, r)
    BY <2>1
  <2> QED
    BY <2>2
<1> HIDE DEF foldOf, F
<1>6. ASSUME NEW r \in SUBSET s, r # s
      PROVE  part(r) = joined(r)
  <2>1. IsFold(op, f, foldOf(r), r)
    BY <1>5, <1>6
  <2>2. part(r) = IF r = {} THEN Unit(op)
                  ELSE Joined(op, f[Picked(r)], foldOf(r)[Others(r)])
    BY <2>1 DEF IsFold
  <2>3. ASSUME r # {} PROVE foldOf(r)[Others(r)] = foldOf(Others(r))[Others(r)]
    <3>1. Others(r) \in SUBSET r /\ Others(r) \in SUBSET s /\ Others(r) # s
      BY <1>6, <2>3, OthersAreFewer
    <3>2. IsFold(op, f, foldOf(Others(r)), Others(r))
      BY <1>5, <3>1
    <3>3. IsFiniteSet(r)
      BY <1>4, FS_Subset
    <3> QED
      BY <2>1, <3>1, <3>2, <3>3, FoldsAgree
  <2> QED
    BY <2>2, <2>3
<1> DEFINE whole == [r \in SUBSET s |-> joined(r)]
<1>7. ASSUME NEW r \in SUBSET s, r # {}
      PROVE  whole[Others(r)] = part(Others(r))
  <2>1. Others(r) \in SUBSET s /\ Others(r) # s
    BY <1>7, OthersAreFewer
  <2> HIDE DEF part, joined
  <2> QED
    BY <1>6, <2>1
<1>8. IsFold(op, f, whole, s)
  <2>1. whole = [r \in SUBSET s |-> IF r = {} THEN Unit(op)
                                    ELSE Joined(op, f[Picked(r)], whole[Others(r)])]
    <3> HIDE DEF part
    <3> QED
      BY <1>7
  <2> HIDE DEF whole
  <2> QED
    BY <2>1 DEF IsFold
<1> QED
  BY <1>4, <1>8

\* A fold joins the picked value and the fold of the others.
LEMMA FoldStep ==
  ASSUME NEW op, NEW f, NEW S, IsFiniteSet(S)
  PROVE  Folded(op, f, S) = IF S = {} THEN Unit(op)
                            ELSE Joined(op, f[Picked(S)], Folded(op, f, Others(S)))
<1> DEFINE foldOf(r) == CHOOSE fold : IsFold(op, f, fold, r)
<1>1. \A r : IsFiniteSet(r) => IsFold(op, f, foldOf(r), r)
  BY FoldsExist
<1>2. \A r : Folded(op, f, r) = foldOf(r)[r]
  BY DEF Folded
<1> HIDE DEF foldOf
<1>3. IsFold(op, f, foldOf(S), S)
  BY <1>1
<1>4. foldOf(S)[S] = IF S = {} THEN Unit(op)
                     ELSE Joined(op, f[Picked(S)], foldOf(S)[Others(S)])
  BY <1>3 DEF IsFold
<1>5. ASSUME S # {} PROVE foldOf(S)[Others(S)] = foldOf(Others(S))[Others(S)]
  <2>1. Others(S) \in SUBSET S /\ IsFiniteSet(Others(S))
    BY <1>5, OthersAreFewer, FS_Subset
  <2> QED
    BY <1>1, <1>3, <2>1, FoldsAgree
<1> QED
  BY <1>2, <1>4, <1>5

\* What a fold gives of integers is one, and of naturals that are not zero too.
LEMMA FoldIsNumber ==
  ASSUME NEW op, NEW f, NEW S, IsFiniteSet(S),
         NEW N \in {Int, Nat, Nat \ {0}}, Unit(op) \in N, \A x \in S : f[x] \in N
  PROVE  Folded(op, f, S) \in N
<1> DEFINE F == {s \in SUBSET S : Folded(op, f, s) \notin N}
<1>1. SUFFICES ASSUME F # {} PROVE FALSE
  OBVIOUS
<1>2. \A s \in F : IsFiniteSet(s)
  BY FS_Subset
<1>3. PICK s \in F : \A r \in F : r \subseteq s => r = s
  <2> HIDE DEF F
  <2> QED
    BY <1>1, <1>2, SmallestSet
<1>4. Folded(op, f, s) = IF s = {} THEN Unit(op)
                         ELSE Joined(op, f[Picked(s)], Folded(op, f, Others(s)))
  BY <1>2, FoldStep
<1>5. CASE s = {}
  BY <1>4, <1>5
<1>6. CASE s # {}
  <2>1. Picked(s) \in S /\ Others(s) \in SUBSET S /\ Others(s) \notin F
    BY <1>3, <1>6, OthersAreFewer
  <2>2. f[Picked(s)] \in N /\ Folded(op, f, Others(s)) \in N
    BY <2>1
  <2>3. \A a, b \in N : Joined(op, a, b) \in N
    <3>1. CASE N = Int
      BY <3>1 DEF Joined
    <3>2. CASE N = Nat
      BY <3>2 DEF Joined
    <3>3. CASE N = Nat \ {0}
      BY <3>3 DEF Joined
    <3> QED
      BY <3>1, <3>2, <3>3
  <2>4. Folded(op, f, s) \in N
    BY <1>4, <1>6, <2>2, <2>3
  <2> QED
    BY <2>4
<1> QED
  BY <1>5, <1>6

\* It does not depend on the order in which the numbers are joined.
LEMMA FoldWithout ==
  ASSUME NEW op, NEW f, NEW S, IsFiniteSet(S), \A x \in S : f[x] \in Int, NEW z \in S
  PROVE  Folded(op, f, S) = Joined(op, f[z], Folded(op, f, S \ {z}))
<1> DEFINE Wrong(s, x) == Folded(op, f, s) # Joined(op, f[x], Folded(op, f, s \ {x}))
           F == {s \in SUBSET S : \E x \in s : Wrong(s, x)}
<1>1. SUFFICES ASSUME F # {} PROVE FALSE
  OBVIOUS
<1>2. \A s \in SUBSET S : IsFiniteSet(s) /\ Folded(op, f, s) \in Int
  <2> SUFFICES ASSUME NEW s \in SUBSET S PROVE IsFiniteSet(s) /\ Folded(op, f, s) \in Int
    OBVIOUS
  <2>1. IsFiniteSet(s)
    BY FS_Subset
  <2>2. Unit(op) \in Int
    BY DEF Unit
  <2> QED
    BY <2>1, <2>2, FoldIsNumber
<1>3. PICK s \in F : \A r \in F : r \subseteq s => r = s
  <2>1. \A s \in F : IsFiniteSet(s)
    BY <1>2
  <2> HIDE DEF F
  <2> QED
    BY <1>1, <2>1, SmallestSet
<1>4. PICK x \in s : Wrong(s, x)
  OBVIOUS
<1> DEFINE y == Picked(s)
           r == s \ {y}
           t == s \ {x}
<1>5. s \in SUBSET S /\ s # {} /\ y \in s
  BY <1>4, OthersAreFewer
<1>6. Folded(op, f, s) = Joined(op, f[y], Folded(op, f, r))
  BY <1>2, <1>5, FoldStep DEF Others
<1>7. x # y
  BY <1>4, <1>6
<1>8. ASSUME NEW p \in SUBSET s, p # s, NEW w \in p
      PROVE  Folded(op, f, p) = Joined(op, f[w], Folded(op, f, p \ {w}))
  <2>1. p \notin F /\ p \in SUBSET S
    BY <1>3, <1>5, <1>8
  <2> QED
    BY <1>8, <2>1
<1> HIDE DEF F
<1>9. Folded(op, f, r) = Joined(op, f[x], Folded(op, f, r \ {x}))
  BY <1>4, <1>5, <1>7, <1>8
<1>10. Folded(op, f, t) = Joined(op, f[y], Folded(op, f, t \ {y}))
  BY <1>4, <1>5, <1>7, <1>8
<1>11. r \ {x} = t \ {y}
  OBVIOUS
<1>12. f[x] \in Int /\ f[y] \in Int /\ Folded(op, f, r \ {x}) \in Int
  <2>1. x \in S /\ y \in S /\ r \ {x} \in SUBSET S
    BY <1>4, <1>5
  <2> QED
    BY <1>2, <2>1
<1>13. Folded(op, f, s) = Joined(op, f[x], Folded(op, f, t))
  <2>1. \A a, b, c \in Int : Joined(op, a, Joined(op, b, c)) = Joined(op, b, Joined(op, a, c))
    <3>1. \A a, b, c \in Int : a + (b + c) = b + (a + c)
      OBVIOUS
    <3>2. \A a, b, c \in Int : a * (b * c) = b * (a * c)
      OBVIOUS
    <3> QED
      BY <3>1, <3>2 DEF Joined
  <2>2. Joined(op, f[y], Joined(op, f[x], Folded(op, f, r \ {x})))
          = Joined(op, f[x], Joined(op, f[y], Folded(op, f, r \ {x})))
    BY <1>12, <2>1
  <2>3. Folded(op, f, s) = Joined(op, f[y], Joined(op, f[x], Folded(op, f, r \ {x})))
    BY <1>6, <1>9
  <2>4. Folded(op, f, t) = Joined(op, f[y], Folded(op, f, r \ {x}))
    BY <1>10, <1>11
  <2> QED
    BY <2>2, <2>3, <2>4
<1> QED
  BY <1>4, <1>13

Sum(f, S) == Folded("sum", f, S)

LEMMA SumIsInteger ==
  ASSUME NEW f, NEW S, IsFiniteSet(S), \A x \in S : f[x] \in Int
  PROVE  Sum(f, S) \in Int
BY FoldIsNumber DEF Sum, Unit

LEMMA SumWithout ==
  ASSUME NEW f, NEW S, IsFiniteSet(S), \A x \in S : f[x] \in Int, NEW z \in S
  PROVE  Sum(f, S) = f[z] + Sum(f, S \ {z})
BY FoldWithout DEF Sum, Joined

\* Of nothing the sum is zero, and a new element adds its value.
LEMMA SumBegins == \A f : Sum(f, {}) = 0
BY FoldStep, FS_EmptySet DEF Sum, Unit

LEMMA SumAdds ==
  ASSUME NEW f, NEW S, IsFiniteSet(S), NEW z, z \notin S, \A x \in S \cup {z} : f[x] \in Int
  PROVE  Sum(f, S \cup {z}) = f[z] + Sum(f, S)
<1>1. IsFiniteSet(S \cup {z}) /\ (S \cup {z}) \ {z} = S
  BY FS_AddElement
<1> QED
  BY <1>1, SumWithout

-----------------------------------------------------------------------------
(* Amounts of lines *)

\* What a set of records amounts to.
AmountOf(S) == MapThenSumSet(Amount, S)

Amounts(S) == [x \in S |-> x.amount]
HaveAmounts(S) == IsFiniteSet(S) /\ \A x \in S : x.amount \in Nat

LEMMA AmountIsSum ==
  ASSUME NEW S, IsFiniteSet(S)
  PROVE  AmountOf(S) = Sum(Amounts(S), S)
<1> DEFINE Recursive(sum) ==
             sum = [s \in SUBSET S |->
                      IF s = {} THEN 0 ELSE Amount(Picked(s)) + sum[Others(s)]]
<1>1. AmountOf(S) = (CHOOSE sum : Recursive(sum))[S]
  BY DEF AmountOf, MapThenSumSet, MapThenFoldSet, Picked, Others
<1>2. ASSUME NEW sum PROVE Recursive(sum) <=> IsFold("sum", Amounts(S), sum, S)
  <2>1. ASSUME NEW s \in SUBSET S, s # {}
        PROVE  Amounts(S)[Picked(s)] = Amount(Picked(s))
    BY <2>1, OthersAreFewer DEF Amounts, Amount
  <2> QED
    BY <2>1 DEF IsFold, Unit, Joined
<1> HIDE DEF Recursive
<1>3. (CHOOSE sum : Recursive(sum)) = (CHOOSE sum : IsFold("sum", Amounts(S), sum, S))
  BY <1>2
<1> QED
  BY <1>1, <1>3 DEF Sum, Folded

\* A function has finitely many values on a finite set.
LEMMA FiniteValues ==
  ASSUME NEW f, NEW S, IsFiniteSet(S)
  PROVE  IsFiniteSet({f[x] : x \in S})
<1> DEFINE T == {f[x] : x \in S}
           g == [x \in S |-> f[x]]
<1>1. g \in Surjection(S, T)
  BY DEF Surjection
<1> QED
  BY <1>1, FS_Surjection

\* Sums of the same values over parts of one set.
LEMMA SumSame ==
  ASSUME NEW f, NEW g, NEW S, IsFiniteSet(S), \A x \in S : f[x] = g[x]
  PROVE  Sum(f, S) = Sum(g, S)
<1> DEFINE F == {s \in SUBSET S : Sum(f, s) # Sum(g, s)}
<1>1. SUFFICES ASSUME F # {} PROVE FALSE
  OBVIOUS
<1>2. \A s \in F : IsFiniteSet(s)
  BY FS_Subset
<1>3. PICK s \in F : \A r \in F : r \subseteq s => r = s
  <2> HIDE DEF F
  <2> QED
    BY <1>1, <1>2, SmallestSet
<1>4. /\ Sum(f, s) = IF s = {} THEN 0 ELSE f[Picked(s)] + Sum(f, Others(s))
      /\ Sum(g, s) = IF s = {} THEN 0 ELSE g[Picked(s)] + Sum(g, Others(s))
  BY <1>2, FoldStep DEF Sum, Unit, Joined
<1>5. s # {}
  BY <1>4
<1>6. Picked(s) \in S /\ Others(s) \in SUBSET S /\ Others(s) \notin F
  BY <1>3, <1>5, OthersAreFewer
<1> QED
  BY <1>4, <1>5, <1>6

LEMMA AmountIsNatural ==
  ASSUME NEW S, HaveAmounts(S)
  PROVE  AmountOf(S) \in Nat
<1>1. \A x \in S : Amounts(S)[x] \in Nat
  BY DEF Amounts, HaveAmounts
<1> QED
  BY <1>1, AmountIsSum, FoldIsNumber DEF HaveAmounts, Sum, Unit

\* Nothing amounts to nothing, and a new record adds its amount.
LEMMA AmountBegins == AmountOf({}) = 0
BY AmountIsSum, SumBegins, FS_EmptySet

LEMMA AmountAdds ==
  ASSUME NEW S, NEW x, HaveAmounts(S \cup {x}), x \notin S
  PROVE  AmountOf(S \cup {x}) = x.amount + AmountOf(S)
<1> DEFINE T == S \cup {x}
<1>1. IsFiniteSet(S) /\ IsFiniteSet(T) /\ S = T \ {x} /\ x \in T
  BY FS_Subset DEF HaveAmounts
<1>2. \A y \in T : Amounts(T)[y] = y.amount /\ y.amount \in Int
  BY DEF Amounts, HaveAmounts
<1>3. \A y \in S : Amounts(S)[y] = Amounts(T)[y]
  BY DEF Amounts
<1> HIDE DEF T
<1>4. Sum(Amounts(T), T) = x.amount + Sum(Amounts(T), S)
  BY <1>1, <1>2, SumWithout
<1>5. Sum(Amounts(S), S) = Sum(Amounts(T), S)
  BY <1>1, <1>3, SumSame
<1>6. AmountOf(T) = x.amount + AmountOf(S)
  BY <1>1, <1>4, <1>5, AmountIsSum
<1> QED
  BY <1>6 DEF T

\* What two sets that share nothing amount to together.
LEMMA AmountOfBoth ==
  ASSUME NEW A, NEW B, HaveAmounts(A), HaveAmounts(B), A \cap B = {}
  PROVE  AmountOf(A \cup B) = AmountOf(A) + AmountOf(B)
<1> DEFINE F == {s \in SUBSET B : AmountOf(A \cup s) # AmountOf(A) + AmountOf(s)}
<1>1. SUFFICES ASSUME F # {} PROVE FALSE
  OBVIOUS
<1>2. \A s \in SUBSET B : HaveAmounts(s) /\ HaveAmounts(A \cup s)
  BY FS_Subset, FS_Union DEF HaveAmounts
<1>3. PICK s \in F : \A r \in F : r \subseteq s => r = s
  <2>1. \A s \in F : IsFiniteSet(s)
    BY <1>2 DEF HaveAmounts
  <2> HIDE DEF F
  <2> QED
    BY <1>1, <2>1, SmallestSet
<1>4. s \in SUBSET B /\ AmountOf(A \cup s) # AmountOf(A) + AmountOf(s)
  OBVIOUS
<1>5. AmountOf(A) \in Nat
  BY AmountIsNatural
<1>6. s # {}
  <2>1. A \cup {} = A
    OBVIOUS
  <2> QED
    BY <1>4, <1>5, <2>1, AmountBegins
<1>7. PICK x \in s : TRUE
  BY <1>6
<1> DEFINE r == s \ {x}
<1>8. r \in SUBSET B /\ r # s /\ r \notin F
  BY <1>3, <1>4, <1>7
<1>9. AmountOf(A \cup r) = AmountOf(A) + AmountOf(r)
  BY <1>8
<1>10. s = r \cup {x} /\ A \cup s = (A \cup r) \cup {x} /\ x \notin r /\ x \notin A \cup r
  BY <1>4, <1>7
<1>11. HaveAmounts(r \cup {x}) /\ HaveAmounts((A \cup r) \cup {x})
  <2>1. HaveAmounts(s) /\ HaveAmounts(A \cup s)
    BY <1>2, <1>4
  <2> QED
    BY <1>10, <2>1
<1> HIDE DEF r, F
<1>12. AmountOf(s) = x.amount + AmountOf(r)
  BY <1>10, <1>11, AmountAdds
<1>13. AmountOf(A \cup s) = x.amount + AmountOf(A \cup r)
  BY <1>10, <1>11, AmountAdds
<1>14. x.amount \in Nat /\ AmountOf(r) \in Nat
  <2>1. HaveAmounts(r)
    BY <1>2, <1>8
  <2> QED
    BY <1>11, <2>1, AmountIsNatural DEF HaveAmounts
<1> QED
  BY <1>4, <1>5, <1>9, <1>12, <1>13, <1>14

\* A line amounts to its amount.
LEMMA AmountOfOne ==
  ASSUME NEW x, x.amount \in Nat
  PROVE  AmountOf({x}) = x.amount
<1>1. {} \cup {x} = {x} /\ HaveAmounts({x})
  BY FS_Singleton DEF HaveAmounts
<1>2. AmountOf({x}) = x.amount + 0
  BY <1>1, AmountAdds, AmountBegins
<1> QED
  BY <1>2

\* Records and the lines written from them amount to the same.
LinesOf(type, S) == {Line(type, e.id, e.amount, e.currency) : e \in S}
AreEntries(S) ==
  HaveAmounts(S) /\ \A e \in S : e = [id |-> e.id, amount |-> e.amount, currency |-> e.currency]

LEMMA AmountOfLines ==
  ASSUME NEW type, NEW S, AreEntries(S)
  PROVE  HaveAmounts(LinesOf(type, S)) /\ AmountOf(LinesOf(type, S)) = AmountOf(S)
<1> DEFINE line(e) == Line(type, e.id, e.amount, e.currency)
           Alike(s) == /\ IsFiniteSet(LinesOf(type, s))
                       /\ AmountOf(LinesOf(type, s)) = AmountOf(s)
           F == {s \in SUBSET S : ~Alike(s)}
<1>1. \A s \in SUBSET S : AreEntries(s) /\ \A l \in LinesOf(type, s) : l.amount \in Nat
  <2>1. \A s \in SUBSET S : AreEntries(s)
    BY FS_Subset DEF AreEntries, HaveAmounts
  <2> QED
    BY <2>1 DEF AreEntries, HaveAmounts, LinesOf, Line
<1>2. SUFFICES ASSUME F # {} PROVE FALSE
  BY <1>1 DEF HaveAmounts
<1>3. PICK s \in F : \A r \in F : r \subseteq s => r = s
  <2>1. \A s \in F : IsFiniteSet(s)
    BY <1>1 DEF AreEntries, HaveAmounts
  <2> HIDE DEF F
  <2> QED
    BY <1>2, <2>1, SmallestSet
<1>4. s \in SUBSET S /\ ~Alike(s)
  OBVIOUS
<1>5. s # {}
  <2>1. LinesOf(type, {}) = {}
    BY DEF LinesOf
  <2> QED
    BY <1>4, <2>1, FS_EmptySet
<1>6. PICK x \in s : TRUE
  BY <1>5
<1> DEFINE r == s \ {x}
<1>7. r \in SUBSET S /\ r # s /\ r \notin F
  BY <1>3, <1>4, <1>6
<1>8. IsFiniteSet(LinesOf(type, r)) /\ AmountOf(LinesOf(type, r)) = AmountOf(r)
  BY <1>7
<1>9. LinesOf(type, s) = LinesOf(type, r) \cup {line(x)} /\ s = r \cup {x}
  BY <1>6 DEF LinesOf
<1>10. x \in S /\ \A e \in r : e \in S /\ e # x
  BY <1>4, <1>6
<1>11. line(x) \notin LinesOf(type, r) /\ line(x).amount = x.amount
  <2>1. \A e \in S : line(e) = line(x) => e = x
    BY <1>10 DEF Line, AreEntries
  <2> QED
    BY <1>10, <2>1 DEF LinesOf, Line
<1> HIDE DEF F, line, r
<1>12. IsFiniteSet(LinesOf(type, s))
  <2>1. IsFiniteSet(LinesOf(type, r) \cup {line(x)})
    BY <1>8, FS_AddElement
  <2> QED
    BY <1>9, <2>1
<1>13. HaveAmounts(s) /\ HaveAmounts(LinesOf(type, s))
  BY <1>1, <1>4, <1>12 DEF AreEntries, HaveAmounts
<1>14. AmountOf(s) = x.amount + AmountOf(r)
  <2>1. x \notin r
    BY <1>10
  <2> QED
    BY <1>9, <1>13, <2>1, AmountAdds
<1>15. AmountOf(LinesOf(type, s)) = x.amount + AmountOf(LinesOf(type, r))
  BY <1>9, <1>11, <1>13, AmountAdds
<1> QED
  BY <1>4, <1>8, <1>12, <1>14, <1>15

-----------------------------------------------------------------------------
(* Roundings and products *)

LEMMA RoundedWithin ==
  ASSUME NEW num \in Nat, NEW den \in Nat \ {0}
  PROVE  Within(2 * Rounded(num, den), 2 * num, den, den)
<1> DEFINE q == Rounded(num, den)
<1>1. q \in Nat /\ 2 * num - den < 2 * (q * den) /\ 2 * (q * den) <= 2 * num + den
  BY RoundedIsNearest
<1> HIDE DEF q
<1>2. (2 * q) * den = 2 * (q * den) /\ 2 * (q * den) \in Int
  BY <1>1
<1> DEFINE y == 2 * (q * den)
<1> HIDE DEF y
<1>3. 2 * num - den <= y /\ y <= 2 * num + den
  BY <1>1, <1>2 DEF y
<1> QED
  BY <1>2, <1>3 DEF Within, q, y

\* What is within a distance is so on a larger scale.
LEMMA WithinScaled ==
  ASSUME NEW a \in Int, NEW x \in Int, NEW slack \in Int, NEW den \in Int,
         Within(a, x, slack, den), NEW k \in Nat
  PROVE  /\ x * k - slack * k <= a * den * k
         /\ a * den * k <= x * k + slack * k
<1>1. \A u, v \in Int : u <= v => u * k <= v * k
  OBVIOUS
<1> DEFINE y == a * den
<1>2. y \in Int /\ x - slack <= y /\ y <= x + slack
  BY DEF Within
<1> HIDE DEF y
<1>3. (x - slack) * k <= y * k /\ y * k <= (x + slack) * k
  BY <1>1, <1>2
<1>4. (x - slack) * k = x * k - slack * k /\ (x + slack) * k = x * k + slack * k
  OBVIOUS
<1> QED
  BY <1>3, <1>4 DEF y

\* Overtime is paid at the hourly rate, which is rounded twice, and rounded
\* once more: it is exact but for these roundings.
OvertimePay(base, minutes, d, h, m) ==
  Rounded(Per(Per(base, d), h) * minutes * m.num, 60 * m.den)

IsPositive(rate) == rate.num \in Nat \ {0} /\ rate.den \in Nat \ {0}

LEMMA OvertimeIsExact ==
  ASSUME NEW base \in Nat, NEW minutes \in Nat, NEW d, IsPositive(d), NEW h, IsPositive(h),
         NEW m, m.num \in Nat, m.den \in Nat \ {0}
  PROVE  /\ OvertimePay(base, minutes, d, h, m) \in Nat
         /\ Within(2 * OvertimePay(base, minutes, d, h, m),
                   2 * base * minutes * d.den * h.den * m.num,
                   minutes * m.num * (h.den + h.num) * d.num + 60 * d.num * h.num * m.den,
                   60 * d.num * h.num * m.den)
<1> DEFINE dn == d.num
           dd == d.den
           hn == h.num
           hd == h.den
           mn == m.num
           md == m.den
           daily == Rounded(base * dd, dn)
           hourly == Rounded(daily * hd, hn)
           amount == Rounded(hourly * minutes * mn, 60 * md)
<1>0a. /\ dn \in Nat \ {0} /\ dd \in Nat \ {0} /\ hn \in Nat \ {0} /\ hd \in Nat \ {0}
      /\ mn \in Nat /\ md \in Nat \ {0}
  BY DEF IsPositive
<1>0b. OvertimePay(base, minutes, d, h, m) = amount
  BY DEF OvertimePay, Per
<1>0c. /\ daily = Rounded(base * dd, dn) /\ hourly = Rounded(daily * hd, hn)
      /\ amount = Rounded(hourly * minutes * mn, 60 * md)
  OBVIOUS
<1> HIDE DEF dn, dd, hn, hd, mn, md, daily, hourly, amount
<1>1. daily \in Nat /\ Within(2 * daily, 2 * (base * dd), dn, dn)
  <2>1. base * dd \in Nat
    BY <1>0a
  <2> QED
    BY <1>0a, <1>0c, <2>1, RoundedIsNearest, RoundedWithin
<1>2. hourly \in Nat /\ Within(2 * hourly, 2 * (daily * hd), hn, hn)
  <2>1. daily * hd \in Nat
    BY <1>1, <1>0a
  <2> QED
    BY <1>0a, <1>0c, <2>1, RoundedIsNearest, RoundedWithin
<1>3. amount \in Nat /\ Within(2 * amount, 2 * (hourly * minutes * mn), 60 * md, 60 * md)
  <2>1. hourly * minutes * mn \in Nat /\ 60 * md \in Nat \ {0}
    BY <1>2, <1>0a
  <2> QED
    BY <1>0c, <2>1, RoundedIsNearest, RoundedWithin
<1> DEFINE paid == minutes * mn
           j == paid * hd
           k == paid * dn
           l == dn * hn
<1>4. paid \in Nat /\ j \in Nat /\ k \in Nat /\ l \in Nat
  BY <1>0a
<1> HIDE DEF paid, j, k, l
<1>5. /\ 2 * (base * dd) * j - dn * j <= 2 * daily * dn * j
      /\ 2 * daily * dn * j <= 2 * (base * dd) * j + dn * j
  <2>1. 2 * daily \in Int /\ 2 * (base * dd) \in Int /\ dn \in Int
    BY <1>1, <1>0a
  <2> QED
    BY <1>1, <1>4, <2>1, WithinScaled, Zenon
<1>6. /\ 2 * (daily * hd) * k - hn * k <= 2 * hourly * hn * k
      /\ 2 * hourly * hn * k <= 2 * (daily * hd) * k + hn * k
  <2>1. 2 * hourly \in Int /\ 2 * (daily * hd) \in Int /\ hn \in Int
    BY <1>1, <1>2, <1>0a
  <2> QED
    BY <1>2, <1>4, <2>1, WithinScaled, Zenon
<1>7. /\ 2 * (hourly * minutes * mn) * l - 60 * md * l <= 2 * amount * (60 * md) * l
      /\ 2 * amount * (60 * md) * l <= 2 * (hourly * minutes * mn) * l + 60 * md * l
  <2>1. 2 * amount \in Int /\ 2 * (hourly * minutes * mn) \in Int /\ 60 * md \in Int
    BY <1>2, <1>3, <1>0a
  <2> QED
    BY <1>3, <1>4, <2>1, WithinScaled, Zenon
<1>8. 2 * daily * dn * j = 2 * (daily * hd) * k
  BY <1>1, <1>0a DEF j, k, paid
<1>9. 2 * hourly * hn * k = 2 * (hourly * minutes * mn) * l
  BY <1>2, <1>0a DEF k, l, paid
<1>10. 2 * (base * dd) * j = 2 * base * minutes * dd * hd * mn
  BY <1>0a DEF j, paid
<1>11. 2 * amount * (60 * md) * l = 2 * amount * (60 * dn * hn * md)
  BY <1>3, <1>0a DEF l
<1>12. dn * j + hn * k + 60 * md * l = minutes * mn * (hd + hn) * dn + 60 * dn * hn * md
  BY <1>0a DEF j, k, l, paid
<1> DEFINE A == 2 * base * minutes * dd * hd * mn
           B == 2 * (daily * hd) * k
           C == 2 * (hourly * minutes * mn) * l
           D == 2 * amount * (60 * dn * hn * md)
           e == dn * j
           f == hn * k
           g == 60 * md * l
<1>13. A \in Int /\ B \in Int /\ C \in Int /\ D \in Int /\ e \in Int /\ f \in Int /\ g \in Int
  BY <1>1, <1>2, <1>3, <1>4, <1>0a
<1>14. /\ A - e <= B /\ B <= A + e /\ B - f <= C /\ C <= B + f
       /\ C - g <= D /\ D <= C + g
  BY <1>5, <1>6, <1>7, <1>8, <1>9, <1>10, <1>11
<1> HIDE DEF A, B, C, D, e, f, g
<1>15. A - (e + f + g) <= D /\ D <= A + (e + f + g)
  BY <1>13, <1>14
<1>16. Within(2 * amount, 2 * base * minutes * dd * hd * mn,
              minutes * mn * (hd + hn) * dn + 60 * dn * hn * md, 60 * dn * hn * md)
  BY <1>12, <1>15 DEF Within, A, D, e, f, g
<1> QED
  BY <1>3, <1>16, <1>0b DEF dn, dd, hn, hd, mn, md

LEMMA ProductWithout ==
  ASSUME NEW f, NEW S, IsFiniteSet(S), \A x \in S : f[x] \in Int, NEW z \in S
  PROVE  Folded("product", f, S) = f[z] * Folded("product", f, S \ {z})
BY FoldWithout DEF Joined

\* A product of positive numbers is positive, and each of them divides it.
LEMMA ProductIsMultiple ==
  ASSUME NEW S, IsFiniteSet(S), S \subseteq Nat \ {0}
  PROVE  /\ ProductSet(S) \in Nat \ {0}
         /\ \A x \in S : ProductSet(S) \div x \in Nat /\ x * (ProductSet(S) \div x) = ProductSet(S)
<1> DEFINE id == [x \in S |-> x]
           Recursive(fold) ==
             fold = [s \in SUBSET S |-> IF s = {} THEN 1 ELSE Picked(s) * fold[Others(s)]]
<1>1. ProductSet(S) = (CHOOSE fold : Recursive(fold))[S]
  BY DEF ProductSet, FoldSet, MapThenFoldSet, Picked, Others
<1>2. ASSUME NEW fold PROVE Recursive(fold) <=> IsFold("product", id, fold, S)
  <2>1. ASSUME NEW s \in SUBSET S, s # {} PROVE id[Picked(s)] = Picked(s)
    BY <2>1, OthersAreFewer
  <2> HIDE DEF id
  <2> QED
    BY <2>1 DEF IsFold, Unit, Joined
<1> HIDE DEF Recursive
<1>3. (CHOOSE fold : Recursive(fold)) = (CHOOSE fold : IsFold("product", id, fold, S))
  BY <1>2
<1>4. ProductSet(S) = Folded("product", id, S)
  BY <1>1, <1>3 DEF Folded
<1>5. \A x \in S : id[x] = x /\ x \in Nat \ {0}
  OBVIOUS
<1> HIDE DEF id
<1>6. \A s \in SUBSET S : Folded("product", id, s) \in Nat \ {0}
  <2> SUFFICES ASSUME NEW s \in SUBSET S PROVE Folded("product", id, s) \in Nat \ {0}
    OBVIOUS
  <2>1. IsFiniteSet(s)
    BY FS_Subset
  <2>2. Unit("product") \in Nat \ {0}
    BY DEF Unit
  <2>3. \A x \in s : id[x] \in Nat \ {0}
    BY <1>5, Zenon
  <2> QED
    BY <2>1, <2>2, <2>3, FoldIsNumber
<1>7. ASSUME NEW x \in S
      PROVE  ProductSet(S) \div x \in Nat /\ x * (ProductSet(S) \div x) = ProductSet(S)
  <2> DEFINE k == Folded("product", id, S \ {x})
  <2>1. ProductSet(S) = x * k
    <3>1. \A y \in S : id[y] \in Int
      BY <1>5
    <3>2. \A z \in S : Folded("product", id, S) = id[z] * Folded("product", id, S \ {z})
      <4> HIDE DEF k
      <4> QED
        BY <3>1, ProductWithout
    <3> QED
      BY <1>4, <1>5, <3>2
  <2>2. k \in Nat
    BY <1>6
  <2> HIDE DEF k
  <2>3. (x * k) \div x = k
    BY <1>5, <2>2
  <2> QED
    BY <2>1, <2>2, <2>3
<1> QED
  BY <1>4, <1>6, <1>7

\* A sum of values that are each within half a unit.
LEMMA SumWithin ==
  ASSUME NEW f, NEW g, NEW S, IsFiniteSet(S), \A x \in S : f[x] \in Int /\ g[x] \in Int,
         NEW unit \in Nat, \A x \in S : Within(2 * f[x], 2 * g[x], unit, unit)
  PROVE  Within(2 * Sum(f, S), 2 * Sum(g, S), Cardinality(S) * unit, unit)
<1> DEFINE Near(s) == Within(2 * Sum(f, s), 2 * Sum(g, s), Cardinality(s) * unit, unit)
           F == {s \in SUBSET S : ~Near(s)}
<1>1. SUFFICES ASSUME F # {} PROVE FALSE
  OBVIOUS
<1>2. \A s \in SUBSET S :
        IsFiniteSet(s) /\ Cardinality(s) \in Nat /\ Sum(f, s) \in Int /\ Sum(g, s) \in Int
  BY FS_Subset, FS_CardinalityType, SumIsInteger
<1>3. PICK s \in F : \A r \in F : r \subseteq s => r = s
  <2>1. \A s \in F : IsFiniteSet(s)
    BY <1>2
  <2> HIDE DEF F
  <2> QED
    BY <1>1, <2>1, SmallestSet
<1>4. s \in SUBSET S /\ ~Near(s)
  OBVIOUS
<1>5. s # {}
  <2>1. Sum(f, {}) = 0 /\ Sum(g, {}) = 0 /\ Cardinality({}) = 0
    BY SumBegins, FS_EmptySet
  <2>2. Within(2 * 0, 2 * 0, 0 * unit, unit)
    BY DEF Within
  <2>3. Near({})
    BY <2>1, <2>2
  <2> QED
    BY <1>4, <2>3
<1>6. PICK x \in s : TRUE
  BY <1>5
<1> DEFINE r == s \ {x}
           n == Cardinality(r)
           a == Sum(f, r)
           b == Sum(g, r)
<1>7. r \in SUBSET S /\ r # s /\ r \notin F
  BY <1>3, <1>4, <1>6
<1>8. Within(2 * a, 2 * b, n * unit, unit) /\ n \in Nat /\ a \in Int /\ b \in Int
  BY <1>2, <1>7
<1>9. Sum(f, s) = f[x] + a /\ Sum(g, s) = g[x] + b
  BY <1>2, <1>4, <1>6, SumWithout
<1>10. Cardinality(s) = n + 1
  <2>1. s = r \cup {x} /\ x \notin r /\ IsFiniteSet(r)
    BY <1>2, <1>6, <1>7
  <2> QED
    BY <2>1, FS_AddElement
<1>11. Within(2 * f[x], 2 * g[x], unit, unit) /\ f[x] \in Int /\ g[x] \in Int
  BY <1>4, <1>6
<1> HIDE DEF F, r, n, a, b
<1> DEFINE u == 2 * a * unit
           v == 2 * f[x] * unit
           w == n * unit
<1>12. 2 * (f[x] + a) * unit = v + u /\ (n + 1) * unit = w + unit /\ 2 * (g[x] + b) = 2 * g[x] + 2 * b
  BY <1>8, <1>11
<1>13. /\ 2 * b - w <= u /\ u <= 2 * b + w /\ u \in Int /\ w \in Int
       /\ 2 * g[x] - unit <= v /\ v <= 2 * g[x] + unit /\ v \in Int
  BY <1>8, <1>11 DEF Within
<1> HIDE DEF u, v, w
<1>14. /\ 2 * (g[x] + b) - (w + unit) <= v + u
       /\ v + u <= 2 * (g[x] + b) + (w + unit)
  BY <1>8, <1>11, <1>12, <1>13
<1> QED
  BY <1>4, <1>9, <1>10, <1>12, <1>14 DEF Within

-----------------------------------------------------------------------------
(* One value a day *)

ParametersInv ==
  /\ parameters \subseteq Configured \cup Creatable
  /\ posted \in Creatable \cup {None}
  /\ \A a, b \in parameters : a # b => ~Overlaps(a, b)
  /\ posted # None => \A a \in parameters : ~Overlaps(a, posted)

LEMMA OverlapsIsSymmetric ==
  ASSUME NEW a \in Configured \cup Creatable, NEW b \in Configured \cup Creatable,
         Overlaps(a, b)
  PROVE  Overlaps(b, a)
BY RowsAssumption DEF Overlaps

LEMMA ParametersInvHolds == Spec => []ParametersInv
<1>1. Init => ParametersInv
  BY RowsAssumption DEF Init, ParametersInv
<1>2. ParametersInv /\ [Next]_vars => ParametersInv'
  <2> SUFFICES ASSUME ParametersInv, [Next]_vars PROVE ParametersInv'
    OBVIOUS
  <2>1. ASSUME NEW row \in Creatable, CheckParameter(row) PROVE ParametersInv'
    BY <2>1 DEF CheckParameter, ParametersInv
  <2>2. CASE InsertParameter
    <3>1. posted \in Creatable /\ parameters' = parameters \cup {posted} /\ posted' = None
      BY <2>2 DEF InsertParameter, ParametersInv
    <3>2. \A a \in parameters : ~Overlaps(a, posted) /\ ~Overlaps(posted, a)
      BY <2>2, <3>1, OverlapsIsSymmetric DEF InsertParameter, ParametersInv
    <3> QED
      BY <3>1, <3>2 DEF ParametersInv
  <2>3. ASSUME NEW row \in parameters, UpdateParameter(row) PROVE ParametersInv'
    BY <2>3 DEF UpdateParameter, Described, ParametersInv
  <2>4. CASE UNCHANGED <<parameters, posted>>
    BY <2>4 DEF ParametersInv
  <2> QED
    <3>1. Calculate \/ Step \/ Clear => UNCHANGED <<parameters, posted>>
      BY DEF Calculate, Step, Clear, FindCompensation, FindExisting, ListAllowances,
        ListOvertime, DailyRate, HourlyRate, OvertimeLine, Reconcile, FindSchedule,
        DeductDay, AbsenceLine, ListDeductions, TaxLine, Record, OnlyCalculation
    <3>2. (\E f \in DOMAIN inputs : Change(f)) => UNCHANGED <<parameters, posted>>
      BY DEF Change
    <3> QED
      BY <2>1, <2>2, <2>3, <2>4, <3>1, <3>2 DEF Next, vars
<1> QED
  BY <1>1, <1>2, PTL DEF Spec

\* No parameter has two values on a day, whatever rows are created: resolve
\* never raises in the middle of a batch.
THEOREM ParametersStayUnambiguous == Spec => []OneValueADay
<1>1. ParametersInv => OneValueADay
  <2> SUFFICES ASSUME ParametersInv, NEW day \in Days,
                      NEW a \in parameters, NEW b \in parameters,
                      a.key = b.key, IsEffective(a, day), IsEffective(b, day)
               PROVE  a = b
    BY DEF OneValueADay
  <2>1. Overlaps(a, b)
    BY RowsAssumption, PeriodAssumption DEF ParametersInv, IsEffective, Overlaps
  <2> QED
    BY <2>1 DEF ParametersInv
<1> QED
  BY <1>1, ParametersInvHolds, PTL

-----------------------------------------------------------------------------
(* What a parameter is worth *)

\* InForce, Known and Value, in the table p.
RowsIn(p, key, day) == {row \in p : row.key = key /\ IsEffective(row, day)}
KnownIn(p, key, day) == Cardinality(RowsIn(p, key, day)) = 1
ValueIn(p, key, day) == (CHOOSE row \in RowsIn(p, key, day) : TRUE).value

\* The parameter is known, and not zero.
Divides(p, key, day) == KnownIn(p, key, day) /\ ValueIn(p, key, day).num # 0

Unambiguous(p) ==
  /\ p \subseteq Configured \cup Creatable
  /\ \A a, b \in p : a # b => ~Overlaps(a, b)

LEMMA InTable ==
  ASSUME NEW key, NEW day
  PROVE  /\ Known(key, day) <=> KnownIn(parameters, key, day)
         /\ Value(key, day) = ValueIn(parameters, key, day)
         /\ Missing(key, day) => ~KnownIn(parameters, key, day)
<1>1. InForce(key, day) = RowsIn(parameters, key, day)
  BY DEF InForce, RowsIn
<1>2. Cardinality({}) # 1
  BY FS_EmptySet
<1> QED
  BY <1>1, <1>2 DEF Known, KnownIn, Value, ValueIn, Missing

\* A table without overlaps has at most one row in force on a day.
LEMMA OneRowInForce ==
  ASSUME NEW p, Unambiguous(p), NEW key, NEW day \in Int
  PROVE  /\ \A a, b \in RowsIn(p, key, day) : a = b
         /\ KnownIn(p, key, day) <=> RowsIn(p, key, day) # {}
<1>1. ASSUME NEW a \in RowsIn(p, key, day), NEW b \in RowsIn(p, key, day) PROVE a = b
  <2>1. a \in p /\ b \in p /\ a.key = b.key /\ IsEffective(a, day) /\ IsEffective(b, day)
    BY DEF RowsIn
  <2>2. Overlaps(a, b)
    BY <2>1, RowsAssumption DEF IsEffective, Overlaps, Unambiguous
  <2> QED
    BY <2>1, <2>2 DEF Unambiguous
<1>2. Cardinality({}) = 0 /\ \A row : Cardinality({row}) = 1
  BY FS_EmptySet, FS_Singleton
<1>3. CASE RowsIn(p, key, day) = {}
  BY <1>2, <1>3 DEF KnownIn
<1>4. CASE RowsIn(p, key, day) # {}
  <2>1. PICK row : row \in RowsIn(p, key, day)
    BY <1>4
  <2>2. RowsIn(p, key, day) = {row}
    BY <1>1, <2>1
  <2> QED
    BY <1>1, <1>2, <1>4, <2>2 DEF KnownIn
<1> QED
  BY <1>3, <1>4

\* New rows leave the value of a parameter that is known as it was.
LEMMA ValuesStay ==
  ASSUME NEW p, NEW q, p \subseteq q, Unambiguous(q),
         NEW key, NEW day \in Int, KnownIn(p, key, day)
  PROVE  KnownIn(q, key, day) /\ ValueIn(q, key, day) = ValueIn(p, key, day)
<1>1. Unambiguous(p)
  BY DEF Unambiguous
<1>2. RowsIn(p, key, day) # {} /\ RowsIn(p, key, day) \subseteq RowsIn(q, key, day)
  BY <1>1, OneRowInForce DEF RowsIn
<1>3. \A a, b \in RowsIn(q, key, day) : a = b
  BY OneRowInForce
<1>4. RowsIn(q, key, day) = RowsIn(p, key, day)
  BY <1>2, <1>3
<1> QED
  BY <1>2, <1>4, OneRowInForce DEF KnownIn, ValueIn

\* The first of some days of a period.
LEMMA FirstDay ==
  ASSUME NEW m \in Int, NEW n \in Int, NEW S \in SUBSET (m .. n), S # {}
  PROVE  Min(S) \in S /\ Min(S) \in Int
<1> DEFINE T == {y - m : y \in S}
<1>1. T \subseteq Nat /\ T # {}
  <2>1. \A y \in S : y - m \in Nat
    OBVIOUS
  <2> QED
    BY <2>1
<1>2. PICK t \in T : \A u \in T : <<u, t>> \notin OpToRel(<, Nat)
  BY <1>1, WFMin, NatLessThanWellFounded
<1>3. \A u \in T : ~(u < t)
  BY <1>1, <1>2 DEF OpToRel
<1>4. PICK x \in S : t = x - m
  BY <1>2
<1>5. \A y \in S : x <= y
  BY <1>3, <1>4
<1> QED
  BY <1>5 DEF Min

-----------------------------------------------------------------------------
(* A rerun reproduces the payslip *)

WorkingDays == "STANDARD_WORKING_DAYS_PER_MONTH"
DailyHours == "STANDARD_DAILY_HOURS"
Multiplier == "OVERTIME_MULTIPLIER_WEEKDAY"
TaxRate == "STATUTORY_TAX_RATE"

\* The lines that the records i and the parameters p amount to.
EarnedLines(i) ==
  {Line("BASE_SALARY", i.compensation.id, i.compensation.amount, i.compensation.currency)}
    \cup {Line("ALLOWANCE", a.id, a.amount, a.currency) : a \in i.allowances}

DayRate(p, i) == Per(i.compensation.amount, ValueIn(p, WorkingDays, PeriodEnd))
HourRate(p, i) == Per(DayRate(p, i), ValueIn(p, DailyHours, PeriodEnd))

OvertimeLines(p, i) ==
  LET m == ValueIn(p, Multiplier, PeriodEnd) IN
  IF i.overtime = 0 THEN {}
  ELSE {Line("OVERTIME", None, Rounded(HourRate(p, i) * i.overtime * m.num, 60 * m.den),
             RunCurrency)}

RatesKnown(p, i) ==
  i.overtime # 0 =>
    /\ Divides(p, WorkingDays, PeriodEnd) /\ Divides(p, DailyHours, PeriodEnd)
    /\ KnownIn(p, Multiplier, PeriodEnd)

AbsenceLines(tally) ==
  IF tally.days = 0 THEN {}
  ELSE {Line("ATTENDANCE_DEDUCTION", None, tally.deducted, RunCurrency)}

DeductionLines(i) ==
  {Line("NON_STATUTORY_DEDUCTION", d.id, d.amount, d.currency) : d \in i.deductions}

Untaxed(p, i, tally) ==
  EarnedLines(i) \cup OvertimeLines(p, i) \cup AbsenceLines(tally) \cup DeductionLines(i)

IsTaxed(p) == KnownIn(p, TaxRate, PeriodEnd) /\ ValueIn(p, TaxRate, PeriodEnd).num # 0

Tax(p, lines) ==
  {Line("STATUTORY_DEDUCTION", None, Times(Gross(lines), ValueIn(p, TaxRate, PeriodEnd)),
        RunCurrency)}

\* The absences, day after day.  A trail says what had been counted when these
\* days were still to come; it says it for all absences, and from there on for
\* what remains after each day, down to left.
Absences(i) == i.absent \cap (PeriodStart .. PeriodEnd)
Tally(days, deducted) == [days |-> days, deducted |-> deducted]
Rest(S) == S \ {Min(S)}

Counted(p, i, tally, day) ==
  IF day \in i.works
  THEN Tally(tally.days + 1,
             tally.deducted + Per(i.compensation.amount, ValueIn(p, WorkingDays, day)))
  ELSE tally

IsTrail(trail, p, i, left) ==
  /\ Absences(i) \in DOMAIN trail /\ trail[Absences(i)] = Tally(0, 0)
  /\ left \in DOMAIN trail
  /\ \A S \in DOMAIN trail :
       /\ left \subseteq S /\ S \subseteq Absences(i)
       /\ S # left =>
            /\ S # {} /\ Rest(S) \in DOMAIN trail
            /\ Min(S) \in i.works => Divides(p, WorkingDays, Min(S))
            /\ trail[Rest(S)] = Counted(p, i, trail[S], Min(S))

\* One trail leads to where the calculation is, and every trail that counts
\* all absences passes there.
OnTrail(p, i, c) ==
  LET tally == Tally(c.days, c.deducted) IN
  /\ \E trail : IsTrail(trail, p, i, c.absent) /\ trail[c.absent] = tally
  /\ \A trail : IsTrail(trail, p, i, {}) => c.absent \in DOMAIN trail /\ trail[c.absent] = tally

\* A calculation c that nobody has disturbed, of the records i under the
\* parameters p: what it has collected when it comes to each point.
Progress(p, i, c) ==
  LET tally == Tally(c.days, c.deducted)  all == Untaxed(p, i, tally) IN
  /\ c.at \notin {"idle", "compensation"} =>
       i.compensation # None /\ c.base = i.compensation.amount
  /\ c.at \in {"existing", "allowances"} =>
       c.lines = {Line("BASE_SALARY", i.compensation.id, i.compensation.amount,
                       i.compensation.currency)}
  /\ c.at \in {"overtime", "working days", "daily hours", "multiplier"} =>
       c.lines = EarnedLines(i)
  /\ c.at \in {"working days", "daily hours", "multiplier"} =>
       c.minutes = i.overtime /\ i.overtime # 0
  /\ c.at \in {"daily hours", "multiplier"} => Divides(p, WorkingDays, PeriodEnd)
  /\ c.at = "daily hours" => c.rate = DayRate(p, i)
  /\ c.at = "multiplier" => Divides(p, DailyHours, PeriodEnd) /\ c.rate = HourRate(p, i)
  /\ c.at \in {"absences", "schedule", "day rate", "deductions", "tax", "record"} =>
       RatesKnown(p, i)
  /\ c.at \in {"compensation", "existing", "allowances", "overtime", "working days",
                "daily hours", "multiplier", "absences"} => tally = Tally(0, 0)
  /\ c.at \in {"absences", "schedule", "day rate"} =>
       c.lines = EarnedLines(i) \cup OvertimeLines(p, i)
  /\ c.at \in {"schedule", "day rate", "deductions", "tax", "record"} => OnTrail(p, i, c)
  /\ c.at = "day rate" => c.absent # {} /\ Min(c.absent) \in i.works
  /\ c.at \in {"deductions", "tax", "record"} => c.absent = {}
  /\ c.at = "deductions" =>
       c.lines = EarnedLines(i) \cup OvertimeLines(p, i) \cup AbsenceLines(tally)
  /\ c.at = "tax" => c.lines = all
  /\ c.at = "record" => c.lines = IF IsTaxed(p) THEN all \cup Tax(p, all) ELSE all

\* The last payslip, if nobody disturbed its calculation, is what the records
\* it was calculated from still amount to; its tax rate may be newer than it.
Reproduced(p, slip) ==
  \E tally :
    LET all == Untaxed(p, slip.inputs, tally) IN
    /\ \E trail : IsTrail(trail, p, slip.inputs, {}) /\ trail[{}] = tally
    /\ RatesKnown(p, slip.inputs)
    /\ \/ slip.payslip.lines = all
       \/ IsTaxed(p) /\ slip.payslip.lines = all \cup Tax(p, all)

Undisturbed == calculation.at # "idle" /\ calculation.began = <<changes, parameters>>

Fields == {"at", "began", "lines", "base", "rate", "minutes", "absent", "days", "deducted"}

ReproducibleInv ==
  /\ changes \in Nat
  /\ calculation.at # "idle" =>
       /\ DOMAIN calculation = Fields
       /\ calculation.began[1] \in 0 .. changes /\ calculation.began[2] \subseteq parameters
  /\ Undisturbed => Progress(parameters, inputs, calculation)
  /\ last # None /\ last.undisturbed => Reproduced(parameters, last)

LEMMA FirstAbsence ==
  ASSUME NEW i, NEW S, S \subseteq Absences(i), S # {}
  PROVE  Min(S) \in S /\ Min(S) \in Int
<1>1. S \in SUBSET (PeriodStart .. PeriodEnd) /\ PeriodStart \in Int /\ PeriodEnd \in Int
  BY PeriodAssumption DEF Absences
<1> QED
  BY <1>1, FirstDay

\* What a payslip amounted to it amounts to when there are more parameters.
LEMMA ReproducedForGood ==
  ASSUME NEW p, NEW q, p \subseteq q, Unambiguous(q), NEW slip, Reproduced(p, slip)
  PROVE  Reproduced(q, slip)
<1> DEFINE i == slip.inputs
<1>1. PICK tally :
        /\ \E trail : IsTrail(trail, p, i, {}) /\ trail[{}] = tally
        /\ RatesKnown(p, i)
        /\ \/ slip.payslip.lines = Untaxed(p, i, tally)
           \/ IsTaxed(p) /\ slip.payslip.lines = Untaxed(p, i, tally) \cup Tax(p, Untaxed(p, i, tally))
  BY DEF Reproduced
<1> HIDE DEF i
<1>2. PeriodEnd \in Int
  BY PeriodAssumption
<1>3. \A key : KnownIn(p, key, PeriodEnd) =>
        KnownIn(q, key, PeriodEnd) /\ ValueIn(q, key, PeriodEnd) = ValueIn(p, key, PeriodEnd)
  BY <1>2, ValuesStay
<1>4. RatesKnown(q, i) /\ OvertimeLines(q, i) = OvertimeLines(p, i)
  BY <1>1, <1>3 DEF RatesKnown, OvertimeLines, HourRate, DayRate, Divides
<1>5. Untaxed(q, i, tally) = Untaxed(p, i, tally)
  BY <1>4 DEF Untaxed
<1>6. ASSUME IsTaxed(p)
      PROVE  IsTaxed(q) /\ \A lines : Tax(q, lines) = Tax(p, lines)
  BY <1>3, <1>6 DEF IsTaxed, Tax
<1>7. ASSUME NEW trail, IsTrail(trail, p, i, {}) PROVE IsTrail(trail, q, i, {})
  <2> SUFFICES ASSUME NEW S \in DOMAIN trail, S # {}
               PROVE  /\ Min(S) \in i.works => Divides(q, WorkingDays, Min(S))
                      /\ trail[Rest(S)] = Counted(q, i, trail[S], Min(S))
    BY <1>7 DEF IsTrail
  <2>1. /\ S \subseteq Absences(i)
        /\ Min(S) \in i.works => Divides(p, WorkingDays, Min(S))
        /\ trail[Rest(S)] = Counted(p, i, trail[S], Min(S))
    BY <1>7 DEF IsTrail
  <2>2. Min(S) \in Int
    BY <2>1, FirstAbsence
  <2>3. Min(S) \in i.works =>
          /\ Divides(q, WorkingDays, Min(S))
          /\ ValueIn(q, WorkingDays, Min(S)) = ValueIn(p, WorkingDays, Min(S))
    BY <2>1, <2>2, ValuesStay DEF Divides
  <2> QED
    BY <2>1, <2>3 DEF Counted
<1> QED
  BY <1>1, <1>4, <1>5, <1>6, <1>7 DEF Reproduced, i

\* The count of the absences begins with all of them.
LEMMA TrailBegins ==
  ASSUME NEW p, NEW i, NEW c, c.absent = Absences(i), Tally(c.days, c.deducted) = Tally(0, 0)
  PROVE  OnTrail(p, i, c)
<1> DEFINE trail == [S \in {Absences(i)} |-> Tally(0, 0)]
<1>1. IsTrail(trail, p, i, c.absent) /\ trail[c.absent] = Tally(0, 0)
  BY DEF IsTrail
<1>2. \A t : IsTrail(t, p, i, {}) => c.absent \in DOMAIN t /\ t[c.absent] = Tally(0, 0)
  BY DEF IsTrail
<1> HIDE DEF trail
<1> QED
  BY <1>1, <1>2 DEF OnTrail

\* It goes on with the first of what is left.
LEMMA TrailGoesOn ==
  ASSUME NEW p, NEW i, NEW c, OnTrail(p, i, c), c.absent # {},
         Min(c.absent) \in i.works => Divides(p, WorkingDays, Min(c.absent)),
         NEW d, d.absent = Rest(c.absent),
         Tally(d.days, d.deducted) = Counted(p, i, Tally(c.days, c.deducted), Min(c.absent))
  PROVE  OnTrail(p, i, d)
<1> DEFINE S == c.absent
           R == d.absent
           before == Tally(c.days, c.deducted)
           after == Tally(d.days, d.deducted)
<1>1. PICK trail : IsTrail(trail, p, i, S) /\ trail[S] = before
  BY DEF OnTrail
<1>2. \A t : IsTrail(t, p, i, {}) => S \in DOMAIN t /\ t[S] = before
  BY DEF OnTrail
<1>3. R = Rest(S) /\ S # {} /\ after = Counted(p, i, before, Min(S))
      /\ (Min(S) \in i.works => Divides(p, WorkingDays, Min(S)))
  OBVIOUS
<1> HIDE DEF S, R, before, after
<1>4. S \in DOMAIN trail /\ S \subseteq Absences(i)
  BY <1>1 DEF IsTrail
<1>5. Min(S) \in S /\ R = S \ {Min(S)}
  BY <1>3, <1>4, FirstAbsence DEF Rest
<1>6. R \notin DOMAIN trail
  BY <1>1, <1>5 DEF IsTrail
<1> DEFINE longer == [X \in DOMAIN trail \cup {R} |-> IF X = R THEN after ELSE trail[X]]
<1>7. /\ DOMAIN longer = DOMAIN trail \cup {R} /\ longer[R] = after
      /\ \A X \in DOMAIN trail : longer[X] = trail[X]
  BY <1>6
<1> HIDE DEF longer
<1>8. ASSUME NEW X \in DOMAIN longer
      PROVE  /\ R \subseteq X /\ X \subseteq Absences(i)
             /\ X # R =>
                  /\ X # {} /\ Rest(X) \in DOMAIN longer
                  /\ Min(X) \in i.works => Divides(p, WorkingDays, Min(X))
                  /\ longer[Rest(X)] = Counted(p, i, longer[X], Min(X))
  <2>1. CASE X = R
    BY <1>4, <1>5, <2>1
  <2>2. CASE X = S
    BY <1>1, <1>3, <1>4, <1>5, <1>7, <2>2
  <2>3. CASE X # R /\ X # S
    <3>1. /\ X \in DOMAIN trail /\ S \subseteq X /\ X \subseteq Absences(i)
          /\ X # {} /\ Rest(X) \in DOMAIN trail
          /\ Min(X) \in i.works => Divides(p, WorkingDays, Min(X))
          /\ trail[Rest(X)] = Counted(p, i, trail[X], Min(X))
      BY <1>1, <1>7, <2>3 DEF IsTrail
    <3> QED
      BY <1>5, <1>7, <3>1
  <2> QED
    BY <2>1, <2>2, <2>3
<1>9. IsTrail(longer, p, i, R) /\ longer[R] = after
  <2>1. Absences(i) \in DOMAIN longer /\ longer[Absences(i)] = Tally(0, 0)
    BY <1>1, <1>7 DEF IsTrail
  <2> QED
    BY <1>7, <1>8, <2>1 DEF IsTrail
<1>10. ASSUME NEW t, IsTrail(t, p, i, {}) PROVE R \in DOMAIN t /\ t[R] = after
  BY <1>2, <1>3, <1>10 DEF IsTrail
<1> QED
  BY <1>9, <1>10 DEF OnTrail, R, after

\* OnTrail looks at nothing but the count.
LEMMA SameTrail ==
  ASSUME NEW p, NEW i, NEW c, OnTrail(p, i, c), NEW d,
         d.absent = c.absent, d.days = c.days, d.deducted = c.deducted
  PROVE  OnTrail(p, i, d)
BY DEF OnTrail

\* Each step of an undisturbed calculation leads from what its point promises
\* to what the next one does.
LEMMA ProgressStep ==
  ASSUME NEW p, p = parameters, NEW i, i = inputs, NEW c, c = calculation, NEW d, d = calculation',
         c.at # "idle", DOMAIN c = Fields, Progress(p, i, c), Step, d.at # "idle"
  PROVE  Progress(p, i, d)
<1>0. d # Idle
  BY DEF Idle
<1>1. CASE FindCompensation
  <2>1. d = [c EXCEPT !.at = "existing", !.base = i.compensation.amount,
              !.lines = {Line("BASE_SALARY", i.compensation.id, i.compensation.amount,
                              i.compensation.currency)}]
        /\ c.at = "compensation" /\ i.compensation # None
    BY <1>0, <1>1 DEF FindCompensation, At, Abandon
  <2>2. /\ d.at = "existing" /\ d.base = i.compensation.amount
        /\ d.lines = {Line("BASE_SALARY", i.compensation.id, i.compensation.amount,
                           i.compensation.currency)}
        /\ d.days = c.days /\ d.deducted = c.deducted
    BY <2>1 DEF Fields
  <2> QED
    BY <2>1, <2>2 DEF Progress
<1>2. CASE FindExisting
  <2>1. c.at = "existing" /\ d = [c EXCEPT !.at = "allowances"]
    BY <1>0, <1>2 DEF FindExisting, At, Abandon, GoTo
  <2>2. /\ d.at = "allowances" /\ d.base = c.base /\ d.lines = c.lines
        /\ d.days = c.days /\ d.deducted = c.deducted
    BY <2>1 DEF Fields
  <2> QED
    BY <2>1, <2>2 DEF Progress
<1>3. CASE ListAllowances
  <2>1. /\ c.at = "allowances"
        /\ d = [c EXCEPT !.at = "overtime", !.lines = @ \cup
                  {Line("ALLOWANCE", a.id, a.amount, a.currency) : a \in i.allowances}]
    BY <1>3 DEF ListAllowances, At, AddLines
  <2>2. /\ d.at = "overtime" /\ d.base = c.base /\ d.days = c.days /\ d.deducted = c.deducted
        /\ d.lines = c.lines \cup
             {Line("ALLOWANCE", a.id, a.amount, a.currency) : a \in i.allowances}
    BY <2>1 DEF Fields
  <2>3. d.lines = EarnedLines(i)
    BY <2>1, <2>2 DEF Progress, EarnedLines
  <2> QED
    BY <2>1, <2>2, <2>3 DEF Progress
<1>4. CASE ListOvertime
  <2>1. /\ c.at = "overtime"
        /\ d = [c EXCEPT !.at = IF i.overtime = 0 THEN "absences" ELSE "working days",
                         !.minutes = i.overtime]
    BY <1>4 DEF ListOvertime, At
  <2>2. /\ d.at = IF i.overtime = 0 THEN "absences" ELSE "working days"
        /\ d.minutes = i.overtime /\ d.lines = c.lines
        /\ d.base = c.base /\ d.days = c.days /\ d.deducted = c.deducted
    BY <2>1 DEF Fields
  <2>3. i.overtime = 0 => OvertimeLines(p, i) = {} /\ RatesKnown(p, i)
    BY DEF OvertimeLines, RatesKnown
  <2>4. CASE i.overtime = 0
    BY <2>1, <2>2, <2>3, <2>4 DEF Progress
  <2>5. CASE i.overtime # 0
    BY <2>1, <2>2, <2>5 DEF Progress
  <2> QED
    BY <2>4, <2>5
<1>5. CASE DailyRate
  <2>1. /\ c.at = "working days" /\ Known(WorkingDays, PeriodEnd)
        /\ Value(WorkingDays, PeriodEnd).num # 0
        /\ d = [c EXCEPT !.at = "daily hours", !.rate = Per(c.base, Value(WorkingDays, PeriodEnd))]
    BY <1>0, <1>5 DEF DailyRate, At, Divide, Abandon, WorkingDays
  <2>2. /\ d.at = "daily hours" /\ d.rate = Per(c.base, Value(WorkingDays, PeriodEnd))
        /\ d.minutes = c.minutes /\ d.lines = c.lines
        /\ d.base = c.base /\ d.days = c.days /\ d.deducted = c.deducted
    BY <2>1 DEF Fields
  <2>3. c.base = i.compensation.amount
    BY <2>1 DEF Progress
  <2>4. Divides(p, WorkingDays, PeriodEnd)
        /\ Value(WorkingDays, PeriodEnd) = ValueIn(p, WorkingDays, PeriodEnd)
    BY <2>1, InTable DEF Divides
  <2>5. d.rate = DayRate(p, i)
    BY <2>2, <2>3, <2>4 DEF DayRate
  <2> QED
    BY <2>1, <2>2, <2>4, <2>5 DEF Progress
<1>6. CASE HourlyRate
  <2>1. /\ c.at = "daily hours" /\ Known(DailyHours, PeriodEnd)
        /\ Value(DailyHours, PeriodEnd).num # 0
        /\ d = [c EXCEPT !.at = "multiplier", !.rate = Per(c.rate, Value(DailyHours, PeriodEnd))]
    BY <1>0, <1>6 DEF HourlyRate, At, Divide, Abandon, DailyHours
  <2>2. /\ d.at = "multiplier" /\ d.rate = Per(c.rate, Value(DailyHours, PeriodEnd))
        /\ d.minutes = c.minutes /\ d.lines = c.lines
        /\ d.base = c.base /\ d.days = c.days /\ d.deducted = c.deducted
    BY <2>1 DEF Fields
  <2>3. c.rate = DayRate(p, i)
    BY <2>1 DEF Progress
  <2>4. Divides(p, DailyHours, PeriodEnd)
        /\ Value(DailyHours, PeriodEnd) = ValueIn(p, DailyHours, PeriodEnd)
    BY <2>1, InTable DEF Divides
  <2>5. d.rate = HourRate(p, i)
    BY <2>2, <2>3, <2>4 DEF HourRate
  <2> QED
    BY <2>1, <2>2, <2>4, <2>5 DEF Progress
<1>7. CASE OvertimeLine
  <2> DEFINE m == Value(Multiplier, PeriodEnd)
             line == Line("OVERTIME", None,
                          Rounded(c.rate * c.minutes * m.num, 60 * m.den), RunCurrency)
  <2>1. /\ c.at = "multiplier" /\ Known(Multiplier, PeriodEnd)
        /\ d = [c EXCEPT !.at = "absences", !.lines = @ \cup {line}]
    BY <1>0, <1>7 DEF OvertimeLine, At, AddLines, Abandon, Multiplier
  <2>2. /\ c.rate = HourRate(p, i) /\ c.minutes = i.overtime /\ i.overtime # 0
        /\ c.lines = EarnedLines(i)
        /\ Divides(p, WorkingDays, PeriodEnd) /\ Divides(p, DailyHours, PeriodEnd)
    BY <2>1 DEF Progress
  <2>3. KnownIn(p, Multiplier, PeriodEnd) /\ m = ValueIn(p, Multiplier, PeriodEnd)
    BY <2>1, InTable
  <2>4. OvertimeLines(p, i) = {line} /\ RatesKnown(p, i)
    BY <2>1, <2>2, <2>3 DEF OvertimeLines, RatesKnown
  <2> HIDE DEF line, m
  <2>5. /\ d.at = "absences" /\ d.lines = c.lines \cup {line}
        /\ d.base = c.base /\ d.days = c.days /\ d.deducted = c.deducted
    BY <2>1 DEF Fields
  <2> QED
    BY <2>1, <2>2, <2>4, <2>5 DEF Progress
<1>8. CASE Reconcile
  <2>1. c.at = "absences" /\ d = [c EXCEPT !.at = "schedule", !.absent = Absences(i)]
    BY <1>8 DEF Reconcile, At, Absences
  <2>2. /\ d.at = "schedule" /\ d.absent = Absences(i) /\ d.lines = c.lines
        /\ d.base = c.base /\ d.days = c.days /\ d.deducted = c.deducted
    BY <2>1 DEF Fields
  <2>3. Tally(d.days, d.deducted) = Tally(0, 0)
    BY <2>1, <2>2 DEF Progress
  <2>4. OnTrail(p, i, d)
    BY <2>2, <2>3, TrailBegins
  <2> QED
    BY <2>1, <2>2, <2>4 DEF Progress
<1>9. CASE FindSchedule
  <2>1. c.at = "schedule" /\ c.absent # {}
    BY <1>9 DEF FindSchedule, At
  <2>2. OnTrail(p, i, c)
    BY <2>1 DEF Progress
  <2>3. CASE Min(c.absent) \in i.works
    <3>1. d = [c EXCEPT !.at = "day rate"]
      BY <1>9, <2>3 DEF FindSchedule, GoTo, Day
    <3>2. /\ d.at = "day rate" /\ d.absent = c.absent /\ d.lines = c.lines
          /\ d.base = c.base /\ d.days = c.days /\ d.deducted = c.deducted
      BY <3>1 DEF Fields
    <3>3. OnTrail(p, i, d)
      BY <2>2, <3>2, SameTrail
    <3> QED
      BY <2>1, <2>3, <3>2, <3>3 DEF Progress
  <2>4. CASE Min(c.absent) \notin i.works
    <3>1. d = [c EXCEPT !.absent = Rest(c.absent)]
      BY <1>9, <2>4 DEF FindSchedule, Day, Rest
    <3>2. /\ d.at = "schedule" /\ d.absent = Rest(c.absent) /\ d.lines = c.lines
          /\ d.base = c.base /\ d.days = c.days /\ d.deducted = c.deducted
      BY <2>1, <3>1 DEF Fields
    <3>3. OnTrail(p, i, d)
      BY <2>1, <2>2, <2>4, <3>2, TrailGoesOn DEF Counted
    <3> QED
      BY <2>1, <3>2, <3>3 DEF Progress
  <2> QED
    BY <2>3, <2>4
<1>10. CASE DeductDay
  <2> DEFINE day == Min(c.absent)
  <2>1. /\ c.at = "day rate" /\ Known(WorkingDays, day) /\ Value(WorkingDays, day).num # 0
        /\ d = [c EXCEPT !.at = "schedule", !.absent = Rest(c.absent), !.days = @ + 1,
                         !.deducted = @ + Per(c.base, Value(WorkingDays, day))]
    BY <1>0, <1>10 DEF DeductDay, At, Abandon, Day, Rest, WorkingDays
  <2>2. /\ OnTrail(p, i, c) /\ c.absent # {} /\ day \in i.works
        /\ c.base = i.compensation.amount
    BY <2>1 DEF Progress
  <2>3. Divides(p, WorkingDays, day) /\ Value(WorkingDays, day) = ValueIn(p, WorkingDays, day)
    BY <2>1, InTable DEF Divides
  <2>4. /\ d.at = "schedule" /\ d.absent = Rest(c.absent) /\ d.lines = c.lines
        /\ d.base = c.base /\ d.days = c.days + 1
        /\ d.deducted = c.deducted + Per(c.base, Value(WorkingDays, day))
    BY <2>1 DEF Fields
  <2>5. Tally(d.days, d.deducted) = Counted(p, i, Tally(c.days, c.deducted), day)
    BY <2>2, <2>3, <2>4 DEF Counted, Tally
  <2>6. OnTrail(p, i, d)
    BY <2>2, <2>3, <2>4, <2>5, TrailGoesOn
  <2> QED
    BY <2>1, <2>4, <2>6 DEF Progress
<1>11. CASE AbsenceLine
  <2>1. /\ c.at = "schedule" /\ c.absent = {}
        /\ \/ c.days = 0 /\ d = [c EXCEPT !.at = "deductions"]
           \/ /\ c.days # 0
              /\ d = [c EXCEPT !.at = "deductions", !.lines = @ \cup
                        {Line("ATTENDANCE_DEDUCTION", None, c.deducted, RunCurrency)}]
    BY <1>11 DEF AbsenceLine, At, GoTo, AddLines
  <2>2. /\ d.at = "deductions" /\ d.absent = c.absent /\ d.base = c.base
        /\ d.days = c.days /\ d.deducted = c.deducted
        /\ \/ c.days = 0 /\ d.lines = c.lines
           \/ /\ c.days # 0
              /\ d.lines = c.lines \cup
                   {Line("ATTENDANCE_DEDUCTION", None, c.deducted, RunCurrency)}
    BY <2>1 DEF Fields
  <2>3. d.lines = c.lines \cup AbsenceLines(Tally(d.days, d.deducted))
    BY <2>2 DEF AbsenceLines, Tally
  <2>4. OnTrail(p, i, d)
    BY <2>1, <2>2, SameTrail DEF Progress
  <2> QED
    BY <2>1, <2>2, <2>3, <2>4 DEF Progress
<1>12. CASE ListDeductions
  <2>1. c.at = "deductions" /\ d = [c EXCEPT !.at = "tax", !.lines = @ \cup DeductionLines(i)]
    BY <1>12 DEF ListDeductions, At, AddLines, DeductionLines
  <2>2. /\ d.at = "tax" /\ d.lines = c.lines \cup DeductionLines(i)
        /\ d.absent = c.absent /\ d.base = c.base
        /\ d.days = c.days /\ d.deducted = c.deducted
    BY <2>1 DEF Fields
  <2>3. d.lines = Untaxed(p, i, Tally(d.days, d.deducted))
    BY <2>1, <2>2 DEF Progress, Untaxed
  <2>4. OnTrail(p, i, d)
    BY <2>1, <2>2, SameTrail DEF Progress
  <2> QED
    BY <2>1, <2>2, <2>3, <2>4 DEF Progress
<1>13. CASE TaxLine
  <2> DEFINE tax == {Line("STATUTORY_DEDUCTION", None,
                          Times(Gross(c.lines), Value(TaxRate, PeriodEnd)), RunCurrency)}
  <2>1. /\ c.at = "tax"
        /\ \/ /\ \/ Missing(TaxRate, PeriodEnd)
                 \/ Known(TaxRate, PeriodEnd) /\ Value(TaxRate, PeriodEnd).num = 0
              /\ d = [c EXCEPT !.at = "record"]
           \/ /\ Known(TaxRate, PeriodEnd) /\ Value(TaxRate, PeriodEnd).num # 0
              /\ d = [c EXCEPT !.at = "record", !.lines = @ \cup tax]
    BY <1>0, <1>13 DEF TaxLine, At, GoTo, AddLines, Abandon, TaxRate
  <2>2. \/ ~IsTaxed(p) /\ d = [c EXCEPT !.at = "record"]
        \/ IsTaxed(p) /\ d = [c EXCEPT !.at = "record", !.lines = @ \cup Tax(p, c.lines)]
    <3>1. /\ Value(TaxRate, PeriodEnd) = ValueIn(p, TaxRate, PeriodEnd)
          /\ Missing(TaxRate, PeriodEnd) => ~IsTaxed(p)
          /\ Known(TaxRate, PeriodEnd) <=> KnownIn(p, TaxRate, PeriodEnd)
      BY InTable DEF IsTaxed
    <3>2. tax = Tax(p, c.lines)
      BY <3>1 DEF Tax
    <3> HIDE DEF tax
    <3> QED
      BY <2>1, <3>1, <3>2 DEF IsTaxed
  <2>3. /\ d.at = "record" /\ d.absent = c.absent /\ d.base = c.base
        /\ d.days = c.days /\ d.deducted = c.deducted
        /\ d.lines = IF IsTaxed(p) THEN c.lines \cup Tax(p, c.lines) ELSE c.lines
    BY <2>2 DEF Fields
  <2>4. OnTrail(p, i, d)
    BY <2>1, <2>3, SameTrail DEF Progress
  <2> QED
    BY <2>1, <2>3, <2>4 DEF Progress
<1>14. ~Record
  BY <1>0 DEF Record
<1> QED
  BY <1>1, <1>2, <1>3, <1>4, <1>5, <1>6, <1>7, <1>8, <1>9, <1>10, <1>11, <1>12, <1>13, <1>14
  DEF Step

\* A payslip that is recorded undisturbed is what the records amount to.
LEMMA RecordedIsReproduced ==
  ASSUME NEW p, NEW i, NEW c, Progress(p, i, c), c.at = "record",
         NEW slip, slip.inputs = i, slip.payslip.lines = c.lines
  PROVE  Reproduced(p, slip)
<1> DEFINE tally == Tally(c.days, c.deducted)
<1>1. /\ \E trail : IsTrail(trail, p, i, {}) /\ trail[{}] = tally
      /\ RatesKnown(p, i)
      /\ c.lines = IF IsTaxed(p) THEN Untaxed(p, i, tally) \cup Tax(p, Untaxed(p, i, tally))
                   ELSE Untaxed(p, i, tally)
  BY DEF Progress, OnTrail
<1> HIDE DEF tally
<1> QED
  BY <1>1 DEF Reproduced

\* A calculation keeps its shape and remembers when it began.
LEMMA StepsAhead ==
  ASSUME Step, ~Record, DOMAIN calculation = Fields, calculation'.at # "idle"
  PROVE  DOMAIN calculation' = Fields /\ calculation'.began = calculation.began
<1> DEFINE c == calculation
           d == calculation'
<1>1. d # Idle
  BY DEF Idle
<1>2. CASE \E point : d = [c EXCEPT !.at = point]
  BY <1>2 DEF Fields
<1>3. CASE \E point, lines : d = [c EXCEPT !.at = point, !.lines = lines]
  BY <1>3 DEF Fields
<1>4. CASE FindCompensation
  BY <1>1, <1>4 DEF FindCompensation, Abandon, Fields
<1>5. CASE FindExisting
  BY <1>1, <1>2, <1>5 DEF FindExisting, Abandon, GoTo
<1>6. CASE ListAllowances
  BY <1>3, <1>6 DEF ListAllowances, AddLines
<1>7. CASE ListOvertime
  BY <1>7 DEF ListOvertime, Fields
<1>8. CASE DailyRate
  BY <1>1, <1>8 DEF DailyRate, Divide, Abandon, Fields
<1>9. CASE HourlyRate
  BY <1>1, <1>9 DEF HourlyRate, Divide, Abandon, Fields
<1>10. CASE OvertimeLine
  BY <1>1, <1>3, <1>10 DEF OvertimeLine, AddLines, Abandon
<1>11. CASE Reconcile
  BY <1>11 DEF Reconcile, Fields
<1>12. CASE FindSchedule
  BY <1>2, <1>12 DEF FindSchedule, GoTo, Fields
<1>13. CASE DeductDay
  BY <1>1, <1>13 DEF DeductDay, Abandon, Fields
<1>14. CASE AbsenceLine
  BY <1>2, <1>3, <1>14 DEF AbsenceLine, GoTo, AddLines
<1>15. CASE ListDeductions
  BY <1>3, <1>15 DEF ListDeductions, AddLines
<1>16. CASE TaxLine
  BY <1>1, <1>2, <1>3, <1>16 DEF TaxLine, GoTo, AddLines, Abandon
<1> QED
  BY <1>4, <1>5, <1>6, <1>7, <1>8, <1>9, <1>10, <1>11, <1>12, <1>13, <1>14, <1>15, <1>16 DEF Step

LEMMA ReproducibleInvHolds == Spec => []ReproducibleInv
<1>1. Init => ReproducibleInv
  BY DEF Init, ReproducibleInv, Idle, Undisturbed
<1>2. ReproducibleInv /\ ParametersInv' /\ [Next]_vars => ReproducibleInv'
  <2> SUFFICES ASSUME ReproducibleInv, ParametersInv', [Next]_vars PROVE ReproducibleInv'
    OBVIOUS
  <2> USE DEF ReproducibleInv
  <2>1. CASE UNCHANGED <<inputs, parameters, calculation, last, changes>>
    BY <2>1 DEF Undisturbed
  <2>2. CASE Calculate
    <3>1. /\ UNCHANGED <<inputs, parameters, last, changes>>
          /\ calculation' = [at |-> "compensation", began |-> <<changes, parameters>>,
                             lines |-> {}, base |-> 0, rate |-> 0,
                             minutes |-> 0, absent |-> {}, days |-> 0, deducted |-> 0]
      BY <2>2 DEF Calculate, OnlyCalculation
    <3>2. /\ DOMAIN calculation' = Fields /\ calculation'.at = "compensation"
          /\ calculation'.began = <<changes, parameters>>
          /\ calculation'.days = 0 /\ calculation'.deducted = 0
      BY <3>1 DEF Fields
    <3>3. Progress(parameters, inputs, calculation')
      BY <3>2 DEF Progress
    <3> QED
      BY <3>1, <3>2, <3>3
  <2>3. CASE Step /\ ~Record
    <3>1. UNCHANGED <<inputs, parameters, last, changes>>
      BY <2>3 DEF Step, OnlyCalculation, FindCompensation, FindExisting, ListAllowances,
        ListOvertime, DailyRate, HourlyRate, OvertimeLine, Reconcile, FindSchedule,
        DeductDay, AbsenceLine, ListDeductions, TaxLine
    <3>2. calculation.at # "idle"
      BY <2>3 DEF Step, At, FindCompensation, FindExisting, ListAllowances,
        ListOvertime, DailyRate, HourlyRate, OvertimeLine, Reconcile, FindSchedule,
        DeductDay, AbsenceLine, ListDeductions, TaxLine
    <3>3. calculation'.at # "idle" =>
            DOMAIN calculation' = Fields /\ calculation'.began = calculation.began
      BY <2>3, <3>2, StepsAhead
    <3>4. ASSUME calculation'.at # "idle", Undisturbed
          PROVE  Progress(parameters, inputs, calculation')
      BY <2>3, <3>2, <3>4, ProgressStep
    <3> QED
      BY <3>1, <3>2, <3>3, <3>4 DEF Undisturbed
  <2>4. CASE Record
    <3>1. /\ UNCHANGED <<inputs, parameters, changes>> /\ calculation'.at = "idle"
          /\ calculation.at = "record"
          /\ last'.inputs = inputs /\ last'.payslip.lines = calculation.lines
          /\ last'.undisturbed <=> calculation.began = <<changes, parameters>>
      BY <2>4 DEF Record, At, Idle
    <3>2. last'.undisturbed => Reproduced(parameters, last')
      BY <3>1, RecordedIsReproduced DEF Undisturbed
    <3> QED
      BY <3>1, <3>2 DEF Undisturbed
  <2>5. ASSUME \/ InsertParameter \/ \E row \in parameters : UpdateParameter(row)
        PROVE  ReproducibleInv'
    <3>1. /\ parameters \subseteq parameters' /\ UNCHANGED <<inputs, calculation, last>>
          /\ changes' = changes \/ changes' = changes + 1
      BY <2>5 DEF InsertParameter, UpdateParameter, Described
    <3>2. Unambiguous(parameters')
      BY DEF ParametersInv, Unambiguous
    <3>3. ASSUME Undisturbed' PROVE Undisturbed /\ parameters' = parameters
      <4>1. calculation.at # "idle" /\ calculation.began = <<changes', parameters'>>
        BY <3>1, <3>3 DEF Undisturbed
      <4>2. changes' \in 0 .. changes /\ parameters' \subseteq parameters /\ changes \in Nat
        BY <4>1
      <4>3. changes' = changes /\ parameters' = parameters
        BY <3>1, <4>2
      <4> QED
        BY <4>1, <4>3 DEF Undisturbed
    <3>4. last # None /\ last.undisturbed => Reproduced(parameters', last)
      BY <3>1, <3>2, ReproducedForGood
    <3> QED
      BY <3>1, <3>3, <3>4
  <2>6. ASSUME NEW f \in DOMAIN inputs, Change(f) PROVE ReproducibleInv'
    <3>1. UNCHANGED <<parameters, calculation, last>> /\ changes' = changes + 1
      BY <2>6 DEF Change
    <3>2. ~Undisturbed'
      BY <3>1 DEF Undisturbed
    <3> QED
      BY <3>1, <3>2
  <2> QED
    <3>1. Clear \/ (\E row \in Creatable : CheckParameter(row)) \/ vars' = vars =>
            UNCHANGED <<inputs, parameters, calculation, last, changes>>
      BY DEF Clear, CheckParameter, vars
    <3> QED
      BY <2>1, <2>2, <2>3, <2>4, <2>5, <2>6, <3>1 DEF Next
<1> QED
  BY <1>1, <1>2, ParametersInvHolds, PTL DEF Spec

\* For every record and every history of the parameters, a rerun of a payroll
\* run gives the employee the same payslip from the same records, but for a tax
\* that had no rate before.
THEOREM RerunsReproduce == Spec => Reproducible
<1>1. ParametersInv /\ ReproducibleInv /\ [Next]_vars =>
        [Records /\ last # None /\ last.undisturbed /\ last'.undisturbed
           /\ last.inputs = inputs =>
           /\ payslip'.lines \ Taxes(payslip') = last.payslip.lines \ Taxes(last.payslip)
           /\ Taxes(last.payslip) \subseteq Taxes(payslip')]_vars
  <2> SUFFICES ASSUME ParametersInv, ReproducibleInv, Next, Records,
                      last # None, last.undisturbed, last'.undisturbed, last.inputs = inputs
               PROVE  /\ payslip'.lines \ Taxes(payslip')
                           = last.payslip.lines \ Taxes(last.payslip)
                      /\ Taxes(last.payslip) \subseteq Taxes(payslip')
    OBVIOUS
  <2>1. Record
    BY DEF Next, Step, Records, Calculate, Clear, CheckParameter, InsertParameter,
      UpdateParameter, Change, OnlyCalculation, FindCompensation, FindExisting,
      ListAllowances, ListOvertime, DailyRate, HourlyRate, OvertimeLine, Reconcile,
      FindSchedule, DeductDay, AbsenceLine, ListDeductions, TaxLine
  <2>2. /\ payslip'.lines = calculation.lines /\ calculation.at = "record"
        /\ Undisturbed
    BY <2>1 DEF Record, At, Undisturbed
  <2> DEFINE p == parameters
             i == inputs
             all(tally) == Untaxed(p, i, tally)
             now == Tally(calculation.days, calculation.deducted)
  <2>3. /\ calculation.absent = {}
        /\ \A trail : IsTrail(trail, p, i, {}) => trail[{}] = now
        /\ calculation.lines = IF IsTaxed(p) THEN all(now) \cup Tax(p, all(now)) ELSE all(now)
    BY <2>2 DEF ReproducibleInv, Progress, OnTrail
  <2>4. PICK tally :
          /\ \E trail : IsTrail(trail, p, i, {}) /\ trail[{}] = tally
          /\ \/ last.payslip.lines = all(tally)
             \/ IsTaxed(p) /\ last.payslip.lines = all(tally) \cup Tax(p, all(tally))
    BY DEF ReproducibleInv, Reproduced
  <2>5. tally = now
    BY <2>3, <2>4
  <2>6. \A l \in all(now) : l.type # "STATUTORY_DEDUCTION"
    BY DEF Untaxed, EarnedLines, OvertimeLines, AbsenceLines, DeductionLines, Line
  <2>7. \A l \in Tax(p, all(now)) : l.type = "STATUTORY_DEDUCTION"
    BY DEF Tax, Line
  <2> QED
    BY <2>2, <2>3, <2>4, <2>5, <2>6, <2>7 DEF Taxes
<1> QED
  BY <1>1, ParametersInvHolds, ReproducibleInvHolds, PTL DEF Spec, Reproducible

-----------------------------------------------------------------------------
(* A payslip pays what is owed *)

RecordFields ==
  {"run", "compensation", "allowances", "overtime", "absent", "works", "deductions"}

RecordsInv ==
  DOMAIN inputs = RecordFields /\ \A f \in RecordFields : inputs[f] \in Possible[f]

LEMMA RecordsInvHolds == Spec => []RecordsInv
<1>1. Init => RecordsInv
  BY DEF Init, RecordsInv, RecordFields
<1>2. RecordsInv /\ [Next]_vars => RecordsInv'
  <2> SUFFICES ASSUME RecordsInv, [Next]_vars PROVE RecordsInv'
    OBVIOUS
  <2>1. CASE UNCHANGED inputs
    BY <2>1 DEF RecordsInv
  <2>2. ASSUME NEW f \in DOMAIN inputs, Change(f) PROVE RecordsInv'
    <3>1. PICK v \in Possible[f] : inputs' = [inputs EXCEPT ![f] = v]
      BY <2>2 DEF Change
    <3> QED
      BY <3>1 DEF RecordsInv
  <2>3. \/ \E f \in DOMAIN inputs : Change(f)
        \/ UNCHANGED inputs
    BY DEF Next, vars, Calculate, Step, Clear, CheckParameter, InsertParameter, UpdateParameter,
      FindCompensation, FindExisting, ListAllowances, ListOvertime, DailyRate, HourlyRate,
      OvertimeLine, Reconcile, FindSchedule, DeductDay, AbsenceLine, ListDeductions, TaxLine,
      Record, OnlyCalculation
  <2> QED
    BY <2>1, <2>2, <2>3
<1> QED
  BY <1>1, <1>2, PTL DEF Spec

\* A value that is known is a rational.
LEMMA ValueIsRational ==
  ASSUME NEW p, Unambiguous(p), NEW key, NEW day \in Int, KnownIn(p, key, day)
  PROVE  ValueIn(p, key, day).num \in Nat /\ ValueIn(p, key, day).den \in Nat \ {0}
<1>1. RowsIn(p, key, day) # {}
  BY OneRowInForce
<1>2. PICK row \in RowsIn(p, key, day) : ValueIn(p, key, day) = row.value
  BY <1>1 DEF ValueIn
<1>3. row \in Configured \cup Creatable
  BY DEF RowsIn, Unambiguous
<1> QED
  BY <1>2, <1>3, AmountsAssumption

\* What an absence on a day costs.
Cost(p, i, day) == Per(i.compensation.amount, ValueIn(p, WorkingDays, day))
Costs(p, i) == [day \in PeriodStart .. PeriodEnd |-> Cost(p, i, day)]
Missed(i) == Absences(i) \cap i.works

LEMMA CostIsNatural ==
  ASSUME NEW p, Unambiguous(p), NEW i, i.compensation.amount \in Nat,
         NEW day \in PeriodStart .. PeriodEnd, Divides(p, WorkingDays, day)
  PROVE  Costs(p, i)[day] = Cost(p, i, day) /\ Cost(p, i, day) \in Nat
<1> DEFINE rate == ValueIn(p, WorkingDays, day)
<1>1. day \in Int
  BY PeriodAssumption
<1>2. rate.num \in Nat \ {0} /\ rate.den \in Nat \ {0}
  BY <1>1, ValueIsRational DEF Divides
<1> HIDE DEF rate
<1>3. i.compensation.amount * rate.den \in Nat
  BY <1>2
<1>4. Cost(p, i, day) = Rounded(i.compensation.amount * rate.den, rate.num)
  BY DEF Cost, Per, rate
<1>5. Cost(p, i, day) \in Nat
  BY <1>2, <1>3, <1>4, RoundedIsNearest
<1> QED
  BY <1>5 DEF Costs

\* A trail to the last day has counted every missed day, and its cost.
LEMMA TrailCounts ==
  ASSUME NEW p, Unambiguous(p), NEW i, i.compensation.amount \in Nat,
         NEW trail, IsTrail(trail, p, i, {})
  PROVE  /\ trail[{}] = Tally(Cardinality(Missed(i)), Sum(Costs(p, i), Missed(i)))
         /\ \A day \in Missed(i) : Divides(p, WorkingDays, day)
<1> DEFINE missed(S) == S \cap i.works
           Counts(S) ==
             /\ \A a, b \in Nat : trail[S] = Tally(a, b) =>
                  trail[{}] = Tally(a + Cardinality(missed(S)),
                                    b + Sum(Costs(p, i), missed(S)))
             /\ \A day \in missed(S) : Divides(p, WorkingDays, day)
           F == {S \in DOMAIN trail : ~Counts(S)}
<1>1. ASSUME NEW S \in DOMAIN trail
      PROVE  S \in SUBSET Absences(i) /\ IsFiniteSet(S) /\ S \subseteq PeriodStart .. PeriodEnd
  <2>1. S \in SUBSET Absences(i) /\ Absences(i) \subseteq PeriodStart .. PeriodEnd
    BY DEF IsTrail, Absences
  <2>2. IsFiniteSet(PeriodStart .. PeriodEnd)
    BY PeriodAssumption, FS_Interval
  <2> QED
    BY <2>1, <2>2, FS_Subset
<1>2. ASSUME F # {} PROVE FALSE
  <2>1. PICK S \in F : \A R \in F : R \subseteq S => R = S
    <3>1. \A S \in F : IsFiniteSet(S)
      BY <1>1
    <3> HIDE DEF F
    <3> QED
      BY <1>2, <3>1, SmallestSet
  <2>2. S \in DOMAIN trail /\ ~Counts(S)
    OBVIOUS
  <2>3. CASE S = {}
    <3>1. missed(S) = {} /\ Cardinality({}) = 0 /\ Sum(Costs(p, i), {}) = 0
      BY <2>3, SumBegins, FS_EmptySet
    <3>2. \A a, b \in Nat : a + 0 = a /\ b + 0 = b
      OBVIOUS
    <3>3. Counts(S)
      BY <2>3, <3>1, <3>2
    <3> QED
      BY <2>2, <3>3
  <2>4. CASE S # {}
    <3> DEFINE day == Min(S)
               R == Rest(S)
    <3>1. /\ R \in DOMAIN trail /\ trail[R] = Counted(p, i, trail[S], day)
          /\ day \in i.works => Divides(p, WorkingDays, day)
      BY <2>2, <2>4 DEF IsTrail
    <3>2. day \in S /\ R = S \ {day} /\ day \in PeriodStart .. PeriodEnd
      BY <1>1, <2>2, <2>4, FirstAbsence DEF Rest
    <3>3. Counts(R)
      <4>1. R \notin F
        BY <2>1, <3>2
      <4> QED
        BY <3>1, <4>1
    <3>4. IsFiniteSet(missed(S)) /\ IsFiniteSet(missed(R))
      BY <1>1, <2>2, <3>1, FS_Intersection
    <3> HIDE DEF day, R, F
    <3>5. CASE day \notin i.works
      <4>1. missed(S) = missed(R) /\ trail[R] = trail[S]
        BY <3>1, <3>2, <3>5 DEF Counted
      <4>2. Counts(S)
        BY <3>3, <4>1
      <4> QED
        BY <2>2, <4>2
    <3>6. CASE day \in i.works
      <4> DEFINE cost == Cost(p, i, day)
      <4>1. missed(S) = missed(R) \cup {day} /\ day \notin missed(R)
        BY <3>2, <3>6
      <4>2. \A x \in missed(S) : Divides(p, WorkingDays, x)
        BY <3>1, <3>3, <3>6, <4>1
      <4>3. \A x \in missed(S) : Costs(p, i)[x] = Cost(p, i, x) /\ Cost(p, i, x) \in Nat
        <5>1. missed(S) \subseteq PeriodStart .. PeriodEnd
          BY <1>1, <2>2
        <5> QED
          BY <4>2, <5>1, CostIsNatural
      <4>4. cost \in Nat /\ Sum(Costs(p, i), missed(S)) = cost + Sum(Costs(p, i), missed(R))
        <5>1. \A x \in missed(R) \cup {day} : Costs(p, i)[x] \in Int
          BY <4>1, <4>3
        <5>2. Sum(Costs(p, i), missed(R) \cup {day})
                = Costs(p, i)[day] + Sum(Costs(p, i), missed(R))
          BY <3>4, <4>1, <5>1, SumAdds
        <5> QED
          BY <4>1, <4>3, <5>2
      <4>5. Cardinality(missed(S)) = Cardinality(missed(R)) + 1 /\ Cardinality(missed(R)) \in Nat
        BY <3>4, <4>1, FS_AddElement, FS_CardinalityType
      <4>6. Sum(Costs(p, i), missed(R)) \in Int
        BY <3>4, <4>1, <4>3, SumIsInteger
      <4>7. ASSUME NEW a \in Nat, NEW b \in Nat, trail[S] = Tally(a, b)
            PROVE  trail[{}] = Tally(a + Cardinality(missed(S)),
                                     b + Sum(Costs(p, i), missed(S)))
        <5>1. trail[R] = Tally(a + 1, b + cost) /\ a + 1 \in Nat /\ b + cost \in Nat
          BY <3>1, <3>6, <4>4, <4>7 DEF Counted, Tally, Cost
        <5>2. trail[{}] = Tally((a + 1) + Cardinality(missed(R)),
                                (b + cost) + Sum(Costs(p, i), missed(R)))
          BY <3>3, <5>1
        <5>3. (a + 1) + Cardinality(missed(R)) = a + Cardinality(missed(S))
          BY <4>5
        <5>4. (b + cost) + Sum(Costs(p, i), missed(R)) = b + Sum(Costs(p, i), missed(S))
          <6> HIDE DEF cost
          <6> QED
            BY <4>4, <4>6
        <5> QED
          BY <5>2, <5>3, <5>4
      <4>8. Counts(S)
        BY <4>2, <4>7
      <4> QED
        BY <2>2, <4>8
    <3> QED
      BY <3>5, <3>6
  <2> QED
    BY <2>3, <2>4
<1>3. Absences(i) \in DOMAIN trail /\ trail[Absences(i)] = Tally(0, 0)
  BY DEF IsTrail
<1>4. Counts(Absences(i))
  BY <1>2, <1>3
<1>5. missed(Absences(i)) = Missed(i)
  BY DEF Missed
<1>6. Cardinality(Missed(i)) \in Nat /\ Sum(Costs(p, i), Missed(i)) \in Int
  <2>1. IsFiniteSet(Missed(i)) /\ Missed(i) \subseteq PeriodStart .. PeriodEnd
    BY <1>1, <1>3, <1>5, FS_Intersection
  <2>2. \A x \in Missed(i) : Costs(p, i)[x] \in Int
    BY <1>4, <1>5, <2>1, CostIsNatural
  <2> QED
    BY <2>1, <2>2, FS_CardinalityType, SumIsInteger
<1>7. trail[{}] = Tally(0 + Cardinality(Missed(i)), 0 + Sum(Costs(p, i), Missed(i)))
  BY <1>3, <1>4, <1>5
<1> QED
  BY <1>4, <1>5, <1>6, <1>7

\* The amount of the overtime, to the three roundings in it.
LEMMA OvertimeAmount ==
  ASSUME NEW p, Unambiguous(p), NEW i, i.compensation.amount \in Nat, i.overtime \in Nat,
         RatesKnown(p, i),
         NEW d, d = ValueIn(p, WorkingDays, PeriodEnd),
         NEW h, h = ValueIn(p, DailyHours, PeriodEnd),
         NEW m, m = ValueIn(p, Multiplier, PeriodEnd)
  PROVE  /\ HaveAmounts(OvertimeLines(p, i))
         /\ i.overtime = 0 => AmountOf(OvertimeLines(p, i)) = 0
         /\ i.overtime # 0 =>
              Within(2 * AmountOf(OvertimeLines(p, i)),
                     2 * i.compensation.amount * i.overtime * d.den * h.den * m.num,
                     i.overtime * m.num * (h.den + h.num) * d.num + 60 * d.num * h.num * m.den,
                     60 * d.num * h.num * m.den)
<1>1. CASE i.overtime = 0
  <2>1. OvertimeLines(p, i) = {}
    BY <1>1 DEF OvertimeLines
  <2> QED
    BY <1>1, <2>1, AmountBegins, FS_EmptySet DEF HaveAmounts
<1>2. CASE i.overtime # 0
  <2> DEFINE amount == OvertimePay(i.compensation.amount, i.overtime, d, h, m)
             line == Line("OVERTIME", None, amount, RunCurrency)
  <2>1. Divides(p, WorkingDays, PeriodEnd) /\ Divides(p, DailyHours, PeriodEnd)
        /\ KnownIn(p, Multiplier, PeriodEnd) /\ PeriodEnd \in Int
    BY <1>2, PeriodAssumption DEF RatesKnown
  <2>2. IsPositive(d) /\ IsPositive(h) /\ m.num \in Nat /\ m.den \in Nat \ {0}
    BY <2>1, ValueIsRational DEF Divides, IsPositive
  <2>3. OvertimeLines(p, i) = {line} /\ line.amount = amount
    BY <1>2 DEF OvertimeLines, HourRate, DayRate, OvertimePay, Line
  <2>4. /\ amount \in Nat
        /\ Within(2 * amount, 2 * i.compensation.amount * i.overtime * d.den * h.den * m.num,
                  i.overtime * m.num * (h.den + h.num) * d.num + 60 * d.num * h.num * m.den,
                  60 * d.num * h.num * m.den)
    BY <2>2, OvertimeIsExact
  <2> HIDE DEF amount, line
  <2>5. HaveAmounts({line}) /\ AmountOf({line}) = amount
    BY <2>3, <2>4, AmountOfOne, FS_Singleton DEF HaveAmounts
  <2> QED
    BY <1>2, <2>3, <2>4, <2>5
<1> QED
  BY <1>1, <1>2

LEMMA OvertimeIsOwed ==
  ASSUME Unambiguous(parameters), inputs.compensation.amount \in Nat, inputs.overtime \in Nat,
         RatesKnown(parameters, inputs),
         NEW slip, Of(slip, "OVERTIME") = AmountOf(OvertimeLines(parameters, inputs))
  PROVE  OvertimeOwed(slip)
<1>1. /\ Value("STANDARD_WORKING_DAYS_PER_MONTH", PeriodEnd)
           = ValueIn(parameters, WorkingDays, PeriodEnd)
      /\ Value("STANDARD_DAILY_HOURS", PeriodEnd) = ValueIn(parameters, DailyHours, PeriodEnd)
      /\ Value("OVERTIME_MULTIPLIER_WEEKDAY", PeriodEnd)
           = ValueIn(parameters, Multiplier, PeriodEnd)
  BY InTable DEF WorkingDays, DailyHours, Multiplier
<1> QED
  BY <1>1, OvertimeAmount DEF OvertimeOwed

\* The amount of the absences is what they cost.
LEMMA AbsencesAmount ==
  ASSUME NEW p, Unambiguous(p), NEW i, i.compensation.amount \in Nat,
         IsFiniteSet(Missed(i)), \A day \in Missed(i) : Divides(p, WorkingDays, day),
         NEW tally, tally = Tally(Cardinality(Missed(i)), Sum(Costs(p, i), Missed(i)))
  PROVE  /\ HaveAmounts(AbsenceLines(tally))
         /\ Missed(i) = {} => AmountOf(AbsenceLines(tally)) = 0
         /\ Missed(i) # {} => AmountOf(AbsenceLines(tally)) = Sum(Costs(p, i), Missed(i))
<1> DEFINE cost == Sum(Costs(p, i), Missed(i))
           line == Line("ATTENDANCE_DEDUCTION", None, cost, RunCurrency)
<1>1. cost \in Nat
  <2>1. Missed(i) \subseteq PeriodStart .. PeriodEnd
    BY DEF Missed, Absences
  <2>2. \A day \in Missed(i) : Costs(p, i)[day] \in Nat
    BY <2>1, CostIsNatural
  <2> QED
    BY <2>2, FoldIsNumber DEF Sum, Unit
<1>2. AbsenceLines(tally) = IF Cardinality(Missed(i)) = 0 THEN {} ELSE {line}
  BY DEF AbsenceLines, Tally
<1>3. Missed(i) = {} <=> Cardinality(Missed(i)) = 0
  BY FS_EmptySet
<1>4. line.amount = cost
  BY DEF Line
<1> HIDE DEF cost, line
<1>5. HaveAmounts({line}) /\ AmountOf({line}) = cost
  BY <1>1, <1>4, AmountOfOne, FS_Singleton DEF HaveAmounts
<1>6. HaveAmounts({}) /\ AmountOf({}) = 0
  BY AmountBegins, FS_EmptySet DEF HaveAmounts
<1> QED
  BY <1>2, <1>3, <1>5, <1>6 DEF cost

LEMMA AbsencesAreOwed ==
  ASSUME Unambiguous(parameters), inputs.compensation.amount \in Nat,
         IsFiniteSet(Missed(inputs)),
         \A day \in Missed(inputs) : Divides(parameters, WorkingDays, day),
         NEW slip,
         Missed(inputs) = {} => Of(slip, "ATTENDANCE_DEDUCTION") = 0,
         Missed(inputs) # {} =>
           Of(slip, "ATTENDANCE_DEDUCTION") = Sum(Costs(parameters, inputs), Missed(inputs))
  PROVE  AbsencesOwed(slip)
<1> DEFINE days == inputs.absent \cap inputs.works \cap (PeriodStart .. PeriodEnd)
           base == inputs.compensation.amount
           Rate(day) == Value("STANDARD_WORKING_DAYS_PER_MONTH", day)
           numbers == {Rate(day).num : day \in days}
           product == ProductSet(numbers)
           Share(day) == base * Rate(day).den * (product \div Rate(day).num)
           shares == [day \in days |-> Share(day)]
           costs == Costs(parameters, inputs)
<1>0. days = Missed(inputs)
  BY DEF Missed, Absences
<1>1. ASSUME NEW day \in days
      PROVE  /\ Rate(day) = ValueIn(parameters, WorkingDays, day)
             /\ Rate(day).num \in Nat \ {0} /\ Rate(day).den \in Nat \ {0}
             /\ costs[day] = Rounded(base * Rate(day).den, Rate(day).num)
  <2>1. Rate(day) = ValueIn(parameters, WorkingDays, day)
    BY InTable DEF WorkingDays
  <2>2. day \in PeriodStart .. PeriodEnd /\ day \in Int
    BY PeriodAssumption
  <2>5. Divides(parameters, WorkingDays, day)
    BY <1>0
  <2> HIDE DEF Rate, days
  <2>3. Rate(day).num \in Nat \ {0} /\ Rate(day).den \in Nat \ {0}
    BY <2>1, <2>2, <2>5, ValueIsRational DEF Divides
  <2>4. costs[day] = Rounded(base * Rate(day).den, Rate(day).num)
    BY <2>1, <2>2, <2>5, CostIsNatural DEF Cost, Per
  <2> QED
    BY <2>1, <2>3, <2>4
<1>2. AbsencesOwed(slip) <=>
        IF days = {} THEN Of(slip, "ATTENDANCE_DEDUCTION") = 0
        ELSE Within(2 * Of(slip, "ATTENDANCE_DEDUCTION"), 2 * MapThenSumSet(Share, days),
                    Cardinality(days) * product, product)
  BY DEF AbsencesOwed
<1>3. MapThenSumSet(Share, days) = Sum(shares, days)
  <2> DEFINE Recursive(sum) ==
               sum = [s \in SUBSET days |->
                        IF s = {} THEN 0 ELSE Share(Picked(s)) + sum[Others(s)]]
  <2> HIDE DEF days, product, Rate
  <2>1. MapThenSumSet(Share, days) = (CHOOSE sum : Recursive(sum))[days]
    BY DEF MapThenSumSet, MapThenFoldSet, Picked, Others
  <2>2. ASSUME NEW sum PROVE Recursive(sum) <=> IsFold("sum", shares, sum, days)
    <3>1. ASSUME NEW s \in SUBSET days, s # {} PROVE shares[Picked(s)] = Share(Picked(s))
      BY <3>1, OthersAreFewer
    <3> HIDE DEF shares, Share
    <3> QED
      BY <3>1 DEF IsFold, Unit, Joined
  <2> HIDE DEF Recursive
  <2>3. (CHOOSE sum : Recursive(sum)) = (CHOOSE sum : IsFold("sum", shares, sum, days))
    BY <2>2
  <2> QED
    BY <2>1, <2>3 DEF Sum, Folded
<1> HIDE DEF Rate, days, costs, base
<1>4. IsFiniteSet(numbers) /\ numbers \subseteq Nat \ {0}
  <2> DEFINE number == [day \in days |-> Rate(day).num]
  <2>1. IsFiniteSet(days) /\ numbers = {number[day] : day \in days}
    BY <1>0
  <2> HIDE DEF number, numbers
  <2>2. IsFiniteSet(numbers)
    BY <2>1, FiniteValues
  <2> QED
    BY <1>1, <2>2 DEF numbers
<1>5. /\ product \in Nat \ {0}
      /\ \A x \in numbers : product \div x \in Nat /\ x * (product \div x) = product
  <2> HIDE DEF numbers
  <2> QED
    BY <1>4, ProductIsMultiple
<1>6. ASSUME NEW day \in days
      PROVE  /\ costs[day] \in Int /\ shares[day] \in Int
             /\ Within(2 * costs[day], 2 * shares[day], product, product)
  <2> DEFINE num == Rate(day).num
             den == Rate(day).den
             k == product \div num
             cost == costs[day]
  <2>1. num \in Nat \ {0} /\ den \in Nat \ {0} /\ cost = Rounded(base * den, num)
    BY <1>1
  <2>2. k \in Nat /\ num * k = product /\ shares[day] = base * den * k
    BY <1>5
  <2>3. base \in Nat
    BY DEF base
  <2> HIDE DEF num, den, k, cost, shares, product
  <2>4. cost \in Nat /\ Within(2 * cost, 2 * (base * den), num, num)
    <3>1. base * den \in Nat
      BY <2>1, <2>3
    <3> QED
      BY <2>1, <3>1, RoundedIsNearest, RoundedWithin
  <2>5. /\ 2 * (base * den) * k - num * k <= 2 * cost * num * k
        /\ 2 * cost * num * k <= 2 * (base * den) * k + num * k
    <3>1. 2 * cost \in Int /\ 2 * (base * den) \in Int /\ num \in Int
      BY <2>1, <2>3, <2>4
    <3> QED
      BY <2>2, <2>4, <3>1, WithinScaled, Zenon
  <2>6. 2 * cost * num * k = 2 * cost * product /\ 2 * (base * den) * k = 2 * shares[day]
    BY <2>1, <2>2, <2>3, <2>4
  <2>7. shares[day] \in Int
    BY <2>1, <2>2, <2>3
  <2>8. Within(2 * cost, 2 * shares[day], product, product)
    BY <2>2, <2>5, <2>6 DEF Within
  <2> QED
    BY <2>4, <2>7, <2>8 DEF cost
<1> HIDE DEF shares, product
<1>7. Within(2 * Sum(costs, days), 2 * Sum(shares, days), Cardinality(days) * product, product)
  <2>1. IsFiniteSet(days) /\ product \in Nat
    BY <1>0, <1>5
  <2> QED
    BY <1>6, <2>1, SumWithin
<1> QED
  BY <1>0, <1>2, <1>3, <1>7 DEF costs

\* What the lines of a payslip amount to, type by type.
LEMMA PayslipAmounts ==
  ASSUME NEW p, NEW i, NEW tally, NEW tax, HaveAmounts(tax),
         \A l \in tax : l.type = "STATUTORY_DEDUCTION",
         i.compensation.amount \in Nat, AreEntries(i.allowances), AreEntries(i.deductions),
         HaveAmounts(OvertimeLines(p, i)), HaveAmounts(AbsenceLines(tally)),
         NEW lines, lines = Untaxed(p, i, tally) \cup tax
  PROVE  /\ Total(lines, {"OVERTIME"}) = AmountOf(OvertimeLines(p, i))
         /\ Total(lines, {"ATTENDANCE_DEDUCTION"}) = AmountOf(AbsenceLines(tally))
         /\ Total(lines, {"STATUTORY_DEDUCTION"}) = AmountOf(tax)
         /\ Total(lines, Earnings)
              = i.compensation.amount + AmountOf(i.allowances) + AmountOf(OvertimeLines(p, i))
         /\ Total(lines, Deducted)
              = AmountOf(AbsenceLines(tally)) + AmountOf(i.deductions) + AmountOf(tax)
<1> DEFINE salary == Line("BASE_SALARY", i.compensation.id, i.compensation.amount,
                          i.compensation.currency)
           base == {salary}
           allowances == LinesOf("ALLOWANCE", i.allowances)
           deductions == LinesOf("NON_STATUTORY_DEDUCTION", i.deductions)
           overtime == OvertimeLines(p, i)
           absences == AbsenceLines(tally)
           Are(S, type) == \A l \in S : l.type = type
           Selected(types) == {l \in lines : l.type \in types}
<1>1. lines = base \cup allowances \cup overtime \cup absences \cup deductions \cup tax
  BY DEF Untaxed, EarnedLines, DeductionLines, LinesOf
<1>2. /\ Are(base, "BASE_SALARY") /\ Are(allowances, "ALLOWANCE")
      /\ Are(overtime, "OVERTIME") /\ Are(absences, "ATTENDANCE_DEDUCTION")
      /\ Are(deductions, "NON_STATUTORY_DEDUCTION") /\ Are(tax, "STATUTORY_DEDUCTION")
  BY DEF LinesOf, OvertimeLines, AbsenceLines, Line
<1>3. salary.amount = i.compensation.amount
  BY DEF Line
<1>4. /\ HaveAmounts(base) /\ HaveAmounts(allowances) /\ HaveAmounts(overtime)
      /\ HaveAmounts(absences) /\ HaveAmounts(deductions) /\ HaveAmounts(tax)
  BY <1>3, FS_Singleton, AmountOfLines DEF HaveAmounts
<1>5. /\ AmountOf(base) = i.compensation.amount
      /\ AmountOf(allowances) = AmountOf(i.allowances)
      /\ AmountOf(deductions) = AmountOf(i.deductions)
  BY <1>3, AmountOfOne, AmountOfLines
<1>6. \A types : Total(lines, types) = AmountOf(Selected(types))
  BY DEF Total, AmountOf
<1> HIDE DEF salary, base, allowances, deductions, overtime, absences
<1>7. /\ Selected({"OVERTIME"}) = overtime
      /\ Selected({"ATTENDANCE_DEDUCTION"}) = absences
      /\ Selected({"STATUTORY_DEDUCTION"}) = tax
  BY <1>1, <1>2
<1>8. Selected(Earnings) = (base \cup allowances) \cup overtime
  BY <1>1, <1>2 DEF Earnings
<1>9. Selected(Deducted) = (absences \cup deductions) \cup tax
  BY <1>1, <1>2 DEF Deducted
<1>10. ASSUME NEW A, NEW B, NEW C, HaveAmounts(A), HaveAmounts(B), HaveAmounts(C),
              A \cap B = {}, (A \cup B) \cap C = {}
       PROVE  AmountOf((A \cup B) \cup C) = AmountOf(A) + AmountOf(B) + AmountOf(C)
  <2>1. HaveAmounts(A \cup B)
    BY <1>10, FS_Union DEF HaveAmounts
  <2>2. AmountOf((A \cup B) \cup C) = AmountOf(A \cup B) + AmountOf(C)
    BY <1>10, <2>1, AmountOfBoth
  <2>3. AmountOf(A \cup B) = AmountOf(A) + AmountOf(B)
    BY <1>10, AmountOfBoth
  <2> QED
    BY <2>2, <2>3
<1>11. AmountOf((base \cup allowances) \cup overtime)
         = AmountOf(base) + AmountOf(allowances) + AmountOf(overtime)
  <2>1. base \cap allowances = {} /\ (base \cup allowances) \cap overtime = {}
    BY <1>2
  <2> HIDE DEF Are, Selected
  <2> QED
    BY <1>4, <1>10, <2>1
<1>12. AmountOf((absences \cup deductions) \cup tax)
         = AmountOf(absences) + AmountOf(deductions) + AmountOf(tax)
  <2>1. absences \cap deductions = {} /\ (absences \cup deductions) \cap tax = {}
    BY <1>2
  <2> HIDE DEF Are, Selected
  <2> QED
    BY <1>4, <1>10, <2>1
<1> HIDE DEF Selected
<1> QED
  BY <1>5, <1>6, <1>7, <1>8, <1>9, <1>11, <1>12 DEF overtime, absences

\* The tax on a gross amount: none without a rate, or what it takes of it.
TaxLines(p, lines) == IF IsTaxed(p) THEN Tax(p, lines) ELSE {}

LEMMA TaxAmount ==
  ASSUME NEW p, Unambiguous(p), NEW all, Gross(all) \in Nat,
         NEW t, t = ValueIn(p, TaxRate, PeriodEnd)
  PROVE  /\ HaveAmounts(TaxLines(p, all))
         /\ ~KnownIn(p, TaxRate, PeriodEnd) => AmountOf(TaxLines(p, all)) = 0
         /\ KnownIn(p, TaxRate, PeriodEnd) =>
              Within(2 * AmountOf(TaxLines(p, all)), 2 * Gross(all) * t.num, t.den, t.den)
<1> DEFINE gross == Gross(all)
           tax == Times(gross, t)
           line == Line("STATUTORY_DEDUCTION", None, tax, RunCurrency)
<1>1. KnownIn(p, TaxRate, PeriodEnd) => t.num \in Nat /\ t.den \in Nat \ {0}
  BY PeriodAssumption, ValueIsRational
<1>2. TaxLines(p, all) = IF IsTaxed(p) THEN {line} ELSE {}
  BY DEF TaxLines, Tax
<1>3. IsTaxed(p) <=> KnownIn(p, TaxRate, PeriodEnd) /\ t.num # 0
  BY DEF IsTaxed
<1>4. line.amount = tax /\ tax = Rounded(gross * t.num, t.den)
  BY DEF Line, Times
<1>5. gross \in Nat
  OBVIOUS
<1> HIDE DEF gross, tax, line
<1>6. CASE ~IsTaxed(p)
  <2>1. HaveAmounts(TaxLines(p, all)) /\ AmountOf(TaxLines(p, all)) = 0
    BY <1>2, <1>6, AmountBegins, FS_EmptySet DEF HaveAmounts
  <2>2. ASSUME KnownIn(p, TaxRate, PeriodEnd)
        PROVE  Within(2 * 0, 2 * gross * t.num, t.den, t.den)
    BY <1>1, <1>3, <1>5, <1>6, <2>2 DEF Within
  <2> QED
    BY <2>1, <2>2 DEF gross
<1>7. CASE IsTaxed(p)
  <2>1. t.num \in Nat /\ t.den \in Nat \ {0}
    BY <1>1, <1>3, <1>7
  <2>2. gross * t.num \in Nat /\ 2 * gross * t.num = 2 * (gross * t.num)
    BY <1>5, <2>1
  <2>3. tax \in Nat /\ Within(2 * tax, 2 * (gross * t.num), t.den, t.den)
    BY <1>4, <2>1, <2>2, RoundedIsNearest, RoundedWithin
  <2>4. TaxLines(p, all) = {line} /\ HaveAmounts({line}) /\ AmountOf({line}) = tax
    BY <1>2, <1>4, <1>7, <2>3, AmountOfOne, FS_Singleton DEF HaveAmounts
  <2> QED
    BY <1>3, <1>7, <2>2, <2>3, <2>4 DEF gross
<1> QED
  BY <1>6, <1>7

LEMMA TaxIsOwed ==
  ASSUME Unambiguous(parameters), NEW all, Gross(all) \in Nat,
         NEW slip, slip.gross = Gross(all),
         Of(slip, "STATUTORY_DEDUCTION") = AmountOf(TaxLines(parameters, all))
  PROVE  TaxOwed(slip)
<1>1. Value("STATUTORY_TAX_RATE", PeriodEnd) = ValueIn(parameters, TaxRate, PeriodEnd)
  BY InTable DEF TaxRate
<1>2. Missing("STATUTORY_TAX_RATE", PeriodEnd) <=> ~KnownIn(parameters, TaxRate, PeriodEnd)
  <2>1. RowsIn(parameters, TaxRate, PeriodEnd) = InForce("STATUTORY_TAX_RATE", PeriodEnd)
    BY DEF RowsIn, InForce, TaxRate
  <2>2. KnownIn(parameters, TaxRate, PeriodEnd) <=> RowsIn(parameters, TaxRate, PeriodEnd) # {}
    BY PeriodAssumption, OneRowInForce
  <2> QED
    BY <2>1, <2>2 DEF Missing
<1> QED
  BY <1>1, <1>2, TaxAmount DEF TaxOwed

\* A payslip that nobody disturbed, of the records and the parameters there are.
LEMMA UndisturbedIsOwed ==
  ASSUME Unambiguous(parameters), RecordsInv,
         NEW tally, NEW all, all = Untaxed(parameters, inputs, tally),
         NEW trail, IsTrail(trail, parameters, inputs, {}), trail[{}] = tally,
         RatesKnown(parameters, inputs), inputs.compensation # None,
         NEW slip, slip.lines = all \cup TaxLines(parameters, all),
         slip.gross = Gross(slip.lines),
         slip.net = Gross(slip.lines) - Total(slip.lines, Deducted)
  PROVE  OvertimeOwed(slip) /\ AbsencesOwed(slip) /\ TaxOwed(slip) /\ NetOwed(slip)
<1> DEFINE p == parameters
           i == inputs
           tax == TaxLines(p, all)
<1>1. /\ i.compensation.amount \in Nat /\ i.overtime \in Nat
      /\ AreEntries(i.allowances) /\ AreEntries(i.deductions)
  <2>1. /\ i.compensation \in Possible.compensation \ {None}
        /\ i.overtime \in Possible.overtime
        /\ i.allowances \in Possible.allowances \cup Possible.deductions
        /\ i.deductions \in Possible.allowances \cup Possible.deductions
    BY DEF RecordsInv, RecordFields
  <2> QED
    BY <2>1, AmountsAssumption DEF AreEntries, HaveAmounts
<1>2. /\ tally = Tally(Cardinality(Missed(i)), Sum(Costs(p, i), Missed(i)))
      /\ \A day \in Missed(i) : Divides(p, WorkingDays, day)
  BY <1>1, TrailCounts
<1>3. IsFiniteSet(Missed(i))
  <2>1. Missed(i) \subseteq PeriodStart .. PeriodEnd
    BY DEF Missed, Absences
  <2> QED
    BY <2>1, PeriodAssumption, FS_Interval, FS_Subset
<1>4. /\ HaveAmounts(AbsenceLines(tally))
      /\ Missed(i) = {} => AmountOf(AbsenceLines(tally)) = 0
      /\ Missed(i) # {} => AmountOf(AbsenceLines(tally)) = Sum(Costs(p, i), Missed(i))
  BY <1>1, <1>2, <1>3, AbsencesAmount
<1>5. HaveAmounts(OvertimeLines(p, i))
  BY <1>1, OvertimeAmount
<1>6. Gross(all) \in Nat
  <2>1. all = all \cup {} /\ HaveAmounts({}) /\ \A l \in {} : l.type = "STATUTORY_DEDUCTION"
    BY FS_EmptySet DEF HaveAmounts
  <2>2. Gross(all) = i.compensation.amount + AmountOf(i.allowances) + AmountOf(OvertimeLines(p, i))
    BY <1>1, <1>4, <1>5, <2>1, PayslipAmounts DEF Gross
  <2>3. AmountOf(i.allowances) \in Nat /\ AmountOf(OvertimeLines(p, i)) \in Nat
    BY <1>1, <1>5, AmountIsNatural DEF AreEntries
  <2> QED
    BY <1>1, <2>2, <2>3
<1>7. HaveAmounts(tax) /\ \A l \in tax : l.type = "STATUTORY_DEDUCTION"
  <2>1. HaveAmounts(tax)
    BY <1>6, TaxAmount
  <2>2. \A l \in tax : l.type = "STATUTORY_DEDUCTION"
    BY DEF TaxLines, Tax, Line
  <2> QED
    BY <2>1, <2>2
<1>8. /\ Of(slip, "OVERTIME") = AmountOf(OvertimeLines(p, i))
      /\ Of(slip, "ATTENDANCE_DEDUCTION") = AmountOf(AbsenceLines(tally))
      /\ Of(slip, "STATUTORY_DEDUCTION") = AmountOf(tax)
      /\ Gross(slip.lines)
           = i.compensation.amount + AmountOf(i.allowances) + AmountOf(OvertimeLines(p, i))
      /\ Total(slip.lines, Deducted)
           = AmountOf(AbsenceLines(tally)) + AmountOf(i.deductions) + AmountOf(tax)
  BY <1>1, <1>4, <1>5, <1>7, PayslipAmounts DEF Of, Gross
<1>9. OvertimeOwed(slip)
  BY <1>1, <1>8, OvertimeIsOwed
<1>10. AbsencesOwed(slip)
  BY <1>1, <1>2, <1>3, <1>4, <1>8, AbsencesAreOwed
<1>11. TaxOwed(slip)
  <2>1. Gross(all) = Gross(slip.lines)
    <3>1. {l \in all : l.type \in Earnings} = {l \in slip.lines : l.type \in Earnings}
      BY <1>7 DEF Earnings
    <3> QED
      BY <3>1 DEF Gross, Total
  <2> QED
    BY <1>6, <1>8, <2>1, TaxIsOwed
<1>12. NetOwed(slip)
  <2>1. /\ AmountOf(OvertimeLines(p, i)) \in Nat /\ AmountOf(AbsenceLines(tally)) \in Nat
        /\ AmountOf(tax) \in Nat /\ AmountOf(i.allowances) \in Nat
        /\ AmountOf(i.deductions) \in Nat
    BY <1>1, <1>4, <1>5, <1>7, AmountIsNatural DEF AreEntries
  <2>2. NetOwed(slip) <=>
          slip.net = i.compensation.amount + AmountOf(i.allowances)
            + Of(slip, "OVERTIME") - Of(slip, "ATTENDANCE_DEDUCTION")
            - AmountOf(i.deductions) - Of(slip, "STATUTORY_DEDUCTION")
    BY DEF NetOwed, AmountOf
  <2> HIDE DEF p, i, tax
  <2> QED
    BY <1>1, <1>8, <2>1, <2>2
<1> QED
  BY <1>9, <1>10, <1>11, <1>12

\* For every record, amount and history of the parameters, a payslip that no
\* other call overtook pays the salary, the allowances, the overtime and the
\* absences at their rates, the deductions and the tax: to the roundings of the
\* rates and nothing else.
THEOREM PayslipsPayWhatIsOwed == Spec => PaysWhatIsOwed
<1>1. ParametersInv /\ ReproducibleInv /\ RecordsInv /\ [Next]_vars =>
        [Records /\ last'.undisturbed =>
           /\ OvertimeOwed(payslip') /\ AbsencesOwed(payslip')
           /\ TaxOwed(payslip') /\ NetOwed(payslip')]_vars
  <2> SUFFICES ASSUME ParametersInv, ReproducibleInv, RecordsInv, Next, Records,
                      last'.undisturbed
               PROVE  /\ OvertimeOwed(payslip') /\ AbsencesOwed(payslip')
                      /\ TaxOwed(payslip') /\ NetOwed(payslip')
    OBVIOUS
  <2>1. Record
    BY DEF Next, Step, Records, Calculate, Clear, CheckParameter, InsertParameter,
      UpdateParameter, Change, OnlyCalculation, FindCompensation, FindExisting,
      ListAllowances, ListOvertime, DailyRate, HourlyRate, OvertimeLine, Reconcile,
      FindSchedule, DeductDay, AbsenceLine, ListDeductions, TaxLine
  <2> DEFINE slip == payslip'
             tally == Tally(calculation.days, calculation.deducted)
             all == Untaxed(parameters, inputs, tally)
  <2>2. /\ slip.lines = calculation.lines /\ slip.gross = Gross(slip.lines)
        /\ slip.net = Gross(slip.lines) - Total(slip.lines, Deducted)
        /\ calculation.at = "record" /\ Undisturbed
    BY <2>1 DEF Record, At, Undisturbed
  <2>3. Progress(parameters, inputs, calculation)
    BY <2>2 DEF ReproducibleInv
  <2>4. /\ inputs.compensation # None /\ RatesKnown(parameters, inputs)
        /\ OnTrail(parameters, inputs, calculation) /\ calculation.absent = {}
        /\ calculation.lines = IF IsTaxed(parameters) THEN all \cup Tax(parameters, all)
                               ELSE all
    BY <2>2, <2>3 DEF Progress
  <2>5. PICK trail : IsTrail(trail, parameters, inputs, {}) /\ trail[{}] = tally
    BY <2>4 DEF OnTrail
  <2>6. slip.lines = all \cup TaxLines(parameters, all)
    BY <2>2, <2>4 DEF TaxLines
  <2>7. Unambiguous(parameters)
    BY DEF ParametersInv, Unambiguous
  <2> HIDE DEF slip, tally
  <2>8. OvertimeOwed(slip) /\ AbsencesOwed(slip) /\ TaxOwed(slip) /\ NetOwed(slip)
    BY <2>2, <2>4, <2>5, <2>6, <2>7, UndisturbedIsOwed
  <2> QED
    BY <2>8 DEF slip
<1> QED
  BY <1>1, ParametersInvHolds, ReproducibleInvHolds, RecordsInvHolds, PTL
  DEF Spec, PaysWhatIsOwed

=============================================================================
