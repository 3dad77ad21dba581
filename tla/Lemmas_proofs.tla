--------------------------- MODULE Lemmas_proofs ----------------------------
(***************************************************************************)
(* Lemmas that the proofs about several modules share: remainders, which   *)
(* slots and rings are counted by, and what the operations on lists of     *)
(* process ids do to the members and to the absence of duplicates, and the *)
(* sums of the community module Functions over finite sets.                *)
(***************************************************************************)
EXTENDS HarqLists, FiniteSets, Functions, FiniteSetTheorems, WellFoundedInduction,
        NaturalsInduction, TLAPS

----------------------------------------------------------------------------
(* Remainders.                                                              *)

(* Quotient and remainder.                                                   *)
LEMMA ModParts ==
  ASSUME NEW a \in Int, NEW n \in Nat \ {0}
  PROVE  /\ a \div n \in Int /\ a % n \in 0 .. n - 1
         /\ a = n * (a \div n) + (a % n)
  OBVIOUS

(* There is one quotient and one remainder.                                  *)
LEMMA ModUnique ==
  ASSUME NEW a \in Int, NEW n \in Nat \ {0}, NEW q \in Int, NEW r \in 0 .. n - 1, a = n * q + r
  PROVE  a % n = r /\ a \div n = q
  OBVIOUS

(* Multiples of the divisor do not change the remainder.                     *)
LEMMA ModShift ==
  ASSUME NEW a \in Int, NEW n \in Nat \ {0}, NEW k \in Int
  PROVE  (a + n * k) % n = a % n /\ (a + n * k) \div n = (a \div n) + k
<1> DEFINE q == a \div n
           r == a % n
<1>1. q \in Int /\ r \in 0 .. n - 1 /\ a = n * q + r BY ModParts
<1> HIDE DEF q, r
<1>2. a + n * k = n * (q + k) + r /\ q + k \in Int /\ a + n * k \in Int BY <1>1, SMT
<1>3. (a + n * k) % n = r /\ (a + n * k) \div n = q + k BY <1>1, <1>2, ModUnique
<1> QED BY <1>3 DEF q, r

(* Only the remainder of a summand counts.                                   *)
LEMMA ModSum ==
  ASSUME NEW a \in Int, NEW n \in Nat \ {0}, NEW b \in Int
  PROVE  ((a % n) + b) % n = (a + b) % n
<1> DEFINE q == a \div n
           r == a % n
<1>1. q \in Int /\ r \in Int /\ a = n * q + r BY ModParts
<1> HIDE DEF q, r
<1>2. a + b = (r + b) + n * q /\ r + b \in Int BY <1>1, SMT
<1> DEFINE s == r + b
<1> HIDE DEF s
<1>3. (s + n * q) % n = s % n BY <1>1, <1>2, ModShift DEF s
<1>4. (a + b) % n = (r + b) % n BY <1>2, <1>3, Zenon DEF s
<1> QED BY <1>4 DEF r

(* The remainder of a remainder by a multiple of the divisor.                *)
LEMMA ModMod ==
  ASSUME NEW a \in Int, NEW n \in Nat \ {0}, NEW m \in Nat \ {0}, NEW c \in Nat \ {0}
  PROVE  c = n * m => (a % c) % n = a % n
<1> DEFINE q == a \div c
           r == a % c
           k == m * q
<1>1. q \in Int /\ r \in Int /\ a = c * q + r BY ModParts
<1> HIDE DEF q, r
<1>2. k \in Int /\ (c = n * m => c * q = n * k) BY <1>1, SMT
<1> HIDE DEF k
<1>3. c * q \in Int /\ n * k \in Int BY <1>1, <1>2, SMT
<1>4. c = n * m => a = r + n * k BY <1>1, <1>2, <1>3, SMT
<1>5. (r + n * k) % n = r % n BY <1>1, <1>2, ModShift
<1> QED BY <1>4, <1>5, Zenon DEF r

(* Less than the divisor apart and with one remainder: the same number.      *)
LEMMA ModSame ==
  ASSUME NEW a \in Int, NEW b \in Int, NEW n \in Nat \ {0}, a % n = b % n,
         a - b < n, b - a < n
  PROVE  a = b
<1> DEFINE q == a \div n
           r == a % n
           p == b \div n
<1>1. q \in Int /\ p \in Int /\ r \in Int /\ a = n * q + r /\ b = n * p + r BY ModParts
<1> HIDE DEF q, r, p
<1>2. a - b = n * (q - p) /\ q - p \in Int BY <1>1, SMT
<1>3. \A k \in Int : n * k < n /\ n * k > 0 - n => k = 0 OBVIOUS
<1>4. q - p = 0 BY <1>2, <1>3, SMT
<1> QED BY <1>1, <1>4, SMT

(* One turn more.                                                            *)
LEMMA ModTurn ==
  ASSUME NEW a \in Int, NEW n \in Nat \ {0}
  PROVE  (a + n) % n = a % n
<1> DEFINE q == a \div n
           r == a % n
<1>1. q \in Int /\ r \in 0 .. n - 1 /\ a = n * q + r
  BY ModParts
<1> HIDE DEF q, r
<1>2. a + n = n * (q + 1) + r
  BY <1>1, SMT
<1>3. (a + n) % n = r
  BY <1>1, <1>2, ModUnique
<1>4. QED
  BY <1>3 DEF r

----------------------------------------------------------------------------
(* Lists.                                                                   *)

(* The empty list.                                                          *)
LEMMA NoElems == Elems(<<>>) = {} /\ Once(<<>>)
  BY DEF Elems, Once

(* Only the empty list has no members.                                      *)
LEMMA SomeElems ==
  ASSUME NEW S, NEW s \in Seq(S), s # <<>>
  PROVE  Head(s) \in Elems(s) /\ Elems(s) \subseteq S
<1>1. Len(s) \in Nat \ {0} /\ Head(s) = s[1]
  OBVIOUS
<1>2. QED
  BY <1>1 DEF Elems

(* add_tail_nr_list() adds one member, which was not there.                 *)
LEMMA ElemsAppend ==
  ASSUME NEW S, NEW s \in Seq(S), NEW e \in S
  PROVE  /\ Append(s, e) \in Seq(S)
         /\ Elems(Append(s, e)) = Elems(s) \cup {e}
         /\ Once(s) /\ e \notin Elems(s) => Once(Append(s, e))
<1>1. /\ Append(s, e) \in Seq(S)
      /\ Len(Append(s, e)) = Len(s) + 1 /\ Len(s) \in Nat
      /\ \A i \in 1 .. Len(s) : Append(s, e)[i] = s[i]
      /\ Append(s, e)[Len(s) + 1] = e
  OBVIOUS
<1>2. Elems(Append(s, e)) = Elems(s) \cup {e}
  BY <1>1 DEF Elems
<1>3. ASSUME Once(s), e \notin Elems(s),
             NEW i \in 1 .. Len(s) + 1, NEW j \in 1 .. Len(s) + 1,
             Append(s, e)[i] = Append(s, e)[j]
      PROVE  i = j
  <2>1. \A k \in 1 .. Len(s) : Append(s, e)[k] # e
    BY <1>1, <1>3 DEF Elems
  <2>2. QED
    BY <1>1, <1>3, <2>1 DEF Once
<1>4. QED
  BY <1>1, <1>2, <1>3 DEF Once

(* remove_front_nr_list() takes the first member away for good.             *)
LEMMA ElemsTail ==
  ASSUME NEW S, NEW s \in Seq(S), s # <<>>
  PROVE  /\ Tail(s) \in Seq(S)
         /\ Head(s) \in S
         /\ Elems(s) = Elems(Tail(s)) \cup {Head(s)}
         /\ Once(s) => Once(Tail(s)) /\ Head(s) \notin Elems(Tail(s))
<1>1. /\ Tail(s) \in Seq(S) /\ Head(s) \in S /\ Head(s) = s[1]
      /\ Len(s) \in Nat \ {0} /\ Len(Tail(s)) = Len(s) - 1
      /\ \A i \in 1 .. Len(s) - 1 : Tail(s)[i] = s[i + 1]
  OBVIOUS
<1>2. Elems(s) = Elems(Tail(s)) \cup {Head(s)}
  <2>1. \A i \in 2 .. Len(s) : i - 1 \in 1 .. Len(s) - 1 /\ s[i] = Tail(s)[i - 1]
    BY <1>1
  <2>2. ASSUME NEW x \in Elems(s) PROVE x = Head(s) \/ x \in Elems(Tail(s))
    BY <1>1, <2>1 DEF Elems
  <2>3. ASSUME NEW x \in Elems(Tail(s)) PROVE x \in Elems(s)
    BY <1>1 DEF Elems
  <2>4. Head(s) \in Elems(s)
    BY <1>1 DEF Elems
  <2>5. QED
    BY <2>2, <2>3, <2>4
<1>3. ASSUME Once(s) PROVE Once(Tail(s)) /\ Head(s) \notin Elems(Tail(s))
  BY <1>1, <1>3 DEF Once, Elems
<1>4. QED
  BY <1>1, <1>2, <1>3

(* Where the members of two lists are when one is put behind the other.     *)
LEMMA Joined ==
  ASSUME NEW S, NEW s \in Seq(S), NEW t \in Seq(S)
  PROVE  /\ s \o t \in Seq(S) /\ Len(s \o t) = Len(s) + Len(t)
         /\ \A i \in 1 .. Len(s) : (s \o t)[i] = s[i]
         /\ \A i \in Len(s) + 1 .. Len(s) + Len(t) : (s \o t)[i] = t[i - Len(s)]
  OBVIOUS

(* A list put behind another one with other members.                        *)
LEMMA ElemsConcat ==
  ASSUME NEW S, NEW s \in Seq(S), NEW t \in Seq(S)
  PROVE  /\ s \o t \in Seq(S)
         /\ Elems(s \o t) = Elems(s) \cup Elems(t)
         /\ Once(s) /\ Once(t) /\ Elems(s) \cap Elems(t) = {} => Once(s \o t)
<1>1. /\ s \o t \in Seq(S) /\ Len(s) \in Nat /\ Len(t) \in Nat
      /\ Len(s \o t) = Len(s) + Len(t)
      /\ \A i \in 1 .. Len(s) : (s \o t)[i] = s[i]
      /\ \A i \in 1 .. Len(t) : (s \o t)[Len(s) + i] = t[i]
  OBVIOUS
<1>2. \A i \in 1 .. Len(s) + Len(t) :
        \/ i \in 1 .. Len(s) /\ (s \o t)[i] = s[i]
        \/ i - Len(s) \in 1 .. Len(t) /\ (s \o t)[i] = t[i - Len(s)]
  OBVIOUS
<1>3. Elems(s \o t) = Elems(s) \cup Elems(t)
  <2>1. ASSUME NEW e \in Elems(s \o t) PROVE e \in Elems(s) \cup Elems(t)
    <3>1. PICK i \in 1 .. Len(s) + Len(t) : (s \o t)[i] = e
      BY <1>1 DEF Elems
    <3>2. QED
      BY <1>2, <3>1 DEF Elems
  <2>2. ASSUME NEW e \in Elems(s) PROVE e \in Elems(s \o t)
    <3>1. PICK i \in 1 .. Len(s) : s[i] = e
      BY DEF Elems
    <3>2. i \in 1 .. Len(s \o t) /\ (s \o t)[i] = e
      BY <1>1, <3>1
    <3>3. QED
      BY <3>2 DEF Elems
  <2>3. ASSUME NEW e \in Elems(t) PROVE e \in Elems(s \o t)
    <3>1. PICK i \in 1 .. Len(t) : t[i] = e
      BY DEF Elems
    <3>2. Len(s) + i \in 1 .. Len(s \o t) /\ (s \o t)[Len(s) + i] = e
      BY <1>1, <3>1
    <3>3. QED
      BY <3>2 DEF Elems
  <2>4. QED
    BY <2>1, <2>2, <2>3
<1>4. ASSUME Once(s), Once(t), Elems(s) \cap Elems(t) = {},
             NEW i \in 1 .. Len(s) + Len(t), NEW j \in 1 .. Len(s) + Len(t),
             (s \o t)[i] = (s \o t)[j]
      PROVE  i = j
  <2>1. \A k \in 1 .. Len(s), l \in 1 .. Len(t) : s[k] # t[l]
    BY <1>4 DEF Elems
  <2>2. QED
    BY <1>1, <1>2, <1>4, <2>1 DEF Once
<1>5. QED
  BY <1>1, <1>3, <1>4 DEF Once

(* The head of one list goes to the tail of another.                        *)
LEMMA MoveHead ==
  ASSUME NEW S, NEW s \in Seq(S), NEW t \in Seq(S), s # <<>>, Once(s), Once(t),
         Elems(s) \cap Elems(t) = {}
  PROVE  /\ Tail(s) \in Seq(S) /\ Append(t, Head(s)) \in Seq(S)
         /\ Once(Tail(s)) /\ Once(Append(t, Head(s)))
         /\ Head(s) \in S /\ Head(s) \in Elems(s)
         /\ Elems(Tail(s)) = Elems(s) \ {Head(s)}
         /\ Elems(Append(t, Head(s))) = Elems(t) \cup {Head(s)}
<1>1. Head(s) \in Elems(s) /\ Head(s) \in S
  BY SomeElems, ElemsTail
<1>2. Once(Tail(s)) /\ Tail(s) \in Seq(S) /\ Elems(Tail(s)) = Elems(s) \ {Head(s)}
  BY ElemsTail
<1>3. Head(s) \notin Elems(t)
  BY <1>1
<1>4. QED
  BY <1>1, <1>2, <1>3, ElemsAppend

(* The head of a list goes to its own tail.                                 *)
LEMMA RotateHead ==
  ASSUME NEW S, NEW s \in Seq(S), s # <<>>, Once(s)
  PROVE  /\ Append(Tail(s), Head(s)) \in Seq(S)
         /\ Once(Append(Tail(s), Head(s)))
         /\ Elems(Append(Tail(s), Head(s))) = Elems(s)
<1>1. PICK t \in Seq(S), e \in S : t = Tail(s) /\ e = Head(s)
  BY ElemsTail
<1>2. Once(t) /\ e \notin Elems(t) /\ Elems(s) = Elems(t) \cup {e}
  BY <1>1, ElemsTail
<1>3. /\ Append(t, e) \in Seq(S) /\ Once(Append(t, e))
      /\ Elems(Append(t, e)) = Elems(s)
  BY <1>2, ElemsAppend
<1>4. Append(Tail(s), Head(s)) = Append(t, e)
  BY <1>1
<1>5. QED
  BY <1>3, <1>4

(* Three lists with no member in common, one behind the other.              *)
LEMMA ElemsOfThree ==
  ASSUME NEW S, NEW r \in Seq(S), NEW s \in Seq(S), NEW t \in Seq(S),
         Once(r), Once(s), Once(t), Elems(r) \cap Elems(s) = {},
         Elems(r) \cap Elems(t) = {}, Elems(s) \cap Elems(t) = {}
  PROVE  /\ r \o s \o t \in Seq(S)
         /\ Once(r \o s \o t)
         /\ Elems(r \o s \o t) = Elems(r) \cup Elems(s) \cup Elems(t)
<1> DEFINE two == r \o s
<1>1. two \in Seq(S) /\ Elems(two) = Elems(r) \cup Elems(s) /\ Once(two)
  BY ElemsConcat
<1> HIDE DEF two
<1>2. Elems(two) \cap Elems(t) = {}
  BY <1>1
<1>3. /\ two \o t \in Seq(S) /\ Once(two \o t)
      /\ Elems(two \o t) = Elems(two) \cup Elems(t)
  BY <1>1, <1>2, ElemsConcat
<1>4. QED
  BY <1>1, <1>3 DEF two

(* A member added at the end stands behind all others.                      *)
LEMMA BeforeAppend ==
  ASSUME NEW S, NEW s \in Seq(S), NEW e \in S
  PROVE  /\ \A p, q : Before(s, p, q) => Before(Append(s, e), p, q)
         /\ \A p \in Elems(s) : Before(Append(s, e), p, e)
<1>1. /\ Len(Append(s, e)) = Len(s) + 1 /\ Len(s) \in Nat
      /\ \A i \in 1 .. Len(s) : Append(s, e)[i] = s[i]
      /\ Append(s, e)[Len(s) + 1] = e
  OBVIOUS
<1>2. ASSUME NEW p, NEW q, Before(s, p, q) PROVE Before(Append(s, e), p, q)
  <2>1. PICK i, j \in 1 .. Len(s) : i < j /\ s[i] = p /\ s[j] = q
    BY <1>2 DEF Before
  <2>2. i \in 1 .. Len(s) + 1 /\ j \in 1 .. Len(s) + 1
    BY <1>1
  <2>3. QED
    BY <1>1, <2>1, <2>2 DEF Before
<1>3. ASSUME NEW p \in Elems(s) PROVE Before(Append(s, e), p, e)
  <2>1. PICK i \in 1 .. Len(s) : s[i] = p
    BY DEF Elems
  <2>2. i \in 1 .. Len(s) + 1 /\ Len(s) + 1 \in 1 .. Len(s) + 1 /\ i < Len(s) + 1
    BY <1>1
  <2>3. QED
    BY <1>1, <2>1, <2>2 DEF Before
<1>4. QED
  BY <1>2, <1>3

(* The order of the others does not change when the first one goes.         *)
LEMMA BeforeTail ==
  ASSUME NEW S, NEW s \in Seq(S), s # <<>>, NEW p, NEW q, Before(s, p, q), p # Head(s)
  PROVE  Before(Tail(s), p, q)
<1>1. /\ Len(s) \in Nat \ {0} /\ Len(Tail(s)) = Len(s) - 1 /\ Head(s) = s[1]
      /\ \A i \in 1 .. Len(s) - 1 : Tail(s)[i] = s[i + 1]
  OBVIOUS
<1>2. PICK i, j \in 1 .. Len(s) : i < j /\ s[i] = p /\ s[j] = q
  BY DEF Before
<1>3. i # 1
  BY <1>1, <1>2
<1>4. /\ i - 1 \in 1 .. Len(s) - 1 /\ j - 1 \in 1 .. Len(s) - 1 /\ i - 1 < j - 1
      /\ Tail(s)[i - 1] = p /\ Tail(s)[j - 1] = q
  BY <1>1, <1>2, <1>3
<1>5. QED
  BY <1>1, <1>4 DEF Before

----------------------------------------------------------------------------
(* Sums over finite sets.  SumFunctionOnSet is a fold, whose operator the    *)
(* provers cannot instantiate: these lemmas unfold it once and for all.      *)

\* The member of s that a fold takes first
Pick(s) == CHOOSE x \in s : TRUE

\* A set of natural numbers that is not empty has a least member.
LEMMA LeastNat ==
  ASSUME NEW N \in SUBSET Nat, N # {}
  PROVE  \E n \in N : \A m \in N : ~(m < n)
<1> DEFINE R == OpToRel(<, Nat)
<1>1. IsWellFoundedOn(R, Nat) BY NatLessThanWellFounded
<1>2. R = {ss \in Nat \X Nat : ss[1] < ss[2]} BY DEF OpToRel
<1> HIDE DEF R
<1>3. PICK n \in N : \A m \in N : ~(<<m, n>> \in R) BY <1>1, WFMin
<1>4. ASSUME NEW m \in N PROVE ~(m < n)
  <2>1. <<m, n>> \in Nat \X Nat /\ <<m, n>>[1] = m /\ <<m, n>>[2] = n OBVIOUS
  <2> QED BY <1>2, <1>3, <2>1
<1> QED BY <1>4

\* Some set of a family of subsets of a finite set has the fewest members.
LEMMA Smallest ==
  ASSUME NEW T, IsFiniteSet(T), NEW C \in SUBSET SUBSET T, C # {}
  PROVE  \E s \in C : \A t \in C : ~(Cardinality(t) < Cardinality(s))
<1> DEFINE N == {Cardinality(s) : s \in C}
<1>1. N \in SUBSET Nat /\ N # {} BY FS_Subset, FS_CardinalityType
<1>2. PICK n \in N : \A m \in N : ~(m < n)
  <2> HIDE DEF N
  <2> QED BY <1>1, LeastNat
<1> QED BY <1>2

\* What holds of the empty set, and of a set when it holds without some member, holds of all.
LEMMA SubsetInduction ==
  ASSUME NEW T, IsFiniteSet(T), NEW Good \in SUBSET SUBSET T, {} \in Good,
         \A s \in SUBSET T : s # {} /\ s \ {Pick(s)} \in Good => s \in Good
  PROVE  Good = SUBSET T
<1> DEFINE C == (SUBSET T) \ Good
<1>1. SUFFICES ASSUME C # {} PROVE FALSE OBVIOUS
<1>2. PICK s \in C : \A t \in C : ~(Cardinality(t) < Cardinality(s))
  <2>1. C \in SUBSET SUBSET T OBVIOUS
  <2> HIDE DEF C
  <2> QED BY <1>1, <2>1, Smallest
<1>3. s # {} /\ s \in SUBSET T /\ s \notin Good OBVIOUS
<1>4. Pick(s) \in s BY <1>3 DEF Pick
<1>5. IsFiniteSet(s) /\ Cardinality(s) \in Nat BY <1>3, FS_Subset, FS_CardinalityType
<1>6. Cardinality(s \ {Pick(s)}) = Cardinality(s) - 1 BY <1>4, <1>5, FS_RemoveElement
<1>7. s \ {Pick(s)} \in Good
  <2>1. Cardinality(s \ {Pick(s)}) < Cardinality(s) BY <1>5, <1>6, SMT
  <2> QED BY <1>2, <1>3, <2>1
<1> QED BY <1>3, <1>7

\* The sums of f over the sets of indices, as SumFunctionOnSet defines them
Sums(f, T) ==
  CHOOSE g : g = [s \in SUBSET T |-> IF s = {} THEN 0 ELSE f[Pick(s)] + g[s \ {Pick(s)}]]

\* The library's sum over a set is the one written out above.
LEMMA SumDef ==
  ASSUME NEW T, NEW f
  PROVE  SumFunctionOnSet(f, T) = Sums(f, T)[T]
BY DEF SumFunctionOnSet, FoldFunctionOnSet, MapThenFoldSet, Sums, Pick

\* A set of natural numbers with 0 that has every successor is Nat.
LEMMA NatSet ==
  ASSUME NEW G \in SUBSET Nat, 0 \in G, \A n \in G : n + 1 \in G
  PROVE  G = Nat
<1> DEFINE N == Nat \ G
<1>1. SUFFICES ASSUME N # {} PROVE FALSE OBVIOUS
<1>2. PICK n \in N : \A m \in N : ~(m < n)
  <2>1. N \in SUBSET Nat OBVIOUS
  <2> HIDE DEF N
  <2> QED BY <1>1, <2>1, LeastNat
<1>3. n \in Nat /\ n # 0 /\ n \notin G OBVIOUS
<1>4. n - 1 \in Nat /\ n - 1 < n /\ (n - 1) + 1 = n BY <1>3, SMT
<1>5. n - 1 \notin G BY <1>3, <1>4
<1> QED BY <1>2, <1>4, <1>5

\* The sum is a function of the sets of indices that follows its definition.
LEMMA SumsExist ==
  ASSUME NEW T, IsFiniteSet(T), NEW f, \A x \in T : f[x] \in Int
  PROVE  /\ Sums(f, T)[{}] = 0
         /\ \A s \in SUBSET T : Sums(f, T)[s] \in Int
         /\ \A s \in SUBSET T : s # {} =>
              Sums(f, T)[s] = f[Pick(s)] + Sums(f, T)[s \ {Pick(s)}]
<1> DEFINE Upto(n) == {u \in SUBSET T : Cardinality(u) <= n}
           Rec(g, u) == IF u = {} THEN 0 ELSE f[Pick(u)] + g[u \ {Pick(u)}]
           G == {n \in Nat : \E g \in [Upto(n) -> Int] : \A u \in Upto(n) : g[u] = Rec(g, u)}
<1>1. ASSUME NEW s \in SUBSET T
      PROVE  /\ IsFiniteSet(s) /\ Cardinality(s) \in Nat /\ Cardinality(s) <= Cardinality(T)
             /\ Cardinality(s) = 0 <=> s = {}
             /\ s # {} => /\ Pick(s) \in s /\ s \ {Pick(s)} \in SUBSET T
                          /\ Cardinality(s \ {Pick(s)}) = Cardinality(s) - 1
  <2>1. IsFiniteSet(s) /\ Cardinality(s) \in Nat /\ Cardinality(s) <= Cardinality(T)
    BY FS_Subset, FS_CardinalityType
  <2>2. Cardinality(s) = 0 <=> s = {} BY <2>1, FS_EmptySet
  <2>3. s # {} => Pick(s) \in s BY DEF Pick
  <2> QED BY <2>1, <2>2, <2>3, FS_RemoveElement
<1>2. 0 \in G
  <2> DEFINE g == [u \in Upto(0) |-> 0]
  <2>1. ASSUME NEW u \in Upto(0) PROVE u = {}
    <3>1. Cardinality(u) \in Nat /\ Cardinality(u) <= 0 BY <1>1
    <3>2. Cardinality(u) = 0 BY <3>1, SMT
    <3> QED BY <1>1, <3>2
  <2>2. g \in [Upto(0) -> Int] /\ \A u \in Upto(0) : g[u] = Rec(g, u) BY <2>1
  <2>3. 0 \in Nat OBVIOUS
  <2> HIDE DEF g, Upto, Rec
  <2> QED BY <2>2, <2>3
<1>3. ASSUME NEW n \in G PROVE n + 1 \in G
  <2>1. PICK g \in [Upto(n) -> Int] : \A u \in Upto(n) : g[u] = Rec(g, u) OBVIOUS
  <2> DEFINE h == [u \in Upto(n + 1) |-> Rec(g, u)]
  <2>2. ASSUME NEW u \in Upto(n + 1), u # {}
        PROVE  u \ {Pick(u)} \in Upto(n) /\ u \ {Pick(u)} \in Upto(n + 1) /\ Pick(u) \in T
    <3>1. /\ Cardinality(u) \in Nat /\ Cardinality(u) <= n + 1 /\ n \in Nat
          /\ Cardinality(u \ {Pick(u)}) = Cardinality(u) - 1
          /\ u \ {Pick(u)} \in SUBSET T /\ Pick(u) \in T
      BY <1>1, <2>2
    <3>2. Cardinality(u \ {Pick(u)}) <= n /\ Cardinality(u \ {Pick(u)}) <= n + 1
      BY <3>1, SMT
    <3> QED BY <3>1, <3>2
  <2>3. ASSUME NEW u \in Upto(n + 1) PROVE Rec(g, u) \in Int
    <3>1. CASE u = {} BY <3>1
    <3>2. CASE u # {}
      <4>1. f[Pick(u)] \in Int /\ g[u \ {Pick(u)}] \in Int BY <2>2, <3>2
      <4>2. Rec(g, u) = f[Pick(u)] + g[u \ {Pick(u)}] BY <3>2
      <4> QED BY <4>1, <4>2, SMT
    <3> QED BY <3>1, <3>2
  <2>4. h \in [Upto(n + 1) -> Int]
    <3> HIDE DEF Rec, Upto
    <3> QED BY <2>3
  <2>5. ASSUME NEW u \in Upto(n + 1) PROVE h[u] = Rec(h, u)
    <3>1. h[u] = Rec(g, u) OBVIOUS
    <3>2. CASE u = {} BY <3>1, <3>2
    <3>3. CASE u # {}
      <4> DEFINE v == u \ {Pick(u)}
      <4>1. v \in Upto(n) /\ v \in Upto(n + 1) BY <2>2, <3>3
      <4> HIDE DEF v
      <4>2. h[v] = Rec(g, v) BY <4>1
      <4>3. g[v] = Rec(g, v) BY <2>1, <4>1
      <4>4. h[v] = g[v] BY <4>2, <4>3
      <4> QED BY <3>1, <3>3, <4>4 DEF v
    <3> QED BY <3>2, <3>3
  <2>6. n + 1 \in Nat BY SMT
  <2> HIDE DEF h, Upto, Rec
  <2> QED BY <2>4, <2>5, <2>6
<1>4. G = Nat
  <2>1. G \in SUBSET Nat OBVIOUS
  <2> HIDE DEF G
  <2> QED BY <1>2, <1>3, <2>1, NatSet
<1>5. Cardinality(T) \in Nat BY FS_CardinalityType
<1>6. PICK g \in [Upto(Cardinality(T)) -> Int] :
        \A u \in Upto(Cardinality(T)) : g[u] = Rec(g, u)
  <2> HIDE DEF Upto, Rec
  <2> QED BY <1>4, <1>5
<1>7. Upto(Cardinality(T)) = SUBSET T BY <1>1
<1>8. g = [s \in SUBSET T |-> Rec(g, s)]
  <2> HIDE DEF Upto, Rec
  <2> QED BY <1>6, <1>7
<1> DEFINE h == Sums(f, T)
<1>9. h = [s \in SUBSET T |-> IF s = {} THEN 0 ELSE f[Pick(s)] + h[s \ {Pick(s)}]]
  BY <1>8 DEF Sums
<1>10. \A s \in SUBSET T : h[s] \in Int
  <2> DEFINE Good == {s \in SUBSET T : h[s] \in Int}
  <2> HIDE DEF h
  <2>1. {} \in Good BY <1>9
  <2>2. ASSUME NEW s \in SUBSET T, s # {}, s \ {Pick(s)} \in Good PROVE s \in Good
    <3>1. h[s] = f[Pick(s)] + h[s \ {Pick(s)}] BY <1>9, <2>2
    <3>2. f[Pick(s)] \in Int /\ h[s \ {Pick(s)}] \in Int BY <1>1, <2>2
    <3>3. h[s] \in Int BY <3>1, <3>2, SMT
    <3> QED BY <3>3
  <2>3. Good = SUBSET T
    <3>1. Good \in SUBSET SUBSET T OBVIOUS
    <3> HIDE DEF Good
    <3> QED BY <2>1, <2>2, <3>1, SubsetInduction
  <2> QED BY <2>3
<1> HIDE DEF h
<1>11. h[{}] = 0 BY <1>9
<1>12. \A s \in SUBSET T : s # {} => h[s] = f[Pick(s)] + h[s \ {Pick(s)}] BY <1>9
<1> QED BY <1>10, <1>11, <1>12 DEF h

\* A sum of natural numbers is 0 only if all of them are.
LEMMA SumOfNats ==
  ASSUME NEW T, IsFiniteSet(T), NEW f, \A x \in T : f[x] \in Nat
  PROVE  /\ SumFunctionOnSet(f, T) \in Nat
         /\ SumFunctionOnSet(f, T) = 0 <=> \A x \in T : f[x] = 0
<1> DEFINE h == Sums(f, T)
           Good == {s \in SUBSET T : h[s] \in Nat /\ (h[s] = 0 <=> \A x \in s : f[x] = 0)}
<1>1. \A x \in T : f[x] \in Int BY SMT
<1>2. /\ h[{}] = 0
      /\ \A s \in SUBSET T : s # {} => h[s] = f[Pick(s)] + h[s \ {Pick(s)}]
  BY <1>1, SumsExist
<1> HIDE DEF h
<1>3. {} \in Good BY <1>2
<1>4. ASSUME NEW s \in SUBSET T, s # {}, s \ {Pick(s)} \in Good PROVE s \in Good
  <2> DEFINE p == Pick(s)
             r == s \ {p}
  <2>1. p \in s /\ p \in T /\ s = r \cup {p} BY <1>4 DEF Pick
  <2>2. h[s] = f[p] + h[r] /\ h[r] \in Nat /\ (h[r] = 0 <=> \A x \in r : f[x] = 0)
    BY <1>2, <1>4
  <2> HIDE DEF p, r
  <2>3. h[s] \in Nat /\ (h[s] = 0 <=> f[p] = 0 /\ h[r] = 0) BY <2>1, <2>2, SMT
  <2> QED BY <2>1, <2>2, <2>3
<1>5. Good = SUBSET T
  <2>1. Good \in SUBSET SUBSET T OBVIOUS
  <2> HIDE DEF Good
  <2> QED BY <1>3, <1>4, <2>1, SubsetInduction
<1>6. T \in Good BY <1>5
<1> QED BY <1>6, SumDef DEF h

\* When one term changes, the sum changes by as much.
LEMMA SumChanges ==
  ASSUME NEW T, IsFiniteSet(T), NEW f, NEW g, \A x \in T : f[x] \in Int /\ g[x] \in Int,
         NEW c, NEW d \in Int, c \in T => g[c] = f[c] + d, \A x \in T \ {c} : g[x] = f[x]
  PROVE  SumFunctionOnSet(g, T) = SumFunctionOnSet(f, T) + (IF c \in T THEN d ELSE 0)
<1>1. /\ Sums(f, T)[{}] = 0
      /\ \A s \in SUBSET T : Sums(f, T)[s] \in Int
      /\ \A s \in SUBSET T : s # {} =>
           Sums(f, T)[s] = f[Pick(s)] + Sums(f, T)[s \ {Pick(s)}]
  <2>1. \A x \in T : f[x] \in Int OBVIOUS
  <2> QED BY <2>1, SumsExist, Zenon
<1>2. /\ Sums(g, T)[{}] = 0
      /\ \A s \in SUBSET T : Sums(g, T)[s] \in Int
      /\ \A s \in SUBSET T : s # {} =>
           Sums(g, T)[s] = g[Pick(s)] + Sums(g, T)[s \ {Pick(s)}]
  <2>1. \A x \in T : g[x] \in Int OBVIOUS
  <2> QED BY <2>1, SumsExist, Zenon
<1> DEFINE hf == Sums(f, T)
           hg == Sums(g, T)
           Good == {s \in SUBSET T : hg[s] = hf[s] + (IF c \in s THEN d ELSE 0)}
<1>6. /\ hf[{}] = 0 /\ \A s \in SUBSET T : hf[s] \in Int
      /\ \A s \in SUBSET T : s # {} => hf[s] = f[Pick(s)] + hf[s \ {Pick(s)}]
  BY <1>1
<1>7. /\ hg[{}] = 0 /\ \A s \in SUBSET T : hg[s] \in Int
      /\ \A s \in SUBSET T : s # {} => hg[s] = g[Pick(s)] + hg[s \ {Pick(s)}]
  BY <1>2
<1> HIDE DEF hf, hg
<1>3. {} \in Good BY <1>6, <1>7
<1>4. ASSUME NEW s \in SUBSET T, s # {}, s \ {Pick(s)} \in Good PROVE s \in Good
  <2> DEFINE p == Pick(s)
             r == s \ {p}
  <2>1. p \in s /\ p \in T /\ p \notin r /\ s = r \cup {p} /\ r \in SUBSET T BY <1>4 DEF Pick
  <2>2. /\ hf[s] = f[p] + hf[r] /\ hg[s] = g[p] + hg[r]
        /\ hg[r] = hf[r] + (IF c \in r THEN d ELSE 0)
    BY <1>6, <1>7, <1>4, <2>1
  <2>3. /\ hf[r] \in Int /\ hg[r] \in Int /\ f[p] \in Int /\ g[p] \in Int
        /\ IF p = c THEN g[p] = f[p] + d ELSE g[p] = f[p]
    BY <1>6, <1>7, <2>1
  <2> HIDE DEF p, r
  <2>4. c \in s <=> c \in r \/ c = p BY <2>1
  <2>5. hg[s] = hf[s] + (IF c \in s THEN d ELSE 0)
    <3>1. CASE c = p
      <4>1. c \notin r /\ c \in s BY <2>1, <3>1
      <4> QED BY <2>2, <2>3, <3>1, <4>1, SMT
    <3>2. CASE c # p
      <4>1. c \in s <=> c \in r BY <2>4, <3>2
      <4> QED BY <2>2, <2>3, <3>2, <4>1, SMT
    <3> QED BY <3>1, <3>2
  <2> QED BY <2>5
<1>5. Good = SUBSET T
  <2>1. Good \in SUBSET SUBSET T OBVIOUS
  <2> HIDE DEF Good
  <2> QED BY <1>3, <1>4, <2>1, SubsetInduction
<1>8. T \in Good BY <1>5
<1> QED BY <1>8, SumDef DEF hf, hg

\* The same of a term that is in the sum.
LEMMA SumChangesBy ==
  ASSUME NEW T, IsFiniteSet(T), NEW f, NEW g, NEW c \in T, NEW d \in Int,
         \A x \in T : f[x] \in Int /\ g[x] \in Int,
         g[c] = f[c] + d, \A x \in T \ {c} : g[x] = f[x]
  PROVE  SumFunctionOnSet(g, T) = SumFunctionOnSet(f, T) + d
<1>1. c \in T => g[c] = f[c] + d
  OBVIOUS
<1>2. SumFunctionOnSet(g, T) = SumFunctionOnSet(f, T) + (IF c \in T THEN d ELSE 0)
  BY <1>1, SumChanges, SMT
<1>3. QED
  BY <1>2
=============================================================================
