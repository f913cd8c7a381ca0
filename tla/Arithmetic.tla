----------------------------- MODULE Arithmetic ------------------------------
(***************************************************************************)
(* Division by a number that is a constant of the specification: page      *)
(* numbers (PAGE_SHIFT), the indices of the page map's nodes, the places   *)
(* of a ring.  And induction, over sets of numbers.                        *)
(***************************************************************************)
EXTENDS Integers, WellFoundedInduction, TLAPS

\* A number is its quotient times the divisor, and a remainder.
LEMMA DivMod ==
    ASSUME NEW a \in Nat, NEW b \in Nat \ {0}
    PROVE  /\ a \div b \in Nat /\ a % b \in Nat /\ a % b < b
           /\ a = b * (a \div b) + (a % b)
OBVIOUS

\* And there is one such quotient.
LEMMA Quotient ==
    ASSUME NEW d \in Nat \ {0}, NEW q \in Nat, NEW r \in Nat, r < d
    PROVE  (d * q + r) \div d = q
<1> DEFINE x == d * q + r
           p == x \div d
           s == x % d
<1>1. x \in Nat
  OBVIOUS
<1>2. p \in Nat /\ s \in Nat /\ s < d /\ x = d * p + s
  BY <1>1, DivMod
<1> HIDE DEF p, s
<1>3. ~(p < q)
  <2>1. ASSUME p < q PROVE FALSE
    <3>1. d * (p + 1) <= d * q
      BY <1>2, <2>1
    <3>2. d * (p + 1) = d * p + d
      BY <1>2
    <3> QED BY <1>2, <3>1, <3>2
  <2> QED BY <2>1
<1>4. ~(q < p)
  <2>1. ASSUME q < p PROVE FALSE
    <3>1. d * (q + 1) <= d * p
      BY <1>2, <2>1
    <3>2. d * (q + 1) = d * q + d
      OBVIOUS
    <3> QED BY <1>2, <3>1, <3>2
  <2> QED BY <2>1
<1>5. p = q
  BY <1>2, <1>3, <1>4
<1> QED BY <1>5 DEF p

\* A multiple of a multiple of d is a multiple of d.
LEMMA Multiples ==
    ASSUME NEW d \in Nat \ {0}, NEW g \in Nat \ {0}, NEW a \in Nat, g % d = 0, a % g = 0
    PROVE  (a \div d) * d = a
<1> DEFINE j == g \div d
           q == a \div g
<1>1. j \in Nat /\ g = d * j
  BY DivMod
<1>2. q \in Nat /\ a = g * q
  BY DivMod
<1> HIDE DEF j, q
<1>3. a = d * (j * q) + 0 /\ j * q \in Nat
  BY <1>1, <1>2
<1>4. a \div d = j * q
  BY <1>3, Quotient
<1> QED BY <1>3, <1>4

\* A set of numbers that has zero, and with a number the next, has them all.
LEMMA Induction ==
    ASSUME NEW G, 0 \in G, \A n \in Nat : n \in G => n + 1 \in G
    PROVE  Nat \subseteq G
<1> DEFINE B == Nat \ G
<1> SUFFICES ASSUME B # {}
             PROVE  FALSE
  OBVIOUS
<1>1. PICK m \in B : \A n \in B : ~(<<n, m>> \in OpToRel(<, Nat))
  <2>1. B \subseteq Nat
    OBVIOUS
  <2> HIDE DEF B
  <2> QED
    BY <2>1, WFMin, NatLessThanWellFounded
<1>2. \A n \in B : ~(n < m)
  BY <1>1 DEF OpToRel
<1>3. m \in Nat /\ m # 0
  OBVIOUS
<1>4. m - 1 \in Nat /\ m - 1 < m
  BY <1>3
<1>5. m - 1 \in G
  BY <1>2, <1>4
<1>6. m - 1 + 1 \in G
  BY <1>4, <1>5
<1> QED
  BY <1>3, <1>6
=============================================================================
