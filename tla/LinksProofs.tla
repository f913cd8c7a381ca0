----------------------------- MODULE LinksProofs -----------------------------
(***************************************************************************)
(* The rings and chains of Links are the sequences of Lists at every step, *)
(* and its counters count them: for any number of threads, spans, objects  *)
(* to a span and objects to a batch.                                       *)
(***************************************************************************)
EXTENDS Links, Arithmetic, FiniteSetTheorems, SequenceTheorems, TLAPS

-----------------------------------------------------------------------------
(* Sequences.                                                                *)

\* What follows the last member is end.
Nth(c, end, j) == IF j <= Len(c) THEN c[j] ELSE end

\* From from, step leads through c to end, and meets everything once.
Leads(step, from, end, c) ==
    /\ \A j, k \in 1 .. Len(c) : c[j] = c[k] => j = k
    /\ from = Nth(c, end, 1)
    /\ \A j \in 1 .. Len(c) : step[c[j]] = Nth(c, end, j + 1)

\* A member in front of a sequence.
LEMMA ConsIs ==
    ASSUME NEW S, NEW b \in S, NEW c \in Seq(S)
    PROVE  /\ <<b>> \o c \in Seq(S) /\ Len(<<b>> \o c) = Len(c) + 1
           /\ (<<b>> \o c)[1] = b
           /\ \A j \in 1 .. Len(c) : (<<b>> \o c)[j + 1] = c[j]
           /\ Len(c) \in Nat
<1>1. <<b>> \in Seq(S) /\ Len(<<b>>) = 1 /\ <<b>>[1] = b
  OBVIOUS
<1>2. Len(c) \in Nat
  BY LenProperties
<1> QED
  BY <1>1, <1>2, ConcatProperties

\* A sequence without its first members, and without its last.
LEMMA PartIs ==
    ASSUME NEW S, NEW c \in Seq(S), NEW m \in Nat \ {0}, NEW n \in Nat, n <= Len(c), m <= n + 1
    PROVE  /\ SubSeq(c, m, n) \in Seq(S) /\ Len(SubSeq(c, m, n)) = n - m + 1
           /\ \A j \in 1 .. n - m + 1 : SubSeq(c, m, n)[j] = c[m + j - 1]
           /\ Len(c) \in Nat
<1>1. Len(c) \in Nat
  BY LenProperties
<1>2. \A j \in m .. n : c[j] \in S
  BY <1>1, ElementOfSeq
<1>3. /\ SubSeq(c, m, n) \in Seq(S)
      /\ Len(SubSeq(c, m, n)) = IF m <= n THEN n - m + 1 ELSE 0
      /\ \A j \in 1 .. n - m + 1 : SubSeq(c, m, n)[j] = c[m + j - 1]
  <2>1. m \in Int /\ n \in Int
    OBVIOUS
  <2> QED BY <1>2, <2>1, SubSeqProperties
<1>4. (IF m <= n THEN n - m + 1 ELSE 0) = n - m + 1
  OBVIOUS
<1> QED
  BY <1>1, <1>3, <1>4

LEMMA RestIs ==
    ASSUME NEW S, NEW c \in Seq(S), c # <<>>
    PROVE  /\ Tail(c) \in Seq(S) /\ Len(Tail(c)) = Len(c) - 1 /\ Head(c) = c[1]
           /\ \A j \in 1 .. Len(c) - 1 : Tail(c)[j] = c[j + 1]
           /\ Len(c) \in Nat \ {0}
<1>1. Len(c) \in Nat \ {0}
  BY EmptySeq
<1>2. Head(c) = c[1]
  OBVIOUS
<1> QED
  BY <1>1, <1>2, HeadTailProperties

\* A sequence without its i-th member.
Without(c, i) == SubSeq(c, 1, i - 1) \o SubSeq(c, i + 1, Len(c))

LEMMA WithoutIs ==
    ASSUME NEW S, NEW c \in Seq(S), NEW i \in 1 .. Len(c)
    PROVE  /\ Without(c, i) \in Seq(S) /\ Len(Without(c, i)) = Len(c) - 1
           /\ \A j \in 1 .. Len(c) - 1 : Without(c, i)[j] = IF j < i THEN c[j] ELSE c[j + 1]
           /\ Len(c) \in Nat \ {0}
<1> DEFINE a == SubSeq(c, 1, i - 1)
           z == SubSeq(c, i + 1, Len(c))
<1>1. Len(c) \in Nat
  BY LenProperties
<1>2. i \in Nat \ {0} /\ i <= Len(c) /\ i - 1 \in Nat /\ i + 1 \in Nat \ {0}
  BY <1>1
<1>3. /\ a \in Seq(S) /\ Len(a) = i - 1
      /\ \A j \in 1 .. i - 1 : a[j] = c[j]
  <2>1. 1 \in Nat \ {0} /\ i - 1 <= Len(c) /\ 1 <= i - 1 + 1
    BY <1>1, <1>2
  <2>2. /\ a \in Seq(S) /\ Len(a) = i - 1 - 1 + 1
        /\ \A j \in 1 .. i - 1 - 1 + 1 : a[j] = c[1 + j - 1]
    BY <1>2, <2>1, PartIs
  <2> HIDE DEF a
  <2> QED BY <1>2, <2>2
<1>4. /\ z \in Seq(S) /\ Len(z) = Len(c) - i
      /\ \A j \in 1 .. Len(c) - i : z[j] = c[i + j]
  <2>1. Len(c) <= Len(c) /\ i + 1 <= Len(c) + 1
    BY <1>1, <1>2
  <2>2. /\ z \in Seq(S) /\ Len(z) = Len(c) - (i + 1) + 1
        /\ \A j \in 1 .. Len(c) - (i + 1) + 1 : z[j] = c[i + 1 + j - 1]
    BY <1>1, <1>2, <2>1, PartIs
  <2> HIDE DEF z
  <2>3. \A j \in 1 .. Len(c) - i : i + 1 + j - 1 = i + j
    BY <1>1, <1>2
  <2> QED BY <1>1, <1>2, <2>2, <2>3
<1> HIDE DEF a, z
<1>5. /\ a \o z \in Seq(S) /\ Len(a \o z) = Len(a) + Len(z)
      /\ \A j \in 1 .. Len(a) + Len(z) :
            (a \o z)[j] = IF j <= Len(a) THEN a[j] ELSE z[j - Len(a)]
  BY <1>3, <1>4, ConcatProperties
<1>6. Without(c, i) = a \o z
  BY DEF Without, a, z
<1>7. Len(a) + Len(z) = Len(c) - 1
  BY <1>1, <1>2, <1>3, <1>4
<1>8. ASSUME NEW j \in 1 .. Len(c) - 1
      PROVE  (a \o z)[j] = IF j < i THEN c[j] ELSE c[j + 1]
  <2>1. CASE j < i
    BY <1>1, <1>2, <1>3, <1>5, <1>7, <2>1
  <2>2. CASE ~(j < i)
    <3>1. ~(j <= Len(a)) /\ j - Len(a) = j - i + 1 /\ j - i + 1 \in 1 .. Len(c) - i
          /\ i + (j - i + 1) = j + 1
      BY <1>1, <1>2, <1>3, <2>2
    <3>2. z[j - i + 1] = c[j + 1]
      BY <1>4, <3>1
    <3> QED BY <1>5, <1>7, <2>2, <3>1, <3>2
  <2> QED BY <2>1, <2>2
<1> QED
  BY <1>1, <1>2, <1>5, <1>6, <1>7, <1>8

\* A sequence of members of a finite set that repeats none is no longer than the set,
\* and has them all when it is as long.
LEMMA Pigeons ==
    ASSUME NEW S, IsFiniteSet(S), NEW c \in Seq(S), \A j, k \in 1 .. Len(c) : c[j] = c[k] => j = k
    PROVE  /\ Len(c) <= Cardinality(S) /\ Cardinality(S) \in Nat
           /\ Len(c) = Cardinality(S) => \A x \in S : \E j \in 1 .. Len(c) : c[j] = x
<1>1. Len(c) \in Nat /\ c \in [1 .. Len(c) -> S]
  BY LenProperties
<1>2. Cardinality(S) \in Nat
  BY FS_CardinalityType
<1>3. c \in Injection(1 .. Len(c), S)
  BY <1>1 DEF Injection, IsInjective
<1>4. IsFiniteSet(1 .. Len(c)) /\ Cardinality(1 .. Len(c)) = Len(c)
  <2>1. Cardinality(1 .. Len(c)) = IF 1 > Len(c) THEN 0 ELSE Len(c) - 1 + 1
    BY <1>1, FS_Interval
  <2> QED BY <1>1, <2>1, FS_Interval
<1>5. /\ Len(c) <= Cardinality(S)
      /\ Len(c) = Cardinality(S) <=> c \in Surjection(1 .. Len(c), S)
  BY <1>3, <1>4, FS_Injection
<1>6. c \in Surjection(1 .. Len(c), S) => \A x \in S : \E j \in 1 .. Len(c) : c[j] = x
  BY DEF Surjection
<1> QED
  BY <1>2, <1>5, <1>6

-----------------------------------------------------------------------------
(* What a walk meets.                                                        *)

\* The recursion of Path, and where it stops.
Walks(w, step, from, set) ==
    w = [i \in 0 .. Cardinality(set) |->
           IF i = 0 THEN from ELSE IF w[i - 1] \in set THEN step[w[i - 1]] ELSE Null]
Inside(w, set) == {i \in DOMAIN w : \A j \in 0 .. i : w[j] \in set}

LEMMA PathWalks ==
    ASSUME NEW step, NEW from, NEW set, NEW g, Walks(g, step, from, set)
    PROVE  \E w : /\ Walks(w, step, from, set)
                  /\ Path(step, from, set) = [i \in 1 .. Cardinality(Inside(w, set)) |-> w[i - 1]]
<1> DEFINE W == CHOOSE w : w = [i \in 0 .. Cardinality(set) |->
                  IF i = 0 THEN from ELSE IF w[i - 1] \in set THEN step[w[i - 1]] ELSE Null]
<1>1. Walks(W, step, from, set)
  BY DEF Walks
<1>2. Path(step, from, set) = [i \in 1 .. Cardinality(Inside(W, set)) |-> W[i - 1]]
  BY Zenon DEF Path, Inside
<1> QED
  BY <1>1, <1>2

LEMMA WalkStep ==
    ASSUME NEW step, NEW from, NEW set, IsFiniteSet(set), NEW w, Walks(w, step, from, set)
    PROVE  /\ w[0] = from /\ DOMAIN w = 0 .. Cardinality(set)
           /\ \A i \in 1 .. Cardinality(set) :
                 w[i] = IF w[i - 1] \in set THEN step[w[i - 1]] ELSE Null
<1>1. PICK v : v = w
  OBVIOUS
<1>2. w = [i \in 0 .. Cardinality(set) |->
             IF i = 0 THEN from ELSE IF v[i - 1] \in set THEN step[v[i - 1]] ELSE Null]
  BY <1>1 DEF Walks
<1>3. Cardinality(set) \in Nat
  BY FS_CardinalityType
<1>4. /\ w[0] = from /\ DOMAIN w = 0 .. Cardinality(set)
      /\ \A i \in 1 .. Cardinality(set) :
            w[i] = IF v[i - 1] \in set THEN step[v[i - 1]] ELSE Null
  BY <1>2, <1>3
<1> QED
  BY <1>1, <1>4

\* Where step leads through c, that is the path.
LEMMA Walk ==
    ASSUME NEW S, IsFiniteSet(S), Null \notin S, NEW c \in Seq(S),
           NEW step, NEW from, NEW end, end \notin S, Leads(step, from, end, c)
    PROVE  Path(step, from, S) = c
<1> DEFINE N == Cardinality(S)
           g == [i \in 0 .. N |-> IF i < Len(c) THEN c[i + 1] ELSE IF i = Len(c) THEN end ELSE Null]
<1>1. N \in Nat /\ Len(c) \in Nat /\ Len(c) <= N
  BY Pigeons, LenProperties DEF Leads
<1>2. \A j \in 1 .. Len(c) : c[j] \in S
  BY ElementOfSeq
<1>3. g[0] = from /\ DOMAIN g = 0 .. N
  <2>1. CASE Len(c) = 0
    BY <1>1, <2>1 DEF Leads, Nth
  <2>2. CASE Len(c) # 0
    BY <1>1, <2>2 DEF Leads, Nth
  <2> QED BY <2>1, <2>2
<1>4. ASSUME NEW i \in 1 .. N
      PROVE  g[i] = IF g[i - 1] \in S THEN step[g[i - 1]] ELSE Null
  <2>1. i - 1 \in 0 .. N /\ i \in 0 .. N
    BY <1>1
  <2>2. CASE i <= Len(c)
    <3>1. i - 1 < Len(c) /\ i - 1 + 1 = i /\ i \in 1 .. Len(c)
      BY <1>1, <2>2
    <3>2. g[i - 1] = c[i] /\ c[i] \in S
      BY <1>2, <2>1, <3>1
    <3>3. step[c[i]] = Nth(c, end, i + 1)
      BY <3>1 DEF Leads
    <3>4. g[i] = Nth(c, end, i + 1)
      <4>1. CASE i = Len(c)
        BY <1>1, <2>1, <4>1 DEF Nth
      <4>2. CASE i < Len(c)
        BY <1>1, <2>1, <4>2 DEF Nth
      <4> QED BY <1>1, <2>2, <4>1, <4>2
    <3> QED BY <3>2, <3>3, <3>4
  <2>3. CASE ~(i <= Len(c))
    <3>1. g[i - 1] \in {end, Null}
      BY <1>1, <2>1, <2>3
    <3>2. g[i] = Null
      BY <1>1, <2>1, <2>3
    <3> QED BY <3>1, <3>2
  <2> QED BY <2>2, <2>3
<1> HIDE DEF g
<1>5. Walks(g, step, from, S)
  <2>1. PICK v : v = g
    OBVIOUS
  <2>2. g = [i \in 0 .. N |-> IF i = 0 THEN from ELSE IF v[i - 1] \in S THEN step[v[i - 1]] ELSE Null]
    <3>1. \A i \in 0 .. N : g[i] = IF i = 0 THEN from ELSE IF v[i - 1] \in S THEN step[v[i - 1]] ELSE Null
      BY <1>1, <1>3, <1>4, <2>1
    <3>2. g = [i \in 0 .. N |-> g[i]]
      BY DEF g
    <3> QED BY <3>1, <3>2
  <2> QED BY <2>1, <2>2 DEF Walks
<1>6. PICK w : /\ Walks(w, step, from, S)
               /\ Path(step, from, S) = [i \in 1 .. Cardinality(Inside(w, S)) |-> w[i - 1]]
  BY <1>5, PathWalks
<1>7. /\ w[0] = from /\ DOMAIN w = 0 .. N
      /\ \A i \in 1 .. N : w[i] = IF w[i - 1] \in S THEN step[w[i - 1]] ELSE Null
  BY <1>6, WalkStep
<1> HIDE DEF N
<1>8. \A i \in 0 .. N : w[i] = g[i]
  <2> DEFINE G == {n \in Nat : n <= N => w[n] = g[n]}
  <2>1. 0 \in G
    BY <1>3, <1>7
  <2>2. ASSUME NEW n \in Nat, n \in G PROVE n + 1 \in G
    <3>1. SUFFICES ASSUME n + 1 <= N PROVE w[n + 1] = g[n + 1]
      OBVIOUS
    <3>2. n + 1 \in 1 .. N /\ n + 1 - 1 = n /\ n <= N
      BY <1>1, <3>1
    <3>3. w[n] = g[n]
      BY <2>2, <3>2
    <3>4. w[n + 1] = (IF w[n] \in S THEN step[w[n]] ELSE Null)
      BY <1>7, <3>2
    <3>5. g[n + 1] = (IF g[n] \in S THEN step[g[n]] ELSE Null)
      BY <1>4, <3>2
    <3> QED BY <3>3, <3>4, <3>5
  <2>3. \A n \in Nat : n \in G => n + 1 \in G
    BY <2>2
  <2> HIDE DEF G
  <2>4. Nat \subseteq G
    BY <2>1, <2>3, Induction
  <2> QED BY <1>1, <2>4 DEF G
<1>9. \A i \in 0 .. N : (i < Len(c) => g[i] = c[i + 1]) /\ (i = Len(c) => g[i] = end)
  BY DEF g
<1>10. Inside(w, S) = 0 .. Len(c) - 1
  <2>1. ASSUME NEW i \in 0 .. N, i < Len(c) PROVE \A j \in 0 .. i : w[j] \in S
    <3> TAKE j \in 0 .. i
    <3>1. j \in 0 .. N /\ j < Len(c) /\ j + 1 \in 1 .. Len(c)
      BY <1>1, <2>1
    <3> QED BY <1>2, <1>8, <1>9, <3>1
  <2>2. ASSUME NEW i \in 0 .. N, ~(i < Len(c)) PROVE ~ \A j \in 0 .. i : w[j] \in S
    <3>1. Len(c) \in 0 .. i /\ Len(c) \in 0 .. N
      BY <1>1, <2>2
    <3>2. w[Len(c)] = end
      BY <1>8, <1>9, <3>1
    <3> QED BY <3>1, <3>2
  <2>3. Inside(w, S) = {i \in 0 .. N : i < Len(c)}
    BY <1>7, <2>1, <2>2 DEF Inside
  <2> QED BY <1>1, <2>3
<1>11. Cardinality(Inside(w, S)) = Len(c)
  <2>1. Cardinality(0 .. Len(c) - 1) = IF 0 > Len(c) - 1 THEN 0 ELSE Len(c) - 1 - 0 + 1
    <3>1. 0 \in Int /\ Len(c) - 1 \in Int
      BY <1>1
    <3> QED BY <3>1, FS_Interval
  <2> QED BY <1>1, <1>10, <2>1
<1>12. Path(step, from, S) = [i \in 1 .. Len(c) |-> w[i - 1]]
  BY <1>6, <1>11
<1>13. \A i \in 1 .. Len(c) : w[i - 1] = c[i]
  BY <1>1, <1>8, <1>9
<1>14. c = [i \in 1 .. Len(c) |-> c[i]]
  BY LenProperties
<1> QED
  BY <1>12, <1>13, <1>14

-----------------------------------------------------------------------------
(* What can be done to what leads somewhere.                                 *)

\* A change elsewhere.
LEMMA Elsewhere ==
    ASSUME NEW c, NEW step, NEW other, NEW from, NEW end, Leads(step, from, end, c),
           \A j \in 1 .. Len(c) : other[c[j]] = step[c[j]]
    PROVE  Leads(other, from, end, c)
BY DEF Leads

\* Nothing leads from the end to the end.
LEMMA Nothing ==
    ASSUME NEW step, NEW end
    PROVE  Leads(step, end, end, <<>>)
BY DEF Leads, Nth

\* A sequence is empty where its end comes first.
LEMMA Empty ==
    ASSUME NEW S, NEW c \in Seq(S), NEW step, NEW from, NEW end, end \notin S,
           Leads(step, from, end, c)
    PROVE  /\ c = <<>> <=> from = end
           /\ c # <<>> => Len(c) \in Nat \ {0} /\ from = c[1] /\ from \in S
<1>1. CASE c = <<>>
  BY <1>1 DEF Leads, Nth
<1>2. CASE c # <<>>
  <2>1. Len(c) \in Nat \ {0}
    BY <1>2, EmptySeq
  <2>2. from = c[1] /\ c[1] \in S
    BY <2>1, ElementOfSeq DEF Leads, Nth
  <2> QED BY <1>2, <2>1, <2>2
<1> QED BY <1>1, <1>2

\* A new member in front.
LEMMA Cons ==
    ASSUME NEW S, NEW c \in Seq(S), NEW step, NEW other, NEW from, NEW end, NEW b \in S,
           Leads(step, from, end, c),
           \A j \in 1 .. Len(c) : c[j] # b /\ other[c[j]] = step[c[j]],
           other[b] = from
    PROVE  Leads(other, b, end, <<b>> \o c)
<1> DEFINE d == <<b>> \o c
<1>1. /\ d \in Seq(S) /\ Len(d) = Len(c) + 1 /\ d[1] = b
      /\ \A j \in 1 .. Len(c) : d[j + 1] = c[j]
      /\ Len(c) \in Nat
  BY ConsIs
<1> HIDE DEF d
<1>2. ASSUME NEW k \in 1 .. Len(d) PROVE k = 1 \/ (k - 1 \in 1 .. Len(c) /\ d[k] = c[k - 1])
  <2>1. CASE k # 1
    <3>1. k - 1 \in 1 .. Len(c) /\ k - 1 + 1 = k
      BY <1>1, <2>1
    <3>2. d[k - 1 + 1] = c[k - 1]
      BY <1>1, <3>1
    <3> QED BY <3>1, <3>2
  <2> QED BY <2>1
<1>3. ASSUME NEW j \in 1 .. Len(d), NEW k \in 1 .. Len(d), d[j] = d[k] PROVE j = k
  <2>1. CASE j = 1 /\ k = 1
    BY <2>1
  <2>2. CASE j = 1 /\ k # 1
    BY <1>1, <1>2, <1>3, <2>2
  <2>3. CASE j # 1 /\ k = 1
    BY <1>1, <1>2, <1>3, <2>3
  <2>4. CASE j # 1 /\ k # 1
    <3>1. /\ j - 1 \in 1 .. Len(c) /\ d[j] = c[j - 1]
          /\ k - 1 \in 1 .. Len(c) /\ d[k] = c[k - 1]
      BY <1>2, <2>4
    <3>2. j - 1 = k - 1
      BY <1>3, <3>1 DEF Leads
    <3> QED BY <1>1, <3>2
  <2> QED BY <2>1, <2>2, <2>3, <2>4
<1>4. b = Nth(d, end, 1)
  BY <1>1 DEF Nth
<1>5. ASSUME NEW j \in 1 .. Len(c) + 1 PROVE Nth(c, end, j) = Nth(d, end, j + 1)
  <2>1. CASE j <= Len(c)
    <3>1. j + 1 <= Len(d) /\ j \in 1 .. Len(c)
      BY <1>1, <2>1
    <3> QED BY <1>1, <2>1, <3>1 DEF Nth
  <2>2. CASE ~(j <= Len(c))
    <3>1. ~(j + 1 <= Len(d))
      BY <1>1, <2>2
    <3> QED BY <2>2, <3>1 DEF Nth
  <2> QED BY <2>1, <2>2
<1>6. ASSUME NEW j \in 1 .. Len(d) PROVE other[d[j]] = Nth(d, end, j + 1)
  <2>1. CASE j = 1
    <3>1. from = Nth(c, end, 1)
      BY DEF Leads
    <3>2. 1 \in 1 .. Len(c) + 1
      BY <1>1
    <3>3. other[d[j]] = Nth(d, end, 1 + 1)
      BY <1>1, <1>5, <2>1, <3>1, <3>2
    <3> QED BY <2>1, <3>3
  <2>2. CASE j # 1
    <3>1. j - 1 \in 1 .. Len(c) /\ d[j] = c[j - 1]
      BY <1>2, <2>2
    <3>2. other[d[j]] = Nth(c, end, j - 1 + 1)
      BY <3>1 DEF Leads
    <3>3. j - 1 + 1 = j /\ j \in 1 .. Len(c) + 1
      BY <1>1
    <3> QED BY <1>5, <3>2, <3>3
  <2> QED BY <2>1, <2>2
<1>7. Leads(other, b, end, d)
  BY <1>3, <1>4, <1>6 DEF Leads
<1> QED BY <1>7 DEF d

\* What is left after the first n.
LEMMA Suffix ==
    ASSUME NEW S, NEW c \in Seq(S), NEW step, NEW from, NEW end,
           Leads(step, from, end, c), NEW n \in Nat, n <= Len(c)
    PROVE  Leads(step, Nth(c, end, n + 1), end, SubSeq(c, n + 1, Len(c)))
<1> DEFINE d == SubSeq(c, n + 1, Len(c))
<1>0. Len(c) \in Nat
  BY LenProperties
<1>1. /\ d \in Seq(S) /\ Len(d) = Len(c) - n
      /\ \A j \in 1 .. Len(c) - n : d[j] = c[n + j]
  <2>1. n + 1 \in Nat \ {0} /\ Len(c) <= Len(c) /\ n + 1 <= Len(c) + 1
    BY <1>0
  <2>2. /\ d \in Seq(S) /\ Len(d) = Len(c) - (n + 1) + 1
        /\ \A j \in 1 .. Len(c) - (n + 1) + 1 : d[j] = c[n + 1 + j - 1]
    BY <1>0, <2>1, PartIs
  <2>3. Len(c) - (n + 1) + 1 = Len(c) - n /\ \A j \in 1 .. Len(c) - n : n + 1 + j - 1 = n + j
    BY <1>0
  <2> HIDE DEF d
  <2> QED BY <2>2, <2>3
<1> HIDE DEF d
<1>2. ASSUME NEW j \in 1 .. Len(d) PROVE n + j \in 1 .. Len(c) /\ d[j] = c[n + j]
  BY <1>0, <1>1
<1>3. ASSUME NEW j \in 1 .. Len(d) + 1 PROVE Nth(d, end, j) = Nth(c, end, n + j)
  <2>1. CASE j <= Len(d)
    BY <1>0, <1>1, <1>2, <2>1 DEF Nth
  <2>2. CASE ~(j <= Len(d))
    <3>1. ~(n + j <= Len(c))
      BY <1>0, <1>1, <2>2
    <3> QED BY <2>2, <3>1 DEF Nth
  <2> QED BY <2>1, <2>2
<1>4. ASSUME NEW j \in 1 .. Len(d), NEW k \in 1 .. Len(d), d[j] = d[k] PROVE j = k
  <2>1. n + j = n + k
    BY <1>2, <1>4 DEF Leads
  <2> QED BY <1>1, <2>1
<1>5. Nth(c, end, n + 1) = Nth(d, end, 1)
  <2>1. 1 \in 1 .. Len(d) + 1
    BY <1>0, <1>1
  <2> QED BY <1>3, <2>1
<1>6. ASSUME NEW j \in 1 .. Len(d) PROVE step[d[j]] = Nth(d, end, j + 1)
  <2>1. step[c[n + j]] = Nth(c, end, n + j + 1)
    BY <1>2 DEF Leads
  <2>2. n + j + 1 = n + (j + 1) /\ j + 1 \in 1 .. Len(d) + 1
    BY <1>0, <1>1
  <2> QED BY <1>2, <1>3, <2>1, <2>2
<1>7. Leads(step, Nth(c, end, n + 1), end, d)
  BY <1>4, <1>5, <1>6 DEF Leads
<1> QED BY <1>7 DEF d

\* In particular after the first.
LEMMA Rest ==
    ASSUME NEW S, NEW c \in Seq(S), NEW step, NEW from, NEW end,
           Leads(step, from, end, c), c # <<>>
    PROVE  Leads(step, step[c[1]], end, Tail(c))
<1>1. Len(c) \in Nat \ {0}
  BY RestIs
<1>2. 1 \in Nat /\ 1 <= Len(c) /\ 1 \in 1 .. Len(c) /\ 1 + 1 = 2
  BY <1>1
<1>3. Leads(step, Nth(c, end, 1 + 1), end, SubSeq(c, 1 + 1, Len(c)))
  BY <1>2, Suffix
<1>4. step[c[1]] = Nth(c, end, 1 + 1)
  BY <1>2 DEF Leads
<1>5. Tail(c) = SubSeq(c, 1 + 1, Len(c))
  BY <1>2, TailIsSubSeq
<1> QED BY <1>3, <1>4, <1>5

\* The members from the m-th to the n-th, where the n-th is made to end them.
LEMMA Segment ==
    ASSUME NEW S, NEW c \in Seq(S), NEW step, NEW other, NEW from, NEW old, NEW end,
           Leads(step, from, old, c), NEW m \in Nat \ {0}, NEW n \in Nat, m <= n, n <= Len(c),
           \A j \in m .. n - 1 : other[c[j]] = step[c[j]],
           other[c[n]] = end
    PROVE  Leads(other, c[m], end, SubSeq(c, m, n))
<1> DEFINE d == SubSeq(c, m, n)
<1>0. Len(c) \in Nat
  BY LenProperties
<1>1. /\ d \in Seq(S) /\ Len(d) = n - m + 1
      /\ \A j \in 1 .. n - m + 1 : d[j] = c[m + j - 1]
  <2>1. m <= n + 1
    OBVIOUS
  <2> QED BY <2>1, PartIs
<1> HIDE DEF d
<1>2. ASSUME NEW j \in 1 .. Len(d) PROVE m + j - 1 \in 1 .. Len(c) /\ d[j] = c[m + j - 1]
  BY <1>0, <1>1
<1>3. ASSUME NEW j \in 1 .. Len(d), NEW k \in 1 .. Len(d), d[j] = d[k] PROVE j = k
  <2>0. \A x, y \in 1 .. Len(c) : c[x] = c[y] => x = y
    BY DEF Leads
  <2>1. /\ m + j - 1 \in 1 .. Len(c) /\ m + k - 1 \in 1 .. Len(c)
        /\ c[m + j - 1] = c[m + k - 1]
    BY <1>2, <1>3
  <2>2. m + j - 1 = m + k - 1
    BY <2>0, <2>1
  <2> QED BY <1>1, <2>2
<1>4. c[m] = Nth(d, end, 1)
  BY <1>1 DEF Nth
<1>5. ASSUME NEW j \in 1 .. Len(d) PROVE other[d[j]] = Nth(d, end, j + 1)
  <2>1. CASE j = Len(d)
    <3>1. m + j - 1 = n /\ ~(j + 1 <= Len(d))
      BY <1>1, <2>1
    <3> QED BY <1>2, <3>1 DEF Nth
  <2>2. CASE j # Len(d)
    <3>0. j \in Nat /\ j + 1 <= Len(d) /\ Len(d) \in Nat /\ 1 <= j
      BY <1>1, <2>2
    <3>1. j + 1 \in 1 .. Len(d) /\ m + (j + 1) - 1 = m + j /\ m + j - 1 \in m .. n - 1
          /\ m + j - 1 + 1 = m + j /\ m + j <= Len(c)
      <4>1. j + 1 <= n - m + 1
        BY <1>1, <3>0
      <4> QED BY <1>0, <3>0, <4>1
    <3>2. step[c[m + j - 1]] = Nth(c, old, m + j - 1 + 1)
      BY <1>2 DEF Leads
    <3>3. Nth(c, old, m + j) = c[m + j]
      BY <3>1 DEF Nth
    <3>4. Nth(d, end, j + 1) = c[m + j]
      BY <1>2, <3>0, <3>1 DEF Nth
    <3>5. other[c[m + j - 1]] = step[c[m + j - 1]]
      BY <3>1
    <3> QED BY <1>2, <3>0, <3>1, <3>2, <3>3, <3>4, <3>5
  <2> QED BY <2>1, <2>2
<1>6. Leads(other, c[m], end, d)
  BY <1>3, <1>4, <1>5 DEF Leads
<1> QED BY <1>6 DEF d

\* Without a member that the one before it now passes by.
LEMMA Passed ==
    ASSUME NEW S, NEW c \in Seq(S), NEW step, NEW other, NEW from, NEW begin, NEW end,
           Leads(step, from, end, c), NEW i \in 1 .. Len(c),
           \A j \in 1 .. Len(c) : j # i /\ j # i - 1 => other[c[j]] = step[c[j]],
           i > 1 => other[c[i - 1]] = step[c[i]],
           begin = IF i = 1 THEN step[c[i]] ELSE from
    PROVE  Leads(other, begin, end, Without(c, i))
<1> DEFINE d == Without(c, i)
<1>1. /\ d \in Seq(S) /\ Len(d) = Len(c) - 1
      /\ \A j \in 1 .. Len(c) - 1 : d[j] = IF j < i THEN c[j] ELSE c[j + 1]
      /\ Len(c) \in Nat \ {0}
  BY WithoutIs
<1> HIDE DEF d
<1>2. \A j \in 1 .. Len(c) : step[c[j]] = Nth(c, end, j + 1)
  BY DEF Leads
<1>3. ASSUME NEW j \in 1 .. Len(d), NEW k \in 1 .. Len(d), d[j] = d[k] PROVE j = k
  <2>1. j \in 1 .. Len(c) /\ j + 1 \in 1 .. Len(c) /\ k \in 1 .. Len(c) /\ k + 1 \in 1 .. Len(c)
    BY <1>1
  <2>2. \A x, y \in 1 .. Len(c) : c[x] = c[y] => x = y
    BY DEF Leads
  <2>3. CASE j < i /\ k < i
    <3>1. c[j] = c[k]
      BY <1>1, <1>3, <2>3
    <3> QED BY <2>1, <2>2, <3>1
  <2>4. CASE j < i /\ ~(k < i)
    <3>1. c[j] = c[k + 1]
      BY <1>1, <1>3, <2>4
    <3>2. j = k + 1
      BY <2>1, <2>2, <3>1
    <3> QED BY <2>1, <2>4, <3>2
  <2>5. CASE ~(j < i) /\ k < i
    <3>1. c[j + 1] = c[k]
      BY <1>1, <1>3, <2>5
    <3>2. j + 1 = k
      BY <2>1, <2>2, <3>1
    <3> QED BY <2>1, <2>5, <3>2
  <2>6. CASE ~(j < i) /\ ~(k < i)
    <3>1. c[j + 1] = c[k + 1]
      BY <1>1, <1>3, <2>6
    <3>2. j + 1 = k + 1
      BY <2>1, <2>2, <3>1
    <3> QED BY <2>1, <3>2
  <2> QED BY <2>3, <2>4, <2>5, <2>6
<1>4. ASSUME NEW j \in 1 .. Len(d) + 1
      PROVE  Nth(d, end, j) = IF j < i THEN Nth(c, end, j) ELSE Nth(c, end, j + 1)
  <2>1. CASE j <= Len(d)
    <3>1. j \in 1 .. Len(c) - 1 /\ j <= Len(c) /\ j + 1 <= Len(c)
      BY <1>1, <2>1
    <3>2. d[j] = IF j < i THEN c[j] ELSE c[j + 1]
      BY <1>1, <3>1
    <3> QED BY <2>1, <3>1, <3>2 DEF Nth
  <2>2. CASE ~(j <= Len(d))
    <3>1. ~(j < i) /\ ~(j + 1 <= Len(c))
      BY <1>1, <2>2
    <3> QED BY <2>2, <3>1 DEF Nth
  <2> QED BY <2>1, <2>2
<1>5. begin = Nth(d, end, 1)
  <2>1. 1 \in 1 .. Len(d) + 1 /\ 1 + 1 = 2
    BY <1>1
  <2>2. Nth(d, end, 1) = IF 1 < i THEN Nth(c, end, 1) ELSE Nth(c, end, 1 + 1)
    BY <1>4, <2>1
  <2>3. CASE i = 1
    <3>1. step[c[1]] = Nth(c, end, 1 + 1)
      BY <1>2, <2>3
    <3> QED BY <2>2, <2>3, <3>1
  <2>4. CASE i # 1
    <3>1. 1 < i
      BY <2>4
    <3>2. from = Nth(c, end, 1)
      BY DEF Leads
    <3> QED BY <2>2, <2>4, <3>1, <3>2
  <2> QED BY <2>3, <2>4
<1>6. ASSUME NEW j \in 1 .. Len(d) PROVE other[d[j]] = Nth(d, end, j + 1)
  <2>0. j \in 1 .. Len(c) - 1 /\ j \in 1 .. Len(c) /\ j + 1 \in 1 .. Len(c) /\ j + 1 \in 1 .. Len(d) + 1
        /\ j + 1 + 1 \in Nat
    BY <1>1
  <2>1. Nth(d, end, j + 1) = IF j + 1 < i THEN Nth(c, end, j + 1) ELSE Nth(c, end, j + 1 + 1)
    BY <1>4, <2>0
  <2>2. CASE j + 1 < i
    <3>1. j < i /\ j # i /\ j # i - 1
      BY <2>0, <2>2
    <3>2. d[j] = c[j] /\ other[c[j]] = step[c[j]]
      BY <1>1, <2>0, <3>1
    <3> QED BY <1>2, <2>0, <2>1, <2>2, <3>2
  <2>3. CASE j + 1 = i
    <3>1. j < i /\ j = i - 1 /\ i > 1
      BY <2>0, <2>3
    <3>2. d[j] = c[j] /\ other[c[j]] = step[c[i]]
      BY <1>1, <2>0, <3>1
    <3>3. step[c[i]] = Nth(c, end, j + 1 + 1)
      BY <1>2, <2>3
    <3>4. ~(j + 1 < i)
      BY <2>3
    <3> QED BY <2>1, <3>2, <3>3, <3>4
  <2>4. CASE ~(j + 1 <= i)
    <3>1. ~(j < i) /\ ~(j + 1 < i) /\ j + 1 # i /\ j + 1 # i - 1
      BY <2>0, <2>4
    <3>2. d[j] = c[j + 1] /\ other[c[j + 1]] = step[c[j + 1]]
      BY <1>1, <2>0, <3>1
    <3>3. step[c[j + 1]] = Nth(c, end, j + 1 + 1)
      BY <1>2, <2>0
    <3> QED BY <2>1, <3>1, <3>2, <3>3
  <2> QED BY <2>0, <2>2, <2>3, <2>4
<1>7. Leads(other, begin, end, d)
  BY <1>3, <1>5, <1>6 DEF Leads
<1> QED BY <1>7 DEF d

-----------------------------------------------------------------------------
(* The inductive invariant.                                                  *)

\* What the pointers stand for: F[s] the free objects of a span, L[t] the list of a
\* thread and G[t] what it is giving back, R[h] the spans of a ring.  at[b] says which
\* of these an object is in, or "user", and by[b] whose; where[s] is the ring of a
\* span, or "unused", or "hands".  An object that is nowhere is "span": it is cut anew
\* before anyone has it.
Pc == {"idle", "new", "release", "return"}
Places == {"span", "list", "going", "user"}
Wheres == {"unused", "hands"} \cup Heads

Types ==
    /\ links.next \in [Span \cup Heads -> Span \cup Heads \cup {Null}]
    /\ links.prev \in [Span \cup Heads -> Span \cup Heads \cup {Null}]
    /\ unused \subseteq Span
    /\ freeList \in [Span -> Block \cup {Null}]
    /\ useCount \in [Span -> Int]
    /\ word \in [Block -> Block \cup {Null, Data}]
    /\ list \in [Thread -> Block \cup {Null}]
    /\ size \in [Thread -> Int]
    /\ maxSize \in [Thread -> Nat \ {0}]
    /\ user \subseteq Block
    /\ pc \in [Thread -> Pc]
    /\ span \in [Thread -> Span \cup {Null}]
    /\ start \in [Thread -> Block \cup {Null}]

\* Every pointer a chain begins with leads through it to nullptr.
Chains(F, L, G) ==
    /\ F \in [Span -> Seq(Block)] /\ \A s \in Span : Leads(word, freeList[s], Null, F[s])
    /\ L \in [Thread -> Seq(Block)] /\ \A t \in Thread : Leads(word, list[t], Null, L[t])
    /\ G \in [Thread -> Seq(Block)] /\ \A t \in Thread : Leads(word, start[t], Null, G[t])

\* The chains, and what users have, are apart.
Apart(F, L, G, at, by) ==
    /\ at \in [Block -> Places] /\ by \in [Block -> Thread \cup {Null}]
    /\ \A s \in Span : \A j \in 1 .. Len(F[s]) : F[s][j][1] = s /\ at[F[s][j]] = "span"
    /\ \A t \in Thread : \A j \in 1 .. Len(L[t]) : at[L[t][j]] = "list" /\ by[L[t][j]] = t
    /\ \A t \in Thread : \A j \in 1 .. Len(G[t]) : at[G[t][j]] = "going" /\ by[G[t][j]] = t
    /\ \A b \in Block : b \in user <=> at[b] = "user"

\* Both rings close, and the one direction is the other turned around.
Rings(R) ==
    /\ R \in [Heads -> Seq(Span)]
    /\ \A h \in Heads : Leads(links.next, links.next[h], h, R[h])
    /\ \A x, y \in Span \cup Heads : links.next[x] = y <=> links.prev[y] = x

\* A span is on one ring or none, and then its pointers are null; one with an object
\* that somebody has is on the bucket's.
Whereabouts(R, at, where) ==
    /\ where \in [Span -> Wheres]
    /\ \A s \in Span : s \in unused <=> where[s] = "unused"
    /\ \A h \in Heads : \A i \in 1 .. Len(R[h]) : where[R[h][i]] = h
    /\ \A s \in Span : where[s] \in Heads => \E i \in 1 .. Len(R[where[s]]) : R[where[s]][i] = s
    /\ \A s \in Span : where[s] \notin Heads => links.next[s] = Null /\ links.prev[s] = Null
    /\ \A b \in Block : at[b] # "span" => where[b[1]] = "bucket"

\* The counters.
Counts(F, L, where) ==
    /\ \A t \in Thread : size[t] = Len(L[t]) /\ size[t] < maxSize[t]
    /\ \A s \in Span :
          useCount[s] = IF where[s] = "bucket" THEN PerSpan - Len(F[s]) ELSE 0

\* A thread with a span in hand has it alone; a new one is whole.
Carrying(t) == pc[t] \in {"new", "return"}
Hands(F, L, G, where) ==
    /\ \A t \in Thread : Carrying(t) => span[t] \in Span /\ where[span[t]] = "hands"
    /\ \A t, u \in Thread : Carrying(t) /\ Carrying(u) /\ span[t] = span[u] => t = u
    /\ \A t \in Thread : pc[t] = "new" => L[t] = <<>> /\ Len(F[span[t]]) = PerSpan
    /\ \A t \in Thread : pc[t] \in {"idle", "new"} => G[t] = <<>>

Sound(F, L, G, R, at, by, where) ==
    /\ Types
    /\ Chains(F, L, G)
    /\ Apart(F, L, G, at, by)
    /\ Rings(R)
    /\ Whereabouts(R, at, where)
    /\ Counts(F, L, where)
    /\ Hands(F, L, G, where)

IInv == \E F, L, G, R, at, by, where : Sound(F, L, G, R, at, by, where)

LEMMA Constants ==
    /\ IsFiniteSet(Span) /\ IsFiniteSet(Block)
    /\ Null \notin Block /\ Null \notin Span /\ Null \notin Heads /\ Null # Data
    /\ \A h \in Heads : h \notin Span
    /\ "bucket" \in Heads /\ "pages" \in Heads
    /\ PerSpan \in Nat \ {0} /\ NumMoveSize \in Nat /\ NumMoveSize >= 2
    /\ \A b \in Block : b[1] \in Span /\ b[2] \in 1 .. PerSpan /\ b = <<b[1], b[2]>>
<1>1. IsFiniteSet(Span) /\ PerSpan \in Nat \ {0}
  BY LinksAssumption
<1>2. IsFiniteSet(1 .. PerSpan)
  BY <1>1, FS_Interval
<1>3. IsFiniteSet(Block)
  BY <1>1, <1>2, FS_Product DEF Block
<1>4. /\ Null \notin Block /\ Null \notin Span /\ Null \notin Heads /\ Null # Data
      /\ \A h \in Heads : h \notin Span
  BY LinksAssumption
<1>5. "bucket" \in Heads /\ "pages" \in Heads
  BY DEF Heads
<1>6. \A b \in Block : b[1] \in Span /\ b[2] \in 1 .. PerSpan /\ b = <<b[1], b[2]>>
  BY DEF Block
<1> QED
  BY <1>1, <1>3, <1>4, <1>5, <1>6, LinksAssumption

\* What the walks of the model meet are these sequences.
LEMMA Reading ==
    \A F, L, G, R, at, by, where :
        Sound(F, L, G, R, at, by, where) =>
            F = FreeOf /\ L = ListOf /\ G = GoingOf /\ R = RingOf
<1> SUFFICES ASSUME NEW F, NEW L, NEW G, NEW R, NEW at, NEW by, NEW where,
                    Sound(F, L, G, R, at, by, where)
             PROVE  F = FreeOf /\ L = ListOf /\ G = GoingOf /\ R = RingOf
  OBVIOUS
<1>1. ASSUME NEW c \in Seq(Block), NEW from, Leads(word, from, Null, c) PROVE Chain(from) = c
  BY <1>1, Walk, Constants DEF Chain
<1>2. F = FreeOf
  <2>1. F \in [Span -> Seq(Block)] /\ \A s \in Span : Leads(word, freeList[s], Null, F[s])
    BY DEF Sound, Chains
  <2>2. \A s \in Span : Chain(freeList[s]) = F[s]
    BY <1>1, <2>1
  <2> QED BY <2>1, <2>2 DEF FreeOf
<1>3. L = ListOf
  <2>1. L \in [Thread -> Seq(Block)] /\ \A t \in Thread : Leads(word, list[t], Null, L[t])
    BY DEF Sound, Chains
  <2>2. \A t \in Thread : Chain(list[t]) = L[t]
    BY <1>1, <2>1
  <2> QED BY <2>1, <2>2 DEF ListOf
<1>4. G = GoingOf
  <2>1. G \in [Thread -> Seq(Block)] /\ \A t \in Thread : Leads(word, start[t], Null, G[t])
    BY DEF Sound, Chains
  <2>2. \A t \in Thread : Chain(start[t]) = G[t]
    BY <1>1, <2>1
  <2> QED BY <2>1, <2>2 DEF GoingOf
<1>5. R = RingOf
  <2>1. R \in [Heads -> Seq(Span)] /\ \A h \in Heads : Leads(links.next, links.next[h], h, R[h])
    BY DEF Sound, Rings
  <2>2. ASSUME NEW h \in Heads PROVE Ring(h) = R[h]
    <3>1. h \notin Span /\ R[h] \in Seq(Span) /\ Leads(links.next, links.next[h], h, R[h])
      BY <2>1, Constants
    <3>2. Path(links.next, links.next[h], Span) = R[h]
      BY <3>1, Walk, Constants
    <3> QED BY <3>2 DEF Ring, Begin
  <2> QED BY <2>1, <2>2 DEF RingOf
<1> QED
  BY <1>2, <1>3, <1>4, <1>5

\* And after a step.
LEMMA ReadingOn ==
    \A F, L, G, R, at, by, where :
        Sound(F, L, G, R, at, by, where)' =>
            F = FreeOf' /\ L = ListOf' /\ G = GoingOf' /\ R = RingOf'
<1>1. (\A F, L, G, R, at, by, where :
        Sound(F, L, G, R, at, by, where) =>
            F = FreeOf /\ L = ListOf /\ G = GoingOf /\ R = RingOf)'
  BY Reading, PTL
<1> QED
  BY <1>1

\* Members of the sequences.
LEMMA Members ==
    ASSUME NEW F, NEW L, NEW G, NEW R, NEW at, NEW by, NEW where,
           Sound(F, L, G, R, at, by, where)
    PROVE  /\ \A s \in Span : /\ F[s] \in Seq(Block) /\ Len(F[s]) \in Nat
                              /\ \A j \in 1 .. Len(F[s]) : F[s][j] \in Block
           /\ \A t \in Thread : /\ L[t] \in Seq(Block) /\ Len(L[t]) \in Nat
                                /\ \A j \in 1 .. Len(L[t]) : L[t][j] \in Block
           /\ \A t \in Thread : /\ G[t] \in Seq(Block) /\ Len(G[t]) \in Nat
                                /\ \A j \in 1 .. Len(G[t]) : G[t][j] \in Block
           /\ \A h \in Heads : /\ R[h] \in Seq(Span) /\ Len(R[h]) \in Nat
                               /\ \A j \in 1 .. Len(R[h]) : R[h][j] \in Span
<1>1. /\ \A s \in Span : F[s] \in Seq(Block)
      /\ \A t \in Thread : L[t] \in Seq(Block) /\ G[t] \in Seq(Block)
      /\ \A h \in Heads : R[h] \in Seq(Span)
  BY DEF Sound, Chains, Rings
<1>2. \A S : \A c \in Seq(S) : Len(c) \in Nat /\ \A j \in 1 .. Len(c) : c[j] \in S
  BY LenProperties, ElementOfSeq
<1> QED
  BY <1>1, <1>2

\* Where words change that a chain does not pass, it stays.
LEMMA Kept ==
    ASSUME NEW F, NEW L, NEW G, NEW R, NEW at, NEW by, NEW where,
           Sound(F, L, G, R, at, by, where),
           NEW w, NEW B, \A b \in Block : b \notin B => w[b] = word[b]
    PROVE  /\ \A s \in Span : (\A j \in 1 .. Len(F[s]) : F[s][j] \notin B) =>
                  Leads(w, freeList[s], Null, F[s])
           /\ \A t \in Thread : (\A j \in 1 .. Len(L[t]) : L[t][j] \notin B) =>
                  Leads(w, list[t], Null, L[t])
           /\ \A t \in Thread : (\A j \in 1 .. Len(G[t]) : G[t][j] \notin B) =>
                  Leads(w, start[t], Null, G[t])
<1>1. /\ \A s \in Span : Leads(word, freeList[s], Null, F[s])
      /\ \A t \in Thread : Leads(word, list[t], Null, L[t])
      /\ \A t \in Thread : Leads(word, start[t], Null, G[t])
  BY DEF Sound, Chains
<1>2. ASSUME NEW c, NEW from, Leads(word, from, Null, c),
             \A j \in 1 .. Len(c) : c[j] \in Block /\ c[j] \notin B
      PROVE  Leads(w, from, Null, c)
  <2>1. \A j \in 1 .. Len(c) : w[c[j]] = word[c[j]]
    BY <1>2
  <2> QED BY <1>2, <2>1, Elsewhere
<1> QED
  BY <1>1, <1>2, Members

LEMMA InitIInv == Init => IInv
<1> SUFFICES ASSUME Init PROVE IInv
  OBVIOUS
<1> DEFINE F == [s \in Span |-> <<>>]
           L == [t \in Thread |-> <<>>]
           R == [h \in Heads |-> <<>>]
           at == [b \in Block |-> "span"]
           by == [b \in Block |-> Null]
           where == [s \in Span |-> "unused"]
<1>1. Types
  BY Constants DEF Init, Types, Pc
<1>2. Chains(F, L, L)
  BY Nothing DEF Init, Chains
<1>3. Apart(F, L, L, at, by)
  BY DEF Init, Apart, Places
<1>4. Rings(R)
  <2>1. R \in [Heads -> Seq(Span)]
    OBVIOUS
  <2>2. \A h \in Heads : links.next[h] = h
    BY DEF Init
  <2>3. \A h \in Heads : Leads(links.next, links.next[h], h, R[h])
    BY <2>2, Nothing
  <2>4. \A x, y \in Span \cup Heads : links.next[x] = y <=> links.prev[y] = x
    BY Constants DEF Init
  <2> HIDE DEF R
  <2> QED BY <2>1, <2>3, <2>4 DEF Rings
<1>5. Whereabouts(R, at, where)
  BY Constants DEF Init, Whereabouts, Wheres, Heads
<1>6. Counts(F, L, where)
  BY DEF Init, Counts
<1>7. Hands(F, L, L, where)
  BY DEF Init, Hands, Carrying
<1> HIDE DEF F, L, R, at, by, where
<1> QED
  BY <1>1, <1>2, <1>3, <1>4, <1>5, <1>6, <1>7 DEF Sound, IInv

-----------------------------------------------------------------------------
(* Pop.                                                                      *)

LEMMA PopSound ==
    ASSUME NEW F, NEW L, NEW G, NEW R, NEW at, NEW by, NEW where,
           Sound(F, L, G, R, at, by, where), NEW t \in Thread, Pop(t)
    PROVE  /\ Sound(F, [L EXCEPT ![t] = Tail(@)], G, R, [at EXCEPT ![L[t][1]] = "user"],
                    by, where)'
           /\ L[t] # <<>>
           /\ user' = user \cup {Head(L[t])}
           /\ UNCHANGED unused
<1> DEFINE b == L[t][1]
           M == [L EXCEPT ![t] = Tail(@)]
           now == [at EXCEPT ![b] = "user"]
<1>1. Types
  BY DEF Sound
<1>2. Chains(F, L, G) /\ Apart(F, L, G, at, by) /\ Rings(R) /\ Whereabouts(R, at, where)
      /\ Counts(F, L, where) /\ Hands(F, L, G, where)
  BY DEF Sound
<1>3. /\ \A s \in Span : \A j \in 1 .. Len(F[s]) : F[s][j] \in Block
      /\ \A u \in Thread : \A j \in 1 .. Len(L[u]) : L[u][j] \in Block
      /\ \A u \in Thread : \A j \in 1 .. Len(G[u]) : G[u][j] \in Block
      /\ \A u \in Thread : L[u] \in Seq(Block)
  BY Members
<1>4. L[t] # <<>> /\ list[t] = b /\ Len(L[t]) \in Nat \ {0} /\ 1 \in 1 .. Len(L[t])
  <2>1. list[t] # Null
    BY DEF Pop
  <2>2. Leads(word, list[t], Null, L[t])
    BY <1>2 DEF Chains
  <2> QED BY <1>3, <2>1, <2>2, Empty, Constants
<1>5. b \in Block /\ at[b] = "list" /\ by[b] = t
  BY <1>2, <1>3, <1>4 DEF Apart
<1>6. /\ Tail(L[t]) \in Seq(Block) /\ Len(Tail(L[t])) = Len(L[t]) - 1 /\ Head(L[t]) = b
      /\ \A j \in 1 .. Len(L[t]) - 1 : Tail(L[t])[j] = L[t][j + 1]
  BY <1>3, <1>4, RestIs
<1> HIDE DEF b
<1>7. M \in [Thread -> Seq(Block)] /\ M[t] = Tail(L[t]) /\ \A u \in Thread : u # t => M[u] = L[u]
  BY <1>2, <1>6 DEF Chains
<1>8. now \in [Block -> Places] /\ now[b] = "user" /\ \A c \in Block : c # b => now[c] = at[c]
  BY <1>2, <1>5 DEF Apart, Places
<1> HIDE DEF M, now
<1>9. /\ word' = [word EXCEPT ![b] = Data] /\ list' = [list EXCEPT ![t] = word[b]]
      /\ size' = [size EXCEPT ![t] = @ - 1] /\ user' = user \cup {b}
      /\ pc[t] = "idle"
      /\ links' = links /\ unused' = unused /\ freeList' = freeList /\ useCount' = useCount
      /\ maxSize' = maxSize /\ pc' = pc /\ span' = span /\ start' = start
  BY <1>4 DEF Pop, central, locals
<1>10. word[b] \in Block \cup {Null}
  <2>1. word[b] = Nth(L[t], Null, 1 + 1)
    BY <1>2, <1>4 DEF Chains, Leads, b
  <2>2. 1 + 1 <= Len(L[t]) => 1 + 1 \in 1 .. Len(L[t])
    BY <1>4
  <2> QED BY <1>3, <2>1, <2>2 DEF Nth
<1>11. Types'
  BY <1>1, <1>5, <1>9, <1>10 DEF Types
\* The members of a list's rest are not its first.
<1>12. \A j \in 1 .. Len(M[t]) : j + 1 \in 1 .. Len(L[t]) /\ M[t][j] = L[t][j + 1] /\ M[t][j] # b
  <2> TAKE j \in 1 .. Len(M[t])
  <2>1. j \in 1 .. Len(L[t]) - 1 /\ j + 1 \in 1 .. Len(L[t]) /\ j + 1 # 1
    BY <1>4, <1>6, <1>7
  <2>2. M[t][j] = L[t][j + 1]
    BY <1>6, <1>7, <2>1
  <2>3. L[t][j + 1] # L[t][1]
    <3>1. \A x, y \in 1 .. Len(L[t]) : L[t][x] = L[t][y] => x = y
      BY <1>2 DEF Chains, Leads
    <3> QED BY <1>4, <2>1, <3>1
  <2> QED BY <2>1, <2>2, <2>3 DEF b
<1>13. Chains(F, M, G)'
  <2>1. \A c \in Block : c \notin {b} => word'[c] = word[c]
    BY <1>1, <1>9 DEF Types
  <2>2. /\ \A s \in Span : \A j \in 1 .. Len(F[s]) : F[s][j] \notin {b}
        /\ \A u \in Thread : u # t => \A j \in 1 .. Len(L[u]) : L[u][j] \notin {b}
        /\ \A u \in Thread : \A j \in 1 .. Len(G[u]) : G[u][j] \notin {b}
    BY <1>2, <1>5 DEF Apart
  <2>3. /\ \A s \in Span : Leads(word', freeList[s], Null, F[s])
        /\ \A u \in Thread : u # t => Leads(word', list[u], Null, L[u])
        /\ \A u \in Thread : Leads(word', start[u], Null, G[u])
    BY <2>1, <2>2, Kept
  <2>4. Leads(word, word[b], Null, M[t])
    <3>1. Leads(word, list[t], Null, L[t])
      BY <1>2 DEF Chains
    <3>2. Leads(word, word[L[t][1]], Null, Tail(L[t]))
      BY <1>3, <1>4, <3>1, Rest
    <3> QED BY <1>7, <3>2 DEF b
  <2>5. \A j \in 1 .. Len(M[t]) : word'[M[t][j]] = word[M[t][j]]
    BY <1>3, <1>12, <2>1
  <2>6. Leads(word', word[b], Null, M[t])
    BY <2>4, <2>5, Elsewhere
  <2>7. list'[t] = word[b] /\ \A u \in Thread : u # t => list'[u] = list[u]
    BY <1>1, <1>9 DEF Types
  <2>8. \A u \in Thread : Leads(word', list'[u], Null, M[u])
    BY <1>7, <2>3, <2>6, <2>7
  <2>9. F \in [Span -> Seq(Block)] /\ G \in [Thread -> Seq(Block)]
    BY <1>2 DEF Chains
  <2> QED BY <1>7, <1>9, <2>3, <2>8, <2>9 DEF Chains
<1>14. Apart(F, M, G, now, by)'
  <2>1. \A s \in Span : \A j \in 1 .. Len(F[s]) : F[s][j][1] = s /\ now[F[s][j]] = "span"
    BY <1>2, <1>3, <1>5, <1>8 DEF Apart
  <2>2. \A u \in Thread : \A j \in 1 .. Len(M[u]) : now[M[u][j]] = "list" /\ by[M[u][j]] = u
    <3> TAKE u \in Thread
    <3> TAKE j \in 1 .. Len(M[u])
    <3>1. CASE u = t
      BY <1>2, <1>3, <1>8, <1>12, <3>1 DEF Apart
    <3>2. CASE u # t
      BY <1>2, <1>3, <1>5, <1>7, <1>8, <3>2 DEF Apart
    <3> QED BY <3>1, <3>2
  <2>3. \A u \in Thread : \A j \in 1 .. Len(G[u]) : now[G[u][j]] = "going" /\ by[G[u][j]] = u
    BY <1>2, <1>3, <1>5, <1>8 DEF Apart
  <2>4. \A c \in Block : c \in user' <=> now[c] = "user"
    BY <1>2, <1>8, <1>9 DEF Apart
  <2>5. by \in [Block -> Thread \cup {Null}]
    BY <1>2 DEF Apart
  <2> QED BY <1>8, <2>1, <2>2, <2>3, <2>4, <2>5 DEF Apart
<1>15. Rings(R)'
  BY <1>2, <1>9 DEF Rings
<1>16. Whereabouts(R, now, where)'
  <2>1. \A c \in Block : now[c] # "span" => where[c[1]] = "bucket"
    BY <1>2, <1>5, <1>8 DEF Whereabouts
  <2> QED BY <1>2, <1>9, <2>1 DEF Whereabouts
<1>17. Counts(F, M, where)'
  <2>1. \A u \in Thread : size'[u] = Len(M[u]) /\ size'[u] < maxSize[u]
    <3> TAKE u \in Thread
    <3>1. size[u] = Len(L[u]) /\ size[u] < maxSize[u] /\ maxSize[u] \in Nat /\ size[u] \in Int
      BY <1>1, <1>2 DEF Counts, Types
    <3>2. CASE u = t
      <4>1. size'[t] = size[t] - 1
        BY <1>1, <1>9 DEF Types
      <4> QED BY <1>6, <1>7, <3>1, <3>2, <4>1
    <3>3. CASE u # t
      <4>1. size'[u] = size[u]
        BY <1>1, <1>9, <3>3 DEF Types
      <4> QED BY <1>7, <3>1, <3>3, <4>1
    <3> QED BY <3>2, <3>3
  <2> QED BY <1>2, <1>9, <2>1 DEF Counts
<1>18. Hands(F, M, G, where)'
  <2>1. \A u \in Thread : pc[u] = "new" => M[u] = <<>> /\ Len(F[span[u]]) = PerSpan
    BY <1>2, <1>7, <1>9 DEF Hands
  <2> QED BY <1>2, <1>9, <2>1 DEF Hands, Carrying
<1>19. Sound(F, M, G, R, now, by, where)'
  BY <1>11, <1>13, <1>14, <1>15, <1>16, <1>17, <1>18 DEF Sound
<1> QED
  BY <1>4, <1>6, <1>9, <1>19 DEF M, now, b

LEMMA PopRefines ==
    ASSUME IInv, NEW t \in Thread, Pop(t)
    PROVE  IInv' /\ Abstract!ListsNext
<1>1. PICK F, L, G, R, at, by, where : Sound(F, L, G, R, at, by, where)
  BY DEF IInv
<1> DEFINE M == [L EXCEPT ![t] = Tail(@)]
           now == [at EXCEPT ![L[t][1]] = "user"]
<1>2. /\ Sound(F, M, G, R, now, by, where)' /\ L[t] # <<>>
      /\ user' = user \cup {Head(L[t])} /\ UNCHANGED unused
  BY <1>1, PopSound
<1>3. M = [L EXCEPT ![t] = Tail(L[t])]
  OBVIOUS
<1> HIDE DEF M, now
<1>4. F = FreeOf /\ L = ListOf /\ G = GoingOf /\ R = RingOf
  BY <1>1, Reading
<1>5. F = FreeOf' /\ M = ListOf' /\ G = GoingOf' /\ R = RingOf'
  BY <1>2, ReadingOn
<1>6. Abstract!Pop(t)
  BY <1>2, <1>3, <1>4, <1>5 DEF Abstract!Pop
<1>7. Abstract!ListsNext
  BY <1>6 DEF Abstract!ListsNext
<1>8. IInv'
  BY <1>2 DEF IInv
<1> QED
  BY <1>7, <1>8

-----------------------------------------------------------------------------
(* FetchRangeObj.                                                            *)

\* A span has no more objects than it was cut into, and a chain as long has them all.
LEMMA Objects ==
    ASSUME NEW s \in Span, NEW c \in Seq(Block),
           \A j, k \in 1 .. Len(c) : c[j] = c[k] => j = k,
           \A j \in 1 .. Len(c) : c[j][1] = s
    PROVE  /\ Len(c) <= PerSpan
           /\ Len(c) = PerSpan => \A b \in Block : b[1] = s => \E j \in 1 .. Len(c) : c[j] = b
<1> DEFINE d == [j \in 1 .. Len(c) |-> c[j][2]]
<1>1. Len(c) \in Nat /\ \A j \in 1 .. Len(c) : c[j] \in Block
  BY LenProperties, ElementOfSeq
<1>2. \A j \in 1 .. Len(c) : c[j][2] \in 1 .. PerSpan /\ c[j] = <<s, c[j][2]>>
  BY <1>1, Constants
<1>3. d \in Seq(1 .. PerSpan) /\ Len(d) = Len(c) /\ \A j \in 1 .. Len(c) : d[j] = c[j][2]
  BY <1>1, <1>2
<1> HIDE DEF d
<1>4. \A j, k \in 1 .. Len(d) : d[j] = d[k] => j = k
  <2> TAKE j, k \in 1 .. Len(d)
  <2> HAVE d[j] = d[k]
  <2>1. c[j] = <<s, d[j]>> /\ c[k] = <<s, d[k]>>
    BY <1>2, <1>3
  <2>2. c[j] = c[k]
    BY <2>1
  <2> QED BY <1>3, <2>2
<1>5. PICK S : S = 1 .. PerSpan
  OBVIOUS
<1>6. /\ Len(d) <= PerSpan
      /\ Len(d) = PerSpan => \A x \in 1 .. PerSpan : \E j \in 1 .. Len(d) : d[j] = x
  <2>1. PerSpan \in Nat \ {0}
    BY Constants
  <2>2. 1 \in Int /\ PerSpan \in Int /\ ~(1 > PerSpan) /\ PerSpan - 1 + 1 = PerSpan
    BY <2>1
  <2>3. IsFiniteSet(S) /\ Cardinality(S) = PerSpan
    BY <1>5, <2>2, FS_Interval
  <2>4. d \in Seq(S)
    BY <1>3, <1>5
  <2>5. /\ Len(d) <= Cardinality(S)
        /\ Len(d) = Cardinality(S) => \A x \in S : \E j \in 1 .. Len(d) : d[j] = x
    BY <1>4, <2>3, <2>4, Pigeons
  <2> QED BY <1>5, <2>3, <2>5
<1>7. ASSUME Len(c) = PerSpan, NEW b \in Block, b[1] = s
      PROVE  \E j \in 1 .. Len(c) : c[j] = b
  <2>1. b = <<s, b[2]>> /\ b[2] \in 1 .. PerSpan
    BY <1>7, Constants
  <2>2. PICK j \in 1 .. Len(c) : d[j] = b[2]
    BY <1>3, <1>6, <1>7, <2>1
  <2>3. c[j] = <<s, d[j]>>
    BY <1>2, <1>3
  <2> QED BY <2>1, <2>2, <2>3
<1> QED
  BY <1>3, <1>6, <1>7

\* Where the objects of s go when n leave it: the first to the user, the others to t.
Taken(c, n, at) == [b \in Block |-> IF b = c[1] THEN "user"
                                    ELSE IF \E j \in 2 .. n : c[j] = b THEN "list" ELSE at[b]]
TakenBy(c, n, t, by) == [b \in Block |-> IF \E j \in 2 .. n : c[j] = b THEN t ELSE by[b]]

LEMMA BatchIs ==
    ASSUME NEW F, NEW L, NEW G, NEW R, NEW at, NEW by, NEW where,
           Sound(F, L, G, R, at, by, where), NEW t \in Thread, NEW s \in Span, F[s] # <<>>
    PROVE  /\ Batch(t, s) \in 1 .. Len(F[s]) /\ Batch(t, s) <= maxSize[t]
           /\ Batch(t, s) \in 1 .. PerSpan
           /\ Chain(freeList[s]) = F[s]
           /\ Len(F[s]) \in Nat \ {0}
<1>1. F = FreeOf /\ F[s] \in Seq(Block)
  BY Reading, Members
<1>2. Chain(freeList[s]) = F[s]
  BY <1>1 DEF FreeOf
<1>3. Len(F[s]) \in Nat \ {0}
  BY <1>1, EmptySeq
<1>4. maxSize[t] \in Nat \ {0}
  BY DEF Sound, Types
<1>5. Batch(t, s) \in 1 .. Len(F[s]) /\ Batch(t, s) <= maxSize[t]
  BY <1>2, <1>3, <1>4, Constants DEF Batch, Smaller
<1>6. Len(F[s]) <= PerSpan
  <2>1. /\ \A j, k \in 1 .. Len(F[s]) : F[s][j] = F[s][k] => j = k
        /\ \A j \in 1 .. Len(F[s]) : F[s][j][1] = s
    BY DEF Sound, Chains, Apart, Leads
  <2> QED BY <1>1, <2>1, Objects
<1> QED
  BY <1>2, <1>3, <1>5, <1>6, Constants

\* What Take does to the sequences, the places and the counters.
Took(F, L, G, at, t, s, n, E, M, now, whose) ==
    /\ Chains(E, M, G)'
    /\ Apart(E, M, G, now, whose)'
    /\ \A u \in Thread : size'[u] = Len(M[u]) /\ size'[u] < maxSize'[u]
    /\ Len(E[s]) = Len(F[s]) - n /\ \A x \in Span : x # s => E[x] = F[x]
    /\ \A u \in Thread : u # t => M[u] = L[u]
    /\ \A b \in Block : now[b] # "span" => at[b] # "span" \/ b[1] = s
    /\ user' = user \cup {Head(F[s])}
    /\ freeList' \in [Span -> Block \cup {Null}]
    /\ useCount' = [useCount EXCEPT ![s] = @ + n]
    /\ word' \in [Block -> Block \cup {Null, Data}]
    /\ list' \in [Thread -> Block \cup {Null}]
    /\ size' \in [Thread -> Int]
    /\ maxSize' \in [Thread -> Nat \ {0}]
    /\ user' \subseteq Block

LEMMA TakeSound ==
    ASSUME NEW F, NEW L, NEW G, NEW R, NEW at, NEW by, NEW where,
           Sound(F, L, G, R, at, by, where), NEW t \in Thread, NEW s \in Span, Take(t, s),
           L[t] = <<>>, F[s] # <<>>, start' = start, NEW n, n = Batch(t, s)
    PROVE  Took(F, L, G, at, t, s, n, [F EXCEPT ![s] = SubSeq(@, n + 1, Len(@))],
                [L EXCEPT ![t] = SubSeq(F[s], 2, n)], Taken(F[s], n, at), TakenBy(F[s], n, t, by))
<1> DEFINE c == F[s]
           E == [F EXCEPT ![s] = SubSeq(@, n + 1, Len(@))]
           M == [L EXCEPT ![t] = SubSeq(F[s], 2, n)]
           now == Taken(c, n, at)
           whose == TakenBy(c, n, t, by)
           B == {c[j] : j \in 1 .. n}
<1>1. Types /\ Chains(F, L, G) /\ Apart(F, L, G, at, by) /\ Counts(F, L, where)
  BY DEF Sound
<1>2. /\ \A x \in Span : \A j \in 1 .. Len(F[x]) : F[x][j] \in Block
      /\ \A u \in Thread : \A j \in 1 .. Len(L[u]) : L[u][j] \in Block
      /\ \A u \in Thread : \A j \in 1 .. Len(G[u]) : G[u][j] \in Block
      /\ c \in Seq(Block)
  BY Members
<1>3. n \in 1 .. Len(c) /\ n <= maxSize[t] /\ Chain(freeList[s]) = c /\ Len(c) \in Nat \ {0}
  BY BatchIs
<1>4. n \in Nat \ {0} /\ 1 \in 1 .. Len(c) /\ n <= Len(c) /\ n \in 1 .. n /\ 1 \in 1 .. n
  BY <1>3
<1>5. /\ Leads(word, freeList[s], Null, c) /\ freeList[s] = c[1]
      /\ \A j, k \in 1 .. Len(c) : c[j] = c[k] => j = k
      /\ \A j \in 1 .. Len(c) : /\ c[j] \in Block /\ c[j][1] = s /\ at[c[j]] = "span"
                                /\ word[c[j]] = Nth(c, Null, j + 1)
  <2>1. Leads(word, freeList[s], Null, c)
    BY <1>1 DEF Chains
  <2> QED BY <1>1, <1>2, <1>4, <2>1 DEF Leads, Nth, Apart
<1> HIDE DEF c
<1>6. /\ freeList' = [freeList EXCEPT ![s] = word[c[n]]]
      /\ useCount' = [useCount EXCEPT ![s] = @ + n]
      /\ word' = [[word EXCEPT ![c[n]] = Null] EXCEPT ![c[1]] = Data]
      /\ list' = [list EXCEPT ![t] = IF n > 1 THEN word[c[1]] ELSE @]
      /\ size' = [size EXCEPT ![t] = @ + (n - 1)]
      /\ maxSize' = [maxSize EXCEPT ![t] = Grow(t)]
      /\ user' = user \cup {c[1]}
  BY <1>3, <1>5 DEF Take, Pushed, Cut
<1>7. /\ \A b \in Block : b # c[n] /\ b # c[1] => word'[b] = word[b]
      /\ word'[c[1]] = Data
      /\ n > 1 => word'[c[n]] = Null
  <2>1. c[n] \in Block /\ c[1] \in Block /\ word \in [Block -> Block \cup {Null, Data}]
    BY <1>1, <1>3, <1>4, <1>5 DEF Types
  <2>2. n > 1 => c[n] # c[1]
    BY <1>3, <1>4, <1>5
  <2> QED BY <1>6, <2>1, <2>2
<1>8. \A j \in 1 .. Len(c) : word[c[j]] \in Block \cup {Null}
  <2> TAKE j \in 1 .. Len(c)
  <2>1. word[c[j]] = Nth(c, Null, j + 1) /\ (j + 1 <= Len(c) => j + 1 \in 1 .. Len(c))
    BY <1>3, <1>5
  <2> QED BY <1>5, <2>1 DEF Nth
<1>9. Grow(t) \in Nat \ {0} /\ Grow(t) >= maxSize[t] /\ maxSize[t] \in Nat \ {0}
  BY <1>1, Constants DEF Grow, Types
<1>10. /\ freeList' \in [Span -> Block \cup {Null}]
       /\ word' \in [Block -> Block \cup {Null, Data}]
       /\ list' \in [Thread -> Block \cup {Null}]
       /\ size' \in [Thread -> Int]
       /\ maxSize' \in [Thread -> Nat \ {0}]
       /\ user' \subseteq Block
  <2>1. c[1] \in Block /\ word[c[n]] \in Block \cup {Null} /\ word[c[1]] \in Block \cup {Null}
    BY <1>3, <1>4, <1>5, <1>8
  <2>2. list' \in [Thread -> Block \cup {Null}]
    BY <1>1, <1>6, <2>1 DEF Types
  <2>3. size' \in [Thread -> Int] /\ maxSize' \in [Thread -> Nat \ {0}]
    <3>1. size \in [Thread -> Int] /\ maxSize \in [Thread -> Nat \ {0}] /\ n - 1 \in Int
      BY <1>1, <1>4 DEF Types
    <3>2. size[t] + (n - 1) \in Int
      BY <3>1
    <3> QED BY <1>6, <1>9, <3>1, <3>2
  <2>4. freeList' \in [Span -> Block \cup {Null}] /\ user' \subseteq Block
    BY <1>1, <1>6, <2>1 DEF Types
  <2>5. word' \in [Block -> Block \cup {Null, Data}]
    BY <1>1, <1>6, <2>1 DEF Types
  <2> QED BY <2>2, <2>3, <2>4, <2>5
<1>11. /\ E[s] = SubSeq(c, n + 1, Len(c)) /\ E[s] \in Seq(Block) /\ Len(E[s]) = Len(c) - n
       /\ \A j \in 1 .. Len(c) - n : E[s][j] = c[n + j]
  <2>1. E[s] = SubSeq(c, n + 1, Len(c))
    BY <1>1 DEF Chains, c
  <2>2. n + 1 \in Nat \ {0} /\ Len(c) \in Nat /\ Len(c) <= Len(c) /\ n + 1 <= Len(c) + 1
    BY <1>3, <1>4
  <2>3. /\ SubSeq(c, n + 1, Len(c)) \in Seq(Block)
        /\ Len(SubSeq(c, n + 1, Len(c))) = Len(c) - (n + 1) + 1
        /\ \A j \in 1 .. Len(c) - (n + 1) + 1 : SubSeq(c, n + 1, Len(c))[j] = c[n + 1 + j - 1]
    BY <1>2, <2>2, PartIs DEF c
  <2>4. Len(c) - (n + 1) + 1 = Len(c) - n /\ \A j \in 1 .. Len(c) - n : n + 1 + j - 1 = n + j
    BY <1>3, <1>4
  <2> HIDE DEF E
  <2> QED BY <2>1, <2>3, <2>4
<1>12. /\ M[t] = SubSeq(c, 2, n) /\ M[t] \in Seq(Block) /\ Len(M[t]) = n - 1
       /\ \A j \in 1 .. n - 1 : M[t][j] = c[j + 1]
  <2>1. M[t] = SubSeq(c, 2, n)
    BY <1>1 DEF Chains, c
  <2>2. 2 \in Nat \ {0} /\ n \in Nat /\ 2 <= n + 1
    BY <1>4
  <2>3. /\ SubSeq(c, 2, n) \in Seq(Block) /\ Len(SubSeq(c, 2, n)) = n - 2 + 1
        /\ \A j \in 1 .. n - 2 + 1 : SubSeq(c, 2, n)[j] = c[2 + j - 1]
    BY <1>2, <1>4, <2>2, PartIs DEF c
  <2>4. n - 2 + 1 = n - 1 /\ \A j \in 1 .. n - 1 : 2 + j - 1 = j + 1
    BY <1>4
  <2> HIDE DEF M
  <2> QED BY <2>1, <2>3, <2>4
<1>13. /\ E \in [Span -> Seq(Block)] /\ \A x \in Span : x # s => E[x] = F[x]
       /\ M \in [Thread -> Seq(Block)] /\ \A u \in Thread : u # t => M[u] = L[u]
  <2>1. SubSeq(F[s], n + 1, Len(F[s])) \in Seq(Block) /\ SubSeq(F[s], 2, n) \in Seq(Block)
    BY <1>11, <1>12 DEF c
  <2> QED BY <1>1, <2>1 DEF Chains
<1> HIDE DEF E, M
<1>14. Chains(E, M, G)'
  <2>1. \A b \in Block : b \notin B => word'[b] = word[b]
    BY <1>4, <1>7
  <2>2. \A b \in B : b[1] = s /\ at[b] = "span"
    BY <1>3, <1>4, <1>5
  <2>3. /\ \A x \in Span : x # s => \A j \in 1 .. Len(F[x]) : F[x][j] \notin B
        /\ \A u \in Thread : \A j \in 1 .. Len(L[u]) : L[u][j] \notin B
        /\ \A u \in Thread : \A j \in 1 .. Len(G[u]) : G[u][j] \notin B
    <3> HIDE DEF B
    <3> QED BY <1>1, <2>2 DEF Apart
  <2> HIDE DEF B
  <2>4. /\ \A x \in Span : x # s => Leads(word', freeList[x], Null, F[x])
        /\ \A u \in Thread : Leads(word', list[u], Null, L[u])
        /\ \A u \in Thread : Leads(word', start[u], Null, G[u])
    BY <2>1, <2>3, Kept
  <2>5. Leads(word', freeList'[s], Null, E[s])
    <3>1. Leads(word, Nth(c, Null, n + 1), Null, E[s])
      BY <1>2, <1>4, <1>5, <1>11, Suffix DEF c
    <3>2. freeList'[s] = Nth(c, Null, n + 1)
      BY <1>1, <1>3, <1>5, <1>6 DEF Types
    <3>3. \A j \in 1 .. Len(E[s]) : word'[E[s][j]] = word[E[s][j]]
      <4> TAKE j \in 1 .. Len(E[s])
      <4>1. j \in 1 .. Len(c) - n /\ n + j \in 1 .. Len(c) /\ n + j # n /\ n + j # 1
        <5>1. Len(E[s]) = Len(c) - n
          BY <1>11
        <5>2. n \in Nat \ {0} /\ Len(c) \in Nat
          BY <1>3, <1>4
        <5> QED BY <5>1, <5>2
      <4>2. E[s][j] = c[n + j] /\ c[n + j] # c[n] /\ c[n + j] # c[1] /\ c[n + j] \in Block
        BY <1>3, <1>4, <1>5, <1>11, <4>1
      <4> QED BY <1>7, <4>2
    <3> QED BY <3>1, <3>2, <3>3, Elsewhere
  <2>6. Leads(word', list'[t], Null, M[t])
    <3>1. CASE n = 1
      <4>1. list'[t] = list[t]
        BY <1>1, <1>6, <3>1 DEF Types
      <4>2. M[t] = <<>>
        BY <1>12, <3>1, EmptySeq
      <4> QED BY <2>4, <4>1, <4>2
    <3>2. CASE n > 1
      <4>1. 1 + 1 = 2 /\ 2 \in Nat \ {0} /\ 2 <= n /\ 2 <= Len(c) /\ 2 \in 1 .. Len(c)
        BY <1>3, <3>2
      <4>2. list'[t] = c[2]
        <5>1. list'[t] = word[c[1]]
          BY <1>1, <1>6, <3>2 DEF Types
        <5>2. word[c[1]] = Nth(c, Null, 1 + 1)
          BY <1>4, <1>5
        <5> QED BY <4>1, <5>1, <5>2 DEF Nth
      <4>3. \A j \in 2 .. n - 1 : word'[c[j]] = word[c[j]]
        <5> TAKE j \in 2 .. n - 1
        <5>1. j \in 1 .. Len(c) /\ j # n /\ j # 1
          BY <1>3, <1>4
        <5>2. c[j] # c[n] /\ c[j] # c[1] /\ c[j] \in Block
          BY <1>3, <1>4, <1>5, <5>1
        <5> QED BY <1>7, <5>2
      <4>4. Leads(word', c[2], Null, SubSeq(c, 2, n))
        <5>1. word'[c[n]] = Null
          BY <1>7, <3>2
        <5>2. c \in Seq(Block) /\ 2 \in Nat \ {0} /\ n \in Nat /\ 2 <= n /\ n <= Len(c)
          BY <1>2, <1>4, <4>1 DEF c
        <5> QED BY <1>5, <4>3, <5>1, <5>2, Segment
      <4> QED BY <1>12, <4>2, <4>4
    <3> QED BY <1>4, <3>1, <3>2
  <2>7. /\ \A x \in Span : x # s => freeList'[x] = freeList[x]
        /\ \A u \in Thread : u # t => list'[u] = list[u]
    BY <1>1, <1>6 DEF Types
  <2>8. /\ \A x \in Span : Leads(word', freeList'[x], Null, E[x])
        /\ \A u \in Thread : Leads(word', list'[u], Null, M[u])
    BY <1>13, <2>4, <2>5, <2>6, <2>7
  <2>9. G \in [Thread -> Seq(Block)]
    BY <1>1 DEF Chains
  <2> QED BY <1>13, <2>4, <2>8, <2>9 DEF Chains
<1>15. /\ now \in [Block -> Places] /\ whose \in [Block -> Thread \cup {Null}]
       /\ now[c[1]] = "user"
       /\ \A j \in 2 .. n : now[c[j]] = "list" /\ whose[c[j]] = t
       /\ \A b \in Block : at[b] # "span" \/ b[1] # s => now[b] = at[b] /\ whose[b] = by[b]
       /\ \A j \in 1 .. Len(c) : j > n => now[c[j]] = "span"
  <2>1. at \in [Block -> Places] /\ by \in [Block -> Thread \cup {Null}]
    BY <1>1 DEF Apart
  <2>2. now \in [Block -> Places] /\ whose \in [Block -> Thread \cup {Null}]
    BY <2>1 DEF Taken, TakenBy, Places
  <2>3. now[c[1]] = "user"
    BY <1>4, <1>5 DEF Taken
  <2>4. ASSUME NEW j \in 2 .. n PROVE now[c[j]] = "list" /\ whose[c[j]] = t
    <3>1. j \in 1 .. Len(c) /\ c[j] # c[1] /\ c[j] \in Block
      BY <1>3, <1>4, <1>5
    <3> QED BY <3>1 DEF Taken, TakenBy
  <2>5. ASSUME NEW b \in Block, at[b] # "span" \/ b[1] # s PROVE now[b] = at[b] /\ whose[b] = by[b]
    <3>1. \A j \in 1 .. Len(c) : c[j] # b
      BY <1>5, <2>5
    <3>2. b # c[1] /\ ~ \E j \in 2 .. n : c[j] = b
      BY <1>3, <1>4, <3>1
    <3> QED BY <3>2 DEF Taken, TakenBy
  <2>6. ASSUME NEW j \in 1 .. Len(c), j > n PROVE now[c[j]] = "span"
    <3>1. c[j] # c[1] /\ ~ \E k \in 2 .. n : c[k] = c[j]
      <4>1. j # 1 /\ \A k \in 2 .. n : k \in 1 .. Len(c) /\ k # j
        BY <1>3, <1>4, <2>6
      <4> QED BY <1>4, <1>5, <4>1
    <3> QED BY <1>5, <3>1 DEF Taken
  <2> QED BY <2>2, <2>3, <2>4, <2>5, <2>6
<1>16. \A b \in Block : now[b] # "span" => at[b] # "span" \/ b[1] = s
  BY <1>15
<1>17. \A b \in Block : b \in user' <=> now[b] = "user"
  <2> TAKE b \in Block
  <2>1. CASE b = c[1]
    BY <1>6, <1>15, <2>1
  <2>2. CASE b # c[1]
    <3>1. b \in user' <=> at[b] = "user"
      BY <1>1, <1>6, <2>2 DEF Apart
    <3>2. now[b] = "user" <=> at[b] = "user"
      <4>1. CASE \E j \in 2 .. n : c[j] = b
        <5>1. at[b] = "span" /\ now[b] = "list"
          BY <1>3, <1>5, <1>15, <4>1
        <5> QED BY <5>1
      <4>2. CASE ~ \E j \in 2 .. n : c[j] = b
        BY <2>2, <4>2 DEF Taken
      <4> QED BY <4>1, <4>2
    <3> QED BY <3>1, <3>2
  <2> QED BY <2>1, <2>2
<1> HIDE DEF now, whose
<1>18. Apart(E, M, G, now, whose)'
  <2>1. \A x \in Span : \A j \in 1 .. Len(E[x]) : E[x][j][1] = x /\ now[E[x][j]] = "span"
    <3> TAKE x \in Span
    <3> TAKE j \in 1 .. Len(E[x])
    <3>1. CASE x = s
      <4>1. n + j \in 1 .. Len(c) /\ n + j > n /\ E[s][j] = c[n + j]
        BY <1>3, <1>4, <1>11, <3>1
      <4> QED BY <1>5, <1>15, <3>1, <4>1
    <3>2. CASE x # s
      <4>1. F[x][j] \in Block /\ F[x][j][1] = x /\ at[F[x][j]] = "span" /\ E[x] = F[x]
        BY <1>1, <1>2, <1>13, <3>2 DEF Apart
      <4> QED BY <1>15, <3>2, <4>1
    <3> QED BY <3>1, <3>2
  <2>2. \A u \in Thread : \A j \in 1 .. Len(M[u]) : now[M[u][j]] = "list" /\ whose[M[u][j]] = u
    <3> TAKE u \in Thread
    <3> TAKE j \in 1 .. Len(M[u])
    <3>1. CASE u = t
      <4>1. j + 1 \in 2 .. n /\ M[t][j] = c[j + 1]
        BY <1>4, <1>12, <3>1
      <4> QED BY <1>15, <3>1, <4>1
    <3>2. CASE u # t
      <4>1. L[u][j] \in Block /\ at[L[u][j]] = "list" /\ by[L[u][j]] = u /\ M[u] = L[u]
        BY <1>1, <1>2, <1>13, <3>2 DEF Apart
      <4> QED BY <1>15, <4>1
    <3> QED BY <3>1, <3>2
  <2>3. \A u \in Thread : \A j \in 1 .. Len(G[u]) : now[G[u][j]] = "going" /\ whose[G[u][j]] = u
    <3> TAKE u \in Thread
    <3> TAKE j \in 1 .. Len(G[u])
    <3>1. G[u][j] \in Block /\ at[G[u][j]] = "going" /\ by[G[u][j]] = u
      BY <1>1, <1>2 DEF Apart
    <3> QED BY <1>15, <3>1
  <2> QED BY <1>15, <1>17, <2>1, <2>2, <2>3 DEF Apart
<1>19. \A u \in Thread : size'[u] = Len(M[u]) /\ size'[u] < maxSize'[u]
  <2> TAKE u \in Thread
  <2>1. size[u] = Len(L[u]) /\ size[u] < maxSize[u]
    BY <1>1 DEF Counts
  <2>2. CASE u = t
    <3>1. size[t] = 0
      BY <2>1, <2>2
    <3>2. size'[t] = size[t] + (n - 1) /\ maxSize'[t] = Grow(t)
      BY <1>1, <1>6 DEF Types
    <3> QED BY <1>3, <1>4, <1>9, <1>12, <2>2, <3>1, <3>2
  <2>3. CASE u # t
    <3>1. size'[u] = size[u] /\ maxSize'[u] = maxSize[u]
      BY <1>1, <1>6, <2>3 DEF Types
    <3> QED BY <1>13, <2>1, <2>3, <3>1
  <2> QED BY <2>2, <2>3
<1>20. user' = user \cup {Head(F[s])}
  <2>1. Head(c) = c[1]
    BY <1>2, RestIs DEF c
  <2> QED BY <1>6, <2>1 DEF c
<1>21. Took(F, L, G, at, t, s, n, E, M, now, whose)
  BY <1>6, <1>10, <1>11, <1>13, <1>14, <1>16, <1>18, <1>19, <1>20 DEF Took, c
<1> QED
  BY <1>21 DEF c, E, M, now, whose

-----------------------------------------------------------------------------
(* Rings.                                                                    *)

\* Before a head comes nothing that is on no ring; a ring leads from its head.
LEMMA RingIs ==
    ASSUME NEW F, NEW L, NEW G, NEW R, NEW at, NEW by, NEW where,
           Sound(F, L, G, R, at, by, where)
    PROVE  /\ links.next \in [Span \cup Heads -> Span \cup Heads \cup {Null}]
           /\ links.prev \in [Span \cup Heads -> Span \cup Heads \cup {Null}]
           /\ \A x, y \in Span \cup Heads : links.next[x] = y <=> links.prev[y] = x
           /\ \A h \in Heads : Leads(links.next, links.next[h], h, R[h])
           /\ \A h \in Heads : \A i \in 1 .. Len(R[h]) : R[h][i] \in Span /\ where[R[h][i]] = h
           /\ \A h \in Heads : links.next[h] = Nth(R[h], h, 1) /\ links.next[h] \in Span \cup Heads
           /\ \A h \in Heads : links.next[h] \in Span => where[links.next[h]] = h
<1>1. Types /\ Rings(R) /\ Whereabouts(R, at, where)
  BY DEF Sound
<1>2. \A h \in Heads : /\ R[h] \in Seq(Span) /\ Len(R[h]) \in Nat
                       /\ \A i \in 1 .. Len(R[h]) : R[h][i] \in Span /\ where[R[h][i]] = h
  BY <1>1, Members DEF Whereabouts
<1>3. ASSUME NEW h \in Heads
      PROVE  /\ links.next[h] = Nth(R[h], h, 1) /\ links.next[h] \in Span \cup Heads
             /\ links.next[h] \in Span => where[links.next[h]] = h
  <2>1. links.next[h] = Nth(R[h], h, 1)
    BY <1>1 DEF Rings, Leads
  <2>2. CASE Len(R[h]) = 0
    BY <2>1, <2>2, Constants DEF Nth
  <2>3. CASE Len(R[h]) # 0
    <3>1. 1 \in 1 .. Len(R[h]) /\ 1 <= Len(R[h])
      BY <1>2, <2>3
    <3>2. links.next[h] = R[h][1]
      BY <2>1, <3>1 DEF Nth
    <3> QED BY <1>2, <2>1, <3>1, <3>2
  <2> QED BY <2>2, <2>3
<1> QED
  BY <1>1, <1>2, <1>3 DEF Types, Rings

\* The spans of the rings Q are those where says, and only they have pointers.
Placed(Q, where) ==
    /\ where \in [Span -> Wheres]
    /\ \A h \in Heads : \A i \in 1 .. Len(Q[h]) : where[Q[h][i]] = h
    /\ \A s \in Span : where[s] \in Heads => \E i \in 1 .. Len(Q[where[s]]) : Q[where[s]][i] = s
    /\ \A s \in Span : where[s] \notin Heads => links.next[s] = Null /\ links.prev[s] = Null
    /\ links.next \in [Span \cup Heads -> Span \cup Heads \cup {Null}]
    /\ links.prev \in [Span \cup Heads -> Span \cup Heads \cup {Null}]

LEMMA PushFrontSound ==
    ASSUME NEW F, NEW L, NEW G, NEW R, NEW at, NEW by, NEW where,
           Sound(F, L, G, R, at, by, where),
           NEW h \in Heads, NEW s \in Span, where[s] = "hands",
           links' = PushFront(links, h, s)
    PROVE  LET Q     == [R EXCEPT ![h] = <<s>> \o @]
               there == [where EXCEPT ![s] = h]
           IN  Rings(Q)' /\ Placed(Q, there)'
<1> DEFINE N == Span \cup Heads
           pos == links.next[h]
           Q == [R EXCEPT ![h] = <<s>> \o @]
           there == [where EXCEPT ![s] = h]
<1>1. /\ links.next \in [N -> N \cup {Null}] /\ links.prev \in [N -> N \cup {Null}]
      /\ \A x, y \in N : links.next[x] = y <=> links.prev[y] = x
      /\ \A g \in Heads : Leads(links.next, links.next[g], g, R[g])
      /\ \A g \in Heads : \A i \in 1 .. Len(R[g]) : R[g][i] \in Span /\ where[R[g][i]] = g
      /\ pos \in N /\ (pos \in Span => where[pos] = h)
  <2>1. /\ links.next \in [Span \cup Heads -> Span \cup Heads \cup {Null}]
        /\ links.prev \in [Span \cup Heads -> Span \cup Heads \cup {Null}]
    BY RingIs
  <2>2. \A x, y \in Span \cup Heads : links.next[x] = y <=> links.prev[y] = x
    BY RingIs
  <2>3. \A g \in Heads : Leads(links.next, links.next[g], g, R[g])
    BY RingIs
  <2>4. \A g \in Heads : \A j \in 1 .. Len(R[g]) : R[g][j] \in Span /\ where[R[g][j]] = g
    BY RingIs
  <2>5. links.next[h] \in Span \cup Heads /\ (links.next[h] \in Span => where[links.next[h]] = h)
    BY RingIs
  <2> QED BY <2>1, <2>2, <2>3, <2>4, <2>5
<1>2. /\ Whereabouts(R, at, where) /\ R \in [Heads -> Seq(Span)]
  BY DEF Sound, Rings
<1>3. h \notin Span /\ h \in N /\ s \in N /\ s # h /\ Null \notin N /\ "hands" \notin Heads
  BY Constants DEF Heads
<1>4. links.next[s] = Null /\ links.prev[s] = Null
  BY <1>2, <1>3 DEF Whereabouts
<1>5. pos # s /\ links.prev[pos] = h
  BY <1>1, <1>3
<1> HIDE DEF N, pos
<1>6. PICK nx, pv : nx = links'.next /\ pv = links'.prev
  OBVIOUS
<1>7. /\ nx = [links.next EXCEPT ![s] = pos, ![h] = s]
      /\ pv = [links.prev EXCEPT ![s] = h, ![pos] = s]
  <2>1. links' = [next |-> [links.next EXCEPT ![s] = pos, ![h] = s],
                  prev |-> [links.prev EXCEPT ![s] = h, ![pos] = s]]
    BY <1>5 DEF PushFront, Insert, Begin, pos
  <2> QED BY <1>6, <2>1
<1>8. /\ nx \in [N -> N \cup {Null}] /\ pv \in [N -> N \cup {Null}]
      /\ nx[s] = pos /\ nx[h] = s /\ \A x \in N : x # s /\ x # h => nx[x] = links.next[x]
      /\ pv[s] = h /\ pv[pos] = s /\ \A x \in N : x # s /\ x # pos => pv[x] = links.prev[x]
  BY <1>1, <1>3, <1>5, <1>7
<1>9. ASSUME NEW x \in N, NEW y \in N PROVE nx[x] = y <=> pv[y] = x
  <2>1. CASE x = s
    BY <1>1, <1>3, <1>4, <1>5, <1>8, <2>1
  <2>2. CASE x = h
    BY <1>1, <1>3, <1>4, <1>5, <1>8, <2>2 DEF pos
  <2>3. CASE x # s /\ x # h
    BY <1>1, <1>3, <1>4, <1>5, <1>8, <2>3
  <2> QED BY <2>1, <2>2, <2>3
<1>10. /\ <<s>> \o R[h] \in Seq(Span) /\ Len(<<s>> \o R[h]) = Len(R[h]) + 1
       /\ (<<s>> \o R[h])[1] = s /\ \A j \in 1 .. Len(R[h]) : (<<s>> \o R[h])[j + 1] = R[h][j]
       /\ Len(R[h]) \in Nat
  BY <1>2, ConsIs
<1>11. /\ Q \in [Heads -> Seq(Span)] /\ Q[h] = <<s>> \o R[h]
       /\ \A g \in Heads : g # h => Q[g] = R[g]
       /\ there \in [Span -> Wheres] /\ there[s] = h
       /\ \A x \in Span : x # s => there[x] = where[x]
  BY <1>2, <1>10 DEF Whereabouts, Wheres
<1> HIDE DEF Q, there
<1>12. \A g \in Heads : \A i \in 1 .. Len(R[g]) : R[g][i] \in N /\ R[g][i] # s /\ R[g][i] # h
  BY <1>1, <1>3 DEF N
<1>13. \A g \in Heads : Leads(nx, nx[g], g, Q[g])
  <2> TAKE g \in Heads
  <2>1. \A i \in 1 .. Len(R[g]) : nx[R[g][i]] = links.next[R[g][i]]
    BY <1>8, <1>12
  <2>2. CASE g = h
    <3>1. Leads(links.next, pos, h, R[h])
      BY <1>1 DEF pos
    <3>2. Leads(nx, s, h, <<s>> \o R[h])
      <4>1. R[h] \in Seq(Span) /\ s \in Span /\ nx[s] = pos
        BY <1>2, <1>8
      <4>2. \A i \in 1 .. Len(R[h]) : R[h][i] # s /\ nx[R[h][i]] = links.next[R[h][i]]
        BY <1>12, <2>1, <2>2
      <4> QED BY <3>1, <4>1, <4>2, Cons
    <3> QED BY <1>8, <1>11, <2>2, <3>2
  <2>3. CASE g # h
    <3>1. Leads(nx, links.next[g], g, R[g])
      BY <1>1, <2>1, Elsewhere
    <3>2. nx[g] = links.next[g]
      BY <1>8, <2>3, Constants DEF N
    <3> QED BY <1>11, <2>3, <3>1, <3>2
  <2> QED BY <2>2, <2>3
<1>14. Rings(Q)'
  BY <1>6, <1>9, <1>11, <1>13 DEF Rings, N
<1>15. \A g \in Heads : \A i \in 1 .. Len(Q[g]) : there[Q[g][i]] = g
  <2> TAKE g \in Heads
  <2> TAKE i \in 1 .. Len(Q[g])
  <2>1. CASE g = h
    <3>1. CASE i = 1
      BY <1>10, <1>11, <2>1, <3>1
    <3>2. CASE i # 1
      <4>1. i - 1 \in 1 .. Len(R[h]) /\ i - 1 + 1 = i
        BY <1>10, <1>11, <2>1, <3>2
      <4>2. Q[h][i] = R[h][i - 1]
        BY <1>10, <1>11, <4>1
      <4> QED BY <1>1, <1>11, <1>12, <2>1, <4>1, <4>2
    <3> QED BY <3>1, <3>2
  <2>2. CASE g # h
    BY <1>1, <1>11, <1>12, <2>2
  <2> QED BY <2>1, <2>2
<1>16. \A x \in Span : there[x] \in Heads => \E i \in 1 .. Len(Q[there[x]]) : Q[there[x]][i] = x
  <2> TAKE x \in Span
  <2> HAVE there[x] \in Heads
  <2>1. CASE x = s
    <3>1. 1 \in 1 .. Len(Q[h]) /\ Q[h][1] = s
      BY <1>10, <1>11
    <3> QED BY <1>11, <2>1, <3>1
  <2>2. CASE x # s
    <3>1. there[x] = where[x]
      BY <1>11, <2>2
    <3>2. PICK i \in 1 .. Len(R[there[x]]) : R[there[x]][i] = x
      BY <1>2, <3>1 DEF Whereabouts
    <3>3. CASE there[x] = h
      <4>1. i + 1 \in 1 .. Len(Q[h]) /\ Q[h][i + 1] = x
        BY <1>10, <1>11, <3>2, <3>3
      <4> QED BY <3>3, <4>1
    <3>4. CASE there[x] # h
      BY <1>11, <3>2, <3>4
    <3> QED BY <3>3, <3>4
  <2> QED BY <2>1, <2>2
<1>17. \A x \in Span : there[x] \notin Heads => nx[x] = Null /\ pv[x] = Null
  <2> TAKE x \in Span
  <2> HAVE there[x] \notin Heads
  <2>1. x # s /\ x # h /\ x \in N /\ where[x] \notin Heads
    BY <1>3, <1>11 DEF N
  <2>2. x # pos
    BY <1>1, <2>1
  <2>3. links.next[x] = Null /\ links.prev[x] = Null
    BY <1>2, <2>1 DEF Whereabouts
  <2> QED BY <1>8, <2>1, <2>2, <2>3
<1>18. Placed(Q, there)'
  BY <1>6, <1>8, <1>11, <1>15, <1>16, <1>17 DEF Placed, N
<1> QED
  BY <1>14, <1>18 DEF Q, there

LEMMA EraseSound ==
    ASSUME NEW F, NEW L, NEW G, NEW R, NEW at, NEW by, NEW where,
           Sound(F, L, G, R, at, by, where),
           NEW h \in Heads, NEW i \in 1 .. Len(R[h]), NEW s, s = R[h][i],
           links' = Erase(links, s)
    PROVE  LET Q     == [R EXCEPT ![h] = Without(@, i)]
               there == [where EXCEPT ![s] = "hands"]
           IN  Rings(Q)' /\ Placed(Q, there)'
<1> DEFINE N == Span \cup Heads
           c == R[h]
           p == links.prev[s]
           q == links.next[s]
           Q == [R EXCEPT ![h] = Without(@, i)]
           there == [where EXCEPT ![s] = "hands"]
<1>1. /\ links.next \in [N -> N \cup {Null}] /\ links.prev \in [N -> N \cup {Null}]
      /\ \A x, y \in N : links.next[x] = y <=> links.prev[y] = x
      /\ \A g \in Heads : Leads(links.next, links.next[g], g, R[g])
      /\ \A g \in Heads : \A j \in 1 .. Len(R[g]) : R[g][j] \in Span /\ where[R[g][j]] = g
      /\ \A g \in Heads : links.next[g] = Nth(R[g], g, 1)
  <2>1. /\ links.next \in [Span \cup Heads -> Span \cup Heads \cup {Null}]
        /\ links.prev \in [Span \cup Heads -> Span \cup Heads \cup {Null}]
    BY RingIs
  <2>2. \A x, y \in Span \cup Heads : links.next[x] = y <=> links.prev[y] = x
    BY RingIs
  <2>3. \A g \in Heads : Leads(links.next, links.next[g], g, R[g])
    BY RingIs
  <2>4. \A g \in Heads : \A j \in 1 .. Len(R[g]) : R[g][j] \in Span /\ where[R[g][j]] = g
    BY RingIs
  <2>5. \A g \in Heads : links.next[g] = Nth(R[g], g, 1)
    BY RingIs
  <2> QED BY <2>1, <2>2, <2>3, <2>4, <2>5
<1>2. /\ Whereabouts(R, at, where) /\ R \in [Heads -> Seq(Span)] /\ Len(c) \in Nat
      /\ c \in Seq(Span)
  BY Members DEF Sound, Rings
<1>3. /\ h \notin Span /\ h \in N /\ s \in Span /\ s \in N /\ s # h /\ Null \notin N
      /\ "hands" \notin Heads /\ where[s] = h /\ c[i] = s
  BY <1>1, Constants DEF Heads
<1>4. /\ \A j, k \in 1 .. Len(c) : c[j] = c[k] => j = k
      /\ \A j \in 1 .. Len(c) : links.next[c[j]] = Nth(c, h, j + 1)
  BY <1>1 DEF Leads
<1>5. q \in N /\ q # s /\ (q \in Span => where[q] = h)
  <2>1. q = Nth(c, h, i + 1)
    BY <1>3, <1>4
  <2>2. CASE i + 1 <= Len(c)
    <3>1. i + 1 \in 1 .. Len(c) /\ i + 1 # i
      BY <1>2, <2>2
    <3>2. q = c[i + 1]
      BY <2>1, <2>2 DEF Nth
    <3> QED BY <1>1, <1>3, <1>4, <3>1, <3>2
  <2>3. CASE ~(i + 1 <= Len(c))
    <3>1. q = h
      BY <2>1, <2>3 DEF Nth
    <3> QED BY <1>3, <3>1
  <2> QED BY <2>2, <2>3
<1>6. p \in N /\ p # s /\ p = IF i = 1 THEN h ELSE c[i - 1]
  <2>1. CASE i = 1
    <3>1. links.next[h] = c[1]
      BY <1>1, <1>2, <2>1 DEF Nth
    <3>2. links.prev[s] = h
      BY <1>1, <1>3, <2>1, <3>1
    <3> QED BY <1>3, <2>1, <3>2
  <2>2. CASE i # 1
    <3>1. i - 1 \in 1 .. Len(c) /\ i - 1 + 1 = i /\ i - 1 # i
      BY <1>2, <2>2
    <3>2. links.next[c[i - 1]] = c[i]
      BY <1>4, <3>1 DEF Nth
    <3>3. c[i - 1] \in Span /\ c[i - 1] # c[i]
      BY <1>1, <1>4, <3>1
    <3>4. links.prev[s] = c[i - 1]
      BY <1>1, <1>3, <3>2, <3>3
    <3> QED BY <1>3, <2>2, <3>3, <3>4
  <2> QED BY <2>1, <2>2
<1>7. PICK nx, pv : nx = links'.next /\ pv = links'.prev
  OBVIOUS
<1> HIDE DEF N, c
<1>8. /\ nx = [links.next EXCEPT ![p] = q, ![s] = Null]
      /\ pv = [links.prev EXCEPT ![q] = p, ![s] = Null]
  BY <1>7 DEF Erase
<1>9. links.prev[q] = s /\ links.next[p] = s
  BY <1>1, <1>3, <1>5, <1>6
<1> HIDE DEF p, q
<1>10. /\ nx \in [N -> N \cup {Null}] /\ pv \in [N -> N \cup {Null}]
       /\ nx[p] = q /\ nx[s] = Null /\ \A x \in N : x # s /\ x # p => nx[x] = links.next[x]
       /\ pv[q] = p /\ pv[s] = Null /\ \A x \in N : x # s /\ x # q => pv[x] = links.prev[x]
  BY <1>1, <1>3, <1>5, <1>6, <1>8
<1>11. ASSUME NEW x \in N, NEW y \in N PROVE nx[x] = y <=> pv[y] = x
  <2>1. CASE x = s
    BY <1>1, <1>3, <1>5, <1>6, <1>9, <1>10, <2>1
  <2>2. CASE x = p
    BY <1>1, <1>3, <1>5, <1>6, <1>9, <1>10, <2>2
  <2>3. CASE x # s /\ x # p
    BY <1>1, <1>3, <1>5, <1>6, <1>9, <1>10, <2>3
  <2> QED BY <2>1, <2>2, <2>3
<1>12. /\ Without(c, i) \in Seq(Span) /\ Len(Without(c, i)) = Len(c) - 1
       /\ \A j \in 1 .. Len(c) - 1 : Without(c, i)[j] = IF j < i THEN c[j] ELSE c[j + 1]
       /\ Len(c) \in Nat \ {0} /\ i \in 1 .. Len(c)
  BY <1>2, WithoutIs DEF c
<1>13. /\ Q \in [Heads -> Seq(Span)] /\ Q[h] = Without(c, i)
       /\ \A g \in Heads : g # h => Q[g] = R[g]
       /\ there \in [Span -> Wheres] /\ there[s] = "hands"
       /\ \A x \in Span : x # s => there[x] = where[x]
  BY <1>2, <1>3, <1>12 DEF Whereabouts, Wheres, c
<1> HIDE DEF Q, there
<1>14. \A g \in Heads : Leads(nx, nx[g], g, Q[g])
  <2> TAKE g \in Heads
  <2>1. CASE g = h
    <3>1. Leads(links.next, links.next[h], h, c)
      BY <1>1 DEF c
    <3>2. \A j \in 1 .. Len(c) : j # i /\ j # i - 1 => nx[c[j]] = links.next[c[j]]
      <4> TAKE j \in 1 .. Len(c)
      <4> HAVE j # i /\ j # i - 1
      <4>1. c[j] \in Span /\ c[j] # s
        BY <1>1, <1>3, <1>4, <1>12 DEF c
      <4>2. c[j] # p
        <5>1. CASE i = 1
          BY <1>3, <1>6, <4>1, <5>1
        <5>2. CASE i # 1
          <6>1. i - 1 \in 1 .. Len(c)
            BY <1>12, <5>2
          <6> QED BY <1>4, <1>6, <5>2, <6>1
        <5> QED BY <5>1, <5>2
      <4> QED BY <1>10, <4>1, <4>2 DEF N
    <3>3. i > 1 => nx[c[i - 1]] = links.next[c[i]]
      BY <1>3, <1>6, <1>10 DEF q
    <3>4. nx[h] = IF i = 1 THEN links.next[c[i]] ELSE links.next[h]
      <4>1. CASE i = 1
        BY <1>3, <1>6, <1>10, <4>1 DEF q
      <4>2. CASE i # 1
        <5>1. p = c[i - 1] /\ i - 1 \in 1 .. Len(c)
          BY <1>6, <1>12, <4>2
        <5>2. p \in Span
          BY <1>1, <5>1 DEF c
        <5> QED BY <1>3, <1>10, <4>2, <5>2
      <4> QED BY <4>1, <4>2
    <3>5. Leads(nx, nx[h], h, Without(c, i))
      BY <1>2, <1>12, <3>1, <3>2, <3>3, <3>4, Passed
    <3> QED BY <1>13, <2>1, <3>5
  <2>2. CASE g # h
    <3>1. p \in Heads => p = h
      <4>1. CASE i = 1
        BY <1>6, <4>1
      <4>2. CASE i # 1
        <5>1. p = c[i - 1] /\ i - 1 \in 1 .. Len(c)
          BY <1>6, <1>12, <4>2
        <5>2. p \in Span
          BY <1>1, <5>1 DEF c
        <5> QED BY <5>2, Constants
      <4> QED BY <4>1, <4>2
    <3>2. p \in Span => where[p] = h
      <4>1. CASE i = 1
        BY <1>3, <1>6, <4>1
      <4>2. CASE i # 1
        <5>1. p = c[i - 1] /\ i - 1 \in 1 .. Len(c)
          BY <1>6, <1>12, <4>2
        <5> QED BY <1>1, <5>1 DEF c
      <4> QED BY <4>1, <4>2
    <3>3. \A j \in 1 .. Len(R[g]) : nx[R[g][j]] = links.next[R[g][j]]
      <4> TAKE j \in 1 .. Len(R[g])
      <4>1. R[g][j] \in Span /\ where[R[g][j]] = g
        BY <1>1
      <4>2. R[g][j] # s /\ R[g][j] # p
        BY <1>3, <2>2, <3>2, <4>1
      <4> QED BY <1>10, <4>1, <4>2 DEF N
    <3>4. Leads(nx, links.next[g], g, R[g])
      BY <1>1, <3>3, Elsewhere
    <3>5. nx[g] = links.next[g]
      BY <1>3, <1>10, <2>2, <3>1, Constants DEF N
    <3> QED BY <1>13, <2>2, <3>4, <3>5
  <2> QED BY <2>1, <2>2
<1>15. Rings(Q)'
  BY <1>7, <1>11, <1>13, <1>14 DEF Rings, N
<1>16. \A g \in Heads : \A j \in 1 .. Len(Q[g]) : there[Q[g][j]] = g
  <2> TAKE g \in Heads
  <2> TAKE j \in 1 .. Len(Q[g])
  <2>1. CASE g = h
    <3>1. j \in 1 .. Len(c) - 1 /\ j \in 1 .. Len(c) /\ j + 1 \in 1 .. Len(c)
      BY <1>12, <1>13, <2>1
    <3>2. Q[h][j] = IF j < i THEN c[j] ELSE c[j + 1]
      BY <1>12, <1>13, <3>1
    <3>3. PICK k \in 1 .. Len(c) : k # i /\ Q[h][j] = c[k]
      <4>1. CASE j < i
        BY <3>1, <3>2, <4>1
      <4>2. CASE ~(j < i)
        <5>1. j + 1 # i
          BY <1>12, <3>1, <4>2
        <5> QED BY <3>1, <3>2, <4>2, <5>1
      <4> QED BY <4>1, <4>2
    <3>4. c[k] # s
      BY <1>3, <1>4, <1>12, <3>3
    <3>5. c[k] \in Span /\ where[c[k]] = h
      BY <1>1 DEF c
    <3> QED BY <1>13, <2>1, <3>3, <3>4, <3>5
  <2>2. CASE g # h
    <3>1. R[g][j] \in Span /\ where[R[g][j]] = g
      BY <1>1, <1>13, <2>2
    <3> QED BY <1>3, <1>13, <2>2, <3>1
  <2> QED BY <2>1, <2>2
<1>17. \A x \in Span : there[x] \in Heads => \E j \in 1 .. Len(Q[there[x]]) : Q[there[x]][j] = x
  <2> TAKE x \in Span
  <2> HAVE there[x] \in Heads
  <2>1. x # s /\ there[x] = where[x]
    BY <1>3, <1>13
  <2>2. PICK k \in 1 .. Len(R[there[x]]) : R[there[x]][k] = x
    BY <1>2, <2>1 DEF Whereabouts
  <2>3. CASE there[x] = h
    <3>1. k \in 1 .. Len(c) /\ c[k] = x /\ k # i
      BY <1>3, <2>1, <2>2, <2>3 DEF c
    <3>2. CASE k < i
      <4>1. k \in 1 .. Len(c) - 1
        BY <1>12, <3>1, <3>2
      <4>2. k \in 1 .. Len(Q[h]) /\ Q[h][k] = x
        BY <1>12, <1>13, <3>1, <3>2, <4>1
      <4> QED BY <2>3, <4>2
    <3>3. CASE ~(k < i)
      <4>1. k - 1 \in 1 .. Len(c) - 1 /\ ~(k - 1 < i) /\ k - 1 + 1 = k
        BY <1>12, <3>1, <3>3
      <4>2. Without(c, i)[k - 1] = c[k - 1 + 1]
        BY <1>12, <4>1
      <4>3. k - 1 \in 1 .. Len(Q[h]) /\ Q[h][k - 1] = x
        BY <1>12, <1>13, <3>1, <4>1, <4>2
      <4> QED BY <2>3, <4>3
    <3> QED BY <3>2, <3>3
  <2>4. CASE there[x] # h
    BY <1>13, <2>2, <2>4
  <2> QED BY <2>3, <2>4
<1>18. \A x \in Span : there[x] \notin Heads => nx[x] = Null /\ pv[x] = Null
  <2> TAKE x \in Span
  <2> HAVE there[x] \notin Heads
  <2>1. CASE x = s
    BY <1>10, <2>1
  <2>2. CASE x # s
    <3>1. where[x] \notin Heads /\ x \in N
      BY <1>13, <2>2 DEF N
    <3>2. links.next[x] = Null /\ links.prev[x] = Null
      BY <1>2, <3>1 DEF Whereabouts
    <3>3. x # p /\ x # q
      BY <1>3, <1>9, <3>2
    <3> QED BY <1>10, <2>2, <3>1, <3>2, <3>3
  <2> QED BY <2>1, <2>2
<1>19. Placed(Q, there)'
  BY <1>7, <1>10, <1>13, <1>16, <1>17, <1>18 DEF Placed, N
<1> QED
  BY <1>15, <1>19 DEF Q, there

-----------------------------------------------------------------------------
(* GetOneSpan.                                                               *)

LEMMA FetchSound ==
    ASSUME NEW F, NEW L, NEW G, NEW R, NEW at, NEW by, NEW where,
           Sound(F, L, G, R, at, by, where), NEW t \in Thread, Fetch(t)
    PROVE  \E i \in 1 .. Len(R["bucket"]), n \in 1 .. PerSpan :
              LET s == R["bucket"][i]
              IN  /\ F[s] # <<>> /\ \A j \in 1 .. (i - 1) : F[R["bucket"][j]] = <<>>
                  /\ L[t] = <<>> /\ n <= Len(F[s])
                  /\ user' = user \cup {Head(F[s])}
                  /\ UNCHANGED unused
                  /\ Sound([F EXCEPT ![s] = SubSeq(@, n + 1, Len(@))],
                           [L EXCEPT ![t] = SubSeq(F[s], 2, n)], G, R,
                           Taken(F[s], n, at), TakenBy(F[s], n, t, by), where)'
<1> DEFINE c == R["bucket"]
<1>1. Types /\ Chains(F, L, G) /\ Apart(F, L, G, at, by) /\ Rings(R) /\ Whereabouts(R, at, where)
      /\ Counts(F, L, where) /\ Hands(F, L, G, where)
  BY DEF Sound
<1>2. /\ \A x \in Span : F[x] \in Seq(Block) /\ Leads(word, freeList[x], Null, F[x])
      /\ \A u \in Thread : L[u] \in Seq(Block) /\ Leads(word, list[u], Null, L[u])
      /\ \A j \in 1 .. Len(c) : c[j] \in Span
      /\ c \in Seq(Span)
  BY <1>1, Members, Constants DEF Chains
<1>3. \A x \in Span : F[x] = <<>> <=> freeList[x] = Null
  BY <1>2, Empty, Constants
<1>4. Ring("bucket") = c /\ DOMAIN c = 1 .. Len(c) /\ Len(c) \in Nat
  <2>1. R = RingOf
    BY Reading
  <2>2. Ring("bucket") = c
    BY <2>1, Constants DEF RingOf
  <2> QED BY <1>2, <2>2, LenProperties
<1>5. PICK i \in 1 .. Len(c) : /\ freeList[c[i]] # Null
                               /\ \A j \in 1 .. (i - 1) : freeList[c[j]] = Null
                               /\ Take(t, c[i])
  <2> HIDE DEF c
  <2> QED BY <1>4 DEF Fetch
<1>6. PICK s : s = c[i]
  OBVIOUS
<1>7. s \in Span /\ F[s] # <<>> /\ Take(t, s) /\ where[s] = "bucket"
  BY <1>1, <1>2, <1>3, <1>5, <1>6, Constants DEF Whereabouts
<1>8. \A j \in 1 .. (i - 1) : F[c[j]] = <<>>
  <2> TAKE j \in 1 .. (i - 1)
  <2>1. j \in 1 .. Len(c)
    BY <1>4
  <2> QED BY <1>2, <1>3, <1>5, <2>1
<1>9. L[t] = <<>> /\ pc[t] = "idle"
  BY <1>2, Empty, Constants DEF Fetch
<1>10. PICK n : n = Batch(t, s)
  OBVIOUS
<1>11. n \in 1 .. Len(F[s]) /\ n \in 1 .. PerSpan
  BY <1>7, <1>10, BatchIs
<1> DEFINE E == [F EXCEPT ![s] = SubSeq(@, n + 1, Len(@))]
           M == [L EXCEPT ![t] = SubSeq(F[s], 2, n)]
           now == Taken(F[s], n, at)
           whose == TakenBy(F[s], n, t, by)
<1>12. /\ links' = links /\ unused' = unused /\ pc' = pc /\ span' = span /\ start' = start
  BY DEF Fetch, locals
<1>13. /\ Chains(E, M, G)'
       /\ Apart(E, M, G, now, whose)'
       /\ \A u \in Thread : size'[u] = Len(M[u]) /\ size'[u] < maxSize'[u]
       /\ Len(E[s]) = Len(F[s]) - n /\ \A x \in Span : x # s => E[x] = F[x]
       /\ \A u \in Thread : u # t => M[u] = L[u]
       /\ \A b \in Block : now[b] # "span" => at[b] # "span" \/ b[1] = s
       /\ user' = user \cup {Head(F[s])}
       /\ freeList' \in [Span -> Block \cup {Null}]
       /\ useCount' = [useCount EXCEPT ![s] = @ + n]
       /\ word' \in [Block -> Block \cup {Null, Data}]
       /\ list' \in [Thread -> Block \cup {Null}]
       /\ size' \in [Thread -> Int]
       /\ maxSize' \in [Thread -> Nat \ {0}]
       /\ user' \subseteq Block
  <2>1. Sound(F, L, G, R, at, by, where) /\ s \in Span /\ Take(t, s) /\ L[t] = <<>> /\ F[s] # <<>>
        /\ start' = start /\ n = Batch(t, s)
    BY <1>7, <1>9, <1>10, <1>12
  <2> HIDE DEF c
  <2>2. Took(F, L, G, at, t, s, n, E, M, now, whose)
    BY <2>1, TakeSound
  <2> HIDE DEF E, M, now, whose
  <2> QED BY <2>2 DEF Took
<1> HIDE DEF c, E, M, now, whose
<1>14. /\ useCount'[s] = useCount[s] + n /\ useCount' \in [Span -> Int]
       /\ \A x \in Span : x # s => useCount'[x] = useCount[x]
  BY <1>1, <1>7, <1>11, <1>13 DEF Types
<1>15. Types'
  BY <1>1, <1>12, <1>13, <1>14 DEF Types
<1>16. Rings(R)'
  BY <1>1, <1>12 DEF Rings
<1>17. Whereabouts(R, now, where)'
  <2>1. \A b \in Block : now[b] # "span" => where[b[1]] = "bucket"
    BY <1>1, <1>7, <1>13 DEF Whereabouts
  <2> QED BY <1>1, <1>12, <2>1 DEF Whereabouts
<1>18. Counts(E, M, where)'
  <2>1. \A x \in Span : useCount'[x] = IF where[x] = "bucket" THEN PerSpan - Len(E[x]) ELSE 0
    <3> TAKE x \in Span
    <3>1. useCount[x] = IF where[x] = "bucket" THEN PerSpan - Len(F[x]) ELSE 0
      BY <1>1 DEF Counts
    <3>2. CASE x = s
      <4>1. Len(F[s]) \in Nat /\ PerSpan \in Nat
        BY <1>2, <1>7, LenProperties, Constants
      <4>2. useCount[s] = PerSpan - Len(F[s])
        BY <1>7, <3>1, <3>2
      <4>3. useCount'[s] = useCount[s] + n /\ Len(E[s]) = Len(F[s]) - n
        BY <1>13, <1>14
      <4>4. n \in Nat
        BY <1>11
      <4>5. useCount'[s] = PerSpan - Len(E[s])
        BY <4>1, <4>2, <4>3, <4>4
      <4> QED BY <1>7, <3>2, <4>5
    <3>3. CASE x # s
      <4>1. E[x] = F[x] /\ useCount'[x] = useCount[x]
        BY <1>13, <1>14, <3>3
      <4>2. Len(F[x]) \in Nat /\ PerSpan \in Nat
        BY <1>2, LenProperties, Constants
      <4> QED BY <3>1, <4>1, <4>2
    <3> QED BY <3>2, <3>3
  <2> QED BY <1>13, <2>1 DEF Counts
<1>19. Hands(E, M, G, where)'
  <2>1. \A u \in Thread : pc[u] = "new" => M[u] = <<>> /\ Len(E[span[u]]) = PerSpan
    <3> TAKE u \in Thread
    <3> HAVE pc[u] = "new"
    <3>1. u # t /\ L[u] = <<>> /\ Len(F[span[u]]) = PerSpan
          /\ span[u] \in Span /\ where[span[u]] = "hands"
      BY <1>1, <1>9 DEF Hands, Carrying
    <3> QED BY <1>7, <1>13, <3>1
  <2> QED BY <1>1, <1>12, <2>1 DEF Hands, Carrying
<1>20. Sound(E, M, G, R, now, whose, where)'
  BY <1>13, <1>15, <1>16, <1>17, <1>18, <1>19 DEF Sound
<1>21. n <= Len(F[s])
  BY <1>11
<1> QED
  BY <1>6, <1>7, <1>8, <1>9, <1>11, <1>12, <1>13, <1>20, <1>21 DEF c, E, M, now, whose

LEMMA FetchRefines ==
    ASSUME IInv, NEW t \in Thread, Fetch(t)
    PROVE  IInv' /\ Abstract!ListsNext
<1>1. PICK F, L, G, R, at, by, where : Sound(F, L, G, R, at, by, where)
  BY DEF IInv
<1>2. PICK i \in 1 .. Len(R["bucket"]), n \in 1 .. PerSpan :
          LET s == R["bucket"][i]
          IN  /\ F[s] # <<>> /\ \A j \in 1 .. (i - 1) : F[R["bucket"][j]] = <<>>
              /\ L[t] = <<>> /\ n <= Len(F[s])
              /\ user' = user \cup {Head(F[s])}
              /\ UNCHANGED unused
              /\ Sound([F EXCEPT ![s] = SubSeq(@, n + 1, Len(@))],
                       [L EXCEPT ![t] = SubSeq(F[s], 2, n)], G, R,
                       Taken(F[s], n, at), TakenBy(F[s], n, t, by), where)'
  BY <1>1, FetchSound
<1>3. PICK s : s = R["bucket"][i]
  OBVIOUS
<1> DEFINE E == [F EXCEPT ![s] = SubSeq(@, n + 1, Len(@))]
           M == [L EXCEPT ![t] = SubSeq(F[s], 2, n)]
           now == Taken(F[s], n, at)
           whose == TakenBy(F[s], n, t, by)
<1>4. Sound(E, M, G, R, now, whose, where)'
  BY <1>2, <1>3
<1>5. E = [F EXCEPT ![s] = SubSeq(F[s], n + 1, Len(F[s]))]
  OBVIOUS
<1> HIDE DEF E, now, whose
<1>6. F = FreeOf /\ L = ListOf /\ G = GoingOf /\ R = RingOf
  BY <1>1, Reading
<1> HIDE DEF M
<1>7. E = FreeOf' /\ M = ListOf' /\ G = GoingOf' /\ R = RingOf'
  BY <1>4, ReadingOn
<1>8. Abstract!Take(t, s, n)
  BY <1>2, <1>3, <1>5, <1>6, <1>7 DEF Abstract!Take, M
<1>9. i \in DOMAIN RingOf["bucket"]
  <2>1. R["bucket"] \in Seq(Span)
    BY <1>1, Members, Constants
  <2> QED BY <1>6, <2>1, LenProperties
<1>10. Abstract!Fetch(t, n)
  BY <1>2, <1>3, <1>6, <1>7, <1>8, <1>9 DEF Abstract!Fetch
<1>11. Abstract!ListsNext
  BY <1>10 DEF Abstract!ListsNext
<1>12. IInv'
  BY <1>4 DEF IInv
<1> QED
  BY <1>11, <1>12

LEMMA FetchNewSound ==
    ASSUME NEW F, NEW L, NEW G, NEW R, NEW at, NEW by, NEW where,
           Sound(F, L, G, R, at, by, where), NEW t \in Thread, FetchNew(t)
    PROVE  \E s \in Span, n \in 1 .. PerSpan :
              /\ where[s] = "hands"
              /\ F[s] # <<>> /\ L[t] = <<>> /\ n <= Len(F[s])
              /\ user' = user \cup {Head(F[s])}
              /\ UNCHANGED unused
              /\ Sound([F EXCEPT ![s] = SubSeq(@, n + 1, Len(@))],
                       [L EXCEPT ![t] = SubSeq(F[s], 2, n)], G,
                       [R EXCEPT !["bucket"] = <<s>> \o @],
                       Taken(F[s], n, at), TakenBy(F[s], n, t, by),
                       [where EXCEPT ![s] = "bucket"])'
<1>1. Types /\ Chains(F, L, G) /\ Apart(F, L, G, at, by) /\ Rings(R) /\ Whereabouts(R, at, where)
      /\ Counts(F, L, where) /\ Hands(F, L, G, where)
  BY DEF Sound
<1>2. PICK s : s = span[t]
  OBVIOUS
<1>3. pc[t] = "new" /\ s \in Span /\ where[s] = "hands" /\ L[t] = <<>> /\ Len(F[s]) = PerSpan
      /\ G[t] = <<>>
  BY <1>1, <1>2 DEF FetchNew, Hands, Carrying
<1>4. F[s] # <<>> /\ F[s] \in Seq(Block)
  BY <1>3, Members, Constants, EmptySeq
<1>5. PICK n : n = Batch(t, s)
  OBVIOUS
<1>6. n \in 1 .. Len(F[s]) /\ n \in 1 .. PerSpan
  BY <1>3, <1>4, <1>5, BatchIs
<1> DEFINE E == [F EXCEPT ![s] = SubSeq(@, n + 1, Len(@))]
           M == [L EXCEPT ![t] = SubSeq(F[s], 2, n)]
           Q == [R EXCEPT !["bucket"] = <<s>> \o @]
           now == Taken(F[s], n, at)
           whose == TakenBy(F[s], n, t, by)
           there == [where EXCEPT ![s] = "bucket"]
<1>7. /\ Take(t, s) /\ links' = PushFront(links, "bucket", s)
      /\ unused' = unused /\ start' = start
      /\ pc' = [pc EXCEPT ![t] = "idle"] /\ span' = [span EXCEPT ![t] = Null]
  BY <1>2 DEF FetchNew
<1>8. /\ Chains(E, M, G)'
      /\ Apart(E, M, G, now, whose)'
      /\ \A u \in Thread : size'[u] = Len(M[u]) /\ size'[u] < maxSize'[u]
      /\ Len(E[s]) = Len(F[s]) - n /\ \A x \in Span : x # s => E[x] = F[x]
      /\ \A u \in Thread : u # t => M[u] = L[u]
      /\ \A b \in Block : now[b] # "span" => at[b] # "span" \/ b[1] = s
      /\ user' = user \cup {Head(F[s])}
      /\ freeList' \in [Span -> Block \cup {Null}]
      /\ useCount' = [useCount EXCEPT ![s] = @ + n]
      /\ word' \in [Block -> Block \cup {Null, Data}]
      /\ list' \in [Thread -> Block \cup {Null}]
      /\ size' \in [Thread -> Int]
      /\ maxSize' \in [Thread -> Nat \ {0}]
      /\ user' \subseteq Block
  <2>1. Sound(F, L, G, R, at, by, where) /\ s \in Span /\ Take(t, s) /\ L[t] = <<>> /\ F[s] # <<>>
        /\ start' = start /\ n = Batch(t, s)
    BY <1>3, <1>4, <1>5, <1>7
  <2>2. Took(F, L, G, at, t, s, n, E, M, now, whose)
    BY <2>1, TakeSound
  <2> HIDE DEF E, M, now, whose
  <2> QED BY <2>2 DEF Took
<1>9. Rings(Q)' /\ Placed(Q, there)'
  BY <1>3, <1>7, PushFrontSound, Constants
<1>10. /\ there[s] = "bucket" /\ \A x \in Span : x # s => there[x] = where[x]
  BY <1>1, <1>3 DEF Whereabouts
<1> HIDE DEF E, M, Q, now, whose, there
<1>11. /\ useCount'[s] = useCount[s] + n /\ useCount' \in [Span -> Int]
       /\ \A x \in Span : x # s => useCount'[x] = useCount[x]
  BY <1>1, <1>3, <1>6, <1>8 DEF Types
<1>12. /\ pc' \in [Thread -> Pc] /\ pc'[t] = "idle" /\ \A u \in Thread : u # t => pc'[u] = pc[u]
       /\ span' \in [Thread -> Span \cup {Null}]
       /\ \A u \in Thread : u # t => span'[u] = span[u]
  BY <1>1, <1>7 DEF Types, Pc
<1>13. Types'
  BY <1>1, <1>7, <1>8, <1>9, <1>11, <1>12 DEF Types, Placed
<1>14. Whereabouts(Q, now, there)'
  <2>1. \A b \in Block : now[b] # "span" => there[b[1]] = "bucket"
    <3> TAKE b \in Block
    <3> HAVE now[b] # "span"
    <3>1. CASE b[1] = s
      BY <1>10, <3>1
    <3>2. CASE b[1] # s
      BY <1>1, <1>8, <1>10, <3>2, Constants DEF Whereabouts
    <3> QED BY <3>1, <3>2
  <2>2. \A x \in Span : x \in unused' <=> there[x] = "unused"
    <3> TAKE x \in Span
    <3>1. x \in unused <=> where[x] = "unused"
      BY <1>1 DEF Whereabouts
    <3>2. CASE x = s
      BY <1>3, <1>7, <1>10, <3>1, <3>2
    <3>3. CASE x # s
      BY <1>7, <1>10, <3>1, <3>3
    <3> QED BY <3>2, <3>3
  <2> QED BY <1>9, <2>1, <2>2 DEF Whereabouts, Placed
<1>15. Counts(E, M, there)'
  <2>1. \A x \in Span : useCount'[x] = IF there[x] = "bucket" THEN PerSpan - Len(E[x]) ELSE 0
    <3> TAKE x \in Span
    <3>1. useCount[x] = IF where[x] = "bucket" THEN PerSpan - Len(F[x]) ELSE 0
      BY <1>1 DEF Counts
    <3>2. CASE x = s
      BY <1>3, <1>6, <1>8, <1>10, <1>11, <3>1, <3>2, Constants
    <3>3. CASE x # s
      BY <1>8, <1>10, <1>11, <3>1, <3>3
    <3> QED BY <3>2, <3>3
  <2> QED BY <1>8, <2>1 DEF Counts
<1>16. Hands(E, M, G, there)'
  <2>1. ASSUME NEW u \in Thread, Carrying(u)'
        PROVE  /\ u # t /\ Carrying(u) /\ span'[u] = span[u] /\ span[u] \in Span
               /\ span[u] # s /\ there[span[u]] = "hands"
    <3>1. u # t /\ Carrying(u) /\ span'[u] = span[u]
      BY <1>12, <2>1 DEF Carrying
    <3>2. Carrying(t)
      BY <1>3 DEF Carrying
    <3>3. span[u] \in Span /\ where[span[u]] = "hands" /\ span[u] # s
      BY <1>1, <1>2, <3>1, <3>2 DEF Hands
    <3> QED BY <1>10, <3>1, <3>3
  <2>2. \A u \in Thread : Carrying(u)' => span'[u] \in Span /\ there[span'[u]] = "hands"
    BY <2>1
  <2>3. \A u, v \in Thread : Carrying(u)' /\ Carrying(v)' /\ span'[u] = span'[v] => u = v
    BY <1>1, <2>1 DEF Hands
  <2>4. \A u \in Thread : pc'[u] = "new" => M[u] = <<>> /\ Len(E[span'[u]]) = PerSpan
    <3> TAKE u \in Thread
    <3> HAVE pc'[u] = "new"
    <3>1. Carrying(u)'
      BY DEF Carrying
    <3>2. u # t /\ pc[u] = "new" /\ span'[u] = span[u] /\ span[u] \in Span /\ span[u] # s
      BY <1>12, <2>1, <3>1
    <3>3. L[u] = <<>> /\ Len(F[span[u]]) = PerSpan
      BY <1>1, <3>2 DEF Hands
    <3> QED BY <1>8, <3>2, <3>3
  <2>5. \A u \in Thread : pc'[u] \in {"idle", "new"} => G[u] = <<>>
    BY <1>1, <1>3, <1>12 DEF Hands
  <2> QED BY <2>2, <2>3, <2>4, <2>5 DEF Hands
<1>17. Sound(E, M, G, Q, now, whose, there)'
  BY <1>8, <1>9, <1>13, <1>14, <1>15, <1>16 DEF Sound
<1>18. n <= Len(F[s])
  BY <1>6
<1> QED
  BY <1>3, <1>4, <1>6, <1>7, <1>8, <1>17, <1>18 DEF E, M, Q, now, whose, there

\* A span in a thread's hands is in no list.
LEMMA InHandsNowhere ==
    ASSUME NEW F, NEW L, NEW G, NEW R, NEW at, NEW by, NEW where,
           Sound(F, L, G, R, at, by, where), NEW s \in Span, where[s] = "hands"
    PROVE  Abstract!Nowhere(s)
<1>1. Whereabouts(R, at, where) /\ R \in [Heads -> Seq(Span)] /\ R = RingOf
  BY Reading DEF Sound, Rings
<1>2. s \notin unused
  BY <1>1 DEF Whereabouts
<1>3. DOMAIN RingOf = Heads
  BY DEF RingOf
<1>4. ASSUME NEW h \in Heads PROVE s \notin Abstract!ToSet(RingOf[h])
  <2>1. DOMAIN R[h] = 1 .. Len(R[h])
    BY <1>1, LenProperties
  <2>2. \A i \in 1 .. Len(R[h]) : R[h][i] # s
    BY <1>1 DEF Whereabouts, Heads
  <2> QED BY <1>1, <2>1, <2>2 DEF Abstract!ToSet
<1> QED
  BY <1>2, <1>3, <1>4 DEF Abstract!Nowhere

LEMMA FetchNewRefines ==
    ASSUME IInv, NEW t \in Thread, FetchNew(t)
    PROVE  IInv' /\ Abstract!ListsNext
<1>1. PICK F, L, G, R, at, by, where : Sound(F, L, G, R, at, by, where)
  BY DEF IInv
<1>2. PICK s \in Span, n \in 1 .. PerSpan :
          /\ where[s] = "hands"
          /\ F[s] # <<>> /\ L[t] = <<>> /\ n <= Len(F[s])
          /\ user' = user \cup {Head(F[s])}
          /\ UNCHANGED unused
          /\ Sound([F EXCEPT ![s] = SubSeq(@, n + 1, Len(@))],
                   [L EXCEPT ![t] = SubSeq(F[s], 2, n)], G,
                   [R EXCEPT !["bucket"] = <<s>> \o @],
                   Taken(F[s], n, at), TakenBy(F[s], n, t, by),
                   [where EXCEPT ![s] = "bucket"])'
  BY <1>1, FetchNewSound
<1> DEFINE E == [F EXCEPT ![s] = SubSeq(@, n + 1, Len(@))]
           M == [L EXCEPT ![t] = SubSeq(F[s], 2, n)]
           Q == [R EXCEPT !["bucket"] = <<s>> \o @]
           now == Taken(F[s], n, at)
           whose == TakenBy(F[s], n, t, by)
           there == [where EXCEPT ![s] = "bucket"]
<1>3. Sound(E, M, G, Q, now, whose, there)'
  BY <1>2
<1>4. E = [F EXCEPT ![s] = SubSeq(F[s], n + 1, Len(F[s]))]
  OBVIOUS
<1>5. Q = [R EXCEPT !["bucket"] = <<s>> \o R["bucket"]]
  OBVIOUS
<1> HIDE DEF E, Q, now, whose, there
<1>6. F = FreeOf /\ L = ListOf /\ G = GoingOf /\ R = RingOf
  BY <1>1, Reading
<1> HIDE DEF M
<1>7. E = FreeOf' /\ M = ListOf' /\ G = GoingOf' /\ Q = RingOf'
  BY <1>3, ReadingOn
<1>8. Abstract!Take(t, s, n)
  BY <1>2, <1>4, <1>6, <1>7 DEF Abstract!Take, M
<1>9. Abstract!Nowhere(s)
  BY <1>1, <1>2, InHandsNowhere
<1>10. Abstract!FetchNew(t, s, n)
  BY <1>5, <1>6, <1>7, <1>8, <1>9 DEF Abstract!FetchNew
<1>11. Abstract!ListsNext
  BY <1>10 DEF Abstract!ListsNext
<1>12. IInv'
  BY <1>3 DEF IInv
<1> QED
  BY <1>11, <1>12

LEMMA WithoutFirst ==
    ASSUME NEW S, NEW c \in Seq(S), c # <<>>
    PROVE  Without(c, 1) = Tail(c)
<1>1. /\ Tail(c) \in Seq(S) /\ Len(Tail(c)) = Len(c) - 1
      /\ \A j \in 1 .. Len(c) - 1 : Tail(c)[j] = c[j + 1]
      /\ Len(c) \in Nat \ {0}
  BY RestIs
<1>2. 1 \in 1 .. Len(c)
  BY <1>1
<1>3. /\ Without(c, 1) \in Seq(S) /\ Len(Without(c, 1)) = Len(c) - 1
      /\ \A j \in 1 .. Len(c) - 1 : Without(c, 1)[j] = IF j < 1 THEN c[j] ELSE c[j + 1]
  BY <1>2, WithoutIs
<1> QED
  BY <1>1, <1>3, SeqEqual

\* All the objects of a span, in the order of their addresses.
Whole(s) == [i \in 1 .. PerSpan |-> <<s, i>>]

LEMMA CarveChainLeads ==
    ASSUME NEW s \in Span
    PROVE  /\ Whole(s) \in Seq(Block) /\ Len(Whole(s)) = PerSpan
           /\ \A j \in 1 .. PerSpan : Whole(s)[j] \in Block /\ Whole(s)[j][1] = s
           /\ Leads(CarveChain(word, s), <<s, 1>>, Null, Whole(s))
<1> DEFINE c == Whole(s)
           w == CarveChain(word, s)
<1>1. PerSpan \in Nat /\ 1 \in 1 .. PerSpan
  BY Constants
<1>2. \A j \in 1 .. PerSpan : <<s, j>> \in Block
  BY DEF Block
<1>3. c \in Seq(Block) /\ Len(c) = PerSpan /\ \A j \in 1 .. PerSpan : c[j] = <<s, j>>
  BY <1>1, <1>2 DEF Whole
<1>4. \A j \in 1 .. PerSpan : c[j] \in Block /\ c[j][1] = s
  BY <1>2, <1>3
<1>5. \A j \in 1 .. PerSpan : w[<<s, j>>] = IF j < PerSpan THEN <<s, j + 1>> ELSE Null
  <2> TAKE j \in 1 .. PerSpan
  <2>1. <<s, j>>[1] = s /\ <<s, j>>[2] = j
    OBVIOUS
  <2> QED BY <1>2, <2>1 DEF CarveChain
<1> HIDE DEF c, w
<1>6. \A j, k \in 1 .. Len(c) : c[j] = c[k] => j = k
  BY <1>3
<1>7. <<s, 1>> = Nth(c, Null, 1)
  BY <1>1, <1>3 DEF Nth
<1>8. ASSUME NEW j \in 1 .. Len(c) PROVE w[c[j]] = Nth(c, Null, j + 1)
  <2>1. j \in 1 .. PerSpan /\ c[j] = <<s, j>>
    BY <1>3
  <2>2. w[c[j]] = IF j < PerSpan THEN <<s, j + 1>> ELSE Null
    BY <1>5, <2>1
  <2>3. CASE j < PerSpan
    <3>1. j + 1 \in 1 .. PerSpan /\ j + 1 <= Len(c)
      BY <1>1, <1>3, <2>3
    <3>2. Nth(c, Null, j + 1) = <<s, j + 1>>
      BY <1>3, <3>1 DEF Nth
    <3> QED BY <2>2, <2>3, <3>2
  <2>4. CASE ~(j < PerSpan)
    <3>1. ~(j + 1 <= Len(c))
      BY <1>1, <1>3, <2>4
    <3> QED BY <2>2, <2>4, <3>1 DEF Nth
  <2> QED BY <2>3, <2>4
<1>9. Leads(w, <<s, 1>>, Null, c)
  BY <1>6, <1>7, <1>8 DEF Leads
<1> QED
  BY <1>3, <1>4, <1>9 DEF c, w

\* A new span is one that was not made yet, or the first of PageCache's ring R.
Chosen(s, R, Q) ==
    \/ s \in unused /\ unused' = unused \ {s} /\ Q = R
    \/ /\ R["pages"] # <<>> /\ s = Head(R["pages"])
       /\ Q = [R EXCEPT !["pages"] = Tail(@)]
       /\ UNCHANGED unused

LEMMA CarveSound ==
    ASSUME NEW F, NEW L, NEW G, NEW R, NEW at, NEW by, NEW where,
           Sound(F, L, G, R, at, by, where), NEW t \in Thread, Carve(t)
    PROVE  \E s \in Span : \E Q :
              /\ Chosen(s, R, Q)
              /\ UNCHANGED user
              /\ Sound([F EXCEPT ![s] = Whole(s)], L, G, Q, at, by, [where EXCEPT ![s] = "hands"])'
<1>1. Types /\ Chains(F, L, G) /\ Apart(F, L, G, at, by) /\ Rings(R) /\ Whereabouts(R, at, where)
      /\ Counts(F, L, where) /\ Hands(F, L, G, where)
  BY DEF Sound
<1>2. PICK s \in Span :
          /\ \/ s \in unused /\ unused' = unused \ {s} /\ UNCHANGED links
             \/ s = Begin(links, "pages") /\ links' = Erase(links, s) /\ UNCHANGED unused
          /\ freeList' = [freeList EXCEPT ![s] = <<s, 1>>]
          /\ word' = CarveChain(word, s)
          /\ span' = [span EXCEPT ![t] = s]
  BY DEF Carve
<1>3. /\ pc[t] = "idle" /\ list[t] = Null /\ pc' = [pc EXCEPT ![t] = "new"]
      /\ useCount' = useCount /\ list' = list /\ size' = size /\ maxSize' = maxSize
      /\ user' = user /\ start' = start
  BY DEF Carve, cache
<1> DEFINE E == [F EXCEPT ![s] = Whole(s)]
           there == [where EXCEPT ![s] = "hands"]
<1>4. /\ there \in [Span -> Wheres] /\ there[s] = "hands"
      /\ \A x \in Span : x # s => there[x] = where[x]
  BY <1>1 DEF Whereabouts, Wheres
<1>5. L[t] = <<>> /\ G[t] = <<>>
  <2>1. L[t] \in Seq(Block) /\ Leads(word, list[t], Null, L[t])
    BY <1>1 DEF Chains
  <2>2. L[t] = <<>>
    BY <1>3, <2>1, Empty, Constants
  <2> QED BY <1>1, <1>3, <2>2 DEF Hands
\* Where the span comes from.
<1>6. \E Q : /\ Chosen(s, R, Q)
             /\ where[s] \in {"unused", "pages"}
             /\ Rings(Q)' /\ Placed(Q, there)'
             /\ \A x \in Span : x \in unused' <=> there[x] = "unused"
  <2>1. CASE s \in unused /\ unused' = unused \ {s} /\ UNCHANGED links
    <3>1. where[s] = "unused"
      BY <1>1, <2>1 DEF Whereabouts
    <3>2. Rings(R)'
      BY <1>1, <2>1 DEF Rings
    <3>3. \A h \in Heads : \A i \in 1 .. Len(R[h]) : there[R[h][i]] = h
      <4> TAKE h \in Heads
      <4> TAKE i \in 1 .. Len(R[h])
      <4>1. where[R[h][i]] = h /\ R[h][i] \in Span /\ h # "unused"
        BY <1>1, Members DEF Whereabouts, Heads
      <4> QED BY <1>4, <3>1, <4>1
    <3>4. "hands" \notin Heads /\ "unused" \notin Heads
      BY DEF Heads
    <3>5. \A x \in Span : there[x] \in Heads => \E i \in 1 .. Len(R[there[x]]) : R[there[x]][i] = x
      BY <1>1, <1>4, <3>4 DEF Whereabouts
    <3>6. \A x \in Span : there[x] \notin Heads => links.next[x] = Null /\ links.prev[x] = Null
      BY <1>1, <1>4, <3>1, <3>4 DEF Whereabouts
    <3> HIDE DEF there
    <3>7. Placed(R, there)'
      BY <1>1, <1>4, <2>1, <3>3, <3>5, <3>6 DEF Placed, Types
    <3>8. \A x \in Span : x \in unused' <=> there[x] = "unused"
      BY <1>1, <1>4, <2>1 DEF Whereabouts
    <3> QED BY <2>1, <3>1, <3>2, <3>7, <3>8 DEF Chosen
  <2>2. CASE s = Begin(links, "pages") /\ links' = Erase(links, s) /\ UNCHANGED unused
    <3> DEFINE c == R["pages"]
               Q == [R EXCEPT !["pages"] = Tail(@)]
    <3>1. "pages" \in Heads /\ c \in Seq(Span) /\ s = links.next["pages"] /\ "pages" \notin Span
      BY <2>2, Members, Constants DEF Begin
    <3>2. Leads(links.next, s, "pages", c)
      BY <1>1, <3>1 DEF Rings
    <3>3. c # <<>> /\ Len(c) \in Nat \ {0} /\ s = c[1]
      BY <1>2, <3>1, <3>2, Empty
    <3>4. 1 \in 1 .. Len(c) /\ Head(c) = c[1]
      BY <3>1, <3>3, RestIs
    <3>5. Without(c, 1) = Tail(c)
      BY <3>1, <3>3, WithoutFirst
    <3>6. Q = [R EXCEPT !["pages"] = Without(@, 1)]
      BY <3>5
    <3>7. where[s] = "pages"
      BY <1>1, <3>1, <3>3, <3>4 DEF Whereabouts
    <3> HIDE DEF c
    <3>8. Rings([R EXCEPT !["pages"] = Without(@, 1)])' /\ Placed([R EXCEPT !["pages"] = Without(@, 1)], there)'
      BY <2>2, <3>1, <3>3, <3>4, EraseSound DEF c
    <3>9. \A x \in Span : x \in unused' <=> there[x] = "unused"
      <4> TAKE x \in Span
      <4>1. x \in unused <=> where[x] = "unused"
        BY <1>1 DEF Whereabouts
      <4> QED BY <1>4, <2>2, <3>7, <4>1
    <3> HIDE DEF Q, there
    <3>10. Rings(Q)' /\ Placed(Q, there)'
      BY <3>6, <3>8
    <3>11. c # <<>> /\ s = Head(c) /\ where[s] \in {"unused", "pages"}
      BY <3>3, <3>4, <3>7
    <3>12. Chosen(s, R, Q)
      BY <2>2, <3>11 DEF Q, c, Chosen
    <3> QED BY <3>9, <3>10, <3>11, <3>12
  <2> QED BY <1>2, <2>1, <2>2
<1>7. PICK Q : /\ Chosen(s, R, Q)
               /\ where[s] \in {"unused", "pages"}
               /\ Rings(Q)' /\ Placed(Q, there)'
               /\ \A x \in Span : x \in unused' <=> there[x] = "unused"
  BY <1>6
<1>8. \A b \in Block : b[1] = s => at[b] = "span"
  BY <1>1, <1>7 DEF Whereabouts
<1>9. /\ Whole(s) \in Seq(Block) /\ Len(Whole(s)) = PerSpan
      /\ \A j \in 1 .. PerSpan : Whole(s)[j] \in Block /\ Whole(s)[j][1] = s
      /\ Leads(word', <<s, 1>>, Null, Whole(s))
  BY <1>2, CarveChainLeads
<1>10. /\ E \in [Span -> Seq(Block)] /\ E[s] = Whole(s)
       /\ \A x \in Span : x # s => E[x] = F[x]
  BY <1>1, <1>9 DEF Chains
<1> HIDE DEF E, there
<1>11. /\ pc' \in [Thread -> Pc] /\ pc'[t] = "new" /\ \A u \in Thread : u # t => pc'[u] = pc[u]
       /\ span' \in [Thread -> Span \cup {Null}] /\ span'[t] = s
       /\ \A u \in Thread : u # t => span'[u] = span[u]
       /\ freeList'[s] = <<s, 1>> /\ \A x \in Span : x # s => freeList'[x] = freeList[x]
  BY <1>1, <1>2, <1>3 DEF Types, Pc
<1>12. <<s, 1>> \in Block
  BY Constants DEF Block
<1>13. /\ word' \in [Block -> Block \cup {Null, Data}]
       /\ \A b \in Block : b[1] # s => word'[b] = word[b]
  <2>1. \A b \in Block : b[1] = s /\ b[2] < PerSpan => <<s, b[2] + 1>> \in Block
    <3> TAKE b \in Block
    <3> HAVE b[1] = s /\ b[2] < PerSpan
    <3>1. b[2] + 1 \in 1 .. PerSpan
      BY Constants
    <3> QED BY <3>1 DEF Block
  <2> QED BY <1>1, <1>2, <2>1 DEF CarveChain, Types
<1>14. Types'
  <2>1. unused' \subseteq Span
    BY <1>1, <1>7 DEF Types, Chosen
  <2>2. freeList' \in [Span -> Block \cup {Null}]
    BY <1>1, <1>2, <1>12 DEF Types
  <2>3. /\ links'.next \in [Span \cup Heads -> Span \cup Heads \cup {Null}]
        /\ links'.prev \in [Span \cup Heads -> Span \cup Heads \cup {Null}]
    BY <1>7 DEF Placed
  <2> QED BY <1>1, <1>3, <1>11, <1>13, <2>1, <2>2, <2>3 DEF Types
<1>15. Chains(E, L, G)'
  <2> DEFINE B == {b \in Block : b[1] = s}
  <2>1. \A b \in Block : b \notin B => word'[b] = word[b]
    BY <1>13
  <2>2. /\ \A x \in Span : x # s => \A j \in 1 .. Len(F[x]) : F[x][j] \notin B
        /\ \A u \in Thread : \A j \in 1 .. Len(L[u]) : L[u][j] \notin B
        /\ \A u \in Thread : \A j \in 1 .. Len(G[u]) : G[u][j] \notin B
    BY <1>1, <1>8 DEF Apart
  <2> HIDE DEF B
  <2>3. /\ \A x \in Span : x # s => Leads(word', freeList[x], Null, F[x])
        /\ \A u \in Thread : Leads(word', list[u], Null, L[u])
        /\ \A u \in Thread : Leads(word', start[u], Null, G[u])
    BY <2>1, <2>2, Kept
  <2>4. \A x \in Span : Leads(word', freeList'[x], Null, E[x])
    <3> TAKE x \in Span
    <3>1. CASE x = s
      BY <1>9, <1>10, <1>11, <3>1
    <3>2. CASE x # s
      <4>1. freeList'[x] = freeList[x] /\ E[x] = F[x]
        BY <1>10, <1>11, <3>2
      <4> QED BY <2>3, <3>2, <4>1
    <3> QED BY <3>1, <3>2
  <2>5. L \in [Thread -> Seq(Block)] /\ G \in [Thread -> Seq(Block)]
    BY <1>1 DEF Chains
  <2> QED BY <1>3, <1>10, <2>3, <2>4, <2>5 DEF Chains
<1>16. Apart(E, L, G, at, by)'
  <2>1. \A x \in Span : \A j \in 1 .. Len(E[x]) : E[x][j][1] = x /\ at[E[x][j]] = "span"
    <3> TAKE x \in Span
    <3>1. CASE x = s
      BY <1>8, <1>9, <1>10, <3>1
    <3>2. CASE x # s
      BY <1>1, <1>10, <3>2 DEF Apart
    <3> QED BY <3>1, <3>2
  <2> QED BY <1>1, <1>3, <2>1 DEF Apart
<1>17. Whereabouts(Q, at, there)'
  <2>1. \A b \in Block : at[b] # "span" => there[b[1]] = "bucket"
    BY <1>1, <1>4, <1>8, Constants DEF Whereabouts
  <2> QED BY <1>7, <2>1 DEF Whereabouts, Placed
<1>18. Counts(E, L, there)'
  <2>1. \A x \in Span : useCount[x] = IF there[x] = "bucket" THEN PerSpan - Len(E[x]) ELSE 0
    <3> TAKE x \in Span
    <3>1. useCount[x] = IF where[x] = "bucket" THEN PerSpan - Len(F[x]) ELSE 0
      BY <1>1 DEF Counts
    <3>2. CASE x = s
      BY <1>4, <1>7, <3>1, <3>2
    <3>3. CASE x # s
      <4>1. there[x] = where[x] /\ E[x] = F[x]
        BY <1>4, <1>10, <3>3
      <4> QED BY <3>1, <4>1
    <3> QED BY <3>2, <3>3
  <2> QED BY <1>1, <1>3, <2>1 DEF Counts
<1>19. Hands(E, L, G, there)'
  <2>1. ASSUME NEW u \in Thread, u # t, Carrying(u)'
        PROVE  /\ Carrying(u) /\ span'[u] = span[u] /\ span[u] \in Span
               /\ span[u] # s /\ there[span[u]] = "hands"
    <3>1. Carrying(u) /\ span'[u] = span[u]
      BY <1>11, <2>1 DEF Carrying
    <3>2. span[u] \in Span /\ where[span[u]] = "hands" /\ span[u] # s
      BY <1>1, <1>7, <3>1 DEF Hands
    <3> QED BY <1>4, <3>1, <3>2
  <2>2. \A u \in Thread : Carrying(u)' => span'[u] \in Span /\ there[span'[u]] = "hands"
    BY <1>4, <1>11, <2>1
  <2>3. \A u, v \in Thread : Carrying(u)' /\ Carrying(v)' /\ span'[u] = span'[v] => u = v
    <3> TAKE u, v \in Thread
    <3> HAVE Carrying(u)' /\ Carrying(v)' /\ span'[u] = span'[v]
    <3>1. CASE u = t
      BY <1>11, <2>1, <3>1
    <3>2. CASE v = t
      BY <1>11, <2>1, <3>2
    <3>3. CASE u # t /\ v # t
      <4>1. Carrying(u) /\ Carrying(v) /\ span[u] = span[v]
        BY <2>1, <3>3
      <4> QED BY <1>1, <4>1 DEF Hands
    <3> QED BY <3>1, <3>2, <3>3
  <2>4. \A u \in Thread : pc'[u] = "new" => L[u] = <<>> /\ Len(E[span'[u]]) = PerSpan
    <3> TAKE u \in Thread
    <3> HAVE pc'[u] = "new"
    <3>1. CASE u = t
      BY <1>5, <1>9, <1>10, <1>11, <3>1
    <3>2. CASE u # t
      <4>1. Carrying(u)'
        BY DEF Carrying
      <4>2. pc[u] = "new" /\ span'[u] = span[u] /\ span[u] \in Span /\ span[u] # s
        BY <1>11, <2>1, <3>2, <4>1
      <4>3. L[u] = <<>> /\ Len(F[span[u]]) = PerSpan
        BY <1>1, <4>2 DEF Hands
      <4> QED BY <1>10, <4>2, <4>3
    <3> QED BY <3>1, <3>2
  <2>5. \A u \in Thread : pc'[u] \in {"idle", "new"} => G[u] = <<>>
    BY <1>1, <1>5, <1>11 DEF Hands
  <2> QED BY <2>2, <2>3, <2>4, <2>5 DEF Hands
<1>20. Sound(E, L, G, Q, at, by, there)'
  BY <1>7, <1>14, <1>15, <1>16, <1>17, <1>18, <1>19 DEF Sound
<1>21. Sound([F EXCEPT ![s] = Whole(s)], L, G, Q, at, by, [where EXCEPT ![s] = "hands"])'
  BY <1>20 DEF E, there
<1>22. /\ Chosen(s, R, Q)
       /\ UNCHANGED user
  BY <1>3, <1>7
<1> QED
  BY <1>21, <1>22

LEMMA CarveRefines ==
    ASSUME IInv, NEW t \in Thread, Carve(t)
    PROVE  IInv' /\ Abstract!ListsNext
<1>1. PICK F, L, G, R, at, by, where : Sound(F, L, G, R, at, by, where)
  BY DEF IInv
<1>0. PICK s \in Span : \E Q :
          /\ Chosen(s, R, Q)
          /\ UNCHANGED user
          /\ Sound([F EXCEPT ![s] = Whole(s)], L, G, Q, at, by, [where EXCEPT ![s] = "hands"])'
  BY <1>1, CarveSound
<1>2. PICK Q :
          /\ Chosen(s, R, Q)
          /\ UNCHANGED user
          /\ Sound([F EXCEPT ![s] = Whole(s)], L, G, Q, at, by, [where EXCEPT ![s] = "hands"])'
  BY <1>0
<1> DEFINE E == [F EXCEPT ![s] = Whole(s)]
           there == [where EXCEPT ![s] = "hands"]
<1>3. Sound(E, L, G, Q, at, by, there)'
  BY <1>2
<1>4. E = [F EXCEPT ![s] = [i \in 1 .. PerSpan |-> <<s, i>>]]
  BY DEF Whole
<1> HIDE DEF E, there
<1>5. F = FreeOf /\ L = ListOf /\ G = GoingOf /\ R = RingOf
  BY <1>1, Reading
<1>6. E = FreeOf' /\ L = ListOf' /\ G = GoingOf' /\ Q = RingOf'
  BY <1>3, ReadingOn
<1>7. \/ s \in unused /\ unused' = unused \ {s} /\ UNCHANGED RingOf
      \/ /\ RingOf["pages"] # <<>> /\ s = Head(RingOf["pages"])
         /\ RingOf' = [RingOf EXCEPT !["pages"] = Tail(RingOf["pages"])]
         /\ UNCHANGED unused
  BY <1>2, <1>5, <1>6 DEF Chosen
<1>8. FreeOf' = [FreeOf EXCEPT ![s] = [i \in 1 .. PerSpan |-> <<s, i>>]]
  BY <1>4, <1>5, <1>6
<1>9. UNCHANGED <<ListOf, GoingOf, user>>
  BY <1>2, <1>5, <1>6
<1>10. Abstract!Cut(s)
  BY <1>7, <1>8, <1>9 DEF Abstract!Cut
<1>11. Abstract!ListsNext
  BY <1>10 DEF Abstract!ListsNext
<1>12. IInv'
  BY <1>3 DEF IInv
<1> QED
  BY <1>11, <1>12

-----------------------------------------------------------------------------
(* Push and PopRange.                                                        *)

\* The list of t with b in front is all, where words are w.
Front(F, L, G, at, by, t, b, w, all) ==
    /\ b \in Block /\ at[b] = "user"
    /\ all \in Seq(Block) /\ Len(all) = Len(L[t]) + 1 /\ Len(L[t]) \in Nat
    /\ all[1] = b /\ \A j \in 1 .. Len(L[t]) : all[j + 1] = L[t][j]
    /\ \A j \in 1 .. Len(all) : all[j] \in Block /\ (j = 1 \/ (at[all[j]] = "list" /\ by[all[j]] = t))
    /\ w \in [Block -> Block \cup {Null, Data}]
    /\ Leads(w, b, Null, all) /\ Path(w, b, Block) = all
    /\ \A s \in Span : Leads(w, freeList[s], Null, F[s])
    /\ \A u \in Thread : Leads(w, list[u], Null, L[u])
    /\ \A u \in Thread : Leads(w, start[u], Null, G[u])

LEMMA PushedIs ==
    ASSUME NEW F, NEW L, NEW G, NEW R, NEW at, NEW by, NEW where,
           Sound(F, L, G, R, at, by, where), NEW t \in Thread, NEW b \in user
    PROVE  Front(F, L, G, at, by, t, b, [word EXCEPT ![b] = list[t]], <<b>> \o L[t])
<1>0. PICK w, all : w = [word EXCEPT ![b] = list[t]] /\ all = <<b>> \o L[t]
  OBVIOUS
<1>1. Types /\ Chains(F, L, G) /\ Apart(F, L, G, at, by)
  BY DEF Sound
<1>2. b \in Block /\ at[b] = "user"
  BY <1>1 DEF Types, Apart
<1>3. L[t] \in Seq(Block) /\ \A j \in 1 .. Len(L[t]) : L[t][j] \in Block
  BY Members
<1>4. /\ all \in Seq(Block) /\ Len(all) = Len(L[t]) + 1 /\ Len(L[t]) \in Nat
      /\ all[1] = b /\ \A j \in 1 .. Len(L[t]) : all[j + 1] = L[t][j]
  BY <1>0, <1>2, <1>3, ConsIs
<1>5. w \in [Block -> Block \cup {Null, Data}] /\ w[b] = list[t]
      /\ \A c \in Block : c \notin {b} => w[c] = word[c]
  BY <1>0, <1>1, <1>2 DEF Types
<1>6. /\ \A s \in Span : \A j \in 1 .. Len(F[s]) : F[s][j] \notin {b}
      /\ \A u \in Thread : \A j \in 1 .. Len(L[u]) : L[u][j] \notin {b}
      /\ \A u \in Thread : \A j \in 1 .. Len(G[u]) : G[u][j] \notin {b}
  BY <1>1, <1>2 DEF Apart
<1>7. /\ \A s \in Span : Leads(w, freeList[s], Null, F[s])
      /\ \A u \in Thread : Leads(w, list[u], Null, L[u])
      /\ \A u \in Thread : Leads(w, start[u], Null, G[u])
  BY <1>5, <1>6, Kept
<1>8. Leads(w, b, Null, all)
  <2>1. \A j \in 1 .. Len(L[t]) : L[t][j] # b /\ w[L[t][j]] = w[L[t][j]]
    BY <1>6
  <2>2. Leads(w, b, Null, <<b>> \o L[t])
    BY <1>2, <1>3, <1>5, <1>7, <2>1, Cons
  <2> QED BY <1>0, <2>2
<1>9. Path(w, b, Block) = all
  <2>1. IsFiniteSet(Block) /\ Null \notin Block
    BY Constants
  <2>2. all \in Seq(Block)
    BY <1>4
  <2> QED BY <1>8, <2>1, <2>2, Walk
<1>10. ASSUME NEW j \in 1 .. Len(all)
       PROVE  all[j] \in Block /\ (j = 1 \/ (at[all[j]] = "list" /\ by[all[j]] = t))
  <2>1. CASE j = 1
    BY <1>2, <1>4, <2>1
  <2>2. CASE j # 1
    <3>1. j - 1 \in 1 .. Len(L[t]) /\ j - 1 + 1 = j
      BY <1>4, <2>2
    <3>2. all[j] = L[t][j - 1]
      BY <1>4, <3>1
    <3>3. \A k \in 1 .. Len(L[t]) : at[L[t][k]] = "list" /\ by[L[t][k]] = t
      BY <1>1 DEF Apart
    <3> QED BY <1>3, <3>1, <3>2, <3>3
  <2> QED BY <2>1, <2>2
<1>11. Front(F, L, G, at, by, t, b, w, all)
  BY <1>2, <1>4, <1>5, <1>7, <1>8, <1>9, <1>10 DEF Front
<1> QED
  BY <1>0, <1>11

\* A list that stays short.
LEMMA FreeShortSound ==
    ASSUME NEW F, NEW L, NEW G, NEW R, NEW at, NEW by, NEW where,
           Sound(F, L, G, R, at, by, where), NEW t \in Thread, NEW b \in user, Free(t, b),
           size[t] + 1 < maxSize[t]
    PROVE  Sound(F, [L EXCEPT ![t] = <<b>> \o @], G, R, [at EXCEPT ![b] = "list"],
                 [by EXCEPT ![b] = t], where)'
<1> DEFINE M == [L EXCEPT ![t] = <<b>> \o @]
           now == [at EXCEPT ![b] = "list"]
           whose == [by EXCEPT ![b] = t]
<1>1. Types /\ Chains(F, L, G) /\ Apart(F, L, G, at, by) /\ Rings(R) /\ Whereabouts(R, at, where)
      /\ Counts(F, L, where) /\ Hands(F, L, G, where)
  BY DEF Sound
<1>2. PICK w, all : w = [word EXCEPT ![b] = list[t]] /\ all = <<b>> \o L[t]
  OBVIOUS
<1>2a. Front(F, L, G, at, by, t, b, w, all)
  BY <1>2, PushedIs
<1>3. /\ b \in Block /\ at[b] = "user"
      /\ all \in Seq(Block) /\ Len(all) = Len(L[t]) + 1 /\ Len(L[t]) \in Nat
      /\ all[1] = b /\ \A j \in 1 .. Len(L[t]) : all[j + 1] = L[t][j]
  BY <1>2a DEF Front
<1>4. /\ \A j \in 1 .. Len(all) : all[j] \in Block /\ (j = 1 \/ (at[all[j]] = "list" /\ by[all[j]] = t))
      /\ w \in [Block -> Block \cup {Null, Data}]
      /\ Leads(w, b, Null, all)
  BY <1>2a DEF Front
<1>5. /\ \A s \in Span : Leads(w, freeList[s], Null, F[s])
      /\ \A u \in Thread : Leads(w, list[u], Null, L[u])
      /\ \A u \in Thread : Leads(w, start[u], Null, G[u])
  BY <1>2a DEF Front
<1>6. /\ word' = w /\ list' = [list EXCEPT ![t] = b] /\ size' = [size EXCEPT ![t] = @ + 1]
      /\ user' = user \ {b} /\ pc[t] = "idle"
      /\ links' = links /\ unused' = unused /\ freeList' = freeList /\ useCount' = useCount
      /\ maxSize' = maxSize /\ pc' = pc /\ span' = span /\ start' = start
  BY <1>2 DEF Free, central, locals
<1>7. /\ M \in [Thread -> Seq(Block)] /\ M[t] = all /\ \A u \in Thread : u # t => M[u] = L[u]
      /\ now \in [Block -> Places] /\ now[b] = "list" /\ \A c \in Block : c # b => now[c] = at[c]
      /\ whose \in [Block -> Thread \cup {Null}] /\ whose[b] = t
      /\ \A c \in Block : c # b => whose[c] = by[c]
  BY <1>1, <1>2, <1>3 DEF Chains, Apart, Places
<1> HIDE DEF M, now, whose
<1>8. /\ list' \in [Thread -> Block \cup {Null}] /\ list'[t] = b
      /\ \A u \in Thread : u # t => list'[u] = list[u]
      /\ size' \in [Thread -> Int] /\ size'[t] = size[t] + 1
      /\ \A u \in Thread : u # t => size'[u] = size[u]
      /\ user' \subseteq Block
  BY <1>1, <1>3, <1>6 DEF Types
<1>9. Types'
  BY <1>1, <1>4, <1>6, <1>8 DEF Types
<1>10. Chains(F, M, G)'
  <2>1. \A u \in Thread : Leads(w, list'[u], Null, M[u])
    <3> TAKE u \in Thread
    <3>1. CASE u = t
      <4>1. M[u] = all /\ list'[u] = b
        BY <1>7, <1>8, <3>1
      <4> QED BY <1>4, <4>1
    <3>2. CASE u # t
      <4>1. M[u] = L[u] /\ list'[u] = list[u]
        BY <1>7, <1>8, <3>2
      <4> QED BY <1>5, <4>1
    <3> QED BY <3>1, <3>2
  <2>2. F \in [Span -> Seq(Block)] /\ G \in [Thread -> Seq(Block)]
    BY <1>1 DEF Chains
  <2> QED BY <1>5, <1>6, <1>7, <2>1, <2>2 DEF Chains
<1>11. Apart(F, M, G, now, whose)'
  <2>1. \A s \in Span : \A j \in 1 .. Len(F[s]) : F[s][j][1] = s /\ now[F[s][j]] = "span"
    <3> TAKE s \in Span
    <3> TAKE j \in 1 .. Len(F[s])
    <3>1. F[s][j] \in Block /\ F[s][j][1] = s /\ at[F[s][j]] = "span"
      BY <1>1, Members DEF Apart
    <3> QED BY <1>3, <1>7, <3>1
  <2>2. \A u \in Thread : \A j \in 1 .. Len(M[u]) : now[M[u][j]] = "list" /\ whose[M[u][j]] = u
    <3> TAKE u \in Thread
    <3> TAKE j \in 1 .. Len(M[u])
    <3>1. CASE u = t
      BY <1>3, <1>4, <1>7, <3>1
    <3>2. CASE u # t
      <4>1. M[u] = L[u] /\ L[u][j] \in Block /\ at[L[u][j]] = "list" /\ by[L[u][j]] = u
        BY <1>1, <1>7, <3>2, Members DEF Apart
      <4> QED BY <1>3, <1>7, <4>1
    <3> QED BY <3>1, <3>2
  <2>3. \A u \in Thread : \A j \in 1 .. Len(G[u]) : now[G[u][j]] = "going" /\ whose[G[u][j]] = u
    <3> TAKE u \in Thread
    <3> TAKE j \in 1 .. Len(G[u])
    <3>1. G[u][j] \in Block /\ at[G[u][j]] = "going" /\ by[G[u][j]] = u
      BY <1>1, Members DEF Apart
    <3> QED BY <1>3, <1>7, <3>1
  <2>4. \A c \in Block : c \in user' <=> now[c] = "user"
    BY <1>1, <1>6, <1>7 DEF Apart
  <2> QED BY <1>7, <2>1, <2>2, <2>3, <2>4 DEF Apart
<1>12. Rings(R)'
  BY <1>1, <1>6 DEF Rings
<1>13. Whereabouts(R, now, where)'
  <2>1. \A c \in Block : now[c] # "span" => where[c[1]] = "bucket"
    BY <1>1, <1>3, <1>7 DEF Whereabouts
  <2> QED BY <1>1, <1>6, <2>1 DEF Whereabouts
<1>14. Counts(F, M, where)'
  <2>1. \A u \in Thread : size'[u] = Len(M[u]) /\ size'[u] < maxSize[u]
    <3> TAKE u \in Thread
    <3>1. size[u] = Len(L[u]) /\ size[u] < maxSize[u]
      BY <1>1 DEF Counts
    <3>2. CASE u = t
      BY <1>3, <1>7, <1>8, <3>1, <3>2
    <3>3. CASE u # t
      BY <1>7, <1>8, <3>1, <3>3
    <3> QED BY <3>2, <3>3
  <2> QED BY <1>1, <1>6, <2>1 DEF Counts
<1>15. Hands(F, M, G, where)'
  <2>1. \A u \in Thread : pc[u] = "new" => M[u] = <<>> /\ Len(F[span[u]]) = PerSpan
    BY <1>1, <1>6, <1>7 DEF Hands
  <2> QED BY <1>1, <1>6, <2>1 DEF Hands, Carrying
<1>16. Sound(F, M, G, R, now, whose, where)'
  BY <1>9, <1>10, <1>11, <1>12, <1>13, <1>14, <1>15 DEF Sound
<1> QED
  BY <1>16 DEF M, now, whose

\* Where objects are once t gives all of c back.
Gone(c, at) == [x \in Block |-> IF \E j \in 1 .. Len(c) : c[j] = x THEN "going" ELSE at[x]]
GoneBy(c, t, by) == [x \in Block |-> IF \E j \in 1 .. Len(c) : c[j] = x THEN t ELSE by[x]]

\* A list that has grown to _maxSize leaves the thread.
LEMMA FreeFullSound ==
    ASSUME NEW F, NEW L, NEW G, NEW R, NEW at, NEW by, NEW where,
           Sound(F, L, G, R, at, by, where), NEW t \in Thread, NEW b \in user, Free(t, b),
           ~(size[t] + 1 < maxSize[t])
    PROVE  Sound(F, [L EXCEPT ![t] = <<>>], [G EXCEPT ![t] = <<b>> \o L[t]], R,
                 Gone(<<b>> \o L[t], at), GoneBy(<<b>> \o L[t], t, by), where)'
<1>1. Types /\ Chains(F, L, G) /\ Apart(F, L, G, at, by) /\ Rings(R) /\ Whereabouts(R, at, where)
      /\ Counts(F, L, where) /\ Hands(F, L, G, where)
  BY DEF Sound
<1>2. PICK w, all : w = [word EXCEPT ![b] = list[t]] /\ all = <<b>> \o L[t]
  OBVIOUS
<1>3. Front(F, L, G, at, by, t, b, w, all)
  BY <1>2, PushedIs
<1>4. /\ b \in Block /\ at[b] = "user"
      /\ all \in Seq(Block) /\ Len(all) = Len(L[t]) + 1 /\ Len(L[t]) \in Nat
      /\ all[1] = b
      /\ \A j \in 1 .. Len(all) : all[j] \in Block /\ (j = 1 \/ (at[all[j]] = "list" /\ by[all[j]] = t))
      /\ w \in [Block -> Block \cup {Null, Data}]
      /\ Leads(w, b, Null, all) /\ Path(w, b, Block) = all
  BY <1>3 DEF Front
<1>5. /\ \A s \in Span : Leads(w, freeList[s], Null, F[s])
      /\ \A u \in Thread : Leads(w, list[u], Null, L[u])
      /\ \A u \in Thread : Leads(w, start[u], Null, G[u])
  BY <1>3 DEF Front
\* PopRange walks to the last one.
<1>6. /\ maxSize[t] = Len(all) /\ maxSize[t] = size[t] + 1
      /\ maxSize[t] \in 1 .. Len(all) /\ size[t] \in Int
  <2>1. size[t] = Len(L[t]) /\ size[t] < maxSize[t] /\ maxSize[t] \in Nat
    BY <1>1 DEF Counts, Types
  <2> QED BY <1>4, <2>1
<1>7. all[Len(all)] \in Block /\ w[all[Len(all)]] = Null
  <2>1. Len(all) \in 1 .. Len(all) /\ ~(Len(all) + 1 <= Len(all))
    BY <1>4
  <2>2. w[all[Len(all)]] = Nth(all, Null, Len(all) + 1)
    BY <1>4, <2>1 DEF Leads
  <2> QED BY <1>4, <2>1, <2>2 DEF Nth
<1>8. Cut(w, all[Len(all)]) = w
  <2>1. [w EXCEPT ![all[Len(all)]] = Null] = w
    BY <1>4, <1>7
  <2> QED BY <2>1 DEF Cut
<1>9. /\ word' = w /\ list' = [list EXCEPT ![t] = Null]
      /\ size' = [size EXCEPT ![t] = 0]
      /\ start' = [start EXCEPT ![t] = b]
      /\ pc' = [pc EXCEPT ![t] = "release"]
      /\ user' = user \ {b} /\ pc[t] = "idle"
      /\ links' = links /\ unused' = unused /\ freeList' = freeList /\ useCount' = useCount
      /\ maxSize' = maxSize /\ span' = span
  <2>1. /\ word' = Cut(w, Path(w, b, Block)[maxSize[t]])
        /\ list' = [list EXCEPT ![t] = w[Path(w, b, Block)[maxSize[t]]]]
        /\ size' = [size EXCEPT ![t] = @ + 1 - maxSize[t]]
        /\ start' = [start EXCEPT ![t] = b]
        /\ pc' = [pc EXCEPT ![t] = "release"]
        /\ user' = user \ {b} /\ pc[t] = "idle"
        /\ links' = links /\ unused' = unused /\ freeList' = freeList /\ useCount' = useCount
        /\ maxSize' = maxSize /\ span' = span
    BY <1>2 DEF Free, central
  <2>2. word' = w /\ list' = [list EXCEPT ![t] = Null]
    BY <1>4, <1>6, <1>7, <1>8, <2>1
  <2>3. size[t] + 1 - maxSize[t] = 0
    BY <1>4, <1>6
  <2> QED BY <2>1, <2>2, <2>3
<1> DEFINE M == [L EXCEPT ![t] = <<>>]
           H == [G EXCEPT ![t] = <<b>> \o L[t]]
           now == Gone(all, at)
           whose == GoneBy(all, t, by)
<1>10. /\ M \in [Thread -> Seq(Block)] /\ M[t] = <<>> /\ \A u \in Thread : u # t => M[u] = L[u]
       /\ H \in [Thread -> Seq(Block)] /\ H[t] = all /\ \A u \in Thread : u # t => H[u] = G[u]
  BY <1>1, <1>2, <1>4 DEF Chains
<1>11. /\ now \in [Block -> Places] /\ whose \in [Block -> Thread \cup {Null}]
       /\ \A j \in 1 .. Len(all) : now[all[j]] = "going" /\ whose[all[j]] = t
       /\ \A c \in Block : (\A j \in 1 .. Len(all) : all[j] # c) => now[c] = at[c] /\ whose[c] = by[c]
       /\ \A c \in Block : now[c] # "span" => at[c] # "span"
  <2>1. at \in [Block -> Places] /\ by \in [Block -> Thread \cup {Null}]
    BY <1>1 DEF Apart
  <2>2. now \in [Block -> Places] /\ whose \in [Block -> Thread \cup {Null}]
    BY <2>1 DEF Gone, GoneBy, Places
  <2>3. \A j \in 1 .. Len(all) : now[all[j]] = "going" /\ whose[all[j]] = t
    BY <1>4 DEF Gone, GoneBy
  <2>4. \A c \in Block : (\A j \in 1 .. Len(all) : all[j] # c) => now[c] = at[c] /\ whose[c] = by[c]
    BY DEF Gone, GoneBy
  <2>5. \A c \in Block : now[c] # "span" => at[c] # "span"
    <3> TAKE c \in Block
    <3>1. CASE \E j \in 1 .. Len(all) : all[j] = c
      BY <1>4, <3>1
    <3>2. CASE ~ \E j \in 1 .. Len(all) : all[j] = c
      BY <2>4, <3>2
    <3> QED BY <3>1, <3>2
  <2> QED BY <2>2, <2>3, <2>4, <2>5
<1> HIDE DEF M, H, now, whose
<1>12. /\ list' \in [Thread -> Block \cup {Null}] /\ list'[t] = Null
       /\ \A u \in Thread : u # t => list'[u] = list[u]
       /\ start' \in [Thread -> Block \cup {Null}] /\ start'[t] = b
       /\ \A u \in Thread : u # t => start'[u] = start[u]
       /\ size' \in [Thread -> Int] /\ size'[t] = 0
       /\ \A u \in Thread : u # t => size'[u] = size[u]
       /\ pc' \in [Thread -> Pc] /\ pc'[t] = "release"
       /\ \A u \in Thread : u # t => pc'[u] = pc[u]
       /\ user' \subseteq Block
  BY <1>1, <1>4, <1>9 DEF Types, Pc
<1>13. Types'
  BY <1>1, <1>4, <1>9, <1>12 DEF Types
<1>14. Chains(F, M, H)'
  <2>1. \A u \in Thread : Leads(w, list'[u], Null, M[u])
    <3> TAKE u \in Thread
    <3>1. CASE u = t
      <4>1. M[u] = <<>> /\ list'[u] = Null
        BY <1>10, <1>12, <3>1
      <4> QED BY <4>1, Nothing
    <3>2. CASE u # t
      <4>1. M[u] = L[u] /\ list'[u] = list[u]
        BY <1>10, <1>12, <3>2
      <4> QED BY <1>5, <4>1
    <3> QED BY <3>1, <3>2
  <2>2. \A u \in Thread : Leads(w, start'[u], Null, H[u])
    <3> TAKE u \in Thread
    <3>1. CASE u = t
      <4>1. H[u] = all /\ start'[u] = b
        BY <1>10, <1>12, <3>1
      <4> QED BY <1>4, <4>1
    <3>2. CASE u # t
      <4>1. H[u] = G[u] /\ start'[u] = start[u]
        BY <1>10, <1>12, <3>2
      <4> QED BY <1>5, <4>1
    <3> QED BY <3>1, <3>2
  <2>3. F \in [Span -> Seq(Block)]
    BY <1>1 DEF Chains
  <2> QED BY <1>5, <1>9, <1>10, <2>1, <2>2, <2>3 DEF Chains
\* What is in no list of t stays where it was.
<1>15. ASSUME NEW c \in Block, c # b, at[c] # "list" \/ by[c] # t
       PROVE  now[c] = at[c] /\ whose[c] = by[c]
  <2>1. \A j \in 1 .. Len(all) : all[j] # c
    BY <1>4, <1>15
  <2> QED BY <1>11, <2>1
<1>16. Apart(F, M, H, now, whose)'
  <2>1. \A s \in Span : \A j \in 1 .. Len(F[s]) : F[s][j][1] = s /\ now[F[s][j]] = "span"
    <3> TAKE s \in Span
    <3> TAKE j \in 1 .. Len(F[s])
    <3>1. F[s][j] \in Block /\ F[s][j][1] = s /\ at[F[s][j]] = "span"
      BY <1>1, Members DEF Apart
    <3>2. F[s][j] # b
      BY <1>4, <3>1
    <3> QED BY <1>15, <3>1, <3>2
  <2>2. \A u \in Thread : \A j \in 1 .. Len(M[u]) : now[M[u][j]] = "list" /\ whose[M[u][j]] = u
    <3> TAKE u \in Thread
    <3> TAKE j \in 1 .. Len(M[u])
    <3>1. CASE u = t
      <4>1. Len(M[u]) = 0
        BY <1>10, <3>1
      <4> QED BY <4>1
    <3>2. CASE u # t
      <4>1. M[u] = L[u] /\ L[u][j] \in Block /\ at[L[u][j]] = "list" /\ by[L[u][j]] = u
        BY <1>1, <1>10, <3>2, Members DEF Apart
      <4>2. L[u][j] # b
        BY <1>4, <4>1
      <4> QED BY <1>15, <3>2, <4>1, <4>2
    <3> QED BY <3>1, <3>2
  <2>3. \A u \in Thread : \A j \in 1 .. Len(H[u]) : now[H[u][j]] = "going" /\ whose[H[u][j]] = u
    <3> TAKE u \in Thread
    <3> TAKE j \in 1 .. Len(H[u])
    <3>1. CASE u = t
      BY <1>10, <1>11, <3>1
    <3>2. CASE u # t
      <4>1. H[u] = G[u] /\ G[u][j] \in Block /\ at[G[u][j]] = "going" /\ by[G[u][j]] = u
        BY <1>1, <1>10, <3>2, Members DEF Apart
      <4>2. G[u][j] # b
        BY <1>4, <4>1
      <4> QED BY <1>15, <4>1, <4>2
    <3> QED BY <3>1, <3>2
  <2>4. \A c \in Block : c \in user' <=> now[c] = "user"
    <3> TAKE c \in Block
    <3>1. c \in user <=> at[c] = "user"
      BY <1>1 DEF Apart
    <3>2. CASE c = b
      <4>1. 1 \in 1 .. Len(all)
        BY <1>4
      <4>2. now[b] = "going"
        BY <1>4, <1>11, <4>1
      <4> QED BY <1>9, <3>2, <4>2
    <3>3. CASE c # b
      <4>1. at[c] = "list" => now[c] \in {"going", "list"}
        <5>1. CASE \E j \in 1 .. Len(all) : all[j] = c
          BY <1>11, <5>1
        <5>2. CASE ~ \E j \in 1 .. Len(all) : all[j] = c
          BY <1>11, <5>2
        <5> QED BY <5>1, <5>2
      <4>2. at[c] # "list" => now[c] = at[c]
        BY <1>15, <3>3
      <4> QED BY <1>9, <3>1, <3>3, <4>1, <4>2
    <3> QED BY <3>2, <3>3
  <2> QED BY <1>11, <2>1, <2>2, <2>3, <2>4 DEF Apart
<1>17. Rings(R)'
  BY <1>1, <1>9 DEF Rings
<1>18. Whereabouts(R, now, where)'
  <2>1. \A c \in Block : now[c] # "span" => where[c[1]] = "bucket"
    BY <1>1, <1>11 DEF Whereabouts
  <2> QED BY <1>1, <1>9, <2>1 DEF Whereabouts
<1>19. Counts(F, M, where)'
  <2>1. \A u \in Thread : size'[u] = Len(M[u]) /\ size'[u] < maxSize[u]
    <3> TAKE u \in Thread
    <3>1. size[u] = Len(L[u]) /\ size[u] < maxSize[u]
      BY <1>1 DEF Counts
    <3>2. CASE u = t
      BY <1>4, <1>6, <1>10, <1>12, <3>2
    <3>3. CASE u # t
      BY <1>10, <1>12, <3>1, <3>3
    <3> QED BY <3>2, <3>3
  <2> QED BY <1>1, <1>9, <2>1 DEF Counts
<1>20. Hands(F, M, H, where)'
  <2>1. \A u \in Thread : Carrying(u)' => u # t /\ Carrying(u)
    BY <1>12 DEF Carrying
  <2>2. \A u \in Thread : pc'[u] = "new" => M[u] = <<>> /\ Len(F[span[u]]) = PerSpan
    <3> TAKE u \in Thread
    <3> HAVE pc'[u] = "new"
    <3>1. u # t /\ pc[u] = "new"
      BY <1>12
    <3>2. M[u] = L[u]
      BY <1>10, <3>1
    <3> QED BY <1>1, <3>1, <3>2 DEF Hands
  <2>3. \A u \in Thread : pc'[u] \in {"idle", "new"} => H[u] = <<>>
    BY <1>1, <1>10, <1>12 DEF Hands
  <2> QED BY <1>1, <1>9, <2>1, <2>2, <2>3 DEF Hands
<1>21. Sound(F, M, H, R, now, whose, where)'
  BY <1>13, <1>14, <1>16, <1>17, <1>18, <1>19, <1>20 DEF Sound
<1> QED
  BY <1>2, <1>21 DEF M, H, now, whose

LEMMA FreeRefines ==
    ASSUME IInv, NEW t \in Thread, NEW b \in user, Free(t, b)
    PROVE  IInv' /\ Abstract!ListsNext
<1>1. PICK F, L, G, R, at, by, where : Sound(F, L, G, R, at, by, where)
  BY DEF IInv
<1>2. F = FreeOf /\ L = ListOf /\ G = GoingOf /\ R = RingOf
  BY <1>1, Reading
<1>3. PICK all : all = <<b>> \o L[t]
  OBVIOUS
<1>4. all \in Seq(Block) /\ Len(all) = Len(L[t]) + 1 /\ Len(L[t]) \in Nat
  <2>1. Front(F, L, G, at, by, t, b, [word EXCEPT ![b] = list[t]], all)
    BY <1>1, <1>3, PushedIs
  <2> QED BY <2>1 DEF Front
<1>5. user' = user \ {b} /\ UNCHANGED unused /\ G[t] = <<>>
  <2>1. G[t] = <<>>
    BY <1>1 DEF Free, Sound, Hands
  <2> QED BY <2>1 DEF Free, central
<1>6. L \in [Thread -> Seq(Block)] /\ G \in [Thread -> Seq(Block)]
  BY <1>1 DEF Sound, Chains
\* With what it pushes and takes off given, the step is one of Lists.
<1>7. ASSUME NEW n \in 0 .. (Len(L[t]) + 1), NEW M, NEW H, NEW now, NEW whose,
             Sound(F, M, H, R, now, whose, where)',
             H = [G EXCEPT ![t] = SubSeq(all, 1, n)],
             M = [L EXCEPT ![t] = SubSeq(all, n + 1, Len(all))]
      PROVE  IInv' /\ Abstract!ListsNext
  <2>1. F = FreeOf' /\ M = ListOf' /\ H = GoingOf' /\ R = RingOf'
    <3>1. Sound(F, M, H, R, now, whose, where)'
      BY <1>7
    <3> QED BY <3>1, ReadingOn
  <2>2. n <= Len(all)
    BY <1>4
  <2>3. Abstract!Push(t, b, n)
    BY <1>2, <1>3, <1>5, <1>7, <2>1, <2>2 DEF Abstract!Push
  <2>4. n \in 0 .. (Len(ListOf[t]) + 1)
    BY <1>2
  <2>5. Abstract!ListsNext
    BY <2>3, <2>4 DEF Abstract!ListsNext
  <2>6. IInv'
    BY <1>7 DEF IInv
  <2> QED BY <2>5, <2>6
<1>8. CASE size[t] + 1 < maxSize[t]
  <2> DEFINE M == [L EXCEPT ![t] = <<b>> \o @]
             now == [at EXCEPT ![b] = "list"]
             whose == [by EXCEPT ![b] = t]
  <2>1. Sound(F, M, G, R, now, whose, where)'
    BY <1>1, <1>8, FreeShortSound
  <2>2. SubSeq(all, 1, 0) = <<>> /\ SubSeq(all, 0 + 1, Len(all)) = all
    BY <1>4, SubSeqEmpty, SubSeqFull
  <2>3. G = [G EXCEPT ![t] = SubSeq(all, 1, 0)]
    BY <1>5, <1>6, <2>2
  <2>4. M = [L EXCEPT ![t] = SubSeq(all, 0 + 1, Len(all))]
    BY <1>3, <2>2
  <2>5. 0 \in 0 .. (Len(L[t]) + 1)
    BY <1>4
  <2> HIDE DEF M, now, whose
  <2> QED BY <1>7, <2>1, <2>3, <2>4, <2>5
<1>9. CASE ~(size[t] + 1 < maxSize[t])
  <2> DEFINE M == [L EXCEPT ![t] = <<>>]
             H == [G EXCEPT ![t] = <<b>> \o L[t]]
             now == Gone(<<b>> \o L[t], at)
             whose == GoneBy(<<b>> \o L[t], t, by)
             n == Len(all)
  <2>1. Sound(F, M, H, R, now, whose, where)'
    BY <1>1, <1>9, FreeFullSound
  <2>2. SubSeq(all, 1, n) = all /\ SubSeq(all, n + 1, n) = <<>>
    BY <1>4, SubSeqEmpty, SubSeqFull
  <2>3. H = [G EXCEPT ![t] = SubSeq(all, 1, n)]
    BY <1>3, <2>2
  <2>4. M = [L EXCEPT ![t] = SubSeq(all, n + 1, Len(all))]
    BY <2>2
  <2>5. n \in 0 .. (Len(L[t]) + 1)
    BY <1>4
  <2> HIDE DEF M, H, now, whose, n
  <2> QED BY <1>7, <2>1, <2>3, <2>4, <2>5
<1> QED
  BY <1>8, <1>9

-----------------------------------------------------------------------------
(* ReleaseListToSpans.                                                       *)

\* t gives b back to s, which makes all of its chain, where words are w.
Given(F, L, G, at, by, where, t, b, s, w, all) ==
    /\ b \in Block /\ s \in Span /\ b[1] = s /\ at[b] = "going" /\ by[b] = t /\ where[s] = "bucket"
    /\ G[t] # <<>> /\ Head(G[t]) = b /\ G[t][1] = b /\ start[t] = b
    /\ all \in Seq(Block) /\ Len(all) = Len(F[s]) + 1 /\ Len(F[s]) \in Nat
    /\ \A j \in 1 .. Len(all) : /\ all[j] \in Block /\ all[j][1] = s
                                /\ all[j] = b \/ at[all[j]] = "span"
    /\ Len(all) <= PerSpan
    /\ Len(all) = PerSpan => \A x \in Block : x[1] = s => \E j \in 1 .. Len(all) : all[j] = x
    /\ useCount[s] = PerSpan - Len(F[s])
    /\ w \in [Block -> Block \cup {Null, Data}] /\ Leads(w, b, Null, all)
    /\ \A x \in Span : Leads(w, freeList[x], Null, F[x])
    /\ \A u \in Thread : Leads(w, list[u], Null, L[u])
    /\ \A u \in Thread : u # t => Leads(w, start[u], Null, G[u])
    /\ Leads(w, word[b], Null, Tail(G[t])) /\ word[b] \in Block \cup {Null}
    /\ Tail(G[t]) \in Seq(Block)
    /\ \A j \in 1 .. Len(Tail(G[t])) :
          LET c == Tail(G[t])[j] IN c \in Block /\ c # b /\ at[c] = "going" /\ by[c] = t

LEMMA GivenIs ==
    ASSUME NEW F, NEW L, NEW G, NEW R, NEW at, NEW by, NEW where,
           Sound(F, L, G, R, at, by, where), NEW t \in Thread, GiveBack(t),
           NEW b, b = start[t], NEW s, s = b[1]
    PROVE  Given(F, L, G, at, by, where, t, b, s, [word EXCEPT ![b] = freeList[s]], <<b>> \o F[s])
<1>1. Types /\ Chains(F, L, G) /\ Apart(F, L, G, at, by) /\ Whereabouts(R, at, where)
      /\ Counts(F, L, where)
  BY DEF Sound
<1>2. PICK w, all : w = [word EXCEPT ![b] = freeList[s]] /\ all = <<b>> \o F[s]
  OBVIOUS
<1>3. PICK g : g = G[t]
  OBVIOUS
<1>4. /\ g \in Seq(Block) /\ Leads(word, b, Null, g) /\ b # Null
      /\ \A j \in 1 .. Len(g) : g[j] \in Block /\ at[g[j]] = "going" /\ by[g[j]] = t
  <2>1. G[t] \in Seq(Block) /\ Leads(word, start[t], Null, G[t])
    BY <1>1 DEF Chains
  <2>2. \A j \in 1 .. Len(G[t]) : G[t][j] \in Block /\ at[G[t][j]] = "going" /\ by[G[t][j]] = t
    BY <1>1, Members DEF Apart
  <2>3. b # Null
    BY DEF GiveBack
  <2> QED BY <1>3, <2>1, <2>2, <2>3
<1>5. g # <<>> /\ Len(g) \in Nat \ {0} /\ b = g[1]
  BY <1>4, Empty, Constants
<1>6. 1 \in 1 .. Len(g) /\ b \in Block /\ at[b] = "going" /\ by[b] = t
  BY <1>4, <1>5
<1>7. s \in Span /\ where[s] = "bucket"
  BY <1>1, <1>6, Constants DEF Whereabouts
<1>8. /\ Tail(g) \in Seq(Block) /\ Len(Tail(g)) = Len(g) - 1 /\ Head(g) = g[1]
      /\ \A j \in 1 .. Len(g) - 1 : Tail(g)[j] = g[j + 1]
  BY <1>4, <1>5, RestIs
<1>9. \A j \in 1 .. Len(Tail(g)) :
         /\ Tail(g)[j] \in Block /\ Tail(g)[j] # b
         /\ at[Tail(g)[j]] = "going" /\ by[Tail(g)[j]] = t
  <2> TAKE j \in 1 .. Len(Tail(g))
  <2>1. j + 1 \in 1 .. Len(g) /\ j + 1 # 1 /\ Tail(g)[j] = g[j + 1]
    BY <1>5, <1>8
  <2>2. g[j + 1] # g[1]
    <3>1. \A x, y \in 1 .. Len(g) : g[x] = g[y] => x = y
      BY <1>4 DEF Leads
    <3> QED BY <1>6, <2>1, <3>1
  <2> QED BY <1>4, <1>5, <2>1, <2>2
<1>10. word[b] \in Block \cup {Null}
  <2>1. word[g[1]] = Nth(g, Null, 1 + 1)
    BY <1>4, <1>6 DEF Leads
  <2>2. 1 + 1 <= Len(g) => 1 + 1 \in 1 .. Len(g)
    BY <1>5
  <2> QED BY <1>4, <1>5, <2>1, <2>2 DEF Nth
<1>11. /\ w \in [Block -> Block \cup {Null, Data}] /\ w[b] = freeList[s]
       /\ \A c \in Block : c \notin {b} => w[c] = word[c]
  BY <1>1, <1>2, <1>6, <1>7 DEF Types
<1>12. /\ \A x \in Span : \A j \in 1 .. Len(F[x]) : F[x][j] \notin {b}
       /\ \A u \in Thread : \A j \in 1 .. Len(L[u]) : L[u][j] \notin {b}
       /\ \A u \in Thread : u # t => \A j \in 1 .. Len(G[u]) : G[u][j] \notin {b}
  BY <1>1, <1>6 DEF Apart
<1>13. /\ \A x \in Span : Leads(w, freeList[x], Null, F[x])
       /\ \A u \in Thread : Leads(w, list[u], Null, L[u])
       /\ \A u \in Thread : u # t => Leads(w, start[u], Null, G[u])
  BY <1>11, <1>12, Kept
<1>14. Leads(w, word[b], Null, Tail(g))
  <2>1. Leads(word, word[g[1]], Null, Tail(g))
    BY <1>4, <1>5, Rest
  <2>2. \A j \in 1 .. Len(Tail(g)) : w[Tail(g)[j]] = word[Tail(g)[j]]
    BY <1>9, <1>11
  <2> QED BY <1>5, <2>1, <2>2, Elsewhere
<1>15. PICK f : f = F[s]
  OBVIOUS
<1>16. /\ f \in Seq(Block) /\ Leads(w, freeList[s], Null, f)
       /\ \A j \in 1 .. Len(f) : f[j] \in Block /\ f[j][1] = s /\ at[f[j]] = "span" /\ f[j] # b
  <2>1. \A j \in 1 .. Len(F[s]) : F[s][j] \in Block /\ F[s][j][1] = s /\ at[F[s][j]] = "span"
    BY <1>1, <1>7, Members DEF Apart
  <2>2. F[s] \in Seq(Block)
    BY <1>7, Members
  <2> QED BY <1>7, <1>12, <1>13, <1>15, <2>1, <2>2
<1>17. /\ all \in Seq(Block) /\ Len(all) = Len(f) + 1 /\ Len(f) \in Nat
       /\ all[1] = b /\ \A j \in 1 .. Len(f) : all[j + 1] = f[j]
  BY <1>2, <1>6, <1>15, <1>16, ConsIs
<1>18. Leads(w, b, Null, all)
  <2>1. \A j \in 1 .. Len(f) : f[j] # b /\ w[f[j]] = w[f[j]]
    BY <1>16
  <2>2. Leads(w, b, Null, <<b>> \o f)
    BY <1>6, <1>11, <1>16, <2>1, Cons
  <2> QED BY <1>2, <1>15, <2>2
<1>19. \A j \in 1 .. Len(all) : all[j] \in Block /\ all[j][1] = s /\ (all[j] = b \/ at[all[j]] = "span")
  <2> TAKE j \in 1 .. Len(all)
  <2>1. CASE j = 1
    BY <1>6, <1>17, <2>1
  <2>2. CASE j # 1
    <3>1. j - 1 \in 1 .. Len(f) /\ j - 1 + 1 = j
      BY <1>17, <2>2
    <3>2. all[j] = f[j - 1]
      BY <1>17, <3>1
    <3> QED BY <1>16, <3>1, <3>2
  <2> QED BY <2>1, <2>2
<1>20. /\ Len(all) <= PerSpan
       /\ Len(all) = PerSpan => \A x \in Block : x[1] = s => \E j \in 1 .. Len(all) : all[j] = x
  <2>1. \A j, k \in 1 .. Len(all) : all[j] = all[k] => j = k
    BY <1>18 DEF Leads
  <2>2. s \in Span /\ all \in Seq(Block)
    BY <1>7, <1>17
  <2>3. \A j \in 1 .. Len(all) : all[j][1] = s
    BY <1>19
  <2> QED BY <2>1, <2>2, <2>3, Objects
<1>21. useCount[s] = PerSpan - Len(f)
  BY <1>1, <1>7, <1>15 DEF Counts
<1>22. /\ G[t] # <<>> /\ Head(G[t]) = b /\ G[t][1] = b /\ start[t] = b
       /\ Leads(w, word[b], Null, Tail(G[t])) /\ Tail(G[t]) \in Seq(Block)
       /\ \A j \in 1 .. Len(Tail(G[t])) :
             LET c == Tail(G[t])[j] IN c \in Block /\ c # b /\ at[c] = "going" /\ by[c] = t
  BY <1>3, <1>5, <1>8, <1>9, <1>14
<1>23. /\ Len(all) = Len(F[s]) + 1 /\ Len(F[s]) \in Nat /\ useCount[s] = PerSpan - Len(F[s])
  BY <1>15, <1>17, <1>21
<1>24. Given(F, L, G, at, by, where, t, b, s, w, all)
  BY <1>6, <1>7, <1>10, <1>11, <1>13, <1>17, <1>18, <1>19, <1>20, <1>22, <1>23 DEF Given
<1> QED
  BY <1>2, <1>24

\* What happens to the free objects of the span and to the bucket's ring.
Back(F, R, b, E, Q) ==
    LET s == b[1]
        all == <<b>> \o F[s]
    IN  IF Len(all) = PerSpan
        THEN /\ E = [F EXCEPT ![s] = <<>>]
             /\ \E i \in 1 .. Len(R["bucket"]) :
                   /\ R["bucket"][i] = s
                   /\ Q = [R EXCEPT !["bucket"] = Without(@, i)]
        ELSE E = [F EXCEPT ![s] = all] /\ Q = R

\* The chains after it, whichever the span has.
LEMMA GivenApart ==
    ASSUME NEW F, NEW L, NEW G, NEW R, NEW at, NEW by, NEW where,
           Sound(F, L, G, R, at, by, where), NEW t \in Thread, GiveBack(t),
           NEW b, NEW s, NEW w, NEW all, Given(F, L, G, at, by, where, t, b, s, w, all),
           word' = w, NEW c \in {<<>>, all}, freeList' = [freeList EXCEPT ![s] = IF c = <<>> THEN Null ELSE b]
    PROVE  LET E == [F EXCEPT ![s] = c]
               H == [G EXCEPT ![t] = Tail(@)]
               now == [at EXCEPT ![b] = "span"]
           IN  Chains(E, L, H)' /\ Apart(E, L, H, now, by)'
<1> DEFINE E == [F EXCEPT ![s] = c]
           H == [G EXCEPT ![t] = Tail(@)]
           now == [at EXCEPT ![b] = "span"]
<1>1. Types /\ Chains(F, L, G) /\ Apart(F, L, G, at, by)
  BY DEF Sound
<1>2. /\ b \in Block /\ s \in Span /\ at[b] = "going" /\ by[b] = t /\ start[t] = b
      /\ all \in Seq(Block) /\ Len(all) = Len(F[s]) + 1 /\ Len(F[s]) \in Nat
      /\ \A j \in 1 .. Len(all) : /\ all[j] \in Block /\ all[j][1] = s
                                  /\ all[j] = b \/ at[all[j]] = "span"
      /\ b[1] = s
  BY DEF Given
<1>3. /\ Leads(w, b, Null, all)
      /\ \A x \in Span : Leads(w, freeList[x], Null, F[x])
      /\ \A u \in Thread : Leads(w, list[u], Null, L[u])
      /\ \A u \in Thread : u # t => Leads(w, start[u], Null, G[u])
      /\ Leads(w, word[b], Null, Tail(G[t]))
  BY DEF Given
<1>4. /\ Tail(G[t]) \in Seq(Block)
      /\ \A j \in 1 .. Len(Tail(G[t])) :
            /\ Tail(G[t])[j] \in Block /\ Tail(G[t])[j] # b
            /\ at[Tail(G[t])[j]] = "going" /\ by[Tail(G[t])[j]] = t
  BY DEF Given
<1>5. all # <<>>
  BY <1>2, EmptySeq
<1>6. c \in Seq(Block)
  <2>1. <<>> \in Seq(Block)
    OBVIOUS
  <2>2. c = <<>> \/ c = all
    OBVIOUS
  <2> QED BY <1>2, <2>1, <2>2
<1>7. /\ E \in [Span -> Seq(Block)] /\ E[s] = c /\ \A x \in Span : x # s => E[x] = F[x]
      /\ H \in [Thread -> Seq(Block)] /\ H[t] = Tail(G[t]) /\ \A u \in Thread : u # t => H[u] = G[u]
      /\ now \in [Block -> Places] /\ now[b] = "span" /\ \A x \in Block : x # b => now[x] = at[x]
  BY <1>1, <1>2, <1>4, <1>6 DEF Chains, Apart, Places
<1> HIDE DEF E, H, now
<1>8. /\ list' = list /\ user' = user /\ start' = [start EXCEPT ![t] = word[b]]
  BY <1>2 DEF GiveBack, cache, Following
<1>9. /\ start'[t] = word[b] /\ \A u \in Thread : u # t => start'[u] = start[u]
      /\ freeList'[s] = (IF c = <<>> THEN Null ELSE b)
      /\ \A x \in Span : x # s => freeList'[x] = freeList[x]
  BY <1>1, <1>2, <1>8 DEF Types
<1>10. Chains(E, L, H)'
  <2>1. \A x \in Span : Leads(w, freeList'[x], Null, E[x])
    <3> TAKE x \in Span
    <3>1. CASE x # s
      <4>1. E[x] = F[x] /\ freeList'[x] = freeList[x]
        BY <1>7, <1>9, <3>1
      <4> QED BY <1>3, <4>1
    <3>2. CASE x = s /\ c = <<>>
      <4>1. E[x] = <<>> /\ freeList'[x] = Null
        BY <1>7, <1>9, <3>2
      <4> QED BY <4>1, Nothing
    <3>3. CASE x = s /\ c # <<>>
      <4>1. E[x] = all /\ freeList'[x] = b
        BY <1>7, <1>9, <3>3
      <4> QED BY <1>3, <4>1
    <3> QED BY <3>1, <3>2, <3>3
  <2>2. \A u \in Thread : Leads(w, start'[u], Null, H[u])
    <3> TAKE u \in Thread
    <3>1. CASE u = t
      <4>1. H[u] = Tail(G[t]) /\ start'[u] = word[b]
        BY <1>7, <1>9, <3>1
      <4> QED BY <1>3, <4>1
    <3>2. CASE u # t
      <4>1. H[u] = G[u] /\ start'[u] = start[u]
        BY <1>7, <1>9, <3>2
      <4> QED BY <1>3, <3>2, <4>1
    <3> QED BY <3>1, <3>2
  <2>3. L \in [Thread -> Seq(Block)]
    BY <1>1 DEF Chains
  <2> QED BY <1>3, <1>7, <1>8, <2>1, <2>2, <2>3 DEF Chains
<1>11. Apart(E, L, H, now, by)'
  <2>1. \A x \in Span : \A j \in 1 .. Len(E[x]) : E[x][j][1] = x /\ now[E[x][j]] = "span"
    <3> TAKE x \in Span
    <3> TAKE j \in 1 .. Len(E[x])
    <3>1. CASE x # s
      <4>1. E[x] = F[x] /\ F[x][j] \in Block /\ F[x][j][1] = x /\ at[F[x][j]] = "span"
        BY <1>1, <1>7, <3>1, Members DEF Apart
      <4> QED BY <1>2, <1>7, <4>1
    <3>2. CASE x = s
      <4>1. E[x] = all
        <5>1. CASE c = <<>>
          <6>1. Len(E[x]) = 0
            BY <1>7, <3>2, <5>1
          <6> QED BY <6>1
        <5>2. CASE c # <<>>
          BY <1>7, <3>2, <5>2
        <5> QED BY <5>1, <5>2
      <4>2. all[j] \in Block /\ all[j][1] = s /\ (all[j] = b \/ at[all[j]] = "span")
        BY <1>2, <4>1
      <4> QED BY <1>7, <3>2, <4>1, <4>2
    <3> QED BY <3>1, <3>2
  <2>2. \A u \in Thread : \A j \in 1 .. Len(L[u]) : now[L[u][j]] = "list" /\ by[L[u][j]] = u
    <3> TAKE u \in Thread
    <3> TAKE j \in 1 .. Len(L[u])
    <3>1. L[u][j] \in Block /\ at[L[u][j]] = "list" /\ by[L[u][j]] = u
      BY <1>1, Members DEF Apart
    <3> QED BY <1>2, <1>7, <3>1
  <2>3. \A u \in Thread : \A j \in 1 .. Len(H[u]) : now[H[u][j]] = "going" /\ by[H[u][j]] = u
    <3> TAKE u \in Thread
    <3> TAKE j \in 1 .. Len(H[u])
    <3>1. CASE u = t
      <4>1. H[u] = Tail(G[t])
        BY <1>7, <3>1
      <4>2. H[u][j] \in Block /\ H[u][j] # b /\ at[H[u][j]] = "going" /\ by[H[u][j]] = t
        BY <1>4, <4>1
      <4> QED BY <1>7, <3>1, <4>2
    <3>2. CASE u # t
      <4>1. H[u] = G[u] /\ G[u][j] \in Block /\ at[G[u][j]] = "going" /\ by[G[u][j]] = u
        BY <1>1, <1>7, <3>2, Members DEF Apart
      <4> QED BY <1>2, <1>7, <3>2, <4>1
    <3> QED BY <3>1, <3>2
  <2>4. \A x \in Block : x \in user' <=> now[x] = "user"
    <3> TAKE x \in Block
    <3>1. x \in user <=> at[x] = "user"
      BY <1>1 DEF Apart
    <3>2. CASE x = b
      BY <1>2, <1>7, <1>8, <3>1, <3>2
    <3>3. CASE x # b
      BY <1>7, <1>8, <3>1, <3>3
    <3> QED BY <3>2, <3>3
  <2>5. by \in [Block -> Thread \cup {Null}]
    BY <1>1 DEF Apart
  <2> QED BY <1>7, <2>1, <2>2, <2>3, <2>4, <2>5 DEF Apart
<1> QED
  BY <1>10, <1>11 DEF E, H, now

LEMMA GiveBackSound ==
    ASSUME NEW F, NEW L, NEW G, NEW R, NEW at, NEW by, NEW where,
           Sound(F, L, G, R, at, by, where), NEW t \in Thread, GiveBack(t)
    PROVE  /\ G[t] # <<>>
           /\ UNCHANGED <<unused, user>>
           /\ \E E, Q, there :
                 /\ Back(F, R, Head(G[t]), E, Q)
                 /\ Sound(E, L, [G EXCEPT ![t] = Tail(@)], Q, [at EXCEPT ![Head(G[t])] = "span"],
                          by, there)'
<1> DEFINE H == [G EXCEPT ![t] = Tail(@)]
<1>1. Types /\ Chains(F, L, G) /\ Apart(F, L, G, at, by) /\ Rings(R) /\ Whereabouts(R, at, where)
      /\ Counts(F, L, where) /\ Hands(F, L, G, where)
  BY DEF Sound
<1>2. PICK b : b = start[t]
  OBVIOUS
<1>3. PICK s : s = b[1]
  OBVIOUS
<1>4. PICK w, all : w = [word EXCEPT ![b] = freeList[s]] /\ all = <<b>> \o F[s]
  OBVIOUS
<1>5. Given(F, L, G, at, by, where, t, b, s, w, all)
  BY <1>2, <1>3, <1>4, GivenIs
<1> DEFINE now == [at EXCEPT ![b] = "span"]
<1>6. /\ b \in Block /\ s \in Span /\ at[b] = "going" /\ where[s] = "bucket"
      /\ G[t] # <<>> /\ Head(G[t]) = b
      /\ all \in Seq(Block) /\ Len(all) = Len(F[s]) + 1 /\ Len(F[s]) \in Nat
      /\ \A j \in 1 .. Len(all) : all[j] \in Block /\ (all[j] = b \/ at[all[j]] = "span")
  BY <1>5 DEF Given
<1>7. /\ Len(all) <= PerSpan
      /\ Len(all) = PerSpan => \A x \in Block : x[1] = s => \E j \in 1 .. Len(all) : all[j] = x
      /\ useCount[s] = PerSpan - Len(F[s])
      /\ w \in [Block -> Block \cup {Null, Data}]
      /\ word[b] \in Block \cup {Null}
      /\ Tail(G[t]) \in Seq(Block)
  BY <1>5 DEF Given
<1>8. /\ now \in [Block -> Places] /\ now[b] = "span" /\ \A x \in Block : x # b => now[x] = at[x]
      /\ H \in [Thread -> Seq(Block)] /\ \A u \in Thread : u # t => H[u] = G[u]
  BY <1>1, <1>6, <1>7 DEF Apart, Chains, Places
<1>9. /\ pc[t] = "release" /\ word' = w
      /\ start' = [start EXCEPT ![t] = word[b]]
      /\ useCount' = [useCount EXCEPT ![s] = @ - 1]
      /\ unused' = unused /\ list' = list /\ size' = size /\ maxSize' = maxSize /\ user' = user
  BY <1>2, <1>3, <1>4 DEF GiveBack, cache, Following
<1>10. useCount[s] = 1 <=> Len(all) = PerSpan
  <2>1. PerSpan \in Nat
    BY Constants
  <2> QED BY <1>6, <1>7, <2>1
<1>11. /\ useCount' \in [Span -> Int] /\ useCount'[s] = PerSpan - Len(all)
       /\ \A x \in Span : x # s => useCount'[x] = useCount[x]
       /\ start' \in [Thread -> Block \cup {Null}]
  <2>1. PerSpan \in Nat
    BY Constants
  <2>2. useCount' \in [Span -> Int] /\ useCount'[s] = useCount[s] - 1
        /\ \A x \in Span : x # s => useCount'[x] = useCount[x]
    BY <1>1, <1>6, <1>9 DEF Types
  <2>3. start' \in [Thread -> Block \cup {Null}]
    BY <1>1, <1>7, <1>9 DEF Types
  <2>4. useCount[s] - 1 = PerSpan - Len(all)
    BY <1>6, <1>7, <2>1
  <2> QED BY <2>2, <2>3, <2>4
<1>12. all # <<>>
  BY <1>6, EmptySeq
<1>13. CASE useCount[s] = 1
  <2> DEFINE E == [F EXCEPT ![s] = <<>>]
             there == [where EXCEPT ![s] = "hands"]
  <2>1. /\ links' = Erase(links, s) /\ freeList' = [freeList EXCEPT ![s] = Null]
        /\ span' = [span EXCEPT ![t] = s] /\ pc' = [pc EXCEPT ![t] = "return"]
    BY <1>2, <1>3, <1>13 DEF GiveBack
  <2>2. PICK i \in 1 .. Len(R["bucket"]) : R["bucket"][i] = s
    <3>1. where[s] \in Heads
      BY <1>6, Constants
    <3>2. \E i \in 1 .. Len(R[where[s]]) : R[where[s]][i] = s
      BY <1>1, <1>6, <3>1 DEF Whereabouts
    <3> QED BY <1>6, <3>2
  <2> DEFINE Q == [R EXCEPT !["bucket"] = Without(@, i)]
  <2>3. Rings(Q)' /\ Placed(Q, there)'
    BY <2>1, <2>2, EraseSound, Constants
  <2>4. Chains(E, L, H)' /\ Apart(E, L, H, now, by)'
    <3>1. <<>> \in {<<>>, all} /\ freeList' = [freeList EXCEPT ![s] = IF <<>> = <<>> THEN Null ELSE b]
      BY <2>1
    <3> QED BY <1>5, <1>9, <3>1, GivenApart
  <2>5. /\ there[s] = "hands" /\ \A x \in Span : x # s => there[x] = where[x]
        /\ E[s] = <<>> /\ \A x \in Span : x # s => E[x] = F[x]
    BY <1>1, <1>6 DEF Whereabouts, Chains
  <2> HIDE DEF E, H, Q, now, there
  <2>6. /\ pc' \in [Thread -> Pc] /\ pc'[t] = "return" /\ \A u \in Thread : u # t => pc'[u] = pc[u]
        /\ span' \in [Thread -> Span \cup {Null}] /\ span'[t] = s
        /\ \A u \in Thread : u # t => span'[u] = span[u]
        /\ freeList' \in [Span -> Block \cup {Null}]
    BY <1>1, <1>6, <2>1 DEF Types, Pc
  <2>7. Types'
    BY <1>1, <1>7, <1>9, <1>11, <2>3, <2>6 DEF Types, Placed
  <2>8. Whereabouts(Q, now, there)'
    <3>1. \A x \in Block : now[x] # "span" => there[x[1]] = "bucket"
      <4> TAKE x \in Block
      <4> HAVE now[x] # "span"
      <4>1. x # b /\ at[x] # "span" /\ where[x[1]] = "bucket" /\ x[1] \in Span
        BY <1>1, <1>8, Constants DEF Whereabouts
      <4>2. x[1] # s
        BY <1>6, <1>7, <1>10, <1>13, <4>1
      <4> QED BY <2>5, <4>1, <4>2
    <3>2. \A x \in Span : x \in unused' <=> there[x] = "unused"
      <4> TAKE x \in Span
      <4>1. x \in unused <=> where[x] = "unused"
        BY <1>1 DEF Whereabouts
      <4>2. CASE x = s
        BY <1>6, <1>9, <2>5, <4>1, <4>2
      <4>3. CASE x # s
        BY <1>9, <2>5, <4>1, <4>3
      <4> QED BY <4>2, <4>3
    <3> QED BY <2>3, <3>1, <3>2 DEF Whereabouts, Placed
  <2>9. Counts(E, L, there)'
    <3>1. \A x \in Span : useCount'[x] = IF there[x] = "bucket" THEN PerSpan - Len(E[x]) ELSE 0
      <4> TAKE x \in Span
      <4>1. useCount[x] = IF where[x] = "bucket" THEN PerSpan - Len(F[x]) ELSE 0
        BY <1>1 DEF Counts
      <4>2. CASE x = s
        <5>1. useCount'[s] = 0
          BY <1>10, <1>11, <1>13, Constants
        <5> QED BY <2>5, <4>2, <5>1
      <4>3. CASE x # s
        <5>1. there[x] = where[x] /\ E[x] = F[x] /\ useCount'[x] = useCount[x]
          BY <1>11, <2>5, <4>3
        <5> QED BY <4>1, <5>1
      <4> QED BY <4>2, <4>3
    <3> QED BY <1>1, <1>9, <3>1 DEF Counts
  <2>10. Hands(E, L, H, there)'
    <3>1. ASSUME NEW u \in Thread, u # t, Carrying(u)'
          PROVE  /\ Carrying(u) /\ span'[u] = span[u] /\ span[u] \in Span
                 /\ span[u] # s /\ there[span[u]] = "hands"
      <4>1. Carrying(u) /\ span'[u] = span[u]
        BY <2>6, <3>1 DEF Carrying
      <4>2. span[u] \in Span /\ where[span[u]] = "hands" /\ span[u] # s
        BY <1>1, <1>6, <4>1 DEF Hands
      <4> QED BY <2>5, <4>1, <4>2
    <3>2. \A u \in Thread : Carrying(u)' => span'[u] \in Span /\ there[span'[u]] = "hands"
      BY <1>6, <2>5, <2>6, <3>1
    <3>3. \A u, v \in Thread : Carrying(u)' /\ Carrying(v)' /\ span'[u] = span'[v] => u = v
      <4> TAKE u, v \in Thread
      <4> HAVE Carrying(u)' /\ Carrying(v)' /\ span'[u] = span'[v]
      <4>1. CASE u = t
        BY <2>6, <3>1, <4>1
      <4>2. CASE v = t
        BY <2>6, <3>1, <4>2
      <4>3. CASE u # t /\ v # t
        <5>1. Carrying(u) /\ Carrying(v) /\ span[u] = span[v]
          BY <3>1, <4>3
        <5> QED BY <1>1, <5>1 DEF Hands
      <4> QED BY <4>1, <4>2, <4>3
    <3>4. \A u \in Thread : pc'[u] = "new" => L[u] = <<>> /\ Len(E[span'[u]]) = PerSpan
      <4> TAKE u \in Thread
      <4> HAVE pc'[u] = "new"
      <4>1. u # t /\ Carrying(u)'
        BY <2>6 DEF Carrying
      <4>2. pc[u] = "new" /\ span'[u] = span[u] /\ span[u] \in Span /\ span[u] # s
        BY <2>6, <3>1, <4>1
      <4>3. L[u] = <<>> /\ Len(F[span[u]]) = PerSpan
        BY <1>1, <4>2 DEF Hands
      <4> QED BY <2>5, <4>2, <4>3
    <3>5. \A u \in Thread : pc'[u] \in {"idle", "new"} => H[u] = <<>>
      BY <1>1, <1>8, <2>6 DEF Hands
    <3> QED BY <3>2, <3>3, <3>4, <3>5 DEF Hands
  <2>11. Sound(E, L, H, Q, now, by, there)'
    BY <2>3, <2>4, <2>7, <2>8, <2>9, <2>10 DEF Sound
  <2>12. Back(F, R, b, E, Q)
    BY <1>3, <1>4, <1>10, <1>13, <2>2 DEF Back, E, Q
  <2>13. \E X, Y, Z : Back(F, R, b, X, Y) /\ Sound(X, L, H, Y, now, by, Z)'
    BY <2>11, <2>12
  <2> QED BY <1>6, <1>9, <2>13 DEF H, now
<1>14. CASE useCount[s] # 1
  <2> DEFINE E == [F EXCEPT ![s] = all]
  <2>1. /\ links' = links /\ freeList' = [freeList EXCEPT ![s] = b]
        /\ span' = span /\ pc' = pc
    BY <1>2, <1>3, <1>14 DEF GiveBack
  <2>2. Chains(E, L, H)' /\ Apart(E, L, H, now, by)'
    <3>1. all \in {<<>>, all} /\ freeList' = [freeList EXCEPT ![s] = IF all = <<>> THEN Null ELSE b]
      BY <1>12, <2>1
    <3> QED BY <1>5, <1>9, <3>1, GivenApart
  <2>3. E[s] = all /\ \A x \in Span : x # s => E[x] = F[x]
    BY <1>1, <1>6 DEF Chains
  <2> HIDE DEF E, H, now
  <2>4. freeList' \in [Span -> Block \cup {Null}]
    BY <1>1, <1>6, <2>1 DEF Types
  <2>5. Types'
    BY <1>1, <1>7, <1>9, <1>11, <2>1, <2>4 DEF Types
  <2>6. Rings(R)'
    BY <1>1, <2>1 DEF Rings
  <2>7. Whereabouts(R, now, where)'
    <3>1. \A x \in Block : now[x] # "span" => where[x[1]] = "bucket"
      BY <1>1, <1>8 DEF Whereabouts
    <3> QED BY <1>1, <1>9, <2>1, <3>1 DEF Whereabouts
  <2>8. Counts(E, L, where)'
    <3>1. \A x \in Span : useCount'[x] = IF where[x] = "bucket" THEN PerSpan - Len(E[x]) ELSE 0
      <4> TAKE x \in Span
      <4>1. useCount[x] = IF where[x] = "bucket" THEN PerSpan - Len(F[x]) ELSE 0
        BY <1>1 DEF Counts
      <4>2. CASE x = s
        BY <1>6, <1>11, <2>3, <4>2
      <4>3. CASE x # s
        <5>1. E[x] = F[x] /\ useCount'[x] = useCount[x]
          BY <1>11, <2>3, <4>3
        <5> QED BY <4>1, <5>1
      <4> QED BY <4>2, <4>3
    <3> QED BY <1>1, <1>9, <3>1 DEF Counts
  <2>9. Hands(E, L, H, where)'
    <3>1. \A u \in Thread : pc[u] = "new" => L[u] = <<>> /\ Len(E[span[u]]) = PerSpan
      <4> TAKE u \in Thread
      <4> HAVE pc[u] = "new"
      <4>1. L[u] = <<>> /\ Len(F[span[u]]) = PerSpan /\ span[u] \in Span /\ where[span[u]] = "hands"
        BY <1>1 DEF Hands, Carrying
      <4>2. span[u] # s
        BY <1>6, <4>1
      <4> QED BY <2>3, <4>1, <4>2
    <3>2. \A u \in Thread : pc[u] \in {"idle", "new"} => H[u] = <<>>
      BY <1>1, <1>8, <1>9 DEF Hands
    <3> QED BY <1>1, <2>1, <3>1, <3>2 DEF Hands, Carrying
  <2>10. Sound(E, L, H, R, now, by, where)'
    BY <2>2, <2>5, <2>6, <2>7, <2>8, <2>9 DEF Sound
  <2>11. Back(F, R, b, E, R)
    BY <1>3, <1>4, <1>10, <1>14 DEF Back, E
  <2>12. \E X, Y, Z : Back(F, R, b, X, Y) /\ Sound(X, L, H, Y, now, by, Z)'
    BY <2>10, <2>11
  <2> QED BY <1>6, <1>9, <2>12 DEF H, now
<1> QED
  BY <1>13, <1>14

LEMMA GiveBackRefines ==
    ASSUME IInv, NEW t \in Thread, GiveBack(t)
    PROVE  IInv' /\ Abstract!ListsNext
<1>1. PICK F, L, G, R, at, by, where : Sound(F, L, G, R, at, by, where)
  BY DEF IInv
<1> DEFINE H == [G EXCEPT ![t] = Tail(@)]
           now == [at EXCEPT ![Head(G[t])] = "span"]
<1>2. /\ G[t] # <<>> /\ UNCHANGED <<unused, user>>
      /\ \E E, Q, there : Back(F, R, Head(G[t]), E, Q) /\ Sound(E, L, H, Q, now, by, there)'
  BY <1>1, GiveBackSound
<1>3. PICK E, Q, there : Back(F, R, Head(G[t]), E, Q) /\ Sound(E, L, H, Q, now, by, there)'
  BY <1>2
<1>4. H = [G EXCEPT ![t] = Tail(G[t])]
  OBVIOUS
<1> HIDE DEF H, now
<1>5. F = FreeOf /\ L = ListOf /\ G = GoingOf /\ R = RingOf
  BY <1>1, Reading
<1>6. E = FreeOf' /\ L = ListOf' /\ H = GoingOf' /\ Q = RingOf'
  <2>1. Sound(E, L, H, Q, now, by, there)'
    BY <1>3
  <2> QED BY <2>1, ReadingOn
<1>7. DOMAIN RingOf["bucket"] = 1 .. Len(RingOf["bucket"])
  <2>1. R["bucket"] \in Seq(Span)
    BY <1>1, Members, Constants
  <2> QED BY <1>5, <2>1, LenProperties
<1>8. Back(FreeOf, RingOf, Head(GoingOf[t]), FreeOf', RingOf')
  BY <1>3, <1>5, <1>6
<1>9. GoingOf[t] # <<>> /\ GoingOf' = [GoingOf EXCEPT ![t] = Tail(GoingOf[t])]
      /\ ListOf' = ListOf
  BY <1>2, <1>4, <1>5, <1>6
<1>10. Abstract!GiveBack(t)
  BY <1>2, <1>7, <1>8, <1>9 DEF Abstract!GiveBack, Abstract!RemoveAt, Back, Without
<1>11. Abstract!ListsNext
  BY <1>10 DEF Abstract!ListsNext
<1>12. IInv'
  BY <1>3 DEF IInv
<1> QED
  BY <1>11, <1>12

LEMMA ReturnSound ==
    ASSUME NEW F, NEW L, NEW G, NEW R, NEW at, NEW by, NEW where,
           Sound(F, L, G, R, at, by, where), NEW t \in Thread, Return(t), NEW s, s = span[t]
    PROVE  /\ s \in Span /\ where[s] = "hands"
           /\ UNCHANGED <<unused, user>>
           /\ \E there : Sound(F, L, G, [R EXCEPT !["pages"] = <<s>> \o @], at, by, there)'
<1>1. Types /\ Chains(F, L, G) /\ Apart(F, L, G, at, by) /\ Rings(R) /\ Whereabouts(R, at, where)
      /\ Counts(F, L, where) /\ Hands(F, L, G, where)
  BY DEF Sound
<1>3. pc[t] = "return" /\ s \in Span /\ where[s] = "hands"
  BY <1>1 DEF Return, Hands, Carrying
<1> DEFINE Q == [R EXCEPT !["pages"] = <<s>> \o @]
           there == [where EXCEPT ![s] = "pages"]
<1>4. /\ links' = PushFront(links, "pages", s)
      /\ span' = [span EXCEPT ![t] = Null] /\ pc' = [pc EXCEPT ![t] = "release"]
      /\ unused' = unused /\ freeList' = freeList /\ useCount' = useCount /\ word' = word
      /\ list' = list /\ size' = size /\ maxSize' = maxSize /\ user' = user /\ start' = start
  BY DEF Return, cache
<1>5. Rings(Q)' /\ Placed(Q, there)'
  BY <1>3, <1>4, PushFrontSound, Constants
<1>6. there[s] = "pages" /\ \A x \in Span : x # s => there[x] = where[x]
  BY <1>1, <1>3 DEF Whereabouts
<1> HIDE DEF Q, there
<1>7. /\ pc' \in [Thread -> Pc] /\ pc'[t] = "release" /\ \A u \in Thread : u # t => pc'[u] = pc[u]
      /\ span' \in [Thread -> Span \cup {Null}]
      /\ \A u \in Thread : u # t => span'[u] = span[u]
  BY <1>1, <1>4 DEF Types, Pc
<1>8. Types'
  BY <1>1, <1>4, <1>5, <1>7 DEF Types, Placed
<1>9. Chains(F, L, G)' /\ Apart(F, L, G, at, by)'
  BY <1>1, <1>4 DEF Chains, Apart
<1>10. Whereabouts(Q, at, there)'
  <2>1. \A x \in Block : at[x] # "span" => there[x[1]] = "bucket"
    <3> TAKE x \in Block
    <3> HAVE at[x] # "span"
    <3>1. where[x[1]] = "bucket" /\ x[1] \in Span
      BY <1>1, Constants DEF Whereabouts
    <3> QED BY <1>3, <1>6, <3>1
  <2>2. \A x \in Span : x \in unused' <=> there[x] = "unused"
    <3> TAKE x \in Span
    <3>1. x \in unused <=> where[x] = "unused"
      BY <1>1 DEF Whereabouts
    <3>2. CASE x = s
      BY <1>3, <1>4, <1>6, <3>1, <3>2
    <3>3. CASE x # s
      BY <1>4, <1>6, <3>1, <3>3
    <3> QED BY <3>2, <3>3
  <2> QED BY <1>5, <2>1, <2>2 DEF Whereabouts, Placed
<1>11. Counts(F, L, there)'
  <2>1. \A x \in Span : useCount[x] = IF there[x] = "bucket" THEN PerSpan - Len(F[x]) ELSE 0
    <3> TAKE x \in Span
    <3>1. useCount[x] = IF where[x] = "bucket" THEN PerSpan - Len(F[x]) ELSE 0
      BY <1>1 DEF Counts
    <3>2. CASE x = s
      BY <1>3, <1>6, <3>1, <3>2
    <3>3. CASE x # s
      BY <1>6, <3>1, <3>3
    <3> QED BY <3>2, <3>3
  <2> QED BY <1>1, <1>4, <2>1 DEF Counts
<1>12. Hands(F, L, G, there)'
  <2>1. ASSUME NEW u \in Thread, Carrying(u)'
        PROVE  /\ u # t /\ Carrying(u) /\ span'[u] = span[u] /\ span[u] \in Span
               /\ there[span[u]] = "hands"
    <3>1. u # t /\ Carrying(u) /\ span'[u] = span[u]
      BY <1>7, <2>1 DEF Carrying
    <3>2. Carrying(t)
      BY <1>3 DEF Carrying
    <3>3. span[u] \in Span /\ where[span[u]] = "hands" /\ span[u] # s
      BY <1>1, <3>1, <3>2 DEF Hands
    <3> QED BY <1>6, <3>1, <3>3
  <2>2. \A u \in Thread : Carrying(u)' => span'[u] \in Span /\ there[span'[u]] = "hands"
    BY <2>1
  <2>3. \A u, v \in Thread : Carrying(u)' /\ Carrying(v)' /\ span'[u] = span'[v] => u = v
    BY <1>1, <2>1 DEF Hands
  <2>4. \A u \in Thread : pc'[u] = "new" => L[u] = <<>> /\ Len(F[span'[u]]) = PerSpan
    BY <1>1, <1>7 DEF Hands
  <2>5. \A u \in Thread : pc'[u] \in {"idle", "new"} => G[u] = <<>>
    BY <1>1, <1>7 DEF Hands
  <2> QED BY <2>2, <2>3, <2>4, <2>5 DEF Hands
<1>13. Sound(F, L, G, Q, at, by, there)'
  BY <1>5, <1>8, <1>9, <1>10, <1>11, <1>12 DEF Sound
<1>14. \E Z : Sound(F, L, G, Q, at, by, Z)'
  BY <1>13
<1>15. \E Z : Sound(F, L, G, [R EXCEPT !["pages"] = <<s>> \o @], at, by, Z)'
  BY <1>14 DEF Q
<1> QED
  BY <1>3, <1>4, <1>15

LEMMA ReturnRefines ==
    ASSUME IInv, NEW t \in Thread, Return(t)
    PROVE  IInv' /\ Abstract!ListsNext
<1>1. PICK F, L, G, R, at, by, where : Sound(F, L, G, R, at, by, where)
  BY DEF IInv
<1>2. PICK s : s = span[t]
  OBVIOUS
<1> DEFINE Q == [R EXCEPT !["pages"] = <<s>> \o @]
<1>3. s \in Span /\ where[s] = "hands" /\ UNCHANGED <<unused, user>>
      /\ \E there : Sound(F, L, G, Q, at, by, there)'
  BY <1>1, <1>2, ReturnSound
<1>4. PICK there : Sound(F, L, G, Q, at, by, there)'
  BY <1>3
<1>5. Q = [R EXCEPT !["pages"] = <<s>> \o R["pages"]]
  OBVIOUS
<1> HIDE DEF Q
<1>6. F = FreeOf /\ L = ListOf /\ G = GoingOf /\ R = RingOf
  BY <1>1, Reading
<1>7. F = FreeOf' /\ L = ListOf' /\ G = GoingOf' /\ Q = RingOf'
  BY <1>4, ReadingOn
<1>8. Abstract!Nowhere(s)
  BY <1>1, <1>3, InHandsNowhere
<1>9. Abstract!Return(s)
  BY <1>3, <1>5, <1>6, <1>7, <1>8 DEF Abstract!Return
<1>10. Abstract!ListsNext
  BY <1>3, <1>9 DEF Abstract!ListsNext
<1>11. IInv'
  BY <1>4 DEF IInv
<1> QED
  BY <1>10, <1>11

\* Where no list changes.
LEMMA ReleasedRefines ==
    ASSUME IInv, NEW t \in Thread, Released(t)
    PROVE  IInv' /\ UNCHANGED Abstract!vars
<1>1. PICK F, L, G, R, at, by, where : Sound(F, L, G, R, at, by, where)
  BY DEF IInv
<1>2. Types /\ Chains(F, L, G) /\ Apart(F, L, G, at, by) /\ Rings(R) /\ Whereabouts(R, at, where)
      /\ Counts(F, L, where) /\ Hands(F, L, G, where)
  BY <1>1 DEF Sound
<1>3. /\ start[t] = Null /\ pc' = [pc EXCEPT ![t] = "idle"]
      /\ links' = links /\ unused' = unused /\ freeList' = freeList /\ useCount' = useCount
      /\ word' = word /\ list' = list /\ size' = size /\ maxSize' = maxSize /\ user' = user
      /\ start' = start /\ span' = span
  BY DEF Released, cache
<1>4. G[t] = <<>>
  <2>1. G[t] \in Seq(Block) /\ Leads(word, start[t], Null, G[t])
    BY <1>2 DEF Chains
  <2> QED BY <1>3, <2>1, Empty, Constants
<1>5. pc' \in [Thread -> Pc] /\ pc'[t] = "idle" /\ \A u \in Thread : u # t => pc'[u] = pc[u]
  BY <1>2, <1>3 DEF Types, Pc
<1>6. Types'
  BY <1>2, <1>3, <1>5 DEF Types
<1>7. Chains(F, L, G)' /\ Apart(F, L, G, at, by)' /\ Rings(R)'
  BY <1>2, <1>3 DEF Chains, Apart, Rings
<1>8. Whereabouts(R, at, where)' /\ Counts(F, L, where)'
  BY <1>2, <1>3 DEF Whereabouts, Counts
<1>9. Hands(F, L, G, where)'
  <2>1. \A u \in Thread : Carrying(u)' => Carrying(u)
    BY <1>5 DEF Carrying
  <2>2. \A u \in Thread : pc'[u] = "new" => L[u] = <<>> /\ Len(F[span[u]]) = PerSpan
    BY <1>2, <1>5 DEF Hands
  <2>3. \A u \in Thread : pc'[u] \in {"idle", "new"} => G[u] = <<>>
    BY <1>2, <1>4, <1>5 DEF Hands
  <2> QED BY <1>2, <1>3, <2>1, <2>2, <2>3 DEF Hands
<1>10. Sound(F, L, G, R, at, by, where)'
  BY <1>6, <1>7, <1>8, <1>9 DEF Sound
<1>11. F = FreeOf /\ L = ListOf /\ G = GoingOf /\ R = RingOf
  BY <1>1, Reading
<1>12. F = FreeOf' /\ L = ListOf' /\ G = GoingOf' /\ R = RingOf'
  BY <1>10, ReadingOn
<1> QED
  BY <1>3, <1>10, <1>11, <1>12 DEF IInv, Abstract!vars

LEMMA Unmoved ==
    ASSUME IInv, UNCHANGED vars
    PROVE  IInv' /\ UNCHANGED Abstract!vars
<1>1. PICK F, L, G, R, at, by, where : Sound(F, L, G, R, at, by, where)
  BY DEF IInv
<1>2. Types /\ Chains(F, L, G) /\ Apart(F, L, G, at, by) /\ Rings(R) /\ Whereabouts(R, at, where)
      /\ Counts(F, L, where) /\ Hands(F, L, G, where)
  BY <1>1 DEF Sound
<1>3. /\ pc' = pc
      /\ links' = links /\ unused' = unused /\ freeList' = freeList /\ useCount' = useCount
      /\ word' = word /\ list' = list /\ size' = size /\ maxSize' = maxSize /\ user' = user
      /\ start' = start /\ span' = span
  BY DEF vars, central, cache, locals
<1>4. Types' /\ Chains(F, L, G)' /\ Apart(F, L, G, at, by)' /\ Rings(R)'
  BY <1>2, <1>3 DEF Types, Chains, Apart, Rings
<1>5. Whereabouts(R, at, where)' /\ Counts(F, L, where)' /\ Hands(F, L, G, where)'
  BY <1>2, <1>3 DEF Whereabouts, Counts, Hands, Carrying
<1>6. Sound(F, L, G, R, at, by, where)'
  BY <1>4, <1>5 DEF Sound
<1>7. F = FreeOf /\ L = ListOf /\ G = GoingOf /\ R = RingOf
  BY <1>1, Reading
<1>8. F = FreeOf' /\ L = ListOf' /\ G = GoingOf' /\ R = RingOf'
  BY <1>6, ReadingOn
<1> QED
  BY <1>3, <1>6, <1>7, <1>8 DEF IInv, Abstract!vars

-----------------------------------------------------------------------------
(* What follows.                                                             *)

LEMMA NextRefines ==
    ASSUME IInv, [Next]_vars
    PROVE  IInv' /\ [Abstract!ListsNext]_(Abstract!vars)
<1>1. CASE UNCHANGED vars
  BY <1>1, Unmoved
<1>2. CASE Next
  <2>1. PICK t \in Thread : Step(t)
    BY <1>2 DEF Next
  <2>2. CASE Pop(t)
    BY <2>2, PopRefines
  <2>3. CASE Fetch(t)
    BY <2>3, FetchRefines
  <2>4. CASE Carve(t)
    BY <2>4, CarveRefines
  <2>5. CASE FetchNew(t)
    BY <2>5, FetchNewRefines
  <2>6. CASE \E b \in user : Free(t, b)
    BY <2>6, FreeRefines
  <2>7. CASE GiveBack(t)
    BY <2>7, GiveBackRefines
  <2>8. CASE Return(t)
    BY <2>8, ReturnRefines
  <2>9. CASE Released(t)
    BY <2>9, ReleasedRefines
  <2> QED BY <2>1, <2>2, <2>3, <2>4, <2>5, <2>6, <2>7, <2>8, <2>9 DEF Step
<1> QED
  BY <1>1, <1>2

LEMMA InitRefines ==
    ASSUME Init
    PROVE  Abstract!ListsInit
<1>1. PICK F, L, G, R, at, by, where : Sound(F, L, G, R, at, by, where)
  BY InitIInv DEF IInv
<1>2. F = FreeOf /\ L = ListOf /\ G = GoingOf /\ R = RingOf
  BY <1>1, Reading
<1>3. /\ \A s \in Span : F[s] \in Seq(Block) /\ Leads(word, Null, Null, F[s])
      /\ \A t \in Thread : L[t] \in Seq(Block) /\ Leads(word, Null, Null, L[t])
      /\ \A t \in Thread : G[t] \in Seq(Block) /\ Leads(word, Null, Null, G[t])
  BY <1>1 DEF Sound, Chains, Init
<1>4. /\ \A s \in Span : F[s] = <<>>
      /\ \A t \in Thread : L[t] = <<>>
      /\ \A t \in Thread : G[t] = <<>>
  BY <1>3, Empty, Constants
<1>5. \A h \in Heads : R[h] = <<>>
  <2> TAKE h \in Heads
  <2>1. R[h] \in Seq(Span) /\ Leads(links.next, h, h, R[h]) /\ h \notin Span
    BY <1>1, Constants DEF Sound, Rings, Init
  <2> QED BY <2>1, Empty
<1>6. /\ FreeOf = [s \in Span |-> <<>>]
      /\ ListOf = [t \in Thread |-> <<>>]
      /\ GoingOf = [t \in Thread |-> <<>>]
      /\ RingOf = [h \in {"bucket", "pages"} |-> <<>>]
  <2>1. /\ F \in [Span -> Seq(Block)] /\ L \in [Thread -> Seq(Block)] /\ G \in [Thread -> Seq(Block)]
        /\ R \in [Heads -> Seq(Span)]
    BY <1>1 DEF Sound, Chains, Rings
  <2> QED BY <1>2, <1>4, <1>5, <2>1 DEF Heads
<1> QED
  BY <1>6 DEF Init, Abstract!ListsInit

\* The pointers always stand for lists that are apart, and the counters count them:
\* what CentralCache.cpp and Common.h keep up under the locks, from the first call on.
THEOREM Invariance == Spec => []IInv
<1>1. IInv /\ [Next]_vars => IInv'
  BY NextRefines
<1> QED
  BY <1>1, InitIInv, PTL DEF Spec

\* The rings and chains implement sequences of spans and of objects: a pop gives the
\* last object pushed, a batch is the front of a span's list, and a span goes back to
\* PageCache exactly when its last object comes back (CentralCache.cpp:75-109).
THEOREM Refinement == Spec => ImplementsLists
<1>1. IInv /\ [Next]_vars => [Abstract!ListsNext]_(Abstract!vars)
  BY NextRefines
<1>2. Init => Abstract!ListsInit
  BY InitRefines
<1> QED
  BY <1>1, <1>2, Invariance, PTL DEF Spec, ImplementsLists, Abstract!ListsSpec

LEMMA IInvRings == IInv => RingsClosed
<1> SUFFICES ASSUME IInv PROVE RingsClosed
  OBVIOUS
<1>1. PICK F, L, G, R, at, by, where : Sound(F, L, G, R, at, by, where)
  BY DEF IInv
<1>2. \A x, y \in Span \cup Heads : links.next[x] = y <=> links.prev[y] = x
  BY <1>1 DEF Sound, Rings
<1>3. ASSUME NEW h \in Heads, Begin(links, h) # h
      PROVE  Ring(h) # <<>> /\ links.next[Ring(h)[Len(Ring(h))]] = h
  <2>1. PICK c : c = R[h]
    OBVIOUS
  <2>2. R = RingOf
    BY <1>1, Reading
  <2>3. Ring(h) = c
    BY <2>1, <2>2 DEF RingOf
  <2>4. c \in Seq(Span) /\ Leads(links.next, links.next[h], h, c) /\ h \notin Span
    BY <1>1, <2>1, Constants DEF Sound, Rings
  <2>5. c # <<>> /\ Len(c) \in Nat \ {0}
    BY <1>3, <2>4, Empty DEF Begin
  <2>6. Len(c) \in 1 .. Len(c) /\ ~(Len(c) + 1 <= Len(c))
    BY <2>5
  <2>7. links.next[c[Len(c)]] = h
    BY <2>4, <2>6 DEF Leads, Nth
  <2> QED BY <2>3, <2>5, <2>7
<1> QED
  BY <1>2, <1>3 DEF RingsClosed

LEMMA IInvCounted == IInv => Counted
<1> SUFFICES ASSUME IInv PROVE Counted
  OBVIOUS
<1>1. PICK F, L, G, R, at, by, where : Sound(F, L, G, R, at, by, where)
  BY DEF IInv
<1>2. F = FreeOf /\ L = ListOf /\ R = RingOf
  BY <1>1, Reading
<1>3. \A t \in Thread : size[t] = Len(Chain(list[t])) /\ size[t] <= maxSize[t]
  <2> TAKE t \in Thread
  <2>1. size[t] = Len(L[t]) /\ size[t] < maxSize[t] /\ Len(L[t]) \in Nat /\ maxSize[t] \in Nat
    BY <1>1, Members DEF Sound, Counts, Types
  <2>2. L[t] = Chain(list[t])
    BY <1>2 DEF ListOf
  <2> QED BY <2>1, <2>2
<1>4. ASSUME NEW s \in Span PROVE InBucket(s) <=> where[s] = "bucket"
  <2>1. PICK c : c = R["bucket"]
    OBVIOUS
  <2>2. Ring("bucket") = c
    BY <1>2, <2>1, Constants DEF RingOf
  <2>3. DOMAIN c = 1 .. Len(c)
    <3>1. c \in Seq(Span)
      BY <1>1, <2>1, Members, Constants
    <3> QED BY <3>1, LenProperties
  <2>4. Whereabouts(R, at, where) /\ "bucket" \in Heads
    BY <1>1, Constants DEF Sound
  <2>5. where[s] = "bucket" => \E i \in 1 .. Len(c) : c[i] = s
    <3> HAVE where[s] = "bucket"
    <3>1. \E i \in 1 .. Len(R[where[s]]) : R[where[s]][i] = s
      BY <2>4 DEF Whereabouts
    <3> QED BY <2>1, <3>1
  <2>6. \A i \in 1 .. Len(c) : where[c[i]] = "bucket"
    BY <2>1, <2>4 DEF Whereabouts
  <2> QED BY <2>2, <2>3, <2>5, <2>6 DEF InBucket
<1>5. \A s \in Span : useCount[s] = IF InBucket(s) THEN PerSpan - Len(Chain(freeList[s])) ELSE 0
  <2> TAKE s \in Span
  <2>1. useCount[s] = IF where[s] = "bucket" THEN PerSpan - Len(F[s]) ELSE 0
    BY <1>1 DEF Sound, Counts
  <2>2. F[s] = Chain(freeList[s])
    BY <1>2 DEF FreeOf
  <2> QED BY <1>4, <2>1, <2>2
<1> QED
  BY <1>3, <1>5 DEF Counted

\* Both rings always close, and read backwards they are themselves turned around, so
\* that Erase unlinks a span knowing nothing but the span (Common.h:365-373).
THEOREM Closure == Spec => []RingsClosed
  BY Invariance, IInvRings, PTL

\* _size is the length of the list PopRange walks (Common.h:150-169), and _useCount is
\* the objects of a span that are out, on the bucket's ring (CentralCache.cpp:89-92).
THEOREM Counting == Spec => []Counted
  BY Invariance, IInvCounted, PTL

\* The free objects of a span, the list of a thread, what it gives back and what users
\* have: an object is in one of them at most, and in a chain once.
On(c) == {c[i] : i \in DOMAIN c}
Once(c) == \A i, j \in 1 .. Len(c) : c[i] = c[j] => i = j
NeverTwice ==
    /\ \A s \in Span : \A b \in On(FreeOf[s]) : b[1] = s /\ b \notin user
    /\ \A t \in Thread : \A b \in On(ListOf[t]) \cup On(GoingOf[t]) :
          b \notin user /\ \A s \in Span : b \notin On(FreeOf[s])
    /\ \A t, u \in Thread : On(ListOf[t]) \cap On(GoingOf[u]) = {}
    /\ \A t, u \in Thread : t # u =>
          On(ListOf[t]) \cap On(ListOf[u]) = {} /\ On(GoingOf[t]) \cap On(GoingOf[u]) = {}
    /\ \A s \in Span : Once(FreeOf[s])
    /\ \A t \in Thread : Once(ListOf[t]) /\ Once(GoingOf[t])

LEMMA IInvNeverTwice == IInv => NeverTwice
<1> SUFFICES ASSUME IInv PROVE NeverTwice
  OBVIOUS
<1>1. PICK F, L, G, R, at, by, where : Sound(F, L, G, R, at, by, where)
  BY DEF IInv
<1>2. F = FreeOf /\ L = ListOf /\ G = GoingOf
  BY <1>1, Reading
<1>3. /\ \A s \in Span : DOMAIN F[s] = 1 .. Len(F[s])
      /\ \A t \in Thread : DOMAIN L[t] = 1 .. Len(L[t]) /\ DOMAIN G[t] = 1 .. Len(G[t])
  BY <1>1, Members, LenProperties
<1>4. /\ \A s \in Span : \A b \in On(F[s]) : b \in Block /\ b[1] = s /\ at[b] = "span"
      /\ \A t \in Thread : \A b \in On(L[t]) : b \in Block /\ at[b] = "list" /\ by[b] = t
      /\ \A t \in Thread : \A b \in On(G[t]) : b \in Block /\ at[b] = "going" /\ by[b] = t
  BY <1>1, <1>3, Members DEF On, Sound, Apart
<1>5. \A b \in Block : b \in user => at[b] = "user"
  BY <1>1 DEF Sound, Apart
<1>6. (\A s \in Span : Once(F[s])) /\ \A t \in Thread : Once(L[t]) /\ Once(G[t])
  BY <1>1 DEF Sound, Chains, Leads, Once
<1>7. /\ \A s \in Span : \A b \in On(F[s]) : b[1] = s /\ b \notin user
      /\ \A t \in Thread : \A b \in On(L[t]) \cup On(G[t]) :
            b \notin user /\ \A s \in Span : b \notin On(F[s])
  BY <1>4, <1>5
<1>8. /\ \A t, u \in Thread : On(L[t]) \cap On(G[u]) = {}
      /\ \A t, u \in Thread : t # u => On(L[t]) \cap On(L[u]) = {} /\ On(G[t]) \cap On(G[u]) = {}
  BY <1>4
<1> QED
  BY <1>2, <1>6, <1>7, <1>8 DEF NeverTwice

\* No object is on two chains, on one twice, or free while a user has it: the links lie
\* in memory that is handed out (NextObj, Common.h:105-109), so what two lists shared
\* would be written by a user and walked by a thread.
THEOREM Disjointness == Spec => []NeverTwice
  BY Invariance, IInvNeverTwice, PTL

\* _size and _useCount are size_t.
Unwrapped ==
    /\ \A t \in Thread : size[t] \in Nat
    /\ \A s \in Span : useCount[s] \in 0 .. PerSpan
    /\ \A t \in Thread : pc[t] = "release" /\ start[t] # Null => useCount[start[t][1]] >= 1

LEMMA IInvUnwrapped == IInv => Unwrapped
<1> SUFFICES ASSUME IInv PROVE Unwrapped
  OBVIOUS
<1>1. PICK F, L, G, R, at, by, where : Sound(F, L, G, R, at, by, where)
  BY DEF IInv
<1>2. \A t \in Thread : size[t] \in Nat
  BY <1>1, Members DEF Sound, Counts
<1>3. ASSUME NEW s \in Span
      PROVE  /\ useCount[s] \in 0 .. PerSpan
             /\ where[s] = "bucket" => useCount[s] = PerSpan - Len(F[s])
             /\ Len(F[s]) \in Nat /\ PerSpan \in Nat
             /\ Len(F[s]) <= PerSpan
             /\ Len(F[s]) = PerSpan =>
                   \A b \in Block : b[1] = s => \E j \in 1 .. Len(F[s]) : F[s][j] = b
  <2>1. useCount[s] = IF where[s] = "bucket" THEN PerSpan - Len(F[s]) ELSE 0
    BY <1>1 DEF Sound, Counts
  <2>2. /\ \A j, k \in 1 .. Len(F[s]) : F[s][j] = F[s][k] => j = k
        /\ \A j \in 1 .. Len(F[s]) : F[s][j][1] = s
    BY <1>1 DEF Sound, Chains, Apart, Leads
  <2>3. F[s] \in Seq(Block) /\ Len(F[s]) \in Nat
    BY <1>1, Members
  <2>4. /\ Len(F[s]) <= PerSpan
        /\ Len(F[s]) = PerSpan =>
              \A b \in Block : b[1] = s => \E j \in 1 .. Len(F[s]) : F[s][j] = b
    BY <2>2, <2>3, Objects
  <2>5. PerSpan \in Nat
    BY Constants
  <2>6. useCount[s] \in 0 .. PerSpan
    BY <2>1, <2>3, <2>4, <2>5
  <2> QED BY <2>1, <2>3, <2>4, <2>5, <2>6
<1>4. ASSUME NEW t \in Thread, start[t] # Null PROVE useCount[start[t][1]] >= 1
  <2>1. PICK b : b = start[t]
    OBVIOUS
  <2>2. G[t] \in Seq(Block) /\ Leads(word, b, Null, G[t])
    BY <1>1, <2>1 DEF Sound, Chains
  <2>3. G[t] # <<>> /\ Len(G[t]) \in Nat \ {0} /\ b = G[t][1] /\ b \in Block
    BY <1>4, <2>1, <2>2, Empty, Constants
  <2>4. 1 \in 1 .. Len(G[t])
    BY <2>3
  <2>5. at[b] = "going"
    BY <1>1, <2>3, <2>4 DEF Sound, Apart
  <2>6. b[1] \in Span /\ where[b[1]] = "bucket"
    BY <1>1, <2>3, <2>5, Constants DEF Sound, Whereabouts
  <2>7. \A j \in 1 .. Len(F[b[1]]) : F[b[1]][j] # b
    BY <1>1, <2>5, <2>6 DEF Sound, Apart
  <2>8. Len(F[b[1]]) # PerSpan
    BY <1>3, <2>3, <2>6, <2>7
  <2>9. PICK n \in Nat : n = Len(F[b[1]])
    BY <1>3, <2>6
  <2>10. useCount[b[1]] = PerSpan - n /\ n <= PerSpan /\ n # PerSpan /\ PerSpan \in Nat
    BY <1>3, <2>6, <2>8, <2>9
  <2> QED BY <2>1, <2>10
<1> QED
  BY <1>2, <1>3, <1>4 DEF Unwrapped

\* Neither counter ever goes below zero (Common.h:128, 168, CentralCache.cpp:89), and no
\* span counts more objects out than it was cut into.
THEOREM NoWrap == Spec => []Unwrapped
  BY Invariance, IInvUnwrapped, PTL

-----------------------------------------------------------------------------
(* The contract of the program.                                              *)

\* An object is handed out again only when it is back, and Links keeps no other
\* account of that than its pointers: two objects overlap when they are the same.
Overlapping(a, b) == a = b
Contract == INSTANCE Malloc WITH
    live <- user, out <- Cardinality(user), Overlaps <- Overlapping

\* What is handed out was at nobody's.
LEMMA HandsOut ==
    ASSUME IInv, NEW b \in Block, b \notin user, user' = user \cup {b}
    PROVE  Contract!MallocNext
<1>1. IsFiniteSet(user)
  <2>1. user \subseteq Block
    BY DEF IInv, Sound, Types
  <2> QED BY <2>1, FS_Subset, Constants
<1>2. Cardinality(user') = Cardinality(user) + 1
  BY <1>1, FS_AddElement
<1>3. \A x \in user : ~Overlapping(x, b)
  BY DEF Overlapping
<1>4. Contract!Alloc(b)
  BY <1>2, <1>3 DEF Contract!Alloc
<1>5. b \in user \cup user'
  OBVIOUS
<1> QED
  BY <1>4, <1>5 DEF Contract!MallocNext

LEMMA TakesBack ==
    ASSUME IInv, NEW b \in user, user' = user \ {b}
    PROVE  Contract!MallocNext
<1>1. IsFiniteSet(user)
  <2>1. user \subseteq Block
    BY DEF IInv, Sound, Types
  <2> QED BY <2>1, FS_Subset, Constants
<1>2. Cardinality(user') = Cardinality(user) - 1
  BY <1>1, FS_RemoveElement
<1>3. Contract!Free(b)
  BY <1>2 DEF Contract!Free
<1>4. b \in user \cup user'
  OBVIOUS
<1> QED
  BY <1>3, <1>4 DEF Contract!MallocNext

\* The first object of a chain is one, and no user has it.
LEMMA FirstIsFree ==
    ASSUME NEW F, NEW L, NEW G, NEW R, NEW at, NEW by, NEW where,
           Sound(F, L, G, R, at, by, where)
    PROVE  /\ \A s \in Span : F[s] # <<>> => Head(F[s]) \in Block /\ Head(F[s]) \notin user
           /\ \A t \in Thread : L[t] # <<>> => Head(L[t]) \in Block /\ Head(L[t]) \notin user
<1>1. Apart(F, L, G, at, by)
  BY DEF Sound
<1>2. ASSUME NEW c \in Seq(Block), c # <<>>
      PROVE  Head(c) = c[1] /\ 1 \in 1 .. Len(c) /\ c[1] \in Block
  <2>1. Len(c) \in Nat /\ Len(c) # 0
    BY <1>2, LenProperties, EmptySeq
  <2>2. 1 \in 1 .. Len(c)
    BY <2>1
  <2>3. Head(c) = c[1]
    BY <1>2, HeadTailProperties
  <2> QED BY <2>2, <2>3, ElementOfSeq
<1>3. ASSUME NEW s \in Span, F[s] # <<>> PROVE Head(F[s]) \in Block /\ Head(F[s]) \notin user
  <2>1. Head(F[s]) = F[s][1] /\ 1 \in 1 .. Len(F[s]) /\ F[s][1] \in Block
    BY <1>2, <1>3, Members
  <2>2. at[F[s][1]] = "span"
    BY <1>1, <2>1 DEF Apart
  <2> QED BY <1>1, <2>1, <2>2 DEF Apart
<1>4. ASSUME NEW t \in Thread, L[t] # <<>> PROVE Head(L[t]) \in Block /\ Head(L[t]) \notin user
  <2>1. Head(L[t]) = L[t][1] /\ 1 \in 1 .. Len(L[t]) /\ L[t][1] \in Block
    BY <1>2, <1>4, Members
  <2>2. at[L[t][1]] = "list"
    BY <1>1, <2>1 DEF Apart
  <2> QED BY <1>1, <2>1, <2>2 DEF Apart
<1> QED
  BY <1>3, <1>4

LEMMA StepContracts ==
    ASSUME IInv, [Next]_vars
    PROVE  [Contract!MallocNext]_<<user, Cardinality(user)>>
<1>1. PICK F, L, G, R, at, by, where : Sound(F, L, G, R, at, by, where)
  BY DEF IInv
<1>2. CASE UNCHANGED vars
  BY <1>2 DEF vars
<1>3. CASE Next
  <2>1. PICK t \in Thread : Step(t)
    BY <1>3 DEF Next
  <2>2. CASE Pop(t)
    <3>1. L[t] # <<>> /\ user' = user \cup {Head(L[t])}
      BY <1>1, <2>2, PopSound
    <3> QED BY <1>1, <3>1, FirstIsFree, HandsOut
  <2>3. CASE Fetch(t)
    <3>1. PICK i \in 1 .. Len(R["bucket"]), n \in 1 .. PerSpan :
              LET s == R["bucket"][i]
              IN  /\ F[s] # <<>> /\ \A j \in 1 .. (i - 1) : F[R["bucket"][j]] = <<>>
                  /\ L[t] = <<>> /\ n <= Len(F[s])
                  /\ user' = user \cup {Head(F[s])}
                  /\ UNCHANGED unused
                  /\ Sound([F EXCEPT ![s] = SubSeq(@, n + 1, Len(@))],
                           [L EXCEPT ![t] = SubSeq(F[s], 2, n)], G, R,
                           Taken(F[s], n, at), TakenBy(F[s], n, t, by), where)'
      BY <1>1, <2>3, FetchSound
    <3>2. R["bucket"][i] \in Span
      BY <1>1, <3>1, Members, Constants
    <3>3. PICK s \in Span : F[s] # <<>> /\ user' = user \cup {Head(F[s])}
      BY <3>1, <3>2
    <3> QED BY <1>1, <3>3, FirstIsFree, HandsOut
  <2>4. CASE Carve(t)
    BY <2>4 DEF Carve
  <2>5. CASE FetchNew(t)
    <3>1. PICK s \in Span : F[s] # <<>> /\ user' = user \cup {Head(F[s])}
      BY <1>1, <2>5, FetchNewSound
    <3> QED BY <1>1, <3>1, FirstIsFree, HandsOut
  <2>6. CASE \E b \in user : Free(t, b)
    <3>1. PICK b \in user : Free(t, b)
      BY <2>6
    <3>2. user' = user \ {b}
      BY <3>1 DEF Free
    <3> QED BY <3>2, TakesBack
  <2>7. CASE GiveBack(t)
    BY <2>7 DEF GiveBack
  <2>8. CASE Return(t)
    BY <2>8 DEF Return
  <2>9. CASE Released(t)
    BY <2>9 DEF Released
  <2> QED BY <2>1, <2>2, <2>3, <2>4, <2>5, <2>6, <2>7, <2>8, <2>9 DEF Step
<1> QED
  BY <1>2, <1>3

\* Objects that are nothing but links in memory keep the contract of verify.cpp:12-25:
\* one handed out is at no other user's, whether it was on a thread's list (Common.h:
\* 122-131) or is the first of a batch (CentralCache.cpp:56-73), and it is taken back
\* from one who has it.
THEOREM Contracting == Spec => Contract!MallocSpec
<1>1. Init => Contract!MallocInit
  BY FS_EmptySet DEF Init, Contract!MallocInit
<1>2. IInv /\ [Next]_vars => [Contract!MallocNext]_<<user, Cardinality(user)>>
  BY StepContracts
<1> QED
  BY <1>1, <1>2, Invariance, PTL DEF Spec, Contract!MallocSpec
=============================================================================
