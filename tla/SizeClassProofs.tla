-------------------------- MODULE SizeClassProofs ---------------------------
(***************************************************************************)
(* The size-class map for every request: what the walk of SizeClass finds  *)
(* up to a bound holds up to two alignment steps below the last size_t.    *)
(***************************************************************************)
EXTENDS SizeClass, Arithmetic, TLAPS

\* No sum of the walk wraps: the largest request is below 2^64 - 2 * 8191.
NoWrap == Last + 2 * 8191 < SizeMax

Inv == MID_ALIGN \in {128, 512} /\ size \in Nat /\ size <= Last

LEMMA Invariance == Spec => []Inv
<1>1. Init => Inv
  BY MidAlignAssumption, WalkAssumption DEF Init, Inv
<1>2. Inv /\ [Next]_vars => Inv'
  BY WalkAssumption DEF Next, Inv, vars
<1> QED BY <1>1, <1>2, PTL DEF Spec

LEMMA WrapIs ==
    ASSUME NEW x \in Nat, x < SizeMax
    PROVE  Wrap(x) = x
BY WalkAssumption DEF Wrap

\* Rounding to one alignment.
Up(b, a) == ((b + a - 1) \div a) * a

\* The if-chain of RoundUp, with the alignments in place.
LEMMA RoundUpIs ==
    ASSUME NoWrap, Inv, NEW b \in Nat, b <= Last + 8191
    PROVE  /\ b = 0 => RoundUp(b) = 8
           /\ b > 0 /\ b <= 128 => RoundUp(b) = Up(b, 8) /\ Align(b) = 8
           /\ b > 128 /\ b <= 1024 => RoundUp(b) = Up(b, 16) /\ Align(b) = 16
           /\ b > 1024 /\ b <= 8192 => RoundUp(b) = Up(b, MID_ALIGN) /\ Align(b) = MID_ALIGN
           /\ b > 8192 /\ b <= 65536 => RoundUp(b) = Up(b, 1024) /\ Align(b) = 1024
           /\ b > 65536 => RoundUp(b) = Up(b, 8192) /\ Align(b) = 8192
<1>1. PICK a : a = Align(b)
  OBVIOUS
<1>2. a \in Nat /\ a >= 1 /\ a <= 8192
  BY <1>1 DEF Align, Inv
<1>3. b + a - 1 \in Nat /\ b + a - 1 < SizeMax
  BY <1>2, WalkAssumption DEF NoWrap
<1>4. b # 0 => RoundUp(b) = Up(b, a)
  BY <1>1, <1>3, WrapIs DEF RoundUp, RoundUpTo, Up
<1>5. /\ b <= 128 => a = 8
      /\ b > 128 /\ b <= 1024 => a = 16
      /\ b > 1024 /\ b <= 8192 => a = MID_ALIGN
      /\ b > 8192 /\ b <= 65536 => a = 1024
      /\ b > 65536 => a = 8192
  BY <1>1 DEF Align, Inv
<1>6. b = 0 => RoundUp(b) = 8
  BY DEF RoundUp
<1> QED BY <1>1, <1>4, <1>5, <1>6

-----------------------------------------------------------------------------

\* Both if-chains in the group of alignment 8.
LEMMA Group8 ==
    ASSUME NoWrap, Inv, NEW b \in Nat, b <= Last + 8191, 0 < b, b <= 128
    PROVE  /\ RoundUp(b) = ((b + 7) \div 8) * 8 /\ Align(b) = 8
           /\ Index(b) = ((b + 7) \div 8) - 1
<1>1. RoundUp(b) = Up(b, 8) /\ Align(b) = 8
  BY RoundUpIs
<1>2. Up(b, 8) = ((b + 7) \div 8) * 8
  BY DEF Up
<1>3. Index(b) = ((b + 7) \div 8) - 1
  BY DEF Index, IndexIn
<1> QED BY <1>1, <1>2, <1>3

\* Both if-chains in the group of alignment 16.
LEMMA Group16 ==
    ASSUME NoWrap, Inv, NEW b \in Nat, b <= Last + 8191, 128 < b, b <= 1024
    PROVE  /\ RoundUp(b) = ((b + 15) \div 16) * 16 /\ Align(b) = 16
           /\ Index(b) = ((b - 128 + 15) \div 16) + 15
<1>1. RoundUp(b) = Up(b, 16) /\ Align(b) = 16
  BY RoundUpIs
<1>2. Up(b, 16) = ((b + 15) \div 16) * 16
  BY DEF Up
<1>3. Index(b) = ((b - 128 + 15) \div 16) + 15
  BY DEF Index, IndexIn
<1> QED BY <1>1, <1>2, <1>3

\* Both if-chains in the group of alignment 128.
LEMMA Group128 ==
    ASSUME NoWrap, Inv, NEW b \in Nat, b <= Last + 8191, 1024 < b, b <= 8192, MID_ALIGN = 128
    PROVE  /\ RoundUp(b) = ((b + 127) \div 128) * 128 /\ Align(b) = 128
           /\ Index(b) = ((b - 1024 + 127) \div 128) + 71
<1>1. RoundUp(b) = Up(b, 128) /\ Align(b) = 128
  BY RoundUpIs
<1>2. Up(b, 128) = ((b + 127) \div 128) * 128
  BY DEF Up
<1>3. Index(b) = ((b - 1024 + 127) \div 128) + 71
  BY DEF Index, IndexIn
<1> QED BY <1>1, <1>2, <1>3

\* Both if-chains in the group of alignment 512.
LEMMA Group512 ==
    ASSUME NoWrap, Inv, NEW b \in Nat, b <= Last + 8191, 1024 < b, b <= 8192, MID_ALIGN = 512
    PROVE  /\ RoundUp(b) = ((b + 511) \div 512) * 512 /\ Align(b) = 512
           /\ Index(b) = ((b - 1024 + 511) \div 512) + 71
<1>1. RoundUp(b) = Up(b, 512) /\ Align(b) = 512
  BY RoundUpIs
<1>2. Up(b, 512) = ((b + 511) \div 512) * 512
  BY DEF Up
<1>3. Index(b) = ((b - 1024 + 511) \div 512) + 71
  BY DEF Index, IndexIn
<1> QED BY <1>1, <1>2, <1>3

\* Both if-chains in the group of alignment 1024.
LEMMA Group1024 ==
    ASSUME NoWrap, Inv, NEW b \in Nat, b <= Last + 8191, 8192 < b, b <= 65536
    PROVE  /\ RoundUp(b) = ((b + 1023) \div 1024) * 1024 /\ Align(b) = 1024
           /\ Index(b) = ((b - 8192 + 1023) \div 1024) + 71 + NCLASS_MID
<1>1. RoundUp(b) = Up(b, 1024) /\ Align(b) = 1024
  BY RoundUpIs
<1>2. Up(b, 1024) = ((b + 1023) \div 1024) * 1024
  BY DEF Up
<1>3. PICK n : n = NCLASS_MID
  OBVIOUS
<1>4. n \in Nat
  BY <1>3 DEF NCLASS_MID, Inv
<1>5. Index(b) = ((b - 8192 + 1023) \div 1024) + 71 + n
  BY <1>3, <1>4 DEF Index, IndexIn
<1> QED BY <1>1, <1>2, <1>3, <1>5

\* Both if-chains in the group of alignment 8192.
LEMMA Group8192 ==
    ASSUME NoWrap, Inv, NEW b \in Nat, b <= Last + 8191, 65536 < b
    PROVE  /\ RoundUp(b) = ((b + 8191) \div 8192) * 8192 /\ Align(b) = 8192
           /\ Index(b) = ((b - 65536 + 8191) \div 8192) + 127 + NCLASS_MID
<1>1. RoundUp(b) = Up(b, 8192) /\ Align(b) = 8192
  BY RoundUpIs
<1>2. Up(b, 8192) = ((b + 8191) \div 8192) * 8192
  BY DEF Up
<1>3. PICK n : n = NCLASS_MID
  OBVIOUS
<1>4. n \in Nat
  BY <1>3 DEF NCLASS_MID, Inv
<1>5. Index(b) = ((b - 65536 + 8191) \div 8192) + 127 + n
  BY <1>3, <1>4 DEF Index, IndexIn
<1> QED BY <1>1, <1>2, <1>3, <1>5

-----------------------------------------------------------------------------

\* What a request becomes, and what becomes of that again.
LEMMA Block ==
    ASSUME NoWrap, Inv, NEW b \in Nat, b <= Last
    PROVE  \E u \in Nat :
             /\ RoundUp(b) = u /\ RoundUp(u) = u /\ Index(u) = Index(b)
             /\ u >= b /\ u >= 8 /\ u % 8 = 0
             /\ b # 0 => u - b < Align(b)
             /\ b <= 262144 => u <= 262144
             /\ b > 262144 => u % 8192 = 0
<1>0. Last \in Nat
  BY WalkAssumption
<1>1. CASE b = 0
  <2>1. RoundUp(b) = 8 /\ Index(b) = 0
    BY <1>1 DEF RoundUp, Index
  <2>2. RoundUp(8) = ((8 + 7) \div 8) * 8 /\ Index(8) = ((8 + 7) \div 8) - 1
    BY <1>0, WalkAssumption, Group8
  <2> QED BY <1>1, <2>1, <2>2
<1>2. CASE 0 < b /\ b <= 128
  <2>1. PICK u : u = ((b + 7) \div 8) * 8
    OBVIOUS
  <2>2. /\ u \in Nat /\ u >= b /\ u - b < 8 /\ u >= 8 /\ u % 8 = 0
        /\ u <= 128
        /\ ((u + 7) \div 8) * 8 = u
        /\ ((u + 7) \div 8) = ((b + 7) \div 8)
    BY <1>2, <2>1
  <2>3. RoundUp(b) = u /\ Align(b) = 8 /\ Index(b) = ((b + 7) \div 8) - 1
    BY <1>0, <1>2, <2>1, Group8
  <2>4. RoundUp(u) = u /\ Index(u) = ((u + 7) \div 8) - 1
    BY <1>0, <1>2, <2>2, Group8
  <2> QED BY <1>2, <2>2, <2>3, <2>4
<1>3. CASE 128 < b /\ b <= 1024
  <2>1. PICK u : u = ((b + 15) \div 16) * 16
    OBVIOUS
  <2>2. /\ u \in Nat /\ u >= b /\ u - b < 16 /\ u >= 8 /\ u % 8 = 0
        /\ u <= 1024
        /\ ((u + 15) \div 16) * 16 = u
        /\ ((u - 128 + 15) \div 16) = ((b - 128 + 15) \div 16)
    BY <1>3, <2>1
  <2>3. RoundUp(b) = u /\ Align(b) = 16 /\ Index(b) = ((b - 128 + 15) \div 16) + 15
    BY <1>0, <1>3, <2>1, Group16
  <2>4. RoundUp(u) = u /\ Index(u) = ((u - 128 + 15) \div 16) + 15
    BY <1>0, <1>3, <2>2, Group16
  <2> QED BY <1>3, <2>2, <2>3, <2>4
<1>4. CASE 1024 < b /\ b <= 8192 /\ MID_ALIGN = 128
  <2>1. PICK u : u = ((b + 127) \div 128) * 128
    OBVIOUS
  <2>2. /\ u \in Nat /\ u >= b /\ u - b < 128 /\ u >= 8 /\ u % 8 = 0
        /\ u <= 8192
        /\ ((u + 127) \div 128) * 128 = u
        /\ ((u - 1024 + 127) \div 128) = ((b - 1024 + 127) \div 128)
    BY <1>4, <2>1
  <2>3. RoundUp(b) = u /\ Align(b) = 128 /\ Index(b) = ((b - 1024 + 127) \div 128) + 71
    BY <1>0, <1>4, <2>1, Group128
  <2>4. RoundUp(u) = u /\ Index(u) = ((u - 1024 + 127) \div 128) + 71
    BY <1>0, <1>4, <2>2, Group128
  <2> QED BY <1>4, <2>2, <2>3, <2>4
<1>5. CASE 1024 < b /\ b <= 8192 /\ MID_ALIGN = 512
  <2>1. PICK u : u = ((b + 511) \div 512) * 512
    OBVIOUS
  <2>2. /\ u \in Nat /\ u >= b /\ u - b < 512 /\ u >= 8 /\ u % 8 = 0
        /\ u <= 8192
        /\ ((u + 511) \div 512) * 512 = u
        /\ ((u - 1024 + 511) \div 512) = ((b - 1024 + 511) \div 512)
    BY <1>5, <2>1
  <2>3. RoundUp(b) = u /\ Align(b) = 512 /\ Index(b) = ((b - 1024 + 511) \div 512) + 71
    BY <1>0, <1>5, <2>1, Group512
  <2>4. RoundUp(u) = u /\ Index(u) = ((u - 1024 + 511) \div 512) + 71
    BY <1>0, <1>5, <2>2, Group512
  <2> QED BY <1>5, <2>2, <2>3, <2>4
<1>6. CASE 8192 < b /\ b <= 65536
  <2>1. PICK u : u = ((b + 1023) \div 1024) * 1024
    OBVIOUS
  <2>2. /\ u \in Nat /\ u >= b /\ u - b < 1024 /\ u >= 8 /\ u % 8 = 0
        /\ u <= 65536
        /\ ((u + 1023) \div 1024) * 1024 = u
        /\ ((u - 8192 + 1023) \div 1024) = ((b - 8192 + 1023) \div 1024)
    BY <1>6, <2>1
  <2>3. RoundUp(b) = u /\ Align(b) = 1024 /\ Index(b) = ((b - 8192 + 1023) \div 1024) + 71 + NCLASS_MID
    BY <1>0, <1>6, <2>1, Group1024
  <2>4. RoundUp(u) = u /\ Index(u) = ((u - 8192 + 1023) \div 1024) + 71 + NCLASS_MID
    BY <1>0, <1>6, <2>2, Group1024
  <2> QED BY <1>6, <2>2, <2>3, <2>4
<1>7. CASE 65536 < b
  <2>1. PICK u : u = ((b + 8191) \div 8192) * 8192
    OBVIOUS
  <2>2. /\ u \in Nat /\ u >= b /\ u - b < 8192 /\ u >= 8 /\ u % 8 = 0
        /\ (b <= 262144 => u <= 262144) /\ u % 8192 = 0
        /\ ((u + 8191) \div 8192) * 8192 = u
        /\ ((u - 65536 + 8191) \div 8192) = ((b - 65536 + 8191) \div 8192)
    BY <1>7, <2>1
  <2>3. RoundUp(b) = u /\ Align(b) = 8192 /\ Index(b) = ((b - 65536 + 8191) \div 8192) + 127 + NCLASS_MID
    BY <1>0, <1>7, <2>1, Group8192
  <2>4. RoundUp(u) = u /\ Index(u) = ((u - 65536 + 8191) \div 8192) + 127 + NCLASS_MID
    BY <1>0, <1>7, <2>2, Group8192
  <2> QED BY <1>7, <2>2, <2>3, <2>4
<1> QED BY <1>1, <1>2, <1>3, <1>4, <1>5, <1>6, <1>7 DEF Inv

\* Up to MAX_BYTES the index stays in the array of lists.
LEMMA LastClass ==
    ASSUME NoWrap, Inv, NEW b \in Nat, b <= Last, b <= 262144
    PROVE  Index(b) \in 0 .. (NFREELISTS - 1) /\ (b = 262144 => Index(b) = NFREELISTS - 1)
<1>0. PICK n, i : n = NCLASS_MID /\ i = Index(b)
  OBVIOUS
<1>1. /\ NFREELISTS = 152 + n /\ n \in Nat /\ Last \in Nat
      /\ MID_ALIGN = 128 => n = 56
      /\ MID_ALIGN = 512 => n = 14
      /\ MID_ALIGN = 128 \/ MID_ALIGN = 512
  BY <1>0, WalkAssumption DEF NFREELISTS, NCLASS_MID, Inv
<1> SUFFICES i \in Int /\ i >= 0 /\ i < 152 + n /\ (b = 262144 => i = 151 + n)
  BY <1>0, <1>1
<1>2. CASE b = 0
  <2>1. i = 0
    BY <1>0, <1>2 DEF Index
  <2> QED BY <1>1, <1>2, <2>1
<1>3. CASE 0 < b /\ b <= 128
  <2>1. i = ((b + 7) \div 8) - 1
    BY <1>0, <1>1, <1>3, Group8
  <2> QED BY <1>1, <1>3, <2>1
<1>4. CASE 128 < b /\ b <= 1024
  <2>1. i = ((b - 128 + 15) \div 16) + 15
    BY <1>0, <1>1, <1>4, Group16
  <2> QED BY <1>1, <1>4, <2>1
<1>5. CASE 1024 < b /\ b <= 8192 /\ MID_ALIGN = 128
  <2>1. i = ((b - 1024 + 127) \div 128) + 71
    BY <1>0, <1>1, <1>5, Group128
  <2> QED BY <1>1, <1>5, <2>1
<1>6. CASE 1024 < b /\ b <= 8192 /\ MID_ALIGN = 512
  <2>1. i = ((b - 1024 + 511) \div 512) + 71
    BY <1>0, <1>1, <1>6, Group512
  <2> QED BY <1>1, <1>6, <2>1
<1>7. CASE 8192 < b /\ b <= 65536
  <2>1. i = ((b - 8192 + 1023) \div 1024) + 71 + n
    BY <1>0, <1>1, <1>7, Group1024
  <2> QED BY <1>1, <1>7, <2>1
<1>8. CASE 65536 < b
  <2>1. i = ((b - 65536 + 8191) \div 8192) + 127 + n
    BY <1>0, <1>1, <1>8, Group8192
  <2> QED BY <1>1, <1>8, <2>1
<1> QED BY <1>1, <1>2, <1>3, <1>4, <1>5, <1>6, <1>7, <1>8

\* From one request to the next.
LEMMA OneStep ==
    ASSUME NoWrap, Inv, NEW b \in Nat, b + 1 <= Last, b + 1 <= 262144
    PROVE  Index(b + 1) = Index(b) + (IF RoundUp(b + 1) = RoundUp(b) THEN 0 ELSE 1)
<1>0. PICK d, n : d = b + 1 /\ n = NCLASS_MID
  OBVIOUS
<1>1. /\ d \in Nat /\ d <= Last + 8191 /\ d <= 262144
      /\ b <= Last + 8191 /\ b <= 262144
  BY <1>0, WalkAssumption
<1>2. /\ n \in Nat
      /\ MID_ALIGN = 128 => n = 56
      /\ MID_ALIGN = 512 => n = 14
      /\ MID_ALIGN = 128 \/ MID_ALIGN = 512
  BY <1>0 DEF NCLASS_MID, Inv
<1>3. PICK r, i, s, j : r = RoundUp(b) /\ i = Index(b) /\ s = RoundUp(d) /\ j = Index(d)
  OBVIOUS
<1> SUFFICES j = i + (IF s = r THEN 0 ELSE 1)
  BY <1>0, <1>3
<1>4. CASE b = 0
  <2>1. r = 8 /\ i = 0
    BY <1>3, <1>4 DEF RoundUp, Index
  <2>2. s = ((d + 7) \div 8) * 8 /\ j = ((d + 7) \div 8) - 1
    BY <1>0, <1>1, <1>3, <1>4, Group8
  <2> QED BY <1>0, <1>1, <1>2, <1>4, <2>1, <2>2
<1>5. CASE b > 0 /\ d <= 128
  <2>1. r = ((b + 7) \div 8) * 8 /\ i = ((b + 7) \div 8) - 1
    BY <1>0, <1>1, <1>3, <1>5, Group8
  <2>2. s = ((d + 7) \div 8) * 8 /\ j = ((d + 7) \div 8) - 1
    BY <1>0, <1>1, <1>3, <1>5, Group8
  <2> QED BY <1>0, <1>1, <1>2, <1>5, <2>1, <2>2
<1>6. CASE b = 128
  <2>1. r = ((b + 7) \div 8) * 8 /\ i = ((b + 7) \div 8) - 1
    BY <1>0, <1>1, <1>3, <1>6, Group8
  <2>2. s = ((d + 15) \div 16) * 16 /\ j = ((d - 128 + 15) \div 16) + 15
    BY <1>0, <1>1, <1>3, <1>6, Group16
  <2> QED BY <1>0, <1>1, <1>2, <1>6, <2>1, <2>2
<1>7. CASE b > 128 /\ d <= 1024
  <2>1. r = ((b + 15) \div 16) * 16 /\ i = ((b - 128 + 15) \div 16) + 15
    BY <1>0, <1>1, <1>3, <1>7, Group16
  <2>2. s = ((d + 15) \div 16) * 16 /\ j = ((d - 128 + 15) \div 16) + 15
    BY <1>0, <1>1, <1>3, <1>7, Group16
  <2> QED BY <1>0, <1>1, <1>2, <1>7, <2>1, <2>2
<1>8. CASE b = 1024 /\ MID_ALIGN = 128
  <2>1. r = ((b + 15) \div 16) * 16 /\ i = ((b - 128 + 15) \div 16) + 15
    BY <1>0, <1>1, <1>3, <1>8, Group16
  <2>2. s = ((d + 127) \div 128) * 128 /\ j = ((d - 1024 + 127) \div 128) + 71
    BY <1>0, <1>1, <1>3, <1>8, Group128
  <2> QED BY <1>0, <1>1, <1>2, <1>8, <2>1, <2>2
<1>9. CASE b = 1024 /\ MID_ALIGN = 512
  <2>1. r = ((b + 15) \div 16) * 16 /\ i = ((b - 128 + 15) \div 16) + 15
    BY <1>0, <1>1, <1>3, <1>9, Group16
  <2>2. s = ((d + 511) \div 512) * 512 /\ j = ((d - 1024 + 511) \div 512) + 71
    BY <1>0, <1>1, <1>3, <1>9, Group512
  <2> QED BY <1>0, <1>1, <1>2, <1>9, <2>1, <2>2
<1>10. CASE b > 1024 /\ d <= 8192 /\ MID_ALIGN = 128
  <2>1. r = ((b + 127) \div 128) * 128 /\ i = ((b - 1024 + 127) \div 128) + 71
    BY <1>0, <1>1, <1>3, <1>10, Group128
  <2>2. s = ((d + 127) \div 128) * 128 /\ j = ((d - 1024 + 127) \div 128) + 71
    BY <1>0, <1>1, <1>3, <1>10, Group128
  <2> QED BY <1>0, <1>1, <1>2, <1>10, <2>1, <2>2
<1>11. CASE b > 1024 /\ d <= 8192 /\ MID_ALIGN = 512
  <2>1. r = ((b + 511) \div 512) * 512 /\ i = ((b - 1024 + 511) \div 512) + 71
    BY <1>0, <1>1, <1>3, <1>11, Group512
  <2>2. s = ((d + 511) \div 512) * 512 /\ j = ((d - 1024 + 511) \div 512) + 71
    BY <1>0, <1>1, <1>3, <1>11, Group512
  <2> QED BY <1>0, <1>1, <1>2, <1>11, <2>1, <2>2
<1>12. CASE b = 8192 /\ MID_ALIGN = 128
  <2>1. r = ((b + 127) \div 128) * 128 /\ i = ((b - 1024 + 127) \div 128) + 71
    BY <1>0, <1>1, <1>3, <1>12, Group128
  <2>2. s = ((d + 1023) \div 1024) * 1024 /\ j = ((d - 8192 + 1023) \div 1024) + 71 + n
    BY <1>0, <1>1, <1>3, <1>12, Group1024
  <2> QED BY <1>0, <1>1, <1>2, <1>12, <2>1, <2>2
<1>13. CASE b = 8192 /\ MID_ALIGN = 512
  <2>1. r = ((b + 511) \div 512) * 512 /\ i = ((b - 1024 + 511) \div 512) + 71
    BY <1>0, <1>1, <1>3, <1>13, Group512
  <2>2. s = ((d + 1023) \div 1024) * 1024 /\ j = ((d - 8192 + 1023) \div 1024) + 71 + n
    BY <1>0, <1>1, <1>3, <1>13, Group1024
  <2> QED BY <1>0, <1>1, <1>2, <1>13, <2>1, <2>2
<1>14. CASE b > 8192 /\ d <= 65536
  <2>1. r = ((b + 1023) \div 1024) * 1024 /\ i = ((b - 8192 + 1023) \div 1024) + 71 + n
    BY <1>0, <1>1, <1>3, <1>14, Group1024
  <2>2. s = ((d + 1023) \div 1024) * 1024 /\ j = ((d - 8192 + 1023) \div 1024) + 71 + n
    BY <1>0, <1>1, <1>3, <1>14, Group1024
  <2> QED BY <1>0, <1>1, <1>2, <1>14, <2>1, <2>2
<1>15. CASE b = 65536
  <2>1. r = ((b + 1023) \div 1024) * 1024 /\ i = ((b - 8192 + 1023) \div 1024) + 71 + n
    BY <1>0, <1>1, <1>3, <1>15, Group1024
  <2>2. s = ((d + 8191) \div 8192) * 8192 /\ j = ((d - 65536 + 8191) \div 8192) + 127 + n
    BY <1>0, <1>1, <1>3, <1>15, Group8192
  <2> QED BY <1>0, <1>1, <1>2, <1>15, <2>1, <2>2
<1>16. CASE b > 65536
  <2>1. r = ((b + 8191) \div 8192) * 8192 /\ i = ((b - 65536 + 8191) \div 8192) + 127 + n
    BY <1>0, <1>1, <1>3, <1>16, Group8192
  <2>2. s = ((d + 8191) \div 8192) * 8192 /\ j = ((d - 65536 + 8191) \div 8192) + 127 + n
    BY <1>0, <1>1, <1>3, <1>16, Group8192
  <2> QED BY <1>0, <1>1, <1>2, <1>16, <2>1, <2>2
<1> QED BY <1>0, <1>1, <1>2, <1>4, <1>5, <1>6, <1>7, <1>8, <1>9, <1>10, <1>11, <1>12, <1>13, <1>14, <1>15, <1>16

-----------------------------------------------------------------------------

\* A block holds its request, and the link FreeList::Push writes into its
\* first eight bytes (Common.h:104-108), and wastes less than one alignment
\* step: contract 2 of verify.cpp:15, for every request and both alignments.
THEOREM Covers == ASSUME NoWrap PROVE Spec => []RoundUpCovers
<1>1. Inv => RoundUpCovers
  <2> SUFFICES ASSUME Inv PROVE RoundUpCovers
    OBVIOUS
  <2>1. PICK b : b = size
    OBVIOUS
  <2>2. b \in Nat /\ b <= Last
    BY <2>1 DEF Inv
  <2>3. PICK u \in Nat : /\ RoundUp(b) = u /\ u >= b /\ u >= 8 /\ u % 8 = 0
                         /\ b # 0 => u - b < Align(b)
    BY <2>2, Block
  <2> QED BY <2>1, <2>3 DEF RoundUpCovers
<1> QED BY <1>1, Invariance, PTL

\* Rounding the size Deallocate is given, the span's object size that
\* GetOneSpan stored, leads to the class Allocate took the block from.
THEOREM Idempotence == ASSUME NoWrap PROVE Spec => []RoundUpIdempotent
<1>1. Inv => RoundUpIdempotent
  <2> SUFFICES ASSUME Inv PROVE RoundUpIdempotent
    OBVIOUS
  <2>1. PICK b : b = size
    OBVIOUS
  <2>2. b \in Nat /\ b <= Last
    BY <2>1 DEF Inv
  <2>3. PICK u \in Nat : RoundUp(b) = u /\ RoundUp(u) = u /\ Index(u) = Index(b)
    BY <2>2, Block
  <2> QED BY <2>1, <2>3 DEF RoundUpIdempotent
<1> QED BY <1>1, Invariance, PTL

\* No request up to MAX_BYTES indexes past the NFREELISTS lists that a
\* ThreadCache and the CentralCache hold, and 256 KB has the last of them.
THEOREM InRange == ASSUME NoWrap PROVE Spec => []IndexInRange
<1>1. Inv => IndexInRange
  <2> SUFFICES ASSUME Inv, size <= MAX_BYTES
               PROVE  /\ Index(size) \in 0 .. (NFREELISTS - 1)
                      /\ size = MAX_BYTES => Index(size) = NFREELISTS - 1
    BY DEF IndexInRange
  <2>1. PICK b : b = size
    OBVIOUS
  <2>2. b \in Nat /\ b <= Last /\ b <= 262144 /\ MAX_BYTES = 262144
    BY <2>1 DEF Inv, MAX_BYTES
  <2>3. Index(b) \in 0 .. (NFREELISTS - 1) /\ (b = 262144 => Index(b) = NFREELISTS - 1)
    BY <2>2, LastClass
  <2> QED BY <2>1, <2>2, <2>3
<1> QED BY <1>1, Invariance, PTL

\* The if-chains of RoundUp and of Index move to the next class at the same
\* request, for either alignment of the middle group.
THEOREM Agreement == ASSUME NoWrap PROVE Spec => ClassesAgree
<1> DEFINE A == size' <= MAX_BYTES =>
                  Index(size)' = Index(size) + (IF RoundUp(size)' = RoundUp(size) THEN 0 ELSE 1)
<1>1. Inv /\ [Next]_vars => [A]_vars
  <2> SUFFICES ASSUME Inv, Next, size' <= MAX_BYTES
               PROVE  Index(size)' = Index(size) + (IF RoundUp(size)' = RoundUp(size) THEN 0 ELSE 1)
    OBVIOUS
  <2>1. PICK b : b = size
    OBVIOUS
  <2>2. b \in Nat /\ b + 1 <= Last /\ b + 1 <= 262144 /\ size' = b + 1
    BY <2>1, WalkAssumption DEF Inv, Next, MAX_BYTES
  <2>3. Index(size)' = Index(b + 1)
    BY <2>2 DEF Next, Index, IndexIn, NCLASS_MID
  <2>4. RoundUp(size)' = RoundUp(b + 1)
    BY <2>2 DEF Next, RoundUp, RoundUpTo, Wrap, Align
  <2>5. Index(b + 1) = Index(b) + (IF RoundUp(b + 1) = RoundUp(b) THEN 0 ELSE 1)
    BY <2>2, OneStep
  <2> QED BY <2>1, <2>3, <2>4, <2>5
<1> HIDE DEF A
<1>2. Spec => [][A]_vars
  BY <1>1, Invariance, PTL DEF Spec
<1> QED BY <1>2 DEF A, ClassesAgree

-----------------------------------------------------------------------------

\* The bytes NumMovePage counts the pages of.
LEMMA Batch ==
    ASSUME NEW u \in Nat, u >= 8, u <= 262144
    PROVE  /\ NumMoveSize(u) * u \in Nat
           /\ NumMoveSize(u) * u >= 2 * u /\ NumMoveSize(u) * u <= 524288
<1>1. PICK q, k : q = 262144 \div u /\ k = NumMoveSize(u)
  OBVIOUS
<1>2. q \in Nat /\ 262144 = u * q + (262144 % u) /\ 262144 % u \in Nat
  BY <1>1, DivMod
<1>3. k = IF q < 2 THEN 2 ELSE IF q > 512 THEN 512 ELSE q
  BY <1>1 DEF NumMoveSize, Clamp, MAX_BYTES
<1>4. CASE q < 2
  BY <1>1, <1>3, <1>4
<1>5. CASE q > 512
  <2>1. k = 512
    BY <1>3, <1>5, <1>2
  <2>2. u * q >= u * 513
    BY <1>2, <1>5
  <2> QED BY <1>1, <1>2, <2>1, <2>2
<1>6. CASE q >= 2 /\ q <= 512
  <2>1. k = q
    BY <1>2, <1>3, <1>6
  <2>2. q * u = u * q /\ u * q <= 262144 /\ u * q \in Nat
    BY <1>2
  <2>3. q * u >= 2 * u
    BY <1>2, <1>6
  <2> QED BY <1>1, <2>1, <2>2, <2>3
<1> QED BY <1>2, <1>4, <1>5, <1>6

LEMMA Pages ==
    ASSUME NEW u \in Nat, u >= 8, u <= 262144
    PROVE  NumMovePage(u) \in 1 .. 64 /\ NumMovePage(u) * PAGE_SIZE >= u
<1>1. PICK t, p : t = NumMoveSize(u) * u /\ p = t \div 8192
  OBVIOUS
<1>2. t \in Nat /\ t >= 2 * u /\ t <= 524288
  BY <1>1, Batch
<1>3. p \in Nat /\ p <= 64 /\ p * 8192 > t - 8192
  BY <1>1, <1>2
<1>4. NumMovePage(u) = IF p < 1 THEN 1 ELSE IF p > SizeMax THEN SizeMax ELSE p
  BY <1>1 DEF NumMovePage, PAGE_SIZE, Clamp
<1>5. SizeMax \in Nat /\ SizeMax > 64
  BY WalkAssumption
<1> QED BY <1>2, <1>3, <1>4, <1>5 DEF PAGE_SIZE

\* NumMovePage and the page count of ConcurrentAlloc.h:13-16 ask PageCache
\* for spans with room for an object, of 1 to NPAGES-1 pages when they are
\* cut into objects.
THEOREM Fits == ASSUME NoWrap PROVE Spec => []SpanFits
<1>1. Inv => SpanFits
  <2> SUFFICES ASSUME Inv PROVE SpanFits
    OBVIOUS
  <2>1. PICK b : b = size
    OBVIOUS
  <2>2. b \in Nat /\ b <= Last /\ MAX_BYTES = 262144
    BY <2>1 DEF Inv, MAX_BYTES
  <2>3. PICK u \in Nat : /\ RoundUp(b) = u /\ u >= b /\ u >= 8
                         /\ b <= 262144 => u <= 262144
                         /\ b > 262144 => u % 8192 = 0
    BY <2>2, Block
  <2>4. CASE b <= 262144
    <3>1. NumMovePage(u) \in 1 .. 64 /\ NumMovePage(u) * PAGE_SIZE >= u
      BY <2>3, <2>4, Pages
    <3> QED BY <2>1, <2>2, <2>3, <2>4, <3>1 DEF SpanFits, NPAGES
  <2>5. CASE b > 262144
    <3>1. (u \div 8192) * 8192 = u
      BY <2>3, <2>5
    <3>2. LargePages(b) * PAGE_SIZE >= b
      BY <2>3, <3>1 DEF LargePages, PAGE_SIZE
    <3> QED BY <2>1, <2>2, <2>5, <3>2 DEF SpanFits
  <2> QED BY <2>2, <2>4, <2>5
<1> QED BY <1>1, Invariance, PTL

\* The loop of CentralCache.cpp:35-39 writes into the span only, and what it
\* leaves unused is one object's room at most.
THEOREM Carving == ASSUME NoWrap PROVE Spec => []CarveInSpan
<1>1. Inv => CarveInSpan
  <2> SUFFICES ASSUME Inv, size <= MAX_BYTES PROVE CarveInSpan
    BY DEF CarveInSpan
  <2>1. PICK b : b = size
    OBVIOUS
  <2>2. b \in Nat /\ b <= Last /\ b <= 262144
    BY <2>1 DEF Inv, MAX_BYTES
  <2>3. PICK u \in Nat : RoundUp(b) = u /\ u >= 8 /\ u <= 262144
    BY <2>2, Block
  <2>4. PICK e : e = NumMovePage(u) * PAGE_SIZE
    OBVIOUS
  <2>5. e \in Nat /\ e >= u /\ e <= 524288
    BY <2>3, <2>4, Pages DEF PAGE_SIZE
  <2>6. PICK q, r : q = (e - 1) \div u /\ r = (e - 1) % u
    OBVIOUS
  <2>7. q \in Nat /\ r \in Nat /\ r < u /\ e - 1 = u * q + r
    <3>1. e - 1 \in Nat /\ u \in Nat \ {0}
      BY <2>3, <2>5
    <3> QED BY <2>6, <3>1, DivMod
  <2>8. u * q \in Nat /\ (q >= 1 => u * q >= q)
    BY <2>3, <2>7
  <2>9. q < SizeMax /\ SizeMax \in Nat
    BY <2>5, <2>7, <2>8, WalkAssumption
  <2>10. CarveCount(u, e) = IF q < 1 THEN 1 ELSE q
    BY <2>6, <2>7, <2>9 DEF CarveCount, Clamp
  <2>11. CarveCount(u, e) * u <= e /\ e - CarveCount(u, e) * u <= u
    <3>1. CASE q < 1
      <4>1. q = 0 /\ CarveCount(u, e) * u = u /\ u * q = 0
        BY <2>3, <2>7, <2>10, <3>1
      <4> QED BY <2>3, <2>5, <2>7, <4>1
    <3>2. CASE q >= 1
      <4>1. CarveCount(u, e) * u = u * q
        BY <2>7, <2>10, <3>2
      <4> QED BY <2>3, <2>5, <2>7, <2>8, <4>1
    <3> QED BY <2>7, <3>1, <3>2
  <2> QED BY <2>1, <2>3, <2>4, <2>11 DEF CarveInSpan
<1> QED BY <1>1, Invariance, PTL

\* Just past n the residues of n begin anew.
LEMMA Past ==
    ASSUME NEW n \in Nat, NEW r \in Nat, r < n
    PROVE  (n + r) % n = r
<1>1. n \in Nat \ {0} /\ n + r \in Nat
  OBVIOUS
<1>2. PICK q, m : q = (n + r) \div n /\ m = (n + r) % n
  OBVIOUS
<1>3. n + r = n * q + m
  BY <1>1, <1>2, DivMod
<1>4. q = 1
  <2>1. (n * 1 + r) \div n = 1
    BY <1>1, Quotient
  <2>2. n * 1 = n
    OBVIOUS
  <2> QED BY <1>2, <2>1, <2>2
<1>5. m \in Nat
  BY <1>1, <1>2, DivMod
<1>6. n + r = n + m
  BY <1>3, <1>4
<1>7. m = r
  BY <1>5, <1>6
<1> QED BY <1>2, <1>7

\* The assumption of the theorems above cannot be done without, for large requests by
\* much: Common.h:190 rounds a request up, ConcurrentAlloc.h:15-16 takes it for pages,
\* and both are right exactly up to the last size that has a page above it. One that is
\* larger is rounded to 0 bytes, and is for 0 pages (PageCache.cpp:28 asserts it is not).
THEOREM Boundary ==
    ASSUME NEW bytes \in Nat, bytes > MAX_BYTES, bytes < SizeMax
    PROVE  /\ bytes <= SizeMax - PAGE_SIZE =>
                RoundUp(bytes) >= bytes /\ LargePages(bytes) * PAGE_SIZE >= bytes
           /\ bytes > SizeMax - PAGE_SIZE => RoundUp(bytes) = 0 /\ LargePages(bytes) = 0
<1>1. bytes > 262144 /\ SizeMax \in Nat /\ SizeMax >= 524288
  BY WalkAssumption DEF MAX_BYTES
<1>2. RoundUp(bytes) = (Wrap(bytes + 8191) \div 8192) * 8192
  <2>1. Align(bytes) = 8192 /\ bytes # 0
    BY <1>1 DEF Align
  <2>2. bytes + 8192 - 1 = bytes + 8191
    OBVIOUS
  <2> QED BY <2>1, <2>2 DEF RoundUp, RoundUpTo
<1>3. ASSUME bytes <= SizeMax - 8192
      PROVE  RoundUp(bytes) >= bytes /\ LargePages(bytes) * 8192 >= bytes
  <2>1. bytes + 8191 \in Nat /\ bytes + 8191 < SizeMax
    BY <1>1, <1>3
  <2>2. Wrap(bytes + 8191) = bytes + 8191
    BY <2>1, WrapIs
  <2>3. PICK q : q = (bytes + 8191) \div 8192
    OBVIOUS
  <2>4. q \in Nat /\ q * 8192 >= bytes /\ (q * 8192) \div 8192 = q
    BY <2>3
  <2>5. RoundUp(bytes) = q * 8192
    BY <1>2, <2>2, <2>3
  <2>6. LargePages(bytes) = q
    BY <2>4, <2>5 DEF LargePages, PAGE_SIZE
  <2> QED BY <2>4, <2>5, <2>6
<1>4. ASSUME bytes > SizeMax - 8192
      PROVE  RoundUp(bytes) = 0 /\ LargePages(bytes) = 0
  <2>1. PICK r : r = bytes + 8191 - SizeMax
    OBVIOUS
  <2>2. r \in Nat /\ r < 8192 /\ r < SizeMax /\ bytes + 8191 = SizeMax + r
    BY <1>1, <1>4, <2>1
  <2>3. Wrap(bytes + 8191) = r
    BY <1>1, <2>2, Past DEF Wrap
  <2>4. r \div 8192 = 0 /\ 0 \div 8192 = 0
    BY <2>2
  <2>5. RoundUp(bytes) = 0
    BY <1>2, <2>3, <2>4
  <2> QED BY <2>4, <2>5 DEF LargePages, PAGE_SIZE
<1> QED BY <1>3, <1>4 DEF PAGE_SIZE
=============================================================================
