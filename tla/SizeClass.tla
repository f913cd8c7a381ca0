----------------------------- MODULE SizeClass ------------------------------
(***************************************************************************)
(* The size-class map (Common.h:27-48 and 186-296) and the way a span is   *)
(* cut into objects of a class (CentralCache.cpp:29-41): pure functions    *)
(* every other part computes with.  A behaviour walks the request sizes    *)
(* one by one, so that what relates a size to the next one is an action    *)
(* property.  size_t arithmetic is modulo SizeMax (2^64 in the program).   *)
(* A shift by a constant is \div or * by a power of two, and clearing the  *)
(* low bits rounds down to a multiple.                                     *)
(***************************************************************************)
EXTENDS Integers

CONSTANTS
    MidAligns,   \* the values 1 << MID_ALIGN_SHIFT is built with
    SizeMax,     \* bound: the number of size_t values
    First, Last  \* bound: the request sizes walked

\* Common.h:42-45: the groups' borders are multiples of the alignment.
ASSUME MidAlignAssumption == MidAligns \subseteq {128, 512}
ASSUME WalkAssumption == SizeMax \in Nat /\ SizeMax > 2 * 256 * 1024 - 1
                         /\ First \in Nat /\ Last \in Nat /\ First <= Last /\ Last < SizeMax

VARIABLES
    MID_ALIGN,   \* the alignment of this build: 128, or 512 with the knob
    size         \* the request

vars == <<MID_ALIGN, size>>

Wrap(x) == x % SizeMax

MAX_BYTES == 256 * 1024
NCLASS_MID == 7168 \div MID_ALIGN
NFREELISTS == 16 + 56 + NCLASS_MID + 56 + 24
NPAGES == 129
PAGE_SIZE == 8192   \* 1 << PAGE_SHIFT

\* _RoundUp(bytes, alignNum)
RoundUpTo_Down(bytes, align) == (bytes \div align) * align
RoundUpTo_NoMinusOne(bytes, align) == (Wrap(bytes + align) \div align) * align
RoundUpTo(bytes, align) == (Wrap(bytes + align - 1) \div align) * align

\* The if-chain of RoundUp.
Align_NoKnob(bytes) ==
    IF bytes <= 128 THEN 8
    ELSE IF bytes <= 1024 THEN 16
    ELSE IF bytes <= 8192 THEN 128
    ELSE IF bytes <= 65536 THEN 1024
    ELSE 8192
Align(bytes) ==
    IF bytes <= 128 THEN 8
    ELSE IF bytes <= 1024 THEN 16
    ELSE IF bytes <= 8192 THEN MID_ALIGN
    ELSE IF bytes <= 65536 THEN 1024
    ELSE 8192

\* A zero-byte request lands in the smallest class.
RoundUp(bytes) == IF bytes = 0 THEN 8 ELSE RoundUpTo(bytes, Align(bytes))

\* _Index(bytes, align_shift), with the alignment for the shift.
IndexIn_NoMinusOne(bytes, align) == (bytes + align - 1) \div align
IndexIn(bytes, align) == ((bytes + align - 1) \div align) - 1

\* The if-chain of Index.
Index(bytes) ==
    IF bytes = 0 THEN 0
    ELSE IF bytes <= 128 THEN IndexIn(bytes, 8)
    ELSE IF bytes <= 1024 THEN IndexIn(bytes - 128, 16) + 16
    ELSE IF bytes <= 8192 THEN IndexIn(bytes - 1024, MID_ALIGN) + 16 + 56
    ELSE IF bytes <= 65536 THEN IndexIn(bytes - 8192, 1024) + 16 + 56 + NCLASS_MID
    ELSE IndexIn(bytes - 65536, 8192) + 16 + 56 + NCLASS_MID + 56

\* How many objects of a class travel together, and the pages of its spans.
Clamp(x, low, high) == IF x < low THEN low ELSE IF x > high THEN high ELSE x
NumMoveSize(bytes) == Clamp(MAX_BYTES \div bytes, 2, 512)
NumMovePage_MayBeZero(bytes) == (NumMoveSize(bytes) * bytes) \div PAGE_SIZE
NumMovePage(bytes) == Clamp((NumMoveSize(bytes) * bytes) \div PAGE_SIZE, 1, SizeMax)

\* GetOneSpan's loop puts an object at offset 0 and then at every multiple of
\* its size that leaves MORE than its size to the end of the span.
CarveCount_PastEnd(bytes, end) == (end + bytes - 1) \div bytes
CarveCount(bytes, end) == Clamp((end - 1) \div bytes, 1, SizeMax)

\* ConcurrentAlloc's page count for a request above MAX_BYTES.
LargePages(bytes) == RoundUp(bytes) \div PAGE_SIZE

-----------------------------------------------------------------------------
Init == MID_ALIGN \in MidAligns /\ size = First
Next == size < Last /\ size' = size + 1 /\ UNCHANGED MID_ALIGN
Spec == Init /\ [][Next]_vars

-----------------------------------------------------------------------------

\* Contract 2 of verify.cpp:15: a block holds its request, and the free-list
\* link that is written into its first eight bytes, and wastes less than one
\* alignment step.
RoundUpCovers ==
    /\ RoundUp(size) >= size /\ RoundUp(size) >= 8 /\ RoundUp(size) % 8 = 0
    /\ size # 0 => RoundUp(size) - size < Align(size)

\* ThreadCache rounds when it allocates, and again, from the span's object
\* size, when it frees: both must mean the same class and the same size.
RoundUpIdempotent ==
    /\ RoundUp(RoundUp(size)) = RoundUp(size)
    /\ size <= MAX_BYTES => Index(RoundUp(size)) = Index(size)

\* The free-list array is indexed in bounds, and its last entry is used.
IndexInRange ==
    size <= MAX_BYTES =>
        /\ Index(size) \in 0 .. (NFREELISTS - 1)
        /\ size = MAX_BYTES => Index(size) = NFREELISTS - 1

\* RoundUp and Index, two if-chains kept in step by hand, cut the sizes into
\* the same classes: the index moves, by one, exactly when the size does.
ClassesAgree ==
    [][ size' <= MAX_BYTES =>
          Index(size)' = Index(size) + (IF RoundUp(size)' = RoundUp(size) THEN 0 ELSE 1) ]_vars

\* A span of a class has at least one page and room for an object, and is one
\* PageCache keeps: a span of NPAGES pages or more has only its first page in
\* the map, and freeing an object further inside would find nothing.  A large
\* request is never for 0 pages (PageCache.cpp:28) nor for too few.
SpanFits ==
    /\ size <= MAX_BYTES =>
          LET bytes == RoundUp(size) IN
          NumMovePage(bytes) \in 1 .. (NPAGES - 1) /\ NumMovePage(bytes) * PAGE_SIZE >= bytes
    /\ size > MAX_BYTES => LargePages(size) * PAGE_SIZE >= size

\* Carving stays inside the span and leaves at most one object's room unused.
CarveInSpan ==
    size <= MAX_BYTES =>
        LET bytes == RoundUp(size)
            end   == NumMovePage(bytes) * PAGE_SIZE
            used  == CarveCount(bytes, end) * bytes
        IN used <= end /\ end - used <= bytes
=============================================================================
