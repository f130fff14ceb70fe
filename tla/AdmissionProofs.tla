--------------------------- MODULE AdmissionProofs ---------------------------
(***************************************************************************)
(* Theorems about Admission, for every width of a word, every limit, every *)
(* central directory and every name: its types; that the sums PreCheck     *)
(* compares are the true ones whenever these fit a word; and that the name *)
(* which goes into the key of a child is one segment.                      *)
(*                                                                         *)
(* The true sum is a recursive function, so facts about it need induction. *)
(* It is used here for a given set of numbers (NatInduct): the least       *)
(* number outside that set comes from the well-foundedness of strict       *)
(* inclusion among finite sets, taken for the sets 1..n.                   *)
(***************************************************************************)
EXTENDS Admission, FiniteSetTheorems, SequenceTheorems,
        WellFoundedInduction, TLAPS

(* A set of numbers that has an element has a least one.                   *)
LEMMA LeastNumber ==
  ASSUME NEW T \in SUBSET Nat, T # {}
  PROVE  \E m \in T : \A k \in T : m <= k
<1> DEFINE Initial == {1..n : n \in T}
<1>1. IsWellFoundedOn(StrictSubsetOrdering(Nat), FiniteSubsetsOf(Nat))
  BY FS_StrictSubsetOrderingWellFounded
<1>2. Initial \subseteq FiniteSubsetsOf(Nat) /\ Initial # {}
  <2>1. ASSUME NEW n \in T
        PROVE  1..n \in FiniteSubsetsOf(Nat)
    <3>1. n \in Int /\ 1 \in Int /\ 1..n \subseteq Nat
      OBVIOUS
    <3>2. IsFiniteSet(1..n)
      BY <3>1, FS_Interval
    <3> QED
      BY <3>1, <3>2 DEF FiniteSubsetsOf
  <2> QED
    BY <2>1
<1>3. \E x \in Initial : \A y \in Initial :
        <<y, x>> \notin StrictSubsetOrdering(Nat)
  BY <1>1, <1>2, WFMin, Zenon
<1>4. PICK m \in T : \A k \in T :
        <<1..k, 1..m>> \notin StrictSubsetOrdering(Nat)
  BY <1>3
<1>5. ASSUME NEW k \in T, k < m
      PROVE  FALSE
  <2>1. 1..k \subseteq 1..m /\ m \notin 1..k /\ m \in 1..m
    BY <1>5
  <2>2. 1..k \in SUBSET Nat /\ 1..m \in SUBSET Nat /\ 1..k # 1..m
    BY <2>1
  <2> QED
    BY <1>4, <2>1, <2>2 DEF StrictSubsetOrdering
<1> QED
  BY <1>4, <1>5

(* Induction for a given set.                                              *)
LEMMA NatInduct ==
  ASSUME NEW S, 0 \in S, \A n \in Nat : n \in S => n + 1 \in S
  PROVE  \A n \in Nat : n \in S
<1> SUFFICES ASSUME NEW x \in Nat, x \notin S
             PROVE  FALSE
  OBVIOUS
<1>1. PICK m \in {n \in Nat : n \notin S} :
        \A k \in {n \in Nat : n \notin S} : m <= k
  BY LeastNumber
<1>2. m # 0 /\ m - 1 \in Nat
  BY <1>1
<1>3. m - 1 \in S
  BY <1>1, <1>2
<1> QED
  BY <1>1, <1>2, <1>3

-----------------------------------------------------------------------------
(* The true sums                                                            *)

(* g holds the sums of the first 0 to k sizes.                             *)
SumsUpTo(sz, k, g) ==
  /\ g \in [0..k -> Nat]
  /\ g = [n \in 0..k |-> IF n = 0 THEN 0 ELSE g[n - 1] + sz[n]]

(* Some function satisfies the recursion, so SumTo does.                   *)
LEMMA SumRecursion ==
  ASSUME NEW sz \in Seq(Nat)
  PROVE  SumTo(sz) = [n \in 0..Len(sz) |->
                        IF n = 0 THEN 0 ELSE SumTo(sz)[n - 1] + sz[n]]
<1> DEFINE Summable == {k \in Nat : k <= Len(sz) => \E g : SumsUpTo(sz, k, g)}
<1>1. 0 \in Summable
  <2>1. SumsUpTo(sz, 0, [n \in 0..0 |-> 0])
    BY DEF SumsUpTo
  <2> QED
    BY <2>1
<1>2. ASSUME NEW k \in Nat, k \in Summable
      PROVE  k + 1 \in Summable
  <2>1. ASSUME k + 1 <= Len(sz)
        PROVE  \E g : SumsUpTo(sz, k + 1, g)
    <3>1. k <= Len(sz) /\ sz[k + 1] \in Nat
      BY <2>1
    <3>2. PICK g : SumsUpTo(sz, k, g)
      BY <1>2, <3>1
    <3> DEFINE h == [n \in 0..(k + 1) |->
                       IF n = k + 1 THEN g[k] + sz[k + 1] ELSE g[n]]
    <3>3. h \in [0..(k + 1) -> Nat]
      BY <3>1, <3>2 DEF SumsUpTo
    <3>4. ASSUME NEW n \in 0..(k + 1)
          PROVE  h[n] = IF n = 0 THEN 0 ELSE h[n - 1] + sz[n]
      BY <3>2 DEF SumsUpTo
    <3>5. SumsUpTo(sz, k + 1, h)
      <4> HIDE DEF h
      <4> QED
        BY <3>3, <3>4 DEF SumsUpTo
    <3> QED
      BY <3>5
  <2> QED
    BY <2>1
<1>3. \A k \in Nat : k \in Summable
  <2> HIDE DEF Summable
  <2> QED
    BY <1>1, <1>2, NatInduct
<1>4. PICK g : SumsUpTo(sz, Len(sz), g)
  BY <1>3
<1>5. \E sum : sum = [n \in 0..Len(sz) |->
                      IF n = 0 THEN 0 ELSE sum[n - 1] + sz[n]]
  BY <1>4 DEF SumsUpTo
<1> QED
  BY <1>5 DEF SumTo

(* The sum of none is 0, and one more adds its size.                       *)
LEMMA SumStep ==
  ASSUME NEW sz \in Seq(Nat)
  PROVE  /\ SumTo(sz)[0] = 0
         /\ \A n \in 1..Len(sz) : SumTo(sz)[n] = SumTo(sz)[n - 1] + sz[n]
<1> DEFINE S == SumTo(sz)
<1>1. S = [n \in 0..Len(sz) |-> IF n = 0 THEN 0 ELSE S[n - 1] + sz[n]]
  BY SumRecursion
<1>2. \A n \in 0..Len(sz) : S[n] = IF n = 0 THEN 0 ELSE S[n - 1] + sz[n]
  <2> HIDE DEF S
  <2> QED
    BY <1>1
<1> HIDE DEF S
<1>3. 0 \in 0..Len(sz) /\ \A n \in 1..Len(sz) : n \in 0..Len(sz) /\ n # 0
  OBVIOUS
<1>4. S[0] = 0 /\ \A n \in 1..Len(sz) : S[n] = S[n - 1] + sz[n]
  BY <1>2, <1>3
<1> QED
  BY <1>4 DEF S

LEMMA SumType ==
  ASSUME NEW sz \in Seq(Nat)
  PROVE  \A n \in 0..Len(sz) : SumTo(sz)[n] \in Nat
<1> DEFINE Numbers == {n \in Nat : n <= Len(sz) => SumTo(sz)[n] \in Nat}
<1>1. 0 \in Numbers
  BY SumStep
<1>2. ASSUME NEW n \in Nat, n \in Numbers
      PROVE  n + 1 \in Numbers
  <2>1. ASSUME n + 1 <= Len(sz)
        PROVE  SumTo(sz)[n + 1] \in Nat
    <3>1. n + 1 \in 1..Len(sz) /\ (n + 1) - 1 = n /\ sz[n + 1] \in Nat
      BY <2>1
    <3>2. SumTo(sz)[n + 1] = SumTo(sz)[n] + sz[n + 1]
      BY <3>1, SumStep
    <3> QED
      BY <1>2, <2>1, <3>1, <3>2
  <2> QED
    BY <2>1
<1>3. \A n \in Nat : n \in Numbers
  <2> HIDE DEF Numbers
  <2> QED
    BY <1>1, <1>2, NatInduct
<1> QED
  BY <1>3

(* No part of the sum exceeds the whole.                                   *)
LEMMA SumBound ==
  ASSUME NEW sz \in Seq(Nat)
  PROVE  /\ Declared(sz) \in Nat
         /\ \A n \in 0..Len(sz) : SumTo(sz)[n] <= Declared(sz)
         /\ \A n \in 1..Len(sz) : sz[n] <= Declared(sz)
<1> DEFINE Parts == {k \in Nat : k <= Len(sz) =>
                       SumTo(sz)[Len(sz) - k] <= Declared(sz)}
<1>1. Declared(sz) \in Nat
  BY SumType DEF Declared
<1>2. 0 \in Parts
  BY <1>1 DEF Declared
<1>3. ASSUME NEW k \in Nat, k \in Parts
      PROVE  k + 1 \in Parts
  <2>1. ASSUME k + 1 <= Len(sz)
        PROVE  SumTo(sz)[Len(sz) - (k + 1)] <= Declared(sz)
    <3> DEFINE n == Len(sz) - k
    <3>1. /\ n \in 1..Len(sz) /\ n \in 0..Len(sz) /\ n - 1 \in 0..Len(sz)
          /\ Len(sz) - (k + 1) = n - 1
      BY <2>1
    <3>4. SumTo(sz)[n] <= Declared(sz)
      BY <1>3, <2>1
    <3> HIDE DEF n
    <3>2. SumTo(sz)[n] = SumTo(sz)[n - 1] + sz[n]
      BY <3>1, SumStep
    <3>5. sz[n] \in Nat
      BY <3>1
    <3>3. SumTo(sz)[n - 1] \in Nat /\ SumTo(sz)[n] \in Nat
      BY <3>1, SumType
    <3> QED
      BY <1>1, <3>1, <3>2, <3>3, <3>4, <3>5
  <2> QED
    BY <2>1
<1>4. \A k \in Nat : k \in Parts
  <2> HIDE DEF Parts
  <2> QED
    BY <1>2, <1>3, NatInduct
<1>5. ASSUME NEW n \in 0..Len(sz)
      PROVE  SumTo(sz)[n] <= Declared(sz)
  <2>1. Len(sz) - n \in Nat /\ Len(sz) - n <= Len(sz) /\ Len(sz) - (Len(sz) - n) = n
    OBVIOUS
  <2> QED
    BY <1>4, <2>1
<1>6. ASSUME NEW n \in 1..Len(sz)
      PROVE  sz[n] <= Declared(sz)
  <2>1. SumTo(sz)[n] = SumTo(sz)[n - 1] + sz[n] /\ sz[n] \in Nat
    BY SumStep
  <2>2. n \in 0..Len(sz) /\ n - 1 \in 0..Len(sz)
    OBVIOUS
  <2>3. SumTo(sz)[n - 1] \in Nat /\ SumTo(sz)[n] <= Declared(sz)
    BY <2>2, SumType, <1>5
  <2> QED
    BY <1>1, <2>1, <2>3
<1> QED
  BY <1>1, <1>5, <1>6

-----------------------------------------------------------------------------
(* Words and names                                                          *)

(* A conversion yields a word, and leaves a word as it is.                 *)
LEMMA Int64Word ==
  ASSUME NEW n \in Int
  PROVE  Int64(n) \in Words /\ (n \in Words => Int64(n) = n)
<1> DEFINE m == n + Half
           W == 2 * Half
<1>1. Half \in Nat \ {0} /\ W \in Nat \ {0} /\ m \in Int
  BY AdmissionAssumption
<1>2. m % W \in 0..(W - 1) /\ (m \in 0..(W - 1) => m % W = m)
  <2> HIDE DEF m, W
  <2> QED
    BY <1>1
<1>3. Int64(n) = (m % W) - Half
  BY DEF Int64
<1> QED
  BY <1>1, <1>2, <1>3 DEF Words

Named == Seq(Nat \X Symbols)

(* Decoding and the change of separators leave a name a name, and the       *)
(* latter leaves no backslash.                                              *)
LEMMA NormalisedName ==
  ASSUME NEW raw \in Named
  PROVE  /\ Normalised(raw) \in Named
         /\ \A k \in DOMAIN Normalised(raw) : Normalised(raw)[k] # Plain("\\")
<1> DEFINE decoded == Unescape(raw)
<1>1. decoded \in Named
  <2>1. CASE \E k \in DOMAIN raw : raw[k] = Plain("%")
    BY <2>1 DEF Unescape
  <2>2. CASE ~\E k \in DOMAIN raw : raw[k] = Plain("%")
    <3>1. ASSUME NEW k \in DOMAIN raw
          PROVE  (IF raw[k][1] > 0 THEN <<raw[k][1] - 1, raw[k][2]>> ELSE raw[k])
                   \in Nat \X Symbols
      <4>1. raw[k] \in Nat \X Symbols
        BY DEF Named
      <4> QED
        BY <4>1
    <3>2. DOMAIN raw = 1..Len(raw) /\ Len(raw) \in Nat
      BY DEF Named
    <3> QED
      BY <2>2, <3>1, <3>2 DEF Unescape, Named
  <2> QED
    BY <2>1, <2>2
<1>2. Plain("/") \in Nat \X Symbols /\ Plain("/") # Plain("\\")
  BY DEF Plain, Symbols
<1>3. Normalised(raw) = [k \in DOMAIN decoded |->
        IF decoded[k] = Plain("\\") THEN Plain("/") ELSE decoded[k]]
  BY DEF Normalised, ForwardSlashes
<1> HIDE DEF decoded
<1>4. /\ DOMAIN decoded = 1..Len(decoded) /\ Len(decoded) \in Nat
      /\ \A k \in DOMAIN decoded : decoded[k] \in Nat \X Symbols
  BY <1>1 DEF Named
<1> QED
  BY <1>2, <1>3, <1>4 DEF Named

(* A segment lies within the path, between two neighbouring cuts.           *)
LEMMA SegmentOfBounds ==
  ASSUME NEW path \in Named, NEW b \in Bounds(path)
  PROVE  /\ b[1] \in 0..Len(path)
         /\ \A k \in DOMAIN Segment(path, b) :
              /\ b[1] + k \in DOMAIN path
              /\ Segment(path, b)[k] = path[b[1] + k]
              /\ Segment(path, b)[k] # Plain("/")
<1> DEFINE cuts == {0, Len(path) + 1} \cup
                     {k \in DOMAIN path : path[k] = Plain("/")}
<1>1. /\ b \in cuts \X cuts
      /\ b[1] < b[2] /\ \A c \in cuts : ~(b[1] < c /\ c < b[2])
  BY DEF Bounds
<1>2. DOMAIN path = 1..Len(path) /\ Len(path) \in Nat
  BY DEF Named
<1>3. b[1] \in 0..Len(path) /\ b[2] \in 1..(Len(path) + 1)
  BY <1>1, <1>2
<1>4. /\ DOMAIN Segment(path, b) = 1..(b[2] - b[1] - 1)
      /\ \A k \in 1..(b[2] - b[1] - 1) :
           Segment(path, b)[k] = path[(b[1] + 1) + k - 1]
  <2> DEFINE m == b[1] + 1
             n == b[2] - 1
  <2>1. /\ m \in 1..(Len(path) + 1) /\ n \in (m - 1)..Len(path)
        /\ n - m + 1 = b[2] - b[1] - 1
    BY <1>1, <1>2, <1>3
  <2>2. path \in Seq(Nat \X Symbols)
    BY DEF Named
  <2>3. Segment(path, b) = SubSeq(path, m, n)
    BY DEF Segment
  <2> HIDE DEF m, n
  <2>4. /\ m \in Int /\ n \in Int /\ (m <= n \/ n - m + 1 = 0)
        /\ \A k \in m..n : path[k] \in Nat \X Symbols
    BY <1>2, <2>1, <2>2
  <2>5. /\ SubSeq(path, m, n) \in Seq(Nat \X Symbols)
        /\ Len(SubSeq(path, m, n)) = IF m <= n THEN n - m + 1 ELSE 0
        /\ \A k \in 1..(n - m + 1) : SubSeq(path, m, n)[k] = path[m + k - 1]
    BY <2>4, SubSeqProperties
  <2>6. DOMAIN SubSeq(path, m, n) = 1..(n - m + 1)
    BY <2>4, <2>5
  <2> QED
    BY <2>1, <2>3, <2>5, <2>6 DEF m
<1>5. ASSUME NEW k \in DOMAIN Segment(path, b)
      PROVE  /\ b[1] + k \in DOMAIN path
             /\ Segment(path, b)[k] = path[b[1] + k]
             /\ Segment(path, b)[k] # Plain("/")
  <2>1. k \in 1..(b[2] - b[1] - 1)
    BY <1>3, <1>4
  <2>2. b[1] + k \in DOMAIN path /\ b[1] < b[1] + k /\ b[1] + k < b[2]
    BY <1>2, <1>3, <2>1
  <2>3. (b[1] + 1) + k - 1 = b[1] + k
    BY <1>3, <2>1
  <2>4. Segment(path, b)[k] = path[b[1] + k]
    BY <1>3, <1>4, <2>1, <2>3
  <2>5. path[b[1] + k] # Plain("/")
    BY <1>1, <2>2
  <2> QED
    BY <2>2, <2>4, <2>5
<1> QED
  BY <1>3, <1>5

(* The base of a path is one of the segments kept, if there is any.         *)
LEMMA BaseIsKept ==
  ASSUME NEW path \in Named, Base(path) # << >>
  PROVE  \E b \in Kept(path) : Base(path) = Segment(path, b)
<1> DEFINE fromEnd == {n \in Nat : \E b \in Kept(path) : b[1] = Len(path) - n}
<1>1. Kept(path) # {} /\ Kept(path) \subseteq Bounds(path)
  BY DEF Base, Kept
<1>2. Len(path) \in Nat /\ \A b \in Kept(path) : b[1] \in 0..Len(path)
  BY <1>1, SegmentOfBounds DEF Named
<1>3. \A b \in Kept(path) : Len(path) - b[1] \in fromEnd
  BY <1>2
<1>4. PICK n \in fromEnd : \A k \in fromEnd : n <= k
  <2>1. fromEnd # {} /\ fromEnd \in SUBSET Nat
    BY <1>1, <1>3
  <2> HIDE DEF fromEnd
  <2> QED
    BY <2>1, LeastNumber
<1>5. PICK b \in Kept(path) : b[1] = Len(path) - n
  BY <1>4
<1>6. \A c \in Kept(path) : c[1] <= b[1]
  BY <1>2, <1>3, <1>4, <1>5
<1>7. PICK b2 \in Kept(path) : b2 = CHOOSE b3 \in Kept(path) :
        \A c \in Kept(path) : c[1] <= b3[1]
  BY <1>6
<1> QED
  BY <1>1, <1>7 DEF Base

(* What Sanitize returns for a name it accepts.                             *)
LEMMA SafeNameIsOneSegment ==
  ASSUME NEW raw \in Named, Accepts(raw)
  PROVE  /\ SafeName(raw) \notin {<< >>, Dot, DotDot}
         /\ \A k \in DOMAIN SafeName(raw) :
              SafeName(raw)[k] \notin {Plain("/"), Plain("\\")}
<1> DEFINE path == Normalised(raw)
<1>1. path \in Named /\ \A k \in DOMAIN path : path[k] # Plain("\\")
  BY NormalisedName
<1>2. /\ SafeName(raw) = Base(path) /\ Base(path) # << >>
      /\ \A b \in Bounds(path) : Segment(path, b) # DotDot
  BY DEF SafeName, Accepts
<1> HIDE DEF path
<1>3. PICK b \in Kept(path) : Base(path) = Segment(path, b)
  BY <1>1, <1>2, BaseIsKept
<1>4. b \in Bounds(path) /\ Segment(path, b) \notin {<< >>, Dot}
  BY DEF Kept
<1>5. \A k \in DOMAIN Segment(path, b) :
        Segment(path, b)[k] \notin {Plain("/"), Plain("\\")}
  BY <1>1, <1>4, SegmentOfBounds
<1> QED
  BY <1>2, <1>3, <1>4, <1>5

-----------------------------------------------------------------------------
(* Types.  An entry in hand is one of the archive's and has been accepted.  *)

NameInv ==
  name # << >> => verdict = "entries" /\ i <= NumFiles /\ name \in Sanitized

TypeInv == TypeOK /\ NameInv

LEMMA SizesAreNumbers ==
  Sizes \subseteq Nat /\ PackedSizes \subseteq Nat /\ Half \in Nat \ {0}
BY AdmissionAssumption

LEMMA SizesTyped ==
  ASSUME TypeOK
  PROVE  /\ size \in Seq(Nat) /\ packed \in Seq(Nat)
         /\ NumFiles = Len(size) /\ NumFiles = Len(packed) /\ NumFiles \in Nat
<1>1. ASSUME NEW S \in SUBSET Nat, NEW sz \in Seq(S)
      PROVE  sz \in Seq(Nat) /\ Len(sz) \in Nat
  <2>1. /\ Len(sz) \in Nat /\ DOMAIN sz = 1..Len(sz)
        /\ sz = [k \in 1..Len(sz) |-> sz[k]]
    OBVIOUS
  <2>2. \A k \in 1..Len(sz) : sz[k] \in Nat
    BY <2>1
  <2> QED
    BY <2>1, <2>2
<1>2. size \in Seq(Nat) /\ packed \in Seq(Nat) /\ Len(size) \in Nat
  BY <1>1, SizesAreNumbers DEF TypeOK
<1> QED
  BY <1>2 DEF TypeOK, NumFiles

LEMMA TypeInit == Init => TypeInv
<1> SUFFICES ASSUME Init
             PROVE  TypeInv
  OBVIOUS
<1>1. PICK n \in 0..MaxFiles : /\ size \in [1..n -> Sizes]
                                /\ packed \in [1..n -> PackedSizes]
  BY DEF Init
<1>2. n \in Nat /\ n <= MaxFiles
  BY AdmissionAssumption
<1>3. /\ size \in Seq(Sizes) /\ packed \in Seq(PackedSizes)
      /\ Len(size) = n /\ Len(packed) = n
  BY <1>1, <1>2
<1>4. 0 \in Words
  BY AdmissionAssumption DEF Words
<1>5. i \in 1..(NumFiles + 1) /\ NumFiles <= MaxFiles /\ Len(packed) = NumFiles
  BY <1>2, <1>3 DEF Init, NumFiles
<1>6. /\ total \in Words /\ packedTotal \in Words /\ unsupported \in BOOLEAN
      /\ name = << >> /\ verdict = "reading"
  BY <1>4 DEF Init
<1> QED
  BY <1>3, <1>5, <1>6 DEF TypeInv, TypeOK, NameInv

(* The steps after the headers change only i, name and verdict.             *)
LEMMA TypeStep == TypeInv /\ [Next]_vars => TypeInv'
<1> SUFFICES ASSUME TypeInv, [Next]_vars
             PROVE  TypeInv'
  OBVIOUS
<1> USE DEF TypeInv, NameInv
<1>0. NumFiles \in Nat /\ i \in Nat
  BY DEF TypeOK, NumFiles
<1>1. CASE ReadHeader
  <2>1. size[i] \in Int /\ packed[i] \in Int
    <3>1. i \in 1..Len(size) /\ i \in 1..Len(packed)
      BY <1>1, SizesTyped DEF ReadHeader, TypeOK
    <3> QED
      BY <3>1, SizesTyped
  <2>2. Int64(size[i]) \in Words /\ Int64(packed[i]) \in Words
    BY <2>1, Int64Word
  <2>3. total + Int64(size[i]) \in Int /\ packedTotal + Int64(packed[i]) \in Int
    BY <2>2, SizesAreNumbers DEF TypeOK, Words
  <2>4. total' \in Words /\ packedTotal' \in Words
    BY <1>1, <2>3, Int64Word DEF ReadHeader
  <2>5. /\ Words' = Words /\ unsupported' \in BOOLEAN /\ i' \in 1..(NumFiles + 1)
        /\ size' = size /\ packed' = packed /\ name' = name /\ verdict' = verdict
    BY <1>0, <1>1 DEF ReadHeader, TypeOK, Words
  <2>6. name = << >>
    BY <1>1 DEF ReadHeader
  <2>7. NumFiles' = NumFiles /\ name' = << >>
    BY <2>5, <2>6 DEF NumFiles
  <2> QED
    BY <2>4, <2>5, <2>7 DEF TypeOK
<1>2. CASE HeadersRead
  BY <1>2 DEF HeadersRead, TypeOK, NumFiles, sums, Words
<1>3. CASE PreCheck
  BY <1>3 DEF PreCheck, Refuse, TypeOK, NumFiles, sums, Words, PreRules
<1>4. CASE CheckOverlap
  <2>1. /\ UNCHANGED <<size, packed, sums, name>> /\ name = << >>
        /\ verdict' \in {"rule 11", "entries"} /\ i' \in {i, 1}
    BY <1>4 DEF CheckOverlap, Refuse
  <2>2. i' \in 1..(NumFiles + 1)
    <3>1. i \in 1..(NumFiles + 1) /\ 1 \in 1..(NumFiles + 1)
      BY <1>0 DEF TypeOK
    <3> QED
      BY <2>1, <3>1
  <2> QED
    BY <2>1, <2>2 DEF TypeOK, NumFiles, sums, Words, LaterRules
<1>5. CASE CheckEntry
  BY <1>5 DEF CheckEntry, Refuse, TypeOK, NumFiles, sums, Words, LaterRules, Sanitized
<1>6. CASE NextEntry
  BY <1>0, <1>6 DEF NextEntry, TypeOK, NumFiles, sums, Words
<1>7. CASE Admit
  BY <1>7 DEF Admit, TypeOK, NumFiles, sums, Words
<1>8. CASE UNCHANGED vars
  BY <1>8 DEF vars, sums, TypeOK, NumFiles, Words
<1> QED
  BY <1>1, <1>2, <1>3, <1>4, <1>5, <1>6, <1>7, <1>8 DEF Next

(* The types, and that an entry in hand has passed Sanitize.                *)
THEOREM TypeCorrect == Spec => []TypeOK
<1>1. Spec => []TypeInv
  BY TypeInit, TypeStep, PTL DEF Spec
<1>2. TypeInv => TypeOK
  BY DEF TypeInv
<1> QED
  BY <1>1, <1>2, PTL

(* BR-PATH-001, 003 and 004, for every name, encoded however often: what    *)
(* Sanitize returned for the entry in hand is one non-empty segment without *)
(* a separator, and not "..".                                               *)
THEOREM OneSegment == Spec => []AcceptedNameIsOneSegment
<1>1. Spec => []TypeInv
  BY TypeInit, TypeStep, PTL DEF Spec
<1>2. TypeInv => AcceptedNameIsOneSegment
  <2> SUFFICES ASSUME TypeInv, name # << >>
               PROVE  /\ SafeName(name) \notin {<< >>, Dot, DotDot}
                      /\ \A k \in DOMAIN SafeName(name) :
                           SafeName(name)[k] \notin {Plain("/"), Plain("\\")}
    BY DEF AcceptedNameIsOneSegment
  <2>1. name \in Named /\ Accepts(name)
    BY AdmissionAssumption DEF TypeInv, NameInv, Sanitized, Named
  <2> QED
    BY <2>1, SafeNameIsOneSegment
<1> QED
  BY <1>1, <1>2, PTL

-----------------------------------------------------------------------------
(* The sums.  As long as the true sum of all sizes fits a word, the sum so  *)
(* far is the true sum of the records read; and the verdict says what the   *)
(* comparisons of PreCheck gave.                                            *)

RecordsRead == IF verdict = "reading" THEN i - 1 ELSE NumFiles

SumInv ==
  /\ Declared(size) < Half => total = SumTo(size)[RecordsRead]
  /\ Declared(packed) < Half => packedTotal = SumTo(packed)[RecordsRead]

PastPreCheck == {"checked", "entries", "admitted", "path"} \cup LaterRules

RuleInv ==
  /\ verdict \in PastPreCheck => ~OverTotal /\ ~OverCompressed
  /\ verdict = "rule 12" => OverTotal
  /\ verdict = "rule 1" => OverCompressed

SumsInv == TypeInv /\ SumInv /\ RuleInv

(* Adding the size of the next record to a sum that is exact.               *)
LEMMA AddedExactly ==
  ASSUME NEW sz \in Seq(Nat), Declared(sz) < Half, NEW n \in 1..Len(sz)
  PROVE  Int64(SumTo(sz)[n - 1] + Int64(sz[n])) = SumTo(sz)[n]
<1>1. /\ SumTo(sz)[n] = SumTo(sz)[n - 1] + sz[n]
      /\ sz[n] \in Nat /\ sz[n] <= Declared(sz)
  BY SumStep, SumBound
<1>2. n \in 0..Len(sz)
  OBVIOUS
<1>3. /\ SumTo(sz)[n] \in Nat /\ SumTo(sz)[n] <= Declared(sz)
      /\ Declared(sz) \in Nat
  BY <1>2, SumType, SumBound
<1>4. sz[n] \in Words /\ SumTo(sz)[n] \in Words
  BY <1>1, <1>3, SizesAreNumbers DEF Words
<1>5. Int64(sz[n]) = sz[n] /\ Int64(SumTo(sz)[n]) = SumTo(sz)[n]
  BY <1>1, <1>3, <1>4, Int64Word
<1> QED
  BY <1>1, <1>5

LEMMA SumsInit == Init => SumsInv
<1> SUFFICES ASSUME Init
             PROVE  SumsInv
  OBVIOUS
<1>1. TypeInv
  BY TypeInit
<1>2. size \in Seq(Nat) /\ packed \in Seq(Nat)
  BY <1>1, SizesTyped DEF TypeInv
<1>3. SumTo(size)[0] = 0 /\ SumTo(packed)[0] = 0
  BY <1>2, SumStep
<1>4. RecordsRead = 0 /\ total = 0 /\ packedTotal = 0
  BY DEF Init, RecordsRead
<1>5. RuleInv
  BY DEF Init, RuleInv, PastPreCheck, LaterRules
<1> QED
  BY <1>1, <1>3, <1>4, <1>5 DEF SumsInv, SumInv

(* Once the headers are read the sums stay as they are.                     *)
LEMMA SumsKept ==
  ASSUME SumInv, UNCHANGED <<size, packed, sums>>, verdict' # "reading",
         RecordsRead = NumFiles
  PROVE  SumInv'
<1>1. RecordsRead' = NumFiles /\ NumFiles' = NumFiles
  BY DEF RecordsRead, NumFiles, sums
<1>2. size' = size /\ packed' = packed /\ total' = total
      /\ packedTotal' = packedTotal
  BY DEF sums
<1> QED
  BY <1>1, <1>2 DEF SumInv

LEMMA SumsStep == SumsInv /\ [Next]_vars => SumsInv'
<1> SUFFICES ASSUME SumsInv, [Next]_vars
             PROVE  SumsInv'
  OBVIOUS
<1>t. TypeInv /\ TypeInv' /\ TypeOK /\ SumInv /\ RuleInv
  BY TypeStep DEF SumsInv, TypeInv
<1>s. /\ size \in Seq(Nat) /\ packed \in Seq(Nat)
      /\ NumFiles = Len(size) /\ NumFiles = Len(packed) /\ NumFiles \in Nat
  BY <1>t, SizesTyped
<1>1. CASE ReadHeader
  <2>1. /\ i \in 1..NumFiles /\ RecordsRead = i - 1
        /\ RecordsRead' = i /\ verdict' = "reading"
    BY <1>1, <1>s, <1>t DEF ReadHeader, RecordsRead, TypeOK
  <2>2. size' = size /\ packed' = packed
    BY <1>1 DEF ReadHeader
  <2>3. ASSUME Declared(size) < Half
        PROVE  total' = SumTo(size)[i]
    <3>1. total = SumTo(size)[i - 1]
      BY <1>t, <2>1, <2>3 DEF SumInv
    <3>2. Int64(SumTo(size)[i - 1] + Int64(size[i])) = SumTo(size)[i]
      BY <1>s, <2>1, <2>3, AddedExactly
    <3> QED
      BY <1>1, <3>1, <3>2 DEF ReadHeader
  <2>4. ASSUME Declared(packed) < Half
        PROVE  packedTotal' = SumTo(packed)[i]
    <3>1. packedTotal = SumTo(packed)[i - 1]
      BY <1>t, <2>1, <2>4 DEF SumInv
    <3>2. Int64(SumTo(packed)[i - 1] + Int64(packed[i])) = SumTo(packed)[i]
      BY <1>s, <2>1, <2>4, AddedExactly
    <3> QED
      BY <1>1, <3>1, <3>2 DEF ReadHeader
  <2>5. SumInv'
    BY <2>1, <2>2, <2>3, <2>4 DEF SumInv
  <2>6. RuleInv'
    BY <2>1 DEF RuleInv, PastPreCheck, LaterRules
  <2> QED
    BY <1>t, <2>5, <2>6 DEF SumsInv
<1>2. CASE HeadersRead
  <2>1. i - 1 = NumFiles /\ verdict = "reading"
    BY <1>2, <1>s, <1>t DEF HeadersRead, TypeOK
  <2>2. SumInv'
    BY <1>2, <1>t, <2>1, SumsKept DEF HeadersRead, RecordsRead
  <2>3. RuleInv'
    BY <1>2 DEF HeadersRead, RuleInv, PastPreCheck, LaterRules
  <2> QED
    BY <1>t, <2>2, <2>3 DEF SumsInv
<1>3. CASE PreCheck
  <2>1. SumInv'
    BY <1>3, <1>t, SumsKept DEF PreCheck, Refuse, RecordsRead
  <2>2. RuleInv'
    BY <1>3 DEF PreCheck, Refuse, RuleInv, PastPreCheck, LaterRules, OverTotal,
                OverCompressed, sums
  <2> QED
    BY <1>t, <2>1, <2>2 DEF SumsInv
<1>4. ASSUME verdict \in PastPreCheck, verdict' \in PastPreCheck,
             UNCHANGED <<size, packed, sums>>
      PROVE  SumsInv'
  <2>1. verdict # "reading" /\ verdict' \notin {"reading", "rule 1", "rule 12"}
    BY <1>4 DEF PastPreCheck, LaterRules
  <2>2. SumInv'
    BY <1>4, <1>t, <2>1, SumsKept DEF RecordsRead
  <2>3. RuleInv'
    BY <1>4, <1>t, <2>1 DEF RuleInv, OverTotal, OverCompressed, sums
  <2> QED
    BY <1>t, <2>2, <2>3 DEF SumsInv
<1>5. CASE CheckOverlap
  BY <1>4, <1>5 DEF CheckOverlap, Refuse, PastPreCheck, LaterRules
<1>6. CASE CheckEntry
  BY <1>4, <1>6 DEF CheckEntry, Refuse, PastPreCheck, LaterRules
<1>7. CASE NextEntry
  BY <1>4, <1>7, <1>t DEF NextEntry, TypeInv, NameInv, PastPreCheck
<1>8. CASE Admit
  BY <1>4, <1>8 DEF Admit, PastPreCheck
<1>9. CASE UNCHANGED vars
  BY <1>9, <1>t DEF vars, sums, SumsInv, SumInv, RuleInv, RecordsRead, NumFiles,
                    OverTotal, OverCompressed
<1> QED
  BY <1>1, <1>2, <1>3, <1>5, <1>6, <1>7, <1>8, <1>9 DEF Next

(* Rules 1 and 12 of PreCheck decide on the true sums whenever these fit a  *)
(* word, for every width of a word and every central directory.             *)
THEOREM SumsExact == Spec => []SumsThatFitAreExact
<1>1. Spec => []SumsInv
  BY SumsInit, SumsStep, PTL DEF Spec
<1>2. SumsInv => SumsThatFitAreExact
  <2> SUFFICES ASSUME SumsInv, Declared(size) < Half, Declared(packed) < Half
               PROVE  /\ verdict \in PastPreCheck =>
                           /\ Declared(size) <= MaxTotal
                           /\ Declared(packed) <= MaxCompressed
                      /\ verdict = "rule 12" => Declared(size) > MaxTotal
                      /\ verdict = "rule 1" => Declared(packed) > MaxCompressed
    BY DEF SumsThatFitAreExact, PastPreCheck
  <2>1. NumFiles = Len(size) /\ NumFiles = Len(packed)
    BY SizesTyped DEF SumsInv, TypeInv
  <2>2. verdict # "reading" => /\ total = Declared(size)
                               /\ packedTotal = Declared(packed)
    BY <2>1 DEF SumsInv, SumInv, RecordsRead, Declared
  <2>3. total \in Int /\ packedTotal \in Int
    BY SizesAreNumbers DEF SumsInv, TypeInv, TypeOK, Words
  <2>4. MaxTotal \in Int /\ MaxCompressed \in Int
    BY AdmissionAssumption
  <2>5. verdict \in PastPreCheck \cup {"rule 1", "rule 12"} => verdict # "reading"
    BY DEF PastPreCheck, LaterRules
  <2>6. RuleInv
    BY DEF SumsInv
  <2>7. ASSUME verdict \in PastPreCheck
        PROVE  Declared(size) <= MaxTotal /\ Declared(packed) <= MaxCompressed
    <3>1. ~(total > MaxTotal) /\ ~(packedTotal > MaxCompressed)
      BY <2>6, <2>7 DEF RuleInv, OverTotal, OverCompressed
    <3>2. total <= MaxTotal /\ packedTotal <= MaxCompressed
      BY <2>3, <2>4, <3>1
    <3> QED
      BY <2>2, <2>5, <2>7, <3>2
  <2>8. verdict = "rule 12" => Declared(size) > MaxTotal
    BY <2>2, <2>6 DEF RuleInv, OverTotal
  <2>9. verdict = "rule 1" => Declared(packed) > MaxCompressed
    BY <2>2, <2>6 DEF RuleInv, OverCompressed
  <2> QED
    BY <2>7, <2>8, <2>9
<1> QED
  BY <1>1, <1>2, PTL
=============================================================================
