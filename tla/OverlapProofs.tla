--------------------------- MODULE OverlapProofs ----------------------------
(***************************************************************************)
(* Proofs about OverlapCheck: one walk that compares neighbours finds every *)
(* overlap.  The invariant says of the part walked over that the computed   *)
(* end of each range is at most where any later one starts: its right       *)
(* neighbour starts there or beyond, and the others beyond that one.  So it *)
(* says nothing of a range whose end does not fit, and all of one whose end *)
(* does.                                                                    *)
(***************************************************************************)
EXTENDS OverlapCheck, SequenceTheorems, TLAPS

SortedInv ==
  i > 0 => /\ \A f \in located : \E k \in 1..Len(sorted) : sorted[k] = f
           /\ \A k \in 1..Len(sorted) : sorted[k] \in located
           /\ \A j, k \in 1..Len(sorted) : j < k =>
                data[sorted[j]].start <= data[sorted[k]].start
           /\ \A j, k \in 1..Len(sorted) : j # k => sorted[j] # sorted[k]

WalkInv ==
  /\ i # 0 => i >= 2
  /\ i = 0 => verdict = "none"
  /\ i > 0 => \A j, k \in 1..Len(sorted) : j < k /\ k < i =>
                End(data[sorted[j]]) <= data[sorted[k]].start
  /\ verdict = "accept" => i > Len(sorted)
  /\ verdict = "reject" => i <= Len(sorted) /\ Overlapping

Inv == TypeOK /\ SortedInv /\ WalkInv

(* A slice of records is a sequence. *)
LEMMA SliceType ==
  ASSUME NEW S, NEW s \in UNION {[1..n -> S] : n \in 0..NumFiles}
  PROVE  s \in Seq(S) /\ Len(s) \in Nat /\ DOMAIN s = 1..Len(s)
<1>1. UNION {[1..n -> S] : n \in 0..NumFiles} \subseteq
        UNION {[1..n -> S] : n \in Nat}
  BY OverlapAssumption
<1>2. s \in Seq(S)
  BY <1>1, SeqDef
<1> QED
  BY <1>2, LenProperties

(* Conversion and overflow keep what fits a word, and move what is above    *)
(* the largest int64 down.                                                  *)
LEMMA Int64Below ==
  ASSUME NEW n \in Int, n >= -Half
  PROVE  Int64(n) \in Int /\ Int64(n) >= -Half /\ Int64(n) <= n
         /\ (n < Half => Int64(n) = n)
<1> DEFINE m == n + Half
           W == 2 * Half
<1>1. Half \in Nat \ {0} /\ W \in Nat \ {0} /\ m \in Nat
  BY OverlapAssumption
<1>2. m % W \in Nat /\ m % W <= m /\ (m < W => m % W = m)
  <2> HIDE DEF m, W
  <2> QED
    BY <1>1
<1>3. Int64(n) = (m % W) - Half
  BY DEF Int64
<1> QED
  BY <1>1, <1>2, <1>3

(* Ranges start at natural offsets; their computed end is never above the   *)
(* declared one, and is that one if it fits.                                *)
LEMMA RangeType ==
  ASSUME TypeOK, NEW f \in Files
  PROVE  /\ data[f].start \in Nat /\ Stop(data[f]) \in Nat
         /\ End(data[f]) \in Int /\ End(data[f]) <= Stop(data[f])
         /\ (Fits(data[f]) => End(data[f]) = Stop(data[f]))
<1>1. data[f].start \in Offsets /\ data[f].size \in Lengths
  BY DEF TypeOK, Ranges
<1> DEFINE o == data[f].start
           n == data[f].size
<1>2. Half \in Nat \ {0} /\ o \in Nat /\ o < Half /\ n \in Nat
  <2>1. o \in 0..(Half - 1) /\ n \in 0..(2 * Half - 1)
    BY <1>1, OverlapAssumption, Zenon
  <2>2. Half \in Nat \ {0}
    BY OverlapAssumption
  <2> HIDE DEF o, n
  <2> QED
    BY <2>1, <2>2
<1>3. /\ Int64(n) \in Int /\ Int64(n) >= -Half /\ Int64(n) <= n
      /\ (n < Half => Int64(n) = n)
  BY <1>2, Int64Below
<1>4. o + Int64(n) \in Int /\ o + Int64(n) >= -Half /\ o + Int64(n) <= o + n
  BY <1>2, <1>3
<1>5. /\ Int64(o + Int64(n)) \in Int
      /\ Int64(o + Int64(n)) <= o + Int64(n)
      /\ (o + Int64(n) < Half => Int64(o + Int64(n)) = o + Int64(n))
  BY <1>4, Int64Below
<1>6. ASSUME o + n < Half
      PROVE  Int64(o + Int64(n)) = o + n
  <2>1. n < Half
    BY <1>2, <1>6
  <2> QED
    BY <1>3, <1>5, <1>6, <2>1
<1>7. End(data[f]) = Int64(o + Int64(n)) /\ Stop(data[f]) = o + n
  BY DEF End, Stop
<1> HIDE DEF o, n
<1>8. End(data[f]) <= Stop(data[f])
  BY <1>2, <1>3, <1>4, <1>5, <1>7
<1> QED
  BY <1>2, <1>5, <1>6, <1>7, <1>8 DEF Fits, o

(* The invariant holds before the walk. *)
LEMMA InvInit == Init => Inv
<1> SUFFICES ASSUME Init PROVE Inv
  OBVIOUS
<1>1. << >> \in [1..0 -> Files]
  OBVIOUS
<1>2. 0 \in 0..NumFiles
  BY OverlapAssumption
<1>3. sorted \in UNION {[1..n -> Files] : n \in 0..NumFiles}
  BY <1>1, <1>2 DEF Init
<1>4. TypeOK
  BY <1>3 DEF Init, TypeOK
<1> QED
  BY <1>4 DEF Init, Inv, SortedInv, WalkInv

(* What sort.Slice leaves behind. *)
LEMMA SortStep == ASSUME Inv, Sort PROVE Inv'
<1>1. /\ i = 0 /\ i' = 2 /\ sorted' \in Orders(located, data)
      /\ UNCHANGED <<located, data, verdict>>
  BY DEF Sort
<1>2. PICK n \in 0..NumFiles : sorted' \in [1..n -> located]
  BY <1>1 DEF Orders
<1>3. located \subseteq Files
  BY DEF Inv, TypeOK
<1>4. sorted' \in [1..n -> Files]
  BY <1>2, <1>3
<1>5. sorted' \in UNION {[1..m -> Files] : m \in 0..NumFiles}
  BY <1>4
<1>6. DOMAIN sorted' = 1..Len(sorted') /\ Len(sorted') \in Nat
  BY <1>5, SliceType
<1>7. TypeOK'
  BY <1>1, <1>5 DEF Inv, TypeOK
<1>8. \A k \in 1..Len(sorted') : sorted'[k] \in located
  BY <1>2, <1>6
<1>9. SortedInv'
  BY <1>1, <1>6, <1>8 DEF Orders, SortedInv
<1>10. verdict = "none"
  BY <1>1 DEF Inv, WalkInv
<1>11. WalkInv'
  BY <1>1, <1>6, <1>10 DEF WalkInv
<1> QED
  BY <1>7, <1>9, <1>11 DEF Inv

(* A range that does not overlap its left neighbour is apart from all the   *)
(* ranges before it.                                                        *)
LEMMA WalkStep == ASSUME Inv, Walk PROVE Inv'
<1> USE DEF Inv
<1>1. /\ i \in Nat /\ i >= 2 /\ i <= Len(sorted) /\ Len(sorted) \in Nat
      /\ verdict = "none" /\ UNCHANGED <<located, data, sorted>>
  BY SliceType DEF Walk, TypeOK, WalkInv
<1>2. SortedInv'
  BY <1>1 DEF SortedInv, Walk
<1>3. CASE Overlapping
  <2>1. i' = i /\ verdict' = "reject"
    BY <1>3 DEF Walk
  <2> QED
    BY <1>1, <1>2, <1>3, <2>1 DEF TypeOK, WalkInv, Overlapping
<1>4. CASE ~Overlapping
  <2>1. i' = i + 1 /\ verdict' = verdict
    BY <1>4 DEF Walk
  <2>2. \A k \in 1..Len(sorted) : /\ data[sorted[k]].start \in Nat
                                  /\ End(data[sorted[k]]) \in Int
    BY <1>1, RangeType DEF TypeOK, SortedInv
  <2>3. End(data[sorted[i - 1]]) <= data[sorted[i]].start
    BY <1>1, <1>4, <2>2 DEF Overlapping
  <2>4. ASSUME NEW j \in 1..Len(sorted), j < i
        PROVE  End(data[sorted[j]]) <= data[sorted[i]].start
    <3>1. CASE j = i - 1
      BY <2>3, <3>1
    <3>2. CASE j < i - 1
      <4>1. End(data[sorted[j]]) <= data[sorted[i - 1]].start
        BY <1>1, <3>2 DEF WalkInv
      <4>2. data[sorted[i - 1]].start <= data[sorted[i]].start
        BY <1>1 DEF SortedInv
      <4> QED
        BY <1>1, <2>2, <4>1, <4>2
    <3> QED
      BY <1>1, <2>4, <3>1, <3>2
  <2>5. \A j, k \in 1..Len(sorted) : j < k /\ k < i + 1 =>
          End(data[sorted[j]]) <= data[sorted[k]].start
    BY <1>1, <2>4 DEF WalkInv
  <2>6. WalkInv'
    BY <1>1, <2>1, <2>5 DEF WalkInv
  <2>7. TypeOK'
    BY <1>1, <2>1 DEF TypeOK
  <2> QED
    BY <1>2, <2>6, <2>7
<1> QED
  BY <1>3, <1>4

(* Accepting changes the verdict only. *)
LEMMA InvStep == Inv /\ [Next]_vars => Inv'
<1> SUFFICES ASSUME Inv, [Next]_vars PROVE Inv'
  OBVIOUS
<1>1. CASE Accept
  BY <1>1 DEF Accept, Inv, TypeOK, SortedInv, WalkInv
<1>2. CASE UNCHANGED vars
  BY <1>2 DEF vars, Inv, TypeOK, SortedInv, WalkInv, Overlapping
<1> QED
  BY <1>1, <1>2, SortStep, WalkStep DEF Next

(* The walk never leaves the ranges it sorted. *)
THEOREM TypeCorrect == Spec => []TypeOK
<1>1. Inv => TypeOK
  BY DEF Inv
<1> QED
  BY <1>1, InvInit, InvStep, PTL DEF Spec

(* BR-BOMB-009, for any number of entries and any headers: in an accepted   *)
(* archive no two located entries share compressed bytes, if an int64 holds *)
(* the declared end of the one that starts first.                           *)
THEOREM Disjoint == Spec => []AcceptedAreApart
<1>1. Inv => AcceptedAreApart
  <2> SUFFICES ASSUME Inv, verdict = "accept",
                      NEW f \in located, NEW g \in located, f # g,
                      Fits(data[f]),
                      data[f].start < data[g].start \/ Fits(data[g])
               PROVE  Apart(data[f], data[g])
    BY DEF AcceptedAreApart
  <2>1. i > 0 /\ i > Len(sorted) /\ i \in Nat /\ Len(sorted) \in Nat
    BY SliceType DEF Inv, WalkInv, TypeOK
  <2>2. PICK j \in 1..Len(sorted) : sorted[j] = f
    BY <2>1 DEF Inv, SortedInv
  <2>3. PICK k \in 1..Len(sorted) : sorted[k] = g
    BY <2>1 DEF Inv, SortedInv
  <2>4. /\ data[f].start \in Nat /\ data[g].start \in Nat
        /\ End(data[f]) = Stop(data[f])
        /\ (Fits(data[g]) => End(data[g]) = Stop(data[g]))
    BY RangeType DEF Inv, TypeOK
  <2>5. CASE j < k
    <3>1. End(data[f]) <= data[g].start
      BY <2>1, <2>2, <2>3, <2>5 DEF Inv, WalkInv
    <3> QED
      BY <2>4, <3>1 DEF Apart
  <2>6. CASE k < j
    <3>1. data[g].start <= data[f].start
      BY <2>1, <2>2, <2>3, <2>6 DEF Inv, SortedInv
    <3>2. Fits(data[g])
      BY <2>4, <3>1
    <3>3. End(data[g]) <= data[f].start
      BY <2>1, <2>2, <2>3, <2>6 DEF Inv, WalkInv
    <3> QED
      BY <2>4, <3>2, <3>3 DEF Apart
  <2> QED
    BY <2>2, <2>3, <2>5, <2>6
<1> QED
  BY <1>1, InvInit, InvStep, PTL DEF Spec

(* And only an archive with two entries of which one starts inside the data *)
(* of the other is rejected, for any number of entries and any headers.     *)
THEOREM NoFalseAlarm == Spec => []RejectedOverlap
<1>1. Inv => RejectedOverlap
  <2> SUFFICES ASSUME Inv, verdict = "reject" PROVE RejectedOverlap
    BY DEF RejectedOverlap
  <2>1. /\ i \in Nat /\ i >= 2 /\ i <= Len(sorted) /\ Len(sorted) \in Nat
        /\ Overlapping
    BY SliceType DEF Inv, WalkInv, TypeOK
  <2>2. i \in 1..Len(sorted) /\ i - 1 \in 1..Len(sorted) /\ i - 1 < i
    BY <2>1
  <2>3. /\ sorted[i - 1] \in located /\ sorted[i] \in located
        /\ sorted[i - 1] # sorted[i]
        /\ data[sorted[i - 1]].start <= data[sorted[i]].start
    BY <2>1, <2>2 DEF Inv, SortedInv
  <2>4. /\ data[sorted[i]].start \in Nat
        /\ End(data[sorted[i - 1]]) \in Int /\ Stop(data[sorted[i - 1]]) \in Nat
        /\ End(data[sorted[i - 1]]) <= Stop(data[sorted[i - 1]])
    BY <2>3, RangeType DEF Inv, TypeOK
  <2>5. data[sorted[i]].start < Stop(data[sorted[i - 1]])
    BY <2>1, <2>4 DEF Overlapping
  <2> QED
    BY <2>3, <2>5 DEF RejectedOverlap
<1> QED
  BY <1>1, InvInit, InvStep, PTL DEF Spec
=============================================================================
