------------------------- MODULE EntryStreamProofs --------------------------
(***************************************************************************)
(* Proofs about module EntryStream: the limiter's bound on what one entry  *)
(* passes on, and what an upload stores.                                   *)
(***************************************************************************)
EXTENDS EntryStream, SequenceTheorems, TLAPS

(* The types the other parts rely on. *)
ReaderTypes ==
  /\ size \in [Entries -> Nat] /\ comp \in [Entries -> Nat]
  /\ entry \in Entries
  /\ stage \in {"peek", "upload", "aborted", "done"}
  /\ extracted \in Nat /\ passed \in Nat /\ peeked \in Nat
  /\ front \in BOOLEAN /\ spent \in BOOLEAN

(* Until a rule trips, what was read below has all been passed on. *)
NothingKept == stage # "aborted" => passed = extracted

LimiterInv == ReaderTypes /\ NothingKept /\ LimiterHolds

-----------------------------------------------------------------------------
(* The limits are natural numbers, so that an entry nothing was read of is  *)
(* within them.                                                             *)
LEMMA LimitsAreNatural ==
  ASSUME ReaderTypes
  PROVE  \A i \in Entries : MaxRatio * comp[i] \in Nat
  BY StreamAssumption DEF ReaderTypes

(* The next entry starts with a fresh counter, so within the limits. *)
LEMMA NextEntryLimited ==
  ASSUME LimiterInv, NextEntry, stage = "upload"
  PROVE  LimiterInv'
<1>1. \A i \in Entries : MaxRatio * comp[i] \in Nat
  BY LimitsAreNatural DEF LimiterInv
<1>2. ReaderTypes'
  <2>1. size' = size /\ comp' = comp
    BY DEF NextEntry, static
  <2>2. entry' \in Entries
    BY StreamAssumption DEF LimiterInv, ReaderTypes, NextEntry, Entries
  <2>3. CASE entry = NumEntries
    BY <2>1, <2>2, <2>3 DEF LimiterInv, ReaderTypes, NextEntry, reader, upload
  <2>4. CASE entry # NumEntries
    <3>1. /\ stage' = "peek" /\ front' = TRUE /\ spent' = FALSE
          /\ extracted' = 0 /\ passed' = 0 /\ peeked' = 0
      BY <2>4 DEF NextEntry
    <3> QED
      BY <2>1, <2>2, <3>1 DEF LimiterInv, ReaderTypes
  <2> QED
    BY <2>3, <2>4
<1>3. NothingKept'
  BY DEF LimiterInv, NothingKept, NextEntry, static, reader, upload
<1>4. LimiterHolds'
  <2>1. CASE entry = NumEntries
    BY <2>1 DEF LimiterInv, LimiterHolds, NextEntry, static, reader, upload
  <2>2. CASE entry # NumEntries
    <3>1. passed' = 0 /\ comp' = comp /\ entry' \in Entries
      BY <1>2, <2>2 DEF NextEntry, static, ReaderTypes
    <3>2. 0 <= MaxExtracted /\ 0 <= MaxRatio * comp[entry']
      BY <1>1, <3>1, StreamAssumption
    <3> QED
      BY <3>1, <3>2 DEF LimiterHolds
  <2> QED
    BY <2>1, <2>2
<1> QED
  BY <1>2, <1>3, <1>4 DEF LimiterInv

(* What a read that trips no rule passes on stays within the limits. *)
LEMMA PassLimited ==
  ASSUME LimiterInv, stage # "aborted", NEW n \in Nat, Pass(n),
         UNCHANGED <<static, entry>>
  PROVE  LimiterHolds' /\ passed' = extracted' /\ passed' \in Nat
<1>1. passed' = extracted + n /\ extracted' = extracted + n
  BY DEF LimiterInv, NothingKept, Pass
<1>2. ~(extracted + n > MaxExtracted)
  BY DEF Pass, Trips
<1>3. comp[entry] >= Floor => ~(extracted + n > MaxRatio * comp[entry])
  BY DEF Pass, Trips
<1>4. MaxRatio * comp[entry] \in Nat /\ extracted + n \in Nat
  BY LimitsAreNatural DEF LimiterInv, ReaderTypes
<1>5. comp' = comp /\ entry' = entry
  BY DEF static
<1>6. passed' <= MaxExtracted
  BY <1>1, <1>2, <1>4, StreamAssumption
<1>7. comp[entry] >= Floor => passed' <= MaxRatio * comp[entry]
  BY <1>1, <1>3, <1>4
<1> QED
  BY <1>1, <1>4, <1>5, <1>6, <1>7 DEF LimiterHolds

(* Every step keeps the limiter's invariant. *)
LEMMA LimiterStep == LimiterInv /\ [Next]_vars => LimiterInv'
<1> SUFFICES ASSUME LimiterInv, [Next]_vars
             PROVE  LimiterInv'
  OBVIOUS
<1> USE DEF LimiterInv
<1>1. CASE PeekRead
  <2> PICK n \in 1..(PeekBytes - peeked) :
        \/ /\ Pass(n)
           /\ peeked' = peeked + n
           /\ UNCHANGED <<static, entry, stage, front, upload, stored>>
        \/ Trip(n)
    BY <1>1 DEF PeekRead
  <2>0. n \in Nat /\ stage = "peek"
    BY <1>1 DEF PeekRead
  <2>1. CASE Trip(n)
    BY <2>0, <2>1 DEF Trip, ReaderTypes, NothingKept, LimiterHolds, static,
       upload
  <2>2. CASE ~Trip(n)
    <3>1. LimiterHolds' /\ passed' = extracted' /\ passed' \in Nat
      BY <2>0, <2>2, PassLimited
    <3> QED
      BY <2>0, <2>2, <3>1 DEF ReaderTypes, NothingKept, static, upload
  <2> QED
    BY <2>1, <2>2
<1>2. CASE ReadOn
  <2> PICK n \in 1..Room :
        \/ /\ Pass(n)
           /\ UNCHANGED <<static, entry, stage, peeked, front, attempt, spent,
                          stored>>
        \/ Trip(n)
    BY <1>2 DEF ReadOn
  <2>0. n \in Nat /\ stage = "upload"
    BY <1>2 DEF ReadOn
  <2>1. CASE Trip(n)
    BY <2>0, <2>1 DEF Trip, ReaderTypes, NothingKept, LimiterHolds, static,
       upload
  <2>2. CASE ~Trip(n)
    <3>1. LimiterHolds' /\ passed' = extracted' /\ passed' \in Nat
      BY <2>0, <2>2, PassLimited
    <3> QED
      BY <2>0, <2>2, <3>1 DEF ReaderTypes, NothingKept, static
  <2> QED
    BY <2>1, <2>2
<1>3. CASE PeekDone
  BY <1>3 DEF PeekDone, ReaderTypes, NothingKept, LimiterHolds, static, reader,
     upload
<1>4. CASE ReadPeek
  BY <1>4 DEF ReadPeek, ReaderTypes, NothingKept, LimiterHolds, static
<1>5. CASE AttemptFails
  BY <1>5 DEF AttemptFails, ReaderTypes, NothingKept, LimiterHolds, static,
     reader
<1>6. CASE UploadOk \/ UploadGivenUp
  BY <1>6, NextEntryLimited DEF UploadOk, UploadGivenUp
<1>7. CASE UNCHANGED vars
  BY <1>7 DEF vars, ReaderTypes, NothingKept, LimiterHolds, static, reader,
     upload
<1> QED
  BY <1>1, <1>2, <1>3, <1>4, <1>5, <1>6, <1>7 DEF Next

(* The invariant holds at the first entry. *)
LEMMA LimiterInit == Init => LimiterInv
<1> SUFFICES ASSUME Init
             PROVE  LimiterInv
  OBVIOUS
<1>1. ReaderTypes
  <2>1. size \in [Entries -> Nat] /\ comp \in [Entries -> Nat]
    BY StreamAssumption DEF Init
  <2>2. entry \in Entries
    BY StreamAssumption DEF Init, Entries
  <2> QED
    BY <2>1, <2>2 DEF Init, ReaderTypes
<1>2. 0 <= MaxRatio * comp[entry] /\ 0 <= MaxExtracted
  BY <1>1, LimitsAreNatural, StreamAssumption DEF ReaderTypes
<1> QED
  BY <1>1, <1>2 DEF Init, LimiterInv, NothingKept, LimiterHolds

(* Rules 2 and 3: whatever the sizes of the reads of limitedReader.Read,    *)
(* it never passes on more of an entry than the limits allow.               *)
THEOREM Limited == Spec => []LimiterHolds
<1>1. LimiterInv => LimiterHolds
  BY DEF LimiterInv
<1> QED
  BY LimiterInit, LimiterStep, <1>1, PTL DEF Spec

-----------------------------------------------------------------------------
(* The last k of the first e bytes of an entry. *)
Stretch(e, k) == [j \in 1..k |-> e - k + j]

(* A stretch is a sequence of k bytes. *)
LEMMA StretchIsSeq ==
  ASSUME NEW e \in Nat, NEW k \in 0..e
  PROVE  Stretch(e, k) \in Seq(Nat) /\ Len(Stretch(e, k)) = k
<1>1. \A j \in 1..k : e - k + j \in Nat
  OBVIOUS
<1>2. Stretch(e, k) \in [1..k -> Nat]
  BY <1>1 DEF Stretch
<1> QED
  BY <1>2

(* The n bytes that follow the first e lengthen a stretch that ends at e. *)
LEMMA StretchGrows ==
  ASSUME NEW e \in Nat, NEW k \in 0..e, NEW n \in Nat
  PROVE  Stretch(e, k) \o [j \in 1..n |-> e + j] = Stretch(e + n, k + n)
<1> DEFINE short == Stretch(e, k)
           more == [j \in 1..n |-> e + j]
           longer == Stretch(e + n, k + n)
<1>1. short \in Seq(Nat) /\ Len(short) = k
  BY StretchIsSeq
<1>2. longer \in Seq(Nat) /\ Len(longer) = k + n
  <2>1. e + n \in Nat /\ k + n \in 0..(e + n)
    OBVIOUS
  <2> HIDE DEF longer
  <2> QED
    BY <2>1, StretchIsSeq DEF longer
<1>3. more \in Seq(Nat) /\ Len(more) = n
  <2>1. more \in [1..n -> Nat]
    OBVIOUS
  <2> QED
    BY <2>1
<1>4. \A i \in 1..n : more[i] = e + i
  OBVIOUS
<1>5. \A i \in 1..k : short[i] = e - k + i
  BY DEF Stretch
<1>6. \A i \in 1..(k + n) : longer[i] = e - k + i
  <2> TAKE i \in 1..(k + n)
  <2>1. longer[i] = (e + n) - (k + n) + i
    BY DEF Stretch
  <2> QED
    BY <2>1
<1> HIDE DEF short, more, longer
<1>7. /\ short \o more \in Seq(Nat)
      /\ Len(short \o more) = k + n
      /\ \A i \in 1..(k + n) : (short \o more)[i] =
            IF i <= k THEN short[i] ELSE more[i - k]
  <2>1. /\ short \o more \in Seq(Nat)
        /\ Len(short \o more) = Len(short) + Len(more)
        /\ \A i \in 1..(Len(short) + Len(more)) : (short \o more)[i] =
              IF i <= Len(short) THEN short[i] ELSE more[i - Len(short)]
    BY <1>1, <1>3, ConcatProperties
  <2> QED
    BY <1>1, <1>3, <2>1
<1>8. \A i \in 1..(k + n) : (short \o more)[i] = longer[i]
  <2> TAKE i \in 1..(k + n)
  <2>1. CASE i <= k
    BY <1>5, <1>6, <1>7, <2>1
  <2>2. CASE ~(i <= k)
    <3>1. i - k \in 1..n
      BY <2>2
    <3>2. more[i - k] = e + (i - k)
      BY <1>4, <3>1
    <3> QED
      BY <1>6, <1>7, <2>2, <3>2
  <2> QED
    BY <2>1, <2>2
<1>9. short \o more = longer
  BY <1>2, <1>7, <1>8, SeqEqual
<1> QED
  BY <1>9 DEF short, more, longer

-----------------------------------------------------------------------------
(* The running attempt has read a stretch of the entry that ends where the  *)
(* limitedReader is, from the start of the entry if no attempt before it    *)
(* had read anything.                                                       *)
ReadSoFar ==
  \E k \in 0..extracted : /\ got = Stretch(extracted, k)
                          /\ ~spent => k = extracted

(* While the peek buffer is in front no attempt has read anything. *)
Untouched == extracted = peeked /\ got = << >> /\ ~spent

Reading ==
  /\ extracted <= size[entry]
  /\ stage = "peek" => front /\ peeked <= PeekBytes /\ Untouched
  /\ stage = "upload" => /\ peeked <= PeekBytes
                         /\ front => Untouched
                         /\ ~front => ReadSoFar

TailInv == Reading /\ DOMAIN stored = Entries /\ StoredIsTail

(* No byte is a stretch of length nought. *)
LEMMA NoByte == \A e \in Nat : Stretch(e, 0) = << >>
<1> TAKE e \in Nat
<1>1. Stretch(e, 0) \in Seq(Nat) /\ Len(Stretch(e, 0)) = 0
  BY StretchIsSeq
<1> QED
  BY <1>1, EmptySeq, SeqEqual

(* Reading the peek buffer gives the entry's first bytes. *)
LEMMA PeekIsStretch ==
  ASSUME NEW n \in Nat
  PROVE  << >> \o [j \in 1..n |-> j] = Stretch(n, n)
<1>1. \A e \in Nat : \A k \in 0..e :
        Stretch(e, k) \o [j \in 1..n |-> e + j] = Stretch(e + n, k + n)
  BY StretchGrows
<1>2. \A e \in Nat : e = 0 => /\ [j \in 1..n |-> e + j] = [j \in 1..n |-> j]
                             /\ e + n = n /\ e \in 0..e
  OBVIOUS
<1>3. \A e \in Nat : e = 0 =>
        Stretch(e, e) \o [j \in 1..n |-> j] = Stretch(n, n)
  BY <1>1, <1>2
<1>4. Stretch(0, 0) \o [j \in 1..n |-> j] = Stretch(n, n)
  BY <1>3
<1> QED
  BY <1>4, NoByte

(* A read the limiter passes on lengthens what the attempt has read. *)
LEMMA ReadOnReads ==
  ASSUME LimiterInv, ReadSoFar, NEW n \in Nat, Pass(n), spent' = spent,
         got' = got \o [j \in 1..n |-> extracted + j]
  PROVE  ReadSoFar'
<1> PICK k \in 0..extracted : /\ got = Stretch(extracted, k)
                              /\ ~spent => k = extracted
  BY DEF ReadSoFar
<1>1. extracted \in Nat /\ extracted' = extracted + n
  BY DEF LimiterInv, ReaderTypes, Pass
<1>2. got' = Stretch(extracted', k + n)
  <2>1. Stretch(extracted, k) \o [j \in 1..n |-> extracted + j]
          = Stretch(extracted + n, k + n)
    BY <1>1, StretchGrows
  <2> QED
    BY <1>1, <2>1
<1>3. k + n \in 0..extracted' /\ (~spent => k + n = extracted')
  BY <1>1
<1> QED
  BY <1>2, <1>3 DEF ReadSoFar

(* An attempt that fails leaves the next one an empty stretch. *)
LEMMA RetryReads ==
  ASSUME LimiterInv, ReadSoFar, extracted' = extracted, got' = << >>,
         spent' = (spent \/ got # << >>)
  PROVE  ReadSoFar'
<1> PICK k \in 0..extracted : /\ got = Stretch(extracted, k)
                              /\ ~spent => k = extracted
  BY DEF ReadSoFar
<1>1. extracted \in Nat
  BY DEF LimiterInv, ReaderTypes
<1>2. got' = Stretch(extracted', 0)
  BY <1>1, NoByte
<1>3. ~spent' => extracted' = 0
  <2> SUFFICES ASSUME ~spent'
               PROVE  extracted' = 0
    OBVIOUS
  <2>1. ~spent /\ got = << >>
    OBVIOUS
  <2>2. Len(Stretch(extracted, k)) = k /\ k = extracted
    BY <1>1, <2>1, StretchIsSeq
  <2> QED
    BY <2>1, <2>2
<1> QED
  BY <1>1, <1>2, <1>3 DEF ReadSoFar

(* The entry that follows is unread. *)
LEMMA NextEntryReads ==
  ASSUME LimiterInv, Reading, stage = "upload", NextEntry
  PROVE  Reading'
<1>1. size' = size
  BY DEF NextEntry, static
<1>2. CASE entry = NumEntries
  BY <1>1, <1>2 DEF NextEntry, reader, upload, Reading
<1>3. CASE entry # NumEntries
  <2>1. /\ entry' \in Entries /\ stage' = "peek" /\ front' /\ ~spent'
        /\ extracted' = 0 /\ peeked' = 0 /\ got' = << >>
    BY <1>3, StreamAssumption
       DEF NextEntry, LimiterInv, ReaderTypes, Entries
  <2>2. size'[entry'] \in Nat
    BY <1>1, <2>1 DEF LimiterInv, ReaderTypes
  <2> QED
    BY <2>1, <2>2, StreamAssumption DEF Reading, Untouched
<1> QED
  BY <1>2, <1>3

(* Every step keeps what the attempt has read a stretch. *)
LEMMA ReadingStep == LimiterInv /\ Reading /\ [Next]_vars => Reading'
<1> SUFFICES ASSUME LimiterInv, Reading, [Next]_vars
             PROVE  Reading'
  OBVIOUS
<1>0. size[entry] \in Nat /\ extracted \in Nat /\ peeked \in Nat
  BY DEF LimiterInv, ReaderTypes
<1>1. CASE PeekRead
  <2> PICK n \in 1..(PeekBytes - peeked) :
        /\ n <= Left
        /\ \/ /\ Pass(n)
              /\ peeked' = peeked + n
              /\ UNCHANGED <<static, entry, stage, front, upload, stored>>
           \/ Trip(n)
    BY <1>1 DEF PeekRead
  <2>1. n \in Nat /\ stage = "peek" /\ extracted + n <= size[entry]
    BY <1>0, <1>1 DEF PeekRead, Left
  <2>2. size' = size /\ entry' = entry /\ extracted' = extracted + n
    BY DEF Pass, Trip, static
  <2>3. CASE Trip(n)
    BY <2>1, <2>2, <2>3 DEF Trip, Reading
  <2>4. CASE ~Trip(n)
    <3>1. /\ peeked' = peeked + n /\ stage' = "peek" /\ front' = front
          /\ got' = got /\ spent' = spent
      BY <2>1, <2>4 DEF upload
    <3>2. peeked + n <= PeekBytes
      BY <1>0, StreamAssumption
    <3>3. front /\ Untouched
      BY <2>1 DEF Reading
    <3>4. front' /\ Untouched'
      BY <2>2, <3>1, <3>3 DEF Untouched
    <3> QED
      BY <2>1, <2>2, <3>1, <3>2, <3>4 DEF Reading
  <2> QED
    BY <2>3, <2>4
<1>2. CASE ReadOn
  <2> PICK n \in 1..Room :
        /\ n <= Left
        /\ \/ /\ Pass(n)
              /\ got' = got \o [j \in 1..n |-> extracted + j]
              /\ UNCHANGED <<static, entry, stage, peeked, front, attempt,
                             spent, stored>>
           \/ Trip(n)
    BY <1>2 DEF ReadOn
  <2>1. /\ n \in Nat /\ stage = "upload" /\ ~front
        /\ extracted + n <= size[entry]
    BY <1>0, <1>2 DEF ReadOn, Left
  <2>2. size' = size /\ entry' = entry /\ extracted' = extracted + n
    BY DEF Pass, Trip, static
  <2>3. CASE Trip(n)
    BY <2>1, <2>2, <2>3 DEF Trip, Reading
  <2>4. CASE ~Trip(n)
    <3>1. ReadSoFar'
      BY <2>1, <2>4, ReadOnReads DEF Reading
    <3> QED
      BY <2>1, <2>2, <2>4, <3>1 DEF Reading
  <2> QED
    BY <2>3, <2>4
<1>3. CASE PeekDone
  BY <1>3 DEF PeekDone, Reading, Untouched, static, reader, upload
<1>4. CASE ReadPeek
  <2> DEFINE n == IF Room < peeked THEN Room ELSE peeked
  <2>1. /\ stage = "upload" /\ got = << >> /\ ~spent
        /\ extracted = peeked /\ peeked <= PeekBytes
    BY <1>4 DEF ReadPeek, Reading, Untouched
  <2>2. Room = PartBytes
    <3>1. Len(got) = 0
      BY <2>1
    <3>2. PartBytes \in Nat \ {0} /\ 0 % PartBytes = 0
      BY StreamAssumption
    <3> QED
      BY <3>1, <3>2 DEF Room
  <2>3. n = peeked /\ ~(Room < peeked)
    BY <1>0, <2>1, <2>2, StreamAssumption
  <2>4. got' = Stretch(extracted, extracted)
    BY <1>0, <1>4, <2>1, <2>3, PeekIsStretch DEF ReadPeek
  <2>5. /\ stage' = stage /\ extracted' = extracted /\ peeked' = peeked
        /\ size' = size /\ entry' = entry /\ ~front'
    BY <1>4, <2>3 DEF ReadPeek, static
  <2>6. ReadSoFar'
    <3>1. extracted' \in 0..extracted' /\ got' = Stretch(extracted', extracted')
      BY <1>0, <2>4, <2>5
    <3> QED
      BY <3>1 DEF ReadSoFar
  <2> QED
    BY <2>1, <2>5, <2>6 DEF Reading
<1>5. CASE AttemptFails
  <2>1. CASE front
    BY <1>5, <2>1 DEF AttemptFails, Reading, Untouched, static, reader
  <2>2. CASE ~front
    <3>1. ReadSoFar'
      BY <1>5, <2>2, RetryReads DEF AttemptFails, Reading, reader
    <3> QED
      BY <1>5, <2>2, <3>1 DEF AttemptFails, Reading, static, reader
  <2> QED
    BY <2>1, <2>2
<1>6. CASE UploadOk \/ UploadGivenUp
  BY <1>6, NextEntryReads DEF UploadOk, UploadGivenUp
<1>7. CASE UNCHANGED vars
  BY <1>7 DEF vars, Reading, Untouched, ReadSoFar, static, reader, upload
<1> QED
  BY <1>1, <1>2, <1>3, <1>4, <1>5, <1>6, <1>7 DEF Next

(* Only UploadOk writes an object: what it stores ends where the entry does. *)
LEMMA StoredStep ==
  LimiterInv /\ TailInv /\ [Next]_vars
    => DOMAIN stored' = Entries /\ StoredIsTail'
<1> SUFFICES ASSUME LimiterInv, TailInv, [Next]_vars
             PROVE  DOMAIN stored' = Entries /\ StoredIsTail'
  OBVIOUS
<1>0. Reading /\ DOMAIN stored = Entries /\ StoredIsTail
  BY DEF TailInv
<1>1. size' = size
  BY DEF Next, vars, PeekRead, Pass, Trip, PeekDone, ReadPeek, ReadOn,
     AttemptFails, UploadOk, UploadGivenUp, NextEntry, static
<1>2. CASE stored' = stored
  BY <1>0, <1>1, <1>2 DEF StoredIsTail
<1>3. CASE UploadOk
  <2>1. PICK k \in 0..extracted : /\ got = Stretch(extracted, k)
                                  /\ ~spent => k = extracted
    BY <1>0, <1>3 DEF UploadOk, Reading, ReadSoFar
  <2>2. extracted = size[entry] /\ extracted \in Nat
    BY <1>3 DEF UploadOk, Left, LimiterInv, ReaderTypes
  <2>3. Len(got) = k
    BY <2>1, <2>2, StretchIsSeq
  <2>0. DOMAIN stored' = Entries
    BY <1>0, <1>3 DEF UploadOk
  <2> SUFFICES ASSUME NEW i \in Entries, stored'[i].there
               PROVE  /\ Len(stored'[i].bytes) <= size[i]
                      /\ stored'[i].bytes =
                           Stretch(size[i], Len(stored'[i].bytes))
                      /\ ~stored'[i].resumed => Len(stored'[i].bytes) = size[i]
    BY <1>1, <2>0 DEF StoredIsTail, Stretch
  <2>4. CASE i # entry
    <3>1. stored'[i] = stored[i]
      BY <1>0, <1>3, <2>4 DEF UploadOk
    <3> QED
      BY <1>0, <3>1 DEF StoredIsTail, Stretch
  <2>5. CASE i = entry
    <3>1. stored'[i] = [bytes |-> got, resumed |-> spent, there |-> TRUE]
      BY <1>0, <1>3, <2>5 DEF UploadOk
    <3> QED
      BY <2>1, <2>2, <2>3, <2>5, <3>1
  <2> QED
    BY <2>4, <2>5
<1>4. stored' = stored \/ UploadOk
  BY DEF Next, vars, PeekRead, Pass, Trip, PeekDone, ReadPeek, ReadOn,
     AttemptFails, UploadGivenUp, upload
<1> QED
  BY <1>2, <1>3, <1>4

(* Nothing has been read or stored at first. *)
LEMMA TailInit == Init => TailInv
<1> SUFFICES ASSUME Init
             PROVE  TailInv
  OBVIOUS
<1>1. size[entry] \in Nat
  BY LimiterInit DEF LimiterInv, ReaderTypes
<1>2. Reading
  BY <1>1, StreamAssumption DEF Init, Reading, Untouched
<1>3. DOMAIN stored = Entries /\ StoredIsTail
  BY DEF Init, StoredIsTail, NoObject
<1> QED
  BY <1>2, <1>3 DEF TailInv

(* The rebuilt reader loses, repeats and reorders no byte: an object is the *)
(* end of its entry, and the whole of it unless an attempt was repeated on  *)
(* a stream already read from.                                              *)
THEOREM Tails == Spec => []StoredIsTail
<1>1. LimiterInv /\ TailInv /\ [Next]_vars => TailInv'
  BY ReadingStep, StoredStep DEF TailInv
<1>2. TailInv => StoredIsTail
  BY DEF TailInv
<1> QED
  BY LimiterInit, LimiterStep, TailInit, <1>1, <1>2, PTL DEF Spec

-----------------------------------------------------------------------------
(* Types                                                                    *)

Numbers ==
  /\ size \in [Entries -> Sizes]
  /\ comp \in [Entries -> Compressed]
  /\ entry \in Entries
  /\ stage \in {"peek", "upload", "aborted", "done"}
  /\ extracted \in 0..size[entry]
  /\ passed \in 0..extracted
  /\ peeked \in 0..PeekBytes
  /\ front \in BOOLEAN
  /\ attempt \in 0..(MaxAttempts - 1)
  /\ spent \in BOOLEAN
  /\ total \in Nat

Objects == [bytes : Seq(Nat), resumed : BOOLEAN, there : BOOLEAN]
Bytes   == got \in Seq(Nat) /\ stored \in [Entries -> Objects]

LEMMA TypeParts == TypeOK <=> Numbers /\ Bytes
BY DEF TypeOK, Numbers, Bytes, Objects

LEMMA TypeInit == Init => Numbers /\ Bytes
<1> SUFFICES ASSUME Init PROVE Numbers /\ Bytes
  OBVIOUS
<1>1. entry \in Entries
  BY StreamAssumption DEF Init, Entries
<1>2. size[entry] \in Nat
  <2>1. size[entry] \in Sizes
    BY <1>1 DEF Init
  <2> QED
    BY <2>1, StreamAssumption
<1>3. Numbers
  <2>1. 0 \in 0..size[entry] /\ 0 \in 0..0
    BY <1>2
  <2>2. 0 \in 0..PeekBytes /\ 0 \in 0..(MaxAttempts - 1)
    BY StreamAssumption
  <2> QED
    BY <1>1, <2>1, <2>2 DEF Init, Numbers
<1>4. << >> \in Seq(Nat)
  OBVIOUS
<1>5. NoObject \in Objects
  BY <1>4 DEF NoObject, Objects
<1>6. Bytes
  BY <1>4, <1>5 DEF Init, Bytes
<1> QED
  BY <1>3, <1>6

LEMMA NumbersStep == Numbers /\ Bytes /\ [Next]_vars => Numbers'
<1> SUFFICES ASSUME Numbers, Bytes, [Next]_vars PROVE Numbers'
  OBVIOUS
<1> USE DEF Numbers
<1>0. /\ size[entry] \in Nat /\ extracted \in Nat /\ extracted <= size[entry]
      /\ passed \in Nat /\ passed <= extracted
      /\ peeked \in Nat /\ PeekBytes \in Nat
  <2>1. size[entry] \in Sizes
    OBVIOUS
  <2>2. size[entry] \in Nat /\ PeekBytes \in Nat
    BY <2>1, StreamAssumption
  <2> QED
    BY <2>2
<1>1. CASE PeekRead
  <2> PICK n \in 1..(PeekBytes - peeked) :
        /\ n <= Left
        /\ \/ /\ Pass(n)
              /\ peeked' = peeked + n
              /\ UNCHANGED <<static, entry, stage, front, upload, stored>>
           \/ Trip(n)
    BY <1>1 DEF PeekRead
  <2> QED
    BY <1>0 DEF Left, Pass, Trip, static, upload
<1>2. CASE ReadOn
  <2> PICK n \in 1..Room :
        /\ n <= Left
        /\ \/ /\ Pass(n)
              /\ UNCHANGED <<static, entry, stage, peeked, front, attempt,
                             spent, stored>>
           \/ Trip(n)
    BY <1>2 DEF ReadOn
  <2>1. n \in Nat
    OBVIOUS
  <2> QED
    BY <1>0, <2>1 DEF Left, Pass, Trip, static, upload
<1>3. CASE PeekDone
  BY <1>3 DEF PeekDone, static, reader, upload
<1>4. CASE ReadPeek
  BY <1>4 DEF ReadPeek, static
<1>5. CASE AttemptFails
  BY <1>5, StreamAssumption DEF AttemptFails, static, reader
<1>6. CASE UploadOk \/ UploadGivenUp
  <2>1. NextEntry
    BY <1>6 DEF UploadOk, UploadGivenUp
  <2>2. CASE entry = NumEntries
    BY <2>1, <2>2 DEF NextEntry, static, reader, upload
  <2>3. CASE entry # NumEntries
    <3>1. /\ entry' \in Entries /\ size' = size /\ comp' = comp
          /\ extracted' = 0 /\ passed' = 0 /\ peeked' = 0 /\ attempt' = 0
          /\ front' = TRUE /\ spent' = FALSE /\ stage' = "peek" /\ total' = total
      BY <2>1, <2>3, StreamAssumption DEF NextEntry, Entries, static
    <3>2. size'[entry'] \in Sizes
      BY <3>1
    <3>3. size'[entry'] \in Nat
      BY <3>2, StreamAssumption
    <3>4. 0 \in 0..size'[entry'] /\ 0 \in 0..0
      BY <3>3
    <3>5. 0 \in 0..PeekBytes /\ 0 \in 0..(MaxAttempts - 1)
      BY StreamAssumption
    <3> QED
      BY <3>1, <3>4, <3>5
  <2> QED
    BY <2>2, <2>3
<1>7. CASE UNCHANGED vars
  BY <1>7 DEF vars, static, reader, upload
<1> QED
  BY <1>1, <1>2, <1>3, <1>4, <1>5, <1>6, <1>7 DEF Next

(* An attempt only appends numbers to what it has got. *)
LEMMA MoreOfIt ==
  ASSUME NEW s \in Seq(Nat), NEW n \in Nat, NEW k \in Nat
  PROVE  s \o [j \in 1..n |-> k + j] \in Seq(Nat)
<1>1. [j \in 1..n |-> k + j] \in [1..n -> Nat]
  OBVIOUS
<1>2. [j \in 1..n |-> k + j] \in Seq(Nat)
  BY <1>1, SeqDef
<1> QED
  BY <1>2, ConcatProperties

LEMMA BytesStep == Numbers /\ Bytes /\ [Next]_vars => Bytes'
<1> SUFFICES ASSUME Numbers, Bytes, [Next]_vars PROVE Bytes'
  OBVIOUS
<1> USE DEF Bytes
<1>0. extracted \in Nat /\ PeekBytes \in Nat /\ PartBytes \in Nat \ {0}
  BY StreamAssumption DEF Numbers
<1>1. Len(got) \in Nat
  OBVIOUS
<1>2. Room \in Nat
  BY <1>0, <1>1 DEF Room
<1>3. CASE UNCHANGED <<got, stored>>
  BY <1>3
<1>4. CASE ReadOn
  <2>1. UNCHANGED stored
    BY <1>4 DEF ReadOn, Trip
  <2>2. CASE UNCHANGED got
    BY <2>1, <2>2
  <2>3. CASE ~UNCHANGED got
    <3>1. PICK n \in 1..Room : got' = got \o [j \in 1..n |-> extracted + j]
      BY <1>4, <2>3 DEF ReadOn, Trip, upload
    <3> QED
      BY <1>0, <2>1, <3>1, MoreOfIt
  <2> QED
    BY <2>2, <2>3
<1>5. CASE ReadPeek
  <2> DEFINE n == IF Room < peeked THEN Room ELSE peeked
  <2>0. n \in Nat
    BY <1>0, <1>2 DEF Numbers
  <2>1. got' = got \o [j \in 1..n |-> j]
    BY <1>5 DEF ReadPeek
  <2> HIDE DEF n
  <2>2. [j \in 1..n |-> j] = [j \in 1..n |-> 0 + j]
    OBVIOUS
  <2>3. got' \in Seq(Nat)
    BY <2>0, <2>1, <2>2, MoreOfIt
  <2> QED
    BY <1>5, <2>3 DEF ReadPeek
<1>6. CASE AttemptFails \/ UploadOk \/ UploadGivenUp
  <2>1. << >> \in Seq(Nat)
    OBVIOUS
  <2>2. got' \in Seq(Nat)
    BY <1>6, <2>1 DEF AttemptFails, UploadOk, UploadGivenUp, NextEntry, upload
  <2>3. [bytes |-> got, resumed |-> spent, there |-> TRUE] \in Objects
    BY DEF Objects, Numbers
  <2>4. stored' \in [Entries -> Objects]
    BY <1>6, <2>3 DEF AttemptFails, UploadOk, UploadGivenUp
  <2> QED
    BY <2>2, <2>4
<1> QED
  BY <1>3, <1>4, <1>5, <1>6 DEF Next, vars, upload, PeekRead, PeekDone, Trip

(* The reads stay within the entry, the peek within its buffer, and the     *)
(* attempts within their number.                                            *)
THEOREM TypeCorrect == Spec => []TypeOK
BY TypeParts, TypeInit, NumbersStep, BytesStep, PTL DEF Spec
=============================================================================
