---------------------------- MODULE OverlapCheck ----------------------------
(***************************************************************************)
(* Rule 11, bombdefence.Checker.OverlapCheck (internal/bombdefence/        *)
(* checker.go), on the byte ranges that openZip collects (internal/        *)
(* extraction/zip_open.go): sort them by where they start, then walk over  *)
(* them once, comparing neighbours.                                        *)
(*                                                                         *)
(* A declared size is an unsigned number of 64 bits, an offset and the end *)
(* of a range are signed ones.  A word has 2 * Half values: Half is 2^63.  *)
(*                                                                         *)
(* sort.Slice is not stable: ranges that start at the same offset come out *)
(* in any order.                                                           *)
(***************************************************************************)
EXTENDS Integers, Sequences

CONSTANTS
  Half,
  NumFiles,    (* records in the central directory                          *)
  Offsets,     (* offsets at which compressed data may start                *)
  Lengths      (* declared compressed sizes: CompressedSize64               *)

ASSUME OverlapAssumption ==
  /\ Half \in Nat \ {0}
  /\ NumFiles \in Nat
  /\ Offsets \subseteq 0..(Half - 1)
  /\ Lengths \subseteq 0..(2 * Half - 1)

VARIABLES
  located,  (* records whose local header DataOffset could resolve          *)
  data,     (* data[f]: where the data of record f is declared to be        *)
  sorted,   (* the records of the ranges, in the order of the walk          *)
  i,        (* the position of the walk                                     *)
  verdict

vars == <<located, data, sorted, i, verdict>>

Files  == 1..NumFiles
Ranges == [start : Offsets, size : Lengths]

(* The int64 with the low bits of n: int64(uint64), and a sum's overflow.   *)
Int64(n) == ((n + Half) % (2 * Half)) - Half

(* EntryDataRange.End, as openZip computes it.                              *)
End(r) == Int64(r.start + Int64(r.size))

(* The orders sort.Slice may produce. *)
Orders(S, range) ==
  {s \in UNION {[1..n -> S] : n \in 0..NumFiles} :
     /\ \A f \in S : \E k \in DOMAIN s : s[k] = f
     /\ \A j, k \in DOMAIN s : j # k => s[j] # s[k]
     /\ \A j, k \in DOMAIN s : j < k => range[s[j]].start <= range[s[k]].start}

TypeOK ==
  /\ located \subseteq Files
  /\ data \in [Files -> Ranges]
  /\ sorted \in UNION {[1..n -> Files] : n \in 0..NumFiles}
  /\ i \in Nat /\ (i > 2 => i <= Len(sorted) + 1)
  /\ verdict \in {"none", "accept", "reject"}

(* openZip: a record whose header cannot be resolved has no range. *)
Init ==
  /\ located \in SUBSET Files
  /\ data \in [Files -> Ranges]
  /\ sorted = << >>
  /\ i = 0
  /\ verdict = "none"

Sort ==
  /\ i = 0
  /\ sorted' \in Orders(located, data)
  /\ i' = 2
  /\ UNCHANGED <<located, data, verdict>>

(* Mutant of Overlapping: ranges that touch. *)
OverlappingOrTouching == data[sorted[i]].start <= End(data[sorted[i - 1]])

Overlapping == data[sorted[i]].start < End(data[sorted[i - 1]])

(* Mutant of Walk: two ranges at a time. *)
WalkByTwo ==
  /\ i > 0
  /\ i <= Len(sorted)
  /\ verdict = "none"
  /\ IF Overlapping THEN verdict' = "reject" /\ UNCHANGED i
                    ELSE i' = i + 2 /\ UNCHANGED verdict
  /\ UNCHANGED <<located, data, sorted>>

Walk ==
  /\ i > 0
  /\ i <= Len(sorted)
  /\ verdict = "none"
  /\ IF Overlapping THEN verdict' = "reject" /\ UNCHANGED i
                    ELSE i' = i + 1 /\ UNCHANGED verdict
  /\ UNCHANGED <<located, data, sorted>>

(* Mutant of Accept: the last pair is not compared. *)
AcceptBeforeLast ==
  /\ i + 1 > Len(sorted)
  /\ i > 0
  /\ verdict = "none"
  /\ verdict' = "accept"
  /\ UNCHANGED <<located, data, sorted, i>>

(* With fewer than two ranges there is nothing to compare.                  *)
Accept ==
  /\ i > Len(sorted)
  /\ i > 0
  /\ verdict = "none"
  /\ verdict' = "accept"
  /\ UNCHANGED <<located, data, sorted, i>>

Next == Sort \/ Walk \/ Accept

Spec == Init /\ [][Next]_vars /\ WF_vars(Next)

-----------------------------------------------------------------------------
(* Where the data of a range ends according to its header, and whether an   *)
(* int64 can say so.                                                        *)
Stop(r) == r.start + r.size
Fits(r) == Stop(r) < Half

Apart(r, s) == Stop(r) <= s.start \/ Stop(s) <= r.start

(* BR-BOMB-009: comparing neighbours is enough.  In an accepted archive no  *)
(* byte of compressed data is declared to belong to two located entries,    *)
(* whichever way sort.Slice orders ranges that start together.  Of two      *)
(* entries the one that starts first must have an end that fits; what else  *)
(* the directory declares, also between the two, does not matter.           *)
AcceptedAreApart ==
  verdict = "accept" =>
    \A f, g \in located :
      /\ f # g
      /\ Fits(data[f])
      /\ data[f].start < data[g].start \/ Fits(data[g])
      => Apart(data[f], data[g])

(* An archive is rejected only for two entries of which one starts inside   *)
(* the data of the other, whatever their sizes; neighbours that merely      *)
(* touch are no reason.                                                     *)
RejectedOverlap ==
  verdict = "reject" =>
    \E f, g \in located : /\ f # g
                          /\ data[f].start <= data[g].start
                          /\ data[g].start < Stop(data[f])

-----------------------------------------------------------------------------
(* What BR-BOMB-009 says and the code does not do for sizes of 2^63 and     *)
(* more: the walk compares the intervals [DataOffset, DataOffset +          *)
(* CompressedSize64) of the directory.                                      *)
AllAcceptedAreApart ==
  verdict = "accept" =>
    \A f, g \in located : f # g => Apart(data[f], data[g])
=============================================================================
