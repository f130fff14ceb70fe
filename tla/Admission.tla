------------------------------ MODULE Admission ------------------------------
(***************************************************************************)
(* What an archive must pass before any of an entry's bytes are read:      *)
(* openZip sums up the central directory (internal/extraction/zip_open.go), *)
(* PreCheck compares the sums with rules 1, 4 and 12, and processEntry     *)
(* (service.go) puts each entry through Sanitize and EntryCheck's rules 5, *)
(* 6 and 9 (internal/bombdefence/checker.go).                              *)
(*                                                                         *)
(* Declared sizes are unsigned numbers of 64 bits in the headers and       *)
(* signed ones in the sums and comparisons.  Here a word has 2 * Half      *)
(* values: Half is 2^63 in the code.                                       *)
(*                                                                         *)
(* Rule 11 is left to OverlapCheck, and what is done with an entry that    *)
(* passes to Extraction.                                                   *)
(***************************************************************************)
EXTENDS PathValidator

CONSTANTS
  Half,
  MaxFiles,        (* bound on the records of the central directory         *)
  Sizes,           (* declared sizes of an entry, uncompressed              *)
  PackedSizes,     (* and compressed                                        *)
  Names,           (* the names entries may have                            *)
  MaxCompressed,   (* rule 1:  MaxCompressedSizeBytes                       *)
  MaxEntryCount,   (* rule 4                                                *)
  MaxTotal,        (* rule 12: MaxTotalDeclaredUncompressedBytes            *)
  MaxDepth,        (* rule 5:  MaxDirectoryDepth                            *)
  MaxSingle        (* rule 9:  MaxSingleFileSizeBytes                       *)

(* Limits are positive int64: config.Validate. *)
ASSUME AdmissionAssumption ==
  /\ Half \in Nat \ {0} /\ MaxFiles \in Nat
  /\ Sizes \subseteq 0..(2 * Half - 1)
  /\ PackedSizes \subseteq 0..(2 * Half - 1)
  /\ {MaxCompressed, MaxTotal, MaxSingle} \subseteq 1..(Half - 1)
  /\ {MaxEntryCount, MaxDepth} \subseteq Nat \ {0}
  /\ Names \subseteq Seq(Nat \X Symbols)

VARIABLES
  size,        (* size[f], packed[f]: the declared sizes of record f        *)
  packed,
  i,           (* the record in hand                                        *)
  total,       (* TotalDeclaredUncompressedBytes                            *)
  packedTotal, (* TotalCompressedBytes                                      *)
  unsupported, (* Encrypted or HasDeflate64Entries                          *)
  name,        (* the name of the entry in hand once it has passed          *)
  verdict

sums == <<total, packedTotal, unsupported>>
vars == <<size, packed, i, sums, name, verdict>>

NumFiles   == Len(size)
Words      == (-Half)..(Half - 1)
PreRules   == {"rule 1", "rule 4", "rule 12"}
LaterRules == {"rule 11", "rule 5", "rule 6", "rule 9"}

TypeOK ==
  /\ size \in Seq(Sizes) /\ packed \in Seq(PackedSizes)
  /\ Len(packed) = NumFiles /\ NumFiles <= MaxFiles
  /\ i \in 1..(NumFiles + 1)
  /\ total \in Words /\ packedTotal \in Words
  /\ unsupported \in BOOLEAN
  /\ name \in Names \cup {<< >>}
  /\ verdict \in {"reading", "read", "checked", "entries", "admitted",
                  "unsupported", "path"} \cup PreRules \cup LaterRules

Init ==
  /\ \E n \in 0..MaxFiles : /\ size \in [1..n -> Sizes]
                             /\ packed \in [1..n -> PackedSizes]
  /\ i = 1
  /\ total = 0 /\ packedTotal = 0
  /\ unsupported = FALSE
  /\ name = << >>
  /\ verdict = "reading"

(* Mutant of Int64: a number of any size. *)
Int64Unbounded(n) == n

(* The int64 with the low bits of n: int64(uint64), and a sum's overflow.   *)
Int64(n) == ((n + Half) % (2 * Half)) - Half

(* One record of openZip's loop; its flags say whether it is encrypted, its *)
(* method whether it is Deflate64.                                          *)
ReadHeader ==
  /\ verdict = "reading" /\ i <= NumFiles
  /\ total' = Int64(total + Int64(size[i]))
  /\ packedTotal' = Int64(packedTotal + Int64(packed[i]))
  /\ \E u \in BOOLEAN : unsupported' = (unsupported \/ u)
  /\ i' = i + 1
  /\ UNCHANGED <<size, packed, name, verdict>>

HeadersRead ==
  /\ verdict = "reading" /\ i > NumFiles
  /\ verdict' = IF unsupported THEN "unsupported" ELSE "read"
  /\ UNCHANGED <<size, packed, i, sums, name>>

Refuse(rule) == /\ verdict' = rule
                /\ UNCHANGED <<size, packed, i, sums, name>>

(* Mutant of OverTotal: the limit itself is refused. *)
OverTotalOffByOne == total >= MaxTotal

OverCompressed == packedTotal > MaxCompressed
OverCount      == NumFiles > MaxEntryCount
OverTotal      == total > MaxTotal

(* The first rule that is broken, in this order, is the one reported. *)
PreCheck ==
  /\ verdict = "read"
  /\ \/ OverCompressed /\ Refuse("rule 1")
     \/ ~OverCompressed /\ OverCount /\ Refuse("rule 4")
     \/ ~OverCompressed /\ ~OverCount /\ OverTotal /\ Refuse("rule 12")
     \/ /\ ~OverCompressed /\ ~OverCount /\ ~OverTotal
        /\ verdict' = "checked"
        /\ UNCHANGED <<size, packed, i, sums, name>>

(* Rule 11, which is OverlapCheck's. *)
CheckOverlap ==
  /\ verdict = "checked"
  /\ \/ Refuse("rule 11")
     \/ /\ verdict' = "entries"
        /\ i' = 1
        /\ UNCHANGED <<size, packed, sums, name>>

(* strings.Count(filepath.Clean(file.Name), "/"), of the raw name. *)
DirectoryDepth(raw) == Cardinality(Kept(raw)) - 1

Sanitized == {raw \in Names : Accepts(raw)}
TooDeep   == {raw \in Sanitized : DirectoryDepth(raw) > MaxDepth}
TooLarge  == Int64(size[i]) > MaxSingle

(* processEntry up to the opening of the entry: Sanitize, then EntryCheck.  *)
(* The entry's name and whether it is a link have not been looked at        *)
(* before, so they are chosen here.                                         *)
CheckEntry ==
  /\ verdict = "entries" /\ i <= NumFiles /\ name = << >>
  /\ \/ Names # Sanitized /\ Refuse("path")
     \/ \E raw \in Sanitized, link \in BOOLEAN :
          \/ raw \in TooDeep /\ Refuse("rule 5")
          \/ raw \notin TooDeep /\ link /\ Refuse("rule 6")
          \/ raw \notin TooDeep /\ ~link /\ TooLarge /\ Refuse("rule 9")
          \/ /\ raw \notin TooDeep /\ ~link /\ ~TooLarge
             /\ name' = raw
             /\ UNCHANGED <<size, packed, i, sums, verdict>>

(* The entry is opened and processed, and the loop goes on. *)
NextEntry ==
  /\ name # << >>
  /\ name' = << >>
  /\ i' = i + 1
  /\ UNCHANGED <<size, packed, sums, verdict>>

Admit ==
  /\ verdict = "entries" /\ i > NumFiles
  /\ verdict' = "admitted"
  /\ UNCHANGED <<size, packed, i, sums, name>>

Next == \/ ReadHeader \/ HeadersRead
        \/ PreCheck \/ CheckOverlap
        \/ CheckEntry \/ NextEntry \/ Admit

Spec == Init /\ [][Next]_vars

-----------------------------------------------------------------------------
(* Properties                                                               *)

(* The sums of the first n declared sizes. *)
SumTo(sz) ==
  LET sum[n \in 0..Len(sz)] == IF n = 0 THEN 0 ELSE sum[n - 1] + sz[n]
  IN  sum

Declared(sz) == SumTo(sz)[Len(sz)]

(* Rules 1 and 12 (checker.go PreCheck) compare sums that may have wrapped. *)
(* Whenever the true sums fit a word, the rules say what they mean: an      *)
(* archive is past PreCheck only if both sums are within their limits, and  *)
(* is refused by one of the two rules only if that sum is not.              *)
SumsThatFitAreExact ==
  (Declared(size) < Half /\ Declared(packed) < Half) =>
    /\ verdict \in {"checked", "entries", "admitted", "path"} \cup LaterRules =>
         Declared(size) <= MaxTotal /\ Declared(packed) <= MaxCompressed
    /\ verdict = "rule 12" => Declared(size) > MaxTotal
    /\ verdict = "rule 1"  => Declared(packed) > MaxCompressed

(* BR-PATH-001, 003 and 004: whatever was encoded, and however often, the   *)
(* name that goes into the key of a child is one non-empty segment, without *)
(* a separator of either kind, and not "..".                                *)
AcceptedNameIsOneSegment ==
  name # << >> =>
    LET safe == SafeName(name) IN
      /\ safe \notin {<< >>, Dot, DotDot}
      /\ \A k \in DOMAIN safe : safe[k] \notin {Plain("/"), Plain("\\")}

(* BR-PATH-005: Sanitize accepts a name it returned and returns it          *)
(* unchanged.                                                               *)
AcceptedNamesAreStable ==
  name # << >> =>
    Accepts(SafeName(name)) /\ SafeName(SafeName(name)) = SafeName(name)
=============================================================================
