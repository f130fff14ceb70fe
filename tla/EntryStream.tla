---------------------------- MODULE EntryStream -----------------------------
(***************************************************************************)
(* The bytes of the entries of one archive on their way from archive/zip   *)
(* to the staging bucket: bombdefence's limitedReader (rules 2 and 3), the *)
(* peek for the MIME type and the reader rebuilt from it (extraction/      *)
(* zip_open.go), the attempts of the upload, and the next entry            *)
(* (extraction/service.go).  It is the detail behind "fresh" and "short"   *)
(* of module Extraction.                                                   *)
(*                                                                         *)
(* A byte is the number of its place in the entry; quantities are in units *)
(* that keep the order of the limits.                                      *)
(***************************************************************************)
EXTENDS Naturals, Sequences

CONSTANTS
  NumEntries,
  Sizes,        (* true decompressed sizes an entry may have                *)
  Compressed,   (* declared compressed sizes an entry may have              *)
  MaxExtracted, (* BombDefenceConfig.MaxExtractedSizeBytes                  *)
  MaxRatio,     (* BombDefenceConfig.MaxCompressionRatio                    *)
  Floor,        (* smallSampleFloorBytes                                    *)
  PeekBytes,    (* 512                                                      *)
  PartBytes,    (* size of the uploader's part buffer                       *)
  MaxAttempts   (* RetryConfig.MaxAttempts                                  *)

ASSUME StreamAssumption ==
  /\ NumEntries \in Nat \ {0}
  /\ Sizes \subseteq Nat /\ Compressed \subseteq Nat
  /\ MaxExtracted \in Nat \ {0} /\ MaxRatio \in Nat \ {0}
  /\ Floor \in Nat \ {0}
  /\ PeekBytes \in Nat \ {0}
  /\ PartBytes \in Nat /\ PeekBytes <= PartBytes
  /\ MaxAttempts \in Nat \ {0}

Entries == 1..NumEntries

VARIABLES
  size, comp,  (* of each entry; never change                               *)
  entry,       (* the entry in hand                                         *)
  stage,       (* what is done with it                                      *)
  extracted,   (* limitedReader.extracted: bytes read below it              *)
  passed,      (* bytes it has passed on                                    *)
  peeked,      (* bytes in the peek buffer                                  *)
  front,       (* the rebuilt reader still has the peek buffer before it    *)
  attempt,
  got,         (* what the running attempt has read                         *)
  spent,       (* an earlier attempt has read something                     *)
  stored,      (* stored[i]: the object of entry i                          *)
  total        (* bytes passed on for the whole archive                     *)

static == <<size, comp>>
reader == <<extracted, passed, peeked, front>>
upload == <<attempt, got, spent>>
vars   == <<static, entry, stage, reader, upload, stored, total>>

NoObject == [bytes |-> << >>, resumed |-> FALSE, there |-> FALSE]

TypeOK ==
  /\ size \in [Entries -> Sizes]
  /\ comp \in [Entries -> Compressed]
  /\ entry \in Entries
  /\ stage \in {"peek", "upload", "aborted", "done"}
  /\ extracted \in 0..size[entry]
  /\ passed \in 0..extracted
  /\ peeked \in 0..PeekBytes
  /\ front \in BOOLEAN
  /\ attempt \in 0..(MaxAttempts - 1)
  /\ got \in Seq(Nat)
  /\ spent \in BOOLEAN
  /\ stored \in [Entries -> [bytes : Seq(Nat), resumed : BOOLEAN,
                             there : BOOLEAN]]
  /\ total \in Nat

Init ==
  /\ size \in [Entries -> Sizes]
  /\ comp \in [Entries -> Compressed]
  /\ entry = 1
  /\ stage = "peek"
  /\ extracted = 0 /\ passed = 0
  /\ peeked = 0 /\ front = TRUE
  /\ attempt = 0 /\ got = << >> /\ spent = FALSE
  /\ stored = [i \in Entries |-> NoObject]
  /\ total = 0

Left == size[entry] - extracted

-----------------------------------------------------------------------------
(* Mutant of Trips: the bytes just read are not counted. *)
TripsLate(x) == \/ extracted > MaxExtracted
                \/ comp[entry] >= Floor /\ extracted > MaxRatio * comp[entry]

(* Rule 2 or rule 3 is broken when x bytes have been read. *)
Trips(x) == \/ x > MaxExtracted
            \/ comp[entry] >= Floor /\ x > MaxRatio * comp[entry]

(* limitedReader.Read: n bytes are read below and passed on, or, when a     *)
(* rule trips, none of them is and the archive is aborted.                  *)
Pass(n) ==
  /\ ~Trips(extracted + n)
  /\ extracted' = extracted + n
  /\ passed' = passed + n
  /\ total' = total + n

Trip(n) ==
  /\ Trips(extracted + n)
  /\ extracted' = extracted + n
  /\ stage' = "aborted"
  /\ UNCHANGED <<static, entry, passed, peeked, front, upload, stored, total>>

-----------------------------------------------------------------------------
(* peekReader: io.ReadFull into a buffer of PeekBytes. *)

PeekRead ==
  /\ stage = "peek"
  /\ \E n \in 1..(PeekBytes - peeked) :
       /\ n <= Left
       /\ \/ /\ Pass(n)
             /\ peeked' = peeked + n
             /\ UNCHANGED <<static, entry, stage, front, upload, stored>>
          \/ Trip(n)

(* Mutant of PeekDone: the peek is not put back. *)
PeekDoneDropped ==
  /\ stage = "peek"
  /\ peeked = PeekBytes \/ Left = 0
  /\ stage' = "upload"
  /\ front' = FALSE
  /\ UNCHANGED <<static, entry, extracted, passed, peeked, upload, stored,
                 total>>

PeekDone ==
  /\ stage = "peek"
  /\ peeked = PeekBytes \/ Left = 0
  /\ stage' = "upload"
  /\ UNCHANGED <<static, entry, reader, upload, stored, total>>

-----------------------------------------------------------------------------
(* Uploader.Upload fills its part buffer from the rebuilt reader; when the  *)
(* call is made again it is given the same reader.                          *)

Room == PartBytes - (Len(got) % PartBytes)

(* byteReader.Read copies from the start of the peek buffer, and is over    *)
(* when all of it fits.                                                     *)
ReadPeek ==
  /\ stage = "upload"
  /\ front
  /\ LET n == IF Room < peeked THEN Room ELSE peeked
     IN got' = got \o [j \in 1..n |-> j]
  /\ front' = (Room < peeked)
  /\ UNCHANGED <<static, entry, stage, extracted, passed, peeked, attempt,
                 spent, stored, total>>

ReadOn ==
  /\ stage = "upload"
  /\ ~front
  /\ \E n \in 1..Room :
       /\ n <= Left
       /\ \/ /\ Pass(n)
             /\ got' = got \o [j \in 1..n |-> extracted + j]
             /\ UNCHANGED <<static, entry, stage, peeked, front, attempt,
                            spent, stored>>
          \/ Trip(n)

(* Mutant of AttemptFails: an attempt too many. *)
AttemptFailsOneMore ==
  /\ stage = "upload"
  /\ attempt < MaxAttempts
  /\ attempt' = attempt + 1
  /\ spent' = (spent \/ got # << >>)
  /\ got' = << >>
  /\ UNCHANGED <<static, entry, stage, reader, stored, total>>

AttemptFails ==
  /\ stage = "upload"
  /\ attempt + 1 < MaxAttempts
  /\ attempt' = attempt + 1
  /\ spent' = (spent \/ got # << >>)
  /\ got' = << >>
  /\ UNCHANGED <<static, entry, stage, reader, stored, total>>

(* The loop of Process goes on with a new limitedReader. *)
NextEntry ==
  /\ IF entry = NumEntries
       THEN stage' = "done" /\ UNCHANGED <<entry, reader, upload>>
       ELSE /\ entry' = entry + 1
            /\ stage' = "peek"
            /\ extracted' = 0 /\ passed' = 0 /\ peeked' = 0 /\ front' = TRUE
            /\ attempt' = 0 /\ got' = << >> /\ spent' = FALSE
  /\ UNCHANGED <<static, total>>

UploadOk ==
  /\ stage = "upload"
  /\ ~front /\ Left = 0
  /\ stored' = [stored EXCEPT ![entry] =
                  [bytes |-> got, resumed |-> spent, there |-> TRUE]]
  /\ NextEntry

(* Attempts exhausted, or an error that is not retried. *)
UploadGivenUp ==
  /\ stage = "upload"
  /\ UNCHANGED stored
  /\ NextEntry

Next ==
  \/ PeekRead \/ PeekDone
  \/ ReadPeek \/ ReadOn \/ AttemptFails
  \/ UploadOk \/ UploadGivenUp

Spec == Init /\ [][Next]_vars

-----------------------------------------------------------------------------
(* BR-BOMB-003, BR-BOMB-004 of one entry: whatever sizes the reads have,    *)
(* and across the peek and all attempts of the upload, no more bytes of an  *)
(* entry come out of the limitedReader than the size and ratio limits       *)
(* allow: the read that would exceed them passes nothing on.                *)
LimiterHolds ==
  /\ passed <= MaxExtracted
  /\ comp[entry] >= Floor => passed <= MaxRatio * comp[entry]

(* What an upload stores is the end of the entry, in order and without gaps *)
(* or repetitions although it is read through two buffers; and it is the    *)
(* whole entry unless an earlier attempt had read from the stream.          *)
StoredIsTail ==
  \A i \in Entries : stored[i].there =>
    LET k == Len(stored[i].bytes)
    IN /\ k <= size[i]
       /\ stored[i].bytes = [j \in 1..k |-> size[i] - k + j]
       /\ ~stored[i].resumed => k = size[i]

(* BR-BOMB-003: the counter of rule 2 is cumulative across all entries in   *)
(* the archive.                                                             *)
ArchiveWithinLimit == total <= MaxExtracted
=============================================================================
