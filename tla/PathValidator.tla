---------------------------- MODULE PathValidator ----------------------------
(***************************************************************************)
(* validation.PathValidator.Sanitize (internal/validation/validator.go):   *)
(* from the name of an entry in the archive to the file name that goes     *)
(* into the key of the child, or a refusal.                                *)
(*                                                                         *)
(* A name is a sequence of characters, and a character <<k, c>> is c       *)
(* URL-encoded k times: <<0, ".">> is ".", <<1, ".">> is "%2E" and         *)
(* <<2, ".">> is "%252E".  "z" stands for the letters that are no hex      *)
(* digits, "ctl" for control characters and bytes that are no UTF-8.       *)
(***************************************************************************)
EXTENDS Integers, SequencesExt

CONSTANT MaxFilename     (* maxFilenameBytes *)

ASSUME FilenameAssumption == MaxFilename \in Nat

Symbols    == {"z", ".", "/", "\\", ":", "%", "ctl"}
Characters(depth) == (0..depth) \X Symbols

Plain(c) == <<0, c>>
Dot      == <<Plain(".")>>
DotDot   == <<Plain("."), Plain(".")>>

(* url.PathUnescape: external.  A "%" that starts no escape is an error, on *)
(* which Sanitize goes on with the raw name.                                *)
Unescape(name) ==
  IF \E k \in DOMAIN name : name[k] = Plain("%") THEN name
  ELSE [k \in DOMAIN name |->
          IF name[k][1] > 0 THEN <<name[k][1] - 1, name[k][2]>> ELSE name[k]]

ForwardSlashes(name) ==
  [k \in DOMAIN name |-> IF name[k] = Plain("\\") THEN Plain("/") ELSE name[k]]

(* Mutant of Normalised: decoding comes second. *)
NormalisedFirst(raw) == Unescape(ForwardSlashes(raw))

Normalised(raw) == ForwardSlashes(Unescape(raw))

IsAbsolute(path)     == path # << >> /\ path[1] = Plain("/")
HasDrivePrefix(path) == /\ Len(path) >= 2
                        /\ path[1] = Plain("z")
                        /\ path[2] = Plain(":")

(* Where the segments of a path start and end, the slashes left out.        *)
Bounds(path) ==
  LET cuts == {0, Len(path) + 1} \cup {k \in DOMAIN path : path[k] = Plain("/")}
  IN {b \in cuts \X cuts :
        b[1] < b[2] /\ \A c \in cuts : ~(b[1] < c /\ c < b[2])}

Segment(path, b) == SubSeq(path, b[1] + 1, b[2] - 1)

(* filepath.Clean of a path without ".." segments (external) drops those    *)
(* that are empty or ".".                                                   *)
Kept(path) == {b \in Bounds(path) : Segment(path, b) \notin {<< >>, Dot}}

(* The last segment of the cleaned path; empty if that is ".".              *)
Base(path) ==
  IF Kept(path) = {} THEN << >>
  ELSE Segment(path, CHOOSE b \in Kept(path) :
                       \A c \in Kept(path) : c[1] <= b[1])

Bytes(name) == FoldLeft(LAMBDA n, c : n + 1 + 2 * c[1], 0, name)

(* Sanitize returns no error.  Its second look for ".." after Clean cannot  *)
(* find any.                                                                *)
Accepts(raw) ==
  LET path == Normalised(raw)
      base == Base(path)
  IN /\ raw # << >>
     /\ ~HasDrivePrefix(path)
     /\ ~IsAbsolute(path)
     /\ \A b \in Bounds(path) : Segment(path, b) # DotDot
     /\ base # << >>
     /\ \A k \in DOMAIN base : base[k] # Plain("ctl")
     /\ Bytes(base) <= MaxFilename

(* What Sanitize returns then. *)
SafeName(raw) == Base(Normalised(raw))
=============================================================================
