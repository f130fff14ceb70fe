---------------------------- MODULE MCAdmission ----------------------------
EXTENDS Admission

CONSTANT MaxLength      (* bound on the characters of an enumerated name     *)

z     == Plain("z")
slash == Plain("/")

MCCharacters == {z, Plain("."), slash, Plain("\\"), Plain(":"), Plain("ctl"),
                 <<1, "/">>, <<2, ".">>}

(* Every short name, and longer ones: nested, climbing in escapes, with an  *)
(* escape that does not decode.                                             *)
MCNames ==
  BoundedSeq(MCCharacters, MaxLength) \cup
  { <<z, slash, z, slash, z>>, <<z, slash, Plain("."), slash, slash, z>>,
    <<z, slash, <<1, ".">>, <<1, ".">>, slash, z>>,
    <<z, <<1, "\\">>, <<1, ".">>, Plain(".")>>,
    <<Plain("%"), <<1, ".">>, <<1, "/">>, z>> }
=============================================================================
