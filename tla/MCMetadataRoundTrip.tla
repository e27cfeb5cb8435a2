------------------------- MODULE MCMetadataRoundTrip -------------------------
(* One entry with a value of some characters, or three with hardly any. *)
EXTENDS MetadataRoundTrip

Draft(type, stem, letters, length) ==
  [type |-> type, image |-> 1, name |-> "text", extent |-> NoExtent,
   stem |-> stem, letters |-> letters, length |-> length]

Marked == {"x", "&", "<", ">", "\"", " ", "tab", "lf", "cr", "nul"}

LongDrafts ==
  {Draft("String", << >>, Marked, 3), Draft("String", << >>, {"x"}, 11),
   Draft("Boolean", << >>, {"true", "false", "0", "1", "tab", "x"}, 3),
   Draft("TimePoint", <<"2000-02-29", "T", "23:59:60">>,
         DOMAIN Offsets \cup {"Z", "z", ".", "5", "+", "-", " ", "tab"}, 3),
   Draft("TimePoint", << >>, {"2000-02-29", "T", "t", "00:00:00", " "}, 4),
   Draft("Int16", <<"-">>, {"3", "2", "7", "6", "8"}, 5),
   Draft("Int16", <<"0", "o">>, {"0", "1", "2", "7"}, 6),
   Draft("Float32", << >>, {"+", "-", "nan", "NaN", "inf", "Inf"}, 2),
   Draft("Float32", << >>, {"1", ".", "e", "-", " "}, 5),
   Draft("Complex32", <<"(">>, {"1", ".", ",", ")", " "}, 5)}
  \cup {Draft(type, << >>, {"0", "1", "2", "5", "7", "8", "+", "-", " "}, 4) :
          type \in {"Int8", "UInt8"}}
  \cup {Draft("TimePoint", <<date, "T">>, DOMAIN Clocks \cup {"Z"}, 2) : date \in DOMAIN Dates}
  \cup {Draft("UInt8", <<"0", "x">>, {"0", "1", "f", "lf"}, 3),
        Draft("Int8", <<"0", "o">>, {"0", "3", "4", "7"}, 4),
        Draft("UInt8", <<"0", "b">>, {"0", "1"}, 9)}
  \cup {[Draft("FITSKeyword", << >>, Marked, 3) EXCEPT !.name = "KEY"]}
  \cup {[Draft(type, << >>, {"x"}, 1) EXCEPT !.name = "id", !.extent = shape] :
          type \in BlockTypes, shape \in
            [length : {None, 0, 1}, rows : {None, 0, 1}, columns : {None, 1}, bytes : {0, 2}]}

\* A value of no or one character, in each scope, and an empty Vector.
BriefDrafts ==
  {[Draft(type, << >>, {"x"}, 1) EXCEPT !.image = image, !.name = name] :
     type \in {"String", "FITSKeyword"}, image \in 0 .. 2,
     name \in {"id", "XISF:id", "XISF:CreationTime"}}
  \cup {[Draft("Vector", << >>, {}, 0) EXCEPT !.name = "id", !.extent.length = 0]}

AllNames == {"text", "id", "KEY", "XISF:id", "XISF:CreationTime", "XISF:CreatorApplication"}
XisfNames == {"XISF:id", "XISF:CreationTime", "XISF:CreatorApplication"}
MandatoryNames == {"XISF:CreationTime", "XISF:CreatorApplication"}
=============================================================================
