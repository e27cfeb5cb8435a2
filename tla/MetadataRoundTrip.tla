-------------------------- MODULE MetadataRoundTrip --------------------------
(***************************************************************************)
(* Metadata from a caller of the writer through the XML header to a Document *)
(* (src/src/writer.cpp: the checks of write_impl, escape_xml, make_metadata_- *)
(* xml, make_header; src/src/reader.cpp: start_element for Property and       *)
(* FITSKeyword).  expat, in between, does what the XML recommendation says.   *)
(*                                                                         *)
(* A name is a member of Names; whether it has the syntax of an identifier or  *)
(* a keyword is a set.  The comment of a keyword and the creator application   *)
(* are treated like the values here; where blocks lie is in WriterLayout.     *)
(***************************************************************************)
EXTENDS ValueSyntax

CONSTANTS
  Names, Identifiers, Keywords,   \* the latter of the syntax of their kind
  Mandatory,          \* XISF:CreationTime and XISF:CreatorApplication
  UnitNames,          \* the identifiers that start with XISF:
  Images,             \* number of images
  Long, Brief,        \* entries a caller begins with, and what can be typed
  MaxBrief,           \* bound of the model: entries in a header of brief ones
  MaxValue, MaxEntries,  \* max_metadata_value_bytes and max_metadata_entries of
                         \* the writer,
  ReaderMaxValue, ReaderMaxEntries   \* and of the reader

None == -1
NoExtent == [length |-> None, rows |-> None, columns |-> None, bytes |-> 0]

\* Vector and Matrix stand for the block types of property_types.hpp, with
\* elements of ElementSize bytes; a keyword has no type.
ElementSize == 2
BlockTypes == {"Vector", "Matrix"}
Types == ScalarTypes \cup BlockTypes \cup {"String", "TimePoint", "FITSKeyword"}

\* `extent` of a block is its length, rows and columns as far as they are given
\* and the size of block_bytes; image is 0 for the XISF unit.
ASSUME RoundTripAssumption ==
  /\ Mandatory \subseteq UnitNames /\ UnitNames \subseteq Identifiers
  /\ Identifiers \cup Keywords \subseteq Names
  /\ Images \in Nat \ {0} /\ MaxBrief \in Nat
  /\ \A d \in Long \cup Brief :
       /\ d.type \in Types /\ d.name \in Names /\ d.image \in 0 .. Images + 1
       /\ d.type \notin BlockTypes => d.extent = NoExtent
       /\ d.length \in Nat
  \* By default the limits of the reader are no lower than the writer's.
  /\ MaxValue \in 1 .. ReaderMaxValue /\ MaxEntries \in 2 .. ReaderMaxEntries

VARIABLES
  phase,     \* "composing", "rejected", "written", "read", "unreadable"
  entries,   \* metadata, of the caller
  header,    \* the elements of the XML header, as they are written
  document   \* the metadata of the Document

vars == <<phase, entries, header, document>>

Init ==
  /\ phase = "composing" /\ entries = << >> /\ header = << >> /\ document = << >>

-----------------------------------------------------------------------------
(* The caller *)

Begins(e, draft) ==
  /\ \A field \in {"type", "image", "name", "extent"} : e[field] = draft[field]
  /\ IsPrefix(draft.stem, e.value)
  /\ \A k \in Len(draft.stem) + 1 .. Len(e.value) : e.value[k] \in draft.letters
  /\ Len(e.value) <= Len(draft.stem) + draft.length

EntryOf(draft) ==
  [type |-> draft.type, image |-> draft.image, name |-> draft.name,
   extent |-> draft.extent, value |-> draft.stem]

AddEntry ==
  /\ phase = "composing"
  /\ \/ /\ entries = << >>
        /\ \E draft \in Long \cup Brief : entries' = <<EntryOf(draft)>>
     \/ /\ Len(entries) \in 1 .. MaxBrief - 1
        /\ \A e \in Range(entries) : \E d \in Brief : Begins(e, d)
        /\ \E draft \in Brief : entries' = Append(entries, EntryOf(draft))
  /\ UNCHANGED <<phase, header, document>>

TypeValue ==
  /\ phase = "composing" /\ entries # << >>
  /\ \E draft \in Long \cup Brief : \E c \in draft.letters :
       LET e == [Last(entries) EXCEPT !.value = Append(@, c)]
       IN /\ Begins(e, draft)
          /\ entries' = [entries EXCEPT ![Len(entries)] = e]
  /\ UNCHANGED <<phase, header, document>>

-----------------------------------------------------------------------------
(* The writer *)

IsBlock(e) == e.type \in BlockTypes
IsProperty(e) == e.type # "FITSKeyword"

\* Rows by columns, or the length, of what the type asks for.
ExtentFits(e) ==
  LET x == e.extent
      elements == IF e.type = "Vector" THEN x.length ELSE x.rows * x.columns
  IN /\ IF e.type = "Vector" THEN x.length # None /\ x.rows = None /\ x.columns = None
        ELSE x.length = None /\ x.rows # None /\ x.columns # None
     /\ x.bytes = elements * ElementSize

IsEmptyContainer(e) ==
  /\ e.extent.bytes = 0
  /\ \/ e.type = "Vector" /\ e.extent.length = 0
     \/ e.type = "Matrix" /\ (e.extent.rows = 0 \/ e.extent.columns = 0)

ValueFits(e) ==
  CASE IsBlock(e) -> e.value = << >> /\ ExtentFits(e)
    [] e.type = "TimePoint" -> CanonicalTime(e.value)
    [] e.type \in ScalarTypes -> ValidScalar(e.type, e.value)
    [] OTHER -> TRUE

\* "nul" is a character XML does not have.
IsXmlText(text) == "nul" \notin Range(text)

ValidEntry(e) ==
  /\ e.image <= Images /\ Len(e.value) <= MaxValue /\ IsXmlText(e.value)
  /\ IF IsProperty(e)
     THEN /\ e.name \in Identifiers /\ ValueFits(e)
          /\ e.image = 0 => e.name \in UnitNames
     ELSE e.image # 0 /\ e.name \in Keywords

IdsUnique ==
  /\ \A e \in Range(entries) : e.image = 0 => e.name \notin Mandatory
  /\ \A j, k \in DOMAIN entries :
       /\ j # k /\ IsProperty(entries[j]) /\ IsProperty(entries[k])
       /\ entries[j].image = entries[k].image
       => entries[j].name # entries[k].name

Acceptable ==
  /\ Len(entries) <= MaxEntries - 2
  /\ \A e \in Range(entries) : ValidEntry(e)
  /\ IdsUnique

\* Mutant: a quotation mark is left alone in attributes too.
EscapedMutant(c, attribute) ==
  CASE c = "&" -> "&amp;" [] c = "<" -> "&lt;" [] c = ">" -> "&gt;" [] OTHER -> c

\* escape_xml, character by character.
Escaped(c, attribute) ==
  CASE c = "&" -> "&amp;" [] c = "<" -> "&lt;" [] c = ">" -> "&gt;"
    [] c = "\"" /\ attribute -> "&quot;"
    [] OTHER -> c

FormOf(e) ==
  CASE e.type = "String" -> "text"
    [] IsBlock(e) -> IF IsEmptyContainer(e) THEN "inline" ELSE "attachment"
    [] OTHER -> "value"

\* make_metadata_xml
Serialized(e) ==
  [parent |-> e.image, type |-> e.type, name |-> e.name, form |-> FormOf(e),
   extent |-> [e.extent EXCEPT !.bytes = 0],
   raw |-> [k \in DOMAIN e.value |-> Escaped(e.value[k], e.type # "String")]]

Element(type, name, value) ==
  Serialized([type |-> type, image |-> 0, name |-> name, extent |-> NoExtent,
              value |-> value])

\* creation_time and creator_application of WriterOptions, of an acceptable caller.
CreationTime == <<"2000-02-29", "T", "23:59:60", "Z">>
CreatorApplication == <<"x">>

\* Each image with its entries, then Metadata with its two mandatory Properties
\* and the entries of the unit, all of them in the caller's order.
EntriesOf(image) ==
  LET Here(e) == e.image = image
      mine == SelectSeq(entries, Here)
  IN [k \in DOMAIN mine |-> Serialized(mine[k])]

MakeHeader ==
  FoldLeft(LAMBDA all, image : all \o EntriesOf(image), << >>, [i \in 1 .. Images |-> i])
  \o <<Element("TimePoint", "XISF:CreationTime", CreationTime),
       Element("String", "XISF:CreatorApplication", CreatorApplication)>>
  \o EntriesOf(0)

Write ==
  /\ phase = "composing"
  /\ IF Acceptable
     THEN phase' = "written" /\ header' = MakeHeader
     ELSE phase' = "rejected" /\ UNCHANGED header
  /\ UNCHANGED <<entries, document>>

-----------------------------------------------------------------------------
(* expat *)

Breaks(raw, attribute) ==
  \E c \in Range(raw) : c \in {"<", "&", "nul"} \/ (attribute /\ c = "\"")

\* The end of a line is one character, however it is written.
Lines(raw) ==
  LET Kept(k) == ~(raw[k] = "lf" /\ k > 1 /\ raw[k - 1] = "cr")
      places == SelectSeq([k \in DOMAIN raw |-> k], Kept)
  IN [j \in DOMAIN places |-> raw[places[j]]]

Character(c, attribute) ==
  CASE c = "&amp;" -> "&" [] c = "&lt;" -> "<" [] c = "&gt;" -> ">" [] c = "&quot;" -> "\""
    [] c \in Blanks -> IF attribute THEN " " ELSE IF c = "cr" THEN "lf" ELSE c
    [] OTHER -> c

Parsed(x) ==
  LET lines == Lines(x.raw)
  IN [k \in DOMAIN lines |-> Character(lines[k], x.form # "text")]

-----------------------------------------------------------------------------
(* The reader *)

\* The forms and extents each category of types asks for.
FormFits(x) ==
  LET located == x.form \in {"inline", "attachment"}
      bare == x.extent = NoExtent
  IN CASE x.type \in ScalarTypes ->
            x.form = "value" /\ bare /\ ValidScalar(x.type, Parsed(x))
       [] x.type = "String" -> x.form # "value" /\ bare
       [] x.type = "TimePoint" -> x.form = "value" /\ bare /\ ValidTime(Parsed(x))
       [] x.type = "Vector" ->
            /\ located /\ x.extent.length # None
            /\ x.extent.rows = None /\ x.extent.columns = None
       [] x.type = "Matrix" ->
            /\ located /\ x.extent.length = None
            /\ x.extent.rows # None /\ x.extent.columns # None
       [] OTHER -> x.form = "value"

ReadsElement(x) ==
  /\ ~Breaks(x.raw, x.form # "text")
  /\ Len(Parsed(x)) <= ReaderMaxValue
  /\ FormFits(x)
  /\ IF IsProperty(x)
     THEN x.name \in Identifiers /\ (x.parent = 0 => x.name \in UnitNames)
     ELSE x.parent # 0 /\ x.name \in Keywords

\* saw_creation_time and its like, and the check of parse_header.
ReadsOnce ==
  \A j, k \in DOMAIN header :
    /\ j # k /\ IsProperty(header[j]) /\ IsProperty(header[k])
    /\ header[j].parent = header[k].parent
    => header[j].name # header[k].name

Readable ==
  /\ Len(header) <= ReaderMaxEntries
  /\ \A x \in Range(header) : ReadsElement(x)
  /\ ReadsOnce

Read ==
  /\ phase = "written"
  /\ IF Readable
     THEN /\ phase' = "read"
          /\ document' = [k \in DOMAIN header |->
               [type |-> header[k].type, image |-> header[k].parent,
                name |-> header[k].name, extent |-> header[k].extent,
                value |-> Parsed(header[k])]]
     ELSE phase' = "unreadable" /\ UNCHANGED document
  /\ UNCHANGED <<entries, header>>

Next == AddEntry \/ TypeValue \/ Write \/ Read

Spec == Init /\ [][Next]_vars

-----------------------------------------------------------------------------
\* Two texts whose words are the same, up to the blanks between and around them.
SameWords(a, b) ==
  LET Bare(text) == [k \in DOMAIN text |-> IF text[k] \in Blanks THEN " " ELSE text[k]]
  IN Bare(Lines(a)) = Bare(b)

\* What the writer accepts, the reader accepts, under limits no lower than the
\* writer's: no entry is lost, moved to another scope, reordered in it or changed
\* in anything but which blank characters its text has; and each scope has its
\* entries once, with the two mandatory ones in front in the unit (escape_xml and
\* the two copies of the checks, docs/M6_STATUS.md).
ReadsAsWritten ==
  /\ phase # "unreadable"
  /\ phase = "read" =>
       \A image \in 0 .. Images :
         LET Here(e) == e.image = image
             written == SelectSeq(entries, Here)
             all == SelectSeq(document, Here)
             got == IF image = 0 THEN SubSeq(all, 3, Len(all)) ELSE all
         IN /\ Len(got) = Len(written)
            /\ image = 0 => {all[1].name, all[2].name} = Mandatory
            /\ \A k \in DOMAIN written :
                 /\ \A field \in {"type", "image", "name"} : got[k][field] = written[k][field]
                 /\ \A field \in {"length", "rows", "columns"} :
                      got[k].extent[field] = written[k].extent[field]
                 /\ SameWords(written[k].value, got[k].value)

\* The writer takes a scalar value exactly if it is a literal of its type that
\* stands for a number in the type's range, so nothing is clamped and no number is
\* refused that fits (is_valid_scalar_property, docs/WRITER.md:140-144); and the
\* reader takes a TimePoint exactly if its day is in the calendar.
AcceptsItsRange ==
  \A e \in Range(entries) :
    /\ e.type \in ScalarTypes => (ValidScalar(e.type, e.value) <=> Denotes(e.type, e.value))
    /\ e.type = "TimePoint" => (ValidTime(e.value) <=> Denotes(e.type, e.value))

\* The lexical form of a scalar value is the caller's (docs/WRITER.md:140): it does
\* not hold, as escape_xml leaves tabs and line ends to expat.
KeepsLexicalForm ==
  phase = "read" =>
    \A e \in Range(entries) : e.type \in ScalarTypes =>
      \E got \in Range(document) :
        got.image = e.image /\ got.name = e.name /\ got.value = e.value
=============================================================================
