------------------------------ MODULE HeaderText ------------------------------
(***************************************************************************)
(* The character data of the XML header (src/src/reader.cpp: start_element,  *)
(* end_element and character_data of XmlBuilder, and decode_embedded_text).  *)
(*                                                                         *)
(* expat hands over a text as it is split by its buffers; the callback has    *)
(* to know from the state of the builder what the text is for: a part of an   *)
(* encoded block, of a Cell, of an extension element, of a Property, or       *)
(* nothing, in which case it is passed over or refused.  One decoder, with    *)
(* one quartet and one nibble, serves all encoded blocks of a header.        *)
(*                                                                         *)
(* Every piece of text has one character here: a longer one does what its     *)
(* characters do one after the other.  HeaderDocument has uids, references    *)
(* and what is resolved at the end; the limits on counts, the syntax of        *)
(* attributes and their bytes, apart from the tables' and the extensions',    *)
(* may refuse any element, and nothing else depends on them.                 *)
(***************************************************************************)
EXTENDS Integers, Sequences, SequencesExt, FiniteSets

CONSTANTS
  Families,       \* sets of elements: a header has those of one of them
  Alphabet,       \* the characters that may occur
  Letters,        \* those that occur outside of encoded blocks
  MaxElements,    \* bounds of the model: elements in a header,
  MaxLength, MaxText,        \* characters, and those of them outside of blocks
  MaxEncoded,     \* max_encoded_block_bytes
  MaxBytes,       \* max_serialized_property_bytes and its like, by element
  MaxValue,       \* max_metadata_value_bytes
  MaxTableText,   \* max_table_text_bytes
  MaxExtension    \* max_extension_bytes

\* How a block is encoded: the location inline:... or the encoding of Data.
Encodings == {"base64", "hex"}

\* The value_form or the kind of the block; "plain" where there is no choice.
Forms == {"plain", "value", "text", "inline", "embedded", "attached"}

TableKinds == {"Table", "Structure", "Row", "Cell"}
Attached == {"Table", "Thumbnail", "ICCProfile", "Ancillary"}
Kinds == TableKinds \cup Attached \cup
  {"Image", "Data", "Property", "FITSKeyword", "Field", "Metadata",
   "xisf", "Unknown", "Extension"}

\* An Unknown element is one of the XISF namespace that has no rule for its place,
\* a Reference among them, and so is one named xisf below the root, which has the
\* name of the root for what is in it; an Extension is of another namespace.
\* `bytes` is what its attributes take of the byte limit for Tables or extensions.
Element == [kind : Kinds, form : Forms, encoding : Encodings, bytes : Nat]

Vocabulary == UNION Families

\* Where the blocks end up: the image's, the thumbnail's, ...
BlockOwners == {"Image", "Thumbnail", "Property", "ICCProfile"}

\* Digits of both encodings, the padding, a blank and a character that no encoding
\* has.
ASSUME TextAssumption ==
  /\ Vocabulary \subseteq Element
  /\ Alphabet \subseteq {"A", "a", "0", "=", " ", "."}
  /\ Letters \subseteq Alphabet
  /\ MaxElements \in Nat /\ MaxLength \in Nat /\ MaxText \in Nat
  /\ MaxEncoded \in Nat
  /\ MaxBytes \in [BlockOwners -> Nat]
  /\ MaxValue \in Nat /\ MaxTableText \in Nat /\ MaxExtension \in Nat

VARIABLES
  doc,      \* the elements so far, with their parent, the path of elements they
            \* are in (themselves too) and their own text: the input; and what the
            \* properties tell of it: the text heard between their tags, and the
            \* part of their own text that no element was to keep
  stack,    \* the open elements, places in doc; the root is left out
  status,   \* "parsing", "accepted", or what refused the header: a "limit", the
            \* start of an "element", its "end", or a "text"
  open,     \* image_stack and the open_..._index of each kind, and of Property
            \* the text_metadata_index; 0 for none
  filled,   \* elements that have the child they cannot do without
  block,    \* the element with the encoded block that is being read, 0 for none:
            \* embedded_image_index, inline_metadata_index, ...
  decoder,  \* base64_quartet, base64_complete, hex_high_nibble, encoded_block_bytes
  blocks,   \* the bytes decoded of each element's block
  values,   \* the text kept for each element
  tableText, extensionText   \* table_text_bytes and extension_bytes

input == <<doc, stack>>
builder == <<open, filled, block, decoder, blocks, values, tableText, extensionText>>
vars == <<input, status, builder>>

Pad == 64
NoNibble == 16

OpenKinds == {"Image", "Thumbnail", "Property"} \cup TableKinds

Fresh == [quartet |-> << >>, complete |-> FALSE, nibble |-> NoNibble, encoded |-> 0]

TypeOK ==
  /\ doc \in Seq([element : Vocabulary, parent : Nat, path : SUBSET Nat,
                 text : Seq(Alphabet), heard : Seq(Alphabet), stray : Seq(Alphabet)])
  /\ \A n \in DOMAIN doc : doc[n].parent < n /\ n \in doc[n].path /\ doc[n].path \subseteq 1 .. n
  /\ stack \in Seq(DOMAIN doc)
  /\ status \in {"parsing", "accepted", "limit", "element", "end", "text"}
  /\ open \in [OpenKinds -> 0 .. Len(doc)]
  /\ filled \subseteq DOMAIN doc
  /\ block \in 0 .. Len(doc)
  /\ decoder \in [quartet : Seq(0 .. Pad), complete : BOOLEAN, nibble : 0 .. NoNibble,
                  encoded : 0 .. MaxEncoded]
  /\ Len(decoder.quartet) < 4
  /\ blocks \in Seq(Seq(0 .. 255)) /\ Len(blocks) = Len(doc)
  /\ values \in Seq(Seq(Alphabet)) /\ Len(values) = Len(doc)
  /\ tableText \in 0 .. MaxTableText /\ extensionText \in 0 .. MaxExtension

Init ==
  /\ doc = << >> /\ stack = << >> /\ status = "parsing"
  /\ open = [k \in OpenKinds |-> 0] /\ filled = {}
  /\ block = 0 /\ decoder = Fresh /\ blocks = << >> /\ values = << >>
  /\ tableText = 0 /\ extensionText = 0

-----------------------------------------------------------------------------
(* start_element *)

Here == Len(doc) + 1
Top == IF stack = << >> THEN 0 ELSE Last(stack)
KindOf(n) == IF n = 0 THEN "xisf" ELSE doc[n].element.kind
FormOf(n) == doc[n].element.form
Parent == KindOf(Top)

\* The element a Data element gives its bytes to, and any other to itself.
OwnerOf(n) == IF KindOf(n) = "Data" THEN doc[n].parent ELSE n

WellPlaced(e) ==
  /\ e.kind \in {"Image", "Metadata", "Extension"} => stack = << >>
  /\ e.kind \in Attached =>
       stack = << >> \/ (Len(stack) = 1 /\ Parent = "Image" /\ open["Image"] # 0)
  /\ e.kind = "Structure" => stack = << >> \/ (Parent = "Table" /\ open["Table"] # 0)
  /\ e.kind = "Field" => Parent = "Structure" /\ open["Structure"] # 0
  /\ e.kind = "Row" => Parent = "Table" /\ open["Table"] # 0 /\ open["Row"] = 0
  /\ e.kind = "Cell" => Parent = "Row" /\ open["Row"] # 0 /\ open["Cell"] = 0
  /\ e.kind = "Property" => Parent \in {"xisf", "Image", "Metadata"}
  /\ e.kind = "FITSKeyword" => Parent \in {"xisf", "Image"}
  /\ e.kind = "Data" =>
       /\ Parent \in {"Image", "Thumbnail"} /\ open[Parent] # 0
       /\ FormOf(open[Parent]) = "embedded" /\ open[Parent] \notin filled

\* No element inside of an encoded block, of a Cell or of a Field, and only Cells
\* inside of a Row.
MayHaveChild(e) ==
  /\ block = 0
  /\ Parent \notin {"Cell", "Field"}
  /\ Parent = "Row" => e.kind = "Cell"

HasBlock(e) ==
  e.kind = "Data" \/ (e.kind \in {"Property", "ICCProfile"} /\ e.form = "inline")

\* Mutant: what the block before left in the decoder stays there.
FreshenMutant == [decoder EXCEPT !.encoded = 0]

Freshen == Fresh

\* The child that its parent cannot do without.
Fills(e) ==
  IF e.kind \in {"Data", "Cell", "Field"} THEN {Top} ELSE {}

Opens(e) ==
  e.kind \in OpenKinds /\ (e.kind = "Property" => e.form = "text")

WithinBytes(e) ==
  /\ e.kind \in TableKinds \cup {"Field"} => tableText + e.bytes <= MaxTableText
  /\ e.kind = "Extension" => extensionText + e.bytes <= MaxExtension

Push(e) ==
  /\ doc' = Append(doc, [element |-> e, parent |-> Top, path |-> Range(stack) \cup {Here},
                         text |-> << >>, heard |-> << >>, stray |-> << >>])
  /\ stack' = Append(stack, Here)
  /\ blocks' = Append(blocks, << >>) /\ values' = Append(values, << >>)

StartElement(e) ==
  /\ MayHaveChild(e) /\ WellPlaced(e) /\ WithinBytes(e) /\ Push(e)
  /\ filled' = filled \cup Fills(e)
  /\ open' = IF Opens(e) THEN [open EXCEPT ![e.kind] = Here] ELSE open
  /\ block' = IF HasBlock(e) THEN Here ELSE 0
  /\ decoder' = IF HasBlock(e) THEN Freshen ELSE decoder
  /\ tableText' = IF e.kind \in TableKinds \cup {"Field"} THEN tableText + e.bytes
                  ELSE tableText
  /\ extensionText' = IF e.kind = "Extension" THEN extensionText + e.bytes
                      ELSE extensionText
  /\ UNCHANGED status

\* The parser is stopped at the first error.
RefuseElement(e) ==
  /\ ~(MayHaveChild(e) /\ WellPlaced(e) /\ WithinBytes(e))
  /\ status' = IF MayHaveChild(e) /\ WellPlaced(e) THEN "limit" ELSE "element"
  /\ UNCHANGED <<input, builder>>

Start(e) ==
  /\ status = "parsing" /\ Len(doc) < MaxElements
  /\ \E family \in Families : e \in family /\ \A d \in Range(doc) : d.element \in family
  /\ StartElement(e) \/ RefuseElement(e)

-----------------------------------------------------------------------------
(* end_element *)

Incomplete ==
  /\ block = Top
  /\ IF doc[block].element.encoding = "hex" THEN decoder.nibble # NoNibble
     ELSE decoder.quartet # << >>

Missing ==
  \/ Parent \in {"Row", "Structure"} /\ open[Parent] \notin filled
  \/ Parent \in {"Image", "Thumbnail"} /\ FormOf(open[Parent]) = "embedded"
     /\ open[Parent] \notin filled

CanEnd == ~Incomplete /\ ~Missing

EndElement ==
  /\ status = "parsing" /\ stack # << >> /\ CanEnd
  /\ stack' = Front(stack)
  /\ block' = 0
  /\ open' = IF Parent \in OpenKinds THEN [open EXCEPT ![Parent] = 0] ELSE open
  /\ UNCHANGED <<doc, status, filled, decoder, blocks, values, tableText, extensionText>>

RefuseEnd ==
  /\ status = "parsing" /\ stack # << >> /\ ~CanEnd
  /\ status' = "end"
  /\ UNCHANGED <<input, builder>>

-----------------------------------------------------------------------------
(* decode_embedded_text, decode_base64_quartet and append_inline_byte *)

\* base64_value and the nibble of a digit: of the letters that are needed, one with
\* no bit set, one with bits among the last two, one with bits among the last four.
Sextets == [c \in {"A", "a", "0"} |-> CASE c = "A" -> 0 [] c = "a" -> 26 [] c = "0" -> 52]
Nibbles == [c \in {"a", "0"} |-> CASE c = "a" -> 10 [] c = "0" -> 0]

Room == MaxBytes[KindOf(OwnerOf(block))] - Len(blocks[OwnerOf(block)])

QuartetBytes(q) ==
  <<q[1] * 4 + q[2] \div 16>> \o
  (IF q[3] = Pad THEN << >>
   ELSE <<(q[2] % 16) * 16 + q[3] \div 4>> \o
        (IF q[4] = Pad THEN << >> ELSE <<(q[3] % 4) * 64 + q[4]>>))

Canonical(q) ==
  /\ q[3] = Pad => q[4] = Pad /\ q[2] % 16 = 0
  /\ q[3] # Pad /\ q[4] = Pad => q[3] % 4 = 0

Store(bytes) ==
  blocks' = [blocks EXCEPT ![OwnerOf(block)] = @ \o bytes]

Counted == [decoder EXCEPT !.encoded = @ + 1]

TakeNibble(c) ==
  /\ c \in DOMAIN Nibbles /\ decoder.nibble = NoNibble
  /\ decoder' = [Counted EXCEPT !.nibble = Nibbles[c]]
  /\ UNCHANGED <<status, blocks>>

TakeByte(c) ==
  /\ c \in DOMAIN Nibbles /\ decoder.nibble # NoNibble
  /\ IF Room < 1
     THEN status' = "limit" /\ UNCHANGED <<decoder, blocks>>
     ELSE /\ Store(<<decoder.nibble * 16 + Nibbles[c]>>)
          /\ decoder' = [Counted EXCEPT !.nibble = NoNibble]
          /\ UNCHANGED status

InBase64(c) == ~decoder.complete /\ (c = "=" \/ c \in DOMAIN Sextets)
SextetOf(c) == IF c = "=" THEN Pad ELSE Sextets[c]

TakeSextet(c) ==
  /\ InBase64(c) /\ Len(decoder.quartet) < 3
  /\ decoder' = [Counted EXCEPT !.quartet = Append(@, SextetOf(c))]
  /\ UNCHANGED <<status, blocks>>

TakeQuartet(c) ==
  /\ InBase64(c) /\ Len(decoder.quartet) = 3
  /\ LET q == Append(decoder.quartet, SextetOf(c))
     IN IF q[1] # Pad /\ q[2] # Pad /\ Room >= Len(QuartetBytes(q)) /\ Canonical(q)
        THEN /\ Store(QuartetBytes(q))
             /\ decoder' = [Counted EXCEPT !.quartet = << >>, !.complete = q[4] = Pad]
             /\ UNCHANGED status
        ELSE /\ status' = IF q[1] # Pad /\ q[2] # Pad /\ Room < Len(QuartetBytes(q))
                          THEN "limit" ELSE "text"
             /\ UNCHANGED <<decoder, blocks>>

RefuseCharacter(c) ==
  /\ IF doc[block].element.encoding = "hex" THEN c \notin DOMAIN Nibbles
     ELSE ~InBase64(c)
  /\ status' = "text" /\ UNCHANGED <<decoder, blocks>>

Decode(c) ==
  /\ block # 0
  /\ IF c = " " THEN UNCHANGED <<status, decoder, blocks>>
     ELSE IF decoder.encoded >= MaxEncoded
     THEN status' = "limit" /\ UNCHANGED <<decoder, blocks>>
     ELSE \/ doc[block].element.encoding = "hex" /\ (TakeNibble(c) \/ TakeByte(c))
          \/ doc[block].element.encoding = "base64" /\ (TakeSextet(c) \/ TakeQuartet(c))
          \/ RefuseCharacter(c)
  /\ UNCHANGED <<values, tableText, extensionText>>

-----------------------------------------------------------------------------
(* character_data *)

\* Mutant: it is forgotten which Cell the text is in.
InCellMutant == block = 0 /\ Parent = "Cell" /\ open["Property"] # 0

InCell == block = 0 /\ open["Table"] # 0 /\ open["Row"] # 0 /\ open["Cell"] # 0

TakesText(n) == FormOf(n) \in {"text", "inline"}
InExtension == block = 0 /\ ~InCell /\ Parent = "Extension"
InBare == block = 0 /\ ~InCell /\ Parent \in {"Ancillary", "ICCProfile"}

\* Mutant: the limit is not looked at.
KeepMutant(n, c, room) ==
  values' = [values EXCEPT ![n] = Append(@, c)] /\ UNCHANGED status

Keep(n, c, room) ==
  IF room < 1 THEN status' = "limit" /\ UNCHANGED values
  ELSE values' = [values EXCEPT ![n] = Append(@, c)] /\ UNCHANGED status

PassOver(c, allowed) ==
  /\ status' = IF c # " " /\ ~allowed THEN "text" ELSE status
  /\ UNCHANGED <<values, tableText, extensionText>>

CellText(c) ==
  /\ InCell
  /\ IF TakesText(open["Cell"])
     THEN /\ Keep(open["Cell"], c, MaxTableText - tableText)
          /\ tableText' = tableText + Len(values'[open["Cell"]]) - Len(values[open["Cell"]])
          /\ UNCHANGED extensionText
     ELSE PassOver(c, FALSE)

ExtensionTextIn(c) ==
  /\ InExtension
  /\ Keep(Top, c, MaxExtension - extensionText)
  /\ extensionText' = extensionText + Len(values'[Top]) - Len(values[Top])
  /\ UNCHANGED tableText

PropertyText(c) ==
  /\ block = 0 /\ ~InCell /\ ~InExtension /\ open["Property"] # 0
  /\ ~(InBare /\ c # " ")
  /\ Keep(open["Property"], c, MaxValue - Len(values[open["Property"]]))
  /\ UNCHANGED <<tableText, extensionText>>

\* Where no text belongs: in the root, in a Thumbnail, a Table, a Structure, a Row,
\* in an embedded Image, anywhere inside them, and in an Ancillary element or an
\* ICCProfile.
NoPlaceForText ==
  \/ InBare \/ Top = 0
  \/ \E k \in {"Thumbnail", "Table", "Structure", "Row"} : open[k] # 0
  \/ open["Image"] # 0 /\ FormOf(open["Image"]) = "embedded"

OtherText(c) ==
  /\ block = 0 /\ ~InCell /\ ~InExtension
  /\ open["Property"] = 0 \/ (InBare /\ c # " ")
  /\ PassOver(c, ~NoPlaceForText)

LengthOf(Test(_)) ==
  FoldSeq(LAMBDA d, sum : sum + IF Test(d.element) THEN Len(d.text) ELSE 0, 0, doc)

\* The bounds of the model.
MayCome(c) ==
  /\ LengthOf(LAMBDA e : TRUE) < MaxLength
  /\ block = 0 => c \in Letters /\ LengthOf(LAMBDA e : ~HasBlock(e)) < MaxText

\* The end of a Property makes the reader forget the text Property it is in, the
\* start of one with a text of its own makes the reader turn to that.
Disturbed(n) ==
  \E m \in DOMAIN doc :
    /\ m # n /\ n \in doc[m].path /\ KindOf(m) = "Property"
    /\ FormOf(m) = "text" \/ ~Contains(stack, m)

\* The elements that are to keep the text of the element at place n.
Home(n) ==
  {m \in doc[n].path :
     \/ KindOf(m) = "Property" /\ FormOf(m) = "text" /\ ~Disturbed(m)
     \/ m = n /\ KindOf(m) = "Extension"
     \/ m = n /\ KindOf(m) = "Cell" /\ TakesText(m)}

CharacterData(c) ==
  /\ status = "parsing" /\ stack # << >> /\ MayCome(c)
  /\ doc' = [n \in DOMAIN doc |->
       [doc[n] EXCEPT
          !.text = IF n = Top THEN Append(@, c) ELSE @,
          !.heard = IF Contains(stack, n) /\ block = 0 /\ ~Disturbed(n)
                    THEN Append(@, c) ELSE @,
          !.stray = IF n = Top /\ Home(n) = {} THEN Append(@, c) ELSE @]]
  /\ \/ Decode(c)
     \/ /\ CellText(c) \/ ExtensionTextIn(c) \/ PropertyText(c) \/ OtherText(c)
        /\ UNCHANGED <<decoder, blocks>>
  /\ UNCHANGED <<stack, open, filled, block>>

\* Text in the root itself.
RootText(c) ==
  /\ status = "parsing" /\ stack = << >> /\ OtherText(c)
  /\ UNCHANGED <<input, open, filled, block, decoder, blocks>>

Close ==
  /\ status = "parsing" /\ stack = << >>
  /\ status' = "accepted"
  /\ UNCHANGED <<input, builder>>

Next ==
  \/ \E e \in Vocabulary : Start(e)
  \/ EndElement \/ RefuseEnd
  \/ \E c \in Alphabet : CharacterData(c) \/ RootText(c)
  \/ Close

Spec == Init /\ [][Next]_vars

-----------------------------------------------------------------------------
(* What a text means, said of the whole of it. *)

WithoutBlank(text, c) == IF c = " " THEN text ELSE Append(text, c)

\* The first n characters, without blanks.
Unspaced(text, n) ==
  LET kept[i \in 0 .. n] ==
        IF i = 0 THEN << >> ELSE WithoutBlank(kept[i - 1], text[i])
  IN kept[n]

Written(n) == Unspaced(doc[n].text, Len(doc[n].text))
EncodingOf(n) == doc[n].element.encoding

\* The value of a digit, Pad for the padding and -1 for what the encoding lacks.
DigitOf(encoding, c) ==
  CASE encoding = "hex" /\ c \in DOMAIN Nibbles -> Nibbles[c]
    [] encoding = "base64" /\ c \in DOMAIN Sextets -> Sextets[c]
    [] encoding = "base64" /\ c = "=" -> Pad
    [] OTHER -> -1

Digits(encoding, text) == [k \in DOMAIN text |-> DigitOf(encoding, text[k])]

\* Base16 (RFC 4648): two digits for each byte.
Pairs(bytes) ==
  [i \in 1 .. 2 * Len(bytes) |-> LET byte == bytes[(i + 1) \div 2]
                                 IN IF i % 2 = 1 THEN byte \div 16 ELSE byte % 16]

\* Base64 (RFC 4648): four digits for each three bytes, and where the last group is
\* not full, the padding for the digits that have no part of a byte.
ByteAt(bytes, k) == IF k <= Len(bytes) THEN bytes[k] ELSE 0

QuartetAt(bytes, first) ==
  LET a == ByteAt(bytes, first)
      b == ByteAt(bytes, first + 1)
      c == ByteAt(bytes, first + 2)
  IN << a \div 4,
        (a % 4) * 16 + b \div 16,
        IF first + 1 > Len(bytes) THEN Pad ELSE (b % 16) * 4 + c \div 64,
        IF first + 2 > Len(bytes) THEN Pad ELSE c % 64 >>

Quartets(bytes) ==
  [i \in 1 .. 4 * ((Len(bytes) + 2) \div 3) |->
     QuartetAt(bytes, 3 * ((i - 1) \div 4) + 1)[1 + ((i - 1) % 4)]]

Encoded(encoding, bytes) == IF encoding = "hex" THEN Pairs(bytes) ELSE Quartets(bytes)

DigitAt(digits, i) ==
  IF i <= Len(digits) /\ digits[i] \in 0 .. Pad - 1 THEN digits[i] ELSE 0

PairByte(digits, k) ==
  (DigitAt(digits, 2 * k - 1) % 16) * 16 + (DigitAt(digits, 2 * k) % 16)

QuartetByte(digits, k) ==
  LET d(i) == DigitAt(digits, 4 * ((k - 1) \div 3) + i)
  IN CASE k % 3 = 1 -> d(1) * 4 + d(2) \div 16
       [] k % 3 = 2 -> (d(2) % 16) * 16 + d(3) \div 4
       [] k % 3 = 0 -> (d(3) % 4) * 64 + d(4)

Pads(digits) ==
  LET n == Len(digits)
  IN IF n < 2 \/ digits[n] # Pad THEN 0 ELSE IF digits[n - 1] = Pad THEN 2 ELSE 1

\* The only bytes that digits can stand for.
BytesOf(encoding, digits) ==
  IF encoding = "hex"
  THEN [k \in 1 .. Len(digits) \div 2 |-> PairByte(digits, k)]
  ELSE [k \in 1 .. ((Len(digits) - Pads(digits)) * 6) \div 8 |-> QuartetByte(digits, k)]

Encodes(encoding, text, bytes) == Digits(encoding, text) = Encoded(encoding, bytes)

IsEncoding(encoding, text) ==
  Encodes(encoding, text, BytesOf(encoding, Digits(encoding, text)))

\* A text that goes on to one: with more digits or the padding.
Endings == {<< >>, <<"0">>, <<"A">>, <<"A", "A">>, <<"A", "A", "A">>, <<"=">>}
Promising(encoding, text) == \E more \in Endings : IsEncoding(encoding, text \o more)

Blocks == {n \in DOMAIN doc : HasBlock(doc[n].element)}

\* A block that was read to its end has the bytes whose encoding is its text, in
\* whatever pieces the text came, whatever blanks are in it and whatever blocks
\* came before; a text is refused with the group of four characters that cannot
\* be in an encoding, not earlier, and at its end if it is not one; a limit is
\* only reported where more than it was needed
\* (decode_embedded_text and the resets in start_element, docs/RESOURCE_LIMITS.md).
BlocksAreTheirText ==
  \A n \in Blocks :
    LET text == Written(n)  encoding == EncodingOf(n)  bytes == blocks[OwnerOf(n)]
        limit == MaxBytes[KindOf(OwnerOf(n))]
    IN /\ status \in {"parsing", "accepted"} /\ n # block =>
            Encodes(encoding, text, bytes)
       /\ Len(bytes) <= limit
       /\ n = block =>
            /\ status = "parsing" /\ Len(text) % 4 = 0 => Promising(encoding, text)
            /\ status = "text" => ~Promising(encoding, text)
            /\ status = "end" => ~IsEncoding(encoding, text)
            /\ status = "limit" => \/ Len(text) > MaxEncoded
                                    \/ Len(BytesOf(encoding, Digits(encoding, text))) > limit

\* The text an element is to have kept.
Kept(n) ==
  IF KindOf(n) = "Property" /\ FormOf(n) = "text" THEN doc[n].heard
  ELSE IF KindOf(n) = "Extension" \/ (KindOf(n) = "Cell" /\ TakesText(n)) THEN doc[n].text
  ELSE << >>

\* Where no text belongs.
Refuses(n) ==
  /\ n \notin Blocks
  /\ \/ KindOf(n) \in {"Ancillary", "ICCProfile"}
     \/ \E m \in doc[n].path : \/ KindOf(m) \in TableKinds \cup {"Thumbnail"}
                               \/ KindOf(m) = "Image" /\ FormOf(m) = "embedded"

\* The first n charges together.
ChargesTo(charges, n) ==
  LET sum[i \in 0 .. n] == IF i = 0 THEN 0 ELSE sum[i - 1] + charges[i]
  IN sum[n]

\* The bytes of the attributes and texts of the elements of these kinds.
Charges(kinds) ==
  [n \in DOMAIN doc |->
     IF KindOf(n) \in kinds THEN doc[n].element.bytes + Len(values[n]) ELSE 0]
Charged(kinds) == ChargesTo(Charges(kinds), Len(doc))

\* The text at its own place, and nothing but blanks where none belongs.
KeptAtHome ==
  status \in {"parsing", "accepted"} =>
    \A n \in DOMAIN doc :
      /\ values[n] = Kept(n)
      /\ Refuses(n) => Range(doc[n].stray) \subseteq {" "}

OnlyRefusesStrays ==
  status = "text" /\ Top # 0 /\ block = 0 => Refuses(Top) /\ Home(Top) = {}

WithinLimits ==
  /\ \A n \in DOMAIN doc : KindOf(n) = "Property" => Len(values[n]) <= MaxValue
  /\ Charged(TableKinds \cup {"Field"}) <= MaxTableText
  /\ Charged({"Extension"}) <= MaxExtension

\* An extension element and a Cell have kept their own text; a text Property has the
\* text between its tags, in the order of the header, up to the first Property in it
\* that keeps text itself or is over, which an element named xisf in it makes
\* possible (start_element, the Property's end tag): what follows is passed over, or
\* refused where no text belongs.  No other text is kept, nothing but blanks stands
\* where no text belongs, and a header is only refused for a text that does
\* (character_data); what is kept stays within the limits.
TextGoesHome == KeptAtHome /\ OnlyRefusesStrays /\ WithinLimits

-----------------------------------------------------------------------------
(* How the builder's state hangs together, for the proofs.                    *)

KindAt(k) == IF k = 0 THEN "xisf" ELSE KindOf(stack[k])

\* What the rules for places come to: an element of this kind, the k-th of its
\* path, in one of the kind below.  No two of a kind that is open are in one path,
\* but of Properties, and nothing is inside of a Cell or a Field.
Fits(below, kind, k) ==
  /\ below \notin {"Cell", "Field"}
  /\ kind \in {"Image", "Metadata", "Extension"} => k = 1
  /\ kind \in Attached => k = 1 \/ (k = 2 /\ below = "Image")
  /\ kind = "Structure" => k = 1 \/ below = "Table"
  /\ kind = "Row" => below = "Table"
  /\ kind = "Cell" => below = "Row"
  /\ kind = "Property" => below \in {"xisf", "Image", "Metadata"}
  /\ kind = "Data" => below \in {"Image", "Thumbnail"}

InPlace(k) ==
  /\ Fits(KindAt(k - 1), KindAt(k), k)
  /\ doc[stack[k]].path = {stack[j] : j \in 1 .. k}
  /\ k < Len(stack) => stack[k] \notin Blocks

InvPlaces == \A k \in DOMAIN stack : InPlace(k)

\* The indices of the open elements are theirs.
InvOpen ==
  /\ \A kind \in OpenKinds : open[kind] # 0 =>
       \E k \in DOMAIN stack :
         open[kind] = stack[k] /\ KindAt(k) = kind /\ Opens(doc[stack[k]].element)
  /\ \A k \in DOMAIN stack :
       Opens(doc[stack[k]].element) /\ ~(KindAt(k) = "Property" /\ Disturbed(stack[k])) =>
         open[KindAt(k)] = stack[k]
  /\ open["Property"] # 0 => ~Disturbed(open["Property"])
  /\ block = IF Top \in Blocks THEN Top ELSE 0

\* The counters hold the sums.
InvCharged ==
  /\ tableText = Charged(TableKinds \cup {"Field"})
  /\ extensionText = Charged({"Extension"})

InvTree == TypeOK /\ InvPlaces /\ InvOpen /\ InvCharged /\ TextGoesHome

\* Each encoded block has an owner of its own, and the others have no bytes.
InvOwners ==
  /\ \A n \in Blocks :
       /\ OwnerOf(n) \in DOMAIN doc /\ KindOf(OwnerOf(n)) \in BlockOwners
       /\ KindOf(n) = "Data" => OwnerOf(n) \in filled
       /\ \A m \in Blocks : OwnerOf(m) = OwnerOf(n) => m = n
  /\ \A m \in DOMAIN doc : (\A n \in Blocks : OwnerOf(n) # m) => blocks[m] = << >>

\* The digits that wait for more, to make up a byte or a quartet.
Waiting(encoding, d) ==
  IF encoding = "hex" THEN IF d.nibble = NoNibble THEN << >> ELSE <<d.nibble>>
  ELSE d.quartet

\* The bytes and the digits that wait are those of the text so far.
Follows(encoding, text, bytes, d) ==
  /\ Digits(encoding, text) = Encoded(encoding, bytes) \o Waiting(encoding, d)
  /\ d.encoded = Len(text)
  /\ encoding = "hex" => d.quartet = << >>
  /\ encoding = "base64" =>
       /\ d.nibble = NoNibble
       /\ d.complete <=> Len(bytes) % 3 # 0
       /\ d.complete => d.quartet = << >>

InvDecoder ==
  status = "parsing" /\ block # 0 =>
    Follows(EncodingOf(block), Written(block), blocks[OwnerOf(block)], decoder)

IInv == InvTree /\ InvOwners /\ InvDecoder /\ BlocksAreTheirText
=============================================================================
