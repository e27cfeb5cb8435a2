--------------------------- MODULE HeaderDocument ---------------------------
(***************************************************************************)
(* From the XML header to a Document (src/src/reader.cpp: XmlBuilder, its    *)
(* expat callbacks start_element and end_element, and parse_header).         *)
(*                                                                         *)
(* The elements arrive one by one, so an element may be referred to before    *)
(* it has been seen: the callbacks collect objects and references, and        *)
(* parse_header resolves them when the root is closed.                       *)
(*                                                                         *)
(* An element is known by what the resolution looks at.  The Fields of a      *)
(* Structure and the Cells of a Table's rows are their numbers; RGBWorking-   *)
(* Space, DisplayFunction, ColorFilterArray and Resolution are one kind,      *)
(* Ancillary; Metadata has its two mandatory properties.  An element named    *)
(* xisf below the root has no rule of its own, but what is in it has a parent *)
(* of that name, and for a Property or FITSKeyword that is enough.  All other *)
(* elements without a rule are left out: no entry may stand in them, and      *)
(* References may stand anywhere.  The syntax of attributes, the limits on    *)
(* depth, counts and bytes, embedded data and character data may refuse any   *)
(* element; nothing else depends on them.                                    *)
(***************************************************************************)
EXTENDS Integers, Sequences, FiniteSets

CONSTANTS
  Vocabulary,   \* the elements that may occur
  Uids, Names,
  None,         \* no uid, no name, no reference
  MaxElements,  \* bound of the model: elements in a header, besides Metadata
  MaxBindings,  \* max_table_bindings and its like, one for each kind
  MaxEntries    \* max_metadata_entries

Attached == {"Table", "Thumbnail", "ICCProfile", "Ancillary"}
Entries == {"Property", "FITSKeyword"}
Kinds ==
  Attached \cup Entries \cup {"Metadata", "Image", "Structure", "Reference", "xisf"}

Element ==
  [kind : Kinds, uid : Uids \cup {None}, name : Names \cup {None},
   size : Nat, ref : Uids \cup {None}]

ASSUME HeaderAssumption ==
  /\ None \notin Uids \cup Names
  /\ Vocabulary \subseteq Element
  /\ \A e \in Vocabulary : e.kind = "Reference" <=> e.ref # None
  /\ \A e \in Vocabulary : e.kind = "xisf" => e.uid = None
  /\ MaxElements \in Nat /\ MaxBindings \in Nat /\ MaxEntries \in Nat

VARIABLES
  doc,        \* the input: the elements seen so far, each with its parent and
              \* the child of the root that it is in, or is
  stack,      \* element_stack: the open elements, places in doc
  status,     \* "parsing", "refused", "malformed", "invalid", "accepted"
  images,     \* places of the Image elements
  image,      \* current_image(), 0 outside of images
  objects,    \* metadata, tables, table_structures, thumbnails, ...
  openTable,
  uids,       \* core_uids
  references, \* all of them, and those in Thumbnails
  thumbnailReferences,
  structureReferences,  \* table_structure_references
  events,     \* metadata_binding_events, by reference and of entries
  own,        \* the binding events of the attached kinds
  bindings    \* of the Document

tree == <<doc, stack>>
builder == <<images, image, objects, openTable, uids, references,
             thumbnailReferences, structureReferences, events, own>>
vars == <<tree, builder, status, bindings>>

\* An object comes from the element at place `at`.  A Table has the index of
\* its Structure, 0 without; a Structure is standalone or in a Table.
Object ==
  [at : Nat, kind : Kinds, uid : Uids \cup {None}, name : Names \cup {None},
   size : Nat, structure : Nat, standalone : BOOLEAN]

Binding == [object : DOMAIN objects, image : 0 .. Len(images), via : DOMAIN doc]

TypeOK ==
  /\ doc \in Seq([element : Vocabulary, parent : Nat, top : Nat])
  /\ \A n \in DOMAIN doc : doc[n].parent \in 0 .. n - 1 /\ doc[n].top \in 1 .. n
  /\ stack \in Seq(DOMAIN doc)
  /\ status \in {"parsing", "refused", "malformed", "invalid", "accepted"}
  /\ images \in Seq(DOMAIN doc)
  /\ image \in 0 .. Len(images)
  /\ image # 0 => stack # << >> /\ stack[1] = images[image]
  /\ objects \in Seq(Object)
  /\ \A o \in DOMAIN objects :
       /\ objects[o].at \in DOMAIN doc
       /\ objects[o].structure # 0 =>
            /\ objects[o].kind = "Table" /\ objects[o].structure \in DOMAIN objects
            /\ objects[objects[o].structure].kind = "Structure"
  /\ openTable # 0 =>
       /\ openTable \in DOMAIN objects
       /\ \E k \in DOMAIN stack : stack[k] = objects[openTable].at
  /\ uids \subseteq Uids /\ references \subseteq Uids
  /\ thumbnailReferences \subseteq references
  /\ structureReferences \in Seq([table : DOMAIN objects, ref : Uids])
  /\ \A j \in DOMAIN structureReferences :
       objects[structureReferences[j].table].kind = "Table"
  /\ events \in Seq([at : DOMAIN doc, object : 0 .. Len(objects),
                     ref : Uids \cup {None}, image : 0 .. Len(images)])
  /\ own \in Seq([at : DOMAIN doc, object : DOMAIN objects, image : DOMAIN images])
  /\ bindings \subseteq Binding

Init ==
  /\ doc = << >> /\ stack = << >> /\ status = "parsing"
  /\ images = << >> /\ image = 0 /\ objects = << >> /\ openTable = 0
  /\ uids = {} /\ references = {} /\ thumbnailReferences = {}
  /\ structureReferences = << >> /\ events = << >> /\ own = << >>
  /\ bindings = {}

-----------------------------------------------------------------------------
(* start_element and end_element *)

Here == Len(doc) + 1   \* the place of the element that starts
Parent == IF stack = << >> THEN "xisf" ELSE doc[stack[Len(stack)]].element.kind

Count(seq, Test(_)) == Cardinality({j \in DOMAIN seq : Test(seq[j])})
OwnOf(kind) == Count(own, LAMBDA b : objects[b.object].kind = kind)
Occurs(kind) == \E n \in DOMAIN doc : doc[n].element.kind = kind

WellPlaced(e) ==
  /\ e.kind \in {"Image", "Metadata"} => stack = << >>
  /\ e.kind \in Attached =>
       stack = << >> \/ (Len(stack) = 1 /\ Parent = "Image" /\ image # 0)
  /\ e.kind = "Structure" => stack = << >> \/ (Parent = "Table" /\ openTable # 0)
  /\ e.kind = "Property" => Parent \in {"xisf", "Image", "Metadata"}
  /\ e.kind = "FITSKeyword" => Parent \in {"xisf", "Image"}

\* A core element's uid is new, however the elements are nested.
Identified(e) == e.uid = None \/ e.uid \notin uids

\* A standalone Structure can be referred to; a Table has at most one inside.
StructureFits(e) ==
  e.kind = "Structure" =>
    IF stack = << >> THEN e.uid # None ELSE objects[openTable].structure = 0

\* An entry takes the open Image for its own, a Reference goes by its parent.
Binds(e) ==
  \/ e.kind \in Entries /\ (image # 0 \/ Parent = "Metadata")
  \/ e.kind = "Reference" /\ Parent \in {"Image", "Metadata"}

WithinLimits(e) ==
  /\ Binds(e) => Len(events) < MaxEntries
  /\ e.kind \in Entries => Count(objects, LAMBDA o : o.kind \in Entries) < MaxEntries
  /\ e.kind \in Attached /\ image # 0 => OwnOf(e.kind) < MaxBindings

WellFormed(e) ==
  /\ WellPlaced(e) /\ Identified(e) /\ StructureFits(e) /\ WithinLimits(e)
  /\ e.kind = "Metadata" => ~Occurs("Metadata")

ObjectOf(e) ==
  [at |-> Here, kind |-> e.kind, uid |-> e.uid, name |-> e.name,
   size |-> e.size, structure |-> 0, standalone |-> stack = << >>]

\* Mutant: the index of the Structure is taken after it was pushed.
NextIndexMutant == Len(objects) + 2

NextIndex == Len(objects) + 1

Push(e) ==
  /\ doc' = Append(doc, [element |-> e,
                         parent |-> IF stack = << >> THEN 0 ELSE stack[Len(stack)],
                         top |-> IF stack = << >> THEN Here ELSE stack[1]])
  /\ stack' = Append(stack, Here)

Enter(e) ==
  /\ WellFormed(e) /\ Push(e)
  /\ uids' = IF e.uid = None THEN uids ELSE uids \cup {e.uid}
  /\ UNCHANGED <<status, bindings>>

Event(object, ref) == [at |-> Here, object |-> object, ref |-> ref, image |-> image]

StartImage(e) ==
  /\ e.kind = "Image" /\ Enter(e)
  /\ images' = Append(images, Here) /\ image' = Len(images) + 1
  /\ UNCHANGED <<objects, openTable, references, thumbnailReferences,
                 structureReferences, events, own>>

StartMetadata(e) ==
  /\ e.kind = "Metadata" /\ Enter(e)
  /\ UNCHANGED <<images, image, objects, openTable, references,
                 thumbnailReferences, structureReferences, events, own>>

\* An element named xisf below the root leaves nothing but its name.
StartNested(e) ==
  /\ e.kind = "xisf" /\ Enter(e)
  /\ UNCHANGED <<images, image, objects, openTable, references,
                 thumbnailReferences, structureReferences, events, own>>

\* A Property or FITSKeyword outside of images and of Metadata is standalone: it
\* waits for references.
StartEntry(e) ==
  /\ e.kind \in Entries /\ Enter(e)
  /\ objects' = Append(objects, ObjectOf(e))
  /\ events' = IF Binds(e) THEN Append(events, Event(NextIndex, None)) ELSE events
  /\ UNCHANGED <<images, image, openTable, references, thumbnailReferences,
                 structureReferences, own>>

StartAttached(e) ==
  /\ e.kind \in Attached /\ Enter(e)
  /\ objects' = Append(objects, ObjectOf(e))
  /\ openTable' = IF e.kind = "Table" THEN NextIndex ELSE openTable
  /\ own' = IF image = 0 THEN own
            ELSE Append(own, [at |-> Here, object |-> NextIndex, image |-> image])
  /\ UNCHANGED <<images, image, references, thumbnailReferences,
                 structureReferences, events>>

StartStructure(e) ==
  /\ e.kind = "Structure" /\ Enter(e)
  /\ objects' = Append(IF stack = << >> THEN objects
                       ELSE [objects EXCEPT ![openTable].structure = NextIndex],
                       ObjectOf(e))
  /\ UNCHANGED <<images, image, openTable, references, thumbnailReferences,
                 structureReferences, events, own>>

StartReference(e) ==
  /\ e.kind = "Reference" /\ Enter(e)
  /\ references' = references \cup {e.ref}
  /\ thumbnailReferences' =
       thumbnailReferences \cup (IF Parent = "Thumbnail" THEN {e.ref} ELSE {})
  /\ structureReferences' =
       IF Parent = "Table"
       THEN Append(structureReferences, [table |-> openTable, ref |-> e.ref])
       ELSE structureReferences
  /\ events' = IF Binds(e) THEN Append(events, Event(0, e.ref)) ELSE events
  /\ UNCHANGED <<images, image, objects, openTable, own>>

\* The parser is stopped at the first error.
Malformed(e) ==
  /\ ~WellFormed(e) /\ Push(e)
  /\ status' = "malformed"
  /\ UNCHANGED <<builder, bindings>>

Start(e) ==
  /\ status = "parsing"
  /\ e.kind = "Metadata"
     \/ Count(doc, LAMBDA d : d.element.kind # "Metadata") < MaxElements
  /\ \/ StartImage(e) \/ StartMetadata(e) \/ StartNested(e) \/ StartEntry(e)
     \/ StartAttached(e) \/ StartStructure(e) \/ StartReference(e) \/ Malformed(e)

EndElement ==
  /\ status = "parsing" /\ stack # << >>
  /\ stack' = SubSeq(stack, 1, Len(stack) - 1)
  /\ image' = IF Parent = "Image" THEN 0 ELSE image
  /\ openTable' = IF Parent = "Table" THEN 0 ELSE openTable
  /\ UNCHANGED <<doc, images, objects, uids, references, thumbnailReferences,
                 structureReferences, events, own, status, bindings>>

\* What is not modelled may refuse the header at any time.
Refuse ==
  /\ status = "parsing" /\ status' = "refused"
  /\ UNCHANGED <<tree, builder, bindings>>

-----------------------------------------------------------------------------
(* parse_header, after the root was closed. *)

\* The *_uids maps.
Target(u, kinds) ==
  {o \in DOMAIN objects :
     u # None /\ objects[o].uid = u /\ objects[o].kind \in kinds}

ReferencesOf(t) ==
  {j \in DOMAIN structureReferences : structureReferences[j].table = t}

Standalone(u) == {o \in Target(u, {"Structure"}) : objects[o].standalone}

\* Mutant: a Structure inside the Table is forgotten.
TwiceStructuredMutant(t) == Cardinality(ReferencesOf(t)) > 1

TwiceStructured(t) ==
  Cardinality(ReferencesOf(t)) + (IF objects[t].structure # 0 THEN 1 ELSE 0) > 1

StructuresOf(t) ==
  IF ReferencesOf(t) = {} THEN {objects[t].structure} \ {0}
  ELSE UNION {Standalone(structureReferences[j].ref) : j \in ReferencesOf(t)}

\* One Structure, inside or by reference, with as many Fields as the rows have
\* Cells, if there are rows.
TableFits(t) ==
  /\ ~TwiceStructured(t)
  /\ StructuresOf(t) # {}
  /\ \A s \in StructuresOf(t) : objects[t].size \in {0, objects[s].size}

\* What a reference can bind: the Metadata element's references to the other
\* attached kinds are passed over.
Bindable(j) ==
  Entries \cup (IF events[j].image = 0 THEN {"Table"} ELSE Attached)

\* metadata_bindings, and the ..._bindings of the attached kinds.
AllBindings ==
  {[object |-> own[j].object, image |-> own[j].image, via |-> own[j].at] :
     j \in DOMAIN own}
  \cup UNION {{[object |-> o, image |-> events[j].image, via |-> events[j].at] :
                 o \in IF events[j].object # 0 THEN {events[j].object}
                       ELSE Target(events[j].ref, Bindable(j))} :
              j \in DOMAIN events}

\* The Metadata element refers to Properties, not to keywords or Tables;
\* nothing but a Table refers to a Structure.
ProperTargets ==
  /\ \A b \in AllBindings : b.image = 0 => objects[b.object].kind = "Property"
  /\ \A j \in DOMAIN events : Target(events[j].ref, {"Structure"}) = {}

\* A Table takes part with its id.
IdsUnique ==
  \A b, c \in AllBindings :
    /\ objects[b.object].kind \in {"Property", "Table"}
    /\ objects[c.object].kind \in {"Property", "Table"}
    /\ b.image = c.image /\ objects[b.object].name = objects[c.object].name
    => b = c

Resolves ==
  /\ Occurs("Metadata")
  /\ references \subseteq uids
  /\ \A r \in thumbnailReferences : Target(r, {"Thumbnail"}) = {}
  /\ \A t \in DOMAIN objects : objects[t].kind = "Table" => TableFits(t)
  /\ ProperTargets
  /\ \A kind \in Attached :
       Cardinality({b \in AllBindings : objects[b.object].kind = kind}) <= MaxBindings
  /\ IdsUnique

Finish ==
  /\ status = "parsing" /\ stack = << >>
  /\ status' = IF Resolves THEN "accepted" ELSE "invalid"
  /\ bindings' = IF Resolves THEN AllBindings ELSE {}
  /\ UNCHANGED <<tree, builder>>

Next == (\E e \in Vocabulary : Start(e)) \/ EndElement \/ Refuse \/ Finish

Spec == Init /\ [][Next]_vars

-----------------------------------------------------------------------------
(* What a header means, said of the tree of elements alone. *)

Places == DOMAIN doc
Of(n) == doc[n].element
OfKind(kinds) == {n \in Places : Of(n).kind \in kinds}
KindAbove(n) == IF doc[n].parent = 0 THEN "xisf" ELSE Of(doc[n].parent).kind
Children(p, kinds) == {n \in OfKind(kinds) : doc[n].parent = p}
Called(u) == {n \in Places : Of(n).uid = u /\ u # None}

\* An entry belongs to the Image it is in at any depth, also in an element named
\* xisf there; everything else to its parent.
InImage(n) == Of(doc[n].top).kind = "Image"
OwnerOf(n) ==
  IF Of(n).kind \in Entries /\ InImage(n) THEN doc[n].top ELSE doc[n].parent

\* What an element associates with its owner: itself, or what it refers to.
Meant(n) == IF Of(n).kind = "Reference" THEN Called(Of(n).ref) ELSE {n}
Associations ==
  {a \in [element : Places, owner : Places, via : Places] :
     /\ a.owner = OwnerOf(a.via)
     /\ a.element \in Meant(a.via)
     /\ \/ Of(a.element).kind \in Entries /\ Of(a.owner).kind \in {"Image", "Metadata"}
        \/ Of(a.element).kind \in Attached /\ Of(a.owner).kind = "Image"}

\* Elements that belong where they stand: in the root or another element whose
\* name is xisf, or in the root itself.
InPlace(n) ==
  /\ Of(n).kind \in {"Image", "Metadata"} => doc[n].parent = 0
  /\ Of(n).kind \in Attached => doc[n].parent = 0 \/ KindAbove(n) = "Image"
  /\ Of(n).kind = "Structure" =>
       KindAbove(n) = "Table" \/ (doc[n].parent = 0 /\ Of(n).uid # None)
  /\ Of(n).kind = "Property" => KindAbove(n) \in {"xisf", "Image", "Metadata"}
  /\ Of(n).kind = "FITSKeyword" => KindAbove(n) \in {"xisf", "Image"}

\* Those inside of an Image or of Metadata that are associated with it.
Associating ==
  {n \in OfKind(Entries) : InImage(n) \/ KindAbove(n) = "Metadata"}
  \cup {n \in OfKind({"Reference"}) : KindAbove(n) \in {"Image", "Metadata"}}

Owned(kinds) == {n \in OfKind(kinds) : KindAbove(n) = "Image"}

SoundSoFar ==
  /\ \A n \in Places : InPlace(n)
  /\ \A m, n \in Places : Of(m).uid = Of(n).uid /\ m # n => Of(m).uid = None
  /\ \A t \in OfKind({"Table"}) : Cardinality(Children(t, {"Structure"})) <= 1
  /\ Cardinality(OfKind({"Metadata"})) <= 1
  /\ Cardinality(Associating) <= MaxEntries
  /\ Cardinality(OfKind(Entries)) <= MaxEntries
  /\ \A kind \in Attached : Cardinality(Owned({kind})) <= MaxBindings

Sound ==
  /\ OfKind({"Metadata"}) # {}
  /\ \A r \in OfKind({"Reference"}) :
       /\ Called(Of(r).ref) # {}
       /\ \A n \in Called(Of(r).ref) :
            /\ KindAbove(r) = "Thumbnail" => Of(n).kind # "Thumbnail"
            /\ KindAbove(r) = "Metadata" => Of(n).kind \notin {"FITSKeyword", "Table"}
            /\ KindAbove(r) \in {"Image", "Metadata"} => Of(n).kind # "Structure"
  /\ \A t \in OfKind({"Table"}) :
       LET given == Children(t, {"Structure", "Reference"})
       IN /\ Cardinality(given) = 1
          /\ \A g \in given : \A s \in Meant(g) :
               /\ Of(s).kind = "Structure" /\ (s = g \/ doc[s].parent = 0)
               /\ Of(t).size # 0 => Of(t).size = Of(s).size
  /\ \A a, b \in Associations :
       /\ {Of(a.element).kind, Of(b.element).kind} \subseteq {"Property", "Table"}
       /\ a.owner = b.owner /\ Of(a.element).name = Of(b.element).name
       => a = b
  /\ \A kind \in Attached :
       Cardinality({a \in Associations : Of(a.element).kind = kind}) <= MaxBindings

\* The Document's bindings, as places in the tree.
Placed(b) ==
  [element |-> objects[b.object].at,
   owner |-> IF b.image = 0 THEN doc[b.via].parent ELSE images[b.image],
   via |-> b.via]

\* A header becomes a Document exactly if its tree is sound, in whatever order
\* its elements come, and the Document then associates with each image, and with
\* the unit, what its children are or refer to, and with an image also the
\* entries deeper in it.  No order of declaration, no nesting and no reference to
\* an element not yet seen gets lost between the callbacks and the resolution
\* (docs/M4_STATUS.md, forward references).
MeansItsTree ==
  /\ status = "parsing" => SoundSoFar
  /\ status = "malformed" => ~SoundSoFar
  /\ status = "invalid" => ~Sound
  /\ status = "accepted" => Sound /\ {Placed(b) : b \in bindings} = Associations

-----------------------------------------------------------------------------
(* The inductive invariant: what the callbacks have collected is the tree so    *)
(* far.  Malformed adds the element that was refused to the tree only.         *)

\* The open elements lie inside each other.
InvStack ==
  \A k \in DOMAIN stack :
    /\ doc[stack[k]].parent = IF k = 1 THEN 0 ELSE stack[k - 1]
    /\ doc[stack[k]].top = stack[1]

\* Each element is in the same child of the root as its parent.
InvTops ==
  \A n \in Places :
    doc[n].top = IF doc[n].parent = 0 THEN n ELSE doc[doc[n].parent].top

InvImages ==
  /\ {images[i] : i \in DOMAIN images} = OfKind({"Image"})
  /\ \A i, j \in DOMAIN images : images[i] = images[j] => i = j
  /\ image # 0 <=> stack # << >> /\ Of(stack[1]).kind = "Image"

\* An object for each element that has one, with its fields.
Describes(object, n) ==
  /\ object.kind = Of(n).kind /\ object.uid = Of(n).uid /\ object.name = Of(n).name
  /\ object.size = Of(n).size /\ (object.standalone <=> doc[n].parent = 0)

InvObjects ==
  /\ {objects[o].at : o \in DOMAIN objects} = OfKind(Attached \cup Entries \cup {"Structure"})
  /\ \A o, p \in DOMAIN objects : objects[o].at = objects[p].at => o = p
  /\ \A o \in DOMAIN objects : Describes(objects[o], objects[o].at)

InvOpenTable ==
  /\ \A k \in DOMAIN stack : Of(stack[k]).kind = "Table" =>
       openTable # 0 /\ objects[openTable].at = stack[k]
  /\ openTable # 0 => objects[openTable].kind = "Table"

\* The Structure inside of a Table.
InvInside ==
  /\ \A o \in DOMAIN objects : objects[o].structure # 0 =>
       doc[objects[objects[o].structure].at].parent = objects[o].at
  /\ \A s \in DOMAIN objects :
       objects[s].kind = "Structure" /\ doc[objects[s].at].parent # 0 =>
         \E t \in DOMAIN objects : objects[t].structure = s

\* The References inside of Tables.
TableReferences == {n \in OfKind({"Reference"}) : KindAbove(n) = "Table"}

RefersToStructure(j, n) ==
  /\ Of(n).ref = structureReferences[j].ref
  /\ doc[n].parent = objects[structureReferences[j].table].at

InvTableReferences ==
  /\ \A j \in DOMAIN structureReferences :
       \E n \in TableReferences : RefersToStructure(j, n)
  /\ \A n \in TableReferences :
       \E j \in DOMAIN structureReferences : RefersToStructure(j, n)
  /\ \A t \in DOMAIN objects :
       objects[t].kind = "Table" =>
         Cardinality(ReferencesOf(t)) = Cardinality(Children(objects[t].at, {"Reference"}))

InvReferences ==
  /\ uids = {Of(n).uid : n \in Places} \ {None}
  /\ references = {Of(n).ref : n \in OfKind({"Reference"})}
  /\ thumbnailReferences =
       {Of(n).ref : n \in {m \in OfKind({"Reference"}) : KindAbove(m) = "Thumbnail"}}

EventOf(j) ==
  LET n == events[j].at
  IN /\ IF Of(n).kind = "Reference"
        THEN events[j].object = 0 /\ events[j].ref = Of(n).ref
        ELSE /\ events[j].object # 0 /\ events[j].ref = None
             /\ objects[events[j].object].at = n
     /\ IF KindAbove(n) = "Metadata" THEN events[j].image = 0
        ELSE events[j].image # 0 /\ images[events[j].image] = OwnerOf(n)

InvEvents ==
  /\ {events[j].at : j \in DOMAIN events} = Associating
  /\ \A i, j \in DOMAIN events : events[i].at = events[j].at => i = j
  /\ \A j \in DOMAIN events : EventOf(j)

InvOwn ==
  /\ {own[j].at : j \in DOMAIN own} = Owned(Attached)
  /\ \A i, j \in DOMAIN own : own[i].at = own[j].at => i = j
  /\ \A j \in DOMAIN own :
       /\ objects[own[j].object].at = own[j].at
       /\ images[own[j].image] = doc[own[j].at].parent

InvBuilder ==
  /\ SoundSoFar /\ InvStack /\ InvTops /\ InvImages /\ InvObjects
  /\ InvOpenTable /\ InvInside /\ InvTableReferences /\ InvReferences
  /\ InvEvents /\ InvOwn

IInv ==
  /\ status # "malformed" => InvBuilder
  /\ MeansItsTree
=============================================================================
