----------------------------- MODULE ElementValues -----------------------------
(***************************************************************************)
(* The values of submodel elements (mdtpy/value): ElementValue and what it *)
(* is converted to and from.                                               *)
(*                                                                         *)
(*   element of a submodel --GetValue--> ElementValue --ApplyTo--> element *)
(*   ElementValue --ToJsonNode--> JSON with types --ParseJsonNode--> ...   *)
(*   ElementValue --ToRawJsonNode--> bare JSON --FromRawJsonNode--> ...    *)
(*   ElementValue --ToRawObject--> Python object --ToElementValue--> ...   *)
(*   Python object --UpdateElement--> element                              *)
(*                                                                         *)
(* A conversion that raises yields Raised.  Elements hold the members of a *)
(* collection in order, values by name.                                    *)
(***************************************************************************)
EXTENDS Naturals, Sequences, SequencesExt, TLC

CONSTANT None

(* Scalars: the class of the Python object and what it says.  One of each  *)
(* way of encoding stands for the others: int for long and short, dateTime *)
(* for duration and decimal, date for what has no tag of its own.          *)

PyOf == [string |-> "str", int |-> "int", integer |-> "int", float |-> "float",
         boolean |-> "bool", dateTime |-> "datetime", date |-> "date"]

Xsd == DOMAIN PyOf

Scalar(py, lit) == [py |-> py, lit |-> lit]

Raised == Scalar("raised", "")

\* The texts of XSD that a type can be read from, with what they say as Python objects.
Reading(type) ==
    CASE type \in {"int", "integer"} -> [l \in {"0", "1"} |-> l]
      [] type = "float" -> "0" :> "0.0" @@ "1" :> "1.0" @@ "1.0" :> "1.0" @@ "1.5" :> "1.5"
      [] type = "boolean" -> "true" :> "True" @@ "1" :> "True" @@ "false" :> "False" @@ "0" :> "False"
      [] type = "dateTime" -> "t" :> "t"
      [] type = "date" -> "d" :> "d"
      [] OTHER -> <<>>

FromXsd(s, type) ==
    IF type = "string" THEN s
    ELSE IF s.lit \in DOMAIN Reading(type) THEN Scalar(PyOf[type], Reading(type)[s.lit])
    ELSE Raised

XsdRepr(s) ==
    Scalar("str", CASE s.lit = "True" /\ s.py = "bool" -> "true"
                    [] s.lit = "False" /\ s.py = "bool" -> "false"
                    [] OTHER -> s.lit)

\* int(s), float(s), str(s)
ToInt(s) == CASE s.py = "int" -> s
              [] s.py = "bool" -> Scalar("int", IF s.lit = "True" THEN "1" ELSE "0")
              [] s.py = "float" -> Scalar("int", IF s.lit = "0.0" THEN "0" ELSE "1")
              [] s.py = "str" -> FromXsd(s, "int")
              [] OTHER -> Raised

ToFloat(s) == CASE s.py = "float" -> s
                [] s.py \in {"int", "str"} -> FromXsd(s, "float")
                [] s.py = "bool" -> Scalar("float", IF s.lit = "True" THEN "1.0" ELSE "0.0")
                [] OTHER -> Raised

ToStr(s) == IF s = Raised THEN s
            ELSE Scalar("str", IF s.py = "datetime" THEN "day and time" ELSE s.lit)

ToBool(s) == Scalar("bool", IF s.lit \in {"0", "0.0", "False"} THEN "False" ELSE "True")

\* What the setters of an element of the given type make of an object.
TrivialCast(s, type) ==
    CASE s = None \/ s = Raised \/ s.py = PyOf[type] -> s
      [] s.py = "bool" /\ type = "integer" -> s
      [] s.py = "bool" /\ type = "int" -> ToInt(s)
      [] s.py = "int" /\ type = "boolean" -> ToBool(s)
      [] s.py = "datetime" /\ type = "date" -> Scalar("date", "d")
      [] OTHER -> Raised

-----------------------------------------------------------------------------
(* Values and elements.                                                    *)

Property(type, s) == [kind |-> "Property", type |-> type, value |-> s]
RangeOf(type, min, max) == [kind |-> "Range", type |-> type, min |-> min, max |-> max]
FileOf(contentType, name) == [kind |-> "File", contentType |-> contentType, name |-> name]
\* texts: pairs of a language and a text in a value, a function in an element
MLProperty(texts) == [kind |-> "MLProperty", texts |-> texts]
\* members: by name in a value; pairs of a name and an element in an element
Collection(members) == [kind |-> "Collection", members |-> members]
ListOf(members) == [kind |-> "List", members |-> members]

Dict(items) == [py |-> "dict", items |-> items]
PyList(items) == [py |-> "list", items |-> items]

Failed(v) == v = Raised
AnyFailed(f) == \E i \in DOMAIN f : Failed(f[i])

\* The result with all parts, unless one of them failed.
Whole(parts, result) == IF AnyFailed(parts) THEN Raised ELSE result

\* A collection's elements by name.
ByName(pairs) == [id \in {pairs[i][1] : i \in DOMAIN pairs} |->
                    (CHOOSE i \in DOMAIN pairs : pairs[i][1] = id)]

RECURSIVE GetValue(_)
GetValue(e) ==
    CASE e.kind = "Collection" ->
           LET at == ByName(e.members)
               vs == [id \in DOMAIN at |-> GetValue(e.members[at[id]][2])]
           IN  Whole(vs, Collection(vs))
      [] e.kind = "List" ->
           LET vs == [i \in DOMAIN e.members |-> GetValue(e.members[i])]
           IN  Whole(vs, ListOf(vs))
      [] e.kind = "MLProperty" ->
           IF e.texts = None THEN Raised
           ELSE MLProperty([i \in DOMAIN SetToSeq(DOMAIN e.texts) |->
                              LET lang == SetToSeq(DOMAIN e.texts)[i]
                              IN  <<lang, e.texts[lang]>>])
      [] OTHER -> e

\* mdt_value
MdtValue(s) ==
    CASE s.py = "str" -> Property("string", s)
      [] s.py = "bool" -> Property("boolean", s)
      [] s.py = "int" -> Property("integer", s)
      [] s.py = "float" -> Property("float", s)
      [] OTHER -> Raised

RECURSIVE ToElementValue(_)
ToElementValue(raw) ==
    CASE raw = None -> Raised
      [] raw.py = "dict" ->
           LET vs == [id \in DOMAIN raw.items |->
                        IF raw.items[id] = None THEN None ELSE ToElementValue(raw.items[id])]
           IN  Whole(vs, Collection(vs))
      [] raw.py = "list" ->
           LET vs == [i \in DOMAIN raw.items |-> ToElementValue(raw.items[i])]
           IN  Whole(vs, ListOf(vs))
      [] OTHER -> MdtValue(raw)

-----------------------------------------------------------------------------
(* JSON with types.                                                        *)

\* A string stands for what is no string, number or boolean of JSON.
StringEncoded == {"dateTime", "date"}

\* Types that a Property is written with; an integer is written as an int.
Tags == Xsd \ {"date", "integer"}
Tag(type) == IF type = "integer" THEN "int" ELSE type

\* The type that a Range is written with: there is no name for integer.
Vtype(type) == IF type = "integer" THEN "string" ELSE type

EncodeScalar(s, type) == IF s # None /\ type \in StringEncoded THEN XsdRepr(s) ELSE s

\* Mutant: a string of JSON is taken as it is.
MutantDecodeScalar(j, type) == j

DecodeScalar(j, type) == IF j # None /\ j.py = "str" THEN FromXsd(j, type) ELSE j

Node(tag, value) == [tag |-> tag, value |-> value]

\* Mutant: members without a value are left out, as in bare JSON.
MutantWritten(members) == {id \in DOMAIN members : members[id] # None}

\* The members of a collection that are written.
Written(members) == DOMAIN members

RECURSIVE ToJsonNode(_)
ToJsonNode(v) ==
    CASE v.kind = "Property" ->
           IF Tag(v.type) \notin Tags THEN Raised
           ELSE Node(Tag(v.type), EncodeScalar(v.value, v.type))
      [] v.kind = "Range" ->
           Node("range", [vtype |-> Vtype(v.type), min |-> EncodeScalar(v.min, v.type),
                          max |-> EncodeScalar(v.max, v.type)])
      [] v.kind = "File" -> Node("file", [contentType |-> v.contentType, value |-> v.name])
      [] v.kind = "MLProperty" -> Node("mlprop", v.texts)
      [] v.kind = "Collection" ->
           LET ns == [id \in Written(v.members) |->
                        IF v.members[id] = None THEN None ELSE ToJsonNode(v.members[id])]
           IN  Whole(ns, Node("collection", ns))
      [] v.kind = "List" ->
           LET ns == [i \in DOMAIN v.members |-> ToJsonNode(v.members[i])]
           IN  Whole(ns, Node("list", ns))

RECURSIVE ParseJsonNode(_)
ParseJsonNode(n) ==
    CASE n.tag \in Tags ->
           LET s == DecodeScalar(n.value, n.tag) IN Whole(<<s>>, Property(n.tag, s))
      [] n.tag = "range" ->
           LET min == DecodeScalar(n.value.min, n.value.vtype)
               max == DecodeScalar(n.value.max, n.value.vtype)
           IN  Whole(<<min, max>>, RangeOf(n.value.vtype, min, max))
      [] n.tag = "file" -> FileOf(n.value.contentType, n.value.value)
      [] n.tag = "mlprop" -> MLProperty(n.value)
      [] n.tag = "collection" ->
           LET vs == [id \in DOMAIN n.value |->
                        IF n.value[id] = None THEN None ELSE ParseJsonNode(n.value[id])]
           IN  Whole(vs, Collection(vs))
      [] n.tag = "list" ->
           LET vs == [i \in DOMAIN n.value |-> ParseJsonNode(n.value[i])]
           IN  Whole(vs, ListOf(vs))

-----------------------------------------------------------------------------
(* Bare JSON, and Python objects.                                          *)

Texts(texts) == PyList([i \in DOMAIN texts |-> Dict(texts[i][1] :> texts[i][2])])
FromTexts(list) ==
    MLProperty([i \in DOMAIN list.items |->
                  LET d == list.items[i].items
                      lang == CHOOSE l \in DOMAIN d : TRUE
                  IN  <<lang, d[lang]>>])

Field(dict, id) == IF id \in DOMAIN dict.items THEN dict.items[id] ELSE None

Bare(s) == IF s = None THEN None ELSE XsdRepr(s)

RECURSIVE ToRawJsonNode(_)
ToRawJsonNode(v) ==
    CASE v.kind = "Property" -> Bare(v.value)
      [] v.kind = "Range" -> Dict("min" :> Bare(v.min) @@ "max" :> Bare(v.max))
      [] v.kind = "File" -> Dict("contentType" :> v.contentType @@ "value" :> v.name)
      [] v.kind = "MLProperty" -> Texts(v.texts)
      [] v.kind = "Collection" ->
           Dict([id \in {m \in DOMAIN v.members : v.members[m] # None} |->
                   ToRawJsonNode(v.members[id])])
      [] v.kind = "List" -> PyList([i \in DOMAIN v.members |-> ToRawJsonNode(v.members[i])])

\* Mutant: a string is taken as it is.
MutantFromBare(j, type) == j

FromBare(j, type) == IF j # None /\ j.py = "str" THEN FromXsd(j, type) ELSE j

Shorter(s, t) == 1 .. (IF Len(s) < Len(t) THEN Len(s) ELSE Len(t))

\* proto is a value, which tells the types.
RECURSIVE FromRawJsonNode(_, _)
FromRawJsonNode(j, proto) ==
    IF proto.kind = "Property"
    THEN LET s == FromBare(j, proto.type) IN Whole(<<s>>, Property(proto.type, s))
    ELSE IF j = None THEN Raised
    ELSE CASE proto.kind = "Range" ->
                LET min == FromBare(Field(j, "min"), proto.type)
                    max == FromBare(Field(j, "max"), proto.type)
                IN  Whole(<<min, max>>, RangeOf(proto.type, min, max))
           [] proto.kind = "File" -> FileOf(Field(j, "contentType"), Field(j, "value"))
           [] proto.kind = "MLProperty" -> FromTexts(j)
           [] proto.kind = "Collection" ->
                LET vs == [id \in DOMAIN proto.members |->
                             IF Field(j, id) = None \/ proto.members[id] = None THEN None
                             ELSE FromRawJsonNode(Field(j, id), proto.members[id])]
                IN  Whole(vs, Collection(vs))
           [] proto.kind = "List" ->
                LET vs == [i \in Shorter(proto.members, j.items) |->
                             FromRawJsonNode(j.items[i], proto.members[i])]
                IN  Whole(vs, ListOf(vs))

RECURSIVE ToRawObject(_)
ToRawObject(v) ==
    CASE v.kind = "Property" -> DecodeScalar(v.value, v.type)
      [] v.kind = "Range" -> Dict("min" :> v.min @@ "max" :> v.max)
      [] v.kind = "File" -> Dict("content_type" :> v.contentType @@ "value" :> v.name)
      [] v.kind = "MLProperty" -> Texts(v.texts)
      [] v.kind = "Collection" ->
           Dict([id \in DOMAIN v.members |->
                   IF v.members[id] = None THEN None ELSE ToRawObject(v.members[id])])
      [] v.kind = "List" -> PyList([i \in DOMAIN v.members |-> ToRawObject(v.members[i])])

\* proto is an element, which tells the types.
RECURSIVE FromRawObject(_, _)
FromRawObject(raw, proto) ==
    IF proto.kind = "Property" THEN Property(proto.type, raw)
    ELSE IF raw = None THEN Raised
    ELSE CASE proto.kind = "Range" -> RangeOf(proto.type, Field(raw, "min"), Field(raw, "max"))
           [] proto.kind = "File" -> FileOf(Field(raw, "content_type"), Field(raw, "value"))
           [] proto.kind = "MLProperty" -> FromTexts(raw)
           [] proto.kind = "Collection" ->
                LET at == ByName(proto.members)
                    vs == [id \in DOMAIN at |->
                             IF Field(raw, id) = None THEN None
                             ELSE FromRawObject(Field(raw, id), proto.members[at[id]][2])]
                IN  Whole(vs, Collection(vs))
           [] proto.kind = "List" ->
                LET vs == [i \in Shorter(proto.members, raw.items) |->
                             FromRawObject(raw.items[i], proto.members[i])]
                IN  Whole(vs, ListOf(vs))

-----------------------------------------------------------------------------
(* Changing an element: what it is afterwards, and whether all was well.   *)

Changed(e, ok) == [element |-> e, ok |-> ok]

\* Mutant: the changed parts replace all of them.
MutantInTurn(e, rs) ==
    Changed([e EXCEPT !.members = [i \in DOMAIN rs |-> rs[i].element]], \A i \in DOMAIN rs : rs[i].ok)

\* The parts of a container are changed one after the other, up to the first that
\* cannot be; rs are the results of changing each.
InTurn(e, rs) ==
    LET bad == {i \in DOMAIN rs : ~rs[i].ok}
        reached(i) == i \in DOMAIN rs /\ \A b \in bad : i <= b
    IN  Changed([e EXCEPT !.members = [i \in DOMAIN @ |-> IF reached(i) THEN rs[i].element ELSE @[i]]],
                bad = {})

\* The setters of an element.
SetScalar(e, s) ==
    LET cast == TrivialCast(s, e.type)
    IN  IF cast = Raised THEN Changed(e, FALSE) ELSE Changed([e EXCEPT !.value = cast], TRUE)

SetRange(e, min, max) ==
    LET low == TrivialCast(min, e.type)
        high == TrivialCast(max, e.type)
    IN  CASE low = Raised -> Changed(e, FALSE)
          [] high = Raised -> Changed([e EXCEPT !.min = low], FALSE)
          [] OTHER -> Changed([e EXCEPT !.min = low, !.max = high], TRUE)

\* Mutant: None leaves the old value.
MutantLikeTheOld(old, raw) == IF raw = None THEN old ELSE raw

\* A new value of a Property becomes what the old one is, before it is set.
LikeTheOld(old, raw) ==
    CASE old = None \/ raw = None \/ raw = Raised -> raw
      [] old.py \in {"int", "bool"} -> ToInt(raw)
      [] old.py = "float" -> ToFloat(raw)
      [] old.py = "str" -> ToStr(raw)
      [] OTHER -> raw

\* A function from languages to texts; a later text of a language hides earlier ones.
ByLanguage(texts) ==
    [l \in {texts[i][1] : i \in DOMAIN texts} |->
       LET last == CHOOSE i \in DOMAIN texts :
                     texts[i][1] = l /\ \A j \in DOMAIN texts : texts[j][1] = l => j <= i
       IN  texts[last][2]]

MemberOf(v, id) == IF id \in DOMAIN v.members THEN v.members[id] ELSE None

RECURSIVE ApplyTo(_, _)
ApplyTo(v, e) ==
    CASE v.kind # e.kind -> Changed(e, FALSE)
      [] v.kind = "Property" /\ e.kind = "Property" ->
           SetScalar(e, LikeTheOld(e.value, DecodeScalar(v.value, v.type)))
      [] v.kind = "Range" /\ e.kind = "Range" -> SetRange(e, v.min, v.max)
      [] v.kind = "File" /\ e.kind = "File" -> Changed(v, TRUE)
      [] v.kind = "MLProperty" /\ e.kind = "MLProperty" ->
           Changed(MLProperty(ByLanguage(v.texts)), TRUE)
      [] v.kind = "Collection" /\ e.kind = "Collection" ->
           InTurn(e,
                  [i \in DOMAIN e.members |->
                     LET id == e.members[i][1]
                         old == e.members[i][2]
                         m == MemberOf(v, id)
                         r == IF m = None THEN Changed(old, TRUE) ELSE ApplyTo(m, old)
                     IN  Changed(<<id, r.element>>, r.ok)])
      [] v.kind = "List" /\ e.kind = "List" ->
           InTurn(e,
                  [i \in Shorter(e.members, v.members) |-> ApplyTo(v.members[i], e.members[i])])

\* The class of a type called with a number.
Construct(type, s) ==
    CASE type \in {"int", "integer"} -> ToInt(s)
      [] type = "float" -> ToFloat(s)
      [] type = "string" -> ToStr(s)
      [] type = "boolean" -> ToBool(s)
      [] OTHER -> Raised

\* Mutant: a number is set as it is.
MutantNewScalar(type, raw) ==
    IF raw # None /\ raw.py = "str" THEN FromXsd(raw, type) ELSE raw

NewScalar(type, raw) ==
    CASE raw = None -> None
      [] raw # None /\ raw.py = "str" -> FromXsd(raw, type)
      [] raw # None /\ raw.py \in {"int", "float"} -> Construct(type, raw)
      [] OTHER -> raw

Languages == {"en", "ko"}
AreTexts(items) == /\ DOMAIN items \in SUBSET Languages \ {{}}
                   /\ \A l \in DOMAIN items : items[l] # None /\ items[l].py = "str"

\* update_element_with_raw_value
RECURSIVE UpdateElement(_, _)
UpdateElement(e, raw) ==
    IF e.kind = "Property" THEN SetScalar(e, NewScalar(e.type, raw))
    ELSE IF raw = None \/ raw.py # (IF e.kind = "List" THEN "list" ELSE "dict")
    THEN Changed(e, FALSE)
    ELSE CASE e.kind = "Range" -> SetRange(e, Field(raw, "min"), Field(raw, "max"))
           [] e.kind = "File" ->
                IF Field(raw, "content_type") = None
                THEN Changed([e EXCEPT !.contentType = None], FALSE)
                ELSE Changed(FileOf(Field(raw, "content_type"), Field(raw, "value")), TRUE)
           [] e.kind = "MLProperty" ->
                IF AreTexts(raw.items) THEN Changed(MLProperty(raw.items), TRUE)
                                       ELSE Changed(e, FALSE)
           [] e.kind = "Collection" ->
                InTurn(e,
                       [i \in DOMAIN e.members |->
                          LET r == UpdateElement(e.members[i][2], Field(raw, e.members[i][1]))
                          IN  Changed(<<e.members[i][1], r.element>>, r.ok)])
           [] e.kind = "List" ->
                InTurn(e,
                       [i \in Shorter(e.members, raw.items) |->
                          UpdateElement(e.members[i], raw.items[i])])
===============================================================================
