------------------------------- MODULE ValueTrip -------------------------------
(***************************************************************************)
(* The way of a value through the program: from an element of a submodel   *)
(* (an output of an operation, say) or from a Python object (an output of  *)
(* a script) into an ElementValue, as JSON into an XCom or a request and   *)
(* out of it, and into another element, such as an input of the next       *)
(* operation; or directly, as a Python object, into the other element.     *)
(***************************************************************************)
EXTENDS ElementValues

CONSTANTS
    Elements,   \* elements that values are read from, and written to
    Objects     \* Python objects that scripts return

VARIABLES
    stage,      \* how far it got
    source,     \* the element or the object
    value,      \* the ElementValue made of it
    node,       \* its JSON
    arrived,    \* the ElementValue made of that
    target,     \* the element that was to be changed
    result      \* what became of it

vars == <<stage, source, value, node, arrived, target, result>>

Init ==
    /\ \/ stage = "element" /\ source \in Elements
       \/ stage = "object" /\ source \in Objects
    /\ value = None /\ node = None /\ arrived = None /\ target = None /\ result = None

Goes(next) == stage' = next

\* The value is made, or the program raises.
Make(v) ==
    /\ value' = v
    /\ Goes(IF v = Raised THEN "raised" ELSE "made")
    /\ UNCHANGED <<source, node, arrived, target, result>>

Read == stage = "element" /\ Make(GetValue(source))
Wrap == stage = "object" /\ Make(ToElementValue(source))

Serialize ==
    /\ stage = "made"
    /\ node' = ToJsonNode(value)
    /\ Goes(IF node' = Raised THEN "raised" ELSE "sent")
    /\ UNCHANGED <<source, value, arrived, target, result>>

Parse ==
    /\ stage = "sent"
    /\ arrived' = ParseJsonNode(node)
    /\ Goes(IF arrived' = Raised THEN "raised" ELSE "parsed")
    /\ UNCHANGED <<source, value, node, target, result>>

\* The value that arrived is applied to another element.
Apply ==
    /\ stage = "parsed"
    /\ \E e \in Elements : target' = e /\ result' = ApplyTo(arrived, e)
    /\ Goes("applied")
    /\ UNCHANGED <<source, value, node, arrived>>

\* An element is changed to a Python object, by way of no ElementValue.
Update ==
    /\ stage \in {"made", "object"}
    /\ \E e \in Elements :
         /\ target' = e
         /\ result' = UpdateElement(e, IF stage = "object" THEN source ELSE ToRawObject(value))
    /\ Goes("updated")
    /\ UNCHANGED <<source, value, node, arrived>>

Next == Read \/ Wrap \/ Serialize \/ Parse \/ Apply \/ Update

Spec == Init /\ [][Next]_vars
-----------------------------------------------------------------------------
(* What elements and values have in common.                                *)

\* The kinds, names and types of an element and its parts.
RECURSIVE Shape(_)
Shape(e) ==
    CASE e.kind \in {"Property", "Range"} -> [kind |-> e.kind, type |-> e.type]
      [] e.kind = "Collection" ->
           Collection([i \in DOMAIN e.members |-> <<e.members[i][1], Shape(e.members[i][2])>>])
      [] e.kind = "List" -> ListOf([i \in DOMAIN e.members |-> Shape(e.members[i])])
      [] OTHER -> [kind |-> e.kind]

\* A value without the types of its scalars.
RECURSIVE Untyped(_)
Untyped(v) ==
    CASE v = None -> None
      [] v # None /\ v.kind \in {"Property", "Range"} -> [v EXCEPT !.type = "any"]
      [] v # None /\ v.kind = "Collection" ->
           Collection([id \in DOMAIN v.members |-> Untyped(v.members[id])])
      [] v # None /\ v.kind = "List" ->
           ListOf([i \in DOMAIN v.members |-> Untyped(v.members[i])])
      [] OTHER -> v

\* The scalars of an element are objects of its type; True and False are integers, too.
RECURSIVE Sound(_)
Sound(e) ==
    LET fits(s) == s = None \/ s.py = PyOf[e.type] \/ (s.py = "bool" /\ e.type = "integer")
    IN  CASE e.kind = "Property" -> fits(e.value)
          [] e.kind = "Range" -> fits(e.min) /\ fits(e.max)
          [] e.kind = "Collection" -> \A i \in DOMAIN e.members : Sound(e.members[i][2])
          [] e.kind = "List" -> \A i \in DOMAIN e.members : Sound(e.members[i])
          [] OTHER -> TRUE

RECURSIVE HasTexts(_)
HasTexts(e) == \/ e.kind = "MLProperty"
               \/ e.kind = "Collection" /\ \E i \in DOMAIN e.members : HasTexts(e.members[i][2])
               \/ e.kind = "List" /\ \E i \in DOMAIN e.members : HasTexts(e.members[i])

\* Whether the trip began at an element.
FromElement == source # None /\ "kind" \in DOMAIN source
Shows(e, v) == GetValue(e) # Raised /\ Untyped(GetValue(e)) = Untyped(v)
-----------------------------------------------------------------------------
(* Properties.                                                             *)

\* Whatever is written to an element, of whatever shape and with whatever success, it
\* keeps its shape, and its scalars have its types.
TypeOK ==
    /\ stage \in {"element", "object", "made", "sent", "parsed", "applied", "updated", "raised"}
    /\ stage \in {"applied", "updated"} =>
         Shape(result.element) = Shape(target) /\ Sound(result.element)

\* What arrives is equal to what was sent, as PropertyValue and the others define
\* equality: the types of scalars may differ.
ArrivesEqual == stage = "parsed" => Untyped(arrived) = Untyped(value)

\* A value that went by JSON to an element of the shape it was read from shows there,
\* whatever that element held before.
AppliedShows ==
    stage = "applied" /\ FromElement /\ Shape(target) = Shape(source)
    => result.ok /\ Shows(result.element, value)

\* So does one that went there as a Python object, texts in several languages excepted;
\* and a whole number is accepted wherever a number, or a text, is wanted.
UpdatedShows ==
    stage = "updated" =>
      IF FromElement THEN Shape(target) = Shape(source) /\ ~HasTexts(source)
                          => result.ok /\ Shows(result.element, value)
      ELSE source # None /\ source.py = "int" /\ target.kind = "Property"
              /\ target.type \in {"int", "integer", "float", "string"}
           => result.ok

\* Bare JSON, and Python objects, lead back to the value with the help of what tells
\* the types.
BareTrip ==
    stage = "made" =>
      /\ ToRawObject(FromRawJsonNode(ToRawJsonNode(value), value)) = ToRawObject(value)
      /\ FromElement => FromRawObject(ToRawObject(value), source) # Raised
                        /\ ToRawObject(FromRawObject(ToRawObject(value), source)) = ToRawObject(value)

\* What a script returns is what a script that takes it as its input sees.
ScriptOutputSurvives == stage = "parsed" /\ ~FromElement => ToRawObject(arrived) = source

\* The same value with "integer" for "int", the one difference that the tags know.
RECURSIVE Typed(_)
Typed(v) ==
    CASE v = None -> None
      [] v # None /\ v.kind \in {"Property", "Range"} -> [v EXCEPT !.type = Tag(v.type)]
      [] v # None /\ v.kind = "Collection" ->
           Collection([id \in DOMAIN v.members |-> Typed(v.members[id])])
      [] v # None /\ v.kind = "List" ->
           ListOf([i \in DOMAIN v.members |-> Typed(v.members[i])])
      [] OTHER -> v

\* parse_json_node needs no prototype, as a value describes its type itself.
TypesArrive == stage = "parsed" => Typed(arrived) = Typed(value)
===============================================================================
