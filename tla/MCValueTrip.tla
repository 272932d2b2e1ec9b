------------------------------ MODULE MCValueTrip ------------------------------
(* ValueTrip for TLC: every kind and type, containers of two, two levels.    *)
EXTENDS ValueTrip

Lits == [string |-> {"1", "x"}, int |-> {"0", "1"}, integer |-> {"0", "1"}, float |-> {"1.0", "1.5"},
         boolean |-> {"True", "False"}, dateTime |-> {"t"}, date |-> {"d"}]
Scalars(t) == {None} \cup {Scalar(PyOf[t], l) : l \in Lits[t]}
Text(l) == Scalar("str", l)

Properties == UNION {{Property(t, s) : s \in Scalars(t)} : t \in Xsd}
Ranges == UNION {{RangeOf(t, min, max) : min \in Scalars(t), max \in Scalars(t)}
                 : t \in {"integer", "float", "date"}}
Files == {FileOf(Text("plain"), n) : n \in {None, Text("x")}}
MLProperties == {MLProperty(None), MLProperty("en" :> Text("x")),
                 MLProperty("en" :> Text("x") @@ "ko" :> Text("1"))}
Leaves == Properties \cup Ranges \cup Files \cup MLProperties

Few == {Property("string", Text("x")), Property("integer", Scalar("int", "1")),
        Property("boolean", None), Property("float", Scalar("float", "1.5")),
        RangeOf("integer", Scalar("int", "0"), None), FileOf(Text("plain"), Text("x")),
        MLProperty(None), MLProperty("en" :> Text("x"))}
Pairs == {Collection(<<<<"b", e>>, <<"a", f>>>>) : e \in Few, f \in Few}
Lists == {ListOf(<<>>)} \cup {ListOf(<<e, f>>) : e \in Few, f \in {Property("integer", Scalar("int", "1"))}}
Nested == {Collection(<<<<"a", l>>>>) : l \in Lists} \cup {ListOf(<<c>>) : c \in Pairs}

MCElements == Leaves \cup Pairs \cup Lists \cup Nested

SomeScalars == {None, Text("x"), Text("1"), Scalar("bool", "True"), Scalar("int", "1"),
                Scalar("float", "1.5"), Scalar("datetime", "t")}
MCObjects ==
    SomeScalars
    \cup {Dict("a" :> s @@ "b" :> t) : s \in SomeScalars, t \in SomeScalars}
    \cup {PyList(<<s, t>>) : s \in SomeScalars, t \in SomeScalars}
    \cup {Dict("a" :> PyList(<<s, Dict("b" :> s)>>)) : s \in SomeScalars}
===============================================================================
