------------------------- MODULE AasOperationProofs -------------------------
(***************************************************************************)
(* Proofs about AasOperation, for any operation, descriptor, elements and  *)
(* number of calls.  All but type correctness need that callers pass an    *)
(* element for one variable only; AasOperationAlias.cfg shows why.  On the *)
(* same condition OperationVariables is implemented.                       *)
(***************************************************************************)
EXTENDS AasOperation, TLAPS

OneVariableEach == \A e \in Elems : \A v, w \in GivenFor[e] : v = w

LEMMA SizesAreNat == NIn \in Nat /\ NInOut \in Nat /\ NElems \in Nat /\ MaxCalls \in Nat
  BY SizesAssumption

\* Variables, and the elements that came with them, are told from callers' elements.
LEMMA ObjectsAreDistinct ==
    /\ Vars \subseteq Objects
    /\ Elems \subseteq Objects
    /\ Elems \cap Vars = {}
    /\ 1 .. NIn \subseteq Vars
    /\ NVars \in Nat
  BY SizesAreNat DEF Vars, Elems, Objects, NVars

\* The values that the model writes have their type.
LEMMA ValueTypes ==
    ASSUME NEW o \in Objects, NEW k \in 0 .. MaxCalls
    PROVE  /\ Default(o) \in Values /\ Given(o, k) \in Values
           /\ Mixed(o, k) \in Values /\ Own(o, k) \in Values
  BY SizesAreNat DEF Default, Given, Mixed, Own, Values

-----------------------------------------------------------------------------
(* Type correctness.                                                       *)

\* A variable's element is named like some variable, so there is an argument to look up.
NamesAreVars == \A v \in Vars : VarId(v) \in Vars

LEMMA InitTypeOK == Init => TypeOK /\ NamesAreVars
<1> SUFFICES ASSUME Init PROVE TypeOK /\ NamesAreVars
  OBVIOUS
<1> USE SizesAreNat, ObjectsAreDistinct
<1>1. /\ call \in 0 .. MaxCalls /\ pc = "idle" /\ byService = FALSE /\ pos \in 1 .. NVars + 1
      /\ args \in [Vars -> Arg]
  BY DEF Init, Arg
<1>2. holds \in [Vars -> Objects] /\ idShort \in [Objects -> 0 .. NVars]
  BY DEF Init, Vars
<1>3. val \in [Objects -> Values]
  BY ValueTypes DEF Init
<1>4. sent \in Sent
  <2>1. \A v \in 1 .. NIn : v \in 0 .. NVars /\ Default(v) \in Values
    BY ValueTypes DEF Vars
  <2>2. QED BY <2>1 DEF Init, Sent
<1>5. start \in [holds : [Vars -> Objects], val : [Objects -> Values]]
  BY <1>2, <1>3 DEF Init
<1>6. NamesAreVars
  BY DEF Init, NamesAreVars, VarId
<1>7. QED BY <1>1, <1>2, <1>3, <1>4, <1>5, <1>6 DEF TypeOK

LEMMA NextTypeOK ==
    TypeOK /\ NamesAreVars /\ [Next]_vars => TypeOK' /\ NamesAreVars'
<1> SUFFICES ASSUME TypeOK, NamesAreVars, [Next]_vars PROVE TypeOK' /\ NamesAreVars'
  OBVIOUS
<1> USE SizesAreNat, ObjectsAreDistinct
<1>1. CASE New
  <2>1. idShort' \in [Objects -> 0 .. NVars] /\ holds' \in [Vars -> Objects]
    BY <1>1 DEF New, TypeOK, Vars
  <2>2. val' \in [Objects -> Values]
    BY <1>1, ValueTypes DEF New, TypeOK
  <2>3. NamesAreVars'
    BY <1>1 DEF New, NamesAreVars, VarId
  <2>4. QED BY <1>1, <2>1, <2>2, <2>3 DEF New, TypeOK
<1>2. ASSUME NEW e \in Elems, Edit(e) PROVE TypeOK' /\ NamesAreVars'
  <2>1. val' \in [Objects -> Values]
    BY <1>2, ValueTypes DEF Edit, TypeOK
  <2>2. QED BY <1>2, <2>1 DEF Edit, TypeOK, NamesAreVars, VarId
<1>3. ASSUME NEW a \in [Vars -> Arg], Enter(a), byService' \in BOOLEAN
      PROVE  TypeOK' /\ NamesAreVars'
  BY <1>3 DEF Enter, TypeOK, NamesAreVars, VarId
<1>4. CASE BeginInvoke
  BY <1>3, <1>4 DEF BeginInvoke
<1>5. CASE BeginService
  <2>1. \A a \in [Vars -> Arg] : WithDefaults(a) \in [Vars -> Arg]
    BY DEF WithDefaults, Arg
  <2>2. QED BY <1>3, <1>5, <2>1 DEF BeginService
<1>6. CASE Apply
  <2>1. /\ pos \in Vars /\ pos + 1 \in 1 .. NVars + 1
        /\ VarId(pos) \in Vars /\ holds[pos] \in Objects
    BY <1>6 DEF Apply, TypeOK, Vars, NamesAreVars
  <2>2. UNCHANGED <<call, pc, args, byService, sent, start>> /\ pos' = pos + 1
    BY <1>6 DEF Apply
  <2>3. CASE Skip
    BY <2>1, <2>2, <2>3 DEF Skip, TypeOK, NamesAreVars, VarId
  <2>4. CASE ApplyValue
    <3>1. val' \in [Objects -> Values]
      <4>1. Given(VarId(pos), call) \in Values /\ Mixed(VarId(pos), call) \in Values
        BY <2>1, ValueTypes DEF TypeOK
      <4>2. \E x \in Values : val' = [val EXCEPT ![holds[pos]] = x]
        BY <2>4, <4>1 DEF ApplyValue
      <4>3. QED BY <2>1, <4>2 DEF TypeOK
    <3>2. UNCHANGED <<holds, idShort>>
      BY <2>4 DEF ApplyValue
    <3>3. TypeOK'
      BY <2>1, <2>2, <3>1, <3>2 DEF TypeOK
    <3>4. QED BY <3>2, <3>3 DEF NamesAreVars, VarId
  <2>5. CASE ReplaceElement
    <3>1. PICK e \in Elems : /\ holds' = [holds EXCEPT ![pos] = e]
                             /\ idShort' = [idShort EXCEPT ![e] = VarId(pos)]
                             /\ UNCHANGED val
      BY <2>5 DEF ReplaceElement
    <3>2. holds' \in [Vars -> Objects] /\ idShort' \in [Objects -> 0 .. NVars]
      BY <2>1, <3>1 DEF TypeOK, Vars
    <3>3. NamesAreVars'
      BY <2>1, <3>1 DEF TypeOK, NamesAreVars, VarId
    <3>4. QED BY <2>2, <2>1, <3>1, <3>2, <3>3 DEF TypeOK
  <2>6. QED BY <1>6, <2>3, <2>4, <2>5 DEF Apply
<1>7. CASE ApplyFails
  <2>1. pos \in Vars /\ VarId(pos) \in Vars /\ holds[pos] \in Objects
    BY <1>7 DEF ApplyFails, TypeOK, Vars, NamesAreVars
  <2>2. val' \in [Objects -> Values]
    <3>1. Mixed(VarId(pos), call) \in Values
      BY <2>1, ValueTypes DEF TypeOK
    <3>2. val[holds[pos]] \in Values
      BY <2>1 DEF TypeOK
    <3>3. \E x \in Values : val' = [val EXCEPT ![holds[pos]] = x]
      BY <1>7, <3>1, <3>2 DEF ApplyFails
    <3>4. val \in [Objects -> Values]
      BY DEF TypeOK
    <3>5. QED BY <3>3, <3>4
  <2>3. QED BY <1>7, <2>2 DEF ApplyFails, Leave, TypeOK, NamesAreVars, VarId
<1>8. CASE SendRequest
  <2>1. \A v \in 1 .. NIn : VarId(v) \in 0 .. NVars /\ val[holds[v]] \in Values
    BY DEF TypeOK, NamesAreVars, Vars
  <2>2. sent' \in Sent
    BY <1>8, <2>1 DEF SendRequest, Sent
  <2>3. QED BY <1>8, <2>2 DEF SendRequest, TypeOK, NamesAreVars, VarId
<1>9. CASE ReceiveResult
  BY <1>9 DEF ReceiveResult, Leave, TypeOK, NamesAreVars, VarId
<1>10. CASE UNCHANGED vars
  BY <1>10 DEF vars, TypeOK, NamesAreVars, VarId
<1>11. QED
  BY <1>1, <1>2, <1>4, <1>5, <1>6, <1>7, <1>8, <1>9, <1>10 DEF Next

\* The variables keep their types, even when elements are passed for several variables.
THEOREM TypeCorrect == Spec => []TypeOK
<1>1. Spec => [](TypeOK /\ NamesAreVars)
  BY InitTypeOK, NextTypeOK, PTL DEF Spec
<1>2. QED BY <1>1, PTL
-----------------------------------------------------------------------------
(* What is sent and what is kept.                                          *)

\* A variable holds its own element or one that was passed for it, under its name.
HoldsFit ==
    \A v \in Vars : /\ VarId(v) = v
                    /\ holds[v] = v \/ (holds[v] \in Elems /\ v \in GivenFor[holds[v]])

\* Variables before `pos' hold what they are expected to, the others what they held when
\* the call began, and so do the elements that are still to replace theirs.
Progress ==
    pc # "idle" =>
        /\ \A v \in Vars : v < pos => val[holds[v]] = Expected(v)
        /\ \A v \in Vars : v >= pos => val[holds[v]] = start.val[start.holds[v]]
        /\ \A v \in Vars, e \in Elems :
             args[v] = Element(e) /\ v >= pos => val[e] = start.val[e]
        /\ pc = "invoking" => pos > NVars

\* A service passes an argument for every input it describes.
NoneLeftOut == byService => \A v \in Described : args[v] # NotGiven

IInv == /\ TypeOK /\ NamesAreVars
        /\ Fits(args) /\ HoldsFit /\ Progress /\ NoneLeftOut
        /\ SentIsGiven

\* No two variables hold the same element.
LEMMA HoldsInjective ==
    ASSUME HoldsFit, NEW v \in Vars, NEW w \in Vars, holds[v] = holds[w] PROVE v = w
  BY DEF HoldsFit, VarId

\* The kinds of arguments are different.
LEMMA ArgKinds ==
    /\ NotGiven # Whole /\ NotGiven # Part /\ Whole # Part
    /\ \A e : /\ Element(e) \notin {NotGiven, Whole, Part}
             /\ Element(e)[2] = e
    /\ \A e, f : Element(e) = Element(f) => e = f
  BY DEF NotGiven, Whole, Part, Element

LEMMA InitIInv == Init => IInv
<1> SUFFICES ASSUME Init PROVE IInv
  OBVIOUS
<1>1. Fits(args) /\ NoneLeftOut
  BY ArgKinds, GivenForAssumption, DescribedAssumption DEF Init, Fits, NoneLeftOut
<1>2. HoldsFit /\ Progress /\ SentIsGiven
  BY ObjectsAreDistinct DEF Init, HoldsFit, VarId, Progress, SentIsGiven
<1>3. QED BY InitTypeOK, <1>1, <1>2 DEF IInv

\* One turn of the loop over the variables.
LEMMA ApplyIInv == ASSUME OneVariableEach, IInv, Apply PROVE IInv'
<1> USE ObjectsAreDistinct, SizesAreNat
<1>1. /\ pos \in Vars /\ VarId(pos) = pos /\ holds[pos] \in Objects /\ pos' = pos + 1
      /\ pc = "applying"
      /\ UNCHANGED <<call, pc, args, byService, sent, start>>
      /\ Skip \/ ApplyValue \/ ReplaceElement
  BY DEF Apply, IInv, TypeOK, Vars, HoldsFit
<1>2. TypeOK' /\ NamesAreVars'
  BY NextTypeOK DEF IInv, Next
<1>3. Fits(args)' /\ NoneLeftOut' /\ SentIsGiven'
  BY <1>1 DEF IInv, Fits, NoneLeftOut, SentIsGiven
<1>4. \A v \in Vars : Expected(v)' = Expected(v)
  BY <1>1 DEF Expected
<1>5. \A v \in Vars : v < pos' => v < pos \/ v = pos
  BY <1>1 DEF Vars
<1>6. \A v \in Vars : v >= pos' => v >= pos /\ v # pos
  BY <1>1 DEF Vars
<1>7. ASSUME HoldsFit', val'[holds'[pos]] = Expected(pos),
             \A v \in Vars : v # pos => val'[holds'[v]] = val[holds[v]],
             \A v \in Vars, e \in Elems : args[v] = Element(e) /\ v # pos => val'[e] = val[e]
      PROVE  IInv'
  <2>1. Progress'
    BY <1>1, <1>4, <1>5, <1>6, <1>7 DEF IInv, Progress
  <2>2. QED BY <1>2, <1>3, <1>7, <2>1 DEF IInv
<1>8. CASE Skip
  <2>1. args[pos] = NotGiven /\ UNCHANGED <<holds, idShort, val>>
    BY <1>1, <1>8 DEF Skip
  <2>2. val[holds[pos]] = Expected(pos)
    BY <1>1, <2>1, ArgKinds DEF IInv, Progress, Expected, Vars
  <2>3. QED BY <1>7, <2>1, <2>2 DEF IInv, HoldsFit, VarId
<1>9. CASE ApplyValue
  <2>1. /\ args[pos] \in {Whole, Part} /\ UNCHANGED <<holds, idShort>>
        /\ val' = [val EXCEPT ![holds[pos]] = Expected(pos)]
    BY <1>1, <1>9, ArgKinds DEF ApplyValue, Expected
  <2>2. HoldsFit'
    BY <2>1 DEF IInv, HoldsFit, VarId
  <2>3. \A v \in Vars : v # pos => holds[v] # holds[pos] /\ holds[v] \in Objects
    BY <1>1, HoldsInjective DEF IInv, TypeOK
  <2>4. ASSUME NEW v \in Vars, NEW e \in Elems, args[v] = Element(e), v # pos
        PROVE  e # holds[pos]
    BY <1>1, <2>4 DEF IInv, Fits, HoldsFit, OneVariableEach
  <2>5. val \in [Objects -> Values]
    BY DEF IInv, TypeOK
  <2>6. val'[holds'[pos]] = Expected(pos)
    BY <1>1, <2>1, <2>5
  <2>7. \A v \in Vars : v # pos => val'[holds'[v]] = val[holds[v]]
    BY <2>1, <2>3, <2>5
  <2>8. \A v \in Vars, e \in Elems : args[v] = Element(e) /\ v # pos => val'[e] = val[e]
    BY <2>1, <2>4, <2>5
  <2>9. QED BY <1>7, <2>2, <2>6, <2>7, <2>8
<1>10. CASE ReplaceElement
  <2>1. PICK e \in Elems : /\ args[pos] = Element(e)
                           /\ holds' = [holds EXCEPT ![pos] = e]
                           /\ idShort' = [idShort EXCEPT ![e] = pos]
                           /\ UNCHANGED val
    BY <1>1, <1>10 DEF ReplaceElement
  <2>2. pos \in GivenFor[e]
    BY <1>1, <2>1 DEF IInv, Fits
  <2>3. /\ holds'[pos] = e /\ idShort'[e] = pos
        /\ \A v \in Vars : v # pos => holds'[v] = holds[v]
    BY <1>1, <2>1 DEF IInv, TypeOK
  <2>4. ASSUME NEW v \in Vars, v # pos PROVE idShort'[holds[v]] = idShort[holds[v]]
    <3>1. holds[v] # e
      BY <1>1, <2>2, <2>4 DEF IInv, HoldsFit, OneVariableEach
    <3>2. QED BY <2>1, <3>1 DEF IInv, TypeOK
  <2>5. HoldsFit'
    <3>1. ASSUME NEW v \in Vars
          PROVE  /\ idShort'[holds'[v]] = v
                 /\ holds'[v] = v \/ (holds'[v] \in Elems /\ v \in GivenFor[holds'[v]])
      <4>1. CASE v = pos
        BY <2>2, <2>3, <4>1
      <4>2. CASE v # pos
        BY <2>3, <2>4, <4>2 DEF IInv, HoldsFit, VarId
      <4>3. QED BY <4>1, <4>2
    <3>2. QED BY <3>1 DEF HoldsFit, VarId
  <2>6. val'[holds'[pos]] = Expected(pos)
    <3>1. val[e] = start.val[e]
      BY <1>1, <2>1 DEF IInv, Progress, Vars
    <3>2. Expected(pos) = start.val[e]
      BY <2>1, ArgKinds DEF Expected
    <3>3. QED BY <2>1, <2>3, <3>1, <3>2
  <2>7. QED BY <1>7, <2>1, <2>3, <2>5, <2>6
<1>11. QED BY <1>1, <1>8, <1>9, <1>10

LEMMA NextIInv == OneVariableEach /\ IInv /\ [Next]_vars => IInv'
<1> SUFFICES ASSUME OneVariableEach, IInv, [Next]_vars PROVE IInv'
  OBVIOUS
<1> USE ObjectsAreDistinct, SizesAreNat
<1>1. TypeOK' /\ NamesAreVars'
  BY NextTypeOK DEF IInv
<1>2. ASSUME HoldsFit', pc' = "idle", UNCHANGED <<args, byService>> PROVE IInv'
  BY <1>1, <1>2 DEF IInv, Fits, NoneLeftOut, Progress, SentIsGiven
<1>3. CASE New
  <2>1. HoldsFit'
    BY <1>3 DEF New, HoldsFit, VarId
  <2>2. QED BY <1>2, <1>3, <2>1 DEF New
<1>4. ASSUME NEW e \in Elems, Edit(e) PROVE IInv'
  <2>1. HoldsFit'
    BY <1>4 DEF Edit, IInv, HoldsFit, VarId
  <2>2. QED BY <1>2, <1>4, <2>1 DEF Edit
<1>5. CASE ApplyFails \/ ReceiveResult
  <2>1. UNCHANGED <<holds, idShort, args, byService>> /\ pc' = "idle"
    BY <1>5 DEF ApplyFails, ReceiveResult, Leave
  <2>2. HoldsFit'
    BY <2>1 DEF IInv, HoldsFit, VarId
  <2>3. QED BY <1>2, <2>1, <2>2
<1>6. ASSUME NEW a \in [Vars -> Arg], Fits(a), Enter(a),
             byService' => \A v \in Described : a[v] # NotGiven
      PROVE  IInv'
  <2>1. /\ UNCHANGED <<holds, idShort, val>> /\ args' = a /\ pos' = 1 /\ pc' = "applying"
        /\ start' = [holds |-> holds, val |-> val]
    BY <1>6 DEF Enter
  <2>2. HoldsFit' /\ Fits(args)' /\ NoneLeftOut' /\ SentIsGiven'
    BY <1>6, <2>1 DEF IInv, HoldsFit, VarId, Fits, NoneLeftOut, SentIsGiven
  <2>3. Progress'
    BY <2>1 DEF Progress, Vars
  <2>4. QED BY <1>1, <2>2, <2>3 DEF IInv
<1>7. CASE BeginInvoke
  BY <1>6, <1>7 DEF BeginInvoke
<1>8. CASE BeginService
  <2>1. PICK a \in [Vars -> Arg] : Fits(a) /\ Enter(WithDefaults(a))
    BY <1>8 DEF BeginService
  <2>2. /\ WithDefaults(a) \in [Vars -> Arg] /\ Fits(WithDefaults(a))
        /\ \A v \in Described : WithDefaults(a)[v] # NotGiven
    BY <2>1, ArgKinds, GivenForAssumption, DescribedAssumption DEF WithDefaults, Fits, Arg
  <2>3. QED BY <1>6, <2>1, <2>2
<1>9. CASE Apply
  BY <1>9, ApplyIInv
<1>10. CASE SendRequest
  <2>1. /\ UNCHANGED <<call, args, byService, pos, holds, idShort, val, start>>
        /\ pc = "applying" /\ pos > NVars /\ pc' = "invoking"
        /\ sent' = [v \in 1 .. NIn |-> [id |-> VarId(v), val |-> val[holds[v]]]]
    BY <1>10 DEF SendRequest
  <2>2. Progress'
    BY <2>1 DEF IInv, Progress, Expected
  <2>3. SentIsGiven'
    <3>1. ASSUME NEW v \in 1 .. NIn
          PROVE  VarId(v) = v /\ val[holds[v]] = Expected(v) /\ Expected(v)' = Expected(v)
      <4>1. v \in Vars /\ v < pos
        BY <2>1 DEF IInv, TypeOK, Vars, NVars
      <4>2. VarId(v) = v
        BY <4>1 DEF IInv, HoldsFit
      <4>3. val[holds[v]] = Expected(v)
        BY <2>1, <4>1 DEF IInv, Progress
      <4>4. Expected(v)' = Expected(v)
        BY <2>1 DEF Expected
      <4>5. QED BY <4>2, <4>3, <4>4
    <3>2. QED BY <2>1, <3>1 DEF SentIsGiven
  <2>4. HoldsFit' /\ Fits(args)' /\ NoneLeftOut'
    BY <2>1 DEF IInv, HoldsFit, VarId, Fits, NoneLeftOut
  <2>5. QED BY <1>1, <2>2, <2>3, <2>4 DEF IInv
<1>11. CASE UNCHANGED vars
  BY <1>1, <1>11
  DEF vars, IInv, HoldsFit, VarId, Fits, NoneLeftOut, Progress, SentIsGiven, Expected
<1>12. QED
  BY <1>3, <1>4, <1>5, <1>7, <1>8, <1>9, <1>10, <1>11 DEF Next

\* The invariant holds in every reachable state.
THEOREM Invariance == ASSUME OneVariableEach PROVE Spec => []IInv
<1>1. IInv /\ [Next]_vars => IInv'
  BY NextIInv
<1>2. QED BY <1>1, InitIInv, PTL DEF Spec

\* Whatever was passed, left out or broken off before, the request carries what this
\* call passed and, for what it left out, what the variable held before.
THEOREM SendsWhatIsGiven == ASSUME OneVariableEach PROVE Spec => []SentIsGiven
<1>1. IInv => SentIsGiven
  BY DEF IInv
<1>2. QED BY <1>1, Invariance, PTL

\* What the docstring of invoke() says is true when no element is passed for two
\* variables: every variable keeps its name.
THEOREM NamesAreKept == ASSUME OneVariableEach PROVE Spec => []IdsKept
<1>1. IInv => IdsKept
  BY DEF IInv, HoldsFit, IdsKept, VarId
<1>2. QED BY <1>1, Invariance, PTL

\* A service sends no described input as an earlier call left it.
THEOREM ServicesAreSelfContained == ASSUME OneVariableEach PROVE Spec => []ServiceIsSelfContained
<1>1. IInv => ServiceIsSelfContained
  <2> SUFFICES ASSUME IInv, pc = "invoking", byService, NEW v \in Described \cap (1 .. NIn)
               PROVE  \/ sent[v].val \in {Given(v, call), Mixed(v, call)}
                      \/ \E e \in Elems : args[v] = Element(e) /\ sent[v].val = start.val[e]
    BY DEF ServiceIsSelfContained
  <2>1. sent[v].val = Expected(v)
    <3>1. sent[v] = [id |-> v, val |-> Expected(v)]
      BY DEF IInv, SentIsGiven
    <3>2. QED BY <3>1
  <2>2. args[v] # NotGiven
    BY DEF IInv, NoneLeftOut
  <2>3. args[v] \in Arg
    BY ObjectsAreDistinct DEF IInv, TypeOK
  <2>4. QED BY <2>1, <2>2, <2>3, ArgKinds DEF Arg, Expected
<1>2. QED BY <1>1, Invariance, PTL

\* No step changes a variable that the call was given no argument for.
THEOREM OnlyGivenVariablesChange == ASSUME OneVariableEach PROVE Spec => OnlyGivenChange
<1>1. ASSUME IInv, IInv', [Next]_vars
      PROVE  pc # "idle" =>
                \A v \in Vars : args[v] = NotGiven =>
                    /\ VarId(v)' = VarId(v)
                    /\ val'[holds'[v]] = start.val[start.holds[v]]
  <2> SUFFICES ASSUME pc # "idle", NEW v \in Vars, args[v] = NotGiven
               PROVE  VarId(v)' = VarId(v) /\ val'[holds'[v]] = start.val[start.holds[v]]
    OBVIOUS
  <2> USE ObjectsAreDistinct, SizesAreNat
  <2>1. VarId(v) = v /\ VarId(v)' = v
    BY <1>1 DEF IInv, HoldsFit
  <2>2. Expected(v) = start.val[start.holds[v]]
    BY ArgKinds DEF Expected
  <2>3. val[holds[v]] = start.val[start.holds[v]]
    <3>1. v < pos \/ v >= pos
      BY <1>1 DEF IInv, TypeOK, Vars
    <3>2. QED BY <1>1, <2>2, <3>1 DEF IInv, Progress
  <2>4. CASE UNCHANGED <<args, start>> /\ pc' # "idle"
    <3>1. Expected(v)' = start.val[start.holds[v]]
      BY <2>4, ArgKinds DEF Expected
    <3>2. v < pos' \/ v >= pos'
      BY <1>1 DEF IInv, TypeOK, Vars
    <3>3. val'[holds'[v]] = start.val[start.holds[v]]
      BY <1>1, <2>4, <3>1, <3>2 DEF IInv, Progress
    <3>4. QED BY <2>1, <3>3
  <2>5. CASE UNCHANGED <<holds, val>>
    BY <2>1, <2>3, <2>5
  <2>6. CASE ApplyFails
    <3>1. pos \in Vars
      BY <1>1, <2>6 DEF ApplyFails, IInv, TypeOK, Vars
    <3>2. /\ args[VarId(pos)] \in {Whole, Part} /\ VarId(pos) = pos /\ holds' = holds
          /\ \E x : val' = [val EXCEPT ![holds[pos]] = x]
      BY <1>1, <2>6, <3>1 DEF ApplyFails, Leave, IInv, HoldsFit
    <3>3. /\ holds[v] # holds[pos] /\ holds[v] \in Objects
          /\ val \in [Objects -> Values]
      BY <1>1, <3>1, <3>2, HoldsInjective, ArgKinds DEF IInv, TypeOK
    <3>4. QED BY <2>1, <2>3, <3>1, <3>2, <3>3
  <2>7. QED
    BY <1>1, <2>4, <2>5, <2>6
    DEF Next, New, Edit, BeginInvoke, BeginService, Enter, Apply, SendRequest, ReceiveResult,
        Leave, vars
<1>2. QED BY <1>1, Invariance, PTL DEF Spec, OnlyGivenChange

-----------------------------------------------------------------------------
(* The refinement of OperationVariables.                                   *)

\* While the arguments are applied, those of the variables before `pos' are taken and no
\* others.  As no two variables referred to the same element, none is taken back.
Applied ==
    pc = "applying" =>
        /\ \A v, w \in Vars : start.holds[v] = start.holds[w] => v = w
        /\ holds = Variables!HoldsAfter(1 .. pos - 1)
        /\ val = Variables!ValAfter(1 .. pos - 1)

\* Every step is one of OperationVariables, or none.
Promised == [Variables!Next]_(Variables!vars)

\* Both specifications speak of the same variables, elements and arguments.
LEMMA SameArguments ==
    /\ Variables!Vars = Vars /\ Variables!Elems = Elems /\ Variables!Objects = Objects
    /\ Variables!NotGiven = NotGiven /\ Variables!Whole = Whole /\ Variables!Part = Part
    /\ Variables!Arg = Arg
    /\ \A a : Variables!Fits(a) <=> Fits(a)
    /\ \A v, k : /\ Variables!Default(v) = Default(v) /\ Variables!Given(v, k) = Given(v, k)
                 /\ Variables!Mixed(v, k) = Mixed(v, k) /\ Variables!Own(v, k) = Own(v, k)
  BY DEF Variables!Vars, Vars, Variables!NVars, NVars, Variables!Elems, Elems,
         Variables!Objects, Objects, Variables!NotGiven, NotGiven, Variables!Whole, Whole,
         Variables!Part, Part, Variables!Arg, Arg, Variables!Element, Element, Variables!Fits,
         Fits, Variables!Default, Default, Variables!Given, Given, Variables!Mixed, Mixed,
         Variables!Own, Own

\* The variables once the arguments of those in `taken' are taken.
LEMMA HoldsTaken ==
    ASSUME pc = "applying", NEW taken, NEW v \in Vars
    PROVE  Variables!HoldsAfter(taken)[v] =
             IF v \in taken /\ args[v] \notin {NotGiven, Whole, Part}
             THEN args[v][2] ELSE start.holds[v]
  BY SameArguments DEF Variables!HoldsAfter, Variables!GivesElement, HoldsSeen

\* What was passed is in the element of its variable.
LEMMA ValTaken ==
    ASSUME pc = "applying", \A v, w \in Vars : start.holds[v] = start.holds[w] => v = w,
           NEW taken \in SUBSET Vars, NEW v \in taken, args[v] \in {Whole, Part},
           start.holds[v] \in Objects
    PROVE  Variables!ValAfter(taken)[start.holds[v]]
             = IF args[v] = Whole THEN Given(v, call) ELSE Mixed(v, call)
<1>1. Variables!Holder(start.holds[v]) = v
  BY SameArguments DEF Variables!Holder, HoldsSeen
<1>2. start.holds[v] \in Variables!Changed(taken)
  BY SameArguments DEF Variables!Changed, Variables!GivesValue, HoldsSeen
<1> QED
  BY <1>1, <1>2, SameArguments DEF Variables!ValAfter, Variables!Passed

\* Elements whose variable took no value, or has none, are as they were.
LEMMA ValLeft ==
    ASSUME pc = "applying", NEW taken \in SUBSET Vars, NEW o \in Objects,
           \A v \in taken : args[v] \in {Whole, Part} => start.holds[v] # o
    PROVE  Variables!ValAfter(taken)[o] = start.val[o]
<1>1. o \notin Variables!Changed(taken)
  BY SameArguments DEF Variables!Changed, Variables!GivesValue, HoldsSeen
<1> QED
  BY <1>1, SameArguments DEF Variables!ValAfter, ValSeen

\* What is taken depends on the call and on what was there when it began.
LEMMA TakenStays ==
    ASSUME pc = "applying", UNCHANGED <<pc, args, call, start>>, NEW taken
    PROVE  /\ Variables!HoldsAfter(taken)' = Variables!HoldsAfter(taken)
           /\ Variables!ValAfter(taken)' = Variables!ValAfter(taken)
<1>1. HoldsSeen' = HoldsSeen /\ ValSeen' = ValSeen
  BY DEF HoldsSeen, ValSeen
<1> QED
  BY <1>1
  DEF Variables!HoldsAfter, Variables!ValAfter, Variables!GivesElement, Variables!GivesValue,
      Variables!Changed, Variables!Holder, Variables!Passed

\* The loop goes through the variables, each under its own name.
LEMMA AppliesToItsOwn == ASSUME IInv, pos <= NVars PROVE pos \in Vars /\ VarId(pos) = pos
<1>1. pos \in 1 .. NVars + 1 /\ HoldsFit
  BY DEF IInv, TypeOK
<1>2. pos \in Vars
  BY <1>1, SizesAreNat DEF Vars
<1> QED
  BY <1>1, <1>2 DEF HoldsFit

\* One turn of the loop takes the argument of its variable.
LEMMA TurnTakes ==
    ASSUME IInv, Applied, Apply
    PROVE  holds' = Variables!HoldsAfter(1 .. pos) /\ val' = Variables!ValAfter(1 .. pos)
<1> USE ObjectsAreDistinct, SizesAreNat
<1>1. /\ pc = "applying" /\ pos \in Vars /\ VarId(pos) = pos
      /\ Skip \/ ApplyValue \/ ReplaceElement
  BY AppliesToItsOwn DEF Apply
<1>2. /\ 1 .. pos \in SUBSET Vars /\ 1 .. pos - 1 \in SUBSET Vars
      /\ pos \in 1 .. pos /\ pos \notin 1 .. pos - 1
      /\ \A v \in Vars : v # pos => (v \in 1 .. pos <=> v \in 1 .. pos - 1)
  BY <1>1 DEF Vars
<1>3. /\ holds \in [Vars -> Objects] /\ val \in [Objects -> Values] /\ args \in [Vars -> Arg]
      /\ start.holds \in [Vars -> Objects] /\ start.val \in [Objects -> Values]
  BY DEF IInv, TypeOK
<1>4. holds' \in [Vars -> Objects] /\ val' \in [Objects -> Values]
  BY NextTypeOK DEF IInv, Next, TypeOK
<1>5. /\ \A v, w \in Vars : start.holds[v] = start.holds[w] => v = w
      /\ holds = Variables!HoldsAfter(1 .. pos - 1)
      /\ val = Variables!ValAfter(1 .. pos - 1)
  BY <1>1 DEF Applied
<1>6. holds[pos] = start.holds[pos]
  BY <1>1, <1>2, <1>5, HoldsTaken
<1>7. SUFFICES
        /\ \A v \in Vars : holds'[v] = Variables!HoldsAfter(1 .. pos)[v]
        /\ \A o \in Objects : val'[o] = Variables!ValAfter(1 .. pos)[o]
  BY <1>4, SameArguments DEF Variables!HoldsAfter, Variables!ValAfter
\* The variables.
<1>8. ASSUME NEW v \in Vars PROVE holds'[v] = Variables!HoldsAfter(1 .. pos)[v]
  <2>1. CASE v # pos
    <3>1. holds'[v] = holds[v]
      BY <1>1, <1>3, <2>1 DEF Skip, ApplyValue, ReplaceElement
    <3>2. QED BY <1>1, <1>2, <1>5, <2>1, <3>1, HoldsTaken
  <2>2. CASE v = pos /\ args[pos] \in {NotGiven, Whole, Part}
    <3>1. holds'[pos] = holds[pos]
      BY <1>1, <2>2, ArgKinds DEF Skip, ApplyValue, ReplaceElement
    <3>2. QED BY <1>1, <1>2, <1>6, <2>2, <3>1, HoldsTaken
  <2>3. CASE v = pos /\ args[pos] \notin {NotGiven, Whole, Part}
    <3>1. holds'[pos] = args[pos][2]
      BY <1>1, <1>3, <2>3, ArgKinds DEF Skip, ApplyValue, ReplaceElement
    <3>2. QED BY <1>1, <1>2, <2>3, <3>1, HoldsTaken
  <2>4. QED BY <2>1, <2>2, <2>3
\* The objects.
<1>9. ASSUME NEW o \in Objects PROVE val'[o] = Variables!ValAfter(1 .. pos)[o]
  <2>1. CASE args[pos] \in {Whole, Part} /\ o = start.holds[pos]
    <3>1. val'[o] = IF args[pos] = Whole THEN Given(pos, call) ELSE Mixed(pos, call)
      BY <1>1, <1>3, <1>6, <2>1, ArgKinds DEF Skip, ApplyValue, ReplaceElement
    <3>2. QED BY <1>1, <1>2, <1>5, <2>1, <3>1, ValTaken
  <2>2. CASE ~(args[pos] \in {Whole, Part} /\ o = start.holds[pos])
    <3>1. val'[o] = val[o]
      BY <1>1, <1>3, <1>6, <2>2, ArgKinds DEF Skip, ApplyValue, ReplaceElement
    <3>2. CASE \E v \in 1 .. pos - 1 : args[v] \in {Whole, Part} /\ start.holds[v] = o
      <4>1. PICK v \in 1 .. pos - 1 : args[v] \in {Whole, Part} /\ start.holds[v] = o
        BY <3>2
      <4>2. v \in 1 .. pos
        BY <1>1, <1>2, <4>1
      <4>3. QED BY <1>1, <1>2, <1>5, <3>1, <4>1, <4>2, ValTaken
    <3>3. CASE \A v \in 1 .. pos - 1 : args[v] \in {Whole, Part} => start.holds[v] # o
      <4>1. \A v \in 1 .. pos : args[v] \in {Whole, Part} => start.holds[v] # o
        BY <1>2, <2>2, <3>3
      <4>2. QED BY <1>1, <1>2, <1>5, <3>1, <3>3, <4>1, ValLeft
    <3>4. QED BY <3>2, <3>3
  <2>3. QED BY <2>1, <2>2
<1>10. QED BY <1>8, <1>9

\* Nothing is taken when the call begins.
LEMMA BeginningTakesNothing ==
    ASSUME IInv, NEW a, Enter(a)
    PROVE  /\ holds' = Variables!HoldsAfter(1 .. 0)'
           /\ val' = Variables!ValAfter(1 .. 0)'
<1>1. 1 .. 0 = {}
  OBVIOUS
<1>2. HoldsSeen' = holds /\ ValSeen' = val /\ holds' = holds /\ val' = val
  BY DEF Enter, HoldsSeen, ValSeen
<1>3. holds \in [Vars -> Objects] /\ val \in [Objects -> Values]
  BY DEF IInv, TypeOK
<1>4. Variables!HoldsAfter(1 .. 0)' = [v \in Vars |-> holds[v]]
  BY <1>1, <1>2, SameArguments DEF Variables!HoldsAfter
<1>5. Variables!Changed(1 .. 0)' = {}
  BY <1>1 DEF Variables!Changed
<1>6. Variables!ValAfter(1 .. 0)' = [o \in Objects |-> val[o]]
  BY <1>2, <1>5, SameArguments DEF Variables!ValAfter
<1> QED
  BY <1>2, <1>3, <1>4, <1>6

LEMMA InitApplied == Init => Applied
  BY DEF Init, Applied

LEMMA NextApplied == ASSUME OneVariableEach, IInv, Applied, [Next]_vars PROVE Applied'
<1> USE ObjectsAreDistinct, SizesAreNat
<1>1. CASE pc' # "applying"
  BY <1>1 DEF Applied
<1>2. ASSUME NEW a, Enter(a) PROVE Applied'
  <2>1. /\ pc' = "applying" /\ pos' = 1 /\ holds' = holds
        /\ start' = [holds |-> holds, val |-> val] /\ val' = val
    BY <1>2 DEF Enter
  <2>2. /\ holds' = Variables!HoldsAfter(1 .. 0)'
        /\ val' = Variables!ValAfter(1 .. 0)'
    BY <1>2, BeginningTakesNothing
  <2>3. \A v, w \in Vars : start'.holds[v] = start'.holds[w] => v = w
    BY <2>1, HoldsInjective DEF IInv
  <2>4. pos' - 1 = 0
    BY <2>1
  <2>5. QED BY <2>2, <2>3, <2>4 DEF Applied
<1>3. CASE Apply
  <2>1. /\ pc = "applying" /\ pos \in Vars /\ pos' - 1 = pos
        /\ UNCHANGED <<pc, args, call, start>>
    BY <1>3 DEF Apply, IInv, TypeOK, Vars
  <2>2. holds' = Variables!HoldsAfter(1 .. pos) /\ val' = Variables!ValAfter(1 .. pos)
    BY <1>3, TurnTakes
  <2>3. QED BY <2>1, <2>2, TakenStays DEF Applied
<1>4. CASE UNCHANGED vars
  <2>1. pc = "applying" => /\ Variables!HoldsAfter(1 .. pos - 1)' = Variables!HoldsAfter(1 .. pos - 1)
                           /\ Variables!ValAfter(1 .. pos - 1)' = Variables!ValAfter(1 .. pos - 1)
    BY <1>4
    DEF vars, Variables!HoldsAfter, Variables!ValAfter, Variables!GivesElement,
        Variables!GivesValue, Variables!Changed, Variables!Holder, Variables!Passed,
        HoldsSeen, ValSeen
  <2>2. QED BY <1>4, <2>1 DEF vars, Applied
<1>5. QED
  BY <1>1, <1>2, <1>3, <1>4
  DEF Next, New, Edit, BeginInvoke, BeginService, ApplyFails, SendRequest, ReceiveResult, Leave

-----------------------------------------------------------------------------
\* What is sent is what the input variables hold once all arguments are taken.
LEMMA SendIsPromised == ASSUME IInv, Applied, SendRequest PROVE Promised
<1> USE ObjectsAreDistinct, SizesAreNat
<1>1. /\ pc = "applying" /\ pc' = "invoking"
      /\ UNCHANGED <<call, args, holds, val>>
      /\ sent' = [v \in 1 .. NIn |-> [id |-> VarId(v), val |-> val[holds[v]]]]
  BY DEF SendRequest
<1>2. 1 .. pos - 1 = Vars
  <2>1. pos = NVars + 1
    BY DEF SendRequest, IInv, TypeOK
  <2>2. QED BY <2>1 DEF Vars
<1>3. Phase = "called" /\ Phase' = "sent" /\ HoldsSeen' = holds /\ ValSeen' = val
  BY <1>1 DEF Phase, HoldsSeen, ValSeen
<1>4. holds = Variables!HoldsAfter(Vars) /\ val = Variables!ValAfter(Vars)
  BY <1>1, <1>2 DEF Applied
<1>5. sent' = [v \in 1 .. NIn |-> [id |-> v, val |-> ValSeen'[HoldsSeen'[v]]]]
  BY <1>1, <1>3 DEF IInv, HoldsFit
<1>6. Variables!Send
  BY <1>1, <1>3, <1>4, <1>5, SameArguments DEF Variables!Send
<1> QED
  BY <1>6 DEF Promised, Variables!Next

\* A call that breaks off has taken the arguments before.
LEMMA BreakIsPromised == ASSUME IInv, Applied, ApplyFails PROVE Promised
<1> USE ObjectsAreDistinct, SizesAreNat
<1>1. /\ pc = "applying" /\ pc' = "idle" /\ pos \in Vars /\ VarId(pos) = pos
      /\ args[pos] \in {Whole, Part}
      /\ UNCHANGED <<call, args, holds, sent>>
  <2>1. pc = "applying" /\ pc' = "idle" /\ pos <= NVars /\ UNCHANGED <<call, args, holds, sent>>
    BY DEF ApplyFails, Leave
  <2>2. pos \in Vars /\ VarId(pos) = pos
    BY <2>1, AppliesToItsOwn
  <2>3. args[VarId(pos)] \in {Whole, Part}
    BY DEF ApplyFails
  <2> QED BY <2>1, <2>2, <2>3
<1>2. PICK x \in {val[holds[pos]], Mixed(pos, call)} : val' = [val EXCEPT ![holds[pos]] = x]
  BY <1>1 DEF ApplyFails
<1>3. /\ \A v, w \in Vars : start.holds[v] = start.holds[w] => v = w
      /\ holds = Variables!HoldsAfter(1 .. pos - 1)
      /\ val = Variables!ValAfter(1 .. pos - 1)
  BY <1>1 DEF Applied
<1>4. 1 .. pos - 1 \in SUBSET Vars /\ pos \notin 1 .. pos - 1
  BY <1>1 DEF Vars
<1>5. holds[pos] = start.holds[pos]
  BY <1>1, <1>3, <1>4, HoldsTaken
<1>6. val[holds[pos]] = start.val[start.holds[pos]]
  <2>1. start.holds[pos] \in Objects
    BY <1>1 DEF IInv, TypeOK
  <2>2. \A v \in 1 .. pos - 1 : start.holds[v] # start.holds[pos]
    BY <1>1, <1>3, <1>4
  <2>3. Variables!ValAfter(1 .. pos - 1)[start.holds[pos]] = start.val[start.holds[pos]]
    BY <1>1, <1>4, <2>1, <2>2, ValLeft
  <2>4. QED BY <1>3, <1>5, <2>3
<1>7. /\ Phase = "called" /\ Phase' = "idle" /\ HoldsSeen' = holds /\ ValSeen' = val'
      /\ HoldsSeen = start.holds /\ ValSeen = start.val
  BY <1>1 DEF Phase, HoldsSeen, ValSeen
<1>8. \E y \in {ValSeen[HoldsSeen[pos]], Variables!Mixed(pos, call)} :
         ValSeen' = [Variables!ValAfter(1 .. pos - 1) EXCEPT ![HoldsSeen[pos]] = y]
  BY <1>2, <1>3, <1>5, <1>6, <1>7, SameArguments
<1>9. Variables!Break(pos)
  BY <1>1, <1>3, <1>7, <1>8, SameArguments DEF Variables!Break, Variables!GivesValue
<1> QED
  BY <1>1, <1>9, SameArguments DEF Promised, Variables!Next

\* Every other step is a caller's, or of no concern.
LEMMA NextPromised == ASSUME OneVariableEach, IInv, Applied, [Next]_vars PROVE Promised
<1>1. CASE New
  <2>1. Variables!New
    BY <1>1, SameArguments DEF New, Variables!New, Phase, HoldsSeen, ValSeen
  <2>2. QED BY <2>1 DEF Promised, Variables!Next
<1>2. ASSUME NEW e \in Elems, Edit(e) PROVE Promised
  <2>1. Variables!Edit(e)
    BY <1>2, SameArguments DEF Edit, Variables!Edit, Phase, HoldsSeen, ValSeen
  <2>2. QED BY <2>1, SameArguments DEF Promised, Variables!Next
<1>3. ASSUME NEW a \in [Vars -> Arg], Fits(a), Enter(a) PROVE Promised
  <2>1. Variables!Begin(a)
    BY <1>3, SameArguments DEF Enter, Variables!Begin, Phase, HoldsSeen, ValSeen
  <2>2. QED BY <2>1, SameArguments DEF Promised, Variables!Next
<1>4. CASE BeginInvoke
  BY <1>3, <1>4 DEF BeginInvoke
<1>5. CASE BeginService
  <2>1. PICK a \in [Vars -> Arg] : Fits(a) /\ Enter(WithDefaults(a))
    BY <1>5 DEF BeginService
  <2>2. WithDefaults(a) \in [Vars -> Arg] /\ Fits(WithDefaults(a))
    BY <2>1, ArgKinds DEF WithDefaults, Fits, Arg
  <2>3. QED BY <1>3, <2>1, <2>2
<1>6. CASE Apply
  BY <1>6 DEF Apply, Promised, Variables!vars, Phase, HoldsSeen, ValSeen
<1>7. CASE ReceiveResult
  <2>1. Variables!Finish
    BY <1>7 DEF ReceiveResult, Leave, Variables!Finish, Phase, HoldsSeen, ValSeen
  <2>2. QED BY <2>1 DEF Promised, Variables!Next
<1>8. CASE UNCHANGED vars
  BY <1>8 DEF vars, Promised, Variables!vars, Phase, HoldsSeen, ValSeen
<1>9. QED
  BY <1>1, <1>2, <1>4, <1>5, <1>6, <1>7, <1>8, SendIsPromised, BreakIsPromised DEF Next

\* KeepsVariables: the loop over the variables, with its values put into elements that others
\* refer to, its elements put into variables, and its end at any argument, implements
\* OperationVariables.
THEOREM ImplementsVariables == ASSUME OneVariableEach PROVE Spec => KeepsVariables
<1>1. Init => Variables!Init
  BY SameArguments DEF Init, Variables!Init, Phase, HoldsSeen, ValSeen
<1>2. IInv /\ Applied /\ [Next]_vars => (IInv /\ Applied)'
  BY NextIInv, NextApplied
<1>3. IInv /\ Applied /\ [Next]_vars => [Variables!Next]_(Variables!vars)
  BY NextPromised DEF Promised
<1>4. Init => IInv /\ Applied
  BY InitIInv, InitApplied
<1> QED
  BY <1>1, <1>2, <1>3, <1>4, PTL DEF Spec, KeepsVariables, Variables!Spec

-----------------------------------------------------------------------------
(* What OperationVariables is enough for.                                  *)

StaysAlone(v) == /\ HoldsSeen'[v] = HoldsSeen[v]
                 /\ ValSeen'[HoldsSeen[v]] = ValSeen[HoldsSeen[v]]

OthersStayAlone == \A v \in Vars : Phase = "called" /\ args[v] = NotGiven => StaysAlone(v)

\* A variable that an invocation passes nothing for refers to the same element after it,
\* with the same contents, whether the invocation sends its request or breaks off.
LeavesOthersAlone == [][OthersStayAlone]_(Variables!vars)

\* Variables refer to their own elements or to those that are passed for them.
OwnElements ==
    /\ HoldsSeen \in [Vars -> Objects] /\ args \in [Vars -> Arg]
    /\ \A v \in Vars : HoldsSeen[v] = v \/ (HoldsSeen[v] \in Elems /\ v \in GivenFor[HoldsSeen[v]])
    /\ Fits(args)

\* Taking elements keeps it so.
LEMMA HoldsOwnElements ==
    ASSUME OwnElements, NEW taken, HoldsSeen' = Variables!HoldsAfter(taken), args' = args
    PROVE  OwnElements'
<1>1. /\ HoldsSeen \in [Vars -> Objects] /\ args \in [Vars -> Arg]
      /\ \A v \in Vars : HoldsSeen[v] = v \/ (HoldsSeen[v] \in Elems /\ v \in GivenFor[HoldsSeen[v]])
      /\ Fits(args) /\ Elems \subseteq Objects
  BY ObjectsAreDistinct DEF OwnElements
<1>2. ASSUME NEW v \in Vars
      PROVE  \/ HoldsSeen'[v] = HoldsSeen[v]
             \/ HoldsSeen'[v] \in Elems /\ v \in GivenFor[HoldsSeen'[v]]
  <2>1. CASE v \in taken /\ args[v] \notin {NotGiven, Whole, Part}
    <3>1. PICK e \in Elems : args[v] = Element(e) BY <1>1, <2>1 DEF Arg
    <3>2. HoldsSeen'[v] = e
      BY <2>1, <3>1, ArgKinds, SameArguments DEF Variables!HoldsAfter, Variables!GivesElement
    <3> QED BY <1>1, <3>1, <3>2 DEF Fits
  <2>2. CASE ~(v \in taken /\ args[v] \notin {NotGiven, Whole, Part})
    BY <2>2, SameArguments DEF Variables!HoldsAfter, Variables!GivesElement
  <2> QED BY <2>1, <2>2
<1>3. HoldsSeen' \in [Vars -> Objects]
  <2>1. HoldsSeen' = [v \in Vars |-> HoldsSeen'[v]]
    BY SameArguments DEF Variables!HoldsAfter
  <2>2. \A v \in Vars : HoldsSeen'[v] \in Objects BY <1>1, <1>2
  <2> QED BY <2>1, <2>2
<1> QED BY <1>1, <1>2, <1>3 DEF OwnElements, Fits

LEMMA NextOwnElements ==
    ASSUME OwnElements, [Variables!Next]_(Variables!vars) PROVE OwnElements'
<1> USE ObjectsAreDistinct, SizesAreNat
<1>1. ASSUME UNCHANGED <<HoldsSeen, args>> PROVE OwnElements'
  BY <1>1 DEF OwnElements, Fits
<1>2. CASE Variables!New
  BY <1>2, SameArguments DEF Variables!New, OwnElements, Fits
<1>3. ASSUME NEW e \in Elems, Variables!Edit(e) PROVE OwnElements'
  BY <1>1, <1>3 DEF Variables!Edit
<1>4. ASSUME NEW a \in [Vars -> Arg], Variables!Begin(a) PROVE OwnElements'
  BY <1>4, SameArguments DEF Variables!Begin, OwnElements, Fits
<1>5. CASE Variables!Send
  BY <1>5, HoldsOwnElements DEF Variables!Send
<1>6. ASSUME NEW k \in Vars, Variables!Break(k) PROVE OwnElements'
  BY <1>6, HoldsOwnElements DEF Variables!Break
<1>7. CASE Variables!Finish \/ UNCHANGED Variables!vars
  BY <1>1, <1>7 DEF Variables!Finish, Variables!vars
<1> QED
  BY <1>2, <1>3, <1>4, <1>5, <1>6, <1>7, SameArguments DEF Variables!Next

\* Whatever is taken, a variable that nothing is passed for is left alone.
LEMMA TakingLeavesAlone ==
    ASSUME OneVariableEach, OwnElements, NEW taken \in SUBSET Vars, NEW v \in Vars, args[v] = NotGiven
    PROVE  /\ Variables!HoldsAfter(taken)[v] = HoldsSeen[v]
           /\ Variables!ValAfter(taken)[HoldsSeen[v]] = ValSeen[HoldsSeen[v]]
           /\ \A k \in Vars : args[k] # NotGiven => HoldsSeen[k] # HoldsSeen[v]
<1>1. \A k \in Vars : args[k] # NotGiven => HoldsSeen[k] # HoldsSeen[v]
  BY ObjectsAreDistinct DEF OwnElements, OneVariableEach
<1>2. Variables!HoldsAfter(taken)[v] = HoldsSeen[v]
  BY SameArguments DEF Variables!HoldsAfter, Variables!GivesElement
<1>3. HoldsSeen[v] \notin Variables!Changed(taken)
  BY <1>1, ArgKinds, SameArguments DEF Variables!Changed, Variables!GivesValue
<1>4. HoldsSeen[v] \in Objects
  BY DEF OwnElements
<1> QED
  BY <1>1, <1>2, <1>3, <1>4, SameArguments DEF Variables!ValAfter

\* OperationVariables promises as much, to whoever keeps it.
THEOREM PromiseIsEnough == ASSUME OneVariableEach PROVE KeepsVariables => LeavesOthersAlone
<1>1. Variables!Init => OwnElements
  BY ObjectsAreDistinct, ArgKinds, SameArguments, GivenForAssumption
  DEF Variables!Init, OwnElements, Fits, Arg
<1>2. OwnElements /\ [Variables!Next]_(Variables!vars) => OwnElements'
  BY NextOwnElements
<1>3. ASSUME OwnElements, [Variables!Next]_(Variables!vars), NEW v \in Vars,
             Phase = "called", args[v] = NotGiven
      PROVE  StaysAlone(v)
  <2> USE ObjectsAreDistinct, SizesAreNat DEF StaysAlone
  <2>1. CASE Variables!Send
    BY <1>3, <2>1, TakingLeavesAlone, SameArguments DEF Variables!Send
  <2>2. ASSUME NEW k \in Vars, Variables!Break(k) PROVE StaysAlone(v)
    <3>1. 1 .. k - 1 \in SUBSET Vars BY DEF Vars
    <3>2. /\ args[k] # NotGiven /\ HoldsSeen' = Variables!HoldsAfter(1 .. k - 1)
          /\ \E x : ValSeen' = [Variables!ValAfter(1 .. k - 1) EXCEPT ![HoldsSeen[k]] = x]
      BY <2>2, ArgKinds, SameArguments DEF Variables!Break, Variables!GivesValue
    <3>3. HoldsSeen[k] # HoldsSeen[v] BY <1>3, <3>1, <3>2, TakingLeavesAlone
    <3>4. ValSeen'[HoldsSeen[v]] = Variables!ValAfter(1 .. k - 1)[HoldsSeen[v]]
      <4>1. HoldsSeen[v] \in DOMAIN Variables!ValAfter(1 .. k - 1)
        BY <1>3, SameArguments DEF OwnElements, Variables!ValAfter
      <4> QED BY <3>2, <3>3, <4>1
    <3> QED BY <1>3, <3>1, <3>2, <3>4, TakingLeavesAlone
  <2>3. CASE UNCHANGED Variables!vars
    BY <2>3 DEF Variables!vars
  <2> QED
    BY <1>3, <2>1, <2>2, <2>3, SameArguments
    DEF Variables!Next, Variables!New, Variables!Edit, Variables!Begin, Variables!Finish
<1>4. OwnElements /\ [Variables!Next]_(Variables!vars) => [OthersStayAlone]_(Variables!vars)
  BY <1>3 DEF OthersStayAlone
<1> QED
  BY <1>1, <1>2, <1>4, PTL DEF KeepsVariables, Variables!Spec, LeavesOthersAlone
=============================================================================
