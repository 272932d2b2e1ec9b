--------------------------- MODULE DagTaskProofs ---------------------------
(***************************************************************************)
(* TypeOK, NoHalfWritten, SinksMatchOutputs and InputsAreLatest hold for   *)
(* every DAG, with any number of tasks, outputs and attempts, and          *)
(* TaskAttempts is implemented.                                            *)
(*                                                                         *)
(* What the properties say of a task that has succeeded is put together    *)
(* while it runs: a sink holds the value of this attempt as soon as its    *)
(* write is done (Written), only writes that were given up can come in     *)
(* between (LateIsGivenUp), and a task does not run while one that reads   *)
(* its outputs has been started after it (InOrder).                        *)
(***************************************************************************)
EXTENDS DagTask, TLAPS

Placed ==
    \A t \in Tasks : /\ pc[t] # "idle" <=> state[t] = "running"
                     /\ pc[t] # "idle" => attempt[t] >= 1
                     /\ attempt[t] <= attempts

NothingWritten ==
    \A t \in Tasks : pc[t] \in {"resolve", "invoke"} => wrote[t] = {} /\ unfit[t] = {}

RestfulFit == \A t \in Tasks : unfit[t] # {} => plan[t].kind \notin Restful

Written ==
    \A t \in Tasks, a \in Args :
        /\ pc[t] = "write" \/ state[t] = "success"
        /\ a \in ToWrite(plan[t], results[t])
        /\ <<t, a>> \notin gaveUp
        => (pc[t] = "write" /\ a \in todo[t]) \/ element[<<t, a>>] = Made(t)

LateIsGivenUp == \A w \in late : w[1] \in gaveUp

Left == \A t \in Tasks : state[t] = "success" => published[t] = Outputs(t)

OwnOutputs ==
    \A t \in Tasks, a \in Args : published[t][a] # Nothing => published[t][a].task = t

ReadsAreNamed == \A t \in Tasks : \A v \in reads[t] : v.task \in Before(t)

InOrder ==
    \A t \in Tasks : \A u \in Before(t) \cap Tasks : attempt[u] < attempt[t] => pc[u] = "idle"

IInv == /\ TypeOK /\ Placed /\ NothingWritten /\ Written /\ LateIsGivenUp /\ Left
        /\ OwnOutputs /\ ReadsAreNamed /\ InOrder /\ RestfulFit /\ NoHalfWritten
        /\ InputsAreLatest

-----------------------------------------------------------------------------
(* Lemmas about the operators.                                             *)

\* The plan of a task is an operator with its arguments.
LEMMA PlanOfTask ==
    ASSUME TypeOK, NEW t \in Tasks
    PROVE  /\ plan[t] \in Plan
           /\ plan[t].reads \subseteq Tasks \X Args
           /\ Before(t) \subseteq Tasks
<1>1. plan[t] \in Plan BY PlansAssumption DEF TypeOK
<1>2. plan[t].reads \subseteq Tasks \X Args BY <1>1 DEF Plan
<1> QED BY <1>1, <1>2 DEF Before

\* Nothing is not the value of any attempt.
LEMMA NothingIsNoValue == Nothing \notin Value
BY BoundAssumption DEF Nothing, Value

\* The value and the outputs of a task that runs have their types.
LEMMA MadeIsValue ==
    ASSUME TypeOK, Placed, NEW t \in Tasks, pc[t] # "idle"
    PROVE  /\ Made(t) \in Value
           /\ Outputs(t) \in [Args -> Value \cup {Nothing}]
           /\ \A a \in Args : Outputs(t)[a] \in {Made(t), Nothing}
<1>1. attempt[t] \in 1 .. MaxAttempts BY BoundAssumption DEF TypeOK, Placed
<1>2. Made(t) \in Value BY <1>1 DEF Made, Value
<1> QED BY <1>2 DEF Outputs

\* What is written is also left for the other tasks.
LEMMA WrittenIsLeft ==
    ASSUME NEW p, NEW names PROVE ToWrite(p, names) \subseteq ToPublish(p, names)
BY DEF ToWrite, ToPublish

-----------------------------------------------------------------------------
(* The end of run() by an exception, which several actions share.          *)

\* A task that fails keeps the invariant, if it has written nothing when it fails for
\* a missing output or one that cannot be converted, or has results without a JSON form.
LEMMA FailKeeps ==
    ASSUME IInv, NEW t \in Tasks, NEW e \in Errors, pc[t] # "idle", Fail(t, e),
           e \in {"KeyError", "ValueError"} =>
               wrote[t] = {} \/ (e = "ValueError" /\ unfit[t] # {}),
           published' \in {published, [published EXCEPT ![t] = Outputs(t)]},
           UNCHANGED <<element, late, gaveUp>>
    PROVE  IInv'
<1> USE DEF IInv
<1>1. TypeOK'
  <2>1. published' \in [Tasks -> [Args -> Value \cup {Nothing}]]
    BY MadeIsValue DEF TypeOK
  <2> QED BY <2>1 DEF TypeOK, Fail
<1>2. Placed' /\ NothingWritten' /\ LateIsGivenUp' /\ RestfulFit' /\ NoHalfWritten'
  <2>1. Placed' BY DEF TypeOK, Placed, Fail, Errors
  <2>2. NothingWritten' BY DEF TypeOK, NothingWritten, Fail
  <2>3. LateIsGivenUp' BY DEF LateIsGivenUp
  <2>4. RestfulFit' /\ NoHalfWritten' BY DEF TypeOK, NoHalfWritten, RestfulFit, Fail
  <2> QED BY <2>1, <2>2, <2>3, <2>4
<1>3. Written'
  BY DEF TypeOK, Written, Fail, Errors, Made
<1>4. Left'
  BY DEF TypeOK, Left, Fail, Errors, Outputs, Made
<1>5. OwnOutputs'
  <2>1. \A a \in Args : Outputs(t)[a] # Nothing => Outputs(t)[a].task = t
    BY DEF Outputs, Made
  <2> QED BY <2>1 DEF TypeOK, OwnOutputs
<1>6. ReadsAreNamed' /\ InOrder'
  BY DEF TypeOK, ReadsAreNamed, InOrder, Fail, Before
<1>7. InputsAreLatest'
  BY DEF TypeOK, InputsAreLatest, Fail, Errors, Made
<1> QED BY <1>1, <1>2, <1>3, <1>4, <1>5, <1>6, <1>7

\* So does one that fails during a write.
LEMMA BreakOffWriteKeeps ==
    ASSUME IInv, NEW t \in Tasks, NEW e \in {"RequestError", "killed"},
           pc[t] = "write", BreakOffWrite(t, e)
    PROVE  IInv'
<1> USE DEF IInv
<1> PICK a \in todo[t] \ unfit[t] :
      /\ state' = [state EXCEPT ![t] = e]
      /\ pc' = [pc EXCEPT ![t] = "idle"]
      /\ results' = [results EXCEPT ![t] = {}]
      /\ todo' = [todo EXCEPT ![t] = {}]
      /\ wrote' = [wrote EXCEPT ![t] = @ \cup {a}]
      /\ \/ element' = [element EXCEPT ![<<t, a>>] = Made(t)] /\ UNCHANGED <<late, gaveUp>>
         \/ UNCHANGED <<element, late, gaveUp>>
         \/ /\ late' = late \cup {<<<<t, a>>, Made(t)>>}
            /\ gaveUp' = gaveUp \cup {<<t, a>>}
            /\ UNCHANGED element
      /\ UNCHANGED <<plan, context, attempts, attempt, reads, unfit, published>>
  BY DEF BreakOffWrite
<1>0. a \in Args /\ <<t, a>> \in Tasks \X Args /\ Made(t) \in Value
  BY MadeIsValue DEF TypeOK
<1>1. TypeOK'
  <2>1. element' \in [Tasks \X Args -> Value \cup {Nothing}] BY <1>0 DEF TypeOK
  <2>2. late' \subseteq (Tasks \X Args) \X Value /\ gaveUp' \subseteq Tasks \X Args
    BY <1>0 DEF TypeOK
  <2> QED BY <1>0, <2>1, <2>2 DEF TypeOK, Errors
<1>2. Placed' /\ NothingWritten' /\ RestfulFit' /\ NoHalfWritten'
  <2>1. Placed' BY DEF TypeOK, Placed
  <2>2. NothingWritten' BY DEF TypeOK, NothingWritten
  <2>3. RestfulFit' BY DEF RestfulFit
  <2>4. NoHalfWritten' BY DEF TypeOK, NoHalfWritten
  <2> QED BY <2>1, <2>2, <2>3, <2>4
<1>3. Written'
  <2> SUFFICES ASSUME NEW u \in Tasks, NEW b \in Args,
                      pc'[u] = "write" \/ state'[u] = "success",
                      b \in ToWrite(plan'[u], results'[u]), <<u, b>> \notin gaveUp'
               PROVE  (pc'[u] = "write" /\ b \in todo'[u]) \/ element'[<<u, b>>] = Made(u)'
    BY DEF Written
  <2>1. u # t BY DEF TypeOK
  <2>2. <<u, b>> \notin gaveUp BY <1>0
  <2>3. (pc[u] = "write" /\ b \in todo[u]) \/ element[<<u, b>>] = Made(u)
    BY <2>1, <2>2 DEF Written, TypeOK
  <2>4. element'[<<u, b>>] = element[<<u, b>>] BY <2>1 DEF TypeOK
  <2> QED BY <2>1, <2>3, <2>4 DEF TypeOK, Made
<1>4. LateIsGivenUp' BY DEF LateIsGivenUp
<1>5. Left' /\ OwnOutputs'
  BY DEF TypeOK, Left, Outputs, Made, OwnOutputs
<1>6. ReadsAreNamed' /\ InOrder'
  BY DEF TypeOK, ReadsAreNamed, InOrder, Before
<1>7. InputsAreLatest'
  BY DEF TypeOK, InputsAreLatest, Made
<1> QED BY <1>1, <1>2, <1>3, <1>4, <1>5, <1>6, <1>7

-----------------------------------------------------------------------------
(* The operators.                                                          *)

\* A task that gets its inputs, or fails to, keeps the invariant.
LEMMA ResolveKeeps == ASSUME IInv, NEW t \in Tasks, Resolve(t) PROVE IInv'
<1> USE DEF IInv
<1>1. CASE \E e \in Errors : Fail(t, e)
  <2> PICK e \in Errors : Fail(t, e) BY <1>1
  <2>1. wrote[t] = {} /\ pc[t] # "idle" BY DEF Resolve, NothingWritten
  <2> QED BY <2>1, FailKeeps DEF Resolve
<1>2. CASE ~ \E e \in Errors : Fail(t, e)
  <2>1. /\ pc[t] = "resolve"
        /\ \A i \in plan[t].reads : published[i[1]][i[2]] # Nothing
        /\ reads' = [reads EXCEPT ![t] = {published[i[1]][i[2]] : i \in plan[t].reads}]
        /\ pc' = [pc EXCEPT ![t] = "invoke"]
        /\ UNCHANGED <<plan, context, attempts, state, attempt, results, unfit, todo, wrote>>
        /\ UNCHANGED <<published, element, late, gaveUp>>
    BY <1>2 DEF Resolve, Errors
  <2>2. \A v \in reads'[t] : \E u \in Before(t) : \E a \in Args :
            u \in Tasks /\ v = published[u][a] /\ v # Nothing
    BY <2>1, PlanOfTask DEF Before, TypeOK
  <2>3. TypeOK'
    <3>1. reads'[t] \subseteq Value BY <2>2 DEF TypeOK
    <3> QED BY <2>1, <3>1 DEF TypeOK
  <2>4. Placed' /\ NothingWritten' /\ Written' /\ LateIsGivenUp'
    <3>1. Placed' BY <2>1 DEF TypeOK, Placed
    <3>2. NothingWritten' BY <2>1 DEF TypeOK, NothingWritten
    <3>3. Written' BY <2>1 DEF TypeOK, Written, Made
    <3>4. LateIsGivenUp' BY <2>1 DEF LateIsGivenUp
    <3> QED BY <3>1, <3>2, <3>3, <3>4
  <2>5. Left' /\ OwnOutputs' /\ InOrder' /\ RestfulFit' /\ NoHalfWritten'
    <3>1. Left' /\ OwnOutputs' BY <2>1 DEF Left, OwnOutputs, Outputs, Made
    <3>2. InOrder' BY <2>1, PlanOfTask DEF TypeOK, InOrder, Before
    <3>3. RestfulFit' /\ NoHalfWritten' BY <2>1 DEF RestfulFit, NoHalfWritten
    <3> QED BY <3>1, <3>2, <3>3
  <2>6. ReadsAreNamed'
    <3>1. \A v \in reads'[t] : v.task \in Before(t) BY <2>2 DEF OwnOutputs
    <3> QED BY <2>1, <3>1 DEF TypeOK, ReadsAreNamed, Before
  <2>7. InputsAreLatest'
    <3>1. ASSUME NEW v \in reads'[t], state[v.task] = "success" PROVE v = Made(v.task)
      <4> PICK u \in Before(t), a \in Args : u \in Tasks /\ v = published[u][a] /\ v # Nothing
        BY <2>2
      <4>1. v.task = u BY DEF OwnOutputs
      <4>2. v = Outputs(u)[a] BY <3>1, <4>1 DEF Left
      <4> QED BY <4>1, <4>2 DEF Outputs
    <3> QED BY <2>1, <3>1 DEF TypeOK, InputsAreLatest, Made
  <2> QED BY <2>3, <2>4, <2>5, <2>6, <2>7
<1> QED BY <1>1, <1>2

\* Results that come back, and results that are refused, keep the invariant.
LEMMA GetResultsKeeps == ASSUME IInv, NEW t \in Tasks, GetResults(t) PROVE IInv'
<1> USE DEF IInv
<1>0. wrote[t] = {} /\ pc[t] = "invoke" BY DEF GetResults, NothingWritten
<1>1. CASE \E e \in Errors : Fail(t, e)
  BY <1>0, <1>1, FailKeeps DEF GetResults
<1>2. CASE ~ \E e \in Errors : Fail(t, e)
  <2>1. PICK names \in SUBSET Args, some \in SUBSET Args :
          /\ results' = [results EXCEPT ![t] = names]
          /\ plan[t].kind \in Restful => some = {}
          /\ unfit' = [unfit EXCEPT ![t] = some]
          /\ todo' = [todo EXCEPT ![t] = ToWrite(plan[t], names)]
          /\ pc' = [pc EXCEPT ![t] = "write"]
          /\ UNCHANGED <<plan, context, attempts, state, attempt, reads, wrote>>
          /\ UNCHANGED <<published, element, late, gaveUp>>
    BY <1>2 DEF GetResults, Errors
  <2>2. TypeOK'
    <3>1. ToWrite(plan[t], names) \subseteq Args BY DEF ToWrite
    <3> QED BY <2>1, <3>1 DEF TypeOK
  <2>3. Placed' /\ NothingWritten' /\ LateIsGivenUp' /\ RestfulFit' /\ NoHalfWritten'
    <3>1. Placed' BY <1>0, <2>1 DEF TypeOK, Placed
    <3>2. NothingWritten' BY <2>1 DEF TypeOK, NothingWritten
    <3>3. LateIsGivenUp' BY <2>1 DEF LateIsGivenUp
    <3>4. RestfulFit' BY <2>1 DEF TypeOK, RestfulFit
    <3>5. state[t] = "running" BY <1>0 DEF Placed
    <3>6. NoHalfWritten' BY <1>0, <2>1, <3>5 DEF TypeOK, NoHalfWritten
    <3> QED BY <3>1, <3>2, <3>3, <3>4, <3>6
  <2>4. Written' BY <2>1 DEF TypeOK, Written, Made
  <2>5. Left'
    <3>1. state[t] # "success" BY <1>0 DEF Placed
    <3>2. \A u \in Tasks \ {t} : Outputs(u)' = Outputs(u)
      BY <2>1 DEF TypeOK, Outputs, Made
    <3> QED BY <2>1, <3>1, <3>2 DEF Left
  <2>6. OwnOutputs' /\ ReadsAreNamed' /\ InputsAreLatest'
    BY <2>1 DEF OwnOutputs, ReadsAreNamed, Before, InputsAreLatest, Made
  <2>7. InOrder' BY <1>0, <2>1, PlanOfTask DEF TypeOK, InOrder, Before
  <2> QED BY <2>2, <2>3, <2>4, <2>5, <2>6, <2>7
<1> QED BY <1>1, <1>2

\* A write that is answered keeps the invariant.
LEMMA WriteKeeps == ASSUME IInv, NEW t \in Tasks, Write(t) PROVE IInv'
<1> USE DEF IInv
<1> PICK a \in todo[t] \ unfit[t] :
      /\ element' = [element EXCEPT ![<<t, a>>] = Made(t)]
      /\ todo' = [todo EXCEPT ![t] = @ \ {a}]
      /\ wrote' = [wrote EXCEPT ![t] = @ \cup {a}]
  BY DEF Write
<1>0. /\ pc[t] = "write"
      /\ UNCHANGED <<plan, context, attempts, state, attempt, pc, reads, results, unfit,
                     published, late, gaveUp>>
  BY DEF Write
<1>1. a \in Args /\ <<t, a>> \in Tasks \X Args /\ Made(t) \in Value
  BY <1>0, MadeIsValue DEF TypeOK
<1>2. TypeOK' BY <1>0, <1>1 DEF TypeOK
<1>3. Placed' /\ NothingWritten' /\ LateIsGivenUp'
  <2>1. Placed' BY <1>0 DEF Placed
  <2>2. NothingWritten' BY <1>0 DEF TypeOK, NothingWritten
  <2>3. LateIsGivenUp' BY <1>0 DEF LateIsGivenUp
  <2> QED BY <2>1, <2>2, <2>3
<1>4. RestfulFit' /\ NoHalfWritten'
  <2>1. state[t] = "running" BY <1>0 DEF Placed
  <2>2. RestfulFit' BY <1>0 DEF RestfulFit
  <2> QED BY <1>0, <2>1, <2>2 DEF TypeOK, NoHalfWritten
<1>5. Written'
  <2> SUFFICES ASSUME NEW u \in Tasks, NEW b \in Args,
                      pc[u] = "write" \/ state[u] = "success",
                      b \in ToWrite(plan[u], results[u]), <<u, b>> \notin gaveUp
               PROVE  (pc[u] = "write" /\ b \in todo'[u]) \/ element'[<<u, b>>] = Made(u)
    BY <1>0 DEF Written, Made
  <2>1. CASE u = t /\ b = a BY <1>1, <2>1 DEF TypeOK
  <2>2. CASE ~(u = t /\ b = a)
    <3>1. element'[<<u, b>>] = element[<<u, b>>] BY <2>2 DEF TypeOK
    <3>2. b \in todo[u] => b \in todo'[u] BY <2>2 DEF TypeOK
    <3> QED BY <3>1, <3>2 DEF Written
  <2> QED BY <2>1, <2>2
<1>6. Left' /\ OwnOutputs' /\ ReadsAreNamed' /\ InOrder' /\ InputsAreLatest'
  <2>1. Left' BY <1>0 DEF Left, Outputs, Made
  <2>2. OwnOutputs' /\ ReadsAreNamed' BY <1>0 DEF OwnOutputs, ReadsAreNamed, Before
  <2>3. InOrder' /\ InputsAreLatest' BY <1>0 DEF InOrder, Before, InputsAreLatest, Made
  <2> QED BY <2>1, <2>2, <2>3
<1> QED BY <1>2, <1>3, <1>4, <1>5, <1>6

\* A task that succeeds keeps the invariant: all its sinks have been written, and no
\* task that was started after it has read what it left before.
LEMMA PublishKeeps == ASSUME IInv, NEW t \in Tasks, Publish(t) PROVE IInv'
<1> USE DEF IInv
<1>0. /\ pc[t] = "write" /\ todo[t] = {}
      /\ published' = [published EXCEPT ![t] = Outputs(t)]
      /\ state' = [state EXCEPT ![t] = "success"]
      /\ pc' = [pc EXCEPT ![t] = "idle"]
      /\ UNCHANGED <<plan, context, attempts, attempt, reads, results, unfit, todo, wrote,
                     element, late, gaveUp>>
  BY DEF Publish
<1>1. TypeOK' BY <1>0, MadeIsValue DEF TypeOK
<1>2. Placed' /\ NothingWritten' /\ LateIsGivenUp' /\ RestfulFit' /\ NoHalfWritten'
  <2>1. Placed' BY <1>0 DEF TypeOK, Placed
  <2>2. NothingWritten' BY <1>0 DEF TypeOK, NothingWritten
  <2>3. LateIsGivenUp' BY <1>0 DEF LateIsGivenUp
  <2>4. RestfulFit' /\ NoHalfWritten' BY <1>0 DEF TypeOK, NoHalfWritten, RestfulFit
  <2> QED BY <2>1, <2>2, <2>3, <2>4
<1>3. Written' BY <1>0 DEF TypeOK, Written, Made
<1>4. Left'
  <2>1. \A u \in Tasks : Outputs(u)' = Outputs(u) BY <1>0 DEF Outputs, Made
  <2> QED BY <1>0, <2>1 DEF TypeOK, Left
<1>5. OwnOutputs'
  <2>1. \A a \in Args : Outputs(t)[a] # Nothing => Outputs(t)[a].task = t
    BY DEF Outputs, Made
  <2> QED BY <1>0, <2>1 DEF TypeOK, OwnOutputs
<1>6. ReadsAreNamed' /\ InOrder' BY <1>0 DEF TypeOK, ReadsAreNamed, InOrder, Before
<1>7. InputsAreLatest'
  <2> SUFFICES ASSUME NEW u \in Tasks, NEW v \in reads[u],
                      state'[v.task] = "success", attempt[v.task] < attempt[u]
               PROVE  v = Made(v.task)
    BY <1>0 DEF InputsAreLatest, Made
  <2>1. v.task \in Before(u) /\ v.task \in Tasks BY PlanOfTask DEF ReadsAreNamed
  <2>2. v.task # t BY <1>0, <2>1 DEF InOrder
  <2> QED BY <1>0, <2>1, <2>2 DEF TypeOK, InputsAreLatest
<1> QED BY <1>1, <1>2, <1>3, <1>4, <1>5, <1>6, <1>7

\* Whatever run() does next keeps the invariant.
LEMMA OperatorKeeps == ASSUME IInv, NEW t \in Tasks, Operator(t) PROVE IInv'
<1>1. CASE Resolve(t) BY <1>1, ResolveKeeps
<1>2. CASE GetResults(t) BY <1>2, GetResultsKeeps
<1>3. CASE OperationFails(t)
  BY <1>3, FailKeeps DEF OperationFails, Errors, IInv, NothingWritten
<1>4. CASE Write(t) BY <1>4, WriteKeeps
<1>5. CASE WriteFails(t) BY <1>5, BreakOffWriteKeeps DEF WriteFails
<1>6. CASE Publish(t) BY <1>6, PublishKeeps
<1>7. CASE PublishFails(t, "RequestError")
  BY <1>7, FailKeeps DEF PublishFails, Errors
<1>8. CASE CannotWrite(t)
  <2>1. unfit[t] # {} BY <1>8 DEF CannotWrite
  <2> QED BY <1>8, <2>1, FailKeeps DEF CannotWrite, Errors
<1>9. CASE CannotPublish(t)
  <2>1. unfit[t] # {} BY <1>9 DEF CannotPublish, Storable
  <2> QED BY <1>9, <2>1, FailKeeps DEF CannotPublish, Errors
<1> QED BY <1>1, <1>2, <1>3, <1>4, <1>5, <1>6, <1>7, <1>8, <1>9 DEF Operator

-----------------------------------------------------------------------------
(* Airflow, or the program, and the servers.                               *)

\* A task that is started keeps the invariant: the tasks whose outputs it reads do not
\* run, and its number is larger than that of any other.
LEMMA StartKeeps == ASSUME IInv, NEW t \in Tasks, Start(t) PROVE IInv'
<1> USE DEF IInv
<1>0. pc[t] = "idle" /\ attempts \in Nat /\ attempts + 1 \in 1 .. MaxAttempts
  BY BoundAssumption DEF Start, Placed, TypeOK, Errors
<1>1. TypeOK'
  <2>1. published' \in [Tasks -> [Args -> Value \cup {Nothing}]]
    BY DEF Start, TypeOK, NoOutputs
  <2> QED BY <1>0, <2>1 DEF Start, TypeOK
<1>2. Placed' /\ NothingWritten' /\ LateIsGivenUp' /\ RestfulFit' /\ NoHalfWritten'
  <2>1. Placed' BY <1>0 DEF Start, TypeOK, Placed
  <2>2. NothingWritten' BY DEF Start, TypeOK, NothingWritten
  <2>3. LateIsGivenUp' BY DEF Start, LateIsGivenUp
  <2>4. RestfulFit' /\ NoHalfWritten' BY DEF Start, TypeOK, NoHalfWritten, RestfulFit
  <2> QED BY <2>1, <2>2, <2>3, <2>4
<1>3. Written' BY DEF Start, TypeOK, Written, Made
<1>4. Left' BY DEF Start, TypeOK, Left, Outputs, Made
<1>5. OwnOutputs' BY DEF Start, TypeOK, OwnOutputs, NoOutputs
<1>6. ReadsAreNamed' BY DEF Start, TypeOK, ReadsAreNamed, Before
<1>7. InOrder'
  <2> SUFFICES ASSUME NEW u \in Tasks, NEW w \in Before(u) \cap Tasks, attempt'[w] < attempt'[u]
               PROVE  pc'[w] = "idle"
    BY DEF InOrder, Before, Start
  <2>1. w # t BY <1>0 DEF Start, TypeOK, Placed
  <2>2. CASE u = t
    <3>1. pc[w] = "idle" BY <2>2 DEF Start, Placed, Errors, TypeOK
    <3> QED BY <2>1, <3>1 DEF Start, TypeOK
  <2>3. CASE u # t BY <2>1, <2>3 DEF Start, TypeOK, InOrder
  <2> QED BY <2>2, <2>3
<1>8. InputsAreLatest'
  <2> SUFFICES ASSUME NEW u \in Tasks, NEW v \in reads'[u],
                      state'[v.task] = "success", attempt'[v.task] < attempt'[u]
               PROVE  v = Made(v.task)'
    BY DEF InputsAreLatest
  <2>1. u # t BY DEF Start, TypeOK
  <2>2. v \in reads[u] /\ v.task \in Tasks BY <2>1 DEF Start, TypeOK, Value
  <2>3. v.task # t BY DEF Start, TypeOK
  <2> QED BY <2>1, <2>2, <2>3 DEF Start, TypeOK, InputsAreLatest, Made
<1> QED BY <1>1, <1>2, <1>3, <1>4, <1>5, <1>6, <1>7, <1>8

\* A worker that is killed keeps the invariant.
LEMMA KillKeeps == ASSUME IInv, NEW t \in Tasks, Kill(t) PROVE IInv'
<1>1. CASE /\ pc[t] # "idle" /\ Fail(t, "killed")
           /\ UNCHANGED <<published, element, late, gaveUp>>
  BY <1>1, FailKeeps DEF Errors
<1>2. CASE pc[t] = "write" /\ BreakOffWrite(t, "killed") BY <1>2, BreakOffWriteKeeps
<1>3. CASE PublishFails(t, "killed") BY <1>3, FailKeeps DEF PublishFails, Errors
<1> QED BY <1>1, <1>2, <1>3 DEF Kill

\* Another run keeps the invariant: no task of it has succeeded yet.
LEMMA NewRunKeeps == ASSUME IInv, NewRun PROVE IInv'
<1> USE DEF IInv
<1>1. TypeOK'
  <2>1. published' \in [Tasks -> [Args -> Value \cup {Nothing}]]
    BY DEF NewRun, TypeOK, NoOutputs
  <2>2. attempt' \in [Tasks -> 0 .. MaxAttempts] BY BoundAssumption DEF NewRun
  <2> QED BY <2>1, <2>2 DEF NewRun, TypeOK
<1>2. Placed' /\ NothingWritten' /\ LateIsGivenUp' /\ RestfulFit' /\ NoHalfWritten'
  <2>1. Placed' BY DEF NewRun, TypeOK, Placed
  <2> QED BY <2>1 DEF NewRun, NothingWritten, LateIsGivenUp, RestfulFit, NoHalfWritten
<1>3. Written' /\ Left' BY DEF NewRun, Written, Left
<1>4. OwnOutputs' BY DEF NewRun, OwnOutputs, NoOutputs
<1>5. ReadsAreNamed' /\ InOrder' /\ InputsAreLatest'
  BY DEF NewRun, ReadsAreNamed, InOrder, InputsAreLatest
<1> QED BY <1>1, <1>2, <1>3, <1>4, <1>5

\* A write that comes late keeps the invariant: its element is one of those given up.
LEMMA ServeLateKeeps == ASSUME IInv, ServeLate PROVE IInv'
<1> USE DEF IInv
<1> PICK w \in late : late' = late \ {w} /\ element' = [element EXCEPT ![w[1]] = w[2]]
  BY DEF ServeLate
<1>0. /\ w[1] \in Tasks \X Args /\ w[2] \in Value /\ w[1] \in gaveUp
      /\ UNCHANGED <<plan, context, attempts, state, attempt, pc, reads, results, unfit, todo,
                     wrote, published, gaveUp>>
  BY DEF ServeLate, taskVars, TypeOK, LateIsGivenUp
<1>1. TypeOK' BY <1>0 DEF TypeOK
<1>2. Placed' /\ NothingWritten' /\ LateIsGivenUp' /\ RestfulFit' /\ NoHalfWritten'
  BY <1>0 DEF Placed, NothingWritten, LateIsGivenUp, RestfulFit, NoHalfWritten
<1>3. Written'
  <2>1. \A u \in Tasks, b \in Args : <<u, b>> \notin gaveUp => element'[<<u, b>>] = element[<<u, b>>]
    BY <1>0 DEF TypeOK
  <2> QED BY <1>0, <2>1 DEF Written, Made
<1>4. Left' /\ OwnOutputs' BY <1>0 DEF Left, OwnOutputs, Outputs, Made
<1>5. ReadsAreNamed' /\ InOrder' /\ InputsAreLatest'
  BY <1>0 DEF ReadsAreNamed, InOrder, InputsAreLatest, Before, Made
<1> QED BY <1>1, <1>2, <1>3, <1>4, <1>5

-----------------------------------------------------------------------------
(* The theorems.                                                           *)

\* The invariant holds in every reachable state.
THEOREM Invariance == Spec => []IInv
<1>1. Init => IInv
  <2> SUFFICES ASSUME Init PROVE IInv OBVIOUS
  <2>1. TypeOK BY BoundAssumption DEF Init, TypeOK, NoOutputs
  <2>2. Placed /\ NothingWritten /\ Written /\ LateIsGivenUp /\ RestfulFit /\ NoHalfWritten
    BY BoundAssumption DEF Init, Placed, NothingWritten, Written, LateIsGivenUp, RestfulFit,
                           NoHalfWritten
  <2>3. Left /\ OwnOutputs /\ ReadsAreNamed /\ InOrder /\ InputsAreLatest
    BY DEF Init, Left, OwnOutputs, NoOutputs, ReadsAreNamed, InOrder, InputsAreLatest
  <2> QED BY <2>1, <2>2, <2>3 DEF IInv
<1>2. IInv /\ [Next]_vars => IInv'
  <2> SUFFICES ASSUME IInv, [Next]_vars PROVE IInv' OBVIOUS
  <2>1. ASSUME NEW t \in Tasks, Operator(t) PROVE IInv' BY <2>1, OperatorKeeps
  <2>2. ASSUME NEW t \in Tasks, Start(t) PROVE IInv' BY <2>2, StartKeeps
  <2>3. ASSUME NEW t \in Tasks, Kill(t) PROVE IInv' BY <2>3, KillKeeps
  <2>4. CASE NewRun BY <2>4, NewRunKeeps
  <2>5. CASE ServeLate BY <2>5, ServeLateKeeps
  <2>6. CASE UNCHANGED vars
    BY <2>6 DEF vars, taskVars, IInv, TypeOK, Placed, NothingWritten, Written, LateIsGivenUp,
                Left, OwnOutputs, ReadsAreNamed, InOrder, RestfulFit, NoHalfWritten,
                InputsAreLatest, Made, Outputs, Before
  <2> QED BY <2>1, <2>2, <2>3, <2>4, <2>5, <2>6 DEF Next
<1> QED BY <1>1, <1>2, PTL DEF Spec

\* Every variable keeps its type.
THEOREM TypeCorrect == Spec => []TypeOK
BY Invariance, PTL DEF IInv

\* NoHalfWritten: an attempt that fails over a missing output or a conversion has written
\* nothing, but for one with results that have no JSON form; and those are never written.
THEOREM NothingHalfWritten == Spec => []NoHalfWritten
BY Invariance, PTL DEF IInv

\* When a task has succeeded, its sinks and its outputs show the same attempt, unless a
\* write to the sink had been given up.
THEOREM SinksAreOutputs == Spec => []SinksMatchOutputs
<1>1. IInv => SinksMatchOutputs
  <2> SUFFICES ASSUME IInv, NEW t \in Tasks, NEW a \in Args, state[t] = "success",
                      a \in ToWrite(plan[t], results[t]), <<t, a>> \notin gaveUp
               PROVE  /\ element[<<t, a>>] = Made(t)
                      /\ a \in ToPublish(plan[t], results[t])
                      /\ published[t][a] = Made(t)
    BY DEF SinksMatchOutputs
  <2>1. element[<<t, a>>] = Made(t) BY DEF IInv, Placed, Written
  <2>2. a \in ToPublish(plan[t], results[t]) BY WrittenIsLeft
  <2> QED BY <2>1, <2>2 DEF IInv, Left, Outputs
<1> QED BY <1>1, Invariance, PTL

\* A task reads what the last success of each task before it left.
THEOREM InputsAreTheLatest == Spec => []InputsAreLatest
BY Invariance, PTL DEF IInv

-----------------------------------------------------------------------------
(* Nothing goes back to an earlier attempt.                                *)

\* The attempt at a task that runs is newer than what its sinks and outputs show, but
\* for the sinks with a write given up.
Newest ==
    \A t \in Tasks, a \in Args :
        /\ <<t, a>> \notin gaveUp
             => /\ element[<<t, a>>].attempt <= attempts
                /\ pc[t] # "idle" => element[<<t, a>>].attempt <= attempt[t]
        /\ published[t][a].attempt <= attempts
        /\ pc[t] # "idle" => published[t][a].attempt <= attempt[t]

\* The attempts that sinks and outputs show are numbers.
LEMMA AttemptsAreNumbers ==
    ASSUME TypeOK
    PROVE  /\ attempts \in Nat /\ \A t \in Tasks : attempt[t] \in Nat
           /\ \A t \in Tasks, a \in Args : element[<<t, a>>].attempt \in Nat
                                           /\ published[t][a].attempt \in Nat
<1>1. \A v \in Value \cup {Nothing} : v.attempt \in Nat BY BoundAssumption DEF Value, Nothing
<1> QED BY <1>1, BoundAssumption DEF TypeOK

\* What one attempt changes: at most its own sinks and outputs, and those to its own
\* value or to nothing.
Own(t) ==
    /\ \A s \in Tasks \X Args :
          s \notin gaveUp =>
              \/ element'[s] = element[s]
              \/ pc[t] # "idle" /\ s[1] = t /\ element'[s] = Made(t)
    /\ \A u \in Tasks, a \in Args :
          \/ published'[u][a] \in {published[u][a], Nothing}
          \/ pc[t] # "idle" /\ u = t /\ published'[u][a] = Made(t)
    /\ gaveUp \subseteq gaveUp'

\* Such a step takes nothing back.
LEMMA OwnIsNewer ==
    ASSUME IInv, Newest, NEW t \in Tasks, Own(t)
    PROVE  \A u \in Tasks, a \in Args :
             /\ <<u, a>> \notin gaveUp
                  => element'[<<u, a>>].attempt >= element[<<u, a>>].attempt
             /\ published'[u][a] # Nothing
                  => published'[u][a].attempt >= published[u][a].attempt
<1> SUFFICES ASSUME NEW u \in Tasks, NEW a \in Args
             PROVE  /\ <<u, a>> \notin gaveUp
                         => element'[<<u, a>>].attempt >= element[<<u, a>>].attempt
                    /\ published'[u][a] # Nothing
                         => published'[u][a].attempt >= published[u][a].attempt
  OBVIOUS
<1>1. element[<<u, a>>].attempt \in Nat /\ published[u][a].attempt \in Nat
  BY AttemptsAreNumbers DEF IInv
<1>2. <<u, a>> \notin gaveUp
        => \/ element'[<<u, a>>] = element[<<u, a>>]
           \/ pc[t] # "idle" /\ u = t /\ element'[<<u, a>>].attempt = attempt[t]
  BY DEF Own, Made
<1>3. published'[u][a] # Nothing
        => \/ published'[u][a] = published[u][a]
           \/ pc[t] # "idle" /\ u = t /\ published'[u][a].attempt = attempt[t]
  BY DEF Own, Made
<1>4. pc[t] # "idle" /\ u = t =>
        /\ <<u, a>> \notin gaveUp => element[<<u, a>>].attempt <= attempt[t]
        /\ published[u][a].attempt <= attempt[t]
  BY DEF Newest
<1> QED BY <1>1, <1>2, <1>3, <1>4

\* Such a step leaves the attempts that run the newest.
LEMMA OwnKeepsNewest ==
    ASSUME IInv, Newest, NEW t \in Tasks, Own(t), UNCHANGED <<attempts, attempt>>,
           \A u \in Tasks : pc'[u] # "idle" => pc[u] # "idle"
    PROVE  Newest'
<1>1. attempt[t] \in Nat /\ attempts \in Nat /\ attempt[t] <= attempts
  BY AttemptsAreNumbers DEF IInv, Placed
<1> SUFFICES ASSUME NEW u \in Tasks, NEW a \in Args
             PROVE  /\ <<u, a>> \notin gaveUp'
                         => /\ element'[<<u, a>>].attempt <= attempts
                            /\ pc'[u] # "idle" => element'[<<u, a>>].attempt <= attempt[u]
                    /\ published'[u][a].attempt <= attempts
                    /\ pc'[u] # "idle" => published'[u][a].attempt <= attempt[u]
  BY DEF Newest
<1>2. <<u, a>> \notin gaveUp' => /\ <<u, a>> \notin gaveUp
                                 /\ \/ element'[<<u, a>>] = element[<<u, a>>]
                                    \/ u = t /\ element'[<<u, a>>].attempt = attempt[t]
  BY DEF Own, Made
<1>3. \/ published'[u][a] = published[u][a]
      \/ published'[u][a].attempt = 0
      \/ u = t /\ published'[u][a].attempt = attempt[t]
  BY DEF Own, Made, Nothing
<1>4. attempt[u] \in Nat BY AttemptsAreNumbers DEF IInv
<1> QED BY <1>1, <1>2, <1>3, <1>4 DEF Newest

\* Whatever run() does, and whatever ends it, changes only what is its own.
LEMMA RunningIsOwn ==
    ASSUME IInv, NEW t \in Tasks, Operator(t) \/ Kill(t)
    PROVE  /\ Own(t) /\ UNCHANGED <<attempts, attempt>>
           /\ \A u \in Tasks : pc'[u] # "idle" => pc[u] # "idle"
<1> USE DEF IInv
<1>1. ASSUME NEW e, Fail(t, e), pc[t] # "idle", UNCHANGED <<element, gaveUp>>,
             published' \in {published, [published EXCEPT ![t] = Outputs(t)]}
      PROVE  /\ Own(t) /\ UNCHANGED <<attempts, attempt>>
             /\ \A u \in Tasks : pc'[u] # "idle" => pc[u] # "idle"
  BY <1>1 DEF Own, Fail, TypeOK, Outputs
<1>2. ASSUME NEW e, BreakOffWrite(t, e), pc[t] = "write"
      PROVE  /\ Own(t) /\ UNCHANGED <<attempts, attempt>>
             /\ \A u \in Tasks : pc'[u] # "idle" => pc[u] # "idle"
  <2>1. PICK a \in todo[t] \ unfit[t] :
          /\ pc' = [pc EXCEPT ![t] = "idle"]
          /\ \/ element' = [element EXCEPT ![<<t, a>>] = Made(t)] /\ UNCHANGED <<late, gaveUp>>
             \/ UNCHANGED <<element, late, gaveUp>>
             \/ gaveUp' = gaveUp \cup {<<t, a>>} /\ UNCHANGED element
          /\ UNCHANGED <<attempts, attempt, published>>
    BY <1>2 DEF BreakOffWrite
  <2>2. <<t, a>> \in Tasks \X Args /\ <<t, a>>[1] = t BY DEF TypeOK
  <2>3. \A s \in Tasks \X Args : \/ element'[s] = element[s]
                                 \/ s[1] = t /\ element'[s] = Made(t)
    BY <2>1, <2>2 DEF TypeOK
  <2>4. Own(t) BY <1>2, <2>1, <2>3 DEF Own
  <2> QED BY <2>1, <2>4 DEF TypeOK
<1>3. CASE Resolve(t) BY <1>1, <1>3 DEF Resolve, Own, TypeOK
<1>4. CASE GetResults(t) BY <1>1, <1>4 DEF GetResults, Own, TypeOK
<1>5. CASE OperationFails(t) BY <1>1, <1>5 DEF OperationFails
<1>6. CASE Write(t) BY <1>6 DEF Write, Own, TypeOK
<1>7. CASE WriteFails(t) BY <1>2, <1>7 DEF WriteFails
<1>8. CASE Publish(t) BY <1>8 DEF Publish, Own, TypeOK, Outputs
<1>9. CASE \E e \in Errors : PublishFails(t, e) BY <1>1, <1>9 DEF PublishFails
<1>10. CASE CannotWrite(t) \/ CannotPublish(t)
  BY <1>1, <1>10 DEF CannotWrite, CannotPublish
<1>11. CASE Kill(t) BY <1>1, <1>2, <1>9, <1>11 DEF Kill, Errors
<1> QED BY <1>3, <1>4, <1>5, <1>6, <1>7, <1>8, <1>9, <1>10, <1>11 DEF Operator, Errors

\* A task that is started, another run, and a late write change no sink but those with
\* a write given up, and no output but to take it away.
LEMMA OthersOwnNothing ==
    ASSUME IInv, NEW t \in Tasks, Start(t) \/ NewRun \/ ServeLate
    PROVE  Own(t)
<1> USE DEF IInv
<1>1. CASE Start(t) BY <1>1 DEF Start, Own, TypeOK, NoOutputs
<1>2. CASE NewRun BY <1>2 DEF NewRun, Own, TypeOK, NoOutputs
<1>3. CASE ServeLate BY <1>3 DEF ServeLate, Own, TypeOK, LateIsGivenUp, taskVars
<1> QED BY <1>1, <1>2, <1>3

\* The attempt that starts is newer than all there were.
LEMMA NewestKeeps == ASSUME IInv, Newest, [Next]_vars PROVE Newest'
<1>1. ASSUME NEW t \in Tasks, Operator(t) \/ Kill(t) PROVE Newest'
  BY <1>1, RunningIsOwn, OwnKeepsNewest
<1>2. ASSUME NEW t \in Tasks, Start(t) PROVE Newest'
  <2>1. Own(t) BY <1>2, OthersOwnNothing
  <2>2. /\ attempts' = attempts + 1 /\ attempts \in Nat
        /\ attempt' = [attempt EXCEPT ![t] = attempts + 1]
        /\ pc' = [pc EXCEPT ![t] = "resolve"] /\ pc[t] = "idle"
        /\ UNCHANGED <<element, gaveUp>>
    BY <1>2, AttemptsAreNumbers DEF Start, IInv, Placed, TypeOK, Errors
  <2>3. \A u \in Tasks, a \in Args :
          published'[u][a] = published[u][a] \/ published'[u][a].attempt = 0
    BY <2>1, <2>2 DEF Own, Nothing
  <2> SUFFICES ASSUME NEW u \in Tasks, NEW a \in Args
               PROVE  /\ <<u, a>> \notin gaveUp
                           => /\ element[<<u, a>>].attempt <= attempts + 1
                              /\ pc'[u] # "idle" => element[<<u, a>>].attempt <= attempt'[u]
                      /\ published'[u][a].attempt <= attempts + 1
                      /\ pc'[u] # "idle" => published'[u][a].attempt <= attempt'[u]
    BY <2>2 DEF Newest
  <2>4. /\ element[<<u, a>>].attempt \in Nat /\ published[u][a].attempt \in Nat
        /\ attempt[u] \in Nat
    BY AttemptsAreNumbers DEF IInv
  <2>5. IF u = t THEN attempt'[u] = attempts + 1
                 ELSE attempt'[u] = attempt[u] /\ pc'[u] = pc[u]
    BY <1>2, <2>2 DEF IInv, TypeOK
  <2>6. /\ <<u, a>> \notin gaveUp
             => /\ element[<<u, a>>].attempt <= attempts
                /\ pc[u] # "idle" => element[<<u, a>>].attempt <= attempt[u]
        /\ published[u][a].attempt <= attempts
        /\ pc[u] # "idle" => published[u][a].attempt <= attempt[u]
    BY DEF Newest
  <2> QED BY <2>2, <2>3, <2>4, <2>5, <2>6
<1>3. CASE NewRun
  <2>1. /\ \A u \in Tasks : pc'[u] = "idle"
        /\ UNCHANGED <<attempts, element, gaveUp>> /\ attempts \in Nat
    BY <1>3, AttemptsAreNumbers DEF NewRun, IInv
  <2>2. \A u \in Tasks, a \in Args :
          published'[u][a] = published[u][a] \/ published'[u][a].attempt = 0
    BY <1>3 DEF NewRun, NoOutputs, Nothing
  <2>3. ASSUME NEW u \in Tasks, NEW a \in Args PROVE published'[u][a].attempt <= attempts
    <3>1. published[u][a].attempt <= attempts BY DEF Newest
    <3> QED BY <2>1, <2>2, <3>1
  <2>4. \A u \in Tasks, a \in Args :
          <<u, a>> \notin gaveUp' => element'[<<u, a>>].attempt <= attempts'
    BY <2>1 DEF Newest
  <2> QED BY <2>1, <2>3, <2>4 DEF Newest
<1>4. CASE ServeLate
  <2>1. UNCHANGED <<attempts, attempt, pc>>
    BY <1>4 DEF ServeLate, taskVars
  <2>2. ASSUME NEW t \in Tasks PROVE Newest'
    BY <1>4, <2>1, <2>2, OthersOwnNothing, OwnKeepsNewest
  <2>3. CASE Tasks = {} BY <2>3 DEF Newest
  <2> QED BY <2>2, <2>3
<1>5. CASE UNCHANGED vars
  BY <1>5 DEF vars, taskVars, Newest
<1> QED BY <1>1, <1>2, <1>3, <1>4, <1>5 DEF Next

\* No sink and no output ever goes back to the value of an earlier attempt, but for the
\* sinks with a write that was given up.
THEOREM NothingGoesBack == Spec => NeverGoesBack
<1> DEFINE Newer == \A t \in Tasks, a \in Args :
             /\ <<t, a>> \notin gaveUp
                  => element'[<<t, a>>].attempt >= element[<<t, a>>].attempt
             /\ published'[t][a] # Nothing
                  => published'[t][a].attempt >= published[t][a].attempt
<1>1. Init => Newest
  BY BoundAssumption DEF Init, Newest, NoOutputs, Nothing
<1>2. IInv /\ Newest /\ [Next]_vars => Newest'
  BY NewestKeeps
<1>3. IInv /\ Newest /\ [Next]_vars => [Newer]_vars
  <2> SUFFICES ASSUME IInv, Newest, Next PROVE Newer OBVIOUS
  <2>1. ASSUME NEW t \in Tasks, Operator(t) \/ Start(t) \/ Kill(t) PROVE Newer
    BY <2>1, RunningIsOwn, OthersOwnNothing, OwnIsNewer
  <2>2. ASSUME NewRun \/ ServeLate, NEW t \in Tasks PROVE Newer
    BY <2>2, OthersOwnNothing, OwnIsNewer
  <2>3. CASE Tasks = {} BY <2>3
  <2> QED BY <2>1, <2>2, <2>3 DEF Next
<1> QED BY <1>1, <1>2, <1>3, Invariance, PTL DEF Spec, NeverGoesBack

-----------------------------------------------------------------------------
(* The refinement of TaskAttempts.                                         *)

\* Every step is one of TaskAttempts, or none.
Promised == [Attempts!Next]_(Attempts!vars)

\* What an attempt wrote and is going to write are results with a sink, and it has nothing
\* to write before it has results.
Decided ==
    \A t \in Tasks :
        /\ pc[t] = "write" => wrote[t] \cup todo[t] \subseteq ToWrite(plan[t], results[t])
        /\ pc[t] # "write" => todo[t] = {}

LEMMA InitDecided == Init => Decided
BY DEF Init, Decided

LEMMA NextDecided == ASSUME IInv, Decided, [Next]_vars PROVE Decided'
<1> USE DEF IInv
<1>1. ASSUME \A u \in Tasks :
               /\ pc'[u] = "write" =>
                    /\ pc[u] = "write" /\ plan' = plan /\ results'[u] = results[u]
                    /\ wrote'[u] \cup todo'[u] \subseteq wrote[u] \cup todo[u]
               /\ pc'[u] # "write" =>
                    todo'[u] = {} \/ (pc[u] # "write" /\ todo'[u] = todo[u])
      PROVE  Decided'
  BY <1>1 DEF Decided
<1>2. ASSUME NEW t \in Tasks, NEW e, Fail(t, e) PROVE Decided'
  BY <1>1, <1>2 DEF Fail, TypeOK
<1>3. ASSUME NEW t \in Tasks, NEW e, BreakOffWrite(t, e) PROVE Decided'
  BY <1>1, <1>3 DEF BreakOffWrite, TypeOK
<1>4. ASSUME NEW t \in Tasks, Operator(t) \/ Kill(t) PROVE Decided'
  <2>1. CASE Resolve(t) BY <1>1, <1>2, <2>1 DEF Resolve, TypeOK
  <2>2. CASE GetResults(t)
    <3>1. CASE \E e \in Errors : Fail(t, e) BY <1>2, <3>1
    <3>2. CASE ~ \E e \in Errors : Fail(t, e)
      <4>1. PICK names \in SUBSET Args :
              /\ results' = [results EXCEPT ![t] = names]
              /\ todo' = [todo EXCEPT ![t] = ToWrite(plan[t], names)]
              /\ pc' = [pc EXCEPT ![t] = "write"]
              /\ UNCHANGED <<plan, wrote>>
        BY <2>2, <3>2 DEF GetResults, Errors
      <4>2. wrote[t] = {} BY <2>2 DEF GetResults, NothingWritten
      <4> QED BY <4>1, <4>2 DEF Decided, TypeOK
    <3> QED BY <3>1, <3>2
  <2>3. CASE OperationFails(t) BY <1>2, <2>3 DEF OperationFails
  <2>4. CASE Write(t) BY <1>1, <2>4 DEF Write, TypeOK
  <2>5. CASE Publish(t) BY <1>1, <2>5 DEF Publish, TypeOK
  <2>6. ASSUME NEW e, PublishFails(t, e) PROVE Decided' BY <1>2, <2>6 DEF PublishFails
  <2>7. CASE CannotWrite(t) \/ CannotPublish(t)
    BY <1>2, <2>7 DEF CannotWrite, CannotPublish
  <2> QED BY <1>2, <1>3, <1>4, <2>1, <2>2, <2>3, <2>4, <2>5, <2>6, <2>7
          DEF Operator, Kill, WriteFails
<1>5. ASSUME NEW t \in Tasks, Start(t) PROVE Decided'
  BY <1>1, <1>5 DEF Start, TypeOK
<1>6. CASE NewRun BY <1>1, <1>6 DEF NewRun
<1>7. CASE ServeLate BY <1>1, <1>7 DEF ServeLate, taskVars
<1>8. CASE UNCHANGED vars BY <1>1, <1>8 DEF vars, taskVars
<1> QED BY <1>4, <1>5, <1>6, <1>7, <1>8 DEF Next

\* The stage of a task follows where it is and how it ended; the others keep theirs.
LEMMA StageStep ==
    ASSUME TypeOK, NEW t \in Tasks,
           \A u \in Tasks \ {t} : pc'[u] = pc[u] /\ state'[u] = state[u] /\ unfit'[u] = unfit[u]
    PROVE  Stages' = [Stages EXCEPT ![t] = Stage(t)']
<1>1. \A u \in Tasks \ {t} : Stage(u)' = Stage(u) BY DEF Stage
<1> QED BY <1>1 DEF Stages

\* Where an attempt that ends by the error e is left.
EndStage(t, e) == IF e = "KeyError" THEN "refused"
               ELSE IF e = "ValueError" THEN IF unfit[t] = {} THEN "refused" ELSE "stuck"
               ELSE "broken"

LEMMA FailStage ==
    ASSUME TypeOK, NEW t \in Tasks, NEW e \in Errors, Fail(t, e)
    PROVE  Stages' = [Stages EXCEPT ![t] = EndStage(t, e)]
<1>1. pc'[t] = "idle" /\ state'[t] = e /\ unfit'[t] = unfit[t] BY DEF Fail, TypeOK
<1>2. Stage(t)' = EndStage(t, e)
  BY <1>1 DEF Stage, Errors, EndStage
<1>3. \A u \in Tasks \ {t} : pc'[u] = pc[u] /\ state'[u] = state[u] /\ unfit'[u] = unfit[u]
  BY DEF Fail, TypeOK
<1> QED BY <1>2, <1>3, StageStep

\* The outputs of an attempt are among those it may leave: what it wrote is in them.
LEMMA PublishIsPromised ==
    ASSUME IInv, Decided, NEW t \in Tasks, pc[t] = "write", todo[t] = {},
           published' = [published EXCEPT ![t] = Outputs(t)]
    PROVE  Attempts!Publish(t)
<1>1. Stages[t] = "writing" BY DEF Stages, Stage
<1> DEFINE names == ToPublish(plan[t], results[t]) \cap Args
<1>2. names \in SUBSET Args /\ wrote[t] \subseteq names
  BY WrittenIsLeft DEF Decided, IInv, TypeOK
<1>3. published' = [published EXCEPT ![t] =
                      [a \in Args |-> IF a \in names THEN Attempts!Made(t) ELSE Attempts!Nothing]]
  BY DEF Outputs, Attempts!Made, Made, Attempts!Nothing, Nothing
<1> QED BY <1>1, <1>2, <1>3 DEF Attempts!Publish

\* A step of one attempt is a step of TaskAttempts.
LEMMA OneStep ==
    ASSUME NEW t \in Tasks,
           \/ Attempts!Begin(t) \/ Attempts!Read(t) \/ Attempts!Decide(t) \/ Attempts!Succeed(t)
           \/ Attempts!Refuse(t) \/ Attempts!GetStuck(t) \/ Attempts!Break(t)
           \/ \E a \in Args : Attempts!Write(t, a)
    PROVE  Promised
BY DEF Promised, Attempts!Next

\* An attempt that fails before it has results has refused or broken.
LEMMA FailIsPromised ==
    ASSUME IInv, Decided, NEW t \in Tasks, NEW e \in Errors, pc[t] # "idle", Fail(t, e),
           e \in {"KeyError", "ValueError"} => pc[t] \in {"resolve", "invoke"}
                                              /\ published' = published,
           \/ published' = published
           \/ /\ pc[t] = "write" /\ todo[t] = {}
              /\ published' = [published EXCEPT ![t] = Outputs(t)],
           UNCHANGED <<element, late>>
    PROVE  Promised
<1>1. Stages' = [Stages EXCEPT ![t] = EndStage(t, e)]
  BY FailStage DEF IInv
<1>2. /\ UNCHANGED <<attempts, attempt, reads, unfit, wrote>>
      /\ todo' = [todo EXCEPT ![t] = {}]
  BY DEF Fail
<1>3. CASE e \in {"KeyError", "ValueError"}
  <2>1. Stages[t] \in {"begun", "ready"} BY <1>3 DEF Stages, Stage
  <2>2. todo[t] = {} BY <1>3 DEF Decided
  <2>3. todo' = todo BY <1>2, <2>2 DEF IInv, TypeOK
  <2>4. EndStage(t, e) = "refused"
    <3>1. unfit[t] = {} BY <1>3 DEF IInv, NothingWritten
    <3> QED BY <1>3, <3>1 DEF EndStage
  <2>5. Attempts!Refuse(t) BY <1>1, <1>2, <1>3, <2>1, <2>3, <2>4 DEF Attempts!Refuse
  <2> QED BY <2>5, OneStep
<1>4. CASE e \notin {"KeyError", "ValueError"}
  <2>1. Attempts!UnderWay(t) BY DEF Attempts!UnderWay, Stages, Stage
  <2>2. published' = published \/ Attempts!Publish(t) BY PublishIsPromised
  <2>3. EndStage(t, e) = "broken" BY <1>4 DEF EndStage
  <2>4. Attempts!Break(t) BY <1>1, <1>2, <2>1, <2>2, <2>3 DEF Attempts!Break
  <2> QED BY <2>4, OneStep
<1> QED BY <1>3, <1>4

\* One that fails over a result without a JSON form is stuck.
LEMMA StuckIsPromised ==
    ASSUME IInv, NEW t \in Tasks, CannotWrite(t) \/ CannotPublish(t)
    PROVE  Promised
<1>1. /\ pc[t] = "write" /\ Fail(t, "ValueError")
      /\ \/ todo[t] \cap unfit[t] # {}
         \/ todo[t] = {} /\ unfit[t] # {}
      /\ UNCHANGED <<published, element, late>>
  BY DEF CannotWrite, CannotPublish, Storable
<1>2. EndStage(t, "ValueError") = "stuck" BY <1>1 DEF EndStage
<1>3. Stages' = [Stages EXCEPT ![t] = "stuck"] BY <1>1, <1>2, FailStage DEF IInv, Errors
<1>4. /\ UNCHANGED <<attempts, attempt, reads, unfit, wrote>>
      /\ todo' = [todo EXCEPT ![t] = {}]
  BY <1>1 DEF Fail
<1>5. Stages[t] = "writing" BY <1>1 DEF Stages, Stage
<1>6. Attempts!GetStuck(t) BY <1>1, <1>3, <1>4, <1>5 DEF Attempts!GetStuck
<1> QED BY <1>6, OneStep

\* One that breaks off during a write owes at most that one.
LEMMA BreakOffIsPromised ==
    ASSUME IInv, NEW t \in Tasks, NEW e \in {"RequestError", "killed"},
           pc[t] = "write", BreakOffWrite(t, e)
    PROVE  Promised
<1>1. /\ pc' = [pc EXCEPT ![t] = "idle"] /\ state' = [state EXCEPT ![t] = e]
      /\ todo' = [todo EXCEPT ![t] = {}]
      /\ UNCHANGED <<attempts, attempt, reads, unfit, published>>
  BY DEF BreakOffWrite
<1>2. PICK a \in todo[t] \ unfit[t] :
        /\ wrote' = [wrote EXCEPT ![t] = @ \cup {a}]
        /\ \/ element' = [element EXCEPT ![<<t, a>>] = Made(t)] /\ UNCHANGED late
           \/ UNCHANGED <<element, late>>
           \/ late' = late \cup {<<<<t, a>>, Made(t)>>} /\ UNCHANGED element
  BY DEF BreakOffWrite
<1>3. Stages[t] = "writing" BY DEF Stages, Stage
<1>4. Stages' = [Stages EXCEPT ![t] = "broken"]
  <2>1. Stage(t)' = "broken" BY <1>1 DEF Stage, IInv, TypeOK
  <2> QED BY <1>1, <2>1, StageStep DEF IInv, TypeOK
<1>5. Made(t) = Attempts!Made(t) BY DEF Made, Attempts!Made
<1>6. Attempts!Break(t)
  BY <1>1, <1>2, <1>3, <1>4, <1>5 DEF Attempts!Break, Attempts!UnderWay
<1> QED BY <1>6, OneStep

\* Inputs are read when all are there.
LEMMA ResolveIsPromised == ASSUME IInv, Decided, NEW t \in Tasks, Resolve(t) PROVE Promised
<1> USE DEF IInv
<1>0. pc[t] = "resolve" /\ UNCHANGED <<published, element, late, gaveUp>> BY DEF Resolve
<1>1. CASE \E e \in Errors : Fail(t, e)
  <2>1. PICK e \in Errors : Fail(t, e) BY <1>1
  <2> QED BY <1>0, <2>1, FailIsPromised
<1>2. CASE ~ \E e \in Errors : Fail(t, e)
  <2>1. /\ \A i \in plan[t].reads : published[i[1]][i[2]] # Nothing
        /\ reads' = [reads EXCEPT ![t] = {published[i[1]][i[2]] : i \in plan[t].reads}]
        /\ pc' = [pc EXCEPT ![t] = "invoke"]
        /\ UNCHANGED <<attempts, state, attempt, unfit, todo, wrote>>
    BY <1>2 DEF Resolve, Errors
  <2>2. Stages[t] = "begun" BY <1>0 DEF Stages, Stage
  <2>3. Stages' = [Stages EXCEPT ![t] = "ready"]
    <3>1. Stage(t)' = "ready" BY <2>1 DEF Stage, TypeOK
    <3> QED BY <2>1, <3>1, StageStep DEF TypeOK
  <2>4. plan[t].reads \in SUBSET (Tasks \X Args) BY PlanOfTask
  <2>5. Attempts!Nothing = Nothing BY DEF Attempts!Nothing, Nothing
  <2>6. Attempts!Read(t) BY <1>0, <2>1, <2>2, <2>3, <2>4, <2>5 DEF Attempts!Read
  <2> QED BY <2>6, OneStep
<1> QED BY <1>1, <1>2

\* What is to be written is decided when all results are there and none is refused.
LEMMA GetResultsIsPromised == ASSUME IInv, Decided, NEW t \in Tasks, GetResults(t) PROVE Promised
<1> USE DEF IInv
<1>0. pc[t] = "invoke" /\ UNCHANGED <<published, element, late, gaveUp>> BY DEF GetResults
<1>1. CASE \E e \in Errors : Fail(t, e)
  <2>1. PICK e \in Errors : Fail(t, e) BY <1>1
  <2> QED BY <1>0, <2>1, FailIsPromised
<1>2. CASE ~ \E e \in Errors : Fail(t, e)
  <2>1. PICK names \in SUBSET Args, some \in SUBSET Args :
          /\ unfit' = [unfit EXCEPT ![t] = some]
          /\ todo' = [todo EXCEPT ![t] = ToWrite(plan[t], names)]
          /\ pc' = [pc EXCEPT ![t] = "write"]
          /\ UNCHANGED <<attempts, state, attempt, reads, wrote>>
    BY <1>2 DEF GetResults, Errors
  <2>2. ToWrite(plan[t], names) \in SUBSET Args BY DEF ToWrite
  <2>3. Stages[t] = "ready" BY <1>0 DEF Stages, Stage
  <2>4. Stages' = [Stages EXCEPT ![t] = "writing"]
    <3>1. Stage(t)' = "writing" BY <2>1 DEF Stage, TypeOK
    <3> QED BY <2>1, <3>1, StageStep DEF TypeOK
  <2>5. Attempts!Decide(t) BY <1>0, <2>1, <2>2, <2>3, <2>4 DEF Attempts!Decide
  <2> QED BY <2>5, OneStep
<1> QED BY <1>1, <1>2

\* A sink that was decided on is written.
LEMMA WriteIsPromised == ASSUME IInv, NEW t \in Tasks, Write(t) PROVE Promised
<1> USE DEF IInv
<1>1. PICK a \in todo[t] \ unfit[t] :
        /\ element' = [element EXCEPT ![<<t, a>>] = Made(t)]
        /\ todo' = [todo EXCEPT ![t] = @ \ {a}]
        /\ wrote' = [wrote EXCEPT ![t] = @ \cup {a}]
  BY DEF Write
<1>2. pc[t] = "write" /\ UNCHANGED <<attempts, state, attempt, pc, reads, unfit, published, late>>
  BY DEF Write
<1>3. Stages[t] = "writing" /\ Stages' = Stages BY <1>2 DEF Stages, Stage
<1>4. a \in Args /\ Made(t) = Attempts!Made(t) BY DEF TypeOK, Made, Attempts!Made
<1>5. Attempts!Write(t, a) BY <1>1, <1>2, <1>3, <1>4 DEF Attempts!Write
<1> QED BY <1>4, <1>5, OneStep

\* A task succeeds when all of its sinks are written.
LEMMA SuccessIsPromised == ASSUME IInv, Decided, NEW t \in Tasks, Publish(t) PROVE Promised
<1> USE DEF IInv
<1>1. /\ pc[t] = "write" /\ todo[t] = {}
      /\ published' = [published EXCEPT ![t] = Outputs(t)]
      /\ state' = [state EXCEPT ![t] = "success"]
      /\ pc' = [pc EXCEPT ![t] = "idle"]
      /\ UNCHANGED <<attempts, attempt, reads, unfit, todo, wrote, element, late>>
  BY DEF Publish
<1>2. Stages' = [Stages EXCEPT ![t] = "success"]
  <2>1. Stage(t)' = "success" BY <1>1 DEF Stage, TypeOK
  <2> QED BY <1>1, <2>1, StageStep DEF TypeOK
<1>3. Attempts!Publish(t) BY <1>1, PublishIsPromised
<1>4. Attempts!Succeed(t) BY <1>1, <1>2, <1>3 DEF Attempts!Succeed
<1> QED BY <1>4, OneStep

LEMMA OperatorIsPromised == ASSUME IInv, Decided, NEW t \in Tasks, Operator(t) \/ Kill(t) PROVE Promised
<1>1. CASE Resolve(t) BY <1>1, ResolveIsPromised
<1>2. CASE GetResults(t) BY <1>2, GetResultsIsPromised
<1>3. CASE OperationFails(t)
  <2>1. PICK e \in {"OperationError", "RequestError"} : Fail(t, e)
    BY <1>3 DEF OperationFails
  <2> QED BY <1>3, <2>1, FailIsPromised DEF OperationFails, Errors
<1>4. CASE Write(t) BY <1>4, WriteIsPromised
<1>5. CASE WriteFails(t) BY <1>5, BreakOffIsPromised DEF WriteFails
<1>6. CASE Publish(t) BY <1>6, SuccessIsPromised
<1>7. CASE \E e \in {"RequestError", "killed"} : PublishFails(t, e)
  BY <1>7, FailIsPromised DEF PublishFails, Errors
<1>8. CASE Kill(t)
  <2>1. CASE /\ pc[t] # "idle" /\ Fail(t, "killed")
             /\ UNCHANGED <<published, element, late, gaveUp>>
    BY <2>1, FailIsPromised DEF Errors
  <2>2. CASE pc[t] = "write" /\ BreakOffWrite(t, "killed") BY <2>2, BreakOffIsPromised
  <2> QED BY <1>7, <1>8, <2>1, <2>2 DEF Kill
<1>9. CASE CannotWrite(t) \/ CannotPublish(t) BY <1>9, StuckIsPromised
<1> QED BY <1>1, <1>2, <1>3, <1>4, <1>5, <1>6, <1>7, <1>8, <1>9 DEF Operator

LEMMA StartIsPromised == ASSUME IInv, NEW t \in Tasks, Start(t) PROVE Promised
<1> USE DEF IInv
<1>1. /\ attempts' = attempts + 1
      /\ attempt' = [attempt EXCEPT ![t] = attempts + 1]
      /\ state' = [state EXCEPT ![t] = "running"]
      /\ pc' = [pc EXCEPT ![t] = "resolve"]
      /\ reads' = [reads EXCEPT ![t] = {}]
      /\ unfit' = [unfit EXCEPT ![t] = {}]
      /\ todo' = [todo EXCEPT ![t] = {}]
      /\ wrote' = [wrote EXCEPT ![t] = {}]
      /\ published' \in {published, [published EXCEPT ![t] = NoOutputs]}
      /\ UNCHANGED <<element, late>>
  BY DEF Start
<1>2. Stages[t] \in {"none", "refused", "stuck", "broken"}
  <2>1. pc[t] = "idle" BY DEF Start, Placed, Errors, TypeOK
  <2>2. state[t] \in {"none"} \cup Errors BY DEF Start
  <2> QED BY <2>1, <2>2 DEF Stages, Stage, Errors
<1>3. Stages' = [Stages EXCEPT ![t] = "begun"]
  <2>1. Stage(t)' = "begun" BY <1>1 DEF Stage, TypeOK
  <2> QED BY <1>1, <2>1, StageStep DEF TypeOK
<1>4. Attempts!NoOutputs = NoOutputs
  BY DEF Attempts!NoOutputs, NoOutputs, Attempts!Nothing, Nothing
<1>5. Attempts!Begin(t) BY <1>1, <1>2, <1>3, <1>4 DEF Attempts!Begin
<1> QED BY <1>5, OneStep

LEMMA NewRunIsPromised == ASSUME IInv, NewRun PROVE Promised
<1>1. /\ \A t \in Tasks : pc[t] = "idle"
      /\ state' = [t \in Tasks |-> "none"]
      /\ pc' = pc
      /\ published' \in {published, [t \in Tasks |-> NoOutputs]}
  BY DEF NewRun
<1>2. \A t \in Tasks : ~Attempts!UnderWay(t)
  <2>1. ASSUME NEW t \in Tasks PROVE Stages[t] \in {"refused", "stuck", "none", "success", "broken"}
    BY <1>1 DEF Stages, Stage
  <2> QED BY <2>1 DEF Attempts!UnderWay
<1>3. Stages' = [t \in Tasks |-> "none"]
  <2>1. ASSUME NEW t \in Tasks PROVE Stage(t)' = "none" BY <1>1 DEF Stage
  <2> QED BY <2>1 DEF Stages
<1>4. Attempts!NoOutputs = NoOutputs
  BY DEF Attempts!NoOutputs, NoOutputs, Attempts!Nothing, Nothing
<1>5. Attempts!NewRun BY <1>1, <1>2, <1>3, <1>4 DEF NewRun, Attempts!NewRun
<1> QED BY <1>5 DEF Promised, Attempts!Next

LEMMA ServeLateIsPromised == ASSUME ServeLate PROVE Promised
<1>1. Stages' = Stages BY DEF ServeLate, taskVars, Stages, Stage
<1>2. Attempts!CatchUp BY <1>1 DEF ServeLate, taskVars, Attempts!CatchUp
<1> QED BY <1>2 DEF Promised, Attempts!Next

\* KeepsAttempts: six operators in two contexts, with their requests and errors, workers that
\* are killed and writes that come late, implement TaskAttempts.
THEOREM ImplementsAttempts == Spec => KeepsAttempts
<1>1. Init => Attempts!Init
  <2>1. Init => Stages = [t \in Tasks |-> "none"] BY DEF Init, Stages, Stage
  <2> QED BY <2>1 DEF Init, Attempts!Init, Attempts!NoOutputs, NoOutputs, Attempts!Nothing, Nothing
<1>2. IInv /\ Decided /\ [Next]_vars => Decided'
  BY NextDecided
<1>3. IInv /\ Decided /\ [Next]_vars => [Attempts!Next]_(Attempts!vars)
  <2> SUFFICES ASSUME IInv, Decided, [Next]_vars PROVE Promised BY DEF Promised
  <2>1. CASE UNCHANGED vars
    BY <2>1 DEF vars, taskVars, Promised, Attempts!vars, Stages, Stage
  <2> QED BY <2>1, OperatorIsPromised, StartIsPromised, NewRunIsPromised, ServeLateIsPromised DEF Next
<1> QED BY <1>1, <1>2, <1>3, InitDecided, Invariance, PTL DEF Spec, KeepsAttempts, Attempts!Spec

-----------------------------------------------------------------------------
(* What TaskAttempts is enough for.                                        *)

\* A task that refused has written nothing; one that is stuck has a result it cannot pass
\* on, and wrote none of these; and all that a success wrote is among its outputs, with
\* nothing left to write.
AttemptsAreWhole ==
    \A t \in Tasks :
        /\ Stages[t] = "refused" => wrote[t] = {}
        /\ Stages[t] = "stuck" => unfit[t] # {}
        /\ wrote[t] \cap unfit[t] = {}
        /\ Stages[t] = "success" => /\ todo[t] = {}
                                   /\ \A a \in wrote[t] : published[t][a] = Attempts!Made(t)

\* Nothing is written before it is decided what to write.
Whole == /\ wrote \in [Tasks -> SUBSET Args] /\ todo \in [Tasks -> SUBSET Args]
         /\ unfit \in [Tasks -> SUBSET Args]
         /\ DOMAIN published = Tasks /\ DOMAIN attempt = Tasks
         /\ \A t \in Tasks : Stages[t] \in {"begun", "ready"} => wrote[t] = {}
         /\ AttemptsAreWhole

\* A step of one attempt leaves the others as they are.
LEMMA OthersStayWhole ==
    ASSUME Whole, NEW t \in Tasks,
           wrote' \in [Tasks -> SUBSET Args], todo' \in [Tasks -> SUBSET Args],
           unfit' \in [Tasks -> SUBSET Args],
           DOMAIN published' = Tasks, DOMAIN attempt' = Tasks,
           \A u \in Tasks \ {t} : /\ Stages'[u] = Stages[u] /\ wrote'[u] = wrote[u]
                                  /\ todo'[u] = todo[u] /\ published'[u] = published[u]
                                  /\ attempt'[u] = attempt[u] /\ unfit'[u] = unfit[u],
           Stages'[t] \in {"begun", "ready", "refused"} => wrote'[t] = {},
           Stages'[t] = "stuck" => unfit'[t] # {},
           wrote'[t] \cap unfit'[t] = {},
           Stages'[t] = "success" => /\ todo'[t] = {}
                                     /\ \A a \in wrote'[t] : published'[t][a] = Attempts!Made(t)'
    PROVE  Whole'
BY DEF Whole, AttemptsAreWhole, Attempts!Made

LEMMA NextWhole == ASSUME Whole, [Attempts!Next]_(Attempts!vars) PROVE Whole'
<1>0. \A u \in Tasks : u \in DOMAIN Stages BY DEF Stages
<1>1. ASSUME NEW t \in Tasks, Attempts!Begin(t) PROVE Whole'
  <2>1. DOMAIN published' = Tasks BY <1>1 DEF Attempts!Begin, Whole
  <2>2. /\ wrote' \in [Tasks -> SUBSET Args] /\ wrote'[t] = {}
        /\ unfit' \in [Tasks -> SUBSET Args] /\ todo' \in [Tasks -> SUBSET Args]
        /\ DOMAIN attempt' = Tasks /\ Stages'[t] = "begun"
    BY <1>0, <1>1 DEF Attempts!Begin, Whole
  <2>3. \A u \in Tasks \ {t} : /\ Stages'[u] = Stages[u] /\ wrote'[u] = wrote[u]
                               /\ todo'[u] = todo[u] /\ published'[u] = published[u]
                               /\ attempt'[u] = attempt[u] /\ unfit'[u] = unfit[u]
    BY <1>0, <1>1 DEF Attempts!Begin, Whole
  <2> QED BY <2>1, <2>2, <2>3, OthersStayWhole
<1>2. ASSUME NEW t \in Tasks, Attempts!Read(t) \/ Attempts!Refuse(t) PROVE Whole'
  <2>1. CASE Attempts!Read(t)
    BY <1>0, <2>1, OthersStayWhole DEF Attempts!Read, Whole, AttemptsAreWhole
  <2>2. CASE Attempts!Refuse(t)
    BY <1>0, <2>2, OthersStayWhole DEF Attempts!Refuse, Whole, AttemptsAreWhole
  <2> QED BY <1>2, <2>1, <2>2
<1>3. ASSUME NEW t \in Tasks, Attempts!Decide(t) \/ Attempts!GetStuck(t) PROVE Whole'
  <2>1. CASE Attempts!Decide(t)
    BY <1>0, <2>1, OthersStayWhole DEF Attempts!Decide, Whole, AttemptsAreWhole
  <2>2. CASE Attempts!GetStuck(t)
    BY <1>0, <2>2, OthersStayWhole DEF Attempts!GetStuck, Whole, AttemptsAreWhole
  <2> QED BY <1>3, <2>1, <2>2
<1>4. ASSUME NEW t \in Tasks, NEW a \in Args, Attempts!Write(t, a) PROVE Whole'
  BY <1>0, <1>4, OthersStayWhole DEF Attempts!Write, Whole, AttemptsAreWhole
<1>5. ASSUME NEW t \in Tasks, Attempts!Publish(t)
      PROVE  /\ DOMAIN published' = Tasks
             /\ \A u \in Tasks \ {t} : published'[u] = published[u]
             /\ todo[t] = {} /\ \A a \in wrote[t] : published'[t][a] = Attempts!Made(t)
  BY <1>5 DEF Attempts!Publish, Whole
<1>6. ASSUME NEW t \in Tasks, Attempts!Succeed(t) PROVE Whole'
  <2>1. Attempts!Made(t)' = Attempts!Made(t) BY <1>6 DEF Attempts!Succeed, Attempts!Made
  <2> QED BY <1>0, <1>5, <1>6, <2>1, OthersStayWhole DEF Attempts!Succeed, Whole, AttemptsAreWhole
<1>7. ASSUME NEW t \in Tasks, Attempts!Break(t) PROVE Whole'
  <2>1. /\ Stages' = [Stages EXCEPT ![t] = "broken"] /\ todo' = [todo EXCEPT ![t] = {}]
        /\ \/ wrote' = wrote
           \/ \E a \in todo[t] \ unfit[t] : wrote' = [wrote EXCEPT ![t] = @ \cup {a}]
        /\ attempt' = attempt /\ unfit' = unfit
    BY <1>7 DEF Attempts!Break
  <2>2. /\ DOMAIN published' = Tasks
        /\ \A u \in Tasks \ {t} : published'[u] = published[u]
    BY <1>5, <1>7 DEF Attempts!Break, Whole
  <2> QED BY <1>0, <2>1, <2>2, OthersStayWhole DEF Whole, AttemptsAreWhole
<1>8. CASE Attempts!NewRun
  BY <1>8 DEF Attempts!NewRun, Whole, AttemptsAreWhole
<1>9. CASE Attempts!CatchUp \/ UNCHANGED Attempts!vars
  BY <1>9 DEF Attempts!CatchUp, Attempts!vars, Whole, AttemptsAreWhole, Attempts!Made
<1> QED BY <1>1, <1>2, <1>3, <1>4, <1>6, <1>7, <1>8, <1>9 DEF Attempts!Next

\* TaskAttempts promises as much, to whoever keeps it.
THEOREM PromiseIsEnough == KeepsAttempts => []AttemptsAreWhole
<1>1. Attempts!Init => Whole
  BY DEF Attempts!Init, Whole, AttemptsAreWhole
<1>2. Whole /\ [Attempts!Next]_(Attempts!vars) => Whole'
  BY NextWhole
<1>3. Whole => AttemptsAreWhole
  BY DEF Whole
<1> QED BY <1>1, <1>2, <1>3, PTL DEF KeepsAttempts, Attempts!Spec
=============================================================================
