-------------------------- MODULE BatchReaderProofs --------------------------
(***************************************************************************)
(* Proofs about BatchReader, for batches of any size, any records and any  *)
(* number of interruptions.                                                *)
(***************************************************************************)
EXTENDS BatchReader, FiniteSetTheorems, WellFoundedInduction, TLAPS

LEMMA BoundsAreNat ==
    N \in Nat \ {0} /\ MaxTime \in Nat /\ PerTime \in Nat /\ MaxInterrupts \in Nat
  BY BoundsAssumption

LEMMA RecordsHaveTimes == \A r \in Records : r.time \in 1 .. MaxTime
  BY DEF Records

LEMMA RecordsAreFinite == IsFiniteSet(Records)
<1> DEFINE f == [r \in Records |-> <<r.time, r.number>>]
<1>1. IsFiniteSet((1 .. MaxTime) \X (1 .. PerTime))
  <2>1. MaxTime \in Int /\ PerTime \in Int
    BY BoundsAreNat
  <2>2. IsFiniteSet(1 .. MaxTime) /\ IsFiniteSet(1 .. PerTime)
    BY <2>1, FS_Interval
  <2> QED
    BY <2>2, FS_Product
<1>2. f \in Injection(Records, (1 .. MaxTime) \X (1 .. PerTime))
  <2>1. f \in [Records -> (1 .. MaxTime) \X (1 .. PerTime)]
    BY DEF Records
  <2>2. \A r, s \in Records : f[r] = f[s] => r = s
    BY DEF Records
  <2> QED
    BY <2>1, <2>2 DEF Injection, IsInjective
<1> QED
  BY <1>1, <1>2, FS_Injection

\* A batch that is read in full has N records, none of them before the cursor.
LEMMA FullBatch ==
    ASSUME TypeOK, NEW b \in SUBSET stored, ReadBatch(b), Cardinality(b) >= N
    PROVE  /\ Cardinality(b) = N
           /\ b # {}
           /\ \A r \in b : r.time >= cursor
<1> USE BoundsAreNat
<1>1. IsFiniteSet({r \in stored : r.time >= cursor})
  BY RecordsAreFinite, FS_Subset DEF TypeOK
<1>2. Cardinality({r \in stored : r.time >= cursor}) \in Nat
  BY <1>1, FS_CardinalityType
<1>3. Cardinality(b) = N
  BY <1>2 DEF ReadBatch
<1>4. b # {}
  BY <1>3, FS_EmptySet
<1> QED
  BY <1>3, <1>4 DEF ReadBatch

\* The last time of a batch is one of its times, and none is later.
LEMMA LastTimeIsLast ==
    ASSUME NEW b \in SUBSET Records, b # {}
    PROVE  /\ LastTime(b) \in 1 .. MaxTime
           /\ \E r \in b : r.time = LastTime(b)
           /\ \A r \in b : r.time <= LastTime(b)
<1> USE BoundsAreNat
<1> DEFINE left == {MaxTime - r.time : r \in b}
<1>1. left \subseteq Nat /\ left # {}
  BY RecordsHaveTimes
<1>2. \E x \in left : \A y \in left : ~ (<<y, x>> \in OpToRel(<, Nat))
  BY <1>1, NatLessThanWellFounded, WFMin
<1>3. PICK x \in left : \A y \in left : ~ (y < x)
  BY <1>1, <1>2 DEF OpToRel
<1>4. PICK s \in b : x = MaxTime - s.time
  OBVIOUS
<1>5. \A r \in b : r.time <= s.time
  <2>1. TAKE r \in b
  <2>2. ~ (MaxTime - r.time < x)
    BY <1>3
  <2> QED
    BY <1>4, <2>2, RecordsHaveTimes
<1>6. \E t \in {r.time : r \in b} : \A r \in b : r.time <= t
  BY <1>5
<1>7. LastTime(b) \in {r.time : r \in b} /\ \A r \in b : r.time <= LastTime(b)
  BY <1>6 DEF LastTime
<1> QED
  BY <1>7, RecordsHaveTimes
-----------------------------------------------------------------------------
\* Whether the program runs, and whether it has a batch.
Running == pc # "off"
HasBatch == pc \in {"invoking", "answered"}

\* The file is never ahead of the program, and at its place while a batch is under way.
Files ==
    /\ Running /\ file \in Times => file <= cursor
    /\ pc = "reading" \/ HasBatch => file = cursor

\* The batch begins at the cursor or later; all that was seen is in it or before it; and
\* once there is an answer the operation has run on it.
Batches ==
    /\ HasBatch => batch # {} /\ \A r \in batch : r.time >= cursor
    /\ HasBatch => \A r \in seen : r \in batch \/ r.time < cursor
    /\ pc = "answered" => \A r \in batch : ran[r] > 0

\* On a record that is still ahead the operation has run for interruptions only.
Ahead ==
    \A r \in Records :
        /\ Running \/ file \in Times
        /\ r.time >= Position
        /\ ~(pc = "answered" /\ r \in batch)
        => ran[r] <= interrupts

IInv == TypeOK /\ NothingPassedOver /\ RepeatsAreInterruptions /\ Files /\ Batches /\ Ahead

\* What the operation's run on the batch counts.
LEMMA RunsCount ==
    ASSUME TypeOK
    PROVE  /\ Ran \in [Records -> 0 .. MaxRan]
           /\ \A r \in Records : Ran[r] >= ran[r] /\ Ran[r] <= ran[r] + 1
           /\ \A r \in Records \ batch : Ran[r] = ran[r]
           /\ \A r \in batch : Ran[r] > 0
<1> USE BoundsAreNat
<1>1. MaxRan \in Nat /\ MaxRan > 0
  BY DEF MaxRan
<1>2. ran \in [Records -> 0 .. MaxRan] /\ batch \subseteq Records
  BY DEF TypeOK
<1>3. ASSUME NEW r \in Records
      PROVE  /\ Ran[r] \in 0 .. MaxRan /\ Ran[r] >= ran[r] /\ Ran[r] <= ran[r] + 1
             /\ r \notin batch => Ran[r] = ran[r]
             /\ r \in batch => Ran[r] > 0
  <2>1. ran[r] \in 0 .. MaxRan
    BY <1>2
  <2>2. Ran[r] = IF r \in batch /\ ran[r] < MaxRan THEN ran[r] + 1 ELSE ran[r]
    BY DEF Ran
  <2> QED
    BY <1>1, <2>1, <2>2
<1>4. Ran = [r \in Records |-> Ran[r]]
  BY DEF Ran
<1>5. Ran \in [Records -> 0 .. MaxRan]
  BY <1>3, <1>4
<1> QED
  BY <1>2, <1>3, <1>5

\* The program has not been run yet.
LEMMA InitInvariant == Init => IInv
<1> SUFFICES ASSUME Init PROVE IInv
  OBVIOUS
<1> USE BoundsAreNat
<1>1. TypeOK
  BY DEF Init, TypeOK, MaxRan, Times, Absent
<1>2. NothingPassedOver /\ RepeatsAreInterruptions
  BY DEF Init, NothingPassedOver, RepeatsAreInterruptions
<1>3. Files /\ Batches /\ Ahead
  BY DEF Init, Files, Batches, Ahead, Running, HasBatch, Times, Absent
<1> QED
  BY <1>1, <1>2, <1>3 DEF IInv

\* A batch that is read in full holds all that is seen from the cursor on.
LEMMA ReadInvariant == IInv /\ Read => IInv'
<1> SUFFICES ASSUME IInv, Read PROVE IInv'
  OBVIOUS
<1> USE BoundsAreNat
<1>0. TypeOK /\ NothingPassedOver /\ RepeatsAreInterruptions /\ Files /\ Batches /\ Ahead
  BY DEF IInv
<1>1. PICK b \in SUBSET stored :
        /\ ReadBatch(b)
        /\ IF Cardinality(b) < N
           THEN pc' = "off" /\ UNCHANGED <<batch, seen>>
           ELSE pc' = "invoking" /\ batch' = b /\ seen' = Seen(b)
  BY DEF Read
<1>p. pc = "reading" /\ UNCHANGED <<cursor, file, stored, ran, interrupts>>
  BY DEF Read
<1>f. file = cursor /\ cursor \in Times
  BY <1>0, <1>p DEF Files, TypeOK
<1>2. CASE Cardinality(b) < N
  <2>p. pc' = "off" /\ UNCHANGED <<batch, seen>>
    BY <1>1, <1>2
  <2>1. TypeOK'
    BY <1>0, <1>p, <2>p DEF TypeOK
  <2>2. Position = cursor /\ Position' = cursor
    BY <1>p, <1>f, <2>p DEF Position
  <2>3. NothingPassedOver' /\ RepeatsAreInterruptions'
    BY <1>0, <1>p, <2>p, <2>2 DEF NothingPassedOver, RepeatsAreInterruptions
  <2>4. Files' /\ Batches' /\ Ahead'
    BY <1>0, <1>p, <2>p, <2>2 DEF Files, Batches, Ahead, Running, HasBatch
  <2> QED
    BY <2>1, <2>3, <2>4 DEF IInv
<1>3. CASE ~(Cardinality(b) < N)
  <2>p. pc' = "invoking" /\ batch' = b /\ seen' = Seen(b)
    BY <1>1, <1>3
  <2>s. stored \subseteq Records /\ seen \subseteq Records /\ b \subseteq Records
    BY <1>0 DEF TypeOK
  <2>c. Cardinality(b) >= N
    <3>1. IsFiniteSet(b)
      BY <2>s, RecordsAreFinite, FS_Subset
    <3> QED
      BY <1>3, <3>1, FS_CardinalityType
  <2>b. Cardinality(b) = N /\ b # {} /\ \A r \in b : r.time >= cursor
    BY <1>0, <1>1, <2>c, FullBatch
  <2>e. \A r \in stored : r.time >= cursor /\ r.time < LastTime(b) => r \in b
    <3>1. SUFFICES ASSUME NEW r \in stored, r.time >= cursor, r.time < LastTime(b), r \notin b
                   PROVE  FALSE
      OBVIOUS
    <3>2. PICK l \in b : l.time = LastTime(b)
      BY <2>s, <2>b, LastTimeIsLast
    <3>3. l.time <= r.time
      BY <1>1, <3>1 DEF ReadBatch
    <3> QED
      BY <2>s, <3>1, <3>2, <3>3, RecordsHaveTimes
  <2>1. Seen(b) \subseteq Records /\ \A r \in Seen(b) : r \in b \/ (r \in seen /\ r.time < cursor)
    BY <2>s, <2>e DEF Seen
  <2>2. TypeOK'
    BY <1>0, <1>p, <2>p, <2>b, <2>s, <2>1 DEF TypeOK
  <2>3. Position = cursor /\ Position' = cursor
    BY <1>p, <2>p DEF Position
  <2>t. \A r \in b : ~(r.time < cursor)
    BY <1>f, <2>s, <2>b, RecordsHaveTimes DEF Times
  <2>4. NothingPassedOver'
    BY <1>0, <1>p, <2>p, <2>1, <2>3, <2>t DEF NothingPassedOver
  <2>5. RepeatsAreInterruptions' /\ Files'
    BY <1>0, <1>p, <1>f, <2>p DEF RepeatsAreInterruptions, Files, Running, HasBatch, Times
  <2>6. Batches'
    BY <1>p, <2>p, <2>b, <2>1 DEF Batches, HasBatch
  <2>7. Ahead'
    BY <1>0, <1>p, <2>p, <2>3 DEF Ahead, Running
  <2> QED
    BY <2>2, <2>4, <2>5, <2>6, <2>7 DEF IInv
<1> QED
  BY <1>2, <1>3

\* After an interruption no count is above the number of interruptions.
LEMMA InterruptInvariant == IInv /\ Interrupt => IInv'
<1> SUFFICES ASSUME IInv, Interrupt PROVE IInv'
  OBVIOUS
<1> USE BoundsAreNat
<1>0. TypeOK /\ NothingPassedOver /\ RepeatsAreInterruptions /\ Files /\ Batches /\ Ahead
  BY DEF IInv
<1>p. /\ pc # "off" /\ pc' = "off" /\ batch' = {} /\ interrupts < MaxInterrupts
      /\ interrupts' = interrupts + 1
      /\ UNCHANGED <<cursor, file, stored, seen>>
      /\ ran' = ran \/ (pc = "invoking" /\ ran' = Ran)
  BY DEF Interrupt
<1>t. /\ interrupts \in Nat /\ cursor \in Nat /\ file \in Int /\ seen \subseteq Records
      /\ ran \in [Records -> 0 .. MaxRan] /\ MaxRan \in Nat
  BY <1>0 DEF TypeOK, Times, Absent, Empty, MaxRan
<1>1. ran' \in [Records -> 0 .. MaxRan] /\ \A r \in Records : ran'[r] >= ran[r]
  BY <1>0, <1>p, <1>t, RunsCount
<1>2. \A r \in Records : ran'[r] <= interrupts'
  <2> TAKE r \in Records
  <2>1. ran[r] <= 1 + interrupts /\ ran[r] \in Nat
    BY <1>0, <1>t DEF RepeatsAreInterruptions
  <2>2. CASE ran' = ran
    BY <1>p, <1>t, <2>1, <2>2
  <2>3. CASE pc = "invoking" /\ ran' = Ran
    <3>1. CASE r \in batch
      <4>1. r.time >= Position
        BY <1>0, <2>3, <3>1 DEF Batches, HasBatch, Position
      <4>2. ran[r] <= interrupts
        BY <1>0, <2>3, <4>1 DEF Ahead, Running
      <4>3. Ran[r] <= ran[r] + 1 /\ Ran[r] \in Nat
        BY <1>0, <1>t, RunsCount
      <4> QED
        BY <1>p, <1>t, <2>1, <2>3, <4>2, <4>3
    <3>2. CASE r \notin batch
      <4>1. Ran[r] = ran[r]
        BY <1>0, <3>2, RunsCount
      <4> QED
        BY <1>p, <1>t, <2>1, <2>3, <4>1
    <3> QED
      BY <3>1, <3>2
  <2> QED
    BY <1>p, <2>2, <2>3
<1>3. TypeOK'
  BY <1>0, <1>p, <1>1 DEF TypeOK
<1>4. RepeatsAreInterruptions' /\ Ahead'
  <2>1. \A r \in Records : ran'[r] \in Nat
    BY <1>1, <1>t
  <2> QED
    BY <1>p, <1>t, <1>2, <2>1 DEF RepeatsAreInterruptions, Ahead
<1>5. Files' /\ Batches'
  BY <1>p DEF Files, Batches, Running, HasBatch
<1>6. NothingPassedOver'
  <2> SUFFICES ASSUME NEW r \in seen, r.time < file PROVE ran'[r] > 0
    BY <1>p DEF NothingPassedOver, Position
  <2>1. r \in Records /\ r.time \in Nat /\ r.time > 0
    BY <1>t, RecordsHaveTimes
  <2>2. file \in Times
    BY <1>0, <1>t, <2>1 DEF TypeOK, Absent, Empty
  <2>3. r.time < Position
    BY <1>0, <1>p, <1>t, <2>1, <2>2 DEF Files, Running, Position
  <2>4. ran[r] > 0
    BY <1>0, <2>3 DEF NothingPassedOver
  <2> QED
    BY <1>1, <1>t, <2>1, <2>4
<1> QED
  BY <1>3, <1>4, <1>5, <1>6 DEF IInv

\* The next batch begins behind this one.
LEMMA GoOnInvariant == IInv /\ GoOn => IInv'
<1> SUFFICES ASSUME IInv, GoOn PROVE IInv'
  OBVIOUS
<1> USE BoundsAreNat
<1>0. TypeOK /\ NothingPassedOver /\ RepeatsAreInterruptions /\ Files /\ Batches /\ Ahead
  BY DEF IInv
<1>p. /\ pc = "answered" /\ pc' = "truncating" /\ cursor' = LastTime(batch) + 1 /\ batch' = {}
      /\ UNCHANGED <<file, stored, ran, seen, interrupts>>
  BY DEF GoOn, NextCursor
<1>t. /\ batch \subseteq Records /\ seen \subseteq Records /\ batch # {} /\ cursor \in Nat
      /\ file = cursor
  BY <1>0, <1>p DEF TypeOK, Times, Batches, HasBatch, Files
<1>1. /\ LastTime(batch) \in 1 .. MaxTime
      /\ \E r \in batch : r.time = LastTime(batch)
      /\ \A r \in batch : r.time <= LastTime(batch)
  BY <1>t, LastTimeIsLast
<1>2. LastTime(batch) >= cursor
  BY <1>0, <1>p, <1>1 DEF Batches, HasBatch
<1>3. TypeOK'
  BY <1>0, <1>p, <1>1 DEF TypeOK, Times
<1>4. Position = cursor /\ Position' = LastTime(batch) + 1
  BY <1>p DEF Position
<1>5. NothingPassedOver'
  BY <1>0, <1>p, <1>4 DEF NothingPassedOver, Batches, HasBatch
<1>6. RepeatsAreInterruptions'
  BY <1>0, <1>p DEF RepeatsAreInterruptions
<1>7. Files' /\ Batches'
  BY <1>p, <1>t, <1>1, <1>2 DEF Files, Batches, Running, HasBatch
<1>8. Ahead'
  <2> SUFFICES ASSUME NEW r \in Records, r.time >= LastTime(batch) + 1
               PROVE  ran[r] <= interrupts
    BY <1>p, <1>4 DEF Ahead
  <2>1. r \notin batch /\ r.time >= cursor
    BY <1>t, <1>1, <1>2, RecordsHaveTimes
  <2> QED
    BY <1>0, <1>p, <1>4, <2>1 DEF Ahead, Running
<1> QED
  BY <1>3, <1>5, <1>6, <1>7, <1>8 DEF IInv

LEMMA InvokeInvariant == IInv /\ Invoke => IInv'
<1> SUFFICES ASSUME IInv, Invoke PROVE IInv'
  OBVIOUS
<1> USE BoundsAreNat
<1>0. TypeOK /\ NothingPassedOver /\ RepeatsAreInterruptions /\ Files /\ Batches /\ Ahead
  BY DEF IInv
<1>p. /\ pc = "invoking" /\ pc' = "answered" /\ ran' = Ran
      /\ UNCHANGED <<cursor, batch, file, stored, seen, interrupts>>
  BY DEF Invoke
<1>t. /\ batch \subseteq Records /\ seen \subseteq Records /\ interrupts \in Nat
      /\ MaxRan \in Nat /\ ran \in [Records -> 0 .. MaxRan]
  BY <1>0 DEF TypeOK, MaxRan
<1>1. /\ Ran \in [Records -> 0 .. MaxRan]
      /\ \A r \in Records : Ran[r] >= ran[r] /\ Ran[r] <= ran[r] + 1
      /\ \A r \in Records \ batch : Ran[r] = ran[r]
      /\ \A r \in batch : Ran[r] > 0
  BY <1>0, RunsCount
<1>2. Position = cursor /\ Position' = cursor
  BY <1>p DEF Position
<1>3. TypeOK'
  BY <1>0, <1>p, <1>1 DEF TypeOK
<1>4. NothingPassedOver'
  <2> SUFFICES ASSUME NEW r \in seen, r.time < cursor PROVE Ran[r] > 0
    BY <1>p, <1>2 DEF NothingPassedOver
  <2>1. ran[r] > 0
    BY <1>0, <1>2 DEF NothingPassedOver
  <2>2. r \in Records /\ ran[r] \in Nat /\ Ran[r] \in Nat
    BY <1>t, <1>1
  <2> QED
    BY <1>1, <2>1, <2>2
<1>5. RepeatsAreInterruptions'
  <2> SUFFICES ASSUME NEW r \in Records PROVE Ran[r] <= 1 + interrupts
    BY <1>p DEF RepeatsAreInterruptions
  <2>1. ran[r] \in Nat /\ Ran[r] \in Nat
    BY <1>t, <1>1
  <2>2. CASE r \in batch
    <3>1. ran[r] <= interrupts
      BY <1>0, <1>p, <1>2, <2>2 DEF Batches, HasBatch, Ahead, Running
    <3> QED
      BY <1>t, <1>1, <2>1, <3>1
  <2>3. CASE r \notin batch
    BY <1>0, <1>1, <2>3 DEF RepeatsAreInterruptions
  <2> QED
    BY <2>2, <2>3
<1>6. Files'
  BY <1>0, <1>p DEF Files, Running, HasBatch
<1>7. Batches'
  BY <1>0, <1>p, <1>1 DEF Batches, HasBatch
<1>8. Ahead'
  BY <1>0, <1>p, <1>1, <1>2 DEF Ahead, Running
<1> QED
  BY <1>3, <1>4, <1>5, <1>6, <1>7, <1>8 DEF IInv

LEMMA NextInvariant == IInv /\ [Next]_vars => IInv'
<1> SUFFICES ASSUME IInv, [Next]_vars PROVE IInv'
  OBVIOUS
<1> USE BoundsAreNat
<1>0. TypeOK /\ NothingPassedOver /\ RepeatsAreInterruptions /\ Files /\ Batches /\ Ahead
  BY DEF IInv
<1>1. CASE Append
  <2>p. /\ stored' \subseteq Records
        /\ UNCHANGED <<pc, cursor, batch, file, ran, seen, interrupts>>
    BY <1>0, <1>1 DEF Append, TypeOK
  <2>1. TypeOK' /\ Position' = Position
    BY <1>0, <2>p DEF TypeOK, Position
  <2>2. NothingPassedOver' /\ RepeatsAreInterruptions'
    BY <1>0, <2>p, <2>1 DEF NothingPassedOver, RepeatsAreInterruptions
  <2>3. Files' /\ Batches' /\ Ahead'
    BY <1>0, <2>p, <2>1 DEF Files, Batches, Ahead, Running, HasBatch
  <2> QED
    BY <2>1, <2>2, <2>3 DEF IInv
<1>2. ASSUME NEW t \in 1 .. MaxTime, StartAt(t) PROVE IInv'
  <2>p. /\ pc' = "truncating" /\ cursor' = t /\ file \in {Absent, Empty} /\ seen' = {}
        /\ ran' = [r \in Records |-> 0]
        /\ UNCHANGED <<batch, file, stored, interrupts>>
    BY <1>2 DEF StartAt
  <2>1. TypeOK'
    BY <1>0, <2>p DEF TypeOK, Times, MaxRan
  <2>2. NothingPassedOver' /\ RepeatsAreInterruptions' /\ Batches' /\ Ahead'
    BY <1>0, <2>p
    DEF TypeOK, NothingPassedOver, RepeatsAreInterruptions, Batches, HasBatch, Ahead
  <2>3. Files'
    BY <2>p DEF Files, Running, HasBatch, Times, Absent, Empty
  <2> QED
    BY <2>1, <2>2, <2>3 DEF IInv
<1>3. CASE Resume
  <2>p. /\ pc = "off" /\ pc' = "truncating" /\ file \in Times /\ cursor' = file
        /\ UNCHANGED <<batch, file, stored, ran, seen, interrupts>>
    BY <1>3 DEF Resume
  <2>1. TypeOK' /\ Position' = Position
    BY <1>0, <2>p DEF TypeOK, Position
  <2>2. NothingPassedOver' /\ RepeatsAreInterruptions'
    BY <1>0, <2>p, <2>1 DEF NothingPassedOver, RepeatsAreInterruptions
  <2>3. Files' /\ Batches'
    BY <2>p DEF Files, Batches, Running, HasBatch, Times
  <2>4. Ahead'
    BY <1>0, <2>p, <2>1 DEF Ahead
  <2> QED
    BY <2>1, <2>2, <2>3, <2>4 DEF IInv
<1>4. CASE Truncate \/ WriteCursor
  <2>p. /\ pc \in {"truncating", "writing"} /\ pc' \in {"writing", "reading"}
        /\ pc' = "reading" => file' = cursor
        /\ pc' = "writing" => file' = Empty
        /\ UNCHANGED <<cursor, batch, stored, ran, seen, interrupts>>
    BY <1>4 DEF Truncate, WriteCursor
  <2>1. TypeOK' /\ Position' = Position
    BY <1>0, <2>p DEF TypeOK, Position
  <2>2. NothingPassedOver' /\ RepeatsAreInterruptions'
    BY <1>0, <2>p, <2>1 DEF NothingPassedOver, RepeatsAreInterruptions
  <2>3. Files'
    BY <1>0, <2>p DEF Files, Running, HasBatch, TypeOK, Times, Empty
  <2>4. Batches'
    BY <2>p DEF Batches, HasBatch
  <2>5. Ahead'
    BY <1>0, <2>p, <2>1 DEF Ahead, Running
  <2> QED
    BY <2>1, <2>2, <2>3, <2>4, <2>5 DEF IInv
<1>5. CASE UNCHANGED vars
  BY <1>0, <1>5 DEF IInv, TypeOK, NothingPassedOver, RepeatsAreInterruptions, Files, Batches,
                    Ahead, Position, Running, HasBatch, vars
<1> QED
  BY <1>1, <1>2, <1>3, <1>4, <1>5, ReadInvariant, InvokeInvariant, GoOnInvariant,
     InterruptInvariant DEF Next

LEMMA Invariance == FairSpec => []IInv
BY InitInvariant, NextInvariant, PTL DEF FairSpec

\* TypeOK: a batch that is invoked is full, and the cursor stays behind the records by one
\* at most.
THEOREM TypeCorrect == FairSpec => []TypeOK
<1>1. IInv => TypeOK
  BY DEF IInv
<1> QED
  BY <1>1, Invariance, PTL

\* NothingPassedOver: interrupted and resumed at any points, the program leaves out no record
\* that was there when the batch around it was read.
THEOREM PassesNothingOver == FairSpec => []NothingPassedOver
<1>1. IInv => NothingPassedOver
  BY DEF IInv
<1> QED
  BY <1>1, Invariance, PTL

\* RepeatsAreInterruptions: the operation runs on a record again for interruptions only.
THEOREM RepeatsOnlyInterruptions == FairSpec => []RepeatsAreInterruptions
<1>1. IInv => RepeatsAreInterruptions
  BY DEF IInv
<1> QED
  BY <1>1, Invariance, PTL
=============================================================================
