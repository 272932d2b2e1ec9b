----------------------------- MODULE BatchReader -----------------------------
(***************************************************************************)
(* The sample sample_timeseries_reader.py: a program that reads a time     *)
(* series in batches of N records, runs an operation on each, and keeps    *)
(* the start of the batch under way in a file, so that it goes on there    *)
(* when it is run again.  Times are milliseconds.                          *)
(***************************************************************************)
EXTENDS Integers, FiniteSets

CONSTANTS
    N,              \* batch_size
    MaxTime,        \* bound: the times of records are 1 .. MaxTime
    PerTime,        \* bound: so many records have the same time
    MaxInterrupts   \* bound: the program is interrupted at most this often

ASSUME BoundsAssumption == /\ N \in Nat \ {0}
                           /\ {MaxTime, PerTime, MaxInterrupts} \subseteq Nat

Records == [time : 1 .. MaxTime, number : 1 .. PerTime]
Times == 1 .. MaxTime + 1

\* What CURSOR_FILE may hold besides a time: it does not exist, or it is empty.
Absent == 0
Empty == -1

VARIABLES
    pc,          \* "off" while the program does not run
    cursor,      \* the start of the batch under way
    batch,       \* the records of the batch under way
    file,        \* CURSOR_FILE
    stored,      \* the records of the time series
    ran,         \* ran[r]: how often the operation ran on a batch with r
    seen,        \* history: what was there when the batches were read, up to their ends
    interrupts   \* history: number of interruptions

vars == <<pc, cursor, batch, file, stored, ran, seen, interrupts>>

\* Counting more often than interruptions can explain adds nothing.
MaxRan == MaxInterrupts + 2

TypeOK ==
    /\ pc \in {"off", "truncating", "writing", "reading", "invoking", "answered"}
    /\ cursor \in Times
    /\ batch \subseteq Records
    /\ pc \in {"invoking", "answered"} => Cardinality(batch) = N
    /\ file \in Times \cup {Absent, Empty}
    /\ stored \subseteq Records
    /\ ran \in [Records -> 0 .. MaxRan]
    /\ seen \subseteq Records
    /\ interrupts \in 0 .. MaxInterrupts

Init ==
    /\ pc = "off"
    /\ cursor = 1
    /\ batch = {}
    /\ file = Absent
    /\ stored = {}
    /\ ran = [r \in Records |-> 0]
    /\ seen = {}
    /\ interrupts = 0

-----------------------------------------------------------------------------
\* Records come in any order of their times.
Append ==
    /\ \E r \in Records \ stored : stored' = stored \cup {r}
    /\ UNCHANGED <<pc, cursor, batch, file, ran, seen, interrupts>>

\* main() with a start: the history of what was to be done begins anew.
StartAt(t) ==
    /\ pc = "off"
    /\ file \in {Absent, Empty}
    /\ pc' = "truncating"
    /\ cursor' = t
    /\ ran' = [r \in Records |-> 0]
    /\ seen' = {}
    /\ UNCHANGED <<batch, file, stored, interrupts>>

\* main() without a start, which ends at once if the file is absent or empty.
Resume ==
    /\ pc = "off"
    /\ file \in Times
    /\ pc' = "truncating"
    /\ cursor' = file
    /\ UNCHANGED <<batch, file, stored, ran, seen, interrupts>>

\* save_cursor: write_text empties the file and then writes to it.
Truncate ==
    /\ pc = "truncating"
    /\ pc' = "writing"
    /\ file' = Empty
    /\ UNCHANGED <<cursor, batch, stored, ran, seen, interrupts>>

WriteCursor ==
    /\ pc = "writing"
    /\ pc' = "reading"
    /\ file' = cursor
    /\ UNCHANGED <<cursor, batch, stored, ran, seen, interrupts>>

\* read_records: up to N records from the cursor on, the earliest ones.
ReadBatch(b) ==
    LET there == {r \in stored : r.time >= cursor} IN
    /\ b \subseteq there
    /\ Cardinality(b) = IF Cardinality(there) < N THEN Cardinality(there) ELSE N
    /\ \A r \in b, s \in there \ b : r.time <= s.time

LastTime(b) == CHOOSE t \in {r.time : r \in b} : \A r \in b : r.time <= t

\* Mutant: the next batch starts with the last record of this one.
MutantNextCursor(b) == LastTime(b)

NextCursor(b) == LastTime(b) + 1

\* What was there up to the end of batch b, apart from other records at the time of its
\* last one.
Seen(b) == {r \in seen : r.time < cursor} \cup b
             \cup {r \in stored : r.time >= cursor /\ r.time < LastTime(b)}

\* Mutant: only an empty batch is discarded.
MutantRead ==
    /\ pc = "reading"
    /\ \E b \in SUBSET stored :
         /\ ReadBatch(b)
         /\ IF b = {}
            THEN pc' = "off" /\ UNCHANGED <<batch, seen>>
            ELSE pc' = "invoking" /\ batch' = b /\ seen' = Seen(b)
    /\ UNCHANGED <<cursor, file, stored, ran, interrupts>>

\* Mutant: the program waits until the batch is full.
MutantReadFull ==
    /\ pc = "reading"
    /\ \E b \in SUBSET stored :
         /\ ReadBatch(b)
         /\ Cardinality(b) = N
         /\ pc' = "invoking"
         /\ batch' = b
         /\ seen' = Seen(b)
    /\ UNCHANGED <<cursor, file, stored, ran, interrupts>>

\* Mutant: the next cursor is saved before the operation runs.
MutantReadSaves ==
    /\ pc = "reading"
    /\ \E b \in SUBSET stored :
         /\ ReadBatch(b)
         /\ IF Cardinality(b) < N
            THEN pc' = "off" /\ UNCHANGED <<batch, seen, file>>
            ELSE pc' = "invoking" /\ batch' = b /\ seen' = Seen(b) /\ file' = NextCursor(b)
    /\ UNCHANGED <<cursor, stored, ran, interrupts>>

\* A batch that is not full is discarded and ends the program.
Read ==
    /\ pc = "reading"
    /\ \E b \in SUBSET stored :
         /\ ReadBatch(b)
         /\ IF Cardinality(b) < N
            THEN pc' = "off" /\ UNCHANGED <<batch, seen>>
            ELSE pc' = "invoking" /\ batch' = b /\ seen' = Seen(b)
    /\ UNCHANGED <<cursor, file, stored, ran, interrupts>>

Ran == [r \in Records |-> IF r \in batch /\ ran[r] < MaxRan THEN ran[r] + 1 ELSE ran[r]]

\* The operation runs on the batch, and its answer comes.
Invoke ==
    /\ pc = "invoking"
    /\ pc' = "answered"
    /\ ran' = Ran
    /\ UNCHANGED <<cursor, batch, file, stored, seen, interrupts>>

GoOn ==
    /\ pc = "answered"
    /\ pc' = "truncating"
    /\ cursor' = NextCursor(batch)
    /\ batch' = {}
    /\ UNCHANGED <<file, stored, ran, seen, interrupts>>

\* The program ends at any point: it is killed, the time series cannot be read, the
\* operation fails (and may have run nevertheless), or its outputs cannot be used.
Interrupt ==
    /\ pc # "off"
    /\ interrupts < MaxInterrupts
    /\ interrupts' = interrupts + 1
    /\ pc' = "off"
    /\ batch' = {}
    /\ \/ UNCHANGED ran
       \/ pc = "invoking" /\ ran' = Ran
    /\ UNCHANGED <<cursor, file, stored, seen>>

Next == \/ Append \/ Resume \/ Truncate \/ WriteCursor \/ Read \/ Invoke \/ GoOn \/ Interrupt
        \/ \E t \in 1 .. MaxTime : StartAt(t)

\* The program goes on while it runs; nobody has to start it.
FairSpec == /\ Init /\ [][Next]_vars
            /\ WF_vars(Truncate \/ WriteCursor \/ Read \/ Invoke \/ GoOn)
-----------------------------------------------------------------------------
(* Properties.                                                             *)

\* Where the program is, or where it will go on when it is run again.
Position == IF pc = "off" THEN file ELSE cursor

\* Every record that was there when the batch around it was read is either still ahead or
\* the operation has run on it, however often the program is interrupted and resumed
\* (but for records of the same millisecond as the last one of a batch).
NothingPassedOver ==
    \A r \in seen : r.time < Position => ran[r] > 0

\* The operation runs on a record once, and once more at most for each interruption.
RepeatsAreInterruptions ==
    \A r \in Records : ran[r] <= 1 + interrupts

\* process_batches ends when no more records come: the cursor gets past all of them.
ReaderEnds == (pc # "off") ~> (pc = "off")
=============================================================================
