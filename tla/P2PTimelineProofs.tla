------------------------- MODULE P2PTimelineProofs -------------------------
(***************************************************************************)
(* Proofs about the timeline of a process, for any number of services,     *)
(* calls and runs.  The test for a stale file compares step numbers only.  *)
(* It is enough because the first events a run writes are all of its       *)
(* events so far, and the first event of a run has step zero, which is     *)
(* behind no step of any file.  What the run writes later is appended to   *)
(* its own rows, or replaces them if it takes up a step they have reached. *)
(***************************************************************************)
EXTENDS P2PTimeline, FiniteNaturals, SequenceTheorems

\* The events in memory and on their way to the file are those of this run.
OwnEvents ==
    /\ \A i \in 1 .. Len(memory) : memory[i].run = run
    /\ \A i \in 1 .. Len(writing) : writing[i].run = run

\* The first event of a run is the first of its service.
FirstIsZero ==
    /\ made = << >> => \A s \in Services : step[s] = 0
    /\ made # << >> => made[1].step = 0

\* A file without rows of this run only is one this run has not written to.
OldRowsFirst ==
    /\ ~exists => file = << >> /\ writing = << >>
    /\ (\E i \in 1 .. Len(file) : file[i].run # run) => memory = made /\ writing = << >>

\* A service is there to write what is in memory.
MemoryIsKept ==
    /\ memory # << >> => \E s \in Services : service[s] = "alive"
    /\ memory # << >> => writing = << >>

\* Once the run has written to the file, all of the file is its own, and the file,
\* what is on its way there and the memory are the events of the run but for lost
\* ones in front.
Written(lost) ==
    /\ file # << >> \/ writing # << >>
    /\ \A i \in 1 .. Len(file) : file[i].run = run
    /\ made = lost \o (file \o (writing \o memory))
    /\ ~late => lost = << >>

EventsAreKept ==
    \/ memory = made /\ writing = << >>
    \/ \E lost \in Seq(Events) : Written(lost)

\* Steps yet to be written lie behind those the run has written.
StepsFollow ==
    ~late => \A i \in 1 .. Len(file), j \in 1 .. Len(memory) :
                 file[i].run = run => file[i].step < memory[j].step

\* The inductive invariant.
IInv ==
    /\ TypeOK /\ OwnEvents /\ FirstIsZero /\ OldRowsFirst
    /\ MemoryIsKept /\ EventsAreKept /\ StepsFollow /\ OneRunPerFile

-----------------------------------------------------------------------------
LEMMA StepsFacts ==
    ASSUME NEW rows \in Seq(Events)
    PROVE  /\ Steps(rows) \in SUBSET Nat /\ IsFiniteSet(Steps(rows))
           /\ \A i \in 1 .. Len(rows) : rows[i].step \in Steps(rows)
<1>1. Len(rows) \in Nat /\ DOMAIN rows = 1 .. Len(rows)
    BY LenProperties
<1>2. ASSUME NEW i \in 1 .. Len(rows) PROVE rows[i].step \in 0 .. MaxCalls - 1
  <2>1. rows[i] \in Events
      BY ElementOfSeq
  <2>2. QED
      BY <2>1 DEF Events
<1>3. Steps(rows) = {rows[i].step : i \in 1 .. Len(rows)}
    BY <1>1 DEF Steps
<1>4. Steps(rows) \subseteq 0 .. MaxCalls - 1
    BY <1>2, <1>3
<1>5. IsFiniteSet(Steps(rows))
  <2>1. 0 \in Int /\ MaxCalls - 1 \in Int
      BY TimelineAssumption
  <2>2. IsFiniteSet(0 .. MaxCalls - 1)
      BY <2>1, FS_Interval
  <2>3. QED
      BY <1>4, <2>2, FS_Subset
<1>6. QED
    BY <1>3, <1>4, <1>5

\* Every file is stale for events that hold a first one.
LEMMA FirstEventIsStale ==
    ASSUME TypeOK, memory # << >>, memory[1].step = 0
    PROVE  StaleFile <=> exists
<1>1. memory \in Seq(Events) /\ file \in Seq(Events)
    BY DEF TypeOK
<1>2. /\ Steps(memory) \in SUBSET Nat /\ 0 \in Steps(memory)
  <2>1. 1 \in 1 .. Len(memory)
      BY <1>1, EmptySeq
  <2>2. QED
      BY <1>1, <2>1, StepsFacts
<1>3. Min(Steps(memory)) = 0
  <2> DEFINE S == Steps(memory)
  <2> HIDE DEF S
  <2>1. S \in SUBSET Nat /\ 0 \in S
      BY <1>2 DEF S
  <2>2. \E x \in S : \A y \in S : x =< y
      BY <2>1
  <2>3. Min(S) \in S /\ \A y \in S : Min(S) =< y
      BY <2>2 DEF Min
  <2>4. Min(S) \in Nat /\ Min(S) =< 0
      BY <2>1, <2>3
  <2>5. Min(S) = 0
      BY <2>4
  <2>6. QED
      BY <2>5 DEF S
<1>4. Max(Steps(file) \cup {0}) \in Nat
  <2> DEFINE S == Steps(file) \cup {0}
  <2>1. Steps(file) \in SUBSET Nat /\ IsFiniteSet(Steps(file))
      BY <1>1, StepsFacts
  <2>2. S \in SUBSET Nat /\ S # {}
      BY <2>1
  <2>3. IsFiniteSet(S)
      BY <2>1, FS_AddElement
  <2> HIDE DEF S
  <2>4. \E x \in S : \A y \in S : y <= x
      BY <2>2, <2>3, GreatestElement
  <2>5. \E x \in S : \A y \in S : x >= y
      BY <2>2, <2>4
  <2>6. Max(S) \in S
      BY <2>5 DEF Max
  <2>7. Max(S) \in Nat
      BY <2>2, <2>6
  <2>8. QED
      BY <2>7 DEF S
<1>5. 0 <= Max(Steps(file) \cup {0})
    BY <1>4
<1>6. QED
    BY <1>3, <1>5 DEF StaleFile

LEMMA IInvInit == Init => IInv
<1> SUFFICES ASSUME Init PROVE IInv
    OBVIOUS
<1>1. << >> \in Seq(Events) /\ Len(<< >>) = 0
    OBVIOUS
<1>2. 1 \in 1 .. MaxRuns /\ 0 \in 0 .. MaxCalls
    BY TimelineAssumption
<1>3. TypeOK
    BY <1>1, <1>2 DEF Init, TypeOK
<1>4. OwnEvents /\ OldRowsFirst /\ OneRunPerFile
    BY <1>1 DEF Init, OwnEvents, OldRowsFirst, OneRunPerFile
<1>5. FirstIsZero /\ MemoryIsKept /\ EventsAreKept /\ StepsFollow
    BY <1>1 DEF Init, FirstIsZero, MemoryIsKept, EventsAreKept, StepsFollow
<1>6. QED
    BY <1>3, <1>4, <1>5 DEF IInv

\* Events that lie behind all rows of a file are appended to it.
LEMMA LaterEventsAreAppended ==
    ASSUME TypeOK, memory # << >>, file # << >>,
           \A i \in 1 .. Len(file), j \in 1 .. Len(memory) : file[i].step < memory[j].step
    PROVE  ~StaleFile
<1> DEFINE S == Steps(memory)
           T == Steps(file) \cup {0}
<1>1. /\ memory \in Seq(Events) /\ file \in Seq(Events)
      /\ 1 \in 1 .. Len(memory) /\ 1 \in 1 .. Len(file)
      /\ DOMAIN memory = 1 .. Len(memory) /\ DOMAIN file = 1 .. Len(file)
    BY EmptySeq, LenProperties DEF TypeOK
<1>2. S \in SUBSET Nat /\ S # {} /\ T \in SUBSET Nat /\ T # {} /\ IsFiniteSet(T)
  <2>1. Steps(memory) \in SUBSET Nat /\ Steps(file) \in SUBSET Nat /\ IsFiniteSet(Steps(file))
      BY <1>1, StepsFacts
  <2>2. memory[1].step \in Steps(memory)
      BY <1>1, StepsFacts
  <2>3. QED
      BY <2>1, <2>2, FS_AddElement
<1>3. \A x \in T, y \in S : x < y
  <2>1. S = {memory[j].step : j \in 1 .. Len(memory)} /\ T = {file[i].step : i \in 1 .. Len(file)} \cup {0}
      BY <1>1 DEF Steps
  <2>2. \A j \in 1 .. Len(memory) : memory[j].step \in Nat /\ file[1].step \in Nat
      BY <1>1, StepsFacts
  <2>3. \A j \in 1 .. Len(memory) : 0 < memory[j].step
      BY <1>1, <2>2
  <2>4. QED
      BY <2>1, <2>3
<1> HIDE DEF S, T
<1>4. Min(S) \in S
  <2>1. \E x \in S : \A y \in S : x =< y
      BY <1>2, LeastElement
  <2>2. QED
      BY <2>1 DEF Min
<1>5. Max(T) \in T
  <2>1. \E x \in T : \A y \in T : y <= x
      BY <1>2, GreatestElement
  <2>2. \E x \in T : \A y \in T : x >= y
      BY <1>2, <2>1
  <2>3. QED
      BY <2>2 DEF Max
<1>6. ~(Min(S) <= Max(T))
  <2> DEFINE x == Max(T)
             y == Min(S)
  <2>1. x \in Nat /\ y \in Nat /\ x < y
      BY <1>2, <1>3, <1>4, <1>5
  <2> HIDE DEF x, y
  <2>2. ~(y <= x)
      BY <2>1
  <2>3. QED
      BY <2>2 DEF x, y
<1>7. QED
    BY <1>6 DEF StaleFile, S, T

\* The rows f are of this run, and with them and the memory only lost is missing.
LeftBy(f, lost) ==
    /\ \A i \in 1 .. Len(f) : f[i].run = run
    /\ made = lost \o (f \o memory)
    /\ ~late => lost = << >>

\* What is left after all of a flush's events are on their way to the file.
LEMMA FlushKeepsEvents ==
    ASSUME IInv, memory # << >>, writing = << >>,
           NEW f \in Seq(Events), f = IF StaleFile THEN << >> ELSE file
    PROVE  \E lost \in Seq(Events) : LeftBy(f, lost)
<1>1. /\ TypeOK /\ FirstIsZero /\ OldRowsFirst /\ EventsAreKept /\ StepsFollow
      /\ memory \in Seq(Events) /\ file \in Seq(Events) /\ made \in Seq(Events)
    BY DEF IInv, TypeOK
<1>2. /\ << >> \in Seq(Events) /\ Len(<< >>) = 0
      /\ << >> \o memory = memory
    BY <1>1, ConcatEmptySeq
<1>3. CASE memory = made
  <2>1. StaleFile <=> exists
      BY <1>1, <1>3, FirstEventIsStale DEF FirstIsZero
  <2>2. f = << >>
      BY <1>1, <2>1 DEF OldRowsFirst
  <2>3. made = << >> \o (f \o memory)
      BY <1>2, <1>3, <2>2
  <2>4. \A i \in 1 .. Len(f) : f[i].run = run
      BY <1>2, <2>2
  <2>5. LeftBy(f, << >>)
      BY <2>3, <2>4 DEF LeftBy
  <2>6. QED
      BY <1>2, <2>5
<1>4. CASE memory # made
  <2>1. PICK lost \in Seq(Events) : Written(lost)
      BY <1>1, <1>4 DEF EventsAreKept
  <2>2. /\ file # << >> /\ \A i \in 1 .. Len(file) : file[i].run = run
        /\ made = lost \o (file \o memory)
        /\ ~late => lost = << >>
      BY <1>1, <1>2, <2>1 DEF Written
  <2>3. CASE StaleFile
    <3>1. late
      <4>1. ASSUME ~late PROVE FALSE
        <5>1. \A i \in 1 .. Len(file), j \in 1 .. Len(memory) : file[i].step < memory[j].step
            BY <1>1, <2>2, <4>1 DEF StepsFollow
        <5>2. QED
            BY <1>1, <2>2, <2>3, <5>1, LaterEventsAreAppended
      <4>2. QED
          BY <4>1
    <3>2. f = << >>
        BY <2>3
    <3>3. made = (lost \o file) \o (f \o memory)
      <4>1. f \o memory = memory
          BY <1>2, <3>2
      <4>2. (lost \o file) \o memory = lost \o (file \o memory)
          BY <1>1, ConcatAssociative
      <4>3. QED
          BY <2>2, <4>1, <4>2
    <3>4. lost \o file \in Seq(Events)
        BY <1>1, ConcatProperties
    <3>5. \A i \in 1 .. Len(f) : f[i].run = run
        BY <1>2, <3>2
    <3>6. LeftBy(f, lost \o file)
        BY <3>1, <3>3, <3>5 DEF LeftBy
    <3>7. QED
        BY <3>4, <3>6
  <2>4. CASE ~StaleFile
    <3>1. f = file
        BY <2>4
    <3>2. LeftBy(file, lost)
        BY <2>2 DEF LeftBy
    <3>3. QED
        BY <3>1, <3>2
  <2>5. QED
      BY <2>3, <2>4
<1>5. QED
    BY <1>3, <1>4

\* Writing out events leaves the file with rows of this run only, and with all
\* of its events if no call repeated a step.
LEMMA FlushFacts ==
    ASSUME IInv, ~Busy, Flush, run' = run, made' = made, late' = late
    PROVE  /\ memory' = << >> /\ memory' \in Seq(Events) /\ writing' \in Seq(Events)
           /\ file' \in Seq(Events) /\ exists' \in BOOLEAN
           /\ OwnEvents' /\ OldRowsFirst' /\ OneRunPerFile' /\ MemoryIsKept'
           /\ EventsAreKept' /\ StepsFollow'
<1>1. /\ TypeOK /\ OwnEvents /\ OldRowsFirst /\ OneRunPerFile /\ MemoryIsKept /\ FirstIsZero
      /\ EventsAreKept /\ StepsFollow
      /\ writing = << >>
    BY DEF IInv, Busy
<1>2. << >> \in Seq(Events) /\ Len(<< >>) = 0
    OBVIOUS
<1>3. CASE memory = << >>
  <2>1. memory' = << >> /\ writing' = << >> /\ exists' = exists /\ file' = file
      BY <1>1, <1>3 DEF Flush
  <2>2. OneRunPerFile'
      BY <1>1, <2>1 DEF OneRunPerFile
  <2>3. OwnEvents' /\ OldRowsFirst' /\ MemoryIsKept' /\ StepsFollow'
      BY <1>1, <1>2, <1>3, <2>1 DEF OwnEvents, OldRowsFirst, MemoryIsKept, StepsFollow
  <2>4. EventsAreKept'
      BY <1>1, <1>3, <2>1 DEF EventsAreKept, Written
  <2>5. QED
      BY <1>1, <1>2, <2>1, <2>2, <2>3, <2>4 DEF TypeOK
<1>4. CASE memory # << >>
  <2>1. /\ memory' = << >> /\ writing' = memory /\ exists' = TRUE
        /\ file' = IF StaleFile THEN << >> ELSE file
      BY <1>4 DEF Flush
  <2>2. file' \in Seq(Events) /\ memory \in Seq(Events)
      BY <1>1, <1>2, <2>1 DEF TypeOK
  <2>3. PICK lost \in Seq(Events) :
            /\ \A i \in 1 .. Len(file') : file'[i].run = run
            /\ made = lost \o (file' \o memory)
            /\ ~late => lost = << >>
      BY <1>1, <1>4, <2>1, <2>2, FlushKeepsEvents DEF LeftBy
  <2>4. EventsAreKept'
    <3>1. memory \o << >> = memory
        BY <2>2, ConcatEmptySeq
    <3>2. QED
        BY <1>4, <2>1, <2>3, <3>1 DEF EventsAreKept, Written
  <2>5. OwnEvents' /\ MemoryIsKept' /\ StepsFollow'
      BY <1>1, <1>2, <2>1 DEF OwnEvents, MemoryIsKept, StepsFollow
  <2>6. OldRowsFirst'
      BY <2>1, <2>3 DEF OldRowsFirst
  <2>7. OneRunPerFile'
    <3>1. DOMAIN file' = 1 .. Len(file')
        BY <2>2, LenProperties
    <3>2. QED
        BY <2>3, <3>1 DEF OneRunPerFile
  <2>8. QED
      BY <1>2, <2>1, <2>2, <2>4, <2>5, <2>6, <2>7
<1>5. QED
    BY <1>3, <1>4

LEMMA ConstructInv == ASSUME IInv, NEW s \in Services, Construct(s) PROVE IInv'
<1>1. /\ TypeOK /\ FirstIsZero /\ ~Busy /\ Flush
      /\ run' = run /\ made' = made /\ late' = late
      /\ service' = [service EXCEPT ![s] = "alive"] /\ step' = [step EXCEPT ![s] = 0]
    BY DEF IInv, Construct
<1>2. 0 \in 0 .. MaxCalls
    BY TimelineAssumption
<1>3. /\ memory' = << >> /\ memory' \in Seq(Events) /\ writing' \in Seq(Events)
      /\ file' \in Seq(Events) /\ exists' \in BOOLEAN
      /\ OwnEvents' /\ OldRowsFirst' /\ OneRunPerFile' /\ MemoryIsKept'
      /\ EventsAreKept' /\ StepsFollow'
    BY <1>1, FlushFacts
<1>4. TypeOK'
    BY <1>1, <1>2, <1>3 DEF TypeOK
<1>5. FirstIsZero'
    BY <1>1 DEF FirstIsZero, TypeOK
<1>6. QED
    BY <1>3, <1>4, <1>5 DEF IInv

LEMMA DestroyInv == ASSUME IInv, NEW s \in Services, Destroy(s) PROVE IInv'
<1>1. /\ TypeOK /\ FirstIsZero /\ ~Busy /\ Flush
      /\ run' = run /\ made' = made /\ late' = late
      /\ service' = [service EXCEPT ![s] = "gone"] /\ step' = step
    BY DEF IInv, Destroy
<1>2. /\ memory' = << >> /\ memory' \in Seq(Events) /\ writing' \in Seq(Events)
      /\ file' \in Seq(Events) /\ exists' \in BOOLEAN
      /\ OwnEvents' /\ OldRowsFirst' /\ OneRunPerFile' /\ MemoryIsKept'
      /\ EventsAreKept' /\ StepsFollow'
    BY <1>1, FlushFacts
<1>3. TypeOK' /\ FirstIsZero'
    BY <1>1, <1>2 DEF TypeOK, FirstIsZero
<1>4. QED
    BY <1>2, <1>3 DEF IInv

LEMMA CallInv == ASSUME IInv, NEW s \in Services, Call(s) PROVE IInv'
<1> DEFINE e == Event(s, step[s])
<1>1. /\ TypeOK /\ OwnEvents /\ FirstIsZero /\ OldRowsFirst /\ MemoryIsKept /\ OneRunPerFile
      /\ EventsAreKept /\ StepsFollow
      /\ writing = << >> /\ service[s] = "alive" /\ step[s] < MaxCalls
      /\ step' = [step EXCEPT ![s] = step[s] + 1]
      /\ memory' = Append(memory, e) /\ made' = Append(made, e)
      /\ late' = (late \/ \E i \in DOMAIN file : file[i].run = run /\ file[i].step >= step[s])
      /\ run' = run /\ service' = service /\ writing' = writing
      /\ exists' = exists /\ file' = file
    BY DEF IInv, Call, Busy
<1>2. e \in Events /\ e.run = run /\ e.step = step[s] /\ step[s] + 1 \in 0 .. MaxCalls
  <2>1. run \in 1 .. MaxRuns /\ step[s] \in 0 .. MaxCalls
      BY <1>1 DEF TypeOK
  <2>2. step[s] \in 0 .. MaxCalls - 1 /\ step[s] + 1 \in 0 .. MaxCalls
      BY <1>1, <2>1, TimelineAssumption
  <2>3. QED
      BY <2>1, <2>2 DEF Event, Events
<1> HIDE DEF e
<1>3. /\ memory \in Seq(Events) /\ made \in Seq(Events)
      /\ memory' \in Seq(Events) /\ made' \in Seq(Events)
  <2>1. memory \in Seq(Events) /\ made \in Seq(Events)
      BY <1>1 DEF TypeOK
  <2>2. QED
      BY <1>1, <1>2, <2>1
<1>4. /\ Len(memory') = Len(memory) + 1 /\ Len(memory) \in Nat /\ memory' # << >>
      /\ \A i \in 1 .. Len(memory) + 1 : memory'[i] = IF i <= Len(memory) THEN memory[i] ELSE e
  <2>1. memory' = Append(memory, e) /\ memory \in Seq(Events) /\ e \in Events
      BY <1>1, <1>2, <1>3
  <2>2. QED
      BY <2>1, AppendProperties
<1>5. /\ Len(made) \in Nat /\ made' # << >>
      /\ made'[1] = IF made = << >> THEN e ELSE made[1]
    BY <1>1, <1>2, <1>3, AppendProperties, EmptySeq
<1>6. TypeOK'
  <2>1. step' \in [Services -> 0 .. MaxCalls] /\ late' \in BOOLEAN
      BY <1>1, <1>2 DEF TypeOK
  <2>2. QED
      BY <1>1, <1>3, <2>1 DEF TypeOK
<1>7. OwnEvents'
    BY <1>1, <1>2, <1>4 DEF OwnEvents
<1>8. FirstIsZero'
    BY <1>1, <1>2, <1>5 DEF FirstIsZero
<1>9. OldRowsFirst' /\ OneRunPerFile'
    BY <1>1 DEF OldRowsFirst, OneRunPerFile
<1>10. MemoryIsKept'
    BY <1>1 DEF MemoryIsKept
<1>11. EventsAreKept'
  <2>1. CASE memory = made
      BY <1>1, <2>1 DEF EventsAreKept
  <2>2. CASE memory # made
    <3>1. PICK lost \in Seq(Events) : Written(lost)
        BY <1>1, <2>2 DEF EventsAreKept
    <3>2. /\ << >> \in Seq(Events) /\ << e >> \in Seq(Events)
          /\ file \in Seq(Events) /\ file \o memory \in Seq(Events)
        BY <1>1, <1>2, <1>3, ConcatProperties DEF TypeOK
    <3>3. /\ made = lost \o (file \o memory)
          /\ << >> \o memory = memory /\ << >> \o memory' = memory'
        BY <1>1, <1>3, <3>1, ConcatEmptySeq DEF Written
    <3>4. made' = (lost \o (file \o memory)) \o << e >> /\ memory' = memory \o << e >>
        BY <1>1, <1>2, <1>3, <3>3, AppendIsConcat
    <3>5. (lost \o (file \o memory)) \o << e >> = lost \o ((file \o memory) \o << e >>)
        BY <3>2, ConcatAssociative
    <3>6. (file \o memory) \o << e >> = file \o (memory \o << e >>)
        BY <1>3, <3>2, ConcatAssociative
    <3>7. made' = lost \o (file' \o (writing' \o memory'))
        BY <1>1, <3>3, <3>4, <3>5, <3>6
    <3>8. QED
        BY <1>1, <3>1, <3>7 DEF EventsAreKept, Written
  <2>3. QED
      BY <2>1, <2>2
<1>12. StepsFollow'
  <2> SUFFICES ASSUME ~late', NEW i \in 1 .. Len(file), NEW j \in 1 .. Len(memory) + 1,
                      file[i].run = run
               PROVE  file[i].step < memory'[j].step
      BY <1>1, <1>4 DEF StepsFollow
  <2>1. file \in Seq(Events) /\ DOMAIN file = 1 .. Len(file)
      BY <1>1, LenProperties DEF TypeOK
  <2>2. file[i].step \in Nat /\ step[s] \in Nat
      BY <1>1, <2>1, StepsFacts DEF TypeOK
  <2>3. ~late /\ ~(file[i].step >= step[s])
      BY <1>1, <2>1
  <2>4. CASE j <= Len(memory)
    <3>1. memory'[j] = memory[j] /\ j \in 1 .. Len(memory)
        BY <1>4, <2>4
    <3>2. QED
        BY <1>1, <2>3, <3>1 DEF StepsFollow
  <2>5. CASE ~(j <= Len(memory))
    <3>1. memory'[j].step = step[s]
        BY <1>2, <1>4, <2>5
    <3>2. QED
        BY <2>2, <2>3, <3>1
  <2>6. QED
      BY <2>4, <2>5
<1>13. QED
    BY <1>6, <1>7, <1>8, <1>9, <1>10, <1>11, <1>12 DEF IInv

LEMMA WriteRowInv == ASSUME IInv, WriteRow PROVE IInv'
<1> DEFINE e == Head(writing)
<1>1. /\ TypeOK /\ OwnEvents /\ FirstIsZero /\ OldRowsFirst /\ MemoryIsKept /\ OneRunPerFile
      /\ EventsAreKept
      /\ writing # << >> /\ file' = Append(file, e) /\ writing' = Tail(writing)
      /\ run' = run /\ service' = service /\ step' = step /\ memory' = memory
      /\ exists' = exists /\ made' = made /\ late' = late
    BY DEF IInv, WriteRow
<1>2. /\ writing \in Seq(Events) /\ file \in Seq(Events) /\ made \in Seq(Events)
      /\ e \in Events /\ Tail(writing) \in Seq(Events)
      /\ Len(Tail(writing)) = Len(writing) - 1 /\ Len(writing) \in Nat \ {0}
      /\ \A i \in 1 .. Len(Tail(writing)) : Tail(writing)[i] = writing[i + 1]
    BY <1>1, HeadTailProperties, EmptySeq DEF TypeOK
<1>3. e.run = run
  <2>1. e = writing[1] /\ 1 \in 1 .. Len(writing)
      BY <1>2
  <2>2. QED
      BY <1>1, <2>1 DEF OwnEvents
<1>4. << e >> \in Seq(Events) /\ << e >> \o Tail(writing) = writing
    BY <1>1, <1>2
<1> HIDE DEF e
<1>5. /\ file' \in Seq(Events) /\ Len(file') = Len(file) + 1 /\ Len(file) \in Nat
      /\ \A i \in 1 .. Len(file) + 1 : file'[i] = IF i <= Len(file) THEN file[i] ELSE e
    BY <1>1, <1>2, AppendProperties
<1>6. \A i \in 1 .. Len(file) : file[i].run = run
    BY <1>1 DEF OldRowsFirst
<1>7. \A i \in 1 .. Len(file') : file'[i].run = run
    BY <1>3, <1>5, <1>6
<1>8. TypeOK' /\ FirstIsZero'
    BY <1>1, <1>2, <1>5 DEF TypeOK, FirstIsZero
<1>9. OwnEvents'
    BY <1>1, <1>2 DEF OwnEvents
<1>10. OldRowsFirst'
    BY <1>1, <1>7 DEF OldRowsFirst
<1>11. OneRunPerFile'
  <2>1. DOMAIN file' = 1 .. Len(file')
      BY <1>5, LenProperties
  <2>2. QED
      BY <1>7, <2>1 DEF OneRunPerFile
<1>12. memory = << >> /\ memory' = << >> /\ Len(<< >>) = 0
    BY <1>1 DEF MemoryIsKept
<1>13. MemoryIsKept' /\ StepsFollow'
    BY <1>12 DEF MemoryIsKept, StepsFollow
<1>14. EventsAreKept'
  <2>1. PICK lost \in Seq(Events) : Written(lost)
      BY <1>1 DEF EventsAreKept
  <2>2. writing \o memory = writing /\ Tail(writing) \o memory = Tail(writing)
      BY <1>2, <1>12, ConcatEmptySeq
  <2>3. file' = file \o << e >>
      BY <1>1, <1>2, AppendIsConcat DEF e
  <2>4. (file \o << e >>) \o Tail(writing) = file \o (<< e >> \o Tail(writing))
      BY <1>2, <1>4, ConcatAssociative
  <2>5. file' \o (writing' \o memory') = file \o (writing \o memory)
      BY <1>1, <1>4, <2>2, <2>3, <2>4
  <2>6. file' # << >>
      BY <1>5, EmptySeq
  <2>7. made' = lost \o (file' \o (writing' \o memory'))
      BY <1>1, <2>1, <2>5 DEF Written
  <2>8. late' = late /\ run' = run /\ \A i \in 1 .. Len(file') : file'[i].run = run
      BY <1>1, <1>7
  <2>9. Written(lost)'
      BY <2>1, <2>6, <2>7, <2>8 DEF Written
  <2>10. QED
      BY <2>9 DEF EventsAreKept
<1>15. QED
    BY <1>8, <1>9, <1>10, <1>11, <1>13, <1>14 DEF IInv

\* The next run finds a file of one run and has no events yet.
LEMMA RerunInv == ASSUME IInv, Rerun PROVE IInv'
<1>1. /\ TypeOK /\ OldRowsFirst /\ OneRunPerFile
      /\ run < MaxRuns /\ run' = run + 1 /\ exists' = exists /\ file' = file
      /\ service' = [s \in Services |-> "none"] /\ step' = [s \in Services |-> 0]
      /\ memory' = << >> /\ writing' = << >> /\ made' = << >> /\ late' = FALSE
    BY DEF IInv, Rerun, FreshProcess
<1>2. << >> \in Seq(Events) /\ Len(<< >>) = 0
    OBVIOUS
<1>3. run + 1 \in 1 .. MaxRuns /\ 0 \in 0 .. MaxCalls
    BY <1>1, TimelineAssumption DEF TypeOK
<1>4. TypeOK'
    BY <1>1, <1>2, <1>3 DEF TypeOK
<1>5. OneRunPerFile'
    BY <1>1 DEF OneRunPerFile
<1>6. OwnEvents' /\ FirstIsZero' /\ OldRowsFirst' /\ MemoryIsKept' /\ EventsAreKept' /\ StepsFollow'
    BY <1>1, <1>2 DEF OwnEvents, FirstIsZero, OldRowsFirst, MemoryIsKept, EventsAreKept, StepsFollow
<1>7. QED
    BY <1>4, <1>5, <1>6 DEF IInv

LEMMA IInvStep == IInv /\ [Next]_vars => IInv'
<1> SUFFICES ASSUME IInv, [Next]_vars PROVE IInv'
    OBVIOUS
<1>1. CASE UNCHANGED vars
    BY <1>1 DEF IInv, vars, TypeOK, OwnEvents, FirstIsZero, OldRowsFirst, MemoryIsKept,
                EventsAreKept, Written, StepsFollow, OneRunPerFile
<1>2. CASE Next
    BY <1>2, WriteRowInv, ConstructInv, CallInv, DestroyInv, RerunInv DEF Next
<1>3. QED
    BY <1>1, <1>2

\* Every behaviour keeps the invariant.
THEOREM Invariance == Spec => []IInv
BY IInvInit, IInvStep, PTL DEF Spec

-----------------------------------------------------------------------------
\* The types of the state, for any number of services, calls and runs.
THEOREM TypeCorrect == Spec => []TypeOK
BY Invariance, PTL DEF IInv

\* No file ever mixes the rows of two runs, wherever the processes died.
THEOREM RunsStayApart == Spec => []OneRunPerFile
BY Invariance, PTL DEF IInv

\* A run whose services are gone has left the last of its events in the file, each
\* once, in order and without a gap, and all of them unless a call took a step that
\* rows written before had reached.
THEOREM RunsAreWritten == Spec => []RunIsWritten
<1>1. ASSUME IInv, ~Busy, made # << >>, \A s \in Services : service[s] # "alive"
      PROVE  /\ \E k \in 1 .. Len(made) : file = SubSeq(made, k, Len(made))
             /\ ~late => file = made
  <2>1. /\ writing = << >> /\ memory = << >> /\ file \in Seq(Events)
        /\ << >> \o << >> = << >> /\ file \o << >> = file /\ << >> \o file = file
      BY <1>1, ConcatEmptySeq DEF IInv, TypeOK, MemoryIsKept, Busy
  <2>2. PICK lost \in Seq(Events) : Written(lost)
      BY <1>1, <2>1 DEF IInv, EventsAreKept
  <2>3. file # << >> /\ made = lost \o file
      BY <2>1, <2>2 DEF Written
  <2>4. ~late => file = made
      BY <2>1, <2>2, <2>3 DEF Written
  <2>5. \E k \in 1 .. Len(made) : file = SubSeq(made, k, Len(made))
    <3> DEFINE k == Len(lost) + 1
               tail == SubSeq(made, k, Len(made))
    <3>1. /\ Len(lost) \in Nat /\ Len(file) \in Nat \ {0} /\ Len(made) = Len(lost) + Len(file)
          /\ \A i \in 1 .. Len(file) : made[Len(lost) + i] = file[i]
          /\ made \in Seq(Events)
        BY <2>1, <2>3, LenProperties, EmptySeq, ConcatProperties
    <3>2. k \in 1 .. Len(made) /\ Len(made) - k + 1 = Len(file)
        BY <3>1
    <3>3. /\ tail \in Seq(Events) /\ Len(tail) = Len(file)
          /\ \A i \in 1 .. Len(file) : tail[i] = file[i]
        BY <3>1, <3>2
    <3> HIDE DEF tail, k
    <3>4. tail = file
        BY <2>1, <3>3, SeqEqual
    <3>5. QED
        BY <3>2, <3>4 DEF tail
  <2>6. QED
      BY <2>4, <2>5
<1>2. IInv => RunIsWritten
    BY <1>1 DEF RunIsWritten
<1>3. QED
    BY <1>2, Invariance, PTL
=============================================================================
