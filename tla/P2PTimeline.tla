---------------------------- MODULE P2PTimeline ----------------------------
(***************************************************************************)
(* The timeline of one process (utils/p2pTimeline.h): calls of             *)
(* pipelinedExchange leave events in memory, and the destructor of every   *)
(* CollectiveCommunication writes them to the file of the process.  The    *)
(* file is named after the world rank only, so that the next run of the    *)
(* application finds it; the process may die at any moment.                *)
(***************************************************************************)
EXTENDS Naturals, FiniteSets, SequencesExt

CONSTANTS Services,   \* AIxeleratorService objects a run may create, in any order
          MaxRuns,    \* bound: runs of the application
          MaxCalls    \* bound: pipelined calls of a service

ASSUME TimelineAssumption == MaxRuns \in Nat \ {0} /\ MaxCalls \in Nat

VARIABLES run,       \* the current run
          service,   \* "none", "alive" or "gone"
          step,      \* pipelined_step_ of the communicator of a service
          memory,    \* p2pTimelineEvents()
          writing,   \* what flushP2PTimelineEvents has still to write
          exists,    \* the file exists
          file,      \* its rows
          made,      \* history: all events of the run
          late       \* history: a call took a step that rows of the run in the file had reached

vars == << run, service, step, memory, writing, exists, file, made, late >>

Event(s, n) == [run |-> run, service |-> s, step |-> n]

Steps(rows) == {rows[i].step : i \in DOMAIN rows}

\* The state in which a run of the application finds the process.
FreshProcess ==
    /\ service' = [s \in Services |-> "none"]
    /\ step' = [s \in Services |-> 0]
    /\ memory' = << >> /\ writing' = << >>
    /\ made' = << >> /\ late' = FALSE

Init ==
    /\ run = 1
    /\ service = [s \in Services |-> "none"]
    /\ step = [s \in Services |-> 0]
    /\ memory = << >> /\ writing = << >>
    /\ exists = FALSE /\ file = << >>
    /\ made = << >> /\ late = FALSE

-----------------------------------------------------------------------------
(***************************************************************************)
(* flushP2PTimelineEvents                                                  *)
(***************************************************************************)
\* Mutated form of StaleFile: a run that ends on step 0 is not recognised.
StaleFile_Strict == exists /\ Min(Steps(memory)) < Max(Steps(file) \cup {0})

\* Mutated form of StaleFile: whatever file is found is truncated.
StaleFile_Any == exists

\* Rows are taken for those of an earlier run if the new events do not start
\* behind the last step of the file; the last step of a file without rows is 0.
StaleFile == exists /\ Min(Steps(memory)) <= Max(Steps(file) \cup {0})

\* The events are taken from memory, the file is opened and, if stale, truncated.
Flush ==
    IF memory = << >>
    THEN UNCHANGED << memory, writing, exists, file >>
    ELSE /\ memory' = << >>
         /\ writing' = memory
         /\ exists' = TRUE
         /\ file' = IF StaleFile THEN << >> ELSE file

\* Then its rows are written.
WriteRow ==
    /\ writing # << >>
    /\ file' = Append(file, Head(writing))
    /\ writing' = Tail(writing)
    /\ UNCHANGED << run, service, step, memory, exists, made, late >>

-----------------------------------------------------------------------------
(***************************************************************************)
(* The application: one thread, which does nothing else while it flushes   *)
(***************************************************************************)
Busy == writing # << >>

\* The constructor of a service makes one communicator, destroys it again in
\* initInferenceStrategy and makes another, whose steps start from zero.
Construct(s) ==
    /\ ~Busy
    /\ service[s] = "none"
    /\ service' = [service EXCEPT ![s] = "alive"]
    /\ step' = [step EXCEPT ![s] = 0]
    /\ Flush
    /\ UNCHANGED << run, made, late >>

\* A call of inference() in pipelined mode.
Call(s) ==
    /\ ~Busy
    /\ service[s] = "alive"
    /\ step[s] < MaxCalls
    /\ step' = [step EXCEPT ![s] = @ + 1]
    /\ memory' = Append(memory, Event(s, step[s]))
    /\ made' = Append(made, Event(s, step[s]))
    /\ late' = (late \/ \E i \in DOMAIN file : file[i].run = run /\ file[i].step >= step[s])
    /\ UNCHANGED << run, service, writing, exists, file >>

\* The destructor of the service destroys its communicator.
Destroy(s) ==
    /\ ~Busy
    /\ service[s] = "alive"
    /\ service' = [service EXCEPT ![s] = "gone"]
    /\ Flush
    /\ UNCHANGED << run, step, made, late >>

\* The process ends, in its own time or in the middle of anything, and the
\* application is run again in the same directory.
Rerun ==
    /\ run < MaxRuns
    /\ run' = run + 1
    /\ FreshProcess
    /\ UNCHANGED << exists, file >>

Next ==
    \/ WriteRow
    \/ \E s \in Services : Construct(s) \/ Call(s) \/ Destroy(s)
    \/ Rerun

Spec == Init /\ [][Next]_vars

-----------------------------------------------------------------------------
Events == [run : 1 .. MaxRuns, service : Services, step : 0 .. MaxCalls - 1]

\* Types of the state.
TypeOK ==
    /\ run \in 1 .. MaxRuns
    /\ service \in [Services -> {"none", "alive", "gone"}]
    /\ step \in [Services -> 0 .. MaxCalls]
    /\ memory \in Seq(Events) /\ writing \in Seq(Events)
    /\ file \in Seq(Events) /\ made \in Seq(Events)
    /\ exists \in BOOLEAN /\ late \in BOOLEAN

\* "A re-run of the same scenario would otherwise silently append its rows to the
\* old run's data": a file never holds rows of two runs, however short the old
\* run was, wherever it died and however many services write to the file.
OneRunPerFile == \A i \in DOMAIN file, j \in DOMAIN file : file[i].run = file[j].run

\* When the services of a run are gone, the file ends with the last event of the
\* run and holds the events before it without a gap and in order.  It goes back to
\* the first one unless a call took a step that rows already written had reached:
\* their flush is then taken for that of an earlier run, and the rows are lost.
RunIsWritten ==
    ~Busy /\ made # << >> /\ (\A s \in Services : service[s] # "alive") =>
        /\ \E k \in 1 .. Len(made) : file = SubSeq(made, k, Len(made))
        /\ ~late => file = made
=============================================================================
