------------------------------ MODULE Exchange ------------------------------
(***************************************************************************)
(* What AIxeleratorService<T>::inference() promises the ranks of one       *)
(* workgroup, whichever communication strategy carries the data: a         *)
(* collective operation that gives every rank the output of its own input. *)
(* The members, which exchange data with one another, return from a call   *)
(* once all of them have made it; any other rank need not wait.            *)
(***************************************************************************)
EXTENDS Naturals

CONSTANTS Ranks,     \* the workgroup
          MaxCalls   \* bound: calls per rank

VARIABLES called,    \* calls each rank has entered
          returned,  \* calls each rank has returned from
          out,       \* the call whose output a rank's output_data holds; 0
                     \* while the buffer belongs to a call
          members    \* the ranks that wait for one another, all or a part

vars == << called, returned, out, members >>

Init ==
    /\ called = [r \in Ranks |-> 0]
    /\ returned = [r \in Ranks |-> 0]
    /\ out = [r \in Ranks |-> 0]
    /\ members \in SUBSET Ranks

\* Rank r calls inference() with new input.
Call(r) ==
    /\ returned[r] = called[r]
    /\ called[r] < MaxCalls
    /\ called' = [called EXCEPT ![r] = @ + 1]
    /\ out' = [out EXCEPT ![r] = 0]
    /\ UNCHANGED << returned, members >>

\* The call returns with the output of the input it was given.
Return(r) ==
    /\ returned[r] < called[r]
    /\ r \in members => \A q \in members : called[r] <= called[q]
    /\ returned' = [returned EXCEPT ![r] = called[r]]
    /\ out' = [out EXCEPT ![r] = called[r]]
    /\ UNCHANGED << called, members >>

Next == \E r \in Ranks : Call(r) \/ Return(r)

Spec == Init /\ [][Next]_vars

\* Types of the state.
TypeOK ==
    /\ called \in [Ranks -> Nat]
    /\ returned \in [Ranks -> Nat]
    /\ out \in [Ranks -> Nat]
    /\ members \in SUBSET Ranks

\* The members stay in step: none is ever two calls ahead of another.
InStep == \A r \in members, q \in members : called[r] <= called[q] + 1

\* Outside a call every rank holds the output of its last input.
OutputIsOwn == \A r \in Ranks : returned[r] = called[r] => out[r] = called[r]
=============================================================================
