---------------------------- MODULE HybridSplit ----------------------------
(***************************************************************************)
(* The split of the work between hosts and device that the constructor of  *)
(* AIxeleratorService<T> makes when hybrid inference is enabled: the       *)
(* controller gathers the batch sizes, computes a share for every worker   *)
(* and sends it to them.                                                   *)
(***************************************************************************)
EXTENDS WorkSplit, Integers

CONSTANTS N,         \* size of the workgroup
          MaxBatch,  \* bound: samples per rank
          IntBound   \* an int is a number in -IntBound .. IntBound - 1

Ranks   == 0 .. N - 1
Workers == 1 .. N - 1

VARIABLES batch,      \* input_shape[0] of each rank
          rounded,    \* round(host_fraction * total_input_samples)
          pc,         \* where each rank is in the constructor
          hostWork,   \* batch_host, clamped: best_batchsizes.first
          cpuwork,    \* cpuwork_per_rank
          remaining, i, anyGiven,
          share,      \* best_batchsizes of each rank, <<host, device>>
          sent        \* shares under way to the workers

vars == << batch, rounded, pc, hostWork, cpuwork, remaining, i, anyGiven, share, sent >>

None == << -1, -1 >>

\* What is left of x in an int.
Int32(x) == ((x + IntBound) % (2 * IntBound)) - IntBound

\* total_input_samples, which the communicator has added up in ints.
Total == Int32(SumOver(batch, Ranks))

\* Bound: the group has no more samples than an int can count.  Beyond that Total
\* may be negative, and std::clamp has no meaning for an empty range.
Countable == SumOver(batch, Ranks) < IntBound

\* host_fraction is any float the application passes; what it rounds to may lie
\* outside of 0 .. Total.
Init ==
    /\ batch \in [Ranks -> 0 .. MaxBatch]
    /\ Countable
    /\ rounded \in -1 .. Total + 1
    /\ pc = [r \in Ranks |-> "gather"]
    /\ hostWork = 0
    /\ cpuwork = [r \in Workers |-> 0]
    /\ remaining = 0 /\ i = 1 /\ anyGiven = FALSE
    /\ share = [r \in Ranks |-> None]
    /\ sent = [r \in Ranks |-> None]

Goto(r, label) == pc' = [pc EXCEPT ![r] = label]

-----------------------------------------------------------------------------
\* MPI_Gather of local_batchdim: a worker hands over its number and waits for
\* its share.
ContributeBatch(r) ==
    /\ pc[r] = "gather"
    /\ Goto(r, "recv")
    /\ UNCHANGED << batch, rounded, hostWork, cpuwork, remaining, i, anyGiven, share, sent >>

Clamp(x) == IF x < 0 THEN 0 ELSE IF x > Total THEN Total ELSE x

\* The controller has every batch size and clamps what the fraction rounds to.
GatherBatches ==
    /\ pc[0] = "gather"
    /\ \A r \in Workers : pc[r] # "gather"
    /\ hostWork' = Clamp(rounded)
    /\ Goto(0, "base")
    /\ UNCHANGED << batch, rounded, cpuwork, remaining, i, anyGiven, share, sent >>

\* min(all_batchdims[r], base_cpuwork)
BaseWork(r) ==
    LET base == hostWork \div (N - 1)
    IN  IF batch[r] < base THEN batch[r] ELSE base

\* Every worker gets the same number of samples, at most what it has.  In a
\* group of one the division by nranks = 0 is a fault.
AssignBase ==
    /\ pc[0] = "base"
    /\ IF N = 1
       THEN Goto(0, "fault") /\ UNCHANGED << cpuwork, remaining >>
       ELSE /\ cpuwork' = [r \in Workers |-> BaseWork(r)]
            /\ remaining' = hostWork - SumOver([r \in Workers |-> BaseWork(r)], Workers)
            /\ Goto(0, "give")
    /\ i' = 1 /\ anyGiven' = FALSE
    /\ UNCHANGED << batch, rounded, hostWork, share, sent >>

\* Mutated form of GiveOne: the first worker gets as much as it can take.
GiveOne_Greedy ==
    /\ pc[0] = "give"
    /\ remaining > 0 /\ i <= N - 1
    /\ IF cpuwork[i] < batch[i]
       THEN /\ cpuwork' = [cpuwork EXCEPT ![i] = @ + 1]
            /\ remaining' = remaining - 1
            /\ anyGiven' = TRUE
            /\ UNCHANGED i
       ELSE i' = i + 1 /\ UNCHANGED << cpuwork, remaining, anyGiven >>
    /\ UNCHANGED << batch, rounded, pc, hostWork, share, sent >>

\* One worker after the other gets one more of the remaining samples.
GiveOne ==
    /\ pc[0] = "give"
    /\ remaining > 0 /\ i <= N - 1
    /\ IF cpuwork[i] < batch[i]
       THEN /\ cpuwork' = [cpuwork EXCEPT ![i] = @ + 1]
            /\ remaining' = remaining - 1
            /\ anyGiven' = TRUE
       ELSE UNCHANGED << cpuwork, remaining, anyGiven >>
    /\ i' = i + 1
    /\ UNCHANGED << batch, rounded, pc, hostWork, share, sent >>

\* Mutated form of NextRound: the loop goes on although all workers are full.
NextRound_Forever ==
    /\ pc[0] = "give"
    /\ remaining > 0 /\ i = N
    /\ i' = 1
    /\ anyGiven' = FALSE
    /\ UNCHANGED << batch, rounded, pc, hostWork, cpuwork, remaining, share, sent >>

\* Another round, unless the last one gave nothing away.
NextRound ==
    /\ pc[0] = "give"
    /\ remaining > 0 /\ i = N
    /\ anyGiven
    /\ i' = 1
    /\ anyGiven' = FALSE
    /\ UNCHANGED << batch, rounded, pc, hostWork, cpuwork, remaining, share, sent >>

\* The samples are assigned, or every worker is full: the controller sends the
\* shares; its own samples stay on the device.
SendShares ==
    /\ pc[0] = "give"
    /\ remaining = 0 \/ (i = N /\ ~anyGiven)
    /\ sent' = [r \in Ranks |->
                  IF r = 0 THEN None ELSE << cpuwork[r], batch[r] - cpuwork[r] >>]
    /\ share' = [share EXCEPT ![0] = << 0, batch[0] >>]
    /\ Goto(0, "done")
    /\ UNCHANGED << batch, rounded, hostWork, cpuwork, remaining, i, anyGiven >>

\* A worker receives its share.
ReceiveShare(r) ==
    /\ pc[r] = "recv"
    /\ sent[r] # None
    /\ share' = [share EXCEPT ![r] = sent[r]]
    /\ sent' = [sent EXCEPT ![r] = None]
    /\ Goto(r, "done")
    /\ UNCHANGED << batch, rounded, hostWork, cpuwork, remaining, i, anyGiven >>

Finished ==
    /\ \A r \in Ranks : pc[r] = "done"
    /\ UNCHANGED vars

Controller == GatherBatches \/ AssignBase \/ GiveOne \/ NextRound \/ SendShares

Worker(r) == ContributeBatch(r) \/ ReceiveShare(r)

Next == Controller \/ (\E r \in Workers : Worker(r)) \/ Finished

\* Every process runs until it is done.
Spec == Init /\ [][Next]_vars /\ WF_vars(Controller) /\ \A r \in Workers : WF_vars(Worker(r))

-----------------------------------------------------------------------------
\* Types of the state.
TypeOK ==
    /\ batch \in [Ranks -> 0 .. MaxBatch]
    /\ pc \in [Ranks -> {"gather", "base", "give", "recv", "done", "fault"}]
    /\ hostWork \in 0 .. Total
    /\ cpuwork \in [Workers -> 0 .. MaxBatch]
    /\ remaining \in 0 .. Total
    /\ i \in 1 .. N
    /\ anyGiven \in BOOLEAN
    /\ share \in [Ranks -> {None} \cup ((0 .. MaxBatch) \X (0 .. MaxBatch))]
    /\ sent \in [Ranks -> {None} \cup ((0 .. MaxBatch) \X (0 .. MaxBatch))]

\* The shares the controller sends are the even split of the clamped host work;
\* what the workers cannot take moves to the device.
SplitIsEven ==
    pc[0] = "done" => IsSplit(cpuwork, batch, Workers, hostWork)

\* While the controller distributes, no sample is lost or assigned twice.
NothingLost ==
    pc[0] \in {"give", "done"} => SumOver(cpuwork, Workers) + remaining = hostWork

\* "all controller work is done on gpu, full controller local pair set at
\* bottom": the controller gets its share, whatever the size of its group.
ControllerGetsPair == pc[0] # "fault"
=============================================================================
