------------------------- MODULE PtoPExchangeProofs -------------------------
(***************************************************************************)
(* Proofs about the nonblocking point-to-point exchange, for every number  *)
(* of ranks and calls.  No send is ever waited for, so nothing in the code *)
(* says when a buffer may be written again.  The argument counts: what was *)
(* posted on one side has been received on the other, or is a send that    *)
(* MPI has not begun, or is under way.  A rank leaves a call only with an  *)
(* output, the controller has an output only with all inputs, and that     *)
(* closes the circle: nothing of the last call can be left.                *)
(***************************************************************************)
EXTENDS PtoPExchange, SequenceTheorems, TLAPS

\* The inputs rank r has posted, and those of them the controller has.
InputsPosted(r)   == IF pc[r] = "gather" THEN called[r] - 1 ELSE called[r]
InputsReceived(r) == IF pc[0] = "gather" \/ inputRecv[r] = "posted"
                     THEN called[0] - 1 ELSE called[0]

\* The outputs the controller has posted to each rank, and those rank r has.
OutputsPosted      == IF pc[0] \in {"wait", "app"} THEN called[0] ELSE called[0] - 1
OutputsReceived(r) == IF pc[r] = "app" \/ outputRecv[r] = "done"
                      THEN called[r] ELSE called[r] - 1

\* Which receives are open where in a call.
RankPhase(r) ==
    /\ pc[r] \in {"waitall", "infer"} => r = 0
    /\ pc[r] # "app" => called[r] >= 1
    /\ inputRecv[r] # "null" <=> pc[0] = "waitall"
    /\ outputRecv[r] # "null" <=> pc[r] = "wait"

\* Nothing is lost: what is posted is received, not yet sent, or under way.
RankCount(r) ==
    /\ InputsPosted(r) = InputsReceived(r) + inputSends[r] + Len(inputMail[r])
    /\ OutputsPosted = OutputsReceived(r) + outputSends[r] + Len(outputMail[r])

\* Every buffer and every message holds the data of the call it was last used in.
RankData(r) ==
    /\ inputWorker[r] = called[r]
    /\ inputs[r] = InputsReceived(r)
    /\ outputs[r] = IF pc[0] \in {"scatter", "wait", "app"} THEN called[0] ELSE called[0] - 1
    /\ outputWorker[r] = OutputsReceived(r)
    /\ \A i \in 1 .. Len(inputMail[r]) : inputMail[r][i] = called[r]
    /\ \A i \in 1 .. Len(outputMail[r]) : outputMail[r][i] = OutputsPosted

\* The inductive invariant.
IInv == TypeOK /\ \A r \in Ranks : RankPhase(r) /\ RankCount(r) /\ RankData(r)

-----------------------------------------------------------------------------
LEMMA RankTypes ==
    ASSUME TypeOK, NEW r \in Ranks
    PROVE  /\ 0 \in Ranks
           /\ pc[r] \in {"app", "gather", "waitall", "infer", "scatter", "wait"}
           /\ called[r] \in Nat /\ inputSends[r] \in Nat /\ outputSends[r] \in Nat
           /\ inputMail[r] \in Seq(0 .. MaxCalls) /\ Len(inputMail[r]) \in Nat
           /\ outputMail[r] \in Seq(0 .. MaxCalls) /\ Len(outputMail[r]) \in Nat
           /\ inputRecv[r] \in {"null", "posted", "done"}
           /\ outputRecv[r] \in {"null", "posted", "done"}
<1>1. 0 \in Ranks
    BY PtoPAssumption DEF Ranks
<1>2. inputMail[r] \in Seq(0 .. MaxCalls) /\ outputMail[r] \in Seq(0 .. MaxCalls)
    BY DEF TypeOK
<1>3. QED
    BY <1>1, <1>2, LenProperties DEF TypeOK

\* A message is under way only while its call needs it, and there is only one:
\* none of its input when a rank has returned, none of the last outputs when the
\* controller has all inputs.
LEMMA Counting ==
    ASSUME IInv, NEW r \in Ranks
    PROVE  /\ inputSends[r] + Len(inputMail[r]) <= 1
           /\ outputSends[r] + Len(outputMail[r]) <= 1
           /\ pc[r] \in {"app", "gather"} => inputSends[r] = 0 /\ Len(inputMail[r]) = 0
           /\ pc[0] \in {"infer", "scatter"} => outputSends[r] = 0 /\ Len(outputMail[r]) = 0
           /\ OutputsPosted <= InputsReceived(r) /\ InputsReceived(r) <= InputsPosted(r)
           /\ OutputsReceived(r) <= OutputsPosted
<1>1. 0 \in Ranks /\ TypeOK
    BY RankTypes DEF IInv
<1>2. RankCount(r) /\ RankPhase(r) /\ RankPhase(0)
    BY <1>1 DEF IInv
<1>3. /\ pc[r] \in {"app", "gather", "waitall", "infer", "scatter", "wait"}
      /\ called[r] \in Nat /\ inputSends[r] \in Nat /\ outputSends[r] \in Nat
      /\ Len(inputMail[r]) \in Nat /\ Len(outputMail[r]) \in Nat
      /\ inputRecv[r] \in {"null", "posted", "done"}
      /\ outputRecv[r] \in {"null", "posted", "done"}
      /\ pc[0] \in {"app", "gather", "waitall", "infer", "scatter", "wait"}
      /\ called[0] \in Nat
    BY <1>1, RankTypes
<1>4. InputsPosted(r) \in Int /\ InputsReceived(r) \in Int
    BY <1>3 DEF InputsPosted, InputsReceived
<1>5. OutputsPosted \in Int /\ OutputsReceived(r) \in Int
    BY <1>3 DEF OutputsPosted, OutputsReceived
<1>6. \A a \in Int, b \in Int, c \in Nat, d \in Nat :
         a = b + c + d => /\ b <= a
                          /\ a <= b + 1 => c + d <= 1
                          /\ a <= b => c = 0 /\ d = 0
    OBVIOUS
<1>7. OutputsPosted <= InputsReceived(r)
    BY <1>2, <1>3 DEF RankPhase, InputsReceived, OutputsPosted
<1>8. InputsPosted(r) <= OutputsReceived(r) + 1
    BY <1>2, <1>3 DEF RankPhase, InputsPosted, OutputsReceived
<1>9. pc[r] \in {"app", "gather"} => InputsPosted(r) <= OutputsReceived(r)
    BY <1>2, <1>3 DEF RankPhase, InputsPosted, OutputsReceived
<1>10. pc[0] \in {"infer", "scatter"} => OutputsPosted < InputsReceived(r)
    BY <1>2, <1>3 DEF RankPhase, InputsReceived, OutputsPosted
<1>11. /\ InputsReceived(r) <= InputsPosted(r)
       /\ InputsPosted(r) <= InputsReceived(r) + 1 => inputSends[r] + Len(inputMail[r]) <= 1
       /\ InputsPosted(r) <= InputsReceived(r) => inputSends[r] = 0 /\ Len(inputMail[r]) = 0
    BY <1>2, <1>3, <1>4, <1>6 DEF RankCount
<1>12. /\ OutputsReceived(r) <= OutputsPosted
       /\ OutputsPosted <= OutputsReceived(r) + 1 => outputSends[r] + Len(outputMail[r]) <= 1
       /\ OutputsPosted <= OutputsReceived(r) => outputSends[r] = 0 /\ Len(outputMail[r]) = 0
    BY <1>2, <1>3, <1>5, <1>6 DEF RankCount
<1>13. InputsPosted(r) <= InputsReceived(r) + 1 /\ OutputsPosted <= OutputsReceived(r) + 1
    BY <1>4, <1>5, <1>7, <1>8, <1>11, <1>12
<1>14. pc[r] \in {"app", "gather"} => InputsPosted(r) <= InputsReceived(r)
    BY <1>4, <1>5, <1>7, <1>9, <1>12
<1>15. pc[0] \in {"infer", "scatter"} => OutputsPosted <= OutputsReceived(r)
    BY <1>4, <1>5, <1>8, <1>10, <1>11
<1>16. QED
    BY <1>7, <1>11, <1>12, <1>13, <1>14, <1>15

LEMMA IInvInit == Init => IInv
<1> SUFFICES ASSUME Init PROVE IInv
    OBVIOUS
<1>1. 0 \in Ranks
    BY PtoPAssumption DEF Ranks
<1>2. TypeOK
  <2>1. << >> \in Seq(0 .. MaxCalls)
      OBVIOUS
  <2>2. QED
      BY <2>1, PtoPAssumption DEF Init, TypeOK
<1>3. Len(<< >>) = 0
    OBVIOUS
<1>4. ASSUME NEW r \in Ranks PROVE RankPhase(r) /\ RankCount(r) /\ RankData(r)
    BY <1>1, <1>3 DEF Init, RankPhase, RankCount, RankData, InputsPosted, InputsReceived,
       OutputsPosted, OutputsReceived
<1>5. QED
    BY <1>2, <1>4 DEF IInv

\* The application's call changes no count: the input is not posted yet.
LEMMA CallInv == ASSUME IInv, NEW r \in Ranks, Call(r) PROVE IInv'
<1>1. TypeOK /\ 0 \in Ranks /\ called[r] + 1 \in 0 .. MaxCalls
  <2>1. TypeOK
      BY DEF IInv
  <2>2. called[r] \in Nat /\ called[r] < MaxCalls /\ 0 \in Ranks
      BY <2>1, RankTypes DEF Call
  <2>3. QED
      BY <2>1, <2>2, PtoPAssumption
<1>2. TypeOK'
    BY <1>1 DEF TypeOK, Call, Goto, messages, receives
<1>3. ASSUME NEW q \in Ranks PROVE (RankPhase(q) /\ RankCount(q) /\ RankData(q))'
  <2>1. /\ RankPhase(q) /\ RankCount(q) /\ RankData(q) /\ RankPhase(0)
        /\ q = r => inputSends[q] = 0 /\ Len(inputMail[q]) = 0
      BY <1>1, Counting DEF IInv, Call
  <2>2. /\ pc'[q] = (IF q = r THEN "gather" ELSE pc[q]) /\ pc'[0] = (IF 0 = r THEN "gather" ELSE pc[0])
        /\ pc[r] = "app"
      BY <1>1 DEF TypeOK, Call, Goto
  <2>3. /\ called'[q] = (IF q = r THEN called[q] + 1 ELSE called[q])
        /\ called'[0] = (IF 0 = r THEN called[0] + 1 ELSE called[0])
        /\ inputWorker'[q] = (IF q = r THEN called[q] + 1 ELSE inputWorker[q])
      BY <1>1 DEF TypeOK, Call
  <2>4. /\ outputWorker' = outputWorker /\ inputs' = inputs /\ outputs' = outputs
        /\ inputSends' = inputSends /\ outputSends' = outputSends
        /\ inputMail' = inputMail /\ outputMail' = outputMail
        /\ inputRecv' = inputRecv /\ outputRecv' = outputRecv
      BY DEF Call, messages, receives
  <2>5. called[q] \in Nat /\ called[0] \in Nat
      BY <1>1, RankTypes
  <2>6. /\ InputsPosted(q)' = InputsPosted(q) /\ InputsReceived(q)' = InputsReceived(q)
        /\ OutputsPosted' = OutputsPosted /\ OutputsReceived(q)' = OutputsReceived(q)
      BY <2>1, <2>2, <2>3, <2>4, <2>5 DEF RankPhase, InputsPosted, InputsReceived, OutputsPosted, OutputsReceived
  <2>7. RankPhase(q)'
      BY <2>1, <2>2, <2>3, <2>4, <2>5 DEF RankPhase
  <2>8. RankCount(q)'
      BY <2>1, <2>2, <2>3, <2>4, <2>5, <2>6 DEF RankCount
  <2>9. RankData(q)'
      BY <2>1, <2>2, <2>3, <2>4, <2>5, <2>6 DEF RankData
  <2>10. QED
      BY <2>7, <2>8, <2>9
<1>4. QED
    BY <1>2, <1>3 DEF IInv

\* Posting an input turns one into a send that MPI has not begun.
LEMMA GatherInv == ASSUME IInv, NEW r \in Ranks, GatherInputData(r) PROVE IInv'
<1>1. TypeOK /\ 0 \in Ranks /\ inputSends[r] = 0 /\ pc[r] = "gather"
    BY RankTypes, Counting DEF IInv, GatherInputData
<1>2. TypeOK'
  <2>1. inputSends' \in [Ranks -> 0 .. 1]
      BY <1>1 DEF TypeOK, GatherInputData
  <2>2. pc' \in [Ranks -> {"app", "gather", "waitall", "infer", "scatter", "wait"}]
      BY <1>1 DEF TypeOK, GatherInputData, Goto
  <2>3. inputRecv' \in [Ranks -> {"null", "posted", "done"}]
      BY <1>1 DEF TypeOK, GatherInputData
  <2>4. QED
      BY <1>1, <2>1, <2>2, <2>3 DEF TypeOK, GatherInputData, buffers
<1>3. ASSUME NEW q \in Ranks PROVE (RankPhase(q) /\ RankCount(q) /\ RankData(q))'
  <2>1. /\ RankPhase(q) /\ RankCount(q) /\ RankData(q) /\ RankPhase(0)
      BY <1>1 DEF IInv
  <2>2. /\ pc'[q] = (IF q = r THEN IF r = 0 THEN "waitall" ELSE "scatter" ELSE pc[q])
        /\ pc'[0] = (IF 0 = r THEN "waitall" ELSE pc[0])
      BY <1>1 DEF TypeOK, GatherInputData, Goto
  <2>3. /\ inputRecv'[q] = (IF r = 0 THEN "posted" ELSE inputRecv[q])
        /\ inputSends'[q] = (IF q = r THEN inputSends[q] + 1 ELSE inputSends[q])
      BY <1>1 DEF TypeOK, GatherInputData
  <2>4. /\ called' = called /\ outputWorker' = outputWorker /\ inputs' = inputs
        /\ inputWorker' = inputWorker /\ outputs' = outputs /\ outputSends' = outputSends
        /\ inputMail' = inputMail /\ outputMail' = outputMail /\ outputRecv' = outputRecv
      BY DEF GatherInputData, buffers
  <2>5. called[q] \in Nat /\ called[0] \in Nat /\ inputSends[q] \in Nat /\ Len(inputMail[q]) \in Nat
      BY <1>1, RankTypes
  <2>6. /\ InputsPosted(q)' = (IF q = r THEN InputsPosted(q) + 1 ELSE InputsPosted(q))
        /\ InputsReceived(q)' = InputsReceived(q)
      BY <1>1, <2>1, <2>2, <2>3, <2>4, <2>5 DEF RankPhase, InputsPosted, InputsReceived
  <2>7. OutputsPosted' = OutputsPosted /\ OutputsReceived(q)' = OutputsReceived(q)
      BY <1>1, <2>1, <2>2, <2>4 DEF RankPhase, OutputsPosted, OutputsReceived
  <2>8. RankPhase(q)'
      BY <1>1, <2>1, <2>2, <2>3, <2>4 DEF RankPhase
  <2>9. RankCount(q)'
    <3>1. InputsReceived(q) \in Int
        BY <2>5 DEF InputsReceived
    <3>2. QED
        BY <2>1, <2>3, <2>4, <2>5, <2>6, <2>7, <3>1 DEF RankCount
  <2>10. RankData(q)'
      BY <1>1, <2>1, <2>2, <2>4, <2>6, <2>7 DEF RankData
  <2>11. QED
      BY <2>8, <2>9, <2>10
<1>4. QED
    BY <1>2, <1>3 DEF IInv

\* What the wait for the inputs closes has been received.
LEMMA WaitAllInv == ASSUME IInv, WaitAllInputs PROVE IInv'
<1>1. TypeOK /\ 0 \in Ranks /\ pc[0] = "waitall"
    BY RankTypes, PtoPAssumption DEF IInv, WaitAllInputs, Ranks
<1>2. TypeOK'
    BY <1>1 DEF TypeOK, WaitAllInputs, Goto, buffers, messages
<1>3. ASSUME NEW q \in Ranks PROVE (RankPhase(q) /\ RankCount(q) /\ RankData(q))'
  <2>1. /\ RankPhase(q) /\ RankCount(q) /\ RankData(q) /\ RankPhase(0)
      BY <1>1 DEF IInv
  <2>2. /\ pc'[q] = (IF q = 0 THEN "infer" ELSE pc[q]) /\ pc'[0] = "infer"
        /\ inputRecv'[q] = "null" /\ inputRecv[q] = "done"
      BY <1>1 DEF TypeOK, WaitAllInputs, Goto
  <2>3. /\ called' = called /\ outputWorker' = outputWorker /\ inputs' = inputs
        /\ inputWorker' = inputWorker /\ outputs' = outputs
        /\ inputSends' = inputSends /\ outputSends' = outputSends
        /\ inputMail' = inputMail /\ outputMail' = outputMail /\ outputRecv' = outputRecv
      BY DEF WaitAllInputs, buffers, messages
  <2>4. InputsPosted(q)' = InputsPosted(q) /\ InputsReceived(q)' = InputsReceived(q)
      BY <1>1, <2>2, <2>3 DEF InputsPosted, InputsReceived
  <2>5. OutputsPosted' = OutputsPosted /\ OutputsReceived(q)' = OutputsReceived(q)
      BY <1>1, <2>2, <2>3 DEF OutputsPosted, OutputsReceived
  <2>6. RankPhase(q)'
      BY <1>1, <2>1, <2>2, <2>3 DEF RankPhase
  <2>7. RankCount(q)' /\ RankData(q)'
      BY <1>1, <2>1, <2>2, <2>3, <2>4, <2>5 DEF RankCount, RankData
  <2>8. QED
      BY <2>6, <2>7
<1>4. QED
    BY <1>2, <1>3 DEF IInv

\* The controller infers with the inputs of this call.
LEMMA InferAllInv == ASSUME IInv, InferAll PROVE IInv'
<1>1. TypeOK /\ 0 \in Ranks /\ pc[0] = "infer"
    BY RankTypes, PtoPAssumption DEF IInv, InferAll, Ranks
<1>2. TypeOK'
    BY <1>1 DEF TypeOK, InferAll, Goto, messages, receives
<1>3. ASSUME NEW q \in Ranks PROVE (RankPhase(q) /\ RankCount(q) /\ RankData(q))'
  <2>1. /\ RankPhase(q) /\ RankCount(q) /\ RankData(q) /\ RankPhase(0)
      BY <1>1 DEF IInv
  <2>2. /\ pc'[q] = (IF q = 0 THEN "scatter" ELSE pc[q]) /\ pc'[0] = "scatter"
        /\ outputs'[q] = inputs[q]
      BY <1>1 DEF TypeOK, InferAll, Goto
  <2>3. /\ called' = called /\ outputWorker' = outputWorker /\ inputs' = inputs
        /\ inputWorker' = inputWorker
        /\ inputSends' = inputSends /\ outputSends' = outputSends
        /\ inputMail' = inputMail /\ outputMail' = outputMail
        /\ inputRecv' = inputRecv /\ outputRecv' = outputRecv
      BY DEF InferAll, messages, receives
  <2>4. /\ InputsPosted(q)' = InputsPosted(q) /\ InputsReceived(q)' = InputsReceived(q)
        /\ InputsReceived(q) = called[0]
      BY <1>1, <2>1, <2>2, <2>3 DEF RankPhase, InputsPosted, InputsReceived
  <2>5. OutputsPosted' = OutputsPosted /\ OutputsReceived(q)' = OutputsReceived(q)
      BY <1>1, <2>2, <2>3 DEF OutputsPosted, OutputsReceived
  <2>6. RankPhase(q)'
      BY <1>1, <2>1, <2>2, <2>3 DEF RankPhase
  <2>7. RankCount(q)' /\ RankData(q)'
      BY <1>1, <2>1, <2>2, <2>3, <2>4, <2>5 DEF RankCount, RankData
  <2>8. QED
      BY <2>6, <2>7
<1>4. QED
    BY <1>2, <1>3 DEF IInv

\* The controller posts its outputs when none of the last ones is left.
LEMMA ScatterInv == ASSUME IInv, NEW r \in Ranks, ScatterOutputData(r) PROVE IInv'
<1>1. TypeOK /\ 0 \in Ranks /\ pc[r] = "scatter"
    BY RankTypes DEF IInv, ScatterOutputData
<1>2. ASSUME r = 0, NEW q \in Ranks PROVE outputSends[q] = 0 /\ Len(outputMail[q]) = 0
    BY <1>1, <1>2, Counting
<1>3. TypeOK'
  <2>1. outputSends' \in [Ranks -> 0 .. 1]
    <3>1. CASE r = 0
      <4>1. outputSends' = [q \in Ranks |-> 1]
          BY <1>2, <3>1 DEF ScatterOutputData
      <4>2. QED
          BY <4>1
    <3>2. CASE r # 0
        BY <1>1, <3>2 DEF TypeOK, ScatterOutputData
    <3>3. QED
        BY <3>1, <3>2
  <2>2. pc' \in [Ranks -> {"app", "gather", "waitall", "infer", "scatter", "wait"}]
      BY <1>1 DEF TypeOK, ScatterOutputData, Goto
  <2>3. outputRecv' \in [Ranks -> {"null", "posted", "done"}]
      BY <1>1 DEF TypeOK, ScatterOutputData
  <2>4. QED
      BY <1>1, <2>1, <2>2, <2>3 DEF TypeOK, ScatterOutputData, buffers
<1>4. ASSUME NEW q \in Ranks PROVE (RankPhase(q) /\ RankCount(q) /\ RankData(q))'
  <2>1. /\ RankPhase(q) /\ RankCount(q) /\ RankData(q) /\ RankPhase(0)
      BY <1>1 DEF IInv
  <2>2. /\ pc'[q] = (IF q = r THEN "wait" ELSE pc[q])
        /\ pc'[0] = (IF 0 = r THEN "wait" ELSE pc[0])
      BY <1>1 DEF TypeOK, ScatterOutputData, Goto
  <2>3. /\ outputRecv'[q] = (IF q = r THEN "posted" ELSE outputRecv[q])
        /\ outputSends'[q] = (IF r = 0 THEN outputSends[q] + 1 ELSE outputSends[q])
      BY <1>1 DEF TypeOK, ScatterOutputData
  <2>4. /\ called' = called /\ outputWorker' = outputWorker /\ inputs' = inputs
        /\ inputWorker' = inputWorker /\ outputs' = outputs /\ inputSends' = inputSends
        /\ inputMail' = inputMail /\ outputMail' = outputMail /\ inputRecv' = inputRecv
      BY DEF ScatterOutputData, buffers
  <2>5. called[q] \in Nat /\ called[0] \in Nat /\ outputSends[q] \in Nat /\ Len(outputMail[q]) \in Nat
      BY <1>1, RankTypes
  <2>6. InputsPosted(q)' = InputsPosted(q) /\ InputsReceived(q)' = InputsReceived(q)
      BY <1>1, <2>1, <2>2, <2>4 DEF RankPhase, InputsPosted, InputsReceived
  <2>7. /\ OutputsPosted' = (IF r = 0 THEN OutputsPosted + 1 ELSE OutputsPosted)
        /\ OutputsReceived(q)' = OutputsReceived(q)
      BY <1>1, <2>1, <2>2, <2>3, <2>4, <2>5 DEF RankPhase, OutputsPosted, OutputsReceived
  <2>8. RankPhase(q)'
      BY <1>1, <2>1, <2>2, <2>3, <2>4 DEF RankPhase
  <2>9. RankCount(q)'
    <3>1. OutputsReceived(q) \in Int
        BY <2>5 DEF OutputsReceived
    <3>2. QED
        BY <2>1, <2>3, <2>4, <2>5, <2>6, <2>7, <3>1 DEF RankCount
  <2>10. RankData(q)'
      BY <1>1, <1>2, <2>1, <2>2, <2>4, <2>6, <2>7 DEF RankData
  <2>11. QED
      BY <2>8, <2>9, <2>10
<1>5. QED
    BY <1>3, <1>4 DEF IInv

\* A rank returns with what it received.
LEMMA WaitOutputInv == ASSUME IInv, NEW r \in Ranks, WaitOutput(r) PROVE IInv'
<1>1. TypeOK /\ 0 \in Ranks /\ pc[r] = "wait" /\ outputRecv[r] = "done"
    BY RankTypes DEF IInv, WaitOutput
<1>2. TypeOK'
    BY <1>1 DEF TypeOK, WaitOutput, Goto, buffers, messages
<1>3. ASSUME NEW q \in Ranks PROVE (RankPhase(q) /\ RankCount(q) /\ RankData(q))'
  <2>1. /\ RankPhase(q) /\ RankCount(q) /\ RankData(q) /\ RankPhase(0)
      BY <1>1 DEF IInv
  <2>2. /\ pc'[q] = (IF q = r THEN "app" ELSE pc[q])
        /\ pc'[0] = (IF 0 = r THEN "app" ELSE pc[0])
        /\ outputRecv'[q] = (IF q = r THEN "null" ELSE outputRecv[q])
      BY <1>1 DEF TypeOK, WaitOutput, Goto
  <2>3. /\ called' = called /\ outputWorker' = outputWorker /\ inputs' = inputs
        /\ inputWorker' = inputWorker /\ outputs' = outputs
        /\ inputSends' = inputSends /\ outputSends' = outputSends
        /\ inputMail' = inputMail /\ outputMail' = outputMail /\ inputRecv' = inputRecv
      BY DEF WaitOutput, buffers, messages
  <2>4. InputsPosted(q)' = InputsPosted(q) /\ InputsReceived(q)' = InputsReceived(q)
      BY <1>1, <2>1, <2>2, <2>3 DEF RankPhase, InputsPosted, InputsReceived
  <2>5. OutputsPosted' = OutputsPosted /\ OutputsReceived(q)' = OutputsReceived(q)
      BY <1>1, <2>2, <2>3 DEF OutputsPosted, OutputsReceived
  <2>6. RankPhase(q)'
      BY <1>1, <2>1, <2>2, <2>3 DEF RankPhase
  <2>7. RankCount(q)' /\ RankData(q)'
      BY <1>1, <2>1, <2>2, <2>3, <2>4, <2>5 DEF RankCount, RankData
  <2>8. QED
      BY <2>6, <2>7
<1>4. QED
    BY <1>2, <1>3 DEF IInv

-----------------------------------------------------------------------------
\* What MPI does to a queue of messages of one kind.
LEMMA AppendFacts ==
    ASSUME NEW m \in Seq(0 .. MaxCalls), NEW v \in 0 .. MaxCalls, Len(m) = 0
    PROVE  /\ Append(m, v) \in Seq(0 .. MaxCalls) /\ Len(Append(m, v)) = 1
           /\ Append(m, v)[1] = v
BY AppendProperties

LEMMA TailFacts ==
    ASSUME NEW m \in Seq(0 .. MaxCalls), m # << >>, Len(m) <= 1
    PROVE  /\ Len(m) = 1 /\ Head(m) = m[1] /\ Head(m) \in 0 .. MaxCalls
           /\ Tail(m) \in Seq(0 .. MaxCalls) /\ Len(Tail(m)) = 0
<1>1. Len(m) \in Nat \ {0}
    BY EmptySeq
<1>2. Len(m) = 1
  <2>1. \A k \in Nat \ {0} : k <= 1 => k = 1
      OBVIOUS
  <2>2. QED
      BY <1>1, <2>1
<1>3. Head(m) = m[1]
    BY <1>2
<1>4. Head(m) \in 0 .. MaxCalls /\ Tail(m) \in Seq(0 .. MaxCalls)
    BY HeadTailProperties
<1>5. Len(Tail(m)) = 0
    BY <1>2, HeadTailProperties
<1>6. QED
    BY <1>2, <1>3, <1>4, <1>5

\* A send that begins becomes a message with the data of its call.
LEMMA BeginInputSendInv == ASSUME IInv, NEW r \in Ranks, BeginInputSend(r) PROVE IInv'
<1>1. TypeOK /\ 0 \in Ranks /\ inputSends[r] = 1 /\ Len(inputMail[r]) = 0
    BY RankTypes, Counting DEF IInv, BeginInputSend
<1>2. /\ inputMail[r] \in Seq(0 .. MaxCalls) /\ inputWorker[r] \in 0 .. MaxCalls
      /\ Append(inputMail[r], inputWorker[r]) \in Seq(0 .. MaxCalls)
      /\ Len(Append(inputMail[r], inputWorker[r])) = 1
      /\ Append(inputMail[r], inputWorker[r])[1] = inputWorker[r]
    BY <1>1, RankTypes, AppendFacts DEF TypeOK
<1>3. /\ inputSends' = [inputSends EXCEPT ![r] = 0]
      /\ inputMail' = [inputMail EXCEPT ![r] = Append(inputMail[r], inputWorker[r])]
    BY <1>1 DEF BeginInputSend, TypeOK
<1>4. /\ pc' = pc /\ called' = called /\ outputWorker' = outputWorker /\ inputs' = inputs
      /\ inputWorker' = inputWorker /\ outputs' = outputs /\ outputSends' = outputSends
      /\ outputMail' = outputMail /\ inputRecv' = inputRecv /\ outputRecv' = outputRecv
    BY DEF BeginInputSend, buffers, receives
<1>5. TypeOK'
  <2>1. inputSends' \in [Ranks -> 0 .. 1] /\ inputMail' \in [Ranks -> Seq(0 .. MaxCalls)]
      BY <1>1, <1>2, <1>3 DEF TypeOK
  <2>2. QED
      BY <1>1, <1>4, <2>1 DEF TypeOK
<1>6. ASSUME NEW q \in Ranks PROVE (RankPhase(q) /\ RankCount(q) /\ RankData(q))'
  <2>1. /\ RankPhase(q) /\ RankCount(q) /\ RankData(q)
      BY <1>1 DEF IInv
  <2>2. /\ InputsPosted(q)' = InputsPosted(q) /\ InputsReceived(q)' = InputsReceived(q)
        /\ OutputsPosted' = OutputsPosted /\ OutputsReceived(q)' = OutputsReceived(q)
      BY <1>4 DEF InputsPosted, InputsReceived, OutputsPosted, OutputsReceived
  <2>3. RankPhase(q)'
      BY <1>4, <2>1 DEF RankPhase
  <2>4. CASE q # r
    <3>1. inputSends'[q] = inputSends[q] /\ inputMail'[q] = inputMail[q]
        BY <1>1, <1>3, <2>4 DEF TypeOK
    <3>2. QED
        BY <1>4, <2>1, <2>2, <2>3, <3>1 DEF RankCount, RankData
  <2>5. CASE q = r
    <3>1. /\ inputSends'[r] = 0 /\ Len(inputMail'[r]) = 1 /\ inputMail'[r][1] = inputWorker[r]
        BY <1>1, <1>2, <1>3 DEF TypeOK
    <3>2. called[r] \in Nat /\ called[0] \in Nat
        BY <1>1, RankTypes
    <3>3. RankCount(q)'
        BY <1>1, <1>4, <2>1, <2>2, <2>5, <3>1, <3>2 DEF RankCount, InputsReceived
    <3>4. RankData(q)'
        BY <1>4, <2>1, <2>2, <2>5, <3>1 DEF RankData
    <3>5. QED
        BY <2>3, <3>3, <3>4
  <2>6. QED
      BY <2>4, <2>5
<1>7. QED
    BY <1>5, <1>6 DEF IInv

\* An input that arrives is that of the call the controller is in.
LEMMA ReceiveInputInv == ASSUME IInv, NEW r \in Ranks, ReceiveInput(r) PROVE IInv'
<1>1. TypeOK /\ 0 \in Ranks /\ inputRecv[r] = "posted" /\ inputMail[r] # << >>
    BY RankTypes DEF IInv, ReceiveInput
<1>2. /\ inputMail[r] \in Seq(0 .. MaxCalls)
      /\ inputSends[r] \in Nat /\ Len(inputMail[r]) \in Nat
      /\ inputSends[r] + Len(inputMail[r]) <= 1
    BY <1>1, RankTypes, Counting
<1>3. /\ Len(inputMail[r]) = 1 /\ Head(inputMail[r]) = inputMail[r][1]
      /\ Head(inputMail[r]) \in 0 .. MaxCalls
      /\ Tail(inputMail[r]) \in Seq(0 .. MaxCalls) /\ Len(Tail(inputMail[r])) = 0
  <2>1. Len(inputMail[r]) <= 1
      BY <1>2
  <2>2. QED
      BY <1>1, <1>2, <2>1, TailFacts
<1>4. /\ inputs' = [inputs EXCEPT ![r] = Head(inputMail[r])]
      /\ inputMail' = [inputMail EXCEPT ![r] = Tail(inputMail[r])]
      /\ inputRecv' = [inputRecv EXCEPT ![r] = "done"]
      /\ pc' = pc /\ called' = called /\ outputWorker' = outputWorker
      /\ inputWorker' = inputWorker /\ outputs' = outputs /\ outputSends' = outputSends
      /\ inputSends' = inputSends /\ outputMail' = outputMail /\ outputRecv' = outputRecv
    BY DEF ReceiveInput
<1>5. TypeOK'
    BY <1>1, <1>3, <1>4 DEF TypeOK
<1>6. RankPhase(r) /\ RankCount(r) /\ RankData(r) /\ pc[0] = "waitall"
    BY <1>1 DEF IInv, RankPhase
<1>7. called[r] \in Nat /\ called[0] \in Nat /\ called[r] = called[0]
  <2>1. called[r] \in Nat /\ called[0] \in Nat
      BY <1>1, RankTypes
  <2>2. pc[r] # "gather" /\ inputSends[r] = 0
      BY <1>2, <1>3, Counting
  <2>3. QED
      BY <1>1, <1>3, <1>6, <2>1, <2>2 DEF RankCount, InputsPosted, InputsReceived
<1>8. ASSUME NEW q \in Ranks PROVE (RankPhase(q) /\ RankCount(q) /\ RankData(q))'
  <2>1. /\ RankPhase(q) /\ RankCount(q) /\ RankData(q)
      BY <1>1 DEF IInv
  <2>2. /\ InputsPosted(q)' = InputsPosted(q)
        /\ OutputsPosted' = OutputsPosted /\ OutputsReceived(q)' = OutputsReceived(q)
      BY <1>4 DEF InputsPosted, OutputsPosted, OutputsReceived
  <2>3. CASE q # r
    <3>1. inputs'[q] = inputs[q] /\ inputMail'[q] = inputMail[q] /\ inputRecv'[q] = inputRecv[q]
        BY <1>1, <1>4, <2>3 DEF TypeOK
    <3>2. InputsReceived(q)' = InputsReceived(q)
        BY <1>4, <3>1 DEF InputsReceived
    <3>3. QED
        BY <1>4, <2>1, <2>2, <3>1, <3>2 DEF RankPhase, RankCount, RankData
  <2>4. CASE q = r
    <3>1. /\ inputs'[r] = inputMail[r][1] /\ Len(inputMail'[r]) = 0 /\ inputRecv'[r] = "done"
        BY <1>1, <1>3, <1>4 DEF TypeOK
    <3>2. InputsReceived(r)' = called[0] /\ InputsReceived(r) = called[0] - 1
        BY <1>1, <1>4, <1>6, <3>1 DEF InputsReceived
    <3>3. RankPhase(q)'
        BY <1>4, <1>6, <2>4, <3>1 DEF RankPhase
    <3>4. RankCount(q)'
      <4>1. inputSends[r] = 0
          BY <1>2, <1>3
      <4>2. InputsPosted(r) = called[0]
          BY <1>3, <1>6, <1>7, <3>2, <4>1 DEF RankCount
      <4>3. QED
          BY <1>4, <1>6, <1>7, <2>2, <2>4, <3>1, <3>2, <4>1, <4>2 DEF RankCount
    <3>5. RankData(q)'
        BY <1>3, <1>4, <1>6, <1>7, <2>2, <2>4, <3>1, <3>2 DEF RankData
    <3>6. QED
        BY <3>3, <3>4, <3>5
  <2>5. QED
      BY <2>3, <2>4
<1>9. QED
    BY <1>5, <1>8 DEF IInv

\* The controller's output send reads what it inferred for this call.
LEMMA BeginOutputSendInv == ASSUME IInv, NEW r \in Ranks, BeginOutputSend(r) PROVE IInv'
<1>1. /\ TypeOK /\ 0 \in Ranks /\ outputSends[r] = 1 /\ Len(outputMail[r]) = 0
      /\ pc[0] \notin {"infer", "scatter"}
    BY RankTypes, Counting DEF IInv, BeginOutputSend
<1>2. /\ outputMail[r] \in Seq(0 .. MaxCalls) /\ outputs[r] \in 0 .. MaxCalls
      /\ Append(outputMail[r], outputs[r]) \in Seq(0 .. MaxCalls)
      /\ Len(Append(outputMail[r], outputs[r])) = 1
      /\ Append(outputMail[r], outputs[r])[1] = outputs[r]
    BY <1>1, RankTypes, AppendFacts DEF TypeOK
<1>3. /\ outputSends' = [outputSends EXCEPT ![r] = 0]
      /\ outputMail' = [outputMail EXCEPT ![r] = Append(outputMail[r], outputs[r])]
    BY <1>1 DEF BeginOutputSend, TypeOK
<1>4. /\ pc' = pc /\ called' = called /\ outputWorker' = outputWorker /\ inputs' = inputs
      /\ inputWorker' = inputWorker /\ outputs' = outputs /\ inputSends' = inputSends
      /\ inputMail' = inputMail /\ inputRecv' = inputRecv /\ outputRecv' = outputRecv
    BY DEF BeginOutputSend, buffers, receives
<1>5. TypeOK'
  <2>1. outputSends' \in [Ranks -> 0 .. 1] /\ outputMail' \in [Ranks -> Seq(0 .. MaxCalls)]
      BY <1>1, <1>2, <1>3 DEF TypeOK
  <2>2. QED
      BY <1>1, <1>4, <2>1 DEF TypeOK
<1>6. ASSUME NEW q \in Ranks PROVE (RankPhase(q) /\ RankCount(q) /\ RankData(q))'
  <2>1. /\ RankPhase(q) /\ RankCount(q) /\ RankData(q)
      BY <1>1 DEF IInv
  <2>2. /\ InputsPosted(q)' = InputsPosted(q) /\ InputsReceived(q)' = InputsReceived(q)
        /\ OutputsPosted' = OutputsPosted /\ OutputsReceived(q)' = OutputsReceived(q)
      BY <1>4 DEF InputsPosted, InputsReceived, OutputsPosted, OutputsReceived
  <2>3. RankPhase(q)'
      BY <1>4, <2>1 DEF RankPhase
  <2>4. CASE q # r
    <3>1. outputSends'[q] = outputSends[q] /\ outputMail'[q] = outputMail[q]
        BY <1>1, <1>3, <2>4 DEF TypeOK
    <3>2. QED
        BY <1>4, <2>1, <2>2, <2>3, <3>1 DEF RankCount, RankData
  <2>5. CASE q = r
    <3>1. /\ outputSends'[r] = 0 /\ Len(outputMail'[r]) = 1 /\ outputMail'[r][1] = outputs[r]
        BY <1>1, <1>2, <1>3 DEF TypeOK
    <3>2. called[r] \in Nat /\ called[0] \in Nat
        BY <1>1, RankTypes
    <3>3. RankCount(q)'
        BY <1>1, <1>4, <2>1, <2>2, <2>5, <3>1, <3>2 DEF RankCount, OutputsReceived
    <3>4. outputs[r] = OutputsPosted
        BY <1>1, <2>1, <2>5 DEF RankData, OutputsPosted
    <3>5. RankData(q)'
        BY <1>4, <2>1, <2>2, <2>5, <3>1, <3>4 DEF RankData
    <3>6. QED
        BY <2>3, <3>3, <3>5
  <2>6. QED
      BY <2>4, <2>5
<1>7. QED
    BY <1>5, <1>6 DEF IInv

\* An output that arrives is that of the call the rank is in.
LEMMA ReceiveOutputInv == ASSUME IInv, NEW r \in Ranks, ReceiveOutput(r) PROVE IInv'
<1>1. TypeOK /\ 0 \in Ranks /\ outputRecv[r] = "posted" /\ outputMail[r] # << >>
    BY RankTypes DEF IInv, ReceiveOutput
<1>2. /\ outputMail[r] \in Seq(0 .. MaxCalls)
      /\ outputSends[r] \in Nat /\ Len(outputMail[r]) \in Nat
      /\ outputSends[r] + Len(outputMail[r]) <= 1
    BY <1>1, RankTypes, Counting
<1>3. /\ Len(outputMail[r]) = 1 /\ Head(outputMail[r]) = outputMail[r][1]
      /\ Head(outputMail[r]) \in 0 .. MaxCalls
      /\ Tail(outputMail[r]) \in Seq(0 .. MaxCalls) /\ Len(Tail(outputMail[r])) = 0
  <2>1. Len(outputMail[r]) <= 1
      BY <1>2
  <2>2. QED
      BY <1>1, <1>2, <2>1, TailFacts
<1>4. /\ outputWorker' = [outputWorker EXCEPT ![r] = Head(outputMail[r])]
      /\ outputMail' = [outputMail EXCEPT ![r] = Tail(outputMail[r])]
      /\ outputRecv' = [outputRecv EXCEPT ![r] = "done"]
      /\ pc' = pc /\ called' = called /\ inputs' = inputs
      /\ inputWorker' = inputWorker /\ outputs' = outputs /\ outputSends' = outputSends
      /\ inputSends' = inputSends /\ inputMail' = inputMail /\ inputRecv' = inputRecv
    BY DEF ReceiveOutput
<1>5. TypeOK'
    BY <1>1, <1>3, <1>4 DEF TypeOK
<1>6. RankPhase(r) /\ RankCount(r) /\ RankData(r) /\ pc[r] = "wait"
    BY <1>1 DEF IInv, RankPhase
<1>7. called[r] \in Nat /\ called[0] \in Nat
    BY <1>1, RankTypes
<1>8. OutputsPosted = called[r]
  <2>1. outputSends[r] = 0
      BY <1>2, <1>3
  <2>2. QED
      BY <1>1, <1>3, <1>6, <1>7, <2>1 DEF RankCount, OutputsReceived
<1>9. ASSUME NEW q \in Ranks PROVE (RankPhase(q) /\ RankCount(q) /\ RankData(q))'
  <2>1. /\ RankPhase(q) /\ RankCount(q) /\ RankData(q)
      BY <1>1 DEF IInv
  <2>2. /\ InputsPosted(q)' = InputsPosted(q)
        /\ OutputsPosted' = OutputsPosted /\ InputsReceived(q)' = InputsReceived(q)
      BY <1>4 DEF InputsPosted, OutputsPosted, InputsReceived
  <2>3. CASE q # r
    <3>1. /\ outputWorker'[q] = outputWorker[q] /\ outputMail'[q] = outputMail[q]
          /\ outputRecv'[q] = outputRecv[q]
        BY <1>1, <1>4, <2>3 DEF TypeOK
    <3>2. OutputsReceived(q)' = OutputsReceived(q)
        BY <1>4, <3>1 DEF OutputsReceived
    <3>3. QED
        BY <1>4, <2>1, <2>2, <3>1, <3>2 DEF RankPhase, RankCount, RankData
  <2>4. CASE q = r
    <3>1. /\ outputWorker'[r] = outputMail[r][1] /\ Len(outputMail'[r]) = 0
          /\ outputRecv'[r] = "done"
        BY <1>1, <1>3, <1>4 DEF TypeOK
    <3>2. OutputsReceived(r)' = called[r]
        BY <1>4, <3>1 DEF OutputsReceived
    <3>3. RankPhase(q)'
        BY <1>4, <1>6, <2>4, <3>1 DEF RankPhase
    <3>4. RankCount(q)'
      <4>1. outputSends'[r] = 0
          BY <1>2, <1>3, <1>4
      <4>2. called[r] + 0 + 0 = called[r]
          BY <1>7
      <4>3. OutputsPosted' = OutputsReceived(r)' + outputSends'[r] + Len(outputMail'[r])
          BY <1>8, <2>2, <3>1, <3>2, <4>1, <4>2
      <4>4. QED
          BY <1>4, <1>6, <2>2, <2>4, <4>3 DEF RankCount
    <3>5. RankData(q)'
        BY <1>3, <1>4, <1>6, <1>7, <1>8, <2>2, <2>4, <3>1, <3>2 DEF RankData
    <3>6. QED
        BY <3>3, <3>4, <3>5
  <2>5. QED
      BY <2>3, <2>4
<1>10. QED
    BY <1>5, <1>9 DEF IInv

LEMMA IInvStep == IInv /\ [Next]_vars => IInv'
<1> SUFFICES ASSUME IInv, [Next]_vars PROVE IInv'
    OBVIOUS
<1>1. CASE UNCHANGED vars
  <2>1. TypeOK'
      BY <1>1 DEF IInv, TypeOK, vars, buffers, messages, receives
  <2>2. ASSUME NEW q \in Ranks PROVE (RankPhase(q) /\ RankCount(q) /\ RankData(q))'
    <3>1. RankPhase(q) /\ RankCount(q) /\ RankData(q)
        BY DEF IInv
    <3>2. QED
        BY <1>1, <3>1 DEF vars, buffers, messages, receives, RankPhase, RankCount, RankData,
           InputsPosted, InputsReceived, OutputsPosted, OutputsReceived
  <2>3. QED
      BY <2>1, <2>2 DEF IInv
<1>2. CASE Next
    BY <1>2, CallInv, GatherInv, WaitAllInv, InferAllInv, ScatterInv, WaitOutputInv,
       BeginInputSendInv, ReceiveInputInv, BeginOutputSendInv, ReceiveOutputInv
    DEF Next, Rank, Mpi
<1>3. QED
    BY <1>1, <1>2

\* Every behaviour keeps the invariant.
THEOREM Invariance == Spec => []IInv
BY IInvInit, IInvStep, PTL DEF Spec

-----------------------------------------------------------------------------
\* The types of the state, for every group: at most one send of each kind is
\* ever left to MPI per rank.
THEOREM TypeCorrect == Spec => []TypeOK
BY Invariance, PTL DEF IInv

\* A rank that has returned may write new input although nobody waited for the
\* send of the last one.
THEOREM InputSendsAreDone == Spec => []InputSendIsDone
<1>1. IInv => InputSendIsDone
    BY Counting DEF InputSendIsDone
<1>2. QED
    BY <1>1, Invariance, PTL

\* The controller infers only when MPI has read the outputs of the last call.
THEOREM OutputSendsAreDone == Spec => OutputSendIsDone
<1>1. ASSUME IInv, [Next]_vars, outputs' # outputs, NEW r \in Ranks PROVE outputSends[r] = 0
  <2>1. InferAll
      BY <1>1 DEF Next, Call, Rank, Mpi, GatherInputData, WaitAllInputs, ScatterOutputData,
         WaitOutput, BeginInputSend, ReceiveInput, BeginOutputSend, ReceiveOutput, vars, buffers
  <2>2. QED
      BY <1>1, <2>1, Counting DEF InferAll
<1>2. IInv /\ [Next]_vars => [outputs' # outputs => \A r \in Ranks : outputSends[r] = 0]_vars
    BY <1>1
<1>3. QED
    BY <1>2, Invariance, PTL DEF Spec, OutputSendIsDone

\* The controller's messages to itself carry one tag for both kinds, and are never
\* of both kinds at a time: the input is received before any output is posted, and
\* the output before any input of the next call.
THEOREM SelfMessagesTakeTurns == Spec => []SelfMessagesApart
<1>1. ASSUME IInv PROVE SelfMessagesApart
  <2>1. 0 \in Ranks /\ TypeOK /\ RankPhase(0) /\ RankCount(0)
      BY <1>1, RankTypes, PtoPAssumption DEF IInv, Ranks
  <2>2. /\ called[0] \in Nat /\ inputSends[0] \in Nat /\ outputSends[0] \in Nat
        /\ Len(inputMail[0]) \in Nat /\ Len(outputMail[0]) \in Nat
        /\ pc[0] \in {"app", "gather", "waitall", "infer", "scatter", "wait"}
      BY <2>1, RankTypes
  <2>3. \A a \in Int, c \in Nat, d \in Nat : a = a + c + d => c = 0 /\ d = 0
      OBVIOUS
  <2>4. /\ Len(inputMail[0]) = 0 => inputMail[0] = << >>
        /\ Len(outputMail[0]) = 0 => outputMail[0] = << >>
      BY <2>1, RankTypes, EmptySeq
  <2>5. ASSUME pc[0] # "waitall"
        PROVE  inputRecv[0] # "posted" /\ ~(inputSends[0] > 0) /\ inputMail[0] = << >>
    <3>1. InputsPosted(0) \in Int /\ InputsReceived(0) = InputsPosted(0)
        BY <2>1, <2>2, <2>5 DEF RankPhase, InputsPosted, InputsReceived
    <3>2. InputsPosted(0) = InputsReceived(0) + inputSends[0] + Len(inputMail[0])
        BY <2>1 DEF RankCount
    <3>3. inputSends[0] = 0 /\ Len(inputMail[0]) = 0
        BY <2>2, <2>3, <3>1, <3>2
    <3>4. inputRecv[0] # "posted"
        BY <2>1, <2>5 DEF RankPhase
    <3>5. QED
        BY <2>4, <3>3, <3>4
  <2>6. ASSUME pc[0] # "wait"
        PROVE  outputRecv[0] # "posted" /\ ~(outputSends[0] > 0) /\ outputMail[0] = << >>
    <3>1. OutputsPosted \in Int /\ OutputsReceived(0) = OutputsPosted
        BY <2>1, <2>2, <2>6 DEF RankPhase, OutputsPosted, OutputsReceived
    <3>2. OutputsPosted = OutputsReceived(0) + outputSends[0] + Len(outputMail[0])
        BY <2>1 DEF RankCount
    <3>3. outputSends[0] = 0 /\ Len(outputMail[0]) = 0
        BY <2>2, <2>3, <3>1, <3>2
    <3>4. outputRecv[0] # "posted"
        BY <2>1, <2>6 DEF RankPhase
    <3>5. QED
        BY <2>4, <3>3, <3>4
  <2>7. pc[0] # "waitall" \/ pc[0] # "wait"
      OBVIOUS
  <2>8. QED
      BY <2>5, <2>6, <2>7 DEF SelfMessagesApart
<1>2. QED
    BY <1>1, Invariance, PTL

-----------------------------------------------------------------------------
ReturnedMap == [r \in Ranks |-> Returned(r)]
OutMap == [r \in Ranks |-> IF pc[r] = "app" THEN outputWorker[r] ELSE 0]

\* Inside a call and outside one the callers see nothing change.
LEMMA Invisible ==
    ASSUME called' = called, \A q \in Ranks : pc'[q] = "app" <=> pc[q] = "app",
           \A q \in Ranks : pc[q] = "app" => outputWorker'[q] = outputWorker[q]
    PROVE  UNCHANGED Group!vars
<1>1. ReturnedMap' = ReturnedMap /\ OutMap' = OutMap
    BY DEF ReturnedMap, OutMap, Returned
<1>2. QED
    BY <1>1 DEF Group!vars, ReturnedMap, OutMap

\* A rank returns after everybody called, with the output of its own call.
LEMMA ReturnStep == ASSUME IInv, NEW r \in Ranks, WaitOutput(r) PROVE Group!Return(r)
<1>1. /\ TypeOK /\ 0 \in Ranks /\ pc[r] = "wait" /\ outputRecv[r] = "done"
      /\ RankPhase(r) /\ RankData(r)
    BY RankTypes DEF IInv, WaitOutput
<1>2. called[r] \in Nat /\ called[r] >= 1 /\ OutputsReceived(r) = called[r]
    BY <1>1, RankTypes DEF RankPhase, OutputsReceived
<1>3. ASSUME NEW q \in Ranks PROVE called[r] <= called[q]
  <2>1. called[r] <= OutputsPosted /\ OutputsPosted <= InputsReceived(q) /\ InputsReceived(q) <= InputsPosted(q)
      BY <1>2, Counting
  <2>2. called[q] \in Nat /\ called[0] \in Nat
      BY <1>1, RankTypes
  <2>3. InputsPosted(q) <= called[q] /\ InputsPosted(q) \in Int
      BY <2>2 DEF InputsPosted
  <2>4. OutputsPosted \in Int /\ InputsReceived(q) \in Int
      BY <2>2 DEF OutputsPosted, InputsReceived
  <2>5. QED
      BY <1>2, <2>1, <2>2, <2>3, <2>4
<1>4. /\ pc' = [pc EXCEPT ![r] = "app"] /\ called' = called /\ outputWorker' = outputWorker
      /\ pc \in [Ranks -> {"app", "gather", "waitall", "infer", "scatter", "wait"}]
    BY <1>1 DEF WaitOutput, Goto, buffers, TypeOK
<1>5. ReturnedMap' = [ReturnedMap EXCEPT ![r] = called[r]]
    BY <1>4 DEF ReturnedMap, Returned
<1>6. OutMap' = [OutMap EXCEPT ![r] = called[r]]
  <2>1. outputWorker[r] = called[r]
      BY <1>1, <1>2 DEF RankData
  <2>2. QED
      BY <1>4, <2>1 DEF OutMap
<1>7. ReturnedMap[r] < called[r]
    BY <1>1, <1>2 DEF ReturnedMap, Returned
<1>8. QED
    BY <1>3, <1>4, <1>5, <1>6, <1>7 DEF Group!Return, ReturnedMap, OutMap

LEMMA CallStep == ASSUME IInv, NEW r \in Ranks, Call(r) PROVE Group!Call(r)
<1>1. /\ TypeOK /\ pc[r] = "app" /\ called[r] < MaxCalls /\ called[r] \in Nat
      /\ pc \in [Ranks -> {"app", "gather", "waitall", "infer", "scatter", "wait"}]
    BY RankTypes DEF IInv, Call, TypeOK
<1>2. /\ pc' = [pc EXCEPT ![r] = "gather"] /\ called' = [called EXCEPT ![r] = @ + 1]
      /\ outputWorker' = outputWorker
    BY DEF Call, Goto
<1>3. called \in [Ranks -> 0 .. MaxCalls]
    BY <1>1 DEF TypeOK
<1>4. ReturnedMap' = ReturnedMap
    BY <1>1, <1>2, <1>3 DEF ReturnedMap, Returned
<1>5. OutMap' = [OutMap EXCEPT ![r] = 0]
    BY <1>1, <1>2 DEF OutMap
<1>6. ReturnedMap[r] = called[r]
    BY <1>1 DEF ReturnedMap, Returned
<1>7. QED
    BY <1>1, <1>2, <1>4, <1>5, <1>6 DEF Group!Call, ReturnedMap, OutMap

\* Every step of the exchange is a call, a return or invisible to the callers.
LEMMA StepImplements == ASSUME IInv, [Next]_vars PROVE [Group!Next]_(Group!vars)
<1>1. TypeOK /\ 0 \in Ranks
    BY PtoPAssumption DEF IInv, Ranks
<1>2. pc \in [Ranks -> {"app", "gather", "waitall", "infer", "scatter", "wait"}]
    BY <1>1 DEF TypeOK
<1>3. ASSUME NEW r \in Ranks, GatherInputData(r) \/ ScatterOutputData(r)
      PROVE  UNCHANGED Group!vars
  <2>1. /\ called' = called /\ outputWorker' = outputWorker /\ pc[r] # "app"
        /\ \E label \in {"waitall", "scatter", "wait"} : pc' = [pc EXCEPT ![r] = label]
      BY <1>3 DEF GatherInputData, ScatterOutputData, Goto, buffers
  <2>2. QED
      BY <1>2, <2>1, Invisible
<1>4. ASSUME NEW r \in Ranks, Mpi(r) PROVE UNCHANGED Group!vars
  <2>1. pc' = pc /\ called' = called
      BY <1>4 DEF Mpi, BeginInputSend, ReceiveInput, BeginOutputSend, ReceiveOutput
  <2>2. \A q \in Ranks : pc[q] = "app" => outputWorker'[q] = outputWorker[q]
    <3>1. CASE ReceiveOutput(r)
      <4>1. outputWorker' = [outputWorker EXCEPT ![r] = Head(outputMail[r])] /\ pc[r] # "app"
          BY <3>1 DEF ReceiveOutput, IInv, RankPhase
      <4>2. QED
          BY <1>1, <4>1 DEF TypeOK
    <3>2. CASE ~ReceiveOutput(r)
        BY <1>4, <3>2 DEF Mpi, BeginInputSend, ReceiveInput, BeginOutputSend, buffers
    <3>3. QED
        BY <3>1, <3>2
  <2>3. QED
      BY <2>1, <2>2, Invisible
<1>5. ASSUME WaitAllInputs \/ InferAll PROVE UNCHANGED Group!vars
  <2>1. /\ called' = called /\ outputWorker' = outputWorker /\ pc[0] # "app"
        /\ \E label \in {"infer", "scatter"} : pc' = [pc EXCEPT ![0] = label]
      BY <1>5 DEF WaitAllInputs, InferAll, Goto, buffers
  <2>2. QED
      BY <1>1, <1>2, <2>1, Invisible
<1>6. ASSUME UNCHANGED vars PROVE UNCHANGED Group!vars
    BY <1>6, Invisible DEF vars, buffers
<1>7. QED
    BY <1>3, <1>4, <1>5, <1>6, CallStep, ReturnStep DEF Next, Rank, Group!Next

\* For every group the nonblocking exchange implements the contract of Exchange.
THEOREM Implementation == Spec => ImplementsExchange
<1>1. Init => Group!Init
  <2>1. SUFFICES ASSUME Init PROVE Group!Init
      OBVIOUS
  <2>2. ReturnedMap = [r \in Ranks |-> 0] /\ OutMap = [r \in Ranks |-> 0]
      BY <2>1 DEF Init, ReturnedMap, OutMap, Returned
  <2>3. QED
      BY <2>1, <2>2 DEF Group!Init, Init, ReturnedMap, OutMap
<1>2. IInv /\ [Next]_vars => [Group!Next]_(Group!vars)
    BY StepImplements
<1>3. QED
    BY <1>1, <1>2, Invariance, PTL DEF Spec, ImplementsExchange, Group!Spec
=============================================================================
