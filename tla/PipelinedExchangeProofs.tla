---------------------- MODULE PipelinedExchangeProofs ----------------------
(***************************************************************************)
(* Proofs about the pipelined exchange, for every workgroup: its inductive *)
(* invariant, and what follows from it.  Each message between the          *)
(* controller and a worker is counted on both sides; the counts form a     *)
(* chain that no schedule breaks.  On it rest the safety of the exchange   *)
(* and that it implements the contract of Exchange.                        *)
(***************************************************************************)
EXTENDS PipelinedExchange, FiniteNaturals, SequenceTheorems

InCall == pc[0] # "app"
Bit(b) == IF b THEN 1 ELSE 0

\* How often the four messages between the controller and worker r have been
\* sent since the start, counted where the controller sends or receives them...
Credited(r)  == Returned(0) + Bit(InCall /\ r \in granted)
Delivered(r) == Returned(0) + Bit(InCall /\ inputRequest[r] # "posted")
Acked(r)     == Returned(0) + Bit(InCall /\ r \in received \ completed)
ResultOut(r) == Returned(0) + Bit(InCall /\ r \in inferred \ (pending \cup outputRequest))

\* ... and where the worker does.
SentInput(r) == Returned(r) + Bit(pc[r] \in {"ack", "result"})
GotAck(r)    == Returned(r) + Bit(pc[r] = "result")

\* What is under way to or from worker r is what one side has sent and the other
\* has not received, and it belongs to the last call the sender counted.
ChannelInv(r) ==
    /\ credit[r] + SentInput(r) = Credited(r)
    /\ Len(input[r]) + Delivered(r) = SentInput(r)
    /\ ack[r] + GotAck(r) = Acked(r)
    /\ Len(output[r]) + Returned(r) = ResultOut(r)
    /\ input[r] # << >> => Head(input[r]) = SentInput(r)
    /\ output[r] # << >> => Head(output[r]) = ResultOut(r)

\* Receives and the code that tests them.
PollerInv ==
    /\ \A r \in completed : inputRequest[r] = "null"
    /\ \A r \in received \ {0} : inputRequest[r] = "null"
    /\ 0 \notin completed
    /\ poller # "grant" => completed \cap received = {}
    /\ poller = "grant" => \E r \in Workers : completed \cap received = {r}
    /\ poller \in {"off", "test"} => completed = {}
    /\ ~Async /\ poller \in {"lock", "record", "grant"} => pc[0] = "poll"
    /\ Async => pc[0] # "poll"
    /\ Async /\ pc[0] \in {"wait", "app"} => poller = "off"
    /\ inputRequest[0] = "null"

\* The requests of the executor and the bookkeeping of their ranks.
RequestOK(req) ==
    /\ req.first < req.end
    /\ req.start = Displ[req.first]
    /\ req.count = SampleEnd(req.end - 1) - Displ[req.first]
    /\ req.first = 0 => req.end = 1
    /\ RanksOf(req) \subseteq scheduled

RangeInv ==
    /\ scheduled \subseteq received \ completed
    /\ inferred \subseteq received \ completed
    /\ scheduled \cap inferred = {}
    /\ \A req \in requests : RequestOK(req)
    /\ \A req, other \in requests : req # other => RanksOf(req) \cap RanksOf(other) = {}
    /\ pending \subseteq inferred
    /\ outputRequest \subseteq inferred \ pending
    /\ inferred \subseteq pending \/ received = Ranks
    /\ pc[0] \in {"join", "wait"} => inferred = Ranks
    /\ pc[0] \in {"wait", "app"} => pending = {}
    /\ ~InCall => requests = {} /\ scheduled = {} /\ outputRequest = {}
    /\ ~InCall => \A r \in Workers : inputRequest[r] = "null"

\* Every buffer holds the data of the current call as soon as its flag says so.
Inferred(r) == r \in inferred \/ \E req \in requests : req.done /\ r \in RanksOf(req)

DataInv ==
    /\ \A r \in Workers : InCall /\ inputRequest[r] # "posted" => inputBuffer[r] = called[0]
    /\ \A r \in Workers : InCall /\ Inferred(r) => outputBuffer[r] = called[0]
    /\ RangePipeline /\ InCall /\ Inferred(0) => result[0] = called[0]
    /\ RangePipeline /\ ~InCall => result[0] = called[0]
    /\ \A r \in Workers : pc[r] = "app" => result[r] = called[r]
    /\ \A r \in Ranks : pc[r] # "app" => called[r] > 0

IInv ==
    /\ TypeOK
    /\ CountersAgree
    /\ \A r \in Workers : ChannelInv(r)
    /\ PollerInv
    /\ RangeInv
    /\ DataInv

-----------------------------------------------------------------------------
(***************************************************************************)
(* Lemmas about the workgroup, its segments and the invariant              *)
(***************************************************************************)
\* The ranks are N many, rank 0 among them, and the rest are the workers.
LEMMA RanksFinite ==
    /\ IsFiniteSet(Ranks) /\ Cardinality(Ranks) = N
    /\ 0 \in Ranks /\ Workers = Ranks \ {0}
<1>1. N \in Nat /\ N > 0
    BY ConfigAssumption
<1>2. 0 \in Int /\ N - 1 \in Int /\ ~(0 > N - 1) /\ (N - 1) - 0 + 1 = N
    BY <1>1
<1>3. IsFiniteSet(0 .. N - 1) /\ Cardinality(0 .. N - 1) = N
    BY <1>2, FS_Interval
<1>4. 0 \in Ranks /\ Workers = Ranks \ {0}
    BY <1>1 DEF Ranks, Workers
<1>5. QED
    BY <1>3, <1>4 DEF Ranks

\* The segments of the controller buffers follow each other in rank order.
LEMMA Segments ==
    ASSUME NEW p \in Ranks, NEW q \in Ranks
    PROVE  /\ Displ[p] \in Nat /\ SampleEnd(p) \in Nat /\ Displ[p] <= SampleEnd(p)
           /\ p <= q => Displ[p] <= Displ[q] /\ SampleEnd(p) <= SampleEnd(q)
           /\ p < q => SampleEnd(p) <= Displ[q]
<1>1. \A i \in Ranks : Displ[i] \in Nat /\ Samples[i] \in Nat /\ i \in Int
    BY ConfigAssumption DEF Ranks
<1>2. \A i \in Ranks : SampleEnd(i) \in Nat /\ Displ[i] <= SampleEnd(i)
    BY <1>1 DEF SampleEnd
<1>3. p < q => SampleEnd(p) <= Displ[q]
    BY ConfigAssumption
<1>4. QED
  <2>1. CASE p = q
      BY <2>1, <1>1, <1>2
  <2>2. CASE p < q
      BY <2>2, <1>1, <1>2, <1>3
  <2>3. CASE q < p
      BY <2>3, <1>1, <1>2
  <2>4. QED
      BY <2>1, <2>2, <2>3, <1>1

\* The ranks of a request are an interval of ranks.
LEMMA RequestRanks ==
    ASSUME NEW req, req.first \in Ranks, req.end \in 1 .. N, req.first < req.end
    PROVE  /\ req.end - 1 \in Ranks /\ req.first <= req.end - 1
           /\ \A r \in Ranks : r \in RanksOf(req) <=> req.first <= r /\ r <= req.end - 1
           /\ RanksOf(req) \subseteq Ranks
           /\ req.first \in RanksOf(req)
<1>1. N \in Nat
    BY ConfigAssumption
<1>2. QED
    BY <1>1 DEF Ranks, RanksOf

\* Taking a message out of a channel.
LEMMA TakeMessage ==
    ASSUME NEW S, NEW s \in Seq(S), s # << >>
    PROVE  /\ Head(s) \in S /\ Tail(s) \in Seq(S)
           /\ Len(s) \in Nat /\ Len(s) > 0
           /\ Len(Tail(s)) = Len(s) - 1 /\ Len(Tail(s)) \in Nat
           /\ Len(s) = 1 => Tail(s) = << >>
<1>1. Head(s) \in S /\ Tail(s) \in Seq(S) /\ Len(Tail(s)) = Len(s) - 1
    BY HeadTailProperties
<1>2. Len(s) \in Nat \ {0}
    BY EmptySeq
<1>3. Tail(s) # << >> => Len(Tail(s)) \in Nat \ {0}
    BY <1>1, EmptySeq
<1>4. QED
    BY <1>1, <1>2, <1>3

\* If a count is one behind a bound that it must not pass, one message is on its way.
LEMMA LastMessage ==
    ASSUME NEW length \in Nat, length > 0, NEW bound \in Nat, NEW sent \in Nat,
           NEW seen, seen = bound - 1, length + seen = sent, sent <= bound
    PROVE  length = 1 /\ sent = bound
OBVIOUS

\* If sent and seen differ by at most one, at most one message is on its way.
LEMMA OneAtMost ==
    ASSUME NEW length \in Nat, NEW base \in Nat, NEW seen \in Nat, NEW sent \in Nat,
           base <= seen, sent <= base + 1, length + seen = sent
    PROVE  length <= 1
OBVIOUS

\* A request touches no sample outside its ranks' segments and covers those.
LEMMA RangeGeometry ==
    ASSUME NEW req, req.first \in Ranks, req.end \in 1 .. N, req.first < req.end,
           req.start = Displ[req.first],
           req.count = SampleEnd(req.end - 1) - Displ[req.first],
           NEW r \in Ranks
    PROVE  /\ req.count \in Nat
           /\ r \in RanksOf(req) => Covers(req, r)
           /\ Touches(req, r) => r \in RanksOf(req)
<1>1. PICK first, last \in Ranks : first = req.first /\ last = req.end - 1
    BY RequestRanks
<1>2. first <= last /\ (r \in RanksOf(req) <=> first <= r /\ r <= last)
    BY <1>1, RequestRanks
<1>3. /\ Displ[first] \in Nat /\ SampleEnd(last) \in Nat /\ Displ[r] \in Nat /\ SampleEnd(r) \in Nat
      /\ Displ[first] <= SampleEnd(first) /\ SampleEnd(first) <= SampleEnd(last)
      /\ SampleEnd(first) \in Nat
    BY <1>2, Segments
<1>4. req.start = Displ[first] /\ req.count \in Nat /\ req.start + req.count = SampleEnd(last)
    BY <1>1, <1>3
<1>5. ASSUME r \in RanksOf(req) PROVE Covers(req, r)
  <2>1. Displ[first] <= Displ[r] /\ SampleEnd(r) <= SampleEnd(last)
      BY <1>2, <1>5, Segments
  <2>2. QED
      BY <2>1, <1>4 DEF Covers
<1>6. ASSUME Touches(req, r) PROVE r \in RanksOf(req)
  <2>1. Displ[first] < SampleEnd(r) /\ Displ[r] < SampleEnd(last)
      BY <1>4, <1>6 DEF Touches
  <2>2. ~(r < first) /\ ~(last < r)
    <3>1. (r < first => SampleEnd(r) <= Displ[first]) /\ (last < r => SampleEnd(last) <= Displ[r])
        BY Segments
    <3>2. QED
        BY <3>1, <2>1, <1>3
  <2>3. r \in Int /\ first \in Int /\ last \in Int
      BY DEF Ranks
  <2>4. QED
      BY <2>2, <2>3, <1>2
<1>7. QED
    BY <1>4, <1>5, <1>6

\* What one of the controller and a worker has done bounds what the other has.
LEMMA Chain ==
    ASSUME IInv, NEW r \in Workers
    PROVE  /\ Returned(0) \in Nat /\ Returned(r) \in Nat
           /\ Returned(0) <= ResultOut(r) /\ ResultOut(r) <= Acked(r)
           /\ Acked(r) <= Delivered(r) /\ Delivered(r) <= SentInput(r)
           /\ SentInput(r) <= Credited(r) /\ Credited(r) <= Returned(0) + 1
           /\ Returned(r) <= ResultOut(r) /\ GotAck(r) <= Acked(r)
           /\ Returned(r) <= SentInput(r) /\ SentInput(r) <= Returned(r) + 1
           /\ ResultOut(r) \in Nat /\ Acked(r) \in Nat /\ Delivered(r) \in Nat
           /\ Credited(r) \in Nat /\ SentInput(r) \in Nat /\ GotAck(r) \in Nat
<1>1. called[0] \in Nat /\ called[r] \in Nat /\ (pc[0] # "app" => called[0] > 0)
      /\ (pc[r] # "app" => called[r] > 0)
  <2>1. 0 \in Ranks /\ r \in Ranks
      BY RanksFinite
  <2>2. called \in [Ranks -> 0 .. MaxCalls] /\ MaxCalls \in Nat
      BY ConfigAssumption DEF IInv, TypeOK
  <2>3. \A q \in Ranks : pc[q] # "app" => called[q] > 0
      BY DEF IInv, DataInv
  <2>4. QED
      BY <2>1, <2>2, <2>3
<1>2. Returned(0) \in Nat /\ Returned(r) \in Nat
    BY <1>1 DEF Returned
<1>3. credit[r] \in Nat /\ ack[r] \in Nat /\ Len(input[r]) \in Nat /\ Len(output[r]) \in Nat
    BY RanksFinite DEF IInv, TypeOK
<1>4. r \in received \ completed => inputRequest[r] # "posted"
    BY RanksFinite DEF IInv, PollerInv
<1>5. inferred \subseteq received \ completed
    BY DEF IInv, RangeInv
<1>6. /\ credit[r] + SentInput(r) = Credited(r)
      /\ Len(input[r]) + Delivered(r) = SentInput(r)
      /\ ack[r] + GotAck(r) = Acked(r)
      /\ Len(output[r]) + Returned(r) = ResultOut(r)
    BY DEF IInv, ChannelInv
<1>7. /\ Returned(0) <= ResultOut(r) /\ ResultOut(r) <= Acked(r)
      /\ Acked(r) <= Delivered(r) /\ Credited(r) <= Returned(0) + 1
      /\ ResultOut(r) \in Nat /\ Acked(r) \in Nat /\ Delivered(r) \in Nat /\ Credited(r) \in Nat
    BY <1>2, <1>4, <1>5 DEF Credited, Delivered, Acked, ResultOut, Bit
<1>8. /\ Returned(r) <= SentInput(r) /\ SentInput(r) <= Returned(r) + 1
      /\ SentInput(r) \in Nat /\ GotAck(r) \in Nat
    BY <1>2 DEF SentInput, GotAck, Bit
<1>9. Delivered(r) <= SentInput(r) /\ SentInput(r) <= Credited(r)
  <2>1. /\ credit[r] \in Nat /\ Len(input[r]) \in Nat
        /\ Delivered(r) \in Nat /\ SentInput(r) \in Nat
      BY <1>3, <1>7, <1>8
  <2>2. \A a \in Nat, b \in Nat, c \in Nat, d \in Nat, e \in Nat :
           a + b = c /\ d + e = b => e <= b /\ b <= c
      OBVIOUS
  <2>3. Credited(r) \in Nat
      BY <1>7
  <2>4. QED
      BY <1>6, <2>1, <2>2, <2>3
<1>10. Returned(r) <= ResultOut(r) /\ GotAck(r) <= Acked(r)
  <2>1. /\ ack[r] \in Nat /\ Len(output[r]) \in Nat /\ Returned(r) \in Nat
        /\ GotAck(r) \in Nat /\ Acked(r) \in Nat /\ ResultOut(r) \in Nat
      BY <1>2, <1>3, <1>7, <1>8
  <2>2. \A a \in Nat, b \in Nat, c \in Nat : a + b = c => b <= c
      OBVIOUS
  <2>3. QED
      BY <1>6, <2>1, <2>2
<1>11. QED
    BY <1>2, <1>7, <1>8, <1>9, <1>10

-----------------------------------------------------------------------------
(***************************************************************************)
(* The invariant holds initially and is kept by every action               *)
(***************************************************************************)
LEMMA InitInv == Init => IInv
<1> SUFFICES ASSUME Init PROVE IInv
    OBVIOUS
<1>1. TypeOK
    BY ConfigAssumption, RanksFinite DEF Init, TypeOK, ControllerPC, WorkerPC, PollerPC
<1>2. CountersAgree
    BY FS_EmptySet DEF Init, CountersAgree
<1>3. ASSUME NEW r \in Workers PROVE ChannelInv(r)
    BY <1>3, RanksFinite DEF Init, ChannelInv, Credited, Delivered, Acked, ResultOut, SentInput,
       GotAck, Returned, Bit, InCall
<1>4. PollerInv
    BY RanksFinite DEF Init, PollerInv
<1>5. RangeInv
    BY RanksFinite DEF Init, RangeInv, InCall
<1>6. DataInv
    BY RanksFinite DEF Init, DataInv, InCall
<1>7. QED
    BY <1>1, <1>2, <1>3, <1>4, <1>5, <1>6 DEF IInv

\* Membership of single components, from TypeOK.
LEMMA Types ==
    ASSUME TypeOK, NEW r \in Ranks
    PROVE  /\ called[r] \in 0 .. MaxCalls /\ called[r] \in Nat /\ result[r] \in 0 .. MaxCalls
           /\ credit[r] \in Nat /\ ack[r] \in Nat
           /\ input[r] \in Seq(1 .. MaxCalls) /\ output[r] \in Seq(0 .. MaxCalls)
           /\ Len(input[r]) \in Nat /\ Len(output[r]) \in Nat
           /\ inputBuffer[r] \in 0 .. MaxCalls /\ outputBuffer[r] \in 0 .. MaxCalls
<1>1. MaxCalls \in Nat
    BY ConfigAssumption
<1>2. /\ called[r] \in 0 .. MaxCalls /\ result[r] \in 0 .. MaxCalls
      /\ credit[r] \in Nat /\ ack[r] \in Nat
      /\ inputBuffer[r] \in 0 .. MaxCalls /\ outputBuffer[r] \in 0 .. MaxCalls
    BY DEF TypeOK
<1>3. input[r] \in Seq(1 .. MaxCalls) /\ output[r] \in Seq(0 .. MaxCalls)
    BY DEF TypeOK
<1>4. QED
    BY <1>1, <1>2, <1>3

\* A worker's channels are as they should be if neither they nor the counts change.
LEMMA ChannelFrame ==
    ASSUME NEW r \in Workers, ChannelInv(r),
           UNCHANGED << credit[r], input[r], ack[r], output[r] >>,
           UNCHANGED << Credited(r), Delivered(r), Acked(r), ResultOut(r) >>,
           UNCHANGED << SentInput(r), GotAck(r), Returned(r) >>
    PROVE  ChannelInv(r)'
BY DEF ChannelInv

\* A step of worker w alone keeps the invariant if it keeps w's own part of it.
LEMMA WorkerFrame ==
    ASSUME IInv, NEW w \in Workers, TypeOK', ChannelInv(w)',
           UNCHANGED << inputRequest, outputRequest, inputBuffer, outputBuffer >>,
           UNCHANGED << poller, completed, granted, received, receivedCount >>,
           UNCHANGED << inferred, inferredCount, scheduled, pending, requests >>,
           \A q \in Ranks \ {w} :
               UNCHANGED << pc[q], called[q], result[q], credit[q], input[q], ack[q], output[q] >>,
           pc'[w] = "app" => result'[w] = called'[w],
           pc'[w] # "app" => called'[w] > 0
    PROVE  IInv'
<1>1. TypeOK /\ CountersAgree /\ (\A r \in Workers : ChannelInv(r)) /\ PollerInv /\ RangeInv /\ DataInv
    BY DEF IInv
<1>2. w \in Ranks /\ w # 0 /\ 0 \in Ranks /\ Workers = Ranks \ {0}
    BY RanksFinite
<1>3. pc'[0] = pc[0] /\ called'[0] = called[0] /\ result'[0] = result[0]
    BY <1>2
<1>4. CountersAgree'
    BY <1>1 DEF CountersAgree
<1>5. ASSUME NEW r \in Workers PROVE ChannelInv(r)'
  <2>1. CASE r = w
      BY <2>1
  <2>2. CASE r # w
    <3>1. UNCHANGED << Credited(r), Delivered(r), Acked(r), ResultOut(r) >>
        BY <1>3 DEF Credited, Delivered, Acked, ResultOut, InCall, Returned
    <3>2. UNCHANGED << SentInput(r), GotAck(r), Returned(r) >>
        BY <1>2, <2>2 DEF SentInput, GotAck, Returned
    <3>3. UNCHANGED << credit[r], input[r], ack[r], output[r] >> /\ ChannelInv(r)
        BY <1>1, <1>2, <2>2
    <3>4. QED
        BY <3>1, <3>2, <3>3, ChannelFrame
  <2>3. QED
      BY <2>1, <2>2
<1>6. PollerInv'
    BY <1>1, <1>3 DEF PollerInv
<1>7. RangeInv'
    BY <1>1, <1>3 DEF RangeInv, RequestOK, RanksOf, InCall
<1>8. DataInv'
    BY <1>1, <1>2, <1>3 DEF DataInv, Inferred, RanksOf, InCall
<1>9. QED
    BY <1>4, <1>5, <1>6, <1>7, <1>8 DEF IInv

LEMMA WorkerCallInv ==
    ASSUME IInv, NEW w \in Workers, WorkerCall(w) PROVE IInv'
<1>1. /\ pc[w] = "app" /\ called[w] < MaxCalls
      /\ called' = [called EXCEPT ![w] = called[w] + 1]
      /\ pc' = [pc EXCEPT ![w] = "credit"]
    BY DEF WorkerCall
<1>2. /\ UNCHANGED << result, credit, input, ack, output >>
      /\ UNCHANGED << inputRequest, outputRequest, inputBuffer, outputBuffer >>
      /\ UNCHANGED << poller, completed, granted, received, receivedCount >>
      /\ UNCHANGED << inferred, inferredCount, scheduled, pending, requests >>
    BY DEF WorkerCall, netVars, mpiVars, bufVars, pollVars, inferVars
<1>3. TypeOK /\ ChannelInv(w)
    BY DEF IInv
<1>4. w \in Ranks /\ w # 0 /\ called[w] \in 0 .. MaxCalls /\ MaxCalls \in Nat
    BY <1>3, RanksFinite, Types, ConfigAssumption
<1>5. pc \in [Ranks -> ControllerPC \cup WorkerPC] /\ called \in [Ranks -> 0 .. MaxCalls]
    BY <1>3 DEF TypeOK
<1>6. TypeOK'
  <2>1. pc' \in [Ranks -> ControllerPC \cup WorkerPC] /\ pc'[0] = pc[0]
        /\ \A r \in Workers : pc'[r] = pc[r] \/ pc'[r] = "credit"
      BY <1>1, <1>4, <1>5, RanksFinite DEF WorkerPC
  <2>2. called' \in [Ranks -> 0 .. MaxCalls]
      BY <1>1, <1>4, <1>5
  <2>3. QED
      BY <2>1, <2>2, <1>2, <1>3 DEF TypeOK, WorkerPC
<1>7. pc'[w] = "credit" /\ called'[w] = called[w] + 1 /\ pc'[0] = pc[0] /\ called'[0] = called[0]
      /\ \A q \in Ranks \ {w} : pc'[q] = pc[q] /\ called'[q] = called[q]
    BY <1>1, <1>4, <1>5, RanksFinite
<1>8. ChannelInv(w)'
  <2>1. UNCHANGED << Credited(w), Delivered(w), Acked(w), ResultOut(w) >>
      BY <1>2, <1>7 DEF Credited, Delivered, Acked, ResultOut, InCall, Returned
  <2>2. UNCHANGED << SentInput(w), GotAck(w), Returned(w) >>
      BY <1>1, <1>4, <1>7 DEF SentInput, GotAck, Returned, Bit
  <2>3. QED
      BY <1>2, <1>3, <2>1, <2>2, ChannelFrame
<1>9. QED
    BY <1>2, <1>4, <1>6, <1>7, <1>8, WorkerFrame

LEMMA WorkerSendInputInv ==
    ASSUME IInv, NEW w \in Workers, WorkerSendInput(w) PROVE IInv'
<1>1. /\ pc[w] = "credit" /\ credit[w] > 0
      /\ credit' = [credit EXCEPT ![w] = credit[w] - 1]
      /\ input' = [input EXCEPT ![w] = Append(input[w], called[w])]
      /\ pc' = [pc EXCEPT ![w] = "ack"]
    BY DEF WorkerSendInput
<1>2. /\ UNCHANGED << called, result, ack, output >>
      /\ UNCHANGED << inputRequest, outputRequest, inputBuffer, outputBuffer >>
      /\ UNCHANGED << poller, completed, granted, received, receivedCount >>
      /\ UNCHANGED << inferred, inferredCount, scheduled, pending, requests >>
    BY DEF WorkerSendInput, appVars, mpiVars, bufVars, pollVars, inferVars
<1>3. TypeOK /\ ChannelInv(w)
    BY DEF IInv
<1>4. w \in Ranks /\ w # 0 /\ 0 \in Ranks
    BY RanksFinite
<1>5. /\ called[w] \in Nat /\ called[w] > 0 /\ called[w] \in 1 .. MaxCalls
      /\ credit[w] \in Nat /\ Len(input[w]) \in Nat /\ input[w] \in Seq(1 .. MaxCalls)
  <2>1. called[w] > 0
      BY <1>1, <1>4 DEF IInv, DataInv
  <2>2. QED
      BY <2>1, <1>3, <1>4, Types, ConfigAssumption
<1>6. /\ pc \in [Ranks -> ControllerPC \cup WorkerPC]
      /\ credit \in [Ranks -> Nat]
      /\ input \in [Ranks -> Seq(1 .. MaxCalls)]
    BY <1>3 DEF TypeOK
<1>7. TypeOK'
  <2>1. pc' \in [Ranks -> ControllerPC \cup WorkerPC] /\ pc'[0] = pc[0]
        /\ \A r \in Workers : pc'[r] = pc[r] \/ pc'[r] = "ack"
      BY <1>1, <1>4, <1>6, RanksFinite DEF WorkerPC
  <2>2. credit' \in [Ranks -> Nat]
      BY <1>1, <1>4, <1>5, <1>6
  <2>3. Append(input[w], called[w]) \in Seq(1 .. MaxCalls)
      BY <1>5
  <2>4. input' \in [Ranks -> Seq(1 .. MaxCalls)]
      BY <2>3, <1>1, <1>4, <1>6
  <2>5. QED
      BY <2>1, <2>2, <2>4, <1>2, <1>3 DEF TypeOK, WorkerPC
<1>8. /\ pc'[w] = "ack" /\ credit'[w] = credit[w] - 1 /\ input'[w] = Append(input[w], called[w])
      /\ pc'[0] = pc[0]
      /\ \A q \in Ranks \ {w} : UNCHANGED << pc[q], credit[q], input[q] >>
    BY <1>1, <1>4, <1>6
<1>9. ChannelInv(w)'
  <2>1. UNCHANGED << Credited(w), Delivered(w), Acked(w), ResultOut(w) >>
      BY <1>2, <1>8 DEF Credited, Delivered, Acked, ResultOut, InCall, Returned
  <2>2. UNCHANGED << GotAck(w), Returned(w) >>
      BY <1>1, <1>2, <1>8 DEF GotAck, Returned, Bit
  <2>3. SentInput(w)' = called[w] /\ SentInput(w) = called[w] - 1
      BY <1>1, <1>2, <1>5, <1>8 DEF SentInput, Returned, Bit
  <2>4. /\ Returned(0) <= Delivered(w) /\ Credited(w) <= Returned(0) + 1
        /\ Returned(0) \in Nat /\ Delivered(w) \in Nat /\ Credited(w) \in Nat
      BY Chain
  <2>5. Len(input[w]) = 0
      BY <1>1, <1>3, <1>5, <2>3, <2>4 DEF ChannelInv
  <2>6. Len(input'[w]) = 1 /\ Head(input'[w]) = called[w]
      BY <1>5, <1>8, <2>5
  <2>7. /\ credit[w] + SentInput(w) = Credited(w)
        /\ Len(input[w]) + Delivered(w) = SentInput(w)
        /\ credit[w] \in Nat /\ called[w] \in Nat
      BY <1>2, <1>3, <1>5 DEF ChannelInv
  <2>8. /\ credit'[w] + SentInput(w)' = Credited(w)'
        /\ Len(input'[w]) + Delivered(w)' = SentInput(w)'
    <3>1. Delivered(w) = called[w] - 1 /\ credit[w] + (called[w] - 1) = Credited(w)
        BY <2>3, <2>4, <2>5, <2>7
    <3>2. /\ credit'[w] = credit[w] - 1 /\ SentInput(w)' = called[w] /\ Len(input'[w]) = 1
          /\ Credited(w)' = Credited(w) /\ Delivered(w)' = Delivered(w)
        BY <1>8, <2>1, <2>3, <2>6
    <3>3. credit'[w] + SentInput(w)' = Credited(w)'
        BY <2>7, <3>1, <3>2
    <3>4. Len(input'[w]) + Delivered(w)' = SentInput(w)'
        BY <2>7, <3>1, <3>2
    <3>5. QED
        BY <3>3, <3>4
  <2>9. QED
    <3>1. ack'[w] + GotAck(w)' = Acked(w)'
        BY <1>2, <1>3, <2>1, <2>2 DEF ChannelInv
    <3>2. Len(output'[w]) + Returned(w)' = ResultOut(w)'
        BY <1>2, <1>3, <2>1, <2>2 DEF ChannelInv
    <3>3. input'[w] # << >> => Head(input'[w]) = SentInput(w)'
        BY <2>3, <2>6
    <3>4. output'[w] # << >> => Head(output'[w]) = ResultOut(w)'
        BY <1>2, <1>3, <2>1 DEF ChannelInv
    <3>5. QED
        BY <2>8, <3>1, <3>2, <3>3, <3>4 DEF ChannelInv
<1>10. QED
    BY <1>2, <1>4, <1>5, <1>7, <1>8, <1>9, WorkerFrame

LEMMA WorkerRecvAckInv ==
    ASSUME IInv, NEW w \in Workers, WorkerRecvAck(w) PROVE IInv'
<1>1. /\ pc[w] = "ack" /\ ack[w] > 0
      /\ ack' = [ack EXCEPT ![w] = ack[w] - 1]
      /\ pc' = [pc EXCEPT ![w] = "result"]
    BY DEF WorkerRecvAck
<1>2. /\ UNCHANGED << called, result, credit, input, output >>
      /\ UNCHANGED << inputRequest, outputRequest, inputBuffer, outputBuffer >>
      /\ UNCHANGED << poller, completed, granted, received, receivedCount >>
      /\ UNCHANGED << inferred, inferredCount, scheduled, pending, requests >>
    BY DEF WorkerRecvAck, appVars, mpiVars, bufVars, pollVars, inferVars
<1>3. TypeOK /\ ChannelInv(w)
    BY DEF IInv
<1>4. w \in Ranks /\ w # 0 /\ 0 \in Ranks
    BY RanksFinite
<1>5. called[w] \in Nat /\ called[w] > 0 /\ ack[w] \in Nat
  <2>1. called[w] > 0
      BY <1>1, <1>4 DEF IInv, DataInv
  <2>2. QED
      BY <2>1, <1>3, <1>4, Types
<1>6. pc \in [Ranks -> ControllerPC \cup WorkerPC] /\ ack \in [Ranks -> Nat]
    BY <1>3 DEF TypeOK
<1>7. TypeOK'
  <2>1. pc' \in [Ranks -> ControllerPC \cup WorkerPC] /\ pc'[0] = pc[0]
        /\ \A r \in Workers : pc'[r] = pc[r] \/ pc'[r] = "result"
      BY <1>1, <1>4, <1>6, RanksFinite DEF WorkerPC
  <2>2. ack' \in [Ranks -> Nat]
      BY <1>1, <1>4, <1>5, <1>6
  <2>3. QED
      BY <2>1, <2>2, <1>2, <1>3 DEF TypeOK, WorkerPC
<1>8. /\ pc'[w] = "result" /\ ack'[w] = ack[w] - 1 /\ pc'[0] = pc[0]
      /\ \A q \in Ranks \ {w} : UNCHANGED << pc[q], ack[q] >>
    BY <1>1, <1>4, <1>6
<1>9. ChannelInv(w)'
  <2>1. UNCHANGED << Credited(w), Delivered(w), Acked(w), ResultOut(w) >>
      BY <1>2, <1>8 DEF Credited, Delivered, Acked, ResultOut, InCall, Returned
  <2>2. UNCHANGED << SentInput(w), Returned(w) >>
      BY <1>1, <1>2, <1>8 DEF SentInput, Returned, Bit
  <2>3. GotAck(w)' = called[w] /\ GotAck(w) = called[w] - 1
      BY <1>1, <1>2, <1>5, <1>8 DEF GotAck, Returned, Bit
  <2>4. QED
      BY <1>2, <1>3, <1>5, <1>8, <2>1, <2>2, <2>3 DEF ChannelInv
<1>10. QED
    BY <1>2, <1>4, <1>5, <1>7, <1>8, <1>9, WorkerFrame

\* The result a worker receives is that of its current call: no earlier result
\* is left in the channel, and no later one can be.
LEMMA WorkerRecvResultInv ==
    ASSUME IInv, NEW w \in Workers, WorkerRecvResult(w) PROVE IInv'
<1>1. /\ pc[w] = "result" /\ output[w] # << >>
      /\ result' = [result EXCEPT ![w] = Head(output[w])]
      /\ output' = [output EXCEPT ![w] = Tail(output[w])]
      /\ pc' = [pc EXCEPT ![w] = "app"]
    BY DEF WorkerRecvResult
<1>2. /\ UNCHANGED << called, credit, input, ack >>
      /\ UNCHANGED << inputRequest, outputRequest, inputBuffer, outputBuffer >>
      /\ UNCHANGED << poller, completed, granted, received, receivedCount >>
      /\ UNCHANGED << inferred, inferredCount, scheduled, pending, requests >>
    BY DEF WorkerRecvResult, mpiVars, bufVars, pollVars, inferVars
<1>3. TypeOK /\ ChannelInv(w)
    BY DEF IInv
<1>4. w \in Ranks /\ w # 0 /\ 0 \in Ranks
    BY RanksFinite
<1>5. called[w] \in Nat /\ called[w] > 0 /\ output[w] \in Seq(0 .. MaxCalls)
  <2>1. called[w] > 0
      BY <1>1, <1>4 DEF IInv, DataInv
  <2>2. QED
      BY <2>1, <1>3, <1>4, Types
<1>6. /\ pc \in [Ranks -> ControllerPC \cup WorkerPC]
      /\ result \in [Ranks -> 0 .. MaxCalls]
      /\ output \in [Ranks -> Seq(0 .. MaxCalls)]
    BY <1>3 DEF TypeOK
<1>7. Head(output[w]) \in 0 .. MaxCalls /\ Tail(output[w]) \in Seq(0 .. MaxCalls)
      /\ Len(output[w]) \in Nat /\ Len(output[w]) > 0 /\ Len(Tail(output[w])) = Len(output[w]) - 1
      /\ (Len(output[w]) = 1 => Tail(output[w]) = << >>)
    BY <1>1, <1>5, TakeMessage
<1>8. TypeOK'
  <2>1. pc' \in [Ranks -> ControllerPC \cup WorkerPC] /\ pc'[0] = pc[0]
        /\ \A r \in Workers : pc'[r] = pc[r] \/ pc'[r] = "app"
      BY <1>1, <1>4, <1>6, RanksFinite DEF WorkerPC
  <2>2. result' \in [Ranks -> 0 .. MaxCalls] /\ output' \in [Ranks -> Seq(0 .. MaxCalls)]
      BY <1>1, <1>4, <1>6, <1>7
  <2>3. QED
      BY <2>1, <2>2, <1>2, <1>3 DEF TypeOK, WorkerPC
<1>9. /\ pc'[w] = "app" /\ result'[w] = Head(output[w]) /\ output'[w] = Tail(output[w])
      /\ pc'[0] = pc[0]
      /\ \A q \in Ranks \ {w} : UNCHANGED << pc[q], result[q], output[q] >>
    BY <1>1, <1>4, <1>6
<1>10. /\ ResultOut(w) <= Acked(w) /\ Acked(w) <= Delivered(w) /\ Delivered(w) <= SentInput(w)
       /\ ResultOut(w) \in Nat /\ Acked(w) \in Nat /\ Delivered(w) \in Nat /\ SentInput(w) \in Nat
    BY Chain
<1>11. SentInput(w) = called[w] /\ Returned(w) = called[w] - 1 /\ GotAck(w) = called[w]
    BY <1>1, <1>5 DEF SentInput, Returned, GotAck, Bit
<1>12. Len(output[w]) = 1 /\ ResultOut(w) = called[w]
  <2>1. Len(output[w]) + Returned(w) = ResultOut(w)
      BY <1>3 DEF ChannelInv
  <2>2. Len(output[w]) \in Nat /\ Len(output[w]) > 0 /\ called[w] \in Nat
      BY <1>5, <1>7
  <2>3. ResultOut(w) <= SentInput(w) /\ ResultOut(w) \in Nat
      BY <1>10
  <2>4. QED
      BY <2>1, <2>2, <2>3, <1>11, LastMessage
<1>13. result'[w] = called'[w]
    BY <1>1, <1>2, <1>3, <1>9, <1>12 DEF ChannelInv
<1>14. ChannelInv(w)'
  <2>1. UNCHANGED << Credited(w), Delivered(w), Acked(w), ResultOut(w) >>
      BY <1>2, <1>9 DEF Credited, Delivered, Acked, ResultOut, InCall, Returned
  <2>2. SentInput(w)' = called[w] /\ Returned(w)' = called[w] /\ GotAck(w)' = called[w]
      BY <1>1, <1>2, <1>5, <1>9 DEF SentInput, Returned, GotAck, Bit
  <2>3. Len(output'[w]) = 0 /\ output'[w] = << >>
      BY <1>5, <1>7, <1>9, <1>12
  <2>4. QED
      BY <1>2, <1>3, <1>5, <1>11, <1>12, <2>1, <2>2, <2>3 DEF ChannelInv
<1>15. QED
    BY <1>2, <1>4, <1>8, <1>9, <1>13, <1>14, WorkerFrame

\* The only input that can arrive is the one of the call the receive was posted for.
LEMMA DeliverInv ==
    ASSUME IInv, NEW w \in Workers, Deliver(w) PROVE IInv'
<1>1. /\ input[w] # << >> /\ inputRequest[w] = "posted"
      /\ inputBuffer' = [inputBuffer EXCEPT ![w] = Head(input[w])]
      /\ input' = [input EXCEPT ![w] = Tail(input[w])]
      /\ inputRequest' = [inputRequest EXCEPT ![w] = "filled"]
    BY DEF Deliver
<1>2. /\ UNCHANGED << pc, called, result, credit, ack, output, outputRequest, outputBuffer >>
      /\ UNCHANGED << poller, completed, granted, received, receivedCount >>
      /\ UNCHANGED << inferred, inferredCount, scheduled, pending, requests >>
    BY DEF Deliver, appVars, pollVars, inferVars
<1>3. TypeOK /\ CountersAgree /\ (\A r \in Workers : ChannelInv(r)) /\ PollerInv /\ RangeInv /\ DataInv
    BY DEF IInv
<1>4. w \in Ranks /\ w # 0 /\ 0 \in Ranks /\ Workers = Ranks \ {0} /\ MaxCalls \in Nat
    BY RanksFinite, ConfigAssumption
<1>5. /\ inputBuffer \in [Ranks -> 0 .. MaxCalls]
      /\ input \in [Ranks -> Seq(1 .. MaxCalls)]
      /\ inputRequest \in [Ranks -> {"null", "posted", "filled"}]
    BY <1>3 DEF TypeOK
<1>6. /\ input[w] \in Seq(1 .. MaxCalls) /\ Head(input[w]) \in 1 .. MaxCalls
      /\ Tail(input[w]) \in Seq(1 .. MaxCalls)
      /\ Len(input[w]) \in Nat /\ Len(input[w]) > 0 /\ Len(Tail(input[w])) = Len(input[w]) - 1
      /\ (Len(input[w]) = 1 => Tail(input[w]) = << >>)
    BY <1>1, <1>4, <1>5, TakeMessage
<1>7. TypeOK'
  <2>1. /\ inputBuffer' \in [Ranks -> 0 .. MaxCalls]
        /\ input' \in [Ranks -> Seq(1 .. MaxCalls)]
        /\ inputRequest' \in [Ranks -> {"null", "posted", "filled"}]
      BY <1>1, <1>4, <1>5, <1>6
  <2>2. QED
      BY <2>1, <1>2, <1>3 DEF TypeOK
<1>8. /\ inputBuffer'[w] = Head(input[w]) /\ input'[w] = Tail(input[w]) /\ inputRequest'[w] = "filled"
      /\ \A q \in Ranks \ {w} : UNCHANGED << inputBuffer[q], input[q], inputRequest[q] >>
    BY <1>1, <1>4, <1>5
<1>9. InCall
    BY <1>1, <1>3 DEF RangeInv
<1>10. called[0] \in Nat /\ called[0] > 0 /\ Returned(0) = called[0] - 1
    BY <1>3, <1>4, <1>9, Types DEF DataInv, InCall, Returned
<1>11. Delivered(w) = called[0] - 1 /\ Delivered(w)' = called[0]
    BY <1>1, <1>2, <1>8, <1>9, <1>10 DEF Delivered, InCall, Returned, Bit
<1>12. /\ SentInput(w) <= Credited(w) /\ Credited(w) <= Returned(0) + 1
       /\ SentInput(w) \in Nat /\ Credited(w) \in Nat
    BY Chain
<1>13. SentInput(w) = called[0] /\ Len(input[w]) = 1
  <2>1. Len(input[w]) + Delivered(w) = SentInput(w)
      BY <1>3 DEF ChannelInv
  <2>2. Len(input[w]) \in Nat /\ Len(input[w]) > 0
      BY <1>6
  <2>3. SentInput(w) <= called[0] /\ SentInput(w) \in Nat
    <3>1. SentInput(w) <= Returned(0) + 1
        BY <1>12, <1>10
    <3>2. QED
        BY <3>1, <1>10, <1>12
  <2>4. QED
      BY <2>1, <2>2, <2>3, <1>10, <1>11, LastMessage
<1>14. Head(input[w]) = called[0]
    BY <1>1, <1>3, <1>13 DEF ChannelInv
<1>15. CountersAgree'
    BY <1>2, <1>3 DEF CountersAgree
<1>16. ASSUME NEW r \in Workers PROVE ChannelInv(r)'
  <2>1. UNCHANGED << Credited(r), Acked(r), ResultOut(r), SentInput(r), GotAck(r), Returned(r) >>
      BY <1>2 DEF Credited, Acked, ResultOut, InCall, Returned, SentInput, GotAck
  <2>2. CASE r = w
    <3>1. Len(input'[w]) = 0 /\ input'[w] = << >>
        BY <1>6, <1>8, <1>13
    <3>2. QED
        BY <2>1, <2>2, <3>1, <1>2, <1>3, <1>10, <1>11, <1>13 DEF ChannelInv
  <2>3. CASE r # w
    <3>1. UNCHANGED Delivered(r) /\ UNCHANGED input[r]
        BY <1>2, <1>4, <1>8, <2>3 DEF Delivered, InCall, Returned
    <3>2. QED
        BY <2>1, <3>1, <1>2, <1>3, ChannelFrame
  <2>4. QED
      BY <2>2, <2>3
<1>17. PollerInv'
    BY <1>1, <1>2, <1>3, <1>4, <1>8 DEF PollerInv, TypeOK
<1>18. RangeInv'
    BY <1>2, <1>3, <1>9 DEF RangeInv, RequestOK, RanksOf, InCall
<1>19. DataInv'
    BY <1>2, <1>3, <1>4, <1>8, <1>14 DEF DataInv, Inferred, RanksOf, InCall
<1>20. QED
    BY <1>7, <1>15, <1>16, <1>17, <1>18, <1>19 DEF IInv

\* A step of the controller in the middle of a call leaves the calls of all ranks.
LEMMA CallFrame ==
    ASSUME pc[0] # "app", pc'[0] # "app", called' = called,
           \A q \in Workers : pc'[q] = pc[q]
    PROVE  /\ InCall /\ InCall' /\ UNCHANGED Returned(0)
           /\ \A r \in Workers : UNCHANGED << SentInput(r), GotAck(r), Returned(r) >>
BY DEF InCall, Returned, SentInput, GotAck

\* A result is sent when the data leaves the controller buffer; it holds the call's
\* output at that time, and the result of the call before has been received.
LEMMA InjectInv ==
    ASSUME IInv, NEW w \in Workers, Inject(w) PROVE IInv'
<1>1. /\ w \in outputRequest
      /\ output' = [output EXCEPT ![w] = Append(output[w], outputBuffer[w])]
      /\ outputRequest' = outputRequest \ {w}
    BY DEF Inject
<1>2. /\ UNCHANGED << pc, called, result, credit, input, ack, inputRequest, inputBuffer, outputBuffer >>
      /\ UNCHANGED << poller, completed, granted, received, receivedCount >>
      /\ UNCHANGED << inferred, inferredCount, scheduled, pending, requests >>
    BY DEF Inject, appVars, bufVars, pollVars, inferVars
<1>3. TypeOK /\ CountersAgree /\ (\A r \in Workers : ChannelInv(r)) /\ PollerInv /\ RangeInv /\ DataInv
    BY DEF IInv
<1>4. w \in Ranks /\ 0 \in Ranks /\ Workers = Ranks \ {0}
    BY RanksFinite
<1>5. /\ output \in [Ranks -> Seq(0 .. MaxCalls)] /\ outputRequest \subseteq Workers
      /\ output[w] \in Seq(0 .. MaxCalls) /\ outputBuffer[w] \in 0 .. MaxCalls
      /\ Len(output[w]) \in Nat
  <2>1. output \in [Ranks -> Seq(0 .. MaxCalls)] /\ outputRequest \subseteq Workers
      BY <1>3 DEF TypeOK
  <2>2. QED
      BY <2>1, <1>3, <1>4, Types
<1>6. TypeOK'
  <2>1. Append(output[w], outputBuffer[w]) \in Seq(0 .. MaxCalls)
      BY <1>5
  <2>2. output' \in [Ranks -> Seq(0 .. MaxCalls)] /\ outputRequest' \subseteq Workers
      BY <2>1, <1>1, <1>5
  <2>3. QED
      BY <2>2, <1>2, <1>3 DEF TypeOK
<1>7. /\ output'[w] = Append(output[w], outputBuffer[w])
      /\ \A q \in Ranks \ {w} : output'[q] = output[q]
    BY <1>1, <1>4, <1>5
<1>8. InCall /\ w \in inferred /\ w \notin pending /\ w \in received \ completed
    BY <1>1, <1>3 DEF RangeInv
<1>9. called[0] \in Nat /\ Returned(0) = called[0] - 1
    BY <1>3, <1>4, <1>8, Types DEF InCall, Returned
<1>10. ResultOut(w) = Returned(0) /\ ResultOut(w)' = called[0] /\ Acked(w) = called[0]
    BY <1>1, <1>2, <1>8, <1>9 DEF ResultOut, Acked, InCall, Returned, Bit
<1>11. Len(output[w]) = 0
  <2>1. Len(output[w]) + Returned(w) = ResultOut(w)
      BY <1>3 DEF ChannelInv
  <2>2. /\ Acked(w) <= Delivered(w) /\ Delivered(w) <= SentInput(w) /\ SentInput(w) <= Returned(w) + 1
        /\ Delivered(w) \in Nat /\ SentInput(w) \in Nat /\ Returned(w) \in Nat
      BY Chain
  <2>3. called[0] <= Returned(w) + 1
      BY <2>2, <1>9, <1>10
  <2>4. QED
      BY <2>1, <2>2, <2>3, <1>5, <1>9, <1>10
<1>12. outputBuffer[w] = called[0]
    BY <1>3, <1>8 DEF DataInv, Inferred
<1>13. Len(output'[w]) = 1 /\ Head(output'[w]) = called[0]
    BY <1>5, <1>7, <1>11, <1>12
<1>14. ASSUME NEW r \in Workers PROVE ChannelInv(r)'
  <2>1. UNCHANGED << Credited(r), Delivered(r), Acked(r), SentInput(r), GotAck(r), Returned(r) >>
      BY <1>2 DEF Credited, Delivered, Acked, InCall, Returned, SentInput, GotAck
  <2>2. CASE r = w
    <3>1. Len(output[w]) + Returned(w) = ResultOut(w) /\ Returned(w) \in Nat
        BY <1>3, Chain DEF ChannelInv
    <3>2. Len(output'[w]) + Returned(w) = called[0]
        BY <3>1, <1>9, <1>10, <1>11, <1>13
    <3>3. QED
        BY <2>1, <2>2, <3>2, <1>2, <1>3, <1>10, <1>13 DEF ChannelInv
  <2>3. CASE r # w
    <3>1. UNCHANGED ResultOut(r) /\ UNCHANGED output[r]
        BY <1>1, <1>2, <1>4, <1>7, <2>3 DEF ResultOut, InCall, Returned
    <3>2. QED
        BY <2>1, <3>1, <1>2, <1>3, ChannelFrame
  <2>4. QED
      BY <2>2, <2>3
<1>15. CountersAgree' /\ PollerInv'
    BY <1>2, <1>3 DEF CountersAgree, PollerInv
<1>16. RangeInv'
    BY <1>1, <1>2, <1>3 DEF RangeInv, RequestOK, RanksOf, InCall
<1>17. DataInv'
    BY <1>2, <1>3 DEF DataInv, Inferred, RanksOf, InCall
<1>18. QED
    BY <1>6, <1>14, <1>15, <1>16, <1>17 DEF IInv

\* MPI_Testsome reports inputs that no earlier step of the call has recorded.
LEMMA TestSomeInv ==
    ASSUME IInv, TestSome PROVE IInv'
<1>1. /\ poller = "test" /\ poller' = "lock"
      /\ IF Async THEN pc[0] # "join" /\ receivedCount < N ELSE pc[0] = "poll"
      /\ completed' = Filled
      /\ inputRequest' = [r \in Ranks |-> IF r \in Filled THEN "null" ELSE inputRequest[r]]
    BY DEF TestSome
<1>2. /\ UNCHANGED << pc, called, result, credit, input, ack, output, outputRequest >>
      /\ UNCHANGED << inputBuffer, outputBuffer, granted, received, receivedCount >>
      /\ UNCHANGED << inferred, inferredCount, scheduled, pending, requests >>
    BY DEF TestSome, appVars, netVars, bufVars, inferVars
<1>3. TypeOK /\ CountersAgree /\ (\A r \in Workers : ChannelInv(r)) /\ PollerInv /\ RangeInv /\ DataInv
    BY DEF IInv
<1>4. 0 \in Ranks /\ Workers = Ranks \ {0}
    BY RanksFinite
<1>5. inputRequest \in [Ranks -> {"null", "posted", "filled"}] /\ received \subseteq Ranks
    BY <1>3 DEF TypeOK
<1>6. Filled \subseteq Workers /\ Filled \cap received = {} /\ completed = {}
    BY <1>1, <1>3, <1>4 DEF Filled, PollerInv
<1>7. /\ \A r \in Filled : inputRequest'[r] = "null" /\ inputRequest[r] = "filled"
      /\ \A r \in Ranks \ Filled : inputRequest'[r] = inputRequest[r]
      /\ \A r \in Workers : inputRequest'[r] = "posted" <=> inputRequest[r] = "posted"
    BY <1>1, <1>4 DEF Filled
<1>8. InCall
    BY <1>1, <1>3 DEF PollerInv, InCall
<1>9. TypeOK'
  <2>1. inputRequest' \in [Ranks -> {"null", "posted", "filled"}]
      BY <1>1, <1>5
  <2>2. QED
      BY <2>1, <1>1, <1>2, <1>3, <1>6 DEF TypeOK, PollerPC
<1>10. ASSUME NEW r \in Workers PROVE ChannelInv(r)'
  <2>1. UNCHANGED << Credited(r), ResultOut(r), SentInput(r), GotAck(r), Returned(r) >>
      BY <1>2 DEF Credited, ResultOut, InCall, Returned, SentInput, GotAck
  <2>2. UNCHANGED << Delivered(r), Acked(r) >>
      BY <1>1, <1>2, <1>6, <1>7 DEF Delivered, Acked, InCall, Returned
  <2>3. QED
      BY <2>1, <2>2, <1>2, <1>3, ChannelFrame
<1>11. CountersAgree'
    BY <1>2, <1>3 DEF CountersAgree
<1>12. PollerInv'
    BY <1>1, <1>2, <1>3, <1>4, <1>5, <1>6, <1>7 DEF PollerInv
<1>13. RangeInv'
    BY <1>1, <1>2, <1>3, <1>6, <1>8 DEF RangeInv, RequestOK, RanksOf, InCall
<1>14. DataInv'
    BY <1>2, <1>3, <1>7 DEF DataInv, Inferred, RanksOf, InCall
<1>15. QED
    BY <1>9, <1>10, <1>11, <1>12, <1>13, <1>14 DEF IInv

\* The number of elements of a set of ranks, and of one with one more rank.
LEMMA RankSet ==
    ASSUME NEW S \in SUBSET Ranks
    PROVE  /\ IsFiniteSet(S) /\ Cardinality(S) \in 0 .. N
           /\ Cardinality(S) = N => S = Ranks
           /\ \A r \in Ranks \ S : Cardinality(S \cup {r}) = Cardinality(S) + 1
<1>1. IsFiniteSet(Ranks) /\ Cardinality(Ranks) = N /\ N \in Nat
    BY RanksFinite, ConfigAssumption
<1>2. IsFiniteSet(S) /\ Cardinality(S) <= N /\ (Cardinality(S) = N => S = Ranks)
    BY <1>1, FS_Subset
<1>3. Cardinality(S) \in Nat
    BY <1>2, FS_CardinalityType
<1>4. \A r \in Ranks \ S : Cardinality(S \cup {r}) = Cardinality(S) + 1
    BY <1>2, FS_AddElement
<1>5. QED
    BY <1>1, <1>2, <1>3, <1>4

LEMMA RecordInv ==
    ASSUME IInv, NEW r \in completed, Record(r) PROVE IInv'
<1>1. /\ poller \in {"lock", "record"} /\ poller' = "grant"
      /\ received' = received \cup {r} /\ receivedCount' = receivedCount + 1
    BY DEF Record
<1>2. /\ UNCHANGED << pc, called, result, credit, input, ack, output, inputRequest, outputRequest >>
      /\ UNCHANGED << inputBuffer, outputBuffer, completed, granted >>
      /\ UNCHANGED << inferred, inferredCount, scheduled, pending, requests >>
    BY DEF Record, appVars, netVars, mpiVars, bufVars, inferVars
<1>3. TypeOK /\ CountersAgree /\ (\A q \in Workers : ChannelInv(q)) /\ PollerInv /\ RangeInv /\ DataInv
    BY DEF IInv
<1>4. 0 \in Ranks /\ Workers = Ranks \ {0}
    BY RanksFinite
<1>5. completed \subseteq Workers /\ received \subseteq Ranks
    BY <1>3 DEF TypeOK
<1>6. r \in Workers /\ completed \cap received = {} /\ r \notin received
    BY <1>1, <1>3, <1>5 DEF PollerInv
<1>7. receivedCount' = Cardinality(received') /\ receivedCount' \in 0 .. N /\ received' \subseteq Ranks
  <2>1. received' \subseteq Ranks
      BY <1>1, <1>4, <1>5, <1>6
  <2>2. Cardinality(received') = Cardinality(received) + 1
      BY <1>1, <1>4, <1>5, <1>6, RankSet
  <2>3. QED
      BY <2>1, <2>2, <1>1, <1>3, RankSet DEF CountersAgree
<1>8. TypeOK'
    BY <1>1, <1>2, <1>3, <1>7 DEF TypeOK, PollerPC
<1>9. ASSUME NEW q \in Workers PROVE ChannelInv(q)'
  <2>1. UNCHANGED << Credited(q), Delivered(q), ResultOut(q), SentInput(q), GotAck(q), Returned(q) >>
      BY <1>2 DEF Credited, Delivered, ResultOut, InCall, Returned, SentInput, GotAck
  <2>2. UNCHANGED Acked(q)
      BY <1>1, <1>2 DEF Acked, InCall, Returned
  <2>3. QED
      BY <2>1, <2>2, <1>2, <1>3, ChannelFrame
<1>10. CountersAgree'
    BY <1>2, <1>3, <1>7 DEF CountersAgree
<1>11. PollerInv'
  <2>1. completed' \cap received' = {r}
      BY <1>1, <1>2, <1>6
  <2>2. QED
      BY <2>1, <1>1, <1>2, <1>3, <1>6 DEF PollerInv
<1>12. RangeInv'
    BY <1>1, <1>2, <1>3, <1>4, <1>6 DEF RangeInv, RequestOK, RanksOf, InCall
<1>13. DataInv'
    BY <1>2, <1>3 DEF DataInv, Inferred, RanksOf, InCall
<1>14. QED
    BY <1>8, <1>9, <1>10, <1>11, <1>12, <1>13 DEF IInv

\* Acknowledging the recorded input and granting the next credits of its tier.
LEMMA AckAndGrantInv ==
    ASSUME IInv, NEW r \in completed, AckAndGrant(r) PROVE IInv'
<1> DEFINE G == Grants(TierOf(r), 2)
<1>1. /\ poller = "grant" /\ r \in received
      /\ ack' = [ack EXCEPT ![r] = ack[r] + 1]
      /\ granted' = granted \cup G
      /\ credit' = [q \in Ranks |-> IF q \in G THEN credit[q] + 1 ELSE credit[q]]
      /\ completed' = completed \ {r}
    BY DEF AckAndGrant, SendCredits
<1>2. IF completed' = {}
      THEN poller' = "test" /\ pc' = IF Async THEN pc ELSE [pc EXCEPT ![0] = "flush"]
      ELSE poller' = "record" /\ pc' = pc
    BY DEF AckAndGrant
<1>3. /\ UNCHANGED << called, result, input, output, inputRequest, outputRequest >>
      /\ UNCHANGED << inputBuffer, outputBuffer, received, receivedCount >>
      /\ UNCHANGED << inferred, inferredCount, scheduled, pending, requests >>
    BY DEF AckAndGrant, appVars, mpiVars, bufVars, inferVars
<1>4. TypeOK /\ CountersAgree /\ (\A q \in Workers : ChannelInv(q)) /\ PollerInv /\ RangeInv /\ DataInv
    BY DEF IInv
<1>5. 0 \in Ranks /\ Workers = Ranks \ {0}
    BY RanksFinite
<1>6. /\ completed \subseteq Workers /\ granted \subseteq Workers /\ pc \in [Ranks -> ControllerPC \cup WorkerPC]
      /\ credit \in [Ranks -> Nat] /\ ack \in [Ranks -> Nat] /\ pc[0] \in ControllerPC
      /\ \A q \in Workers : pc[q] \in WorkerPC
    BY <1>4 DEF TypeOK
<1>7. G \subseteq Workers \ granted
    BY DEF Grants, Tier
<1>8. r \in Workers /\ completed \cap received = {r}
    BY <1>1, <1>4, <1>6 DEF PollerInv
<1>9. /\ (~Async => pc[0] = "poll") /\ (Async => pc[0] \notin {"wait", "app"}) /\ Async \in BOOLEAN
    BY <1>1, <1>4, ConfigAssumption DEF PollerInv
<1>10. /\ pc'[0] = pc[0] \/ (~Async /\ pc'[0] = "flush" /\ completed' = {})
       /\ \A q \in Workers : pc'[q] = pc[q]
       /\ pc' \in [Ranks -> ControllerPC \cup WorkerPC] /\ pc'[0] \in ControllerPC
    BY <1>2, <1>5, <1>6 DEF ControllerPC
<1>11. InCall /\ InCall'
       /\ \A q \in Workers : UNCHANGED << Returned(0), SentInput(q), GotAck(q), Returned(q) >>
    BY <1>3, <1>9, <1>10, CallFrame
<1>12. TypeOK'
  <2>1. ack' \in [Ranks -> Nat] /\ credit' \in [Ranks -> Nat]
      BY <1>1, <1>5, <1>6
  <2>2. poller' \in PollerPC /\ completed' \subseteq Workers /\ granted' \subseteq Workers
      BY <1>1, <1>2, <1>6, <1>7 DEF PollerPC
  <2>3. \A q \in Workers : pc'[q] \in WorkerPC
      BY <1>6, <1>10
  <2>4. QED
      BY <1>3, <1>4, <1>10, <2>1, <2>2, <2>3 DEF TypeOK
<1>13. ASSUME NEW q \in Workers PROVE ChannelInv(q)'
  <2>1. UNCHANGED << Delivered(q), ResultOut(q) >>
      BY <1>3, <1>11 DEF Delivered, ResultOut
  <2>2. Returned(0) \in Nat /\ credit[q] \in Nat /\ ack[q] \in Nat
        /\ SentInput(q) \in Nat /\ GotAck(q) \in Nat
      BY <1>5, <1>6, Chain
  <2>3. credit'[q] + SentInput(q) = Credited(q)'
    <3>1. credit[q] + SentInput(q) = Credited(q)
        BY <1>4 DEF ChannelInv
    <3>2. CASE q \in G
      <4>1. Credited(q) = Returned(0) /\ Credited(q)' = Returned(0) + 1 /\ credit'[q] = credit[q] + 1
          BY <1>1, <1>5, <1>7, <1>11, <2>2, <3>2 DEF Credited, Bit
      <4>2. QED
          BY <2>2, <3>1, <4>1
    <3>3. CASE q \notin G
      <4>1. Credited(q)' = Credited(q) /\ credit'[q] = credit[q]
          BY <1>1, <1>5, <1>11, <3>3 DEF Credited
      <4>2. QED
          BY <3>1, <4>1
    <3>4. QED
        BY <3>2, <3>3
  <2>4. ack'[q] + GotAck(q) = Acked(q)'
    <3>1. ack[q] + GotAck(q) = Acked(q)
        BY <1>4 DEF ChannelInv
    <3>2. CASE q = r
      <4>1. Acked(q) = Returned(0) /\ Acked(q)' = Returned(0) + 1 /\ ack'[q] = ack[q] + 1
          BY <1>1, <1>3, <1>5, <1>6, <1>11, <2>2, <3>2 DEF Acked, Bit
      <4>2. QED
          BY <2>2, <3>1, <4>1
    <3>3. CASE q # r
      <4>1. Acked(q)' = Acked(q) /\ ack'[q] = ack[q]
          BY <1>1, <1>3, <1>5, <1>6, <1>11, <3>3 DEF Acked
      <4>2. QED
          BY <3>1, <4>1
    <3>4. QED
        BY <3>2, <3>3
  <2>5. QED
      BY <1>3, <1>4, <1>11, <2>1, <2>3, <2>4 DEF ChannelInv
<1>14. CountersAgree'
    BY <1>3, <1>4 DEF CountersAgree
<1>15. PollerInv'
  <2>1. completed' \cap received' = {}
      BY <1>1, <1>3, <1>8
  <2>2. poller' \in {"test", "record"} /\ (poller' = "test" => completed' = {})
      BY <1>2
  <2>3. ~Async /\ poller' = "record" => pc'[0] = "poll"
      BY <1>2, <1>9
  <2>4. Async => pc'[0] = pc[0]
      BY <1>10
  <2>5. QED
      BY <1>1, <1>3, <1>4, <1>9, <2>1, <2>2, <2>3, <2>4 DEF PollerInv
<1>16. RangeInv'
  <2>1. pc'[0] \notin {"join", "wait", "app"} \/ pc'[0] = pc[0]
      BY <1>10
  <2>2. QED
      BY <1>1, <1>3, <1>4, <1>11, <2>1 DEF RangeInv, RequestOK, RanksOf
<1>17. DataInv'
  <2>1. \A q \in Workers : pc'[q] = pc[q]
      BY <1>10
  <2>2. \A q \in Ranks : pc'[q] # "app" => called'[q] > 0
    <3>1. \A q \in Ranks : pc[q] # "app" => called[q] > 0
        BY <1>4 DEF DataInv
    <3>2. \A q \in Ranks : pc'[q] # "app" => pc[q] # "app"
        BY <1>5, <1>11, <2>1 DEF InCall
    <3>3. QED
        BY <3>1, <3>2, <1>3
  <2>3. QED
      BY <1>3, <1>4, <1>11, <2>1, <2>2 DEF DataInv, Inferred, RanksOf
<1>18. QED
    BY <1>12, <1>13, <1>14, <1>15, <1>16, <1>17 DEF IInv

LEMMA ProgressThreadEndInv ==
    ASSUME IInv, ProgressThreadEnd PROVE IInv'
<1>1. Async /\ poller = "test" /\ poller' = "off"
    BY DEF ProgressThreadEnd
<1>2. /\ UNCHANGED << pc, called, result, credit, input, ack, output, inputRequest, outputRequest >>
      /\ UNCHANGED << inputBuffer, outputBuffer, completed, granted, received, receivedCount >>
      /\ UNCHANGED << inferred, inferredCount, scheduled, pending, requests >>
    BY DEF ProgressThreadEnd, appVars, netVars, mpiVars, bufVars, inferVars
<1>3. TypeOK /\ CountersAgree /\ (\A q \in Workers : ChannelInv(q)) /\ PollerInv /\ RangeInv /\ DataInv
    BY DEF IInv
<1>4. TypeOK'
    BY <1>1, <1>2, <1>3 DEF TypeOK, PollerPC
<1>5. CountersAgree' /\ PollerInv'
    BY <1>1, <1>2, <1>3 DEF CountersAgree, PollerInv
<1>6. ASSUME NEW q \in Workers PROVE ChannelInv(q)'
    BY <1>2, <1>3 DEF ChannelInv, Credited, Delivered, Acked, ResultOut, SentInput, GotAck, Returned, InCall
<1>7. RangeInv' /\ DataInv'
    BY <1>2, <1>3 DEF RangeInv, RequestOK, DataInv, Inferred, RanksOf, InCall
<1>8. QED
    BY <1>4, <1>5, <1>6, <1>7 DEF IInv

\* A new call: every count starts from the calls the controller returned from.
LEMMA ControllerCallInv ==
    ASSUME IInv, ControllerCall PROVE IInv'
<1>1. /\ pc[0] = "app" /\ called[0] < MaxCalls
      /\ called' = [called EXCEPT ![0] = called[0] + 1]
      /\ pc' = [pc EXCEPT ![0] = "top"]
      /\ inputRequest' = [r \in Ranks |-> IF r = 0 THEN "null" ELSE "posted"]
      /\ granted' = InitialGrants
      /\ credit' = [r \in Ranks |-> IF r \in InitialGrants THEN credit[r] + 1 ELSE credit[r]]
    BY DEF ControllerCall, SendCredits, Goto
<1>2. /\ received' = {0} /\ receivedCount' = 1
      /\ inferred' = {} /\ inferredCount' = 0 /\ scheduled' = {} /\ pending' = {}
      /\ requests' = {} /\ completed' = {} /\ poller' = "test"
    BY DEF ControllerCall
<1>3. UNCHANGED << result, input, ack, output, outputRequest, inputBuffer, outputBuffer >>
    BY DEF ControllerCall, bufVars
<1>4. TypeOK /\ CountersAgree /\ (\A q \in Workers : ChannelInv(q)) /\ PollerInv /\ RangeInv /\ DataInv
    BY DEF IInv
<1>5. 0 \in Ranks /\ Workers = Ranks \ {0} /\ N \in Nat /\ N > 0 /\ MaxCalls \in Nat
    BY RanksFinite, ConfigAssumption
<1>6. InitialGrants \subseteq Workers
    BY DEF InitialGrants
<1>7. /\ pc \in [Ranks -> ControllerPC \cup WorkerPC] /\ called \in [Ranks -> 0 .. MaxCalls]
      /\ credit \in [Ranks -> Nat] /\ \A q \in Workers : pc[q] \in WorkerPC
    BY <1>4 DEF TypeOK
<1>8. /\ pc'[0] = "top" /\ called'[0] = called[0] + 1 /\ called[0] \in Nat
      /\ \A q \in Workers : UNCHANGED << pc[q], called[q] >>
      /\ \A q \in Workers : inputRequest'[q] = "posted"
      /\ inputRequest'[0] = "null"
    BY <1>1, <1>5, <1>7
<1>9. ~InCall /\ InCall' /\ outputRequest = {}
    BY <1>1, <1>4, <1>8 DEF InCall, RangeInv
<1>10. Returned(0) = called[0] /\ Returned(0)' = called[0]
    BY <1>1, <1>8 DEF Returned
<1>11. TypeOK'
  <2>1. pc' \in [Ranks -> ControllerPC \cup WorkerPC] /\ pc'[0] \in ControllerPC
        /\ \A q \in Workers : pc'[q] \in WorkerPC
      BY <1>1, <1>5, <1>7, <1>8 DEF ControllerPC
  <2>2. called' \in [Ranks -> 0 .. MaxCalls]
      BY <1>1, <1>5, <1>7
  <2>3. credit' \in [Ranks -> Nat] /\ inputRequest' \in [Ranks -> {"null", "posted", "filled"}]
      BY <1>1, <1>7
  <2>4. granted' \subseteq Workers /\ completed' \subseteq Workers /\ poller' \in PollerPC
      BY <1>1, <1>2, <1>6 DEF PollerPC
  <2>5. /\ received' \subseteq Ranks /\ receivedCount' \in 0 .. N
        /\ inferred' \subseteq Ranks /\ inferredCount' \in 0 .. N /\ scheduled' \subseteq Ranks
        /\ pending' \subseteq Ranks
        /\ requests' \subseteq [first : Ranks, end : 1 .. N, start : Nat, count : Nat, done : BOOLEAN]
      BY <1>2, <1>5
  <2>6. QED
      BY <2>1, <2>2, <2>3, <2>4, <2>5, <1>3, <1>4 DEF TypeOK
<1>12. CountersAgree'
    BY <1>2, FS_EmptySet, FS_Singleton DEF CountersAgree
<1>13. ASSUME NEW q \in Workers PROVE ChannelInv(q)'
  <2>1. UNCHANGED << SentInput(q), GotAck(q), Returned(q) >>
      BY <1>8 DEF SentInput, GotAck, Returned
  <2>2. UNCHANGED << Delivered(q), Acked(q), ResultOut(q) >>
      BY <1>2, <1>8, <1>9, <1>10 DEF Delivered, Acked, ResultOut, Bit
  <2>3. credit'[q] + SentInput(q) = Credited(q)'
    <3>1. credit[q] + SentInput(q) = Credited(q) /\ Credited(q) = called[0]
        BY <1>4, <1>8, <1>9, <1>10 DEF ChannelInv, Credited, Bit
    <3>2. credit[q] \in Nat /\ SentInput(q) \in Nat
        BY <1>5, <1>7, Chain
    <3>3. CASE q \in InitialGrants
      <4>1. Credited(q)' = called[0] + 1 /\ credit'[q] = credit[q] + 1
          BY <1>1, <1>5, <1>9, <1>10, <3>3 DEF Credited, Bit
      <4>2. QED
          BY <1>8, <3>1, <3>2, <4>1
    <3>4. CASE q \notin InitialGrants
      <4>1. Credited(q)' = called[0] /\ credit'[q] = credit[q]
          BY <1>1, <1>5, <1>8, <1>9, <1>10, <3>4 DEF Credited, Bit
      <4>2. QED
          BY <3>1, <4>1
    <3>5. QED
        BY <3>3, <3>4
  <2>4. QED
      BY <1>3, <1>4, <2>1, <2>2, <2>3 DEF ChannelInv
<1>14. PollerInv'
    BY <1>2, <1>8, <1>5, <1>4 DEF PollerInv
<1>15. RangeInv'
    BY <1>2, <1>3, <1>8, <1>9 DEF RangeInv
<1>16. DataInv'
  <2>1. \A q \in Workers : pc'[q] = "app" => result'[q] = called'[q]
      BY <1>3, <1>4, <1>8 DEF DataInv
  <2>2. \A q \in Ranks : pc'[q] # "app" => called'[q] > 0
      BY <1>4, <1>5, <1>8 DEF DataInv
  <2>3. QED
      BY <1>2, <1>8, <1>9, <2>1, <2>2 DEF DataInv, Inferred
<1>17. QED
    BY <1>11, <1>12, <1>13, <1>14, <1>15, <1>16 DEF IInv

\* The main thread moves from one place of its loop to another.
LEMMA LoopStep ==
    ASSUME IInv, NEW label \in {"top", "poll", "flush", "collect", "select", "join"},
           pc[0] \in {"top", "poll", "collect", "select"}, Goto(label),
           UNCHANGED << called, result, credit, input, ack, output, inputRequest, outputRequest >>,
           UNCHANGED << inputBuffer, outputBuffer, poller, completed, granted, received, receivedCount >>,
           UNCHANGED << inferred, inferredCount, scheduled, pending, requests >>,
           pc[0] = "poll" => poller = "test",
           label = "poll" => ~Async,
           label = "join" => inferred = Ranks
    PROVE  IInv'
<1>1. TypeOK /\ CountersAgree /\ (\A q \in Workers : ChannelInv(q)) /\ PollerInv /\ RangeInv /\ DataInv
    BY DEF IInv
<1>2. 0 \in Ranks /\ Workers = Ranks \ {0}
    BY RanksFinite
<1>3. /\ pc \in [Ranks -> ControllerPC \cup WorkerPC] /\ \A q \in Workers : pc[q] \in WorkerPC
    BY <1>1 DEF TypeOK
<1>4. /\ pc' = [pc EXCEPT ![0] = label] /\ pc'[0] = label /\ pc'[0] \in ControllerPC
      /\ \A q \in Workers : pc'[q] = pc[q]
      /\ pc' \in [Ranks -> ControllerPC \cup WorkerPC]
    BY <1>2, <1>3 DEF Goto, ControllerPC
<1>5. InCall /\ InCall'
      /\ \A q \in Workers : UNCHANGED << Returned(0), SentInput(q), GotAck(q), Returned(q) >>
    BY <1>4, CallFrame
<1>6. TypeOK'
    BY <1>1, <1>3, <1>4 DEF TypeOK
<1>7. CountersAgree'
    BY <1>1 DEF CountersAgree
<1>8. ASSUME NEW q \in Workers PROVE ChannelInv(q)'
  <2>1. UNCHANGED << Credited(q), Delivered(q), Acked(q), ResultOut(q) >>
      BY <1>5 DEF Credited, Delivered, Acked, ResultOut
  <2>2. QED
      BY <1>1, <1>5, <2>1, ChannelFrame
<1>9. PollerInv'
  <2>1. ~Async => poller \notin {"lock", "record", "grant"}
      BY <1>1 DEF PollerInv
  <2>2. QED
      BY <1>1, <1>4, <2>1 DEF PollerInv
<1>10. RangeInv'
    BY <1>1, <1>4, <1>5 DEF RangeInv, RequestOK, RanksOf
<1>11. DataInv'
  <2>1. \A q \in Ranks : pc'[q] # "app" => called'[q] > 0
      BY <1>1, <1>2, <1>4 DEF DataInv
  <2>2. QED
      BY <1>1, <1>4, <1>5, <2>1 DEF DataInv, Inferred, RanksOf
<1>12. QED
    BY <1>6, <1>7, <1>8, <1>9, <1>10, <1>11 DEF IInv

LEMMA LoopTopInv ==
    ASSUME IInv, LoopTop PROVE IInv'
<1>1. /\ pc[0] = "top"
      /\ Goto(IF inferredCount >= N THEN "join"
              ELSE IF ~Async /\ receivedCount < N /\ Filled # {} THEN "poll" ELSE "flush")
      /\ UNCHANGED << called, result, credit, input, ack, output, inputRequest, outputRequest >>
      /\ UNCHANGED << inputBuffer, outputBuffer, poller, completed, granted, received, receivedCount >>
      /\ UNCHANGED << inferred, inferredCount, scheduled, pending, requests >>
    BY DEF LoopTop, appVars, netVars, mpiVars, bufVars, pollVars, inferVars
<1>2. inferredCount >= N => inferred = Ranks
  <2>1. inferred \subseteq Ranks /\ inferredCount \in 0 .. N /\ inferredCount = Cardinality(inferred)
      BY DEF IInv, TypeOK, CountersAgree
  <2>2. N \in Nat
      BY ConfigAssumption
  <2>3. QED
      BY <2>1, <2>2, RankSet
<1>3. QED
    BY <1>1, <1>2, LoopStep

LEMMA NothingFinishedInv ==
    ASSUME IInv, NothingFinished PROVE IInv'
BY LoopStep DEF NothingFinished, appVars, netVars, mpiVars, bufVars, pollVars, inferVars

LEMMA SelectNothingInv ==
    ASSUME IInv, SelectNothing PROVE IInv'
BY LoopStep DEF SelectNothing, appVars, netVars, mpiVars, bufVars, pollVars, inferVars

\* Within a call, channels depend on pending, outputRequest and inferred only through
\* the ranks whose result has been sent.
LEMMA ResultsFrame ==
    ASSUME IInv, NEW r \in Workers, pc[0] # "app", pc'[0] # "app",
           \A q \in Workers : pc'[q] = pc[q],
           UNCHANGED << called, credit, input, ack, output, inputRequest >>,
           UNCHANGED << granted, completed, received >>,
           r \in inferred' \ (pending' \cup outputRequest')
               <=> r \in inferred \ (pending \cup outputRequest)
    PROVE  ChannelInv(r)'
<1>1. InCall /\ InCall' /\ UNCHANGED << Returned(0), SentInput(r), GotAck(r), Returned(r) >>
    BY CallFrame
<1>2. UNCHANGED << Credited(r), Delivered(r), Acked(r) >>
    BY <1>1 DEF Credited, Delivered, Acked
<1>3. UNCHANGED ResultOut(r)
    BY <1>1 DEF ResultOut, Bit
<1>4. QED
    BY <1>1, <1>2, <1>3, ChannelFrame DEF IInv

\* The main thread goes on to label.
LEMMA GotoFrame ==
    ASSUME TypeOK, NEW label \in ControllerPC, Goto(label)
    PROVE  /\ pc'[0] = label /\ \A q \in Workers : pc'[q] = pc[q] /\ pc'[q] \in WorkerPC
           /\ pc' \in [Ranks -> ControllerPC \cup WorkerPC]
<1>1. 0 \in Ranks /\ Workers = Ranks \ {0}
    BY RanksFinite
<1>2. /\ pc \in [Ranks -> ControllerPC \cup WorkerPC] /\ \A q \in Workers : pc[q] \in WorkerPC
    BY DEF TypeOK
<1>3. QED
    BY <1>1, <1>2 DEF Goto

\* Posting the sends of the results held back so far.
LEMMA FlushStep ==
    ASSUME IInv, NEW label \in {"collect", "wait"}, Goto(label),
           pc[0] \in {"flush", "join"}, pc[0] = "join" <=> label = "wait",
           FlushPending, received = Ranks,
           label = "wait" /\ Async => poller = "off",
           UNCHANGED << called, result, credit, input, ack, output, inputRequest >>,
           UNCHANGED << inputBuffer, outputBuffer, poller, completed, granted, received, receivedCount >>,
           UNCHANGED << inferred, inferredCount, scheduled, requests >>
    PROVE  IInv'
<1>1. outputRequest' = outputRequest \cup (pending \ {0}) /\ pending' = {}
    BY DEF FlushPending
<1>2. TypeOK /\ CountersAgree /\ (\A q \in Workers : ChannelInv(q)) /\ PollerInv /\ RangeInv /\ DataInv
    BY DEF IInv
<1>3. 0 \in Ranks /\ Workers = Ranks \ {0}
    BY RanksFinite
<1>4. /\ pc'[0] = label /\ \A q \in Workers : pc'[q] = pc[q] /\ pc'[q] \in WorkerPC
      /\ pc' \in [Ranks -> ControllerPC \cup WorkerPC] /\ pc'[0] \in ControllerPC
    BY <1>2, GotoFrame DEF ControllerPC
<1>5. pending \subseteq Ranks /\ outputRequest \subseteq Workers
    BY <1>2 DEF TypeOK
<1>6. TypeOK'
  <2>1. outputRequest' \subseteq Workers /\ pending' \subseteq Ranks
      BY <1>1, <1>3, <1>5
  <2>2. QED
      BY <2>1, <1>2, <1>4 DEF TypeOK
<1>7. ASSUME NEW r \in Workers PROVE ChannelInv(r)'
  <2>1. r \in inferred' \ (pending' \cup outputRequest')
            <=> r \in inferred \ (pending \cup outputRequest)
      BY <1>1, <1>3
  <2>2. QED
      BY <2>1, <1>4, ResultsFrame
<1>8. CountersAgree'
    BY <1>2 DEF CountersAgree
<1>9. PollerInv'
  <2>1. ~Async => poller \notin {"lock", "record", "grant"}
      BY <1>2 DEF PollerInv
  <2>2. QED
      BY <1>2, <1>4, <2>1 DEF PollerInv
<1>10. RangeInv'
  <2>1. pending \subseteq inferred /\ outputRequest \subseteq inferred
        /\ (pc'[0] = "wait" => inferred = Ranks)
      BY <1>2, <1>4 DEF RangeInv
  <2>2. outputRequest' \subseteq inferred' \ pending'
      BY <1>1, <2>1
  <2>3. QED
      BY <1>1, <1>2, <1>4, <2>1, <2>2 DEF RangeInv, RequestOK, RanksOf, InCall
<1>11. DataInv'
  <2>1. \A q \in Ranks : pc'[q] # "app" => called'[q] > 0
      BY <1>2, <1>3, <1>4 DEF DataInv
  <2>2. QED
      BY <1>2, <1>4, <2>1 DEF DataInv, Inferred, RanksOf, InCall
<1>12. QED
    BY <1>6, <1>7, <1>8, <1>9, <1>10, <1>11 DEF IInv

LEMMA LoopFlushInv ==
    ASSUME IInv, LoopFlush PROVE IInv'
<1>1. /\ pc[0] = "flush" /\ Goto("collect")
      /\ IF receivedCount >= N THEN FlushPending ELSE UNCHANGED << outputRequest, pending >>
      /\ UNCHANGED << called, result, credit, input, ack, output, inputRequest >>
      /\ UNCHANGED << inputBuffer, outputBuffer, poller, completed, granted, received, receivedCount >>
      /\ UNCHANGED << inferred, inferredCount, scheduled, requests >>
    BY DEF LoopFlush, appVars, netVars, bufVars, pollVars
<1>2. CASE receivedCount >= N
  <2>1. received \subseteq Ranks /\ receivedCount \in 0 .. N /\ receivedCount = Cardinality(received)
      BY DEF IInv, TypeOK, CountersAgree
  <2>2. received = Ranks
      BY <1>2, <2>1, RankSet, ConfigAssumption
  <2>3. QED
      BY <1>1, <1>2, <2>2, FlushStep
<1>3. CASE ~(receivedCount >= N)
  <2>1. TypeOK /\ CountersAgree /\ (\A q \in Workers : ChannelInv(q)) /\ PollerInv /\ RangeInv /\ DataInv
      BY DEF IInv
  <2>2. 0 \in Ranks /\ Workers = Ranks \ {0} /\ UNCHANGED << outputRequest, pending >>
      BY <1>1, <1>3, RanksFinite
  <2>3. /\ pc'[0] = "collect" /\ \A q \in Workers : pc'[q] = pc[q] /\ pc'[q] \in WorkerPC
        /\ pc' \in [Ranks -> ControllerPC \cup WorkerPC] /\ pc'[0] \in ControllerPC
      BY <1>1, <2>1, GotoFrame DEF ControllerPC
  <2>4. TypeOK'
      BY <1>1, <2>1, <2>2, <2>3 DEF TypeOK
  <2>5. \A r \in Workers : ChannelInv(r)'
      BY <1>1, <2>2, <2>3, ResultsFrame
  <2>6. CountersAgree'
      BY <1>1, <2>1 DEF CountersAgree
  <2>7. PollerInv'
    <3>1. ~Async => poller \notin {"lock", "record", "grant"}
        BY <1>1, <2>1 DEF PollerInv
    <3>2. QED
        BY <1>1, <2>1, <2>3, <3>1 DEF PollerInv
  <2>8. RangeInv'
      BY <1>1, <2>1, <2>2, <2>3 DEF RangeInv, RequestOK, RanksOf, InCall
  <2>9. DataInv'
    <3>1. \A q \in Ranks : pc'[q] # "app" => called'[q] > 0
        BY <1>1, <2>1, <2>2, <2>3 DEF DataInv
    <3>2. QED
        BY <1>1, <2>1, <2>2, <2>3, <3>1 DEF DataInv, Inferred, RanksOf, InCall
  <2>10. QED
      BY <2>4, <2>5, <2>6, <2>7, <2>8, <2>9 DEF IInv
<1>4. QED
    BY <1>2, <1>3

LEMMA JoinInv ==
    ASSUME IInv, Join PROVE IInv'
<1>1. /\ pc[0] = "join" /\ (Async => poller = "off") /\ FlushPending /\ Goto("wait")
      /\ UNCHANGED << called, result, credit, input, ack, output, inputRequest >>
      /\ UNCHANGED << inputBuffer, outputBuffer, poller, completed, granted, received, receivedCount >>
      /\ UNCHANGED << inferred, inferredCount, scheduled, requests >>
    BY DEF Join, appVars, netVars, bufVars, pollVars
<1>2. received = Ranks
    BY <1>1 DEF IInv, RangeInv, TypeOK
<1>3. QED
    BY <1>1, <1>2, FlushStep

\* The controller returns when the result of every worker has been sent; the worker
\* has then been sent everything else before it.
LEMMA WaitAllInv ==
    ASSUME IInv, WaitAll PROVE IInv'
<1>1. pc[0] = "wait" /\ outputRequest = {} /\ Goto("app")
    BY DEF WaitAll
<1>2. /\ UNCHANGED << called, result, credit, input, ack, output, inputRequest, outputRequest >>
      /\ UNCHANGED << inputBuffer, outputBuffer, poller, completed, granted, received, receivedCount >>
      /\ UNCHANGED << inferred, inferredCount, scheduled, pending, requests >>
    BY DEF WaitAll, appVars, netVars, mpiVars, bufVars, pollVars, inferVars
<1>3. TypeOK /\ CountersAgree /\ (\A q \in Workers : ChannelInv(q)) /\ PollerInv /\ RangeInv /\ DataInv
    BY DEF IInv
<1>4. 0 \in Ranks /\ Workers = Ranks \ {0}
    BY RanksFinite
<1>5. /\ pc'[0] = "app" /\ \A q \in Workers : pc'[q] = pc[q] /\ pc'[q] \in WorkerPC
      /\ pc' \in [Ranks -> ControllerPC \cup WorkerPC] /\ pc'[0] \in ControllerPC
    BY <1>1, <1>3, GotoFrame DEF ControllerPC
<1>6. InCall /\ ~InCall' /\ inferred = Ranks /\ pending = {} /\ received \ completed = Ranks
    BY <1>1, <1>3, <1>5 DEF InCall, RangeInv, TypeOK
<1>7. called[0] \in Nat /\ called[0] > 0 /\ Returned(0) = called[0] - 1 /\ Returned(0)' = called[0]
    BY <1>1, <1>2, <1>3, <1>4, <1>5, Types DEF Returned, DataInv
<1>8. TypeOK'
    BY <1>2, <1>3, <1>5 DEF TypeOK
<1>9. ASSUME NEW r \in Workers PROVE ChannelInv(r)'
  <2>1. UNCHANGED << SentInput(r), GotAck(r), Returned(r) >>
      BY <1>2, <1>5 DEF SentInput, GotAck, Returned
  <2>2. ResultOut(r) = called[0] /\ Acked(r) = called[0]
      BY <1>1, <1>4, <1>6, <1>7 DEF ResultOut, Acked, Bit
  <2>3. Delivered(r) = called[0] /\ Credited(r) = called[0]
    <3>1. /\ Acked(r) <= Delivered(r) /\ Delivered(r) <= SentInput(r) /\ SentInput(r) <= Credited(r)
          /\ Credited(r) <= Returned(0) + 1
          /\ Delivered(r) \in Nat /\ SentInput(r) \in Nat /\ Credited(r) \in Nat
        BY Chain
    <3>2. Credited(r) <= called[0] /\ called[0] <= Delivered(r)
        BY <3>1, <2>2, <1>7
    <3>3. QED
        BY <3>1, <3>2, <1>7
  <2>4. ResultOut(r)' = called[0] /\ Acked(r)' = called[0] /\ Delivered(r)' = called[0]
        /\ Credited(r)' = called[0]
      BY <1>6, <1>7 DEF ResultOut, Acked, Delivered, Credited, Bit
  <2>5. QED
      BY <1>2, <1>3, <2>1, <2>2, <2>3, <2>4, ChannelFrame
<1>10. CountersAgree'
    BY <1>2, <1>3 DEF CountersAgree
<1>11. PollerInv'
  <2>1. ~Async => poller \notin {"lock", "record", "grant"}
      BY <1>1, <1>3 DEF PollerInv
  <2>2. QED
      BY <1>1, <1>2, <1>3, <1>5, <2>1 DEF PollerInv
<1>12. RangeInv'
  <2>1. scheduled = {}
      BY <1>3, <1>6 DEF RangeInv, TypeOK
  <2>2. requests = {}
    <3>1. ASSUME NEW req \in requests PROVE FALSE
      <4>1. req.first \in Ranks /\ req.end \in 1 .. N /\ req.first < req.end
          BY <1>3, <3>1 DEF TypeOK, RangeInv, RequestOK
      <4>2. RanksOf(req) \subseteq scheduled
          BY <1>3, <3>1 DEF RangeInv, RequestOK
      <4>3. QED
          BY <4>1, <4>2, <2>1, RequestRanks
    <3>2. QED
        BY <3>1
  <2>3. \A r \in Workers : inputRequest[r] = "null"
      BY <1>3, <1>4, <1>6 DEF PollerInv
  <2>4. QED
      BY <1>1, <1>2, <1>3, <1>5, <1>6, <2>1, <2>2, <2>3 DEF RangeInv
<1>13. DataInv'
  <2>1. \A q \in Ranks : pc'[q] # "app" => called'[q] > 0
      BY <1>2, <1>3, <1>4, <1>5 DEF DataInv
  <2>2. RangePipeline => result[0] = called[0]
      BY <1>3, <1>4, <1>6 DEF DataInv, Inferred
  <2>3. \A q \in Workers : pc'[q] = "app" => result'[q] = called'[q]
      BY <1>2, <1>3, <1>5 DEF DataInv
  <2>4. QED
      BY <1>2, <1>6, <2>1, <2>2, <2>3 DEF DataInv
<1>14. QED
    BY <1>8, <1>9, <1>10, <1>11, <1>12, <1>13 DEF IInv

\* Marking ranks as inferred holds their results back or posts their sends; none of
\* them has been sent.
LEMMA Marking ==
    ASSUME TypeOK, CountersAgree, RangeInv, NEW ranks \in SUBSET Ranks,
           ranks \cap inferred = {}, ranks \subseteq received \ completed, MarkInferred(ranks)
    PROVE  /\ inferred' = inferred \cup ranks /\ inferred' \subseteq Ranks
           /\ inferredCount' = Cardinality(inferred') /\ inferredCount' \in 0 .. N
           /\ pending' \subseteq inferred' /\ outputRequest' \subseteq inferred' \ pending'
           /\ outputRequest' \subseteq Workers
           /\ inferred' \subseteq pending' \/ received = Ranks
           /\ \A r \in Workers : r \in inferred' \ (pending' \cup outputRequest')
                                     <=> r \in inferred \ (pending \cup outputRequest)
<1>1. /\ inferred' = inferred \cup ranks
      /\ inferredCount' = inferredCount + Cardinality(ranks)
      /\ IF receivedCount < N
         THEN pending' = pending \cup ranks /\ UNCHANGED outputRequest
         ELSE /\ outputRequest' = outputRequest \cup ((pending \cup ranks) \ {0})
              /\ pending' = {}
    BY DEF MarkInferred
<1>2. /\ inferred \subseteq Ranks /\ received \subseteq Ranks /\ outputRequest \subseteq Workers
      /\ receivedCount = Cardinality(received) /\ receivedCount \in 0 .. N
      /\ inferredCount = Cardinality(inferred) /\ Workers = Ranks \ {0} /\ N \in Nat
    BY RanksFinite, ConfigAssumption DEF TypeOK, CountersAgree
<1>3. /\ pending \subseteq inferred /\ outputRequest \subseteq inferred \ pending
      /\ inferred \subseteq pending \/ received = Ranks
    BY DEF RangeInv
<1>4. inferred' \subseteq Ranks /\ inferredCount' = Cardinality(inferred') /\ inferredCount' \in 0 .. N
  <2>1. IsFiniteSet(inferred) /\ IsFiniteSet(ranks) /\ inferred' \subseteq Ranks
      BY <1>1, <1>2, RankSet
  <2>2. Cardinality(inferred') = Cardinality(inferred) + Cardinality(ranks) - Cardinality(inferred \cap ranks)
      BY <1>1, <2>1, FS_Union
  <2>3. Cardinality(inferred \cap ranks) = 0
      BY FS_EmptySet
  <2>4. Cardinality(inferred) \in 0 .. N /\ Cardinality(ranks) \in 0 .. N /\ Cardinality(inferred') \in 0 .. N
      BY <1>2, <2>1, RankSet
  <2>5. QED
      BY <1>1, <1>2, <2>1, <2>2, <2>3, <2>4
<1>5. receivedCount < N => received # Ranks
    BY <1>2, RanksFinite
<1>6. ~(receivedCount < N) => received = Ranks
    BY <1>2, RankSet
<1>7. CASE receivedCount < N
    BY <1>1, <1>2, <1>3, <1>4, <1>5, <1>7
<1>8. CASE ~(receivedCount < N)
    BY <1>1, <1>2, <1>3, <1>4, <1>6, <1>8
<1>9. QED
    BY <1>7, <1>8

\* What the invariant says of one request.
LEMMA RequestFacts ==
    ASSUME IInv, NEW req \in requests
    PROVE  /\ req.first \in Ranks /\ req.end \in 1 .. N /\ req.first < req.end
           /\ req.start = Displ[req.first] /\ req.count = SampleEnd(req.end - 1) - Displ[req.first]
           /\ req.first = 0 => req.end = 1
           /\ RanksOf(req) \subseteq scheduled /\ RanksOf(req) \subseteq Ranks
           /\ RanksOf(req) \subseteq received \ completed /\ RanksOf(req) \cap inferred = {}
           /\ req.first \in RanksOf(req) /\ InCall
           /\ req \in [first : Ranks, end : 1 .. N, start : Nat, count : Nat, done : BOOLEAN]
<1>1. req \in [first : Ranks, end : 1 .. N, start : Nat, count : Nat, done : BOOLEAN]
    BY DEF IInv, TypeOK
<1>2. RequestOK(req) /\ InCall /\ scheduled \cap inferred = {} /\ scheduled \subseteq received \ completed
    BY DEF IInv, RangeInv
<1>3. /\ req.first \in Ranks /\ req.end \in 1 .. N /\ req.first < req.end
      /\ req.start = Displ[req.first] /\ req.count = SampleEnd(req.end - 1) - Displ[req.first]
      /\ req.first = 0 => req.end = 1
      /\ RanksOf(req) \subseteq scheduled
    BY <1>1, <1>2 DEF RequestOK
<1>4. RanksOf(req) \subseteq Ranks /\ req.first \in RanksOf(req)
    BY <1>3, RequestRanks
<1>5. QED
    BY <1>1, <1>2, <1>3, <1>4

LEMMA LoopCollectInv ==
    ASSUME IInv, NEW req \in requests, LoopCollect(req) PROVE IInv'
<1>1. /\ pc[0] = "collect" /\ req.done
      /\ scheduled' = scheduled \ RanksOf(req)
      /\ requests' = requests \ {req}
      /\ MarkInferred(RanksOf(req))
      /\ IF RangePipeline THEN pc' = pc ELSE Goto("top")
    BY DEF LoopCollect
<1>2. /\ UNCHANGED << called, result, credit, input, ack, output, inputRequest >>
      /\ UNCHANGED << inputBuffer, outputBuffer, poller, completed, granted, received, receivedCount >>
    BY DEF LoopCollect, appVars, netVars, bufVars, pollVars
<1>3. TypeOK /\ CountersAgree /\ (\A q \in Workers : ChannelInv(q)) /\ PollerInv /\ RangeInv /\ DataInv
    BY DEF IInv
<1>4. /\ RanksOf(req) \subseteq Ranks /\ RanksOf(req) \cap inferred = {}
      /\ RanksOf(req) \subseteq received \ completed /\ RanksOf(req) \subseteq scheduled
    BY RequestFacts
<1>5. /\ inferred' = inferred \cup RanksOf(req) /\ inferred' \subseteq Ranks
      /\ inferredCount' = Cardinality(inferred') /\ inferredCount' \in 0 .. N
      /\ pending' \subseteq inferred' /\ outputRequest' \subseteq inferred' \ pending'
      /\ outputRequest' \subseteq Workers
      /\ inferred' \subseteq pending' \/ received = Ranks
      /\ \A r \in Workers : r \in inferred' \ (pending' \cup outputRequest')
                                <=> r \in inferred \ (pending \cup outputRequest)
    BY <1>1, <1>3, <1>4, Marking
<1>6. /\ pc'[0] \in {"collect", "top"} /\ \A q \in Workers : pc'[q] = pc[q] /\ pc'[q] \in WorkerPC
      /\ pc' \in [Ranks -> ControllerPC \cup WorkerPC] /\ pc'[0] \in ControllerPC
  <2>1. CASE RangePipeline
      BY <1>1, <1>3, <2>1 DEF TypeOK
  <2>2. CASE ~RangePipeline
      BY <1>1, <1>3, <2>2, GotoFrame DEF ControllerPC
  <2>3. QED
      BY <2>1, <2>2
<1>7. TypeOK'
  <2>1. /\ pending' \subseteq Ranks /\ scheduled' \subseteq Ranks
        /\ requests' \subseteq [first : Ranks, end : 1 .. N, start : Nat, count : Nat, done : BOOLEAN]
      BY <1>1, <1>3, <1>5 DEF TypeOK
  <2>2. QED
      BY <1>2, <1>3, <1>5, <1>6, <2>1 DEF TypeOK
<1>8. ASSUME NEW r \in Workers PROVE ChannelInv(r)'
    BY <1>1, <1>2, <1>5, <1>6, ResultsFrame
<1>9. CountersAgree'
    BY <1>2, <1>3, <1>5 DEF CountersAgree
<1>10. PollerInv'
  <2>1. ~Async => poller \notin {"lock", "record", "grant"}
      BY <1>1, <1>3 DEF PollerInv
  <2>2. QED
      BY <1>2, <1>3, <1>6, <2>1 DEF PollerInv
<1>11. RangeInv'
  <2>1. /\ scheduled' \subseteq received \ completed /\ inferred' \subseteq received \ completed
        /\ scheduled' \cap inferred' = {}
      BY <1>1, <1>3, <1>4, <1>5 DEF RangeInv
  <2>2. ASSUME NEW other \in requests' PROVE RequestOK(other)'
    <3>1. RequestOK(other) /\ RanksOf(other) \cap RanksOf(req) = {}
        BY <1>1, <1>3, <2>2 DEF RangeInv
    <3>2. QED
        BY <3>1, <1>1 DEF RequestOK, RanksOf
  <2>3. \A one, other \in requests' : one # other => RanksOf(one) \cap RanksOf(other) = {}
      BY <1>1, <1>3 DEF RangeInv
  <2>4. InCall'
      BY <1>6 DEF InCall
  <2>5. QED
      BY <1>2, <1>5, <1>6, <2>1, <2>2, <2>3, <2>4 DEF RangeInv, RanksOf
<1>12. DataInv'
  <2>1. \A q \in Ranks : pc'[q] # "app" => called'[q] > 0
      BY <1>1, <1>2, <1>3, <1>6, RanksFinite DEF DataInv
  <2>2. \A q \in Ranks : Inferred(q)' => Inferred(q)
      BY <1>1, <1>5 DEF Inferred, RanksOf
  <2>3. InCall /\ InCall'
      BY <1>1, <1>6 DEF InCall
  <2>4. QED
      BY <1>2, <1>3, <1>6, <2>1, <2>2, <2>3, RanksFinite DEF DataInv
<1>13. QED
    BY <1>7, <1>8, <1>9, <1>10, <1>11, <1>12 DEF IInv

\* What the selection returns: ranks that are ready, rank 0 only by itself.
LEMMA SelectionFacts ==
    ASSUME TypeOK, NEW req \in SelectedRanges
    PROVE  /\ req.first \in Ranks /\ req.end \in 1 .. N /\ req.first < req.end
           /\ req.start = Displ[req.first] /\ req.count = SampleEnd(req.end - 1) - Displ[req.first]
           /\ req.first = 0 => req.end = 1
           /\ RanksOf(req) \subseteq Ready /\ RanksOf(req) \subseteq Ranks /\ req.first \in RanksOf(req)
           /\ req \in [first : Ranks, end : 1 .. N, start : Nat, count : Nat, done : BOOLEAN]
           /\ ~req.done
<1>1. PICK run \in LargestRuns : req.first = run[1] /\ req.end \in FittingEnds(run)
    BY DEF SelectedRanges
<1>2. PICK other \in LargestRuns, e \in 1 .. N : req = Request(other[1], e)
    BY DEF SelectedRanges
<1>3. /\ run \in Ranks \X (1 .. N) /\ run[1] < run[2]
      /\ run[1] .. (run[2] - 1) \subseteq Ready
      /\ other \in Ranks \X (1 .. N)
    BY <1>1, <1>2 DEF LargestRuns, ReadyRuns
<1>4. N \in Nat /\ run[1] \in Nat /\ run[2] \in Nat
    BY <1>3, ConfigAssumption DEF Ranks
<1>5. CutEnd(run) <= run[2] /\ (run[1] = 0 => CutEnd(run) = 1) /\ CutEnd(run) \in Nat
    BY <1>3, <1>4 DEF CutEnd
<1>6. req.end \in (run[1] + 1) .. CutEnd(run)
    BY <1>1 DEF FittingEnds
<1>7. req.first = other[1] /\ req.end = e /\ req.start = Displ[other[1]]
      /\ req.count = SampleEnd(e - 1) - Displ[other[1]] /\ req.done = FALSE
      /\ req = [first |-> req.first, end |-> req.end, start |-> req.start,
                count |-> req.count, done |-> req.done]
    BY <1>2 DEF Request
<1>8. req.first \in Ranks /\ req.end \in 1 .. N /\ req.first < req.end
      /\ (req.first = 0 => req.end = 1) /\ req.end <= run[2]
    BY <1>1, <1>3, <1>4, <1>5, <1>6, <1>7
<1>9. req.start = Displ[req.first] /\ req.count = SampleEnd(req.end - 1) - Displ[req.first]
    BY <1>7
<1>10. RanksOf(req) \subseteq Ready
    BY <1>1, <1>3, <1>4, <1>8 DEF RanksOf
<1>11. req.count \in Nat /\ req.start \in Nat
  <2>1. req.count \in Nat
      BY <1>8, <1>9, RangeGeometry
  <2>2. req.start \in Nat
      BY <1>8, <1>9, Segments
  <2>3. QED
      BY <2>1, <2>2
<1>12. req \in [first : Ranks, end : 1 .. N, start : Nat, count : Nat, done : BOOLEAN]
    BY <1>7, <1>8, <1>11
<1>13. RanksOf(req) \subseteq Ranks /\ req.first \in RanksOf(req)
    BY <1>8, RequestRanks
<1>14. QED
    BY <1>7, <1>8, <1>9, <1>10, <1>12, <1>13

\* Inference writes the current call's output of the ranks of the range, and spoils
\* nobody else's: a neighbour of the range loses nothing even if it has no samples.
LEMMA InferFacts ==
    ASSUME IInv, InCall, NEW req, req.first \in Ranks, req.end \in 1 .. N, req.first < req.end,
           req.start = Displ[req.first], req.count = SampleEnd(req.end - 1) - Displ[req.first],
           req.first = 0 => req.end = 1, RanksOf(req) \subseteq received \ completed, Infer(req)
    PROVE  /\ inputBuffer' = inputBuffer
           /\ \A r \in Workers : r \in RanksOf(req) \/ Inferred(r) => outputBuffer'[r] = called[0]
           /\ RangePipeline /\ (0 \in RanksOf(req) \/ Inferred(0)) => result'[0] = called[0]
           /\ \A r \in Workers : result'[r] = result[r]
           /\ result' \in [Ranks -> 0 .. MaxCalls] /\ outputBuffer' \in [Ranks -> 0 .. MaxCalls]
<1>1. TypeOK /\ PollerInv /\ RangeInv /\ DataInv
    BY DEF IInv
<1>2. 0 \in Ranks /\ Workers = Ranks \ {0}
    BY RanksFinite
<1>3. /\ result \in [Ranks -> 0 .. MaxCalls] /\ outputBuffer \in [Ranks -> 0 .. MaxCalls]
      /\ inputBuffer \in [Ranks -> 0 .. MaxCalls] /\ called[0] \in 0 .. MaxCalls /\ MaxCalls \in Nat
    BY <1>1, <1>2, ConfigAssumption DEF TypeOK
<1>4. ASSUME NEW r \in Ranks, r \in RanksOf(req) \/ Inferred(r) PROVE r \in received \ completed
  <2>1. CASE r \in RanksOf(req)
      BY <2>1
  <2>2. CASE r \in inferred
      BY <2>2, <1>1 DEF RangeInv
  <2>3. CASE \E other \in requests : r \in RanksOf(other)
      BY <2>3, RequestFacts
  <2>4. QED
      BY <1>4, <2>1, <2>2, <2>3 DEF Inferred
<1>5. ASSUME NEW r \in Workers, r \in RanksOf(req) \/ Inferred(r) PROVE inputBuffer[r] = called[0]
  <2>1. r \in received \ {0}
      BY <1>2, <1>4, <1>5
  <2>2. inputRequest[r] = "null"
      BY <2>1, <1>1 DEF PollerInv
  <2>3. QED
      BY <2>2, <1>1, <1>5 DEF DataInv
<1>6. 0 \in RanksOf(req) => req.first = 0
    BY <1>2, RequestRanks DEF Ranks
<1>7. CASE Direct(req)
  <2>1. /\ result' = [result EXCEPT ![0] = IF req.count = Samples[0] THEN called[0] ELSE 0]
        /\ inputBuffer' = inputBuffer /\ outputBuffer' = outputBuffer
      BY <1>7 DEF Infer, bufVars
  <2>2. req.first = 0 /\ req.end = 1
      BY <1>7 DEF Direct
  <2>3. req.count = Samples[0]
    <3>1. Displ[0] \in Nat /\ Samples[0] \in Nat /\ req.count = SampleEnd(0) - Displ[0]
        BY <1>2, <2>2, ConfigAssumption
    <3>2. QED
        BY <3>1 DEF SampleEnd
  <2>4. RanksOf(req) = {0}
    <3>1. RanksOf(req) = 0 .. 0
        BY <2>2 DEF RanksOf
    <3>2. QED
        BY <3>1
  <2>5. result'[0] = called[0] /\ \A r \in Workers : result'[r] = result[r]
      BY <1>2, <1>3, <2>1, <2>3
  <2>6. result' \in [Ranks -> 0 .. MaxCalls]
      BY <1>2, <1>3, <2>1
  <2>7. \A r \in Workers : Inferred(r) => outputBuffer[r] = called[0]
      BY <1>1 DEF DataInv
  <2>8. QED
      BY <1>2, <1>3, <2>1, <2>4, <2>5, <2>6, <2>7
<1>8. CASE ~Direct(req)
  <2>1. /\ outputBuffer' = [r \in Ranks |->
               IF Covers(req, r) THEN inputBuffer[r]
               ELSE IF Touches(req, r) THEN 0 ELSE outputBuffer[r]]
        /\ inputBuffer' = inputBuffer /\ result' = result
      BY <1>8 DEF Infer
  <2>2. ASSUME NEW r \in Workers, r \in RanksOf(req) \/ Inferred(r)
        PROVE  outputBuffer'[r] = called[0]
    <3>1. (r \in RanksOf(req) => Covers(req, r)) /\ (Touches(req, r) => r \in RanksOf(req))
        BY <1>2, RangeGeometry
    <3>2. CASE Covers(req, r)
        BY <1>2, <1>5, <2>1, <2>2, <3>2
    <3>3. CASE ~Covers(req, r)
      <4>1. ~Touches(req, r) /\ Inferred(r)
          BY <2>2, <3>1, <3>3
      <4>2. outputBuffer[r] = called[0]
          BY <4>1, <1>1 DEF DataInv
      <4>3. QED
          BY <1>2, <2>1, <3>3, <4>1, <4>2
    <3>4. QED
        BY <3>2, <3>3
  <2>3. RangePipeline => req.first # 0
      BY <1>8 DEF Direct
  <2>4. RangePipeline /\ Inferred(0) => result[0] = called[0]
      BY <1>1 DEF DataInv
  <2>5. outputBuffer' \in [Ranks -> 0 .. MaxCalls]
      BY <1>3, <2>1
  <2>6. QED
      BY <1>3, <1>6, <2>1, <2>2, <2>3, <2>4, <2>5
<1>9. QED
    BY <1>7, <1>8

\* The ranks of a new request had been received and belonged to no other request.
LEMMA SelectAndSubmitInv ==
    ASSUME IInv, NEW req \in SelectedRanges, SelectAndSubmit(req) PROVE IInv'
<1>1. /\ pc[0] = "select" /\ ~PollerHoldsLock /\ Goto("top")
      /\ scheduled' = scheduled \cup RanksOf(req)
      /\ requests' = requests \cup {req}
    BY DEF SelectAndSubmit
<1>2. /\ UNCHANGED << called, result, credit, input, ack, output, inputRequest, outputRequest >>
      /\ UNCHANGED << inputBuffer, outputBuffer, poller, completed, granted, received, receivedCount >>
      /\ UNCHANGED << inferred, inferredCount, pending >>
    BY DEF SelectAndSubmit, appVars, netVars, mpiVars, bufVars, pollVars
<1>3. TypeOK /\ CountersAgree /\ (\A q \in Workers : ChannelInv(q)) /\ PollerInv /\ RangeInv /\ DataInv
    BY DEF IInv
<1>4. /\ req.first \in Ranks /\ req.end \in 1 .. N /\ req.first < req.end
      /\ req.start = Displ[req.first] /\ req.count = SampleEnd(req.end - 1) - Displ[req.first]
      /\ req.first = 0 => req.end = 1
      /\ RanksOf(req) \subseteq Ready /\ RanksOf(req) \subseteq Ranks /\ ~req.done
      /\ req \in [first : Ranks, end : 1 .. N, start : Nat, count : Nat, done : BOOLEAN]
    BY <1>3, SelectionFacts
<1>5. completed \cap received = {}
    BY <1>1, <1>3 DEF PollerInv, PollerHoldsLock
<1>6. RanksOf(req) \subseteq received \ completed /\ RanksOf(req) \cap (inferred \cup scheduled) = {}
    BY <1>4, <1>5 DEF Ready
<1>7. /\ pc'[0] = "top" /\ \A q \in Workers : pc'[q] = pc[q] /\ pc'[q] \in WorkerPC
      /\ pc' \in [Ranks -> ControllerPC \cup WorkerPC] /\ pc'[0] \in ControllerPC
    BY <1>1, <1>3, GotoFrame DEF ControllerPC
<1>8. TypeOK'
  <2>1. /\ scheduled' \subseteq Ranks
        /\ requests' \subseteq [first : Ranks, end : 1 .. N, start : Nat, count : Nat, done : BOOLEAN]
      BY <1>1, <1>3, <1>4 DEF TypeOK
  <2>2. QED
      BY <1>2, <1>3, <1>7, <2>1 DEF TypeOK
<1>9. ASSUME NEW r \in Workers PROVE ChannelInv(r)'
    BY <1>1, <1>2, <1>7, ResultsFrame
<1>10. CountersAgree'
    BY <1>2, <1>3 DEF CountersAgree
<1>11. PollerInv'
  <2>1. ~Async => poller \notin {"lock", "record", "grant"}
      BY <1>1, <1>3 DEF PollerInv
  <2>2. QED
      BY <1>2, <1>3, <1>7, <2>1 DEF PollerInv
<1>12. RangeInv'
  <2>1. /\ scheduled' \subseteq received \ completed /\ scheduled' \cap inferred = {}
      BY <1>1, <1>3, <1>6 DEF RangeInv
  <2>2. ASSUME NEW other \in requests' PROVE RequestOK(other)'
    <3>1. CASE other \in requests
      <4>1. RequestOK(other)
          BY <1>3, <3>1 DEF RangeInv
      <4>2. QED
          BY <4>1, <1>1 DEF RequestOK, RanksOf
    <3>2. CASE other = req
        BY <1>1, <1>4, <3>2 DEF RequestOK, RanksOf
    <3>3. QED
        BY <1>1, <2>2, <3>1, <3>2
  <2>3. \A one \in requests : RanksOf(one) \cap RanksOf(req) = {}
      BY <1>6, RequestFacts
  <2>4. \A one, other \in requests' : one # other => RanksOf(one) \cap RanksOf(other) = {}
    <3>1. \A one, other \in requests : one # other => RanksOf(one) \cap RanksOf(other) = {}
        BY <1>3 DEF RangeInv
    <3>2. QED
        BY <1>1, <2>3, <3>1
  <2>5. InCall'
      BY <1>7 DEF InCall
  <2>6. QED
      BY <1>2, <1>3, <1>7, <2>1, <2>2, <2>4, <2>5 DEF RangeInv, RanksOf
<1>13. DataInv'
  <2>1. \A q \in Ranks : pc'[q] # "app" => called'[q] > 0
      BY <1>1, <1>2, <1>3, <1>7, RanksFinite DEF DataInv
  <2>2. \A q \in Ranks : Inferred(q)' => Inferred(q)
      BY <1>1, <1>2, <1>4 DEF Inferred, RanksOf
  <2>3. InCall /\ InCall'
      BY <1>1, <1>7 DEF InCall
  <2>4. QED
      BY <1>2, <1>3, <1>7, <2>1, <2>2, <2>3, RanksFinite DEF DataInv
<1>14. QED
    BY <1>8, <1>9, <1>10, <1>11, <1>12, <1>13 DEF IInv

LEMMA SelectAndInferInv ==
    ASSUME IInv, NEW req \in SelectedRanges, SelectAndInfer(req) PROVE IInv'
<1>1. /\ pc[0] = "select" /\ ~PollerHoldsLock /\ Goto("top") /\ ~Async /\ ~RangePipeline
      /\ Infer(req) /\ MarkInferred(RanksOf(req))
    BY DEF SelectAndInfer
<1>2. /\ UNCHANGED << called, credit, input, ack, output, inputRequest >>
      /\ UNCHANGED << poller, completed, granted, received, receivedCount >>
      /\ UNCHANGED << scheduled, requests >>
    BY DEF SelectAndInfer, netVars, pollVars
<1>3. TypeOK /\ CountersAgree /\ (\A q \in Workers : ChannelInv(q)) /\ PollerInv /\ RangeInv /\ DataInv
    BY DEF IInv
<1>4. /\ req.first \in Ranks /\ req.end \in 1 .. N /\ req.first < req.end
      /\ req.start = Displ[req.first] /\ req.count = SampleEnd(req.end - 1) - Displ[req.first]
      /\ req.first = 0 => req.end = 1
      /\ RanksOf(req) \subseteq Ready /\ RanksOf(req) \subseteq Ranks
    BY <1>3, SelectionFacts
<1>5. completed \cap received = {}
    BY <1>1, <1>3 DEF PollerInv, PollerHoldsLock
<1>6. RanksOf(req) \subseteq received \ completed /\ RanksOf(req) \cap (inferred \cup scheduled) = {}
    BY <1>4, <1>5 DEF Ready
<1>7. /\ pc'[0] = "top" /\ \A q \in Workers : pc'[q] = pc[q] /\ pc'[q] \in WorkerPC
      /\ pc' \in [Ranks -> ControllerPC \cup WorkerPC] /\ pc'[0] \in ControllerPC
    BY <1>1, <1>3, GotoFrame DEF ControllerPC
<1>8. /\ inferred' = inferred \cup RanksOf(req) /\ inferred' \subseteq Ranks
      /\ inferredCount' = Cardinality(inferred') /\ inferredCount' \in 0 .. N
      /\ pending' \subseteq inferred' /\ outputRequest' \subseteq inferred' \ pending'
      /\ outputRequest' \subseteq Workers
      /\ inferred' \subseteq pending' \/ received = Ranks
      /\ \A r \in Workers : r \in inferred' \ (pending' \cup outputRequest')
                                <=> r \in inferred \ (pending \cup outputRequest)
    BY <1>1, <1>3, <1>4, <1>6, Marking
<1>9. InCall /\ InCall'
    BY <1>1, <1>7 DEF InCall
<1>10. /\ inputBuffer' = inputBuffer
       /\ \A r \in Workers : r \in RanksOf(req) \/ Inferred(r) => outputBuffer'[r] = called[0]
       /\ \A r \in Workers : result'[r] = result[r]
       /\ result' \in [Ranks -> 0 .. MaxCalls] /\ outputBuffer' \in [Ranks -> 0 .. MaxCalls]
    BY <1>1, <1>4, <1>6, <1>9, InferFacts
<1>11. TypeOK'
    BY <1>2, <1>3, <1>7, <1>8, <1>10 DEF TypeOK
<1>12. ASSUME NEW r \in Workers PROVE ChannelInv(r)'
    BY <1>1, <1>2, <1>7, <1>8, ResultsFrame
<1>13. CountersAgree'
    BY <1>2, <1>3, <1>8 DEF CountersAgree
<1>14. PollerInv'
  <2>1. poller \notin {"lock", "record", "grant"}
      BY <1>1, <1>3 DEF PollerInv
  <2>2. QED
      BY <1>1, <1>2, <1>3, <1>7, <2>1 DEF PollerInv
<1>15. RangeInv'
  <2>1. inferred' \subseteq received \ completed /\ scheduled \cap inferred' = {}
      BY <1>3, <1>6, <1>8 DEF RangeInv
  <2>2. QED
      BY <1>2, <1>3, <1>7, <1>8, <1>9, <2>1 DEF RangeInv, RequestOK, RanksOf
<1>16. DataInv'
  <2>1. \A q \in Ranks : pc'[q] # "app" => called'[q] > 0
      BY <1>1, <1>2, <1>3, <1>7, RanksFinite DEF DataInv
  <2>2. \A q \in Workers : Inferred(q)' => q \in RanksOf(req) \/ Inferred(q)
      BY <1>2, <1>8 DEF Inferred, RanksOf
  <2>3. QED
      BY <1>1, <1>2, <1>3, <1>7, <1>9, <1>10, <2>1, <2>2 DEF DataInv
<1>17. QED
    BY <1>11, <1>12, <1>13, <1>14, <1>15, <1>16 DEF IInv

\* A finished request keeps its ranks, and their outputs are those of the call.
LEMMA InferenceDoneInv ==
    ASSUME IInv, NEW req \in requests, InferenceDone(req) PROVE IInv'
<1> DEFINE fin == [req EXCEPT !.done = TRUE]
<1>1. Infer(req) /\ requests' = (requests \ {req}) \cup {fin}
    BY DEF InferenceDone
<1>2. /\ UNCHANGED << pc, called, credit, input, ack, output, inputRequest, outputRequest >>
      /\ UNCHANGED << poller, completed, granted, received, receivedCount >>
      /\ UNCHANGED << inferred, inferredCount, scheduled, pending >>
    BY DEF InferenceDone, netVars, mpiVars, pollVars
<1>3. TypeOK /\ CountersAgree /\ (\A q \in Workers : ChannelInv(q)) /\ PollerInv /\ RangeInv /\ DataInv
    BY DEF IInv
<1>4. /\ req.first \in Ranks /\ req.end \in 1 .. N /\ req.first < req.end
      /\ req.start = Displ[req.first] /\ req.count = SampleEnd(req.end - 1) - Displ[req.first]
      /\ req.first = 0 => req.end = 1
      /\ RanksOf(req) \subseteq scheduled /\ RanksOf(req) \subseteq received \ completed
      /\ req \in [first : Ranks, end : 1 .. N, start : Nat, count : Nat, done : BOOLEAN] /\ InCall
    BY RequestFacts
<1>5. /\ fin.first = req.first /\ fin.end = req.end /\ fin.start = req.start /\ fin.count = req.count
      /\ fin \in [first : Ranks, end : 1 .. N, start : Nat, count : Nat, done : BOOLEAN]
    BY <1>4
<1>6. RanksOf(fin) = RanksOf(req)
    BY <1>5 DEF RanksOf
<1>7. /\ inputBuffer' = inputBuffer
      /\ \A r \in Workers : r \in RanksOf(req) \/ Inferred(r) => outputBuffer'[r] = called[0]
      /\ RangePipeline /\ (0 \in RanksOf(req) \/ Inferred(0)) => result'[0] = called[0]
      /\ \A r \in Workers : result'[r] = result[r]
      /\ result' \in [Ranks -> 0 .. MaxCalls] /\ outputBuffer' \in [Ranks -> 0 .. MaxCalls]
    BY <1>1, <1>4, InferFacts
<1> HIDE DEF fin
<1>8. TypeOK'
  <2>1. requests' \subseteq [first : Ranks, end : 1 .. N, start : Nat, count : Nat, done : BOOLEAN]
      BY <1>1, <1>3, <1>5 DEF TypeOK
  <2>2. QED
      BY <1>2, <1>3, <1>7, <2>1 DEF TypeOK
<1>9. ASSUME NEW q \in Workers PROVE ChannelInv(q)'
    BY <1>2, <1>3 DEF ChannelInv, Credited, Delivered, Acked, ResultOut, SentInput, GotAck, Returned, InCall
<1>10. CountersAgree' /\ PollerInv'
    BY <1>2, <1>3 DEF CountersAgree, PollerInv
<1>11. RangeInv'
  <2>1. ASSUME NEW one \in requests' PROVE RequestOK(one)'
    <3>1. CASE one \in requests
        BY <3>1, <1>2, <1>3 DEF RangeInv, RequestOK, RanksOf
    <3>2. CASE one = fin
        BY <3>2, <1>2, <1>4, <1>5, <1>6 DEF RequestOK, RanksOf
    <3>3. QED
        BY <1>1, <2>1, <3>1, <3>2
  <2>2. \A one, other \in requests' : one # other => RanksOf(one) \cap RanksOf(other) = {}
    <3>1. \A one, other \in requests : one # other => RanksOf(one) \cap RanksOf(other) = {}
        BY <1>3 DEF RangeInv
    <3>2. QED
        BY <3>1, <1>1, <1>6
  <2>3. InCall'
      BY <1>2, <1>4 DEF InCall
  <2>4. QED
      BY <1>2, <1>3, <2>1, <2>2, <2>3 DEF RangeInv, RanksOf
<1>12. DataInv'
  <2>1. ASSUME NEW q \in Ranks, Inferred(q)' PROVE q \in RanksOf(req) \/ Inferred(q)
    <3>1. CASE q \in inferred
        BY <3>1 DEF Inferred
    <3>2. CASE \E one \in requests' : one.done /\ q \in RanksOf(one)
        BY <3>2, <1>1, <1>6 DEF Inferred
    <3>3. QED
        BY <1>2, <2>1, <3>1, <3>2 DEF Inferred, RanksOf
  <2>2. 0 \in Ranks /\ Workers \subseteq Ranks
      BY RanksFinite
  <2>3. RangePipeline /\ InCall' /\ Inferred(0)' => result'[0] = called'[0]
      BY <1>2, <1>7, <2>1, <2>2
  <2>4. \A r \in Workers : InCall' /\ Inferred(r)' => outputBuffer'[r] = called'[0]
      BY <1>2, <1>7, <2>1, <2>2
  <2>5. InCall'
      BY <1>2, <1>4 DEF InCall
  <2>6. /\ \A r \in Workers : inputRequest'[r] # "posted" => inputBuffer'[r] = called'[0]
        /\ \A r \in Workers : pc'[r] = "app" => result'[r] = called'[r]
        /\ \A r \in Ranks : pc'[r] # "app" => called'[r] > 0
      BY <1>2, <1>3, <1>4, <1>7 DEF DataInv
  <2>7. QED
      BY <2>3, <2>4, <2>5, <2>6 DEF DataInv
<1>13. QED
    BY <1>8, <1>9, <1>10, <1>11, <1>12 DEF IInv

LEMMA StutterInv ==
    ASSUME IInv, UNCHANGED vars PROVE IInv'
<1>1. /\ UNCHANGED << pc, called, result, credit, input, ack, output, inputRequest, outputRequest >>
      /\ UNCHANGED << inputBuffer, outputBuffer, poller, completed, granted, received, receivedCount >>
      /\ UNCHANGED << inferred, inferredCount, scheduled, pending, requests >>
    BY DEF vars, appVars, netVars, mpiVars, bufVars, pollVars, inferVars
<1>2. TypeOK /\ CountersAgree /\ (\A q \in Workers : ChannelInv(q)) /\ PollerInv /\ RangeInv /\ DataInv
    BY DEF IInv
<1>3. TypeOK' /\ CountersAgree' /\ PollerInv'
    BY <1>1, <1>2 DEF TypeOK, CountersAgree, PollerInv
<1>4. ASSUME NEW q \in Workers PROVE ChannelInv(q)'
    BY <1>1, <1>2 DEF ChannelInv, Credited, Delivered, Acked, ResultOut, SentInput, GotAck, Returned, InCall
<1>5. RangeInv' /\ DataInv'
    BY <1>1, <1>2 DEF RangeInv, RequestOK, DataInv, Inferred, RanksOf, InCall
<1>6. QED
    BY <1>3, <1>4, <1>5 DEF IInv

LEMMA NextInv ==
    ASSUME IInv, [Next]_vars PROVE IInv'
<1>1. CASE \E r \in Workers : WorkerCall(r) \/ Worker(r) \/ Deliver(r) \/ Inject(r)
    BY <1>1, WorkerCallInv, WorkerSendInputInv, WorkerRecvAckInv, WorkerRecvResultInv,
       DeliverInv, InjectInv DEF Worker
<1>2. CASE Poller
    BY <1>2, TestSomeInv, RecordInv, AckAndGrantInv, ProgressThreadEndInv DEF Poller
<1>3. CASE ControllerCall
    BY <1>3, ControllerCallInv
<1>4. CASE Controller
    BY <1>4, LoopTopInv, LoopFlushInv, NothingFinishedInv, SelectNothingInv,
       LoopCollectInv, SelectAndSubmitInv, SelectAndInferInv, JoinInv, WaitAllInv DEF Controller
<1>5. CASE Executor
    BY <1>5, InferenceDoneInv DEF Executor
<1>6. CASE Finished \/ UNCHANGED vars
    BY <1>6, StutterInv DEF Finished
<1>7. QED
    BY <1>1, <1>2, <1>3, <1>4, <1>5, <1>6 DEF Next

-----------------------------------------------------------------------------
\* The inductive invariant holds in every reachable state of every workgroup.
THEOREM Invariance == Spec => []IInv
<1>1. Init => IInv
    BY InitInv
<1>2. IInv /\ [Next]_vars => IInv'
    BY NextInv
<1>3. QED
    BY <1>1, <1>2, PTL DEF Spec

-----------------------------------------------------------------------------
(***************************************************************************)
(* What follows from it                                                    *)
(***************************************************************************)
\* Type correctness of the exchange.
THEOREM TypeCorrect == Spec => []TypeOK
<1>1. IInv => TypeOK
    BY DEF IInv
<1>2. QED
    BY <1>1, Invariance, PTL

\* Every worker returns from inference() with the output of the input of that call,
\* whatever the number of ranks, their samples, their nodes and the executor.
THEOREM WorkersCorrect == Spec => []WorkerResultCorrect
<1>1. IInv => WorkerResultCorrect
    BY DEF IInv, DataInv, WorkerResultCorrect
<1>2. QED
    BY <1>1, Invariance, PTL

\* So does the controller, if the executor supports the range pipeline.
THEOREM ControllerCorrect == Spec => []ControllerResultCorrect
<1>1. IInv => ControllerResultCorrect
    BY DEF IInv, DataInv, InCall, ControllerResultCorrect
<1>2. QED
    BY <1>1, Invariance, PTL

\* The credits keep every input from arriving before its receive is posted.
THEOREM CreditsProtectReceives == Spec => []InputHasReceive
<1>1. IInv => InputHasReceive
  <2>1. SUFFICES ASSUME IInv, NEW r \in Workers, input[r] # << >> PROVE inputRequest[r] = "posted"
      BY DEF InputHasReceive
  <2>2. Len(input[r]) \in Nat /\ Len(input[r]) > 0
    <3>1. input[r] \in Seq(1 .. MaxCalls)
        BY <2>1, RanksFinite, Types DEF IInv
    <3>2. QED
        BY <2>1, <3>1, TakeMessage
  <2>3. Len(input[r]) + Delivered(r) = SentInput(r)
      BY <2>1 DEF IInv, ChannelInv
  <2>4. /\ SentInput(r) <= Credited(r) /\ Credited(r) <= Returned(0) + 1 /\ Returned(0) <= Delivered(r)
        /\ SentInput(r) \in Nat /\ Credited(r) \in Nat /\ Returned(0) \in Nat /\ Delivered(r) \in Nat
    <3>1. Returned(0) <= Delivered(r)
      <4>1. /\ Returned(0) <= ResultOut(r) /\ ResultOut(r) <= Acked(r) /\ Acked(r) <= Delivered(r)
            /\ Returned(0) \in Nat /\ ResultOut(r) \in Nat /\ Acked(r) \in Nat /\ Delivered(r) \in Nat
          BY <2>1, Chain
      <4>2. QED
          BY <4>1
    <3>2. QED
        BY <2>1, <3>1, Chain
  <2>5. Delivered(r) = Returned(0) /\ SentInput(r) = Returned(0) + 1 /\ Credited(r) = Returned(0) + 1
      BY <2>2, <2>3, <2>4
  <2>6. InCall
      BY <2>4, <2>5 DEF Credited, Bit
  <2>7. QED
      BY <2>4, <2>5, <2>6 DEF Delivered, Bit
<1>2. QED
    BY <1>1, Invariance, PTL

\* No two messages with the same tag are ever under way between the same two ranks.
THEOREM MessagesStayApart == Spec => []OneMessageOfAKind
<1>1. IInv => OneMessageOfAKind
  <2>1. SUFFICES ASSUME IInv, NEW r \in Workers
        PROVE credit[r] <= 1 /\ ack[r] <= 1 /\ Len(input[r]) <= 1 /\ Len(output[r]) <= 1
      BY DEF OneMessageOfAKind
  <2>2. /\ credit[r] + SentInput(r) = Credited(r)
        /\ Len(input[r]) + Delivered(r) = SentInput(r)
        /\ ack[r] + GotAck(r) = Acked(r)
        /\ Len(output[r]) + Returned(r) = ResultOut(r)
      BY <2>1 DEF IInv, ChannelInv
  <2>3. credit[r] \in Nat /\ ack[r] \in Nat /\ Len(input[r]) \in Nat /\ Len(output[r]) \in Nat
      BY <2>1, RanksFinite, Types DEF IInv
  <2>4. /\ Returned(0) \in Nat /\ Returned(r) \in Nat /\ ResultOut(r) \in Nat /\ Acked(r) \in Nat
        /\ Delivered(r) \in Nat /\ Credited(r) \in Nat /\ SentInput(r) \in Nat /\ GotAck(r) \in Nat
        /\ Returned(0) <= ResultOut(r) /\ ResultOut(r) <= Acked(r)
        /\ Acked(r) <= Delivered(r) /\ Delivered(r) <= SentInput(r)
        /\ SentInput(r) <= Credited(r) /\ Credited(r) <= Returned(0) + 1
        /\ SentInput(r) <= Returned(r) + 1
      BY <2>1, Chain
  <2>5. Returned(r) <= GotAck(r)
      BY <2>4 DEF GotAck, Bit
  <2>6. credit[r] <= 1 /\ Len(input[r]) <= 1
    <3>1. Returned(0) <= Delivered(r) /\ Delivered(r) <= Returned(0) + 1
          /\ Returned(0) <= SentInput(r) /\ SentInput(r) <= Returned(0) + 1
        BY <2>4
    <3>2. credit[r] <= 1
        BY <2>2, <2>3, <2>4, <3>1, OneAtMost
    <3>3. Len(input[r]) <= 1
        BY <2>2, <2>3, <2>4, <3>1, OneAtMost
    <3>4. QED
        BY <3>2, <3>3
  <2>7. ack[r] <= 1 /\ Len(output[r]) <= 1
    <3>1. Acked(r) <= Returned(r) + 1 /\ ResultOut(r) <= Returned(r) + 1
        BY <2>4
    <3>2. ack[r] <= 1
        BY <2>2, <2>3, <2>4, <2>5, <3>1
    <3>3. Len(output[r]) <= 1
        BY <2>2, <2>3, <2>4, <3>1
    <3>4. QED
        BY <3>2, <3>3
  <2>8. QED
      BY <2>6, <2>7
<1>2. QED
    BY <1>1, Invariance, PTL

\* How far the calls of two ranks can be apart.
LEMMA CallBounds ==
    ASSUME IInv
    PROVE  /\ Returned(0) \in Nat
           /\ \A q \in Ranks : called[q] \in Nat /\ Returned(0) <= called[q]
           /\ InCall /\ received = Ranks => \A q \in Ranks : Returned(0) + 1 <= called[q]
           /\ \A r \in Workers : ResultOut(r) # Returned(0) =>
                  InCall /\ received = Ranks /\ ResultOut(r) = Returned(0) + 1
           /\ \A r \in Workers : called[r] <= ResultOut(r) + 1 /\ ResultOut(r) \in Nat
           /\ called[0] <= Returned(0) + 1
<1>1. TypeOK /\ PollerInv /\ RangeInv /\ DataInv /\ 0 \in Ranks /\ Workers = Ranks \ {0}
    BY RanksFinite DEF IInv
<1>2. \A q \in Ranks : called[q] \in Nat /\ (pc[q] # "app" => called[q] > 0)
    BY <1>1, Types DEF DataInv
<1>3. /\ Returned(0) \in Nat /\ Returned(0) <= called[0] /\ called[0] <= Returned(0) + 1
      /\ InCall => called[0] = Returned(0) + 1
    BY <1>1, <1>2 DEF Returned, InCall
<1>4. ASSUME NEW q \in Workers
      PROVE  /\ Delivered(q) \in Nat /\ Delivered(q) <= called[q] /\ Returned(0) <= Delivered(q)
             /\ called[q] <= ResultOut(q) + 1 /\ ResultOut(q) \in Nat
  <2>1. /\ Returned(0) <= ResultOut(q) /\ ResultOut(q) <= Acked(q) /\ Acked(q) <= Delivered(q)
        /\ Delivered(q) <= SentInput(q) /\ SentInput(q) \in Nat /\ Returned(q) <= ResultOut(q)
        /\ ResultOut(q) \in Nat /\ Acked(q) \in Nat /\ Delivered(q) \in Nat /\ Returned(q) \in Nat
      BY Chain
  <2>2. SentInput(q) <= called[q] /\ called[q] <= Returned(q) + 1
      BY <1>1, <1>2 DEF SentInput, Returned, Bit
  <2>3. Returned(0) <= Delivered(q)
      BY <1>3, <2>1
  <2>4. Delivered(q) <= called[q] /\ called[q] <= ResultOut(q) + 1
      BY <1>1, <1>2, <2>1, <2>2
  <2>5. QED
      BY <2>1, <2>3, <2>4
<1>5. \A q \in Ranks : Returned(0) <= called[q]
    BY <1>1, <1>2, <1>3, <1>4
<1>6. ASSUME InCall, received = Ranks, NEW q \in Ranks PROVE Returned(0) + 1 <= called[q]
  <2>1. CASE q = 0
      BY <1>2, <1>3, <1>6, <2>1
  <2>2. CASE q \in Workers
    <3>1. inputRequest[q] = "null"
        BY <1>1, <1>6, <2>2 DEF PollerInv
    <3>2. Delivered(q) = Returned(0) + 1
        BY <1>3, <1>6, <3>1 DEF Delivered, Bit
    <3>3. QED
        BY <1>4, <2>2, <3>2
  <2>3. QED
      BY <1>1, <1>6, <2>1, <2>2
<1>7. ASSUME NEW r \in Workers, ResultOut(r) # Returned(0)
      PROVE  InCall /\ received = Ranks /\ ResultOut(r) = Returned(0) + 1
  <2>1. InCall /\ r \in inferred \ pending /\ ResultOut(r) = Returned(0) + 1
      BY <1>3, <1>7 DEF ResultOut, Bit
  <2>2. QED
      BY <2>1, <1>1 DEF RangeInv
<1>8. QED
    BY <1>2, <1>3, <1>4, <1>5, <1>6, <1>7

\* A result on its way to worker r shows that every rank has made r's call.
LEMMA ResultNeedsAllCalls ==
    ASSUME IInv, NEW r \in Workers, output[r] # << >>
    PROVE  \A q \in Ranks : called[r] <= called[q]
<1>1. /\ called[r] \in Nat /\ Returned(0) \in Nat /\ Returned(r) \in Nat
      /\ called[r] <= Returned(r) + 1 /\ (\A q \in Ranks : called[q] \in Nat)
  <2>1. r \in Ranks /\ \A q \in Ranks : called[q] \in Nat
      BY RanksFinite, CallBounds
  <2>2. QED
      BY <2>1, Chain DEF Returned
<1>2. Len(output[r]) \in Nat /\ Len(output[r]) > 0 /\ Len(output[r]) + Returned(r) = ResultOut(r)
  <2>1. output[r] \in Seq(0 .. MaxCalls)
      BY RanksFinite, Types DEF IInv
  <2>2. QED
      BY <2>1, TakeMessage DEF IInv, ChannelInv
<1>3. ResultOut(r) \in Nat /\ called[r] <= ResultOut(r)
  <2>1. ResultOut(r) \in Nat
      BY CallBounds
  <2>2. QED
      BY <2>1, <1>1, <1>2
<1>4. CASE ResultOut(r) = Returned(0)
  <2>1. \A q \in Ranks : Returned(0) <= called[q]
      BY CallBounds
  <2>2. QED
      BY <1>1, <1>3, <1>4, <2>1
<1>5. CASE ResultOut(r) # Returned(0)
  <2>1. ResultOut(r) = Returned(0) + 1 /\ \A q \in Ranks : Returned(0) + 1 <= called[q]
      BY <1>5, CallBounds
  <2>2. QED
      BY <1>1, <1>3, <2>1
<1>6. QED
    BY <1>4, <1>5

\* The barrier the exchange hides in its results: none leaves the controller, and
\* none is on its way, before every rank has made the call.
THEOREM ResultsWaitForInputs == Spec => []ResultsAfterAllInputs
<1>1. IInv => ResultsAfterAllInputs
  <2>1. IInv => (outputRequest # {} => received = Ranks)
      BY DEF IInv, RangeInv
  <2>2. IInv => \A r \in Workers : output[r] # << >> => \A q \in Ranks : called[q] >= called[r]
    <3>1. SUFFICES ASSUME IInv, NEW r \in Workers, output[r] # << >>, NEW q \in Ranks
                   PROVE  called[q] >= called[r]
        OBVIOUS
    <3>2. called[r] <= called[q] /\ called[q] \in Nat /\ called[r] \in Nat
        BY <3>1, ResultNeedsAllCalls, CallBounds, RanksFinite
    <3>3. QED
        BY <3>2
  <2>3. QED
      BY <2>1, <2>2 DEF ResultsAfterAllInputs
<1>2. QED
    BY <1>1, Invariance, PTL

\* No rank of the group is ever two calls ahead of another.
THEOREM SkewBounded == Spec => []SkewBound
<1>1. IInv => SkewBound
  <2>1. SUFFICES ASSUME IInv, NEW r \in Ranks, NEW q \in Ranks PROVE called[r] <= called[q] + 1
      BY DEF SkewBound
  <2>2. /\ Returned(0) \in Nat /\ called[r] \in Nat /\ called[q] \in Nat /\ Returned(0) <= called[q]
        /\ (r \in Workers => called[r] <= ResultOut(r) + 1) /\ called[0] <= Returned(0) + 1
      BY <2>1, CallBounds
  <2>3. CASE r = 0
      BY <2>2, <2>3
  <2>4. CASE r \in Workers /\ ResultOut(r) = Returned(0)
      BY <2>2, <2>4
  <2>5. CASE r \in Workers /\ ResultOut(r) # Returned(0)
    <3>1. ResultOut(r) = Returned(0) + 1 /\ Returned(0) + 1 <= called[q]
        BY <2>1, <2>5, CallBounds
    <3>2. QED
        BY <2>2, <2>5, <3>1
  <2>6. QED
      BY <2>3, <2>4, <2>5, RanksFinite
<1>2. QED
    BY <1>1, Invariance, PTL

\* The counters that end the loops agree with the flags they count.
THEOREM CountersExact == Spec => []CountersAgree
<1>1. IInv => CountersAgree
    BY DEF IInv
<1>2. QED
    BY <1>1, Invariance, PTL

\* The controller returns with no receive, send, request or thread left behind.
THEOREM ReturnIsClean == Spec => []CleanReturn
<1>1. IInv => CleanReturn
  <2>1. SUFFICES ASSUME IInv, pc[0] = "app"
        PROVE /\ \A r \in Ranks : inputRequest[r] = "null"
              /\ outputRequest = {} /\ pending = {} /\ requests = {} /\ scheduled = {}
              /\ completed = {} /\ (Async => poller = "off")
      BY DEF CleanReturn
  <2>2. PollerInv /\ RangeInv /\ ~InCall
      BY <2>1 DEF IInv, InCall
  <2>3. outputRequest = {} /\ pending = {} /\ requests = {} /\ scheduled = {}
        /\ \A r \in Ranks : inputRequest[r] = "null"
      BY <2>1, <2>2, RanksFinite DEF RangeInv, PollerInv
  <2>4. completed = {} /\ (Async => poller = "off")
      BY <2>1, <2>2, ConfigAssumption DEF PollerInv, IInv, TypeOK, PollerPC
  <2>5. QED
      BY <2>3, <2>4
<1>2. QED
    BY <1>1, Invariance, PTL

\* The executor works on samples that nothing else touches.
THEOREM RangesExclusive == Spec => []ActiveRangeIsExclusive
<1>1. IInv => ActiveRangeIsExclusive
  <2>1. SUFFICES ASSUME IInv, NEW req \in requests
        PROVE /\ RanksOf(req) \subseteq
                    (received \cap scheduled) \ (inferred \cup outputRequest \cup pending)
              /\ \A r \in Ranks : Touches(req, r) => r \in RanksOf(req)
              /\ \A other \in requests \ {req} : RanksOf(req) \cap RanksOf(other) = {}
      BY DEF ActiveRangeIsExclusive
  <2>2. RangeInv
      BY <2>1 DEF IInv
  <2>3. RanksOf(req) \subseteq
            (received \cap scheduled) \ (inferred \cup outputRequest \cup pending)
      BY <2>1, <2>2, RequestFacts DEF RangeInv
  <2>4. \A r \in Ranks : Touches(req, r) => r \in RanksOf(req)
      BY <2>1, RequestFacts, RangeGeometry
  <2>5. \A other \in requests \ {req} : RanksOf(req) \cap RanksOf(other) = {}
      BY <2>1, <2>2 DEF RangeInv
  <2>6. QED
      BY <2>3, <2>4, <2>5
<1>2. QED
    BY <1>1, Invariance, PTL

\* The longest range that is cut to max_samples keeps to it.
LEMMA SelectionFits ==
    ASSUME TypeOK, RangePipeline, NEW req \in SelectedRanges, req.end > req.first + 1
    PROVE  req.count <= MaxSamples
<1>1. PICK run \in LargestRuns : req.first = run[1] /\ req.end \in FittingEnds(run)
    BY DEF SelectedRanges
<1>2. /\ req.first \in Ranks /\ req.end \in 1 .. N
      /\ req.count = SampleEnd(req.end - 1) - Displ[req.first]
    BY SelectionFacts
<1>3. req.first \in Nat /\ req.end \in Nat
    BY <1>2, ConfigAssumption DEF Ranks
<1>4. \A r \in (run[1] + 1) .. (req.end - 1) : SampleEnd(r) - Displ[run[1]] <= MaxSamples
    BY <1>1 DEF FittingEnds
<1>5. req.end - 1 \in (run[1] + 1) .. (req.end - 1)
    BY <1>1, <1>3
<1>6. QED
    BY <1>1, <1>2, <1>4, <1>5

\* ExecutorLimits with what makes the number of requests a number.
LimitsInv == IsFiniteSet(requests) /\ ExecutorLimits

\* Fewer requests, or one replaced by its finished form, keep to the limits.
LEMMA FinishingKeepsLimits ==
    ASSUME LimitsInv, TypeOK, NEW req \in requests,
           \/ requests' = requests \ {req}
           \/ requests' = (requests \ {req}) \cup {[req EXCEPT !.done = TRUE]}
    PROVE  LimitsInv'
<1>1. /\ IsFiniteSet(requests) /\ Depth \in Nat
      /\ Cardinality(requests) <= (IF RangePipeline THEN Depth ELSE 1)
      /\ \A q \in requests : q.count > 0 /\ (RangePipeline /\ q.end > q.first + 1 => q.count <= MaxSamples)
    BY ConfigAssumption DEF LimitsInv, ExecutorLimits
<1>2. /\ IsFiniteSet(requests \ {req})
      /\ Cardinality(requests \ {req}) = Cardinality(requests) - 1
    BY <1>1, FS_RemoveElement
<1>3. Cardinality(requests) \in Nat /\ Cardinality(requests \ {req}) \in Nat
    BY <1>1, <1>2, FS_CardinalityType
<1>4. IsFiniteSet(requests') /\ Cardinality(requests') <= Cardinality(requests) /\ Cardinality(requests') \in Nat
  <2>1. CASE requests' = requests \ {req}
      BY <2>1, <1>2, <1>3
  <2>2. CASE requests' = (requests \ {req}) \cup {[req EXCEPT !.done = TRUE]}
    <3>1. /\ IsFiniteSet(requests')
          /\ \/ Cardinality(requests') = Cardinality(requests \ {req})
             \/ Cardinality(requests') = Cardinality(requests \ {req}) + 1
        BY <2>2, <1>2, FS_AddElement
    <3>2. QED
        BY <3>1, <1>2, <1>3
  <2>3. QED
      BY <2>1, <2>2
<1>5. Cardinality(requests') <= (IF RangePipeline THEN Depth ELSE 1)
    BY <1>1, <1>3, <1>4
<1>6. \A q \in requests' : q.count > 0 /\ (RangePipeline /\ q.end > q.first + 1 => q.count <= MaxSamples)
  <2>1. req \in [first : Ranks, end : 1 .. N, start : Nat, count : Nat, done : BOOLEAN]
      BY DEF TypeOK
  <2>2. LET f == [req EXCEPT !.done = TRUE]
        IN  f.count = req.count /\ f.end = req.end /\ f.first = req.first
      BY <2>1
  <2>3. QED
      BY <1>1, <2>2
<1>7. QED
    BY <1>4, <1>5, <1>6 DEF LimitsInv, ExecutorLimits

\* A range is submitted only to an executor that has room for it.
LEMMA SubmittingKeepsLimits ==
    ASSUME LimitsInv, TypeOK, NEW req \in SelectedRanges, SelectAndSubmit(req)
    PROVE  LimitsInv'
<1>1. CanSubmit /\ requests' = requests \cup {req}
    BY DEF SelectAndSubmit
<1>2. /\ IsFiniteSet(requests) /\ Depth \in Nat
      /\ \A q \in requests : q.count > 0 /\ (RangePipeline /\ q.end > q.first + 1 => q.count <= MaxSamples)
    BY ConfigAssumption DEF LimitsInv, ExecutorLimits
<1>3. Cardinality(requests) \in Nat /\ IsFiniteSet(requests')
      /\ (\/ Cardinality(requests') = Cardinality(requests)
          \/ Cardinality(requests') = Cardinality(requests) + 1)
    BY <1>1, <1>2, FS_AddElement, FS_CardinalityType
<1>4. Cardinality(requests') <= (IF RangePipeline THEN Depth ELSE 1)
  <2>1. CASE RangePipeline
      BY <2>1, <1>1, <1>2, <1>3 DEF CanSubmit
  <2>2. CASE ~RangePipeline
    <3>1. Cardinality(requests) = 0
        BY <2>2, <1>1, FS_EmptySet DEF CanSubmit
    <3>2. QED
        BY <2>2, <3>1, <1>3
  <2>3. QED
      BY <2>1, <2>2
<1>5. req.count > 0 /\ (RangePipeline /\ req.end > req.first + 1 => req.count <= MaxSamples)
    BY SelectionFits DEF SelectedRanges
<1>6. \A q \in requests' : q.count > 0 /\ (RangePipeline /\ q.end > q.first + 1 => q.count <= MaxSamples)
    BY <1>1, <1>2, <1>5
<1>7. QED
    BY <1>3, <1>4, <1>6 DEF LimitsInv, ExecutorLimits

\* The executor is never given a range that it would refuse by throwing: not one
\* request too many, none without samples, none larger than max_samples but that
\* of a single rank.
THEOREM ExecutorNeverOverrun == Spec => []ExecutorLimits
<1>1. Init => LimitsInv
  <2>1. Init => requests = {}
      BY DEF Init
  <2>2. IsFiniteSet({}) /\ Cardinality({}) = 0 /\ Depth \in Nat
      BY FS_EmptySet, ConfigAssumption
  <2>3. QED
      BY <2>1, <2>2 DEF LimitsInv, ExecutorLimits
<1>2. IInv /\ LimitsInv /\ [Next]_vars => LimitsInv'
  <2>1. SUFFICES ASSUME TypeOK, LimitsInv, [Next]_vars PROVE LimitsInv'
      BY DEF IInv
  <2>2. CASE \E req \in requests : LoopCollect(req) \/ InferenceDone(req)
      BY <2>1, <2>2, FinishingKeepsLimits DEF LoopCollect, InferenceDone
  <2>3. CASE \E req \in SelectedRanges : SelectAndSubmit(req)
      BY <2>1, <2>3, SubmittingKeepsLimits
  <2>4. CASE ControllerCall
    <3>1. requests' = {}
        BY <2>4 DEF ControllerCall
    <3>2. IsFiniteSet({}) /\ Cardinality({}) = 0 /\ Depth \in Nat
        BY FS_EmptySet, ConfigAssumption
    <3>3. QED
        BY <3>1, <3>2 DEF LimitsInv, ExecutorLimits
  <2>5. CASE UNCHANGED requests
      BY <2>1, <2>5 DEF LimitsInv, ExecutorLimits
  <2>6. CASE \E r \in Workers : WorkerCall(r) \/ Worker(r) \/ Deliver(r) \/ Inject(r)
      BY <2>5, <2>6 DEF Worker, WorkerCall, WorkerSendInput, WorkerRecvAck, WorkerRecvResult,
                        Deliver, Inject, inferVars
  <2>7. CASE Poller
      BY <2>5, <2>7 DEF Poller, TestSome, Record, AckAndGrant, ProgressThreadEnd, inferVars
  <2>8. CASE \/ LoopTop \/ LoopFlush \/ NothingFinished \/ SelectNothing
             \/ Join \/ WaitAll \/ \E req \in SelectedRanges : SelectAndInfer(req)
      BY <2>5, <2>8 DEF LoopTop, LoopFlush, NothingFinished, SelectNothing,
                        Join, WaitAll, SelectAndInfer, inferVars
  <2>9. CASE Finished \/ UNCHANGED vars
      BY <2>5, <2>9 DEF Finished, vars, inferVars
  <2>10. QED
      BY <2>1, <2>2, <2>3, <2>4, <2>6, <2>7, <2>8, <2>9 DEF Next, Controller, Executor
<1>3. LimitsInv => ExecutorLimits
    BY DEF LimitsInv
<1>4. QED
    BY <1>1, <1>2, <1>3, Invariance, PTL DEF Spec

-----------------------------------------------------------------------------
(***************************************************************************)
(* Flow control: who has been granted a credit is decided by how many      *)
(* inputs have been acknowledged, in whatever order they arrived.          *)
(***************************************************************************)
AckedIn(t) == (received \cap Tier(t)) \ completed
Due(t)     == InitialCredits + 2 * Cardinality(AckedIn(t))

\* What the code grants: a tier has initial_credits credits and two for every
\* acknowledged input of the tier, as far as it has ranks, in rank order.
GrantLaw ==
    pc[0] # "app" =>
        \A t \in {0, 1} :
            granted \cap Tier(t) = {r \in Tier(t) : Cardinality({q \in Tier(t) : q < r}) < Due(t)}

\* GrantLaw, with the ranks that are due as the first ones of their tier.
LEMMA GrantLawRestated ==
    /\ GrantLaw <=> (InCall => \A t \in {0, 1} : granted \cap Tier(t) = First(Tier(t), Due(t)))
    /\ GrantLaw' <=> (InCall' => \A t \in {0, 1} : granted' \cap Tier(t) = First(Tier(t), Due(t)'))
BY DEF GrantLaw, InCall, First, Position, Due, AckedIn

\* The two tiers divide the workers, and their ranks are naturals.
LEMMA TierFacts ==
    ASSUME NEW t \in {0, 1}
    PROVE  /\ Tier(t) \in SUBSET Nat /\ IsFiniteSet(Tier(t)) /\ Tier(t) \subseteq Workers
           /\ \A r \in Workers : TierOf(r) \in {0, 1} /\ (r \in Tier(t) <=> TierOf(r) = t)
           /\ \A S : /\ IsFiniteSet(S \cap Tier(t)) /\ Cardinality(S \cap Tier(t)) \in Nat
                     /\ IsFiniteSet((received \cap Tier(t)) \ S)
                     /\ Cardinality((received \cap Tier(t)) \ S) \in Nat
<1>1. Tier(t) \subseteq Workers /\ Workers \subseteq Nat
    BY DEF Tier, Workers
<1>2. IsFiniteSet(Tier(t))
    BY <1>1, RanksFinite, FS_Subset
<1>3. \A S : IsFiniteSet(S \cap Tier(t)) /\ IsFiniteSet((received \cap Tier(t)) \ S)
    BY <1>2, FS_Subset
<1>4. \A S : Cardinality(S \cap Tier(t)) \in Nat /\ Cardinality((received \cap Tier(t)) \ S) \in Nat
    BY <1>3, FS_CardinalityType
<1>5. QED
    BY <1>1, <1>2, <1>3, <1>4 DEF Tier, TierOf

\* Nothing is due before the acknowledged inputs of the call change.
LEMMA GrantFrame ==
    ASSUME GrantLaw, InCall' => InCall, UNCHANGED granted,
           \A t \in {0, 1} : UNCHANGED AckedIn(t)
    PROVE  GrantLaw'
<1>1. \A t \in {0, 1} : UNCHANGED Due(t)
    BY DEF Due
<1>2. InCall' => \A t \in {0, 1} : granted' \cap Tier(t) = First(Tier(t), Due(t)')
    BY <1>1, GrantLawRestated
<1>3. QED
    BY <1>2, GrantLawRestated

\* The controller's call grants the initial credits of both tiers.
LEMMA ControllerCallGrants ==
    ASSUME ControllerCall PROVE GrantLaw'
<1>1. granted' = InitialGrants /\ received' = {0} /\ completed' = {}
    BY DEF ControllerCall
<1>2. ASSUME NEW t \in {0, 1} PROVE granted' \cap Tier(t) = First(Tier(t), Due(t)')
  <2>1. AckedIn(t)' = {}
      BY <1>1, RanksFinite DEF AckedIn, Tier
  <2>2. Due(t)' = InitialCredits
      BY <2>1, FS_EmptySet, ConfigAssumption DEF Due
  <2>3. InitialGrants \cap Tier(t) = First(Tier(t), InitialCredits)
      BY TierFacts DEF InitialGrants, First, Position
  <2>4. QED
      BY <1>1, <2>2, <2>3
<1>3. QED
    BY <1>2, GrantLawRestated

\* An acknowledgement grants the next two ranks of the tier it belongs to.
LEMMA AckAndGrantGrants ==
    ASSUME IInv, GrantLaw, NEW r \in completed, AckAndGrant(r) PROVE GrantLaw'
<1>1. /\ granted' = granted \cup Grants(TierOf(r), 2) /\ completed' = completed \ {r}
      /\ received' = received /\ r \in received /\ poller = "grant"
    BY DEF AckAndGrant
<1>2. r \in Workers /\ completed \cap received = {r}
    BY <1>1 DEF IInv, TypeOK, PollerInv
<1>3. InCall
  <2>1. (~Async => pc[0] = "poll") /\ (Async => pc[0] \notin {"wait", "app"}) /\ Async \in BOOLEAN
      BY <1>1, ConfigAssumption DEF IInv, PollerInv
  <2>2. QED
      BY <2>1 DEF InCall
<1>4. ASSUME NEW t \in {0, 1} PROVE granted' \cap Tier(t) = First(Tier(t), Due(t)')
  <2>1. granted \cap Tier(t) = First(Tier(t), Due(t))
      BY <1>3, GrantLawRestated
  <2> DEFINE acked == Cardinality(AckedIn(t))
  <2>2. acked \in Nat
      BY TierFacts DEF AckedIn
  <2>3. Due(t) = InitialCredits + 2 * acked /\ Due(t) \in Nat
      BY <2>2, ConfigAssumption DEF Due
  <2> HIDE DEF acked
  <2>4. CASE TierOf(r) = t
    <3>1. AckedIn(t)' = AckedIn(t) \cup {r} /\ r \notin AckedIn(t)
        BY <1>1, <1>2, <2>4, TierFacts DEF AckedIn
    <3>2. IsFiniteSet(AckedIn(t)) /\ Cardinality(AckedIn(t)') = Cardinality(AckedIn(t)) + 1
      <4>1. IsFiniteSet(AckedIn(t))
          BY TierFacts DEF AckedIn
      <4>2. QED
          BY <3>1, <4>1, FS_AddElement
    <3>3. Due(t)' = Due(t) + 2
        BY <2>2, <2>3, <3>2, ConfigAssumption DEF Due, acked
    <3>4. Grants(t, 2) = First(Tier(t) \ First(Tier(t), Due(t)), 2)
      <4>1. Tier(t) \ granted = Tier(t) \ First(Tier(t), Due(t))
          BY <2>1
      <4>2. Grants(t, 2) = First(Tier(t) \ granted, 2)
          BY DEF Grants, First, Position
      <4>3. QED
          BY <4>1, <4>2
    <3>5. First(Tier(t), Due(t)) \cup Grants(t, 2) = First(Tier(t), Due(t) + 2)
      <4>1. Tier(t) \in SUBSET Nat /\ IsFiniteSet(Tier(t)) /\ 2 \in Nat
          BY TierFacts
      <4>2. \A d \in Nat : First(Tier(t), d) \cup First(Tier(t) \ First(Tier(t), d), 2) = First(Tier(t), d + 2)
          BY <4>1, NextPositions
      <4>3. QED
          BY <2>3, <3>4, <4>2
    <3>6. Grants(t, 2) \subseteq Tier(t)
        BY DEF Grants
    <3>7. QED
        BY <1>1, <2>1, <2>4, <3>3, <3>5, <3>6
  <2>5. CASE TierOf(r) # t
    <3>1. AckedIn(t)' = AckedIn(t)
        BY <1>1, <1>2, <2>5, TierFacts DEF AckedIn
    <3>2. Due(t)' = Due(t)
        BY <3>1 DEF Due
    <3>3. Grants(TierOf(r), 2) \cap Tier(t) = {}
        BY <2>5 DEF Grants, Tier
    <3>4. QED
        BY <1>1, <2>1, <3>2, <3>3
  <2>6. QED
      BY <2>4, <2>5
<1>5. QED
    BY <1>4, GrantLawRestated

\* A tier is granted the initial credits and two for every acknowledged input, in
\* rank order, whatever order the inputs come in.
LEMMA GrantsAreLawful == Spec => []GrantLaw
<1>1. Init => GrantLaw
    BY RanksFinite DEF Init, GrantLaw
<1>2. IInv /\ GrantLaw /\ [Next]_vars => GrantLaw'
  <2>1. SUFFICES ASSUME IInv, GrantLaw, [Next]_vars PROVE GrantLaw'
      OBVIOUS
  <2>2. CASE ControllerCall
      BY <2>2, ControllerCallGrants
  <2>3. ASSUME NEW r \in completed, AckAndGrant(r) PROVE GrantLaw'
      BY <2>1, <2>3, AckAndGrantGrants
  <2>4. CASE TestSome
    <3>1. /\ granted' = granted /\ received' = received /\ completed' = Filled /\ pc' = pc
          /\ poller = "test"
        BY <2>4 DEF TestSome
    <3>2. completed = {} /\ Filled \cap Workers \cap received = {}
        BY <2>1, <3>1, RanksFinite DEF IInv, PollerInv, Filled
    <3>3. \A t \in {0, 1} : AckedIn(t)' = AckedIn(t)
        BY <3>1, <3>2, TierFacts DEF AckedIn
    <3>4. QED
        BY <2>1, <3>1, <3>3, GrantFrame DEF InCall
  <2>5. ASSUME NEW r \in completed, Record(r) PROVE GrantLaw'
    <3>1. granted' = granted /\ received' = received \cup {r} /\ completed' = completed /\ pc' = pc
        BY <2>5 DEF Record
    <3>2. \A t \in {0, 1} : AckedIn(t)' = AckedIn(t)
        BY <2>5, <3>1 DEF AckedIn
    <3>3. QED
        BY <2>1, <3>1, <3>2, GrantFrame DEF InCall
  <2>6. ASSUME UNCHANGED << granted, received, completed >>, InCall' => InCall PROVE GrantLaw'
    <3>1. \A t \in {0, 1} : AckedIn(t)' = AckedIn(t)
        BY <2>6 DEF AckedIn
    <3>2. QED
        BY <2>1, <2>6, <3>1, GrantFrame
  <2>7. CASE \E r \in Workers : WorkerCall(r) \/ Worker(r) \/ Deliver(r) \/ Inject(r)
    <3>1. \E r \in Workers, label \in WorkerPC : pc' = pc \/ pc' = [pc EXCEPT ![r] = label]
        BY <2>7 DEF Worker, WorkerCall, WorkerSendInput, WorkerRecvAck, WorkerRecvResult,
                    Deliver, Inject, WorkerPC
    <3>2. UNCHANGED << granted, received, completed >>
        BY <2>7 DEF Worker, WorkerCall, WorkerSendInput, WorkerRecvAck, WorkerRecvResult,
                    Deliver, Inject, pollVars
    <3>3. pc'[0] = pc[0]
      <4>1. 0 \in Ranks /\ 0 \notin Workers /\ pc \in [Ranks -> ControllerPC \cup WorkerPC]
          BY <2>1, RanksFinite DEF IInv, TypeOK
      <4>2. QED
          BY <3>1, <4>1
    <3>4. QED
        BY <2>6, <3>2, <3>3 DEF InCall
  <2>8. CASE ProgressThreadEnd \/ Executor
      BY <2>6, <2>8 DEF ProgressThreadEnd, Executor, InferenceDone, pollVars, InCall
  <2>9. CASE Controller
    <3>1. InCall
        BY <2>9 DEF Controller, LoopTop, LoopFlush, NothingFinished, SelectNothing, LoopCollect,
                    SelectAndSubmit, SelectAndInfer, Join, WaitAll, InCall
    <3>2. UNCHANGED << granted, received, completed >>
        BY <2>9 DEF Controller, LoopTop, LoopFlush, NothingFinished, SelectNothing, LoopCollect,
                    SelectAndSubmit, SelectAndInfer, Join, WaitAll, pollVars
    <3>3. QED
        BY <2>6, <3>1, <3>2
  <2>10. CASE Finished \/ UNCHANGED vars
      BY <2>6, <2>10 DEF Finished, vars, pollVars, InCall
  <2>11. QED
      BY <2>1, <2>2, <2>3, <2>4, <2>5, <2>7, <2>8, <2>9, <2>10 DEF Next, Poller
<1>3. QED
    BY <1>1, <1>2, Invariance, PTL DEF Spec

\* Flow control never runs dry, whatever the placement and the initial credits: as
\* long as a worker of a tier has no credit, another one of the tier has one whose
\* acknowledgement will bring more.
THEOREM TiersNeverDry == Spec => []TierNeverDry
<1>1. ASSUME GrantLaw, InCall, NEW t \in {0, 1}, ~(Tier(t) \subseteq granted)
      PROVE  ~(Tier(t) \cap granted \subseteq received \ completed)
  <2>1. granted \cap Tier(t) = First(Tier(t), Due(t))
      BY <1>1, GrantLawRestated
  <2>2. IsFiniteSet(AckedIn(t)) /\ Cardinality(AckedIn(t)) \in Nat
      BY TierFacts DEF AckedIn
  <2>3. Due(t) \in Nat /\ Due(t) > Cardinality(AckedIn(t))
      BY <2>2, ConfigAssumption DEF Due
  <2>4. Tier(t) \in SUBSET Nat /\ IsFiniteSet(Tier(t))
      BY TierFacts
  <2>5. First(Tier(t), Due(t)) # Tier(t)
      BY <1>1, <2>1
  <2>6. Cardinality(First(Tier(t), Due(t))) = Due(t)
      BY <2>3, <2>4, <2>5, LowPositions
  <2>7. ASSUME Tier(t) \cap granted \subseteq received \ completed PROVE FALSE
    <3>1. First(Tier(t), Due(t)) \in SUBSET AckedIn(t)
        BY <2>1, <2>7 DEF AckedIn
    <3>2. Cardinality(First(Tier(t), Due(t))) <= Cardinality(AckedIn(t))
        BY <2>2, <3>1, FS_Subset
    <3>3. QED
        BY <2>2, <2>3, <2>6, <3>2
  <2>8. QED
      BY <2>7
<1>2. GrantLaw => TierNeverDry
    BY <1>1 DEF TierNeverDry, InCall
<1>3. QED
    BY <1>2, GrantsAreLawful, PTL

-----------------------------------------------------------------------------
(***************************************************************************)
(* The exchange implements the contract of Exchange: a call of a rank is a *)
(* Call, the end of its call is a Return, and everything else is invisible *)
(* to the callers.  Without the range pipeline the result of the           *)
(* controller is not promised (see PipelinedModes).                        *)
(***************************************************************************)
ReturnedMap == [r \in Ranks |-> Returned(r)]
ResultOf(r) == IF r = 0 /\ ~RangePipeline THEN called[r] ELSE result[r]
OutMap      == [r \in Ranks |-> IF pc[r] = "app" THEN ResultOf(r) ELSE 0]

Contract == INSTANCE Exchange WITH returned <- ReturnedMap, out <- OutMap, members <- Ranks

\* Rank w goes from the application into a call.
LEMMA EnterCall ==
    ASSUME IInv, NEW w \in Ranks, pc[w] = "app", pc'[w] # "app", called[w] < MaxCalls,
           called' = [called EXCEPT ![w] = @ + 1], result' = result,
           \A q \in Ranks \ {w} : pc'[q] = pc[q]
    PROVE  Contract!Call(w)
<1>1. called \in [Ranks -> 0 .. MaxCalls] /\ called[w] \in Nat
    BY Types DEF IInv, TypeOK
<1>2. called'[w] = called[w] + 1 /\ \A q \in Ranks \ {w} : called'[q] = called[q]
    BY <1>1
<1>3. \A q \in Ranks : Returned(q)' = Returned(q)
    BY <1>1, <1>2 DEF Returned
<1>4. ReturnedMap' = ReturnedMap
    BY <1>3 DEF ReturnedMap
<1>5. OutMap' = [OutMap EXCEPT ![w] = 0]
  <2>1. \A q \in Ranks \ {w} : ResultOf(q)' = ResultOf(q)
      BY <1>2 DEF ResultOf
  <2>2. QED
      BY <2>1 DEF OutMap
<1>6. ReturnedMap[w] = called[w]
    BY DEF ReturnedMap, Returned
<1>7. QED
    BY <1>4, <1>5, <1>6 DEF Contract!Call, ReturnedMap, OutMap

\* Rank w returns with the output of its input after everybody has made the call.
LEMMA LeaveCall ==
    ASSUME IInv, NEW w \in Ranks, pc[w] # "app", pc'[w] = "app", called' = called,
           \A q \in Ranks : called[w] <= called[q],
           RangePipeline \/ w # 0 => result'[w] = called[w],
           \A q \in Ranks \ {w} : pc'[q] = pc[q] /\ result'[q] = result[q]
    PROVE  Contract!Return(w)
<1>1. called[w] \in Nat
    BY Types DEF IInv
<1>2. Returned(w) < called[w] /\ Returned(w)' = called[w]
      /\ \A q \in Ranks \ {w} : Returned(q)' = Returned(q)
    BY <1>1 DEF Returned
<1>3. ReturnedMap' = [ReturnedMap EXCEPT ![w] = called[w]] /\ ReturnedMap[w] < called[w]
    BY <1>2 DEF ReturnedMap
<1>4. OutMap' = [OutMap EXCEPT ![w] = called[w]]
  <2>1. ResultOf(w)' = called[w] /\ \A q \in Ranks \ {w} : ResultOf(q)' = ResultOf(q)
      BY DEF ResultOf
  <2>2. QED
      BY <2>1 DEF OutMap
<1>5. QED
    BY <1>3, <1>4 DEF Contract!Return, ReturnedMap, OutMap

\* A step in which no rank enters or leaves a call.
LEMMA InsideCall ==
    ASSUME called' = called, \A q \in Ranks : pc'[q] = "app" <=> pc[q] = "app",
           \A q \in Ranks : pc[q] = "app" => result'[q] = result[q]
    PROVE  UNCHANGED Contract!vars
<1>1. ReturnedMap' = ReturnedMap /\ OutMap' = OutMap
    BY DEF ReturnedMap, OutMap, Returned, ResultOf
<1>2. QED
    BY <1>1 DEF Contract!vars, ReturnedMap, OutMap

\* Every step is a step of the contract or leaves its state.
LEMMA StepImplements ==
    ASSUME IInv, [Next]_vars PROVE [Contract!Next]_(Contract!vars)
<1>1. TypeOK /\ 0 \in Ranks /\ Workers = Ranks \ {0} /\ pc \in [Ranks -> ControllerPC \cup WorkerPC]
      /\ result \in [Ranks -> 0 .. MaxCalls]
    BY RanksFinite DEF IInv, TypeOK
<1>2. ASSUME NEW w \in Workers, WorkerCall(w) PROVE Contract!Next
  <2>1. Contract!Call(w)
      BY <1>1, <1>2, EnterCall DEF WorkerCall
  <2>2. QED
      BY <1>1, <1>2, <2>1 DEF Contract!Next
<1>3. ASSUME ControllerCall PROVE Contract!Next
  <2>1. Contract!Call(0)
      BY <1>1, <1>3, EnterCall DEF ControllerCall, Goto
  <2>2. QED
      BY <1>1, <2>1 DEF Contract!Next
<1>4. ASSUME NEW w \in Workers, WorkerRecvResult(w) PROVE Contract!Next
  <2>1. /\ pc[w] = "result" /\ pc'[w] = "app" /\ called' = called /\ w \in Ranks
        /\ \A q \in Ranks \ {w} : pc'[q] = pc[q] /\ result'[q] = result[q]
      BY <1>1, <1>4 DEF WorkerRecvResult
  <2>2. \A q \in Ranks : called[w] <= called[q]
      BY <1>4, ResultNeedsAllCalls DEF WorkerRecvResult
  <2>3. result'[w] = called[w]
    <3>1. IInv'
        BY <1>4, WorkerRecvResultInv
    <3>2. QED
        BY <1>4, <2>1, <3>1 DEF IInv, DataInv
  <2>4. QED
      BY <2>1, <2>2, <2>3, LeaveCall DEF Contract!Next
<1>5. ASSUME WaitAll PROVE Contract!Next
  <2>1. /\ pc[0] = "wait" /\ pc'[0] = "app" /\ called' = called /\ result' = result
        /\ \A q \in Ranks \ {0} : pc'[q] = pc[q] /\ result'[q] = result[q]
      BY <1>1, <1>5 DEF WaitAll, Goto, appVars
  <2>2. \A q \in Ranks : called[0] <= called[q]
    <3>1. InCall /\ received = Ranks /\ called[0] = Returned(0) + 1
      <4>1. called[0] \in Nat
          BY <1>1, Types
      <4>2. InCall /\ received = Ranks
          BY <2>1 DEF IInv, RangeInv, TypeOK, InCall
      <4>3. Returned(0) = called[0] - 1
          BY <2>1 DEF Returned
      <4>4. QED
          BY <4>1, <4>2, <4>3
    <3>2. QED
        BY <3>1, CallBounds
  <2>3. RangePipeline => result'[0] = called[0]
    <3>1. IInv'
        BY <1>5, WaitAllInv
    <3>2. QED
        BY <2>1, <3>1 DEF IInv, DataInv, InCall
  <2>4. QED
      BY <1>1, <2>1, <2>2, <2>3, LeaveCall DEF Contract!Next
<1>6. ASSUME NEW w \in Workers, WorkerSendInput(w) \/ WorkerRecvAck(w) \/ Deliver(w) \/ Inject(w)
      PROVE  UNCHANGED Contract!vars
  <2>1. called' = called /\ result' = result /\ \A q \in Ranks : pc'[q] = "app" <=> pc[q] = "app"
      BY <1>1, <1>6 DEF WorkerSendInput, WorkerRecvAck, Deliver, Inject, appVars
  <2>2. QED
      BY <2>1, InsideCall
<1>7. ASSUME Poller PROVE UNCHANGED Contract!vars
  <2>1. called' = called /\ result' = result
      BY <1>7 DEF Poller, TestSome, Record, AckAndGrant, ProgressThreadEnd, appVars
  <2>2. ASSUME NEW r \in completed, AckAndGrant(r)
        PROVE  \A q \in Ranks : pc'[q] = "app" <=> pc[q] = "app"
    <3>1. /\ poller = "grant"
          /\ pc' = pc \/ (~Async /\ pc' = [pc EXCEPT ![0] = "flush"])
        BY <2>2, ConfigAssumption DEF AckAndGrant
    <3>2. ~Async => pc[0] = "poll"
        BY <3>1 DEF IInv, PollerInv
    <3>3. QED
        BY <1>1, <3>1, <3>2
  <2>3. \A q \in Ranks : pc'[q] = "app" <=> pc[q] = "app"
      BY <1>7, <2>2 DEF Poller, TestSome, Record, ProgressThreadEnd
  <2>4. QED
      BY <2>1, <2>3, InsideCall
<1>8. ASSUME Controller, ~WaitAll PROVE UNCHANGED Contract!vars
  <2>1. called' = called
      BY <1>8 DEF Controller, LoopTop, LoopFlush, NothingFinished, SelectNothing,
         LoopCollect, SelectAndSubmit, SelectAndInfer, Join, appVars
  <2>2. result' = result
    <3>1. ASSUME NEW req \in SelectedRanges, SelectAndInfer(req) PROVE result' = result
        BY <3>1 DEF SelectAndInfer, Infer, Direct
    <3>2. CASE ~\E req \in SelectedRanges : SelectAndInfer(req)
        BY <1>8, <3>2 DEF Controller, LoopTop, LoopFlush, NothingFinished, SelectNothing,
           LoopCollect, SelectAndSubmit, Join, appVars
    <3>3. QED
        BY <3>1, <3>2
  <2>3. pc[0] # "app"
      BY <1>8 DEF Controller, LoopTop, LoopFlush, NothingFinished, SelectNothing,
         LoopCollect, SelectAndSubmit, SelectAndInfer, Join
  <2>4. pc' = pc \/ \E label \in ControllerPC \ {"app"} : Goto(label)
      BY <1>8 DEF Controller, LoopTop, LoopFlush, NothingFinished, SelectNothing,
         LoopCollect, SelectAndSubmit, SelectAndInfer, Join, ControllerPC
  <2>5. \A q \in Ranks : pc'[q] = "app" <=> pc[q] = "app"
      BY <1>1, <2>3, <2>4 DEF Goto
  <2>6. QED
      BY <2>1, <2>2, <2>5, InsideCall
<1>9. ASSUME NEW req \in requests, InferenceDone(req) PROVE UNCHANGED Contract!vars
  <2>1. called' = called /\ pc' = pc /\ pc[0] # "app"
      BY <1>9, RequestFacts DEF InferenceDone, InCall
  <2>2. \A q \in Workers : result'[q] = result[q]
      BY <1>1, <1>9 DEF InferenceDone, Infer
  <2>3. QED
      BY <1>1, <2>1, <2>2, InsideCall
<1>10. ASSUME UNCHANGED vars PROVE UNCHANGED Contract!vars
    BY <1>10, InsideCall DEF vars, appVars
<1>11. QED
    BY <1>2, <1>3, <1>4, <1>5, <1>6, <1>7, <1>8, <1>9, <1>10 DEF Next, Worker, Executor, Finished

LEMMA InitImplements == Init => Contract!Init
<1>1. SUFFICES ASSUME Init PROVE Contract!Init
    OBVIOUS
<1>2. ReturnedMap = [r \in Ranks |-> 0] /\ OutMap = [r \in Ranks |-> 0]
    BY <1>1 DEF Init, ReturnedMap, OutMap, Returned, ResultOf
<1>3. QED
    BY <1>1, <1>2 DEF Contract!Init, Init

\* An exchange with the range pipeline is an implementation of the contract.
THEOREM Implementation == ASSUME RangePipeline PROVE Spec => ImplementsExchange
<1>1. OutMap = [r \in Ranks |-> IF pc[r] = "app" THEN result[r] ELSE 0]
    BY DEF OutMap, ResultOf
<1>2. Init => Group!Init
    BY <1>1, InitImplements DEF Contract!Init, Group!Init, ReturnedMap
<1>3. IInv /\ [Next]_vars => [Group!Next]_(Group!vars)
  <2>1. SUFFICES ASSUME [Contract!Next]_(Contract!vars) PROVE [Group!Next]_(Group!vars)
      BY StepImplements
  <2>2. OutMap' = [r \in Ranks |-> IF pc'[r] = "app" THEN result'[r] ELSE 0]
      BY DEF OutMap, ResultOf
  <2>3. \A r : (Contract!Call(r) => Group!Call(r)) /\ (Contract!Return(r) => Group!Return(r))
      BY <1>1, <2>2 DEF Contract!Call, Contract!Return, Group!Call, Group!Return, ReturnedMap
  <2>4. UNCHANGED Contract!vars => UNCHANGED Group!vars
      BY <1>1, <2>2 DEF Contract!vars, Group!vars, ReturnedMap
  <2>5. QED
      BY <2>1, <2>3, <2>4 DEF Contract!Next, Group!Next
<1>4. QED
    BY <1>2, <1>3, Invariance, PTL DEF Spec, ImplementsExchange, Group!Spec

(***************************************************************************)
(* The exchange that PipelinedModes runs in the mode of this module is the *)
(* exchange of this module, so that what is proved here of the four values *)
(* of Async and RangePipeline holds in the four modes.                     *)
(***************************************************************************)
ThisMode == [async |-> Async, pipeline |-> RangePipeline]

InMode == INSTANCE PipelinedModes WITH mode <- ThisMode

LEMMA ModeOperators ==
    ASSUME NEW m, m = ThisMode
    PROVE  /\ m.async = Async /\ m.pipeline = RangePipeline
           /\ InMode!Exchanging(m)!Ranks = Ranks
           /\ InMode!Exchanging(m)!Workers = Workers
           /\ InMode!Exchanging(m)!Filled = Filled
           /\ InMode!Exchanging(m)!InitialGrants = InitialGrants
           /\ InMode!Exchanging(m)!SelectedRanges = SelectedRanges
           /\ \A r : InMode!Exchanging(m)!TierOf(r) = TierOf(r)
           /\ \A t, n : InMode!Exchanging(m)!Grants(t, n) = Grants(t, n)
           /\ \A S : InMode!Exchanging(m)!Cardinality(S) = Cardinality(S)
           /\ \A r : InMode!Exchanging(m)!SampleEnd(r) = SampleEnd(r)
<1>1. m.async = Async /\ m.pipeline = RangePipeline
    BY DEF ThisMode
<1>2. \A S : InMode!Exchanging(m)!Cardinality(S) = Cardinality(S)
    BY Zenon DEF Cardinality, InMode!Exchanging!Cardinality
<1>3. InMode!Exchanging(m)!Ranks = Ranks /\ InMode!Exchanging(m)!Workers = Workers
    BY DEF Ranks, InMode!Exchanging!Ranks, Workers, InMode!Exchanging!Workers
<1>4. \A r : InMode!Exchanging(m)!TierOf(r) = TierOf(r)
    BY DEF TierOf, InMode!Exchanging!TierOf
<1>5. InMode!Exchanging(m)!InitialGrants = InitialGrants
    BY <1>2 DEF InitialGrants, InMode!Exchanging!InitialGrants, Tier, InMode!Exchanging!Tier,
        TierOf, InMode!Exchanging!TierOf, Workers, InMode!Exchanging!Workers, Ranks,
        InMode!Exchanging!Ranks
<1>6. \A t, n : InMode!Exchanging(m)!Grants(t, n) = Grants(t, n)
    BY <1>2 DEF Grants, InMode!Exchanging!Grants, Tier, InMode!Exchanging!Tier, TierOf,
        InMode!Exchanging!TierOf, Workers, InMode!Exchanging!Workers, Ranks,
        InMode!Exchanging!Ranks
<1>7. \A r : InMode!Exchanging(m)!SampleEnd(r) = SampleEnd(r)
    BY DEF SampleEnd, InMode!Exchanging!SampleEnd
<1>8. InMode!Exchanging(m)!LargestRuns = LargestRuns
    BY <1>3 DEF LargestRuns, InMode!Exchanging!LargestRuns, ReadyRuns,
        InMode!Exchanging!ReadyRuns, Ready, InMode!Exchanging!Ready
<1>9. \A run : InMode!Exchanging(m)!FittingEnds(run) = FittingEnds(run)
    BY <1>1, <1>7 DEF FittingEnds, InMode!Exchanging!FittingEnds, CutEnd,
        InMode!Exchanging!CutEnd
<1>10. \A first, end : InMode!Exchanging(m)!Request(first, end) = Request(first, end)
    BY <1>7 DEF Request, InMode!Exchanging!Request
<1>11. InMode!Exchanging(m)!SelectedRanges = SelectedRanges
    BY <1>8, <1>9, <1>10 DEF SelectedRanges, InMode!Exchanging!SelectedRanges
<1>12. InMode!Exchanging(m)!Filled = Filled
    BY <1>3 DEF Filled, InMode!Exchanging!Filled
<1>13. QED
    BY <1>1, <1>2, <1>3, <1>4, <1>5, <1>6, <1>7, <1>11, <1>12

LEMMA ModeIsExchange ==
    ASSUME NEW m, m = ThisMode
    PROVE  /\ InMode!Exchanging(m)!Init => Init
           /\ InMode!Exchanging(m)!Next => Next
<1> USE ModeOperators
<1> USE DEF appVars, InMode!Exchanging!appVars, netVars, InMode!Exchanging!netVars, mpiVars,
    InMode!Exchanging!mpiVars, bufVars, InMode!Exchanging!bufVars, pollVars,
    InMode!Exchanging!pollVars, inferVars, InMode!Exchanging!inferVars
<1>1. InMode!Exchanging(m)!CanSubmit <=> CanSubmit
  <2>1. CASE RangePipeline
      BY <2>1 DEF CanSubmit, InMode!Exchanging!CanSubmit
  <2>2. CASE ~RangePipeline
      BY <2>2 DEF CanSubmit, InMode!Exchanging!CanSubmit
  <2>3. QED
      BY <2>1, <2>2
<1>2. InMode!Exchanging(m)!CopyPending <=> CopyPending
    BY DEF CopyPending, InMode!Exchanging!CopyPending
<1>3. \A req : InMode!Exchanging(m)!Direct(req) <=> Direct(req)
    BY DEF Direct, InMode!Exchanging!Direct
<1>4. InMode!Exchanging(m)!Init => Init
    BY DEF Init, InMode!Exchanging!Init
<1>5. ASSUME InMode!Exchanging(m)!ControllerCall PROVE ControllerCall
    BY <1>5 DEF ControllerCall, InMode!Exchanging!ControllerCall, Goto, InMode!Exchanging!Goto,
        SendCredits, InMode!Exchanging!SendCredits
<1>6. ASSUME NEW r, InMode!Exchanging(m)!WorkerCall(r) PROVE WorkerCall(r)
    BY <1>6 DEF WorkerCall, InMode!Exchanging!WorkerCall
<1>7. ASSUME NEW r, InMode!Exchanging(m)!WorkerSendInput(r) PROVE WorkerSendInput(r)
    BY <1>7 DEF WorkerSendInput, InMode!Exchanging!WorkerSendInput
<1>8. ASSUME NEW r, InMode!Exchanging(m)!WorkerRecvAck(r) PROVE WorkerRecvAck(r)
    BY <1>8 DEF WorkerRecvAck, InMode!Exchanging!WorkerRecvAck
<1>9. ASSUME NEW r, InMode!Exchanging(m)!WorkerRecvResult(r) PROVE WorkerRecvResult(r)
    BY <1>9 DEF WorkerRecvResult, InMode!Exchanging!WorkerRecvResult
<1>10. ASSUME NEW r, InMode!Exchanging(m)!Deliver(r) PROVE Deliver(r)
    BY <1>10 DEF Deliver, InMode!Exchanging!Deliver
<1>11. ASSUME NEW r, InMode!Exchanging(m)!Inject(r) PROVE Inject(r)
    BY <1>11 DEF Inject, InMode!Exchanging!Inject
<1>12. ASSUME InMode!Exchanging(m)!TestSome PROVE TestSome
    BY <1>12 DEF TestSome, InMode!Exchanging!TestSome
<1>13. ASSUME NEW r, InMode!Exchanging(m)!Record(r) PROVE Record(r)
    BY <1>13 DEF Record, InMode!Exchanging!Record
<1>14. ASSUME NEW r, InMode!Exchanging(m)!AckAndGrant(r) PROVE AckAndGrant(r)
    BY <1>14 DEF AckAndGrant, InMode!Exchanging!AckAndGrant, SendCredits,
        InMode!Exchanging!SendCredits
<1>15. ASSUME InMode!Exchanging(m)!ProgressThreadEnd PROVE ProgressThreadEnd
    BY <1>15 DEF ProgressThreadEnd, InMode!Exchanging!ProgressThreadEnd
<1>16. ASSUME InMode!Exchanging(m)!LoopTop PROVE LoopTop
    BY <1>16 DEF LoopTop, InMode!Exchanging!LoopTop, Goto, InMode!Exchanging!Goto
<1>17. ASSUME InMode!Exchanging(m)!LoopFlush PROVE LoopFlush
    BY <1>17 DEF LoopFlush, InMode!Exchanging!LoopFlush, Goto, InMode!Exchanging!Goto,
        FlushPending, InMode!Exchanging!FlushPending
<1>18. ASSUME NEW req, InMode!Exchanging(m)!LoopCollect(req) PROVE LoopCollect(req)
    BY <1>18 DEF LoopCollect, InMode!Exchanging!LoopCollect, Goto, InMode!Exchanging!Goto,
        RanksOf, InMode!Exchanging!RanksOf, MarkInferred, InMode!Exchanging!MarkInferred
<1>19. ASSUME InMode!Exchanging(m)!NothingFinished PROVE NothingFinished
    BY <1>19 DEF NothingFinished, InMode!Exchanging!NothingFinished, Goto,
        InMode!Exchanging!Goto
<1>20. ASSUME InMode!Exchanging(m)!SelectNothing PROVE SelectNothing
    BY <1>1, <1>2, <1>20 DEF SelectNothing, InMode!Exchanging!SelectNothing, Goto,
        InMode!Exchanging!Goto, PollerHoldsLock, InMode!Exchanging!PollerHoldsLock
<1>21. ASSUME NEW req, InMode!Exchanging(m)!SelectAndSubmit(req) PROVE SelectAndSubmit(req)
    BY <1>1, <1>21 DEF SelectAndSubmit, InMode!Exchanging!SelectAndSubmit, Goto,
        InMode!Exchanging!Goto, PollerHoldsLock, InMode!Exchanging!PollerHoldsLock, RanksOf,
        InMode!Exchanging!RanksOf
<1>22. ASSUME NEW req, InMode!Exchanging(m)!SelectAndInfer(req) PROVE SelectAndInfer(req)
    BY <1>3, <1>22 DEF SelectAndInfer, InMode!Exchanging!SelectAndInfer, Goto,
        InMode!Exchanging!Goto, PollerHoldsLock, InMode!Exchanging!PollerHoldsLock, Infer,
        InMode!Exchanging!Infer, Covers, InMode!Exchanging!Covers, Touches,
        InMode!Exchanging!Touches, RanksOf, InMode!Exchanging!RanksOf, MarkInferred,
        InMode!Exchanging!MarkInferred
<1>23. ASSUME InMode!Exchanging(m)!Join PROVE Join
    BY <1>23 DEF Join, InMode!Exchanging!Join, Goto, InMode!Exchanging!Goto, FlushPending,
        InMode!Exchanging!FlushPending
<1>24. ASSUME InMode!Exchanging(m)!WaitAll PROVE WaitAll
    BY <1>24 DEF WaitAll, InMode!Exchanging!WaitAll, Goto, InMode!Exchanging!Goto
<1>25. ASSUME NEW req, InMode!Exchanging(m)!InferenceDone(req) PROVE InferenceDone(req)
    BY <1>3, <1>25 DEF InferenceDone, InMode!Exchanging!InferenceDone, Infer,
        InMode!Exchanging!Infer, Covers, InMode!Exchanging!Covers, Touches,
        InMode!Exchanging!Touches
<1>26. ASSUME InMode!Exchanging(m)!Finished PROVE Finished
    BY <1>26 DEF Finished, InMode!Exchanging!Finished, vars, InMode!Exchanging!vars
<1>27. \A r : InMode!Exchanging(m)!Worker(r) => Worker(r)
    BY <1>7, <1>8, <1>9 DEF Worker, InMode!Exchanging!Worker
<1>28. InMode!Exchanging(m)!Poller => Poller
    BY <1>12, <1>13, <1>14, <1>15 DEF Poller, InMode!Exchanging!Poller
<1>29. InMode!Exchanging(m)!Controller => Controller
    BY <1>16, <1>17, <1>18, <1>19, <1>20, <1>21, <1>22, <1>23, <1>24 DEF Controller,
        InMode!Exchanging!Controller
<1>30. InMode!Exchanging(m)!Executor => Executor
    BY <1>25 DEF Executor, InMode!Exchanging!Executor
<1>31. InMode!Exchanging(m)!Next => Next
    BY <1>6, <1>10, <1>11, <1>5, <1>26, <1>27, <1>28, <1>29, <1>30 DEF Next,
        InMode!Exchanging!Next
<1>32. QED
    BY <1>4, <1>31

\* In each of the four modes, with or without progress thread and range pipeline, the
\* workers see the collective operation of Exchange: with the result of the controller
\* left out where nothing copies its samples.
THEOREM ModesImplementation ==
    InMode!Init /\ [][InMode!Next]_(InMode!vars) => InMode!ModesImplementExchange
<1>1. InMode!Init => Init
    BY ModeIsExchange DEF InMode!Init
<1>2. [InMode!Next]_(InMode!vars) => [Next]_vars
  <2>1. InMode!Next => Next
      BY ModeIsExchange DEF InMode!Next, InMode!Chosen
  <2>2. UNCHANGED InMode!vars => UNCHANGED vars
      BY DEF InMode!vars, vars, appVars, netVars, mpiVars, bufVars, pollVars, inferVars
  <2>3. QED
      BY <2>1, <2>2
<1>3. /\ ReturnedMap = [r \in InMode!Ranks |-> InMode!Returned(r)]
      /\ OutMap = [r \in InMode!Ranks |-> IF pc[r] = "app" THEN InMode!ResultOf(r) ELSE 0]
      /\ Ranks = InMode!Ranks
    BY DEF ReturnedMap, OutMap, ResultOf, Returned, Ranks,
           InMode!Ranks, InMode!Returned, InMode!ResultOf, ThisMode
<1>4. Init => InMode!Group!Init
    BY <1>3, InitImplements DEF Contract!Init, InMode!Group!Init
<1>5. IInv /\ [Next]_vars => [InMode!Group!Next]_(InMode!Group!vars)
  <2>1. SUFFICES ASSUME [Contract!Next]_(Contract!vars) PROVE [InMode!Group!Next]_(InMode!Group!vars)
      BY StepImplements
  <2>2. /\ ReturnedMap' = [r \in InMode!Ranks |-> InMode!Returned(r)]'
        /\ OutMap' = [r \in InMode!Ranks |-> IF pc[r] = "app" THEN InMode!ResultOf(r) ELSE 0]'
      BY DEF ReturnedMap, OutMap, ResultOf, Returned, Ranks,
             InMode!Ranks, InMode!Returned, InMode!ResultOf, ThisMode
  <2>3. ASSUME NEW r, Contract!Call(r) PROVE InMode!Group!Call(r)
      BY <1>3, <2>2, <2>3 DEF Contract!Call, InMode!Group!Call
  <2>4. ASSUME NEW r, Contract!Return(r) PROVE InMode!Group!Return(r)
      BY <1>3, <2>2, <2>4 DEF Contract!Return, InMode!Group!Return
  <2>5. UNCHANGED Contract!vars => UNCHANGED InMode!Group!vars
      BY <1>3, <2>2 DEF Contract!vars, InMode!Group!vars
  <2>6. QED
      BY <1>3, <2>1, <2>3, <2>4, <2>5 DEF Contract!Next, InMode!Group!Next
<1>6. QED
    BY <1>1, <1>2, <1>4, <1>5, Invariance, PTL DEF Spec, InMode!ModesImplementExchange, InMode!Group!Spec
=============================================================================
