------------------------ MODULE RangePipelineProofs ------------------------
(***************************************************************************)
(* Proofs about the Torch range pipeline, for every number of segments,    *)
(* every depth and every mode of the buffers.  The requests of the deque   *)
(* are ordered by id and work on disjoint ranges whose input stays as it   *)
(* was submitted.  The streams follow one another through the ids, so that *)
(* what a request holds at each of its stages is that of its own input,    *)
(* and only requests behind the last stream leave the deque.               *)
(***************************************************************************)
EXTENDS RangePipeline, SequenceTheorems, TLAPS

\* The requests are in the order of submission, and none works on a segment
\* of another.
RequestsApart ==
    \A i \in 1 .. Len(requests), j \in 1 .. Len(requests) :
        i < j => /\ requests[i].id < requests[j].id
                 /\ RanksOf(requests[i]) \cap RanksOf(requests[j]) = {}

\* The streams follow one another through the submitted ids.
StreamsOrdered == d2h <= compute /\ compute <= h2d /\ h2d < nextId

\* A request works on segments whose input is there and whose output is not,
\* and completes behind the last stream.
InProgress(q) ==
    /\ q.first < q.end
    /\ q.first = 0 => q.end = 1
    /\ RanksOf(q) \subseteq received \ inferred
    /\ q.id < nextId
    /\ q.completed <=> q.id = finishing
    /\ q.completed => q.id <= d2h

\* What segment r of a request holds at each stage.
SegmentData(q, r) ==
    /\ ~ReadsBuffer(q) => q.inputCpu[r] = call
    /\ q.id <= h2d => q.inputGpu[r] = call
    /\ q.id <= compute => q.outputGpu[r] = call
    /\ q.id <= d2h => IF WritesBuffer(q) \/ q.completed THEN outputBuffer[r] = call
                      ELSE q.outputCpu[r] = call

RequestsInv ==
    \A i \in 1 .. Len(requests) :
        /\ InProgress(requests[i])
        /\ \A r \in RanksOf(requests[i]) : SegmentData(requests[i], r)

\* The inductive invariant.
IInv ==
    /\ TypeOK
    /\ RequestsApart /\ StreamsOrdered /\ RequestsInv
    /\ \A r \in received : inputBuffer[r] = call
    /\ InferredIsCurrent /\ QueueLimits /\ StreamsHoldRequests

-----------------------------------------------------------------------------
LEMMA RequestTypes ==
    ASSUME TypeOK, NEW i \in 1 .. Len(requests)
    PROVE  /\ requests[i] \in Request
           /\ requests[i].id \in Nat \ {0} /\ requests[i].completed \in BOOLEAN
           /\ requests[i].first \in Ranks /\ requests[i].end \in 1 .. N
<1>1. requests[i] \in Request
    BY ElementOfSeq DEF TypeOK
<1>2. QED
    BY <1>1 DEF Request

\* Ranges lie in the buffers, and no request works on an empty one.
LEMMA RangeFacts ==
    ASSUME TypeOK, NEW i \in 1 .. Len(requests)
    PROVE  /\ RanksOf(requests[i]) \subseteq Ranks
           /\ InProgress(requests[i]) => requests[i].first \in RanksOf(requests[i])
<1>1. requests[i].first \in Nat /\ requests[i].end \in Nat /\ requests[i].end <= N
    BY RequestTypes, PipelineAssumption DEF Ranks
<1>2. QED
    BY <1>1, PipelineAssumption DEF RanksOf, Ranks, InProgress

\* The ids of the deque tell its requests apart.
LEMMA Distinct ==
    ASSUME IInv, NEW i \in 1 .. Len(requests), NEW j \in 1 .. Len(requests), i # j
    PROVE  /\ requests[i].id # requests[j].id
           /\ RanksOf(requests[i]) \cap RanksOf(requests[j]) = {}
<1>1. TypeOK /\ RequestsApart
    BY DEF IInv
<1>2. requests[i].id \in Nat /\ requests[j].id \in Nat
    BY <1>1, RequestTypes
<1>3. CASE i < j
  <2>1. /\ requests[i].id < requests[j].id
        /\ RanksOf(requests[i]) \cap RanksOf(requests[j]) = {}
      BY <1>1, <1>3 DEF RequestsApart
  <2>2. QED
      BY <1>2, <2>1
<1>4. CASE j < i
  <2>1. /\ requests[j].id < requests[i].id
        /\ RanksOf(requests[j]) \cap RanksOf(requests[i]) = {}
      BY <1>1, <1>4 DEF RequestsApart
  <2>2. QED
      BY <1>2, <2>1
<1>5. QED
    BY <1>3, <1>4

\* A step that replaces a request by one with the same id and range.
LEMMA UpdateFacts ==
    ASSUME TypeOK, NEW i \in 1 .. Len(requests), NEW q \in Request,
           requests' = [requests EXCEPT ![i] = q],
           q.id = requests[i].id, q.first = requests[i].first, q.end = requests[i].end
    PROVE  /\ requests' \in Seq(Request) /\ Len(requests') = Len(requests)
           /\ requests'[i] = q
           /\ \A k \in 1 .. Len(requests) : k # i => requests'[k] = requests[k]
           /\ \A k \in 1 .. Len(requests) : /\ requests'[k].id = requests[k].id
                                            /\ RanksOf(requests'[k]) = RanksOf(requests[k])
           /\ RequestsApart => RequestsApart'
<1>1. requests \in Seq(Request)
    BY DEF TypeOK
<1>2. /\ requests' \in Seq(Request) /\ Len(requests') = Len(requests)
      /\ \A k \in 1 .. Len(requests) : requests'[k] = IF k = i THEN q ELSE requests[k]
    BY <1>1, ExceptSeq
<1>3. \A k \in 1 .. Len(requests) : /\ requests'[k].id = requests[k].id
                                    /\ RanksOf(requests'[k]) = RanksOf(requests[k])
    BY <1>2 DEF RanksOf
<1>4. RequestsApart => RequestsApart'
    BY <1>2, <1>3 DEF RequestsApart
<1>5. QED
    BY <1>2, <1>3, <1>4

LEMMA IInvInit == Init => IInv
<1> SUFFICES ASSUME Init PROVE IInv
    OBVIOUS
<1>1. 0 \in Ranks /\ 1 \in 1 .. MaxCalls /\ 0 \in 0 .. MaxCalls /\ 1 \in 0 .. MaxCalls
    BY PipelineAssumption DEF Ranks
<1>2. requests = << >> /\ << >> \in Seq(Request) /\ Len(requests) = 0
    BY DEF Init
<1>3. TypeOK
    BY <1>1, <1>2 DEF Init, TypeOK, Contents, Empty
<1>4. RequestsApart /\ RequestsInv
    BY <1>2 DEF RequestsApart, RequestsInv
<1>5. StreamsOrdered /\ InferredIsCurrent /\ \A r \in received : inputBuffer[r] = call
    BY <1>1 DEF Init, StreamsOrdered, InferredIsCurrent
<1>6. QueueLimits /\ StreamsHoldRequests
    BY <1>2, PipelineAssumption DEF Init, QueueLimits, StreamsHoldRequests
<1>7. QED
    BY <1>3, <1>4, <1>5, <1>6 DEF IInv

-----------------------------------------------------------------------------
\* The copy to the device reads the input the request was submitted with.
LEMMA CopyToDeviceInv ==
    ASSUME IInv, NEW i \in 1 .. Len(requests), CopyToDevice(i) PROVE IInv'
<1> DEFINE q == requests[i]
           content == IF ReadsBuffer(q) THEN inputBuffer ELSE q.inputCpu
           new == [q EXCEPT !.inputGpu = content]
<1>1. TypeOK /\ RequestsApart /\ StreamsOrdered /\ RequestsInv
    BY DEF IInv
<1>2. q \in Request /\ content \in Contents
    BY <1>1, RequestTypes DEF TypeOK, Request
<1>3. /\ new \in Request /\ new.id = q.id /\ new.first = q.first /\ new.end = q.end
      /\ new.completed = q.completed /\ new.inputCpu = q.inputCpu /\ new.inputGpu = content
    BY <1>2 DEF Request
<1>4. requests' = [requests EXCEPT ![i] = new]
    BY <1>1 DEF CopyToDevice, TypeOK
<1> HIDE DEF new, content
<1>5. /\ requests' \in Seq(Request) /\ Len(requests') = Len(requests)
      /\ requests'[i] = new
      /\ \A k \in 1 .. Len(requests) : k # i => requests'[k] = requests[k]
      /\ \A k \in 1 .. Len(requests) : /\ requests'[k].id = requests[k].id
                                       /\ RanksOf(requests'[k]) = RanksOf(requests[k])
      /\ RequestsApart'
    BY <1>1, <1>3, <1>4, UpdateFacts
<1>6. /\ q.id = h2d + 1 /\ h2d' = h2d + 1
      /\ mode' = mode /\ call' = call /\ received' = received /\ inferred' = inferred
      /\ inputBuffer' = inputBuffer /\ outputBuffer' = outputBuffer
      /\ nextId' = nextId /\ finishing' = finishing /\ compute' = compute /\ d2h' = d2h
    BY DEF CopyToDevice, NextOf, clientVars
<1>7. TypeOK'
    BY <1>1, <1>5, <1>6 DEF TypeOK
<1>8. StreamsOrdered'
    BY <1>1, <1>6 DEF StreamsOrdered, RequestsInv, InProgress, TypeOK
<1>9. ASSUME NEW k \in 1 .. Len(requests) PROVE InProgress(requests[k])'
  <2>1. InProgress(requests[k])
      BY <1>1 DEF RequestsInv
  <2>2. /\ requests'[k].id = requests[k].id /\ requests'[k].completed = requests[k].completed
        /\ requests'[k].first = requests[k].first /\ requests'[k].end = requests[k].end
        /\ RanksOf(requests'[k]) = RanksOf(requests[k])
      BY <1>3, <1>5
  <2>3. QED
      BY <1>6, <2>1, <2>2 DEF InProgress, RanksOf
<1>10. ASSUME NEW k \in 1 .. Len(requests), NEW r \in RanksOf(requests[k])
       PROVE  SegmentData(requests[k], r)'
  <2>1. SegmentData(requests[k], r) /\ InProgress(requests[k])
      BY <1>1, <1>10 DEF RequestsInv
  <2>2. h2d \in Nat /\ compute \in Nat /\ d2h \in Nat /\ requests[k].id \in Nat
      BY <1>1, RequestTypes DEF TypeOK
  <2>3. CASE k # i
    <3>1. requests[k].id # h2d + 1
        BY <1>6, <2>3, Distinct
    <3>2. requests[k].id <= h2d + 1 => requests[k].id <= h2d
        BY <2>2, <3>1
    <3>3. requests'[k] = requests[k]
        BY <1>5, <2>3
    <3>4. QED
        BY <1>6, <2>1, <3>2, <3>3 DEF SegmentData, ReadsBuffer, WritesBuffer, Direct
  <2>4. CASE k = i
    <3>1. content[r] = call
        BY <2>1, <2>4, <1>10 DEF IInv, content, InProgress, SegmentData
    <3>2. ~(q.id <= compute) /\ ~(q.id <= d2h)
        BY <1>1, <1>6, <2>2 DEF StreamsOrdered
    <3>3. requests'[k] = new /\ requests[k] = q
        BY <1>5, <2>4
    <3>4. QED
        BY <1>3, <1>6, <2>1, <3>1, <3>2, <3>3
        DEF SegmentData, ReadsBuffer, WritesBuffer, Direct
  <2>5. QED
      BY <2>3, <2>4
<1>11. QueueLimits' /\ InferredIsCurrent'
    BY <1>1, <1>5, <1>6 DEF IInv, QueueLimits, InferredIsCurrent, TypeOK
<1>12. StreamsHoldRequests'
    BY <1>3, <1>5, <1>6 DEF IInv, StreamsHoldRequests
<1>13. \A r \in received' : inputBuffer'[r] = call'
    BY <1>6 DEF IInv
<1>14. RequestsInv'
  <2>1. ASSUME NEW k \in 1 .. Len(requests')
        PROVE  (InProgress(requests[k]) /\ \A r \in RanksOf(requests[k]) : SegmentData(requests[k], r))'
      BY <1>5, <1>9, <1>10
  <2>2. QED
      BY <2>1 DEF RequestsInv
<1>15. QED
    BY <1>5, <1>7, <1>8, <1>11, <1>12, <1>13, <1>14 DEF IInv

\* The forward pass reads an input that is on the device.
LEMMA ForwardInv ==
    ASSUME IInv, NEW i \in 1 .. Len(requests), Forward(i) PROVE IInv'
<1> DEFINE q == requests[i]
           new == [q EXCEPT !.outputGpu = q.inputGpu]
<1>1. TypeOK /\ RequestsApart /\ StreamsOrdered /\ RequestsInv
    BY DEF IInv
<1>2. q \in Request
    BY <1>1, RequestTypes
<1>3. /\ new \in Request /\ new.id = q.id /\ new.first = q.first /\ new.end = q.end
      /\ new.completed = q.completed /\ new.inputCpu = q.inputCpu /\ new.inputGpu = q.inputGpu
      /\ new.outputGpu = q.inputGpu
    BY <1>2 DEF Request
<1>4. requests' = [requests EXCEPT ![i] = new]
    BY <1>1 DEF Forward, TypeOK
<1> HIDE DEF new
<1>5. /\ requests' \in Seq(Request) /\ Len(requests') = Len(requests)
      /\ requests'[i] = new
      /\ \A k \in 1 .. Len(requests) : k # i => requests'[k] = requests[k]
      /\ \A k \in 1 .. Len(requests) : /\ requests'[k].id = requests[k].id
                                       /\ RanksOf(requests'[k]) = RanksOf(requests[k])
      /\ RequestsApart'
    BY <1>1, <1>3, <1>4, UpdateFacts
<1>6. /\ q.id = compute + 1 /\ q.id <= h2d /\ compute' = compute + 1
      /\ mode' = mode /\ call' = call /\ received' = received /\ inferred' = inferred
      /\ inputBuffer' = inputBuffer /\ outputBuffer' = outputBuffer
      /\ nextId' = nextId /\ finishing' = finishing /\ h2d' = h2d /\ d2h' = d2h
    BY <1>1, <1>2 DEF Forward, NextOf, clientVars, TypeOK, Request
<1>7. TypeOK'
    BY <1>1, <1>5, <1>6 DEF TypeOK
<1>8. StreamsOrdered'
    BY <1>1, <1>6 DEF StreamsOrdered, TypeOK
<1>9. ASSUME NEW k \in 1 .. Len(requests) PROVE InProgress(requests[k])'
  <2>1. InProgress(requests[k])
      BY <1>1 DEF RequestsInv
  <2>2. /\ requests'[k].id = requests[k].id /\ requests'[k].completed = requests[k].completed
        /\ requests'[k].first = requests[k].first /\ requests'[k].end = requests[k].end
        /\ RanksOf(requests'[k]) = RanksOf(requests[k])
      BY <1>3, <1>5
  <2>3. QED
      BY <1>6, <2>1, <2>2 DEF InProgress, RanksOf
<1>10. ASSUME NEW k \in 1 .. Len(requests), NEW r \in RanksOf(requests[k])
       PROVE  SegmentData(requests[k], r)'
  <2>1. SegmentData(requests[k], r)
      BY <1>1, <1>10 DEF RequestsInv
  <2>2. h2d \in Nat /\ compute \in Nat /\ d2h \in Nat /\ requests[k].id \in Nat
      BY <1>1, RequestTypes DEF TypeOK
  <2>3. CASE k # i
    <3>1. requests[k].id # compute + 1
        BY <1>6, <2>3, Distinct
    <3>2. requests[k].id <= compute + 1 => requests[k].id <= compute
        BY <2>2, <3>1
    <3>3. requests'[k] = requests[k]
        BY <1>5, <2>3
    <3>4. QED
        BY <1>6, <2>1, <3>2, <3>3 DEF SegmentData, ReadsBuffer, WritesBuffer, Direct
  <2>4. CASE k = i
    <3>1. q.inputGpu[r] = call
        BY <1>6, <2>1, <2>4 DEF SegmentData
    <3>2. ~(q.id <= d2h)
        BY <1>1, <1>6, <2>2 DEF StreamsOrdered
    <3>3. requests'[k] = new /\ requests[k] = q
        BY <1>5, <2>4
    <3>4. QED
        BY <1>3, <1>6, <2>1, <3>1, <3>2, <3>3
        DEF SegmentData, ReadsBuffer, WritesBuffer, Direct
  <2>5. QED
      BY <2>3, <2>4
<1>11. QueueLimits' /\ InferredIsCurrent'
    BY <1>1, <1>5, <1>6 DEF IInv, QueueLimits, InferredIsCurrent, TypeOK
<1>12. StreamsHoldRequests'
    BY <1>3, <1>5, <1>6 DEF IInv, StreamsHoldRequests
<1>13. \A r \in received' : inputBuffer'[r] = call'
    BY <1>6 DEF IInv
<1>14. RequestsInv'
  <2>1. ASSUME NEW k \in 1 .. Len(requests')
        PROVE  (InProgress(requests[k]) /\ \A r \in RanksOf(requests[k]) : SegmentData(requests[k], r))'
      BY <1>5, <1>9, <1>10
  <2>2. QED
      BY <2>1 DEF RequestsInv
<1>15. QED
    BY <1>5, <1>7, <1>8, <1>11, <1>12, <1>13, <1>14 DEF IInv

\* Where a range is written, and where not.
LEMMA WithFacts ==
    ASSUME TypeOK, NEW i \in 1 .. Len(requests), NEW content \in Contents
    PROVE  /\ With(outputBuffer, requests[i], content) \in Contents
           /\ \A r \in RanksOf(requests[i]) : With(outputBuffer, requests[i], content)[r] = content[r]
           /\ \A r \in Ranks \ RanksOf(requests[i]) :
                  With(outputBuffer, requests[i], content)[r] = outputBuffer[r]
BY RangeFacts DEF TypeOK, With, Contents

\* The copy back moves an output that is computed to where the segment's output
\* is expected, and disturbs no other segment.
LEMMA CopyBackInv ==
    ASSUME IInv, NEW i \in 1 .. Len(requests), CopyBack(i) PROVE IInv'
<1> DEFINE q == requests[i]
           new == IF WritesBuffer(q) THEN q ELSE [q EXCEPT !.outputCpu = q.outputGpu]
<1>1. TypeOK /\ RequestsApart /\ StreamsOrdered /\ RequestsInv
    BY DEF IInv
<1>2. q \in Request /\ q.outputGpu \in Contents /\ q.id \in Nat /\ q.completed \in BOOLEAN
    BY <1>1, RequestTypes DEF Request
<1>3. /\ new \in Request /\ new.id = q.id /\ new.first = q.first /\ new.end = q.end
      /\ new.completed = q.completed /\ new.inputCpu = q.inputCpu /\ new.inputGpu = q.inputGpu
      /\ new.outputGpu = q.outputGpu
      /\ ~WritesBuffer(q) => new.outputCpu = q.outputGpu
    BY <1>2 DEF Request
<1>4. requests' = [requests EXCEPT ![i] = new]
    BY <1>1 DEF CopyBack, TypeOK
<1> HIDE DEF new
<1>5. /\ requests' \in Seq(Request) /\ Len(requests') = Len(requests)
      /\ requests'[i] = new
      /\ \A k \in 1 .. Len(requests) : k # i => requests'[k] = requests[k]
      /\ \A k \in 1 .. Len(requests) : /\ requests'[k].id = requests[k].id
                                       /\ RanksOf(requests'[k]) = RanksOf(requests[k])
      /\ RequestsApart'
    BY <1>1, <1>3, <1>4, UpdateFacts
<1>6. /\ q.id = d2h + 1 /\ q.id <= compute /\ d2h' = d2h + 1
      /\ mode' = mode /\ call' = call /\ received' = received /\ inferred' = inferred
      /\ inputBuffer' = inputBuffer
      /\ nextId' = nextId /\ finishing' = finishing /\ h2d' = h2d /\ compute' = compute
      /\ outputBuffer' = IF WritesBuffer(q) THEN With(outputBuffer, q, q.outputGpu) ELSE outputBuffer
    BY <1>1, <1>2 DEF CopyBack, NextOf, clientVars, TypeOK
<1>7. /\ outputBuffer' \in Contents
      /\ \A r \in RanksOf(q) : WritesBuffer(q) => outputBuffer'[r] = q.outputGpu[r]
      /\ \A r \in Ranks \ RanksOf(q) : outputBuffer'[r] = outputBuffer[r]
    BY <1>1, <1>2, <1>6, WithFacts DEF TypeOK
<1>8. TypeOK'
    BY <1>1, <1>5, <1>6, <1>7 DEF TypeOK
<1>9. StreamsOrdered'
    BY <1>1, <1>6 DEF StreamsOrdered, TypeOK
<1>10. ~q.completed
    BY <1>1, <1>2, <1>6 DEF RequestsInv, InProgress, TypeOK
<1>11. ASSUME NEW k \in 1 .. Len(requests) PROVE InProgress(requests[k])'
  <2>1. InProgress(requests[k]) /\ requests[k].id \in Nat /\ d2h \in Nat
      BY <1>1, RequestTypes DEF RequestsInv, TypeOK
  <2>2. /\ requests'[k].id = requests[k].id /\ requests'[k].completed = requests[k].completed
        /\ requests'[k].first = requests[k].first /\ requests'[k].end = requests[k].end
        /\ RanksOf(requests'[k]) = RanksOf(requests[k])
      BY <1>3, <1>5
  <2>3. QED
      BY <1>6, <2>1, <2>2 DEF InProgress, RanksOf
<1>12. ASSUME NEW k \in 1 .. Len(requests), NEW r \in RanksOf(requests[k])
       PROVE  SegmentData(requests[k], r)'
  <2>1. SegmentData(requests[k], r) /\ r \in Ranks
      BY <1>1, <1>12, RangeFacts DEF RequestsInv
  <2>2. h2d \in Nat /\ compute \in Nat /\ d2h \in Nat /\ requests[k].id \in Nat
      BY <1>1, RequestTypes DEF TypeOK
  <2>3. CASE k # i
    <3>1. requests[k].id # d2h + 1 /\ r \notin RanksOf(q)
        BY <1>6, <1>12, <2>3, Distinct
    <3>2. requests[k].id <= d2h + 1 => requests[k].id <= d2h
        BY <2>2, <3>1
    <3>3. requests'[k] = requests[k] /\ outputBuffer'[r] = outputBuffer[r]
        BY <1>5, <1>7, <2>1, <2>3, <3>1
    <3>4. QED
        BY <1>6, <2>1, <3>2, <3>3 DEF SegmentData, ReadsBuffer, WritesBuffer, Direct
  <2>4. CASE k = i
    <3>1. q.outputGpu[r] = call
        BY <1>6, <2>1, <2>4 DEF SegmentData
    <3>2. requests'[k] = new /\ requests[k] = q
        BY <1>5, <2>4
    <3>3. WritesBuffer(q) => outputBuffer'[r] = call
        BY <1>7, <1>12, <2>4, <3>1
    <3>4. WritesBuffer(requests[k])' <=> WritesBuffer(q)
        BY <1>3, <1>6, <3>2 DEF WritesBuffer, Direct
    <3>5. ReadsBuffer(requests[k])' <=> ReadsBuffer(q)
        BY <1>3, <1>6, <3>2 DEF ReadsBuffer, Direct
    <3>6. QED
        BY <1>3, <1>6, <1>10, <2>1, <3>1, <3>2, <3>3, <3>4, <3>5 DEF SegmentData
  <2>5. QED
      BY <2>3, <2>4
<1>13. InferredIsCurrent'
  <2>1. ASSUME NEW r \in inferred PROVE outputBuffer'[r] = call
    <3>1. r \in Ranks \ RanksOf(q)
        BY <1>1 DEF RequestsInv, InProgress, TypeOK
    <3>2. QED
        BY <1>7, <3>1 DEF IInv, InferredIsCurrent
  <2>2. QED
      BY <1>6, <2>1 DEF InferredIsCurrent
<1>14. QueueLimits'
    BY <1>5, <1>6 DEF IInv, QueueLimits
<1>15. StreamsHoldRequests'
  <2>1. ASSUME NEW id \in (d2h' + 1) .. (nextId' - 1)
        PROVE  \E k \in 1 .. Len(requests') : requests'[k].id = id /\ ~requests'[k].completed
    <3>1. id \in (d2h + 1) .. (nextId - 1)
        BY <1>1, <1>6, <2>1 DEF TypeOK
    <3>2. PICK k \in 1 .. Len(requests) : requests[k].id = id /\ ~requests[k].completed
        BY <3>1 DEF IInv, StreamsHoldRequests
    <3>3. requests'[k].id = id /\ ~requests'[k].completed
        BY <1>3, <1>5, <3>2
    <3>4. QED
        BY <1>5, <3>3
  <2>2. QED
      BY <2>1 DEF StreamsHoldRequests
<1>16. \A r \in received' : inputBuffer'[r] = call'
    BY <1>6 DEF IInv
<1>17. RequestsInv'
  <2>1. ASSUME NEW k \in 1 .. Len(requests')
        PROVE  (InProgress(requests[k]) /\ \A r \in RanksOf(requests[k]) : SegmentData(requests[k], r))'
      BY <1>5, <1>11, <1>12
  <2>2. QED
      BY <2>1 DEF RequestsInv
<1>18. QED
    BY <1>5, <1>8, <1>9, <1>13, <1>14, <1>15, <1>16, <1>17 DEF IInv

\* A request that is reported complete has its output in place.
LEMMA CompleteInv ==
    ASSUME IInv, NEW i \in 1 .. Len(requests), Complete(i) PROVE IInv'
<1> DEFINE q == requests[i]
           new == [q EXCEPT !.completed = TRUE]
<1>1. TypeOK /\ RequestsApart /\ StreamsOrdered /\ RequestsInv
    BY DEF IInv
<1>2. q \in Request /\ q.outputCpu \in Contents /\ q.id \in Nat \ {0} /\ q.completed \in BOOLEAN
    BY <1>1, RequestTypes DEF Request
<1>3. /\ new \in Request /\ new.id = q.id /\ new.first = q.first /\ new.end = q.end
      /\ new.completed = TRUE /\ new.inputCpu = q.inputCpu /\ new.inputGpu = q.inputGpu
      /\ new.outputGpu = q.outputGpu /\ new.outputCpu = q.outputCpu
    BY <1>2 DEF Request
<1>4. requests' = [requests EXCEPT ![i] = new]
    BY <1>1 DEF Complete, TypeOK
<1> HIDE DEF new
<1>5. /\ requests' \in Seq(Request) /\ Len(requests') = Len(requests)
      /\ requests'[i] = new
      /\ \A k \in 1 .. Len(requests) : k # i => requests'[k] = requests[k]
      /\ \A k \in 1 .. Len(requests) : /\ requests'[k].id = requests[k].id
                                       /\ RanksOf(requests'[k]) = RanksOf(requests[k])
      /\ RequestsApart'
    BY <1>1, <1>3, <1>4, UpdateFacts
<1>6. /\ q.id <= d2h /\ ~q.completed /\ finishing = 0 /\ finishing' = q.id
      /\ mode' = mode /\ call' = call /\ received' = received /\ inferred' = inferred
      /\ inputBuffer' = inputBuffer
      /\ nextId' = nextId /\ h2d' = h2d /\ compute' = compute /\ d2h' = d2h
      /\ outputBuffer' = IF WritesBuffer(q) THEN outputBuffer ELSE With(outputBuffer, q, q.outputCpu)
    BY <1>1, <1>2 DEF Complete, OutputReady, clientVars, streamVars, TypeOK
<1>7. /\ outputBuffer' \in Contents
      /\ \A r \in RanksOf(q) : IF WritesBuffer(q) THEN outputBuffer'[r] = outputBuffer[r]
                               ELSE outputBuffer'[r] = q.outputCpu[r]
      /\ \A r \in Ranks \ RanksOf(q) : outputBuffer'[r] = outputBuffer[r]
    BY <1>1, <1>2, <1>6, WithFacts DEF TypeOK
<1>8. TypeOK'
    BY <1>1, <1>2, <1>5, <1>6, <1>7 DEF TypeOK
<1>9. StreamsOrdered'
    BY <1>1, <1>6 DEF StreamsOrdered, TypeOK
<1>10. ASSUME NEW k \in 1 .. Len(requests) PROVE InProgress(requests[k])'
  <2>1. InProgress(requests[k]) /\ requests[k].id \in Nat \ {0} /\ requests[k].completed \in BOOLEAN
      BY <1>1, RequestTypes DEF RequestsInv
  <2>2. /\ requests'[k].id = requests[k].id
        /\ requests'[k].first = requests[k].first /\ requests'[k].end = requests[k].end
        /\ RanksOf(requests'[k]) = RanksOf(requests[k])
      BY <1>3, <1>5
  <2>3. /\ requests'[k].completed <=> requests'[k].id = finishing'
        /\ requests'[k].completed => requests'[k].id <= d2h'
    <3>1. CASE k = i
        BY <1>3, <1>5, <1>6, <3>1
    <3>2. CASE k # i
      <4>1. requests[k].id # q.id /\ requests'[k] = requests[k]
          BY <1>5, <3>2, Distinct
      <4>2. ~requests[k].completed
          BY <1>6, <2>1 DEF InProgress
      <4>3. QED
          BY <1>6, <2>2, <4>1, <4>2
    <3>3. QED
        BY <3>1, <3>2
  <2>4. QED
      BY <1>6, <2>1, <2>2, <2>3 DEF InProgress, RanksOf
<1>11. ASSUME NEW k \in 1 .. Len(requests), NEW r \in RanksOf(requests[k])
       PROVE  SegmentData(requests[k], r)'
  <2>1. SegmentData(requests[k], r) /\ r \in Ranks
      BY <1>1, <1>11, RangeFacts DEF RequestsInv
  <2>2. CASE k # i
    <3>1. r \notin RanksOf(q)
        BY <1>11, <2>2, Distinct
    <3>2. requests'[k] = requests[k] /\ outputBuffer'[r] = outputBuffer[r]
        BY <1>5, <1>7, <2>1, <2>2, <3>1
    <3>3. QED
        BY <1>6, <2>1, <3>2 DEF SegmentData, ReadsBuffer, WritesBuffer, Direct
  <2>3. CASE k = i
    <3>1. IF WritesBuffer(q) THEN outputBuffer[r] = call ELSE q.outputCpu[r] = call
        BY <1>6, <2>1, <2>3 DEF SegmentData
    <3>2. outputBuffer'[r] = call
        BY <1>7, <1>11, <2>3, <3>1
    <3>3. requests'[k] = new /\ requests[k] = q
        BY <1>5, <2>3
    <3>4. ReadsBuffer(requests[k])' <=> ReadsBuffer(q)
        BY <1>3, <1>6, <3>3 DEF ReadsBuffer, Direct
    <3>5. QED
        BY <1>3, <1>6, <2>1, <3>2, <3>3, <3>4 DEF SegmentData
  <2>4. QED
      BY <2>2, <2>3
<1>12. InferredIsCurrent'
  <2>1. ASSUME NEW r \in inferred PROVE outputBuffer'[r] = call
    <3>1. r \in Ranks \ RanksOf(q)
        BY <1>1 DEF RequestsInv, InProgress, TypeOK
    <3>2. QED
        BY <1>7, <3>1 DEF IInv, InferredIsCurrent
  <2>2. QED
      BY <1>6, <2>1 DEF InferredIsCurrent
<1>13. QueueLimits'
    BY <1>5, <1>6 DEF IInv, QueueLimits
<1>14. StreamsHoldRequests'
  <2>1. ASSUME NEW id \in (d2h' + 1) .. (nextId' - 1)
        PROVE  \E k \in 1 .. Len(requests') : requests'[k].id = id /\ ~requests'[k].completed
    <3>1. PICK k \in 1 .. Len(requests) : requests[k].id = id /\ ~requests[k].completed
        BY <1>6 DEF IInv, StreamsHoldRequests
    <3>2. k # i
        BY <1>1, <1>2, <1>6, <3>1 DEF TypeOK
    <3>3. QED
        BY <1>5, <3>1, <3>2
  <2>2. QED
      BY <2>1 DEF StreamsHoldRequests
<1>15. \A r \in received' : inputBuffer'[r] = call'
    BY <1>6 DEF IInv
<1>16. RequestsInv'
  <2>1. ASSUME NEW k \in 1 .. Len(requests')
        PROVE  (InProgress(requests[k]) /\ \A r \in RanksOf(requests[k]) : SegmentData(requests[k], r))'
      BY <1>5, <1>10, <1>11
  <2>2. QED
      BY <2>1 DEF RequestsInv
<1>17. QED
    BY <1>5, <1>8, <1>9, <1>12, <1>13, <1>14, <1>15, <1>16 DEF IInv

\* Erasing a request closes the gap and keeps the order of the others.
LEMMA RemoveFacts ==
    ASSUME NEW S, NEW s \in Seq(S), NEW i \in 1 .. Len(s)
    PROVE  /\ RemoveAt(s, i) \in Seq(S) /\ Len(RemoveAt(s, i)) = Len(s) - 1
           /\ \A k \in 1 .. Len(s) - 1 : RemoveAt(s, i)[k] = s[IF k < i THEN k ELSE k + 1]
<1> DEFINE front == SubSeq(s, 1, i - 1)
           back == SubSeq(s, i + 1, Len(s))
<1>1. Len(s) \in Nat /\ \A k \in 1 .. Len(s) : s[k] \in S
    BY LenProperties
<1>2. /\ front \in Seq(S) /\ Len(front) = i - 1
      /\ \A k \in 1 .. i - 1 : front[k] = s[k]
  <2>1. 1 \in Int /\ i - 1 \in Int /\ \A k \in 1 .. i - 1 : s[k] \in S
      BY <1>1
  <2>2. /\ front \in Seq(S) /\ Len(front) = IF 1 <= i - 1 THEN (i - 1) - 1 + 1 ELSE 0
        /\ \A k \in 1 .. (i - 1) - 1 + 1 : front[k] = s[1 + k - 1]
      BY <2>1, SubSeqProperties
  <2>3. QED
      BY <1>1, <2>2
<1>3. /\ back \in Seq(S) /\ Len(back) = Len(s) - i
      /\ \A k \in 1 .. Len(s) - i : back[k] = s[i + k]
  <2>1. i + 1 \in Int /\ Len(s) \in Int /\ \A k \in (i + 1) .. Len(s) : s[k] \in S
      BY <1>1
  <2>2. /\ back \in Seq(S) /\ Len(back) = IF i + 1 <= Len(s) THEN Len(s) - (i + 1) + 1 ELSE 0
        /\ \A k \in 1 .. Len(s) - (i + 1) + 1 : back[k] = s[(i + 1) + k - 1]
      BY <2>1, SubSeqProperties
  <2>3. QED
      BY <1>1, <2>2
<1> HIDE DEF front, back
<1>4. /\ front \o back \in Seq(S) /\ Len(front \o back) = Len(front) + Len(back)
      /\ \A k \in 1 .. Len(front) + Len(back) :
            (front \o back)[k] = IF k <= Len(front) THEN front[k] ELSE back[k - Len(front)]
    BY <1>2, <1>3, ConcatProperties
<1>5. RemoveAt(s, i) = front \o back
    BY DEF RemoveAt, front, back
<1>6. ASSUME NEW k \in 1 .. Len(s) - 1
      PROVE  (front \o back)[k] = s[IF k < i THEN k ELSE k + 1]
  <2>1. k \in 1 .. Len(front) + Len(back)
      BY <1>1, <1>2, <1>3
  <2>2. CASE k < i
    <3>1. k \in 1 .. i - 1 /\ k <= Len(front)
        BY <1>2, <2>2
    <3>2. QED
        BY <1>2, <1>4, <2>1, <2>2, <3>1
  <2>3. CASE ~(k < i)
    <3>1. /\ ~(k <= Len(front)) /\ k - Len(front) \in 1 .. Len(s) - i
          /\ i + (k - Len(front)) = k + 1
        BY <1>1, <1>2, <2>3
    <3>2. back[k - Len(front)] = s[k + 1]
        BY <1>3, <3>1
    <3>3. QED
        BY <1>4, <2>1, <2>3, <3>1, <3>2
  <2>4. QED
      BY <2>2, <2>3
<1>7. Len(front) + Len(back) = Len(s) - 1
    BY <1>1, <1>2, <1>3
<1>8. QED
    BY <1>4, <1>5, <1>6, <1>7

\* Releasing a completed request leaves nothing of it to the streams.
LEMMA ReleaseInv ==
    ASSUME IInv, NEW i \in 1 .. Len(requests), Release(i) PROVE IInv'
<1> DEFINE q == requests[i]
           Old(k) == IF k < i THEN k ELSE k + 1
           New(k) == IF k < i THEN k ELSE k - 1
<1>1. TypeOK /\ RequestsApart /\ StreamsOrdered /\ RequestsInv /\ Len(requests) \in Nat
    BY LenProperties DEF IInv, TypeOK
<1>2. /\ requests' \in Seq(Request) /\ Len(requests') = Len(requests) - 1
      /\ \A k \in 1 .. Len(requests) - 1 : requests'[k] = requests[Old(k)]
    BY <1>1, RemoveFacts DEF Release, TypeOK
<1>3. /\ \A k \in 1 .. Len(requests) - 1 : Old(k) \in 1 .. Len(requests) /\ Old(k) # i
      /\ \A j \in 1 .. Len(requests) - 1, k \in 1 .. Len(requests) - 1 : j < k => Old(j) < Old(k)
      /\ \A k \in 1 .. Len(requests) : k # i => New(k) \in 1 .. Len(requests) - 1 /\ Old(New(k)) = k
    BY <1>1
<1> HIDE DEF Old, New
<1>4. /\ q.completed /\ q.id = finishing /\ finishing' = 0 /\ inferred' = inferred \cup RanksOf(q)
      /\ mode' = mode /\ call' = call /\ received' = received
      /\ inputBuffer' = inputBuffer /\ outputBuffer' = outputBuffer
      /\ nextId' = nextId /\ h2d' = h2d /\ compute' = compute /\ d2h' = d2h
    BY DEF Release, streamVars
<1>5. TypeOK'
    BY <1>1, <1>2, <1>4, RangeFacts DEF TypeOK
<1>6. StreamsOrdered'
    BY <1>1, <1>4 DEF StreamsOrdered, TypeOK
<1>7. RequestsApart'
  <2>1. ASSUME NEW j \in 1 .. Len(requests'), NEW k \in 1 .. Len(requests'), j < k
        PROVE  /\ requests'[j].id < requests'[k].id
               /\ RanksOf(requests'[j]) \cap RanksOf(requests'[k]) = {}
    <3>1. /\ requests'[j] = requests[Old(j)] /\ requests'[k] = requests[Old(k)]
          /\ Old(j) \in 1 .. Len(requests) /\ Old(k) \in 1 .. Len(requests) /\ Old(j) < Old(k)
        BY <1>2, <1>3, <2>1
    <3>2. QED
        BY <1>1, <3>1 DEF RequestsApart
  <2>2. QED
      BY <2>1 DEF RequestsApart, RanksOf
<1>8. RequestsInv'
  <2>1. ASSUME NEW k \in 1 .. Len(requests')
        PROVE  (InProgress(requests[k]) /\ \A r \in RanksOf(requests[k]) : SegmentData(requests[k], r))'
    <3>1. requests'[k] = requests[Old(k)] /\ Old(k) \in 1 .. Len(requests) /\ Old(k) # i
        BY <1>2, <1>3
    <3>2. /\ InProgress(requests[Old(k)]) /\ requests[Old(k)].id # q.id
          /\ RanksOf(requests[Old(k)]) \cap RanksOf(q) = {}
          /\ \A r \in RanksOf(requests[Old(k)]) : SegmentData(requests[Old(k)], r)
        BY <1>1, <3>1, Distinct DEF RequestsInv
    <3>3. /\ requests[Old(k)].id \in Nat \ {0} /\ requests[Old(k)].completed \in BOOLEAN
        BY <1>1, <3>1, RequestTypes
    <3>4. ~requests[Old(k)].completed
        BY <1>4, <3>2, <3>3 DEF InProgress
    <3>5. RanksOf(requests'[k]) = RanksOf(requests[Old(k)])
        BY <3>1
    <3>6. InProgress(requests[k])'
        BY <1>4, <3>1, <3>2, <3>3, <3>4, <3>5 DEF InProgress, RanksOf
    <3>7. \A r \in RanksOf(requests'[k]) : SegmentData(requests[k], r)'
        BY <1>4, <3>1, <3>2 DEF SegmentData, ReadsBuffer, WritesBuffer, Direct
    <3>8. QED
        BY <3>6, <3>7 DEF RanksOf
  <2>2. QED
      BY <2>1 DEF RequestsInv
<1>9. InferredIsCurrent'
  <2>1. ASSUME NEW r \in RanksOf(q) PROVE outputBuffer[r] = call
    <3>1. SegmentData(q, r) /\ InProgress(q)
        BY <1>1 DEF RequestsInv
    <3>2. QED
        BY <1>4, <3>1 DEF SegmentData, InProgress
  <2>2. QED
      BY <1>4, <2>1 DEF IInv, InferredIsCurrent
<1>10. QueueLimits'
    BY <1>1, <1>2, <1>4, PipelineAssumption DEF IInv, QueueLimits
<1>11. StreamsHoldRequests'
  <2>1. ASSUME NEW id \in (d2h' + 1) .. (nextId' - 1)
        PROVE  \E k \in 1 .. Len(requests') : requests'[k].id = id /\ ~requests'[k].completed
    <3>1. PICK k \in 1 .. Len(requests) : requests[k].id = id /\ ~requests[k].completed
        BY <1>4 DEF IInv, StreamsHoldRequests
    <3>2. k # i
        BY <1>4, <3>1
    <3>3. QED
        BY <1>2, <1>3, <3>1, <3>2
  <2>2. QED
      BY <2>1 DEF StreamsHoldRequests
<1>12. \A r \in received' : inputBuffer'[r] = call'
    BY <1>4 DEF IInv
<1>13. QED
    BY <1>5, <1>6, <1>7, <1>8, <1>9, <1>10, <1>11, <1>12 DEF IInv

\* A new request takes segments nobody works on; with timing the copies of all
\* earlier requests are over.
LEMMA SubmitInv ==
    ASSUME IInv, NEW first \in Ranks, NEW end \in 1 .. N, first < end, Submit(first, end)
    PROVE  IInv'
<1> DEFINE n == Len(requests)
           staged == IF first = 0 \/ mode.pinnedInput THEN Empty ELSE inputBuffer
           new == [id |-> nextId, first |-> first, end |-> end, completed |-> FALSE,
                   inputCpu |-> staged, inputGpu |-> Empty, outputGpu |-> Empty,
                   outputCpu |-> Empty]
<1>1. TypeOK /\ RequestsApart /\ StreamsOrdered /\ RequestsInv /\ n \in Nat
    BY LenProperties DEF IInv, TypeOK
<1>2. Empty \in Contents /\ staged \in Contents
    BY <1>1, PipelineAssumption DEF TypeOK, Empty, Contents
<1>3. new \in Request
    BY <1>1, <1>2 DEF TypeOK, Request
<1>4. requests' = Append(requests, new)
    BY DEF Submit
<1>5. /\ new.id = nextId /\ new.first = first /\ new.end = end /\ new.completed = FALSE
      /\ new.inputCpu = staged /\ RanksOf(new) = first .. (end - 1)
    BY DEF RanksOf
<1> HIDE DEF new
<1>6. /\ requests' \in Seq(Request) /\ Len(requests') = n + 1 /\ requests'[n + 1] = new
      /\ \A k \in 1 .. n : requests'[k] = requests[k]
    BY <1>1, <1>3, <1>4, AppendProperties DEF TypeOK
<1>7. /\ RanksOf(new) \subseteq received \ (inferred \cup Scheduled)
      /\ finishing = 0 /\ CanSubmit
      /\ first = 0 => end = 1
      /\ mode' = mode /\ call' = call /\ received' = received /\ inferred' = inferred
      /\ inputBuffer' = inputBuffer /\ outputBuffer' = outputBuffer
      /\ nextId' = nextId + 1 /\ finishing' = finishing
      /\ h2d' = h2d /\ compute' = compute /\ d2h' = d2h
    BY <1>5 DEF Submit, clientVars, streamVars
<1>8. ASSUME NEW k \in 1 .. n PROVE RanksOf(requests[k]) \cap RanksOf(new) = {}
    BY <1>7 DEF Scheduled
<1>9. ASSUME NEW k \in 1 .. n
      PROVE  InProgress(requests[k]) /\ requests[k].id \in Nat /\ requests[k].id < nextId
    BY <1>1, RequestTypes DEF RequestsInv, InProgress
<1>10. /\ nextId \in Nat \ {0} /\ h2d \in Nat /\ compute \in Nat /\ d2h \in Nat
       /\ d2h < nextId /\ compute < nextId /\ h2d < nextId /\ d2h <= h2d
    BY <1>1 DEF TypeOK, StreamsOrdered
<1>11. TypeOK'
    BY <1>1, <1>6, <1>7 DEF TypeOK
<1>12. StreamsOrdered'
    BY <1>1, <1>7, <1>10 DEF StreamsOrdered
<1>13. ASSUME NEW k \in 1 .. Len(requests')
       PROVE  \/ k \in 1 .. n /\ requests'[k] = requests[k]
              \/ k = n + 1 /\ requests'[k] = new
    BY <1>1, <1>6
<1>14. RequestsApart'
  <2>1. ASSUME NEW j \in 1 .. Len(requests'), NEW k \in 1 .. Len(requests'), j < k
        PROVE  /\ requests'[j].id < requests'[k].id
               /\ RanksOf(requests'[j]) \cap RanksOf(requests'[k]) = {}
    <3>1. j \in 1 .. n /\ requests'[j] = requests[j]
        BY <1>1, <1>6, <2>1
    <3>2. CASE k \in 1 .. n /\ requests'[k] = requests[k]
        BY <1>1, <2>1, <3>1, <3>2 DEF RequestsApart
    <3>3. CASE k = n + 1 /\ requests'[k] = new
        BY <1>5, <1>8, <1>9, <3>1, <3>3
    <3>4. QED
        BY <1>13, <3>2, <3>3
  <2>2. QED
      BY <2>1 DEF RequestsApart, RanksOf
<1>15. RequestsInv'
  <2>1. ASSUME NEW k \in 1 .. Len(requests')
        PROVE  (InProgress(requests[k]) /\ \A r \in RanksOf(requests[k]) : SegmentData(requests[k], r))'
    <3>1. CASE k \in 1 .. n /\ requests'[k] = requests[k]
      <4>1. InProgress(requests[k]) /\ \A r \in RanksOf(requests[k]) : SegmentData(requests[k], r)
          BY <1>1, <3>1 DEF RequestsInv
      <4>2. requests[k].id < nextId + 1
          BY <1>9, <1>10, <3>1
      <4>3. QED
          BY <1>7, <3>1, <4>1, <4>2
          DEF InProgress, SegmentData, RanksOf, ReadsBuffer, WritesBuffer, Direct
    <3>2. CASE k = n + 1 /\ requests'[k] = new
      <4>1. InProgress(requests[k])'
        <5>1. nextId < nextId + 1 /\ nextId # 0
            BY <1>10
        <5>2. RanksOf(new) \subseteq received \ inferred
            BY <1>7
        <5>3. new.first < new.end
            BY <1>5
        <5>4. QED
            BY <1>5, <1>7, <3>2, <5>1, <5>2, <5>3 DEF InProgress, RanksOf
      <4>2. ASSUME NEW r \in RanksOf(new) PROVE SegmentData(requests[k], r)'
        <5>1. ~(nextId <= h2d) /\ ~(nextId <= compute) /\ ~(nextId <= d2h)
            BY <1>10
        <5>2. r \in received /\ inputBuffer[r] = call
            BY <1>7 DEF IInv
        <5>3. ~ReadsBuffer(requests[k])' => new.inputCpu = inputBuffer
            BY <1>5, <1>7, <3>2 DEF ReadsBuffer, Direct
        <5>4. QED
            BY <1>5, <1>7, <3>2, <5>1, <5>2, <5>3 DEF SegmentData
      <4>3. QED
          BY <3>2, <4>1, <4>2 DEF RanksOf
    <3>3. QED
        BY <1>13, <3>1, <3>2
  <2>2. QED
      BY <2>1 DEF RequestsInv
<1>16. InferredIsCurrent' /\ \A r \in received' : inputBuffer'[r] = call'
    BY <1>7 DEF IInv, InferredIsCurrent
<1>17. QueueLimits'
  <2>1. n + 1 <= Depth
      BY <1>1, <1>7, PipelineAssumption DEF CanSubmit
  <2>2. mode.timing => nextId - 1 <= h2d
    <3>1. CASE nextId - 1 <= d2h
        BY <1>10, <3>1
    <3>2. CASE ~(nextId - 1 <= d2h)
      <4>1. nextId - 1 \in (d2h + 1) .. (nextId - 1)
          BY <1>10, <3>2
      <4>2. PICK k \in 1 .. n : requests[k].id = nextId - 1
          BY <4>1 DEF IInv, StreamsHoldRequests
      <4>3. n \in 1 .. n /\ requests # << >>
          BY <1>1, <4>2
      <4>4. requests[n].id \in Nat /\ requests[n].id < nextId /\ k <= n
          BY <1>1, <1>9, <4>3
      <4>5. k # n => requests[k].id < requests[n].id
          BY <1>1, <4>2, <4>3, <4>4 DEF RequestsApart
      <4>6. requests[n].id = nextId - 1
          BY <1>10, <4>2, <4>4, <4>5
      <4>7. mode.timing => h2d >= requests[n].id
          BY <1>7, <4>3 DEF CanSubmit, Last
      <4>8. QED
          BY <1>10, <4>6, <4>7
    <3>3. QED
        BY <3>1, <3>2
  <2>3. QED
      BY <1>6, <1>7, <1>10, <2>1, <2>2 DEF QueueLimits
<1>18. StreamsHoldRequests'
  <2>1. ASSUME NEW id \in (d2h' + 1) .. (nextId' - 1)
        PROVE  \E k \in 1 .. Len(requests') : requests'[k].id = id /\ ~requests'[k].completed
    <3>1. CASE id = nextId
        BY <1>1, <1>5, <1>6, <3>1
    <3>2. CASE id # nextId
      <4>1. id \in (d2h + 1) .. (nextId - 1)
          BY <1>7, <1>10, <3>2
      <4>2. PICK k \in 1 .. n : requests[k].id = id /\ ~requests[k].completed
          BY <4>1 DEF IInv, StreamsHoldRequests
      <4>3. QED
          BY <1>1, <1>6, <4>2
    <3>3. QED
        BY <3>1, <3>2
  <2>2. QED
      BY <2>1 DEF StreamsHoldRequests
<1>19. QED
    BY <1>11, <1>12, <1>14, <1>15, <1>16, <1>17, <1>18 DEF IInv

\* An input arrives in a segment that no request works on.
LEMMA ReceiveInv == ASSUME IInv, NEW r \in Ranks, Receive(r) PROVE IInv'
<1>1. TypeOK /\ RequestsApart /\ StreamsOrdered /\ RequestsInv
    BY DEF IInv
<1>2. /\ r \notin received /\ received' = received \cup {r}
      /\ inputBuffer' = [inputBuffer EXCEPT ![r] = call]
      /\ mode' = mode /\ call' = call /\ inferred' = inferred /\ outputBuffer' = outputBuffer
      /\ requests' = requests /\ nextId' = nextId /\ finishing' = finishing
      /\ h2d' = h2d /\ compute' = compute /\ d2h' = d2h
    BY DEF Receive, streamVars
<1>3. call \in 0 .. MaxCalls
    BY <1>1, PipelineAssumption DEF TypeOK
<1>4. TypeOK'
    BY <1>1, <1>2, <1>3 DEF TypeOK, Contents
<1>5. \A s \in received' : inputBuffer'[s] = call'
    BY <1>1, <1>2 DEF IInv, TypeOK, Contents
<1>6. StreamsOrdered' /\ RequestsApart' /\ InferredIsCurrent' /\ QueueLimits' /\ StreamsHoldRequests'
    BY <1>2 DEF IInv, StreamsOrdered, RequestsApart, RanksOf, InferredIsCurrent, QueueLimits,
       StreamsHoldRequests
<1>7. RequestsInv'
    BY <1>1, <1>2 DEF RequestsInv, InProgress, SegmentData, RanksOf, ReadsBuffer, WritesBuffer, Direct
<1>8. QED
    BY <1>4, <1>5, <1>6, <1>7 DEF IInv

\* The deque is empty when every segment is inferred.
LEMMA NothingLeft == ASSUME IInv, inferred = Ranks PROVE requests = << >> /\ d2h = nextId - 1
<1>1. TypeOK /\ StreamsOrdered /\ RequestsInv /\ StreamsHoldRequests
    BY DEF IInv
<1>2. ASSUME NEW i \in 1 .. Len(requests) PROVE FALSE
  <2>1. InProgress(requests[i])
      BY <1>1 DEF RequestsInv
  <2>2. requests[i].first \in RanksOf(requests[i]) /\ requests[i].first \in Ranks
      BY <1>1, <2>1, RangeFacts
  <2>3. QED
      BY <2>1, <2>2 DEF InProgress
<1>3. requests = << >>
    BY <1>1, <1>2, EmptySeq DEF TypeOK
<1>4. nextId \in Nat \ {0} /\ d2h \in Nat /\ d2h < nextId
    BY <1>1 DEF TypeOK, StreamsOrdered
<1>5. (d2h + 1) .. (nextId - 1) = {}
    BY <1>1, <1>2 DEF StreamsHoldRequests
<1>6. QED
    BY <1>3, <1>4, <1>5

\* The next call starts on an empty pipeline.
LEMMA NextCallInv == ASSUME IInv, NextCall PROVE IInv'
<1>1. TypeOK /\ StreamsOrdered
    BY DEF IInv
<1>2. requests = << >> /\ Len(requests) = 0
    BY NothingLeft DEF NextCall
<1>3. /\ call < MaxCalls /\ call' = call + 1 /\ received' = {0} /\ inferred' = {}
      /\ inputBuffer' = [inputBuffer EXCEPT ![0] = call + 1] /\ outputBuffer' = outputBuffer
      /\ mode' = mode /\ requests' = requests /\ nextId' = nextId /\ finishing' = finishing
      /\ h2d' = h2d /\ compute' = compute /\ d2h' = d2h
    BY DEF NextCall, streamVars
<1>4. 0 \in Ranks /\ call + 1 \in 1 .. MaxCalls /\ call + 1 \in 0 .. MaxCalls
    BY <1>1, <1>3, PipelineAssumption DEF TypeOK, Ranks
<1>5. TypeOK'
    BY <1>1, <1>3, <1>4 DEF TypeOK, Contents
<1>6. \A s \in received' : inputBuffer'[s] = call'
    BY <1>1, <1>3, <1>4 DEF TypeOK, Contents
<1>7. RequestsApart' /\ RequestsInv'
    BY <1>2, <1>3 DEF RequestsApart, RequestsInv
<1>8. StreamsOrdered' /\ InferredIsCurrent' /\ QueueLimits' /\ StreamsHoldRequests'
    BY <1>3 DEF IInv, StreamsOrdered, InferredIsCurrent, QueueLimits, StreamsHoldRequests
<1>9. QED
    BY <1>5, <1>6, <1>7, <1>8 DEF IInv

LEMMA IInvStep == IInv /\ [Next]_vars => IInv'
<1> SUFFICES ASSUME IInv, [Next]_vars PROVE IInv'
    OBVIOUS
<1>1. CASE UNCHANGED vars
  <2>1. /\ mode' = mode /\ call' = call /\ received' = received /\ inferred' = inferred
        /\ inputBuffer' = inputBuffer /\ outputBuffer' = outputBuffer /\ requests' = requests
        /\ nextId' = nextId /\ finishing' = finishing
        /\ h2d' = h2d /\ compute' = compute /\ d2h' = d2h
      BY <1>1 DEF vars, clientVars, streamVars
  <2>2. RequestsInv'
      BY <2>1 DEF IInv, RequestsInv, InProgress, SegmentData, RanksOf, ReadsBuffer, WritesBuffer, Direct
  <2>3. TypeOK' /\ RequestsApart' /\ StreamsOrdered'
      BY <2>1 DEF IInv, TypeOK, RequestsApart, RanksOf, StreamsOrdered
  <2>4. QED
      BY <2>1, <2>2, <2>3 DEF IInv, InferredIsCurrent, QueueLimits, StreamsHoldRequests
<1>2. CASE Next
    BY <1>2, CopyToDeviceInv, ForwardInv, CopyBackInv, CompleteInv, ReleaseInv, SubmitInv,
       ReceiveInv, NextCallInv
    DEF Next, Submission, Collection, H2DStream, ComputeStream, D2HStream
<1>3. QED
    BY <1>1, <1>2

\* Every behaviour keeps the invariant.
THEOREM Invariance == Spec => []IInv
BY IInvInit, IInvStep, PTL DEF Spec

-----------------------------------------------------------------------------
\* The types of the state, for every number of segments, depth and mode.
THEOREM TypeCorrect == Spec => []TypeOK
BY Invariance, PTL DEF IInv

\* What counts as inferred is the output of the current input, in every mode and
\* however the streams overlap.
THEOREM InferredStaysCurrent == Spec => []InferredIsCurrent
BY Invariance, PTL DEF IInv

\* No more requests than the depth hold memory, and with timing the copies to
\* the device never queue up.
THEOREM QueuesBounded == Spec => []QueueLimits
BY Invariance, PTL DEF IInv

\* Nothing that a stream still has to work on has left the deque.
THEOREM TensorsOutliveStreams == Spec => []StreamsHoldRequests
BY Invariance, PTL DEF IInv

\* The end of a call leaves nothing on the device.
THEOREM CallsEndEmpty == Spec => []NoneLeftBehind
<1>1. IInv => NoneLeftBehind
    BY NothingLeft DEF NoneLeftBehind
<1>2. QED
    BY <1>1, Invariance, PTL

-----------------------------------------------------------------------------
Ranges    == {RanksOf(requests[i]) : i \in {k \in 1 .. Len(requests) : ~requests[k].completed}}
OutputMap == [r \in Ranks |-> IF Busy(r) THEN 0 ELSE outputBuffer[r]]

\* A step that leaves the ranges in progress as they are, and every output
\* outside of them, is invisible to the exchange.
LEMMA Invisible ==
    ASSUME Ranges' = Ranges, inputBuffer' = inputBuffer,
           \A r \in Ranks : Busy(r)' <=> Busy(r),
           \A r \in Ranks : ~Busy(r) => outputBuffer'[r] = outputBuffer[r]
    PROVE  UNCHANGED Executor!vars
<1>1. OutputMap' = OutputMap
    BY DEF OutputMap
<1>2. QED
    BY <1>1 DEF Executor!vars, OutputMap, Ranges

\* The steps of the streams change neither the ranges nor what is in progress.
LEMMA SameRanges ==
    ASSUME Len(requests') = Len(requests),
           \A k \in 1 .. Len(requests) : /\ RanksOf(requests'[k]) = RanksOf(requests[k])
                                         /\ requests'[k].completed = requests[k].completed
    PROVE  Ranges' = Ranges /\ \A r \in Ranks : Busy(r)' <=> Busy(r)
<1>1. Ranges' = Ranges
    BY DEF Ranges, RanksOf
<1>2. ASSUME NEW r \in Ranks PROVE Busy(r)' <=> Busy(r)
    BY DEF Busy, RanksOf
<1>3. QED
    BY <1>1, <1>2

LEMMA StreamStep ==
    ASSUME IInv, NEW i \in 1 .. Len(requests), CopyToDevice(i) \/ Forward(i) \/ CopyBack(i)
    PROVE  UNCHANGED Executor!vars
<1> DEFINE q == requests[i]
<1>1. TypeOK /\ RequestsInv /\ requests \in Seq(Request)
    BY DEF IInv, TypeOK
<1>2. q \in Request /\ q.id \in Nat /\ q.completed \in BOOLEAN /\ q.outputGpu \in Contents
    BY <1>1, RequestTypes DEF Request
<1>3. \E new \in Request : /\ requests' = [requests EXCEPT ![i] = new]
                           /\ new.id = q.id /\ new.first = q.first /\ new.end = q.end
                           /\ new.completed = q.completed
  <2>1. CASE CopyToDevice(i)
    <3> DEFINE new == [q EXCEPT !.inputGpu = IF ReadsBuffer(q) THEN inputBuffer ELSE q.inputCpu]
    <3>1. new \in Request /\ new.id = q.id /\ new.first = q.first /\ new.end = q.end
          /\ new.completed = q.completed
        BY <1>1, <1>2 DEF TypeOK, Request
    <3>2. requests' = [requests EXCEPT ![i] = new]
        BY <1>1, <2>1 DEF CopyToDevice
    <3>3. QED
        BY <3>1, <3>2
  <2>2. CASE Forward(i)
    <3> DEFINE new == [q EXCEPT !.outputGpu = q.inputGpu]
    <3>1. new \in Request /\ new.id = q.id /\ new.first = q.first /\ new.end = q.end
          /\ new.completed = q.completed
        BY <1>2 DEF Request
    <3>2. requests' = [requests EXCEPT ![i] = new]
        BY <1>1, <2>2 DEF Forward
    <3>3. QED
        BY <3>1, <3>2
  <2>3. CASE CopyBack(i)
    <3> DEFINE new == IF WritesBuffer(q) THEN q ELSE [q EXCEPT !.outputCpu = q.outputGpu]
    <3>1. new \in Request /\ new.id = q.id /\ new.first = q.first /\ new.end = q.end
          /\ new.completed = q.completed
        BY <1>2 DEF Request
    <3>2. requests' = [requests EXCEPT ![i] = new]
        BY <1>1, <2>3 DEF CopyBack
    <3>3. QED
        BY <3>1, <3>2
  <2>4. QED
      BY <2>1, <2>2, <2>3
<1>4. PICK new \in Request : /\ requests' = [requests EXCEPT ![i] = new]
                             /\ new.id = q.id /\ new.first = q.first /\ new.end = q.end
                             /\ new.completed = q.completed
    BY <1>3
<1>5. /\ Len(requests') = Len(requests) /\ requests'[i] = new
      /\ \A k \in 1 .. Len(requests) : k # i => requests'[k] = requests[k]
      /\ \A k \in 1 .. Len(requests) : RanksOf(requests'[k]) = RanksOf(requests[k])
    BY <1>1, <1>4, UpdateFacts
<1>6. \A k \in 1 .. Len(requests) : requests'[k].completed = requests[k].completed
    BY <1>4, <1>5
<1>7. Ranges' = Ranges /\ \A r \in Ranks : Busy(r)' <=> Busy(r)
    BY <1>5, <1>6, SameRanges
<1>8. inputBuffer' = inputBuffer
    BY DEF CopyToDevice, Forward, CopyBack, clientVars
<1>9. ASSUME NEW r \in Ranks, ~Busy(r) PROVE outputBuffer'[r] = outputBuffer[r]
  <2>1. CASE CopyToDevice(i) \/ Forward(i)
      BY <2>1 DEF CopyToDevice, Forward
  <2>2. CASE CopyBack(i)
    <3>1. q.id = d2h + 1 /\ d2h \in Nat
        BY <1>1, <2>2 DEF CopyBack, NextOf, TypeOK
    <3>2. ~q.completed
        BY <1>1, <1>2, <3>1 DEF RequestsInv, InProgress
    <3>3. r \notin RanksOf(q)
        BY <1>9, <3>2 DEF Busy
    <3>4. \/ outputBuffer' = outputBuffer
          \/ outputBuffer' = With(outputBuffer, q, q.outputGpu)
        BY <2>2 DEF CopyBack
    <3>5. QED
        BY <1>1, <1>2, <1>9, <3>3, <3>4, WithFacts
  <2>3. QED
      BY <2>1, <2>2
<1>10. QED
    BY <1>7, <1>8, <1>9, Invisible

\* Releasing a request happens behind its completion.
LEMMA ReleaseStep ==
    ASSUME IInv, NEW i \in 1 .. Len(requests), Release(i) PROVE UNCHANGED Executor!vars
<1> DEFINE Old(k) == IF k < i THEN k ELSE k + 1
           New(k) == IF k < i THEN k ELSE k - 1
<1>1. requests \in Seq(Request) /\ Len(requests) \in Nat
    BY LenProperties DEF IInv, TypeOK
<1>2. /\ Len(requests') = Len(requests) - 1
      /\ \A k \in 1 .. Len(requests) - 1 : requests'[k] = requests[Old(k)]
    BY <1>1, RemoveFacts DEF Release
<1>3. /\ \A k \in 1 .. Len(requests) - 1 : Old(k) \in 1 .. Len(requests)
      /\ \A k \in 1 .. Len(requests) : k # i => New(k) \in 1 .. Len(requests) - 1 /\ Old(New(k)) = k
    BY <1>1
<1> HIDE DEF Old, New
<1>4. requests[i].completed /\ outputBuffer' = outputBuffer /\ inputBuffer' = inputBuffer
    BY DEF Release
<1>5. ASSUME NEW k \in 1 .. Len(requests'), ~requests'[k].completed
      PROVE  \E j \in 1 .. Len(requests) : /\ ~requests[j].completed
                                           /\ RanksOf(requests'[k]) = RanksOf(requests[j])
    BY <1>2, <1>3, <1>5
<1>6. ASSUME NEW k \in 1 .. Len(requests), ~requests[k].completed
      PROVE  \E j \in 1 .. Len(requests') : /\ ~requests'[j].completed
                                            /\ RanksOf(requests[k]) = RanksOf(requests'[j])
    BY <1>2, <1>3, <1>4, <1>6
<1>7. Ranges' = Ranges
    BY <1>5, <1>6 DEF Ranges, RanksOf
<1>8. ASSUME NEW r \in Ranks PROVE Busy(r)' <=> Busy(r)
    BY <1>5, <1>6 DEF Busy, RanksOf
<1>9. QED
    BY <1>4, <1>7, <1>8, Invisible

LEMMA SubmitStep ==
    ASSUME IInv, NEW first \in Ranks, NEW end \in 1 .. N, first < end, Submit(first, end)
    PROVE  Executor!Submit(first .. (end - 1))
<1> DEFINE n == Len(requests)
           range == first .. (end - 1)
<1>1. requests \in Seq(Request) /\ n \in Nat /\ received \subseteq Ranks
    BY LenProperties DEF IInv, TypeOK
<1>2. PICK new : /\ requests' = Append(requests, new)
                 /\ new.first = first /\ new.end = end /\ new.completed = FALSE
    BY DEF Submit
<1>3. RanksOf(new) = range
    BY <1>2 DEF RanksOf
<1>4. /\ Len(requests') = n + 1 /\ requests'[n + 1] = new
      /\ \A k \in 1 .. n : requests'[k] = requests[k]
    BY <1>1, <1>2
<1>5. /\ range \subseteq received \ (inferred \cup Scheduled)
      /\ inputBuffer' = inputBuffer /\ outputBuffer' = outputBuffer
    BY DEF Submit, clientVars
<1>6. range # {} /\ range \subseteq Ranks
  <2>1. first \in range
      BY PipelineAssumption DEF Ranks
  <2>2. QED
      BY <1>1, <1>5, <2>1
<1>7. \A other \in Ranges : other \cap range = {}
    BY <1>5 DEF Ranges, Scheduled
<1>8. ASSUME NEW k \in 1 .. Len(requests')
      PROVE  \/ k \in 1 .. n /\ requests'[k] = requests[k]
             \/ k = n + 1 /\ requests'[k] = new
    BY <1>1, <1>4
<1>9. 1 .. n \subseteq 1 .. Len(requests') /\ n + 1 \in 1 .. Len(requests')
    BY <1>1, <1>4
<1>10. Ranges' = Ranges \cup {range}
  <2>1. ASSUME NEW a \in Ranges' PROVE a \in Ranges \cup {range}
    <3>1. PICK k \in 1 .. Len(requests') : ~requests'[k].completed /\ a = RanksOf(requests'[k])
        BY <2>1 DEF Ranges, RanksOf
    <3>2. QED
        BY <1>3, <1>8, <3>1 DEF Ranges
  <2>2. ASSUME NEW a \in Ranges PROVE a \in Ranges'
    <3>1. PICK k \in 1 .. n : ~requests[k].completed /\ a = RanksOf(requests[k])
        BY <2>2 DEF Ranges
    <3>2. k \in 1 .. Len(requests') /\ requests'[k] = requests[k]
        BY <1>4, <1>9
    <3>3. QED
        BY <3>1, <3>2 DEF Ranges, RanksOf
  <2>3. range \in Ranges'
      BY <1>2, <1>3, <1>4, <1>9 DEF Ranges, RanksOf
  <2>4. QED
      BY <2>1, <2>2, <2>3
<1>11. ASSUME NEW r \in Ranks PROVE Busy(r)' <=> Busy(r) \/ r \in range
  <2>1. Busy(r) <=> \E a \in Ranges : r \in a
      BY DEF Ranges, Busy
  <2>2. Busy(r)' <=> \E a \in Ranges' : r \in a
      BY DEF Ranges, Busy, RanksOf
  <2>3. QED
      BY <1>10, <2>1, <2>2
<1>12. OutputMap' = [r \in Ranks |-> IF r \in range THEN 0 ELSE OutputMap[r]]
    BY <1>5, <1>11 DEF OutputMap
<1>13. QED
    BY <1>5, <1>6, <1>7, <1>10, <1>12 DEF Executor!Submit, Ranges, OutputMap

\* A completed range holds the output of its input; the others stay busy.
LEMMA CompleteStep ==
    ASSUME IInv, NEW i \in 1 .. Len(requests), Complete(i)
    PROVE  \E range \in Ranges : Executor!Complete(range)
<1> DEFINE q == requests[i]
           new == [q EXCEPT !.completed = TRUE]
<1>. PICK range : range = RanksOf(q)
    OBVIOUS
<1>1. TypeOK /\ RequestsInv /\ requests \in Seq(Request)
    BY DEF IInv, TypeOK
<1>2. q \in Request /\ q.outputCpu \in Contents
    BY <1>1, RequestTypes DEF Request
<1>3. /\ new \in Request /\ new.id = q.id /\ new.first = q.first /\ new.end = q.end
      /\ new.completed = TRUE
    BY <1>2 DEF Request
<1>4. requests' = [requests EXCEPT ![i] = new]
    BY <1>1 DEF Complete
<1> HIDE DEF new
<1>5. /\ Len(requests') = Len(requests) /\ requests'[i] = new
      /\ \A k \in 1 .. Len(requests) : k # i => requests'[k] = requests[k]
      /\ \A k \in 1 .. Len(requests) : RanksOf(requests'[k]) = RanksOf(requests[k])
    BY <1>1, <1>3, <1>4, UpdateFacts
<1>6. ~q.completed /\ inputBuffer' = inputBuffer /\ range \subseteq Ranks /\ range # {}
    BY <1>1, RangeFacts DEF Complete, clientVars, RequestsInv
<1>7. range \in Ranges
    BY <1>6 DEF Ranges
<1>8. ASSUME NEW k \in 1 .. Len(requests), k # i PROVE RanksOf(requests[k]) \cap range = {}
    BY <1>8, Distinct
<1>9. Ranges' = Ranges \ {range}
  <2>1. ASSUME NEW a \in Ranges' PROVE a \in Ranges \ {range}
    <3>1. PICK k \in 1 .. Len(requests) : ~requests'[k].completed /\ a = RanksOf(requests'[k])
        BY <1>5, <2>1 DEF Ranges, RanksOf
    <3>2. k # i /\ requests'[k] = requests[k]
        BY <1>3, <1>5, <3>1
    <3>3. a # range
        BY <1>6, <1>8, <3>1, <3>2
    <3>4. QED
        BY <3>1, <3>2, <3>3 DEF Ranges
  <2>2. ASSUME NEW a \in Ranges, a # range PROVE a \in Ranges'
    <3>1. PICK k \in 1 .. Len(requests) : ~requests[k].completed /\ a = RanksOf(requests[k])
        BY <2>2 DEF Ranges
    <3>2. requests'[k] = requests[k] /\ k \in 1 .. Len(requests')
        BY <1>5, <2>2, <3>1
    <3>3. QED
        BY <3>1, <3>2 DEF Ranges, RanksOf
  <2>3. QED
      BY <2>1, <2>2
<1>10. \A a \in Ranges : a # range => a \cap range = {}
    BY <1>8 DEF Ranges
<1>11. ASSUME NEW r \in Ranks PROVE Busy(r)' <=> Busy(r) /\ r \notin range
  <2>1. Busy(r) <=> \E a \in Ranges : r \in a
      BY DEF Ranges, Busy
  <2>2. Busy(r)' <=> \E a \in Ranges' : r \in a
      BY DEF Ranges, Busy, RanksOf
  <2>3. QED
      BY <1>9, <1>10, <2>1, <2>2
<1>12. ASSUME NEW r \in range PROVE outputBuffer'[r] = inputBuffer[r]
  <2>1. IInv' /\ requests'[i].completed /\ i \in 1 .. Len(requests')
      BY <1>3, <1>5, CompleteInv
  <2>2. InProgress(requests[i])' /\ SegmentData(requests[i], r)'
    <3>1. r \in RanksOf(requests'[i])
        BY <1>5
    <3>2. QED
        BY <2>1, <3>1 DEF IInv, RequestsInv, RanksOf
  <2>3. outputBuffer'[r] = call'
      BY <2>1, <2>2 DEF InProgress, SegmentData
  <2>4. call' = call /\ r \in received
      BY <1>1 DEF Complete, clientVars, RequestsInv, InProgress
  <2>5. inputBuffer[r] = call
      BY <2>4 DEF IInv
  <2>6. QED
      BY <2>3, <2>4, <2>5
<1>13. ASSUME NEW r \in Ranks \ range PROVE outputBuffer'[r] = outputBuffer[r]
    BY <1>1, <1>2, WithFacts DEF Complete
<1>14. OutputMap' = [r \in Ranks |-> IF r \in range THEN inputBuffer[r] ELSE OutputMap[r]]
    BY <1>11, <1>12, <1>13 DEF OutputMap
<1>15. QED
    BY <1>6, <1>7, <1>9, <1>14 DEF Executor!Complete, Ranges, OutputMap

\* Inputs are written outside of the ranges in progress only.
LEMMA WriteStep ==
    ASSUME IInv, NEW r \in Ranks, Receive(r) \/ (NextCall /\ r = 0) PROVE Executor!Write(r)
<1>1. TypeOK /\ RequestsInv
    BY DEF IInv
<1>2. requests' = requests /\ outputBuffer' = outputBuffer
    BY DEF Receive, NextCall
<1>3. \E c \in Nat : inputBuffer' = [inputBuffer EXCEPT ![r] = c]
    BY <1>1, PipelineAssumption DEF Receive, NextCall, TypeOK
<1>4. inputBuffer' = [inputBuffer EXCEPT ![r] = inputBuffer'[r]]
    BY <1>1, <1>3 DEF TypeOK, Contents
<1>5. \A range \in Ranges : r \notin range
  <2>1. CASE Receive(r)
      BY <1>1, <2>1 DEF Receive, Ranges, RequestsInv, InProgress
  <2>2. CASE NextCall
      BY <2>2, NothingLeft DEF NextCall, Ranges
  <2>3. QED
      BY <2>1, <2>2
<1>6. Ranges' = Ranges /\ OutputMap' = OutputMap
    BY <1>2 DEF Ranges, OutputMap, Busy, RanksOf
<1>7. QED
    BY <1>4, <1>5, <1>6 DEF Executor!Write, Ranges, OutputMap

\* Every step of the pipeline is one of the executor's or invisible to it.
LEMMA StepImplements == ASSUME IInv, [Next]_vars PROVE [Executor!Next]_(Executor!vars)
<1>1. CASE UNCHANGED vars
  <2>1. inputBuffer' = inputBuffer /\ outputBuffer' = outputBuffer /\ requests' = requests
      BY <1>1 DEF vars, clientVars
  <2>2. Ranges' = Ranges /\ \A r \in Ranks : Busy(r)' <=> Busy(r)
      BY <2>1, SameRanges
  <2>3. QED
      BY <2>1, <2>2, Invisible
<1>2. CASE Submission
  <2>1. PICK first \in Ranks, end \in 1 .. N : first < end /\ Submit(first, end)
      BY <1>2 DEF Submission
  <2>2. Executor!Submit(first .. (end - 1)) /\ first .. (end - 1) \subseteq received
      BY <2>1, SubmitStep DEF Submit
  <2>3. first .. (end - 1) \in SUBSET Ranks
      BY <2>2 DEF IInv, TypeOK
  <2>4. QED
      BY <2>2, <2>3 DEF Executor!Next
<1>3. CASE Collection
  <2>1. PICK i \in 1 .. Len(requests) : Complete(i) \/ Release(i)
      BY <1>3 DEF Collection
  <2>2. CASE Complete(i)
    <3>1. \E range \in Ranges : Executor!Complete(range)
        BY <2>2, CompleteStep
    <3>2. QED
        BY <3>1 DEF Executor!Next, Ranges
  <2>3. CASE Release(i)
      BY <2>3, ReleaseStep
  <2>4. QED
      BY <2>1, <2>2, <2>3
<1>4. CASE H2DStream \/ ComputeStream \/ D2HStream
    BY <1>4, StreamStep DEF H2DStream, ComputeStream, D2HStream
<1>5. CASE NextCall
  <2>1. 0 \in Ranks
      BY PipelineAssumption DEF Ranks
  <2>2. QED
      BY <1>5, <2>1, WriteStep DEF Executor!Next
<1>6. CASE \E r \in Ranks : Receive(r)
    BY <1>6, WriteStep DEF Executor!Next
<1>7. QED
    BY <1>1, <1>2, <1>3, <1>4, <1>5, <1>6 DEF Next

\* The pipeline is the executor the exchange expects, for every number of
\* segments, every depth and every mode of the buffers.
THEOREM Implementation == Spec => ImplementsExecutor
<1>1. Init => Executor!Init
  <2>1. SUFFICES ASSUME Init PROVE Executor!Init
      OBVIOUS
  <2>2. Ranges = {} /\ OutputMap = [r \in Ranks |-> 0]
      BY <2>1 DEF Init, Ranges, OutputMap, Busy, Empty
  <2>3. inputBuffer \in [Ranks -> Nat]
      BY <2>1 DEF Init
  <2>4. QED
      BY <2>2, <2>3 DEF Executor!Init, Ranges, OutputMap
<1>2. IInv /\ [Next]_vars => [Executor!Next]_(Executor!vars)
    BY StepImplements
<1>3. QED
    BY <1>1, <1>2, Invariance, PTL DEF Spec, ImplementsExecutor, Executor!Spec
=============================================================================
