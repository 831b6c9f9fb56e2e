--------------------------- MODULE PipelineProofs ---------------------------
(***************************************************************************)
(* Theorems about Pipeline, for any files, any capacity of the error       *)
(* channels and any number of streams and Closes.                          *)
(***************************************************************************)
EXTENDS Pipeline, FileAdapterProofs, FiniteSetTheorems

-----------------------------------------------------------------------------
(* The pipeline contains the adapter.                                      *)

LEMMA AdapterInside == [Next]_vars => [ANext]_avars
<1> SUFFICES ASSUME [Next]_vars PROVE [ANext]_avars
  OBVIOUS
<1>1. ASSUME NEW s \in Streams, Start(s) \/ Receive(s) \/ Relay(s) \/ Discard(s) \/ ForwardRest(s)
      PROVE  ANext
  BY <1>1 DEF Start, Receive, Relay, Discard, ForwardRest, Forward, ANext
<1>2. ASSUME NEW s \in Streams, \/ SrcClosed(s) \/ Abandon(s) \/ ErrsDrained(s)
                                \/ CloseErrOut(s) \/ CloseOut(s) \/ Deliver(s)
                                \/ ReadErr(s) \/ Walk(s)
      PROVE  UNCHANGED avars
  BY <1>2 DEF SrcClosed, Abandon, ErrsDrained, CloseErrOut, CloseOut, Deliver, ReadErr, Walk
<1>3. ASSUME NEW s \in Streams, Alone(s) PROVE ANext
  BY <1>3 DEF Alone, ANext
<1>4. ASSUME NEW c \in Closers, Closing(c) PROVE ANext
  BY <1>4 DEF Closing, ANext
<1>5. CASE UNCHANGED vars
  BY <1>5 DEF vars
<1>6. QED
  BY <1>1, <1>2, <1>3, <1>4, <1>5 DEF Next, Convert, Continue

LEMMA AdapterHolds == Spec => []AInv /\ [][ANext]_avars
<1>1. Init => AInit
  BY DEF Init
<1>2. QED
  BY <1>1, AdapterInside, AdapterInvariant, PTL DEF Spec, ASpec

\* What the converter reads of a stream implements OrderedStream too: the adapter
\* keeps that promise to a converter that stops reading, drains and returns.
THEOREM AdapterIsOrdered == Spec => ImplementsOrderedStream
<1>1. Init => AInit
  BY DEF Init
<1>2. QED
  BY <1>1, AdapterInside, StreamsAreOrdered, PTL DEF Spec, ASpec

-----------------------------------------------------------------------------
(* Types, and what one step may do to one stream.                          *)

ConverterSteps == {"unborn", "select", "offer", "drain", "forward", "closeErrOut",
                   "closeOut", "ended"}

PTypes ==
  /\ vpc \in [Streams -> ConverterSteps]
  /\ held \in [Streams -> 0..Len(Lines)]
  /\ errOut \in [Streams -> Seq(0..Len(Lines))]
  /\ \A s \in Streams : Len(errOut[s]) <= ErrCap
  /\ seen \in [Streams -> Seq(1..Len(Lines))]
  /\ seenErrs \in [Streams -> Seq(0..Len(Lines))]
  /\ late \in [Streams -> Nat]
  /\ gone \in [Streams -> BOOLEAN]
  /\ \A s \in Streams : vpc[s] = "offer" => held[s] \in 1..Len(Lines)

LEMMA PInit == Init => PTypes
<1> SUFFICES ASSUME Init PROVE PTypes
  OBVIOUS
<1>1. Len(Lines) \in Nat /\ ErrCap \in Nat
  BY LinesSeq, StreamsAssumption DEF Init, AInit
<1>2. QED
  BY <1>1 DEF Init, PTypes, ConverterSteps

\* Forward moves the first error, or drops it.
LEMMA ForwardType ==
  ASSUME AInv, PTypes, NEW s \in Streams, Forward(s)
  PROVE  /\ errOut' \in [Streams -> Seq(0..Len(Lines))]
         /\ \A t \in Streams : Len(errOut'[t]) <= ErrCap
<1> DEFINE e == Head(errs[s])
           q == IF Len(errOut[s]) < ErrCap THEN Append(errOut[s], e) ELSE errOut[s]
<1>1. errs[s] \in Seq(0..Len(Lines)) /\ errs[s] # <<>> /\ ErrCap \in Nat
  BY StreamsAssumption DEF AInv, TInv, ATypeOK, Forward, TakeErr
<1>2. e \in 0..Len(Lines)
  BY <1>1, TailFacts
<1>3. /\ errOut \in [Streams -> Seq(0..Len(Lines))]
      /\ \A t \in Streams : Len(errOut[t]) <= ErrCap
  BY DEF PTypes
<1>4. errOut' = [errOut EXCEPT ![s] = q]
  BY DEF Forward
<1>5. Len(errOut[s]) \in Nat /\ Append(errOut[s], e) \in Seq(0..Len(Lines))
      /\ Len(Append(errOut[s], e)) = Len(errOut[s]) + 1
  BY <1>2, <1>3, AppendFacts
<1> HIDE DEF e
<1>6. q \in Seq(0..Len(Lines)) /\ Len(q) <= ErrCap
  <2>1. CASE Len(errOut[s]) < ErrCap
    BY <1>1, <1>5, <2>1
  <2>2. CASE ~(Len(errOut[s]) < ErrCap)
    BY <1>3, <2>2
  <2>3. QED
    BY <2>1, <2>2
<1> HIDE DEF q
<1>7. QED
  BY <1>3, <1>4, <1>6

LEMMA PNext == AInv /\ PTypes /\ [Next]_vars => PTypes'
<1> SUFFICES ASSUME AInv, PTypes, [Next]_vars PROVE PTypes'
  OBVIOUS
<1> USE DEF VGoto, converterVars, consumerVars
<1>l. Lines' = Lines /\ Len(Lines) \in Nat
  <2>1. file' = file
    BY AdapterInside DEF ANext, avars, Stream, Adapter, Open, Scan, Line, GiveUp, CloseErrs,
       CloseEx, CancelSub, Give, TakeErr, CancelCtx, Propagate, Close, Closer, ReadStop,
       CallStop, CloseWaited
  <2>2. QED
    BY <2>1, SameLines, LinesSeq DEF AInv, TInv, ATypeOK
<1>s. ASSUME UNCHANGED <<converterVars, consumerVars>> PROVE PTypes'
  BY <1>l, <1>s DEF PTypes
<1>1. ASSUME NEW s \in Streams, Start(s) \/ SrcClosed(s) \/ Abandon(s) \/ ErrsDrained(s)
                                \/ CloseErrOut(s) \/ CloseOut(s)
      PROVE  PTypes'
  <2>1. PICK v \in ConverterSteps \ {"offer"} :
          /\ vpc' = [vpc EXCEPT ![s] = v]
          /\ held' = held \/ held' = [held EXCEPT ![s] = 0]
          /\ UNCHANGED <<errOut, seen, seenErrs, late, gone>>
    BY <1>1 DEF Start, SrcClosed, Abandon, ErrsDrained, CloseErrOut, CloseOut, ConverterSteps
  <2>2. vpc' \in [Streams -> ConverterSteps] /\ held' \in [Streams -> 0..Len(Lines)]
    <3>1. vpc' \in [Streams -> ConverterSteps]
      BY <2>1 DEF PTypes
    <3>2. held' \in [Streams -> 0..Len(Lines)]
      <4>1. held \in [Streams -> 0..Len(Lines)] /\ 0 \in 0..Len(Lines)
        BY <1>l DEF PTypes
      <4>2. held' = held \/ held' = [held EXCEPT ![s] = 0]
        BY <2>1
      <4>3. QED
        BY <4>1, <4>2
    <3>3. QED
      BY <3>1, <3>2
  <2>3. \A t \in Streams : vpc'[t] = "offer" => held'[t] \in 1..Len(Lines)
    BY <2>1 DEF PTypes
  <2>4. QED
    BY <1>l, <2>1, <2>2, <2>3 DEF PTypes
<1>2. ASSUME NEW s \in Streams, Receive(s) PROVE PTypes'
  <2>1. pos[s] \in 1..Len(Lines)
    BY <1>2, WantedFacts DEF Receive, Give, AInv
  <2>2. /\ held' = [held EXCEPT ![s] = pos[s]] /\ vpc' = [vpc EXCEPT ![s] = "offer"]
        /\ UNCHANGED <<errOut, seen, seenErrs, late, gone>>
    BY <1>2 DEF Receive
  <2>3. /\ held' \in [Streams -> 0..Len(Lines)] /\ vpc' \in [Streams -> ConverterSteps]
        /\ \A t \in Streams : vpc'[t] = "offer" => held'[t] \in 1..Len(Lines)
    BY <1>l, <2>1, <2>2 DEF PTypes, ConverterSteps
  <2>4. QED
    BY <1>l, <2>2, <2>3 DEF PTypes
<1>3. ASSUME NEW s \in Streams, Relay(s) \/ ForwardRest(s) PROVE PTypes'
  <2>1. Forward(s) /\ UNCHANGED <<vpc, held, consumerVars>>
    BY <1>3 DEF Relay, ForwardRest
  <2>2. QED
    BY <1>l, <2>1, ForwardType DEF PTypes
<1>4. ASSUME NEW s \in Streams, Discard(s) PROVE PTypes'
  BY <1>4, <1>s DEF Discard
<1>5. ASSUME NEW s \in Streams, Deliver(s) PROVE PTypes'
  <2>1. seen' \in [Streams -> Seq(1..Len(Lines))]
    <3>1. held[s] \in 1..Len(Lines) /\ seen[s] \in Seq(1..Len(Lines))
      BY <1>5 DEF Deliver, PTypes
    <3>2. QED
      BY <1>5, <3>1, AppendFacts DEF Deliver, PTypes
  <2>2. /\ late' = [late EXCEPT ![s] = IF subDone[s] THEN late[s] + 1 ELSE late[s]]
        /\ held' = [held EXCEPT ![s] = 0] /\ vpc' = [vpc EXCEPT ![s] = "select"]
        /\ UNCHANGED <<errOut, seenErrs, gone>>
    BY <1>5 DEF Deliver
  <2>3. late' \in [Streams -> Nat]
    BY <2>2 DEF PTypes
  <2>4. QED
    BY <1>l, <2>1, <2>2, <2>3 DEF PTypes, ConverterSteps
<1>6. ASSUME NEW s \in Streams, ReadErr(s) PROVE PTypes'
  <2>1. /\ errOut[s] \in Seq(0..Len(Lines)) /\ errOut[s] # <<>> /\ Len(errOut[s]) <= ErrCap
        /\ seenErrs[s] \in Seq(0..Len(Lines)) /\ ErrCap \in Nat
    BY <1>6, StreamsAssumption DEF ReadErr, PTypes
  <2>2. /\ Head(errOut[s]) \in 0..Len(Lines) /\ Tail(errOut[s]) \in Seq(0..Len(Lines))
        /\ Len(Tail(errOut[s])) <= ErrCap
    <3>1. Len(errOut[s]) \in Nat /\ Len(Tail(errOut[s])) = Len(errOut[s]) - 1
      BY <2>1, TailFacts
    <3>2. Len(errOut[s]) <= ErrCap /\ ErrCap \in Nat
      BY <2>1
    <3>3. Len(Tail(errOut[s])) <= ErrCap
      BY <3>1, <3>2
    <3>4. Head(errOut[s]) \in 0..Len(Lines) /\ Tail(errOut[s]) \in Seq(0..Len(Lines))
      BY <2>1, TailFacts
    <3>5. QED
      BY <3>3, <3>4
  <2>3. Append(seenErrs[s], Head(errOut[s])) \in Seq(0..Len(Lines))
    BY <2>1, <2>2, AppendFacts
  <2>4. /\ errOut' \in [Streams -> Seq(0..Len(Lines))]
        /\ \A t \in Streams : Len(errOut'[t]) <= ErrCap
        /\ seenErrs' \in [Streams -> Seq(0..Len(Lines))]
    BY <1>6, <2>2, <2>3 DEF ReadErr, PTypes
  <2>5. QED
    BY <1>6, <1>l, <2>4 DEF ReadErr, PTypes
<1>7. ASSUME NEW s \in Streams, Walk(s) PROVE PTypes'
  BY <1>7, <1>l DEF Walk, PTypes
<1>8. ASSUME NEW s \in Streams, Alone(s) PROVE PTypes'
  BY <1>8, <1>s DEF Alone
<1>9. ASSUME NEW c \in Closers, Closing(c) PROVE PTypes'
  BY <1>9, <1>s DEF Closing
<1>10. QED
  BY <1>s, <1>1, <1>2, <1>3, <1>4, <1>5, <1>6, <1>7, <1>8, <1>9 DEF Next, Convert, Continue, vars

PInv == AInv /\ PTypes

LEMMA PipelineTyped == Spec => []PInv
<1>1. Init => PInv
  BY PInit, TInit, OInit DEF PInv, AInv, Init
<1>2. PInv /\ [Next]_vars => PInv'
  BY PNext, TNext, ONextStep, AdapterInside DEF PInv, AInv
<1>3. QED
  BY <1>1, <1>2, PTL DEF Spec

\* Every variable of the pipeline stays in its type, and both error channels
\* within their capacity.
THEOREM PipelineTypeCorrect == Spec => []TypeOK
<1>1. PInv => TypeOK
  BY DEF PInv, AInv, TInv, PTypes, ConverterSteps, TypeOK
<1>2. QED
  BY <1>1, PipelineTyped, PTL

-----------------------------------------------------------------------------
(* The converter: exchanges, draining, cancellation.                       *)

Last == {"closeErrOut", "closeOut", "ended"}

\* seen[s] is given[s], but for the line the converter holds; it leaves its
\* loop when ex is closed or after a cancellation.
ConverterInv(s) ==
  /\ vpc[s] = "unborn" <=> apc[s] = "unborn"
  /\ vpc[s] = "drain" => ctxDone[s]
  /\ vpc[s] = "forward" => ExClosed(s)
  /\ vpc[s] \in Last => ErrsClosed(s) /\ errs[s] = <<>>
  /\ vpc[s] \in {"unborn", "select", "forward"} => seen[s] = given[s]
  /\ vpc[s] = "offer" => given[s] = Append(seen[s], held[s])
  /\ vpc[s] \in Last => ctxDone[s] \/ (ExClosed(s) /\ seen[s] = given[s])

\* Once the context is done: a line the converter holds may still be late, and
\* one the adapter has already scanned.
Coming(s) ==
  (IF vpc[s] = "offer" THEN 1 ELSE 0) + (IF apc[s] \in {"line", "send"} THEN 1 ELSE 0)

LateInv(s) ==
  /\ vpc[s] = "unborn" => late[s] = 0
  /\ ~subDone[s] => late[s] = 0
  /\ late[s] + Coming(s) <= 2

SInv(s) == ConverterInv(s) /\ LateInv(s)

SeenStep(s) == [Seen(s)!ONext]_(Seen(s)!ovars)

\* What any step does to a stream whose converter it is not.
Quiet(s) ==
  /\ file' = file /\ topics' = topics
  /\ given'[s] = given[s]
  /\ apc[s] = "unborn" <=> apc'[s] = "unborn"
  /\ apc'[s] \in {"line", "send"} => apc[s] \in {"line", "send"} \/ ~subDone[s]
  /\ ErrsClosed(s) => ErrsClosed(s)'
  /\ ExClosed(s) => ExClosed(s)'
  /\ ErrsClosed(s) /\ errs[s] = <<>> => errs'[s] = <<>>
  /\ ctxDone[s] => ctxDone'[s]
  /\ stopped[s] => stopped'[s]
  /\ subDone[s] => subDone'[s]

LEMMA AdapterIsQuiet ==
  ASSUME AInv, NEW s \in Streams,
         \/ UNCHANGED avars
         \/ \E r \in Streams : \/ r # s /\ (Stream(r) \/ Give(r))
                             \/ Adapter(r) \/ TakeErr(r) \/ CancelCtx(r) \/ Propagate(r)
         \/ \E c \in Closers : Close(c) \/ Closer(c)
  PROVE  Quiet(s)
<1> USE DEF AGoto, adapterVars, ErrsClosed, ExClosed
<1>t. /\ apc \in [Streams -> {"unborn", "open", "scan", "line", "send", "closeErrs",
                              "closeEx", "cancel", "ended"}]
      /\ DOMAIN given = Streams /\ DOMAIN errs = Streams
      /\ DOMAIN subDone = Streams /\ DOMAIN ctxDone = Streams
  BY DEF AInv, TInv, ATypeOK
<1>1. CASE UNCHANGED avars
  BY <1>1 DEF avars, Quiet
<1>2. ASSUME NEW r \in Streams, r # s, Stream(r) \/ Give(r) PROVE Quiet(s)
  BY <1>t, <1>2 DEF Stream, Give, NextLine, Quiet
<1>3. ASSUME NEW r \in Streams, Open(r) PROVE Quiet(s)
  BY <1>t, <1>3 DEF Open, SendErr, Quiet
<1>4. ASSUME NEW r \in Streams, Scan(r) PROVE Quiet(s)
  BY <1>t, <1>4 DEF Scan, SendErr, Quiet
<1>5. ASSUME NEW r \in Streams, Line(r) PROVE Quiet(s)
  BY <1>t, <1>5 DEF Line, NextLine, SendErr, Quiet
<1>6. ASSUME NEW r \in Streams, GiveUp(r) \/ CloseErrs(r) \/ CloseEx(r) \/ CancelSub(r)
      PROVE  Quiet(s)
  BY <1>t, <1>6 DEF GiveUp, CloseErrs, CloseEx, CancelSub, Quiet
<1>7. ASSUME NEW r \in Streams, TakeErr(r) \/ CancelCtx(r) \/ Propagate(r) PROVE Quiet(s)
  BY <1>t, <1>7 DEF TakeErr, CancelCtx, Propagate, Quiet
<1>8. ASSUME NEW c \in Closers, Close(c) \/ ReadStop(c) \/ CallStop(c) \/ CloseWaited(c)
      PROVE  Quiet(s)
  BY <1>t, <1>8 DEF Close, ReadStop, CallStop, CloseWaited, Quiet
<1>9. QED
  BY <1>1, <1>2, <1>3, <1>4, <1>5, <1>6, <1>7, <1>8 DEF Adapter, Closer

\* Such a step keeps what is known of the stream.
LEMMA QuietKeeps ==
  ASSUME PInv, PInv', NEW s \in Streams, SInv(s), Quiet(s),
         vpc'[s] = vpc[s], held'[s] = held[s], seen'[s] = seen[s], late'[s] = late[s]
  PROVE  SInv(s)' /\ SeenStep(s)
<1>1. ConverterInv(s)'
  BY DEF SInv, ConverterInv, Quiet
<1>2. LateInv(s)'
  BY DEF SInv, LateInv, Coming, Quiet, PInv, PTypes
<1>3. Wanted(s)' = Wanted(s)
  BY SameWanted DEF Quiet
<1>4. /\ (ctxDone[s] \/ stopped[s]) \in BOOLEAN /\ (ctxDone[s] \/ stopped[s])' \in BOOLEAN
      /\ (ctxDone[s] \/ stopped[s]) => (ctxDone[s] \/ stopped[s])'
  BY DEF Quiet, PInv, AInv, TInv, ATypeOK
<1>5. SeenStep(s)
  BY <1>3, <1>4 DEF SeenStep, Seen!ONext, Seen!ovars, Seen!CancelStream
<1>6. QED
  BY <1>1, <1>2, <1>5 DEF SInv

\* The line the converter holds is the first the consumer has not seen.
LEMMA DeliverStep ==
  ASSUME PInv, PInv', NEW s \in Streams, SInv(s), Deliver(s)
  PROVE  SInv(s)' /\ SeenStep(s)
<1>1. /\ vpc[s] = "offer" /\ vpc'[s] = "select" /\ given'[s] = seen'[s]
      /\ seen'[s] = Append(seen[s], held[s])
      /\ late'[s] = (IF subDone[s] THEN late[s] + 1 ELSE late[s])
      /\ UNCHANGED avars
  BY DEF Deliver, VGoto, PInv, PTypes, SInv, ConverterInv, avars, adapterVars
<1>2. UNCHANGED <<file, topics, ctxDone, subDone, stopped, apc, given, errs>>
  BY <1>1 DEF avars, adapterVars
<1>3. ConverterInv(s)'
  BY <1>1, <1>2 DEF SInv, ConverterInv, ErrsClosed, ExClosed, Last
<1>4. LateInv(s)'
  BY <1>1, <1>2 DEF SInv, LateInv, Coming, PInv, PTypes
<1>5. Wanted(s)' = Wanted(s) /\ Wanted(s) \subseteq Nat
  BY <1>2, SameWanted, WantedFacts DEF PInv, AInv
<1>6. /\ seen[s] \in Seq(1..Len(Lines)) /\ held[s] \in 1..Len(Lines)
      /\ given[s] = Append(seen[s], held[s])
  BY <1>1 DEF PInv, PTypes, SInv, ConverterInv
<1>7. /\ Len(seen[s]) \in Nat /\ DOMAIN seen[s] = 1..Len(seen[s])
      /\ DOMAIN given[s] = 1..(Len(seen[s]) + 1)
      /\ \A i \in 1..Len(seen[s]) : given[s][i] = seen[s][i]
      /\ given[s][Len(seen[s]) + 1] = held[s]
  BY <1>6, AppendFacts
<1>8. held[s] \in Wanted(s) /\ held[s] < pos[s] /\ \A i \in 1..Len(seen[s]) : seen[s][i] < held[s]
  <2>1. OInv(s)
    BY DEF PInv, AInv
  <2>2. QED
    BY <1>7, <2>1 DEF OInv
<1>9. held[s] \in Seen(s)!Pending
  BY <1>5, <1>7, <1>8 DEF Seen!Pending
<1>10. ASSUME NEW k \in Seen(s)!Pending PROVE held[s] <= k
  <2>1. k \in Wanted(s) /\ \A i \in 1..Len(seen[s]) : seen[s][i] # k
    BY <1>7 DEF Seen!Pending
  <2>2. CASE k < pos[s]
    <3>1. PICK i \in DOMAIN given[s] : given[s][i] = k
      BY <2>1, <2>2 DEF PInv, AInv, OInv
    <3>2. i = Len(seen[s]) + 1
      BY <1>7, <2>1, <3>1
    <3>3. QED
      BY <1>5, <1>7, <1>8, <3>1, <3>2
  <2>3. CASE ~(k < pos[s])
    BY <1>5, <1>8, <2>1, <2>3 DEF PInv, AInv, TInv, ATypeOK
  <2>4. QED
    BY <2>2, <2>3
<1>11. SeenStep(s)
  <2>1. (vpc[s] = "ended") = FALSE /\ (vpc'[s] = "ended") = FALSE
    BY <1>1
  <2>2. Seen(s)!Deliver
    BY <1>1, <1>2, <1>5, <1>9, <1>10, <2>1 DEF Seen!Deliver
  <2>3. QED
    BY <2>2 DEF SeenStep, Seen!ONext
<1>12. QED
  BY <1>3, <1>4, <1>11 DEF SInv

\* The other steps of the converter.
LEMMA ConverterStep ==
  ASSUME PInv, PInv', NEW s \in Streams, SInv(s),
         \/ Start(s) \/ Receive(s) \/ SrcClosed(s) \/ Abandon(s)
         \/ ErrsDrained(s) \/ CloseErrOut(s) \/ CloseOut(s)
  PROVE  SInv(s)' /\ SeenStep(s)
<1> USE DEF VGoto, Last
<1>t. /\ vpc \in [Streams -> ConverterSteps] /\ late \in [Streams -> Nat]
      /\ DOMAIN apc = Streams /\ DOMAIN held = Streams /\ DOMAIN given = Streams
      /\ seen'[s] = seen[s] /\ late'[s] = late[s]
      /\ UNCHANGED <<file, topics, ctxDone, stopped>>
  BY DEF Start, Receive, SrcClosed, Abandon, ErrsDrained, CloseErrOut, CloseOut, Stream, Give,
         PInv, PTypes, AInv, TInv, ATypeOK, avars, consumerVars
<1>w. /\ Wanted(s)' = Wanted(s)
      /\ (ctxDone[s] \/ stopped[s])' = (ctxDone[s] \/ stopped[s])
  BY <1>t, SameWanted
\* A step that does not close out is a stutter of the ordered stream.
<1>q. ASSUME (vpc'[s] = "ended") = (vpc[s] = "ended") PROVE SeenStep(s)
  BY <1>q, <1>t, <1>w DEF SeenStep, Seen!ovars
<1>1. CASE Start(s)
  <2>1. /\ apc[s] = "unborn" /\ apc'[s] = "open" /\ vpc'[s] = "select" /\ given'[s] = given[s]
        /\ subDone'[s] = ctxDone[s]
    BY <1>1, <1>t DEF Start, Stream, AGoto, PInv, AInv, TInv, ATypeOK
  <2>2. ConverterInv(s)' /\ LateInv(s)'
    BY <1>t, <2>1 DEF SInv, ConverterInv, LateInv, Coming, ErrsClosed, ExClosed
  <2>3. QED
    BY <1>q, <2>1, <2>2 DEF SInv, ConverterInv
<1>2. CASE Receive(s)
  <2>1. /\ apc[s] = "send" /\ apc'[s] = "scan" /\ vpc[s] = "select" /\ vpc'[s] = "offer"
        /\ given'[s] = Append(given[s], pos[s]) /\ held'[s] = pos[s]
        /\ subDone' = subDone /\ errs' = errs
    BY <1>2, <1>t DEF Receive, Give, NextLine, AGoto
  <2>2. ConverterInv(s)' /\ LateInv(s)'
    BY <1>t, <2>1 DEF SInv, ConverterInv, LateInv, Coming, ErrsClosed, ExClosed
  <2>3. QED
    BY <1>q, <2>1, <2>2 DEF SInv
<1>3. CASE SrcClosed(s)
  <2>1. /\ vpc[s] = "select" /\ vpc'[s] = "forward" /\ ExClosed(s)
        /\ UNCHANGED <<apc, subDone, given, errs>>
    BY <1>3, <1>t DEF SrcClosed, avars, adapterVars
  <2>2. ConverterInv(s)' /\ LateInv(s)'
    BY <1>t, <2>1 DEF SInv, ConverterInv, LateInv, Coming, ErrsClosed, ExClosed
  <2>3. QED
    BY <1>q, <2>1, <2>2 DEF SInv
<1>4. CASE Abandon(s)
  <2>1. /\ vpc[s] \in {"select", "offer"} /\ vpc'[s] = "drain" /\ ctxDone[s]
        /\ UNCHANGED <<apc, subDone, given, errs>>
    BY <1>4, <1>t DEF Abandon, avars, adapterVars
  <2>2. ConverterInv(s)' /\ LateInv(s)'
    BY <1>t, <2>1 DEF SInv, ConverterInv, LateInv, Coming, ErrsClosed, ExClosed
  <2>3. QED
    BY <1>q, <2>1, <2>2 DEF SInv
<1>5. CASE ErrsDrained(s)
  <2>1. /\ vpc[s] \in {"drain", "forward"} /\ vpc'[s] = "closeErrOut"
        /\ errs[s] = <<>> /\ ErrsClosed(s)
        /\ UNCHANGED <<apc, subDone, given, errs>>
    BY <1>5, <1>t DEF ErrsDrained, avars, adapterVars
  <2>2. ConverterInv(s)' /\ LateInv(s)'
    <3>1. ctxDone[s] \/ (ExClosed(s) /\ seen[s] = given[s])
      <4>1. CASE vpc[s] = "drain"
        BY <4>1 DEF SInv, ConverterInv
      <4>2. CASE vpc[s] = "forward"
        BY <4>2 DEF SInv, ConverterInv
      <4>3. QED
        BY <2>1, <4>1, <4>2
    <3>2. ConverterInv(s)'
      BY <1>t, <2>1, <3>1 DEF SInv, ConverterInv, ErrsClosed, ExClosed
    <3>3. LateInv(s)'
      BY <1>t, <2>1 DEF SInv, LateInv, Coming
    <3>4. QED
      BY <3>2, <3>3
  <2>3. QED
    BY <1>q, <2>1, <2>2 DEF SInv
<1>6. CASE CloseErrOut(s)
  <2>1. /\ vpc[s] = "closeErrOut" /\ vpc'[s] = "closeOut"
        /\ UNCHANGED <<apc, subDone, given, errs>>
    BY <1>6, <1>t DEF CloseErrOut, avars, adapterVars
  <2>2. ConverterInv(s)' /\ LateInv(s)'
    BY <1>t, <2>1 DEF SInv, ConverterInv, LateInv, Coming, ErrsClosed, ExClosed
  <2>3. QED
    BY <1>q, <2>1, <2>2 DEF SInv
<1>7. CASE CloseOut(s)
  <2>1. /\ vpc[s] = "closeOut" /\ vpc'[s] = "ended"
        /\ UNCHANGED <<apc, subDone, given, errs>>
    BY <1>7, <1>t DEF CloseOut, avars, adapterVars
  <2>2. ConverterInv(s)' /\ LateInv(s)'
    BY <1>t, <2>1 DEF SInv, ConverterInv, LateInv, Coming, ErrsClosed, ExClosed
  <2>3. ctxDone[s] \/ stopped[s] \/ Seen(s)!Pending = {}
    <3>1. ASSUME ExClosed(s), seen[s] = given[s], ~ctxDone[s], ~stopped[s]
          PROVE  Seen(s)!Pending = {}
      <4>1. OInv(s)
        BY DEF PInv, AInv
      <4>2. QED
        BY <3>1, <4>1 DEF OInv, ExClosed, Seen!Pending
    <3>2. QED
      BY <2>1, <3>1 DEF SInv, ConverterInv
  <2>4. Seen(s)!CloseChannel
    BY <1>t, <1>w, <2>1, <2>3 DEF Seen!CloseChannel
  <2>5. QED
    BY <2>2, <2>4 DEF SInv, SeenStep, Seen!ONext
<1>8. QED
  BY <1>1, <1>2, <1>3, <1>4, <1>5, <1>6, <1>7

LEMMA PipelineStep ==
  PInv /\ PInv' /\ (\A s \in Streams : SInv(s)) /\ [Next]_vars
    => \A s \in Streams : SInv(s)' /\ SeenStep(s)
<1> SUFFICES ASSUME PInv, PInv', \A r \in Streams : SInv(r), [Next]_vars, NEW s \in Streams
             PROVE  SInv(s)' /\ SeenStep(s)
  OBVIOUS
<1> USE DEF VGoto, converterVars, consumerVars
<1>i. SInv(s) /\ AInv
  BY DEF PInv
<1>t. /\ DOMAIN vpc = Streams /\ DOMAIN held = Streams
      /\ DOMAIN seen = Streams /\ DOMAIN late = Streams
  BY DEF PInv, PTypes
<1>1. CASE UNCHANGED vars
  <2>1. Quiet(s)
    BY <1>1, <1>i, AdapterIsQuiet DEF vars
  <2>2. QED
    BY <1>1, <1>i, <2>1, QuietKeeps DEF vars
<1>2. ASSUME NEW r \in Streams,
             \/ Start(r) \/ Receive(r) \/ SrcClosed(r) \/ Abandon(r)
             \/ ErrsDrained(r) \/ CloseErrOut(r) \/ CloseOut(r) \/ Deliver(r)
      PROVE  SInv(s)' /\ SeenStep(s)
  <2>1. CASE r = s
    BY <1>2, <1>i, <2>1, ConverterStep, DeliverStep
  <2>2. CASE r # s
    <3>1. Quiet(s)
      BY <1>2, <1>i, <2>2, AdapterIsQuiet
         DEF Start, Receive, SrcClosed, Abandon, ErrsDrained, CloseErrOut, CloseOut, Deliver
    <3>2. vpc'[s] = vpc[s] /\ held'[s] = held[s] /\ seen'[s] = seen[s] /\ late'[s] = late[s]
      BY <1>2, <1>t, <2>2
         DEF Start, Receive, SrcClosed, Abandon, ErrsDrained, CloseErrOut, CloseOut, Deliver
    <3>3. QED
      BY <1>i, <3>1, <3>2, QuietKeeps
  <2>3. QED
    BY <2>1, <2>2
<1>3. ASSUME NEW r \in Streams, \/ Relay(r) \/ Discard(r) \/ ForwardRest(r)
                                \/ ReadErr(r) \/ Walk(r) \/ Alone(r)
      PROVE  SInv(s)' /\ SeenStep(s)
  <2>1. Quiet(s)
    BY <1>3, <1>i, AdapterIsQuiet DEF Relay, Discard, ForwardRest, Forward, ReadErr, Walk, Alone
  <2>2. UNCHANGED <<vpc, held, seen, late>>
    BY <1>3 DEF Relay, Discard, ForwardRest, ReadErr, Walk, Alone
  <2>3. QED
    BY <1>i, <2>1, <2>2, QuietKeeps
<1>4. ASSUME NEW c \in Closers, Closing(c) PROVE SInv(s)' /\ SeenStep(s)
  <2>1. Quiet(s)
    BY <1>4, <1>i, AdapterIsQuiet DEF Closing
  <2>2. UNCHANGED <<vpc, held, seen, late>>
    BY <1>4 DEF Closing
  <2>3. QED
    BY <1>i, <2>1, <2>2, QuietKeeps
<1>5. QED
  BY <1>1, <1>2, <1>3, <1>4 DEF Next, Convert, Continue

LEMMA SInit == Init => \A s \in Streams : SInv(s)
BY DEF Init, AInit, SInv, ConverterInv, LateInv, Coming, Last

LEMMA PipelineInvariant == Spec => []\A s \in Streams : SInv(s)
<1>1. PInv /\ PInv' /\ (\A s \in Streams : SInv(s)) /\ [Next]_vars
        => (\A s \in Streams : SInv(s))'
  BY PipelineStep
<1>2. QED
  BY <1>1, SInit, PipelineTyped, PTL DEF Spec

\* The consumer of any stream sees the ordered stream of the file.
THEOREM OutIsOrdered == Spec => OutIsOrderedStream
<1>1. Init => \A s \in Streams : Seen(s)!OInit
  BY DEF Init, Seen!OInit
<1>2. PInv /\ PInv' /\ (\A s \in Streams : SInv(s)) /\ [Next]_vars
        => [\A s \in Streams : SeenStep(s)]_vars
  BY PipelineStep
<1>3. QED
  BY <1>1, <1>2, PipelineTyped, PipelineInvariant, PTL DEF Spec, OutIsOrderedStream, SeenStep

\* However the goroutines interleave, the converter leaves no error behind it
\* in the channel of the adapter.
THEOREM Drained == Spec => []DrainedBeforeReturn
<1>1. (\A s \in Streams : SInv(s)) => DrainedBeforeReturn
  BY DEF SInv, ConverterInv, Last, DrainedBeforeReturn
<1>2. QED
  BY <1>1, PipelineInvariant, PTL

\* Of a stream of any length at most two exchanges arrive after its context is
\* done.
THEOREM FewAreLate == Spec => []AtMostTwoLate
<1>1. ASSUME PInv, NEW s \in Streams, SInv(s) PROVE late[s] <= 2
  <2>1. late[s] \in Nat /\ Coming(s) \in {0, 1, 2}
    BY <1>1 DEF PInv, PTypes, Coming
  <2>2. QED
    BY <1>1, <2>1 DEF SInv, LateInv
<1>2. PInv /\ (\A s \in Streams : SInv(s)) => AtMostTwoLate
  BY <1>1 DEF AtMostTwoLate
<1>3. QED
  BY <1>2, PipelineTyped, PipelineInvariant, PTL

-----------------------------------------------------------------------------
(* Rising sequences of line numbers.                                       *)

Rising(q) == \A i, j \in DOMAIN q : i < j => q[i] < q[j]

Below(p, q) == \A x \in Range(p), y \in Range(q) : x < y

\* Errors received, then those in errOut, then those in errs.
Chain(p, q, r) ==
  /\ Rising(p) /\ Rising(q) /\ Rising(r)
  /\ Below(p, q) /\ Below(p, r) /\ Below(q, r)

LEMMA AppendRange ==
  ASSUME NEW q \in Seq(Nat), NEW e \in Nat
  PROVE  /\ Append(q, e) \in Seq(Nat)
         /\ Range(Append(q, e)) = Range(q) \cup {e}
         /\ Rising(q) /\ (\A x \in Range(q) : x < e) => Rising(Append(q, e))
<1>1. /\ Len(q) \in Nat /\ Append(q, e) \in Seq(Nat)
      /\ DOMAIN q = 1..Len(q) /\ DOMAIN Append(q, e) = 1..(Len(q) + 1)
      /\ \A i \in 1..Len(q) : Append(q, e)[i] = q[i]
      /\ Append(q, e)[Len(q) + 1] = e
  BY AppendFacts
<1>2. \A i \in 1..(Len(q) + 1) : i \in 1..Len(q) \/ i = Len(q) + 1
  BY <1>1
<1>3. Range(Append(q, e)) = Range(q) \cup {e}
  BY <1>1, <1>2 DEF Range
<1>4. ASSUME Rising(q), \A x \in Range(q) : x < e PROVE Rising(Append(q, e))
  BY <1>1, <1>2, <1>4 DEF Rising, Range
<1>5. QED
  BY <1>1, <1>3, <1>4

LEMMA TailRange ==
  ASSUME NEW q \in Seq(Nat), q # <<>>
  PROVE  /\ Head(q) \in Nat /\ Tail(q) \in Seq(Nat)
         /\ Range(q) = {Head(q)} \cup Range(Tail(q))
         /\ Rising(q) => Rising(Tail(q)) /\ \A x \in Range(Tail(q)) : Head(q) < x
<1>1. /\ Head(q) \in Nat /\ Tail(q) \in Seq(Nat)
      /\ Len(q) \in Nat \ {0} /\ DOMAIN q = 1..Len(q) /\ DOMAIN Tail(q) = 1..(Len(q) - 1)
      /\ Head(q) = q[1]
      /\ \A i \in 1..(Len(q) - 1) : Tail(q)[i] = q[i + 1]
  BY TailFacts
<1>2. \A i \in 1..Len(q) : i = 1 \/ (i - 1 \in 1..(Len(q) - 1) /\ q[i] = Tail(q)[i - 1])
  BY <1>1
<1>3. \A i \in 1..(Len(q) - 1) : i + 1 \in 1..Len(q) /\ i + 1 > 1
  BY <1>1
<1>4. Range(q) = {Head(q)} \cup Range(Tail(q))
  <2>1. ASSUME NEW i \in 1..Len(q) PROVE q[i] \in {Head(q)} \cup Range(Tail(q))
    BY <1>1, <1>2 DEF Range
  <2>2. Head(q) \in Range(q)
    BY <1>1 DEF Range
  <2>3. ASSUME NEW i \in 1..(Len(q) - 1) PROVE Tail(q)[i] \in Range(q)
    BY <1>1, <1>3 DEF Range
  <2>4. QED
    BY <1>1, <2>1, <2>2, <2>3 DEF Range
<1>5. ASSUME Rising(q) PROVE Rising(Tail(q))
  BY <1>1, <1>3, <1>5 DEF Rising
<1>6. ASSUME Rising(q), NEW x \in Range(Tail(q)) PROVE Head(q) < x
  BY <1>1, <1>3, <1>6 DEF Rising, Range
<1>7. QED
  BY <1>1, <1>4, <1>5, <1>6

\* An error is sent, forwarded, dropped by the converter, or received.
LEMMA ChainSteps ==
  ASSUME NEW p \in Seq(Nat), NEW q \in Seq(Nat), NEW r \in Seq(Nat), Chain(p, q, r)
  PROVE  /\ \A e \in Nat : (\A x \in Range(p) \cup Range(q) \cup Range(r) : x < e)
              => Chain(p, q, Append(r, e))
         /\ r # <<>> => /\ Chain(p, Append(q, Head(r)), Tail(r))
                        /\ Chain(p, q, Tail(r))
         /\ q # <<>> => Chain(Append(p, Head(q)), Tail(q), r)
<1>1. ASSUME NEW e \in Nat, \A x \in Range(p) \cup Range(q) \cup Range(r) : x < e
      PROVE  Chain(p, q, Append(r, e))
  <2>1. Rising(Append(r, e)) /\ Range(Append(r, e)) = Range(r) \cup {e}
    BY <1>1, AppendRange DEF Chain
  <2>2. QED
    BY <1>1, <2>1 DEF Chain, Below
<1>2. ASSUME r # <<>>
      PROVE  Chain(p, Append(q, Head(r)), Tail(r)) /\ Chain(p, q, Tail(r))
  <2>1. /\ Head(r) \in Range(r) /\ Head(r) \in Nat
        /\ Range(Tail(r)) \subseteq Range(r) /\ Rising(Tail(r))
        /\ \A x \in Range(Tail(r)) : Head(r) < x
    BY <1>2, TailRange DEF Chain
  <2>2. Rising(Append(q, Head(r))) /\ Range(Append(q, Head(r))) = Range(q) \cup {Head(r)}
    BY <2>1, AppendRange DEF Chain, Below
  <2>3. QED
    BY <2>1, <2>2 DEF Chain, Below
<1>3. ASSUME q # <<>> PROVE Chain(Append(p, Head(q)), Tail(q), r)
  <2>1. /\ Head(q) \in Range(q) /\ Head(q) \in Nat
        /\ Range(Tail(q)) \subseteq Range(q) /\ Rising(Tail(q))
        /\ \A x \in Range(Tail(q)) : Head(q) < x
    BY <1>3, TailRange DEF Chain
  <2>2. Rising(Append(p, Head(q))) /\ Range(Append(p, Head(q))) = Range(p) \cup {Head(q)}
    BY <2>1, AppendRange DEF Chain, Below
  <2>3. QED
    BY <2>1, <2>2 DEF Chain, Below
<1>4. QED
  BY <1>1, <1>2, <1>3

\* A rising sequence is as long as its range is large.
LEMMA RisingLength ==
  ASSUME NEW q \in Seq(Nat), Rising(q)
  PROVE  /\ IsFiniteSet(Range(q)) /\ Cardinality(Range(q)) = Len(q) /\ Len(q) \in Nat
<1>1. Len(q) \in Nat /\ q \in [1..Len(q) -> Range(q)] /\ DOMAIN q = 1..Len(q)
  BY DEF Range
<1>2. q \in Surjection(1..Len(q), Range(q))
  BY <1>1 DEF Surjection, Range
<1>3. q \in Injection(1..Len(q), Range(q))
  <2>1. ASSUME NEW i \in 1..Len(q), NEW j \in 1..Len(q), q[i] = q[j] PROVE i = j
    <3>1. q[i] \in Nat
      BY <1>1
    <3>2. ~(i < j) /\ ~(j < i)
      BY <1>1, <2>1, <3>1 DEF Rising
    <3>3. QED
      BY <1>1, <3>2
  <2>2. QED
    BY <1>1, <2>1 DEF Injection, IsInjective
<1>4. ExistsBijection(1..Len(q), Range(q))
  BY <1>2, <1>3 DEF ExistsBijection, Bijection
<1>5. IsFiniteSet(Range(q))
  BY <1>1, <1>4, FS_NatBijection
<1>6. QED
  BY <1>1, <1>4, <1>5, FS_CountingElements

\* There is room for one more of S.
LEMMA Room ==
  ASSUME NEW S, IsFiniteSet(S), NEW q \in Seq(Nat), Rising(q), Range(q) \subseteq S,
         NEW e \in S, e \notin Range(q)
  PROVE  Len(q) < Cardinality(S)
<1>1. Cardinality(Range(q)) = Len(q) /\ Cardinality(Range(q)) <= Cardinality(S)
  BY RisingLength, FS_Subset
<1>2. Range(q) # S
  OBVIOUS
<1>3. Cardinality(Range(q)) # Cardinality(S)
  BY <1>2, FS_Subset
<1>4. QED
  BY <1>1, <1>3, RisingLength, FS_CardinalityType

-----------------------------------------------------------------------------
(* The errors of a stream.                                                 *)

Reported(s) == Range(seenErrs[s]) \cup Range(errOut[s]) \cup Range(errs[s])

Reading(s) == apc[s] \in {"scan", "line", "send"}

OrderInv(s) ==
  /\ Chain(seenErrs[s], errOut[s], errs[s])
  /\ Reported(s) \subseteq ErrorLines
  /\ apc[s] \in {"unborn", "open"} => Reported(s) = {}
  /\ Reading(s) => file # Missing /\ \A k \in Reported(s) : k < pos[s]

\* Without a cancellation and with room for all, what has been read and not
\* reported was no error.
Few == Cardinality(ErrorLines) <= ErrCap

FewInv(s) ==
  Few /\ ~ctxDone[s] /\ ~stopped[s] =>
    /\ Reading(s) => \A k \in ErrorLines : k < pos[s] => k \in Reported(s)
    /\ apc[s] \in {"closeErrs", "closeEx", "cancel", "ended"} => ErrorLines \subseteq Reported(s)

EInv(s) == OrderInv(s) /\ FewInv(s)

LEMMA ErrorLinesFacts ==
  ASSUME PInv
  PROVE  /\ ErrorLines \subseteq Nat /\ IsFiniteSet(ErrorLines)
         /\ Cardinality(ErrorLines) \in Nat
         /\ file # Missing => \A k \in ErrorLines :
              /\ k \in 1..Len(Lines) /\ Lines[k] \in {Bad, TooLong}
              /\ \A j \in 1..Len(Lines) : Lines[j] = TooLong => k <= j
<1>1. Len(Lines) \in Nat /\ DOMAIN Lines = 1..Len(Lines)
  BY LinesSeq DEF PInv, AInv, TInv, ATypeOK
<1>2. ErrorLines \subseteq 0..Len(Lines)
  BY <1>1 DEF ErrorLines
<1>3. IsFiniteSet(ErrorLines)
  <2>1. 0 \in Int /\ Len(Lines) \in Int
    BY <1>1
  <2>2. IsFiniteSet(0..Len(Lines))
    BY <2>1, FS_Interval
  <2>3. QED
    BY <1>2, <2>2, FS_Subset
<1>4. ASSUME file # Missing, NEW k \in ErrorLines
      PROVE  /\ k \in 1..Len(Lines) /\ Lines[k] \in {Bad, TooLong}
             /\ \A j \in 1..Len(Lines) : Lines[j] = TooLong => k <= j
  <2>1. /\ k \in 1..Len(Lines) /\ Lines[k] \in {Bad, TooLong}
        /\ \A j \in 1..(k - 1) : Lines[j] # TooLong
    BY <1>1, <1>4 DEF ErrorLines
  <2>2. ASSUME NEW j \in 1..Len(Lines), ~(k <= j) PROVE j \in 1..(k - 1)
    BY <1>1, <2>1, <2>2
  <2>3. QED
    BY <2>1, <2>2
<1>5. QED
  BY <1>1, <1>2, <1>3, <1>4, FS_CardinalityType

LEMMA ErrTypes ==
  ASSUME PInv, NEW s \in Streams
  PROVE  /\ seenErrs[s] \in Seq(Nat) /\ errOut[s] \in Seq(Nat) /\ errs[s] \in Seq(Nat)
         /\ DOMAIN seenErrs = Streams /\ DOMAIN errOut = Streams /\ DOMAIN errs = Streams
<1>1. /\ seenErrs[s] \in Seq(0..Len(Lines)) /\ errOut[s] \in Seq(0..Len(Lines))
      /\ errs[s] \in Seq(0..Len(Lines)) /\ Len(Lines) \in Nat
      /\ DOMAIN seenErrs = Streams /\ DOMAIN errOut = Streams /\ DOMAIN errs = Streams
  BY LinesSeq DEF PInv, PTypes, AInv, TInv, ATypeOK
<1>2. ASSUME NEW q \in Seq(0..Len(Lines)) PROVE q \in Seq(Nat)
  BY <1>1
<1>3. QED
  BY <1>1, <1>2

SameErrors(s) == seenErrs'[s] = seenErrs[s] /\ errOut'[s] = errOut[s] /\ errs'[s] = errs[s]

\* No error moves: what was unread is still unread, or was no error.
LEMMA NoErrorMoves ==
  ASSUME PInv, PInv', NEW s \in Streams, EInv(s), SameErrors(s), file' = file,
         ctxDone[s] => ctxDone'[s], stopped[s] => stopped'[s],
         \/ apc'[s] = apc[s] /\ pos'[s] = pos[s]
         \/ apc[s] = "unborn" /\ apc'[s] = "open"
         \/ apc[s] = "open" /\ apc'[s] = "scan" /\ file # Missing /\ pos'[s] = 1
         \/ /\ Reading(s) /\ Reading(s)'
            /\ pos'[s] = pos[s] \/ (pos'[s] = pos[s] + 1 /\ pos[s] \notin ErrorLines)
         \/ /\ Reading(s) /\ apc'[s] = "closeErrs"
            /\ ctxDone[s] \/ stopped[s] \/ \A k \in ErrorLines : k < pos[s]
         \/ apc[s] \in {"closeErrs", "closeEx", "cancel"} /\ apc'[s] \in {"closeEx", "cancel", "ended"}
  PROVE  EInv(s)'
<1>1. /\ Reported(s)' = Reported(s) /\ ErrorLines' = ErrorLines
      /\ Chain(seenErrs[s], errOut[s], errs[s])' = Chain(seenErrs[s], errOut[s], errs[s])
  BY SameLines DEF Reported, SameErrors, ErrorLines, Chain, Rising, Below
<1>2. /\ ErrorLines \subseteq Nat /\ pos[s] \in Nat
      /\ file # Missing => \A k \in ErrorLines : k \in 1..Len(Lines)
      /\ apc[s] \in {"unborn", "open", "scan", "line", "send", "closeErrs",
                     "closeEx", "cancel", "ended"}
  <2>1. /\ pos[s] \in Nat
        /\ apc[s] \in {"unborn", "open", "scan", "line", "send", "closeErrs",
                       "closeEx", "cancel", "ended"}
    BY LinesSeq DEF PInv, AInv, TInv, ATypeOK
  <2>2. /\ ErrorLines \subseteq Nat
        /\ file # Missing => \A k \in ErrorLines : k \in 1..Len(Lines)
    BY ErrorLinesFacts
  <2>3. QED
    BY <2>1, <2>2
<1>3. file # Missing => \A k \in ErrorLines : ~(k < 1)
  BY <1>2
<1>4. Reported(s) \subseteq ErrorLines /\ Chain(seenErrs[s], errOut[s], errs[s])'
  BY <1>1 DEF EInv, OrderInv
<1>5. (Few /\ ~ctxDone[s] /\ ~stopped[s])' => Few /\ ~ctxDone[s] /\ ~stopped[s]
  BY <1>1 DEF Few
<1> USE DEF EInv, OrderInv, FewInv, Reading
<1>6. CASE apc'[s] = apc[s] /\ pos'[s] = pos[s]
  BY <1>1, <1>4, <1>5, <1>6
<1>7. CASE apc[s] = "unborn" /\ apc'[s] = "open"
  BY <1>1, <1>4, <1>7
<1>8. CASE apc[s] = "open" /\ apc'[s] = "scan" /\ file # Missing /\ pos'[s] = 1
  BY <1>1, <1>3, <1>4, <1>8
<1>9. CASE /\ Reading(s) /\ Reading(s)'
           /\ pos'[s] = pos[s] \/ (pos'[s] = pos[s] + 1 /\ pos[s] \notin ErrorLines)
  <2>1. \A k \in ErrorLines : k < pos[s] <=> k < pos'[s]
    BY <1>2, <1>9
  <2>2. file' # Missing /\ \A k \in Reported(s) : k < pos'[s]
    BY <1>4, <1>9, <2>1
  <2>3. OrderInv(s)'
    BY <1>1, <1>4, <1>9, <2>2
  <2>4. FewInv(s)'
    BY <1>1, <1>5, <1>9, <2>1
  <2>5. QED
    BY <2>3, <2>4
<1>10. CASE /\ Reading(s) /\ apc'[s] = "closeErrs"
            /\ ctxDone[s] \/ stopped[s] \/ \A k \in ErrorLines : k < pos[s]
  BY <1>1, <1>4, <1>5, <1>10
<1>11. CASE /\ apc[s] \in {"closeErrs", "closeEx", "cancel"}
            /\ apc'[s] \in {"closeEx", "cancel", "ended"}
  BY <1>1, <1>4, <1>5, <1>11
<1>12. QED
  BY <1>6, <1>7, <1>8, <1>9, <1>10, <1>11

\* The adapter meets error e, above all those reported: it is sent, or errs is
\* full, which cannot be when there is room for all.
LEMMA ErrorIsSent ==
  ASSUME PInv, PInv', NEW s \in Streams, EInv(s), NEW e \in ErrorLines, SendErr(s, e),
         UNCHANGED <<file, ctxDone, stopped, seenErrs, errOut>>,
         \A x \in Reported(s) : x < e,
         Few /\ ~ctxDone[s] /\ ~stopped[s] => \A k \in ErrorLines : k < e => k \in Reported(s),
         \/ apc'[s] = "closeErrs" /\ \A k \in ErrorLines : k <= e
         \/ apc'[s] = "scan" /\ pos'[s] = e + 1 /\ file # Missing
  PROVE  EInv(s)'
<1>1. /\ seenErrs[s] \in Seq(Nat) /\ errOut[s] \in Seq(Nat) /\ errs[s] \in Seq(Nat)
      /\ DOMAIN errs = Streams
      /\ ErrorLines \subseteq Nat /\ IsFiniteSet(ErrorLines)
      /\ Cardinality(ErrorLines) \in Nat /\ ErrCap \in Nat
  BY ErrTypes, ErrorLinesFacts, StreamsAssumption
<1>2. /\ ErrorLines' = ErrorLines /\ Few' = Few
      /\ Reported(s) = Range(seenErrs[s]) \cup Range(errOut[s]) \cup Range(errs[s])
      /\ Reported(s) \subseteq ErrorLines /\ Chain(seenErrs[s], errOut[s], errs[s])
      /\ Rising(errs[s])
  BY SameLines DEF ErrorLines, Few, Reported, EInv, OrderInv, Chain
<1>3. errs'[s] = errs[s] \/ errs'[s] = Append(errs[s], e)
  BY <1>1 DEF SendErr
<1>4. Few => errs'[s] = Append(errs[s], e)
  <2>1. e \notin Range(errs[s]) /\ Range(errs[s]) \subseteq ErrorLines
    BY <1>1, <1>2
  <2>2. Len(errs[s]) < Cardinality(ErrorLines)
    BY <1>1, <1>2, <2>1, Room
  <2>3. Len(errs[s]) \in Nat
    BY <1>1, <1>2, RisingLength
  <2>4. Few => Len(errs[s]) < ErrCap
    BY <1>1, <2>2, <2>3 DEF Few
  <2>5. QED
    BY <1>1, <2>4 DEF SendErr
<1>5. Chain(seenErrs[s], errOut[s], errs[s])' /\ Reported(s)' \subseteq Reported(s) \cup {e}
  <2>1. CASE errs'[s] = errs[s]
    BY <1>2, <2>1 DEF Reported, Chain, Rising, Below
  <2>2. CASE errs'[s] = Append(errs[s], e)
    <3>1. Chain(seenErrs[s], errOut[s], Append(errs[s], e))
      BY <1>1, <1>2, ChainSteps
    <3>2. Range(Append(errs[s], e)) = Range(errs[s]) \cup {e}
      BY <1>1, AppendRange
    <3>3. QED
      BY <2>2, <3>1, <3>2 DEF Reported, Chain, Rising, Below
  <2>3. QED
    BY <1>3, <2>1, <2>2
<1>6. Few => Reported(s)' = Reported(s) \cup {e}
  <2>1. Range(Append(errs[s], e)) = Range(errs[s]) \cup {e}
    BY <1>1, AppendRange
  <2>2. QED
    BY <1>4, <2>1 DEF Reported
<1>7. OrderInv(s)'
  <2>1. Reported(s)' \subseteq ErrorLines
    BY <1>2, <1>5
  <2>2. apc'[s] = "scan" => file' # Missing /\ \A k \in Reported(s)' : k < pos'[s]
    <3>1. ASSUME pos'[s] = e + 1, NEW k \in Reported(s)' PROVE k < pos'[s]
      <4>1. k \in Reported(s) \/ k = e
        BY <1>5, <3>1
      <4>2. CASE k = e
        BY <1>1, <3>1, <4>2
      <4>3. CASE k \in Reported(s)
        <5>1. k < e /\ k \in Nat /\ e \in Nat
          BY <1>1, <1>2, <4>3
        <5>2. QED
          BY <3>1, <5>1
      <4>4. QED
        BY <4>1, <4>2, <4>3
    <3>2. apc'[s] = "scan" => pos'[s] = e + 1 /\ file' # Missing
      OBVIOUS
    <3>3. QED
      BY <3>1, <3>2
  <2>3. QED
    BY <1>2, <1>5, <2>1, <2>2 DEF OrderInv, Reading
<1>8. FewInv(s)'
  <2>1. ASSUME Few, ~ctxDone[s], ~stopped[s], NEW k \in ErrorLines, k <= e
        PROVE  k \in Reported(s)'
    BY <1>1, <1>6, <2>1
  <2>2. \A k \in ErrorLines : k < e + 1 => k <= e
    BY <1>1
  <2>3. QED
    BY <1>2, <2>1, <2>2 DEF FewInv, Reading
<1>9. QED
  BY <1>7, <1>8 DEF EInv

\* The converter takes the first error, and forwards it unless errOut is full
\* or the caller has cancelled; the consumer receives one.
LEMMA ErrorIsForwarded ==
  ASSUME PInv, PInv', NEW s \in Streams, EInv(s), Forward(s), UNCHANGED seenErrs
  PROVE  EInv(s)'
<1>1. /\ seenErrs[s] \in Seq(Nat) /\ errOut[s] \in Seq(Nat) /\ errs[s] \in Seq(Nat)
      /\ DOMAIN errs = Streams /\ DOMAIN errOut = Streams
      /\ ErrorLines \subseteq Nat /\ IsFiniteSet(ErrorLines)
      /\ Cardinality(ErrorLines) \in Nat /\ ErrCap \in Nat
  BY ErrTypes, ErrorLinesFacts, StreamsAssumption
<1>2. /\ UNCHANGED <<file, ctxDone, stopped, apc, pos>>
      /\ errs[s] # <<>> /\ errs'[s] = Tail(errs[s])
      /\ errOut'[s] = IF Len(errOut[s]) < ErrCap THEN Append(errOut[s], Head(errs[s]))
                                               ELSE errOut[s]
  BY <1>1 DEF Forward, TakeErr
<1>3. /\ ErrorLines' = ErrorLines /\ Few' = Few
      /\ Reported(s) \subseteq ErrorLines /\ Chain(seenErrs[s], errOut[s], errs[s])
  BY <1>2, SameLines DEF ErrorLines, Few, EInv, OrderInv
<1>4. /\ Head(errs[s]) \in Nat /\ Tail(errs[s]) \in Seq(Nat)
      /\ Range(errs[s]) = {Head(errs[s])} \cup Range(Tail(errs[s]))
      /\ Range(Append(errOut[s], Head(errs[s]))) = Range(errOut[s]) \cup {Head(errs[s])}
  BY <1>1, <1>2, TailRange, AppendRange
<1>5. Chain(seenErrs[s], errOut[s], errs[s])' /\ Reported(s)' \subseteq Reported(s)
  <2>1. /\ Chain(seenErrs[s], Append(errOut[s], Head(errs[s])), Tail(errs[s]))
        /\ Chain(seenErrs[s], errOut[s], Tail(errs[s]))
    BY <1>1, <1>2, <1>3, ChainSteps
  <2>2. seenErrs'[s] = seenErrs[s]
    OBVIOUS
  <2>3. CASE errOut'[s] = Append(errOut[s], Head(errs[s]))
    BY <1>2, <1>4, <2>1, <2>2, <2>3 DEF Reported, Chain, Rising, Below
  <2>4. CASE errOut'[s] = errOut[s]
    BY <1>2, <1>4, <2>1, <2>2, <2>4 DEF Reported, Chain, Rising, Below
  <2>5. QED
    BY <1>2, <2>3, <2>4
<1>6. Few => Reported(s)' = Reported(s)
  <2>1. /\ Rising(errOut[s]) /\ Range(errOut[s]) \subseteq ErrorLines
        /\ Head(errs[s]) \in ErrorLines /\ Head(errs[s]) \notin Range(errOut[s])
    <3>1. /\ Rising(errOut[s]) /\ Range(errOut[s]) \subseteq ErrorLines
          /\ Head(errs[s]) \in ErrorLines
      BY <1>3, <1>4 DEF Chain, Reported
    <3>2. \A x \in Range(errOut[s]) : x < Head(errs[s])
      BY <1>3, <1>4 DEF Chain, Below
    <3>3. ~(Head(errs[s]) < Head(errs[s]))
      BY <1>4
    <3>4. QED
      BY <3>1, <3>2, <3>3
  <2>2. Len(errOut[s]) < Cardinality(ErrorLines) /\ Len(errOut[s]) \in Nat
    BY <1>1, <2>1, Room, RisingLength
  <2>3. Few => errOut'[s] = Append(errOut[s], Head(errs[s]))
    BY <1>1, <1>2, <2>2 DEF Few
  <2>4. QED
    BY <1>2, <1>4, <2>3 DEF Reported
<1>7. QED
  BY <1>2, <1>3, <1>5, <1>6 DEF EInv, OrderInv, FewInv, Reading

LEMMA ErrorIsDropped ==
  ASSUME PInv, PInv', NEW s \in Streams, EInv(s), TakeErr(s), ctxDone[s],
         UNCHANGED <<seenErrs, errOut>>
  PROVE  EInv(s)'
<1>1. /\ seenErrs[s] \in Seq(Nat) /\ errOut[s] \in Seq(Nat) /\ errs[s] \in Seq(Nat)
      /\ DOMAIN errs = Streams
  BY ErrTypes
<1>2. /\ UNCHANGED <<file, ctxDone, stopped, apc, pos>>
      /\ errs[s] # <<>> /\ errs'[s] = Tail(errs[s])
  BY <1>1 DEF TakeErr
<1>3. /\ ErrorLines' = ErrorLines
      /\ Reported(s) \subseteq ErrorLines /\ Chain(seenErrs[s], errOut[s], errs[s])
  BY <1>2, SameLines DEF ErrorLines, EInv, OrderInv
<1>4. Range(Tail(errs[s])) \subseteq Range(errs[s])
  BY <1>1, <1>2, TailRange
<1>5. Chain(seenErrs[s], errOut[s], Tail(errs[s]))
  BY <1>1, <1>2, <1>3, ChainSteps
<1>6. Chain(seenErrs[s], errOut[s], errs[s])' /\ Reported(s)' \subseteq Reported(s)
  BY <1>2, <1>4, <1>5 DEF Reported, Chain, Rising, Below
<1>7. QED
  BY <1>2, <1>3, <1>6 DEF EInv, OrderInv, FewInv, Reading

LEMMA ErrorIsRead ==
  ASSUME PInv, PInv', NEW s \in Streams, EInv(s), ReadErr(s)
  PROVE  EInv(s)'
<1>1. /\ seenErrs[s] \in Seq(Nat) /\ errOut[s] \in Seq(Nat) /\ errs[s] \in Seq(Nat)
      /\ DOMAIN seenErrs = Streams /\ DOMAIN errOut = Streams
  BY ErrTypes
<1>2. /\ UNCHANGED <<file, ctxDone, stopped, apc, pos, errs>>
      /\ errOut[s] # <<>> /\ errOut'[s] = Tail(errOut[s])
      /\ seenErrs'[s] = Append(seenErrs[s], Head(errOut[s]))
  BY <1>1 DEF ReadErr, avars, adapterVars
<1>3. /\ ErrorLines' = ErrorLines /\ Few' = Few
      /\ Chain(seenErrs[s], errOut[s], errs[s])
  BY <1>2, SameLines DEF ErrorLines, Few, EInv, OrderInv
<1>4. /\ Head(errOut[s]) \in Nat
      /\ Range(errOut[s]) = {Head(errOut[s])} \cup Range(Tail(errOut[s]))
      /\ Range(Append(seenErrs[s], Head(errOut[s]))) = Range(seenErrs[s]) \cup {Head(errOut[s])}
  BY <1>1, <1>2, TailRange, AppendRange
<1>5. Chain(Append(seenErrs[s], Head(errOut[s])), Tail(errOut[s]), errs[s])
  BY <1>1, <1>2, <1>3, ChainSteps
<1>6. Chain(seenErrs[s], errOut[s], errs[s])' /\ Reported(s)' = Reported(s)
  BY <1>2, <1>4, <1>5 DEF Reported, Chain, Rising, Below
<1>7. QED
  BY <1>2, <1>3, <1>6 DEF EInv, OrderInv, FewInv, Reading

LEMMA PlacedError ==
  ASSUME PInv, NEW s \in Streams, EInv(s), Reading(s), pos[s] \in DOMAIN Lines
  PROVE  /\ pos[s] \in ErrorLines <=> Lines[pos[s]] \in {Bad, TooLong}
         /\ Lines[pos[s]] = TooLong => \A k \in ErrorLines : k <= pos[s]
<1>1. /\ file # Missing /\ \A j \in 1..(pos[s] - 1) : Lines[j] # TooLong
      /\ DOMAIN Lines = 1..Len(Lines)
  BY LinesSeq DEF PInv, AInv, TInv, ATypeOK, Placed, EInv, OrderInv
<1>2. pos[s] \in ErrorLines <=> Lines[pos[s]] \in {Bad, TooLong}
  BY <1>1 DEF ErrorLines
<1>3. Lines[pos[s]] = TooLong => \A k \in ErrorLines : k <= pos[s]
  BY <1>1, ErrorLinesFacts
<1>4. QED
  BY <1>2, <1>3

\* A step of the goroutine of s that sends an error or none.
LEMMA AdapterErrors ==
  ASSUME PInv, PInv', NEW s \in Streams, EInv(s), Adapter(s), UNCHANGED <<seenErrs, errOut>>
  PROVE  EInv(s)'
<1> USE DEF AGoto
<1>t. /\ DOMAIN apc = Streams /\ DOMAIN pos = Streams
      /\ pos[s] \in Nat /\ Len(Lines) \in Nat /\ DOMAIN Lines = 1..Len(Lines)
  BY LinesSeq DEF PInv, AInv, TInv, ATypeOK
<1>u. UNCHANGED <<file, ctxDone, stopped>>
  BY DEF Adapter, Open, Scan, Line, GiveUp, CloseErrs, CloseEx, CancelSub
<1>1. CASE Open(s)
  <2>1. CASE file = Missing
    <3>1. /\ apc[s] = "open" /\ SendErr(s, 0) /\ apc'[s] = "closeErrs"
      BY <1>1, <1>t, <2>1 DEF Open
    <3>2. ErrorLines = {0}
      BY <2>1 DEF ErrorLines
    <3>3. Reported(s) = {}
      BY <3>1 DEF EInv, OrderInv
    <3>4. 0 \in ErrorLines /\ (\A x \in Reported(s) : x < 0)
          /\ (\A k \in ErrorLines : ~(k < 0) /\ k <= 0)
      BY <3>2, <3>3
    <3>5. QED
      BY <1>u, <3>1, <3>4, ErrorIsSent
  <2>2. CASE file # Missing
    <3>1. /\ apc[s] = "open" /\ apc'[s] = "scan" /\ UNCHANGED <<errs, pos>> /\ pos[s] = 1
      BY <1>1, <1>t, <2>2 DEF Open, PInv, AInv, TInv, Placed
    <3>2. QED
      BY <1>u, <2>2, <3>1, NoErrorMoves DEF SameErrors
  <2>3. QED
    BY <2>1, <2>2
<1>2. CASE Scan(s)
  <2>1. apc[s] = "scan" /\ UNCHANGED pos /\ Reading(s) /\ file # Missing
    BY <1>2 DEF Scan, Reading, EInv, OrderInv
  <2>2. CASE pos[s] > Len(Lines)
    <3>1. apc'[s] = "closeErrs" /\ UNCHANGED errs
      BY <1>2, <1>t, <2>2 DEF Scan
    <3>2. \A k \in ErrorLines : k < pos[s]
      BY <1>t, <2>1, <2>2, ErrorLinesFacts
    <3>3. QED
      BY <1>u, <2>1, <3>1, <3>2, NoErrorMoves DEF SameErrors
  <2>3. CASE pos[s] \in DOMAIN Lines /\ Lines[pos[s]] = TooLong
    <3>1. apc'[s] = "closeErrs" /\ SendErr(s, pos[s])
      BY <1>2, <1>t, <2>3 DEF Scan
    <3>2. pos[s] \in ErrorLines /\ \A k \in ErrorLines : k <= pos[s]
      BY <2>1, <2>3, PlacedError
    <3>3. /\ \A x \in Reported(s) : x < pos[s]
          /\ Few /\ ~ctxDone[s] /\ ~stopped[s]
               => \A k \in ErrorLines : k < pos[s] => k \in Reported(s)
      BY <2>1 DEF EInv, OrderInv, FewInv
    <3>4. QED
      BY <1>u, <3>1, <3>2, <3>3, ErrorIsSent
  <2>4. CASE pos[s] \in DOMAIN Lines /\ Lines[pos[s]] # TooLong
    <3>1. UNCHANGED errs /\ apc'[s] = IF subDone[s] THEN "closeErrs" ELSE "line"
      BY <1>2, <1>t, <2>4 DEF Scan
    <3>2. subDone[s] => ctxDone[s] \/ stopped[s]
      BY <2>1 DEF PInv, AInv, OInv
    <3>3. QED
      BY <1>u, <2>1, <3>1, <3>2, NoErrorMoves DEF SameErrors, Reading
  <2>5. QED
    BY <1>2, <2>2, <2>3, <2>4 DEF Scan
<1>3. CASE Line(s)
  <2>1. /\ apc[s] = "line" /\ Reading(s) /\ file # Missing
        /\ pos[s] \in DOMAIN Lines /\ Lines[pos[s]] # TooLong
    BY <1>3 DEF Line, Reading, EInv, OrderInv, PInv, AInv, TInv, Placed
  <2>2. CASE SendErr(s, pos[s]) /\ NextLine(s) /\ Lines[pos[s]] = Bad
    <3>1. apc'[s] = "scan" /\ pos'[s] = pos[s] + 1
      BY <1>t, <2>2 DEF NextLine
    <3>2. pos[s] \in ErrorLines
      BY <2>1, <2>2, PlacedError
    <3>3. /\ \A x \in Reported(s) : x < pos[s]
          /\ Few /\ ~ctxDone[s] /\ ~stopped[s]
               => \A k \in ErrorLines : k < pos[s] => k \in Reported(s)
      BY <2>1 DEF EInv, OrderInv, FewInv
    <3>4. QED
      BY <1>u, <2>1, <2>2, <3>1, <3>2, <3>3, ErrorIsSent
  <2>3. CASE UNCHANGED errs /\ NextLine(s) /\ Lines[pos[s]] # Bad
    <3>1. apc'[s] = "scan" /\ pos'[s] = pos[s] + 1
      BY <1>t, <2>3 DEF NextLine
    <3>2. pos[s] \notin ErrorLines
      BY <2>1, <2>3, PlacedError
    <3>3. QED
      BY <1>u, <2>1, <2>3, <3>1, <3>2, NoErrorMoves DEF SameErrors, Reading
  <2>4. CASE UNCHANGED <<errs, pos>> /\ apc'[s] = "send"
    BY <1>u, <2>1, <2>4, NoErrorMoves DEF SameErrors, Reading
  <2>5. QED
    BY <1>3, <1>t, <2>2, <2>3, <2>4, LinesAssumption DEF Line
<1>4. CASE GiveUp(s)
  <2>1. /\ apc[s] = "send" /\ apc'[s] = "closeErrs" /\ subDone[s] /\ UNCHANGED <<errs, pos>>
    BY <1>4, <1>t DEF GiveUp
  <2>2. ctxDone[s] \/ stopped[s]
    BY <2>1 DEF PInv, AInv, OInv
  <2>3. QED
    BY <1>u, <2>1, <2>2, NoErrorMoves DEF SameErrors, Reading
<1>5. CASE CloseErrs(s) \/ CloseEx(s) \/ CancelSub(s)
  <2>1. /\ apc[s] \in {"closeErrs", "closeEx", "cancel"}
        /\ apc'[s] \in {"closeEx", "cancel", "ended"} /\ UNCHANGED <<errs, pos>>
    BY <1>5, <1>t DEF CloseErrs, CloseEx, CancelSub
  <2>2. QED
    BY <1>u, <2>1, NoErrorMoves DEF SameErrors
<1>6. QED
  BY <1>1, <1>2, <1>3, <1>4, <1>5 DEF Adapter

LEMMA ErrorStep ==
  PInv /\ PInv' /\ (\A s \in Streams : SInv(s) /\ EInv(s)) /\ [Next]_vars
    => \A s \in Streams : EInv(s)'
<1> SUFFICES ASSUME PInv, PInv', \A r \in Streams : SInv(r) /\ EInv(r), [Next]_vars,
                    NEW s \in Streams
             PROVE  EInv(s)'
  OBVIOUS
<1> USE DEF converterVars, consumerVars, AGoto
<1>i. SInv(s) /\ EInv(s)
  OBVIOUS
<1>t. /\ DOMAIN apc = Streams /\ DOMAIN pos = Streams /\ DOMAIN ctxDone = Streams
      /\ DOMAIN errs = Streams /\ DOMAIN errOut = Streams /\ DOMAIN seenErrs = Streams
  BY DEF PInv, AInv, TInv, ATypeOK, PTypes
\* A step that leaves the errors and the place of s alone.
<1>q. ASSUME SameErrors(s), file' = file, apc'[s] = apc[s], pos'[s] = pos[s],
             ctxDone[s] => ctxDone'[s], stopped[s] => stopped'[s]
      PROVE  EInv(s)'
  BY <1>i, <1>q, NoErrorMoves
<1>v. ASSUME UNCHANGED avars, UNCHANGED <<errOut, seenErrs>> PROVE EInv(s)'
  BY <1>q, <1>v DEF SameErrors, avars, adapterVars
<1>1. CASE UNCHANGED vars
  BY <1>1, <1>v DEF vars
<1>2. ASSUME NEW r \in Streams, SrcClosed(r) \/ Abandon(r) \/ ErrsDrained(r) \/ CloseErrOut(r)
                                \/ CloseOut(r) \/ Deliver(r) \/ Walk(r)
      PROVE  EInv(s)'
  BY <1>2, <1>v DEF SrcClosed, Abandon, ErrsDrained, CloseErrOut, CloseOut, Deliver, Walk
<1>3. ASSUME NEW r \in Streams, Start(r) PROVE EInv(s)'
  <2>1. /\ UNCHANGED <<file, ctxDone, stopped, pos, errs, errOut, seenErrs>>
        /\ apc[r] = "unborn" /\ apc' = [apc EXCEPT ![r] = "open"]
    BY <1>3 DEF Start, Stream
  <2>2. CASE r = s
    BY <1>i, <1>t, <2>1, <2>2, NoErrorMoves DEF SameErrors
  <2>3. CASE r # s
    BY <1>q, <1>t, <2>1, <2>3 DEF SameErrors
  <2>4. QED
    BY <2>2, <2>3
<1>4. ASSUME NEW r \in Streams, Receive(r) PROVE EInv(s)'
  <2>1. /\ UNCHANGED <<file, ctxDone, stopped, errs, errOut, seenErrs>>
        /\ apc[r] = "send" /\ apc' = [apc EXCEPT ![r] = "scan"]
        /\ pos' = [pos EXCEPT ![r] = pos[r] + 1]
    BY <1>4 DEF Receive, Give, NextLine
  <2>2. CASE r = s
    <3>1. /\ Reading(s) /\ apc'[s] = "scan" /\ pos'[s] = pos[s] + 1
          /\ pos[s] \in DOMAIN Lines /\ Lines[pos[s]] \in Topics
      BY <1>t, <2>1, <2>2 DEF Reading, PInv, AInv, TInv, Placed
    <3>2. pos[s] \notin ErrorLines
      BY <1>i, <3>1, PlacedError, LinesAssumption
    <3>3. QED
      BY <1>i, <2>1, <3>1, <3>2, NoErrorMoves DEF SameErrors, Reading
  <2>3. CASE r # s
    BY <1>q, <1>t, <2>1, <2>3 DEF SameErrors
  <2>4. QED
    BY <2>2, <2>3
<1>5. ASSUME NEW r \in Streams, Relay(r) \/ ForwardRest(r) PROVE EInv(s)'
  <2>1. Forward(r) /\ UNCHANGED seenErrs
    BY <1>5 DEF Relay, ForwardRest
  <2>2. CASE r = s
    BY <1>i, <2>1, <2>2, ErrorIsForwarded
  <2>3. CASE r # s
    <3>1. UNCHANGED <<file, ctxDone, stopped, apc, pos>> /\ SameErrors(s)
      BY <1>t, <2>1, <2>3 DEF Forward, TakeErr, SameErrors
    <3>2. QED
      BY <1>q, <3>1
  <2>4. QED
    BY <2>2, <2>3
<1>6. ASSUME NEW r \in Streams, Discard(r) PROVE EInv(s)'
  <2>1. TakeErr(r) /\ vpc[r] = "drain" /\ UNCHANGED <<seenErrs, errOut>>
    BY <1>6 DEF Discard
  <2>2. CASE r = s
    <3>1. ctxDone[s]
      BY <1>i, <2>1, <2>2 DEF SInv, ConverterInv
    <3>2. QED
      BY <1>i, <2>1, <2>2, <3>1, ErrorIsDropped
  <2>3. CASE r # s
    <3>1. UNCHANGED <<file, ctxDone, stopped, apc, pos>> /\ SameErrors(s)
      BY <1>t, <2>1, <2>3 DEF TakeErr, SameErrors
    <3>2. QED
      BY <1>q, <3>1
  <2>4. QED
    BY <2>2, <2>3
<1>7. ASSUME NEW r \in Streams, ReadErr(r) PROVE EInv(s)'
  <2>1. CASE r = s
    BY <1>i, <1>7, <2>1, ErrorIsRead
  <2>2. CASE r # s
    <3>1. UNCHANGED avars /\ SameErrors(s)
      BY <1>t, <1>7, <2>2 DEF ReadErr, SameErrors, avars, adapterVars
    <3>2. QED
      BY <1>q, <3>1 DEF avars, adapterVars
  <2>3. QED
    BY <2>1, <2>2
<1>8. ASSUME NEW r \in Streams, Alone(r) PROVE EInv(s)'
  <2>1. UNCHANGED <<seenErrs, errOut>> /\ (Adapter(r) \/ CancelCtx(r) \/ Propagate(r))
    BY <1>8 DEF Alone
  <2>2. CASE Adapter(r) /\ r = s
    BY <1>i, <2>1, <2>2, AdapterErrors
  <2>3. CASE Adapter(r) /\ r # s
    <3>1. /\ UNCHANGED <<file, ctxDone, stopped>> /\ SameErrors(s)
          /\ apc'[s] = apc[s] /\ pos'[s] = pos[s]
      BY <1>t, <2>1, <2>3 DEF Adapter, Open, Scan, Line, NextLine, SendErr, GiveUp, CloseErrs,
         CloseEx, CancelSub, SameErrors
    <3>2. QED
      BY <1>q, <3>1
  <2>4. CASE CancelCtx(r) \/ Propagate(r)
    <3>1. /\ UNCHANGED <<file, stopped, apc, pos, errs>> /\ (ctxDone[s] => ctxDone'[s])
      BY <1>t, <2>4 DEF CancelCtx, Propagate, adapterVars
    <3>2. QED
      BY <1>q, <2>1, <3>1 DEF SameErrors
  <2>5. QED
    BY <2>1, <2>2, <2>3, <2>4
<1>9. ASSUME NEW c \in Closers, Closing(c) PROVE EInv(s)'
  <2>1. /\ UNCHANGED <<file, ctxDone, apc, pos, errs, errOut, seenErrs>>
        /\ stopped[s] => stopped'[s]
    BY <1>9 DEF Closing, Close, Closer, ReadStop, CallStop, CloseWaited, adapterVars
  <2>2. QED
    BY <1>q, <2>1 DEF SameErrors
<1>10. QED
  BY <1>1, <1>2, <1>3, <1>4, <1>5, <1>6, <1>7, <1>8, <1>9 DEF Next, Convert, Continue

LEMMA EInit == Init => \A s \in Streams : EInv(s)
<1> SUFFICES ASSUME Init, NEW s \in Streams PROVE EInv(s)
  OBVIOUS
<1>1. apc[s] = "unborn" /\ seenErrs[s] = <<>> /\ errOut[s] = <<>> /\ errs[s] = <<>>
  BY DEF Init, AInit
<1>2. \A q : q = <<>> => Range(q) = {} /\ Rising(q)
  BY DEF Range, Rising
<1>3. Reported(s) = {} /\ Chain(seenErrs[s], errOut[s], errs[s])
  BY <1>1, <1>2 DEF Reported, Chain, Below
<1>4. QED
  BY <1>1, <1>3 DEF EInv, OrderInv, FewInv, Reading

LEMMA ErrorsInvariant == Spec => [](PInv /\ \A s \in Streams : SInv(s) /\ EInv(s))
<1>1. Init => PInv /\ \A s \in Streams : SInv(s) /\ EInv(s)
  BY PInit, TInit, OInit, SInit, EInit DEF PInv, AInv, Init
<1>2. PInv /\ (\A s \in Streams : SInv(s) /\ EInv(s)) /\ [Next]_vars
        => (PInv /\ \A s \in Streams : SInv(s) /\ EInv(s))'
  <2> SUFFICES ASSUME PInv, \A s \in Streams : SInv(s) /\ EInv(s), [Next]_vars
               PROVE  PInv' /\ \A s \in Streams : SInv(s)' /\ EInv(s)'
    OBVIOUS
  <2>1. PInv'
    BY PNext, TNext, ONextStep, AdapterInside DEF PInv, AInv
  <2>2. \A s \in Streams : SInv(s)'
    BY <2>1, PipelineStep
  <2>3. \A s \in Streams : EInv(s)'
    BY <2>1, ErrorStep
  <2>4. QED
    BY <2>1, <2>2, <2>3
<1>3. QED
  BY <1>1, <1>2, PTL DEF Spec

LEMMA RisingConcat ==
  ASSUME NEW p \in Seq(Nat), NEW q \in Seq(Nat), Rising(p), Rising(q), Below(p, q)
  PROVE  /\ p \o q \in Seq(Nat) /\ Rising(p \o q)
         /\ Range(p \o q) = Range(p) \cup Range(q)
<1>1. /\ Len(p) \in Nat /\ Len(q) \in Nat /\ p \o q \in Seq(Nat)
      /\ DOMAIN p = 1..Len(p) /\ DOMAIN q = 1..Len(q) /\ DOMAIN (p \o q) = 1..(Len(p) + Len(q))
      /\ \A i \in 1..(Len(p) + Len(q)) :
           (p \o q)[i] = IF i <= Len(p) THEN p[i] ELSE q[i - Len(p)]
  OBVIOUS
<1>2. \A i \in 1..(Len(p) + Len(q)) :
        \/ i \in 1..Len(p) /\ i <= Len(p) /\ (p \o q)[i] = p[i]
        \/ i - Len(p) \in 1..Len(q) /\ i > Len(p) /\ (p \o q)[i] = q[i - Len(p)]
  BY <1>1
<1>3. ASSUME NEW i \in 1..(Len(p) + Len(q)), NEW j \in 1..(Len(p) + Len(q)), i < j
      PROVE  (p \o q)[i] < (p \o q)[j]
  <2>1. CASE j <= Len(p)
    <3>1. i \in 1..Len(p) /\ j \in 1..Len(p) /\ (p \o q)[i] = p[i] /\ (p \o q)[j] = p[j]
      BY <1>1, <1>3, <2>1
    <3>2. QED
      BY <1>1, <1>3, <3>1 DEF Rising
  <2>2. CASE i <= Len(p) /\ ~(j <= Len(p))
    <3>1. /\ i \in 1..Len(p) /\ j - Len(p) \in 1..Len(q)
          /\ (p \o q)[i] = p[i] /\ (p \o q)[j] = q[j - Len(p)]
      BY <1>1, <1>3, <2>2
    <3>2. p[i] \in Range(p) /\ q[j - Len(p)] \in Range(q)
      BY <1>1, <3>1 DEF Range
    <3>3. QED
      BY <3>1, <3>2 DEF Below
  <2>3. CASE ~(i <= Len(p))
    <3>1. /\ i - Len(p) \in 1..Len(q) /\ j - Len(p) \in 1..Len(q) /\ i - Len(p) < j - Len(p)
          /\ (p \o q)[i] = q[i - Len(p)] /\ (p \o q)[j] = q[j - Len(p)]
      BY <1>1, <1>3, <2>3
    <3>2. QED
      BY <1>1, <3>1 DEF Rising
  <2>4. QED
    BY <2>1, <2>2, <2>3
<1>4. Range(p \o q) = Range(p) \cup Range(q)
  <2>1. ASSUME NEW i \in 1..(Len(p) + Len(q)) PROVE (p \o q)[i] \in Range(p) \cup Range(q)
    BY <1>1, <1>2 DEF Range
  <2>2. ASSUME NEW i \in 1..Len(p) PROVE p[i] \in Range(p \o q)
    <3>1. i \in 1..(Len(p) + Len(q)) /\ (p \o q)[i] = p[i]
      BY <1>1
    <3>2. QED
      BY <1>1, <3>1 DEF Range
  <2>3. ASSUME NEW i \in 1..Len(q) PROVE q[i] \in Range(p \o q)
    <3>1. i + Len(p) \in 1..(Len(p) + Len(q)) /\ (p \o q)[i + Len(p)] = q[i]
      BY <1>1
    <3>2. QED
      BY <1>1, <3>1 DEF Range
  <2>4. QED
    BY <1>1, <2>1, <2>2, <2>3 DEF Range
<1>5. QED
  BY <1>1, <1>3, <1>4 DEF Rising

\* However long the file and whatever is dropped, the errors keep the order of
\* the file through both buffers and none is reported twice.
THEOREM ErrorsAreOrdered == Spec => []ErrorsKeepOrder
<1>1. ASSUME PInv, NEW s \in Streams, EInv(s)
      PROVE  LET all == seenErrs[s] \o errOut[s] \o errs[s]
             IN \A i \in DOMAIN all : /\ all[i] \in ErrorLines
                                      /\ \A j \in DOMAIN all : i < j => all[i] < all[j]
  <2> DEFINE p == seenErrs[s]
             q == errOut[s]
             r == errs[s]
  <2>1. p \in Seq(Nat) /\ q \in Seq(Nat) /\ r \in Seq(Nat)
    BY <1>1, ErrTypes
  <2>2. Chain(p, q, r) /\ Range(p) \cup Range(q) \cup Range(r) \subseteq ErrorLines
    BY <1>1 DEF EInv, OrderInv, Reported
  <2> HIDE DEF p, q, r
  <2>3. /\ p \o q \in Seq(Nat) /\ Rising(p \o q) /\ Range(p \o q) = Range(p) \cup Range(q)
    BY <2>1, <2>2, RisingConcat DEF Chain
  <2>4. Below(p \o q, r)
    BY <2>2, <2>3 DEF Chain, Below
  <2>5. Rising((p \o q) \o r) /\ Range((p \o q) \o r) \subseteq ErrorLines
    BY <2>1, <2>2, <2>3, <2>4, RisingConcat DEF Chain
  <2>6. QED
    BY <2>5 DEF Rising, Range, p, q, r
<1>2. PInv /\ (\A s \in Streams : SInv(s) /\ EInv(s)) => ErrorsKeepOrder
  BY <1>1 DEF ErrorsKeepOrder
<1>3. QED
  BY <1>2, ErrorsInvariant, PTL

\* A file with at most ErrCap errors loses none of them, in any interleaving of
\* the two goroutines and the consumer.
THEOREM FewErrorsArrive == Spec => []FewErrorsAreNotLost
<1>1. ASSUME PInv, NEW s \in Streams, SInv(s), EInv(s), vpc[s] = "ended",
             ~ctxDone[s], ~stopped[s], Cardinality(ErrorLines) <= ErrCap
      PROVE  Len(seenErrs[s]) + Len(errOut[s]) = Cardinality(ErrorLines)
  <2>1. ExClosed(s) /\ errs[s] = <<>>
    BY <1>1 DEF SInv, ConverterInv, Last
  <2>2. Range(errs[s]) = {}
    BY <2>1 DEF Range
  <2>3. ErrorLines = Range(seenErrs[s]) \cup Range(errOut[s])
    BY <1>1, <2>1, <2>2 DEF EInv, OrderInv, FewInv, Few, Reported, ExClosed
  <2>4. /\ seenErrs[s] \in Seq(Nat) /\ errOut[s] \in Seq(Nat)
        /\ Rising(seenErrs[s]) /\ Rising(errOut[s]) /\ Below(seenErrs[s], errOut[s])
        /\ ErrorLines \subseteq Nat
    BY <1>1, ErrTypes, ErrorLinesFacts DEF EInv, OrderInv, Chain
  <2>5. Range(seenErrs[s]) \cap Range(errOut[s]) = {}
    BY <2>3, <2>4 DEF Below
  <2>6. Cardinality(ErrorLines)
          = Cardinality(Range(seenErrs[s])) + Cardinality(Range(errOut[s]))
            - Cardinality(Range(seenErrs[s]) \cap Range(errOut[s]))
    BY <2>3, <2>4, RisingLength, FS_Union
  <2>7. Cardinality(Range(seenErrs[s]) \cap Range(errOut[s])) = 0
    BY <2>5, FS_EmptySet
  <2>8. /\ Cardinality(Range(seenErrs[s])) = Len(seenErrs[s]) /\ Len(seenErrs[s]) \in Nat
        /\ Cardinality(Range(errOut[s])) = Len(errOut[s]) /\ Len(errOut[s]) \in Nat
    BY <2>4, RisingLength
  <2>9. QED
    BY <2>6, <2>7, <2>8
<1>2. PInv /\ (\A s \in Streams : SInv(s) /\ EInv(s)) => FewErrorsAreNotLost
  BY <1>1 DEF FewErrorsAreNotLost
<1>3. QED
  BY <1>2, ErrorsInvariant, PTL
-----------------------------------------------------------------------------
(* The safety halves of the liveness properties.  Every step but Continue  *)
(* uses up some of a finite amount of work, and nobody waits forever for   *)
(* somebody else.                                                          *)

\* What is left for the goroutines to do, a step at least for each unit: six
\* for a line, two for an error in errs, which may go through errOut.
AdapterRank(s) ==
  IF apc[s] = "unborn" THEN 11
  ELSE IF apc[s] = "open" THEN 9
  ELSE IF apc[s] = "scan" THEN 8
  ELSE IF apc[s] = "line" THEN 7
  ELSE IF apc[s] = "send" THEN 6
  ELSE IF apc[s] = "closeErrs" THEN 3
  ELSE IF apc[s] = "closeEx" THEN 2
  ELSE IF apc[s] = "cancel" THEN 1
  ELSE 0

AdapterWork(s) == 6 * (Len(Lines) + 1 - pos[s]) + AdapterRank(s) + 2 * Len(errs[s])

ConverterRank(s) ==
  IF vpc[s] = "offer" THEN 6
  ELSE IF vpc[s] \in {"unborn", "select"} THEN 5
  ELSE IF vpc[s] \in {"drain", "forward"} THEN 3
  ELSE IF vpc[s] = "closeErrOut" THEN 2
  ELSE IF vpc[s] = "closeOut" THEN 1
  ELSE 0

ConverterWork(s) == ConverterRank(s) + Len(errOut[s])

\* The caller cancels once, the cancellation arrives once, the consumer
\* leaves once.
CallerWork(s) ==
  (IF ctxDone[s] THEN 0 ELSE 1) + (IF subDone[s] THEN 0 ELSE 1) + (IF gone[s] THEN 0 ELSE 1)

Work(s) == AdapterWork(s) + ConverterWork(s) + CallerWork(s)

CloseWork(c) ==
  IF cpc[c] = "idle" THEN 3
  ELSE IF cpc[c] = "read" THEN 2
  ELSE IF cpc[c] \in {"call", "wait"} THEN 1
  ELSE 0

LEMMA WorkIsNat ==
  ASSUME PInv, NEW s \in Streams
  PROVE  /\ AdapterWork(s) \in Nat /\ ConverterWork(s) \in Nat /\ CallerWork(s) \in Nat
         /\ Work(s) \in Nat
         /\ Len(Lines) \in Nat /\ pos[s] \in Nat /\ Len(errs[s]) \in Nat /\ Len(errOut[s]) \in Nat
<1>1. Len(Lines) \in Nat /\ pos[s] \in 1..Len(Lines) + 1
  BY LinesSeq DEF PInv, AInv, TInv, ATypeOK
<1>2. Len(errs[s]) \in Nat /\ Len(errOut[s]) \in Nat
  <2>1. errs[s] \in Seq(0..Len(Lines)) /\ errOut[s] \in Seq(0..Len(Lines))
    BY DEF PInv, AInv, TInv, ATypeOK, PTypes
  <2>2. QED
    BY <2>1
<1>3. AdapterRank(s) \in Nat
  BY DEF AdapterRank
<1>4. AdapterWork(s) \in Nat
  BY <1>1, <1>2, <1>3 DEF AdapterWork
<1>5. ConverterWork(s) \in Nat
  <2>1. ConverterRank(s) \in Nat
    BY DEF ConverterRank
  <2>2. QED
    BY <1>2, <2>1 DEF ConverterWork
<1>6. CallerWork(s) \in Nat
  BY DEF CallerWork
<1>7. Work(s) \in Nat
  BY <1>4, <1>5, <1>6 DEF Work
<1>8. pos[s] \in Nat
  BY <1>1
<1>9. QED
  BY <1>1, <1>2, <1>4, <1>5, <1>6, <1>7, <1>8

\* The sum of its parts, for the proofs that follow a step.
LEMMA LessWork ==
  ASSUME PInv, PInv', NEW s \in Streams,
         AdapterWork(s)' + ConverterWork(s)' + CallerWork(s)'
           < AdapterWork(s) + ConverterWork(s) + CallerWork(s)
  PROVE  Work(s)' < Work(s)
BY DEF Work

\* What a step does to the streams it is not about.
SameWork(s) ==
  /\ file' = file
  /\ apc'[s] = apc[s] /\ pos'[s] = pos[s] /\ errs'[s] = errs[s]
  /\ vpc'[s] = vpc[s] /\ errOut'[s] = errOut[s]
  /\ ctxDone'[s] = ctxDone[s] /\ gone'[s] = gone[s]
  /\ subDone[s] => subDone'[s]

LEMMA NoMoreWork ==
  ASSUME PInv, PInv', NEW s \in Streams, SameWork(s)
  PROVE  Work(s)' <= Work(s)
<1>1. AdapterWork(s)' = AdapterWork(s)
  BY SameLines DEF SameWork, AdapterWork, AdapterRank
<1>2. ConverterWork(s)' = ConverterWork(s)
  BY DEF SameWork, ConverterWork, ConverterRank
<1>3. CallerWork(s)' <= CallerWork(s)
  BY DEF SameWork, CallerWork
<1>4. /\ AdapterWork(s) \in Nat /\ ConverterWork(s) \in Nat
      /\ CallerWork(s) \in Nat
  BY WorkIsNat
<1>5. CallerWork(s)' \in Nat
  BY DEF CallerWork
<1>6. QED
  BY <1>1, <1>2, <1>3, <1>4, <1>5 DEF Work
LEMMA RanksAreNat == \A s \in Streams : AdapterRank(s) \in 0..11 /\ ConverterRank(s) \in 0..6
BY DEF AdapterRank, ConverterRank

\* sendErr adds an error at most.
LEMMA OneMoreError ==
  ASSUME PInv, PInv', NEW s \in Streams, NEW e \in 0..Len(Lines), SendErr(s, e)
  PROVE  Len(errs'[s]) \in Nat /\ Len(errs'[s]) <= Len(errs[s]) + 1
<1>1. errs[s] \in Seq(0..Len(Lines)) /\ errs \in [Streams -> Seq(0..Len(Lines))]
  BY DEF PInv, AInv, TInv, ATypeOK
<1>2. /\ Len(errs[s]) \in Nat
      /\ Len(Append(errs[s], e)) = Len(errs[s]) + 1
  BY <1>1, AppendFacts
<1>3. errs'[s] = errs[s] \/ errs'[s] = Append(errs[s], e)
  BY <1>1 DEF SendErr
<1>4. QED
  BY <1>2, <1>3

\* What a step of the adapter's goroutine does: it goes on in the same line,
\* or to the next one.
LEMMA AdapterFalls ==
  ASSUME PInv, PInv', NEW s \in Streams, file' = file,
         \/ /\ pos'[s] = pos[s]
            /\ AdapterRank(s)' + 2 * Len(errs'[s]) < AdapterRank(s) + 2 * Len(errs[s])
         \/ /\ pos'[s] = pos[s] + 1
            /\ AdapterRank(s)' + 2 * Len(errs'[s]) < AdapterRank(s) + 2 * Len(errs[s]) + 6
  PROVE  AdapterWork(s)' < AdapterWork(s)
<1>1. /\ Len(Lines) \in Nat /\ pos[s] \in Nat /\ Len(errs[s]) \in Nat
      /\ AdapterRank(s) \in Nat
  BY WorkIsNat, RanksAreNat
<1>2. AdapterRank(s)' \in Nat /\ Len(errs'[s]) \in Nat
  <2>1. errs'[s] \in Seq(0..Len(Lines'))
    BY DEF PInv, AInv, TInv, ATypeOK
  <2>2. QED
    BY <2>1 DEF AdapterRank
<1>3. Lines' = Lines
  BY SameLines
<1> DEFINE l == Len(Lines)
           p == pos[s]
           q == pos'[s]
           r == AdapterRank(s) + 2 * Len(errs[s])
           r2 == AdapterRank(s)' + 2 * Len(errs'[s])
<1>4. AdapterWork(s) = 6 * (l + 1 - p) + r /\ AdapterWork(s)' = 6 * (l + 1 - q) + r2
  <2>1. AdapterWork(s) = 6 * (l + 1 - p) + r
    BY <1>1 DEF AdapterWork
  <2>2. AdapterWork(s)' = 6 * (l + 1 - q) + r2
    <3>1. pos'[s] \in Nat
      BY <1>1
    <3>2. QED
      BY <1>1, <1>2, <1>3, <3>1 DEF AdapterWork
  <2>3. QED
    BY <2>1, <2>2
<1>5. l \in Nat /\ p \in Nat /\ r \in Nat /\ r2 \in Nat
  BY <1>1, <1>2
<1>6. (q = p /\ r2 < r) \/ (q = p + 1 /\ r2 < r + 6)
  OBVIOUS
<1> HIDE DEF l, p, q, r, r2
<1>7. QED
  BY <1>4, <1>5, <1>6

LEMMA AdapterWorks ==
  ASSUME PInv, PInv', NEW s \in Streams, Adapter(s)
  PROVE  /\ AdapterWork(s)' < AdapterWork(s)
         /\ subDone[s] => subDone'[s]
         /\ UNCHANGED <<file, ctxDone, cpc>>
         /\ \A t \in Streams : t # s => /\ apc'[t] = apc[t] /\ pos'[t] = pos[t]
                                        /\ errs'[t] = errs[t] /\ subDone'[t] = subDone[t]
<1> USE DEF AGoto
<1>t. /\ apc \in [Streams -> {"unborn", "open", "scan", "line", "send", "closeErrs",
                              "closeEx", "cancel", "ended"}]
      /\ DOMAIN pos = Streams /\ DOMAIN errs = Streams /\ DOMAIN subDone = Streams
      /\ pos[s] \in Nat /\ Len(errs[s]) \in Nat /\ Len(Lines) \in Nat
  BY WorkIsNat DEF PInv, AInv, TInv, ATypeOK
<1>o. UNCHANGED <<file, ctxDone, cpc>>
  BY DEF Adapter, Open, Scan, Line, GiveUp, CloseErrs, CloseEx, CancelSub, closeVars
<1>p. \A t \in Streams : t # s => /\ apc'[t] = apc[t] /\ pos'[t] = pos[t]
                                  /\ errs'[t] = errs[t] /\ subDone'[t] = subDone[t]
  BY <1>t DEF Adapter, Open, Scan, Line, NextLine, GiveUp, CloseErrs, CloseEx, CancelSub, SendErr
<1>d. subDone[s] => subDone'[s]
  BY <1>t DEF Adapter, Open, Scan, Line, GiveUp, CloseErrs, CloseEx, CancelSub
<1>1. CASE Open(s)
  <2>1. apc[s] = "open" /\ pos'[s] = pos[s]
    BY <1>1 DEF Open
  <2>2. CASE apc'[s] = "closeErrs" /\ SendErr(s, 0)
    <3>1. Len(errs'[s]) \in Nat /\ Len(errs'[s]) <= Len(errs[s]) + 1
      BY <1>t, <2>2, OneMoreError
    <3>2. AdapterRank(s) = 9 /\ AdapterRank(s)' = 3
      BY <2>1, <2>2 DEF AdapterRank
    <3>3. QED
      BY <1>t, <1>o, <1>p, <1>d, <2>1, <3>1, <3>2, AdapterFalls
  <2>3. CASE apc'[s] = "scan" /\ errs' = errs
    <3>1. AdapterRank(s) = 9 /\ AdapterRank(s)' = 8
      BY <2>1, <2>3 DEF AdapterRank
    <3>2. QED
      BY <1>t, <1>o, <1>p, <1>d, <2>1, <2>3, <3>1, AdapterFalls
  <2>4. QED
    BY <1>1, <1>t, <2>2, <2>3 DEF Open
<1>2. CASE Scan(s)
  <2>1. apc[s] = "scan" /\ pos'[s] = pos[s]
    BY <1>2 DEF Scan
  <2>2. CASE apc'[s] = "closeErrs" /\ pos[s] \in DOMAIN Lines /\ SendErr(s, pos[s])
    <3>1. pos[s] \in 0..Len(Lines)
      BY <2>2, <1>t, LinesSeq DEF PInv, AInv, TInv, ATypeOK
    <3>2. Len(errs'[s]) \in Nat /\ Len(errs'[s]) <= Len(errs[s]) + 1
      BY <2>2, <3>1, OneMoreError
    <3>3. AdapterRank(s) = 8 /\ AdapterRank(s)' = 3
      BY <2>1, <2>2 DEF AdapterRank
    <3>4. QED
      BY <1>t, <1>o, <1>p, <1>d, <2>1, <3>2, <3>3, AdapterFalls
  <2>3. CASE apc'[s] \in {"closeErrs", "line"} /\ errs' = errs
    <3>1. AdapterRank(s) = 8 /\ AdapterRank(s)' \in {3, 7}
      BY <2>1, <2>3 DEF AdapterRank
    <3>2. QED
      BY <1>t, <1>o, <1>p, <1>d, <2>1, <2>3, <3>1, AdapterFalls
  <2>4. QED
    BY <1>2, <1>t, <2>2, <2>3 DEF Scan
<1>3. CASE Line(s)
  <2>1. apc[s] = "line"
    BY <1>3 DEF Line
  <2>2. CASE NextLine(s) /\ SendErr(s, pos[s])
    <3>1. pos[s] \in 0..Len(Lines)
      BY <2>1, <1>t, LinesSeq DEF PInv, AInv, TInv, ATypeOK, Placed
    <3>2. Len(errs'[s]) \in Nat /\ Len(errs'[s]) <= Len(errs[s]) + 1
      BY <2>2, <3>1, OneMoreError
    <3>3. AdapterRank(s) = 7 /\ AdapterRank(s)' = 8 /\ pos'[s] = pos[s] + 1
      BY <1>t, <2>1, <2>2 DEF AdapterRank, NextLine
    <3>4. QED
      BY <1>t, <1>o, <1>p, <1>d, <3>2, <3>3, AdapterFalls
  <2>3. CASE NextLine(s) /\ errs' = errs
    <3>1. AdapterRank(s) = 7 /\ AdapterRank(s)' = 8 /\ pos'[s] = pos[s] + 1
      BY <1>t, <2>1, <2>3 DEF AdapterRank, NextLine
    <3>2. QED
      BY <1>t, <1>o, <1>p, <1>d, <2>3, <3>1, AdapterFalls
  <2>4. CASE apc'[s] = "send" /\ errs' = errs /\ pos' = pos
    <3>1. AdapterRank(s) = 7 /\ AdapterRank(s)' = 6
      BY <2>1, <2>4 DEF AdapterRank
    <3>2. QED
      BY <1>t, <1>o, <1>p, <1>d, <2>4, <3>1, AdapterFalls
  <2>5. QED
    BY <1>3, <1>t, <2>2, <2>3, <2>4 DEF Line
<1>4. CASE GiveUp(s) \/ CloseErrs(s) \/ CloseEx(s) \/ CancelSub(s)
  <2>1. pos' = pos /\ errs' = errs
    BY <1>4 DEF GiveUp, CloseErrs, CloseEx, CancelSub
  <2>2. AdapterRank(s)' < AdapterRank(s)
    BY <1>4, <1>t DEF GiveUp, CloseErrs, CloseEx, CancelSub, AdapterRank
  <2>3. AdapterRank(s) \in Nat /\ AdapterRank(s)' \in Nat
    BY DEF AdapterRank
  <2>4. QED
    BY <1>t, <1>o, <1>p, <1>d, <2>1, <2>2, <2>3, AdapterFalls
<1>5. QED
  BY <1>1, <1>2, <1>3, <1>4 DEF Adapter
WorkNat == \A s \in Streams : /\ AdapterWork(s) \in Nat /\ ConverterWork(s) \in Nat
                              /\ CallerWork(s) \in Nat

LEMMA WorkTyped == PInv => WorkNat
BY WorkIsNat DEF WorkNat

LEMMA WorkTypedNext == PInv' => WorkNat'
BY WorkTyped, PTL

\* The converter leaves a step of its loops, with the buffers as they are.
LEMMA ConverterMoves ==
  ASSUME PInv, PInv', NEW s \in Streams, UNCHANGED avars, UNCHANGED <<errOut, consumerVars>>,
         ConverterRank(s)' < ConverterRank(s)
  PROVE  Work(s)' < Work(s)
<1>1. AdapterWork(s)' = AdapterWork(s) /\ CallerWork(s)' = CallerWork(s)
  BY SameLines DEF avars, adapterVars, consumerVars, AdapterWork, AdapterRank, CallerWork
<1>2. ConverterWork(s)' < ConverterWork(s)
  <2>1. /\ ConverterRank(s) \in Nat /\ Len(errOut[s]) \in Nat /\ errOut' = errOut
    BY WorkIsNat, RanksAreNat
  <2>2. ConverterRank(s)' \in Nat
    BY DEF ConverterRank
  <2>3. QED
    BY <2>1, <2>2 DEF ConverterWork
<1>3. AdapterWork(s) \in Nat /\ ConverterWork(s) \in Nat /\ CallerWork(s) \in Nat
  BY WorkIsNat
<1>4. ConverterWork(s)' \in Nat
  BY WorkTypedNext DEF WorkNat
<1>5. QED
  BY <1>1, <1>2, <1>3, <1>4 DEF Work

\* An error leaves errs, and may enter errOut.
LEMMA ErrorMoves ==
  ASSUME PInv, PInv', NEW s \in Streams, TakeErr(s), vpc' = vpc, gone' = gone,
         Len(errOut'[s]) <= Len(errOut[s]) + 1
  PROVE  Work(s)' < Work(s)
<1>1. /\ errs[s] \in Seq(0..Len(Lines)) /\ errs[s] # <<>> /\ errs'[s] = Tail(errs[s])
      /\ UNCHANGED <<file, ctxDone, subDone, apc, pos>>
  BY DEF TakeErr, PInv, AInv, TInv, ATypeOK
<1>2. Len(errs'[s]) = Len(errs[s]) - 1 /\ Len(errs[s]) \in Nat
  BY <1>1, TailFacts
<1>3. AdapterRank(s)' = AdapterRank(s)
  BY <1>1 DEF AdapterRank
<1>4. AdapterWork(s)' = AdapterWork(s) - 2
  <2>1. /\ Len(Lines) \in Nat /\ pos[s] \in Nat /\ AdapterRank(s) \in Nat
    BY WorkIsNat, RanksAreNat
  <2>2. Lines' = Lines
    BY <1>1, SameLines
  <2>3. AdapterWork(s)' = 6 * (Len(Lines) + 1 - pos[s]) + AdapterRank(s) + 2 * (Len(errs[s]) - 1)
    BY <1>1, <1>2, <1>3, <2>2 DEF AdapterWork
  <2>4. QED
    BY <1>2, <2>1, <2>3 DEF AdapterWork
<1>5. ConverterWork(s)' <= ConverterWork(s) + 1
  <2>1. ConverterRank(s)' = ConverterRank(s)
    BY DEF ConverterRank
  <2>2. /\ ConverterRank(s) \in Nat /\ Len(errOut[s]) \in Nat
    BY WorkIsNat, RanksAreNat
  <2>3. errOut'[s] \in Seq(0..Len(Lines'))
    BY DEF PInv, PTypes
  <2>4. Len(errOut'[s]) \in Nat
    BY <2>3
  <2>5. QED
    BY <2>1, <2>2, <2>4 DEF ConverterWork
<1>6. CallerWork(s)' = CallerWork(s)
  BY <1>1 DEF CallerWork
<1>7. AdapterWork(s) \in Nat /\ ConverterWork(s) \in Nat /\ CallerWork(s) \in Nat
  BY WorkIsNat
<1>8. AdapterWork(s)' \in Nat /\ ConverterWork(s)' \in Nat
  BY WorkTypedNext DEF WorkNat
<1>9. QED
  BY <1>4, <1>5, <1>6, <1>7, <1>8 DEF Work

\* The caller cancels, the cancellation arrives, or the consumer leaves.
LEMMA CallerMoves ==
  ASSUME PInv, PInv', NEW s \in Streams, CallerWork(s)' < CallerWork(s),
         UNCHANGED <<file, adapterVars, vpc, errOut>>
  PROVE  Work(s)' < Work(s)
<1>1. AdapterWork(s)' = AdapterWork(s) /\ ConverterWork(s)' = ConverterWork(s)
  BY SameLines DEF adapterVars, AdapterWork, AdapterRank, ConverterWork, ConverterRank
<1>2. AdapterWork(s) \in Nat /\ ConverterWork(s) \in Nat /\ CallerWork(s) \in Nat
  BY WorkIsNat
<1>3. CallerWork(s)' \in Nat
  BY WorkTypedNext DEF WorkNat
<1>4. QED
  BY <1>1, <1>2, <1>3 DEF Work
LEMMA StartWorks ==
  ASSUME PInv, PInv', NEW s \in Streams, SInv(s), Start(s)
  PROVE  Work(s)' < Work(s)
<1>1. /\ apc[s] = "unborn" /\ apc'[s] = "open" /\ vpc[s] = "unborn" /\ vpc'[s] = "select"
      /\ UNCHANGED <<file, ctxDone, pos, errs, errOut, gone>>
  BY DEF Start, Stream, AGoto, VGoto, consumerVars, PInv, AInv, TInv, ATypeOK, PTypes, SInv,
         ConverterInv
<1>2. AdapterWork(s)' = AdapterWork(s) - 2
  <2>1. /\ Len(Lines) \in Nat /\ pos[s] \in Nat /\ Len(errs[s]) \in Nat
    BY WorkIsNat
  <2>2. Lines' = Lines
    BY <1>1, SameLines
  <2>3. AdapterRank(s) = 11 /\ AdapterRank(s)' = 9
    BY <1>1 DEF AdapterRank
  <2>4. AdapterWork(s)' = 6 * (Len(Lines) + 1 - pos[s]) + 9 + 2 * Len(errs[s])
    BY <1>1, <2>2, <2>3 DEF AdapterWork
  <2>5. QED
    BY <2>1, <2>3, <2>4 DEF AdapterWork
<1>3. ConverterWork(s)' = ConverterWork(s)
  BY <1>1 DEF ConverterWork, ConverterRank
<1>4. CallerWork(s)' <= CallerWork(s) + 1
  BY <1>1 DEF CallerWork
<1>5. AdapterWork(s) \in Nat /\ ConverterWork(s) \in Nat /\ CallerWork(s) \in Nat
  BY WorkIsNat
<1>6. CallerWork(s)' \in Nat
  BY WorkTypedNext DEF WorkNat
<1>7. QED
  BY <1>2, <1>3, <1>4, <1>5, <1>6 DEF Work

LEMMA ReceiveWorks ==
  ASSUME PInv, PInv', NEW s \in Streams, Receive(s)
  PROVE  Work(s)' < Work(s)
<1>1. /\ apc[s] = "send" /\ apc'[s] = "scan" /\ pos'[s] = pos[s] + 1
      /\ vpc[s] = "select" /\ vpc'[s] = "offer"
      /\ UNCHANGED <<file, ctxDone, subDone, errs, errOut, gone>>
  BY DEF Receive, Give, NextLine, AGoto, VGoto, consumerVars, PInv, AInv, TInv, ATypeOK, PTypes
<1>2. AdapterWork(s)' = AdapterWork(s) - 4
  <2>1. /\ Len(Lines) \in Nat /\ pos[s] \in Nat /\ Len(errs[s]) \in Nat
    BY WorkIsNat
  <2>2. Lines' = Lines
    BY <1>1, SameLines
  <2>3. AdapterRank(s) = 6 /\ AdapterRank(s)' = 8
    BY <1>1 DEF AdapterRank
  <2>4. AdapterWork(s)' = 6 * (Len(Lines) + 1 - (pos[s] + 1)) + 8 + 2 * Len(errs[s])
    BY <1>1, <2>2, <2>3 DEF AdapterWork
  <2>5. QED
    BY <2>1, <2>3, <2>4 DEF AdapterWork
<1>3. ConverterWork(s)' = ConverterWork(s) + 1
  <2>1. ConverterRank(s) = 5 /\ ConverterRank(s)' = 6 /\ Len(errOut[s]) \in Nat
    BY <1>1, WorkIsNat DEF ConverterRank
  <2>2. QED
    BY <1>1, <2>1 DEF ConverterWork
<1>4. CallerWork(s)' = CallerWork(s)
  BY <1>1 DEF CallerWork
<1>5. AdapterWork(s) \in Nat /\ ConverterWork(s) \in Nat /\ CallerWork(s) \in Nat
  BY WorkIsNat
<1>6. QED
  BY <1>2, <1>3, <1>4, <1>5 DEF Work

LEMMA ConverterWorks ==
  ASSUME PInv, PInv', NEW s \in Streams, Convert(s)
  PROVE  Work(s)' < Work(s)
<1> USE DEF VGoto, consumerVars
<1>t. vpc \in [Streams -> ConverterSteps]
  BY DEF PInv, PTypes
<1>1. CASE Receive(s)
  BY <1>1, ReceiveWorks
<1>2. CASE SrcClosed(s) \/ Abandon(s) \/ ErrsDrained(s) \/ CloseErrOut(s) \/ CloseOut(s)
  <2>1. UNCHANGED <<avars, errOut, consumerVars>>
    BY <1>2 DEF SrcClosed, Abandon, ErrsDrained, CloseErrOut, CloseOut
  <2>2. ConverterRank(s)' < ConverterRank(s)
    BY <1>2, <1>t DEF SrcClosed, Abandon, ErrsDrained, CloseErrOut, CloseOut, ConverterRank
  <2>3. QED
    BY <2>1, <2>2, ConverterMoves
<1>3. CASE Relay(s) \/ ForwardRest(s)
  <2>1. Forward(s) /\ UNCHANGED <<vpc, gone>>
    BY <1>3 DEF Relay, ForwardRest
  <2>2. Len(errOut'[s]) <= Len(errOut[s]) + 1
    <3>1. errOut \in [Streams -> Seq(0..Len(Lines))] /\ errs[s] \in Seq(0..Len(Lines))
      BY DEF PInv, AInv, TInv, ATypeOK, PTypes
    <3>2. errs[s] # <<>>
      BY <2>1 DEF Forward, TakeErr
    <3>3. Head(errs[s]) \in 0..Len(Lines)
      BY <3>1, <3>2, TailFacts
    <3>4. /\ Len(errOut[s]) \in Nat
          /\ Len(Append(errOut[s], Head(errs[s]))) = Len(errOut[s]) + 1
      BY <3>1, <3>3, AppendFacts
    <3>5. errOut'[s] = errOut[s] \/ errOut'[s] = Append(errOut[s], Head(errs[s]))
      BY <2>1, <3>1 DEF Forward
    <3>6. QED
      BY <3>4, <3>5
  <2>3. QED
    BY <2>1, <2>2, ErrorMoves DEF Forward
<1>4. CASE Discard(s)
  <2>1. TakeErr(s) /\ UNCHANGED <<vpc, errOut, gone>> /\ Len(errOut[s]) \in Nat
    BY <1>4, WorkIsNat DEF Discard, converterVars
  <2>2. QED
    BY <2>1, ErrorMoves
<1>5. QED
  BY <1>1, <1>2, <1>3, <1>4 DEF Convert

LEMMA ConsumerWorks ==
  ASSUME PInv, PInv', NEW s \in Streams, Deliver(s) \/ ReadErr(s) \/ Walk(s)
  PROVE  Work(s)' < Work(s)
<1>1. UNCHANGED avars
  BY DEF Deliver, ReadErr, Walk
<1>2. AdapterWork(s)' = AdapterWork(s)
  BY <1>1, SameLines DEF avars, adapterVars, AdapterWork, AdapterRank
<1>t. /\ vpc \in [Streams -> ConverterSteps] /\ DOMAIN gone = Streams
      /\ errOut \in [Streams -> Seq(0..Len(Lines))]
  BY DEF PInv, PTypes
<1>n. /\ Len(errOut[s]) \in Nat /\ ConverterRank(s) \in Nat
      /\ AdapterWork(s) \in Nat /\ ConverterWork(s) \in Nat /\ CallerWork(s) \in Nat
  BY WorkIsNat, RanksAreNat
<1>3. CASE Deliver(s)
  <2>1. /\ vpc[s] = "offer" /\ vpc'[s] = "select" /\ UNCHANGED <<errOut, gone>>
    BY <1>3, <1>t DEF Deliver, VGoto
  <2>2. ConverterRank(s) = 6 /\ ConverterRank(s)' = 5
    BY <2>1 DEF ConverterRank
  <2>3. ConverterWork(s)' < ConverterWork(s)
    BY <1>n, <2>1, <2>2 DEF ConverterWork
  <2>4. CallerWork(s)' = CallerWork(s)
    BY <1>1, <2>1 DEF CallerWork, avars
  <2>5. ConverterWork(s)' \in Nat
    BY WorkTypedNext DEF WorkNat
  <2>6. QED
    BY <1>2, <1>n, <2>3, <2>4, <2>5 DEF Work
<1>4. CASE ReadErr(s)
  <2>1. /\ errOut[s] # <<>> /\ errOut'[s] = Tail(errOut[s]) /\ UNCHANGED <<vpc, gone>>
    BY <1>4, <1>t DEF ReadErr
  <2>2. Len(errOut'[s]) = Len(errOut[s]) - 1
    BY <1>t, <2>1, TailFacts
  <2>3. ConverterRank(s)' = ConverterRank(s)
    BY <2>1 DEF ConverterRank
  <2>4. ConverterWork(s)' < ConverterWork(s)
    BY <1>n, <2>2, <2>3 DEF ConverterWork
  <2>5. CallerWork(s)' = CallerWork(s)
    BY <1>1, <2>1 DEF CallerWork, avars
  <2>6. ConverterWork(s)' \in Nat
    BY WorkTypedNext DEF WorkNat
  <2>7. QED
    BY <1>2, <1>n, <2>4, <2>5, <2>6 DEF Work
<1>5. CASE Walk(s)
  <2>1. ~gone[s] /\ gone'[s] /\ UNCHANGED <<vpc, errOut>>
    BY <1>5, <1>t DEF Walk, converterVars
  <2>2. CallerWork(s)' < CallerWork(s)
    BY <1>1, <2>1 DEF CallerWork, avars
  <2>3. QED
    BY <1>1, <2>1, <2>2, CallerMoves DEF avars
<1>6. QED
  BY <1>3, <1>4, <1>5

LEMMA AloneWorks ==
  ASSUME PInv, PInv', NEW s \in Streams, Alone(s)
  PROVE  Work(s)' < Work(s)
<1>1. CASE Adapter(s)
  <2>1. AdapterWork(s)' < AdapterWork(s)
    BY <1>1, AdapterWorks
  <2>2. ConverterWork(s)' = ConverterWork(s)
    BY DEF Alone, converterVars, ConverterWork, ConverterRank
  <2>3. CallerWork(s)' <= CallerWork(s)
    <3>1. ctxDone' = ctxDone /\ (subDone[s] => subDone'[s]) /\ gone' = gone
      BY <1>1, AdapterWorks DEF Alone, consumerVars
    <3>2. QED
      BY <3>1 DEF CallerWork
  <2>4. /\ AdapterWork(s) \in Nat /\ ConverterWork(s) \in Nat /\ CallerWork(s) \in Nat
        /\ AdapterWork(s)' \in Nat /\ CallerWork(s)' \in Nat
    BY WorkIsNat, WorkTypedNext DEF WorkNat
  <2>5. QED
    BY <2>1, <2>2, <2>3, <2>4 DEF Work
<1>2. CASE CancelCtx(s) \/ Propagate(s)
  <2>1. UNCHANGED <<file, adapterVars, vpc, errOut, gone>>
    BY <1>2 DEF CancelCtx, Propagate, Alone, converterVars, consumerVars
  <2>2. CallerWork(s)' < CallerWork(s)
    BY <1>2, <2>1 DEF CancelCtx, Propagate, CallerWork, PInv, AInv, TInv, ATypeOK
  <2>3. QED
    BY <2>1, <2>2, CallerMoves
<1>3. QED
  BY <1>1, <1>2 DEF Alone
\* A step of one stream leaves the others as they are.
LEMMA StreamWorks ==
  ASSUME PInv, PInv', NEW s \in Streams, SInv(s),
         Start(s) \/ Convert(s) \/ Deliver(s) \/ ReadErr(s) \/ Walk(s) \/ Alone(s)
  PROVE  /\ Work(s)' < Work(s)
         /\ \A t \in Streams : t # s => Work(t)' <= Work(t)
         /\ cpc' = cpc
<1> USE DEF AGoto, VGoto, converterVars, consumerVars
<1>t. /\ DOMAIN apc = Streams /\ DOMAIN pos = Streams /\ DOMAIN errs = Streams
      /\ DOMAIN subDone = Streams /\ DOMAIN ctxDone = Streams
      /\ DOMAIN vpc = Streams /\ DOMAIN errOut = Streams /\ DOMAIN gone = Streams
  BY DEF PInv, AInv, TInv, ATypeOK, PTypes
<1>1. Work(s)' < Work(s)
  BY StartWorks, ConverterWorks, ConsumerWorks, AloneWorks
<1>2. CASE Start(s)
  <2>1. ASSUME NEW t \in Streams, t # s PROVE SameWork(t)
    BY <1>2, <1>t, <2>1 DEF Start, Stream, SameWork
  <2>2. cpc' = cpc
    BY <1>2 DEF Start, Stream, closeVars
  <2>3. QED
    BY <1>1, <2>1, <2>2, NoMoreWork
<1>3. CASE Convert(s)
  <2>1. ASSUME NEW t \in Streams, t # s PROVE SameWork(t)
    <3>1. CASE Receive(s)
      BY <1>t, <2>1, <3>1 DEF Receive, Give, NextLine, SameWork
    <3>2. CASE Relay(s) \/ ForwardRest(s) \/ Discard(s)
      BY <1>t, <2>1, <3>2 DEF Relay, ForwardRest, Discard, Forward, TakeErr, SameWork
    <3>3. CASE SrcClosed(s) \/ Abandon(s) \/ ErrsDrained(s) \/ CloseErrOut(s) \/ CloseOut(s)
      BY <1>t, <2>1, <3>3 DEF SrcClosed, Abandon, ErrsDrained, CloseErrOut, CloseOut, SameWork,
         avars, adapterVars
    <3>4. QED
      BY <1>3, <3>1, <3>2, <3>3 DEF Convert
  <2>2. cpc' = cpc
    BY <1>3 DEF Convert, Receive, Relay, ForwardRest, Discard, Forward, TakeErr, Give,
       SrcClosed, Abandon, ErrsDrained, CloseErrOut, CloseOut, avars, closeVars
  <2>3. QED
    BY <1>1, <2>1, <2>2, NoMoreWork
<1>4. CASE Deliver(s) \/ ReadErr(s) \/ Walk(s)
  <2>1. ASSUME NEW t \in Streams, t # s PROVE SameWork(t)
    BY <1>4, <1>t, <2>1 DEF Deliver, ReadErr, Walk, SameWork, avars, adapterVars
  <2>2. cpc' = cpc
    BY <1>4 DEF Deliver, ReadErr, Walk, avars, closeVars
  <2>3. QED
    BY <1>1, <2>1, <2>2, NoMoreWork
<1>5. CASE Alone(s)
  <2>1. CASE Adapter(s)
    <3>1. ASSUME NEW t \in Streams, t # s PROVE SameWork(t)
      BY <1>5, <2>1, <3>1, AdapterWorks DEF Alone, SameWork
    <3>2. QED
      BY <1>1, <2>1, <3>1, AdapterWorks, NoMoreWork
  <2>2. CASE CancelCtx(s) \/ Propagate(s)
    <3>1. ASSUME NEW t \in Streams, t # s PROVE SameWork(t)
      BY <1>5, <1>t, <2>2, <3>1 DEF CancelCtx, Propagate, Alone, SameWork, adapterVars
    <3>2. cpc' = cpc
      BY <2>2 DEF CancelCtx, Propagate, closeVars
    <3>3. QED
      BY <1>1, <3>1, <3>2, NoMoreWork
  <2>3. QED
    BY <1>5, <2>1, <2>2 DEF Alone
<1>6. QED
  BY <1>2, <1>3, <1>4, <1>5

LEMMA CloserWorks ==
  ASSUME PInv, PInv', NEW c \in Closers, Closing(c)
  PROVE  /\ CloseWork(c)' < CloseWork(c)
         /\ \A d \in Closers : d # c => CloseWork(d)' = CloseWork(d)
         /\ \A s \in Streams : Work(s)' <= Work(s)
<1> USE DEF CGoto, converterVars, consumerVars, adapterVars
<1>t. cpc \in [Closers -> {"idle", "read", "call", "wait", "returned"}]
  BY DEF PInv, AInv, TInv, ATypeOK
<1>1. CloseWork(c)' < CloseWork(c)
  BY <1>t DEF Closing, Close, Closer, ReadStop, CallStop, CloseWaited, CloseWork
<1>2. \A d \in Closers : d # c => CloseWork(d)' = CloseWork(d)
  BY <1>t DEF Closing, Close, Closer, ReadStop, CallStop, CloseWaited, CloseWork
<1>3. ASSUME NEW s \in Streams PROVE SameWork(s)
  BY DEF Closing, Close, Closer, ReadStop, CallStop, CloseWaited, SameWork
<1>4. QED
  BY <1>1, <1>2, <1>3, NoMoreWork

LEMMA CloseWorkIsNat == \A c \in Closers : CloseWork(c) \in Nat
BY DEF CloseWork

\* No stream ever has more work than it starts with.
Bounded == \A s \in Streams : Work(s) <= 6 * Len(Lines) + 19

LEMMA BoundedInit == Init => Bounded
<1> SUFFICES ASSUME Init, NEW s \in Streams PROVE Work(s) <= 6 * Len(Lines) + 19
  BY DEF Bounded
<1>1. Len(Lines) \in Nat
  BY LinesSeq DEF Init, AInit
<1>2. /\ pos[s] = 1 /\ Len(errs[s]) = 0 /\ AdapterRank(s) = 11
      /\ Len(errOut[s]) = 0 /\ ConverterRank(s) = 5
      /\ CallerWork(s) = 3
  BY DEF Init, AInit, AdapterRank, ConverterRank, CallerWork
<1>3. AdapterWork(s) = 6 * Len(Lines) + 11
  BY <1>1, <1>2 DEF AdapterWork
<1>4. ConverterWork(s) = 5
  BY <1>2 DEF ConverterWork
<1>5. QED
  BY <1>1, <1>2, <1>3, <1>4 DEF Work

\* No step adds work, and each uses some up.
NoMoreAndSomeLess ==
  /\ \A s \in Streams : Work(s)' <= Work(s)
  /\ \A c \in Closers : CloseWork(c)' <= CloseWork(c)
  /\ \/ \E s \in Streams : Work(s)' < Work(s)
     \/ \E c \in Closers : CloseWork(c)' < CloseWork(c)

UsesUpWork ==
  /\ \A s \in Streams : Work(s) \in 0..(6 * Len(Lines) + 19)
  /\ \A c \in Closers : CloseWork(c) \in 0..3
  /\ NoMoreAndSomeLess

LEMMA StepUsesUpWork ==
  ASSUME PInv, PInv', \A s \in Streams : SInv(s), Bounded, Next,
         \A s \in Streams : ~Continue(s)
  PROVE  UsesUpWork /\ Bounded'
<1>1. \A s \in Streams : Work(s) \in Nat /\ Work(s) \in 0..(6 * Len(Lines) + 19)
  <2>1. Len(Lines) \in Nat
    BY LinesSeq DEF PInv, AInv, TInv, ATypeOK
  <2>2. QED
    BY <2>1, WorkIsNat DEF Bounded
<1>2. \A c \in Closers : CloseWork(c) \in 0..3 /\ CloseWork(c)' \in 0..3
  BY DEF CloseWork
<1>3. NoMoreAndSomeLess
  <2>1. ASSUME NEW s \in Streams,
               Start(s) \/ Convert(s) \/ Deliver(s) \/ ReadErr(s) \/ Walk(s) \/ Alone(s)
        PROVE  NoMoreAndSomeLess
    <3>1. /\ Work(s)' < Work(s) /\ cpc' = cpc
          /\ \A t \in Streams : t # s => Work(t)' <= Work(t)
      BY <2>1, StreamWorks
    <3>2. \A c \in Closers : CloseWork(c)' = CloseWork(c)
      BY <3>1 DEF CloseWork
    <3>3. Work(s)' \in Nat
      BY WorkTypedNext DEF WorkNat, Work
    <3>4. QED
      BY <1>1, <1>2, <3>1, <3>2, <3>3 DEF NoMoreAndSomeLess
  <2>2. ASSUME NEW c \in Closers, Closing(c) PROVE NoMoreAndSomeLess
    <3>1. /\ CloseWork(c)' < CloseWork(c)
          /\ \A d \in Closers : d # c => CloseWork(d)' = CloseWork(d)
          /\ \A s \in Streams : Work(s)' <= Work(s)
      BY <2>2, CloserWorks
    <3>2. QED
      BY <1>2, <3>1 DEF NoMoreAndSomeLess
  <2>3. QED
    BY <2>1, <2>2 DEF Next
<1>4. UsesUpWork
  BY <1>1, <1>2, <1>3 DEF UsesUpWork
<1>5. Bounded'
  <2>1. Lines' = Lines
    BY AdapterInside, SameLines DEF ANext, Stream, Adapter, Open, Scan, Line, GiveUp, CloseErrs,
       CloseEx, CancelSub, Give, TakeErr, CancelCtx, Propagate, Close, Closer, ReadStop,
       CallStop, CloseWaited, avars
  <2>2. \A s \in Streams : Work(s)' \in Nat
    BY WorkTypedNext DEF WorkNat, Work
  <2>3. Len(Lines) \in Nat
    BY LinesSeq DEF PInv, AInv, TInv, ATypeOK
  <2>4. QED
    BY <1>1, <1>3, <2>1, <2>2, <2>3 DEF Bounded, NoMoreAndSomeLess
<1>6. QED
  BY <1>4, <1>5

\* Whatever the select of the converter picks, however the goroutines, the
\* consumer and the Closes interleave, and also when the context is cancelled in
\* the middle: a stream takes part in 19 steps and six for each line of its file
\* at most, not counting Continue, which changes nothing.  That one has no bound:
\* without select's fairness the converter may take it forever (see
\* ContinueCostsNothing for when, and at what price).
THEOREM WorkRunsOut == Spec => [][UsesUpWork]_vars
<1>1. PInv /\ PInv' /\ (\A s \in Streams : SInv(s)) /\ Bounded /\ [Next]_vars
        => Bounded' /\ [UsesUpWork]_vars
  <2>1. ASSUME UNCHANGED vars, PInv, PInv', Bounded PROVE Bounded'
    <3>1. \A s \in Streams : SameWork(s)
      BY <2>1 DEF vars, avars, adapterVars, converterVars, consumerVars, SameWork
    <3>2. \A s \in Streams : Work(s)' <= Work(s)
      BY <2>1, <3>1, NoMoreWork
    <3>3. Lines' = Lines
      BY <2>1, SameLines DEF vars, avars
    <3>4. \A s \in Streams : Work(s) \in Nat /\ Work(s)' \in Nat
      BY <2>1, WorkIsNat, WorkTypedNext DEF WorkNat, Work
    <3>5. Len(Lines) \in Nat
      BY <2>1, LinesSeq DEF PInv, AInv, TInv, ATypeOK
    <3>6. QED
      BY <2>1, <3>2, <3>3, <3>4, <3>5 DEF Bounded
  <2>2. ASSUME NEW s \in Streams, Continue(s) PROVE UNCHANGED vars
    BY <2>2 DEF Continue
  <2>3. QED
    BY <2>1, <2>2, StepUsesUpWork
<1>2. QED
  BY <1>1, BoundedInit, PipelineTyped, PipelineInvariant, PTL DEF Spec
-----------------------------------------------------------------------------
(* ... and nothing stops halfway.                                          *)

\* The guards of the steps that fairness covers, read off the actions: of the
\* adapter (Scan and Line have an alternative for every line), of the
\* cancellation on its way, of the converter, of the delivery, of Close.
AdapterReady(s) ==
  \/ apc[s] \in {"open", "scan", "line", "closeErrs", "closeEx", "cancel"}
  \/ apc[s] = "send" /\ subDone[s]

PropagateReady(s) == ctxDone[s] /\ Alive(s) /\ ~subDone[s]

ConvertReady(s) ==
  \/ /\ vpc[s] = "select"
     /\ apc[s] = "send" \/ ExClosed(s) \/ errs[s] # <<>> \/ ctxDone[s]
  \/ vpc[s] = "offer" /\ ctxDone[s]
  \/ vpc[s] \in {"drain", "forward"} /\ (errs[s] # <<>> \/ ErrsClosed(s))
  \/ vpc[s] \in {"closeErrOut", "closeOut"}

DeliverReady(s) == vpc[s] = "offer" /\ ~gone[s]

CloserReady(c) == cpc[c] \in {"read", "call"} \/ (cpc[c] = "wait" /\ once = "spent")

AtRest(s) == ~AdapterReady(s) /\ ~PropagateReady(s) /\ ~ConvertReady(s) /\ ~DeliverReady(s)

\* A stream in which nobody can go on has not been started, or has ended on
\* both sides, or waits for a consumer that has left without cancelling; and
\* when no Close can go on none is inside Close.
OnlyTheConsumerBlocks ==
  /\ \A s \in Streams :
       AtRest(s) => \/ vpc[s] = "unborn" /\ apc[s] = "unborn"
                    \/ vpc[s] = "ended" /\ apc[s] = "ended"
                    \/ vpc[s] = "offer" /\ gone[s] /\ ~ctxDone[s]
  /\ (\A c \in Closers : ~CloserReady(c)) => \A c \in Closers : cpc[c] \in {"idle", "returned"}

\* Adapter, converter and Closes never wait for each other in a circle: once
\* everything that can move has moved, a stream has ended on both sides unless
\* its consumer left without cancelling (StreamAsTauExchanges: "Both output
\* channels are closed when the source stream drains or ctx is canceled").
THEOREM NobodyWaitsInACircle == Spec => []OnlyTheConsumerBlocks
<1>1. PInv /\ (\A s \in Streams : SInv(s)) /\ SomebodyCloses => OnlyTheConsumerBlocks
  <2> SUFFICES ASSUME PInv, \A s \in Streams : SInv(s), SomebodyCloses
               PROVE  OnlyTheConsumerBlocks
    OBVIOUS
  <2>1. ASSUME NEW s \in Streams, AtRest(s)
        PROVE  \/ vpc[s] = "unborn" /\ apc[s] = "unborn"
               \/ vpc[s] = "ended" /\ apc[s] = "ended"
               \/ vpc[s] = "offer" /\ gone[s] /\ ~ctxDone[s]
    <3>1. ConverterInv(s) /\ vpc[s] \in ConverterSteps
          /\ apc[s] \in {"unborn", "open", "scan", "line", "send", "closeErrs", "closeEx",
                         "cancel", "ended"}
      BY DEF SInv, PInv, PTypes, AInv, TInv, ATypeOK
    <3>2. apc[s] \in {"unborn", "ended"} \/ (apc[s] = "send" /\ ~subDone[s])
      BY <2>1, <3>1 DEF AtRest, AdapterReady
    <3>3. apc[s] = "send" => ~ctxDone[s]
      BY <2>1, <3>2 DEF AtRest, PropagateReady, Alive
    <3>4. QED
      BY <2>1, <3>1, <3>2, <3>3 DEF AtRest, ConvertReady, DeliverReady, ConverterInv, Last,
         ConverterSteps, ErrsClosed, ExClosed
  <2>2. ASSUME \A c \in Closers : ~CloserReady(c), NEW c \in Closers
        PROVE  cpc[c] \in {"idle", "returned"}
    <3>1. cpc[c] \in {"idle", "read", "call", "wait", "returned"}
      BY DEF PInv, AInv, TInv, ATypeOK
    <3>2. QED
      BY <2>2, <3>1 DEF CloserReady, SomebodyCloses
  <2>3. QED
    BY <2>1, <2>2 DEF OnlyTheConsumerBlocks
<1>2. Spec => []SomebodyCloses
  <2>1. Init => AInit
    BY DEF Init
  <2>2. QED
    BY <2>1, AdapterInside, WhoClosesIsThere, PTL DEF Spec, ASpec
<1>3. QED
  BY <1>1, <1>2, PipelineTyped, PipelineInvariant, PTL
-----------------------------------------------------------------------------
(* What has been seen by then.                                             *)

\* Every line asked for, once and in order.
AllSeen(s) ==
  /\ \A k \in Wanted(s) : \E i \in DOMAIN seen[s] : seen[s][i] = k
  /\ \A i \in DOMAIN seen[s] : seen[s][i] \in Wanted(s)
  /\ \A i, j \in DOMAIN seen[s] : i < j => seen[s][i] < seen[s][j]

\* A consumer that reads to the end, and nobody cancels.
AllSeenAtRest ==
  \A s \in Streams :
    /\ AtRest(s) /\ vpc[s] # "unborn"
    /\ ~gone[s] /\ ~ctxDone[s] /\ ~stopped[s]
    => AllSeen(s)

\* The stream of a consumer that stays, and that nobody cancels or closes, comes
\* to rest with every line of the file it asked for delivered, once and in order.
\* With WorkRunsOut, and a select that does not take Continue forever, that is
\* total correctness.
THEOREM ReadToTheEnd == Spec => []AllSeenAtRest
<1>1. PInv /\ (\A s \in Streams : SInv(s)) /\ OnlyTheConsumerBlocks => AllSeenAtRest
  <2> SUFFICES ASSUME PInv, \A s \in Streams : SInv(s), OnlyTheConsumerBlocks,
                      NEW s \in Streams,
                      AtRest(s), vpc[s] # "unborn", ~gone[s], ~ctxDone[s], ~stopped[s]
               PROVE  AllSeen(s)
    BY DEF AllSeenAtRest
  <2>1. vpc[s] = "ended" /\ apc[s] = "ended"
    BY DEF OnlyTheConsumerBlocks
  <2>2. seen[s] = given[s]
    BY <2>1 DEF SInv, ConverterInv, Last
  <2>3. OInv(s)
    BY DEF PInv, AInv
  <2>4. QED
    BY <2>1, <2>2, <2>3 DEF OInv, AllSeen
<1>2. QED
  BY <1>1, PipelineTyped, PipelineInvariant, NobodyWaitsInACircle, PTL

\* Where the converter may go round for nothing: the select has another branch
\* ready, or will when the adapter takes the step before it, close(ex); and unless
\* somebody cancelled or closed, everything asked for has been delivered.
NothingIsHeldBack ==
  \A s \in Streams :
    CanContinue(s) =>
      /\ (ConvertReady(s) /\ ExClosed(s)) \/ (AdapterReady(s) /\ apc[s] = "closeEx")
      /\ ~ctxDone[s] /\ ~stopped[s] => AllSeen(s)

\* It goes round until the select picks another branch: nothing else ends it.
GoesRound ==
  \A s \in Streams : CanContinue(s) => CanContinue(s)' \/ vpc[s]' \in {"forward", "drain"}

\* The loop of agentmesh.go:117 without a bound, the continue on a closed errs:
\* what it can put off, for as long as the select prefers it, is the close of out
\* and errOut, but no exchange of a stream that nobody cancelled or closed.
THEOREM ContinueCostsNothing == Spec => []NothingIsHeldBack /\ [][GoesRound]_vars
<1>1. PInv /\ (\A s \in Streams : SInv(s)) => NothingIsHeldBack
  <2> SUFFICES ASSUME PInv, \A s \in Streams : SInv(s), NEW s \in Streams, CanContinue(s)
               PROVE  /\ \/ ConvertReady(s) /\ ExClosed(s)
                         \/ AdapterReady(s) /\ apc[s] = "closeEx"
                      /\ ~ctxDone[s] /\ ~stopped[s] => AllSeen(s)
    BY DEF NothingIsHeldBack
  <2>1. vpc[s] = "select" /\ apc[s] \in {"closeEx", "cancel", "ended"}
    BY DEF CanContinue, ErrsClosed
  <2>2. seen[s] = given[s]
    BY <2>1 DEF SInv, ConverterInv
  <2>3. OInv(s)
    BY DEF PInv, AInv
  <2>4. (ConvertReady(s) /\ ExClosed(s)) \/ (AdapterReady(s) /\ apc[s] = "closeEx")
    BY <2>1 DEF ConvertReady, AdapterReady, ExClosed
  <2>5. ~ctxDone[s] /\ ~stopped[s] => AllSeen(s)
    BY <2>1, <2>2, <2>3 DEF OInv, AllSeen
  <2>6. QED
    BY <2>4, <2>5
<1>2. PInv /\ Next => GoesRound
  <2> SUFFICES ASSUME PInv, Next, NEW s \in Streams, CanContinue(s)
               PROVE  CanContinue(s)' \/ vpc[s]' \in {"forward", "drain"}
    BY DEF GoesRound
  <2>1. vpc[s] = "select" /\ apc[s] \in {"closeEx", "cancel", "ended"} /\ errs[s] = <<>>
    BY DEF CanContinue, ErrsClosed
  <2>2. /\ vpc \in [Streams -> ConverterSteps] /\ DOMAIN apc = Streams /\ DOMAIN errs = Streams
    BY DEF PInv, PTypes, AInv, TInv, ATypeOK
  <2> DEFINE MovesOn == vpc'[s] \in {"forward", "drain"}
             Stays == /\ vpc'[s] = "select" /\ errs'[s] = <<>>
                      /\ apc'[s] \in {"closeEx", "cancel", "ended"}
  <2>3. ASSUME NEW t \in Streams, Start(t) PROVE Stays
    BY <2>1, <2>2, <2>3 DEF Start, Stream, AGoto, VGoto
  <2>4. ASSUME NEW t \in Streams, Convert(t) PROVE Stays \/ MovesOn
    <3>1. ASSUME Receive(t) \/ Relay(t) \/ Discard(t) \/ ForwardRest(t) PROVE Stays
      <4>1. t # s
        BY <2>1, <3>1 DEF Receive, Give, Relay, Discard, ForwardRest, Forward, TakeErr
      <4>2. QED
        BY <2>1, <2>2, <3>1, <4>1 DEF Receive, Give, NextLine, AGoto, VGoto, Relay, Discard,
           ForwardRest, Forward, TakeErr, converterVars
    <3>2. ASSUME SrcClosed(t) \/ Abandon(t) PROVE Stays \/ MovesOn
      BY <2>1, <2>2, <3>2 DEF SrcClosed, Abandon, VGoto, avars, adapterVars
    <3>3. ASSUME ErrsDrained(t) \/ CloseErrOut(t) \/ CloseOut(t) PROVE Stays
      BY <2>1, <2>2, <3>3 DEF ErrsDrained, CloseErrOut, CloseOut, VGoto, avars, adapterVars
    <3>4. QED
      BY <2>4, <3>1, <3>2, <3>3 DEF Convert
  <2>5. ASSUME NEW t \in Streams, Continue(t) \/ Deliver(t) \/ ReadErr(t) \/ Walk(t) PROVE Stays
    BY <2>1, <2>2, <2>5 DEF Continue, Deliver, ReadErr, Walk, VGoto, vars, avars, adapterVars,
       converterVars
  <2>6. ASSUME NEW t \in Streams, Alone(t) PROVE Stays
    <3>1. ASSUME Adapter(t) PROVE apc'[s] \in {"closeEx", "cancel", "ended"} /\ errs'[s] = <<>>
      BY <2>1, <2>2, <3>1 DEF Adapter, Open, Scan, Line, GiveUp, CloseErrs, CloseEx, CancelSub,
         AGoto, NextLine, SendErr
    <3>2. QED
      BY <2>1, <2>6, <3>1 DEF Alone, CancelCtx, Propagate, adapterVars, converterVars
  <2>7. ASSUME NEW c \in Closers, Closing(c) PROVE Stays
    BY <2>1, <2>7 DEF Closing, Close, Closer, ReadStop, CallStop, CloseWaited, adapterVars,
       converterVars
  <2>8. Stays \/ MovesOn
    BY <2>3, <2>4, <2>5, <2>6, <2>7 DEF Next
  <2>9. QED
    BY <2>8 DEF CanContinue, ErrsClosed
<1>3. QED
  BY <1>1, <1>2, PipelineTyped, PipelineInvariant, PTL DEF Spec
=============================================================================
