------------------------- MODULE FileAdapterProofs -------------------------
(***************************************************************************)
(* Theorems about FileAdapter, for any files, any capacity of errs and any *)
(* number of Streams and Closes.                                           *)
(***************************************************************************)
EXTENDS FileAdapter, TLAPS

-----------------------------------------------------------------------------
(* Types, and where a stream stands in its file.                           *)

LEMMA LinesSeq ==
  ASSUME file \in Files \cup {Missing}
  PROVE  /\ Lines \in Seq(Topics \cup {Blank, Bad, TooLong})
         /\ Len(Lines) \in Nat /\ DOMAIN Lines = 1..Len(Lines)
<1>1. Lines \in Seq(Topics \cup {Blank, Bad, TooLong})
  BY LinesAssumption DEF Lines
<1>2. QED
  BY <1>1

\* The lines before pos have been read and the one at pos is being handled.
Placed(s) ==
  /\ apc[s] \in {"unborn", "open"} => pos[s] = 1
  /\ \A j \in 1..(pos[s] - 1) : j \in DOMAIN Lines /\ Lines[j] # TooLong
  /\ apc[s] \in {"line", "send"} => pos[s] \in DOMAIN Lines /\ Lines[pos[s]] # TooLong
  /\ apc[s] = "send" => Lines[pos[s]] \in Topics /\ Subscribed(s, Lines[pos[s]])

TInv == ATypeOK /\ \A s \in Streams : Placed(s)

LEMMA TInit == AInit => TInv
<1> SUFFICES ASSUME AInit PROVE TInv
  OBVIOUS
<1>1. Len(Lines) \in Nat
  BY LinesSeq DEF AInit
<1>2. topics \in [Streams -> SUBSET Topics]
  BY LinesAssumption DEF AInit
<1>3. \A s \in Streams : errs[s] = <<>> /\ given[s] = <<>> /\ Len(errs[s]) <= ErrCap
  BY StreamsAssumption DEF AInit
<1>4. ATypeOK
  BY <1>1, <1>2, <1>3 DEF AInit, ATypeOK
<1>5. QED
  BY <1>4 DEF AInit, TInv, Placed

LEMMA SameLines == file' = file => Lines' = Lines
BY DEF Lines

LEMMA AppendFacts ==
  ASSUME NEW S, NEW q \in Seq(S), NEW e \in S
  PROVE  /\ Append(q, e) \in Seq(S)
         /\ Len(q) \in Nat /\ Len(Append(q, e)) = Len(q) + 1
         /\ DOMAIN q = 1..Len(q) /\ DOMAIN Append(q, e) = 1..(Len(q) + 1)
         /\ \A i \in 1..Len(q) : Append(q, e)[i] = q[i]
         /\ Append(q, e)[Len(q) + 1] = e
OBVIOUS

LEMMA TailFacts ==
  ASSUME NEW S, NEW q \in Seq(S), q # <<>>
  PROVE  /\ Head(q) \in S /\ Tail(q) \in Seq(S)
         /\ Len(q) \in Nat \ {0} /\ Len(Tail(q)) = Len(q) - 1
         /\ DOMAIN q = 1..Len(q) /\ DOMAIN Tail(q) = 1..(Len(q) - 1)
         /\ Head(q) = q[1]
         /\ \A i \in 1..(Len(q) - 1) : Tail(q)[i] = q[i + 1]
OBVIOUS

\* errs keeps its type and its bound.
LEMMA SendErrType ==
  ASSUME ATypeOK, NEW s \in Streams, NEW e \in 0..Len(Lines), SendErr(s, e)
  PROVE  /\ errs' \in [Streams -> Seq(0..Len(Lines))]
         /\ \A t \in Streams : Len(errs'[t]) <= ErrCap
<1> DEFINE q == IF Len(errs[s]) < ErrCap THEN Append(errs[s], e) ELSE errs[s]
<1>1. errs[s] \in Seq(0..Len(Lines)) /\ Len(errs[s]) <= ErrCap
  BY DEF ATypeOK
<1>2. q \in Seq(0..Len(Lines)) /\ Len(q) <= ErrCap
  <2>1. Len(errs[s]) \in Nat /\ Append(errs[s], e) \in Seq(0..Len(Lines))
        /\ Len(Append(errs[s], e)) = Len(errs[s]) + 1
    BY <1>1, AppendFacts
  <2>2. ErrCap \in Nat
    BY StreamsAssumption
  <2>3. CASE Len(errs[s]) < ErrCap
    BY <2>1, <2>2, <2>3
  <2>4. CASE ~(Len(errs[s]) < ErrCap)
    BY <1>1, <2>4
  <2>5. QED
    BY <2>3, <2>4
<1>3. errs' = [errs EXCEPT ![s] = q]
  BY DEF SendErr
<1>4. errs \in [Streams -> Seq(0..Len(Lines))] /\ \A t \in Streams : Len(errs[t]) <= ErrCap
  BY DEF ATypeOK
<1> HIDE DEF q
<1>5. QED
  BY <1>2, <1>3, <1>4

\* After the line at pos the stream stands before the next one.
LEMMA NextLinePlaced ==
  ASSUME TInv, NEW s \in Streams, apc[s] \in {"line", "send"}, NextLine(s),
         file' = file, topics' = topics
  PROVE  /\ pos' \in [Streams -> 1..Len(Lines) + 1]
         /\ apc' = [apc EXCEPT ![s] = "scan"]
         /\ \A t \in Streams : Placed(t)'
<1>1. /\ pos \in [Streams -> 1..Len(Lines) + 1]
      /\ Len(Lines) \in Nat /\ DOMAIN Lines = 1..Len(Lines)
      /\ DOMAIN apc = Streams
  BY LinesSeq DEF TInv, ATypeOK
<1>2. pos[s] \in 1..Len(Lines) /\ Lines[pos[s]] # TooLong
  BY <1>1 DEF TInv, Placed
<1>3. pos' = [pos EXCEPT ![s] = pos[s] + 1] /\ apc' = [apc EXCEPT ![s] = "scan"]
  BY DEF NextLine, AGoto
<1>4. pos' \in [Streams -> 1..Len(Lines) + 1]
  BY <1>1, <1>2, <1>3
<1>5. Lines' = Lines
  BY SameLines
<1>6. Placed(s)'
  <2>1. \A j \in 1..(pos'[s] - 1) : j \in 1..(pos[s] - 1) \/ j = pos[s]
    BY <1>1, <1>2, <1>3
  <2>2. \A j \in 1..(pos'[s] - 1) : j \in DOMAIN Lines /\ Lines[j] # TooLong
    BY <1>1, <1>2, <2>1 DEF TInv, Placed
  <2>3. apc'[s] = "scan"
    BY <1>1, <1>3
  <2>4. QED
    BY <1>5, <2>2, <2>3 DEF Placed
<1>7. ASSUME NEW t \in Streams, t # s PROVE Placed(t)'
  BY <1>1, <1>3, <1>5, <1>7 DEF TInv, Placed, Subscribed
<1>8. QED
  BY <1>3, <1>4, <1>6, <1>7

LEMMA TNext == TInv /\ [ANext]_avars => TInv'
<1> SUFFICES ASSUME TInv, [ANext]_avars PROVE TInv'
  OBVIOUS
<1> USE DEF TInv, AGoto, adapterVars, closeVars
<1>l. Len(Lines) \in Nat /\ DOMAIN Lines = 1..Len(Lines)
  BY LinesSeq DEF ATypeOK
<1>f. Lines' = Lines /\ file' = file
  <2>1. file' = file
    BY DEF ANext, avars, Stream, Adapter, Open, Scan, Line, GiveUp, CloseErrs, CloseEx,
           CancelSub, Give, TakeErr, CancelCtx, Propagate, Close, Closer, ReadStop,
           CallStop, CloseWaited
  <2>2. QED
    BY <2>1, SameLines
<1>s. ASSUME UNCHANGED avars PROVE TInv'
  BY <1>s, <1>f DEF avars, ATypeOK, Placed, Subscribed
<1>1. ASSUME NEW s \in Streams, Stream(s) PROVE TInv'
  BY <1>1, <1>f, <1>l DEF Stream, ATypeOK, Placed, Subscribed
<1>2. ASSUME NEW s \in Streams, Open(s) PROVE TInv'
  <2>1. /\ errs' \in [Streams -> Seq(0..Len(Lines))]
        /\ \A t \in Streams : Len(errs'[t]) <= ErrCap
    BY <1>2, <1>l, SendErrType DEF Open, ATypeOK
  <2>2. QED
    BY <1>2, <1>f, <1>l, <2>1 DEF Open, ATypeOK, Placed, Subscribed
<1>3. ASSUME NEW s \in Streams, Scan(s) PROVE TInv'
  <2>1. /\ errs' \in [Streams -> Seq(0..Len(Lines))]
        /\ \A t \in Streams : Len(errs'[t]) <= ErrCap
    BY <1>3, <1>l, SendErrType DEF Scan, ATypeOK
  <2>2. QED
    BY <1>3, <1>f, <1>l, <2>1 DEF Scan, ATypeOK, Placed, Subscribed
<1>4. ASSUME NEW s \in Streams, Line(s) PROVE TInv'
  <2>1. pos[s] \in 1..Len(Lines)
    BY <1>4, <1>l DEF Line, Placed
  <2>2. /\ errs' \in [Streams -> Seq(0..Len(Lines))]
        /\ \A t \in Streams : Len(errs'[t]) <= ErrCap
    BY <1>4, <1>l, <2>1, SendErrType DEF Line, ATypeOK
  <2>3. CASE NextLine(s)
    <3>1. topics' = topics /\ apc[s] = "line"
      BY <1>4 DEF Line
    <3>2. QED
      BY <1>4, <1>f, <2>2, <2>3, <3>1, NextLinePlaced DEF Line, ATypeOK
  <2>4. CASE ~NextLine(s)
    BY <1>4, <1>f, <1>l, <2>1, <2>2, <2>4 DEF Line, ATypeOK, Placed, Subscribed
  <2>5. QED
    BY <2>3, <2>4
<1>5. ASSUME NEW s \in Streams, Give(s) PROVE TInv'
  <2>1. pos[s] \in 1..Len(Lines)
    BY <1>5, <1>l DEF Give, Placed
  <2>2. given' \in [Streams -> Seq(1..Len(Lines))]
    BY <1>5, <2>1 DEF Give, ATypeOK
  <2>3. QED
    BY <1>5, <1>f, <2>2, NextLinePlaced DEF Give, ATypeOK
<1>6. ASSUME NEW s \in Streams,
             GiveUp(s) \/ CloseErrs(s) \/ CloseEx(s) \/ CancelSub(s) \/ CancelCtx(s) \/ Propagate(s)
      PROVE TInv'
  BY <1>6, <1>f, <1>l DEF GiveUp, CloseErrs, CloseEx, CancelSub, CancelCtx, Propagate,
     ATypeOK, Placed, Subscribed
<1>7. ASSUME NEW s \in Streams, TakeErr(s) PROVE TInv'
  <2>1. Tail(errs[s]) \in Seq(0..Len(Lines)) /\ Len(Tail(errs[s])) <= Len(errs[s])
    BY <1>7 DEF TakeErr, ATypeOK
  <2>2. /\ errs' \in [Streams -> Seq(0..Len(Lines))]
        /\ \A t \in Streams : Len(errs'[t]) <= ErrCap
    <3>1. Len(Tail(errs[s])) <= ErrCap
      BY <2>1, StreamsAssumption DEF ATypeOK
    <3>2. QED
      BY <1>7, <2>1, <3>1 DEF TakeErr, ATypeOK
  <2>3. QED
    BY <1>7, <1>f, <1>l, <2>2 DEF TakeErr, ATypeOK, Placed, Subscribed
<1>8. ASSUME NEW c \in Closers, Close(c) PROVE TInv'
  <2>1. /\ once' \in {"fresh", "busy", "spent"}
        /\ cpc' \in [Closers -> {"idle", "read", "call", "wait", "returned"}]
    BY <1>8 DEF Close, CGoto, ATypeOK
  <2>2. active' \in [Closers -> SUBSET Streams]
    BY <1>8 DEF Close, ATypeOK
  <2>3. UNCHANGED <<file, topics, ctxDone, subDone, stop, stopped, fn, adapterVars>>
    BY <1>8 DEF Close
  <2>4. QED
    BY <1>f, <2>1, <2>2, <2>3 DEF ATypeOK, Placed, Subscribed
<1>9. ASSUME NEW c \in Closers, ReadStop(c) PROVE TInv'
  BY <1>9, <1>f, <1>l DEF ReadStop, CGoto, ATypeOK, Placed, Subscribed
<1>10. ASSUME NEW c \in Closers, CallStop(c) PROVE TInv'
  <2>1. /\ subDone' \in [Streams -> BOOLEAN] /\ stopped' \in [Streams -> BOOLEAN]
        /\ once' = "spent" /\ cpc' = [cpc EXCEPT ![c] = "returned"]
        /\ UNCHANGED <<file, topics, ctxDone, stop, fn, active, adapterVars>>
    BY <1>10, Zenon DEF CallStop, CGoto, ATypeOK
  <2>2. QED
    BY <1>f, <2>1 DEF ATypeOK, Placed, Subscribed
<1>11. ASSUME NEW c \in Closers, CloseWaited(c) PROVE TInv'
  BY <1>11, <1>f, <1>l DEF CloseWaited, CGoto, ATypeOK, Placed, Subscribed
<1>12. QED
  BY <1>s, <1>1, <1>2, <1>3, <1>4, <1>5, <1>6, <1>7, <1>8, <1>9, <1>10, <1>11
     DEF ANext, Adapter, Closer

LEMMA Typed == ASpec => []TInv
BY TInit, TNext, PTL DEF ASpec

\* Every variable of the adapter stays in its type, and errs within its
\* capacity, for any number of streams.
THEOREM TypeCorrect == ASpec => []ATypeOK
<1>1. TInv => ATypeOK
  BY DEF TInv
<1>2. QED
  BY <1>1, Typed, PTL

-----------------------------------------------------------------------------
(* Close.                                                                  *)

AliveAtEveryClose(s) == \A d \in Closers : cpc[d] # "idle" => s \in active[d]

\* One call at a time runs the body of once.Do.  A stream alive at every Close
\* was started before the first of them, so f.stop has not changed between the
\* read of f.stop and the call if it still is that stream's.
CInv ==
  /\ once = "fresh" <=> \A c \in Closers : cpc[c] = "idle"
  /\ \A c \in Closers : cpc[c] \in {"read", "call"} =>
       once = "busy" /\ \A d \in Closers : cpc[d] \in {"read", "call"} => d = c
  /\ \A c \in Closers : cpc[c] = "returned" => once = "spent"
  /\ \A c \in Closers : \A s \in active[c] : apc[s] # "unborn"
  /\ \A c \in Closers, s \in Streams :
       cpc[c] = "call" /\ stop = s /\ AliveAtEveryClose(s) => fn[c] = s
  /\ \A s \in Streams :
       once = "spent" /\ stop = s /\ AliveAtEveryClose(s) => subDone[s]

LEMMA CInit == AInit => CInv
BY DEF AInit, CInv, AliveAtEveryClose

\* A step that neither starts a stream nor is of a Close.
LEMMA StreamStep ==
  ASSUME TInv, NEW s \in Streams,
         Adapter(s) \/ Give(s) \/ TakeErr(s) \/ CancelCtx(s) \/ Propagate(s)
  PROVE  /\ UNCHANGED <<stop, once, cpc, fn, active>>
         /\ \A t \in Streams : subDone[t] => subDone'[t]
         /\ \A t \in Streams : apc[t] # "unborn" => apc'[t] # "unborn"
BY DEF TInv, ATypeOK, Adapter, Open, Scan, Line, NextLine, GiveUp, CloseErrs, CloseEx,
       CancelSub, Give, TakeErr, CancelCtx, Propagate, AGoto, adapterVars, closeVars

LEMMA CNext == TInv /\ CInv /\ [ANext]_avars => CInv'
<1> SUFFICES ASSUME TInv, CInv, [ANext]_avars PROVE CInv'
  OBVIOUS
<1> USE DEF CInv, AliveAtEveryClose, closeVars
<1>t. /\ cpc \in [Closers -> {"idle", "read", "call", "wait", "returned"}]
      /\ active \in [Closers -> SUBSET Streams] /\ once \in {"fresh", "busy", "spent"}
      /\ fn \in [Closers -> Streams \cup {NoStream}]
      /\ DOMAIN apc = Streams /\ DOMAIN subDone = Streams
  BY DEF TInv, ATypeOK
<1>s. CASE UNCHANGED avars
  BY <1>s DEF avars, adapterVars
<1>1. ASSUME NEW s \in Streams, Stream(s) PROVE CInv'
  <2>1. /\ stop' = s /\ UNCHANGED <<once, cpc, fn, active>>
        /\ apc[s] = "unborn" /\ apc' = [apc EXCEPT ![s] = "open"]
    BY <1>1 DEF Stream, AGoto
  <2>2. \A c \in Closers : s \notin active[c]
    BY <2>1
  <2>3. QED
    BY <1>t, <2>1, <2>2
<1>2. ASSUME NEW s \in Streams,
             Adapter(s) \/ Give(s) \/ TakeErr(s) \/ CancelCtx(s) \/ Propagate(s)
      PROVE  CInv'
  <2>1. UNCHANGED <<stop, once, cpc, fn, active>>
    BY <1>2, StreamStep
  <2>2. ASSUME NEW c \in Closers, NEW t \in active[c] PROVE apc'[t] # "unborn"
    <3>1. t \in Streams /\ apc[t] # "unborn"
      BY <1>t
    <3>2. QED
      BY <1>2, <3>1, StreamStep
  <2>3. \A t \in Streams :
          once = "spent" /\ stop = t /\ AliveAtEveryClose(t) => subDone'[t]
    BY <1>2, StreamStep
  <2>4. QED
    BY <2>1, <2>2, <2>3
<1>3. ASSUME NEW c \in Closers, Close(c) PROVE CInv'
  <2>1. /\ cpc[c] = "idle" /\ UNCHANGED <<stop, subDone, apc, fn>>
        /\ active' = [active EXCEPT ![c] = {s \in Streams : Alive(s)}]
    BY <1>3 DEF Close, adapterVars
  <2>2. \A s \in Streams : AliveAtEveryClose(s)' => AliveAtEveryClose(s)
    BY <1>t, <1>3, <2>1 DEF Close, CGoto
  <2>3. \A d \in Closers : \A s \in active'[d] : apc'[s] # "unborn"
    BY <1>t, <2>1 DEF Alive
  <2>4. QED
    BY <1>t, <1>3, <2>1, <2>2, <2>3 DEF Close, CGoto
<1>4. ASSUME NEW c \in Closers, ReadStop(c) PROVE CInv'
  BY <1>t, <1>4 DEF ReadStop, CGoto, adapterVars
<1>5. ASSUME NEW c \in Closers, CallStop(c) PROVE CInv'
  BY <1>t, <1>5 DEF CallStop, CGoto, adapterVars
<1>6. ASSUME NEW c \in Closers, CloseWaited(c) PROVE CInv'
  BY <1>t, <1>6 DEF CloseWaited, CGoto, adapterVars
<1>7. QED
  BY <1>s, <1>1, <1>2, <1>3, <1>4, <1>5, <1>6 DEF ANext, Closer

\* Whoever returns from Close finds the stream started last cancelled, if it
\* was alive at every call of Close, however many race for once.Do and
\* whenever streams start.
THEOREM CloseCancels == ASpec => []CloseCancelsTheLatestStream
<1>1. CInv => CloseCancelsTheLatestStream
  BY DEF CInv, CloseCancelsTheLatestStream, AliveAtEveryClose
<1>2. QED
  BY <1>1, CInit, CNext, Typed, PTL DEF ASpec

\* Whoever waits for once.Do waits for a call that runs its body.
SomebodyCloses ==
  /\ once = "busy" => \E c \in Closers : cpc[c] \in {"read", "call"}
  /\ once = "fresh" => \A c \in Closers : cpc[c] = "idle"
  /\ \A c \in Closers : cpc[c] = "wait" =>
       once = "spent" \/ \E d \in Closers : cpc[d] \in {"read", "call"}

LEMMA WhoClosesIsThere == ASpec => []SomebodyCloses
<1>1. AInit => SomebodyCloses
  BY DEF AInit, SomebodyCloses
<1>2. TInv /\ CInv /\ SomebodyCloses /\ [ANext]_avars => SomebodyCloses'
  <2> SUFFICES ASSUME TInv, CInv, SomebodyCloses, [ANext]_avars PROVE SomebodyCloses'
    OBVIOUS
  <2> USE DEF SomebodyCloses, closeVars
  <2>t. /\ cpc \in [Closers -> {"idle", "read", "call", "wait", "returned"}]
        /\ once \in {"fresh", "busy", "spent"}
    BY DEF TInv, ATypeOK
  <2>1. CASE UNCHANGED <<cpc, once>>
    BY <2>1
  <2>2. ASSUME NEW c \in Closers, Close(c) PROVE SomebodyCloses'
    BY <2>t, <2>2 DEF Close, CGoto
  <2>3. ASSUME NEW c \in Closers, ReadStop(c) PROVE SomebodyCloses'
    BY <2>t, <2>3 DEF ReadStop, CGoto
  <2>4. ASSUME NEW c \in Closers, CallStop(c) \/ CloseWaited(c) PROVE SomebodyCloses'
    BY <2>t, <2>4 DEF CallStop, CloseWaited, CGoto
  <2>5. ASSUME NEW s \in Streams,
               Stream(s) \/ Adapter(s) \/ Give(s) \/ TakeErr(s) \/ CancelCtx(s) \/ Propagate(s)
        PROVE  SomebodyCloses'
    <3>1. UNCHANGED <<cpc, once>>
      BY <2>5, StreamStep DEF Stream
    <3>2. QED
      BY <2>1, <3>1
  <2>6. QED
    BY <2>1, <2>2, <2>3, <2>4, <2>5 DEF ANext, Closer, avars
<1>3. QED
  BY <1>1, <1>2, CInit, CNext, Typed, PTL DEF ASpec

-----------------------------------------------------------------------------
(* The ordered stream.                                                     *)

\* given[s] is the wanted lines before pos[s], in their order; a stream leaves
\* its loop past the last of them or after a cancellation.
OInv(s) ==
  /\ subDone[s] => ctxDone[s] \/ stopped[s] \/ apc[s] = "ended"
  /\ apc[s] \in {"closeErrs", "closeEx", "cancel", "ended"} =>
       ctxDone[s] \/ stopped[s] \/ \A k \in Wanted(s) : k < pos[s]
  /\ \A i \in DOMAIN given[s] : given[s][i] \in Wanted(s) /\ given[s][i] < pos[s]
  /\ \A i, j \in DOMAIN given[s] : i < j => given[s][i] < given[s][j]
  /\ \A k \in Wanted(s) : k < pos[s] => \E i \in DOMAIN given[s] : given[s][i] = k

Step(s) == [Given(s)!ONext]_(Given(s)!ovars)

LEMMA WantedFacts ==
  ASSUME TInv, NEW s \in Streams
  PROVE  /\ Wanted(s) \subseteq 1..Len(Lines) /\ Len(Lines) \in Nat
         /\ file = Missing => Wanted(s) = {}
         /\ \A k \in DOMAIN Lines : Lines[k] = TooLong => \A j \in Wanted(s) : j < k
         /\ apc[s] = "send" => pos[s] \in Wanted(s)
         /\ \A k \in Wanted(s) : Lines[k] \in Topics /\ Subscribed(s, Lines[k])
<1>1. Len(Lines) \in Nat /\ DOMAIN Lines = 1..Len(Lines)
  BY LinesSeq DEF TInv, ATypeOK
<1>2. Wanted(s) \subseteq 1..Len(Lines)
  BY <1>1 DEF Wanted, Reached
<1>3. file = Missing => Wanted(s) = {}
  BY DEF Wanted, Reached, Lines
<1>4. \A k \in DOMAIN Lines : Lines[k] = TooLong => \A j \in Wanted(s) : j < k
  BY <1>1 DEF Wanted, Reached
<1>5. apc[s] = "send" => pos[s] \in Wanted(s)
  <2> SUFFICES ASSUME apc[s] = "send" PROVE pos[s] \in Wanted(s)
    OBVIOUS
  <2>1. /\ pos[s] \in DOMAIN Lines /\ Lines[pos[s]] # TooLong
        /\ Lines[pos[s]] \in Topics /\ Subscribed(s, Lines[pos[s]])
        /\ \A j \in 1..(pos[s] - 1) : Lines[j] # TooLong
    BY DEF TInv, Placed
  <2>2. \A j \in 1..pos[s] : j \in 1..(pos[s] - 1) \/ j = pos[s]
    BY <1>1, <2>1
  <2>3. QED
    BY <2>1, <2>2 DEF Wanted, Reached
<1>6. QED
  BY <1>1, <1>2, <1>3, <1>4, <1>5 DEF Wanted

LEMMA SameWanted ==
  ASSUME file' = file, topics' = topics, NEW s \in Streams
  PROVE  Wanted(s)' = Wanted(s)
BY SameLines DEF Wanted, Reached, Subscribed

\* Nothing of s moves, unless it is cancelled.
LEMMA Bystander ==
  ASSUME TInv, TInv', NEW s \in Streams, OInv(s), file' = file, topics' = topics,
         apc'[s] = apc[s], pos'[s] = pos[s], given'[s] = given[s],
         ctxDone[s] => ctxDone'[s], stopped[s] => stopped'[s],
         subDone'[s] => subDone[s] \/ ctxDone'[s] \/ stopped'[s]
  PROVE  OInv(s)' /\ Step(s)
<1>1. Wanted(s)' = Wanted(s)
  BY SameWanted
<1>2. OInv(s)'
  BY <1>1 DEF OInv
<1>3. /\ (ctxDone[s] \/ stopped[s]) \in BOOLEAN /\ (ctxDone[s] \/ stopped[s])' \in BOOLEAN
      /\ (ctxDone[s] \/ stopped[s]) => (ctxDone[s] \/ stopped[s])'
      /\ ExClosed(s)' = ExClosed(s)
  BY DEF ExClosed, TInv, ATypeOK
<1>4. Step(s)
  BY <1>1, <1>3 DEF Step, Given!ONext, Given!ovars, Given!CancelStream
<1>5. QED
  BY <1>2, <1>4

\* The goroutine of s leaves its loop, or runs one of its deferred calls.
LEMMA Leaves ==
  ASSUME TInv, TInv', NEW s \in Streams, OInv(s),
         UNCHANGED <<file, topics, ctxDone, stopped, pos, given>>,
         apc[s] # "ended",
         apc'[s] \in {"closeErrs", "closeEx", "cancel", "ended"},
         ctxDone[s] \/ stopped[s] \/ \A k \in Wanted(s) : k < pos[s],
         subDone'[s] => subDone[s] \/ apc'[s] = "ended",
         ExClosed(s) => ExClosed(s)'
  PROVE  OInv(s)' /\ Step(s)
<1>1. Wanted(s)' = Wanted(s)
  BY SameWanted
<1>2. OInv(s)'
  BY <1>1 DEF OInv
<1>3. Given(s)!Pending = {} \/ ctxDone[s] \/ stopped[s]
  BY DEF OInv, Given!Pending
<1>4. ExClosed(s) \in BOOLEAN /\ ExClosed(s)' \in BOOLEAN
  BY DEF ExClosed
<1>5. Step(s)
  BY <1>1, <1>3, <1>4 DEF Step, Given!ONext, Given!ovars, Given!CloseChannel
<1>6. QED
  BY <1>2, <1>5

\* The line at pos is passed without being published.
LEMMA Skips ==
  ASSUME TInv, TInv', NEW s \in Streams, OInv(s),
         UNCHANGED <<file, topics, ctxDone, subDone, stopped, given>>,
         apc[s] = "line", NextLine(s),
         pos[s] \notin Wanted(s)
  PROVE  OInv(s)' /\ Step(s)
<1>1. Wanted(s)' = Wanted(s) /\ Wanted(s) \subseteq Nat
  BY SameWanted, WantedFacts
<1>2. pos'[s] = pos[s] + 1 /\ pos[s] \in Nat /\ apc'[s] = "scan"
  BY DEF NextLine, AGoto, TInv, ATypeOK
<1>3. \A k \in Wanted(s) : k < pos[s] <=> k < pos'[s]
  BY <1>1, <1>2
<1>4. OInv(s)'
  BY <1>1, <1>2, <1>3 DEF OInv
<1>5. ExClosed(s)' = ExClosed(s)
  BY <1>2 DEF ExClosed
<1>6. Step(s)
  BY <1>1, <1>5 DEF Step, Given!ovars
<1>7. QED
  BY <1>4, <1>6

\* The line at pos is published: it is the first not yet given.
LEMMA Gives ==
  ASSUME TInv, TInv', NEW s \in Streams, OInv(s), Give(s)
  PROVE  OInv(s)' /\ Step(s)
<1>1. Wanted(s)' = Wanted(s) /\ Wanted(s) \subseteq Nat /\ pos[s] \in Wanted(s)
  BY SameWanted, WantedFacts DEF Give
<1>2. pos'[s] = pos[s] + 1 /\ apc'[s] = "scan" /\ apc[s] = "send"
  BY DEF Give, NextLine, AGoto, TInv, ATypeOK
<1>3. given'[s] = Append(given[s], pos[s]) /\ given[s] \in Seq(1..Len(Lines))
  BY DEF Give, TInv, ATypeOK
<1>4. pos[s] \in 1..Len(Lines)
  BY <1>1, WantedFacts
<1>5. /\ Len(given[s]) \in Nat
      /\ DOMAIN given[s] = 1..Len(given[s]) /\ DOMAIN given'[s] = 1..(Len(given[s]) + 1)
      /\ \A i \in 1..Len(given[s]) : given'[s][i] = given[s][i]
      /\ given'[s][Len(given[s]) + 1] = pos[s]
  BY <1>3, <1>4, AppendFacts
<1>6. OInv(s)'
  <2>1. \A i \in DOMAIN given'[s] : i \in 1..Len(given[s]) \/ i = Len(given[s]) + 1
    BY <1>5
  <2>2. \A i \in DOMAIN given'[s] : given'[s][i] \in Wanted(s) /\ given'[s][i] < pos'[s]
    BY <1>1, <1>2, <1>5, <2>1 DEF OInv
  <2>3. \A i, j \in DOMAIN given'[s] : i < j => given'[s][i] < given'[s][j]
    BY <1>1, <1>5, <2>1 DEF OInv
  <2>4. \A k \in Wanted(s) : k < pos'[s] => \E i \in DOMAIN given'[s] : given'[s][i] = k
    <3>1. ASSUME NEW k \in Wanted(s), k < pos'[s]
          PROVE  \E i \in DOMAIN given'[s] : given'[s][i] = k
      <4>1. CASE k = pos[s]
        BY <1>5, <4>1
      <4>2. CASE k < pos[s]
        BY <1>5, <4>2 DEF OInv
      <4>3. QED
        BY <1>1, <1>2, <3>1, <4>1, <4>2
    <3>2. QED
      BY <3>1
  <2>5. UNCHANGED <<ctxDone, subDone, stopped>>
    BY DEF Give
  <2>6. QED
    BY <1>1, <1>2, <2>2, <2>3, <2>4, <2>5 DEF OInv
<1>7. pos[s] \in Given(s)!Pending /\ \A k \in Given(s)!Pending : pos[s] <= k
  BY <1>1, <1>5 DEF OInv, Given!Pending
<1>8. /\ ExClosed(s) = FALSE /\ ExClosed(s)' = FALSE
      /\ (ctxDone[s] \/ stopped[s])' = (ctxDone[s] \/ stopped[s])
  BY <1>2 DEF ExClosed, Give
<1>9. Step(s)
  BY <1>1, <1>3, <1>7, <1>8 DEF Step, Given!ONext, Given!ovars, Given!Deliver
<1>10. QED
  BY <1>6, <1>9

LEMMA OInit == AInit => \A s \in Streams : OInv(s)
<1> SUFFICES ASSUME AInit, NEW s \in Streams PROVE OInv(s)
  OBVIOUS
<1>1. \A k \in Wanted(s) : ~(k < 1)
  BY TInit, WantedFacts
<1>2. QED
  BY <1>1 DEF AInit, OInv

\* A step of the goroutine of s.
LEMMA OwnStep ==
  ASSUME TInv, TInv', NEW s \in Streams, OInv(s), Adapter(s)
  PROVE  OInv(s)' /\ Step(s)
<1> USE DEF AGoto
<1>t. /\ apc[s] \in {"unborn", "open", "scan", "line", "send", "closeErrs",
                     "closeEx", "cancel", "ended"}
      /\ DOMAIN apc = Streams /\ DOMAIN subDone = Streams
      /\ Wanted(s) \subseteq 1..Len(Lines) /\ Len(Lines) \in Nat
      /\ DOMAIN Lines = 1..Len(Lines) /\ pos[s] \in Nat
  BY WantedFacts, LinesSeq DEF TInv, ATypeOK
<1>1. CASE Open(s)
  <2>1. CASE file = Missing
    <3>1. Wanted(s) = {}
      BY <2>1, WantedFacts
    <3>2. QED
      BY <1>1, <1>t, <2>1, <3>1, Leaves DEF Open, ExClosed
  <2>2. CASE file # Missing
    <3>1. /\ apc[s] = "open" /\ apc'[s] = "scan" /\ Wanted(s)' = Wanted(s)
          /\ UNCHANGED <<ctxDone, subDone, stopped, pos, given>>
      BY <1>1, <1>t, <2>2, SameWanted DEF Open
    <3>2. ExClosed(s)' = ExClosed(s)
      BY <3>1 DEF ExClosed
    <3>3. QED
      BY <3>1, <3>2 DEF OInv, Step, Given!ovars
  <2>3. QED
    BY <2>1, <2>2
<1>2. CASE Scan(s)
  <2>1. /\ apc[s] = "scan" /\ UNCHANGED <<file, topics, ctxDone, subDone, stopped, pos, given>>
        /\ ~ExClosed(s)
    BY <1>2 DEF Scan, ExClosed
  <2>2. CASE apc'[s] = "closeErrs"
    <3>1. ctxDone[s] \/ stopped[s] \/ \A k \in Wanted(s) : k < pos[s]
      <4>1. CASE pos[s] > Len(Lines)
        BY <1>t, <4>1
      <4>2. CASE pos[s] \in DOMAIN Lines /\ Lines[pos[s]] = TooLong
        BY <4>2, WantedFacts
      <4>3. CASE subDone[s]
        BY <2>1, <4>3 DEF OInv
      <4>4. QED
        BY <1>2, <1>t, <2>2, <4>1, <4>2, <4>3 DEF Scan
    <3>2. QED
      BY <2>1, <2>2, <3>1, Leaves
  <2>3. CASE apc'[s] = "line"
    <3>1. Wanted(s)' = Wanted(s) /\ ExClosed(s)' = ExClosed(s)
      BY <2>1, <2>3, SameWanted DEF ExClosed
    <3>2. QED
      BY <2>1, <2>3, <3>1 DEF OInv, Step, Given!ovars
  <2>4. QED
    BY <1>2, <1>t, <2>2, <2>3 DEF Scan
<1>3. CASE Line(s)
  <2>1. /\ apc[s] = "line" /\ UNCHANGED <<file, topics, ctxDone, subDone, stopped, given>>
    BY <1>3 DEF Line
  <2>2. CASE Lines[pos[s]] \in Topics /\ Subscribed(s, Lines[pos[s]])
    <3>1. apc'[s] = "send" /\ pos' = pos
      BY <1>3, <1>t, <2>2, LinesAssumption DEF Line
    <3>2. Wanted(s)' = Wanted(s) /\ ExClosed(s)' = ExClosed(s)
      BY <2>1, <3>1, SameWanted DEF ExClosed
    <3>3. QED
      BY <2>1, <3>1, <3>2 DEF OInv, Step, Given!ovars
  <2>3. CASE ~(Lines[pos[s]] \in Topics /\ Subscribed(s, Lines[pos[s]]))
    <3>1. NextLine(s)
      BY <1>3, <2>3 DEF Line
    <3>2. pos[s] \notin Wanted(s)
      BY <2>3, WantedFacts
    <3>3. QED
      BY <2>1, <3>1, <3>2, Skips
  <2>4. QED
    BY <2>2, <2>3
<1>4. CASE GiveUp(s)
  BY <1>4, <1>t, Leaves DEF GiveUp, ExClosed, OInv
<1>5. CASE CloseErrs(s)
  BY <1>5, <1>t, Leaves DEF CloseErrs, ExClosed, OInv
<1>6. CASE CloseEx(s)
  BY <1>6, <1>t, Leaves DEF CloseEx, ExClosed, OInv
<1>7. CASE CancelSub(s)
  BY <1>7, <1>t, Leaves DEF CancelSub, ExClosed, OInv
<1>8. QED
  BY <1>1, <1>2, <1>3, <1>4, <1>5, <1>6, <1>7 DEF Adapter

LEMMA ONextStep ==
  TInv /\ TInv' /\ (\A s \in Streams : OInv(s)) /\ [ANext]_avars
    => \A s \in Streams : OInv(s)' /\ Step(s)
<1> SUFFICES ASSUME TInv, TInv', \A r \in Streams : OInv(r), [ANext]_avars,
                    NEW s \in Streams
             PROVE  OInv(s)' /\ Step(s)
  OBVIOUS
<1> USE DEF AGoto, adapterVars, closeVars
<1>o. OInv(s)
  OBVIOUS
<1>s. CASE UNCHANGED avars
  BY <1>o, <1>s, Bystander DEF avars
<1>1. ASSUME NEW r \in Streams, Stream(r) PROVE OInv(s)' /\ Step(s)
  <2>1. CASE r = s
    <3>1. /\ apc[s] = "unborn" /\ apc'[s] = "open" /\ subDone'[s] = ctxDone[s]
          /\ UNCHANGED <<file, topics, ctxDone, stopped, pos, given>>
      BY <1>1, <2>1 DEF Stream, TInv, ATypeOK
    <3>2. Wanted(s)' = Wanted(s) /\ ExClosed(s)' = ExClosed(s)
      BY <3>1, SameWanted DEF ExClosed
    <3>3. QED
      BY <1>o, <3>1, <3>2 DEF OInv, Step, Given!ovars
  <2>2. CASE r # s
    BY <1>o, <1>1, <2>2, Bystander DEF Stream, TInv, ATypeOK
  <2>3. QED
    BY <2>1, <2>2
<1>2. ASSUME NEW r \in Streams, Adapter(r) PROVE OInv(s)' /\ Step(s)
  <2>1. CASE r = s
    BY <1>o, <1>2, <2>1, OwnStep
  <2>2. CASE r # s
    <3>1. /\ apc'[s] = apc[s] /\ pos'[s] = pos[s] /\ subDone'[s] = subDone[s]
          /\ UNCHANGED <<file, topics, ctxDone, stopped, given>>
      BY <1>2, <2>2 DEF Adapter, Open, Scan, Line, NextLine, GiveUp, CloseErrs, CloseEx,
         CancelSub, TInv, ATypeOK
    <3>2. QED
      BY <1>o, <3>1, Bystander
  <2>3. QED
    BY <2>1, <2>2
<1>3. ASSUME NEW r \in Streams, Give(r) PROVE OInv(s)' /\ Step(s)
  <2>1. CASE r = s
    BY <1>o, <1>3, <2>1, Gives
  <2>2. CASE r # s
    BY <1>o, <1>3, <2>2, Bystander DEF Give, NextLine, TInv, ATypeOK
  <2>3. QED
    BY <2>1, <2>2
<1>4. ASSUME NEW r \in Streams, TakeErr(r) \/ CancelCtx(r) \/ Propagate(r)
      PROVE  OInv(s)' /\ Step(s)
  <2>1. /\ UNCHANGED <<file, topics, apc, pos, given, stopped>>
        /\ ctxDone[s] => ctxDone'[s]
        /\ subDone'[s] => subDone[s] \/ ctxDone'[s]
    BY <1>4 DEF TakeErr, CancelCtx, Propagate, TInv, ATypeOK
  <2>2. QED
    BY <1>o, <2>1, Bystander
<1>5. ASSUME NEW c \in Closers, Close(c) \/ ReadStop(c) \/ CloseWaited(c)
      PROVE  OInv(s)' /\ Step(s)
  <2>1. UNCHANGED <<file, topics, ctxDone, subDone, stopped, apc, pos, given>>
    BY <1>5 DEF Close, ReadStop, CloseWaited
  <2>2. QED
    BY <1>o, <2>1, Bystander
<1>6. ASSUME NEW c \in Closers, CallStop(c) PROVE OInv(s)' /\ Step(s)
  <2>1. /\ UNCHANGED <<file, topics, ctxDone, apc, pos, given>>
        /\ subDone'[s] = (subDone[s] \/ s = fn[c])
        /\ stopped'[s] = (stopped[s] \/ s = fn[c])
    BY <1>6 DEF CallStop
  <2>2. QED
    BY <1>o, <2>1, Bystander
<1>7. QED
  BY <1>s, <1>1, <1>2, <1>3, <1>4, <1>5, <1>6 DEF ANext, Closer

AInv == TInv /\ \A s \in Streams : OInv(s)

LEMMA AdapterInvariant == ASpec => []AInv
<1>1. AInit => AInv
  BY TInit, OInit DEF AInv
<1>2. AInv /\ [ANext]_avars => AInv'
  BY TNext, ONextStep DEF AInv
<1>3. QED
  BY <1>1, <1>2, PTL DEF ASpec

\* Every stream implements OrderedStream, on any file and for any number of
\* Streams and Closes that share the adapter.
THEOREM StreamsAreOrdered == ASpec => ImplementsOrderedStream
<1>1. AInit => \A s \in Streams : Given(s)!OInit
  BY DEF AInit, Given!OInit, ExClosed
<1>2. AInv /\ [ANext]_avars => [\A s \in Streams : Step(s)]_avars
  BY TNext, ONextStep DEF AInv
<1>3. QED
  BY <1>1, <1>2, AdapterInvariant, PTL DEF ASpec, ImplementsOrderedStream, Step
=============================================================================
