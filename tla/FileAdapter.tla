---------------------------- MODULE FileAdapter ----------------------------
(***************************************************************************)
(* agentmeshkafka.FileAdapter (internal/bridge/agentmeshkafka/             *)
(* file_adapter.go): each Stream starts a goroutine that scans the file    *)
(* and offers its lines on an unbuffered channel ex and its errors on a    *)
(* bounded channel errs; Close, called by anybody, cancels the stream      *)
(* whose cancel function was registered last.                              *)
(*                                                                         *)
(* A line is a member of Topics (a parsed exchange, by its SourceTopic) or *)
(* one of Blank, Bad (not JSON) and TooLong (the scanner fails on it).  An *)
(* exchange is identified by the position of its line.                     *)
(***************************************************************************)
EXTENDS Naturals, Sequences, FiniteSets

CONSTANTS Streams,   \* the calls of Stream on one adapter
          Closers,   \* the calls of Close on it
          Topics, Blank, Bad, TooLong,
          Files,     \* the contents the file may have
          Missing,   \* the file, removed after NewFileAdapter
          Requests,  \* the topic lists a caller asks for, {} for all
          ErrCap,    \* capacity of errs and errOut (8 in the code)
          NoStream   \* f.stop = nil

ASSUME LinesAssumption ==
  /\ Files \subseteq Seq(Topics \cup {Blank, Bad, TooLong})
  /\ {Blank, Bad, TooLong} \cap Topics = {}
  /\ Blank # Bad
  /\ Missing \notin Files
  /\ Requests \subseteq SUBSET Topics

ASSUME StreamsAssumption == ErrCap \in Nat \ {0} /\ NoStream \notin Streams

VARIABLES file,    \* the content, fixed
          topics,  \* topics[s]: the argument of Stream
          ctxDone, \* ctxDone[s]: the context given to Stream is done
          subDone, \* subDone[s]: the context derived from it is done
          apc,     \* apc[s]: the goroutine of the stream
          pos,     \* pos[s]: the line Scan reads next, or has read
          errs,    \* errs[s]: the buffer of errs, positions of lines, 0 for Open
          given,   \* history: given[s]: the lines received from ex
          stop,    \* f.stop, by the stream it cancels
          once,    \* f.once
          cpc,     \* cpc[c]: the call of Close
          fn,      \* fn[c]: what it read in f.stop
          stopped, \* history: stopped[s]: Close has cancelled the stream
          active   \* history: active[c]: the streams alive when Close was called

adapterVars == <<apc, pos, errs, given>>
closeVars   == <<once, cpc, fn, active>>
avars == <<file, topics, ctxDone, subDone, stop, stopped, adapterVars, closeVars>>

Lines == IF file = Missing THEN <<>> ELSE file

\* The slices.Contains test of scan.
Subscribed(s, line) == topics[s] = {} \/ line \in topics[s]

\* The lines the scanner reaches, and those among them to be published.
Reached   == {k \in DOMAIN Lines : \A j \in 1..k : Lines[j] # TooLong}
Wanted(s) == {k \in Reached : Lines[k] \in Topics /\ Subscribed(s, Lines[k])}

\* Mutant: nobody closes ex.
NeverClosed(s) == FALSE

ErrsClosed(s) == apc[s] \in {"closeEx", "cancel", "ended"}
ExClosed(s)   == apc[s] \in {"cancel", "ended"}
Alive(s)      == apc[s] \notin {"unborn", "ended"}

-----------------------------------------------------------------------------
AInit ==
  /\ file \in Files \cup {Missing}
  /\ topics \in [Streams -> Requests]
  /\ ctxDone = [s \in Streams |-> FALSE]
  /\ subDone = [s \in Streams |-> FALSE]
  /\ apc = [s \in Streams |-> "unborn"]
  /\ pos = [s \in Streams |-> 1]
  /\ errs = [s \in Streams |-> <<>>]
  /\ given = [s \in Streams |-> <<>>]
  /\ stop = NoStream
  /\ once = "fresh"
  /\ cpc = [c \in Closers |-> "idle"]
  /\ fn = [c \in Closers |-> NoStream]
  /\ stopped = [s \in Streams |-> FALSE]
  /\ active = [c \in Closers |-> {}]

AGoto(s, step) == apc' = [apc EXCEPT ![s] = step]

\* Mutants: the line numbered from the next one, and no bound on the buffer.
SendErrNextLine(s, e) ==
  errs' = [errs EXCEPT ![s] = IF Len(@) < ErrCap THEN Append(@, e + 1) ELSE @]

SendErrUnbounded(s, e) == errs' = [errs EXCEPT ![s] = Append(@, e)]

\* sendErr: dropped when the buffer is full.
SendErr(s, e) ==
  errs' = [errs EXCEPT ![s] = IF Len(@) < ErrCap THEN Append(@, e) ELSE @]

\* Stream: the derived context is born done when its parent is; f.stop is
\* overwritten, under f.mu.
Stream(s) ==
  /\ apc[s] = "unborn"
  /\ AGoto(s, "open")
  /\ subDone' = [subDone EXCEPT ![s] = ctxDone[s]]
  /\ stop' = s
  /\ UNCHANGED <<file, topics, ctxDone, stopped, pos, errs, given, closeVars>>

\* os.Open.
Open(s) ==
  /\ apc[s] = "open"
  /\ \/ /\ file = Missing
        /\ SendErr(s, 0)
        /\ AGoto(s, "closeErrs")
     \/ /\ file # Missing
        /\ AGoto(s, "scan")
        /\ UNCHANGED errs
  /\ UNCHANGED <<file, topics, ctxDone, subDone, stop, stopped, pos, given, closeVars>>

\* Mutants: the context is not checked, and the last line is not read.
ScanUnchecked(s) ==
  /\ apc[s] = "scan"
  /\ \/ /\ pos[s] > Len(Lines)
        /\ AGoto(s, "closeErrs")
        /\ UNCHANGED errs
     \/ /\ pos[s] \in DOMAIN Lines /\ Lines[pos[s]] = TooLong
        /\ SendErr(s, pos[s])
        /\ AGoto(s, "closeErrs")
     \/ /\ pos[s] \in DOMAIN Lines /\ Lines[pos[s]] # TooLong
        /\ AGoto(s, "line")
        /\ UNCHANGED errs
  /\ UNCHANGED <<file, topics, ctxDone, subDone, stop, stopped, pos, given, closeVars>>

ScanAllButLast(s) ==
  /\ apc[s] = "scan"
  /\ AGoto(s, IF pos[s] >= Len(Lines) THEN "closeErrs" ELSE "line")
  /\ UNCHANGED <<file, topics, ctxDone, subDone, stop, stopped, pos, errs, given, closeVars>>

\* scanner.Scan, then ctx.Err when it read a line, scanner.Err when it failed.
Scan(s) ==
  /\ apc[s] = "scan"
  /\ \/ /\ pos[s] > Len(Lines)
        /\ AGoto(s, "closeErrs")
        /\ UNCHANGED errs
     \/ /\ pos[s] \in DOMAIN Lines /\ Lines[pos[s]] = TooLong
        /\ SendErr(s, pos[s])
        /\ AGoto(s, "closeErrs")
     \/ /\ pos[s] \in DOMAIN Lines /\ Lines[pos[s]] # TooLong
        /\ AGoto(s, IF subDone[s] THEN "closeErrs" ELSE "line")
        /\ UNCHANGED errs
  /\ UNCHANGED <<file, topics, ctxDone, subDone, stop, stopped, pos, given, closeVars>>

NextLine(s) ==
  /\ pos' = [pos EXCEPT ![s] = @ + 1]
  /\ AGoto(s, "scan")

\* The line is skipped, reported, filtered out, or about to be published.
Line(s) ==
  LET line == Lines[pos[s]]
  IN /\ apc[s] = "line"
     /\ \/ /\ line = Blank
           /\ NextLine(s)
           /\ UNCHANGED errs
        \/ /\ line = Bad
           /\ SendErr(s, pos[s])
           /\ NextLine(s)
        \/ /\ line \in Topics /\ ~Subscribed(s, line)
           /\ NextLine(s)
           /\ UNCHANGED errs
        \/ /\ line \in Topics /\ Subscribed(s, line)
           /\ AGoto(s, "send")
           /\ UNCHANGED <<errs, pos>>
     /\ UNCHANGED <<file, topics, ctxDone, subDone, stop, stopped, given, closeVars>>

\* The select of scan: ex <- x, jointly with its receiver, or ctx.Done.
Give(s) ==
  /\ apc[s] = "send"
  /\ given' = [given EXCEPT ![s] = Append(@, pos[s])]
  /\ NextLine(s)
  /\ UNCHANGED <<file, topics, ctxDone, subDone, stop, stopped, errs, closeVars>>

\* Mutant: ex <- x outside of any select.
NeverGiveUp(s) == FALSE

GiveUp(s) ==
  /\ apc[s] = "send"
  /\ subDone[s]
  /\ AGoto(s, "closeErrs")
  /\ UNCHANGED <<file, topics, ctxDone, subDone, stop, stopped, pos, errs, given, closeVars>>

\* The deferred calls, last in first out.
CloseErrs(s) ==
  /\ apc[s] = "closeErrs"
  /\ AGoto(s, "closeEx")
  /\ UNCHANGED <<file, topics, ctxDone, subDone, stop, stopped, pos, errs, given, closeVars>>

CloseEx(s) ==
  /\ apc[s] = "closeEx"
  /\ AGoto(s, "cancel")
  /\ UNCHANGED <<file, topics, ctxDone, subDone, stop, stopped, pos, errs, given, closeVars>>

CancelSub(s) ==
  /\ apc[s] = "cancel"
  /\ subDone' = [subDone EXCEPT ![s] = TRUE]
  /\ AGoto(s, "ended")
  /\ UNCHANGED <<file, topics, ctxDone, stop, stopped, pos, errs, given, closeVars>>

\* A receive from errs.
TakeErr(s) ==
  /\ errs[s] # <<>>
  /\ errs' = [errs EXCEPT ![s] = Tail(@)]
  /\ UNCHANGED <<file, topics, ctxDone, subDone, stop, stopped, apc, pos, given, closeVars>>

-----------------------------------------------------------------------------
\* The caller cancels its context; the cancellation then reaches the derived
\* one.
CancelCtx(s) ==
  /\ ~ctxDone[s]
  /\ ctxDone' = [ctxDone EXCEPT ![s] = TRUE]
  /\ UNCHANGED <<file, topics, subDone, stop, stopped, adapterVars, closeVars>>

Propagate(s) ==
  /\ ctxDone[s] /\ Alive(s) /\ ~subDone[s]
  /\ subDone' = [subDone EXCEPT ![s] = TRUE]
  /\ UNCHANGED <<file, topics, ctxDone, stop, stopped, adapterVars, closeVars>>

-----------------------------------------------------------------------------
CGoto(c, step) == cpc' = [cpc EXCEPT ![c] = step]

\* Mutant: a flag in place of once.Do, so that a second caller does not wait.
CloseFlag(c) ==
  /\ cpc[c] = "idle"
  /\ active' = [active EXCEPT ![c] = {s \in Streams : Alive(s)}]
  /\ once' = "busy"
  /\ CGoto(c, IF once = "fresh" THEN "read" ELSE "returned")
  /\ UNCHANGED <<file, topics, ctxDone, subDone, stop, stopped, fn, adapterVars>>

\* Close enters once.Do: runs its body, waits for the call that runs it, or
\* returns.
Close(c) ==
  /\ cpc[c] = "idle"
  /\ active' = [active EXCEPT ![c] = {s \in Streams : Alive(s)}]
  /\ \/ /\ once = "fresh"
        /\ once' = "busy"
        /\ CGoto(c, "read")
     \/ /\ once = "busy"
        /\ CGoto(c, "wait")
        /\ UNCHANGED once
     \/ /\ once = "spent"
        /\ CGoto(c, "returned")
        /\ UNCHANGED once
  /\ UNCHANGED <<file, topics, ctxDone, subDone, stop, stopped, fn, adapterVars>>

\* fn := f.stop, under f.mu.
ReadStop(c) ==
  /\ cpc[c] = "read"
  /\ fn' = [fn EXCEPT ![c] = stop]
  /\ CGoto(c, "call")
  /\ UNCHANGED <<file, topics, ctxDone, subDone, stop, stopped, once, active, adapterVars>>

\* fn() when it is not nil; the body of once.Do is over.
CallStop(c) ==
  /\ cpc[c] = "call"
  /\ subDone' = [s \in Streams |-> subDone[s] \/ s = fn[c]]
  /\ stopped' = [s \in Streams |-> stopped[s] \/ s = fn[c]]
  /\ once' = "spent"
  /\ CGoto(c, "returned")
  /\ UNCHANGED <<file, topics, ctxDone, stop, fn, active, adapterVars>>

CloseWaited(c) ==
  /\ cpc[c] = "wait"
  /\ once = "spent"
  /\ CGoto(c, "returned")
  /\ UNCHANGED <<file, topics, ctxDone, subDone, stop, stopped, once, fn, active, adapterVars>>

-----------------------------------------------------------------------------
\* The steps of a stream's goroutine that need nobody else.
Adapter(s) ==
  \/ Open(s)
  \/ Scan(s)
  \/ Line(s)
  \/ GiveUp(s)
  \/ CloseErrs(s)
  \/ CloseEx(s)
  \/ CancelSub(s)

Closer(c) == ReadStop(c) \/ CallStop(c) \/ CloseWaited(c)

ANext ==
  \/ \E s \in Streams : \/ Stream(s)
                        \/ Adapter(s)
                        \/ Give(s)
                        \/ TakeErr(s)
                        \/ CancelCtx(s)
                        \/ Propagate(s)
  \/ \E c \in Closers : Close(c) \/ Closer(c)

ASpec == AInit /\ [][ANext]_avars

-----------------------------------------------------------------------------
\* The type invariant.
ATypeOK ==
  /\ file \in Files \cup {Missing}
  /\ topics \in [Streams -> SUBSET Topics]
  /\ ctxDone \in [Streams -> BOOLEAN]
  /\ subDone \in [Streams -> BOOLEAN]
  /\ apc \in [Streams -> {"unborn", "open", "scan", "line", "send", "closeErrs",
                          "closeEx", "cancel", "ended"}]
  /\ pos \in [Streams -> 1..Len(Lines) + 1]
  /\ errs \in [Streams -> Seq(0..Len(Lines))]
  /\ \A s \in Streams : Len(errs[s]) <= ErrCap
  /\ given \in [Streams -> Seq(1..Len(Lines))]
  /\ stop \in Streams \cup {NoStream}
  /\ once \in {"fresh", "busy", "spent"}
  /\ cpc \in [Closers -> {"idle", "read", "call", "wait", "returned"}]
  /\ fn \in [Closers -> Streams \cup {NoStream}]
  /\ stopped \in [Streams -> BOOLEAN]
  /\ active \in [Closers -> SUBSET Streams]

\* Every stream is the ordered stream of its file: nothing is lost, doubled
\* or reordered, and ex is closed early only after a cancellation (scan and
\* the deferred closes of Stream).
Given(s) == INSTANCE OrderedStream
              WITH wanted <- Wanted(s), got <- given[s],
                   cancelled <- ctxDone[s] \/ stopped[s], closed <- ExClosed(s)

ImplementsOrderedStream ==
  /\ \A s \in Streams : Given(s)!OInit
  /\ [][\A s \in Streams : [Given(s)!ONext]_(Given(s)!ovars)]_avars

\* Whoever returns from Close finds the derived context of the stream started
\* last done, when that stream was alive at every call of Close: also the
\* callers that lose the race for once.Do, and those that come later.
CloseCancelsTheLatestStream ==
  \A c \in Closers, s \in Streams :
    /\ cpc[c] = "returned"
    /\ stop = s
    /\ \A d \in Closers : cpc[d] # "idle" => s \in active[d]
    => subDone[s]

\* A cancelled stream ends and closes both channels whether or not anybody
\* still receives from them (file_adapter.go: "Closes cleanly on EOF,
\* ctx.Done(), or Close()").  Fairness is the business of Pipeline.
CancelledStreamEnds ==
  \A s \in Streams : (subDone[s] /\ Alive(s)) ~> (apc[s] = "ended")

-----------------------------------------------------------------------------
(* A statement of the documentation that the code does not keep.           *)

\* file_adapter.go:100: "Close cancels any active Stream".
CloseCancelsAnyActiveStream ==
  \A c \in Closers : cpc[c] = "returned" => \A s \in active[c] : subDone[s]
=============================================================================
