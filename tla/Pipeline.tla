------------------------------ MODULE Pipeline ------------------------------
(***************************************************************************)
(* StreamAsTauExchanges (internal/app/agentmesh.go) over a FileAdapter:    *)
(* one converter goroutine per stream reads ex and errs of the adapter and *)
(* offers tau.Exchanges on an unbuffered channel out and errors on a       *)
(* bounded channel errOut, to a consumer that may leave at any time.       *)
(* An unbuffered channel is a step its two ends take together.             *)
(***************************************************************************)
EXTENDS FileAdapter

VARIABLES vpc,      \* vpc[s]: the converter of the stream
          held,     \* held[s]: the line it offers on out, 0 for none
          errOut,   \* errOut[s]: the buffer of errOut
          seen,     \* history: seen[s]: the lines received from out
          seenErrs, \* history: seenErrs[s]: the errors received from errOut
          late,     \* history: late[s]: lines received once subDone[s]
          gone      \* gone[s]: the consumer has stopped receiving

converterVars == <<vpc, held, errOut>>
consumerVars  == <<seen, seenErrs, late, gone>>
vars == <<avars, converterVars, consumerVars>>

Init ==
  /\ AInit
  /\ vpc = [s \in Streams |-> "unborn"]
  /\ held = [s \in Streams |-> 0]
  /\ errOut = [s \in Streams |-> <<>>]
  /\ seen = [s \in Streams |-> <<>>]
  /\ seenErrs = [s \in Streams |-> <<>>]
  /\ late = [s \in Streams |-> 0]
  /\ gone = [s \in Streams |-> FALSE]

VGoto(s, step) == vpc' = [vpc EXCEPT ![s] = step]

\* adapter.Stream, then the go statement.
Start(s) ==
  /\ Stream(s)
  /\ VGoto(s, "select")
  /\ UNCHANGED <<held, errOut, consumerVars>>

\* The branches of the select: x, ok := <-src with ok, ...
Receive(s) ==
  /\ vpc[s] = "select"
  /\ Give(s)
  /\ held' = [held EXCEPT ![s] = pos[s]]
  /\ VGoto(s, "offer")
  /\ UNCHANGED <<errOut, consumerVars>>

\* Mutant: what is left in errs is not forwarded.
SrcClosedAtOnce(s) ==
  /\ vpc[s] = "select"
  /\ ExClosed(s)
  /\ VGoto(s, "closeErrOut")
  /\ UNCHANGED <<avars, held, errOut, consumerVars>>

\* ... and with src closed,
SrcClosed(s) ==
  /\ vpc[s] = "select"
  /\ ExClosed(s)
  /\ VGoto(s, "forward")
  /\ UNCHANGED <<avars, held, errOut, consumerVars>>

\* Mutant: the error is forwarded but not taken.
ForwardPeek(s) ==
  /\ errs[s] # <<>>
  /\ errOut' = [errOut EXCEPT ![s] = IF Len(@) < ErrCap THEN Append(@, Head(errs[s])) ELSE @]
  /\ UNCHANGED avars

\* an error of the adapter, forwarded when errOut has room,
Forward(s) ==
  /\ TakeErr(s)
  /\ errOut' = [errOut EXCEPT ![s] = IF Len(@) < ErrCap THEN Append(@, Head(errs[s])) ELSE @]

Relay(s) ==
  /\ vpc[s] = "select"
  /\ Forward(s)
  /\ UNCHANGED <<vpc, held, consumerVars>>

\* and, once errs is closed, the `continue': nothing changes, and the branch is
\* ready again at once.
CanContinue(s) == vpc[s] = "select" /\ ErrsClosed(s) /\ errs[s] = <<>>

Continue(s) == CanContinue(s) /\ UNCHANGED vars

\* Mutants: return without draining, no ctx.Done branch while offering, and a
\* break in place of the return, which leaves only the inner select.
AbandonUndrained(s) ==
  /\ vpc[s] \in {"select", "offer"}
  /\ ctxDone[s]
  /\ held' = [held EXCEPT ![s] = 0]
  /\ VGoto(s, "closeErrOut")
  /\ UNCHANGED <<avars, errOut, consumerVars>>

AbandonSelectOnly(s) ==
  /\ vpc[s] = "select"
  /\ ctxDone[s]
  /\ VGoto(s, "drain")
  /\ UNCHANGED <<avars, held, errOut, consumerVars>>

AbandonBreak(s) ==
  /\ vpc[s] \in {"select", "offer"}
  /\ ctxDone[s]
  /\ held' = [held EXCEPT ![s] = 0]
  /\ VGoto(s, IF vpc[s] = "offer" THEN "select" ELSE "drain")
  /\ UNCHANGED <<avars, errOut, consumerVars>>

\* ctx.Done, in the select or while offering.
Abandon(s) ==
  /\ vpc[s] \in {"select", "offer"}
  /\ ctxDone[s]
  /\ held' = [held EXCEPT ![s] = 0]
  /\ VGoto(s, "drain")
  /\ UNCHANGED <<avars, errOut, consumerVars>>

\* The two range loops over adapterErrs: dropping, or forwarding, until errs
\* is empty and closed.
Discard(s) ==
  /\ vpc[s] = "drain"
  /\ TakeErr(s)
  /\ UNCHANGED <<converterVars, consumerVars>>

ForwardRest(s) ==
  /\ vpc[s] = "forward"
  /\ Forward(s)
  /\ UNCHANGED <<vpc, held, consumerVars>>

ErrsDrained(s) ==
  /\ vpc[s] \in {"drain", "forward"}
  /\ errs[s] = <<>> /\ ErrsClosed(s)
  /\ VGoto(s, "closeErrOut")
  /\ UNCHANGED <<avars, held, errOut, consumerVars>>

\* The deferred calls: close(errOut), then close(out).
CloseErrOut(s) ==
  /\ vpc[s] = "closeErrOut"
  /\ VGoto(s, "closeOut")
  /\ UNCHANGED <<avars, held, errOut, consumerVars>>

CloseOut(s) ==
  /\ vpc[s] = "closeOut"
  /\ VGoto(s, "ended")
  /\ UNCHANGED <<avars, held, errOut, consumerVars>>

\* out <- ToTauExchange(x) meets the consumer.
Deliver(s) ==
  /\ vpc[s] = "offer"
  /\ ~gone[s]
  /\ seen' = [seen EXCEPT ![s] = Append(@, held[s])]
  /\ late' = [late EXCEPT ![s] = IF subDone[s] THEN @ + 1 ELSE @]
  /\ held' = [held EXCEPT ![s] = 0]
  /\ VGoto(s, "select")
  /\ UNCHANGED <<avars, errOut, seenErrs, gone>>

\* The consumer receives an error, or stops receiving for good.
ReadErr(s) ==
  /\ errOut[s] # <<>>
  /\ ~gone[s]
  /\ seenErrs' = [seenErrs EXCEPT ![s] = Append(@, Head(errOut[s]))]
  /\ errOut' = [errOut EXCEPT ![s] = Tail(@)]
  /\ UNCHANGED <<avars, vpc, held, seen, late, gone>>

Walk(s) ==
  /\ ~gone[s]
  /\ gone' = [gone EXCEPT ![s] = TRUE]
  /\ UNCHANGED <<avars, converterVars, seen, seenErrs, late>>

-----------------------------------------------------------------------------
\* The steps of the converter that do not need the consumer, and lead on.
Convert(s) ==
  \/ Receive(s)
  \/ SrcClosed(s)
  \/ Relay(s)
  \/ Abandon(s)
  \/ Discard(s)
  \/ ForwardRest(s)
  \/ ErrsDrained(s)
  \/ CloseErrOut(s)
  \/ CloseOut(s)

\* The steps of the adapter and of its callers.
Alone(s) == (Adapter(s) \/ CancelCtx(s) \/ Propagate(s)) /\ UNCHANGED <<converterVars, consumerVars>>
Closing(c) == (Close(c) \/ Closer(c)) /\ UNCHANGED <<converterVars, consumerVars>>

Next ==
  \/ \E s \in Streams : \/ Start(s)
                        \/ Convert(s)
                        \/ Continue(s)
                        \/ Deliver(s)
                        \/ ReadErr(s)
                        \/ Walk(s)
                        \/ Alone(s)
  \/ \E c \in Closers : Closing(c)

\* Go runs every goroutine that can run, and its select, which picks among the
\* ready branches at random, does not take the `continue' of a closed errs
\* forever: Continue is not in Convert.  A consumer that has not left receives
\* from out; it need not receive from errOut.  Nobody need cancel or close.
Fairness ==
  /\ \A s \in Streams :
       /\ WF_vars(Adapter(s) /\ UNCHANGED <<converterVars, consumerVars>>)
       /\ WF_vars(Propagate(s) /\ UNCHANGED <<converterVars, consumerVars>>)
       /\ WF_vars(Convert(s))
       /\ WF_vars(Deliver(s))
  /\ \A c \in Closers : WF_vars(Closer(c) /\ UNCHANGED <<converterVars, consumerVars>>)

Spec == Init /\ [][Next]_vars
FairSpec == Spec /\ Fairness

-----------------------------------------------------------------------------
\* The type invariant.
TypeOK ==
  /\ ATypeOK
  /\ vpc \in [Streams -> {"unborn", "select", "offer", "drain", "forward",
                          "closeErrOut", "closeOut", "ended"}]
  /\ held \in [Streams -> 0..Len(Lines)]
  /\ errOut \in [Streams -> Seq(0..Len(Lines))]
  /\ \A s \in Streams : Len(errOut[s]) <= ErrCap
  /\ seen \in [Streams -> Seq(1..Len(Lines))]
  /\ seenErrs \in [Streams -> Seq(0..Len(Lines))]
  /\ late \in [Streams -> Nat]
  /\ gone \in [Streams -> BOOLEAN]

\* What the consumer sees is the ordered stream of the file too: the
\* converter neither loses, doubles nor reorders an exchange, and closes out
\* early only after a cancellation.
Seen(s) == INSTANCE OrderedStream
             WITH wanted <- Wanted(s), got <- seen[s],
                  cancelled <- ctxDone[s] \/ stopped[s], closed <- vpc[s] = "ended"

OutIsOrderedStream ==
  /\ \A s \in Streams : Seen(s)!OInit
  /\ [][\A s \in Streams : [Seen(s)!ONext]_(Seen(s)!ovars)]_vars

\* Through both buffers the errors keep the order of the file, are of lines
\* in error only, and none is reported twice.
ErrorLines == IF file = Missing THEN {0}
              ELSE {k \in DOMAIN Lines : /\ Lines[k] \in {Bad, TooLong}
                                         /\ \A j \in 1..(k - 1) : Lines[j] # TooLong}

ErrorsKeepOrder ==
  \A s \in Streams :
    LET all == seenErrs[s] \o errOut[s] \o errs[s]
    IN \A i \in DOMAIN all : /\ all[i] \in ErrorLines
                             /\ \A j \in DOMAIN all : i < j => all[i] < all[j]

\* Errors are lossy only beyond the buffers: when the file has at most ErrCap
\* of them and nobody cancels, every one is delivered or still in errOut.
FewErrorsAreNotLost ==
  \A s \in Streams :
    /\ vpc[s] = "ended" /\ ~ctxDone[s] /\ ~stopped[s]
    /\ Cardinality(ErrorLines) <= ErrCap
    => Len(seenErrs[s]) + Len(errOut[s]) = Cardinality(ErrorLines)

\* The converter returns only when the adapter has closed errs and nothing is
\* left in it (AUDIT P1-06, in the comment of StreamAsTauExchanges).
DrainedBeforeReturn ==
  \A s \in Streams :
    vpc[s] \in {"closeErrOut", "closeOut", "ended"} => ErrsClosed(s) /\ errs[s] = <<>>

\* Once the derived context is done the consumer receives at most two more
\* exchanges: one the converter holds, one the select of scan still gives.
AtMostTwoLate == \A s \in Streams : late[s] <= 2

\* After a cancellation of the caller's context both goroutines end, whatever
\* the consumer does.
CancelledPipelineEnds ==
  \A s \in Streams :
    (ctxDone[s] /\ vpc[s] # "unborn") ~> (apc[s] = "ended" /\ vpc[s] = "ended")

\* Without one both end too, at the end of the file or after Close, unless the
\* consumer leaves; it need not read errOut for that.
ReadPipelineEnds ==
  \A s \in Streams :
    (vpc[s] # "unborn") ~> \/ apc[s] = "ended" /\ vpc[s] = "ended"
                           \/ gone[s] /\ ~ctxDone[s]
=============================================================================
