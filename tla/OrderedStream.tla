--------------------------- MODULE OrderedStream ---------------------------
(***************************************************************************)
(* What a reader of an exchange channel is promised, by FileAdapter.Stream *)
(* (internal/bridge/agentmeshkafka) and by StreamAsTauExchanges            *)
(* (internal/app) alike: the wanted lines of the file, each once, in the   *)
(* order of the file and without a gap; then the channel is closed, before *)
(* the last of them only when the stream has been cancelled.               *)
(***************************************************************************)
EXTENDS Naturals, Sequences

VARIABLES wanted,    \* the positions of the lines to deliver, fixed
          got,       \* the positions delivered, in their order
          cancelled, \* the context is done, or Close stopped the stream
          closed     \* the channel is closed

ovars == <<wanted, got, cancelled, closed>>

Pending == {k \in wanted : \A i \in DOMAIN got : got[i] # k}

OInit ==
  /\ got = <<>>
  /\ closed = FALSE

\* The next wanted line, no other.
Deliver ==
  /\ ~closed
  /\ \E k \in Pending : /\ \A j \in Pending : k <= j
                        /\ got' = Append(got, k)
  /\ UNCHANGED <<wanted, cancelled, closed>>

CancelStream ==
  /\ ~cancelled
  /\ cancelled' = TRUE
  /\ UNCHANGED <<wanted, got, closed>>

CloseChannel ==
  /\ ~closed
  /\ Pending = {} \/ cancelled
  /\ closed' = TRUE
  /\ UNCHANGED <<wanted, got, cancelled>>

ONext == Deliver \/ CancelStream \/ CloseChannel

OSpec == OInit /\ [][ONext]_ovars
=============================================================================
