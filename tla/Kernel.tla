------------------------------- MODULE Kernel -------------------------------
(***************************************************************************)
(* What tau.Kernel promises its callers: Decide is one instantaneous,      *)
(* pure verdict on the exchange, the reasoner's answer and one reading of  *)
(* the clock, taken at some instant of the call.                           *)
(***************************************************************************)
EXTENDS Verdict

VARIABLES now,       \* the clock
          phase,     \* phase[c]: idle, busy, decided or failed
          question,  \* the exchange of c's current or last call
          since,     \* when that call began
          verdict    \* its verdict, once decided

kernelVars == <<now, phase, question, since, verdict>>

NoVerdict == [regime |-> "Unknown", diagnostic |-> NoDiagnostic]

-----------------------------------------------------------------------------
KInit ==
  /\ now = 1
  /\ phase = [c \in Callers |-> "idle"]
  /\ question = [c \in Callers |-> SomeExchange]
  /\ since = [c \in Callers |-> 0]
  /\ verdict = [c \in Callers |-> NoVerdict]

Ask(c, x) ==
  /\ phase[c] = "idle"
  /\ phase' = [phase EXCEPT ![c] = "busy"]
  /\ question' = [question EXCEPT ![c] = x]
  /\ since' = [since EXCEPT ![c] = now]
  /\ UNCHANGED <<now, verdict>>

Answer(c) ==
  /\ phase[c] = "busy"
  /\ phase' = [phase EXCEPT ![c] = "decided"]
  /\ \E v \in Verdicts, answer \in Replies, t \in since[c]..now :
       /\ IsVerdict(v, question[c], answer, t)
       /\ verdict' = [verdict EXCEPT ![c] = v]
  /\ UNCHANGED <<now, question, since>>

\* The reasoner failed: only a call that no earlier guard refuses asks it.
Fail(c) ==
  /\ phase[c] = "busy"
  /\ LLMError \in Answers
  /\ \E t \in since[c]..now : ReasonsToRefuse(question[c], 0, t) \subseteq {DiagIncoherenceI4}
  /\ phase' = [phase EXCEPT ![c] = "failed"]
  /\ UNCHANGED <<now, question, since, verdict>>

\* The caller takes the verdict, or the error, and goes on.
Leave(c) ==
  /\ phase[c] \in {"decided", "failed"}
  /\ phase' = [phase EXCEPT ![c] = "idle"]
  /\ question' = [question EXCEPT ![c] = SomeExchange]
  /\ since' = [since EXCEPT ![c] = 0]
  /\ verdict' = [verdict EXCEPT ![c] = NoVerdict]
  /\ UNCHANGED now

KTick ==
  /\ now < MaxTime
  /\ now' = now + 1
  /\ UNCHANGED <<phase, question, since, verdict>>

KNext ==
  \/ \E c \in Callers : \/ \E x \in Exchanges : Ask(c, x)
                        \/ Answer(c)
                        \/ Fail(c)
                        \/ Leave(c)
  \/ KTick

KSpec == KInit /\ [][KNext]_kernelVars
=============================================================================
