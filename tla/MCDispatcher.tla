---------------------------- MODULE MCDispatcher ----------------------------
(***************************************************************************)
(* Instances of Dispatcher for TLC.                                        *)
(***************************************************************************)
EXTENDS Campaign

\* orchestration.DefaultThresholds and the weights of calibration.DefaultProfile.
MCLimits ==
  [deterministe |-> 350000, probabiliste |-> 650000, authBlock |-> 850000,
   sensCoherence |-> 500000, invCoherence |-> 500000, hysteresisGap |-> 100000]

\* A contract and an intent are then coherent only if the reasoner lifts D-SENS.
MCLimitsLifted == [MCLimits EXCEPT !.sensCoherence = 550000]

\* The revision date is an instant the clock passes.
MCProfile ==
  [version |-> "0.1.0", dateRevision |-> 2,
   dSens |-> 400, dAuthority |-> 300, dInvariant |-> 300]

\* Every combination of what the probes read.  Beyond depth 4 and below 0
\* the probes are constant; mediation is decided by the mode inside the
\* frontier, and outside it nothing but the frontier matters.
AllExchanges ==
  [id : {"e1"}, humanInLoop : {FALSE}, org : BOOLEAN, depth : {1, 2, 3, 4},
   mode : {"DynamicMCP"}, contract : BOOLEAN, intent : BOOLEAN,
   attestation : BOOLEAN, registry : BOOLEAN, derived : BOOLEAN,
   mediation : {FALSE}, plan : BOOLEAN]
  \cup
  [id : {"e2"}, humanInLoop : BOOLEAN, org : {TRUE}, depth : {-1, 0, 1, 5},
   mode : {Static, "DynamicA2A", "Unknown"}, contract : {FALSE}, intent : {TRUE},
   attestation : BOOLEAN, registry : {FALSE}, derived : {FALSE},
   mediation : BOOLEAN, plan : {FALSE}]

\* One exchange per regime and per refusal, each with and without attestation:
\* at depth 1, a contract and no intent is incoherent, both is Deterministe (or
\* what the reasoner makes of it), an intent alone Probabiliste; at depth 2 the lock closes; Static is outside.
FewExchanges ==
  {x \in [id : {"e1"}, humanInLoop : {FALSE}, org : {TRUE}, depth : {1, 2},
          mode : {"DynamicMCP", Static}, contract : BOOLEAN, intent : BOOLEAN,
          attestation : BOOLEAN, registry : {TRUE}, derived : {FALSE},
          mediation : {FALSE}, plan : {FALSE}] :
     /\ x.contract \/ x.intent
     /\ x.depth = 2 \/ x.mode = Static => ~x.contract
     /\ x.mode = Static => x.depth = 1}

\* The stub answers a hash modulo 1000 in thousandths (261 for an empty
\* intent); a client may answer anything in [0, 1] or fail.
MCAnswers    == {0, 261, 800, 1000, LLMError}
MCAnswersFew == {0, 800, LLMError}

-----------------------------------------------------------------------------
(* The stacks of I5, which no step of the dispatcher builds.               *)

Stack == INSTANCE Composition

UpTo(n, S) == UNION {[1..k -> S] : k \in 0..n}
MCStacks == UpTo(3, UpTo(2, 0..2))

\* On the small stacks, with layers that are empty, repeat or share: the bounds
\* hold, Aggregate has one result, and no result but a disjoint one is as long as
\* the layers together.
ASSUME SmallStacks ==
  \A p \in MCStacks :
    LET results == Stack!Aggregates(p)
    IN /\ Stack!BoundsHold(p)
       /\ Cardinality(results) = 1
       /\ \A out \in results :
            (Len(out) = Stack!Pass(p)[Len(p)].sumLen)
              <=> \A i, j \in DOMAIN p :
                    i # j => Stack!Range(p[i]) \cap Stack!Range(p[j]) = {}
=============================================================================
