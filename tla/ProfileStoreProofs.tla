------------------------- MODULE ProfileStoreProofs -------------------------
(***************************************************************************)
(* Theorems about ProfileStore, for any number of Saves, versions and      *)
(* profiles and any faults.                                                *)
(***************************************************************************)
EXTENDS ProfileStore, FiniteSetTheorems, TLAPS

USE DEF Files, Ended, Busy

-----------------------------------------------------------------------------
(* Types, and what a Save that has begun knows.                            *)

Begun(c) ==
  /\ pc[c] # "new" => arg[c] \in Profiles
  /\ pc[c] \in {"writeTarget", "writeCopy"} => fd[c] \in Files

TInv == TypeOK /\ \A c \in Saves : Begun(c)

LEMMA TInit == Init => TInv
BY DEF Init, TInv, TypeOK, Begun

LEMMA TNext == TInv /\ [Next]_vars => TInv'
<1> SUFFICES ASSUME TInv, [Next]_vars PROVE TInv'
  OBVIOUS
<1> USE StoreAssumption
<1>s. ASSUME UNCHANGED vars PROVE TInv'
  BY <1>s DEF vars, TInv, TypeOK, Begun
<1>1. ASSUME NEW c \in Saves, NEW p \in Profiles, Save(c, p) PROVE TInv'
  BY <1>1 DEF Save, Goto, TInv, TypeOK, Begun
<1>2. ASSUME NEW c \in Saves, OpenTarget(c) PROVE TInv'
  BY <1>2 DEF OpenTarget, OpenFile, Fail, Goto, TInv, TypeOK, Begun
<1>3. ASSUME NEW c \in Saves, WriteTarget(c) PROVE TInv'
  <2>1. content' \in [Files -> Profiles \cup {Nothing, Empty, Torn}]
    BY <1>3 DEF WriteTarget, WriteFile, PartialWrite, TInv, TypeOK, Begun
  <2>2. QED
    BY <1>3, <2>1 DEF WriteTarget, Fail, Goto, TInv, TypeOK, Begun
<1>4. ASSUME NEW c \in Saves, RemoveCurrent(c) PROVE TInv'
  BY <1>4 DEF RemoveCurrent, Goto, TInv, TypeOK, Begun
<1>5. ASSUME NEW c \in Saves, RemoveSidecar(c) PROVE TInv'
  BY <1>5 DEF RemoveSidecar, Goto, TInv, TypeOK, Begun
<1>6. ASSUME NEW c \in Saves, Symlink(c) PROVE TInv'
  BY <1>6 DEF Symlink, Return, Goto, TInv, TypeOK, Begun
<1>7. ASSUME NEW c \in Saves, OpenCopy(c) PROVE TInv'
  BY <1>7 DEF OpenCopy, OpenFile, Fail, Goto, TInv, TypeOK, Begun
<1>8. ASSUME NEW c \in Saves, WriteCopy(c) PROVE TInv'
  <2>1. content' \in [Files -> Profiles \cup {Nothing, Empty, Torn}]
    BY <1>8 DEF WriteCopy, WriteFile, PartialWrite, TInv, TypeOK, Begun
  <2>2. QED
    BY <1>8, <2>1 DEF WriteCopy, Fail, Goto, TInv, TypeOK, Begun
<1>9. ASSUME NEW c \in Saves, OpenSidecar(c) PROVE TInv'
  BY <1>9 DEF OpenSidecar, Fail, Goto, TInv, TypeOK, Begun
<1>10. ASSUME NEW c \in Saves, WriteSidecar(c) PROVE TInv'
  BY <1>10 DEF WriteSidecar, Return, Fail, Goto, TInv, TypeOK, Begun
<1>11. ASSUME NEW c \in Saves, Crash(c) PROVE TInv'
  BY <1>11 DEF Crash, PartialWrite, Running, Goto, TInv, TypeOK, Begun
<1>12. QED
  BY <1>s, <1>1, <1>2, <1>3, <1>4, <1>5, <1>6, <1>7, <1>8, <1>9, <1>10, <1>11 DEF Next

LEMMA Typed == Spec => []TInv
BY TInit, TNext, PTL DEF Spec

\* Every variable of the store stays in its type, whatever fails or crashes and
\* however many Saves overlap.
THEOREM TypeCorrect == Spec => []TypeOK
<1>1. TInv => TypeOK
  BY DEF TInv
<1>2. QED
  BY <1>1, Typed, PTL

-----------------------------------------------------------------------------
(* Concurrent Saves.                                                       *)

\* Without a current.json some Save is not past the step that puts one there.
SomeoneMayPlaceIt ==
  current = Nothing =>
    \E c \in Saves : pc[c] \notin {"writeCopy", "openSidecar", "writeSidecar", "returned"}

LEMMA PlaceNext == TInv /\ SomeoneMayPlaceIt /\ [Next]_vars => SomeoneMayPlaceIt'
<1> SUFFICES ASSUME TInv, SomeoneMayPlaceIt, [Next]_vars, current' = Nothing
             PROVE  \E c \in Saves :
                      pc'[c] \notin {"writeCopy", "openSidecar", "writeSidecar", "returned"}
  BY DEF SomeoneMayPlaceIt
<1> USE StoreAssumption DEF TInv, TypeOK, Goto
<1>s. CASE UNCHANGED vars
  BY <1>s DEF vars, SomeoneMayPlaceIt
<1>1. ASSUME NEW c \in Saves, NEW p \in Profiles, Save(c, p)
      PROVE  pc'[c] = "openTarget"
  BY <1>1 DEF Save
<1>2. ASSUME NEW c \in Saves, OpenTarget(c) PROVE pc'[c] \in {"writeTarget", "failed"}
  BY <1>2 DEF OpenTarget, Fail
<1>3. ASSUME NEW c \in Saves, WriteTarget(c) PROVE pc'[c] \in {"removeCurrent", "failed"}
  BY <1>3 DEF WriteTarget, Fail
<1>4. ASSUME NEW c \in Saves, RemoveCurrent(c) PROVE pc'[c] = "removeSidecar"
  BY <1>4 DEF RemoveCurrent
<1>5. ASSUME NEW c \in Saves, RemoveSidecar(c) PROVE pc'[c] = "symlink"
  BY <1>5 DEF RemoveSidecar
<1>6. ASSUME NEW c \in Saves, Symlink(c) PROVE pc'[c] = "openCopy"
  BY <1>6 DEF Symlink, Begun
<1>7. ASSUME NEW c \in Saves, OpenCopy(c) PROVE pc'[c] = "failed"
  BY <1>7 DEF OpenCopy, Fail
<1>8. ASSUME NEW c \in Saves, Crash(c) PROVE pc'[c] = "crashed"
  BY <1>8 DEF Crash, Running
\* The last three steps neither remove current.json nor leave the others' places.
<1>9. ASSUME NEW c \in Saves, WriteCopy(c) \/ OpenSidecar(c) \/ WriteSidecar(c)
      PROVE  \E d \in Saves :
               pc'[d] \notin {"writeCopy", "openSidecar", "writeSidecar", "returned"}
  <2>1. current' = current /\ pc[c] \in {"writeCopy", "openSidecar", "writeSidecar"}
    BY <1>9 DEF WriteCopy, OpenSidecar, WriteSidecar
  <2>2. PICK d \in Saves :
          pc[d] \notin {"writeCopy", "openSidecar", "writeSidecar", "returned"}
    BY <2>1 DEF SomeoneMayPlaceIt
  <2>3. pc'[d] = pc[d]
    BY <1>9, <2>1, <2>2 DEF WriteCopy, OpenSidecar, WriteSidecar, Return, Fail
  <2>4. QED
    BY <2>2, <2>3
<1>10. QED
  BY <1>s, <1>1, <1>2, <1>3, <1>4, <1>5, <1>6, <1>7, <1>8, <1>9 DEF Next

\* However Saves overlap: when all have completed there is a current.json
\* (refreshCurrent).
THEOREM ACurrentIsLeft == Spec => []CompletedSavesLeaveACurrent
<1>1. Init => SomeoneMayPlaceIt
  BY StoreAssumption DEF Init, SomeoneMayPlaceIt
<1>2. SomeoneMayPlaceIt => CompletedSavesLeaveACurrent
  BY DEF SomeoneMayPlaceIt, CompletedSavesLeaveACurrent
<1>3. QED
  BY <1>1, <1>2, PlaceNext, Typed, PTL DEF Spec

-----------------------------------------------------------------------------
(* Saves one at a time.                                                    *)

\* What a Save under way has done, whatever earlier ones left behind.
Progress(c) ==
  /\ pc[c] = "writeTarget" => fd[c] = arg[c].version /\ content[fd[c]] = Empty
  /\ pc[c] \in {"removeCurrent", "removeSidecar", "symlink", "openCopy"} =>
       content[arg[c].version] = arg[c]
  /\ pc[c] = "writeCopy" => fd[c] = current /\ content[current] = Empty
  /\ pc[c] \in {"openSidecar", "writeSidecar"} =>
       current \in Files /\ content[current] = arg[c]

\* And when os.Remove has not failed.
CleanProgress(c) ==
  /\ pc[c] \in {"removeSidecar", "symlink", "openCopy"} => current = Nothing
  /\ pc[c] \in {"symlink", "openCopy", "writeCopy", "openSidecar"} => sidecar = Nothing
  /\ pc[c] \in {"writeCopy", "openSidecar", "writeSidecar"} =>
       current = c /\ content[arg[c].version] = arg[c]

\* What completed Saves have left.
Outcome ==
  latest # Nothing =>
    /\ Running = {}
    /\ current \in Files /\ content[current] = latest

CleanOutcome ==
  /\ \A v \in Versions : saved[v] # Nothing =>
       /\ content[v] = saved[v]
       /\ \A c \in Running : arg[c].version # v
  /\ latest # Nothing =>
       sidecar = IF current \in Versions THEN Nothing ELSE latest.version

SerialInv ==
  /\ \A c, d \in Running : c = d
  /\ \A c \in Saves : Progress(c)
  /\ Outcome
  /\ ~stuck => CleanOutcome /\ \A c \in Saves : CleanProgress(c)

SInv == TInv /\ (serial => SerialInv)

LEMMA RunningMeans == \A c : c \in Running <=> c \in Saves /\ pc[c] \in Busy
BY DEF Running

\* One runs, so no other Save has progress to keep.
LEMMA OnlyOneRuns ==
  ASSUME NEW c \in Saves, \A d \in Saves \ {c} : pc'[d] \notin Busy,
         Progress(c)', Outcome', ~stuck' => CleanOutcome' /\ CleanProgress(c)'
  PROVE  SerialInv'
<1>1. \A d \in Saves \ {c} : Progress(d)' /\ CleanProgress(d)'
  BY DEF Progress, CleanProgress
<1>2. Running' \subseteq {c}
  BY DEF Running
<1>3. QED
  BY <1>1, <1>2 DEF SerialInv

\* A step of c but its first: it is the one that runs, and nothing is settled.
LEMMA TheOneThatRuns ==
  ASSUME TInv, serial, SerialInv, NEW c \in Saves, pc[c] \in Busy
  PROVE  /\ \A d \in Saves \ {c} : pc[d] \notin Busy
         /\ Progress(c) /\ (~stuck => CleanProgress(c))
         /\ latest = Nothing
         /\ arg[c] \in Profiles /\ arg[c].version \in Versions
         /\ ~stuck => saved[arg[c].version] = Nothing
<1>1. c \in Running
  BY DEF Running
<1>2. \A d \in Saves \ {c} : pc[d] \notin Busy
  BY <1>1 DEF SerialInv, Running
<1>3. latest = Nothing
  BY <1>1 DEF SerialInv, Outcome
<1>4. arg[c] \in Profiles /\ arg[c].version \in Versions
  BY StoreAssumption DEF TInv, Begun
<1>5. ~stuck => saved[arg[c].version] = Nothing
  BY <1>1, <1>4 DEF SerialInv, CleanOutcome
<1>6. QED
  BY <1>2, <1>3, <1>4, <1>5 DEF SerialInv

LEMMA SInit == Init => SInv
<1> SUFFICES ASSUME Init PROVE SerialInv
  BY TInit DEF SInv
<1>1. Running = {} /\ latest = Nothing /\ \A v \in Versions : saved[v] = Nothing
  BY DEF Init, Running
<1>2. QED
  BY <1>1 DEF Init, SerialInv, Progress, Outcome, CleanProgress, CleanOutcome

LEMMA SaveStep ==
  ASSUME TInv, TInv', serial, SerialInv, NEW c \in Saves, NEW p \in Profiles, Save(c, p)
  PROVE  SerialInv'
<1> USE StoreAssumption
<1>1. Running = {}
  <2>1. IsFiniteSet(Running) /\ Cardinality(Running) < 1
    BY FS_Subset DEF Running, Save
  <2>2. Cardinality(Running) = 0
    BY <2>1, FS_CardinalityType
  <2>3. QED
    BY <2>1, <2>2, FS_EmptySet
<1>2. pc' = [pc EXCEPT ![c] = "openTarget"] /\ pc \in [Saves -> Busy \cup Ended \cup {"new"}]
  BY DEF Save, Goto, TInv, TypeOK
<1>3. \A d \in Saves \ {c} : pc'[d] \notin Busy
  BY <1>1, <1>2 DEF Running
<1>4. Progress(c)' /\ CleanProgress(c)'
  BY <1>2 DEF Progress, CleanProgress
<1>5. Outcome'
  BY DEF Outcome, Save
<1>6. Running' \subseteq {c} /\ arg'[c] = p /\ p.version \in Versions
  BY <1>3 DEF Running, Save, TInv, TypeOK
<1>7. ASSUME ~stuck' PROVE CleanOutcome'
  <2>1. CleanOutcome
    BY <1>7 DEF Save, SerialInv
  <2>2. saved' = [saved EXCEPT ![p.version] = Nothing] /\ content' = content /\ latest' = Nothing
    BY DEF Save
  <2>3. saved \in [Versions -> Profiles \cup {Nothing}]
    BY DEF TInv, TypeOK
  <2>4. QED
    BY <1>6, <2>1, <2>2, <2>3 DEF CleanOutcome
<1>8. QED
  BY <1>3, <1>4, <1>5, <1>7, OnlyOneRuns
\* What every later step of c keeps: the others rest, and nothing is settled
\* before c returns.
LEMMA SettlesNothing ==
  ASSUME TInv, TInv', serial, SerialInv, NEW c \in Saves, pc[c] \in Busy,
         NEW step, pc' = [pc EXCEPT ![c] = step],
         arg' = arg, saved' = saved, latest' = latest, stuck => stuck',
         \A v \in Versions : ~stuck' /\ v # arg[c].version => content'[v] = content[v],
         Progress(c)', ~stuck' => CleanProgress(c)'
  PROVE  SerialInv'
<1>1. /\ \A d \in Saves \ {c} : pc[d] \notin Busy
      /\ latest = Nothing
      /\ ~stuck => saved[arg[c].version] = Nothing
  BY TheOneThatRuns
<1>2. \A d \in Saves \ {c} : pc'[d] \notin Busy
  BY <1>1 DEF TInv, TypeOK
<1>3. Outcome'
  BY <1>1 DEF Outcome
<1>4. ASSUME ~stuck' PROVE CleanOutcome'
  <2>1. CleanOutcome
    BY <1>4 DEF SerialInv
  <2>2. Running' \subseteq {c}
    BY <1>2 DEF Running
  <2>3. QED
    BY <1>1, <1>4, <2>1, <2>2 DEF CleanOutcome
<1>5. QED
  BY <1>2, <1>3, <1>4, OnlyOneRuns

LEMMA OneStep ==
  ASSUME TInv, TInv', serial, SerialInv, NEW c \in Saves,
         \/ OpenTarget(c) \/ WriteTarget(c) \/ RemoveCurrent(c) \/ RemoveSidecar(c)
         \/ OpenCopy(c) \/ WriteCopy(c) \/ OpenSidecar(c) \/ Crash(c)
  PROVE  SerialInv'
<1> USE StoreAssumption
<1> pc[c] \in Busy
  BY DEF OpenTarget, WriteTarget, RemoveCurrent, RemoveSidecar, OpenCopy, WriteCopy,
         OpenSidecar, Crash, Running
<1>t. /\ pc \in [Saves -> Busy \cup Ended \cup {"new"}]
      /\ fd \in [Saves -> Files \cup {Nothing}]
      /\ content \in [Files -> Profiles \cup {Nothing, Empty, Torn}]
      /\ current \in Files \cup {Nothing}
  BY DEF TInv, TypeOK
<1>c. /\ Progress(c) /\ (~stuck => CleanProgress(c))
      /\ arg[c] \in Profiles /\ arg[c].version \in Versions
  BY TheOneThatRuns
<1>1. CASE OpenTarget(c)
  <2>1. PICK step : pc' = [pc EXCEPT ![c] = step] /\ step \in {"writeTarget", "failed"}
    BY <1>1 DEF OpenTarget, Goto, Fail
  <2>2. Progress(c)' /\ CleanProgress(c)'
    BY <1>1, <1>t, <1>c, <2>1 DEF OpenTarget, OpenFile, Goto, Fail, Progress, CleanProgress
  <2>3. QED
    BY <1>1, <1>t, <1>c, <2>1, <2>2, SettlesNothing DEF OpenTarget, OpenFile
<1>2. CASE WriteTarget(c)
  <2>1. PICK step : pc' = [pc EXCEPT ![c] = step] /\ step \in {"removeCurrent", "failed"}
    BY <1>2 DEF WriteTarget, Goto, Fail
  <2>2. fd[c] = arg[c].version /\ content[fd[c]] = Empty
    BY <1>2, <1>c DEF WriteTarget, Progress
  <2>3. Progress(c)' /\ CleanProgress(c)'
    BY <1>2, <1>t, <1>c, <2>1, <2>2
       DEF WriteTarget, WriteFile, Goto, Fail, Progress, CleanProgress
  <2>4. \A v \in Versions : v # arg[c].version => content'[v] = content[v]
    BY <1>2, <1>t, <2>2 DEF WriteTarget, WriteFile, PartialWrite
  <2>5. QED
    BY <1>2, <2>1, <2>3, <2>4, SettlesNothing DEF WriteTarget
<1>3. CASE RemoveCurrent(c)
  <2>1. pc' = [pc EXCEPT ![c] = "removeSidecar"]
    BY <1>3 DEF RemoveCurrent, Goto
  <2>2. Progress(c)' /\ (~stuck' => CleanProgress(c)')
    BY <1>3, <1>t, <1>c, <2>1 DEF RemoveCurrent, Progress, CleanProgress
  <2>3. stuck => stuck'
    BY <1>3 DEF RemoveCurrent
  <2>4. /\ arg' = arg /\ saved' = saved /\ latest' = latest
        /\ \A v \in Versions : content'[v] = content[v]
    BY <1>3 DEF RemoveCurrent
  <2>5. QED
    BY <2>1, <2>2, <2>3, <2>4, SettlesNothing
<1>4. CASE RemoveSidecar(c)
  <2>1. pc' = [pc EXCEPT ![c] = "symlink"]
    BY <1>4 DEF RemoveSidecar, Goto
  <2>2. Progress(c)' /\ (~stuck' => CleanProgress(c)')
    BY <1>4, <1>t, <1>c, <2>1 DEF RemoveSidecar, Progress, CleanProgress
  <2>3. stuck => stuck'
    BY <1>4 DEF RemoveSidecar
  <2>4. /\ arg' = arg /\ saved' = saved /\ latest' = latest
        /\ \A v \in Versions : content'[v] = content[v]
    BY <1>4 DEF RemoveSidecar
  <2>5. QED
    BY <2>1, <2>2, <2>3, <2>4, SettlesNothing
<1>5. CASE OpenCopy(c)
  <2>1. PICK step : pc' = [pc EXCEPT ![c] = step] /\ step \in {"writeCopy", "failed"}
    BY <1>5 DEF OpenCopy, Goto, Fail
  <2>2. Progress(c)'
    BY <1>5, <1>t, <1>c, <2>1 DEF OpenCopy, OpenFile, Goto, Fail, Progress
  <2>3. ~stuck => current = Nothing /\ sidecar = Nothing /\ content[arg[c].version] = arg[c]
    BY <1>5, <1>c DEF OpenCopy, Progress, CleanProgress
  <2>4. ~stuck => CleanProgress(c)' /\ \A v \in Versions : content'[v] = content[v]
    BY <1>5, <1>t, <1>c, <2>1, <2>3 DEF OpenCopy, OpenFile, Goto, Fail, CleanProgress
  <2>5. QED
    BY <1>5, <2>1, <2>2, <2>4, SettlesNothing DEF OpenCopy
<1>6. CASE WriteCopy(c)
  <2>1. PICK step : pc' = [pc EXCEPT ![c] = step] /\ step \in {"openSidecar", "failed"}
    BY <1>6 DEF WriteCopy, Goto, Fail
  <2>2. fd[c] = current /\ content[fd[c]] = Empty /\ fd[c] \in Files
    BY <1>6, <1>c DEF WriteCopy, Progress, TInv, Begun
  <2>3. Progress(c)'
    BY <1>6, <1>t, <1>c, <2>1, <2>2 DEF WriteCopy, WriteFile, Goto, Fail, Progress
  <2>4. ~stuck => /\ current = c /\ content[arg[c].version] = arg[c] /\ sidecar = Nothing
                  /\ \A v \in Versions : content'[v] = content[v]
    BY <1>6, <1>t, <1>c, <2>2 DEF WriteCopy, WriteFile, PartialWrite, CleanProgress
  <2>5. ~stuck => CleanProgress(c)'
    BY <1>6, <1>t, <1>c, <2>1, <2>4 DEF WriteCopy, CleanProgress
  <2>6. QED
    BY <1>6, <2>1, <2>3, <2>4, <2>5, SettlesNothing DEF WriteCopy
<1>7. CASE OpenSidecar(c)
  <2>1. PICK step : pc' = [pc EXCEPT ![c] = step] /\ step \in {"writeSidecar", "failed"}
    BY <1>7 DEF OpenSidecar, Goto, Fail
  <2>2. Progress(c)' /\ (~stuck => CleanProgress(c)')
    BY <1>7, <1>t, <1>c, <2>1 DEF OpenSidecar, Progress, CleanProgress
  <2>3. QED
    BY <1>7, <2>1, <2>2, SettlesNothing DEF OpenSidecar
<1>8. CASE Crash(c)
  <2>1. pc' = [pc EXCEPT ![c] = "crashed"]
    BY <1>8 DEF Crash, Goto
  <2>2. Progress(c)' /\ CleanProgress(c)'
    BY <1>t, <2>1 DEF Progress, CleanProgress
  <2>3. \A v \in Versions : ~stuck /\ v # arg[c].version => content'[v] = content[v]
    BY <1>8, <1>t, <1>c DEF Crash, PartialWrite, Progress, CleanProgress
  <2>4. QED
    BY <1>8, <2>1, <2>2, <2>3, SettlesNothing DEF Crash
<1>9. QED
  BY <1>1, <1>2, <1>3, <1>4, <1>5, <1>6, <1>7, <1>8
\* The two steps with which a Save may complete.
LEMMA LastStep ==
  ASSUME TInv, TInv', serial, SerialInv, NEW c \in Saves, Symlink(c) \/ WriteSidecar(c)
  PROVE  SerialInv'
<1> USE StoreAssumption
<1>b. pc[c] \in Busy
  BY DEF Symlink, WriteSidecar
<1>t. /\ pc \in [Saves -> Busy \cup Ended \cup {"new"}]
      /\ saved \in [Versions -> Profiles \cup {Nothing}]
      /\ content \in [Files -> Profiles \cup {Nothing, Empty, Torn}]
      /\ current \in Files \cup {Nothing}
  BY DEF TInv, TypeOK
<1>c. /\ \A d \in Saves \ {c} : pc[d] \notin Busy
      /\ Progress(c) /\ (~stuck => CleanProgress(c))
      /\ arg[c] \in Profiles /\ arg[c].version \in Versions
  BY <1>b, TheOneThatRuns
<1>u. content' = content /\ arg' = arg /\ stuck' = stuck
  BY DEF Symlink, WriteSidecar
<1>1. CASE pc' = [pc EXCEPT ![c] = "returned"]
  <2>1. saved' = [saved EXCEPT ![arg[c].version] = arg[c]] /\ latest' = arg[c]
    BY <1>1, <1>t DEF Symlink, WriteSidecar, Return, Goto, Fail
  <2>2. Running' = {}
    BY <1>1, <1>t, <1>c DEF Running
  <2>3. /\ current' \in Files /\ content[current'] = arg[c]
        /\ ~stuck => /\ content[arg[c].version] = arg[c]
                     /\ sidecar' = IF current' \in Versions THEN Nothing ELSE arg[c].version
    <3>1. CASE Symlink(c)
      <4>1. current' = arg[c].version /\ sidecar' = sidecar
        BY <1>1, <1>t, <3>1 DEF Symlink, Goto
      <4>2. content[arg[c].version] = arg[c] /\ (~stuck => sidecar = Nothing)
        BY <1>c, <3>1 DEF Symlink, Progress, CleanProgress
      <4>3. QED
        BY <1>c, <4>1, <4>2
    <3>2. CASE WriteSidecar(c)
      <4>1. current' = current /\ sidecar' = arg[c].version
        BY <1>1, <1>t, <3>2 DEF WriteSidecar, Goto, Fail
      <4>2. /\ current \in Files /\ content[current] = arg[c]
            /\ ~stuck => current = c /\ content[arg[c].version] = arg[c]
        BY <1>c, <3>2 DEF WriteSidecar, Progress, CleanProgress
      <4>3. QED
        BY <4>1, <4>2
    <3>3. QED
      BY <3>1, <3>2
  <2>4. Outcome'
    BY <1>u, <2>1, <2>2, <2>3 DEF Outcome
  <2>5. ASSUME ~stuck' PROVE CleanOutcome'
    <3>1. CleanOutcome
      BY <1>u, <2>5 DEF SerialInv
    <3>2. QED
      BY <1>t, <1>u, <2>1, <2>2, <2>3, <2>5, <3>1 DEF CleanOutcome
  <2>6. Progress(c)' /\ CleanProgress(c)'
    BY <1>1, <1>t DEF Progress, CleanProgress
  <2>7. \A d \in Saves \ {c} : pc'[d] \notin Busy
    BY <1>1, <1>t, <1>c
  <2>8. QED
    BY <2>4, <2>5, <2>6, <2>7, OnlyOneRuns
<1>2. CASE pc' # [pc EXCEPT ![c] = "returned"]
  <2>1. PICK step : pc' = [pc EXCEPT ![c] = step] /\ step \in {"openCopy", "failed"}
    BY <1>2 DEF Symlink, WriteSidecar, Return, Fail, Goto
  <2>2. saved' = saved /\ latest' = latest /\ current' = current /\ sidecar' = sidecar
    BY <1>2 DEF Symlink, WriteSidecar, Return, Goto
  <2>3. pc[c] = "symlink" \/ step = "failed"
    BY <1>t, <2>1 DEF Symlink, WriteSidecar, Return, Fail, Goto
  <2>4. Progress(c)' /\ (~stuck' => CleanProgress(c)')
    BY <1>t, <1>c, <1>u, <2>1, <2>2, <2>3 DEF Progress, CleanProgress
  <2>5. QED
    BY <1>b, <1>u, <2>1, <2>2, <2>4, SettlesNothing
<1>3. QED
  BY <1>1, <1>2

LEMMA SNext == SInv /\ [Next]_vars => SInv'
<1> SUFFICES ASSUME SInv, [Next]_vars PROVE SInv'
  OBVIOUS
<1>1. TInv /\ TInv'
  BY TNext DEF SInv
<1>2. serial' = serial
  BY DEF Next, vars, Save, OpenTarget, WriteTarget, RemoveCurrent, RemoveSidecar, Symlink,
         OpenCopy, WriteCopy, OpenSidecar, WriteSidecar, Crash
<1>3. ASSUME serial PROVE SerialInv'
  <2>1. SerialInv
    BY <1>3 DEF SInv
  <2>2. CASE UNCHANGED vars
    BY <2>1, <2>2 DEF vars, SerialInv, Progress, CleanProgress, Outcome, CleanOutcome, Running
  <2>3. CASE Next
    BY <1>1, <1>3, <2>1, <2>3, SaveStep, OneStep, LastStep DEF Next
  <2>4. QED
    BY <2>2, <2>3
<1>4. QED
  BY <1>1, <1>2, <1>3 DEF SInv

LEMMA SerialInductive == Spec => []SInv
BY SInit, SNext, PTL DEF Spec

\* Saves one at a time, with any crashes and faults but a failing os.Remove: a
\* version whose last Save completed is loaded as that Save left it
\* (Store.Save, Store.Load).
THEOREM VersionsSurvive == Spec => []CompletedVersionsSurvive
<1>1. SInv => CompletedVersionsSurvive
  BY DEF SInv, TInv, TypeOK, SerialInv, CleanOutcome, CompletedVersionsSurvive, Load, ReadProfile
<1>2. QED
  BY <1>1, SerialInductive, PTL

\* Saves one at a time, with any crashes and faults: current.json is the profile
\* of the last Save, once it has completed (Store.refreshCurrent, LoadCurrent).
THEOREM CurrentIsTheLastSave == Spec => []CompletedSaveIsCurrent
<1>1. SInv => CompletedSaveIsCurrent
  BY StoreAssumption
     DEF SInv, TInv, TypeOK, SerialInv, Outcome, CompletedSaveIsCurrent, LoadCurrent, ReadProfile
<1>2. QED
  BY <1>1, SerialInductive, PTL

\* Likewise, but for a failing os.Remove: a sidecar is there exactly for a plain
\* copy and names the version copied (Store.refreshCurrent).
THEOREM SidecarIsRight == Spec => []SidecarNamesTheCopy
<1>1. SInv => SidecarNamesTheCopy
  BY DEF SInv, SerialInv, CleanOutcome, SidecarNamesTheCopy
<1>2. QED
  BY <1>1, SerialInductive, PTL
=============================================================================
