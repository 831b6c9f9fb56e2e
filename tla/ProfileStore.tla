---------------------------- MODULE ProfileStore ----------------------------
(***************************************************************************)
(* calibration.Store (internal/calibration/store.go): calls of Save, each  *)
(* a sequence of system calls, by processes that may crash between any two *)
(* of them, on one directory.  A file is known by an identity that an open *)
(* descriptor keeps: a version for the file <ID>-<Version>.json, the Save  *)
(* that created it for a plain copy at current.json.  So current.json is a *)
(* symbolic link exactly when it leads to a version.                       *)
(***************************************************************************)
EXTENDS Naturals, FiniteSets

CONSTANTS Saves,      \* the calls of Save
          Versions,   \* the names <ID>-<Version>
          Profiles,   \* records of a version and of a content
          Nothing, Empty, Torn,
          Faults,     \* the faults of the file system: "io", "remove"
          MaxRunning  \* bound on the Saves that run at once

ASSUME StoreAssumption ==
  /\ \A p \in Profiles : p.version \in Versions
  /\ Versions \cap Saves = {}
  /\ {Nothing, Empty, Torn} \cap (Profiles \cup Versions \cup Saves) = {}
  /\ Faults \subseteq {"io", "remove"}
  /\ MaxRunning \in Nat \ {0}
  /\ IsFiniteSet(Saves) /\ Saves # {}

VARIABLES symlinks, \* whether the system has symbolic links
          serial,   \* whether the callers run their Saves one at a time
          content,  \* content[i]: what the file i holds
          current,  \* the file current.json leads to
          sidecar,  \* the version current.json.source names
          pc,       \* pc[c]: the next system call of c
          arg,      \* arg[c]: its Profile
          fd,       \* fd[c]: the file it has open for writing
          stuck,    \* history: os.Remove has failed on a file that exists
          saved,    \* history: saved[v]: the last Save of v, when it completed
          latest    \* history: the last Save of all, when it completed

vars == <<symlinks, serial, content, current, sidecar, pc, arg, fd, stuck, saved, latest>>

Files == Versions \cup Saves
Ended == {"returned", "failed", "crashed"}
Busy  == {"openTarget", "writeTarget", "removeCurrent", "removeSidecar", "symlink",
          "openCopy", "writeCopy", "openSidecar", "writeSidecar"}

Running == {c \in Saves : pc[c] \in Busy}

Init ==
  /\ symlinks \in BOOLEAN
  /\ serial \in BOOLEAN
  /\ content = [i \in Files |-> Nothing]
  /\ current = Nothing
  /\ sidecar = Nothing
  /\ pc = [c \in Saves |-> "new"]
  /\ arg = [c \in Saves |-> Nothing]
  /\ fd = [c \in Saves |-> Nothing]
  /\ stuck = FALSE
  /\ saved = [v \in Versions |-> Nothing]
  /\ latest = Nothing

Goto(c, step) == pc' = [pc EXCEPT ![c] = step]

\* Save returns nil.  When Saves do not overlap it was the last to begin.
Return(c) ==
  /\ Goto(c, "returned")
  /\ saved' = [saved EXCEPT ![arg[c].version] = arg[c]]
  /\ latest' = arg[c]

\* A system call fails and Save returns the error.
Fail(c) ==
  /\ "io" \in Faults
  /\ Goto(c, "failed")

\* os.WriteFile on an existing or new file: O_TRUNC ...
OpenFile(c, i) ==
  /\ content' = [content EXCEPT ![i] = Empty]
  /\ fd' = [fd EXCEPT ![c] = i]

\* ... then a write from its start: over what another writer has put there a
\* longer tail may remain.
WriteFile(c) ==
  \E written \in IF content[fd[c]] \in {Empty, arg[c]} THEN {arg[c]} ELSE {arg[c], Torn} :
    content' = [content EXCEPT ![fd[c]] = written]

\* A write that fails, or dies with its process, half way.
PartialWrite(c) == content' = [content EXCEPT ![fd[c]] = Torn]

-----------------------------------------------------------------------------
\* Save(p) is entered.  MkdirAll and MarshalCanonical change nothing a later
\* step depends on; when they fail Save returns as OpenTarget's failure does.
Save(c, p) ==
  /\ pc[c] = "new"
  /\ Cardinality(Running) < IF serial THEN 1 ELSE MaxRunning
  /\ arg' = [arg EXCEPT ![c] = p]
  /\ saved' = [saved EXCEPT ![p.version] = Nothing]
  /\ latest' = Nothing
  /\ Goto(c, "openTarget")
  /\ UNCHANGED <<symlinks, serial, stuck, content, current, sidecar, fd>>

OpenTarget(c) ==
  /\ pc[c] = "openTarget"
  /\ \/ /\ OpenFile(c, arg[c].version)
        /\ Goto(c, "writeTarget")
     \/ /\ Fail(c)
        /\ UNCHANGED <<content, fd>>
  /\ UNCHANGED <<symlinks, serial, stuck, current, sidecar, arg, saved, latest>>

WriteTarget(c) ==
  /\ pc[c] = "writeTarget"
  /\ \/ /\ WriteFile(c)
        /\ Goto(c, "removeCurrent")
     \/ /\ Fail(c)
        /\ UNCHANGED content \/ PartialWrite(c)
  /\ UNCHANGED <<symlinks, serial, stuck, current, sidecar, arg, fd, saved, latest>>

\* Mutants: current.json, or its sidecar, is not removed first.
KeepCurrent(c) ==
  /\ pc[c] = "removeCurrent"
  /\ Goto(c, "removeSidecar")
  /\ UNCHANGED <<symlinks, serial, content, current, sidecar, arg, fd, stuck, saved, latest>>

KeepSidecar(c) ==
  /\ pc[c] = "removeSidecar"
  /\ Goto(c, "symlink")
  /\ UNCHANGED <<symlinks, serial, content, current, sidecar, arg, fd, stuck, saved, latest>>

\* refreshCurrent: the two os.Remove, whose errors are ignored.
RemoveCurrent(c) ==
  /\ pc[c] = "removeCurrent"
  /\ \/ /\ current' = Nothing
        /\ UNCHANGED stuck
     \/ /\ "remove" \in Faults /\ current # Nothing
        /\ stuck' = TRUE
        /\ UNCHANGED current
  /\ Goto(c, "removeSidecar")
  /\ UNCHANGED <<symlinks, serial, content, sidecar, arg, fd, saved, latest>>

RemoveSidecar(c) ==
  /\ pc[c] = "removeSidecar"
  /\ \/ /\ sidecar' = Nothing
        /\ UNCHANGED stuck
     \/ /\ "remove" \in Faults /\ sidecar # Nothing
        /\ stuck' = TRUE
        /\ UNCHANGED sidecar
  /\ Goto(c, "symlink")
  /\ UNCHANGED <<symlinks, serial, content, current, arg, fd, saved, latest>>

\* Mutant: an error of os.Symlink is ignored, there is no fallback.
SymlinkOnly(c) ==
  /\ pc[c] = "symlink"
  /\ current' = IF symlinks /\ current = Nothing THEN arg[c].version ELSE current
  /\ Return(c)
  /\ UNCHANGED <<symlinks, serial, stuck, content, sidecar, arg, fd>>

\* os.Symlink fails without symbolic links, when current.json exists, or by a
\* fault.
Symlink(c) ==
  /\ pc[c] = "symlink"
  /\ \/ /\ symlinks /\ current = Nothing
        /\ current' = arg[c].version
        /\ Return(c)
     \/ /\ ~(symlinks /\ current = Nothing) \/ "io" \in Faults
        /\ Goto(c, "openCopy")
        /\ UNCHANGED <<current, saved, latest>>
  /\ UNCHANGED <<symlinks, serial, stuck, content, sidecar, arg, fd>>

\* Mutant: the copy is not written when current.json exists.
OpenCopyIfAbsent(c) ==
  /\ pc[c] = "openCopy"
  /\ \/ /\ current = Nothing
        /\ OpenFile(c, c)
        /\ current' = c
        /\ Goto(c, "writeCopy")
     \/ /\ current # Nothing
        /\ Goto(c, "openSidecar")
        /\ UNCHANGED <<content, current, fd>>
  /\ UNCHANGED <<symlinks, serial, stuck, sidecar, arg, saved, latest>>

\* The fallback: os.WriteFile creates current.json, or opens the file it
\* leads to, through a link.
OpenCopy(c) ==
  /\ pc[c] = "openCopy"
  /\ \/ /\ current = Nothing
        /\ OpenFile(c, c)
        /\ current' = c
        /\ Goto(c, "writeCopy")
     \/ /\ current # Nothing
        /\ OpenFile(c, current)
        /\ Goto(c, "writeCopy")
        /\ UNCHANGED current
     \/ /\ Fail(c)
        /\ UNCHANGED <<content, current, fd>>
  /\ UNCHANGED <<symlinks, serial, stuck, sidecar, arg, saved, latest>>

WriteCopy(c) ==
  /\ pc[c] = "writeCopy"
  /\ \/ /\ WriteFile(c)
        /\ Goto(c, "openSidecar")
     \/ /\ Fail(c)
        /\ UNCHANGED content \/ PartialWrite(c)
  /\ UNCHANGED <<symlinks, serial, stuck, current, sidecar, arg, fd, saved, latest>>

OpenSidecar(c) ==
  /\ pc[c] = "openSidecar"
  /\ \/ /\ sidecar' = Empty
        /\ Goto(c, "writeSidecar")
     \/ /\ Fail(c)
        /\ UNCHANGED sidecar
  /\ UNCHANGED <<symlinks, serial, stuck, content, current, arg, fd, saved, latest>>

\* Mutant: the sidecar holds the profile in place of the name.
WriteSidecarCopy(c) ==
  /\ pc[c] = "writeSidecar"
  /\ sidecar' = arg[c]
  /\ Return(c)
  /\ UNCHANGED <<symlinks, serial, stuck, content, current, arg, fd>>

WriteSidecar(c) ==
  /\ pc[c] = "writeSidecar"
  /\ \/ /\ sidecar' = arg[c].version
        /\ Return(c)
     \/ /\ Fail(c)
        /\ UNCHANGED <<sidecar, saved, latest>>
  /\ UNCHANGED <<symlinks, serial, stuck, content, current, arg, fd>>

\* The process dies; a write under way may have been done in part.
Crash(c) ==
  /\ c \in Running
  /\ Goto(c, "crashed")
  /\ \/ UNCHANGED content
     \/ /\ pc[c] \in {"writeTarget", "writeCopy"}
        /\ PartialWrite(c)
  /\ UNCHANGED <<symlinks, serial, stuck, current, sidecar, arg, fd, saved, latest>>

Next ==
  \E c \in Saves :
    \/ \E p \in Profiles : Save(c, p)
    \/ OpenTarget(c)
    \/ WriteTarget(c)
    \/ RemoveCurrent(c)
    \/ RemoveSidecar(c)
    \/ Symlink(c)
    \/ OpenCopy(c)
    \/ WriteCopy(c)
    \/ OpenSidecar(c)
    \/ WriteSidecar(c)
    \/ Crash(c)

Spec == Init /\ [][Next]_vars

-----------------------------------------------------------------------------
\* readProfile: an error, here Nothing, when the file is absent or does not parse.
ReadProfile(i) == IF i \in Files /\ content[i] \in Profiles THEN content[i] ELSE Nothing

Load(v)     == ReadProfile(v)
LoadCurrent == ReadProfile(current)

\* The type invariant.
TypeOK ==
  /\ symlinks \in BOOLEAN
  /\ serial \in BOOLEAN
  /\ content \in [Files -> Profiles \cup {Nothing, Empty, Torn}]
  /\ current \in Files \cup {Nothing}
  /\ sidecar \in Versions \cup {Nothing, Empty}
  /\ pc \in [Saves -> Busy \cup Ended \cup {"new"}]
  /\ arg \in [Saves -> Profiles \cup {Nothing}]
  /\ fd \in [Saves -> Files \cup {Nothing}]
  /\ stuck \in BOOLEAN
  /\ saved \in [Versions -> Profiles \cup {Nothing}]
  /\ latest \in Profiles \cup {Nothing}

\* Saves one at a time: whatever fails or crashes, a version whose last Save
\* completed is loaded as that Save left it, unless os.Remove failed on a file
\* that exists: then the fallback may write through the link left in place.
CompletedVersionsSurvive ==
  serial /\ ~stuck =>
    \A v \in Versions : saved[v] # Nothing => Load(v) = saved[v]

\* Saves one at a time: after a Save that completes, current.json is its
\* profile, whatever earlier Saves left behind when they failed or crashed.
CompletedSaveIsCurrent == serial /\ latest # Nothing => LoadCurrent = latest

\* Likewise, after a Save that completes the sidecar is there exactly
\* for a plain copy, and names the version copied.
SidecarNamesTheCopy ==
  serial /\ ~stuck /\ latest # Nothing => sidecar = IF current \in Versions THEN Nothing ELSE latest.version

\* Concurrent Saves: once all have completed there is a current.json.
CompletedSavesLeaveACurrent ==
  (\A c \in Saves : pc[c] = "returned") => current # Nothing

-----------------------------------------------------------------------------
(* A statement of the documentation that the code does not keep.           *)

\* store.go:19: "<ID>-<Version>.json     canonical Profile JSON": when every
\* Save has completed, each file holds a profile of its own version.
VersionedFilesHoldTheirVersion ==
  (\A c \in Saves : pc[c] = "returned") =>
    \A v \in Versions : Load(v) # Nothing => Load(v).version = v
=============================================================================
