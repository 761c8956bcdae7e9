----------------------------- MODULE AtomicFile -----------------------------
(***************************************************************************)
(* write_file_atomic (paths.hpp) one system call at a time, over a file    *)
(* system with a page cache.  The directory maps the two names the code    *)
(* uses, `path' and `path.tmp', to inodes; an inode holds a prefix of the  *)
(* contents its creator writes, and survives a power cut for certain only  *)
(* once it is fsynced.  Every system call may fail; a process may be       *)
(* killed and the machine may lose power between any two of them.          *)
(***************************************************************************)
EXTENDS Naturals, FiniteSets

CONSTANTS
    Writers,     \* processes that call write_file_atomic on the same path
    Contents,    \* the texts they write
    Inodes,      \* inodes of the file system; none free: create fails
    Chunks,      \* write() calls it takes to write a whole text
    NoInode,     \* a name that does not exist, a descriptor that is not open
    NoText,      \* what reading a missing path gives
    Torn         \* what reading a partly written file gives

ASSUME ChunksAssumption == Chunks \in Nat \ {0}
ASSUME NoInodeAssumption == NoInode \notin Inodes
ASSUME TextAssumption ==
    /\ NoText \notin Contents
    /\ Torn \notin Contents
    /\ Torn # NoText

VARIABLES
    dir,         \* [Names -> inode], what lookups see now
    maybe,       \* [Names -> inodes a power cut may leave under the name]
    file,        \* [Inodes -> what is in the inode]
    pc,          \* [Writers -> the next system call]
    want,        \* [Writers -> text being written, NoText between calls]
    fd,          \* [Writers -> inode of the open tmp file]
    outcome,     \* [Writers -> how the last call stands]
    faulted      \* the writers of which a system call of this write failed

vars == <<dir, maybe, file, pc, want, fd, outcome, faulted>>

Names == {"path", "tmp"}
Steps == {"idle", "mkdir", "unlink", "open", "write", "fsync", "close",
          "rename", "cleanup", "syncdir"}

\* A prefix of a text, and how much of it is sure to survive a power cut.
Inode(text, len, safe) == [text |-> text, len |-> len, safe |-> safe]
File == [text : Contents, len : 0..Chunks, safe : 0..Chunks]

\* A function on the names, given for `path' and for `path.tmp'.
Link(p, t) == [n \in Names |-> IF n = "path" THEN p ELSE t]

\* What a reader of inode i, or of a missing name, gets.
Read(i) ==
    IF i = NoInode THEN NoText
    ELSE IF file[i].len = Chunks THEN file[i].text ELSE Torn

TypeOK ==
    /\ dir \in [Names -> Inodes \cup {NoInode}]
    /\ maybe \in [Names -> SUBSET (Inodes \cup {NoInode})]
    /\ file \in [Inodes -> File]
    /\ pc \in [Writers -> Steps]
    /\ want \in [Writers -> Contents \cup {NoText}]
    /\ fd \in [Writers -> Inodes \cup {NoInode}]
    /\ outcome \in [Writers -> {"none", "ok", "warned", "threw", "killed"}]
    /\ faulted \subseteq Writers

\* The path is missing, or holds a text an earlier run wrote and synced.
Init ==
    /\ \E text \in [Inodes -> Contents] :
          file = [i \in Inodes |-> Inode(text[i], Chunks, Chunks)]
    /\ \E i \in Inodes \cup {NoInode} :
          /\ dir = Link(i, NoInode)
          /\ maybe = Link({i}, {NoInode})
    /\ pc = [w \in Writers |-> "idle"]
    /\ want = [w \in Writers |-> NoText]
    /\ fd = [w \in Writers |-> NoInode]
    /\ outcome = [w \in Writers |-> "none"]
    /\ faulted = {}

Goto(w, step) == pc' = [pc EXCEPT ![w] = step]

\* The call ends, by return, throw or death.
End(w, how) ==
    /\ Goto(w, "idle")
    /\ want' = [want EXCEPT ![w] = NoText]
    /\ outcome' = [outcome EXCEPT ![w] = how]

\* A directory update is seen at once and may or may not survive a power cut.
Relink(name, i) ==
    /\ dir' = [dir EXCEPT ![name] = i]
    /\ maybe' = [maybe EXCEPT ![name] = @ \cup {i}]

\* A failed call that ends in a throw, with nothing left to clean up.
ThrowNow(w) ==
    /\ End(w, "threw")
    /\ UNCHANGED <<dir, maybe, file, fd>>

Fault(w) == faulted' = faulted \cup {w}
NoFault == UNCHANGED faulted
-----------------------------------------------------------------------------
Begin(w, c) ==
    /\ pc[w] = "idle"
    /\ Goto(w, "mkdir")
    /\ want' = [want EXCEPT ![w] = c]
    /\ outcome' = [outcome EXCEPT ![w] = "none"]
    /\ faulted' = faulted \ {w}
    /\ UNCHANGED <<dir, maybe, file, fd>>

EnsureParentDir(w) ==
    /\ pc[w] = "mkdir"
    /\ \/ /\ Goto(w, "unlink")
          /\ NoFault
          /\ UNCHANGED <<dir, maybe, file, want, fd, outcome>>
       \/ Fault(w) /\ ThrowNow(w)

\* Mutant: a stale tmp file is left for open to trip over.
UnlinkTmpForgotten(w) ==
    /\ pc[w] = "unlink"
    /\ Goto(w, "open")
    /\ UNCHANGED <<dir, maybe, file, want, fd, outcome, faulted>>

\* The result of this unlink is ignored: a missing tmp is the normal case.
UnlinkTmp(w) ==
    /\ pc[w] = "unlink"
    /\ Goto(w, "open")
    /\ \/ Relink("tmp", NoInode) /\ NoFault
       \/ Fault(w) /\ UNCHANGED <<dir, maybe>>
    /\ UNCHANGED <<file, want, fd, outcome>>

\* An inode is free when no name, descriptor or crash outcome refers to it.
Free(i) ==
    /\ \A n \in Names : i \notin maybe[n] /\ dir[n] # i
    /\ \A v \in Writers : fd[v] # i

\* O_CREAT | O_EXCL: an existing tmp fails the call with EEXIST.
OpenTmp(w) ==
    /\ pc[w] = "open"
    /\ \/ /\ dir["tmp"] = NoInode
          /\ \E i \in Inodes :
                /\ Free(i)
                /\ Relink("tmp", i)
                /\ fd' = [fd EXCEPT ![w] = i]
                /\ file' = [file EXCEPT ![i] = Inode(want[w], 0, 0)]
          /\ Goto(w, "write")
          /\ NoFault
          /\ UNCHANGED <<want, outcome>>
       \/ dir["tmp"] # NoInode /\ NoFault /\ ThrowNow(w)
       \/ Fault(w) /\ ThrowNow(w)

\* The fail lambda: its close and unlink come after the call that failed.
FailCall(w) ==
    /\ Fault(w)
    /\ Goto(w, "cleanup")
    /\ UNCHANGED <<dir, maybe, file, want, fd, outcome>>

\* What is in an inode after one more write().
Grown(f) == Inode(f.text, f.len + 1, f.safe)

\* Mutant: the loop runs once more when everything is written.
WriteChunkOffByOne(w) ==
    /\ pc[w] = "write"
    /\ file' = [file EXCEPT ![fd[w]] = Grown(file[fd[w]])]
    /\ Goto(w, IF file[fd[w]].len = Chunks THEN "fsync" ELSE "write")
    /\ UNCHANGED <<dir, maybe, want, fd, outcome, faulted>>

\* One write() of the loop; EINTR retries without a change.
WriteChunk(w) ==
    /\ pc[w] = "write"
    /\ \/ /\ file' = [file EXCEPT ![fd[w]] = Grown(file[fd[w]])]
          /\ Goto(w, IF file[fd[w]].len + 1 = Chunks THEN "fsync" ELSE "write")
          /\ NoFault
          /\ UNCHANGED <<dir, maybe, want, fd, outcome>>
       \/ FailCall(w)

\* ... and after fsync().
Synced(f) == Inode(f.text, f.len, f.len)

\* Mutant: rename publishes a file that only the page cache holds.
FsyncTmpSkipped(w) ==
    /\ pc[w] = "fsync"
    /\ Goto(w, "close")
    /\ UNCHANGED <<dir, maybe, file, want, fd, outcome, faulted>>

FsyncTmp(w) ==
    /\ pc[w] = "fsync"
    /\ \/ /\ file' = [file EXCEPT ![fd[w]] = Synced(file[fd[w]])]
          /\ Goto(w, "close")
          /\ NoFault
          /\ UNCHANGED <<dir, maybe, want, fd, outcome>>
       \/ FailCall(w)

\* `fd = -1' comes before the test of close's result.
CloseTmp(w) ==
    /\ pc[w] = "close"
    /\ fd' = [fd EXCEPT ![w] = NoInode]
    /\ \/ Goto(w, "rename") /\ NoFault
       \/ Goto(w, "cleanup") /\ Fault(w)
    /\ UNCHANGED <<dir, maybe, file, want, outcome>>

\* rename(tmp, path) moves whatever inode the name tmp denotes by then.
RenameTmp(w) ==
    /\ pc[w] = "rename"
    /\ \/ /\ dir["tmp"] # NoInode
          /\ dir' = Link(dir["tmp"], NoInode)
          /\ maybe' = Link(maybe["path"] \cup {dir["tmp"]},
                           maybe["tmp"] \cup {NoInode})
          /\ Goto(w, "syncdir")
          /\ NoFault
          /\ UNCHANGED <<file, want, fd, outcome>>
       \/ /\ dir["tmp"] = NoInode          \* ENOENT
          /\ Goto(w, "cleanup")
          /\ NoFault
          /\ UNCHANGED <<dir, maybe, file, want, fd, outcome>>
       \/ FailCall(w)

\* close if open, unlink(tmp) whatever its result, throw.
Cleanup(w) ==
    /\ pc[w] = "cleanup"
    /\ Relink("tmp", NoInode) \/ UNCHANGED <<dir, maybe>>
    /\ fd' = [fd EXCEPT ![w] = NoInode]
    /\ End(w, "threw")
    /\ NoFault
    /\ UNCHANGED file

\* Mutant: an unsynced directory is reported as a failed write.
SyncDirThrows(w) ==
    /\ pc[w] = "syncdir"
    /\ End(w, "threw")
    /\ Fault(w)
    /\ UNCHANGED <<dir, maybe, file, fd>>

\* open and fsync of the directory; a failure is only a warning.
SyncDir(w) ==
    /\ pc[w] = "syncdir"
    /\ \/ /\ maybe' = [n \in Names |-> {dir[n]}]
          /\ End(w, "ok")
          /\ NoFault
       \/ /\ End(w, "warned")
          /\ Fault(w)
          /\ UNCHANGED maybe
    /\ UNCHANGED <<dir, file, fd>>

\* The process dies mid-write (a signal, the OOM killer): nobody cleans up.
Kill(w) ==
    /\ pc[w] # "idle"
    /\ End(w, "killed")
    /\ fd' = [fd EXCEPT ![w] = NoInode]
    /\ UNCHANGED <<dir, maybe, file, faulted>>

\* Each name falls back to a value it had since the directory was last
\* synced; data that was not fsynced may be gone.
PowerCut ==
    /\ \E p \in maybe["path"], t \in maybe["tmp"] :
          /\ dir' = Link(p, t)
          /\ maybe' = Link({p}, {t})
    /\ \E lost \in SUBSET Inodes :
          file' = [i \in Inodes |->
                     IF i \in lost THEN Inode(file[i].text, file[i].safe, file[i].safe)
                     ELSE Synced(file[i])]
    /\ pc' = [w \in Writers |-> "idle"]
    /\ want' = [w \in Writers |-> NoText]
    /\ fd' = [w \in Writers |-> NoInode]
    /\ outcome' = [w \in Writers |->
                     IF pc[w] = "idle" THEN outcome[w] ELSE "killed"]
    /\ UNCHANGED faulted

Step(w) ==
    \/ EnsureParentDir(w) \/ UnlinkTmp(w) \/ OpenTmp(w) \/ WriteChunk(w)
    \/ FsyncTmp(w) \/ CloseTmp(w) \/ RenameTmp(w) \/ Cleanup(w) \/ SyncDir(w)

\* Nothing in write_file_atomic keeps two processes apart ...
Next ==
    \/ \E w \in Writers, c \in Contents : Begin(w, c)
    \/ \E w \in Writers : Step(w) \/ Kill(w)
    \/ PowerCut

\* ... but one daemon at a time serves a store, so its writes never overlap.
SerialBegin(w, c) ==
    /\ \A v \in Writers : pc[v] = "idle"
    /\ Begin(w, c)

SerialNext ==
    \/ \E w \in Writers, c \in Contents : SerialBegin(w, c)
    \/ \E w \in Writers : Step(w) \/ Kill(w)
    \/ PowerCut

Spec == Init /\ [][Next]_vars
SerialSpec == Init /\ [][SerialNext]_vars
-----------------------------------------------------------------------------
(* Properties *)

\* A reader of the path never sees part of a text, and neither does whoever
\* reads it after a power cut: every inode the path may denote is complete
\* and synced before rename publishes it (write, fsync, close, rename).
PathNeverTorn ==
    \A i \in maybe["path"] \cup {dir["path"]} :
        i = NoInode \/ (file[i].len = Chunks /\ file[i].safe = Chunks)

\* A write throws only when one of its own system calls failed: a tmp file
\* left by a killed writer is unlinked first and never fails the next write.
LeftoverTmpHarmless ==
    \A w \in Writers : outcome[w] = "threw" => w \in faulted

\* The refinement mapping: a write has landed once rename has succeeded.
Cell == INSTANCE AtomicCell WITH
    Values <- Contents,
    NoValue <- NoText,
    val <- Read(dir["path"]),
    stable <- {Read(i) : i \in maybe["path"]},
    writing <- want,
    outcome <- [w \in Writers |->
                  IF pc[w] = "syncdir" THEN "landed" ELSE outcome[w]]

\* write_file_atomic keeps its promise: a throw means nothing changed, a
\* return means the whole new text is there, and only a write that was warned
\* about or had not returned can be undone by a power cut.
ImplementsCell == Cell!CellSpec
=============================================================================
