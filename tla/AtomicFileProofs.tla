-------------------------- MODULE AtomicFileProofs --------------------------
(***************************************************************************)
(* Proofs about AtomicFile, for any number of writers, texts, inodes and   *)
(* chunks.  First what holds whatever the writers do (TypedInv), then what *)
(* holds when their writes do not overlap (SerialInv), from which a reader *)
(* never finds a torn file and a leftover tmp file never fails a write.    *)
(***************************************************************************)
EXTENDS AtomicFile, TLAPS

\* Every writer with an open descriptor has an inode of its own, as full as
\* its place in write_file_atomic says.
Descriptors ==
    /\ \A w \in Writers :
          /\ pc[w] \in {"write", "fsync", "close"} => fd[w] \in Inodes
          /\ pc[w] = "write" => file[fd[w]].len < Chunks
          /\ pc[w] \in {"fsync", "close"} => file[fd[w]].len = Chunks
          /\ pc[w] = "close" => file[fd[w]].safe = Chunks
          /\ pc[w] # "idle" <=> want[w] # NoText
          /\ pc[w] # "idle" => outcome[w] = "none"
          /\ pc[w] \in {"write", "fsync", "close", "cleanup"} \/ fd[w] = NoInode
    /\ \A v, w \in Writers : fd[v] = fd[w] /\ fd[v] # NoInode => v = w

TypedInv == TypeOK /\ Descriptors
-----------------------------------------------------------------------------
LEMMA TypedInit == Init => TypedInv
BY ChunksAssumption, NoInodeAssumption, TextAssumption
   DEF Init, TypedInv, TypeOK, Descriptors, Names, Steps, File, Link, Inode

\* One step of one writer, of any of the actions, keeps the types and the
\* descriptors; all the cases of Next are below.
LEMMA TypedStep == TypedInv /\ [Next]_vars => TypedInv'
<1> SUFFICES ASSUME TypeOK, Descriptors, [Next]_vars PROVE TypedInv'
    BY DEF TypedInv
<1> USE ChunksAssumption, NoInodeAssumption, TextAssumption
<1> USE DEF TypedInv, TypeOK, Descriptors, Names, Steps, File, Link, Inode
<1>1. ASSUME NEW w \in Writers, NEW c \in Contents, Begin(w, c)
      PROVE  TypedInv'
      BY <1>1 DEF Begin, Goto
<1>2. ASSUME NEW w \in Writers, EnsureParentDir(w) PROVE TypedInv'
      BY <1>2 DEF EnsureParentDir, ThrowNow, End, Goto, Fault, NoFault
<1>3. ASSUME NEW w \in Writers, UnlinkTmp(w) PROVE TypedInv'
      BY <1>3 DEF UnlinkTmp, Relink, Goto, Fault, NoFault
<1>4. ASSUME NEW w \in Writers, OpenTmp(w) PROVE TypedInv'
  <2>1. CASE ThrowNow(w) /\ faulted' \in {faulted, faulted \cup {w}}
        BY <1>4, <2>1 DEF OpenTmp, ThrowNow, End, Goto
  <2>2. ASSUME NEW i \in Inodes, Free(i), Relink("tmp", i),
               fd' = [fd EXCEPT ![w] = i],
               file' = [file EXCEPT ![i] = Inode(want[w], 0, 0)],
               pc[w] = "open", Goto(w, "write"), NoFault,
               UNCHANGED <<want, outcome>>
        PROVE  TypedInv'
    <3>1. want[w] \in Contents
          BY <2>2
    <3>2. TypeOK'
          BY <2>2, <3>1 DEF Relink, Goto, NoFault
    <3>3. \A v \in Writers : fd[v] # i
          BY <2>2 DEF Free
    <3>4. Descriptors'
          BY <2>2, <3>2, <3>3 DEF Goto
    <3> QED BY <3>2, <3>4
  <2> QED BY <1>4, <2>1, <2>2 DEF OpenTmp, Fault, NoFault
<1>5. ASSUME NEW w \in Writers, WriteChunk(w) PROVE TypedInv'
  <2>1. CASE FailCall(w)
        BY <1>5, <2>1 DEF WriteChunk, FailCall, Goto, Fault
  <2>2. CASE ~FailCall(w)
    <3>1. fd[w] \in Inodes /\ file[fd[w]] \in File
          BY <1>5 DEF WriteChunk
    <3>2. TypeOK'
      <4>1. Grown(file[fd[w]]) \in File
            BY <1>5, <3>1 DEF WriteChunk, Grown
      <4>2. file' = [file EXCEPT ![fd[w]] = Grown(file[fd[w]])]
            BY <1>5, <2>2 DEF WriteChunk
      <4>3. file' \in [Inodes -> File]
            BY <3>1, <4>1, <4>2
      <4> QED BY <1>5, <2>2, <4>3 DEF WriteChunk, Goto, NoFault
    <3>3. \A v \in Writers \ {w} : file'[fd[v]] = file[fd[v]] \/ fd[v] = NoInode
          BY <1>5, <2>2, <3>1 DEF WriteChunk
    <3>4. Descriptors'
          BY <1>5, <2>2, <3>1, <3>2, <3>3 DEF WriteChunk, Grown, Goto
    <3> QED BY <3>2, <3>4
  <2> QED BY <2>1, <2>2
<1>6. ASSUME NEW w \in Writers, FsyncTmp(w) PROVE TypedInv'
  <2>1. CASE FailCall(w)
        BY <1>6, <2>1 DEF FsyncTmp, FailCall, Goto, Fault
  <2>2. CASE ~FailCall(w)
    <3>1. fd[w] \in Inodes /\ file[fd[w]] \in File
          BY <1>6 DEF FsyncTmp
    <3>2. TypeOK'
      <4>1. Synced(file[fd[w]]) \in File
            BY <3>1 DEF Synced
      <4>2. file' = [file EXCEPT ![fd[w]] = Synced(file[fd[w]])]
            BY <1>6, <2>2 DEF FsyncTmp
      <4>3. file' \in [Inodes -> File]
            BY <3>1, <4>1, <4>2
      <4> QED BY <1>6, <2>2, <4>3, ZenonT(40) DEF FsyncTmp, Goto, NoFault
    <3>3. \A v \in Writers \ {w} : file'[fd[v]] = file[fd[v]] \/ fd[v] = NoInode
          BY <1>6, <2>2, <3>1 DEF FsyncTmp
    <3>4. Descriptors'
          BY <1>6, <2>2, <3>1, <3>2, <3>3 DEF FsyncTmp, Synced, Goto
    <3> QED BY <3>2, <3>4
  <2> QED BY <2>1, <2>2
<1>7. ASSUME NEW w \in Writers, CloseTmp(w) PROVE TypedInv'
      BY <1>7 DEF CloseTmp, Goto, Fault, NoFault
<1>8. ASSUME NEW w \in Writers, RenameTmp(w) PROVE TypedInv'
      BY <1>8 DEF RenameTmp, FailCall, Goto, Fault, NoFault
<1>9. ASSUME NEW w \in Writers, Cleanup(w) PROVE TypedInv'
      BY <1>9 DEF Cleanup, Relink, End, Goto, NoFault
<1>10. ASSUME NEW w \in Writers, SyncDir(w) PROVE TypedInv'
  <2>1. maybe' \in [Names -> SUBSET (Inodes \cup {NoInode})]
        BY <1>10 DEF SyncDir
  <2>2. TypeOK'
        BY <1>10, <2>1, ZenonT(40) DEF SyncDir, End, Goto, Fault, NoFault
  <2>3. Descriptors'
        BY <1>10 DEF SyncDir, End, Goto
  <2> QED BY <2>2, <2>3
<1>11. ASSUME NEW w \in Writers, Kill(w) PROVE TypedInv'
      BY <1>11 DEF Kill, End, Goto
<1>12. CASE PowerCut
      BY <1>12 DEF PowerCut, Synced
<1>13. CASE UNCHANGED vars
      BY <1>13 DEF vars
<1> QED
    BY <1>1, <1>2, <1>3, <1>4, <1>5, <1>6, <1>7, <1>8, <1>9, <1>10, <1>11,
       <1>12, <1>13 DEF Next, Step

\* Type correctness, however many processes write the same path at once.
THEOREM TypeCorrect == Spec => []TypeOK
<1>1. Spec => []TypedInv
      BY TypedInit, TypedStep, PTL DEF Spec
<1> QED BY <1>1, PTL DEF TypedInv
-----------------------------------------------------------------------------
(* Writes that do not overlap *)

OneWriter == \A v, w \in Writers : pc[v] # "idle" /\ pc[w] # "idle" => v = w

\* The tmp file is the writer's own and no crash outcome of the path; what
\* rename is about to publish is the whole text, synced.
TmpIsOwn ==
    \A w \in Writers :
        /\ pc[w] \in {"write", "fsync", "close"} =>
              /\ dir["tmp"] = fd[w]
              /\ fd[w] \notin maybe["path"]
              /\ file[fd[w]].text = want[w]
        /\ pc[w] = "rename" =>
              /\ dir["tmp"] \in Inodes
              /\ file[dir["tmp"]] = Inode(want[w], Chunks, Chunks)
        /\ pc[w] = "open" /\ w \notin faulted => dir["tmp"] = NoInode
        /\ pc[w] = "cleanup" => w \in faulted

\* PathNeverTorn, LeftoverTmpHarmless and what makes them inductive.
SerialInv ==
    /\ TypedInv
    /\ OneWriter
    /\ TmpIsOwn
    /\ dir["path"] \in maybe["path"]
    /\ PathNeverTorn
    /\ LeftoverTmpHarmless

LEMMA SerialInit == Init => SerialInv
<1> SUFFICES ASSUME Init PROVE SerialInv
    OBVIOUS
<1>1. TypedInv
      BY TypedInit
<1>2. PathNeverTorn /\ dir["path"] \in maybe["path"]
      BY DEF Init, PathNeverTorn, Link, Inode, Names
<1> QED BY <1>1, <1>2 DEF Init, SerialInv, OneWriter, TmpIsOwn, LeftoverTmpHarmless

\* A step of the one writer leaves the other processes idle.
LEMMA OneWriterStep ==
    ASSUME TypedInv, OneWriter, NEW w \in Writers, pc[w] # "idle",
           Step(w) \/ Kill(w)
    PROVE  /\ OneWriter'
           /\ \A v \in Writers \ {w} :
                 pc[v] = "idle" /\ pc'[v] = "idle" /\ outcome'[v] = outcome[v]
<1>1. \A v \in Writers \ {w} : pc[v] = "idle"
      BY DEF OneWriter
<1>2. \A v \in Writers \ {w} : pc'[v] = pc[v] /\ outcome'[v] = outcome[v]
      BY DEF Step, Kill, EnsureParentDir, UnlinkTmp, OpenTmp, WriteChunk,
             FsyncTmp, CloseTmp, RenameTmp, Cleanup, SyncDir, ThrowNow,
             FailCall, End, Goto, TypedInv, TypeOK
<1> QED BY <1>1, <1>2 DEF OneWriter

LEMMA SerialStep == SerialInv /\ [SerialNext]_vars => SerialInv'
<1> SUFFICES ASSUME SerialInv, [SerialNext]_vars PROVE SerialInv'
    OBVIOUS
<1>1. TypedInv'
  <2>1. [Next]_vars
        BY DEF SerialNext, Next, SerialBegin
  <2> QED BY <2>1, TypedStep DEF SerialInv
<1> USE ChunksAssumption, NoInodeAssumption, TextAssumption
<1> DEFINE Rest == /\ TmpIsOwn
                   /\ dir["path"] \in maybe["path"]
                   /\ PathNeverTorn
                   /\ LeftoverTmpHarmless
<1>2. ASSUME NEW w \in Writers, NEW c \in Contents, SerialBegin(w, c)
      PROVE  SerialInv'
      BY <1>1, <1>2 DEF SerialBegin, Begin, Goto, SerialInv, TypedInv, TypeOK,
         OneWriter, TmpIsOwn, PathNeverTorn, LeftoverTmpHarmless
<1>3. ASSUME NEW w \in Writers, Step(w) \/ Kill(w) PROVE SerialInv'
  <2>1. pc[w] # "idle"
        BY <1>3 DEF Step, Kill, EnsureParentDir, UnlinkTmp, OpenTmp, WriteChunk,
                    FsyncTmp, CloseTmp, RenameTmp, Cleanup, SyncDir
  <2>2. /\ OneWriter'
        /\ \A v \in Writers \ {w} :
              pc[v] = "idle" /\ pc'[v] = "idle" /\ outcome'[v] = outcome[v]
        BY <1>3, <2>1, OneWriterStep DEF SerialInv
  <2> SUFFICES Rest'
      BY <1>1, <2>2 DEF SerialInv
  <2> USE <1>1, <2>2 DEF SerialInv, TypedInv, TypeOK, Descriptors, Names,
                         TmpIsOwn, PathNeverTorn, LeftoverTmpHarmless
  <2>3. CASE EnsureParentDir(w)
        BY <2>3 DEF EnsureParentDir, ThrowNow, End, Goto, Fault, NoFault
  <2>4. CASE UnlinkTmp(w)
        BY <2>4 DEF UnlinkTmp, Relink, Goto, Fault, NoFault
  <2>5. CASE OpenTmp(w)
    <3>1. CASE ThrowNow(w) /\ w \in faulted' /\ faulted \subseteq faulted'
          BY <2>5, <3>1 DEF OpenTmp, ThrowNow, End, Goto
    <3>2. ASSUME NEW i \in Inodes, Free(i), Relink("tmp", i),
                 fd' = [fd EXCEPT ![w] = i],
                 file' = [file EXCEPT ![i] = Inode(want[w], 0, 0)],
                 Goto(w, "write"), NoFault, UNCHANGED <<want, outcome>>
          PROVE  Rest'
      <4>1. i \notin maybe["path"] /\ dir["path"] # i
            BY <3>2 DEF Free
      <4>2. /\ dir'["path"] = dir["path"] /\ maybe'["path"] = maybe["path"]
            /\ dir'["tmp"] = i
            BY <3>2 DEF Relink
      <4>3. PathNeverTorn'
            BY <3>2, <4>1, <4>2
      <4>4. TmpIsOwn'
            BY <3>2, <4>1, <4>2 DEF Goto, Inode
      <4> QED BY <3>2, <4>2, <4>3, <4>4 DEF NoFault
    <3> QED BY <2>5, <3>1, <3>2 DEF OpenTmp, Fault, NoFault
  <2>6. CASE WriteChunk(w)
    <3>1. CASE FailCall(w)
          BY <2>6, <3>1 DEF WriteChunk, FailCall, Goto, Fault
    <3>2. CASE ~FailCall(w)
      <4>1. /\ fd[w] \in Inodes
            /\ file' = [file EXCEPT ![fd[w]] = Grown(file[fd[w]])]
            /\ UNCHANGED <<dir, maybe, want, fd, outcome, faulted>>
            BY <2>6, <3>2 DEF WriteChunk, NoFault
      <4>2. fd[w] # dir["path"] /\ fd[w] \notin maybe["path"]
            BY <2>6 DEF WriteChunk
      <4>3. PathNeverTorn'
            BY <4>1, <4>2
      <4>4. file'[fd[w]].text = file[fd[w]].text
            BY <4>1 DEF Grown, Inode
      <4>5. TmpIsOwn'
            BY <2>6, <3>2, <4>1, <4>2, <4>4 DEF WriteChunk, Goto
      <4> QED BY <2>6, <3>2, <4>1, <4>3, <4>5 DEF WriteChunk, Goto
    <3> QED BY <3>1, <3>2
  <2>7. CASE FsyncTmp(w)
    <3>1. CASE FailCall(w)
          BY <2>7, <3>1 DEF FsyncTmp, FailCall, Goto, Fault
    <3>2. CASE ~FailCall(w)
      <4>1. /\ fd[w] \in Inodes
            /\ file' = [file EXCEPT ![fd[w]] = Synced(file[fd[w]])]
            /\ UNCHANGED <<dir, maybe, want, fd, outcome, faulted>>
            BY <2>7, <3>2 DEF FsyncTmp, NoFault
      <4>2. fd[w] # dir["path"] /\ fd[w] \notin maybe["path"]
            BY <2>7 DEF FsyncTmp
      <4>3. PathNeverTorn'
            BY <4>1, <4>2
      <4>4. file'[fd[w]].text = file[fd[w]].text
            BY <4>1 DEF Synced, Inode
      <4>5. TmpIsOwn'
            BY <2>7, <3>2, <4>1, <4>2, <4>4 DEF FsyncTmp, Goto
      <4> QED BY <2>7, <3>2, <4>1, <4>3, <4>5 DEF FsyncTmp, Goto
    <3> QED BY <3>1, <3>2
  <2>8. CASE CloseTmp(w)
        BY <2>8 DEF CloseTmp, Inode, File, Goto, Fault, NoFault
  <2>9. CASE RenameTmp(w)
    <3>1. CASE FailCall(w)
          BY <2>9, <3>1 DEF RenameTmp, FailCall, Goto, Fault
    <3>2. CASE ~FailCall(w)
      <4>1. /\ dir' = Link(dir["tmp"], NoInode)
            /\ maybe' = Link(maybe["path"] \cup {dir["tmp"]},
                             maybe["tmp"] \cup {NoInode})
            /\ Goto(w, "syncdir")
            /\ UNCHANGED <<file, want, fd, outcome, faulted>>
            BY <2>9, <3>2 DEF RenameTmp, NoFault
      <4>2. /\ dir'["path"] = dir["tmp"]
            /\ maybe'["path"] = maybe["path"] \cup {dir["tmp"]}
            BY <4>1 DEF Link
      <4>3. file[dir["tmp"]].len = Chunks /\ file[dir["tmp"]].safe = Chunks
        <5>1. file[dir["tmp"]] = Inode(want[w], Chunks, Chunks)
              BY <2>9 DEF RenameTmp
        <5> QED BY <5>1 DEF Inode
      <4>4. PathNeverTorn' /\ (dir["path"] \in maybe["path"])'
            BY <4>1, <4>2, <4>3, ZenonT(40)
      <4>5. TmpIsOwn'
            BY <4>1 DEF Goto
      <4>6. LeftoverTmpHarmless'
            BY <4>1
      <4> QED BY <4>4, <4>5, <4>6
    <3> QED BY <3>1, <3>2
  <2>10. CASE Cleanup(w)
        BY <2>10 DEF Cleanup, Relink, End, Goto, NoFault
  <2>11. CASE SyncDir(w)
        BY <2>11 DEF SyncDir, End, Goto, Fault, NoFault
  <2>12. CASE Kill(w)
        BY <2>12 DEF Kill, End, Goto
  <2> QED BY <1>3, <2>3, <2>4, <2>5, <2>6, <2>7, <2>8, <2>9, <2>10, <2>11, <2>12
          DEF Step
<1>4. CASE PowerCut
      BY <1>1, <1>4 DEF PowerCut, Link, Names, Synced, Inode, SerialInv, TypedInv,
         TypeOK, OneWriter, TmpIsOwn, PathNeverTorn, LeftoverTmpHarmless
<1>5. CASE UNCHANGED vars
      BY <1>1, <1>5 DEF vars, SerialInv, OneWriter, TmpIsOwn, PathNeverTorn,
                        LeftoverTmpHarmless
<1> QED BY <1>2, <1>3, <1>4, <1>5 DEF SerialNext

LEMMA SerialInvariance == SerialSpec => []SerialInv
BY SerialInit, SerialStep, PTL DEF SerialSpec

\* Whatever fails, dies or loses power, nobody ever finds part of a text at
\* the path, as long as the writes to it do not overlap.
THEOREM NeverTorn == SerialSpec => []PathNeverTorn
BY SerialInvariance, PTL DEF SerialInv

\* A write throws only if one of its own system calls failed.
THEOREM ThrowsOnlyOnFault == SerialSpec => []LeftoverTmpHarmless
BY SerialInvariance, PTL DEF SerialInv
-----------------------------------------------------------------------------
(* Refinement: a serial writer implements the cell *)

val == Read(dir["path"])
stable == {Read(i) : i \in maybe["path"]}
status == [w \in Writers |-> IF pc[w] = "syncdir" THEN "landed" ELSE outcome[w]]

\* Steps that keep what the path denotes, now and after a power cut, keep the
\* cell's value.
LEMMA PathUntouched ==
    ASSUME dir["path"] \in maybe["path"],
           dir'["path"] = dir["path"], maybe'["path"] = maybe["path"],
           \A i \in maybe["path"] : i = NoInode \/ file'[i] = file[i]
    PROVE  val' = val /\ stable' = stable
<1>1. \A i \in maybe["path"] : Read(i)' = Read(i)
      BY DEF Read
<1>2. val' = val
      BY <1>1 DEF val, Read
<1>3. stable' = stable
      BY <1>1 DEF stable, Read
<1> QED BY <1>2, <1>3

\* Every step of a serial writer is a step of the cell or leaves it alone.
LEMMA CellStep ==
    SerialInv /\ SerialInv' /\ [SerialNext]_vars => [Cell!CellNext]_(Cell!cellVars)
<1> SUFFICES ASSUME SerialInv, SerialInv', [SerialNext]_vars
             PROVE  [Cell!CellNext]_(Cell!cellVars)
    OBVIOUS
<1> USE ChunksAssumption, NoInodeAssumption, TextAssumption
<1> DEFINE SamePath == val' = val /\ stable' = stable
           Becomes(w, how) == status' = [status EXCEPT ![w] = how]
           Stops(w) == want' = [want EXCEPT ![w] = NoText]
<1>1. ASSUME NEW w \in Writers, Step(w) \/ Kill(w)
      PROVE  Cell!CellNext \/ UNCHANGED Cell!cellVars
  <2>1. /\ pc[w] # "idle" /\ want[w] # NoText
        /\ status[w] = IF pc[w] = "syncdir" THEN "landed" ELSE "none"
        BY <1>1 DEF SerialInv, TypedInv, Descriptors, status, Step, Kill,
             EnsureParentDir, UnlinkTmp, OpenTmp, WriteChunk, FsyncTmp,
             CloseTmp, RenameTmp, Cleanup, SyncDir
  <2>2. ASSUME SamePath, want' = want, status' = status
        PROVE  UNCHANGED Cell!cellVars
        BY <2>2 DEF Cell!cellVars, val, stable, status
  <2>3. ASSUME SamePath, Stops(w), Becomes(w, "threw"), pc[w] # "syncdir"
        PROVE  Cell!CellNext
        BY <2>1, <2>3 DEF Cell!CellNext, Cell!Throw, val, stable, status
  <2>4. ASSUME SamePath, Stops(w), Becomes(w, "killed")
        PROVE  Cell!CellNext
        BY <2>1, <2>4 DEF Cell!CellNext, Cell!CellKill, val, stable, status
  <2>5. ASSUME val' = want[w], stable' = stable \cup {want[w]},
               want' = want, Becomes(w, "landed"), pc[w] # "syncdir"
        PROVE  Cell!CellNext
        BY <2>1, <2>5 DEF Cell!CellNext, Cell!Land, val, stable, status
  <2>6. ASSUME val' = val, Stops(w), pc[w] = "syncdir",
               \/ Becomes(w, "ok") /\ stable' = {val}
               \/ Becomes(w, "warned") /\ stable' = stable
        PROVE  Cell!CellNext
        BY <2>1, <2>6 DEF Cell!CellNext, Cell!Return, val, stable, status
  <2>7. ASSUME dir'["path"] = dir["path"], maybe'["path"] = maybe["path"],
               \A i \in maybe["path"] : i = NoInode \/ file'[i] = file[i]
        PROVE  SamePath
        BY <2>7, PathUntouched DEF SerialInv
  <2> HIDE DEF SamePath, Becomes, Stops
  <2>8. ASSUME UNCHANGED <<want, outcome>>, pc[w] # "syncdir",
               NEW s \in Steps \ {"syncdir"}, Goto(w, s)
        PROVE  want' = want /\ status' = status
        BY <2>8 DEF status, Goto, SerialInv, TypedInv, TypeOK
  <2>9. ASSUME NEW how, End(w, how)
        PROVE  Stops(w) /\ Becomes(w, how)
        BY <2>9 DEF End, Goto, Stops, Becomes, status, SerialInv, TypedInv, TypeOK
  <2>10. CASE EnsureParentDir(w)
         BY <2>10, <2>2, <2>3, <2>7, <2>8, <2>9 DEF EnsureParentDir, ThrowNow, Steps
  <2>11. CASE UnlinkTmp(w)
         BY <2>11, <2>2, <2>7, <2>8 DEF UnlinkTmp, Relink, Steps, SerialInv,
            TypedInv, TypeOK, Names
  <2>12. CASE OpenTmp(w)
         BY <2>12, <2>2, <2>3, <2>7, <2>8, <2>9 DEF OpenTmp, Free, Relink, ThrowNow,
            Steps, SerialInv, TypedInv, TypeOK, Names
  <2>13. CASE WriteChunk(w)
    <3>1. fd[w] \notin maybe["path"] /\ UNCHANGED <<dir, maybe>>
          BY <2>13 DEF WriteChunk, FailCall, SerialInv, TmpIsOwn
    <3>2. \A i \in maybe["path"] : i = NoInode \/ file'[i] = file[i]
          BY <2>13, <3>1 DEF WriteChunk, FailCall, SerialInv, TypedInv, TypeOK, Names
    <3>3. SamePath
          BY <2>7, <3>1, <3>2
    <3>4. want' = want /\ status' = status
          BY <2>13, <2>8 DEF WriteChunk, FailCall, Steps
    <3> QED BY <2>2, <3>3, <3>4
  <2>14. CASE FsyncTmp(w)
    <3>1. fd[w] \notin maybe["path"] /\ UNCHANGED <<dir, maybe>>
          BY <2>14 DEF FsyncTmp, FailCall, SerialInv, TmpIsOwn
    <3>2. \A i \in maybe["path"] : i = NoInode \/ file'[i] = file[i]
          BY <2>14, <3>1 DEF FsyncTmp, FailCall, SerialInv, TypedInv, TypeOK, Names
    <3>3. SamePath
          BY <2>7, <3>1, <3>2
    <3>4. want' = want /\ status' = status
          BY <2>14, <2>8 DEF FsyncTmp, FailCall, Steps
    <3> QED BY <2>2, <3>3, <3>4
  <2>15. CASE CloseTmp(w)
         BY <2>15, <2>2, <2>7, <2>8 DEF CloseTmp, Steps
  <2>16. CASE RenameTmp(w)
    <3>1. CASE UNCHANGED <<dir, maybe, file>> /\ Goto(w, "cleanup")
      <4>1. SamePath
            BY <2>7, <3>1
      <4>2. want' = want /\ status' = status
            BY <2>16, <2>8, <3>1 DEF RenameTmp, FailCall, Steps
      <4> QED BY <2>2, <4>1, <4>2
    <3>2. CASE Goto(w, "syncdir")
      <4>1. /\ dir' = Link(dir["tmp"], NoInode)
            /\ maybe' = Link(maybe["path"] \cup {dir["tmp"]},
                             maybe["tmp"] \cup {NoInode})
            /\ UNCHANGED <<file, want, outcome>>
            BY <2>16, <3>2 DEF RenameTmp, FailCall, Goto, SerialInv, TypedInv, TypeOK
      <4>2. /\ dir'["path"] = dir["tmp"]
            /\ maybe'["path"] = maybe["path"] \cup {dir["tmp"]}
            BY <4>1 DEF Link, Names
      <4>3. dir["tmp"] \in Inodes /\ file[dir["tmp"]] = Inode(want[w], Chunks, Chunks)
            BY <2>16 DEF RenameTmp, SerialInv, TmpIsOwn
      <4>4. Read(dir["tmp"]) = want[w]
            BY <4>3 DEF Read, Inode
      <4>5. \A i : Read(i)' = Read(i)
            BY <4>1 DEF Read
      <4>6. val' = want[w]
            BY <4>1, <4>2, <4>4 DEF val, Read
      <4>7. stable' = stable \cup {want[w]}
            BY <4>2, <4>4, <4>5 DEF stable
      <4>8. Becomes(w, "landed")
            BY <3>2, <4>1 DEF Becomes, status, Goto, SerialInv, TypedInv, TypeOK
      <4> QED BY <2>5, <2>16, <4>1, <4>6, <4>7, <4>8 DEF RenameTmp
    <3> QED BY <2>16, <3>1, <3>2 DEF RenameTmp, FailCall
  <2>17. CASE Cleanup(w)
         BY <2>17, <2>3, <2>7, <2>9 DEF Cleanup, Relink, SerialInv, TypedInv,
            TypeOK, Names
  <2>18. CASE SyncDir(w)
    <3>1. CASE UNCHANGED maybe /\ End(w, "warned")
      <4>1. SamePath
            BY <2>18, <2>7, <3>1 DEF SyncDir
      <4> QED BY <2>18, <2>6, <2>9, <3>1, <4>1 DEF SyncDir, SamePath
    <3>2. CASE maybe' = [n \in Names |-> {dir[n]}] /\ End(w, "ok")
      <4>1. UNCHANGED <<dir, file>>
            BY <2>18 DEF SyncDir
      <4>2. val' = val
            BY <4>1 DEF val, Read
      <4>3. maybe'["path"] = {dir["path"]}
            BY <3>2 DEF Names
      <4>4. stable' = {val}
            BY <4>1, <4>3 DEF stable, val, Read
      <4> QED BY <2>18, <2>6, <2>9, <3>2, <4>2, <4>4 DEF SyncDir
    <3> QED BY <2>18, <3>1, <3>2 DEF SyncDir
  <2>19. CASE Kill(w)
         BY <2>19, <2>4, <2>7, <2>9 DEF Kill
  <2> QED BY <1>1, <2>10, <2>11, <2>12, <2>13, <2>14, <2>15, <2>16, <2>17,
             <2>18, <2>19 DEF Step
<1>2. ASSUME NEW w \in Writers, NEW c \in Contents, SerialBegin(w, c)
      PROVE  Cell!CellNext
  <2>1. val' = val /\ stable' = stable
        BY <1>2, PathUntouched DEF SerialBegin, Begin, SerialInv
  <2>2. /\ want[w] = NoText /\ want' = [want EXCEPT ![w] = c]
        /\ status' = [status EXCEPT ![w] = "none"]
        BY <1>2 DEF SerialBegin, Begin, Goto, status, SerialInv, TypedInv, TypeOK,
                    Descriptors
  <2> QED BY <2>1, <2>2 DEF Cell!CellNext, Cell!Start, val, stable, status
<1>3. CASE PowerCut
  <2>1. PICK p \in maybe["path"], t \in maybe["tmp"] :
           dir' = Link(p, t) /\ maybe' = Link({p}, {t})
        BY <1>3 DEF PowerCut
  <2>2. dir'["path"] = p /\ maybe'["path"] = {p}
        BY <2>1 DEF Link, Names
  <2>3. p = NoInode \/ (file'[p].text = file[p].text /\ file'[p].len = file[p].len)
        BY <1>3 DEF PowerCut, Synced, Inode, SerialInv, PathNeverTorn, TypedInv,
                    TypeOK, Names
  <2>4. val' = Read(p)
        BY <2>2, <2>3 DEF val, Read
  <2>5. val' \in stable /\ stable' = {val'}
        BY <2>2, <2>4 DEF stable, val
  <2>6. /\ want' = [w \in Writers |-> NoText]
        /\ status' = [w \in Writers |->
                        IF want[w] = NoText THEN status[w] ELSE "killed"]
        BY <1>3 DEF PowerCut, status, SerialInv, TypedInv, Descriptors
  <2> QED BY <2>5, <2>6 DEF Cell!CellNext, Cell!CellPowerCut, val, stable, status
<1>4. CASE UNCHANGED vars
      BY <1>4 DEF vars, Cell!cellVars, Read
<1> QED BY <1>1, <1>2, <1>3, <1>4 DEF SerialNext

\* write_file_atomic implements the atomic cell that the rest of the program
\* takes it for: ImplementsCell, for writes that do not overlap.
THEOREM Refinement == SerialSpec => ImplementsCell
<1>1. ASSUME Init PROVE Cell!CellInit
  <2>1. PICK text \in [Inodes -> Contents] :
           file = [i \in Inodes |-> Inode(text[i], Chunks, Chunks)]
        BY <1>1 DEF Init
  <2>2. PICK i \in Inodes \cup {NoInode} :
           dir = Link(i, NoInode) /\ maybe = Link({i}, {NoInode})
        BY <1>1 DEF Init
  <2>3. dir["path"] = i /\ maybe["path"] = {i}
        BY <2>2 DEF Link, Names
  <2>4. val \in Contents \cup {NoText}
        BY <2>1, <2>3 DEF val, Read, Inode
  <2>5. stable = {val}
        BY <2>3 DEF stable, val
  <2>6. /\ want = [w \in Writers |-> NoText]
        /\ status = [w \in Writers |-> "none"]
        BY <1>1 DEF Init, status
  <2> QED BY <2>4, <2>5, <2>6 DEF Cell!CellInit, val, stable, status
<1>2. SerialSpec => []SerialInv
      BY SerialInvariance
<1> QED BY <1>1, <1>2, CellStep, PTL
           DEF SerialSpec, ImplementsCell, Cell!CellSpec
=============================================================================
