--------------------------- MODULE LifecycleProofs ---------------------------
(***************************************************************************)
(* Proofs about Lifecycle, for any number of daemons, inits, sockets,      *)
(* tokens and writes.  The argument for starts and inits that come one     *)
(* after the other: whoever has probed the path, or serves on it, is alone *)
(* (OneOwner), so the path and the store stay as it left them; an init     *)
(* writes only while there is no store, hence no token and no daemon past  *)
(* its reading of either.                                                  *)
(***************************************************************************)
EXTENDS Lifecycle, TLAPS

States == {"off"} \cup Starting \cup Running

\* Past these steps of a start the store and the token have been read.
OpenedStore == (Starting \ {"open"}) \cup {"serving"}
HasToken == OpenedStore \ {"rotate", "token"}

Owner(d) == pc[d] \in Starting \cup {"serving", "exit"}

\* A process that has probed the path in vain, or is reached through it, is
\* the only one.
OneOwner == \A d, e \in Daemons : Owner(d) /\ Owner(e) => d = e

\* What it has bound stays at the path until it takes it away.
OwnPath ==
    \A d \in Daemons :
        pc[d] \in {"chmod", "stat", "listen", "install", "serving", "exit"} => path = sock[d]

\* What it has read of the two files is still there.
OwnStore == \A d \in Daemons : pc[d] \in OpenedStore => file # NoStore /\ memory[d] = file
OwnToken == \A d \in Daemons : pc[d] \in HasToken => token # NoToken /\ expected[d] = token

\* The one init that runs has found no store, and then no token.
OneInit == \A i, j \in Inits : ipc[i] \in InitSteps /\ ipc[j] \in InitSteps => i = j
InitWrites ==
    /\ file = NoStore => token = NoToken
    /\ \A i \in Inits : /\ ipc[i] = "create" => file = NoStore
                        /\ ipc[i] = "token" => file # NoStore /\ token = NoToken

\* A file that is no socket is never put back once someone has bound.
BoundPath == \A d \in Daemons : pc[d] \in Bound => path # PlainFile

Ownership == OneOwner /\ OwnPath /\ OwnStore /\ OwnToken
Files == AckedIsKept /\ StuckStoreIsEmpty
Setup == OneInit /\ InitWrites

IInv == TypeOK /\ BoundPath /\ Ownership /\ Files /\ Setup
-----------------------------------------------------------------------------
(* Types *)

LEMMA Stores ==
    /\ EmptyStore \in StoreState
    /\ \A s \in StoreState :
          /\ s # NoStore
          /\ s.writes \subseteq 1..MaxWrites /\ s.old \in BOOLEAN
          /\ \A b \in BOOLEAN :
                /\ [s EXCEPT !.old = b] \in StoreState
                /\ [s EXCEPT !.old = b].writes = s.writes
          /\ \A n \in 1..MaxWrites :
                /\ [s EXCEPT !.writes = @ \cup {n}] \in StoreState
                /\ [s EXCEPT !.writes = @ \cup {n}].writes = s.writes \cup {n}
BY StoreAssumption DEF StoreState, EmptyStore

LEMMA TypeInit == Init => TypeOK /\ BoundPath
BY Stores DEF Init, TypeOK, BoundPath, StoreState, Starting, Running, Listening, Bound,
   InitSteps, InitEnds

\* However a process ends, it gives up what it bound.
LEMMA LeaveTypes ==
    ASSUME TypeOK, NEW d \in Daemons, Leave(d),
           path' \in {path, NoSocket},
           cut' \in {cut, [cut EXCEPT ![d] = TRUE]},
           UNCHANGED <<plain, storeVars, tokenVars>>
    PROVE  TypeOK'
BY DEF TypeOK, Leave, Goto, storeVars, tokenVars, Bound, Listening, Running

LEMMA Endings ==
    ASSUME NEW d \in Daemons,
           Fails(d) \/ Fault(d) \/ FailBound(d) \/ FaultBound(d)
    PROVE  /\ Leave(d)
           /\ path' \in {path, NoSocket}
           /\ cut' \in {cut, [cut EXCEPT ![d] = TRUE]}
           /\ UNCHANGED <<plain, storeVars, tokenVars>>
BY DEF Fails, Fault, FailBound, FaultBound

LEMMA EndingTypes ==
    ASSUME TypeOK, NEW d \in Daemons,
           Fails(d) \/ Fault(d) \/ FailBound(d) \/ FaultBound(d)
    PROVE  TypeOK'
BY Endings, LeaveTypes

LEMMA StartTypes ==
    ASSUME TypeOK, BoundPath, NEW d \in Daemons, StartStep(d)
    PROVE  TypeOK'
<1> USE DEF Goto, sockVars, storeVars, tokenVars, Bound, Listening, Starting, Running
<1>1. CASE Fails(d) \/ Fault(d) \/ FailBound(d) \/ FaultBound(d)
      BY <1>1, EndingTypes
<1>2. CASE OpenStore(d)
      BY <1>1, <1>2, ZenonT(40) DEF OpenStore, TypeOK
<1>3. CASE AutoRotate(d)
  <2>1. CASE memory' = [memory EXCEPT ![d].old = FALSE] /\ file' = memory'[d]
                /\ Goto(d, "token") /\ UNCHANGED <<sockVars, acked, cut, tokenVars>>
    <3>1. memory'[d] \in StoreState /\ memory' \in [Daemons -> StoreState]
          BY <2>1, Stores DEF TypeOK
    <3>2. QED
          BY <1>3, <2>1, <3>1 DEF AutoRotate, TypeOK
  <2>2. QED
        BY <1>1, <1>3, <2>1 DEF AutoRotate
<1>4. CASE ReadToken(d)
      BY <1>1, <1>4, ZenonT(40) DEF ReadToken, TypeOK
<1>5. CASE LstatPath(d)
      BY <1>5 DEF LstatPath, TypeOK
<1>6. CASE ConnectCheck(d)
      BY <1>1, <1>6 DEF ConnectCheck, TypeOK
<1>7. CASE UnlinkStale(d)
      BY <1>1, <1>7 DEF UnlinkStale, TypeOK
<1>8. CASE Bind(d)
      BY <1>1, <1>8, SocketAssumption, ZenonT(40) DEF Bind, TypeOK
<1>9. CASE Chmod(d)
      BY <1>1, <1>9 DEF Chmod, TypeOK
<1>10. CASE StatBound(d)
      BY <1>1, <1>10, ZenonT(40) DEF StatBound, BoundPath, TypeOK
<1>11. CASE Listen(d)
      BY <1>1, <1>11 DEF Listen, TypeOK
<1>12. CASE InstallHandlers(d)
      BY <1>12 DEF InstallHandlers, TypeOK
<1>13. QED
      BY <1>2, <1>3, <1>4, <1>5, <1>6, <1>7, <1>8, <1>9, <1>10, <1>11, <1>12
      DEF StartStep

LEMMA StepTypes ==
    ASSUME TypeOK, BoundPath, NEW d \in Daemons, Begin(d) \/ Step(d)
    PROVE  TypeOK'
<1> USE DEF Goto, sockVars, storeVars, tokenVars, Bound, Listening, Starting, Running
<1>1. CASE Begin(d)
      BY <1>1 DEF Begin, TypeOK
<1>2. CASE ServeWrite(d)
  <2>1. PICK n \in (1..MaxWrites) \ acked :
             /\ memory' = [memory EXCEPT ![d].writes = @ \cup {n}]
             /\ acked' = acked \cup {n}
        BY <1>2 DEF ServeWrite
  <2>2. memory'[d] \in StoreState /\ memory' \in [Daemons -> StoreState]
        BY <2>1, Stores DEF TypeOK
  <2>3. QED
        BY <1>2, <2>1, <2>2 DEF ServeWrite, TypeOK
<1>3. CASE Signal(d) \/ SignalUnlink(d)
      BY <1>3 DEF Signal, SignalUnlink, TypeOK
<1>4. CASE SignalExit(d) \/ Kill(d)
      BY <1>4, EndingTypes DEF SignalExit, Kill
<1>5. QED
      BY <1>1, <1>2, <1>3, <1>4, StartTypes DEF Step

LEMMA InitTypes ==
    ASSUME TypeOK, NEW i \in Inits, InitBegin(i) \/ InitStep(i)
    PROVE  TypeOK'
BY Stores DEF InitBegin, InitStep, AskPassphrase, CheckStore, CreateStore,
   WriteToken, InitKill, Ends, TypeOK, sockVars, storeVars, InitSteps, InitEnds

LEMMA BoundPathStep == TypeOK /\ BoundPath /\ [Next]_vars => BoundPath'
<1> SUFFICES ASSUME TypeOK, BoundPath, [Next]_vars PROVE BoundPath'
    OBVIOUS
<1> USE DEF Goto, Leave, sockVars, Bound, Listening, Starting, Running
<1>1. CASE UNCHANGED <<pc, path>>
      BY <1>1 DEF BoundPath
<1>2. ASSUME NEW d \in Daemons, Fails(d) \/ Fault(d) \/ FailBound(d) \/ FaultBound(d)
      PROVE  BoundPath'
      BY <1>2, Endings, SocketAssumption DEF BoundPath, TypeOK
<1>3. ASSUME NEW d \in Daemons, Begin(d) \/ Step(d)
      PROVE  BoundPath'
  <2>1. CASE Bind(d)
        BY <2>1, <1>2, SocketAssumption DEF Bind, BoundPath, TypeOK
  <2>2. CASE UnlinkStale(d) \/ SignalUnlink(d)
        BY <2>2, <1>2, SocketAssumption DEF UnlinkStale, SignalUnlink, BoundPath, TypeOK
  <2>3. CASE Chmod(d) \/ StatBound(d) \/ Listen(d) \/ InstallHandlers(d) \/ Signal(d)
        BY <2>3, <1>2 DEF Chmod, StatBound, Listen, InstallHandlers, Signal, BoundPath, TypeOK
  <2>4. CASE Begin(d) \/ OpenStore(d) \/ AutoRotate(d) \/ ReadToken(d) \/ LstatPath(d)
             \/ ConnectCheck(d)
        BY <2>4, <1>2 DEF Begin, OpenStore, AutoRotate, ReadToken, LstatPath,
           ConnectCheck, BoundPath, TypeOK
  <2>5. CASE ServeWrite(d) \/ SignalExit(d) \/ Kill(d)
        BY <2>5, <1>1, <1>2 DEF ServeWrite, SignalExit, Kill
  <2>6. QED
        BY <1>3, <2>1, <2>2, <2>3, <2>4, <2>5 DEF Step, StartStep
<1>4. ASSUME NEW i \in Inits, InitBegin(i) \/ InitStep(i)
      PROVE  UNCHANGED <<pc, path>>
      BY <1>4 DEF InitBegin, InitStep, AskPassphrase, CheckStore, CreateStore,
         WriteToken, InitKill
<1>5. QED
      BY <1>1, <1>3, <1>4 DEF Next, Age, vars

LEMMA TypeStep == TypeOK /\ BoundPath /\ [Next]_vars => TypeOK'
<1> SUFFICES ASSUME TypeOK, BoundPath, [Next]_vars PROVE TypeOK'
    OBVIOUS
<1>1. CASE UNCHANGED vars
      BY <1>1 DEF vars, sockVars, storeVars, tokenVars, TypeOK
<1>2. CASE Age
  <2>1. file' \in StoreState
        BY <1>2, Stores DEF Age, TypeOK
  <2>2. memory' \in [Daemons -> StoreState]
        BY <1>2, Stores DEF Age, TypeOK
  <2>3. QED
        BY <1>2, <2>1, <2>2 DEF Age, sockVars, tokenVars, TypeOK
<1>3. QED
      BY <1>1, <1>2, StepTypes, InitTypes DEF Next

\* However many starts and inits overlap, every variable keeps its type, and a
\* process has a socket exactly from bind until it ends (Listener).
THEOREM TypeCorrect == Spec => []TypeOK
<1>1. QED
      BY TypeInit, TypeStep, BoundPathStep, PTL DEF Spec

-----------------------------------------------------------------------------
(* One start and one init at a time *)

LEMMA SafeInit == Init => Ownership /\ Files /\ Setup
BY StoreAssumption, Stores, TokenAssumption
DEF Init, Ownership, OneOwner, Owner, OwnPath, OwnStore, OwnToken, OpenedStore,
    HasToken, Files, AckedIsKept, StuckStoreIsEmpty, Setup, OneInit, InitWrites,
    Starting, InitSteps, InitEnds, StoreState

\* The files and init's state decide Files and Setup.
LEMMA FilesKeep ==
    ASSUME Files, Setup, UNCHANGED <<file, acked, token, ipc>>
    PROVE  Files' /\ Setup'
BY DEF Files, AckedIsKept, StuckStoreIsEmpty, Setup, OneInit, InitWrites

\* A process that ends takes with it the path only if it owned it.
LEMMA LeaveOwnership ==
    ASSUME TypeOK, Ownership, NEW d \in Daemons, Leave(d),
           path' = path \/ (path' = NoSocket /\ Owner(d)),
           UNCHANGED <<file, memory, token, expected>>
    PROVE  Ownership'
<1> USE DEF Leave, Goto, Starting
<1>1. OneOwner'
      BY DEF Ownership, OneOwner, Owner, TypeOK
<1>2. OwnPath'
      BY DEF Ownership, OneOwner, Owner, OwnPath, TypeOK
<1>3. OwnStore' /\ OwnToken'
      BY DEF Ownership, OwnStore, OwnToken, OpenedStore, HasToken, TypeOK
<1>4. QED
      BY <1>1, <1>2, <1>3 DEF Ownership

LEMMA EndingSafe ==
    ASSUME TypeOK, Ownership, Files, Setup, NEW d \in Daemons,
           Fails(d) \/ Fault(d) \/ (Owner(d) /\ (FailBound(d) \/ FaultBound(d)))
    PROVE  Ownership' /\ Files' /\ Setup'
<1>1. /\ Leave(d) /\ UNCHANGED <<file, memory, acked, token, expected, ipc>>
      /\ path' = path \/ (path' = NoSocket /\ Owner(d))
      BY DEF Fails, Fault, FailBound, FaultBound, storeVars, tokenVars
<1>2. QED
      BY <1>1, LeaveOwnership, FilesKeep

\* A step of an owner that only goes on.
LEMMA AdvanceOwnership ==
    ASSUME TypeOK, Ownership, NEW d \in Daemons, Owner(d), NEW s, Goto(d, s),
           UNCHANGED <<path, sock, file, memory, token, expected>>,
           s \in OpenedStore => pc[d] \in OpenedStore,
           s \in HasToken => pc[d] \in HasToken,
           s \in {"chmod", "stat", "listen", "install", "serving", "exit"} =>
               path = sock[d]
    PROVE  Ownership'
<1> USE DEF Goto
<1>1. OneOwner'
      BY DEF Ownership, OneOwner, Owner, TypeOK
<1>2. OwnPath'
      BY DEF Ownership, OwnPath, TypeOK
<1>3. OwnStore' /\ OwnToken'
      BY DEF Ownership, OwnStore, OwnToken, TypeOK
<1>4. QED
      BY <1>1, <1>2, <1>3 DEF Ownership

\* The probe finds whoever owns the path, so only one process starts.
LEMMA BeginSafe ==
    ASSUME TypeOK, Ownership, Files, Setup, NEW d \in Daemons, SerialBegin(d)
    PROVE  Ownership' /\ Files' /\ Setup'
<1> USE DEF Goto, Starting, Running, Listening, Bound
<1>1. /\ pc[d] = "off" /\ \A e \in Daemons : pc[e] \notin Starting
      /\ pc' = [pc EXCEPT ![d] = IF Answers THEN "off" ELSE "open"]
      /\ UNCHANGED <<path, sock, file, memory, acked, token, expected, ipc>>
      BY DEF SerialBegin, Begin, sockVars, storeVars, tokenVars
<1>2. \A e \in Daemons : Owner(e) => Answers
      BY <1>1 DEF Ownership, OwnPath, Owner, Answers, TypeOK
<1>3. OneOwner'
      BY <1>1, <1>2 DEF Ownership, OneOwner, Owner, TypeOK
<1>4. OwnPath' /\ OwnStore' /\ OwnToken'
      BY <1>1 DEF Ownership, OwnPath, OwnStore, OwnToken, OpenedStore, HasToken, TypeOK
<1>5. QED
      BY <1>1, <1>3, <1>4, FilesKeep DEF Ownership

\* OpenStore, ReadToken: what is read is what is there.  AutoRotate: what is
\* written back is what was read.
LEMMA ReadSafe ==
    ASSUME TypeOK, Ownership, Files, Setup, NEW d \in Daemons,
           OpenStore(d) \/ AutoRotate(d) \/ ReadToken(d)
    PROVE  Ownership' /\ Files' /\ Setup'
<1> USE DEF Goto, Starting, sockVars, storeVars, tokenVars
<1>1. CASE Fails(d) \/ Fault(d)
      BY <1>1, EndingSafe
<1>2. CASE OpenStore(d) /\ ~(Fails(d) \/ Fault(d))
  <2>1. /\ pc[d] = "open" /\ file # NoStore
        /\ memory' = [memory EXCEPT ![d] = file]
        /\ pc' = [pc EXCEPT ![d] = IF file.old THEN "rotate" ELSE "token"]
        /\ UNCHANGED <<path, sock, file, acked, token, expected, ipc>>
        BY <1>2 DEF OpenStore
  <2>2. OneOwner' /\ OwnPath'
        BY <2>1 DEF Ownership, OneOwner, Owner, OwnPath, TypeOK
  <2>3. OwnStore' /\ OwnToken'
        BY <2>1 DEF Ownership, OwnStore, OwnToken, OpenedStore, HasToken, TypeOK
  <2>4. QED
        BY <2>1, <2>2, <2>3, FilesKeep DEF Ownership
<1>3. CASE AutoRotate(d) /\ ~(Fails(d) \/ Fault(d))
  <2>1. /\ pc[d] = "rotate"
        /\ memory' = [memory EXCEPT ![d].old = FALSE] /\ file' = memory'[d]
        /\ pc' = [pc EXCEPT ![d] = "token"]
        /\ UNCHANGED <<path, sock, acked, token, expected, ipc>>
        BY <1>3 DEF AutoRotate
  <2>2. /\ file # NoStore /\ memory[d] = file
        /\ \A e \in Daemons : pc[e] \in OpenedStore => e = d
        BY <2>1 DEF Ownership, OneOwner, Owner, OwnStore, OpenedStore
  <2>3. file' \in StoreState /\ file' # NoStore /\ file'.writes = file.writes
        BY <2>1, <2>2, Stores DEF TypeOK
  <2>4. OneOwner' /\ OwnPath'
        BY <2>1 DEF Ownership, OneOwner, Owner, OwnPath, TypeOK
  <2>5. OwnStore' /\ OwnToken'
        BY <2>1, <2>2, <2>3 DEF Ownership, OwnStore, OwnToken, OpenedStore, HasToken, TypeOK
  <2>6. Files' /\ Setup'
        BY <2>1, <2>2, <2>3 DEF Files, AckedIsKept, StuckStoreIsEmpty, Setup,
           OneInit, InitWrites
  <2>7. QED
        BY <2>4, <2>5, <2>6 DEF Ownership
<1>4. CASE ReadToken(d) /\ ~(Fails(d) \/ Fault(d))
  <2>1. /\ pc[d] = "token" /\ token # NoToken
        /\ expected' = [expected EXCEPT ![d] = token]
        /\ pc' = [pc EXCEPT ![d] = "lstat"]
        /\ UNCHANGED <<path, sock, file, memory, acked, token, ipc>>
        BY <1>4 DEF ReadToken
  <2>2. OneOwner' /\ OwnPath'
        BY <2>1 DEF Ownership, OneOwner, Owner, OwnPath, TypeOK
  <2>3. OwnStore' /\ OwnToken'
        BY <2>1 DEF Ownership, OwnStore, OwnToken, OpenedStore, HasToken, TypeOK
  <2>4. QED
        BY <2>1, <2>2, <2>3, FilesKeep DEF Ownership
<1>5. QED
      BY <1>1, <1>2, <1>3, <1>4

\* Listener: lstat, connect, unlink, bind, chmod, stat, listen.  Nobody else
\* changes the path meanwhile.
LEMMA ListenerSafe ==
    ASSUME TypeOK, Ownership, Files, Setup, NEW d \in Daemons,
           \/ LstatPath(d) \/ ConnectCheck(d) \/ UnlinkStale(d) \/ Bind(d)
           \/ Chmod(d) \/ StatBound(d) \/ Listen(d) \/ InstallHandlers(d)
    PROVE  Ownership' /\ Files' /\ Setup'
<1> USE DEF Goto, Starting, sockVars, storeVars, tokenVars
<1>1. Owner(d)
      BY DEF Owner, LstatPath, ConnectCheck, UnlinkStale, Bind, Chmod, StatBound,
         Listen, InstallHandlers
<1>2. \A e \in Daemons : Owner(e) => e = d
      BY <1>1 DEF Ownership, OneOwner
<1>3. CASE Fails(d) \/ Fault(d) \/ FailBound(d) \/ FaultBound(d)
      BY <1>1, <1>3, EndingSafe
<1>4. CASE /\ ~(Fails(d) \/ Fault(d) \/ FailBound(d) \/ FaultBound(d))
           /\ \/ LstatPath(d) \/ ConnectCheck(d) \/ Chmod(d) \/ StatBound(d)
              \/ Listen(d) \/ InstallHandlers(d)
  <2>1. UNCHANGED <<path, sock, file, memory, acked, token, expected, ipc>>
        BY <1>4 DEF LstatPath, ConnectCheck, Chmod, StatBound, Listen, InstallHandlers
  <2>2. pc[d] \in HasToken /\ pc[d] \in OpenedStore
        BY <1>4 DEF LstatPath, ConnectCheck, Chmod, StatBound, Listen,
           InstallHandlers, HasToken, OpenedStore
  <2>3. PICK s \in {"bind", "connect", "unlink", "stat", "listen", "install", "serving"} :
             /\ Goto(d, s)
             /\ s \in {"stat", "listen", "install", "serving"} => path = sock[d]
        BY <1>4 DEF LstatPath, ConnectCheck, Chmod, StatBound, Listen,
           InstallHandlers, Ownership, OwnPath
  <2>4. Ownership'
        BY <1>1, <2>1, <2>2, <2>3, AdvanceOwnership
  <2>5. QED
        BY <2>1, <2>4, FilesKeep
<1>5. CASE (UnlinkStale(d) \/ Bind(d)) /\ ~(Fails(d) \/ Fault(d))
  <2>1. /\ UNCHANGED <<file, memory, acked, token, expected, ipc>>
        /\ pc[d] \in {"unlink", "bind"}
        /\ \/ pc' = [pc EXCEPT ![d] = "bind"] /\ UNCHANGED sock
           \/ /\ pc' = [pc EXCEPT ![d] = "chmod"]
              /\ \E s \in Sockets : path' = s /\ sock' = [sock EXCEPT ![d] = s]
        BY <1>5 DEF UnlinkStale, Bind
  <2>2. OneOwner'
        BY <2>1 DEF Ownership, OneOwner, Owner, TypeOK
  <2>3. OwnPath'
        BY <1>2, <2>1 DEF OwnPath, Owner, TypeOK
  <2>4. OwnStore' /\ OwnToken'
        BY <2>1 DEF Ownership, OwnStore, OwnToken, OpenedStore, HasToken, TypeOK
  <2>5. QED
        BY <2>1, <2>2, <2>3, <2>4, FilesKeep DEF Ownership
<1>6. QED
      BY <1>3, <1>4, <1>5

\* Serving and stopping.  A daemon that serves is alone with the store.
LEMMA ServeSafe ==
    ASSUME TypeOK, Ownership, Files, Setup, NEW d \in Daemons,
           ServeWrite(d) \/ Signal(d) \/ SignalUnlink(d) \/ SignalExit(d) \/ Kill(d)
    PROVE  Ownership' /\ Files' /\ Setup'
<1> USE DEF Goto, Starting, sockVars, storeVars, tokenVars
<1>1. CASE ServeWrite(d)
  <2>1. PICK n \in (1..MaxWrites) \ acked :
             /\ memory' = [memory EXCEPT ![d].writes = @ \cup {n}]
             /\ acked' = acked \cup {n}
        BY <1>1 DEF ServeWrite
  <2>2. /\ pc[d] = "serving" /\ file' = memory'[d] /\ token # NoToken
        /\ UNCHANGED <<pc, path, sock, token, expected, ipc>>
        BY <1>1 DEF ServeWrite
  <2>3. /\ file # NoStore /\ memory[d] = file
        /\ \A e \in Daemons : pc[e] \in OpenedStore => e = d
        BY <2>2 DEF Ownership, OneOwner, Owner, OwnStore, OpenedStore
  <2>4. file' \in StoreState /\ file' # NoStore /\ file'.writes = file.writes \cup {n}
        BY <2>1, <2>2, <2>3, Stores, SMTT(30) DEF TypeOK
  <2>5. OneOwner' /\ OwnPath' /\ OwnToken'
        BY <2>2 DEF Ownership, OneOwner, Owner, OwnPath, OwnToken
  <2>6. OwnStore'
        BY <2>1, <2>2, <2>3, <2>4 DEF OwnStore, TypeOK
  <2>7. AckedIsKept' /\ StuckStoreIsEmpty'
        BY <2>1, <2>2, <2>3, <2>4 DEF Files, AckedIsKept, StuckStoreIsEmpty
  <2>8. Setup'
        BY <2>2, <2>3, <2>4 DEF Setup, OneInit, InitWrites
  <2>9. QED
        BY <2>5, <2>6, <2>7, <2>8 DEF Ownership, Files
<1>2. CASE Signal(d)
  <2>1. /\ pc[d] = "serving" /\ path = sock[d] /\ Owner(d)
        /\ \E s \in {"exit", "leave"} : Goto(d, s)
        /\ UNCHANGED <<path, sock, file, memory, acked, token, expected, ipc>>
        BY <1>2 DEF Signal, Owner, Ownership, OwnPath
  <2>2. Ownership'
        BY <2>1, AdvanceOwnership DEF OpenedStore, HasToken
  <2>3. QED
        BY <2>1, <2>2, FilesKeep
<1>3. CASE SignalUnlink(d)
  <2>1. /\ pc[d] = "exit" /\ pc' = [pc EXCEPT ![d] = "leave"]
        /\ UNCHANGED <<sock, file, memory, acked, token, expected, ipc>>
        BY <1>3 DEF SignalUnlink
  <2>2. \A e \in Daemons : Owner(e) => e = d
        BY <2>1 DEF Ownership, OneOwner, Owner
  <2>3. \A e \in Daemons : ~Owner(e)'
        BY <2>1, <2>2 DEF Owner, TypeOK
  <2>4. OneOwner' /\ OwnPath'
        BY <2>3 DEF OneOwner, OwnPath, Owner
  <2>5. OwnStore' /\ OwnToken'
        BY <2>3 DEF OwnStore, OwnToken, OpenedStore, HasToken, Owner
  <2>6. QED
        BY <2>1, <2>4, <2>5, FilesKeep DEF Ownership
<1>4. CASE SignalExit(d) \/ Kill(d)
      BY <1>4, EndingSafe DEF SignalExit, Kill
<1>5. QED
      BY <1>1, <1>2, <1>3, <1>4

LEMMA AgeSafe ==
    ASSUME TypeOK, Ownership, Files, Setup, Age
    PROVE  Ownership' /\ Files' /\ Setup'
<1>1. /\ file # NoStore /\ file \in StoreState
      /\ file' = [file EXCEPT !.old = TRUE]
      /\ memory' = [d \in Daemons |-> [memory[d] EXCEPT !.old = TRUE]]
      /\ UNCHANGED <<pc, path, sock, acked, token, expected, ipc>>
      BY DEF Age, TypeOK, sockVars, tokenVars
<1>2. file' # NoStore /\ file'.writes = file.writes
      BY <1>1, Stores
<1>3. OneOwner' /\ OwnPath' /\ OwnToken'
      BY <1>1 DEF Ownership, OneOwner, Owner, OwnPath, OwnToken
<1>4. OwnStore'
      BY <1>1, <1>2 DEF Ownership, OwnStore
<1>5. Files' /\ Setup'
      BY <1>1, <1>2 DEF Files, AckedIsKept, StuckStoreIsEmpty, Setup, OneInit, InitWrites
<1>6. QED
      BY <1>3, <1>4, <1>5 DEF Ownership

\* init writes a store only over none, and a token only over none: then no
\* daemon has read either, and nothing was acknowledged.
LEMMA InitStepSafe ==
    ASSUME TypeOK, Ownership, Files, Setup, NEW i \in Inits,
           SerialInitBegin(i) \/ InitStep(i)
    PROVE  Ownership' /\ Files' /\ Setup'
<1> USE DEF Ends, sockVars, storeVars, InitSteps, InitEnds
<1>1. UNCHANGED <<pc, path, sock, memory, acked, expected>>
      BY DEF SerialInitBegin, InitBegin, InitStep, AskPassphrase, CheckStore,
         CreateStore, WriteToken, InitKill
<1>2. OneOwner' /\ OwnPath'
      BY <1>1 DEF Ownership, OneOwner, Owner, OwnPath
<1>3. OneInit'
      BY DEF SerialInitBegin, InitBegin, InitStep, AskPassphrase, CheckStore,
         CreateStore, WriteToken, InitKill, Setup, OneInit, TypeOK
<1>4. CASE CreateStore(i) /\ file' = EmptyStore
  <2>1. /\ ipc[i] = "create" /\ UNCHANGED token
        /\ file = NoStore /\ token = NoToken
        BY <1>4 DEF CreateStore, Setup, InitWrites
  <2>2. file' # NoStore /\ ipc' = [ipc EXCEPT ![i] = "token"]
        BY <1>4, <2>1, Stores DEF CreateStore
  <2>3. OwnStore' /\ OwnToken'
        BY <1>1, <2>1 DEF Ownership, OwnStore, OwnToken, OpenedStore, HasToken
  <2>4. acked = {} /\ file'.writes = {}
        BY <1>4, <2>1 DEF Files, AckedIsKept, EmptyStore
  <2>5. Files'
        BY <1>1, <2>4 DEF Files, AckedIsKept, StuckStoreIsEmpty
  <2>6. InitWrites'
        BY <2>1, <2>2 DEF InitWrites, Setup, OneInit, TypeOK
  <2>7. QED
        BY <1>2, <1>3, <2>3, <2>5, <2>6 DEF Ownership, Setup
<1>5. CASE WriteToken(i) /\ token' # token
  <2>1. /\ ipc[i] = "token" /\ ipc' = [ipc EXCEPT ![i] = "ok"]
        /\ token' # NoToken /\ UNCHANGED file
        /\ file # NoStore /\ token = NoToken
        BY <1>5, TokenAssumption DEF WriteToken, Setup, InitWrites
  <2>2. OwnStore' /\ OwnToken'
        BY <1>1, <2>1 DEF Ownership, OwnStore, OwnToken
  <2>3. Files'
        BY <1>1, <2>1 DEF Files, AckedIsKept, StuckStoreIsEmpty
  <2>4. InitWrites'
        BY <2>1 DEF InitWrites, Setup, OneInit, TypeOK
  <2>5. QED
        BY <1>2, <1>3, <2>2, <2>3, <2>4 DEF Ownership, Setup
<1>6. CASE UNCHANGED <<file, token>>
  <2>1. OwnStore' /\ OwnToken' /\ Files'
        BY <1>1, <1>6 DEF Ownership, OwnStore, OwnToken, Files, AckedIsKept, StuckStoreIsEmpty
  <2>2. InitWrites'
        BY <1>6, Stores DEF SerialInitBegin, InitBegin, InitStep, AskPassphrase, CheckStore,
           CreateStore, WriteToken, InitKill, Setup, InitWrites, TypeOK
  <2>3. QED
        BY <1>2, <1>3, <2>1, <2>2 DEF Ownership, Setup
<1>7. QED
      BY <1>4, <1>5, <1>6 DEF SerialInitBegin, InitBegin, InitStep, AskPassphrase,
         CheckStore, CreateStore, WriteToken, InitKill

LEMMA SerialIsNext == [SerialNext]_vars => [Next]_vars
BY DEF SerialNext, Next, SerialBegin, SerialInitBegin

LEMMA InvInit == Init => IInv
BY TypeInit, SafeInit DEF IInv

LEMMA InvStep == IInv /\ [SerialNext]_vars => IInv'
<1> SUFFICES ASSUME IInv, [SerialNext]_vars PROVE IInv'
    OBVIOUS
<1>1. TypeOK /\ BoundPath /\ Ownership /\ Files /\ Setup
      BY DEF IInv
<1>2. TypeOK' /\ BoundPath'
      BY <1>1, SerialIsNext, TypeStep, BoundPathStep
<1>3. SUFFICES Ownership' /\ Files' /\ Setup'
      BY <1>2 DEF IInv
<1>4. ASSUME NEW d \in Daemons, SerialBegin(d) \/ Step(d)
      PROVE  Ownership' /\ Files' /\ Setup'
      BY <1>1, <1>4, BeginSafe, ReadSafe, ListenerSafe, ServeSafe DEF Step, StartStep
<1>5. CASE UNCHANGED vars
  <2>1. UNCHANGED <<pc, path, sock, file, memory, acked, token, expected, ipc>>
        BY <1>5 DEF vars, sockVars, storeVars, tokenVars
  <2>2. Ownership'
        BY <1>1, <2>1 DEF Ownership, OneOwner, Owner, OwnPath, OwnStore, OwnToken
  <2>3. Files' /\ Setup'
        BY <1>1, <2>1, FilesKeep
  <2>4. QED
        BY <2>2, <2>3
<1>6. CASE Age
      BY <1>1, <1>6, AgeSafe
<1>7. ASSUME NEW i \in Inits, SerialInitBegin(i) \/ InitStep(i)
      PROVE  Ownership' /\ Files' /\ Setup'
      BY <1>1, <1>7, InitStepSafe
<1>8. QED
      BY <1>4, <1>5, <1>6, <1>7 DEF SerialNext

\* The inductive invariant: one owner of the path and the store at a time, and
\* an init only where there is nothing yet.
THEOREM Inductive == SerialSpec => []IInv
<1>1. QED
      BY InvInit, InvStep, PTL DEF SerialSpec

\* The daemon that serves is the one that clients reach through the path: the
\* unlink of a stale socket and the one of on_signal never take another
\* daemon's path away (Listener, on_signal).
THEOREM OneDaemonPerSocket == SerialSpec => []ServingIsReachable
<1>1. IInv => ServingIsReachable
      BY DEF IInv, Ownership, OwnPath, ServingIsReachable
<1>2. QED
      BY <1>1, Inductive, PTL

\* Whatever a daemon acknowledged is in the store from then on, over starts
\* with their auto-rotation, exits, kills, and inits (run_daemon, cmd_init).
THEOREM AcknowledgedIsKept == SerialSpec => []AckedIsKept
<1>1. IInv => AckedIsKept
      BY DEF IInv, Files
<1>2. QED
      BY <1>1, Inductive, PTL

\* The daemon that serves expects the token that its clients read in the file:
\* no init, whole or cut short, changes it under a daemon (run_daemon,
\* write_api_token in cmd_init).
THEOREM TokenIsCurrent == SerialSpec => []ServedTokenIsCurrent
<1>1. IInv => ServedTokenIsCurrent
      BY DEF IInv, Ownership, OwnToken, HasToken, OpenedStore, ServedTokenIsCurrent, Starting
<1>2. QED
      BY <1>1, Inductive, PTL

\* A store whose init was cut before the token holds nothing that anyone was
\* promised (cmd_init writes the store first and the token last).
THEOREM HalfMadeIsEmpty == SerialSpec => []StuckStoreIsEmpty
<1>1. IInv => StuckStoreIsEmpty
      BY DEF IInv, Files
<1>2. QED
      BY <1>1, Inductive, PTL
=============================================================================
