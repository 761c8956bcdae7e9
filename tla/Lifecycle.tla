----------------------------- MODULE Lifecycle -----------------------------
(***************************************************************************)
(* Setting up, starting and stopping: `secretov init' (cmd_init in         *)
(* client.cpp, Store::create), `secretov daemon' (run_daemon and on_signal *)
(* in daemon.cpp, Listener in transport.cpp): several processes, one       *)
(* socket path, one store file, one token file.  Each system call that     *)
(* looks at or changes the path is a step of its own; nothing locks the    *)
(* path or the files.  The two files are replaced as AtomicCell says,      *)
(* power cuts and the version-1 migration are left to Store.               *)
(***************************************************************************)
EXTENDS Naturals, FiniteSets

CONSTANTS
    Inits,           \* processes that run init
    Daemons,         \* processes that run the daemon
    Sockets,         \* inodes a bind may get
    NoSocket,        \* no such path, or no socket bound
    PlainFile,       \* the path is there and is not a socket
    Tokens,          \* API tokens
    NoToken,         \* no token file
    NoStore,         \* no store file
    MaxWrites        \* bound: writes the daemons acknowledge

ASSUME SocketAssumption ==
    NoSocket \notin Sockets /\ PlainFile \notin Sockets /\ NoSocket # PlainFile
ASSUME TokenAssumption == NoToken \notin Tokens /\ Inits \cap Daemons = {}
ASSUME BoundAssumption == MaxWrites \in Nat

VARIABLES
    pc,              \* [Daemons -> next step of run_daemon]
    path,            \* what the socket path names
    sock,            \* [Daemons -> the socket it bound]
    bound,           \* [Daemons -> bound_ino_, what it thinks it bound]
    plain,           \* [Daemons -> lstat saw something that is no socket]
    file,            \* the store: writes it holds, key older than 30 days
    memory,          \* [Daemons -> the store as the daemon has it open]
    token,           \* the token file
    expected,        \* [Daemons -> expected_token, read at start]
    ipc,             \* [Inits -> next step of cmd_init, or how it ended]
    acked,           \* writes that were acknowledged
    cut              \* history: [Daemons -> its last run was killed, or a
                     \* system call or the unlock failed in it]

sockVars == <<path, sock, bound, plain>>
storeVars == <<file, memory, acked>>
tokenVars == <<token, expected, ipc>>
vars == <<pc, sockVars, storeVars, tokenVars, cut>>

StoreState == [writes : SUBSET (1..MaxWrites), old : BOOLEAN]
EmptyStore == [writes |-> {}, old |-> FALSE]
ASSUME StoreAssumption == NoStore \notin StoreState
InitSteps == {"ask", "check", "create", "token"}
InitEnds == {"off", "ok", "refused", "failed"}
Starting == {"open", "rotate", "token", "lstat", "connect", "unlink", "bind",
             "chmod", "stat", "listen", "install"}
Running == {"serving", "exit", "leave"}
Listening == {"install"} \cup Running
Bound == {"chmod", "stat", "listen"} \cup Listening

Init ==
    /\ pc = [d \in Daemons |-> "off"]
    /\ path \in {NoSocket, PlainFile} \cup Sockets
    /\ sock = [d \in Daemons |-> NoSocket]
    /\ bound = [d \in Daemons |-> NoSocket]
    /\ plain = [d \in Daemons |-> FALSE]
    /\ \/ file = NoStore /\ token = NoToken
       \/ file \in [writes : {{}}, old : BOOLEAN] /\ token \in Tokens
    /\ memory = [d \in Daemons |-> EmptyStore]
    /\ expected = [d \in Daemons |-> NoToken]
    /\ ipc = [i \in Inits |-> "off"]
    /\ acked = {}
    /\ cut = [d \in Daemons |-> FALSE]

Goto(d, s) == pc' = [pc EXCEPT ![d] = s]

\* The process ends; the kernel closes its socket, the path stays.
Leave(d) ==
    /\ Goto(d, "off")
    /\ sock' = [sock EXCEPT ![d] = NoSocket]
    /\ bound' = [bound EXCEPT ![d] = NoSocket]

\* An exception before the Listener has bound, or bind's own failure.
Fails(d) ==
    /\ Leave(d)
    /\ UNCHANGED <<path, plain, storeVars, cut, tokenVars>>

\* The same for a fault: a system call or the unlock fails.
Fault(d) ==
    /\ Leave(d)
    /\ cut' = [cut EXCEPT ![d] = TRUE]
    /\ UNCHANGED <<path, plain, storeVars, tokenVars>>

\* Mutant: connect_unix gives up on a daemon that is there.
NeverAnswers == FALSE

\* connect_unix succeeds: some process listens on the socket at the path.
Answers ==
    \E d \in Daemons : sock[d] # NoSocket /\ sock[d] = path /\ pc[d] \in Listening
-----------------------------------------------------------------------------
\* Mutant: the check at bind time is the only one.
BeginUnprobed(d) ==
    /\ pc[d] = "off"
    /\ Goto(d, "open")
    /\ cut' = [cut EXCEPT ![d] = FALSE]
    /\ UNCHANGED <<sockVars, storeVars, tokenVars>>

\* The probe before the passphrase prompt.
Begin(d) ==
    /\ pc[d] = "off"
    /\ Goto(d, IF Answers THEN "off" ELSE "open")
    /\ cut' = [cut EXCEPT ![d] = FALSE]
    /\ UNCHANGED <<sockVars, storeVars, tokenVars>>

OpenStore(d) ==
    /\ pc[d] = "open"
    /\ \/ /\ file # NoStore
          /\ memory' = [memory EXCEPT ![d] = file]
          /\ Goto(d, IF file.old THEN "rotate" ELSE "token")
          /\ UNCHANGED <<sockVars, file, acked, cut, tokenVars>>
       \/ file = NoStore /\ Fails(d)
       \/ Fault(d)

\* rotate on unlock writes what was read at open, under a new key.
AutoRotate(d) ==
    /\ pc[d] = "rotate"
    /\ \/ /\ memory' = [memory EXCEPT ![d].old = FALSE]
          /\ file' = memory'[d]
          /\ Goto(d, "token")
          /\ UNCHANGED <<sockVars, acked, cut, tokenVars>>
       \/ Fault(d)

ReadToken(d) ==
    /\ pc[d] = "token"
    /\ \/ /\ token # NoToken
          /\ expected' = [expected EXCEPT ![d] = token]
          /\ Goto(d, "lstat")
          /\ UNCHANGED <<sockVars, storeVars, token, ipc, cut>>
       \/ token = NoToken /\ Fails(d)
       \/ Fault(d)

LstatPath(d) ==
    /\ pc[d] = "lstat"
    /\ Goto(d, IF path = NoSocket THEN "bind" ELSE "connect")
    /\ plain' = [plain EXCEPT ![d] = path = PlainFile]
    /\ UNCHANGED <<path, sock, bound, storeVars, cut, tokenVars>>

ConnectCheck(d) ==
    /\ pc[d] = "connect"
    /\ \/ (Answers \/ plain[d]) /\ Fails(d)
       \/ /\ ~Answers /\ ~plain[d]
          /\ Goto(d, "unlink")
          /\ UNCHANGED <<sockVars, storeVars, cut, tokenVars>>

\* Mutant: a stale socket is left for bind to trip over.
UnlinkForgotten(d) ==
    /\ pc[d] = "unlink"
    /\ Goto(d, "bind")
    /\ UNCHANGED <<sockVars, storeVars, cut, tokenVars>>

\* Whatever the path names by now; a missing path is fine.
UnlinkStale(d) ==
    /\ pc[d] = "unlink"
    /\ \/ /\ path' = NoSocket
          /\ Goto(d, "bind")
          /\ UNCHANGED <<sock, bound, plain, storeVars, cut, tokenVars>>
       \/ Fault(d)

Bind(d) ==
    /\ pc[d] = "bind"
    /\ \/ /\ path = NoSocket
          /\ \E s \in Sockets :
                /\ \A e \in Daemons : sock[e] # s /\ bound[e] # s
                /\ path' = s
                /\ sock' = [sock EXCEPT ![d] = s]
          /\ Goto(d, "chmod")
          /\ UNCHANGED <<bound, plain, storeVars, cut, tokenVars>>
       \/ path # NoSocket /\ Fails(d)
       \/ Fault(d)

\* The fail lambda once the socket is bound: unlink the path and throw.
FailBound(d) ==
    /\ Leave(d)
    /\ path' = NoSocket
    /\ UNCHANGED <<plain, storeVars, cut, tokenVars>>

FaultBound(d) ==
    /\ Leave(d)
    /\ path' = NoSocket
    /\ cut' = [cut EXCEPT ![d] = TRUE]
    /\ UNCHANGED <<plain, storeVars, tokenVars>>

Chmod(d) ==
    /\ pc[d] = "chmod"
    /\ \/ /\ path # NoSocket
          /\ Goto(d, "stat")
          /\ UNCHANGED <<sockVars, storeVars, cut, tokenVars>>
       \/ path = NoSocket /\ FailBound(d)
       \/ FaultBound(d)

StatBound(d) ==
    /\ pc[d] = "stat"
    /\ \/ /\ path # NoSocket
          /\ bound' = [bound EXCEPT ![d] = path]
          /\ Goto(d, "listen")
          /\ UNCHANGED <<path, sock, plain, storeVars, cut, tokenVars>>
       \/ path = NoSocket /\ FailBound(d)
       \/ FaultBound(d)

Listen(d) ==
    /\ pc[d] = "listen"
    /\ \/ /\ Goto(d, "install")
          /\ UNCHANGED <<sockVars, storeVars, cut, tokenVars>>
       \/ FaultBound(d)

InstallHandlers(d) ==
    /\ pc[d] = "install"
    /\ Goto(d, "serving")
    /\ UNCHANGED <<sockVars, storeVars, cut, tokenVars>>

\* A set from a client that connected through the path with the token it found
\* in the file: the daemon writes its whole memory and acknowledges.
ServeWrite(d) ==
    /\ pc[d] = "serving"
    /\ path = sock[d]
    /\ token # NoToken /\ token = expected[d]
    /\ \E n \in (1..MaxWrites) \ acked :
          /\ memory' = [memory EXCEPT ![d].writes = @ \cup {n}]
          /\ acked' = acked \cup {n}
    /\ file' = memory'[d]
    /\ UNCHANGED <<pc, sockVars, cut, tokenVars>>

\* on_signal: lstat ...
Signal(d) ==
    /\ pc[d] = "serving"
    /\ Goto(d, IF path = bound[d] THEN "exit" ELSE "leave")
    /\ UNCHANGED <<sockVars, storeVars, cut, tokenVars>>

\* ... unlink ...
SignalUnlink(d) ==
    /\ pc[d] = "exit"
    /\ Goto(d, "leave")
    /\ path' = NoSocket
    /\ UNCHANGED <<sock, bound, plain, storeVars, cut, tokenVars>>

\* ... _exit.
SignalExit(d) ==
    /\ pc[d] = "leave"
    /\ Fails(d)

\* SIGKILL, a crash, or a signal before the handlers are installed.
Kill(d) ==
    /\ pc[d] # "off"
    /\ Fault(d)

-----------------------------------------------------------------------------
(* init: the passphrase, the store, and then the token.                    *)

Ends(i, how) == ipc' = [ipc EXCEPT ![i] = how]

InitBegin(i) ==
    /\ ipc[i] \in InitEnds
    /\ Ends(i, "ask")
    /\ UNCHANGED <<pc, sockVars, storeVars, token, expected, cut>>

\* The two passphrases differ, or the store's directory cannot be made.
AskPassphrase(i) ==
    /\ ipc[i] = "ask"
    /\ Ends(i, "check") \/ Ends(i, "failed")
    /\ UNCHANGED <<pc, sockVars, storeVars, token, expected, cut>>

\* Mutant: init goes ahead over a store that is there.
CheckNothing(i) ==
    /\ ipc[i] = "check"
    /\ Ends(i, "create")
    /\ UNCHANGED <<pc, sockVars, storeVars, token, expected, cut>>

\* Mutant: the half-made files of an init that fails are cleaned up.
CheckCleansUp(i) ==
    /\ ipc[i] = "check"
    /\ Ends(i, IF file = NoStore THEN "create" ELSE "refused")
    /\ token' = IF file = NoStore THEN token ELSE NoToken
    /\ UNCHANGED <<pc, sockVars, storeVars, expected, cut>>

\* Store::create looks whether there is a store, and derives the key ...
CheckStore(i) ==
    /\ ipc[i] = "check"
    /\ Ends(i, IF file = NoStore THEN "create" ELSE "refused")
    /\ UNCHANGED <<pc, sockVars, storeVars, token, expected, cut>>

\* ... and then writes, whatever is there by now.
CreateStore(i) ==
    /\ ipc[i] = "create"
    /\ \/ file' = EmptyStore /\ Ends(i, "token")
       \/ Ends(i, "failed") /\ UNCHANGED file
    /\ UNCHANGED <<pc, sockVars, memory, acked, token, expected, cut>>

WriteToken(i) ==
    /\ ipc[i] = "token"
    /\ \/ \E t \in Tokens \ {token} : token' = t /\ Ends(i, "ok")
       \/ Ends(i, "failed") /\ UNCHANGED token
    /\ UNCHANGED <<pc, sockVars, storeVars, expected, cut>>

InitKill(i) ==
    /\ ipc[i] \in InitSteps
    /\ Ends(i, "off")
    /\ UNCHANGED <<pc, sockVars, storeVars, token, expected, cut>>

InitStep(i) ==
    AskPassphrase(i) \/ CheckStore(i) \/ CreateStore(i) \/ WriteToken(i) \/ InitKill(i)
-----------------------------------------------------------------------------
\* Thirty days pass; past the passphrase prompt a start takes seconds.
Age ==
    /\ \A d \in Daemons : pc[d] \notin Starting \ {"open"}
    /\ file # NoStore /\ ~file.old
    /\ file' = [file EXCEPT !.old = TRUE]
    /\ memory' = [d \in Daemons |-> [memory[d] EXCEPT !.old = TRUE]]
    /\ UNCHANGED <<pc, sockVars, acked, cut, tokenVars>>

StartStep(d) ==
    \/ OpenStore(d) \/ AutoRotate(d) \/ ReadToken(d) \/ LstatPath(d)
    \/ ConnectCheck(d) \/ UnlinkStale(d) \/ Bind(d) \/ Chmod(d) \/ StatBound(d)
    \/ Listen(d) \/ InstallHandlers(d)

Step(d) ==
    \/ StartStep(d) \/ ServeWrite(d) \/ Signal(d) \/ SignalUnlink(d)
    \/ SignalExit(d) \/ Kill(d)

Next ==
    \/ Age
    \/ \E d \in Daemons : Begin(d) \/ Step(d)
    \/ \E i \in Inits : InitBegin(i) \/ InitStep(i)

\* One start and one init at a time; other daemons may be serving or on their
\* way out.
SerialBegin(d) ==
    /\ \A e \in Daemons : pc[e] \notin Starting
    /\ Begin(d)

SerialInitBegin(i) ==
    /\ \A j \in Inits : ipc[j] \in InitEnds
    /\ InitBegin(i)

SerialNext ==
    \/ Age
    \/ \E d \in Daemons : SerialBegin(d) \/ Step(d)
    \/ \E i \in Inits : SerialInitBegin(i) \/ InitStep(i)

Spec == Init /\ [][Next]_vars
SerialSpec == Init /\ [][SerialNext]_vars

\* A process that is not cut keeps running.
Progress(d) == StartStep(d) \/ SignalUnlink(d) \/ SignalExit(d)
FairSerialSpec == SerialSpec /\ \A d \in Daemons : WF_vars(Progress(d))
-----------------------------------------------------------------------------
(* Properties *)

TypeOK ==
    /\ pc \in [Daemons -> {"off"} \cup Starting \cup Running]
    /\ path \in Sockets \cup {NoSocket, PlainFile}
    /\ sock \in [Daemons -> Sockets \cup {NoSocket}]
    /\ bound \in [Daemons -> Sockets \cup {NoSocket}]
    /\ plain \in [Daemons -> BOOLEAN]
    /\ file \in StoreState \cup {NoStore}
    /\ memory \in [Daemons -> StoreState]
    /\ token \in Tokens \cup {NoToken}
    /\ expected \in [Daemons -> Tokens \cup {NoToken}]
    /\ ipc \in [Inits -> InitSteps \cup InitEnds]
    /\ acked \subseteq 1..MaxWrites
    /\ cut \in [Daemons -> BOOLEAN]
    /\ \A d \in Daemons : sock[d] # NoSocket <=> pc[d] \in Bound

\* One daemon per socket: whoever serves is the one clients reach.
ServingIsReachable ==
    \A d \in Daemons : pc[d] = "serving" => path = sock[d]

\* No start, with its auto-rotation, no exit and no init loses a write that a
\* daemon acknowledged.
AckedIsKept == acked # {} => file # NoStore /\ acked \subseteq file.writes

\* The token clients find in the file is the one the daemon they reach expects:
\* an init beside a running daemon, even a failing one, locks nobody out.
ServedTokenIsCurrent ==
    \A d \in Daemons : pc[d] = "serving" => expected[d] = token /\ token # NoToken

\* An init that is cut between its two files leaves a store without a token,
\* which no daemon serves and a second init refuses (cmd_init, Store::create).
\* Such a store holds no secret: removing it and starting over loses nothing.
StuckStoreIsEmpty ==
    file # NoStore /\ token = NoToken => acked = {} /\ file.writes = {}

\* Once there is a token, what a killed init or daemon left behind never keeps
\* the next start from serving.
RestartServes ==
    \A d \in Daemons :
        pc[d] = "open" /\ path # PlainFile /\ token # NoToken
            ~> pc[d] = "serving" \/ cut[d]
=============================================================================
