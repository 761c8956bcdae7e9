------------------------------ MODULE Service ------------------------------
(***************************************************************************)
(* One daemon at its socket (daemon.cpp, transport.cpp) and the calls of   *)
(* DaemonClient::send (client.cpp) that reach it.  Every request has its   *)
(* own connection.  The daemon serves one connection at a time in the      *)
(* order of the listen backlog and reads without a timeout; clients give   *)
(* up after one, and what they sent stays in the backlog.  The daemon may  *)
(* be killed anywhere and started again.                                   *)
(*                                                                         *)
(* The open store is the function db: Store shows that between requests    *)
(* memory and disk agree and that a write that throws changes neither.     *)
(***************************************************************************)
EXTENDS Naturals, Sequences

CONSTANTS
    Requests,        \* calls of DaemonClient::send, each on its connection
    Holders,         \* calls whose client may stall with the connection open
    Keys, Values,    \* secrets
    NoValue,         \* the key is absent
    Backlog,         \* connections the listen queue takes (SOMAXCONN)
    MaxKills,        \* bound: times the daemon is killed
    None             \* no connection, reply or outcome

ASSUME HoldersAssumption == Holders \subseteq Requests
ASSUME BoundsAssumption == Backlog \in Nat \ {0} /\ MaxKills \in Nat
ASSUME NoValueAssumption == NoValue \notin Values

VARIABLES
    up,              \* the daemon is listening
    db,              \* the contents of the store
    queue,           \* the listen backlog
    serving,         \* the connection being served
    step,            \* where serve_connection is
    kills,           \* times the daemon was killed
    op,              \* [Requests -> what the call asks for]
    phase,           \* [Requests -> where send() is]
    line,            \* [Requests -> how much of the line the socket holds]
    closed,          \* [Requests -> the daemon's end is closed]
    effect,          \* [Requests -> reply computed by dispatch]
    answer,          \* [Requests -> reply in the client's socket]
    told,            \* [Requests -> what send() returned or threw]
    ticket,          \* [Requests -> its place in the order of connects]
    last             \* the ticket of the request handled last

daemon == <<up, queue, serving, step, kills>>
client == <<op, phase, told, ticket>>
vars == <<up, db, queue, serving, step, kills, op, phase, line, closed,
          effect, answer, told, ticket, last>>

Contents == [Keys -> Values \cup {NoValue}]
Ops == [kind : {"get", "delete"}, key : Keys]
         \cup [kind : {"set"}, key : Keys, value : Values]
         \cup [kind : {"list", "rekey", "bad"}]
Bare(tags) == [tag : tags]
Replies == Bare({"ok", "error", "not found"})
             \cup [tag : {"value"}, value : Values]
             \cup [tag : {"values"}, values : Contents]
Failures == Bare({"NotRunning", "NotSent", "refused", "Sent"})

ASSUME NoneAssumption == None \notin Requests \cup Ops \cup Replies \cup Failures

\* Reply lines of protocol.hpp.
ok_response == [tag |-> "ok"]
ok_value(v) == [tag |-> "value", value |-> v]
ok_values(d) == [tag |-> "values", values |-> d]
error_response(what) == [tag |-> what]

Reply(d, r) == [db |-> d, reply |-> r]

\* The outcomes of a request on contents d.  "list" stands for list and
\* getprefix, "rekey" for rotate and passwd, "bad" for a line that is
\* malformed, has the wrong token, an unknown op or lacks a field.
Dispatch(o, d) ==
    CASE o.kind = "get" ->
           {Reply(d, IF d[o.key] = NoValue THEN error_response("not found")
                     ELSE ok_value(d[o.key]))}
      [] o.kind = "set" ->
           {Reply([d EXCEPT ![o.key] = o.value], ok_response),
            Reply(d, error_response("error"))}
      [] o.kind = "delete" ->
           IF d[o.key] = NoValue THEN {Reply(d, error_response("not found"))}
           ELSE {Reply([d EXCEPT ![o.key] = NoValue], ok_response),
                 Reply(d, error_response("error"))}
      [] o.kind = "list" -> {Reply(d, ok_values(d))}
      [] o.kind = "rekey" -> {Reply(d, ok_response), Reply(d, error_response("error"))}
      [] o.kind = "bad" -> {Reply(d, error_response("error"))}

Init ==
    /\ up = FALSE
    /\ db \in Contents
    /\ queue = <<>>
    /\ serving = None
    /\ step = "accept"
    /\ kills = 0
    /\ op = [r \in Requests |-> None]
    /\ phase = [r \in Requests |-> "new"]
    /\ line = [r \in Requests |-> "none"]
    /\ closed = [r \in Requests |-> FALSE]
    /\ effect = [r \in Requests |-> None]
    /\ answer = [r \in Requests |-> None]
    /\ told = [r \in Requests |-> None]
    /\ ticket = [r \in Requests |-> 0]
    /\ last = 0
-----------------------------------------------------------------------------
(* DaemonClient::send *)

Call(r) ==
    /\ phase[r] = "new"
    /\ \E o \in Ops : op' = [op EXCEPT ![r] = o]
    /\ phase' = [phase EXCEPT ![r] = "connect"]
    /\ UNCHANGED <<daemon, db, line, closed, effect, answer, told, ticket, last>>

\* send() ends: the caller has its answer and the connection is closed.
Finish(r, what) ==
    /\ phase' = [phase EXCEPT ![r] = "done"]
    /\ told' = [told EXCEPT ![r] = what]
    /\ UNCHANGED <<op, ticket>>

Issued == {ticket[r] : r \in Requests}
NextTicket == 1 + (CHOOSE n \in Issued : \A m \in Issued : m <= n)

\* connect() has no timeout: it waits for room in the backlog.
Connect(r) ==
    /\ phase[r] = "connect"
    /\ up
    /\ Len(queue) < Backlog
    /\ queue' = Append(queue, r)
    /\ phase' = [phase EXCEPT ![r] = "write"]
    /\ ticket' = [ticket EXCEPT ![r] = NextTicket]
    /\ UNCHANGED <<up, db, serving, step, kills, op, line, closed, effect,
                   answer, told, last>>

ConnectFails(r) ==
    /\ phase[r] = "connect"
    /\ ~up
    /\ Finish(r, [tag |-> "NotRunning"])
    /\ UNCHANGED <<daemon, db, line, closed, effect, answer, last>>

\* The peer has another uid, or serialize refuses the request.
Refuse(r) ==
    /\ phase[r] = "write" /\ line[r] = "none"
    /\ Finish(r, [tag |-> "refused"])
    /\ UNCHANGED <<daemon, db, line, closed, effect, answer, last>>

\* write_line: a long line fills the socket and waits for the daemon to read;
\* the newline goes last.
WritePart(r) ==
    /\ phase[r] = "write" /\ line[r] = "none"
    /\ ~closed[r]
    /\ line' = [line EXCEPT ![r] = "part"]
    /\ UNCHANGED <<daemon, client, db, closed, effect, answer, last>>

WriteLine(r) ==
    /\ phase[r] = "write"
    /\ ~closed[r]
    /\ line[r] = "part" => serving = r
    /\ line' = [line EXCEPT ![r] = "full"]
    /\ phase' = [phase EXCEPT ![r] = "read"]
    /\ UNCHANGED <<daemon, db, op, closed, effect, answer, told, ticket, last>>

\* The daemon's end is gone, or the send timeout passed.
WriteFails(r) ==
    /\ phase[r] = "write"
    /\ closed[r] \/ line[r] = "part"
    /\ Finish(r, [tag |-> "NotSent"])
    /\ UNCHANGED <<daemon, db, line, closed, effect, answer, last>>

ReadReply(r) ==
    /\ phase[r] = "read"
    /\ answer[r] # None
    /\ Finish(r, answer[r])
    /\ UNCHANGED <<daemon, db, line, closed, effect, answer, last>>

\* Mutant: a lost reply is reported as a request that never left.
ReadFailsUnsent(r) ==
    /\ phase[r] = "read"
    /\ answer[r] = None
    /\ Finish(r, [tag |-> "NotSent"])
    /\ UNCHANGED <<daemon, db, line, closed, effect, answer, last>>

\* Mutant: no receive timeout.
ReadFailsAtEof(r) ==
    /\ phase[r] = "read"
    /\ answer[r] = None /\ closed[r]
    /\ Finish(r, [tag |-> "Sent"])
    /\ UNCHANGED <<daemon, db, line, closed, effect, answer, last>>

\* End of file, or the receive timeout: the request may still be applied.
ReadFails(r) ==
    /\ phase[r] = "read"
    /\ answer[r] = None
    /\ Finish(r, [tag |-> "Sent"])
    /\ UNCHANGED <<daemon, db, line, closed, effect, answer, last>>
-----------------------------------------------------------------------------
(* run_daemon and serve_connection *)

Start ==
    /\ ~up
    /\ up' = TRUE
    /\ UNCHANGED <<db, queue, serving, step, kills, client, line, closed,
                   effect, answer, last>>

\* Mutant: connections are taken from the back of the queue.
AcceptNewest ==
    /\ up
    /\ step = "accept"
    /\ queue # <<>>
    /\ serving' = queue[Len(queue)]
    /\ queue' = SubSeq(queue, 1, Len(queue) - 1)
    /\ step' = "read"
    /\ UNCHANGED <<up, db, kills, client, line, closed, effect, answer, last>>

Accept ==
    /\ up
    /\ step = "accept"
    /\ queue # <<>>
    /\ serving' = Head(queue)
    /\ queue' = Tail(queue)
    /\ step' = "read"
    /\ UNCHANGED <<up, db, kills, client, line, closed, effect, answer, last>>

\* Mutant: the line stays in the buffer and is read again.
ReadRequestKeepsLine ==
    /\ step = "read"
    /\ line[serving] = "full"
    /\ step' = "dispatch"
    /\ UNCHANGED <<up, db, queue, serving, kills, client, line, closed, effect,
                   answer, last>>

ReadRequest ==
    /\ step = "read"
    /\ line[serving] = "full"
    /\ line' = [line EXCEPT ![serving] = "none"]
    /\ step' = "dispatch"
    /\ UNCHANGED <<up, db, queue, serving, kills, client, closed, effect,
                   answer, last>>

\* The connection ends and with it what was left unread.
Drop ==
    /\ serving' = None
    /\ step' = "accept"
    /\ closed' = [closed EXCEPT ![serving] = TRUE]

\* Mutant: the daemon waits for the rest of a line whose sender is gone.
ReadEofCleanOnly ==
    /\ step = "read"
    /\ phase[serving] = "done" /\ line[serving] = "none"
    /\ Drop
    /\ UNCHANGED <<up, db, queue, kills, client, line, effect, answer, last>>

\* read_line finds end of file; a partial line is discarded.
ReadEof ==
    /\ step = "read"
    /\ phase[serving] = "done" /\ line[serving] # "full"
    /\ Drop
    /\ UNCHANGED <<up, db, queue, kills, client, line, effect, answer, last>>

\* dispatch, and the write to the store that lands or throws in it.
HandleRequest ==
    /\ step = "dispatch"
    /\ \E result \in Dispatch(op[serving], db) :
          /\ db' = result.db
          /\ effect' = [effect EXCEPT ![serving] = result.reply]
    /\ last' = ticket[serving]
    /\ step' = "reply"
    /\ UNCHANGED <<up, queue, serving, kills, client, line, closed, answer>>

WriteReply ==
    /\ step = "reply"
    /\ phase[serving] # "done"
    /\ answer' = [answer EXCEPT ![serving] = effect[serving]]
    /\ step' = "read"
    /\ UNCHANGED <<up, db, queue, serving, kills, client, line, closed,
                   effect, last>>

\* The client gave up: write_line fails and the connection is dropped.
ReplyFails ==
    /\ step = "reply"
    /\ phase[serving] = "done"
    /\ Drop
    /\ UNCHANGED <<up, db, queue, kills, client, line, effect, answer, last>>

\* The kernel closes every connection of the dead daemon, queued ones too.
Kill ==
    /\ up
    /\ kills < MaxKills
    /\ up' = FALSE
    /\ kills' = kills + 1
    /\ queue' = <<>>
    /\ serving' = None
    /\ step' = "accept"
    /\ closed' = [r \in Requests |-> closed[r] \/ ticket[r] # 0]
    /\ line' = [r \in Requests |-> "none"]
    /\ UNCHANGED <<db, client, effect, answer, last>>

Await(r) == ReadReply(r) \/ ReadFails(r)
Write(r) == WriteLine(r) \/ WriteFails(r)
Open(r) == Connect(r) \/ ConnectFails(r)
Serve == Accept \/ ReadRequest \/ ReadEof \/ HandleRequest \/ WriteReply
           \/ ReplyFails

\* Every call is over and the daemon waits for the next one.
Quiescent ==
    /\ \A r \in Requests : phase[r] = "done"
    /\ queue = <<>> /\ step = "accept"
    /\ UNCHANGED vars

Next ==
    \/ \E r \in Requests : Call(r) \/ Open(r) \/ Refuse(r) \/ WritePart(r)
                             \/ Write(r) \/ Await(r)
    \/ Start \/ Serve \/ Kill \/ Quiescent

Spec == Init /\ [][Next]_vars

\* The daemon and the clients that do not stall keep running, and a client
\* that waits times out.
Fairness ==
    /\ WF_vars(Serve)
    /\ \A r \in Requests : WF_vars(Open(r))
    /\ \A r \in Requests \ Holders : WF_vars(Write(r)) /\ WF_vars(Await(r))

FairSpec == Spec /\ Fairness
-----------------------------------------------------------------------------
(* Properties *)

TypeOK ==
    /\ up \in BOOLEAN
    /\ db \in Contents
    /\ queue \in Seq(Requests)
    /\ serving \in Requests \cup {None}
    /\ step \in {"accept", "read", "dispatch", "reply"}
    /\ kills \in 0..MaxKills
    /\ op \in [Requests -> Ops \cup {None}]
    /\ phase \in [Requests -> {"new", "connect", "write", "read", "done"}]
    /\ line \in [Requests -> {"none", "part", "full"}]
    /\ closed \in [Requests -> BOOLEAN]
    /\ effect \in [Requests -> Replies \cup {None}]
    /\ answer \in [Requests -> Replies \cup {None}]
    /\ told \in [Requests -> Replies \cup Failures \cup {None}]
    /\ ticket \in [Requests -> Nat]
    /\ last \in Nat
    /\ serving = None <=> step = "accept"

Kv == INSTANCE KeyValue WITH asked <- op

\* Each request takes effect at most once, inside its call unless the caller
\* was told Sent, and the reply is what happened: NotRunning, NotSent and a
\* refusal mean it never does, even when the line was partly written, the
\* reply lost or the daemon killed and started again in between.
ImplementsKeyValue == Kv!KvSpec

\* Requests are handled in the order of their connects: a write that was
\* given up on never lands after a write that was started later.
HandledInOrder == [][last' >= last]_last

\* A request that was sent is read, or dies with the daemon, though its
\* client gave up, as long as no client holds the connection open for ever.
SentIsServed ==
    []<>(serving \notin Holders) =>
        \A r \in Requests : line[r] = "full" ~> line[r] = "none"

\* A call comes back, also while another client holds the daemon.
EveryCallReturns ==
    \A r \in Requests \ Holders : phase[r] = "connect" ~> phase[r] = "done"
=============================================================================
