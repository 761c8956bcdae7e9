--------------------------- MODULE ServiceProofs ---------------------------
(***************************************************************************)
(* Proofs about Service, for any calls, secrets, size of the backlog and   *)
(* number of kills.                                                        *)
(*                                                                         *)
(* A request takes effect once because its line is read once: the line is  *)
(* whole only after the call is past its writes, no effect is there yet,   *)
(* and reading it empties the socket (Whole, Dispatching).  What the       *)
(* caller is told fits because the reply in its socket is the effect, and  *)
(* a call that ends before its line is whole has none (Fresh).  Requests   *)
(* are handled in order because the tickets of the backlog grow, from the  *)
(* one that is served on (Order).                                          *)
(***************************************************************************)
EXTENDS Service, SequenceTheorems, TLAPS

Phases == {"new", "connect", "write", "read", "done"}

\* A reply, and contents, come of a request on contents.
LEMMA DispatchType ==
    ASSUME NEW o \in Ops, NEW d \in Contents, NEW result \in Dispatch(o, d)
    PROVE  result.db \in Contents /\ result.reply \in Replies
<1> DEFINE Fits(r) == r.db \in Contents /\ r.reply \in Replies
<1> SUFFICES Fits(result)
    OBVIOUS
<1>1. ASSUME NEW b \in Contents, NEW y \in Replies PROVE Fits(Reply(b, y))
    BY <1>1 DEF Reply
<1>2. /\ ok_response \in Replies
      /\ \A what \in {"error", "not found"} : error_response(what) \in Replies
    <2>1. Bare({"ok", "error", "not found"}) \subseteq Replies
        BY DEF Replies
    <2> QED BY <2>1 DEF ok_response, error_response, Bare
<1>3. \A v \in Values : ok_value(v) \in Replies
    BY DEF Replies, ok_value
<1>4. ok_values(d) \in Replies
    BY DEF Replies, ok_values
<1> HIDE DEF Fits
<1>5. CASE o.kind = "get"
    <2>1. o.key \in Keys
        BY <1>5 DEF Ops
    <2>2. d[o.key] \in Values \cup {NoValue}
        BY <2>1 DEF Contents
    <2>3. result = Reply(d, IF d[o.key] = NoValue THEN error_response("not found") ELSE ok_value(d[o.key]))
        BY <1>5 DEF Dispatch
    <2>4. CASE d[o.key] = NoValue
        <3>1. result = Reply(d, error_response("not found"))
            BY <2>3, <2>4
        <3> QED BY <3>1, <1>1, <1>2
    <2>5. CASE d[o.key] # NoValue
        <3>1. result = Reply(d, ok_value(d[o.key]))
            BY <2>3, <2>5
        <3> QED BY <3>1, <1>1, <1>3, <2>2, <2>5
    <2> QED BY <2>4, <2>5
<1>6. CASE o.kind = "set"
    <2>1. o.key \in Keys /\ o.value \in Values
        BY <1>6 DEF Ops
    <2>2. [d EXCEPT ![o.key] = o.value] \in Contents
        BY <2>1 DEF Contents
    <2>3. result \in {Reply([d EXCEPT ![o.key] = o.value], ok_response), Reply(d, error_response("error"))}
        BY <1>6 DEF Dispatch
    <2> QED BY <1>1, <1>2, <2>2, <2>3
<1>7. CASE o.kind = "delete"
    <2>1. o.key \in Keys
        BY <1>7 DEF Ops
    <2>2. [d EXCEPT ![o.key] = NoValue] \in Contents
        BY <2>1 DEF Contents
    <2>3. result \in {Reply(d, error_response("not found")), Reply([d EXCEPT ![o.key] = NoValue], ok_response),
                      Reply(d, error_response("error"))}
        BY <1>7 DEF Dispatch
    <2> QED BY <1>1, <1>2, <2>2, <2>3
<1>8. CASE o.kind = "list"
    <2>1. result = Reply(d, ok_values(d))
        BY <1>8 DEF Dispatch
    <2> QED BY <1>1, <1>4, <2>1
<1>9. CASE o.kind = "rekey"
    <2>1. result \in {Reply(d, ok_response), Reply(d, error_response("error"))}
        BY <1>9 DEF Dispatch
    <2> QED BY <1>1, <1>2, <2>1
<1>10. CASE o.kind = "bad"
    <2>1. result = Reply(d, error_response("error"))
        BY <1>10 DEF Dispatch
    <2> QED BY <1>1, <1>2, <2>1
<1>11. o.kind \in {"get", "set", "delete", "list", "rekey", "bad"}
    BY DEF Ops
<1> QED BY <1>5, <1>6, <1>7, <1>8, <1>9, <1>10, <1>11

-----------------------------------------------------------------------------
\* A call that has not sent its line has had no effect and no reply ...
Fresh ==
    \A r \in Requests : phase[r] \in {"new", "connect", "write"} =>
        effect[r] = None /\ answer[r] = None /\ line[r] # "full"

\* ... it asks for something once it is called, is told something only when
\* it is over, and is told what happened.
Asked == \A r \in Requests : phase[r] = "new" <=> op[r] = None
Untold == \A r \in Requests : phase[r] # "done" => told[r] = None
Kept == \A r \in Requests : answer[r] # None => answer[r] = effect[r]

\* A call whose line is in the socket, or is being handled, is past its
\* writes, has no effect yet and does not count on having none.
Unhandled(r) ==
    phase[r] \in {"read", "done"} /\ effect[r] = None /\ told[r] \in {None, [tag |-> "Sent"]}
Whole == \A r \in Requests : line[r] = "full" => Unhandled(r)
Dispatching ==
    /\ step = "dispatch" => Unhandled(serving) /\ line[serving] # "full"
    /\ step = "reply" => effect[serving] # None

\* Connections are those of calls that connected.
Connected ==
    \A r \in Requests : phase[r] \in {"new", "connect"} =>
        serving # r /\ \A i \in DOMAIN queue : queue[i] # r

\* Tickets grow from the request handled last, over the one that is served,
\* along the backlog to the next ticket.
LastTicket == Requests # {} => \E n \in Issued : last =< n /\ \A m \in Issued : m =< n
Order ==
    /\ serving # None => last =< ticket[serving]
    /\ \A i \in DOMAIN queue :
          /\ last =< ticket[queue[i]]
          /\ serving # None => ticket[serving] =< ticket[queue[i]]
          /\ \A j \in DOMAIN queue : i < j => ticket[queue[i]] =< ticket[queue[j]]

Calls == Fresh /\ Asked /\ Untold /\ Kept /\ Whole /\ Dispatching /\ Connected
Inv == Calls /\ LastTicket /\ Order

-----------------------------------------------------------------------------
\* Every variable keeps its type, and a connection is served exactly while
\* serve_connection runs.
LEMMA TypeNext == TypeOK /\ Inv /\ [Next]_vars => TypeOK'
<1> SUFFICES ASSUME TypeOK, Inv, [Next]_vars PROVE TypeOK'
    OBVIOUS
<1> USE DEF TypeOK, daemon, client
<1>1. ASSUME NEW r \in Requests, Call(r) PROVE TypeOK'
    BY <1>1 DEF Call
<1>2. ASSUME NEW r \in Requests, Connect(r) PROVE TypeOK'
    <2>1. NextTicket \in Nat
        <3>1. \E n \in Issued : \A m \in Issued : m =< n
            BY DEF Inv, LastTicket
        <3>2. (CHOOSE n \in Issued : \A m \in Issued : m =< n) \in Nat
            BY <3>1, ZenonT(40) DEF Issued
        <3> QED BY <3>2 DEF NextTicket
    <2> QED BY <1>2, <2>1 DEF Connect
<1>3. ASSUME NEW r \in Requests, ConnectFails(r) \/ Refuse(r) \/ WriteFails(r) \/ ReadFails(r)
      PROVE  TypeOK'
    <2>1. PICK what \in Failures : Finish(r, what)
        BY <1>3 DEF ConnectFails, Refuse, WriteFails, ReadFails, Failures, Bare
    <2> QED BY <1>3, <2>1 DEF ConnectFails, Refuse, WriteFails, ReadFails, Finish
<1>4. ASSUME NEW r \in Requests, WritePart(r) \/ WriteLine(r) PROVE TypeOK'
    BY <1>4 DEF WritePart, WriteLine
<1>5. ASSUME NEW r \in Requests, ReadReply(r) PROVE TypeOK'
    BY <1>5 DEF ReadReply, Finish
<1>6. CASE Start
    BY <1>6 DEF Start
<1>7. CASE Accept
    <2>1. Head(queue) \in Requests /\ Tail(queue) \in Seq(Requests)
        BY <1>7, HeadTailProperties DEF Accept
    <2> QED BY <1>7, <2>1, NoneAssumption DEF Accept
<1>8. CASE ReadRequest
    BY <1>8 DEF ReadRequest
<1>9. CASE ReadEof \/ ReplyFails
    BY <1>9 DEF ReadEof, ReplyFails, Drop
<1>10. CASE HandleRequest
    <2>1. serving \in Requests
        BY <1>10 DEF HandleRequest
    <2>2. PICK result \in Dispatch(op[serving], db) :
              db' = result.db /\ effect' = [effect EXCEPT ![serving] = result.reply]
        BY <1>10 DEF HandleRequest
    <2>3. op[serving] \in Ops
        BY <2>1 DEF Inv, Calls, Connected, Asked
    <2>4. db' \in Contents /\ result.reply \in Replies
        BY <2>2, <2>3, DispatchType
    <2>5. last' \in Nat
        BY <1>10, <2>1 DEF HandleRequest
    <2> QED BY <1>10, <2>1, <2>2, <2>4, <2>5 DEF HandleRequest
<1>11. CASE WriteReply
    BY <1>11 DEF WriteReply
<1>12. CASE Kill
    <2>1. kills' \in 0..MaxKills
        BY <1>12, BoundsAssumption DEF Kill
    <2>2. closed' \in [Requests -> BOOLEAN] /\ line' \in [Requests -> {"none", "part", "full"}]
        BY <1>12 DEF Kill
    <2>3. queue' \in Seq(Requests)
        BY <1>12 DEF Kill
    <2> QED BY <1>12, <2>1, <2>2, <2>3 DEF Kill
<1>13. CASE UNCHANGED vars
    BY <1>13 DEF vars
<1> QED BY <1>1, <1>2, <1>3, <1>4, <1>5, <1>6, <1>7, <1>8, <1>9, <1>10, <1>11, <1>12, <1>13
        DEF Next, Open, Write, Await, Serve, Quiescent

LEMMA InvInit == Init => TypeOK /\ Inv
<1> SUFFICES ASSUME Init PROVE TypeOK /\ Inv
    OBVIOUS
<1>1. TypeOK
    <2>1. queue \in Seq(Requests) /\ kills \in 0..MaxKills
        BY BoundsAssumption DEF Init
    <2> QED BY <2>1 DEF Init, TypeOK
<1>2. Calls
    <2>1. serving = None /\ DOMAIN queue = {} /\ step = "accept"
        BY DEF Init
    <2>2. /\ Connected
          /\ Dispatching
        BY <2>1, NoneAssumption DEF Connected, Dispatching
    <2>3. \A r \in Requests : /\ op[r] = None /\ phase[r] = "new" /\ line[r] = "none"
                             /\ effect[r] = None /\ answer[r] = None /\ told[r] = None
        BY DEF Init
    <2> QED BY <2>2, <2>3 DEF Calls, Fresh, Asked, Untold, Kept, Whole
<1>3. LastTicket
    <2>1. \A r \in Requests : ticket[r] = 0
        BY DEF Init
    <2>2. last = 0 /\ \A m \in Issued : m = 0
        BY <2>1 DEF Issued, Init
    <2>3. Requests # {} => 0 \in Issued
        BY <2>1 DEF Issued
    <2> QED BY <2>2, <2>3 DEF LastTicket
<1>4. Order
    BY DEF Init, Order
<1> QED BY <1>1, <1>2, <1>3, <1>4 DEF Inv

\* Calls end by a timeout, an error or a kill wherever they are, and the
\* daemon goes on with what they left.
LEMMA CallsNext == TypeOK /\ Calls /\ [Next]_vars => Calls'
<1> SUFFICES ASSUME TypeOK, Calls, [Next]_vars PROVE Calls'
    OBVIOUS
<1> USE DEF TypeOK, Calls, Fresh, Asked, Untold, Kept, Whole, Unhandled, Dispatching, Connected,
            daemon, client
<1>0. step \in {"dispatch", "reply", "read"} => serving \in Requests
    OBVIOUS
<1>1. ASSUME NEW r \in Requests, Call(r) PROVE Calls'
    BY <1>1, NoneAssumption DEF Call
<1>2. ASSUME NEW r \in Requests, Connect(r) PROVE Calls'
    BY <1>2 DEF Connect
<1>3. ASSUME NEW r \in Requests, ConnectFails(r) \/ Refuse(r) \/ WriteFails(r) PROVE Calls'
    <2>1. PICK what : Finish(r, what)
        BY <1>3 DEF ConnectFails, Refuse, WriteFails
    <2>2. phase[r] \in {"connect", "write"} /\ UNCHANGED <<daemon, db, line, closed, effect, answer, last>>
        BY <1>3 DEF ConnectFails, Refuse, WriteFails
    <2>3. \A q \in Requests \ {r} : phase'[q] = phase[q] /\ told'[q] = told[q]
        BY <2>1 DEF Finish
    <2>4. phase'[r] = "done" /\ op' = op
        BY <2>1 DEF Finish
    <2> QED BY <1>0, <2>2, <2>3, <2>4, ZenonT(40)
<1>4. ASSUME NEW r \in Requests, WritePart(r) PROVE Calls'
    BY <1>4 DEF WritePart
<1>5. ASSUME NEW r \in Requests, WriteLine(r) PROVE Calls'
    BY <1>5 DEF WriteLine
<1>6. ASSUME NEW r \in Requests, ReadReply(r) PROVE Calls'
    BY <1>6 DEF ReadReply, Finish
<1>7. ASSUME NEW r \in Requests, ReadFails(r) PROVE Calls'
    BY <1>7 DEF ReadFails, Finish
<1>8. CASE Start
    BY <1>8 DEF Start
<1>9. CASE Accept
    BY <1>9, HeadTailProperties DEF Accept
<1>10. CASE ReadRequest
    BY <1>0, <1>10 DEF ReadRequest
<1>11. CASE ReadEof \/ ReplyFails
    BY <1>0, <1>11, NoneAssumption DEF ReadEof, ReplyFails, Drop
<1>12. CASE HandleRequest
    <2>1. PICK result \in Dispatch(op[serving], db) :
              db' = result.db /\ effect' = [effect EXCEPT ![serving] = result.reply]
        BY <1>12 DEF HandleRequest
    <2>2. op[serving] \in Ops
        BY <1>0, <1>12 DEF HandleRequest
    <2>3. result.reply # None
        BY <2>1, <2>2, DispatchType, NoneAssumption
    <2> QED BY <1>0, <1>12, <2>1, <2>3 DEF HandleRequest
<1>13. CASE WriteReply
    BY <1>0, <1>13 DEF WriteReply
<1>14. CASE Kill
    BY <1>14, NoneAssumption DEF Kill
<1>15. CASE UNCHANGED vars
    BY <1>15 DEF vars
<1> QED BY <1>1, <1>2, <1>3, <1>4, <1>5, <1>6, <1>7, <1>8, <1>9, <1>10, <1>11, <1>12, <1>13,
           <1>14, <1>15
        DEF Next, Open, Write, Await, Serve, Quiescent

\* The daemon takes connections from the front of the backlog and connects go
\* to its end with the highest ticket yet; a kill empties it.
LEMMA OrderNext == TypeOK /\ Inv /\ [Next]_vars => (LastTicket /\ Order)'
<1> SUFFICES ASSUME TypeOK, Inv, [Next]_vars PROVE LastTicket' /\ Order'
    OBVIOUS
<1> USE DEF TypeOK, Inv
<1>1. ASSUME NEW r \in Requests, Connect(r) PROVE LastTicket' /\ Order'
    <2>1. PICK top \in Issued : last =< top /\ \A m \in Issued : m =< top
        BY DEF LastTicket
    <2>2. Issued \subseteq Nat /\ ticket[r] \in Issued
        BY DEF Issued
    <2>3. NextTicket = 1 + top
        <3>1. \A n \in Issued : (\A m \in Issued : m =< n) => n = top
            BY <2>1, <2>2
        <3> QED BY <2>1, <3>1 DEF NextTicket
    <2>4. ticket' = [ticket EXCEPT ![r] = 1 + top] /\ queue' = Append(queue, r) /\ UNCHANGED <<serving, last>>
        BY <1>1, <2>3 DEF Connect
    <2>5. LastTicket'
        <3>1. 1 + top \in Issued'
            BY <2>4 DEF Issued
        <3>2. ASSUME NEW m \in Issued' PROVE m =< 1 + top
            <4>1. m \in Issued \cup {1 + top}
                BY <2>4 DEF Issued
            <4> QED BY <2>1, <2>2, <4>1
        <3>3. last' =< 1 + top
            BY <2>1, <2>2, <2>4
        <3> QED BY <3>1, <3>2, <3>3 DEF LastTicket
    <2>6. serving # r /\ \A i \in DOMAIN queue : queue[i] # r
        BY <1>1 DEF Calls, Connected, Connect
    <2>7. /\ DOMAIN queue' = 1..(Len(queue) + 1)
          /\ queue'[Len(queue) + 1] = r
          /\ DOMAIN queue = 1..Len(queue) /\ Len(queue) \in Nat
          /\ \A i \in DOMAIN queue : queue'[i] = queue[i] /\ queue[i] \in Requests
        BY <2>4
    <2>8. /\ ticket'[r] = 1 + top
          /\ \A q \in Requests \ {r} : ticket'[q] = ticket[q] /\ ticket[q] =< top
          /\ top \in Nat /\ last =< top
        BY <2>1, <2>2, <2>4 DEF Issued
    <2>9. ASSUME NEW i \in DOMAIN queue'
          PROVE  /\ last' =< ticket'[queue'[i]]
                 /\ serving' # None => ticket'[serving'] =< ticket'[queue'[i]]
        BY <2>4, <2>6, <2>7, <2>8 DEF Order
    <2>10. ASSUME NEW i \in DOMAIN queue', NEW j \in DOMAIN queue', i < j
           PROVE  ticket'[queue'[i]] =< ticket'[queue'[j]]
        <3>1. i \in DOMAIN queue
            BY <2>7, <2>10
        <3>2. CASE j \in DOMAIN queue
            BY <2>6, <2>7, <2>8, <2>10, <3>1, <3>2 DEF Order
        <3>3. CASE j \notin DOMAIN queue
            BY <2>6, <2>7, <2>8, <3>1, <3>3
        <3> QED BY <3>2, <3>3
    <2>11. serving' # None => last' =< ticket'[serving']
        BY <2>4, <2>6, <2>8 DEF Order
    <2> QED BY <2>5, <2>9, <2>10, <2>11 DEF Order
<1>2. CASE Accept
    <2>1. /\ DOMAIN queue = 1..Len(queue) /\ Len(queue) \in Nat \ {0}
          /\ serving' = queue[1] /\ 1 \in DOMAIN queue
          /\ DOMAIN queue' = 1..(Len(queue) - 1)
          /\ \A i \in DOMAIN queue' : queue'[i] = queue[i + 1] /\ i + 1 \in DOMAIN queue
          /\ \A i \in DOMAIN queue : queue[i] \in Requests
          /\ UNCHANGED <<ticket, last>>
        BY <1>2, HeadTailProperties DEF Accept, client
    <2>2. Issued' = Issued
        BY <2>1 DEF Issued
    <2>3. LastTicket'
        BY <2>1, <2>2 DEF LastTicket
    <2>4. \A i \in DOMAIN queue : /\ last =< ticket[queue[i]]
                                  /\ \A j \in DOMAIN queue : i < j => ticket[queue[i]] =< ticket[queue[j]]
        BY DEF Order
    <2>5. last' =< ticket'[serving']
        BY <2>1, <2>4
    <2>6. ASSUME NEW i \in DOMAIN queue'
          PROVE  last' =< ticket'[queue'[i]] /\ ticket'[serving'] =< ticket'[queue'[i]]
        <3>1. i + 1 \in DOMAIN queue /\ 1 < i + 1 /\ queue'[i] = queue[i + 1]
            BY <2>1
        <3> QED BY <2>1, <2>4, <3>1
    <2>7. ASSUME NEW i \in DOMAIN queue', NEW j \in DOMAIN queue', i < j
          PROVE  ticket'[queue'[i]] =< ticket'[queue'[j]]
        <3>1. /\ i + 1 \in DOMAIN queue /\ queue'[i] = queue[i + 1]
              /\ j + 1 \in DOMAIN queue /\ queue'[j] = queue[j + 1]
              /\ i + 1 < j + 1
            BY <2>1, <2>7
        <3> QED BY <2>1, <2>4, <3>1
    <2>8. Order'
        BY <2>5, <2>6, <2>7 DEF Order
    <2> QED BY <2>3, <2>8
<1>3. CASE HandleRequest
    <2>1. /\ serving \in Requests /\ last' = ticket[serving]
          /\ UNCHANGED <<queue, serving, ticket>>
        BY <1>3 DEF HandleRequest, client
    <2>2. Issued' = Issued
        BY <2>1 DEF Issued
    <2>3. ticket[serving] \in Issued
        BY <2>1 DEF Issued
    <2>4. LastTicket'
        BY <2>1, <2>2, <2>3 DEF LastTicket, Issued
    <2>5. Order'
        <3>1. serving # None /\ ticket[serving] \in Nat
            BY <2>1, NoneAssumption
        <3>2. \A i \in DOMAIN queue :
                 /\ ticket[serving] =< ticket[queue[i]]
                 /\ \A j \in DOMAIN queue : i < j => ticket[queue[i]] =< ticket[queue[j]]
            BY <3>1 DEF Order
        <3> QED BY <2>1, <3>1, <3>2 DEF Order
    <2> QED BY <2>4, <2>5
<1>4. CASE UNCHANGED <<ticket, last>> /\ serving' \in {serving, None} /\ queue' \in {queue, <<>>}
    <2>1. Issued' = Issued
        BY <1>4 DEF Issued
    <2>2. DOMAIN <<>> = {}
        OBVIOUS
    <2> QED BY <1>4, <2>1, <2>2 DEF Order, LastTicket
<1> QED BY <1>1, <1>2, <1>3, <1>4
        DEF Next, Call, Open, ConnectFails, Refuse, WritePart, Write, WriteLine, WriteFails, Await,
            ReadReply, ReadFails, Finish, Start, Serve, ReadRequest, ReadEof, WriteReply, ReplyFails,
            Drop, Kill, Quiescent, vars, daemon, client

-----------------------------------------------------------------------------
\* The invariant of calls and daemon holds in every state, for any backlog.
THEOREM Inductive == Spec => [](TypeOK /\ Inv)
<1>1. TypeOK /\ Inv /\ [Next]_vars => (TypeOK /\ Inv)'
    BY TypeNext, CallsNext, OrderNext DEF Inv
<1> QED BY <1>1, InvInit, PTL DEF Spec

\* The types of every variable, in particular of what callers are told.
THEOREM TypeCorrect == Spec => []TypeOK
BY Inductive, PTL

\* Requests are handled in the order of their connects, whatever calls time
\* out, and whenever the daemon is killed and started again.
THEOREM InOrder == Spec => HandledInOrder
<1>1. TypeOK /\ Inv /\ [Next]_vars => [last' >= last]_last
    <2> SUFFICES ASSUME TypeOK, Inv, [Next]_vars, last' # last PROVE last' >= last
        OBVIOUS
    <2>1. HandleRequest
        BY DEF Next, Call, Open, Connect, ConnectFails, Refuse, WritePart, Write, WriteLine, WriteFails,
               Await, ReadReply, ReadFails, Finish, Start, Serve, Accept, ReadRequest, ReadEof,
               WriteReply, ReplyFails, Drop, Kill, Quiescent, vars
    <2>2. serving \in Requests /\ last' = ticket[serving]
        BY <2>1 DEF HandleRequest, TypeOK
    <2> QED BY <2>2, NoneAssumption DEF Inv, Order, TypeOK
<1> QED BY <1>1, Inductive, PTL DEF Spec, HandledInOrder

\* Each step of Service is a step of KeyValue or leaves its variables alone.
LEMMA StepImplements == TypeOK /\ Inv /\ [Next]_vars => [Kv!KvNext]_(Kv!kvVars)
<1> SUFFICES ASSUME TypeOK, Inv, [Next]_vars PROVE Kv!KvNext \/ UNCHANGED Kv!kvVars
    OBVIOUS
<1> USE DEF TypeOK, Inv, Calls
<1>1. ASSUME NEW r \in Requests, Call(r) PROVE Kv!KvNext
    <2>1. PICK o \in Ops : op' = [op EXCEPT ![r] = o]
        BY <1>1 DEF Call
    <2>2. op[r] = None
        BY <1>1 DEF Call, Asked
    <2>3. Kv!Ask(r, o)
        BY <1>1, <2>1, <2>2 DEF Call, Kv!Ask
    <2> QED BY <2>3 DEF Kv!KvNext
\* A call that ends before its line is whole has no effect, then or later.
<1>2. ASSUME NEW r \in Requests, ConnectFails(r) \/ Refuse(r) \/ WriteFails(r) PROVE Kv!KvNext
    <2>1. PICK tag \in {"NotRunning", "NotSent", "refused"} : Finish(r, [tag |-> tag])
        BY <1>2 DEF ConnectFails, Refuse, WriteFails
    <2>2. phase[r] \in {"connect", "write"} /\ UNCHANGED <<db, effect>>
        BY <1>2 DEF ConnectFails, Refuse, WriteFails
    <2>3. op[r] # None /\ told[r] = None /\ effect[r] = None
        BY <2>2 DEF Asked, Untold, Fresh
    <2>4. [tag |-> tag] \in Kv!Unsent
        BY DEF Kv!Unsent
    <2>5. Kv!TellUnsent(r)
        BY <2>1, <2>2, <2>3, <2>4 DEF Kv!TellUnsent, Finish
    <2> QED BY <2>5 DEF Kv!KvNext
<1>3. ASSUME NEW r \in Requests, ReadReply(r) PROVE Kv!KvNext
    <2>1. told[r] = None /\ answer[r] # None /\ answer[r] = effect[r]
        BY <1>3 DEF ReadReply, Untold, Kept
    <2>2. Kv!TellReply(r)
        BY <1>3, <2>1 DEF ReadReply, Finish, Kv!TellReply
    <2> QED BY <2>2 DEF Kv!KvNext
<1>4. ASSUME NEW r \in Requests, ReadFails(r) PROVE Kv!KvNext
    <2>1. told[r] = None /\ op[r] # None
        BY <1>4 DEF ReadFails, Untold, Asked
    <2>2. Kv!TellSent(r)
        BY <1>4, <2>1 DEF ReadFails, Finish, Kv!TellSent, Kv!Sent
    <2> QED BY <2>2 DEF Kv!KvNext
\* The line that dispatch works on was read once and has had no effect yet.
<1>5. CASE HandleRequest
    <2>1. serving \in Requests /\ step = "dispatch"
        BY <1>5 DEF HandleRequest
    <2>2. effect[serving] = None /\ told[serving] \in {None, Kv!Sent} /\ op[serving] # None
        BY <2>1 DEF Dispatching, Unhandled, Asked, Kv!Sent
    <2>3. Kv!TakeEffect(serving)
        BY <1>5, <2>2 DEF HandleRequest, client, Kv!TakeEffect
    <2> QED BY <2>1, <2>3 DEF Kv!KvNext
<1>6. CASE UNCHANGED <<db, op, effect, told>>
    BY <1>6 DEF Kv!kvVars
<1> QED BY <1>1, <1>2, <1>3, <1>4, <1>5, <1>6
        DEF Next, Open, Connect, WritePart, Write, WriteLine, Await, Start, Serve, Accept, ReadRequest,
            ReadEof, WriteReply, ReplyFails, Kill, Quiescent, vars, daemon, client

\* The daemon and its clients keep the promise of KeyValue: each request takes
\* effect at most once, and what its caller is told is what happened.
THEOREM Implements == Spec => ImplementsKeyValue
<1>1. Init => Kv!KvInit
    BY DEF Init, Kv!KvInit
<1> QED BY <1>1, StepImplements, Inductive, PTL DEF Spec, ImplementsKeyValue, Kv!KvSpec

-----------------------------------------------------------------------------
(* What callers may conclude, by the steps of KeyValue alone.              *)

\* What a caller is told: the effect itself, that there is none, or Sent.
ToldIsTrue ==
    \A r \in Requests : told[r] # None =>
        \/ told[r] = effect[r]
        \/ told[r] \in Kv!Unsent /\ effect[r] = None
        \/ told[r] = Kv!Sent

\* No effect is undone, or comes a second time, and no caller is told twice.
OnceAndForAll ==
    \A r \in Requests :
        /\ effect[r] # None => effect'[r] = effect[r]
        /\ told[r] # None => told'[r] = told[r]

LEMMA KvStep ==
    ASSUME TypeOK, [Kv!KvNext]_(Kv!kvVars)
    PROVE  OnceAndForAll /\ (ToldIsTrue => ToldIsTrue')
<1> USE DEF TypeOK
<1>1. ASSUME NEW r \in Requests, NEW o \in Ops, Kv!Ask(r, o)
      PROVE  OnceAndForAll /\ (ToldIsTrue => ToldIsTrue')
    BY <1>1 DEF Kv!Ask, OnceAndForAll, ToldIsTrue
<1>2. ASSUME NEW r \in Requests, Kv!TakeEffect(r)
      PROVE  OnceAndForAll /\ (ToldIsTrue => ToldIsTrue')
    <2>1. /\ told' = told /\ told[r] \in {None, Kv!Sent} /\ effect[r] = None
          /\ \A q \in Requests \ {r} : effect'[q] = effect[q]
        BY <1>2 DEF Kv!TakeEffect
    <2> QED BY <2>1 DEF OnceAndForAll, ToldIsTrue
<1>3. ASSUME NEW r \in Requests, Kv!TellReply(r) \/ Kv!TellSent(r) \/ Kv!TellUnsent(r)
      PROVE  OnceAndForAll /\ (ToldIsTrue => ToldIsTrue')
    <2>1. /\ effect' = effect /\ told[r] = None
          /\ \A q \in Requests \ {r} : told'[q] = told[q]
        BY <1>3 DEF Kv!TellReply, Kv!TellSent, Kv!TellUnsent
    <2>2. \/ told'[r] = effect[r]
          \/ told'[r] \in Kv!Unsent /\ effect[r] = None
          \/ told'[r] = Kv!Sent
        BY <1>3 DEF Kv!TellReply, Kv!TellSent, Kv!TellUnsent
    <2> QED BY <2>1, <2>2 DEF OnceAndForAll, ToldIsTrue
<1>4. CASE UNCHANGED Kv!kvVars
    BY <1>4 DEF Kv!kvVars, OnceAndForAll, ToldIsTrue
<1> QED BY <1>1, <1>2, <1>3, <1>4 DEF Kv!KvNext

\* A reply is the effect, and a call that ended before it was sent has none;
\* only Sent leaves open what happened.
THEOREM CallersKnow == Spec => []ToldIsTrue
<1>1. Init => ToldIsTrue
    BY DEF Init, ToldIsTrue
<1>2. TypeOK /\ Inv /\ ToldIsTrue /\ [Next]_vars => ToldIsTrue'
    BY StepImplements, KvStep
<1> QED BY <1>1, <1>2, Inductive, PTL DEF Spec

\* A request takes effect at most once and its outcome never changes.
THEOREM AtMostOnce == Spec => [][OnceAndForAll]_vars
<1>1. TypeOK /\ Inv /\ [Next]_vars => [OnceAndForAll]_vars
    BY StepImplements, KvStep
<1> QED BY <1>1, Inductive, PTL DEF Spec
=============================================================================
