------------------------------ MODULE KeyValue ------------------------------
(***************************************************************************)
(* What the daemon and DaemonClient::send promise a caller of one request: *)
(* the request takes effect at most once, at one moment after the call,    *)
(* and a reply tells what happened at that moment.  A call that ends with  *)
(* NotRunning, NotSent or a refusal never takes effect; one that ends with *)
(* Sent may have taken effect, or still may, or never will.                *)
(***************************************************************************)
CONSTANTS
    Requests,        \* one call of DaemonClient::send each
    Ops,             \* what a request may ask for
    Contents,        \* contents of the store
    Dispatch(_, _),  \* op and contents to the set of [db, reply] it may give
    None             \* not called, no reply, no outcome yet

VARIABLES
    db,              \* the contents of the store
    asked,           \* [Requests -> op, or None]
    effect,          \* [Requests -> reply computed when it took effect]
    told             \* [Requests -> what the caller was told]

kvVars == <<db, asked, effect, told>>

Sent == [tag |-> "Sent"]
Unsent == [tag : {"NotRunning", "NotSent", "refused"}]

KvInit ==
    /\ db \in Contents
    /\ asked = [r \in Requests |-> None]
    /\ effect = [r \in Requests |-> None]
    /\ told = [r \in Requests |-> None]

Ask(r, op) ==
    /\ asked[r] = None
    /\ asked' = [asked EXCEPT ![r] = op]
    /\ UNCHANGED <<db, effect, told>>

TakeEffect(r) ==
    /\ asked[r] # None
    /\ effect[r] = None
    /\ told[r] \in {None, Sent}
    /\ \E result \in Dispatch(asked[r], db) :
          /\ db' = result.db
          /\ effect' = [effect EXCEPT ![r] = result.reply]
    /\ UNCHANGED <<asked, told>>

TellReply(r) ==
    /\ told[r] = None
    /\ effect[r] # None
    /\ told' = [told EXCEPT ![r] = effect[r]]
    /\ UNCHANGED <<db, asked, effect>>

TellSent(r) ==
    /\ asked[r] # None
    /\ told[r] = None
    /\ told' = [told EXCEPT ![r] = Sent]
    /\ UNCHANGED <<db, asked, effect>>

TellUnsent(r) ==
    /\ asked[r] # None
    /\ told[r] = None
    /\ effect[r] = None
    /\ told' \in {[told EXCEPT ![r] = why] : why \in Unsent}
    /\ UNCHANGED <<db, asked, effect>>

KvNext ==
    \/ \E r \in Requests, op \in Ops : Ask(r, op)
    \/ \E r \in Requests :
          TakeEffect(r) \/ TellReply(r) \/ TellSent(r) \/ TellUnsent(r)

KvSpec == KvInit /\ [][KvNext]_kvVars
=============================================================================
