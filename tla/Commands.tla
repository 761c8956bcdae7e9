------------------------------ MODULE Commands ------------------------------
(***************************************************************************)
(* The commands of client.cpp that take several steps: import (a manifest  *)
(* read, a getprefix, one set per variable, a manifest write), exec (one   *)
(* request per prefix) and, beside them, single set and delete commands.   *)
(* All of them talk to one daemon whose requests are handled in the order  *)
(* in which they were queued (Service, HandledInOrder); a command that     *)
(* gives up leaves its request in the queue.                               *)
(*                                                                         *)
(* One project and one environment: a name stands for the variable, the    *)
(* manifest entry and its scoped key env/project/NAME alike.  A stored     *)
(* value is the stamp of the command that wrote it.                        *)
(***************************************************************************)
EXTENDS Naturals, FiniteSets, Sequences, SequencesExt

CONSTANTS
    Imports,      \* import command lines
    Setters,      \* set and delete command lines
    Execs,        \* exec command lines
    Names,        \* variable names of a .env file
    RawKeys,      \* store keys outside the project's scope
    MaxRuns,      \* how many commands are run, one after the other or at once
    None          \* no value, no entry, nobody waiting

Keys == Names \cup RawKeys
Clients == Imports \cup Setters \cup Execs
Files == {f \in UNION {[1..n -> Names] : n \in 0..Cardinality(Names)} :
             \A i, j \in DOMAIN f : f[i] = f[j] => i = j}
Options == {"plain", "overwrite", "delete"}
Stamps == Clients \X (1..MaxRuns) \X Options
Old == <<None, 0, "plain">>
Values == Stamps \cup {Old}

ASSUME CommandsAssumption ==
    /\ IsFiniteSet(Names)
    /\ Names \cap RawKeys = {}
    /\ Imports \cap Setters = {} /\ Imports \cap Execs = {}
    /\ Setters \cap Execs = {}
    /\ None \notin Clients \cup Keys \cup (Clients \X Nat \X Options)

VARIABLES
    manifest,   \* [Names -> key the entry reads, or None]: .secretov.yaml
    db,         \* [Keys -> value, or None]: the daemon's store
    backlog,    \* the daemon's queue of requests
    pc,         \* [Clients -> where the command is, or how it ended]
    run,        \* [Clients -> number of its latest run]
    option,     \* [Clients -> --overwrite, or delete instead of set]
    file,       \* [Clients -> names to store, in the order of the .env file]
    unfit,      \* [Clients -> one of them whose value check_request refuses or
                \*  that the manifest parser does not take as a variable]
    text,       \* [Clients -> the manifest as this command read it]
    got,        \* [Clients -> values it fetched]
    done        \* [Clients -> requests of the present loop that returned]

vars == <<manifest, db, backlog, pc, run, option, file, unfit, text, got, done>>

Sending == {"list", "store", "fetch"}
Awaiting == {"listing", "storing", "fetching"}
Ended == {"idle", "ok", "refused", "partial", "unrecorded", "killed"}
NoValues == [k \in Keys |-> None]
NoEntries == [n \in Names |-> None]
Requests == [from : Clients \cup {None}, keys : SUBSET Keys,
             op : {"read", "set", "delete"}, value : Stamps]

TypeOK ==
    /\ manifest \in [Names -> Keys \cup {None}]
    /\ db \in [Keys -> Values \cup {None}]
    /\ backlog \in Seq(Requests)
    /\ pc \in [Clients -> Sending \cup Awaiting \cup Ended \cup {"check", "write"}]
    /\ run \in [Clients -> 0..MaxRuns]
    /\ option \in [Clients -> Options]
    /\ file \in [Clients -> Files]
    /\ unfit \in [Clients -> Names \cup {None}]
    /\ text \in [Clients -> [Names -> Keys \cup {None}]]
    /\ got \in [Clients -> [Keys -> Values \cup {None}]]
    /\ done \in [Clients -> 0..Cardinality(Keys)]
    /\ \A c \in Clients :
          Cardinality({i \in DOMAIN backlog : backlog[i].from = c})
              <= (IF pc[c] \in Awaiting THEN 1 ELSE 0)

Init ==
    /\ manifest \in {m \in [Names -> Keys \cup {None}] :
                        \A n \in Names : m[n] \in {n, None} \cup RawKeys}
    /\ db \in {f \in [Keys -> {Old, None}] : \A k \in RawKeys : f[k] = Old}
    /\ backlog = <<>>
    /\ pc = [c \in Clients |-> "idle"]
    /\ run = [c \in Clients |-> 0]
    /\ option = [c \in Clients |-> "plain"]
    /\ file = [c \in Clients |-> <<>>]
    /\ unfit = [c \in Clients |-> None]
    /\ text = [c \in Clients |-> NoEntries]
    /\ got = [c \in Clients |-> NoValues]
    /\ done = [c \in Clients |-> 0]

Stamp(c) == <<c, run[c], option[c]>>

Runs == MapThenSumSet(LAMBDA c : run[c], Clients)

\* The command goes on with what it has fetched, or its process is gone.  What
\* an import was told to store is kept as history once it may have stored some.
Goto(c, place, values) ==
    LET gone == place \in Ended
        forgotten == gone /\ (c \notin Imports \/ place = "refused")
    IN  /\ pc' = [pc EXCEPT ![c] = place]
        /\ got' = [got EXCEPT ![c] = IF gone THEN NoValues ELSE values]
        /\ text' = [text EXCEPT ![c] = IF gone THEN NoEntries ELSE @]
        /\ file' = [file EXCEPT ![c] = IF forgotten THEN <<>> ELSE @]
        /\ unfit' = [unfit EXCEPT ![c] = IF forgotten THEN None ELSE @]
        /\ option' = [option EXCEPT ![c] = IF gone /\ c \notin Imports THEN "plain" ELSE @]

-----------------------------------------------------------------------------
(* Starting a command.                                                     *)

\* A command may be refused for its arguments, for a project that is not the
\* manifest's, for a manifest that is missing, not trusted (ManifestTrust) or
\* cannot be parsed (ManifestEdit), or for an empty .env file: nothing is known
\* of what it would store.  Else it goes on with the manifest it read.
Unresolved(c) ==
    /\ pc' = [pc EXCEPT ![c] = "refused"]
    /\ option' = [option EXCEPT ![c] = "plain"]
    /\ file' = [file EXCEPT ![c] = <<>>]
    /\ unfit' = [unfit EXCEPT ![c] = None]
    /\ UNCHANGED text

Resolved(c, opt, f, bad, next) ==
    /\ pc' = [pc EXCEPT ![c] = next]
    /\ option' = [option EXCEPT ![c] = opt]
    /\ file' = [file EXCEPT ![c] = f]
    /\ unfit' = [unfit EXCEPT ![c] = bad]
    /\ text' = [text EXCEPT ![c] = manifest]

Begin(c) ==
    /\ pc[c] \in Ended
    /\ Runs < MaxRuns
    /\ run' = [run EXCEPT ![c] = @ + 1]
    /\ done' = [done EXCEPT ![c] = 0]
    /\ UNCHANGED <<manifest, db, backlog, got>>

\* The manifest and the .env file are read first (Dotenv).
cmd_import(p) ==
    /\ Begin(p)
    /\ \/ Unresolved(p)
       \/ \E opt \in {"plain", "overwrite"}, f \in Files \ {<<>>} :
             \E bad \in Range(f) \cup {None} : Resolved(p, opt, f, bad, "list")

\* One value read from stdin.
cmd_set(s) ==
    /\ Begin(s)
    /\ Unresolved(s) \/ \E n \in Names : Resolved(s, "plain", <<n>>, None, "store")

cmd_delete(s) ==
    /\ Begin(s)
    /\ Unresolved(s) \/ \E n \in Names : Resolved(s, "delete", <<n>>, None, "store")

cmd_exec(e) ==
    /\ Begin(e)
    /\ Unresolved(e) \/ Resolved(e, "plain", <<>>, None, "fetch")

-----------------------------------------------------------------------------
(* One request: DaemonClient::request and the daemon's side of it.         *)

\* Mutant of get_many: every path in a request of its own.
GetManySingly(e) ==
    SetToSeq({{k} : k \in {text[e][n] : n \in Names} \ {None}})

\* The paths of a manifest's entries, grouped by prefix: one getprefix for
\* the project's scope, a get for each key without a prefix.
get_many(e) ==
    LET wanted == {text[e][n] : n \in Names} \ {None}
        scope == wanted \cap Names
    IN  SetToSeq({{k} : k \in wanted \cap RawKeys})
            \o (IF scope = {} THEN <<>> ELSE <<scope>>)

Request(c) ==
    CASE pc[c] = "list"  -> [from |-> c, keys |-> Names, op |-> "read",
                             value |-> Stamp(c)]
      [] pc[c] = "fetch" -> [from |-> c, keys |-> get_many(c)[done[c] + 1],
                             op |-> "read", value |-> Stamp(c)]
      [] pc[c] = "store" -> [from |-> c, keys |-> {file[c][done[c] + 1]},
                             op |-> IF option[c] = "delete" THEN "delete" ELSE "set",
                             value |-> Stamp(c)]

Awaits == [list |-> "listing", store |-> "storing", fetch |-> "fetching"]

\* More requests to make.
MaySend(c) ==
    CASE pc[c] = "store" -> done[c] < Len(file[c])
      [] pc[c] = "fetch" -> done[c] < Len(get_many(c))
      [] OTHER           -> TRUE

Send(c) ==
    /\ pc[c] \in Sending
    /\ MaySend(c)
    /\ backlog' = Append(backlog, Request(c))
    /\ pc' = [pc EXCEPT ![c] = Awaits[pc[c]]]
    /\ UNCHANGED <<manifest, db, run, option, file, unfit, text, got, done>>

\* Mutant of Failure: the message never mentions stored keys.
FailureSaysNothing(c) == "refused"

\* What a command that fails in a request has to say: import lists the keys
\* it stored so far and the one that failed, everything else changed nothing.
Failure(c) == IF pc[c] \in {"store", "storing"} THEN "partial" ELSE "refused"

\* The daemon is not running or busy, or serialize() throws.
RequestNotSent(c) ==
    /\ pc[c] \in Sending
    /\ MaySend(c)
    /\ Goto(c, Failure(c), NoValues)
    /\ UNCHANGED <<manifest, db, backlog, run, done>>

Abandoned(c) ==
    [i \in DOMAIN backlog |->
        IF backlog[i].from = c THEN [backlog[i] EXCEPT !.from = None]
        ELSE backlog[i]]

\* No reply in time, or the daemon hung up: the request may be queued still.
GiveUp(c) ==
    /\ pc[c] \in Awaiting
    /\ Goto(c, Failure(c), NoValues)
    /\ backlog' = Abandoned(c)
    /\ UNCHANGED <<manifest, db, run, done>>

\* The daemon answers the oldest request; a client still waiting goes on.
Resumes == [listing |-> "check", storing |-> "store", fetching |-> "fetch"]

Reply(req, c) ==
    [k \in Keys |-> IF req.op = "read" /\ k \in req.keys THEN db[k] ELSE got[c][k]]

Answer(req, ok) ==
    LET c == req.from IN
    IF c = None THEN UNCHANGED <<pc, got, text, file, unfit, option, done>>
    ELSE /\ Goto(c, IF ok THEN Resumes[pc[c]] ELSE Failure(c), Reply(req, c))
         /\ done' = IF ok /\ pc[c] # "listing"
                    THEN [done EXCEPT ![c] = @ + 1] ELSE done

dispatch(ok) ==
    /\ backlog # <<>>
    /\ LET req == Head(backlog)
           Written(value) == [k \in Keys |-> IF k \in req.keys THEN value ELSE db[k]]
       IN  /\ ok /\ req.op = "delete" => \A k \in req.keys : db[k] # None
           /\ db' = CASE ~ok \/ req.op = "read" -> db
                      [] ok /\ req.op = "set"    -> Written(req.value)
                      [] ok /\ req.op = "delete" -> Written(None)
           /\ Answer(req, ok)
    /\ backlog' = Tail(backlog)
    /\ UNCHANGED <<manifest, run>>

\* A killed daemon takes its queue with it; the next one has the same store.
DaemonDies ==
    /\ backlog # <<>>
    /\ backlog' = <<>>
    /\ UNCHANGED <<manifest, db, pc, run, option, file, unfit, text, got, done>>

-----------------------------------------------------------------------------
(* The rest of import, and the end of the commands.                        *)

\* Mutant of Collisions: only keys the manifest declares are looked up.
CollisionsDeclared(p) ==
    {n \in Range(file[p]) : text[p][n] # None /\ got[p][n] # None}

Collisions(p) == {n \in Range(file[p]) : got[p][n] # None}

\* Entries that are there stay as they are, the others read their own key.
manifest_with_entries(t, names) ==
    [n \in Names |-> IF n \in names /\ t[n] = None THEN n ELSE t[n]]

\* Mutant of EditRefused: entries that were there are not looked at again.
EditUnproved(t, names) == FALSE

\* The edit is refused if an entry that was there reads another key.
EditRefused(t, names) ==
    \E n \in names : manifest_with_entries(t, names)[n] # n

Edited(p) == manifest_with_entries(text[p], Range(file[p]))

\* Mutant of Refused: what cannot be stored or recorded is found out later.
RefusedLate(p) ==
    \/ Collisions(p) # {} /\ option[p] # "overwrite"
    \/ EditRefused(text[p], Range(file[p]))

\* Everything that can be refused is refused before the first set.
Refused(p) ==
    \/ Collisions(p) # {} /\ option[p] # "overwrite"
    \/ unfit[p] # None
    \/ EditRefused(text[p], Range(file[p]))

\* The directory may turn out not to be trusted or writable as well.  What
\* was fetched is not looked at again.
Check(p) ==
    /\ pc[p] = "check"
    /\ \/ Goto(p, IF Refused(p) THEN "refused" ELSE "store", NoValues)
       \/ Edited(p) # text[p] /\ Goto(p, "refused", NoValues)
    /\ UNCHANGED <<manifest, db, backlog, run, done>>

\* All requests of the loop are through; exec needs a value for each entry.
LoopEnds(c) ==
    /\ pc[c] \in {"store", "fetch"}
    /\ ~MaySend(c)
    /\ Goto(c, CASE c \in Imports -> "write"
                 [] c \in Setters -> "ok"
                 [] c \in Execs   -> IF \E n \in Names : /\ text[c][n] # None
                                                        /\ got[c][text[c][n]] = None
                                     THEN "refused" ELSE "ok",
            got[c])
    /\ UNCHANGED <<manifest, db, backlog, run, done>>

\* write_file_atomic replaces the file or leaves it alone; a manifest that
\* already has the entries is not written.
WriteManifest(p) ==
    /\ pc[p] = "write"
    /\ \/ /\ manifest' = IF Edited(p) # text[p] THEN Edited(p) ELSE manifest
          /\ Goto(p, "ok", NoValues)
       \/ /\ Edited(p) # text[p]
          /\ Goto(p, "unrecorded", NoValues)
          /\ UNCHANGED manifest
    /\ UNCHANGED <<db, backlog, run, done>>

\* The user interrupts a command; its request stays queued.
Interrupt(c) ==
    /\ pc[c] \notin Ended
    /\ Goto(c, "killed", NoValues)
    /\ backlog' = Abandoned(c)
    /\ UNCHANGED <<manifest, db, run, done>>

Start(c) ==
    \/ c \in Imports /\ cmd_import(c)
    \/ c \in Setters /\ (cmd_set(c) \/ cmd_delete(c))
    \/ c \in Execs /\ cmd_exec(c)

Continue ==
    \/ \E c \in Clients :
          Send(c) \/ RequestNotSent(c) \/ GiveUp(c) \/ LoopEnds(c) \/ Interrupt(c)
    \/ \E p \in Imports : Check(p) \/ WriteManifest(p)
    \/ \E ok \in BOOLEAN : dispatch(ok)
    \/ DaemonDies

\* All commands have been run as often as the model allows.
Finished ==
    /\ Runs = MaxRuns
    /\ \A c \in Clients : pc[c] \in Ended
    /\ backlog = <<>>
    /\ UNCHANGED vars

Next == (\E c \in Clients : Start(c)) \/ Continue \/ Finished

Spec == Init /\ [][Next]_vars

\* Commands that write are run one after the other, as in one shell; what an
\* earlier one left in the queue is there still.
Writers == Imports \cup Setters

SerialStart(c) ==
    /\ c \in Writers => \A d \in Writers : pc[d] \in Ended
    /\ Start(c)

SerialNext == (\E c \in Clients : SerialStart(c)) \/ Continue \/ Finished

SerialSpec == Init /\ [][SerialNext]_vars

-----------------------------------------------------------------------------
(* Properties.                                                             *)

Stored(p) == {k \in Keys : db[k] = Stamp(p)}

\* The variables that the loop of sets has tried, the present one with them.
Tried(p) == {file[p][i] : i \in 1..(done[p] + 1) \cap DOMAIN file[p]}

\* What an import may have changed, however it ended and whatever it left in
\* the queue.  Refused: nothing.  Failed in a set ("partial"): the keys that
\* its message names, those stored and the failed one.  Killed, it has said
\* nothing, and when the manifest cannot be written ("unrecorded") the message
\* gives that error alone (client.cpp, the catch of cmd_import): these two and
\* a success go no further than the loop did.  Only the refused import is
\* all-or-nothing, as USING.md has it of every import.
StoresOnlyTried ==
    \A p \in Imports :
        /\ pc[p] = "refused" => Stored(p) = {}
        /\ pc[p] \in {"partial", "unrecorded", "killed", "ok"} =>
              Stored(p) \subseteq Tried(p)

\* What holds when import ends.  Failed in a set: the keys listed as stored are
\* in the store with this import's values.  Failed in the manifest's write: so
\* is every variable, though the message names none and the file is as it was.
\* Successful: every variable is stored, and declared under its own key, so
\* that exec finds it.
ReportIsTrue ==
    [][\A p \in Imports : pc'[p] # pc[p] =>
          /\ pc'[p] = "partial" => \A i \in 1..done'[p] : db'[file[p][i]] = Stamp(p)
          /\ pc'[p] \in {"unrecorded", "ok"} =>
                \A n \in Range(file[p]) :
                    /\ db'[n] = Stamp(p)
                    /\ manifest'[n] = IF pc'[p] = "ok" THEN n ELSE text[p][n]]_vars

\* A file with a variable that cannot be sent or declared changes no key at
\* all, wherever in the file it stands and whatever is queued.
UnfitImportsNothing ==
    \A p \in Imports : unfit[p] # None => Stored(p) = {}

\* An import without --overwrite replaces no value of anybody else, whatever
\* earlier commands left queued in the daemon.
NoSilentOverwrite ==
    [][\A k \in Keys :
          db[k] # None /\ db'[k] # db[k] /\ db'[k] # None =>
              ~(db'[k][1] \in Imports /\ db'[k][3] = "plain")]_vars

\* exec fetches the project's scope in one request: of a running import it
\* sees the first variables of the file, never a later one without them (as
\* long as nobody else stores or deletes any).
ExecSeesImportInOrder ==
    [][\A e \in Execs, p \in Imports :
          \A i, j \in DOMAIN file[p] :
              /\ pc[e] # "ok" /\ pc'[e] = "ok" /\ i < j
              /\ \A c \in (Imports \cup Setters) \ {p} : run[c] = 0
              /\ {file[p][i], file[p][j]} \subseteq {text[e][n] : n \in Names}
              /\ got[e][file[p][j]] = Stamp(p)
              => got[e][file[p][i]] = Stamp(p)]_vars
=============================================================================
