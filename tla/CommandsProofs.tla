--------------------------- MODULE CommandsProofs ---------------------------
(***************************************************************************)
(* Proofs about Commands, for any commands, names and keys and any number  *)
(* of runs.  What an import reports is complete however commands overlap:  *)
(* a run has a stamp of its own (Stamping), and the keys that have it or   *)
(* may still get it from the queue stay within the part of the file that   *)
(* the loop has reached (Progress).  When the commands that write come one *)
(* after the other the queue's order gives more: what an import finds with *)
(* its getprefix is still so when its own sets are handled (QuietOf,       *)
(* FoundOf).  If it is the only writer, what it stored stays after its end *)
(* too (Settled), and an exec reads the scope in one look (AsksScope).     *)
(***************************************************************************)
EXTENDS Commands, FiniteSetTheorems, SequenceTheorems, TLAPS

Stamped == Clients \X Nat \X Options
DbValues == Stamped \cup {Old, None}
FileList == {f \in Seq(Names) : \A i, j \in 1..Len(f) : f[i] = f[j] => i = j}
Queueable == [from : Clients \cup {None}, keys : SUBSET Keys,
              op : {"read", "set", "delete"}, value : Stamped]

PlaceNames == Sending \cup Awaiting \cup Ended \cup {"check", "write"}

\* As TypeOK, for any number of runs.
Types ==
    /\ manifest \in [Names -> Keys \cup {None}]
    /\ db \in [Keys -> DbValues]
    /\ backlog \in Seq(Queueable)
    /\ pc \in [Clients -> PlaceNames]
    /\ run \in [Clients -> Nat]
    /\ option \in [Clients -> Options]
    /\ file \in [Clients -> FileList]
    /\ unfit \in [Clients -> Names \cup {None}]
    /\ text \in [Clients -> [Names -> Keys \cup {None}]]
    /\ got \in [Clients -> [Keys -> DbValues]]
    /\ done \in [Clients -> Nat]

\* Which steps a command of each kind has, and how far its loop is.
Places ==
    /\ \A p \in Imports : pc[p] \notin {"fetch", "fetching"} /\ option[p] # "delete"
    /\ \A s \in Setters : pc[s] \in {"store", "storing"} \cup Ended
    /\ \A e \in Execs : pc[e] \in {"fetch", "fetching"} \cup Ended
    /\ \A c \in Clients :
          /\ pc[c] \in {"list", "listing", "check"} => done[c] = 0
          /\ pc[c] = "store" => done[c] <= Len(file[c])
          /\ pc[c] = "storing" => done[c] < Len(file[c])
          /\ pc[c] = "write" => done[c] = Len(file[c])
    /\ \A p \in Imports :
          unfit[p] # None => pc[p] \in {"list", "listing", "check", "refused", "killed"}

\* A request that somebody waits for is that client's present one.
Mailbox ==
    \A i \in 1..Len(backlog) :
        LET c == backlog[i].from IN
        c # None =>
            /\ pc[c] \in Awaiting
            /\ \A j \in 1..Len(backlog) : backlog[j].from = c => i = j
            /\ pc[c] # "storing" => backlog[i].op = "read"
            /\ pc[c] = "listing" => backlog[i].keys = Names
            /\ pc[c] = "storing" =>
                  /\ backlog[i].keys = {file[c][done[c] + 1]}
                  /\ backlog[i].op = IF option[c] = "delete" THEN "delete" ELSE "set"
                  /\ backlog[i].value = Stamp(c)

\* Some request that is queued sets k to v.
SetQueued(k, v) ==
    \E i \in 1..Len(backlog) :
        backlog[i].op = "set" /\ k \in backlog[i].keys /\ backlog[i].value = v

\* No key has the stamp of a run to come, or will get it from the queue.
Used(v) == v[2] <= run[v[1]]
Stamping ==
    /\ \A k \in Keys : db[k] \in Stamped => Used(db[k])
    /\ \A i \in 1..Len(backlog) : Used(backlog[i].value)

\* The keys that have a command's present stamp, or may yet get it.
Touched(c) == {k \in Keys : db[k] = Stamp(c) \/ SetQueued(k, Stamp(c))}

\* The keys up to the one that is being set.
Reached(c) == {file[c][i] : i \in 1..(done[c] + 1) \cap 1..Len(file[c])}

\* No set was made yet, and if unfit none will be.
Early(p) == pc[p] \in {"list", "listing", "check", "refused"} \/ unfit[p] # None

Progress ==
    \A p \in Imports : /\ Touched(p) \subseteq Reached(p)
                       /\ Early(p) => Touched(p) = {}

Inv == Types /\ Places /\ Mailbox /\ Stamping /\ Progress

-----------------------------------------------------------------------------
OneWriter ==
    \A c, d \in Writers : pc[c] \notin Ended /\ pc[d] \notin Ended => c = d

\* A manifest that was read is the one that is there; the edit was looked at.
ManifestOf(p) ==
    /\ pc[p] \notin Ended => text[p] = manifest
    /\ pc[p] \in {"store", "storing", "write"} =>
          \A i \in 1..Len(file[p]) : Edited(p)[file[p][i]] = file[p][i]

\* What earlier commands left in the queue is handled before the getprefix.
QuietOf(p) ==
    \A i \in 1..Len(backlog) :
        backlog[i].op # "read" =>
            /\ pc[p] = "listing" => \A j \in 1..Len(backlog) : backlog[j].from = p => i < j
            /\ pc[p] \notin {"check", "store", "write"}
            /\ pc[p] = "storing" => backlog[i].from = p

\* What the getprefix found is so until the sets, and what was set stays.
FoundOf(p) ==
    /\ pc[p] = "check" => \A n \in Names : got[p][n] = db[n]
    /\ pc[p] \in {"store", "storing", "write"} =>
          \A i \in 1..Len(file[p]) :
              /\ i <= done[p] => db[file[p][i]] = Stamp(p)
              /\ i > done[p] /\ option[p] = "plain" => db[file[p][i]] = None

\* A set of a plain import, waited for or not, goes to a key without a value.
PlainSets ==
    \A i \in 1..Len(backlog) :
        /\ backlog[i].op = "set"
        /\ backlog[i].value[1] \in Imports /\ backlog[i].value[3] = "plain"
        => \A k \in backlog[i].keys :
              /\ db[k] = None
              /\ \A j \in 1..(i - 1) : backlog[j].op = "set" => k \notin backlog[j].keys

SerialInv ==
    /\ OneWriter
    /\ \A p \in Imports : ManifestOf(p) /\ QuietOf(p) /\ FoundOf(p)
    /\ PlainSets
AllInv == Inv /\ SerialInv

\* No other command ever stored or deleted anything.
Sole(p) == \A c \in Writers \ {p} : run[c] = 0

Rested ==
    \A c \in Clients : /\ run[c] = 0 => pc[c] \in Ended
                       /\ pc[c] \in Ended => got[c] = NoValues

\* Nor has a command fetched the stamp of a run to come.
Fetched == \A c \in Clients : \A k \in Keys : got[c][k] \in Stamped => Used(got[c][k])

\* One request of an exec asks for all keys of the project's scope.
Scope(e) == {text[e][n] : n \in Names} \cap Names
AsksScope(e, keys) == keys \cap Names = {} \/ Scope(e) \subseteq keys
Scopes ==
    \A i \in 1..Len(backlog) :
        LET c == backlog[i].from IN
        c # None /\ pc[c] = "fetching" => AsksScope(c, backlog[i].keys)

\* What the only writer has stored stays, in this run and after it.
Settled(p) ==
    Sole(p) =>
        /\ \A i \in 1..Len(file[p]) : i <= done[p] => db[file[p][i]] = Stamp(p)
        /\ done[p] > 0 => \A i \in 1..Len(backlog) :
              backlog[i].op # "read" => backlog[i].op = "set" /\ backlog[i].value = Stamp(p)

SeenInOrder(e, p) ==
    Sole(p) => \A i, j \in 1..Len(file[p]) :
        i < j /\ {file[p][i], file[p][j]} \subseteq Scope(e) /\ got[e][file[p][j]] = Stamp(p)
        => got[e][file[p][i]] = Stamp(p)

OrderInv ==
    /\ Rested /\ Fetched /\ Scopes
    /\ \A p \in Imports : Settled(p) /\ \A e \in Execs : SeenInOrder(e, p)
-----------------------------------------------------------------------------
(* The operators of the model *)

LEMMA StampType ==
    ASSUME Types, NEW c \in Clients
    PROVE  /\ Stamp(c) \in Stamped
           /\ Stamp(c)[1] = c /\ Stamp(c)[2] = run[c] /\ Stamp(c)[3] = option[c]
           /\ Stamp(c) # None /\ Stamp(c) # Old
BY CommandsAssumption DEF Types, Stamp, Stamped, Old

LEMMA FileLists ==
    /\ \A f \in Files : f \in FileList
    /\ <<>> \in FileList
    /\ \A n \in Names : <<n>> \in FileList
    /\ \A f \in FileList :
          /\ f \in Seq(Names) /\ Len(f) \in Nat /\ DOMAIN f = 1..Len(f)
          /\ \A i \in 1..Len(f) : f[i] \in Names
BY FS_CardinalityType, CommandsAssumption DEF Files, FileList

\* The library's SetToSeq of a finite set is a sequence of its elements.
LEMMA SetToSeqType ==
    ASSUME NEW S, IsFiniteSet(S)
    PROVE  SetToSeq(S) \in Seq(S)
<1>1. Cardinality(S) \in Nat /\ Bijection(1..Cardinality(S), S) # {}
      BY FS_CardinalityType DEF ExistsBijection
<1>2. \E f \in [1..Cardinality(S) -> S] : IsInjective(f)
      BY <1>1 DEF Bijection, Injection
<1>3. SetToSeq(S) \in [1..Cardinality(S) -> S]
      BY <1>2 DEF SetToSeq
<1>4. QED
      BY <1>1, <1>3

\* The requests of get_many: single keys from elsewhere, then the scope.
LEMMA GetManyParts ==
    ASSUME NEW e \in Clients
    PROVE  \E raw \in Seq({{k} : k \in RawKeys}) :
              get_many(e) = raw \o (IF Scope(e) = {} THEN <<>> ELSE <<Scope(e)>>)
<1> DEFINE read == {text[e][n] : n \in Names}
           raw == (read \ {None}) \cap RawKeys
           single == {{k} : k \in raw}
<1>1. IsFiniteSet(read)
  <2>1. [n \in Names |-> text[e][n]] \in Surjection(Names, read)
        BY DEF Surjection
  <2>2. QED
        BY <2>1, FS_Surjection, CommandsAssumption
<1>2. IsFiniteSet(raw)
  <2>1. raw \in SUBSET read
        OBVIOUS
  <2>2. QED
        BY <1>1, <2>1, FS_Subset
<1>3. IsFiniteSet(single)
  <2>1. [k \in raw |-> {k}] \in Surjection(raw, single)
        BY DEF Surjection
  <2>2. QED
        BY <1>2, <2>1, FS_Surjection
<1>4. SetToSeq(single) \in Seq(single)
      BY <1>3, SetToSeqType
<1>5. single \subseteq {{k} : k \in RawKeys}
      OBVIOUS
<1>6. SetToSeq(single) \in Seq({{k} : k \in RawKeys})
      BY <1>4, <1>5
<1>7. (read \ {None}) \cap Names = Scope(e)
      BY CommandsAssumption DEF Scope, Keys
<1>8. get_many(e) = SetToSeq(single) \o (IF Scope(e) = {} THEN <<>> ELSE <<Scope(e)>>)
      BY <1>7 DEF get_many
<1>9. QED
      BY <1>6, <1>8

\* Each of them asks for some keys, and for all of the scope or none of it.
LEMMA GetManyType ==
    ASSUME NEW e \in Clients
    PROVE  /\ get_many(e) \in Seq(SUBSET Keys)
           /\ \A i \in 1..Len(get_many(e)) : AsksScope(e, get_many(e)[i])
<1>1. PICK raw \in Seq({{k} : k \in RawKeys}) :
              get_many(e) = raw \o (IF Scope(e) = {} THEN <<>> ELSE <<Scope(e)>>)
      BY GetManyParts
<1>2. Scope(e) \in SUBSET Keys /\ {{k} : k \in RawKeys} \subseteq SUBSET Keys
      BY DEF Scope, Keys
<1>3. /\ raw \in Seq(SUBSET Keys)
      /\ \A i \in 1..Len(raw) : raw[i] \cap Names = {}
  <2>1. \A s \in {{k} : k \in RawKeys} : s \cap Names = {}
        BY CommandsAssumption
  <2>2. QED
        BY <1>2, <2>1
<1>4. CASE Scope(e) = {}
  <2>1. raw \o <<>> = raw
        OBVIOUS
  <2>2. get_many(e) = raw
        BY <1>1, <1>4, <2>1
  <2>3. QED
        BY <1>3, <2>2 DEF AsksScope
<1>5. CASE Scope(e) # {}
  <2>1. get_many(e) = raw \o <<Scope(e)>>
        BY <1>1, <1>5
  <2>2. /\ raw \o <<Scope(e)>> \in Seq(SUBSET Keys)
        /\ Len(raw \o <<Scope(e)>>) = Len(raw) + 1
        /\ \A i \in 1..(Len(raw) + 1) :
              (raw \o <<Scope(e)>>)[i] = IF i <= Len(raw) THEN raw[i] ELSE Scope(e)
        BY <1>2, <1>3
  <2>3. \A i \in 1..(Len(raw) + 1) : i <= Len(raw) => i \in 1..Len(raw)
        OBVIOUS
  <2>4. QED
        BY <1>3, <2>1, <2>2, <2>3 DEF AsksScope
<1>6. QED
      BY <1>4, <1>5

LEMMA RequestType ==
    ASSUME Types, NEW c \in Clients, pc[c] \in Sending, MaySend(c)
    PROVE  /\ Request(c) \in Queueable
           /\ Request(c).from = c /\ Request(c).value = Stamp(c)
           /\ pc[c] = "list" => Request(c).op = "read" /\ Request(c).keys = Names
           /\ pc[c] = "fetch" => Request(c).op = "read"
           /\ pc[c] = "store" =>
                 /\ Request(c).op = IF option[c] = "delete" THEN "delete" ELSE "set"
                 /\ Request(c).keys = {file[c][done[c] + 1]}
                 /\ done[c] < Len(file[c])
<1>1. CASE pc[c] = "list"
      BY <1>1, StampType DEF Request, Queueable, Keys
<1>2. CASE pc[c] = "fetch"
  <2>1. done[c] < Len(get_many(c)) /\ done[c] \in Nat
        BY <1>2 DEF MaySend, Types
  <2>2. get_many(c)[done[c] + 1] \in SUBSET Keys
        BY <2>1, GetManyType
  <2>3. QED
        BY <1>2, <2>2, StampType DEF Request, Queueable
<1>3. CASE pc[c] = "store"
  <2>1. done[c] < Len(file[c]) /\ done[c] \in Nat /\ file[c] \in FileList
        BY <1>3 DEF MaySend, Types
  <2>2. file[c][done[c] + 1] \in Keys
        BY <2>1, FileLists DEF Keys
  <2>3. QED
        BY <1>3, <2>1, <2>2, StampType DEF Request, Queueable
<1>4. QED
      BY <1>1, <1>2, <1>3 DEF Sending

-----------------------------------------------------------------------------
(* One command moves, the queue is appended to or served *)

\* A step concerns at most client c.
Alone(c) ==
    \A d \in Clients \ {c} :
        /\ pc'[d] = pc[d] /\ run'[d] = run[d] /\ option'[d] = option[d]
        /\ file'[d] = file[d] /\ unfit'[d] = unfit[d] /\ text'[d] = text[d]
        /\ got'[d] = got[d] /\ done'[d] = done[d]

LocalTypes ==
    /\ pc' \in [Clients -> PlaceNames]
    /\ option' \in [Clients -> Options]
    /\ file' \in [Clients -> FileList]
    /\ unfit' \in [Clients -> Names \cup {None}]
    /\ text' \in [Clients -> [Names -> Keys \cup {None}]]
    /\ got' \in [Clients -> [Keys -> DbValues]]

LEMMA GotoEffect ==
    ASSUME Types, NEW c \in Clients, NEW place \in PlaceNames,
           NEW values \in [Keys -> DbValues], Goto(c, place, values)
    PROVE  /\ LocalTypes
           /\ \A d \in Clients \ {c} :
                 /\ pc'[d] = pc[d] /\ option'[d] = option[d] /\ file'[d] = file[d]
                 /\ unfit'[d] = unfit[d] /\ text'[d] = text[d] /\ got'[d] = got[d]
           /\ pc'[c] = place
           /\ c \in Imports =>
                 /\ option'[c] = option[c]
                 /\ place # "refused" => file'[c] = file[c] /\ unfit'[c] = unfit[c]
                 /\ place = "refused" => unfit'[c] = None
           /\ place \notin Ended =>
                 /\ file'[c] = file[c] /\ unfit'[c] = unfit[c] /\ text'[c] = text[c]
                 /\ got'[c] = values /\ option'[c] = option[c]
           /\ unfit'[c] \in {unfit[c], None}
           /\ option'[c] \in {option[c], "plain"}
<1>1. NoEntries \in [Names -> Keys \cup {None}] /\ NoValues \in [Keys -> DbValues]
      BY DEF NoEntries, NoValues, DbValues
<1>2. /\ pc' = [pc EXCEPT ![c] = place]
      /\ got' = [got EXCEPT ![c] = IF place \in Ended THEN NoValues ELSE values]
      /\ text' = [text EXCEPT ![c] = IF place \in Ended THEN NoEntries ELSE @]
      /\ file' = [file EXCEPT ![c] = IF place \in Ended /\ (c \notin Imports \/ place = "refused")
                                     THEN <<>> ELSE @]
      /\ unfit' = [unfit EXCEPT ![c] = IF place \in Ended /\ (c \notin Imports \/ place = "refused")
                                       THEN None ELSE @]
      /\ option' = [option EXCEPT ![c] = IF place \in Ended /\ c \notin Imports
                                         THEN "plain" ELSE @]
      BY DEF Goto, Types
<1>3. LocalTypes
      BY <1>1, <1>2, FileLists DEF LocalTypes, Types, Options
<1>4. QED
      BY <1>2, <1>3 DEF Types, Ended

\* backlog' is what is left of backlog from its entry s + 1 on; nobody new waits.
Remains(s) ==
    /\ backlog' \in Seq(Queueable)
    /\ \A i \in 1..Len(backlog') :
          /\ i + s \in 1..Len(backlog)
          /\ backlog'[i].op = backlog[i + s].op
          /\ backlog'[i].keys = backlog[i + s].keys
          /\ backlog'[i].value = backlog[i + s].value
          /\ backlog'[i].from \in {backlog[i + s].from, None}

LEMMA QueueType ==
    ASSUME Types
    PROVE  /\ Len(backlog) \in Nat /\ DOMAIN backlog = 1..Len(backlog)
           /\ \A i \in 1..Len(backlog) :
                 /\ backlog[i] \in Queueable
                 /\ backlog[i].from \in Clients \cup {None}
                 /\ backlog[i].keys \subseteq Keys
                 /\ backlog[i].op \in {"read", "set", "delete"}
                 /\ backlog[i].value \in Stamped
<1>1. backlog \in Seq(Queueable)
      BY DEF Types
<1>2. \A r \in Queueable : /\ r.from \in Clients \cup {None} /\ r.keys \subseteq Keys
                           /\ r.op \in {"read", "set", "delete"} /\ r.value \in Stamped
      BY DEF Queueable
<1>3. \A i \in 1..Len(backlog) : backlog[i] \in Queueable
      BY <1>1
<1>4. QED
      BY <1>1, <1>2, <1>3

LEMMA SameQueue ==
    ASSUME Types, UNCHANGED backlog
    PROVE  Remains(0)
BY QueueType DEF Remains, Types

LEMMA AbandonedQueue ==
    ASSUME Types, NEW c \in Clients, backlog' = Abandoned(c)
    PROVE  /\ Remains(0)
           /\ \A i \in 1..Len(backlog') :
                 /\ backlog'[i].from # c
                 /\ backlog[i].from # c => backlog'[i].from = backlog[i].from
<1>1. \A r \in Queueable :
          /\ [r EXCEPT !.from = None] \in Queueable
          /\ [r EXCEPT !.from = None].from = None
          /\ [r EXCEPT !.from = None].op = r.op
          /\ [r EXCEPT !.from = None].keys = r.keys
          /\ [r EXCEPT !.from = None].value = r.value
      BY DEF Queueable
<1>2. backlog' = [i \in 1..Len(backlog) |->
          IF backlog[i].from = c THEN [backlog[i] EXCEPT !.from = None] ELSE backlog[i]]
      BY QueueType DEF Abandoned
<1>3. /\ backlog' \in Seq(Queueable) /\ Len(backlog') = Len(backlog)
      /\ \A i \in 1..Len(backlog) :
            backlog'[i] = IF backlog[i].from = c THEN [backlog[i] EXCEPT !.from = None]
                          ELSE backlog[i]
      BY <1>1, <1>2, QueueType
<1>4. None # c
      BY CommandsAssumption
<1>5. ASSUME NEW i \in 1..Len(backlog')
      PROVE  /\ i + 0 = i /\ i \in 1..Len(backlog)
             /\ backlog'[i].op = backlog[i].op /\ backlog'[i].keys = backlog[i].keys
             /\ backlog'[i].value = backlog[i].value
             /\ backlog'[i].from \in {backlog[i].from, None}
             /\ backlog'[i].from # c
             /\ backlog[i].from # c => backlog'[i].from = backlog[i].from
  <2>1. i \in 1..Len(backlog) /\ i + 0 = i /\ backlog[i] \in Queueable
        BY <1>3, QueueType
  <2>2. CASE backlog[i].from = c
    <3>1. backlog'[i] = [backlog[i] EXCEPT !.from = None]
          BY <1>3, <2>1, <2>2
    <3>2. QED
          BY <1>1, <1>4, <2>1, <2>2, <3>1
  <2>3. CASE backlog[i].from # c
        BY <1>3, <2>1, <2>3
  <2>4. QED
        BY <2>2, <2>3
<1>6. QED
      BY <1>3, <1>5 DEF Remains

LEMMA TailQueue ==
    ASSUME Types, backlog # <<>>, backlog' = Tail(backlog)
    PROVE  /\ Remains(1)
           /\ 1 \in 1..Len(backlog) /\ Head(backlog) = backlog[1]
           /\ \A i \in 1..Len(backlog') : backlog'[i] = backlog[i + 1]
<1>1. backlog \in Seq(Queueable) /\ Len(backlog) \in Nat /\ Len(backlog) # 0
      BY QueueType, EmptySeq DEF Types
<1>2. /\ backlog' \in Seq(Queueable) /\ Len(backlog') = Len(backlog) - 1
      /\ \A i \in 1..Len(backlog') : backlog'[i] = backlog[i + 1]
      BY <1>1
<1>3. QED
      BY <1>1, <1>2, QueueType DEF Remains

LEMMA EmptiedQueue == backlog' = <<>> => Remains(0)
BY DEF Remains

\* Nothing is set by what remains that was not to be set before.
LEMMA RemainsSets ==
    ASSUME Types, NEW s \in Nat, Remains(s), NEW k, NEW v,
           \E i \in 1..Len(backlog') :
               backlog'[i].op = "set" /\ k \in backlog'[i].keys /\ backlog'[i].value = v
    PROVE  SetQueued(k, v)
BY DEF Remains, SetQueued

LEMMA MoveKeeps ==
    ASSUME Inv, Types', NEW c \in Clients \cup {None}, Alone(c), UNCHANGED run,
           NEW s \in Nat, Remains(s),
           c \in Clients => \A i \in 1..Len(backlog') : backlog'[i].from # c,
           \A k \in Keys : db'[k] \in {db[k], None} \/ SetQueued(k, db'[k])
    PROVE  /\ Mailbox' /\ Stamping'
           /\ \A p \in Imports : option'[p] = option[p] => Touched(p)' \subseteq Touched(p)
<1> USE DEF Inv
<1>1. ASSUME NEW i \in 1..Len(backlog'), NEW d, d = backlog'[i].from, d # None
      PROVE  /\ d \in Clients \ {c} /\ i + s \in 1..Len(backlog)
             /\ backlog[i + s].from = d
             /\ backlog'[i].op = backlog[i + s].op
             /\ backlog'[i].keys = backlog[i + s].keys
             /\ backlog'[i].value = backlog[i + s].value
             /\ Stamp(d)' = Stamp(d)
  <2>1. i + s \in 1..Len(backlog) /\ backlog[i + s].from = d
        BY <1>1 DEF Remains
  <2>2. d \in Clients \ {c}
        BY <1>1, <2>1, QueueType
  <2>3. Stamp(d)' = Stamp(d)
        BY <2>2 DEF Alone, Stamp
  <2>4. QED
        BY <2>1, <2>2, <2>3 DEF Remains
<1>2. Mailbox'
  <2> SUFFICES ASSUME NEW i \in 1..Len(backlog'), NEW d, d = backlog'[i].from, d # None
      PROVE  /\ pc'[d] \in Awaiting
             /\ \A j \in 1..Len(backlog') : backlog'[j].from = d => i = j
             /\ pc'[d] # "storing" => backlog'[i].op = "read"
             /\ pc'[d] = "listing" => backlog'[i].keys = Names
             /\ pc'[d] = "storing" =>
                  /\ backlog'[i].keys = {file'[d][done'[d] + 1]}
                  /\ backlog'[i].op = IF option'[d] = "delete" THEN "delete" ELSE "set"
                  /\ backlog'[i].value = Stamp(d)'
      BY DEF Mailbox
  <2>1. /\ d \in Clients \ {c} /\ i + s \in 1..Len(backlog)
        /\ backlog[i + s].from = d
        /\ backlog'[i].op = backlog[i + s].op
        /\ backlog'[i].keys = backlog[i + s].keys
        /\ backlog'[i].value = backlog[i + s].value
        /\ Stamp(d)' = Stamp(d)
        BY <1>1
  <2>2. /\ pc'[d] = pc[d] /\ file'[d] = file[d] /\ done'[d] = done[d]
        /\ option'[d] = option[d]
        BY <2>1 DEF Alone
  <2>3. /\ pc[d] \in Awaiting
        /\ \A j \in 1..Len(backlog) : backlog[j].from = d => i + s = j
        /\ pc[d] # "storing" => backlog[i + s].op = "read"
        /\ pc[d] = "listing" => backlog[i + s].keys = Names
        /\ pc[d] = "storing" =>
              /\ backlog[i + s].keys = {file[d][done[d] + 1]}
              /\ backlog[i + s].op = IF option[d] = "delete" THEN "delete" ELSE "set"
              /\ backlog[i + s].value = Stamp(d)
        BY <2>1 DEF Mailbox
  <2>4. ASSUME NEW j \in 1..Len(backlog'), backlog'[j].from = d
        PROVE  i = j
    <3>1. j + s \in 1..Len(backlog) /\ backlog[j + s].from = d
          BY <1>1, <2>4
    <3>2. i + s = j + s
          BY <2>3, <3>1
    <3>3. QED
          BY <3>2, QueueType
  <2>5. QED
        BY <2>1, <2>2, <2>3, <2>4
<1>3. Stamping'
  <2>1. ASSUME NEW k \in Keys, db'[k] \in Stamped
        PROVE  db'[k][2] <= run'[db'[k][1]]
    <3>1. CASE db'[k] = db[k]
          BY <2>1, <3>1 DEF Stamping, Used
    <3>2. CASE SetQueued(k, db'[k])
          BY <3>2 DEF SetQueued, Stamping, Used
    <3>3. db'[k] # None
          BY <2>1, CommandsAssumption DEF Stamped
    <3>4. QED
          BY <3>1, <3>2, <3>3
  <2>2. ASSUME NEW i \in 1..Len(backlog')
        PROVE  backlog'[i].value[2] <= run'[backlog'[i].value[1]]
        BY DEF Remains, Stamping, Used
  <2>3. QED
        BY <2>1, <2>2 DEF Stamping, Used
<1>4. ASSUME NEW p \in Imports, option'[p] = option[p],
             NEW k \in Touched(p)'
      PROVE  k \in Touched(p)
  <2>1. p \in Clients /\ k \in Keys
        BY DEF Touched, Clients
  <2>2. Stamp(p)' = Stamp(p)
        BY <1>4 DEF Stamp
  <2>3. CASE db'[k] = Stamp(p)
        BY <2>1, <2>3, StampType DEF Touched
  <2>4. CASE SetQueued(k, Stamp(p))'
    <3>1. \E i \in 1..Len(backlog') :
             backlog'[i].op = "set" /\ k \in backlog'[i].keys /\ backlog'[i].value = Stamp(p)
          BY <2>2, <2>4 DEF SetQueued
    <3>2. SetQueued(k, Stamp(p))
          BY <3>1, RemainsSets
    <3>3. QED
          BY <2>1, <3>2 DEF Touched
  <2>5. QED
        BY <1>4, <2>2, <2>3, <2>4 DEF Touched
<1>5. QED
      BY <1>2, <1>3, <1>4

LEMMA ProgressKeeps ==
    ASSUME Inv, NEW c \in Clients \cup {None}, Alone(c),
           \A p \in Imports : Touched(p)' \subseteq Touched(p),
           c \in Imports =>
               /\ Reached(c) \subseteq Reached(c)' \/ Touched(c) = {}
               /\ Early(c)' => Early(c)
    PROVE  Progress'
<1>1. ASSUME NEW p \in Imports, p # c
      PROVE  Reached(p)' = Reached(p) /\ Early(p)' = Early(p)
      BY <1>1 DEF Alone, Clients, Reached, Early
<1>2. QED
      BY <1>1 DEF Inv, Progress

-----------------------------------------------------------------------------
(* The steps, for commands that overlap *)

LEMMA InvInit == Init => Inv
<1> SUFFICES ASSUME Init PROVE Inv
    OBVIOUS
<1>1. Len(backlog) = 0 /\ backlog \in Seq(Queueable)
      BY DEF Init
<1>2. Types
      BY <1>1, FileLists DEF Init, Types, NoEntries, NoValues, DbValues, PlaceNames,
         Ended, Options, Keys
<1>3. Places /\ Mailbox
      BY <1>1 DEF Init, Places, Mailbox, Ended, Clients
<1>4. \A k \in Keys : db[k] \in {Old, None}
      BY DEF Init
<1>5. \A v \in Stamped : v # Old /\ v # None
      BY CommandsAssumption DEF Stamped, Old
<1>6. Stamping
      BY <1>1, <1>4, <1>5 DEF Stamping
<1>7. Progress
      BY <1>1, <1>2, <1>4, StampType DEF Progress, Touched, SetQueued, Clients
<1>8. QED
      BY <1>2, <1>3, <1>6, <1>7 DEF Inv

\* What a command does first: it is refused, or goes on with what it read.
LEMMA StartEffect ==
    ASSUME Inv, NEW c \in Clients, Start(c)
    PROVE  /\ pc[c] \in Ended
           /\ run' = [run EXCEPT ![c] = @ + 1] /\ done' = [done EXCEPT ![c] = 0]
           /\ UNCHANGED <<manifest, db, backlog, got>>
           /\ LocalTypes
           /\ \A d \in Clients \ {c} :
                 /\ pc'[d] = pc[d] /\ option'[d] = option[d] /\ file'[d] = file[d]
                 /\ unfit'[d] = unfit[d] /\ text'[d] = text[d]
           /\ c \in Imports => /\ pc'[c] \in {"refused", "list"}
                               /\ option'[c] \in {"plain", "overwrite"}
           /\ c \in Setters => pc'[c] \in {"refused", "store"}
           /\ c \in Execs => pc'[c] \in {"refused", "fetch"}
           /\ pc'[c] = "refused" \/ text'[c] = manifest
<1>1. /\ Begin(c)
      /\ \/ Unresolved(c)
         \/ \E opt \in Options, f \in FileList, bad \in Names \cup {None}, next \in Sending :
               /\ Resolved(c, opt, f, bad, next)
               /\ c \in Imports => opt \in {"plain", "overwrite"} /\ next = "list"
               /\ c \in Setters => next = "store"
               /\ c \in Execs => next = "fetch"
  <2>1. CASE c \in Imports /\ cmd_import(c)
        BY <2>1, FileLists, CommandsAssumption DEF cmd_import, Range, Sending, Options
  <2>2. CASE c \in Setters /\ (cmd_set(c) \/ cmd_delete(c))
        BY <2>2, FileLists, CommandsAssumption DEF cmd_set, cmd_delete, Sending, Options
  <2>3. CASE c \in Execs /\ cmd_exec(c)
        BY <2>3, FileLists, CommandsAssumption DEF cmd_exec, Sending, Options
  <2>4. QED
        BY <2>1, <2>2, <2>3 DEF Start
<1>2. CASE Unresolved(c)
      BY <1>1, <1>2, FileLists DEF Begin, Unresolved, Inv, Types, LocalTypes, PlaceNames,
         Ended, Options
<1>3. CASE ~Unresolved(c)
  <2>1. PICK opt \in Options, f \in FileList, bad \in Names \cup {None}, next \in Sending :
               /\ Resolved(c, opt, f, bad, next)
               /\ c \in Imports => opt \in {"plain", "overwrite"} /\ next = "list"
               /\ c \in Setters => next = "store"
               /\ c \in Execs => next = "fetch"
        BY <1>1, <1>3
  <2>2. LocalTypes
        BY <1>1, <2>1 DEF Begin, Resolved, Inv, Types, LocalTypes, PlaceNames
  <2>3. QED
        BY <1>1, <2>1, <2>2 DEF Begin, Resolved, Inv, Types
<1>4. QED
      BY <1>2, <1>3

LEMMA StartKeeps ==
    ASSUME Inv, NEW c \in Clients, Start(c)
    PROVE  Inv'
<1> USE DEF Inv
<1>1. /\ pc[c] \in Ended
      /\ run' = [run EXCEPT ![c] = @ + 1] /\ done' = [done EXCEPT ![c] = 0]
      /\ UNCHANGED <<manifest, db, backlog, got>>
      /\ LocalTypes
      /\ \A d \in Clients \ {c} :
            /\ pc'[d] = pc[d] /\ option'[d] = option[d] /\ file'[d] = file[d]
            /\ unfit'[d] = unfit[d] /\ text'[d] = text[d]
      /\ c \in Imports => /\ pc'[c] \in {"refused", "list"}
                          /\ option'[c] \in {"plain", "overwrite"}
      /\ c \in Setters => pc'[c] \in {"refused", "store"}
      /\ c \in Execs => pc'[c] \in {"refused", "fetch"}
      BY StartEffect
<1>2. Types'
      BY <1>1 DEF Types, LocalTypes
<1>3. Places'
  <2>1. done'[c] = 0 /\ Len(file'[c]) \in Nat /\ pc'[c] \in {"refused", "list", "store", "fetch"}
        BY <1>1, <1>2, FileLists DEF Types, Clients
  <2>2. \A d \in Clients \ {c} : done'[d] = done[d]
        BY <1>1 DEF Types
  <2>3. QED
        BY <1>1, <2>1, <2>2, CommandsAssumption DEF Places, Clients, Ended
<1>4. \A d \in Clients \ {c} : Stamp(d)' = Stamp(d) /\ done'[d] = done[d]
      BY <1>1 DEF Stamp, Types
<1>5. \A i \in 1..Len(backlog) : backlog[i].from # c
      BY <1>1, CommandsAssumption DEF Mailbox, Ended, Awaiting
<1>6. Mailbox'
  <2> SUFFICES ASSUME NEW i \in 1..Len(backlog), NEW d, d = backlog[i].from, d # None
      PROVE  /\ pc'[d] \in Awaiting
             /\ \A j \in 1..Len(backlog) : backlog[j].from = d => i = j
             /\ pc'[d] # "storing" => backlog[i].op = "read"
             /\ pc'[d] = "listing" => backlog[i].keys = Names
             /\ pc'[d] = "storing" =>
                  /\ backlog[i].keys = {file'[d][done'[d] + 1]}
                  /\ backlog[i].op = IF option'[d] = "delete" THEN "delete" ELSE "set"
                  /\ backlog[i].value = Stamp(d)'
      BY <1>1 DEF Mailbox
  <2>1. d \in Clients \ {c}
        BY <1>5, QueueType
  <2>2. QED
        BY <1>1, <1>4, <2>1 DEF Mailbox
<1>7. \A v \in Stamped : Used(v) => v[2] <= run'[v[1]]
      BY <1>1 DEF Used, Stamped, Types
<1>8. Stamping'
      BY <1>1, <1>7, QueueType DEF Stamping, Used
<1>9. Progress'
  <2>1. ASSUME NEW p \in Imports, p # c
        PROVE  Touched(p)' = Touched(p) /\ Reached(p)' = Reached(p) /\ Early(p)' = Early(p)
        BY <1>1, <1>4, <2>1 DEF Touched, SetQueued, Reached, Early, Clients
  <2>2. Stamp(c)' \in Stamped /\ Stamp(c)'[1] = c /\ Stamp(c)'[2] = run[c] + 1 /\ run[c] \in Nat
        BY <1>1, <1>2 DEF Stamp, Stamped, Types
  <2>3. ~Used(Stamp(c)')
        BY <2>2 DEF Used
  <2>4. \A k \in Keys : db[k] # Stamp(c)' /\ ~\E i \in 1..Len(backlog) : backlog[i].value = Stamp(c)'
        BY <2>2, <2>3 DEF Stamping
  <2>5. Touched(c)' = {}
        BY <1>1, <2>4 DEF Touched, SetQueued
  <2>6. QED
        BY <2>1, <2>5 DEF Progress
<1>10. QED
      BY <1>2, <1>3, <1>6, <1>8, <1>9

LEMMA SendKeeps ==
    ASSUME Inv, NEW c \in Clients, Send(c)
    PROVE  Inv'
<1> USE DEF Inv
<1> DEFINE r == Request(c)
<1>1. /\ pc[c] \in Sending /\ MaySend(c)
      /\ pc' = [pc EXCEPT ![c] = Awaits[pc[c]]]
      /\ UNCHANGED <<manifest, db, run, option, file, unfit, text, got, done>>
      BY DEF Send
<1>2. /\ r \in Queueable /\ r.from = c /\ r.value = Stamp(c)
      /\ pc[c] = "list" => r.op = "read" /\ r.keys = Names
      /\ pc[c] = "fetch" => r.op = "read"
      /\ pc[c] = "store" => /\ r.op = IF option[c] = "delete" THEN "delete" ELSE "set"
                            /\ r.keys = {file[c][done[c] + 1]}
                            /\ done[c] < Len(file[c])
      BY <1>1, RequestType
<1> HIDE DEF r
<1>3. /\ backlog' \in Seq(Queueable) /\ Len(backlog') = Len(backlog) + 1
      /\ \A i \in 1..Len(backlog) : backlog'[i] = backlog[i]
      /\ backlog'[Len(backlog) + 1] = r
      BY <1>2, AppendProperties DEF Send, Types, r
<1>4. \/ pc[c] = "list" /\ pc'[c] = "listing"
      \/ pc[c] = "fetch" /\ pc'[c] = "fetching"
      \/ pc[c] = "store" /\ pc'[c] = "storing"
      BY <1>1 DEF Sending, Awaits, Types
<1>5. \A d \in Clients \ {c} : pc'[d] = pc[d]
      BY <1>1 DEF Types
<1>6. \A d \in Clients : Stamp(d)' = Stamp(d)
      BY <1>1 DEF Stamp
<1>7. Types'
      BY <1>1, <1>3, <1>4 DEF Types, PlaceNames, Awaiting
<1>8. Places'
      BY <1>1, <1>2, <1>4, <1>5 DEF Places, Clients, Ended
<1>9. Mailbox'
  <2> SUFFICES ASSUME NEW i \in 1..Len(backlog'), NEW d, d = backlog'[i].from, d # None
      PROVE  /\ pc'[d] \in Awaiting
             /\ \A j \in 1..Len(backlog') : backlog'[j].from = d => i = j
             /\ pc'[d] # "storing" => backlog'[i].op = "read"
             /\ pc'[d] = "listing" => backlog'[i].keys = Names
             /\ pc'[d] = "storing" =>
                  /\ backlog'[i].keys = {file'[d][done'[d] + 1]}
                  /\ backlog'[i].op = IF option'[d] = "delete" THEN "delete" ELSE "set"
                  /\ backlog'[i].value = Stamp(d)'
      BY DEF Mailbox
  <2>1. \A j \in 1..Len(backlog) : backlog[j].from # c
        BY <1>1, CommandsAssumption DEF Mailbox, Sending, Awaiting
  <2>2. CASE i = Len(backlog) + 1
    <3>1. d = c /\ backlog'[i] = r
          BY <1>2, <1>3, <2>2
    <3>2. \A j \in 1..Len(backlog') : backlog'[j].from = c => i = j
          BY <1>3, <2>1, <2>2, QueueType
    <3>3. QED
          BY <1>1, <1>2, <1>4, <1>6, <3>1, <3>2 DEF Awaiting
  <2>3. CASE i # Len(backlog) + 1
    <3>1. i \in 1..Len(backlog) /\ backlog'[i] = backlog[i] /\ d = backlog[i].from
          BY <1>3, <2>3, QueueType
    <3>2. d \in Clients \ {c}
          BY <2>1, <3>1, QueueType
    <3>3. \A j \in 1..Len(backlog') : backlog'[j].from = d => j \in 1..Len(backlog)
          BY <1>2, <1>3, <3>2, QueueType
    <3>4. \A j \in 1..Len(backlog') : backlog'[j].from = d => i = j
          BY <1>3, <3>1, <3>2, <3>3 DEF Mailbox
    <3>5. QED
          BY <1>1, <1>5, <1>6, <3>1, <3>2, <3>4 DEF Mailbox
  <2>4. QED
        BY <2>2, <2>3
<1>10. Stamping'
  <2>1. Used(Stamp(c))
        BY StampType DEF Used, Types
  <2>2. \A i \in 1..Len(backlog') : Used(backlog'[i].value)
        BY <1>2, <1>3, <2>1, QueueType DEF Stamping
  <2>3. QED
        BY <1>1, <2>2 DEF Stamping, Used
<1>11. Progress'
  <2>1. ASSUME NEW k, NEW v, SetQueued(k, v)', ~SetQueued(k, v)
        PROVE  r.op = "set" /\ k \in r.keys /\ v = Stamp(c)
        BY <1>2, <1>3, <2>1, QueueType DEF SetQueued
  <2>2. ASSUME NEW p \in Imports, NEW k \in Touched(p)', k \notin Touched(p)
        PROVE  p = c /\ pc[c] = "store" /\ k = file[c][done[c] + 1]
    <3>1. p \in Clients /\ k \in Keys /\ Stamp(p)' = Stamp(p) /\ db'[k] = db[k]
          BY <1>1, <1>6 DEF Touched, Clients
    <3>2. SetQueued(k, Stamp(p))' /\ ~SetQueued(k, Stamp(p))
          BY <2>2, <3>1 DEF Touched
    <3>3. \E i \in 1..Len(backlog') :
             backlog'[i].op = "set" /\ k \in backlog'[i].keys /\ backlog'[i].value = Stamp(p)
          BY <3>1, <3>2 DEF SetQueued
    <3>4. r.op = "set" /\ k \in r.keys /\ Stamp(p) = Stamp(c)
          BY <1>2, <1>3, <3>2, <3>3, QueueType DEF SetQueued
    <3>5. p = c
          BY <3>1, <3>4, StampType
    <3>6. QED
          BY <1>2, <1>4, <3>4, <3>5
  <2>3. \A p \in Imports : Reached(p)' = Reached(p)
        BY <1>1 DEF Reached
  <2>4. ASSUME NEW p \in Imports, Early(p)'
        PROVE  Early(p) /\ (p = c => pc[c] # "store")
        BY <1>1, <1>4, <1>5, <2>4 DEF Early, Places, Clients
  <2>5. pc[c] = "store" /\ c \in Imports => file[c][done[c] + 1] \in Reached(c)
    <3> HAVE pc[c] = "store" /\ c \in Imports
    <3>1. done[c] \in Nat /\ Len(file[c]) \in Nat /\ done[c] < Len(file[c])
          BY <1>2, FileLists DEF Types
    <3>2. done[c] + 1 \in 1..(done[c] + 1) \cap 1..Len(file[c])
          BY <3>1
    <3>3. QED
          BY <3>2 DEF Reached
  <2>6. QED
        BY <2>2, <2>3, <2>4, <2>5 DEF Progress
<1>12. QED
      BY <1>7, <1>8, <1>9, <1>10, <1>11

\* A command goes on, or ends, with no request of its own left in the queue.
LEMMA GotoKeeps ==
    ASSUME Inv, NEW c \in Clients, NEW place \in PlaceNames \ Awaiting,
           NEW values \in [Keys -> DbValues], Goto(c, place, values), UNCHANGED run,
           manifest' \in [Names -> Keys \cup {None}],
           db' \in [Keys -> DbValues],
           \A k \in Keys : db'[k] \in {db[k], None} \/ SetQueued(k, db'[k]),
           NEW s \in Nat, Remains(s), \A i \in 1..Len(backlog') : backlog'[i].from # c,
           done' \in [Clients -> Nat], done[c] <= done'[c],
           \A d \in Clients \ {c} : done'[d] = done[d],
           c \in Imports => place \notin {"fetch"},
           c \in Setters => place \in {"store"} \cup Ended,
           c \in Execs => place \in {"fetch"} \cup Ended,
           place \in {"list", "check"} => done'[c] = 0,
           place = "store" => done'[c] <= Len(file[c]),
           place = "write" => done'[c] = Len(file[c]),
           c \in Imports /\ unfit[c] # None => place \in {"list", "check", "refused", "killed"},
           c \in Imports /\ place \in {"list", "check", "refused"} => Early(c)
    PROVE  Inv'
<1> USE DEF Inv
<1>1. /\ LocalTypes
      /\ \A d \in Clients \ {c} :
            /\ pc'[d] = pc[d] /\ option'[d] = option[d] /\ file'[d] = file[d]
            /\ unfit'[d] = unfit[d] /\ text'[d] = text[d] /\ got'[d] = got[d]
      /\ pc'[c] = place
      /\ c \in Imports =>
            /\ option'[c] = option[c]
            /\ place # "refused" => file'[c] = file[c] /\ unfit'[c] = unfit[c]
            /\ place = "refused" => unfit'[c] = None
      /\ place \notin Ended => file'[c] = file[c]
      BY GotoEffect
<1>2. Types'
      BY <1>1 DEF Types, LocalTypes, Remains
<1>3. Alone(c)
      BY <1>1 DEF Alone
<1>4. Mailbox' /\ Stamping' /\ \A p \in Imports : Touched(p)' \subseteq Touched(p)
      BY <1>1, <1>2, <1>3, MoveKeeps DEF Clients
<1>5. Places'
      BY <1>1 DEF Places, Clients, Ended, Awaiting
<1>6. c \in Imports => Reached(c) \subseteq Reached(c)' \/ Touched(c) = {}
  <2>1. CASE place = "refused"
        BY <2>1 DEF Progress
  <2>2. CASE place # "refused"
        BY <1>1, <1>2, <2>2, FileLists DEF Reached, Types
  <2>3. QED
        BY <2>1, <2>2
<1>7. c \in Imports /\ Early(c)' => Early(c)
      BY <1>1 DEF Early, Awaiting
<1>8. Progress'
      BY <1>3, <1>4, <1>6, <1>7, ProgressKeeps
<1>9. QED
      BY <1>2, <1>4, <1>5, <1>8

\* RequestNotSent, GiveUp and Interrupt: what is queued may still be handled.
LEMMA QuitKeeps ==
    ASSUME Inv, NEW c \in Clients, RequestNotSent(c) \/ GiveUp(c) \/ Interrupt(c)
    PROVE  Inv'
<1> USE DEF Inv
<1>1. NoValues \in [Keys -> DbValues]
      BY DEF NoValues, DbValues
<1>2. PICK place \in {"refused", "partial", "killed"} :
           /\ Goto(c, place, NoValues)
           /\ UNCHANGED <<manifest, db, run, done>>
           /\ place = "partial" <=> place # "killed" /\ pc[c] \in {"store", "storing"}
           /\ place = "refused" => pc[c] \in {"list", "listing", "fetch", "fetching"}
      BY DEF RequestNotSent, GiveUp, Interrupt, Failure, Sending, Awaiting
<1>3. Remains(0) /\ \A i \in 1..Len(backlog') : backlog'[i].from # c
  <2>1. CASE RequestNotSent(c)
        BY <2>1, SameQueue, CommandsAssumption DEF RequestNotSent, Mailbox, Sending, Awaiting
  <2>2. CASE GiveUp(c) \/ Interrupt(c)
        BY <2>2, AbandonedQueue DEF GiveUp, Interrupt
  <2>3. QED
        BY <2>1, <2>2
<1>4. place \in PlaceNames \ Awaiting /\ place \in Ended
      BY <1>2 DEF PlaceNames, Ended, Awaiting
<1>5. c \in Imports =>
          /\ unfit[c] # None => place # "partial"
          /\ place = "refused" => Early(c)
      BY <1>2 DEF Places, Early
<1>6. /\ manifest' \in [Names -> Keys \cup {None}] /\ db' \in [Keys -> DbValues]
      /\ \A k \in Keys : db'[k] \in {db[k], None}
      /\ done' \in [Clients -> Nat] /\ done' = done /\ done[c] <= done'[c] /\ UNCHANGED run
      BY <1>2 DEF Types
<1>7. QED
      BY <1>1, <1>2, <1>3, <1>4, <1>5, <1>6, GotoKeeps

\* Check, LoopEnds and WriteManifest.
LEMMA LocalKeeps ==
    ASSUME Inv, NEW c \in Clients,
           (c \in Imports /\ (Check(c) \/ WriteManifest(c))) \/ LoopEnds(c)
    PROVE  Inv'
<1> USE DEF Inv
<1>1. NoValues \in [Keys -> DbValues] /\ got[c] \in [Keys -> DbValues]
      BY DEF NoValues, DbValues, Types
<1>2. PICK place \in {"refused", "store", "write", "ok", "unrecorded"},
           values \in {NoValues, got[c]} :
           /\ Goto(c, place, values)
           /\ UNCHANGED <<db, backlog, run, done>>
           /\ pc[c] \in {"check", "store", "fetch", "write"}
           /\ place = "refused" => pc[c] = "check" \/ c \in Execs
           /\ place = "store" => pc[c] = "check"
           /\ place = "write" => pc[c] = "store" /\ ~MaySend(c)
           /\ pc[c] = "check" => c \in Imports
           /\ pc[c] = "check" /\ unfit[c] # None => place = "refused"
           /\ c \in Setters \cup Execs => place \in {"ok", "refused"}
           /\ c \in Imports /\ pc[c] # "check" => place \in {"write", "ok", "unrecorded"}
  <2>1. CASE c \in Imports /\ Check(c)
        BY <2>1, CommandsAssumption DEF Check, Refused
  <2>2. CASE c \in Imports /\ WriteManifest(c)
        BY <2>2, CommandsAssumption DEF WriteManifest
  <2>3. CASE LoopEnds(c)
    <3>1. c \in Imports => pc[c] = "store"
          BY <2>3 DEF LoopEnds, Places
    <3>2. QED
          BY <2>3, <3>1, CommandsAssumption DEF LoopEnds, Clients
  <2>4. QED
        BY <2>1, <2>2, <2>3
<1>3. manifest' \in [Names -> Keys \cup {None}]
  <2>1. CASE UNCHANGED manifest
        BY <2>1 DEF Types
  <2>2. CASE manifest' = Edited(c)
        BY <2>2 DEF Types, Edited, manifest_with_entries, Keys
  <2>3. QED
        BY <2>1, <2>2 DEF Check, LoopEnds, WriteManifest
<1>4. Remains(0) /\ \A i \in 1..Len(backlog') : backlog'[i].from # c
      BY <1>2, SameQueue, CommandsAssumption DEF Mailbox, Awaiting
<1>5. place = "store" => done[c] = 0 /\ Len(file[c]) \in Nat
      BY <1>2, FileLists DEF Places, Types
<1>6. place = "write" => done[c] = Len(file[c])
      BY <1>2, FileLists DEF Places, Types, MaySend
<1>7. c \in Imports => /\ place = "refused" => Early(c)
                       /\ unfit[c] # None => place = "refused"
      BY <1>2, CommandsAssumption DEF Places, Early
<1>8. /\ db' \in [Keys -> DbValues] /\ \A k \in Keys : db'[k] \in {db[k], None}
      /\ done' \in [Clients -> Nat] /\ done' = done /\ done[c] <= done'[c] /\ UNCHANGED run
      BY <1>2 DEF Types
<1>9. c \in Setters \cup Execs => place \in Ended
      BY <1>2 DEF Ended
<1>10. place \in PlaceNames \ Awaiting /\ values \in [Keys -> DbValues]
      BY <1>1, <1>2 DEF PlaceNames, Sending, Awaiting, Ended
<1>11. QED
      BY <1>2, <1>3, <1>4, <1>5, <1>6, <1>7, <1>8, <1>9, <1>10, GotoKeeps DEF Ended

\* What a handled request does to the store and to the queue.
LEMMA DispatchEffect ==
    ASSUME Types, NEW ok \in BOOLEAN, dispatch(ok)
    PROVE  /\ 1 \in 1..Len(backlog) /\ backlog[1] = Head(backlog)
           /\ Remains(1) /\ \A i \in 1..Len(backlog') : backlog'[i] = backlog[i + 1]
           /\ UNCHANGED <<manifest, run>>
           /\ Answer(backlog[1], ok)
           /\ db' \in [Keys -> DbValues]
           /\ \A k \in Keys :
                 \/ db'[k] = db[k]
                 \/ ok /\ k \in backlog[1].keys /\ backlog[1].op = "delete" /\ db'[k] = None
                 \/ /\ ok /\ k \in backlog[1].keys /\ backlog[1].op = "set"
                    /\ db'[k] = backlog[1].value
           /\ ok /\ backlog[1].op = "set" => \A k \in backlog[1].keys : db'[k] = backlog[1].value
           /\ ~ok \/ backlog[1].op = "read" => db' = db
<1> DEFINE req == backlog[1]
<1>1. /\ 1 \in 1..Len(backlog) /\ req = Head(backlog)
      /\ Remains(1) /\ \A i \in 1..Len(backlog') : backlog'[i] = backlog[i + 1]
      BY TailQueue DEF dispatch
<1>2. /\ req.keys \subseteq Keys /\ req.op \in {"read", "set", "delete"}
      /\ req.value \in Stamped
      BY <1>1, QueueType
<1> HIDE DEF req
<1>3. UNCHANGED <<manifest, run>> /\ Answer(req, ok)
      BY <1>1 DEF dispatch
<1>4. db' = CASE ~ok \/ req.op = "read" -> db
              [] ok /\ req.op = "set" -> [k \in Keys |-> IF k \in req.keys THEN req.value ELSE db[k]]
              [] ok /\ req.op = "delete" -> [k \in Keys |-> IF k \in req.keys THEN None ELSE db[k]]
      BY <1>1 DEF dispatch
<1>5. CASE ~ok \/ req.op = "read"
      BY <1>1, <1>3, <1>4, <1>5 DEF Types, req
<1>6. CASE ok /\ req.op = "set"
  <2>1. db' = [k \in Keys |-> IF k \in req.keys THEN req.value ELSE db[k]]
        BY <1>4, <1>6
  <2>2. db' \in [Keys -> DbValues]
        BY <1>2, <2>1 DEF Types, DbValues
  <2>3. QED
        BY <1>1, <1>2, <1>3, <1>6, <2>1, <2>2 DEF req
<1>7. CASE ok /\ req.op = "delete"
  <2>1. db' = [k \in Keys |-> IF k \in req.keys THEN None ELSE db[k]]
        BY <1>4, <1>7
  <2>2. db' \in [Keys -> DbValues]
        BY <2>1 DEF Types, DbValues
  <2>3. QED
        BY <1>1, <1>2, <1>3, <1>7, <2>1, <2>2 DEF req
<1>8. QED
      BY <1>2, <1>5, <1>6, <1>7

\* How the client that waited goes on.
LEMMA AnswerEffect ==
    ASSUME Inv, NEW ok \in BOOLEAN, dispatch(ok), NEW c, c = backlog[1].from, c # None
    PROVE  /\ c \in Clients /\ pc[c] \in Awaiting
           /\ \E place \in PlaceNames \ Awaiting, values \in [Keys -> DbValues] :
                 /\ Goto(c, place, values)
                 /\ values = Reply(backlog[1], c)
                 /\ place = IF ok THEN Resumes[pc[c]] ELSE Failure(c)
           /\ \A i \in 1..Len(backlog') : backlog'[i].from # c
           /\ done' = IF ok /\ pc[c] # "listing" THEN [done EXCEPT ![c] = @ + 1] ELSE done
<1> USE DEF Inv
<1>1. /\ 1 \in 1..Len(backlog) /\ Answer(backlog[1], ok)
      /\ \A i \in 1..Len(backlog') : backlog'[i] = backlog[i + 1] /\ i + 1 \in 1..Len(backlog)
      BY DispatchEffect DEF Remains
<1>2. c \in Clients /\ pc[c] \in Awaiting /\ \A j \in 1..Len(backlog) : backlog[j].from = c => 1 = j
      BY <1>1, QueueType DEF Mailbox
<1>3. \A i \in 1..Len(backlog') : backlog'[i].from # c
      BY <1>1, <1>2, QueueType DEF Remains
<1>4. Reply(backlog[1], c) \in [Keys -> DbValues]
      BY <1>2 DEF Reply, Types
<1>5. (IF ok THEN Resumes[pc[c]] ELSE Failure(c)) \in PlaceNames \ Awaiting
      BY <1>2 DEF Resumes, Failure, PlaceNames, Awaiting, Sending, Ended
<1>6. /\ Goto(c, IF ok THEN Resumes[pc[c]] ELSE Failure(c), Reply(backlog[1], c))
      /\ done' = IF ok /\ pc[c] # "listing" THEN [done EXCEPT ![c] = @ + 1] ELSE done
      BY <1>1 DEF Answer
<1>7. QED
      BY <1>2, <1>3, <1>4, <1>5, <1>6

LEMMA DispatchKeeps ==
    ASSUME Inv, NEW ok \in BOOLEAN, dispatch(ok)
    PROVE  Inv'
<1> USE DEF Inv
<1> DEFINE c == backlog[1].from
<1>1. /\ 1 \in 1..Len(backlog) /\ Remains(1) /\ UNCHANGED <<manifest, run>>
      /\ Answer(backlog[1], ok) /\ db' \in [Keys -> DbValues]
      /\ \A k \in Keys : db'[k] \in {db[k], None} \/ SetQueued(k, db'[k])
      /\ manifest' \in [Names -> Keys \cup {None}]
      BY DispatchEffect DEF SetQueued, Types
<1>2. CASE c = None
  <2>1. UNCHANGED <<pc, got, text, file, unfit, option, done, run>>
        BY <1>1, <1>2 DEF Answer
  <2>2. Types'
        BY <1>1, <2>1 DEF Types, Remains
  <2>3. Alone(None)
        BY <2>1 DEF Alone
  <2>4. None \notin Clients
        BY CommandsAssumption
  <2>5. Mailbox' /\ Stamping' /\ \A p \in Imports : Touched(p)' \subseteq Touched(p)
        BY <1>1, <2>1, <2>2, <2>3, <2>4, MoveKeeps
  <2>6. Places'
        BY <2>1 DEF Places
  <2>7. Progress'
        BY <2>3, <2>4, <2>5, ProgressKeeps DEF Clients
  <2>8. QED
        BY <2>2, <2>5, <2>6, <2>7
<1>3. CASE c # None
  <2>1. /\ c \in Clients /\ pc[c] \in Awaiting
        /\ \A i \in 1..Len(backlog') : backlog'[i].from # c
        /\ done' = IF ok /\ pc[c] # "listing" THEN [done EXCEPT ![c] = @ + 1] ELSE done
        BY <1>3, AnswerEffect
  <2>2. PICK place \in PlaceNames \ Awaiting, values \in [Keys -> DbValues] :
                 /\ Goto(c, place, values)
                 /\ place = IF ok THEN Resumes[pc[c]] ELSE Failure(c)
        BY <1>3, AnswerEffect
  <2> HIDE DEF c
  <2>3. /\ done' \in [Clients -> Nat] /\ done[c] <= done'[c]
        /\ \A d \in Clients \ {c} : done'[d] = done[d]
        /\ done'[c] = IF ok /\ pc[c] # "listing" THEN done[c] + 1 ELSE done[c]
        BY <2>1 DEF Types
  <2>4. \/ pc[c] = "listing" /\ place \in {"check", "refused"} /\ done'[c] = done[c]
        \/ /\ pc[c] = "storing" /\ place \in {"store", "partial"}
           /\ place = "store" => done'[c] = done[c] + 1
        \/ pc[c] = "fetching" /\ place \in {"fetch", "refused"}
        BY <2>1, <2>2, <2>3 DEF Awaiting, Resumes, Failure
  <2>5. place = "store" => done'[c] <= Len(file[c])
        BY <2>1, <2>3, <2>4, FileLists DEF Places, Types
  <2>6. c \in Imports => pc[c] # "fetching"
        BY DEF Places
  <2>7. c \in Setters => pc[c] = "storing"
        BY <2>1 DEF Places, Awaiting, Ended
  <2>8. c \in Execs => pc[c] = "fetching"
        BY <2>1 DEF Places, Awaiting, Ended
  <2>9. place = "check" => done'[c] = 0
        BY <2>1, <2>4 DEF Places
  <2>10. c \in Imports /\ unfit[c] # None => place \in {"check", "refused"}
        BY <2>4, <2>6 DEF Places
  <2>11. c \in Imports /\ place \in {"check", "refused"} => Early(c)
        BY <2>4, <2>6 DEF Early
  <2>12. /\ place \notin {"list", "write"}
         /\ c \in Imports => place # "fetch"
         /\ c \in Setters => place \in {"store"} \cup Ended
         /\ c \in Execs => place \in {"fetch"} \cup Ended
        BY <2>4, <2>6, <2>7, <2>8 DEF Ended
  <2>13. QED
        BY <1>1, <2>1, <2>2, <2>3, <2>5, <2>9, <2>10, <2>11, <2>12, GotoKeeps
<1>4. QED
      BY <1>2, <1>3

LEMMA DaemonDiesKeeps ==
    ASSUME Inv, DaemonDies
    PROVE  Inv'
<1> USE DEF Inv
<1>1. /\ Remains(0) /\ backlog' \in Seq(Queueable)
      /\ UNCHANGED <<manifest, db, pc, run, option, file, unfit, text, got, done>>
      BY EmptiedQueue DEF DaemonDies
<1>2. Types'
      BY <1>1 DEF Types
<1>3. Alone(None) /\ None \notin Clients
      BY <1>1, CommandsAssumption DEF Alone
<1>4. Mailbox' /\ Stamping' /\ \A p \in Imports : Touched(p)' \subseteq Touched(p)
      BY <1>1, <1>2, <1>3, MoveKeeps
<1>5. Places'
      BY <1>1 DEF Places
<1>6. Progress'
      BY <1>3, <1>4, ProgressKeeps DEF Clients
<1>7. QED
      BY <1>2, <1>4, <1>5, <1>6

LEMMA InvStep == Inv /\ [Next]_vars => Inv'
<1> SUFFICES ASSUME Inv, [Next]_vars PROVE Inv'
    OBVIOUS
<1>1. CASE UNCHANGED vars
  <2>1. UNCHANGED <<manifest, db, backlog, pc, run, option, file, unfit, text, got, done>>
        BY <1>1 DEF vars
  <2>2. Types'
        BY <2>1 DEF Inv, Types
  <2>3. Alone(None) /\ None \notin Clients /\ Remains(0)
        BY <2>1, SameQueue, CommandsAssumption DEF Alone, Inv
  <2>4. Mailbox' /\ Stamping' /\ \A p \in Imports : Touched(p)' \subseteq Touched(p)
        BY <2>1, <2>2, <2>3, MoveKeeps
  <2>5. Progress'
        BY <2>3, <2>4, ProgressKeeps DEF Clients
  <2>6. Places'
        BY <2>1 DEF Inv, Places
  <2>7. QED
        BY <2>2, <2>4, <2>5, <2>6 DEF Inv
<1>2. CASE \E c \in Clients : Start(c)
      BY <1>2, StartKeeps
<1>3. CASE Continue
  <2>1. CASE \E c \in Clients :
                Send(c) \/ RequestNotSent(c) \/ GiveUp(c) \/ LoopEnds(c) \/ Interrupt(c)
        BY <2>1, SendKeeps, QuitKeeps, LocalKeeps
  <2>2. CASE \E p \in Imports : Check(p) \/ WriteManifest(p)
        BY <2>2, LocalKeeps DEF Clients
  <2>3. CASE \E ok \in BOOLEAN : dispatch(ok)
        BY <2>3, DispatchKeeps
  <2>4. QED
        BY <1>3, <2>1, <2>2, <2>3, DaemonDiesKeeps DEF Continue
<1>4. QED
      BY <1>1, <1>2, <1>3 DEF Next, Finished

\* The inductive invariant for commands that overlap in any way.
THEOREM Inductive == Spec => []Inv
<1>1. QED
      BY InvInit, InvStep, PTL DEF Spec

\* What an import can have stored when it ended, even if a request it gave up
\* on is handled later, and however many commands run at once.  Refused: no
\* key.  Failed in a set: only keys that its message names.  Killed, or failed
\* in the manifest's write, which its message does not follow by any key: only
\* keys of variables that its loop had tried (cmd_import in client.cpp).
THEOREM StoredWasTried == Spec => []StoresOnlyTried
<1>1. Inv => StoresOnlyTried
  <2> SUFFICES ASSUME Inv, NEW p \in Imports
      PROVE  /\ pc[p] = "refused" => Stored(p) = {}
             /\ Stored(p) \subseteq Tried(p)
      BY DEF StoresOnlyTried
  <2>1. Stored(p) \subseteq Touched(p)
        BY DEF Stored, Touched
  <2>2. DOMAIN file[p] = 1..Len(file[p])
        BY FileLists DEF Inv, Types, Clients
  <2>3. Tried(p) = Reached(p)
        BY <2>2 DEF Tried, Reached
  <2>4. QED
        BY <2>1, <2>3 DEF Inv, Progress, Early
<1>2. QED
      BY <1>1, Inductive, PTL

\* An import with a variable that cannot be sent or declared stores no key, in
\* whatever order its requests and those of others are handled (cmd_import
\* looks at every line before its first set).
THEOREM UnfitStoresNothing == Spec => []UnfitImportsNothing
<1>1. Inv => UnfitImportsNothing
      BY DEF Inv, Progress, Early, UnfitImportsNothing, Stored, Touched
<1>2. QED
      BY <1>1, Inductive, PTL

-----------------------------------------------------------------------------
(* The steps, for writers that come one after the other *)

LEMMA SerialInit == Init => SerialInv
BY DEF Init, SerialInv, OneWriter, ManifestOf, QuietOf, FoundOf, PlainSets, Ended,
   Writers, Clients

\* An import that a step does not concern.
Unmoved(p) ==
    /\ pc'[p] = pc[p] /\ text'[p] = text[p] /\ file'[p] = file[p]
    /\ option'[p] = option[p] /\ got'[p] = got[p] /\ done'[p] = done[p]
    /\ run'[p] = run[p]

\* Its requests stay its own.
KeepsOwn(p, s) ==
    \A i \in 1..Len(backlog') : backlog'[i].from = p <=> backlog[i + s].from = p

LEMMA UnmovedManifest ==
    ASSUME NEW p \in Imports, ManifestOf(p), Unmoved(p),
           UNCHANGED manifest \/ pc[p] \in Ended
    PROVE  ManifestOf(p)'
BY DEF ManifestOf, Unmoved, Edited, manifest_with_entries, Ended

LEMMA UnmovedQuiet ==
    ASSUME Types, NEW p \in Imports, QuietOf(p), Unmoved(p),
           NEW s \in Nat, Remains(s), KeepsOwn(p, s)
    PROVE  QuietOf(p)'
<1> SUFFICES ASSUME NEW i \in 1..Len(backlog'), backlog'[i].op # "read"
    PROVE  /\ pc'[p] = "listing" => \A j \in 1..Len(backlog') : backlog'[j].from = p => i < j
           /\ pc'[p] \notin {"check", "store", "write"}
           /\ pc'[p] = "storing" => backlog'[i].from = p
    BY DEF QuietOf
<1>1. i + s \in 1..Len(backlog) /\ backlog[i + s].op # "read"
      BY DEF Remains
<1>2. ASSUME pc[p] = "listing", NEW j \in 1..Len(backlog'), backlog'[j].from = p
      PROVE  i < j
  <2>1. j + s \in 1..Len(backlog) /\ backlog[j + s].from = p
        BY <1>2 DEF Remains, KeepsOwn
  <2>2. i + s < j + s
        BY <1>1, <1>2, <2>1 DEF QuietOf
  <2>3. QED
        BY <2>2, QueueType
<1>3. QED
      BY <1>1, <1>2 DEF QuietOf, Unmoved, KeepsOwn

LEMMA UnmovedFound ==
    ASSUME NEW p \in Imports, FoundOf(p), Unmoved(p), UNCHANGED db
    PROVE  FoundOf(p)'
BY DEF FoundOf, Unmoved, Stamp

LEMMA AloneUnmoved ==
    ASSUME NEW c \in Clients \cup {None}, Alone(c)
    PROVE  \A p \in Imports \ {c} : Unmoved(p)
BY DEF Alone, Unmoved, Clients

\* Nothing that is queued turns into a set.
LEMMA RemainsPlain ==
    ASSUME Types, PlainSets, NEW s \in Nat, Remains(s), UNCHANGED db
    PROVE  PlainSets'
<1> SUFFICES ASSUME NEW i \in 1..Len(backlog'), backlog'[i].op = "set",
                    backlog'[i].value[1] \in Imports, backlog'[i].value[3] = "plain",
                    NEW k \in backlog'[i].keys
    PROVE  /\ db'[k] = None
           /\ \A j \in 1..(i - 1) : backlog'[j].op = "set" => k \notin backlog'[j].keys
    BY DEF PlainSets
<1>1. /\ i + s \in 1..Len(backlog) /\ backlog[i + s].op = "set" /\ k \in backlog[i + s].keys
      /\ backlog[i + s].value = backlog'[i].value
      BY DEF Remains
<1>2. db[k] = None /\ \A j \in 1..(i + s - 1) : backlog[j].op = "set" => k \notin backlog[j].keys
      BY <1>1 DEF PlainSets
<1>3. \A j \in 1..(i - 1) : j \in 1..Len(backlog') /\ j + s \in 1..(i + s - 1)
      BY DEF Remains
<1>4. QED
      BY <1>2, <1>3 DEF Remains

\* A writer that is not at rest is the only one.
LEMMA Resting ==
    ASSUME OneWriter, NEW c \in Writers, pc[c] \notin Ended
    PROVE  \A p \in Imports \ {c} : pc[p] \in Ended
BY DEF OneWriter, Writers

LEMMA SerialStartKeeps ==
    ASSUME Inv, SerialInv, NEW c \in Clients, SerialStart(c)
    PROVE  SerialInv'
<1> USE DEF SerialInv
<1>1. /\ pc[c] \in Ended /\ UNCHANGED <<manifest, db, backlog, got>>
      /\ run' = [run EXCEPT ![c] = @ + 1] /\ done' = [done EXCEPT ![c] = 0]
      /\ \A d \in Clients \ {c} :
            /\ pc'[d] = pc[d] /\ option'[d] = option[d] /\ file'[d] = file[d]
            /\ unfit'[d] = unfit[d] /\ text'[d] = text[d]
      /\ c \in Imports => pc'[c] \in {"refused", "list"}
      /\ pc'[c] = "refused" \/ text'[c] = manifest
      /\ c \in Writers => \A d \in Writers : pc[d] \in Ended
      BY StartEffect DEF SerialStart
<1>2. OneWriter'
      BY <1>1 DEF OneWriter, Writers, Clients
<1>3. Alone(c)
      BY <1>1 DEF Alone, Inv, Types
<1>4. Remains(0) /\ \A p \in Imports : KeepsOwn(p, 0)
      BY <1>1, SameQueue, QueueType DEF Inv, KeepsOwn
<1>5. PlainSets'
      BY <1>1, <1>4, RemainsPlain DEF Inv
<1>6. \A p \in Imports \ {c} : ManifestOf(p)' /\ QuietOf(p)' /\ FoundOf(p)'
      BY <1>1, <1>3, <1>4, AloneUnmoved, UnmovedManifest, UnmovedQuiet, UnmovedFound DEF Inv
<1>7. c \in Imports => ManifestOf(c)' /\ QuietOf(c)' /\ FoundOf(c)'
      BY <1>1 DEF ManifestOf, QuietOf, FoundOf, Ended
<1>8. QED
      BY <1>2, <1>5, <1>6, <1>7

LEMMA SerialSendKeeps ==
    ASSUME Inv, SerialInv, NEW c \in Clients, Send(c)
    PROVE  SerialInv'
<1> USE DEF SerialInv, Inv
<1> DEFINE r == Request(c)
<1>1. /\ pc[c] \in Sending /\ MaySend(c)
      /\ pc' = [pc EXCEPT ![c] = Awaits[pc[c]]]
      /\ UNCHANGED <<manifest, db, run, option, file, unfit, text, got, done>>
      BY DEF Send
<1>2. /\ r \in Queueable /\ r.from = c /\ r.value = Stamp(c)
      /\ pc[c] \in {"list", "fetch"} => r.op = "read"
      /\ pc[c] = "store" => /\ r.op = IF option[c] = "delete" THEN "delete" ELSE "set"
                            /\ r.keys = {file[c][done[c] + 1]}
                            /\ done[c] < Len(file[c])
      BY <1>1, RequestType
<1> HIDE DEF r
<1>3. /\ Len(backlog') = Len(backlog) + 1
      /\ \A i \in 1..Len(backlog) : backlog'[i] = backlog[i]
      /\ backlog'[Len(backlog) + 1] = r
      /\ \A i \in 1..Len(backlog') : i # Len(backlog) + 1 => i \in 1..Len(backlog)
      BY <1>2, AppendProperties, QueueType DEF Send, Types, r
<1>4. \/ pc[c] = "list" /\ pc'[c] = "listing"
      \/ pc[c] = "fetch" /\ pc'[c] = "fetching"
      \/ pc[c] = "store" /\ pc'[c] = "storing"
      BY <1>1 DEF Sending, Awaits, Types
<1>5. \A d \in Clients \ {c} : pc'[d] = pc[d]
      BY <1>1 DEF Types
<1>6. \A d \in Clients : Stamp(d)' = Stamp(d)
      BY <1>1 DEF Stamp
<1>7. r.op # "read" =>
          /\ c \in Writers /\ pc[c] = "store" /\ \A p \in Imports \ {c} : pc[p] \in Ended
      BY <1>2, <1>4, Resting DEF Places, Writers, Clients, Ended
<1>8. OneWriter'
      BY <1>4, <1>5 DEF OneWriter, Writers, Clients, Ended
<1>9. ASSUME NEW p \in Imports
      PROVE  ManifestOf(p)' /\ FoundOf(p)'
  <2>1. pc'[p] = pc[p] \/ pc'[p] = "listing" \/ (pc[p] = "store" /\ pc'[p] = "storing")
             \/ pc'[p] = "fetching"
        BY <1>4, <1>5 DEF Clients
  <2>2. pc'[p] \notin Ended => pc[p] \notin Ended
        BY <1>4, <1>5 DEF Clients, Ended
  <2>3. ManifestOf(p)'
        BY <1>1, <2>1, <2>2 DEF ManifestOf, Edited
  <2>4. FoundOf(p)'
        BY <1>1, <1>6, <2>1 DEF FoundOf, Clients
  <2>5. QED
        BY <2>3, <2>4
<1>10. ASSUME NEW p \in Imports
       PROVE  QuietOf(p)'
  <2> SUFFICES ASSUME NEW i \in 1..Len(backlog'), backlog'[i].op # "read"
      PROVE  /\ pc'[p] = "listing" => \A j \in 1..Len(backlog') : backlog'[j].from = p => i < j
             /\ pc'[p] \notin {"check", "store", "write"}
             /\ pc'[p] = "storing" => backlog'[i].from = p
      BY DEF QuietOf
  <2>1. CASE p = c
    <3>1. \A j \in 1..Len(backlog) : backlog[j].from # c
          BY <1>1, CommandsAssumption DEF Mailbox, Sending, Awaiting
    <3>2. CASE pc[c] = "list"
      <4>1. i \in 1..Len(backlog)
            BY <1>2, <1>3, <3>2
      <4>2. \A j \in 1..Len(backlog') : backlog'[j].from = p => j = Len(backlog) + 1
            BY <1>3, <2>1, <3>1
      <4>3. QED
            BY <1>4, <2>1, <3>2, <4>1, <4>2, QueueType
    <3>3. CASE pc[c] = "store"
      <4>1. i = Len(backlog) + 1
            BY <1>3, <2>1, <3>3 DEF QuietOf
      <4>2. QED
            BY <1>2, <1>3, <1>4, <2>1, <3>3, <4>1
    <3>4. QED
          BY <1>4, <2>1, <3>2, <3>3 DEF Places
  <2>2. CASE p # c
    <3>1. pc'[p] = pc[p]
          BY <1>5, <2>2 DEF Clients
    <3>2. CASE i = Len(backlog) + 1
          BY <1>3, <1>7, <2>2, <3>1, <3>2 DEF Ended
    <3>3. CASE i # Len(backlog) + 1
      <4>1. i \in 1..Len(backlog) /\ backlog'[i] = backlog[i]
            BY <1>3, <3>3
      <4>2. \A j \in 1..Len(backlog') : backlog'[j].from = p => j \in 1..Len(backlog) /\ backlog[j].from = p
            BY <1>2, <1>3, <2>2
      <4>3. QED
            BY <3>1, <4>1, <4>2 DEF QuietOf
    <3>4. QED
          BY <3>2, <3>3
  <2>3. QED
        BY <2>1, <2>2
<1>11. PlainSets'
  <2> SUFFICES ASSUME NEW i \in 1..Len(backlog'), backlog'[i].op = "set",
                      backlog'[i].value[1] \in Imports, backlog'[i].value[3] = "plain",
                      NEW k \in backlog'[i].keys
      PROVE  /\ db'[k] = None
             /\ \A j \in 1..(i - 1) : backlog'[j].op = "set" => k \notin backlog'[j].keys
      BY DEF PlainSets
  <2>1. CASE i = Len(backlog) + 1
    <3>1. backlog'[i] = r /\ c \in Imports /\ option[c] = "plain" /\ r.op = "set"
          BY <1>2, <1>3, <2>1, StampType
    <3>2. pc[c] = "store" /\ k = file[c][done[c] + 1] /\ done[c] < Len(file[c])
          BY <1>2, <1>7, <3>1
    <3>3. db[k] = None
      <4>1. done[c] \in Nat /\ Len(file[c]) \in Nat
            BY FileLists DEF Types
      <4>2. done[c] + 1 \in 1..Len(file[c]) /\ done[c] + 1 > done[c]
            BY <3>2, <4>1
      <4>3. FoundOf(c)
            BY <3>1
      <4>4. QED
            BY <3>1, <3>2, <4>2, <4>3 DEF FoundOf
    <3>4. \A j \in 1..Len(backlog) : backlog[j].op = "read"
          BY <3>1, <3>2 DEF QuietOf
    <3>5. \A j \in 1..(i - 1) : backlog'[j].op = "read"
          BY <1>3, <2>1, <3>4, QueueType
    <3>6. QED
          BY <1>1, <3>3, <3>5
  <2>2. CASE i # Len(backlog) + 1
    <3>1. i \in 1..Len(backlog) /\ backlog'[i] = backlog[i]
          BY <1>3, <2>2
    <3>2. \A j \in 1..(i - 1) : j \in 1..Len(backlog) /\ backlog'[j] = backlog[j]
          BY <1>3, <3>1, QueueType
    <3>3. QED
          BY <1>1, <3>1, <3>2 DEF PlainSets
  <2>3. QED
        BY <2>1, <2>2
<1>12. QED
      BY <1>8, <1>9, <1>10, <1>11

\* A command that ends keeps nobody waiting; the store is as it was.
LEMMA SerialQuitKeeps ==
    ASSUME Inv, SerialInv, NEW c \in Clients, RequestNotSent(c) \/ GiveUp(c) \/ Interrupt(c)
    PROVE  SerialInv'
<1> USE DEF SerialInv, Inv
<1>1. NoValues \in [Keys -> DbValues]
      BY DEF NoValues, DbValues
<1>2. PICK place \in {"refused", "partial", "killed"} :
           /\ Goto(c, place, NoValues)
           /\ UNCHANGED <<manifest, db, run, done>>
      BY DEF RequestNotSent, GiveUp, Interrupt, Failure
<1>3. place \in PlaceNames /\ place \in Ended
      BY DEF PlaceNames, Ended
<1>4. /\ pc'[c] = place
      /\ \A d \in Clients \ {c} :
            /\ pc'[d] = pc[d] /\ option'[d] = option[d] /\ file'[d] = file[d]
            /\ unfit'[d] = unfit[d] /\ text'[d] = text[d] /\ got'[d] = got[d]
      BY <1>1, <1>2, <1>3, GotoEffect
<1>5. Alone(c)
      BY <1>2, <1>4 DEF Alone
<1>6. Remains(0) /\ \A p \in Imports \ {c} : KeepsOwn(p, 0)
  <2>1. CASE UNCHANGED backlog
        BY <2>1, SameQueue, QueueType DEF KeepsOwn
  <2>2. CASE backlog' = Abandoned(c)
    <3>1. /\ Remains(0)
          /\ \A i \in 1..Len(backlog') :
                /\ i \in 1..Len(backlog) /\ i + 0 = i
                /\ backlog'[i].from # c
                /\ backlog[i].from # c => backlog'[i].from = backlog[i].from
                /\ backlog'[i].from \in {backlog[i].from, None}
          BY <2>2, AbandonedQueue, QueueType DEF Remains
    <3>2. \A p \in Imports : p # None
          BY CommandsAssumption DEF Clients
    <3>3. QED
          BY <3>1, <3>2 DEF KeepsOwn
  <2>3. QED
        BY <2>1, <2>2 DEF RequestNotSent, GiveUp, Interrupt
<1>7. PlainSets'
      BY <1>2, <1>6, RemainsPlain
<1>8. \A p \in Imports \ {c} : ManifestOf(p)' /\ QuietOf(p)' /\ FoundOf(p)'
      BY <1>2, <1>5, <1>6, AloneUnmoved, UnmovedManifest, UnmovedQuiet, UnmovedFound
<1>9. c \in Imports => ManifestOf(c)' /\ QuietOf(c)' /\ FoundOf(c)'
      BY <1>4 DEF ManifestOf, QuietOf, FoundOf, Ended
<1>10. OneWriter'
      BY <1>3, <1>4 DEF OneWriter, Writers, Clients
<1>11. QED
      BY <1>7, <1>8, <1>9, <1>10

\* Check looks at what was found, WriteManifest writes what Check has proved.
LEMMA SerialLocalKeeps ==
    ASSUME Inv, SerialInv, NEW c \in Clients,
           (c \in Imports /\ (Check(c) \/ WriteManifest(c))) \/ LoopEnds(c)
    PROVE  SerialInv'
<1> USE DEF SerialInv, Inv
<1>1. NoValues \in [Keys -> DbValues] /\ got[c] \in [Keys -> DbValues]
      BY DEF NoValues, DbValues, Types
<1>2. PICK place \in {"refused", "store", "write", "ok", "unrecorded"},
           values \in {NoValues, got[c]} :
           /\ Goto(c, place, values)
           /\ UNCHANGED <<db, backlog, run, done>>
           /\ pc[c] \in {"check", "store", "fetch", "write"}
           /\ place = "store" => c \in Imports /\ pc[c] = "check" /\ ~Refused(c)
           /\ place = "write" => pc[c] = "store"
           /\ manifest' # manifest => c \in Imports /\ pc[c] = "write"
  <2>1. CASE c \in Imports /\ Check(c)
        BY <2>1 DEF Check
  <2>2. CASE c \in Imports /\ WriteManifest(c)
        BY <2>2 DEF WriteManifest
  <2>3. CASE LoopEnds(c)
    <3>1. c \in Imports => pc[c] = "store"
          BY <2>3 DEF LoopEnds, Places
    <3>2. c \in Execs => pc[c] = "fetch"
          BY <2>3 DEF LoopEnds, Places, Ended
    <3>3. QED
          BY <2>3, <3>1, <3>2, CommandsAssumption DEF LoopEnds, Clients
  <2>4. QED
        BY <2>1, <2>2, <2>3
<1>3. place \in PlaceNames /\ values \in [Keys -> DbValues]
      BY <1>1, <1>2 DEF PlaceNames, Sending, Ended
<1>4. /\ pc'[c] = place
      /\ \A d \in Clients \ {c} :
            /\ pc'[d] = pc[d] /\ option'[d] = option[d] /\ file'[d] = file[d]
            /\ unfit'[d] = unfit[d] /\ text'[d] = text[d] /\ got'[d] = got[d]
      /\ c \in Imports => option'[c] = option[c]
      /\ place \notin Ended => /\ file'[c] = file[c] /\ text'[c] = text[c]
                               /\ option'[c] = option[c]
      BY <1>2, <1>3, GotoEffect
<1>5. Alone(c)
      BY <1>2, <1>4 DEF Alone
<1>6. Remains(0) /\ \A p \in Imports : KeepsOwn(p, 0)
      BY <1>2, SameQueue, QueueType DEF KeepsOwn
<1>7. PlainSets'
      BY <1>2, <1>6, RemainsPlain
<1>8. manifest' # manifest => \A p \in Imports \ {c} : pc[p] \in Ended
      BY <1>2, Resting DEF Writers, Ended
<1>9. \A p \in Imports \ {c} : ManifestOf(p)' /\ QuietOf(p)' /\ FoundOf(p)'
      BY <1>2, <1>5, <1>6, <1>8, AloneUnmoved, UnmovedManifest, UnmovedQuiet, UnmovedFound
<1>10. ASSUME c \in Imports
       PROVE  ManifestOf(c)' /\ QuietOf(c)' /\ FoundOf(c)'
  <2>1. CASE place \in {"refused", "ok", "unrecorded"}
        BY <1>4, <2>1 DEF ManifestOf, QuietOf, FoundOf, Ended
  <2>2. CASE place \in {"store", "write"}
    <3>1. /\ file'[c] = file[c] /\ text'[c] = text[c] /\ option'[c] = option[c]
          /\ Stamp(c)' = Stamp(c) /\ UNCHANGED <<manifest, db, backlog, done>>
          /\ text[c] = manifest /\ pc[c] \in {"check", "store"}
          BY <1>2, <1>4, <1>10, <2>2 DEF Ended, Stamp, ManifestOf
    <3>2. ASSUME pc[c] = "check", NEW i \in 1..Len(file[c])
          PROVE  /\ Edited(c)[file[c][i]] = file[c][i]
                 /\ done[c] = 0 /\ (option[c] = "plain" => db[file[c][i]] = None)
      <4>1. ~Refused(c)
            BY <1>2, <2>2, <3>2
      <4>2. file[c][i] \in Names /\ file[c][i] \in Range(file[c])
            BY FileLists DEF Range, Types
      <4>3. Edited(c)[file[c][i]] = file[c][i]
            BY <4>1, <4>2 DEF Refused, EditRefused, Edited
      <4>4. option[c] = "plain" => got[c][file[c][i]] = None
            BY <4>1, <4>2 DEF Refused, Collisions
      <4>5. QED
            BY <1>10, <3>2, <4>2, <4>3, <4>4 DEF FoundOf, Places
    <3>3. ManifestOf(c)'
          BY <1>4, <1>10, <2>2, <3>1, <3>2 DEF ManifestOf, Edited
    <3>4. QuietOf(c)'
          BY <1>4, <1>10, <2>2, <3>1 DEF QuietOf
    <3>5. FoundOf(c)'
          BY <1>4, <1>10, <2>2, <3>1, <3>2 DEF FoundOf
    <3>6. QED
          BY <3>3, <3>4, <3>5
  <2>3. QED
        BY <2>1, <2>2
<1>11. OneWriter'
  <2>1. pc[c] \notin Ended
        BY <1>2 DEF Ended
  <2>2. QED
        BY <1>4, <2>1 DEF OneWriter, Writers, Clients
<1>12. QED
      BY <1>7, <1>9, <1>10, <1>11

\* A set that is handled is one that an import waits for, or none waits at all.
LEMMA SerialDispatchKeeps ==
    ASSUME Inv, SerialInv, NEW ok \in BOOLEAN, dispatch(ok),
           NEW req, req = backlog[1], NEW c, c = req.from
    PROVE  SerialInv'
<1> USE DEF SerialInv, Inv
<1>1. /\ 1 \in 1..Len(backlog)
      /\ Remains(1) /\ \A i \in 1..Len(backlog') : backlog'[i] = backlog[i + 1]
      /\ UNCHANGED <<manifest, run>>
      /\ Answer(req, ok)
      /\ \A k \in Keys :
            \/ db'[k] = db[k]
            \/ ok /\ k \in req.keys /\ req.op = "delete" /\ db'[k] = None
            \/ ok /\ k \in req.keys /\ req.op = "set" /\ db'[k] = req.value
      /\ ok /\ req.op = "set" => \A k \in req.keys : db'[k] = req.value
      /\ ~ok \/ req.op = "read" => db' = db
      BY DispatchEffect
<1>2. \A p \in Imports : KeepsOwn(p, 1)
      BY <1>1 DEF KeepsOwn
<1>3. c \in Clients \cup {None} /\ Alone(c)
  <2>1. CASE c = None
        BY <1>1, <2>1 DEF Answer, Alone
  <2>2. CASE c # None
    <3>1. /\ c \in Clients
          /\ done' = IF ok /\ pc[c] # "listing" THEN [done EXCEPT ![c] = @ + 1] ELSE done
          BY <2>2, AnswerEffect
    <3>2. PICK place \in PlaceNames \ Awaiting, values \in [Keys -> DbValues] :
             Goto(c, place, values)
          BY <2>2, AnswerEffect
    <3>3. \A d \in Clients \ {c} :
             /\ pc'[d] = pc[d] /\ option'[d] = option[d] /\ file'[d] = file[d]
             /\ unfit'[d] = unfit[d] /\ text'[d] = text[d] /\ got'[d] = got[d]
          BY <3>1, <3>2, GotoEffect
    <3>4. QED
          BY <1>1, <3>1, <3>3 DEF Alone, Types
  <2>3. QED
        BY <2>1, <2>2
<1>4. c \in Clients =>
          /\ pc[c] \in Awaiting
          /\ pc'[c] = (IF ok THEN Resumes[pc[c]] ELSE Failure(c))
          /\ pc'[c] \notin Ended =>
                /\ file'[c] = file[c] /\ text'[c] = text[c] /\ option'[c] = option[c]
                /\ got'[c] = Reply(req, c)
          /\ done' = IF ok /\ pc[c] # "listing" THEN [done EXCEPT ![c] = @ + 1] ELSE done
      BY <1>1, AnswerEffect, GotoEffect, CommandsAssumption
<1>5. c \in Clients =>
          /\ \A i \in 1..Len(backlog) : backlog[i].from = c => i = 1
          /\ pc[c] # "storing" => req.op = "read"
          /\ pc[c] = "listing" => req.keys = Names
          /\ pc[c] = "storing" =>
                /\ req.keys = {file[c][done[c] + 1]}
                /\ req.op = IF option[c] = "delete" THEN "delete" ELSE "set"
                /\ req.value = Stamp(c)
      BY <1>1, CommandsAssumption DEF Mailbox
<1>6. c \in Clients /\ pc'[c] \notin Ended =>
          \/ ok /\ pc[c] = "listing" /\ pc'[c] = "check"
          \/ ok /\ pc[c] = "storing" /\ pc'[c] = "store"
          \/ ok /\ pc[c] = "fetching" /\ pc'[c] = "fetch"
      BY <1>4 DEF Awaiting, Resumes, Failure, Ended
<1>7. \A p \in Imports \ {c} : Unmoved(p)
      BY <1>3, AloneUnmoved
<1>8. OneWriter'
      BY <1>3, <1>4 DEF OneWriter, Writers, Clients, Alone, Awaiting, Ended
<1>9. PlainSets'
  <2> SUFFICES ASSUME NEW i \in 1..Len(backlog'), backlog'[i].op = "set",
                      backlog'[i].value[1] \in Imports, backlog'[i].value[3] = "plain",
                      NEW k \in backlog'[i].keys
      PROVE  /\ db'[k] = None
             /\ \A j \in 1..(i - 1) : backlog'[j].op = "set" => k \notin backlog'[j].keys
      BY DEF PlainSets
  <2>1. i + 1 \in 1..Len(backlog) /\ backlog'[i] = backlog[i + 1] /\ k \in Keys
        BY <1>1, QueueType DEF Remains
  <2>2. /\ db[k] = None
        /\ \A j \in 1..(i + 1 - 1) : backlog[j].op = "set" => k \notin backlog[j].keys
        BY <2>1 DEF PlainSets
  <2>3. req.op = "set" => k \notin req.keys
        BY <2>1, <2>2
  <2>4. db'[k] = None
        BY <1>1, <2>1, <2>2, <2>3
  <2>5. \A j \in 1..(i - 1) : j \in 1..Len(backlog') /\ j + 1 \in 1..(i + 1 - 1)
        BY <2>1, QueueType
  <2>6. QED
        BY <1>1, <2>2, <2>4, <2>5
<1>10. ASSUME NEW p \in Imports, p # c
       PROVE  ManifestOf(p)' /\ QuietOf(p)' /\ FoundOf(p)'
  <2>1. ManifestOf(p)' /\ QuietOf(p)'
        BY <1>1, <1>2, <1>7, <1>10, UnmovedManifest, UnmovedQuiet
  <2>2. CASE pc[p] \in {"check", "store", "storing", "write"}
    <3>1. req.op = "read"
          BY <1>1, <1>10, <2>2 DEF QuietOf
    <3>2. UNCHANGED db
          BY <1>1, <3>1
    <3>3. QED
          BY <1>7, <1>10, <2>1, <3>2, UnmovedFound
  <2>3. CASE pc[p] \notin {"check", "store", "storing", "write"}
        BY <1>7, <1>10, <2>1, <2>3 DEF FoundOf, Unmoved
  <2>4. QED
        BY <2>2, <2>3
<1>11. ASSUME c \in Imports
       PROVE  ManifestOf(c)' /\ QuietOf(c)' /\ FoundOf(c)'
  <2>1. CASE pc'[c] \in Ended
        BY <2>1 DEF ManifestOf, QuietOf, FoundOf, Ended
  <2>2. CASE ok /\ pc[c] = "listing" /\ pc'[c] = "check"
    <3>1. /\ text'[c] = text[c] /\ got'[c] = Reply(req, c) /\ req.op = "read"
          /\ req.keys = Names /\ UNCHANGED <<manifest, db>>
          BY <1>1, <1>4, <1>5, <1>11, <2>2 DEF Clients, Ended
    <3>2. ManifestOf(c)'
          BY <1>11, <2>2, <3>1 DEF ManifestOf, Ended
    <3>3. FoundOf(c)'
          BY <2>2, <3>1 DEF FoundOf, Reply, Keys
    <3>4. \A i \in 1..Len(backlog) : backlog[i].op # "read" => i < 1
          BY <1>1, <1>11, <2>2 DEF QuietOf
    <3>5. \A i \in 1..Len(backlog') : backlog'[i].op = "read"
          BY <1>1, <3>4, QueueType DEF Remains
    <3>6. QuietOf(c)'
          BY <3>5 DEF QuietOf
    <3>7. QED
          BY <3>2, <3>3, <3>6
  <2>3. CASE ok /\ pc[c] = "storing" /\ pc'[c] = "store"
    <3>1. /\ text'[c] = text[c] /\ file'[c] = file[c] /\ option'[c] = option[c]
          /\ req.op = "set" /\ req.keys = {file[c][done[c] + 1]} /\ req.value = Stamp(c)
          /\ done' = [done EXCEPT ![c] = @ + 1]
          /\ Stamp(c)' = Stamp(c) /\ c \in Clients
          BY <1>1, <1>4, <1>5, <1>11, <2>3, SMTT(30) DEF Clients, Ended, Places, Stamp
    <3>2. ManifestOf(c)'
          BY <1>1, <1>11, <2>3, <3>1, SMTT(30) DEF ManifestOf, Edited, Ended
    <3>3. \A i \in 1..Len(backlog) : backlog[i].op # "read" => i = 1
          BY <1>5, <1>11, <2>3, <3>1 DEF QuietOf
    <3>4. \A i \in 1..Len(backlog') : backlog'[i].op = "read"
          BY <1>1, <3>3, QueueType DEF Remains
    <3>5. QuietOf(c)'
          BY <3>4 DEF QuietOf
    <3>6. /\ done[c] \in Nat /\ done'[c] = done[c] + 1 /\ file[c] \in FileList
          /\ done[c] < Len(file[c])
          BY <2>3, <3>1 DEF Types, Places
    <3>7. ASSUME NEW i \in 1..Len(file[c])
          PROVE  /\ i <= done[c] + 1 => db'[file[c][i]] = Stamp(c)
                 /\ i > done[c] + 1 /\ option[c] = "plain" => db'[file[c][i]] = None
      <4>1. file[c][i] \in Keys /\ i \in Nat
            BY <3>6, FileLists, SMTT(30) DEF Keys
      <4>2. CASE i = done[c] + 1
            BY <1>1, <2>3, <3>1, <3>6, <4>2, SMTT(30)
      <4>3. CASE i # done[c] + 1
        <5>1. done[c] + 1 \in 1..Len(file[c])
              BY <3>6, FileLists
        <5>2. file[c][i] # file[c][done[c] + 1]
              BY <3>6, <4>3, <5>1 DEF FileList
        <5>3. db'[file[c][i]] = db[file[c][i]]
              BY <1>1, <3>1, <4>1, <5>2
        <5>4. QED
              BY <1>11, <2>3, <3>6, <4>1, <4>3, <5>3 DEF FoundOf
      <4>4. QED
            BY <4>2, <4>3
    <3>8. FoundOf(c)'
          BY <2>3, <3>1, <3>6, <3>7 DEF FoundOf
    <3>9. QED
          BY <3>2, <3>5, <3>8
  <2>4. QED
        BY <1>6, <1>11, <2>1, <2>2, <2>3 DEF Places, Clients
<1>12. QED
      BY <1>8, <1>9, <1>10, <1>11

LEMMA SerialIsNext == [SerialNext]_vars => [Next]_vars
BY DEF SerialNext, Next, SerialStart

LEMMA SerialStep == AllInv /\ [SerialNext]_vars => AllInv'
<1> SUFFICES ASSUME AllInv, [SerialNext]_vars PROVE AllInv'
    OBVIOUS
<1> USE DEF AllInv
<1>1. Inv'
      BY SerialIsNext, InvStep
<1>2. SUFFICES SerialInv'
      BY <1>1
<1>3. CASE UNCHANGED vars
  <2>1. UNCHANGED <<manifest, db, backlog, pc, run, option, file, unfit, text, got, done>>
        BY <1>3 DEF vars
  <2>2. /\ Alone(None) /\ None \notin Clients /\ Remains(0)
        /\ \A p \in Imports : KeepsOwn(p, 0)
        BY <2>1, SameQueue, QueueType, CommandsAssumption DEF Alone, Inv, KeepsOwn
  <2>3. \A p \in Imports : ManifestOf(p)' /\ QuietOf(p)' /\ FoundOf(p)'
        BY <2>1, <2>2, AloneUnmoved, UnmovedManifest, UnmovedQuiet, UnmovedFound
        DEF Inv, SerialInv, Clients
  <2>4. PlainSets'
        BY <2>1, <2>2, RemainsPlain DEF Inv, SerialInv
  <2>5. OneWriter'
        BY <2>1 DEF SerialInv, OneWriter
  <2>6. QED
        BY <2>3, <2>4, <2>5 DEF SerialInv
<1>4. CASE \E c \in Clients : SerialStart(c)
      BY <1>4, SerialStartKeeps
<1>5. CASE DaemonDies
  <2>1. /\ Remains(0) /\ Len(backlog') = 0
        /\ UNCHANGED <<manifest, db, pc, run, option, file, unfit, text, got, done>>
        BY <1>5, EmptiedQueue DEF DaemonDies
  <2>2. Alone(None) /\ None \notin Clients /\ \A p \in Imports : KeepsOwn(p, 0)
        BY <2>1, CommandsAssumption DEF Alone, KeepsOwn
  <2>3. \A p \in Imports : ManifestOf(p)' /\ QuietOf(p)' /\ FoundOf(p)'
        BY <2>1, <2>2, AloneUnmoved, UnmovedManifest, UnmovedQuiet, UnmovedFound
        DEF Inv, SerialInv, Clients
  <2>4. PlainSets'
        BY <2>1, RemainsPlain DEF Inv, SerialInv
  <2>5. OneWriter'
        BY <2>1 DEF SerialInv, OneWriter
  <2>6. QED
        BY <2>3, <2>4, <2>5 DEF SerialInv
<1>6. CASE Continue /\ ~DaemonDies
  <2>1. CASE \E c \in Clients :
                Send(c) \/ RequestNotSent(c) \/ GiveUp(c) \/ LoopEnds(c) \/ Interrupt(c)
        BY <2>1, SerialSendKeeps, SerialQuitKeeps, SerialLocalKeeps
  <2>2. CASE \E p \in Imports : Check(p) \/ WriteManifest(p)
        BY <2>2, SerialLocalKeeps DEF Clients
  <2>3. CASE \E ok \in BOOLEAN : dispatch(ok)
        BY <2>3, SerialDispatchKeeps
  <2>4. QED
        BY <1>6, <2>1, <2>2, <2>3 DEF Continue
<1>7. QED
      BY <1>3, <1>4, <1>5, <1>6 DEF SerialNext, Finished

\* The inductive invariant for writers that come one after the other.
THEOREM SerialInductive == SerialSpec => []AllInv
<1>1. Init => AllInv
      BY InvInit, SerialInit DEF AllInv
<1>2. QED
      BY <1>1, SerialStep, PTL DEF SerialSpec

\* Only a handled request changes the store.
LEMMA StoreChanges ==
    ASSUME Inv, [Next]_vars, NEW k \in Keys, db'[k] # db[k]
    PROVE  \E ok \in BOOLEAN :
              /\ dispatch(ok) /\ ok /\ k \in backlog[1].keys
              /\ \/ backlog[1].op = "delete" /\ db'[k] = None
                 \/ backlog[1].op = "set" /\ db'[k] = backlog[1].value
<1>1. \E ok \in BOOLEAN : dispatch(ok)
      BY StartEffect DEF Next, Continue, Finished, vars, Send, RequestNotSent, GiveUp,
         LoopEnds, Interrupt, Check, WriteManifest, DaemonDies
<1>2. QED
      BY <1>1, DispatchEffect DEF Inv

\* An import without --overwrite replaces no value of anybody else, though its
\* sets come after its look at the store, and whatever commands that gave up
\* left queued (cmd_import's collision check).
THEOREM PlainImportOverwritesNothing == SerialSpec => NoSilentOverwrite
<1>1. AllInv /\ [SerialNext]_vars =>
          [\A k \in Keys :
              db[k] # None /\ db'[k] # db[k] /\ db'[k] # None =>
                  ~(db'[k][1] \in Imports /\ db'[k][3] = "plain")]_vars
  <2> SUFFICES ASSUME AllInv, [SerialNext]_vars, NEW k \in Keys,
                      db[k] # None, db'[k] # db[k], db'[k] # None,
                      db'[k][1] \in Imports, db'[k][3] = "plain"
      PROVE  FALSE
      OBVIOUS
  <2>1. PICK ok \in BOOLEAN :
              /\ dispatch(ok) /\ k \in backlog[1].keys
              /\ backlog[1].op = "set" /\ db'[k] = backlog[1].value
        BY SerialIsNext, StoreChanges DEF AllInv
  <2>2. 1 \in 1..Len(backlog)
        BY <2>1, DispatchEffect DEF AllInv, Inv
  <2>3. QED
        BY <2>1, <2>2 DEF AllInv, SerialInv, PlainSets
<1>2. QED
      BY <1>1, SerialInductive, PTL DEF SerialSpec, NoSilentOverwrite

\* Where an import comes from that ends after its first set.
LEMMA ReportComesFrom ==
    ASSUME Inv, [Next]_vars, NEW p \in Imports,
           pc'[p] # pc[p], pc'[p] \in {"partial", "unrecorded", "ok"}
    PROVE  \/ pc'[p] = "partial" /\ pc[p] \in {"store", "storing"} /\ UNCHANGED <<db, done>>
           \/ pc'[p] \in {"unrecorded", "ok"} /\ WriteManifest(p)
<1> USE DEF Inv
<1>1. p \in Clients /\ p \notin Setters /\ p \notin Execs
      BY CommandsAssumption DEF Clients
<1>2. NoValues \in [Keys -> DbValues] /\ \A c \in Clients : got[c] \in [Keys -> DbValues]
      BY DEF NoValues, DbValues, Types
<1>3. ASSUME NEW c \in Clients, NEW place \in PlaceNames, NEW values \in [Keys -> DbValues],
             Goto(c, place, values)
      PROVE  c = p /\ pc'[p] = place
      BY <1>1, <1>3, GotoEffect
<1>4. CASE \E c \in Clients : Start(c) \/ Send(c)
  <2>1. PICK c \in Clients : Start(c) \/ Send(c)
        BY <1>4
  <2>2. CASE Start(c)
    <3>1. /\ c \in Imports => pc'[c] \in {"refused", "list"}
          /\ \A d \in Clients \ {c} : pc'[d] = pc[d]
          BY <2>2, StartEffect
    <3>2. QED
          BY <1>1, <3>1
  <2>3. CASE Send(c)
    <3>1. pc[c] \in Sending /\ pc' = [pc EXCEPT ![c] = Awaits[pc[c]]]
          BY <2>3 DEF Send
    <3>2. Awaits[pc[c]] \in Awaiting
          BY <3>1 DEF Sending, Awaits, Awaiting
    <3>3. pc'[p] \in {pc[p]} \cup Awaiting
          BY <1>1, <3>1, <3>2 DEF Types
    <3>4. QED
          BY <3>3 DEF Awaiting
  <2>4. QED
        BY <2>1, <2>2, <2>3
<1>5. CASE \E c \in Clients : RequestNotSent(c) \/ GiveUp(c) \/ Interrupt(c)
  <2>1. PICK c \in Clients : RequestNotSent(c) \/ GiveUp(c) \/ Interrupt(c)
        BY <1>5
  <2>2. Failure(c) \in {"refused", "partial"} /\ {"refused", "partial", "killed"} \subseteq PlaceNames
        BY DEF Failure, PlaceNames, Ended
  <2>3. QED
        BY <1>2, <1>3, <2>1, <2>2 DEF RequestNotSent, GiveUp, Interrupt, Failure
<1>6. CASE \E c \in Clients : LoopEnds(c)
  <2>1. PICK c \in Clients : LoopEnds(c)
        BY <1>6
  <2>2. \E place \in PlaceNames : Goto(c, place, got[c]) /\ (c \in Imports => place = "write")
        BY <2>1, CommandsAssumption DEF LoopEnds, PlaceNames, Ended, Clients
  <2>3. QED
        BY <1>2, <1>3, <2>2
<1>7. CASE \E q \in Imports : Check(q) \/ WriteManifest(q)
  <2>1. PICK q \in Imports : Check(q) \/ WriteManifest(q)
        BY <1>7
  <2>2. q \in Clients /\ {"refused", "store", "ok", "unrecorded"} \subseteq PlaceNames
        BY DEF Clients, PlaceNames, Sending, Ended
  <2>3. CASE Check(q)
        BY <1>2, <1>3, <2>2, <2>3 DEF Check
  <2>4. CASE WriteManifest(q)
        BY <1>2, <1>3, <2>2, <2>4 DEF WriteManifest
  <2>5. QED
        BY <2>1, <2>3, <2>4
<1>8. CASE \E ok \in BOOLEAN : dispatch(ok)
  <2>1. PICK ok \in BOOLEAN : dispatch(ok)
        BY <1>8
  <2>2. backlog[1].from # None
        BY <2>1, DispatchEffect DEF Answer
  <2>3. PICK c \in Clients :
             /\ c = backlog[1].from /\ pc[c] \in Awaiting
             /\ done' = IF ok /\ pc[c] # "listing" THEN [done EXCEPT ![c] = @ + 1] ELSE done
        BY <2>1, <2>2, AnswerEffect
  <2>4. c = p /\ pc'[p] = IF ok THEN Resumes[pc[p]] ELSE Failure(p)
        BY <1>3, <2>1, <2>2, <2>3, AnswerEffect
  <2>5. ~ok /\ pc[p] = "storing" /\ pc'[p] = "partial"
        BY <2>3, <2>4 DEF Awaiting, Resumes, Failure
  <2>6. QED
        BY <2>1, <2>3, <2>5, DispatchEffect
<1>9. CASE DaemonDies \/ UNCHANGED vars
      BY <1>9 DEF DaemonDies, vars
<1>10. QED
      BY <1>4, <1>5, <1>6, <1>7, <1>8, <1>9 DEF Next, Continue, Finished

\* What holds when an import ends.  After a failed set, the keys its message
\* lists as stored have its values; after a manifest that could not be written
\* every variable has, and the manifest declares what it did; after a success
\* every variable has and is declared under its own key (cmd_import).
THEOREM ReportTrue == SerialSpec => ReportIsTrue
<1>1. AllInv /\ [SerialNext]_vars =>
          [\A p \in Imports : pc'[p] # pc[p] =>
              /\ pc'[p] = "partial" => \A i \in 1..done'[p] : db'[file[p][i]] = Stamp(p)
              /\ pc'[p] \in {"unrecorded", "ok"} =>
                    \A n \in Range(file[p]) :
                        /\ db'[n] = Stamp(p)
                        /\ manifest'[n] = IF pc'[p] = "ok" THEN n ELSE text[p][n]]_vars
  <2> SUFFICES ASSUME AllInv, [SerialNext]_vars, NEW p \in Imports, pc'[p] # pc[p]
      PROVE  /\ pc'[p] = "partial" => \A i \in 1..done'[p] : db'[file[p][i]] = Stamp(p)
             /\ pc'[p] \in {"unrecorded", "ok"} =>
                   \A n \in Range(file[p]) :
                       /\ db'[n] = Stamp(p)
                       /\ manifest'[n] = IF pc'[p] = "ok" THEN n ELSE text[p][n]
      OBVIOUS
  <2>1. /\ p \in Clients /\ done[p] \in Nat /\ file[p] \in FileList
        /\ ManifestOf(p) /\ FoundOf(p) /\ Places
        BY DEF AllInv, Inv, SerialInv, Types, Clients
  <2>2. Len(file[p]) \in Nat /\ DOMAIN file[p] = 1..Len(file[p])
        BY <2>1, FileLists
  <2>3. \/ pc'[p] \notin {"partial", "unrecorded", "ok"}
        \/ pc'[p] = "partial" /\ pc[p] \in {"store", "storing"} /\ UNCHANGED <<db, done>>
        \/ pc'[p] \in {"unrecorded", "ok"} /\ WriteManifest(p)
        BY SerialIsNext, ReportComesFrom DEF AllInv
  <2>4. CASE pc'[p] = "partial" /\ pc[p] \in {"store", "storing"} /\ UNCHANGED <<db, done>>
    <3>1. done[p] <= Len(file[p])
          BY <2>1, <2>2, <2>4 DEF Places
    <3>2. \A i \in 1..done[p] : i \in 1..Len(file[p]) /\ i <= done[p]
          BY <2>1, <2>2, <3>1
    <3>3. QED
          BY <2>1, <2>4, <3>2 DEF FoundOf
  <2>5. CASE pc'[p] \in {"unrecorded", "ok"} /\ WriteManifest(p)
    <3>1. /\ pc[p] = "write" /\ db' = db /\ done[p] = Len(file[p])
          /\ text[p] = manifest
          BY <2>1, <2>5 DEF WriteManifest, Places, ManifestOf, Ended
    <3>2. manifest' = IF pc'[p] = "ok" THEN Edited(p) ELSE text[p]
      <4>1. \A place : Goto(p, place, NoValues) => pc'[p] = place
            BY <2>1 DEF Goto, AllInv, Inv, Types
      <4>2. CASE pc'[p] = "ok"
            BY <2>5, <3>1, <4>1, <4>2 DEF WriteManifest
      <4>3. CASE pc'[p] = "unrecorded"
            BY <2>5, <3>1, <4>1, <4>3 DEF WriteManifest
      <4>4. QED
            BY <2>5, <4>2, <4>3
    <3>3. \A i \in 1..Len(file[p]) : /\ db[file[p][i]] = Stamp(p)
                                     /\ Edited(p)[file[p][i]] = file[p][i]
          BY <2>1, <2>2, <3>1 DEF FoundOf, ManifestOf
    <3>4. QED
          BY <2>2, <2>5, <3>1, <3>2, <3>3 DEF Range
  <2>6. QED
        BY <2>3, <2>4, <2>5
<1>2. QED
      BY <1>1, SerialInductive, PTL DEF SerialSpec, ReportIsTrue


-----------------------------------------------------------------------------
(* What exec sees of the only writer *)

LEMMA OrderInit == Init => OrderInv
<1> SUFFICES ASSUME Init PROVE OrderInv
    OBVIOUS
<1>1. Rested /\ Scopes /\ \A p \in Imports : Settled(p)
      BY DEF Init, Rested, Ended, Scopes, Settled, Clients
<1>2. \A c \in Clients, k \in Keys : got[c][k] = None
      BY DEF Init, NoValues
<1>3. Fetched
      BY <1>2, CommandsAssumption DEF Fetched, Stamped
<1>4. \A p \in Imports, e \in Execs : SeenInOrder(e, p)
      BY DEF Init, SeenInOrder, Clients
<1>5. QED
      BY <1>1, <1>3, <1>4 DEF OrderInv

\* The store has the only writer's variables in the order of its file.
LEMMA StoredInOrder ==
    ASSUME Inv, NEW p \in Imports, Settled(p), Sole(p),
           NEW i \in 1..Len(file[p]), NEW j \in 1..Len(file[p]),
           i < j, db[file[p][j]] = Stamp(p)
    PROVE  db[file[p][i]] = Stamp(p)
<1>1. /\ file[p] \in FileList /\ Len(file[p]) \in Nat /\ done[p] \in Nat
      /\ file[p][j] \in Keys
      BY FileLists DEF Inv, Types, Clients, Keys
<1>2. file[p][j] \in Reached(p)
      BY <1>1 DEF Inv, Progress, Touched
<1>3. PICK n \in (done[p] + 1) .. (done[p] + 1) \cup 1..done[p] :
          n \in 1..Len(file[p]) /\ file[p][n] = file[p][j]
      BY <1>1, <1>2 DEF Reached
<1>4. n = j
      BY <1>1, <1>3 DEF FileList
<1>5. i <= done[p]
      BY <1>1, <1>3, <1>4
<1>6. QED
      BY <1>5 DEF Settled

\* A step that stores nothing and makes no request: its command goes on with
\* what it has fetched, or without any of it.
LEMMA OrderKeeps ==
    ASSUME Inv, OrderInv, NEW c \in Clients \cup {None}, Alone(c), UNCHANGED <<run, db>>,
           NEW s \in Nat, Remains(s),
           c \in Clients =>
              /\ run[c] # 0 /\ pc'[c] # "fetching"
              /\ \/ got'[c] = NoValues
                 \/ got'[c] = got[c] /\ text'[c] = text[c] /\ pc'[c] \notin Ended
              /\ file'[c] \in {file[c], <<>>} /\ done'[c] = done[c]
              /\ c \in Imports => option'[c] = option[c]
    PROVE  OrderInv'
<1> USE DEF OrderInv, Inv
<1>1. /\ None \notin Clients /\ Imports \subseteq Clients /\ Execs \subseteq Clients
      /\ \A k \in Keys : NoValues[k] = None
      BY CommandsAssumption DEF Clients, NoValues
<1>2. Rested'
      BY <1>1 DEF Rested, Alone
<1>3. Fetched'
      BY <1>1, CommandsAssumption DEF Fetched, Used, Alone, Stamped
<1>4. Scopes'
  <2> SUFFICES ASSUME NEW i \in 1..Len(backlog'), NEW d, d = backlog'[i].from,
                      d # None, pc'[d] = "fetching"
      PROVE  AsksScope(d, backlog[i].keys)'
      BY DEF Scopes
  <2>1. i + s \in 1..Len(backlog) /\ backlog[i + s].from = d /\ backlog'[i].keys = backlog[i + s].keys
        BY DEF Remains
  <2>2. d \in Clients \ {c}
        BY <1>1, <2>1, QueueType
  <2>3. QED
        BY <2>1, <2>2 DEF Scopes, Alone, AsksScope, Scope
<1>5. ASSUME NEW p \in Imports
      PROVE  /\ Stamp(p)' = Stamp(p) /\ Sole(p)' = Sole(p)
             /\ done'[p] = done[p] /\ file'[p] \in {file[p], <<>>}
      BY <1>1 DEF Alone, Stamp, Sole
<1>6. ASSUME NEW p \in Imports
      PROVE  Settled(p)'
  <2> SUFFICES ASSUME Sole(p)
      PROVE  /\ \A i \in 1..Len(file'[p]) : i <= done[p] => db[file'[p][i]] = Stamp(p)
             /\ done[p] > 0 => \A i \in 1..Len(backlog') :
                  backlog'[i].op # "read" =>
                      backlog'[i].op = "set" /\ backlog'[i].value = Stamp(p)
      BY <1>5 DEF Settled
  <2>1. \A i \in 1..Len(file'[p]) : file'[p] = file[p]
        BY <1>5
  <2>2. QED
        BY <2>1 DEF Settled, Remains
<1>7. ASSUME NEW p \in Imports, NEW e \in Execs
      PROVE  SeenInOrder(e, p)'
  <2> SUFFICES ASSUME Sole(p), NEW i \in 1..Len(file'[p]), NEW j \in 1..Len(file'[p]), i < j,
                      {file'[p][i], file'[p][j]} \subseteq Scope(e)',
                      got'[e][file'[p][j]] = Stamp(p)
      PROVE  got'[e][file'[p][i]] = Stamp(p)
      BY <1>5 DEF SeenInOrder
  <2>1. file'[p] = file[p]
        BY <1>5
  <2>2. file[p][j] \in Keys /\ Stamp(p) # None
        BY <1>1, <2>1, FileLists, StampType DEF Types, Keys
  <2>3. got'[e] # NoValues
        BY <1>1, <2>1, <2>2
  <2>4. got'[e] = got[e] /\ text'[e] = text[e]
        BY <1>1, <2>3 DEF Alone
  <2>5. QED
        BY <2>1, <2>4 DEF SeenInOrder, Scope
<1>8. QED
      BY <1>2, <1>3, <1>4, <1>6, <1>7

LEMMA StartOrder ==
    ASSUME Inv, OrderInv, NEW c \in Clients, Start(c)
    PROVE  OrderInv'
<1> USE DEF OrderInv, Inv
<1>1. /\ pc[c] \in Ended
      /\ run' = [run EXCEPT ![c] = @ + 1] /\ done' = [done EXCEPT ![c] = 0]
      /\ UNCHANGED <<db, backlog, got>>
      /\ \A d \in Clients \ {c} :
            /\ pc'[d] = pc[d] /\ option'[d] = option[d] /\ file'[d] = file[d]
            /\ text'[d] = text[d]
      BY StartEffect
<1>2. /\ Imports \subseteq Clients /\ Execs \subseteq Clients /\ Writers \subseteq Clients
      /\ c \in Writers \/ c \in Execs
      /\ Writers \cap Execs = {}
      /\ \A d \in Clients : run[d] \in Nat /\ done[d] \in Nat
      BY CommandsAssumption DEF Clients, Writers, Types
<1>3. /\ run'[c] = run[c] + 1 /\ run'[c] # 0 /\ done'[c] = 0 /\ got[c] = NoValues
      /\ \A d \in Clients \ {c} : run'[d] = run[d] /\ done'[d] = done[d]
      BY <1>1, <1>2 DEF Types, Rested
<1>4. Rested'
      BY <1>1, <1>3 DEF Rested
<1>5. Fetched'
  <2>1. \A v \in Stamped : v[1] \in Clients /\ v[2] \in Nat
        BY DEF Stamped
  <2>2. \A v \in Stamped : Used(v) => Used(v)'
        BY <1>2, <1>3, <2>1 DEF Used
  <2>3. QED
        BY <1>1, <2>2 DEF Fetched
<1>6. Scopes'
  <2> SUFFICES ASSUME NEW i \in 1..Len(backlog), NEW d, d = backlog[i].from,
                      d # None, pc'[d] = "fetching"
      PROVE  AsksScope(d, backlog[i].keys)'
      BY <1>1 DEF Scopes
  <2>1. d \in Clients /\ pc[d] \in Awaiting
        BY QueueType DEF Mailbox
  <2>2. d # c
        BY <1>1, <2>1 DEF Awaiting, Ended
  <2>3. QED
        BY <1>1, <2>1, <2>2 DEF Scopes, AsksScope, Scope
<1>7. ASSUME NEW p \in Imports, Sole(p)', p # c
      PROVE  /\ c \in Execs /\ Sole(p) /\ Stamp(p)' = Stamp(p)
             /\ file'[p] = file[p] /\ done'[p] = done[p]
  <2>1. c \notin Writers
        BY <1>3, <1>7 DEF Sole
  <2>2. Sole(p)
        BY <1>2, <1>3, <1>7, <2>1 DEF Sole
  <2>3. QED
        BY <1>1, <1>2, <1>3, <1>7, <2>1, <2>2 DEF Stamp
<1>8. ASSUME NEW p \in Imports
      PROVE  Settled(p)'
  <2>1. CASE p = c
        BY <1>3, <2>1 DEF Settled
  <2>2. CASE p # c
        BY <1>1, <1>7, <2>2 DEF Settled
  <2>3. QED
        BY <2>1, <2>2
<1>9. ASSUME NEW p \in Imports, NEW e \in Execs
      PROVE  SeenInOrder(e, p)'
  <2> SUFFICES ASSUME Sole(p)', NEW i \in 1..Len(file'[p]), NEW j \in 1..Len(file'[p]), i < j,
                      {file'[p][i], file'[p][j]} \subseteq Scope(e)',
                      got[e][file'[p][j]] = Stamp(p)'
      PROVE  got[e][file'[p][i]] = Stamp(p)'
      BY <1>1 DEF SeenInOrder
  <2>1. file'[p][j] \in Keys
        BY DEF Scope, Keys
  <2>2. Stamp(p)' = <<p, run'[p], option'[p]>>
        BY DEF Stamp
  <2>3. p # c
    <3>1. SUFFICES ASSUME p = c PROVE FALSE
          OBVIOUS
    <3>2. option'[p] \in Options
          BY <1>2, StartEffect DEF LocalTypes
    <3>3. Stamp(p)' \in Stamped /\ Stamp(p)'[1] = p /\ Stamp(p)'[2] = run[p] + 1
          BY <1>2, <1>3, <2>2, <3>1, <3>2 DEF Stamped
    <3>4. Used(Stamp(p)')
          BY <1>2, <2>1, <3>3 DEF Fetched
    <3>5. QED
          BY <1>2, <3>3, <3>4 DEF Used
  <2>4. e # c
    <3>1. SUFFICES ASSUME e = c PROVE FALSE
          OBVIOUS
    <3>2. Stamp(p)' = None
          BY <1>3, <2>1, <3>1 DEF NoValues
    <3>3. Stamp(p)' # None
          BY <1>2, <1>7, <2>3, StampType
    <3>4. QED
          BY <3>2, <3>3
  <2>5. QED
        BY <1>1, <1>2, <1>7, <2>3, <2>4, SMTT(30) DEF SeenInOrder, Scope
<1>10. QED
      BY <1>4, <1>5, <1>6, <1>8, <1>9

LEMMA SendOrder ==
    ASSUME Inv, OrderInv, NEW c \in Clients, Send(c)
    PROVE  OrderInv'
<1> USE DEF OrderInv, Inv
<1> DEFINE r == Request(c)
<1>1. /\ pc[c] \in Sending /\ MaySend(c)
      /\ pc' = [pc EXCEPT ![c] = Awaits[pc[c]]]
      /\ UNCHANGED <<manifest, db, run, option, file, unfit, text, got, done>>
      BY DEF Send
<1>2. /\ r \in Queueable /\ r.from = c /\ r.value = Stamp(c)
      /\ pc[c] # "store" => r.op = "read"
      /\ pc[c] = "store" => r.op = IF option[c] = "delete" THEN "delete" ELSE "set"
      BY <1>1, RequestType DEF Sending
<1>3. pc[c] = "fetch" => AsksScope(c, r.keys)
  <2> SUFFICES ASSUME pc[c] = "fetch" PROVE AsksScope(c, r.keys)
      OBVIOUS
  <2>1. done[c] \in Nat /\ done[c] < Len(get_many(c))
        BY <1>1 DEF MaySend, Types
  <2>2. done[c] + 1 \in 1..Len(get_many(c))
        BY <2>1, GetManyType
  <2>3. r.keys = get_many(c)[done[c] + 1]
        BY DEF Request
  <2>4. QED
        BY <2>2, <2>3, GetManyType
<1> HIDE DEF r
<1>4. /\ Len(backlog') = Len(backlog) + 1
      /\ \A i \in 1..Len(backlog) : backlog'[i] = backlog[i]
      /\ backlog'[Len(backlog) + 1] = r
      /\ \A i \in 1..Len(backlog') : i # Len(backlog) + 1 => i \in 1..Len(backlog)
      BY <1>2, AppendProperties, QueueType DEF Send, Types, r
<1>5. /\ pc'[c] \in Awaiting /\ (pc'[c] = "fetching" <=> pc[c] = "fetch")
      /\ \A d \in Clients \ {c} : pc'[d] = pc[d]
      BY <1>1 DEF Sending, Awaits, Awaiting, Types
<1>6. pc[c] \notin Ended /\ run[c] # 0
      BY <1>1 DEF Sending, Ended, Rested
<1>7. Rested' /\ Fetched'
      BY <1>1, <1>5, <1>6 DEF Rested, Fetched, Used, Awaiting, Ended
<1>8. Scopes'
  <2> SUFFICES ASSUME NEW i \in 1..Len(backlog'), NEW d, d = backlog'[i].from,
                      d # None, pc'[d] = "fetching"
      PROVE  \/ backlog'[i].keys \cap Names = {}
             \/ Scope(d) \subseteq backlog'[i].keys
      BY <1>1 DEF Scopes, AsksScope, Scope
  <2>1. CASE i = Len(backlog) + 1
        BY <1>2, <1>3, <1>4, <1>5, <2>1 DEF AsksScope
  <2>2. CASE i # Len(backlog) + 1
    <3>1. i \in 1..Len(backlog) /\ backlog'[i] = backlog[i]
          BY <1>4, <2>2
    <3>2. d \in Clients /\ pc[d] \in Awaiting
          BY <3>1, QueueType DEF Mailbox
    <3>3. d # c
          BY <1>1, <3>2 DEF Sending, Awaiting
    <3>4. QED
          BY <1>5, <3>1, <3>2, <3>3 DEF Scopes, AsksScope
  <2>3. QED
        BY <2>1, <2>2
<1>9. ASSUME NEW p \in Imports
      PROVE  Settled(p)'
  <2>1. Stamp(p)' = Stamp(p) /\ (Sole(p)' <=> Sole(p))
        BY <1>1 DEF Stamp, Sole
  <2> SUFFICES ASSUME Sole(p), done[p] > 0, NEW i \in 1..Len(backlog'), backlog'[i].op # "read"
      PROVE  backlog'[i].op = "set" /\ backlog'[i].value = Stamp(p)
      BY <1>1, <2>1 DEF Settled
  <2>2. CASE i = Len(backlog) + 1
    <3>1. pc[c] = "store" /\ r.op # "read"
          BY <1>2, <1>4, <2>2
    <3>2. c \in Writers
          BY <3>1 DEF Places, Writers, Clients, Ended
    <3>3. c = p
          BY <1>6, <3>2 DEF Sole
    <3>4. r.op = "set"
          BY <1>2, <3>1, <3>3 DEF Places
    <3>5. QED
          BY <1>2, <1>4, <2>2, <3>3, <3>4
  <2>3. CASE i # Len(backlog) + 1
        BY <1>4, <2>3 DEF Settled
  <2>4. QED
        BY <2>2, <2>3
<1>10. \A p \in Imports, e \in Execs : SeenInOrder(e, p)'
      BY <1>1 DEF SeenInOrder, Scope, Stamp, Sole
<1>11. QED
      BY <1>7, <1>8, <1>9, <1>10

\* The client that is answered takes what was read, or gives everything up.
LEMMA AnswerTakes ==
    ASSUME Inv, NEW ok \in BOOLEAN, dispatch(ok)
    PROVE  \E c \in Clients \cup {None} :
              /\ c = backlog[1].from /\ Alone(c)
              /\ c \in Clients =>
                    /\ pc[c] \in Awaiting /\ pc'[c] \notin Awaiting
                    /\ \/ pc'[c] \in Ended /\ got'[c] = NoValues
                       \/ /\ pc'[c] \notin Ended /\ text'[c] = text[c]
                          /\ got'[c] = Reply(backlog[1], c)
                    /\ file'[c] \in {file[c], <<>>}
                    /\ c \in Imports => option'[c] = option[c]
                    /\ \/ done'[c] = done[c]
                       \/ /\ done'[c] = done[c] + 1 /\ pc[c] # "listing"
                          /\ pc[c] = "storing" => pc'[c] = "store"
<1> USE DEF Inv
<1>1. 1 \in 1..Len(backlog) /\ Answer(backlog[1], ok) /\ run' = run
      BY DispatchEffect
<1>2. CASE backlog[1].from = None
  <2>1. UNCHANGED <<pc, got, text, file, unfit, option, done>>
        BY <1>1, <1>2 DEF Answer
  <2>2. Alone(None)
        BY <1>1, <2>1 DEF Alone
  <2>3. QED
        BY <1>2, <2>2, CommandsAssumption
<1>3. CASE backlog[1].from # None
  <2> DEFINE c == backlog[1].from
  <2>1. c \in Clients /\ pc[c] \in Awaiting
        BY <1>3, AnswerEffect
  <2>2. PICK place \in PlaceNames \ Awaiting, values \in [Keys -> DbValues] :
                 /\ Goto(c, place, values)
                 /\ values = Reply(backlog[1], c)
                 /\ place = IF ok THEN Resumes[pc[c]] ELSE Failure(c)
        BY <1>3, AnswerEffect
  <2>3. done' = IF ok /\ pc[c] # "listing" THEN [done EXCEPT ![c] = @ + 1] ELSE done
        BY <1>3, AnswerEffect
  <2> HIDE DEF c
  <2>4. /\ \A d \in Clients \ {c} :
              /\ pc'[d] = pc[d] /\ option'[d] = option[d] /\ file'[d] = file[d]
              /\ unfit'[d] = unfit[d] /\ text'[d] = text[d] /\ got'[d] = got[d]
        /\ pc'[c] = place
        /\ c \in Imports => option'[c] = option[c]
        /\ place \notin Ended => text'[c] = text[c] /\ got'[c] = values
        BY <2>1, <2>2, GotoEffect
  <2>5. place \in Ended => got'[c] = NoValues
        BY <2>1, <2>2 DEF Goto, Types
  <2>6. file'[c] \in {file[c], <<>>}
        BY <2>1, <2>2 DEF Goto, Types
  <2>7. /\ \A d \in Clients \ {c} : done'[d] = done[d]
        /\ \/ done'[c] = done[c]
           \/ ok /\ done'[c] = done[c] + 1 /\ pc[c] # "listing"
        BY <2>1, <2>3 DEF Types
  <2>8. ok /\ pc[c] = "storing" => place = "store"
        BY <2>2 DEF Resumes
  <2>9. Alone(c)
        BY <1>1, <2>4, <2>7 DEF Alone
  <2>10. QED
        BY <2>1, <2>2, <2>4, <2>5, <2>6, <2>7, <2>8, <2>9 DEF c
<1>4. QED
      BY <1>2, <1>3

LEMMA DispatchOrder ==
    ASSUME AllInv, SerialInv', OrderInv, NEW ok \in BOOLEAN, dispatch(ok)
    PROVE  OrderInv'
<1> USE DEF AllInv, OrderInv, Inv
<1>1. /\ 1 \in 1..Len(backlog) /\ Remains(1) /\ run' = run
      /\ \A i \in 1..Len(backlog') : backlog'[i] = backlog[i + 1] /\ i + 1 \in 1..Len(backlog)
      /\ \A k \in Keys :
            \/ db'[k] = db[k]
            \/ ok /\ k \in backlog[1].keys /\ backlog[1].op = "delete" /\ db'[k] = None
            \/ /\ ok /\ k \in backlog[1].keys /\ backlog[1].op = "set"
               /\ db'[k] = backlog[1].value
      /\ ~ok \/ backlog[1].op = "read" => db' = db
      BY DispatchEffect DEF Remains
<1>2. PICK c \in Clients \cup {None} :
              /\ c = backlog[1].from /\ Alone(c)
              /\ c \in Clients =>
                    /\ pc[c] \in Awaiting /\ pc'[c] \notin Awaiting
                    /\ \/ pc'[c] \in Ended /\ got'[c] = NoValues
                       \/ /\ pc'[c] \notin Ended /\ text'[c] = text[c]
                          /\ got'[c] = Reply(backlog[1], c)
                    /\ file'[c] \in {file[c], <<>>}
                    /\ c \in Imports => option'[c] = option[c]
                    /\ \/ done'[c] = done[c]
                       \/ /\ done'[c] = done[c] + 1 /\ pc[c] # "listing"
                          /\ pc[c] = "storing" => pc'[c] = "store"
      BY AnswerTakes
<1>3. /\ None \notin Clients /\ Imports \subseteq Clients /\ Execs \subseteq Clients
      /\ Imports \cap Execs = {} /\ Imports \cap Setters = {} /\ Setters \cap Execs = {}
      BY CommandsAssumption DEF Clients
<1>4. c \in Clients => run[c] # 0
      BY <1>2 DEF Rested, Awaiting, Ended
<1>5. Rested'
      BY <1>1, <1>2, <1>4 DEF Rested, Alone
<1>6. Fetched'
  <2> SUFFICES ASSUME NEW d \in Clients, NEW k \in Keys, got'[d][k] \in Stamped
      PROVE  Used(got'[d][k])
      BY <1>1 DEF Fetched, Used
  <2>1. got'[d][k] \in {got[d][k], NoValues[k], db[k]}
        BY <1>2 DEF Alone, Reply
  <2>2. NoValues[k] \notin Stamped
        BY CommandsAssumption DEF NoValues, Stamped
  <2>3. QED
        BY <2>1, <2>2 DEF Fetched, Stamping
<1>7. Scopes'
  <2> SUFFICES ASSUME NEW i \in 1..Len(backlog'), NEW d, d = backlog'[i].from,
                      d # None, pc'[d] = "fetching"
      PROVE  \/ backlog'[i].keys \cap Names = {}
             \/ Scope(d)' \subseteq backlog'[i].keys
      BY DEF Scopes, AsksScope
  <2>1. i + 1 \in 1..Len(backlog) /\ backlog[i + 1] = backlog'[i]
        BY <1>1
  <2>2. d \in Clients /\ d # c
        BY <1>2, <2>1, QueueType DEF Awaiting
  <2>3. QED
        BY <1>2, <2>1, <2>2 DEF Scopes, Alone, AsksScope, Scope
<1>8. ASSUME NEW p \in Imports
      PROVE  /\ Stamp(p)' = Stamp(p) /\ (Sole(p)' <=> Sole(p))
             /\ file'[p] \in {file[p], <<>>}
      BY <1>1, <1>2, <1>3 DEF Alone, Stamp, Sole
<1>9. ASSUME NEW p \in Imports, Sole(p)
      PROVE  Settled(p)'
  <2>1. done[p] \in Nat /\ Len(<<>>) = 0 /\ Len(backlog) \in Nat
        BY <1>3, QueueType DEF Types
  <2>2. CASE done'[p] = done[p]
    <3>1. ASSUME NEW i \in 1..Len(file'[p]), i <= done[p]
          PROVE  db'[file'[p][i]] = Stamp(p)
      <4>1. file'[p] = file[p] /\ i \in 1..Len(file[p]) /\ done[p] > 0
            BY <1>8, <2>1, <3>1
      <4>2. file[p][i] \in Keys
            BY <1>3, <4>1, FileLists DEF Types, Keys
      <4>3. db[file[p][i]] = Stamp(p)
            BY <1>9, <3>1, <4>1 DEF Settled
      <4>4. backlog[1].op # "read" => backlog[1].op = "set" /\ backlog[1].value = Stamp(p)
            BY <1>1, <1>9, <4>1 DEF Settled
      <4>5. QED
            BY <1>1, <4>1, <4>2, <4>3, <4>4
    <3>2. ASSUME done[p] > 0, NEW i \in 1..Len(backlog'), backlog'[i].op # "read"
          PROVE  backlog'[i].op = "set" /\ backlog'[i].value = Stamp(p)
          BY <1>1, <1>9, <3>2 DEF Settled
    <3>3. QED
          BY <1>8, <2>2, <3>1, <3>2 DEF Settled
  <2>3. CASE done'[p] # done[p]
    <3>1. c = p /\ pc[p] = "storing" /\ pc'[p] = "store"
          BY <1>2, <1>3, <2>3 DEF Alone, Awaiting, Places
    <3>2. \A i \in 1..Len(file'[p]) : i <= done'[p] => db'[file'[p][i]] = Stamp(p)
          BY <1>8, <3>1 DEF SerialInv, FoundOf
    <3>3. \A i \in 1..Len(backlog) : backlog[i].op # "read" => i = 1
      <4>1. \A i \in 1..Len(backlog) : backlog[i].op # "read" => backlog[i].from = p
            BY <3>1 DEF SerialInv, QuietOf
      <4>2. backlog[1].from = p /\ p # None
            BY <1>2, <1>3, <3>1
      <4>3. \A i \in 1..Len(backlog) : backlog[i].from = p => 1 = i
            BY <1>1, <4>2 DEF Mailbox
      <4>4. QED
            BY <4>1, <4>3
    <3>4. \A i \in 1..Len(backlog') : backlog'[i].op = "read"
          BY <1>1, <2>1, <3>3
    <3>5. QED
          BY <1>8, <3>2, <3>4 DEF Settled
  <2>4. QED
        BY <2>2, <2>3
<1>10. \A p \in Imports : Settled(p)'
  <2>1. \A p \in Imports : ~Sole(p)' => Settled(p)'
        BY DEF Settled
  <2>2. QED
        BY <1>8, <1>9, <2>1
<1>11. ASSUME NEW p \in Imports, NEW e \in Execs
       PROVE  SeenInOrder(e, p)'
  <2> SUFFICES ASSUME Sole(p), NEW i \in 1..Len(file'[p]), NEW j \in 1..Len(file'[p]), i < j,
                      {file'[p][i], file'[p][j]} \subseteq Scope(e)',
                      got'[e][file'[p][j]] = Stamp(p)
      PROVE  got'[e][file'[p][i]] = Stamp(p)
      BY <1>8 DEF SeenInOrder
  <2>1. file'[p] = file[p]
        BY <1>8
  <2>2. file[p][i] \in Keys /\ file[p][j] \in Keys /\ Stamp(p) # None
        BY <1>3, <2>1, FileLists, StampType DEF Types, Keys
  <2>3. CASE e # c
        BY <1>2, <1>3, <2>1, <2>3 DEF Alone, SeenInOrder, Scope
  <2>4. CASE e = c
    <3>1. got'[e] # NoValues
          BY <2>1, <2>2 DEF NoValues
    <3>2. text'[e] = text[e] /\ got'[e] = Reply(backlog[1], e)
          BY <1>2, <1>3, <2>4, <3>1
    <3>3. pc[e] = "fetching" /\ backlog[1].op = "read"
          BY <1>1, <1>2, <1>3, <2>4 DEF Places, Mailbox, Awaiting, Ended
    <3>4. AsksScope(e, backlog[1].keys)
          BY <1>1, <1>2, <1>3, <2>4, <3>3 DEF Scopes
    <3>5. {file[p][i], file[p][j]} \subseteq Scope(e) \cap Names
          BY <2>1, <3>2 DEF Scope
    <3>6. \A k \in Keys : got'[e][k] = IF k \in backlog[1].keys THEN db[k] ELSE got[e][k]
          BY <3>2, <3>3 DEF Reply
    <3>7. CASE backlog[1].keys \cap Names = {}
          BY <2>1, <2>2, <3>5, <3>6, <3>7 DEF SeenInOrder
    <3>8. CASE Scope(e) \subseteq backlog[1].keys
      <4>1. db[file[p][j]] = Stamp(p)
            BY <2>1, <2>2, <3>5, <3>6, <3>8
      <4>2. db[file[p][i]] = Stamp(p)
        <5>1. Settled(p) /\ i \in 1..Len(file[p]) /\ j \in 1..Len(file[p])
              BY <2>1
        <5>2. QED
              BY <4>1, <5>1, StoredInOrder
      <4>3. QED
            BY <2>1, <2>2, <3>5, <3>6, <3>8, <4>2
    <3>9. QED
          BY <3>4, <3>7, <3>8 DEF AsksScope
  <2>5. QED
        BY <2>3, <2>4
<1>12. QED
      BY <1>5, <1>6, <1>7, <1>10, <1>11

LEMMA OrderStep == AllInv /\ OrderInv /\ [SerialNext]_vars => OrderInv'
<1> SUFFICES ASSUME AllInv, OrderInv, [SerialNext]_vars PROVE OrderInv'
    OBVIOUS
<1> USE DEF AllInv
<1>1. Types /\ None \notin Clients /\ Imports \subseteq Clients
      BY CommandsAssumption DEF Inv, Clients
<1>2. NoValues \in [Keys -> DbValues] /\ \A c \in Clients : got[c] \in [Keys -> DbValues]
      BY <1>1 DEF NoValues, DbValues, Types
<1>3. CASE DaemonDies \/ UNCHANGED vars
  <2>1. UNCHANGED <<db, pc, run, option, file, unfit, text, got, done>> /\ Remains(0)
        BY <1>1, <1>3, SameQueue, EmptiedQueue DEF DaemonDies, vars
  <2>2. Alone(None)
        BY <2>1 DEF Alone
  <2>3. QED
        BY <1>1, <2>1, <2>2, OrderKeeps
<1>4. ASSUME NEW c \in Clients, NEW place \in PlaceNames \ Awaiting,
             NEW values \in {NoValues, got[c]}, Goto(c, place, values),
             UNCHANGED <<db, run, done>>, pc[c] \notin Ended,
             backlog' \in {backlog, Abandoned(c)}
      PROVE  OrderInv'
  <2>1. /\ \A d \in Clients \ {c} :
              /\ pc'[d] = pc[d] /\ option'[d] = option[d] /\ file'[d] = file[d]
              /\ unfit'[d] = unfit[d] /\ text'[d] = text[d] /\ got'[d] = got[d]
        /\ pc'[c] = place
        /\ c \in Imports => option'[c] = option[c]
        /\ place \notin Ended => text'[c] = text[c] /\ got'[c] = values
        BY <1>1, <1>2, <1>4, GotoEffect
  <2>2. /\ place \in Ended => got'[c] = NoValues
        /\ file'[c] \in {file[c], <<>>}
        BY <1>1, <1>4 DEF Goto, Types
  <2>3. Alone(c)
        BY <1>4, <2>1 DEF Alone
  <2>4. Remains(0)
        BY <1>1, <1>4, SameQueue, AbandonedQueue
  <2>5. run[c] # 0
        BY <1>4 DEF OrderInv, Rested
  <2>6. pc'[c] # "fetching"
        BY <1>4, <2>1 DEF Awaiting
  <2>7. \/ got'[c] = NoValues
        \/ got'[c] = got[c] /\ text'[c] = text[c] /\ pc'[c] \notin Ended
        BY <1>4, <2>1, <2>2
  <2>8. done' = done /\ run' = run /\ db' = db
        BY <1>4
  <2>9. QED
        BY <2>1, <2>2, <2>3, <2>4, <2>5, <2>6, <2>7, <2>8, OrderKeeps
<1>5. ASSUME NEW c \in Clients, RequestNotSent(c) \/ GiveUp(c) \/ Interrupt(c)
      PROVE  OrderInv'
  <2>1. PICK place \in {"refused", "partial", "killed"} : Goto(c, place, NoValues)
        BY <1>5 DEF RequestNotSent, GiveUp, Interrupt, Failure
  <2>2. /\ UNCHANGED <<db, run, done>> /\ pc[c] \notin Ended
        /\ backlog' \in {backlog, Abandoned(c)}
        BY <1>5 DEF RequestNotSent, GiveUp, Interrupt, Sending, Awaiting, Ended
  <2>3. place \in PlaceNames \ Awaiting
        BY DEF PlaceNames, Awaiting, Ended
  <2>4. QED
        BY <1>4, <2>1, <2>2, <2>3
<1>6. ASSUME NEW c \in Clients, LoopEnds(c) \/ (c \in Imports /\ (Check(c) \/ WriteManifest(c)))
      PROVE  OrderInv'
  <2>1. PICK place \in {"refused", "store", "write", "ok", "unrecorded"},
             values \in {NoValues, got[c]} : Goto(c, place, values)
        BY <1>6, CommandsAssumption DEF LoopEnds, Check, WriteManifest, Clients
  <2>2. UNCHANGED <<db, backlog, run, done>> /\ pc[c] \notin Ended
        BY <1>6 DEF LoopEnds, Check, WriteManifest, Ended
  <2>3. place \in PlaceNames \ Awaiting
        BY DEF PlaceNames, Awaiting, Sending, Ended
  <2>4. QED
        BY <1>4, <2>1, <2>2, <2>3
<1>7. CASE \E c \in Clients : SerialStart(c)
      BY <1>7, StartOrder DEF SerialStart
<1>8. CASE \E c \in Clients : Send(c)
      BY <1>8, SendOrder
<1>9. CASE \E ok \in BOOLEAN : dispatch(ok)
      BY <1>9, SerialStep, DispatchOrder
<1>10. QED
      BY <1>1, <1>3, <1>5, <1>6, <1>7, <1>8, <1>9 DEF SerialNext, Continue, Finished

\* Of an import that is the only command to store anything, an exec sees the
\* first variables of the file and never a later one without them, however
\* often the import is run and broken off (get_many asks for the whole scope
\* at once, cmd_import sets one variable after the other).
THEOREM ImportSeenInOrder == SerialSpec => ExecSeesImportInOrder
<1>1. SerialSpec => []OrderInv
  <2>1. QED
        BY OrderInit, OrderStep, SerialInductive, PTL DEF SerialSpec
<1>2. AllInv /\ OrderInv =>
          [\A e \in Execs, p \in Imports :
              \A i, j \in DOMAIN file[p] :
                  /\ pc[e] # "ok" /\ pc'[e] = "ok" /\ i < j
                  /\ \A c \in (Imports \cup Setters) \ {p} : run[c] = 0
                  /\ {file[p][i], file[p][j]} \subseteq {text[e][n] : n \in Names}
                  /\ got[e][file[p][j]] = Stamp(p)
                  => got[e][file[p][i]] = Stamp(p)]_vars
  <2> SUFFICES ASSUME AllInv, OrderInv, NEW e \in Execs, NEW p \in Imports,
                      NEW i \in DOMAIN file[p], NEW j \in DOMAIN file[p], i < j,
                      \A c \in (Imports \cup Setters) \ {p} : run[c] = 0,
                      {file[p][i], file[p][j]} \subseteq {text[e][n] : n \in Names},
                      got[e][file[p][j]] = Stamp(p)
      PROVE  got[e][file[p][i]] = Stamp(p)
      OBVIOUS
  <2>1. file[p] \in FileList
        BY DEF AllInv, Inv, Types, Clients
  <2>2. i \in 1..Len(file[p]) /\ j \in 1..Len(file[p]) /\ file[p][i] \in Names /\ file[p][j] \in Names
        BY <2>1, FileLists
  <2>3. Sole(p)
        BY DEF Sole, Writers
  <2>4. {file[p][i], file[p][j]} \subseteq Scope(e)
        BY <2>2 DEF Scope
  <2>5. QED
        BY <2>2, <2>3, <2>4 DEF OrderInv, SeenInOrder
<1>3. QED
      BY <1>1, <1>2, SerialInductive, PTL DEF ExecSeesImportInOrder

=============================================================================
