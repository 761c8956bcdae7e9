------------------------------- MODULE Store -------------------------------
(***************************************************************************)
(* The encrypted store (store.cpp) in the one process that has it open,    *)
(* over the file cell that write_file_atomic provides (AtomicCell).        *)
(*                                                                         *)
(* Cryptography is symbolic.  derive_kdf_key is the free term Kdf(pass,    *)
(* salt, params); a sealed box opens with the key that sealed it and with  *)
(* nothing else; randombytes_buf never returns the same value twice.  A    *)
(* version-2 image carries the data key sealed by the KDF key (wrap) and   *)
(* the payload sealed by the data key; in a version-1 image the KDF key    *)
(* seals the payload itself, which is written as the data key 0.           *)
(*                                                                         *)
(* A refused call (wrong passphrase, missing file, absent key, empty new   *)
(* passphrase) throws or returns false before it changes anything: its     *)
(* condition is a guard here.                                              *)
(***************************************************************************)
EXTENDS Naturals

CONSTANTS
    Keys, Values, NoValue,   \* secrets; NoValue: the key is absent
    Passes, EmptyPass,       \* passphrases, among them the empty one
    MaxLevel,                \* crypto_pwhash_*LIMIT_SENSITIVE; 1 is _MIN
    DefaultLevel,            \* kDefaultOpslimit, kDefaultMemlimit
    MaxFresh,                \* bound: values drawn from randombytes_buf
    NoFile, NoStore          \* nothing at the path; no open store

ASSUME LevelAssumption ==
    /\ MaxLevel \in Nat
    /\ DefaultLevel \in 1..MaxLevel
ASSUME MaxFreshAssumption == MaxFresh \in Nat
ASSUME PassAssumption == EmptyPass \in Passes

VARIABLES
    disk,        \* the image at the path
    stable,      \* the images a power cut may leave there
    writing,     \* the image being persisted, per writer of the cell
    outcome,     \* how the last persist stands, per writer of the cell
    store,       \* data_, key_ and env_ of the open Store
    next,        \* the candidate that persist was called with
    fresh,       \* random values drawn so far
    copies,      \* history: envelope and payload key of every image ever there
    acked,       \* history: the contents and passphrase callers rely on
    undo,        \* history: what a power cut may return to, with a warning
    retired      \* history: data keys replaced by a completed rotation

cell == <<disk, stable, writing, outcome>>
history == <<copies, acked, undo, retired>>
vars == <<disk, stable, writing, outcome, store, next, fresh,
          copies, acked, undo, retired>>

Self == "store"

Levels == 1..MaxLevel
Drawn == 0..MaxFresh
Data == [Keys -> Values \cup {NoValue}]
KdfKey == [pass : Passes, salt : Drawn, ops : Levels, mem : Levels]
Envelope == [salt : Drawn, ops : Levels, mem : Levels,
             wrap : [by : KdfKey, key : Drawn]]
StoreObject == [data : Data, key : Drawn, env : Envelope]
Image == [ver : {1, 2}, env : Envelope, by : Drawn, data : Data]
State == [data : Data, pass : Passes]
Copy == [env : Envelope, by : Drawn]

Cell == INSTANCE AtomicCell WITH
    Writers <- {Self}, Values <- Image, NoValue <- NoFile, val <- disk

ASSUME SentinelAssumption ==
    /\ NoValue \notin Values
    /\ NoFile \notin Image
    /\ NoStore \notin StoreObject

EmptyData == [k \in Keys |-> NoValue]

derive_kdf_key(p, env) ==
    [pass |-> p, salt |-> env.salt, ops |-> env.ops, mem |-> env.mem]

check_kdf_params(env) == env.ops \in Levels /\ env.mem \in Levels

\* The stored blob opens under the key derived from p and the header.
unwrap(p, env) == env.wrap.by = derive_kdf_key(p, env)

\* What open() accepts: plausible params, the right passphrase, and a payload
\* sealed by the key that the envelope yields.
Opens(image, p) ==
    /\ check_kdf_params(image.env)
    /\ unwrap(p, image.env)
    /\ image.by = image.env.wrap.key

Draw == fresh + 1

Header(salt, ops, mem) == [salt |-> salt, ops |-> ops, mem |-> mem]

\* An envelope: the salt and the limits, and a data key sealed by a KDF key.
Seal(header, wrapKey, dataKey) ==
    [salt |-> header.salt, ops |-> header.ops, mem |-> header.mem,
     wrap |-> [by |-> wrapKey, key |-> dataKey]]

mint_data_key(wrapKey, env) == Seal(env, wrapKey, Draw)

mint_fresh_envelope(p, ops, mem) ==
    LET header == Header(Draw, ops, mem)
    IN  mint_data_key(derive_kdf_key(p, header), header)

Contents(data, key, env) == [data |-> data, key |-> key, env |-> env]

\* The bytes persist writes for a store object.
Serialize(s) == [ver |-> 2, env |-> s.env, by |-> s.key, data |-> s.data]

\* Mutant: a limit above the plausible ones.
LargerSum(a, b) == a + b

Larger(a, b) == IF a >= b THEN a ELSE b

Idle == next = NoStore
MayDraw == fresh < MaxFresh

\* The contents of an image and the passphrase that opens it.
StateOf(image) == [data |-> image.data, pass |-> image.env.wrap.by.pass]

\* What whoever copied the file has to work on.
CopyOf(image) == [env |-> image.env, by |-> image.by]
-----------------------------------------------------------------------------
\* No store yet, or one an earlier version or run made and synced.
Init ==
    /\ \/ disk = NoFile /\ acked = NoFile /\ copies = {}
       \/ \E v \in {1, 2}, p \in Passes \ {EmptyPass}, o, m \in Levels,
             d \in Data :
             /\ LET header == Header(0, o, m)
                IN  disk = [ver |-> v, by |-> 0, data |-> d,
                            env |-> Seal(header, derive_kdf_key(p, header), 0)]
             /\ acked = [data |-> d, pass |-> p]
             /\ copies = {CopyOf(disk)}
    /\ stable = {disk}
    /\ writing = [w \in {Self} |-> NoFile]
    /\ outcome = [w \in {Self} |-> "none"]
    /\ store = NoStore
    /\ next = NoStore
    /\ fresh = 0
    /\ undo = {}
    /\ retired = {}

\* Every caller hands persist a candidate and adopts it when persist returns.
persist(s) ==
    /\ Idle
    /\ Cell!Start(Self, Serialize(s))
    /\ next' = s
    /\ UNCHANGED <<store, copies, acked, undo, retired>>

\* init: read_passphrase refuses an empty passphrase.
create(p) ==
    /\ store = NoStore
    /\ disk = NoFile
    /\ p # EmptyPass
    /\ MayDraw
    /\ LET env == mint_fresh_envelope(p, DefaultLevel, DefaultLevel)
       IN  persist(Contents(EmptyData, env.wrap.key, env))
    /\ fresh' = Draw

open(p) ==
    /\ store = NoStore
    /\ Idle
    /\ disk # NoFile
    /\ disk.ver = 2
    /\ Opens(disk, p)
    /\ store' = Contents(disk.data, disk.env.wrap.key, disk.env)
    /\ UNCHANGED <<disk, stable, writing, outcome, next, fresh,
                   copies, acked, undo, retired>>

\* open() of a version-1 store: salt and params stay, the data key is new.
open_v1(p) ==
    /\ store = NoStore
    /\ disk # NoFile
    /\ disk.ver = 1
    /\ Opens(disk, p)
    /\ MayDraw
    /\ LET env == mint_data_key(derive_kdf_key(p, disk.env), disk.env)
       IN  persist(Contents(disk.data, env.wrap.key, env))
    /\ fresh' = Draw

\* Mutant: data_ is changed in place, before the write.
SetInPlace(k, v) ==
    /\ store # NoStore
    /\ Idle
    /\ store' = Contents([store.data EXCEPT ![k] = v], store.key, store.env)
    /\ next' = store'
    /\ Cell!Start(Self, Serialize(store'))
    /\ UNCHANGED <<fresh, copies, acked, undo, retired>>

set(k, v) ==
    /\ store # NoStore
    /\ persist(Contents([store.data EXCEPT ![k] = v], store.key, store.env))
    /\ UNCHANGED fresh

remove(k) ==
    /\ store # NoStore
    /\ store.data[k] # NoValue
    /\ persist(Contents([store.data EXCEPT ![k] = NoValue], store.key, store.env))
    /\ UNCHANGED fresh

\* Mutant: the payload is sealed by the key the store already holds.
CommitUnderOldKey(env) ==
    persist(Contents(store.data, store.key, env))

\* The candidate of rotate and change_passphrase: same data, new key.
commit_new_key(env) ==
    persist(Contents(store.data, env.wrap.key, env))

rotate(p) ==
    /\ store # NoStore
    /\ unwrap(p, store.env)
    /\ MayDraw
    /\ commit_new_key(mint_data_key(derive_kdf_key(p, store.env), store.env))
    /\ fresh' = Draw

\* Mutant: the old data key is wrapped again under the new passphrase.
ChangeRewraps(old, new) ==
    /\ store # NoStore
    /\ new # EmptyPass
    /\ unwrap(old, store.env)
    /\ MayDraw
    /\ LET env == mint_fresh_envelope(new, Larger(store.env.ops, DefaultLevel),
                                      Larger(store.env.mem, DefaultLevel))
       IN  commit_new_key([env EXCEPT !.wrap.key = store.key])
    /\ fresh' = Draw

change_passphrase(old, new) ==
    /\ store # NoStore
    /\ new # EmptyPass
    /\ unwrap(old, store.env)
    /\ MayDraw
    /\ commit_new_key(mint_fresh_envelope(new,
                          Larger(store.env.ops, DefaultLevel),
                          Larger(store.env.mem, DefaultLevel)))
    /\ fresh' = Draw

\* write_file_atomic throws: the caller's candidate goes with the stack.
PersistThrows ==
    /\ Cell!Throw(Self)
    /\ next' = NoStore
    /\ UNCHANGED <<store, fresh, copies, acked, undo, retired>>

\* rename publishes the image; anyone may copy the file from now on.
PersistLands ==
    /\ Cell!Land(Self)
    /\ copies' = copies \cup {CopyOf(disk')}
    /\ UNCHANGED <<store, next, fresh, acked, undo, retired>>

\* Mutant: env_ is adopted and key_ is not.
AdoptKeepsKey ==
    /\ Cell!Return(Self)
    /\ store' = IF store = NoStore THEN next ELSE [next EXCEPT !.key = store.key]
    /\ next' = NoStore
    /\ acked' = StateOf(disk)
    /\ undo' = IF outcome'[Self] = "ok" THEN {} ELSE undo \cup {acked}
    /\ retired' = IF store # NoStore /\ store.key # next.key
                  THEN retired \cup {store.key} ELSE retired
    /\ UNCHANGED <<fresh, copies>>

\* persist returns and the caller moves the candidate into the members.
Adopt ==
    /\ Cell!Return(Self)
    /\ store' = next
    /\ next' = NoStore
    /\ acked' = StateOf(disk)
    /\ undo' = IF outcome'[Self] = "ok" THEN {} ELSE undo \cup {acked}
    /\ retired' = IF store # NoStore /\ store.key # next.key
                  THEN retired \cup {store.key} ELSE retired
    /\ UNCHANGED <<fresh, copies>>

\* The process exits or dies.  A landed write stands though nobody was told.
Kill ==
    /\ store # NoStore \/ ~Idle
    /\ IF Idle THEN UNCHANGED cell ELSE Cell!CellKill(Self)
    /\ store' = NoStore
    /\ next' = NoStore
    /\ IF outcome[Self] = "landed"
       THEN acked' = StateOf(disk) /\ undo' = undo \cup {acked}
       ELSE UNCHANGED <<acked, undo>>
    /\ UNCHANGED <<fresh, copies, retired>>

\* A key that an undone rotation brings back is in use again.
PowerCut ==
    /\ Cell!CellPowerCut
    /\ store' = NoStore
    /\ next' = NoStore
    /\ acked' = IF disk' = NoFile THEN NoFile ELSE StateOf(disk')
    /\ undo' = {}
    /\ retired' = IF disk' = NoFile THEN retired ELSE retired \ {disk'.by}
    /\ UNCHANGED <<fresh, copies>>

Next ==
    \/ \E p \in Passes : create(p) \/ open(p) \/ open_v1(p) \/ rotate(p)
    \/ \E old, new \in Passes : change_passphrase(old, new)
    \/ \E k \in Keys, v \in Values : set(k, v)
    \/ \E k \in Keys : remove(k)
    \/ PersistThrows \/ PersistLands \/ Adopt \/ Kill \/ PowerCut

Spec == Init /\ [][Next]_vars
-----------------------------------------------------------------------------
(* Properties *)

TypeOK ==
    /\ disk \in Image \cup {NoFile}
    /\ stable \subseteq Image \cup {NoFile}
    /\ writing \in [{Self} -> Image \cup {NoFile}]
    /\ outcome \in [{Self} -> Cell!Outcomes]
    /\ store \in StoreObject \cup {NoStore}
    /\ next \in StoreObject \cup {NoStore}
    /\ fresh \in Drawn
    /\ copies \subseteq Copy
    /\ acked \in State \cup {NoFile}
    /\ undo \subseteq State \cup {NoFile}
    /\ retired \subseteq Drawn
\* Serialized state of a path that may be missing.
Found(image) == IF image = NoFile THEN NoFile ELSE StateOf(image)
Landed == outcome[Self] = "landed"

\* A failed write never leaves memory ahead of disk, nor behind it: between
\* calls the file is exactly what the open store would write, so its data,
\* its key and its header agree after any mix of failed and completed calls.
MemoryMatchesDisk ==
    store # NoStore /\ Idle => disk = Serialize(store)

\* The file always opens: under the passphrase and with the data of the last
\* call that completed, or of the call that has just replaced the file,
\* wherever the process stops (candidates are persisted before adoption).
CrashKeepsAcked ==
    /\ disk # NoFile => Opens(disk, StateOf(disk).pass)
    /\ ~Landed => Found(disk) = acked
    /\ Landed => StateOf(disk) = StateOf(writing[Self])

\* A power cut returns to an earlier state only if the call that replaced it
\* printed the unsynced-directory warning or had not returned.
PowerCutKeepsAcked ==
    \A image \in stable :
        /\ image # NoFile => Opens(image, StateOf(image).pass)
        /\ \/ Found(image) \in {acked} \cup undo
           \/ Landed /\ image = disk

\* Data keys that passphrase p unwraps from copies of the file taken at any
\* time.
Unwrapped(p) == {c.env.wrap.key : c \in {i \in copies : unwrap(p, i.env)}}

\* passwd answers a leaked passphrase: with every copy ever made, it opens
\* only the copies it was the passphrase of.
OldPassphraseOpensOldCopiesOnly ==
    \A copy \in copies, p \in Passes :
        copy.by \in Unwrapped(p) => unwrap(p, copy.env)

\* rotate bounds a key compromise: a data key that a completed rotate or
\* passwd replaced seals nothing that is written later.
RotatedKeyIsDead ==
    [][PersistLands => disk'.by \notin retired]_vars

\* No call weakens the KDF parameters of a store; passwd raises them to the
\* default at least.
NeverWeakerKdf ==
    [][PersistLands /\ disk # NoFile =>
          /\ disk'.env.ops >= disk.env.ops
          /\ disk'.env.mem >= disk.env.mem]_vars
=============================================================================
