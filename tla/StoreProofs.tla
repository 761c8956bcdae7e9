---------------------------- MODULE StoreProofs ----------------------------
(***************************************************************************)
(* Proofs about Store, for every set of keys, values and passphrases and   *)
(* any number of random draws.  One inductive invariant carries them all:  *)
(* every image anyone may find opens and was told of (Files, Told), memory *)
(* and disk agree between calls (Calls, Memory), and a data key belongs to *)
(* one passphrase, is never drawn again and never used once retired        *)
(* (KeyOwners, Retirement).                                                *)
(***************************************************************************)
EXTENDS Store, TLAPS

Sound(env) == env.wrap.by = derive_kdf_key(env.wrap.by.pass, env)
SoundStore(s) == s.key = s.env.wrap.key /\ Sound(s.env)

\* The call in progress writes its candidate.
Calls ==
    /\ next = NoStore <=> writing[Self] = NoFile
    /\ next # NoStore => writing[Self] = Serialize(next) /\ SoundStore(next)
    /\ Landed => next # NoStore /\ disk = Serialize(next)

\* Memory is what was last adopted, and that was written first.
Memory ==
    store # NoStore =>
        /\ SoundStore(store)
        /\ ~Landed => disk = Serialize(store)
        /\ CopyOf(Serialize(store)) \in copies

Files ==
    /\ disk \in stable
    /\ \A image \in stable :
          image # NoFile =>
              /\ Opens(image, image.env.wrap.by.pass)
              /\ CopyOf(image) \in copies

Told ==
    /\ ~Landed => Found(disk) = acked
    /\ \A image \in stable :
          Found(image) \in {acked} \cup undo \/ (Landed /\ image = disk)

\* Two copies under one data key have one passphrase; the candidate's key is
\* new or the candidate keeps the envelope of a copy.
KeyOwners ==
    /\ \A c \in copies : c.by = c.env.wrap.key /\ Sound(c.env) /\ c.by <= fresh
    /\ \A c, e \in copies : c.by = e.by => c.env.wrap.by.pass = e.env.wrap.by.pass
    /\ next # NoStore =>
          /\ next.key <= fresh
          /\ \/ CopyOf(Serialize(next)) \in copies
             \/ \A c \in copies : c.by # next.key

Retirement ==
    /\ retired \subseteq 0..fresh
    /\ disk # NoFile => disk.by \notin retired
    /\ store # NoStore => store.key \notin retired
    /\ next # NoStore => next.key \notin retired

\* The candidate has no weaker KDF limits than the file it replaces.
Limits ==
    next # NoStore /\ ~Landed /\ disk # NoFile =>
        next.env.ops >= disk.env.ops /\ next.env.mem >= disk.env.mem

StoreInv ==
    /\ TypeOK /\ Calls /\ Memory /\ Files /\ Told
    /\ KeyOwners /\ Retirement /\ Limits
-----------------------------------------------------------------------------
(* The records *)

LEMMA Records ==
    /\ \A s \in StoreObject :
          /\ s.data \in Data /\ s.key \in Drawn /\ s.env \in Envelope
          /\ Serialize(s) \in Image
          /\ Serialize(s) # NoFile
          /\ Serialize(s).by = s.key /\ Serialize(s).env = s.env
          /\ CopyOf(Serialize(s)).by = s.key /\ CopyOf(Serialize(s)).env = s.env
    /\ \A image \in Image :
          /\ image.env \in Envelope /\ image.by \in Drawn /\ image.data \in Data
          /\ StateOf(image) \in State
          /\ CopyOf(image) \in Copy
          /\ CopyOf(image).by = image.by /\ CopyOf(image).env = image.env
    /\ \A env \in Envelope :
          /\ env.ops \in Levels /\ env.mem \in Levels /\ env.wrap.key \in Drawn
          /\ env.wrap.by.pass \in Passes
          /\ \A p \in Passes : derive_kdf_key(p, env) \in KdfKey
BY SentinelAssumption DEF StoreObject, Image, Envelope, KdfKey, State, Copy,
   Serialize, StateOf, CopyOf, derive_kdf_key

\* An envelope sealed by a key derived from its own header is sound.
LEMMA Minted ==
    ASSUME NEW p \in Passes, NEW ops \in Levels, NEW mem \in Levels,
           NEW salt \in Drawn, NEW key \in Drawn, NEW header,
           header.salt = salt, header.ops = ops, header.mem = mem
    PROVE  LET env == Seal(header, derive_kdf_key(p, header), key)
           IN  /\ env \in Envelope /\ Sound(env)
               /\ env.wrap.key = key /\ env.wrap.by.pass = p
               /\ env.salt = salt /\ env.ops = ops /\ env.mem = mem
BY DEF Seal, derive_kdf_key, Envelope, KdfKey, Sound

\* What open() needs to succeed.
LEMMA SoundOpens ==
    ASSUME NEW s \in StoreObject, SoundStore(s)
    PROVE  Opens(Serialize(s), s.env.wrap.by.pass)
BY Records DEF Opens, Serialize, unwrap, check_kdf_params, SoundStore, Sound,
   StoreObject, Envelope
-----------------------------------------------------------------------------
LEMMA StoreInit == Init => StoreInv
<1> SUFFICES ASSUME Init PROVE StoreInv
    OBVIOUS
<1>1. ~Landed
      BY DEF Init, Landed
<1>2. CASE disk = NoFile /\ acked = NoFile /\ copies = {}
      BY <1>1, <1>2, MaxFreshAssumption, SentinelAssumption
      DEF Init, StoreInv, TypeOK, Calls, Memory, Files, Told, KeyOwners,
          Retirement, Limits, Found, Drawn, Cell!Outcomes
<1>3. CASE ~(disk = NoFile /\ acked = NoFile /\ copies = {})
  <2>1. PICK v \in {1, 2}, p \in Passes \ {EmptyPass}, o \in Levels,
             m \in Levels, d \in Data :
           /\ disk = [ver |-> v, by |-> 0, data |-> d,
                      env |-> Seal(Header(0, o, m),
                                   derive_kdf_key(p, Header(0, o, m)), 0)]
           /\ acked = [data |-> d, pass |-> p]
           /\ copies = {CopyOf(disk)}
        BY <1>3 DEF Init
  <2>2. 0 \in Drawn
        BY MaxFreshAssumption DEF Drawn
  <2>3. /\ disk.env \in Envelope /\ Sound(disk.env)
        /\ disk.env.wrap.key = 0 /\ disk.env.wrap.by.pass = p
        BY <2>1, <2>2, Minted DEF Header
  <2>4. disk \in Image /\ disk # NoFile
        BY <2>1, <2>2, <2>3, SentinelAssumption DEF Image
  <2>5. StateOf(disk) = acked /\ acked \in State
        BY <2>1, <2>3 DEF StateOf, State
  <2>6. Opens(disk, disk.env.wrap.by.pass)
        BY <2>1, <2>3, <2>4, Records DEF Opens, check_kdf_params, unwrap, Sound
  <2>7. CopyOf(disk).by = 0 /\ CopyOf(disk).env = disk.env /\ CopyOf(disk) \in Copy
        BY <2>1, <2>4, Records
  <2>8. TypeOK
        BY <2>1, <2>2, <2>4, <2>5, <2>7, MaxFreshAssumption
        DEF Init, TypeOK, Drawn, Cell!Outcomes
  <2>9. Calls /\ Memory /\ Retirement /\ Limits
        BY <1>1 DEF Init, Calls, Memory, Retirement, Limits
  <2>10. Files /\ Told
        BY <1>1, <2>1, <2>4, <2>5, <2>6 DEF Init, Files, Told, Found
  <2>11. KeyOwners
        BY <2>1, <2>3, <2>7 DEF Init, KeyOwners
  <2> QED BY <2>8, <2>9, <2>10, <2>11 DEF StoreInv
<1> QED BY <1>2, <1>3

\* The calls that write: each hands persist a sound candidate, under the key
\* of the open store or under a new one.
Candidate(s) ==
    /\ s \in StoreObject /\ SoundStore(s)
    /\ disk # NoFile => s.env.ops >= disk.env.ops /\ s.env.mem >= disk.env.mem
    /\ \/ fresh' = fresh /\ store # NoStore /\ s.key = store.key /\ s.env = store.env
       \/ fresh' = fresh + 1 /\ fresh < MaxFresh /\ s.key = fresh + 1

Writing == \E s : Candidate(s) /\ persist(s)

WriteCall ==
    \/ \E p \in Passes : create(p) \/ open_v1(p) \/ rotate(p)
    \/ \E p, q \in Passes : change_passphrase(p, q)
    \/ \E k \in Keys, v \in Values : set(k, v)
    \/ \E k \in Keys : remove(k)

LEMMA CallsWrite == ASSUME StoreInv, WriteCall PROVE Writing
<1> USE DEF StoreInv
<1>1. fresh \in 0..MaxFresh /\ (MayDraw => Draw \in Drawn /\ Draw = fresh + 1)
      BY MaxFreshAssumption DEF TypeOK, Drawn, MayDraw, Draw
<1>2. ASSUME NEW k \in Keys, (\E v \in Values : set(k, v)) \/ remove(k)
      PROVE  Writing
  <2>1. store # NoStore /\ Idle /\ fresh' = fresh
        BY <1>2 DEF set, remove, persist
  <2>2. store \in StoreObject /\ SoundStore(store)
        BY <2>1 DEF TypeOK, Memory
  <2>3. ~Landed /\ disk = Serialize(store)
        BY <2>1 DEF Calls, Memory, Idle
  <2>4. PICK d \in Data : persist(Contents(d, store.key, store.env))
        BY <1>2, <2>2, Records DEF set, remove, Data
  <2>5. Candidate(Contents(d, store.key, store.env))
        BY <2>1, <2>2, <2>3, Records DEF Candidate, Contents, StoreObject, SoundStore,
           Levels
  <2> QED BY <2>4, <2>5 DEF Writing
<1>3. ASSUME NEW p \in Passes, create(p) PROVE Writing
  <2> DEFINE env == mint_fresh_envelope(p, DefaultLevel, DefaultLevel)
  <2>1. env \in Envelope /\ Sound(env) /\ env.wrap.key = Draw
        BY <1>1, <1>3, Minted, LevelAssumption
        DEF create, mint_fresh_envelope, mint_data_key, Header, Levels
  <2>2. EmptyData \in Data
        BY DEF EmptyData, Data
  <2>3. Candidate(Contents(EmptyData, env.wrap.key, env))
        BY <1>1, <1>3, <2>1, <2>2
        DEF create, Candidate, Contents, StoreObject, SoundStore, MayDraw
  <2> QED BY <1>3, <2>3 DEF create, Writing
<1>4. ASSUME NEW p \in Passes, open_v1(p) PROVE Writing
  <2>1. disk \in Image /\ disk.env \in Envelope /\ disk.data \in Data
        BY <1>4, Records DEF open_v1, TypeOK
  <2> DEFINE env == mint_data_key(derive_kdf_key(p, disk.env), disk.env)
  <2>2. disk.env.salt \in Drawn
        BY <2>1 DEF Envelope
  <2>3. /\ env \in Envelope /\ Sound(env) /\ env.wrap.key = Draw
        /\ env.ops = disk.env.ops /\ env.mem = disk.env.mem
        BY <1>1, <1>4, <2>1, <2>2, Minted, Records DEF open_v1, mint_data_key
  <2>4. Candidate(Contents(disk.data, env.wrap.key, env))
        BY <1>1, <1>4, <2>1, <2>3, Records
        DEF open_v1, Candidate, Contents, StoreObject, SoundStore, MayDraw, Levels
  <2> QED BY <1>4, <2>4 DEF open_v1, Writing
<1>5. ASSUME NEW env \in Envelope, Sound(env), env.wrap.key = Draw,
             env.ops >= store.env.ops, env.mem >= store.env.mem,
             store # NoStore, MayDraw, fresh' = Draw, commit_new_key(env)
      PROVE  Writing
  <2>1. ~Landed /\ disk = Serialize(store) /\ disk.env = store.env
        BY <1>5, Records DEF commit_new_key, persist, Calls, Memory, Idle, TypeOK
  <2>2. store.data \in Data
        BY <1>5, Records DEF TypeOK
  <2>3. Candidate(Contents(store.data, env.wrap.key, env))
        BY <1>1, <1>5, <2>1, <2>2
        DEF Candidate, Contents, StoreObject, SoundStore, MayDraw
  <2> QED BY <1>5, <2>3 DEF commit_new_key, Writing
<1>6. ASSUME NEW p \in Passes, rotate(p) PROVE Writing
  <2>1. store.env \in Envelope /\ store.env.salt \in Drawn
        BY <1>6, Records DEF rotate, TypeOK, Envelope
  <2> DEFINE env == mint_data_key(derive_kdf_key(p, store.env), store.env)
  <2>2. /\ env \in Envelope /\ Sound(env) /\ env.wrap.key = Draw
        /\ env.ops = store.env.ops /\ env.mem = store.env.mem
        BY <1>1, <1>6, <2>1, Minted, Records DEF rotate, mint_data_key
  <2>3. env.ops >= store.env.ops /\ env.mem >= store.env.mem
        BY <2>1, <2>2, Records DEF Levels
  <2> QED BY <1>5, <1>6, <2>2, <2>3 DEF rotate
<1>7. ASSUME NEW p \in Passes, NEW q \in Passes, change_passphrase(p, q)
      PROVE  Writing
  <2>1. store.env.ops \in Levels /\ store.env.mem \in Levels
        BY <1>7, Records DEF change_passphrase, TypeOK
  <2> DEFINE ops == Larger(store.env.ops, DefaultLevel)
             mem == Larger(store.env.mem, DefaultLevel)
             env == mint_fresh_envelope(q, ops, mem)
  <2>2. /\ ops \in Levels /\ mem \in Levels
        /\ ops >= store.env.ops /\ mem >= store.env.mem
        BY <2>1, LevelAssumption DEF Larger, Levels
  <2> HIDE DEF ops, mem
  <2>3. /\ env \in Envelope /\ Sound(env) /\ env.wrap.key = Draw
        /\ env.ops = ops /\ env.mem = mem
        BY <1>1, <1>7, <2>2, Minted
        DEF change_passphrase, mint_fresh_envelope, mint_data_key, Header
  <2> QED BY <1>5, <1>7, <2>2, <2>3 DEF change_passphrase, ops, mem
<1> QED BY <1>2, <1>3, <1>4, <1>6, <1>7 DEF WriteCall
-----------------------------------------------------------------------------
(* Every step keeps the invariant *)

LEMMA WritingStep == StoreInv /\ Writing => StoreInv'
<1> SUFFICES ASSUME StoreInv, NEW s, Candidate(s), persist(s) PROVE StoreInv'
    BY DEF Writing
<1> USE DEF StoreInv
<1>1. /\ next = NoStore /\ next' = s /\ s \in StoreObject /\ s # NoStore
      /\ writing' = [writing EXCEPT ![Self] = Serialize(s)]
      /\ outcome' = [outcome EXCEPT ![Self] = "none"]
      /\ UNCHANGED <<disk, stable, store, copies, acked, undo, retired>>
      BY SentinelAssumption DEF Candidate, persist, Idle, Cell!Start
<1>2. /\ fresh \in 0..MaxFresh /\ fresh' \in 0..MaxFresh /\ fresh' >= fresh
      /\ s.key <= fresh'
      BY <1>1, MaxFreshAssumption, Records
      DEF Candidate, TypeOK, Drawn, Memory, KeyOwners
<1>3. ~Landed /\ ~Landed'
      BY <1>1 DEF Landed, Calls, TypeOK
<1>4. /\ CopyOf(Serialize(s)) \in copies \/ \A c \in copies : c.by # s.key
      /\ s.key \notin retired
  <2>1. CASE s.key = fresh + 1
        BY <1>2, <2>1 DEF KeyOwners, Retirement
  <2>2. CASE store # NoStore /\ s.key = store.key /\ s.env = store.env
    <3>1. CopyOf(Serialize(s)) = CopyOf(Serialize(store))
          BY <2>2 DEF CopyOf, Serialize
    <3> QED BY <2>2, <3>1 DEF Memory, Retirement
  <2> QED BY <2>1, <2>2 DEF Candidate
<1>5. TypeOK'
      BY <1>1, <1>2, Records DEF TypeOK, Drawn, Cell!Outcomes
<1>6. Calls'
      BY <1>1, <1>3, Records DEF Candidate, Calls, TypeOK, Landed
<1>7. Memory' /\ Files'
      BY <1>1, <1>3 DEF Memory, Files
<1>8. Told'
      BY <1>1, <1>3 DEF Told, Found
<1>9. KeyOwners'
  <2>1. \A c \in copies : c.by <= fresh'
        BY <1>2 DEF KeyOwners, TypeOK, Copy, Drawn
  <2> QED BY <1>1, <1>2, <1>4, <2>1 DEF KeyOwners
<1>10. Retirement'
      BY <1>1, <1>2, <1>4 DEF Retirement
<1>11. Limits'
      BY <1>1 DEF Candidate, Limits
<1> QED BY <1>5, <1>6, <1>7, <1>8, <1>9, <1>10, <1>11

LEMMA OpenStep == ASSUME StoreInv, NEW p \in Passes, open(p) PROVE StoreInv'
<1> USE DEF StoreInv
<1>1. /\ next = NoStore /\ disk # NoFile /\ disk \in Image
      /\ store' = Contents(disk.data, disk.env.wrap.key, disk.env)
      /\ disk.ver = 2 /\ Opens(disk, p)
      /\ UNCHANGED <<disk, stable, writing, outcome, next, fresh, copies, acked,
                      undo, retired>>
      BY DEF open, Idle, TypeOK
<1>2. ~Landed /\ ~Landed'
      BY <1>1 DEF Landed, Calls
<1>3. disk.by = disk.env.wrap.key /\ Sound(disk.env)
      BY <1>1 DEF Files, Opens, unwrap, Sound
<1>4. store' \in StoreObject /\ SoundStore(store')
      BY <1>1, <1>3, Records DEF Contents, StoreObject, SoundStore
<1>5. disk = Serialize(store')
      BY <1>1, <1>3 DEF Serialize, Contents, Image
<1>6. TypeOK'
      BY <1>1, <1>4 DEF TypeOK
<1>7. Memory'
      BY <1>1, <1>4, <1>5, ZenonT(40) DEF Memory, Files
<1>8. Retirement'
      BY <1>1, <1>3 DEF Retirement, Contents
<1> QED BY <1>1, <1>2, <1>6, <1>7, <1>8
        DEF Calls, Files, Told, Found, KeyOwners, Limits

LEMMA ThrowStep == StoreInv /\ PersistThrows => StoreInv'
<1> SUFFICES ASSUME StoreInv, PersistThrows PROVE StoreInv'
    OBVIOUS
<1> USE DEF StoreInv
<1>1. /\ outcome[Self] = "none" /\ next' = NoStore
      /\ writing' = [writing EXCEPT ![Self] = NoFile]
      /\ outcome' = [outcome EXCEPT ![Self] = "threw"]
      /\ UNCHANGED <<disk, stable, store, fresh, copies, acked, undo, retired>>
      BY DEF PersistThrows, Cell!Throw
<1>2. ~Landed /\ ~Landed'
      BY <1>1 DEF Landed, TypeOK
<1>3. TypeOK'
      BY <1>1 DEF TypeOK, Cell!Outcomes
<1>4. Calls'
      BY <1>1, <1>2 DEF Calls, TypeOK
<1> QED BY <1>1, <1>2, <1>3, <1>4
        DEF Memory, Files, Told, Found, KeyOwners, Retirement, Limits

LEMMA LandStep == StoreInv /\ PersistLands => StoreInv'
<1> SUFFICES ASSUME StoreInv, PersistLands PROVE StoreInv'
    OBVIOUS
<1> USE DEF StoreInv
<1>1. /\ outcome[Self] = "none" /\ writing[Self] # NoFile
      /\ disk' = writing[Self] /\ stable' = stable \cup {writing[Self]}
      /\ outcome' = [outcome EXCEPT ![Self] = "landed"]
      /\ copies' = copies \cup {CopyOf(disk')}
      /\ UNCHANGED <<writing, store, next, fresh, acked, undo, retired>>
      BY DEF PersistLands, Cell!Land
<1>2. /\ next # NoStore /\ next \in StoreObject /\ SoundStore(next)
      /\ disk' = Serialize(next)
      BY <1>1 DEF Calls, TypeOK
<1>3. ~Landed /\ Landed'
      BY <1>1 DEF Landed, TypeOK
<1>4. TypeOK'
      BY <1>1, <1>2, Records DEF TypeOK, Cell!Outcomes
<1>5. Calls' /\ Memory'
      BY <1>1, <1>2, <1>3 DEF Calls, Memory
<1>6. Files'
  <2>1. Opens(disk', disk'.env.wrap.by.pass)
        BY <1>2, SoundOpens, Records
  <2> QED BY <1>1, <2>1 DEF Files
<1>7. Told'
      BY <1>1, <1>3 DEF Told, Found
<1>8. KeyOwners'
  <2>1. CopyOf(disk').by = next.key /\ CopyOf(disk').env = next.env
        BY <1>2, Records
  <2>2. next.key = next.env.wrap.key /\ Sound(next.env) /\ next.key <= fresh
        BY <1>2 DEF SoundStore, KeyOwners
  <2>3. \A c \in copies : c.by = next.key =>
           c.env.wrap.by.pass = next.env.wrap.by.pass
        BY <1>2, <2>1 DEF KeyOwners
  <2> QED BY <1>1, <1>2, <2>1, <2>2, <2>3 DEF KeyOwners
<1>9. Retirement' /\ Limits'
      BY <1>1, <1>2, <1>3, Records DEF Retirement, Limits
<1> QED BY <1>4, <1>5, <1>6, <1>7, <1>8, <1>9

LEMMA AdoptStep == StoreInv /\ Adopt => StoreInv'
<1> SUFFICES ASSUME StoreInv, Adopt PROVE StoreInv'
    OBVIOUS
<1> USE DEF StoreInv
<1>1. /\ Landed
      /\ writing' = [writing EXCEPT ![Self] = NoFile]
      /\ \/ outcome' = [outcome EXCEPT ![Self] = "ok"] /\ stable' = {disk}
         \/ outcome' = [outcome EXCEPT ![Self] = "warned"] /\ stable' = stable
      /\ store' = next /\ next' = NoStore /\ acked' = StateOf(disk)
      /\ undo' = IF outcome'[Self] = "ok" THEN {} ELSE undo \cup {acked}
      /\ retired' = IF store # NoStore /\ store.key # next.key
                    THEN retired \cup {store.key} ELSE retired
      /\ UNCHANGED <<disk, fresh, copies>>
      BY DEF Adopt, Cell!Return, Landed
<1>2. /\ next # NoStore /\ next \in StoreObject /\ SoundStore(next)
      /\ disk = Serialize(next) /\ disk \in Image /\ disk # NoFile
      BY <1>1, Records DEF Calls, TypeOK
<1>3. ~Landed'
      BY <1>1 DEF Landed, TypeOK
<1>4. store # NoStore => store.key \in 0..fresh /\ store.key \in Drawn
  <2> SUFFICES ASSUME store # NoStore
               PROVE  store.key \in 0..fresh /\ store.key \in Drawn
      OBVIOUS
  <2>1. store \in StoreObject
        BY DEF TypeOK
  <2>2. store.key <= fresh
        BY <2>1, Records DEF Memory, KeyOwners
  <2> QED BY <2>1, <2>2, Records DEF Drawn
<1>5. TypeOK'
      BY <1>1, <1>2, <1>4, Records DEF TypeOK, Cell!Outcomes
<1>6. Calls'
      BY <1>1, <1>3 DEF Calls, TypeOK
<1>7. Files'
      BY <1>1 DEF Files
<1>8. Memory'
      BY <1>1, <1>2, <1>7 DEF Memory, Files
<1>9. Told'
  <2>1. CASE stable' = {disk}
        BY <1>1, <1>2, <1>3, <2>1 DEF Told, Found
  <2>2. CASE stable' = stable /\ undo' = undo \cup {acked}
        BY <1>1, <1>2, <1>3, <2>2 DEF Told, Found
  <2> QED BY <1>1, <2>1, <2>2 DEF TypeOK
<1>10. KeyOwners' /\ Limits'
      BY <1>1 DEF KeyOwners, Limits
<1>11. Retirement'
      BY <1>1, <1>2, <1>4, Records DEF Retirement
<1> QED BY <1>5, <1>6, <1>7, <1>8, <1>9, <1>10, <1>11

LEMMA KillStep == StoreInv /\ Kill => StoreInv'
<1> SUFFICES ASSUME StoreInv, Kill PROVE StoreInv'
    OBVIOUS
<1> USE DEF StoreInv
<1>1. /\ store' = NoStore /\ next' = NoStore
      /\ IF Landed THEN acked' = StateOf(disk) /\ undo' = undo \cup {acked}
                   ELSE UNCHANGED <<acked, undo>>
      /\ UNCHANGED <<disk, stable, fresh, copies, retired>>
      BY DEF Kill, Landed, cell, Cell!CellKill
<1>2. /\ writing' \in [{Self} -> Image \cup {NoFile}] /\ writing'[Self] = NoFile
      /\ outcome' \in [{Self} -> Cell!Outcomes] /\ ~Landed'
  <2>1. CASE Idle
        BY <2>1 DEF Kill, cell, Idle, Calls, TypeOK, Landed
  <2>2. CASE ~Idle
        BY <2>2 DEF Kill, Cell!CellKill, TypeOK, Landed, Cell!Outcomes
  <2> QED BY <2>1, <2>2
<1>3. Landed => disk # NoFile /\ disk \in Image
      BY Records DEF Calls, TypeOK
<1>4. TypeOK'
      BY <1>1, <1>2, <1>3, Records DEF TypeOK
<1>5. Told'
      BY <1>1, <1>2, <1>3 DEF Told, Found
<1> QED BY <1>1, <1>2, <1>4, <1>5
        DEF Calls, Memory, Files, KeyOwners, Retirement, Limits

LEMMA PowerCutStep == StoreInv /\ PowerCut => StoreInv'
<1> SUFFICES ASSUME StoreInv, PowerCut PROVE StoreInv'
    OBVIOUS
<1> USE DEF StoreInv
<1>1. /\ disk' \in stable /\ stable' = {disk'}
      /\ writing' = [w \in {Self} |-> NoFile]
      /\ outcome' = [w \in {Self} |->
                       IF writing[w] = NoFile THEN outcome[w] ELSE "killed"]
      /\ store' = NoStore /\ next' = NoStore /\ undo' = {}
      /\ acked' = Found(disk')
      /\ retired' = IF disk' = NoFile THEN retired ELSE retired \ {disk'.by}
      /\ UNCHANGED <<fresh, copies>>
      BY DEF PowerCut, Cell!CellPowerCut, Found
<1>2. ~Landed'
      BY <1>1 DEF Landed, Calls
<1>3. TypeOK'
      BY <1>1, Records DEF TypeOK, Found, Cell!Outcomes
<1>4. Told'
      BY <1>1, <1>2 DEF Told, Found
<1> QED BY <1>1, <1>2, <1>3, <1>4
        DEF Calls, Memory, Files, KeyOwners, Retirement, Limits

LEMMA StoreStep == StoreInv /\ [Next]_vars => StoreInv'
<1> SUFFICES ASSUME StoreInv, [Next]_vars PROVE StoreInv'
    OBVIOUS
<1>1. CASE WriteCall
      BY <1>1, CallsWrite, WritingStep
<1>2. ASSUME NEW p \in Passes, open(p) PROVE StoreInv'
      BY <1>2, OpenStep
<1>3. CASE UNCHANGED vars
      BY <1>3 DEF vars, StoreInv, TypeOK, Calls, Memory, Files, Told, KeyOwners,
                  Retirement, Limits, Landed, Found
<1> QED BY <1>1, <1>2, <1>3, ThrowStep, LandStep, AdoptStep, KillStep, PowerCutStep
        DEF Next, WriteCall

LEMMA StoreInvariance == Spec => []StoreInv
BY StoreInit, StoreStep, PTL DEF Spec
-----------------------------------------------------------------------------
(* Theorems *)

\* Type correctness, and with it: no call writes KDF limits that open() would
\* refuse, and no more random values are drawn than the bound allows.
THEOREM TypeCorrect == Spec => []TypeOK
BY StoreInvariance, PTL DEF StoreInv

\* After any mix of failed and completed calls, the open store and its file
\* agree between calls.
THEOREM MemoryAgrees == Spec => []MemoryMatchesDisk
<1>1. StoreInv => MemoryMatchesDisk
      BY DEF StoreInv, Calls, Memory, MemoryMatchesDisk, Idle
<1> QED BY <1>1, StoreInvariance, PTL

\* Wherever the process stops, the file opens with what was acknowledged.
THEOREM CrashSafe == Spec => []CrashKeepsAcked
<1>1. StoreInv => CrashKeepsAcked
      BY Records DEF StoreInv, Files, Told, Calls, CrashKeepsAcked, StateOf, Found
<1> QED BY <1>1, StoreInvariance, PTL

\* A power cut undoes only what was warned about or had not returned.
THEOREM PowerCutSafe == Spec => []PowerCutKeepsAcked
<1>1. StoreInv => PowerCutKeepsAcked
      BY DEF StoreInv, Files, Told, PowerCutKeepsAcked, StateOf
<1> QED BY <1>1, StoreInvariance, PTL

\* A leaked passphrase opens only the copies made while it was in force,
\* however many copies whoever holds it has.
THEOREM PassphraseChangeIsEffective == Spec => []OldPassphraseOpensOldCopiesOnly
<1>1. ASSUME StoreInv, NEW c \in copies, NEW p \in Passes, c.by \in Unwrapped(p)
      PROVE  unwrap(p, c.env)
  <2>1. PICK e \in copies : unwrap(p, e.env) /\ e.env.wrap.key = c.by
        BY <1>1 DEF Unwrapped
  <2>2. e.env.wrap.by.pass = p
        BY <2>1 DEF unwrap, derive_kdf_key
  <2>3. c.env.wrap.by.pass = p
        BY <1>1, <2>1, <2>2 DEF StoreInv, KeyOwners
  <2> QED BY <1>1, <2>3 DEF StoreInv, KeyOwners, Sound, unwrap
<1>2. StoreInv => OldPassphraseOpensOldCopiesOnly
      BY <1>1 DEF OldPassphraseOpensOldCopiesOnly
<1> QED BY <1>2, StoreInvariance, PTL

\* No image is ever sealed with a data key that was rotated away.
THEOREM RotationIsEffective == Spec => RotatedKeyIsDead
<1>1. StoreInv /\ PersistLands => disk'.by \notin retired
      BY Records DEF StoreInv, TypeOK, Calls, Retirement, PersistLands, Cell!Land
<1> QED BY <1>1, StoreInvariance, PTL DEF Spec, RotatedKeyIsDead

\* The KDF limits of a store never go down.
THEOREM KdfNeverWeakens == Spec => NeverWeakerKdf
<1>1. StoreInv /\ PersistLands /\ disk # NoFile =>
         disk'.env.ops >= disk.env.ops /\ disk'.env.mem >= disk.env.mem
      BY Records DEF StoreInv, TypeOK, Calls, Limits, Landed, PersistLands, Cell!Land
<1> QED BY <1>1, StoreInvariance, PTL DEF Spec, NeverWeakerKdf
=============================================================================
