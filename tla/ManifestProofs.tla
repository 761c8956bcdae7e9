---------------------------- MODULE ManifestProofs ----------------------------
(***************************************************************************)
(* Proofs about ManifestTrust, for any accounts, group databases, owners   *)
(* and modes, about Dotenv, for any file, however long, and about          *)
(* ManifestEdit, for any text, however it is indented.                     *)
(*                                                                         *)
(* Trust: what require_trusted accepts nobody else can write to, so nobody *)
(* else has ever placed an entry in a directory, or written a file, that   *)
(* passes; each check then concerns the very inode that is used after it.  *)
(* Conversely what is private passes every check, and nobody else can      *)
(* disturb it, so that the name is found where it was.                     *)
(*                                                                         *)
(* Dotenv: the scan of a quoted value is a function given by its steps.    *)
(* By induction on the value, what is written in double quotes is read     *)
(* back; by induction from the end of the line, what is read is what       *)
(* stands between the quotes.  The inductions are on sets of numbers.      *)
(*                                                                         *)
(* Edit: the three calls of ensure_block and the entries put lines in at   *)
(* the end of a block only, so what stood below what still does (Grown);   *)
(* every line that is added is on the path to an entry or in one (Edited). *)
(* Since the result was parsed, each lookup then finds what it found or    *)
(* what was added, and the meaning grows by the entries asked for.  That   *)
(* the result parses where nothing is in the way needs the converse: each  *)
(* of the three blocks is there once and evenly indented (Opened), each    *)
(* name has an entry below the last of them (Prepared), and whatever was   *)
(* valid beside the path still is (Smooth).                                *)
(***************************************************************************)
EXTENDS ManifestTrust, ManifestEdit, Dotenv, SequenceTheorems, WellFoundedInduction, TLAPS

\* A group that shared_group_problem finds nothing against has no member but
\* me (collect_group_members, ours_alone).
LEMMA OursAlone ==
    ASSUME NEW g, ~shared_group_problem(g), NEW u \in Others
    PROVE  ~InGroup(u, g)
<1>1. u \in Accounts \ {Me}
    BY AccountAssumption DEF Accounts
<1>2. ours_alone(collect_group_members(g))
    BY DEF shared_group_problem
<1>3. world.primary[u] # g
    <2>1. {v \in Accounts \ {Me} : world.primary[v] = g} = {}
        BY <1>2 DEF ours_alone, collect_group_members
    <2> QED BY <1>1, <2>1
<1>4. ASSUME NEW i \in Entries(g) PROVE u \notin world.groups[i].members
    <2>1. UNION {{<<v, world.groups[j].name>> : v \in world.groups[j].members \ {Me}} :
                    j \in Entries(g)} = {}
        BY <1>2 DEF ours_alone, collect_group_members
    <2> DEFINE Listed(j) == {<<v, world.groups[j].name>> : v \in world.groups[j].members \ {Me}}
    <2>2. \A j \in Entries(g) : \A p : p \notin Listed(j)
        BY <2>1
    <2>3. <<u, world.groups[i].name>> \notin Listed(i)
        BY <2>2
    <2> QED BY <1>1, <2>3
<1> QED BY <1>3, <1>4 DEF InGroup

\* require_trusted leaves nobody else who can write.
LEMMA TrustedIsMine ==
    ASSUME NEW x, NEW directory \in BOOLEAN, require_trusted(x, directory), NEW u \in Others
    PROVE  ~CanWrite(u, x)
<1>1. x.owner # u
    BY AccountAssumption DEF require_trusted
<1>2. ~x.other_write
    BY DEF require_trusted
<1>3. ASSUME x.group_write PROVE x.acl = "none" /\ ~InGroup(u, x.gid)
    <2>1. ~shared_group_problem(x.gid) /\ ~acl_problem(x)
        BY <1>3 DEF require_trusted
    <2> QED BY <2>1, OursAlone DEF acl_problem
<1> QED BY <1>1, <1>2, <1>3 DEF CanWrite

-----------------------------------------------------------------------------
\* Every variable keeps its type, and what the disk looks like is given.
THEOREM TypeCorrect == TrustSpec => []TrustTypeOK
<1>1. TrustInit => TrustTypeOK
    <2> SUFFICES ASSUME TrustInit PROVE TrustTypeOK
        OBVIOUS
    <2>1. World(world)
        BY WorldAssumption DEF TrustInit
    <2>2. (CHOOSE u \in Others : TRUE) \in Accounts
        BY AccountAssumption DEF Accounts
    <2>3. author \in [Inodes -> Accounts] /\ placed \in [Dirs -> Accounts]
        BY <2>2 DEF TrustInit, Accounts
    <2>4. entry \in [Dirs -> Inodes \cup {"link", "none"}]
        BY DEF TrustInit, Dirs, Inodes
    <2> QED BY <2>1, <2>3, <2>4 DEF TrustInit, TrustTypeOK, Steps, Ends, Dirs, Inodes
<1>2. TrustTypeOK /\ [TrustNext]_trustVars => TrustTypeOK'
    <2> SUFFICES ASSUME TrustTypeOK, [TrustNext]_trustVars PROVE TrustTypeOK'
        OBVIOUS
    <2>1. CASE Reader
        <3> USE DEF TrustTypeOK, Steps, Ends, Dirs, World
        <3>1. CASE Read
            BY <3>1 DEF Read
        <3>2. CASE Canonical
            BY <3>2 DEF Canonical, Refuse, Accounts
        <3>3. CASE CheckDir
            BY <3>3 DEF CheckDir, Refuse
        <3>4. CASE CheckTarget
            BY <3>4 DEF CheckTarget, Refuse
        <3>5. CASE Open
            BY <3>5 DEF Open, Refuse
        <3>6. CASE CheckFile
            BY <3>6 DEF CheckFile, Refuse
        <3>7. CASE ReadText
            BY <3>7 DEF ReadText
        <3>8. CASE BeginCreate
            BY <3>8 DEF BeginCreate
        <3>9. CASE Create
            BY <3>9 DEF Create, Refuse, Inodes, Accounts
        <3> QED BY <2>1, <3>1, <3>2, <3>3, <3>4, <3>5, <3>6, <3>7, <3>8, <3>9 DEF Reader
    <2>2. ASSUME NEW u \in Others, NEW i \in Inodes, Rewrite(u, i) PROVE TrustTypeOK'
        BY <2>2 DEF TrustTypeOK, Rewrite, Accounts, World
    <2>3. ASSUME NEW u \in Others, NEW d \in Dirs, Swap(u, d) PROVE TrustTypeOK'
        BY <2>3 DEF TrustTypeOK, Swap, Accounts, Inodes, World
    <2>4. CASE UNCHANGED trustVars
        BY <2>4 DEF TrustTypeOK, trustVars, World
    <2> QED BY <2>1, <2>2, <2>3, <2>4 DEF TrustNext
<1> QED BY <1>1, <1>2, PTL DEF TrustSpec

-----------------------------------------------------------------------------
Past(steps) == pc \in steps \cup {"accepted"}

\* Nobody else has placed or written what passes the checks ...
DiskIsMine ==
    /\ \A d \in Dirs : require_trusted_dir(d) => placed[d] \notin Others
    /\ \A i \in Inodes : require_trusted(Inode(i), FALSE) => author[i] \notin Others

\* ... and the checks the reader is past hold of what it goes on to use.
Checked ==
    /\ Past({"target", "open", "stat", "read"}) => require_trusted_dir("here")
    /\ Past({"open", "stat", "read"}) => require_trusted_dir(real)
    /\ Past({"read"}) => require_trusted(Inode(fd), FALSE)
    /\ Past({"dir", "target", "open", "stat", "read"})
          /\ require_trusted_dir("here") /\ require_trusted_dir(real) => via \cap Others = {}

IInv == DiskIsMine /\ Checked

\* The files are mine to begin with, except the one of another account.
LEMMA InvInit == TrustInit => IInv
<1> SUFFICES ASSUME TrustInit PROVE IInv
    OBVIOUS
<1>1. Me \notin Others
    BY AccountAssumption
<1>2. ~require_trusted(Inode("planted"), FALSE)
    <2>1. (CHOOSE u \in Others : TRUE) \in Others
        BY AccountAssumption
    <2> QED BY <1>1, <2>1 DEF require_trusted, Inode, Plain
<1>3. DiskIsMine
    BY <1>1, <1>2 DEF DiskIsMine, TrustInit
<1> QED BY <1>3 DEF IInv, Checked, Past, TrustInit

\* What a check says depends on world alone.
LEMMA ChecksStay ==
    ASSUME world' = world
    PROVE  /\ \A d : require_trusted_dir(d)' <=> require_trusted_dir(d)
           /\ \A i : require_trusted(Inode(i), FALSE)' <=> require_trusted(Inode(i), FALSE)
<1>1. ASSUME NEW g PROVE Entries(g)' = Entries(g) /\ getgrgid(g)' = getgrgid(g)
    BY DEF Entries, getgrgid
<1>2. ASSUME NEW g PROVE collect_group_members(g)' = collect_group_members(g)
    <2> DEFINE Listed(i) == {<<u, world.groups[i].name>> : u \in world.groups[i].members \ {Me}}
    <2>1. {world.groups[i].name : i \in Entries(g)}' = {world.groups[i].name : i \in Entries(g)}
        BY <1>1
    <2>2. {Listed(i) : i \in Entries(g)}' = {Listed(i) : i \in Entries(g)}
        BY <1>1
    <2>3. {u \in Accounts \ {Me} : world.primary[u] = g}'
              = {u \in Accounts \ {Me} : world.primary[u] = g}
        OBVIOUS
    <2> QED BY <1>1, <2>1, <2>2, <2>3 DEF collect_group_members
<1>3. ASSUME NEW g PROVE shared_group_problem(g)' <=> shared_group_problem(g)
    BY <1>1, <1>2 DEF shared_group_problem, ours_alone
<1>4. ASSUME NEW d PROVE require_trusted_dir(d)' <=> require_trusted_dir(d)
    BY <1>3 DEF require_trusted_dir, require_trusted, acl_problem
<1>5. ASSUME NEW i PROVE require_trusted(Inode(i), FALSE)' <=> require_trusted(Inode(i), FALSE)
    <2>1. Inode(i)' = Inode(i)
        BY DEF Inode, Plain
    <2> QED BY <2>1, <1>3 DEF require_trusted, acl_problem
<1> QED BY <1>4, <1>5

\* Others change only what does not pass; each check is made on what is used.
LEMMA InvNext == TrustTypeOK /\ IInv /\ [TrustNext]_trustVars => IInv'
<1> SUFFICES ASSUME TrustTypeOK, IInv, [TrustNext]_trustVars PROVE IInv'
    OBVIOUS
<1>1. world' = world
    BY DEF TrustNext, Reader, Read, Canonical, CheckDir, CheckTarget, Open, CheckFile, ReadText,
           BeginCreate, Create, Rewrite, Swap, trustVars
<1>2. /\ \A d \in Dirs : require_trusted_dir(d)' <=> require_trusted_dir(d)
      /\ \A i \in Inodes : require_trusted(Inode(i), FALSE)' <=> require_trusted(Inode(i), FALSE)
    BY <1>1, ChecksStay
<1>3. Me \notin Others
    BY AccountAssumption
<1>4. DiskIsMine'
    <2>1. ASSUME NEW u \in Others, NEW i \in Inodes, Rewrite(u, i) PROVE DiskIsMine'
        <3>1. ~require_trusted(Inode(i), FALSE)
            BY <2>1, TrustedIsMine DEF Rewrite
        <3>2. \A j \in Inodes \ {i} : author'[j] = author[j]
            BY <2>1 DEF Rewrite, TrustTypeOK
        <3> QED BY <2>1, <3>1, <3>2, <1>2 DEF IInv, DiskIsMine, Rewrite
    <2>2. ASSUME NEW u \in Others, NEW d \in Dirs, Swap(u, d) PROVE DiskIsMine'
        <3>1. ~require_trusted_dir(d)
            BY <2>2, TrustedIsMine DEF Swap, require_trusted_dir
        <3>2. \A e \in Dirs \ {d} : placed'[e] = placed[e]
            BY <2>2 DEF Swap, TrustTypeOK
        <3> QED BY <2>2, <3>1, <3>2, <1>2 DEF IInv, DiskIsMine, Swap
    <2>3. CASE Create
        <3>1. /\ \A d \in Dirs : placed'[d] \in {placed[d], Me}
              /\ \A i \in Inodes : author'[i] \in {author[i], Me}
            BY <2>3 DEF Create, TrustTypeOK
        <3> QED BY <3>1, <1>2, <1>3 DEF IInv, DiskIsMine
    <2>4. CASE UNCHANGED <<placed, author>>
        BY <2>4, <1>2 DEF IInv, DiskIsMine
    <2> QED BY <2>1, <2>2, <2>3, <2>4
            DEF TrustNext, Reader, Read, Canonical, CheckDir, CheckTarget, Open, CheckFile, ReadText,
                BeginCreate, trustVars
<1>5. Checked'
    <2> USE DEF IInv, Checked, Past, TrustTypeOK
    <2>0. "here" \in Dirs /\ "there" \in Dirs
        BY DEF Dirs
    <2>1. CASE Canonical
        BY <2>0, <2>1, <1>2 DEF Canonical, Refuse, DiskIsMine
    <2>2. CASE CheckDir
        BY <2>0, <2>2, <1>2 DEF CheckDir, Refuse, Dirs
    <2>3. CASE CheckTarget
        BY <2>0, <2>3, <1>2 DEF CheckTarget, Refuse, Dirs
    <2>4. CASE Open
        BY <2>0, <2>4, <1>2 DEF Open, Refuse, DiskIsMine
    <2>5. CASE CheckFile
        BY <2>0, <2>5, <1>2 DEF CheckFile, Refuse
    <2>6. CASE ReadText
        BY <2>0, <2>6, <1>2 DEF ReadText
    <2>7. CASE Read \/ BeginCreate
        BY <2>7 DEF Read, BeginCreate
    <2>8. CASE Create
        BY <2>8 DEF Create, Refuse
    <2>9. CASE UNCHANGED <<pc, real, fd, via>>
        BY <2>0, <2>9, <1>2
    <2> QED BY <2>1, <2>2, <2>3, <2>4, <2>5, <2>6, <2>7, <2>8, <2>9
            DEF TrustNext, Reader, Rewrite, Swap, trustVars
<1> QED BY <1>4, <1>5 DEF IInv

\* read_manifest_text never hands on a text that somebody else wrote or put in
\* place, whatever the rights of the others and whenever they use them.
THEOREM OnlyMineIsAccepted == TrustSpec => []AcceptedIsMine
<1>1. TrustTypeOK /\ IInv => AcceptedIsMine
    BY DEF IInv, Checked, Past, DiskIsMine, AcceptedIsMine, TrustTypeOK
<1> QED BY <1>1, InvInit, InvNext, TypeCorrect, PTL DEF TrustSpec

-----------------------------------------------------------------------------
\* Where import created the manifest the directory passes, so that the name
\* stays what it is, and a reader gets from one check to the next.
CreatedStays ==
    entry["here"] = "created" =>
        /\ require_trusted_dir("here")
        /\ pc \notin {"creatable", "target", "refused"}
        /\ pc \in {"dir", "open"} => real = "here"
        /\ pc \in {"stat", "read"} => fd = "created"

\* A manifest that import creates is never refused by a later command, which
\* would orphan the secrets that were stored for it.
THEOREM CreatedCanBeRead == TrustSpec => []CreatedIsReadable
<1>1. TrustInit => CreatedStays
    BY DEF TrustInit, CreatedStays
<1>2. TrustTypeOK /\ CreatedStays /\ [TrustNext]_trustVars => CreatedStays'
    <2> SUFFICES ASSUME TrustTypeOK, CreatedStays, [TrustNext]_trustVars PROVE CreatedStays'
        OBVIOUS
    <2>1. world' = world
        BY DEF TrustNext, Reader, Read, Canonical, CheckDir, CheckTarget, Open, CheckFile, ReadText,
               BeginCreate, Create, Rewrite, Swap, trustVars
    <2>2. require_trusted_dir("here")' <=> require_trusted_dir("here")
        BY <2>1, ChecksStay
    <2>3. require_trusted(Inode("created"), FALSE)
        BY DEF require_trusted, Inode, Plain
    <2> USE DEF CreatedStays, TrustTypeOK
    <2>4. CASE Read \/ BeginCreate
        BY <2>4, <2>2 DEF Read, BeginCreate, Ends
    <2>5. CASE Canonical
        BY <2>5, <2>2 DEF Canonical, Refuse, Inodes
    <2>6. CASE CheckDir \/ CheckTarget
        BY <2>6, <2>2 DEF CheckDir, CheckTarget, Refuse
    <2>7. CASE Open
        BY <2>7, <2>2 DEF Open, Refuse, Inodes
    <2>8. CASE CheckFile \/ ReadText
        BY <2>8, <2>2, <2>3 DEF CheckFile, ReadText, Refuse
    <2>9. CASE Create
        BY <2>9, <2>2 DEF Create, Refuse, Dirs
    <2>10. ASSUME NEW u \in Others, NEW i \in Inodes, Rewrite(u, i) PROVE CreatedStays'
        BY <2>10, <2>2 DEF Rewrite
    <2>11. ASSUME NEW u \in Others, NEW d \in Dirs, Swap(u, d) PROVE CreatedStays'
        BY <2>11, <2>2, TrustedIsMine DEF Swap, require_trusted_dir, Dirs
    <2>12. CASE UNCHANGED trustVars
        BY <2>12, <2>2 DEF trustVars
    <2> QED BY <2>4, <2>5, <2>6, <2>7, <2>8, <2>9, <2>10, <2>11, <2>12 DEF TrustNext, Reader
<1>3. CreatedStays => CreatedIsReadable
    BY DEF CreatedStays, CreatedIsReadable
<1> QED BY <1>1, <1>2, <1>3, TypeCorrect, PTL DEF TrustSpec

-----------------------------------------------------------------------------
\* getgrgid finds an entry when there is one.
LEMMA HasMinimum ==
    ASSUME NEW S \in SUBSET Nat, S # {}
    PROVE  Min(S) \in S /\ \A x \in S : Min(S) =< x
<1> DEFINE R == OpToRel(<, Nat)
<1>1. \E x \in S : \A y \in S : ~(<<y, x>> \in R)
    BY NatLessThanWellFounded, WFMin
<1>2. ASSUME NEW x \in S, NEW y \in S, ~(<<y, x>> \in R) PROVE x =< y
    BY <1>2 DEF OpToRel
<1>3. \E x \in S : \A y \in S : x =< y
    BY <1>1, <1>2
<1> QED BY <1>3 DEF Min

\* shared_group_problem finds nothing against a private group, whatever the
\* number and order of its entries.
LEMMA PrivateGroupIsFine ==
    ASSUME TrustTypeOK, NEW g, PrivateGroup(g), world.scan
    PROVE  ~shared_group_problem(g)
<1>1. Entries(g) \in SUBSET Nat /\ Entries(g) # {}
    BY DEF Entries, PrivateGroup, TrustTypeOK, World
<1>2. getgrgid(g).name = Me
    BY <1>1, HasMinimum DEF getgrgid, PrivateGroup
<1>3. collect_group_members(g).primary = {}
    BY DEF collect_group_members, PrivateGroup
<1>4. collect_group_members(g).supplementary = {}
    <2> DEFINE Listed(i) == {<<u, world.groups[i].name>> : u \in world.groups[i].members \ {Me}}
    <2>1. ASSUME NEW i \in Entries(g) PROVE Listed(i) = {}
        <3>1. world.groups[i].members \ {Me} = {}
            BY DEF PrivateGroup
        <3> QED BY <3>1
    <2>2. UNION {Listed(i) : i \in Entries(g)} = {}
        BY <2>1
    <2> QED BY <2>2 DEF collect_group_members
<1>5. collect_group_members(g).other_names = {}
    BY <1>2 DEF collect_group_members, PrivateGroup
<1> QED BY <1>1, <1>2, <1>3, <1>4, <1>5 DEF shared_group_problem, ours_alone, PrivateGroup

\* What is private passes require_trusted.
LEMMA PrivateIsTrusted ==
    ASSUME TrustTypeOK, NEW x, NEW directory \in BOOLEAN,
           Private(x, IF directory THEN {Me, Root} ELSE {Me})
    PROVE  require_trusted(x, directory)
BY PrivateGroupIsFine DEF Private, require_trusted, acl_problem

AllPrivate ==
    /\ \A d \in Dirs : Private(world.dir[d], {Me, Root})
    /\ Private(world.file, {Me})

\* While all is private only import changes an entry, and a reader that has
\* found the name where it leads still finds it there.
Undisturbed ==
    AllPrivate =>
        /\ entry["here"] \in {"manifest", "created", "link", "none"}
        /\ entry["there"] \in {"manifest", "none"}
        /\ pc = "creatable" => entry["here"] = "none"
        /\ pc \in {"dir", "target", "open"} => entry[real] \in {"manifest", "created"}
        /\ pc = "stat" => fd \in {"manifest", "created"}
        /\ pc = "refused" => \/ entry["here"] = "none"
                             \/ entry["here"] = "link" /\ entry["there"] = "none"

\* Private keeps the others out: whatever they may do elsewhere, they neither
\* place an entry nor write a file.
LEMMA PrivateKeepsOut ==
    ASSUME TrustTypeOK, AllPrivate, NEW u \in Others
    PROVE  \A d \in Dirs : ~CanWrite(u, world.dir[d])
<1> SUFFICES ASSUME NEW d \in Dirs PROVE ~CanWrite(u, world.dir[d])
    OBVIOUS
<1>1. require_trusted(world.dir[d], TRUE)
    BY PrivateIsTrusted DEF AllPrivate
<1> QED BY <1>1, TrustedIsMine

LEMMA PrivateStays ==
    ASSUME world' = world
    PROVE  AllPrivate' <=> AllPrivate
<1>1. ASSUME NEW g PROVE PrivateGroup(g)' <=> PrivateGroup(g)
    BY DEF PrivateGroup, Entries
<1> QED BY <1>1 DEF AllPrivate, Private

\* With all private no manifest that is there is refused: no owner, mode or
\* group database that USING.md calls fine makes secretov unusable.
THEOREM PrivateAccepted == TrustSpec => []PrivateIsAccepted
<1>1. TrustInit => Undisturbed
    BY DEF TrustInit, Undisturbed
<1>2. TrustTypeOK /\ Undisturbed /\ [TrustNext]_trustVars => Undisturbed'
    <2> SUFFICES ASSUME TrustTypeOK, Undisturbed, [TrustNext]_trustVars, AllPrivate'
                 PROVE  Undisturbed'
        BY DEF Undisturbed
    <2>1. world' = world
        BY DEF TrustNext, Reader, Read, Canonical, CheckDir, CheckTarget, Open, CheckFile, ReadText,
               BeginCreate, Create, Rewrite, Swap, trustVars
    <2>2. AllPrivate
        BY <2>1, PrivateStays
    <2>3. \A d \in Dirs : require_trusted_dir(d)
        BY <2>2, PrivateIsTrusted DEF AllPrivate, require_trusted_dir
    <2>4. require_trusted(Inode("manifest"), FALSE) /\ require_trusted(Inode("created"), FALSE)
        <3>1. require_trusted(Inode("manifest"), FALSE)
            BY <2>2, PrivateIsTrusted DEF AllPrivate, Inode
        <3>2. require_trusted(Inode("created"), FALSE)
            BY DEF require_trusted, Inode, Plain
        <3> QED BY <3>1, <3>2
    <2>5. "here" \in Dirs /\ "there" \in Dirs
        BY DEF Dirs
    <2> HIDE DEF AllPrivate
    <2> USE <2>2 DEF Undisturbed, TrustTypeOK
    <2>6. CASE Read
        BY <2>6 DEF Read
    <2>7. CASE Canonical
        BY <2>7 DEF Canonical, Refuse, Inodes
    <2>8. CASE CheckDir \/ CheckTarget
        BY <2>8, <2>3, <2>5 DEF CheckDir, CheckTarget
    <2>9. CASE Open
        BY <2>9 DEF Open, Inodes
    <2>10. CASE CheckFile
        BY <2>10, <2>4 DEF CheckFile
    <2>11. CASE ReadText
        BY <2>11 DEF ReadText
    <2>12. CASE BeginCreate
        BY <2>12 DEF BeginCreate
    <2>13. CASE Create
        BY <2>13, <2>5 DEF Create, Refuse, Dirs
    <2>14. ASSUME NEW u \in Others, NEW i \in Inodes, Rewrite(u, i) PROVE Undisturbed'
        BY <2>14 DEF Rewrite
    <2>15. ASSUME NEW u \in Others, NEW d \in Dirs, Swap(u, d) PROVE Undisturbed'
        BY <2>15, PrivateKeepsOut DEF Swap
    <2>16. CASE UNCHANGED trustVars
        BY <2>16 DEF trustVars
    <2> QED BY <2>6, <2>7, <2>8, <2>9, <2>10, <2>11, <2>12, <2>13, <2>14, <2>15, <2>16
            DEF TrustNext, Reader
<1>3. Undisturbed => PrivateIsAccepted
    BY DEF Undisturbed, PrivateIsAccepted, AllPrivate
<1> QED BY <1>1, <1>2, <1>3, TypeCorrect, PTL DEF TrustSpec

-----------------------------------------------------------------------------
(* Dotenv.                                                                 *)

\* So has a bounded one a maximum.
LEMMA HasMaximum ==
    ASSUME NEW n \in Nat, NEW S \in SUBSET (0..n), S # {}
    PROVE  Max(S) \in S /\ \A x \in S : x =< Max(S)
<1> DEFINE D == {n - x : x \in S}
<1>1. D \subseteq Nat /\ D # {}
    <2>1. \A x \in S : n - x \in Nat
        OBVIOUS
    <2> QED BY <2>1
<1>2. PICK d \in D : \A x \in D : d =< x
    BY <1>1, HasMinimum
<1>3. PICK m \in S : d = n - m
    OBVIOUS
<1>4. \A x \in S : m >= x
    BY <1>2, <1>3
<1> QED BY <1>3, <1>4 DEF Max

\* What holds at 0 and is passed on holds up to n.
LEMMA Induction ==
    ASSUME NEW n \in Nat, NEW S, 0 \in S,
           \A i \in 0..(n - 1) : i \in S => i + 1 \in S
    PROVE  0..n \subseteq S
<1> DEFINE B == (0..n) \ S
<1> SUFFICES ASSUME B # {} PROVE FALSE
    OBVIOUS
<1>1. Min(B) \in B /\ \A x \in B : Min(B) =< x
    BY HasMinimum
<1>2. Min(B) - 1 \in 0..(n - 1) /\ Min(B) - 1 \notin B
    BY <1>1
<1> QED BY <1>1, <1>2

\* FlattenSeq joins its elements one after the other.
LEMMA Flatten ==
    ASSUME NEW T, NEW n \in Nat, NEW s \in [1..n -> Seq(T)]
    PROVE  \E g \in [0..n -> Seq(T)] :
              /\ g[0] = <<>>
              /\ \A i \in 1..n : g[i] = g[i - 1] \o s[i]
              /\ FlattenSeq(s) = g[n]
<1> DEFINE J(h, i) == IF i = 1 THEN s[i] ELSE h[i - 1] \o s[i]
           P(h) == h = [i \in 1..n |-> J(h, i)]
           flatten == CHOOSE h : P(h)
           Joins(f, k) == \A i \in 1..k : f[i] = J(f, i)
           K == {k \in 0..n : \E f \in [1..k -> Seq(T)] : Joins(f, k)}
<1>1. Len(s) = n
    OBVIOUS
<1>2. n = 0 => FlattenSeq(s) = <<>>
    BY <1>1 DEF FlattenSeq
<1>3. n > 0 => FlattenSeq(s) = flatten[n]
    BY <1>1 DEF FlattenSeq
<1> HIDE DEF flatten, P
<1>4. \A h : J(h, 1) = s[1]
    OBVIOUS
<1>5. \A h : \A i \in 2..n : J(h, i) = h[i - 1] \o s[i]
    <2> SUFFICES ASSUME NEW h, NEW i \in 2..n PROVE J(h, i) = h[i - 1] \o s[i]
        OBVIOUS
    <2>1. i # 1
        OBVIOUS
    <2> QED BY <2>1
<1>6. \A h : \A i \in 1..n : h[i - 1] \in Seq(T) \/ i = 1 => J(h, i) \in Seq(T)
    <2> SUFFICES ASSUME NEW h, NEW i \in 1..n, h[i - 1] \in Seq(T) \/ i = 1
                 PROVE  J(h, i) \in Seq(T)
        OBVIOUS
    <2>1. s[i] \in Seq(T)
        OBVIOUS
    <2>2. CASE i = 1
        BY <2>1, <2>2
    <2>3. CASE i # 1
        <3>1. h[i - 1] \in Seq(T)
            BY <2>3
        <3>2. h[i - 1] \o s[i] \in Seq(T)
            BY <3>1, <2>1, ConcatProperties
        <3> QED BY <3>2, <2>3
    <2> QED BY <2>2, <2>3
<1>7. \A g, h : \A i \in 1..n : g[i - 1] = h[i - 1] \/ i = 1 => J(g, i) = J(h, i)
    <2> SUFFICES ASSUME NEW g, NEW h, NEW i \in 1..n, g[i - 1] = h[i - 1] \/ i = 1
                 PROVE  J(g, i) = J(h, i)
        OBVIOUS
    <2>1. CASE i = 1
        BY <2>1
    <2>2. CASE i # 1
        BY <2>2
    <2> QED BY <2>1, <2>2
<1> HIDE DEF J
<1>8. 0 \in K
    <2> SUFFICES ASSUME NEW z \in 0..n, z = 0 PROVE z \in K
        OBVIOUS
    <2>1. <<>> \in [1..z -> Seq(T)] /\ Joins(<<>>, z)
        OBVIOUS
    <2> HIDE DEF Joins
    <2>2. \E f \in [1..z -> Seq(T)] : Joins(f, z)
        BY <2>1
    <2> QED BY <2>2
<1>9. ASSUME NEW k \in 0..(n - 1), k \in K PROVE k + 1 \in K
    <2>1. PICK f \in [1..k -> Seq(T)] : Joins(f, k)
        BY <1>9
    <2> DEFINE h == [i \in 1..(k + 1) |-> IF i <= k THEN f[i] ELSE J(f, i)]
    <2>2. \A i \in 1..k : h[i] = f[i]
        OBVIOUS
    <2>3. h[k + 1] = J(f, k + 1)
        OBVIOUS
    <2>4. J(f, k + 1) \in Seq(T)
        <3>1. CASE k = 0
            BY <3>1, <1>6
        <3>2. CASE k # 0
            <4>1. f[(k + 1) - 1] \in Seq(T) /\ k + 1 \in 1..n
                BY <3>2
            <4> QED BY <4>1, <1>6
        <3> QED BY <3>1, <3>2
    <2>5. h \in [1..(k + 1) -> Seq(T)]
        BY <2>4
    <2> HIDE DEF h
    <2>6. ASSUME NEW i \in 1..(k + 1) PROVE h[i] = J(h, i)
        <3>1. J(f, i) = J(h, i)
            <4>1. i \in 1..n /\ (f[i - 1] = h[i - 1] \/ i = 1)
                BY <2>2
            <4> QED BY <4>1, <1>7
        <3>2. CASE i <= k
            BY <3>1, <3>2, <2>1, <2>2
        <3>3. CASE i = k + 1
            BY <3>1, <3>3, <2>3
        <3> QED BY <3>2, <3>3
    <2>7. Joins(h, k + 1)
        BY <2>6
    <2> HIDE DEF Joins
    <2>8. \E e \in [1..(k + 1) -> Seq(T)] : Joins(e, k + 1)
        BY <2>5, <2>7
    <2> QED BY <2>8
<1>10. PICK f \in [1..n -> Seq(T)] : \A i \in 1..n : f[i] = J(f, i)
    <2>1. \A k \in 0..(n - 1) : k \in K => k + 1 \in K
        BY <1>9
    <2> HIDE DEF K
    <2>2. 0..n \subseteq K
        BY <1>8, <2>1, Induction
    <2> QED BY <2>2 DEF K
<1>11. \A i \in 1..n : flatten[i] = J(flatten, i)
    <2>1. P(f)
        BY <1>10 DEF P
    <2>2. P(flatten)
        BY <2>1 DEF flatten
    <2> QED BY <2>2 DEF P
<1> DEFINE Same == {k \in 0..n : k = 0 \/ flatten[k] = f[k]}
<1>12. ASSUME NEW k \in 0..(n - 1), k \in Same PROVE k + 1 \in Same
    <2>1. k + 1 \in 1..n /\ (flatten[(k + 1) - 1] = f[(k + 1) - 1] \/ k + 1 = 1)
        BY <1>12
    <2>2. J(flatten, k + 1) = J(f, k + 1)
        BY <2>1, <1>7
    <2> QED BY <2>1, <2>2, <1>10, <1>11
<1>13. n > 0 => flatten[n] = f[n]
    <2>1. 0 \in Same /\ \A k \in 0..(n - 1) : k \in Same => k + 1 \in Same
        BY <1>12
    <2> HIDE DEF Same
    <2>2. 0..n \subseteq Same
        BY <2>1, Induction
    <2> QED BY <2>2 DEF Same
<1> DEFINE g == [i \in 0..n |-> IF i = 0 THEN <<>> ELSE f[i]]
<1>14. g \in [0..n -> Seq(T)]
    BY EmptySeq
<1>15. ASSUME NEW i \in 1..n PROVE g[i] = g[i - 1] \o s[i]
    <2>1. g[i] = f[i] /\ f[i] = J(f, i)
        BY <1>10
    <2>2. CASE i = 1
        <3>1. s[1] \in Seq(T) /\ g[0] = <<>> /\ g[1] = s[1]
            BY <2>1, <2>2, <1>4
        <3> QED BY <2>2, <3>1, ConcatEmptySeq
    <2>3. CASE i # 1
        <3>1. g[i - 1] = f[i - 1] /\ i \in 2..n
            BY <2>3
        <3> QED BY <2>1, <3>1, <1>5
    <2> QED BY <2>2, <2>3
<1>16. g[0] = <<>> /\ FlattenSeq(s) = g[n]
    BY <1>2, <1>3, <1>13
<1> HIDE DEF g
<1> QED BY <1>14, <1>15, <1>16

Associative(T) == \A x, y, z \in Seq(T) : (x \o y) \o z = x \o (y \o z)

LEMMA Associates == ASSUME NEW T PROVE Associative(T)
<1> SUFFICES ASSUME NEW x \in Seq(T), NEW y \in Seq(T), NEW z \in Seq(T)
             PROVE  (x \o y) \o z = x \o (y \o z)
    BY DEF Associative
<1> QED BY ConcatAssociative

Lists(T, n) == [1..n -> Seq(T)]

\* FlattenSeq takes its elements from the front, too.
Prepended(t, n, a, s) == t[1] = a /\ \A i \in 1..n : t[i + 1] = s[i]

LEMMA FlattenFront ==
    ASSUME NEW T, NEW n \in Nat, NEW s \in Lists(T, n), NEW a \in Seq(T),
           NEW t \in Lists(T, n + 1), Prepended(t, n, a, s)
    PROVE  FlattenSeq(s) \in Seq(T) /\ FlattenSeq(t) = a \o FlattenSeq(s)
<1>0. t[1] = a /\ \A i \in 1..n : t[i + 1] = s[i]
    BY DEF Prepended
<1>a. \A b, d \in Seq(T) : (a \o b) \o d = a \o (b \o d)
    <2>1. Associative(T)
        BY Associates
    <2> QED BY <2>1 DEF Associative
<1>1. PICK g \in [0..n -> Seq(T)] :
         /\ g[0] = <<>>
         /\ \A i \in 1..n : g[i] = g[i - 1] \o s[i]
         /\ FlattenSeq(s) = g[n]
    <2>1. s \in [1..n -> Seq(T)]
        BY DEF Lists
    <2> QED BY <2>1, Flatten, Zenon
<1>2. PICK h \in [0..(n + 1) -> Seq(T)] :
         /\ h[0] = <<>>
         /\ \A i \in 1..(n + 1) : h[i] = h[i - 1] \o t[i]
         /\ FlattenSeq(t) = h[n + 1]
    <2>1. n + 1 \in Nat /\ t \in [1..(n + 1) -> Seq(T)]
        BY DEF Lists
    <2> QED BY <2>1, Flatten, Zenon
<1> DEFINE S == {i \in 0..n : h[i + 1] = a \o g[i]}
<1>3. 0 \in S
    <2>1. h[1] = <<>> \o a
        <3>1. 1 \in 1..(n + 1) /\ 1 - 1 = 0
            OBVIOUS
        <3> QED BY <1>0, <1>2, <3>1
    <2>2. h[1] = a \o g[0]
        BY <1>1, <2>1, ConcatEmptySeq
    <2> QED BY <2>2
<1>4. ASSUME NEW i \in 0..(n - 1), i \in S PROVE i + 1 \in S
    <2>1. i + 1 \in 1..n /\ (i + 1) - 1 = i /\ i + 2 \in 1..(n + 1) /\ (i + 2) - 1 = i + 1 /\ i \in 0..n
          /\ (i + 1) + 1 = i + 2
        OBVIOUS
    <2>2. g[i + 1] = g[i] \o s[i + 1] /\ h[i + 2] = h[i + 1] \o t[i + 2] /\ t[i + 2] = s[i + 1]
        BY <1>0, <1>1, <1>2, <2>1
    <2>3. g[i] \in Seq(T) /\ s[i + 1] \in Seq(T)
        BY <2>1 DEF Lists
    <2>4. (a \o g[i]) \o s[i + 1] = a \o (g[i] \o s[i + 1])
        BY <1>a, <2>3
    <2>5. h[i + 2] = a \o g[i + 1]
        BY <1>4, <2>2, <2>4
    <2>6. i + 1 \in 0..n
        BY <2>1
    <2> QED BY <2>1, <2>5, <2>6
<1>5. 0..n \subseteq S
    <2>1. \A i \in 0..(n - 1) : i \in S => i + 1 \in S
        BY <1>4
    <2> HIDE DEF S
    <2> QED BY <1>3, <2>1, Induction
<1>6. n \in S
    BY <1>5
<1> QED BY <1>1, <1>2, <1>6

\* A text stands in raw from position p on.
Stands(raw, p, s) ==
    p + Len(s) =< Len(raw) + 1 /\ \A j \in 1..Len(s) : raw[p + j - 1] = s[j]

LEMMA StandsConcat ==
    ASSUME NEW T, NEW raw, Len(raw) \in Nat, NEW p \in Nat \ {0}, NEW a \in Seq(T), NEW b \in Seq(T)
    PROVE  Stands(raw, p, a \o b) <=> Stands(raw, p, a) /\ Stands(raw, p + Len(a), b)
<1>1. /\ a \o b \in Seq(T) /\ Len(a \o b) = Len(a) + Len(b) /\ Len(a) \in Nat /\ Len(b) \in Nat
      /\ \A i \in 1..(Len(a) + Len(b)) : (a \o b)[i] = IF i <= Len(a) THEN a[i] ELSE b[i - Len(a)]
    BY ConcatProperties, LenProperties
<1> DEFINE c == a \o b
<1> HIDE DEF c
<1>2. ASSUME Stands(raw, p, c) PROVE Stands(raw, p, a) /\ Stands(raw, p + Len(a), b)
    <2>1. \A j \in 1..Len(a) : raw[p + j - 1] = a[j]
        BY <1>1, <1>2 DEF Stands, c
    <2>2. ASSUME NEW j \in 1..Len(b) PROVE raw[(p + Len(a)) + j - 1] = b[j]
        <3>1. /\ Len(a) + j \in 1..(Len(a) + Len(b)) /\ ~(Len(a) + j <= Len(a))
              /\ (Len(a) + j) - Len(a) = j /\ p + (Len(a) + j) - 1 = (p + Len(a)) + j - 1
            BY <1>1
        <3>2. raw[p + (Len(a) + j) - 1] = c[Len(a) + j]
            BY <1>1, <1>2, <3>1 DEF Stands, c
        <3>3. c[Len(a) + j] = b[j]
            BY <1>1, <3>1 DEF c
        <3> QED BY <3>1, <3>2, <3>3
    <2>3. p + Len(a) =< Len(raw) + 1 /\ (p + Len(a)) + Len(b) =< Len(raw) + 1
        BY <1>1, <1>2 DEF Stands, c
    <2> QED BY <2>1, <2>2, <2>3 DEF Stands
<1>3. ASSUME Stands(raw, p, a), Stands(raw, p + Len(a), b) PROVE Stands(raw, p, c)
    <2>1. ASSUME NEW j \in 1..Len(c) PROVE raw[p + j - 1] = c[j]
        <3>1. CASE j <= Len(a)
            BY <1>1, <1>3, <3>1 DEF Stands, c
        <3>2. CASE ~(j <= Len(a))
            <4>1. j - Len(a) \in 1..Len(b) /\ (p + Len(a)) + (j - Len(a)) - 1 = p + j - 1
                BY <1>1, <3>2 DEF c
            <4>2. raw[p + j - 1] = b[j - Len(a)]
                BY <1>3, <4>1 DEF Stands
            <4> QED BY <1>1, <3>2, <4>2 DEF c
        <3> QED BY <3>1, <3>2
    <2>2. p + Len(c) =< Len(raw) + 1
        BY <1>1, <1>3 DEF Stands, c
    <2> QED BY <2>1, <2>2 DEF Stands
<1> QED BY <1>2, <1>3 DEF c

\* A value as it is written between quotes, without them.
Inside(quote, value) ==
    IF quote = Double THEN FlattenSeq([i \in DOMAIN value |-> Code(value[i])]) ELSE value

CodeIn(quote, c) == IF quote = Double THEN Code(c) ELSE <<c>>

\* The characters that the parser tells apart.
LEMMA Characters ==
    /\ {Space, Tab, Hash, Double, Single, Backslash, "n", "x"} = Typed /\ Typed \subseteq Char
    /\ Newline \in Char /\ Newline \notin Typed
    /\ Backslash # Double /\ Backslash # "n" /\ Double # "n" /\ Backslash # Single
    /\ Double # Single /\ Double \notin {Space, Tab, Hash} /\ Single \notin {Space, Tab, Hash}
    /\ Hash \notin {Space, Tab}
BY DEF Char, Typed, Space, Tab, Hash, Double, Single, Backslash, Newline

\* How a character is written in double quotes.
LEMMA CodeIs ==
    /\ Code(Newline) = <<Backslash, "n">>
    /\ \A c \in {Double, Backslash} : Code(c) = <<Backslash, c>>
    /\ \A c \in Char \ {Newline, Double, Backslash} : Code(c) = <<c>>
<1>1. Newline \notin {Double, Backslash}
    BY Characters
<1>2. Code(Newline) = <<Backslash, "n">>
    BY <1>1 DEF Code
<1>3. ASSUME NEW c \in {Double, Backslash} PROVE Code(c) = <<Backslash, c>>
    <2>1. c # Newline
        BY <1>1
    <2> QED BY <2>1 DEF Code
<1>4. ASSUME NEW c \in Char \ {Newline, Double, Backslash} PROVE Code(c) = <<c>>
    <2>1. c # Newline /\ c \notin {Double, Backslash}
        OBVIOUS
    <2> QED BY <2>1 DEF Code
<1> QED BY <1>2, <1>3, <1>4

LEMMA CodeType == \A c \in Char : Code(c) \in Seq(Char)
<1> SUFFICES ASSUME NEW c \in Char PROVE Code(c) \in Seq(Char)
    OBVIOUS
<1>1. "n" \in Char /\ Backslash \in Char /\ Double \in Char
    BY Characters
<1> HIDE DEF Char
<1>2. \A x, y \in Char : <<x, y>> \in Seq(Char) /\ <<x>> \in Seq(Char)
    OBVIOUS
<1> QED BY <1>1, <1>2, CodeIs

LEMMA InsideEmpty == \A quote : Inside(quote, <<>>) = <<>>
<1>1. FlattenSeq([i \in DOMAIN <<>> |-> Code(<<>>[i])]) = <<>>
    <2> DEFINE s == [i \in DOMAIN <<>> |-> Code(<<>>[i])]
    <2>1. s \in [1..0 -> Seq(Typed)]
        OBVIOUS
    <2> HIDE DEF s
    <2>2. 0 \in Nat
        OBVIOUS
    <2>3. PICK g \in [0..0 -> Seq(Typed)] :
             /\ g[0] = <<>>
             /\ \A i \in 1..0 : g[i] = g[i - 1] \o s[i]
             /\ FlattenSeq(s) = g[0]
        BY <2>1, <2>2, Flatten, Zenon
    <2> QED BY <2>3 DEF s
<1> QED BY <1>1 DEF Inside

\* A longer value is written by putting one more character in front.
LEMMA InsideFront ==
    ASSUME NEW quote, NEW c \in Char, NEW v \in Seq(Char)
    PROVE  /\ Inside(quote, v) \in Seq(Char)
           /\ Inside(quote, <<c>> \o v) = CodeIn(quote, c) \o Inside(quote, v)
<1>1. /\ <<c>> \o v \in Seq(Char) /\ Len(<<c>> \o v) = Len(v) + 1 /\ Len(v) \in Nat
      /\ \A i \in 1..(Len(v) + 1) : (<<c>> \o v)[i] = IF i <= 1 THEN c ELSE v[i - 1]
      /\ DOMAIN v = 1..Len(v) /\ DOMAIN (<<c>> \o v) = 1..(Len(v) + 1)
    <2>1. <<c>> \in Seq(Char) /\ Len(<<c>>) = 1 /\ <<c>>[1] = c
        OBVIOUS
    <2> HIDE DEF Char
    <2> QED BY <2>1, ConcatProperties, LenProperties
<1>2. CASE quote = Double
    <2> DEFINE n == Len(v)
               w == <<c>> \o v
               s == [i \in DOMAIN v |-> Code(v[i])]
               t == [i \in DOMAIN w |-> Code(w[i])]
    <2> HIDE DEF w
    <2>1. \A x \in Char : Code(x) \in Seq(Char)
        BY CodeType
    <2>2. \A i \in 1..n : v[i] \in Char
        BY ElementOfSeq
    <2>3. \A i \in 1..(n + 1) : w[i] \in Char
        BY <1>1, ElementOfSeq DEF w
    <2>4. s \in Lists(Char, n) /\ t \in Lists(Char, n + 1)
        BY <1>1, <2>1, <2>2, <2>3 DEF w, Lists
    <2>5. t[1] = Code(c) /\ \A i \in 1..n : t[i + 1] = s[i]
        BY <1>1 DEF w
    <2> HIDE DEF s, t, n
    <2>6. FlattenSeq(s) \in Seq(Char) /\ FlattenSeq(t) = Code(c) \o FlattenSeq(s)
        <3>1. n \in Nat /\ Code(c) \in Seq(Char)
            BY <1>1, <2>1 DEF n
        <3> DEFINE a == Code(c)
        <3>2. a \in Seq(Char) /\ t[1] = a
            BY <2>5, <3>1
        <3> HIDE DEF a
        <3>3. FlattenSeq(s) \in Seq(Char) /\ FlattenSeq(t) = a \o FlattenSeq(s)
            <4>1. Prepended(t, n, a, s)
                BY <2>5, <3>2 DEF Prepended
            <4> HIDE DEF Char
            <4> QED BY <2>4, <3>1, <3>2, <4>1, FlattenFront
        <3> QED BY <3>3 DEF a
    <2> QED BY <1>2, <2>6 DEF Inside, CodeIn, s, t, w
<1>3. CASE quote # Double
    BY <1>3 DEF Inside, CodeIn
<1> QED BY <1>2, <1>3

ScanStep(raw, quote, scan, i) ==
    IF i > Len(raw) THEN Failed
    ELSE IF quote = Double /\ raw[i] = Backslash
         THEN IF i < Len(raw) /\ raw[i + 1] \in DOMAIN Escape
              THEN Put(Escape[raw[i + 1]], scan[i + 2])
              ELSE Failed
    ELSE IF raw[i] = quote THEN [ok |-> TRUE, value |-> <<>>, next |-> i + 1]
    ELSE Put(raw[i], scan[i + 1])

Scans(raw, quote, scan) ==
    \A i \in 1..(Len(raw) + 1) : scan[i] = ScanStep(raw, quote, scan, i)

\* The recursion of ScanQuoted is well-founded: the scan is as its steps say.
LEMMA ScanSteps ==
    ASSUME NEW raw, Len(raw) \in Nat, NEW begin \in 1..(Len(raw) + 1)
    PROVE  \E scan :
              /\ ScanQuoted(raw, begin) = scan[begin]
              /\ Scans(raw, raw[begin - 1], scan)
<1> DEFINE n == Len(raw)
           J(f, i) == ScanStep(raw, raw[begin - 1], f, i)
           P(f) == f = [i \in 1..(n + 1) |-> J(f, i)]
           scan == CHOOSE f : P(f)
           D(k) == (n + 1 - k)..(n + 1)
           K == {k \in 0..n : \E f : f = [i \in D(k) |-> J(f, i)]}
<1>1. ScanQuoted(raw, begin) = scan[begin]
    BY DEF ScanQuoted, ScanStep, Put
<1>2. \A f : J(f, n + 1) = Failed
    BY DEF ScanStep
<1>3. \A f, g : \A i \in 1..n :
         f[i + 1] = g[i + 1] /\ (i < n => f[i + 2] = g[i + 2]) => J(f, i) = J(g, i)
    BY DEF ScanStep
<1> HIDE DEF J, scan
<1>4. 0 \in K
    <2> DEFINE f == [i \in D(0) |-> Failed]
    <2>1. D(0) = {n + 1}
        OBVIOUS
    <2>2. \A i \in D(0) : J(f, i) = Failed
        BY <1>2, <2>1
    <2>3. f = [i \in D(0) |-> J(f, i)]
        BY <2>2
    <2>4. \E h : h = [i \in D(0) |-> J(h, i)]
        BY <2>3
    <2> QED BY <2>4
<1>5. ASSUME NEW k \in 0..(n - 1), k \in K PROVE k + 1 \in K
    <2>1. PICK f : f = [i \in D(k) |-> J(f, i)]
        BY <1>5
    <2> DEFINE h == [i \in D(k + 1) |-> IF i = n - k THEN J(f, i) ELSE f[i]]
    <2>2. \A i \in D(k) : h[i] = f[i] /\ f[i] = J(f, i)
        <3>1. \A i \in D(k) : i \in D(k + 1) /\ i # n - k
            OBVIOUS
        <3>2. \A i \in D(k) : f[i] = J(f, i)
            BY <2>1
        <3> HIDE DEF D
        <3> QED BY <3>1, <3>2
    <2>3. h[n - k] = J(f, n - k)
        OBVIOUS
    <2>4. ASSUME NEW i \in D(k + 1) PROVE h[i] = J(h, i)
        <3>1. CASE i = n + 1
            <4>1. i \in D(k)
                BY <3>1
            <4>2. h[i] = J(f, n + 1)
                BY <2>2, <3>1, <4>1
            <4> HIDE DEF h
            <4> QED BY <1>2, <3>1, <4>2
        <3>2. CASE i # n + 1
            <4>1. i \in 1..n /\ i + 1 \in D(k) /\ (i < n => i + 2 \in D(k))
                BY <3>2
            <4>2. h[i + 1] = f[i + 1] /\ (i < n => h[i + 2] = f[i + 2])
                BY <2>2, <4>1
            <4>3. h[i] = J(f, i)
                <5>1. i \in D(k) \/ i = n - k
                    OBVIOUS
                <5> QED BY <2>2, <2>3, <5>1
            <4> HIDE DEF h
            <4> QED BY <1>3, <4>1, <4>2, <4>3
        <3> QED BY <3>1, <3>2
    <2>5. h = [i \in D(k + 1) |-> J(h, i)]
        <3>1. h = [i \in D(k + 1) |-> h[i]]
            OBVIOUS
        <3> HIDE DEF h
        <3> QED BY <2>4, <3>1
    <2> HIDE DEF h
    <2>6. \E e : e = [i \in D(k + 1) |-> J(e, i)]
        BY <2>5
    <2>7. k + 1 \in 0..n
        OBVIOUS
    <2> QED BY <2>6, <2>7
<1>6. n \in K
    <2>1. \A k \in 0..(n - 1) : k \in K => k + 1 \in K
        BY <1>5
    <2> HIDE DEF K
    <2>2. n \in Nat
        OBVIOUS
    <2>3. 0..n \subseteq K
        BY <1>4, <2>1, <2>2, Induction, Zenon
    <2> QED BY <2>2, <2>3
<1>7. PICK f : P(f)
    BY <1>6
<1>8. P(scan)
    BY <1>7 DEF scan
<1>9. \A i \in 1..(n + 1) : scan[i] = J(scan, i)
    BY <1>8
<1> QED BY <1>1, <1>9 DEF J, Scans

Outcome(v, m) == [ok |-> TRUE, value |-> v, next |-> m]

\* Put adds its character to what was read, and to nothing else.
LEMMA PutIs ==
    ASSUME NEW c
    PROVE  /\ Put(c, Failed) = Failed
           /\ \A v, m : Put(c, Outcome(v, m)) = Outcome(<<c>> \o v, m)
<1>1. Put(c, Failed) = Failed
    BY DEF Put, Failed
<1>2. ASSUME NEW v, NEW m PROVE Put(c, Outcome(v, m)) = Outcome(<<c>> \o v, m)
    <2>1. Outcome(v, m).ok = TRUE /\ Outcome(v, m).value = v /\ Outcome(v, m).next = m
        BY DEF Outcome
    <2> HIDE DEF Outcome
    <2>2. Put(c, Outcome(v, m)) = [ok |-> TRUE, value |-> <<c>> \o v, next |-> m]
        BY <2>1 DEF Put
    <2> QED BY <2>2 DEF Outcome
<1> QED BY <1>1, <1>2

\* What stands behind a backslash is what its code was made of.
LEMMA Escapes ==
    /\ DOMAIN Escape = {"n", Backslash, Double}
    /\ \A e \in DOMAIN Escape : Escape[e] \in Char /\ Code(Escape[e]) = <<Backslash, e>>
    /\ \A c \in {Newline, Double, Backslash} :
          \E e \in DOMAIN Escape : Code(c) = <<Backslash, e>> /\ Escape[e] = c
<1>1. DOMAIN Escape = {"n", Backslash, Double}
    BY DEF Escape
<1>2. Escape["n"] = Newline /\ Escape[Backslash] = Backslash /\ Escape[Double] = Double
    BY Characters DEF Escape
<1>3. {Newline, Double, Backslash} \subseteq Char
    BY Characters
<1> QED BY <1>1, <1>2, <1>3, CodeIs

LEMMA StandsOne ==
    ASSUME NEW raw, Len(raw) \in Nat, NEW p \in Nat \ {0}, NEW c
    PROVE  Stands(raw, p, <<c>>) <=> p =< Len(raw) /\ raw[p] = c
<1>1. Len(<<c>>) = 1 /\ <<c>>[1] = c
    OBVIOUS
<1> DEFINE s == <<c>>
<1> HIDE DEF s
<1>2. Stands(raw, p, s) <=> p =< Len(raw) /\ raw[p] = s[1]
    BY <1>1 DEF Stands, s
<1> QED BY <1>1, <1>2 DEF s

LEMMA StandsTwo ==
    ASSUME NEW raw, Len(raw) \in Nat, NEW p \in Nat \ {0}, NEW c, NEW d
    PROVE  Stands(raw, p, <<c, d>>) <=> p < Len(raw) /\ raw[p] = c /\ raw[p + 1] = d
<1>1. Len(<<c, d>>) = 2 /\ <<c, d>>[1] = c /\ <<c, d>>[2] = d
    OBVIOUS
<1> DEFINE s == <<c, d>>
<1> HIDE DEF s
<1>2. Len(s) = 2
    BY <1>1 DEF s
<1>3. ASSUME Stands(raw, p, s) PROVE p < Len(raw) /\ raw[p] = s[1] /\ raw[p + 1] = s[2]
    <2>1. 1 \in 1..Len(s) /\ 2 \in 1..Len(s) /\ p + 1 - 1 = p /\ p + 2 - 1 = p + 1
        BY <1>2
    <2> QED BY <1>2, <1>3, <2>1 DEF Stands
<1>4. ASSUME p < Len(raw), raw[p] = s[1], raw[p + 1] = s[2] PROVE Stands(raw, p, s)
    <2>1. ASSUME NEW j \in 1..Len(s) PROVE raw[p + j - 1] = s[j]
        <3>1. CASE j = 1
            BY <1>4, <3>1
        <3>2. CASE j = 2
            BY <1>4, <3>2
        <3> QED BY <1>2, <3>1, <3>2
    <2> QED BY <1>2, <1>4, <2>1 DEF Stands
<1> QED BY <1>1, <1>3, <1>4 DEF s

\* The text of a longer value up to its closing quote.
LEMMA QuotedFront ==
    ASSUME NEW quote \in Char, NEW c \in Char, NEW v \in Seq(Char)
    PROVE  /\ Inside(quote, v) \o <<quote>> \in Seq(Char)
           /\ Len(Inside(quote, v)) \in Nat
           /\ CodeIn(quote, c) \in Seq(Char)
           /\ Inside(quote, <<c>> \o v) \o <<quote>>
                  = CodeIn(quote, c) \o (Inside(quote, v) \o <<quote>>)
           /\ Len(Inside(quote, <<c>> \o v)) = Len(CodeIn(quote, c)) + Len(Inside(quote, v))
<1>1. Inside(quote, v) \in Seq(Char)
      /\ Inside(quote, <<c>> \o v) = CodeIn(quote, c) \o Inside(quote, v)
    BY InsideFront
<1>2. CodeIn(quote, c) \in Seq(Char)
    <2>1. Code(c) \in Seq(Char)
        BY CodeType
    <2>2. <<c>> \in Seq(Char)
        OBVIOUS
    <2> QED BY <2>1, <2>2 DEF CodeIn
<1>3. <<quote>> \in Seq(Char)
    OBVIOUS
<1>4. Associative(Char)
    BY Associates
<1> DEFINE a == CodeIn(quote, c)
           b == Inside(quote, v)
           q == <<quote>>
<1>5. a \in Seq(Char) /\ b \in Seq(Char) /\ q \in Seq(Char)
    BY <1>1, <1>2, <1>3
<1> HIDE DEF a, b, q, Char
<1>6. b \o q \in Seq(Char) /\ Len(b) \in Nat /\ Len(a \o b) = Len(a) + Len(b)
    BY <1>5, ConcatProperties, LenProperties
<1>7. (a \o b) \o q = a \o (b \o q)
    BY <1>4, <1>5 DEF Associative
<1> QED BY <1>1, <1>5, <1>6, <1>7 DEF a, b, q

\* A value with its closing quote.
Closed(quote, value) == Inside(quote, value) \o <<quote>>

LEMMA ClosedEmpty == \A quote : Closed(quote, <<>>) = <<quote>> /\ Len(Inside(quote, <<>>)) = 0
<1> SUFFICES ASSUME NEW quote
             PROVE Closed(quote, <<>>) = <<quote>> /\ Len(Inside(quote, <<>>)) = 0
    OBVIOUS
<1>1. Inside(quote, <<>>) = <<>>
    BY InsideEmpty
<1>2. <<>> \o <<quote>> = <<quote>>
    BY ConcatEmptySeq
<1> QED BY <1>1, <1>2 DEF Closed

\* What stands for a longer value stands for its first character, then the rest.
LEMMA ClosedFront ==
    ASSUME NEW quote \in Char, NEW c \in Char, NEW v \in Seq(Char),
           NEW raw, Len(raw) \in Nat, NEW p \in Nat \ {0}
    PROVE  /\ Len(CodeIn(quote, c)) \in Nat /\ Len(Inside(quote, v)) \in Nat
           /\ Len(Inside(quote, <<c>> \o v)) = Len(CodeIn(quote, c)) + Len(Inside(quote, v))
           /\ Stands(raw, p, Closed(quote, <<c>> \o v))
                 <=> /\ Stands(raw, p, CodeIn(quote, c))
                     /\ Stands(raw, p + Len(CodeIn(quote, c)), Closed(quote, v))
<1>1. /\ Closed(quote, v) \in Seq(Char) /\ CodeIn(quote, c) \in Seq(Char)
      /\ Len(Inside(quote, v)) \in Nat
      /\ Closed(quote, <<c>> \o v) = CodeIn(quote, c) \o Closed(quote, v)
      /\ Len(Inside(quote, <<c>> \o v)) = Len(CodeIn(quote, c)) + Len(Inside(quote, v))
    BY QuotedFront DEF Closed
<1> DEFINE a == CodeIn(quote, c)
           b == Closed(quote, v)
<1> HIDE DEF a, b, Char
<1>2. a \in Seq(Char) /\ b \in Seq(Char)
    BY <1>1 DEF a, b
<1>3. Len(a) \in Nat
    BY <1>2, LenProperties
<1>4. Stands(raw, p, a \o b) <=> Stands(raw, p, a) /\ Stands(raw, p + Len(a), b)
    BY <1>2, StandsConcat, ZenonT(30)
<1> QED BY <1>1, <1>3, <1>4 DEF a, b

\* A sequence is its head before the rest.
LEMMA Headed ==
    ASSUME NEW T, NEW v \in Seq(T), Len(v) > 0
    PROVE  \E c \in T, w \in Seq(T) : v = <<c>> \o w /\ Len(w) = Len(v) - 1
<1>1. v # <<>>
    OBVIOUS
<1>2. Head(v) \in T /\ Tail(v) \in Seq(T) /\ Len(Tail(v)) = Len(v) - 1
    BY <1>1, HeadTailProperties
<1>3. v = <<Head(v)>> \o Tail(v)
    <2> DEFINE h == <<Head(v)>>
               w == Tail(v)
    <2>1. h \in Seq(T) /\ Len(h) = 1 /\ h[1] = v[1]
        BY <1>2
    <2>2. w \in Seq(T) /\ Len(w) = Len(v) - 1 /\ \A i \in 1..Len(w) : w[i] = v[i + 1]
        BY <1>1, HeadTailProperties
    <2>3. Len(v) \in Nat
        BY LenProperties
    <2> HIDE DEF h, w
    <2>4. /\ h \o w \in Seq(T) /\ Len(h \o w) = Len(h) + Len(w)
          /\ \A i \in 1..(Len(h) + Len(w)) : (h \o w)[i] = IF i <= Len(h) THEN h[i] ELSE w[i - Len(h)]
        <3>1. h \in Seq(T) /\ w \in Seq(T)
            BY <2>1, <2>2
        <3> QED BY <3>1, ConcatProperties
    <2> DEFINE u == h \o w
    <2> HIDE DEF u
    <2>5. Len(v) = Len(u) /\ u \in Seq(T)
        BY <2>1, <2>2, <2>3, <2>4 DEF u
    <2>6. ASSUME NEW i \in 1..Len(v) PROVE v[i] = u[i]
        BY <2>1, <2>2, <2>3, <2>4 DEF u
    <2>7. v = u
        BY <2>5, <2>6, SeqEqual
    <2> QED BY <2>7 DEF u, h, w
<1> QED BY <1>2, <1>3

\* The scan of a value in double quotes gives the value.
LEMMA ScanReads ==
    ASSUME NEW raw, Len(raw) \in Nat, NEW scan,
           Scans(raw, Double, scan), NEW n \in Nat
    PROVE  \A v \in Seq(Char), p \in Nat \ {0} :
              Len(v) = n /\ Stands(raw, p, Closed(Double, v))
                  => scan[p] = Outcome(v, p + Len(Inside(Double, v)) + 1)
<1> DEFINE Reads(k) == \A v \in Seq(Char), p \in Nat \ {0} :
              Len(v) = k /\ Stands(raw, p, Closed(Double, v))
                  => scan[p] = Outcome(v, p + Len(Inside(Double, v)) + 1)
           S == {k \in 0..n : Reads(k)}
<1>s. \A i \in 1..(Len(raw) + 1) : scan[i] = ScanStep(raw, Double, scan, i)
    BY DEF Scans
<1>1. 0 \in S
    <2> SUFFICES ASSUME NEW v \in Seq(Char), NEW p \in Nat \ {0}, Len(v) = 0,
                        Stands(raw, p, Closed(Double, v))
                 PROVE  scan[p] = Outcome(v, p + Len(Inside(Double, v)) + 1)
        OBVIOUS
    <2>1. v = <<>>
        BY EmptySeq
    <2>2. p =< Len(raw) /\ raw[p] = Double
        BY <2>1, ClosedEmpty, StandsOne
    <2>3. scan[p] = ScanStep(raw, Double, scan, p)
        BY <1>s, <2>2
    <2>4. scan[p] = Outcome(<<>>, p + 1)
        BY <2>2, <2>3, Characters DEF ScanStep, Outcome
    <2>5. p + Len(Inside(Double, v)) + 1 = p + 1
        BY <2>1, ClosedEmpty
    <2> QED BY <2>1, <2>4, <2>5
<1>2. ASSUME NEW k \in 0..(n - 1), Reads(k), NEW v \in Seq(Char), NEW p \in Nat \ {0},
             Len(v) = k + 1, Stands(raw, p, Closed(Double, v))
      PROVE  scan[p] = Outcome(v, p + Len(Inside(Double, v)) + 1)
    <2>1. PICK c \in Char, w \in Seq(Char) : v = <<c>> \o w /\ Len(w) = k
        <3>1. Len(v) > 0 /\ Len(v) - 1 = k
            BY <1>2
        <3>2. \E c \in Char, w \in Seq(Char) : v = <<c>> \o w /\ Len(w) = Len(v) - 1
            <4> HIDE DEF Char
            <4> QED BY <3>1, Headed
        <3> QED BY <3>1, <3>2
    <2> DEFINE l == Len(Code(c))
               m == Len(Inside(Double, w))
    <2>2. /\ l \in Nat /\ m \in Nat /\ Len(Inside(Double, v)) = l + m
          /\ Stands(raw, p, Code(c)) /\ Stands(raw, p + l, Closed(Double, w))
        <3>1. Double \in Char /\ CodeIn(Double, c) = Code(c)
            BY Characters DEF CodeIn
        <3>2. Stands(raw, p, Closed(Double, <<c>> \o w))
            BY <1>2, <2>1
        <3>3. /\ Len(CodeIn(Double, c)) \in Nat /\ Len(Inside(Double, w)) \in Nat
              /\ Len(Inside(Double, <<c>> \o w)) = Len(CodeIn(Double, c)) + Len(Inside(Double, w))
              /\ Stands(raw, p, Closed(Double, <<c>> \o w))
                     <=> /\ Stands(raw, p, CodeIn(Double, c))
                         /\ Stands(raw, p + Len(CodeIn(Double, c)), Closed(Double, w))
            BY <3>1, ClosedFront
        <3> QED BY <2>1, <3>1, <3>2, <3>3
    <2>3. scan[p + l] = Outcome(w, (p + l) + m + 1)
        BY <1>2, <2>1, <2>2
    <2>4. Put(c, scan[p + l]) = Outcome(v, p + (l + m) + 1)
        <3>1. (p + l) + m + 1 = p + (l + m) + 1
            BY <2>2
        <3>2. Put(c, scan[p + l]) = Outcome(<<c>> \o w, (p + l) + m + 1)
            BY <2>3, PutIs
        <3> QED BY <2>1, <3>1, <3>2
    <2>5. scan[p] = Put(c, scan[p + l])
        <3>1. CASE c \notin {Newline, Double, Backslash}
            <4>1. Code(c) = <<c>>
                BY <3>1, CodeIs
            <4>2. l = 1 /\ p =< Len(raw) /\ raw[p] = c
                BY <2>2, <4>1, StandsOne
            <4>3. scan[p] = ScanStep(raw, Double, scan, p)
                BY <1>s, <4>2
            <4> QED BY <3>1, <4>2, <4>3 DEF ScanStep
        <3>2. CASE c \in {Newline, Double, Backslash}
            <4>1. PICK e \in DOMAIN Escape : Code(c) = <<Backslash, e>> /\ Escape[e] = c
                BY <3>2, Escapes
            <4>2. l = 2 /\ p < Len(raw) /\ raw[p] = Backslash /\ raw[p + 1] = e
                <5>1. Len(<<Backslash, e>>) = 2
                    OBVIOUS
                <5>2. Stands(raw, p, <<Backslash, e>>)
                    BY <2>2, <4>1
                <5>3. p < Len(raw) /\ raw[p] = Backslash /\ raw[p + 1] = e
                    BY <5>2, StandsTwo
                <5> QED BY <4>1, <5>1, <5>3
            <4>3. scan[p] = ScanStep(raw, Double, scan, p)
                BY <1>s, <4>2
            <4> QED BY <4>1, <4>2, <4>3 DEF ScanStep
        <3> QED BY <3>1, <3>2
    <2> QED BY <2>2, <2>4, <2>5
<1>3. \A k \in 0..(n - 1) : k \in S => k + 1 \in S
    <2> SUFFICES ASSUME NEW k \in 0..(n - 1), k \in S PROVE k + 1 \in S
        OBVIOUS
    <2>1. Reads(k)
        OBVIOUS
    <2>2. Reads(k + 1)
        BY <1>2, <2>1
    <2> HIDE DEF Reads
    <2> QED BY <2>2
<1> HIDE DEF S
<1>4. 0..n \subseteq S
    BY <1>1, <1>3, Induction
<1>5. n \in 0..n
    OBVIOUS
<1> QED BY <1>4, <1>5 DEF S

\* What a scan reads stands between the quotes.
Yields(raw, quote, scan, i) ==
    \/ scan[i] = Failed
    \/ \E v \in Seq(Char) :
          /\ scan[i] = Outcome(v, i + Len(Inside(quote, v)) + 1)
          /\ Stands(raw, i, Closed(quote, v))

\* A scan that puts a character before what it read yields that, too.
LEMMA YieldsMore ==
    ASSUME NEW raw, Len(raw) \in Nat, NEW scan, NEW quote \in Char, NEW c \in Char,
           NEW p \in Nat \ {0}, NEW l, l = Len(CodeIn(quote, c)),
           Stands(raw, p, CodeIn(quote, c)), Yields(raw, quote, scan, p + l),
           scan[p] = Put(c, scan[p + l])
    PROVE  Yields(raw, quote, scan, p)
<1>1. CASE scan[p + l] = Failed
    BY <1>1, PutIs DEF Yields
<1>2. CASE scan[p + l] # Failed
    <2>1. PICK v \in Seq(Char) :
             /\ scan[p + l] = Outcome(v, (p + l) + Len(Inside(quote, v)) + 1)
             /\ Stands(raw, p + l, Closed(quote, v))
        BY <1>2 DEF Yields
    <2> DEFINE w == <<c>> \o v
               m == Len(Inside(quote, v))
    <2>2. /\ l \in Nat /\ m \in Nat /\ Len(Inside(quote, w)) = l + m
          /\ Stands(raw, p, Closed(quote, w))
        <3>1. /\ Len(CodeIn(quote, c)) \in Nat /\ Len(Inside(quote, v)) \in Nat
              /\ Len(Inside(quote, <<c>> \o v)) = Len(CodeIn(quote, c)) + Len(Inside(quote, v))
              /\ Stands(raw, p, Closed(quote, <<c>> \o v))
                     <=> /\ Stands(raw, p, CodeIn(quote, c))
                         /\ Stands(raw, p + Len(CodeIn(quote, c)), Closed(quote, v))
            BY ClosedFront
        <3> QED BY <2>1, <3>1
    <2>3. scan[p] = Outcome(w, p + Len(Inside(quote, w)) + 1)
        <3>1. (p + l) + m + 1 = p + (l + m) + 1
            BY <2>2
        <3>2. Put(c, scan[p + l]) = Outcome(w, (p + l) + m + 1)
            BY <2>1, PutIs
        <3> QED BY <2>2, <3>1, <3>2
    <2>4. w \in Seq(Char)
        <3>1. <<c>> \in Seq(Char)
            OBVIOUS
        <3> HIDE DEF Char
        <3> QED BY <3>1, ConcatProperties
    <2> HIDE DEF w
    <2> QED BY <2>2, <2>3, <2>4 DEF Yields
<1> QED BY <1>1, <1>2

\* Conversely what a scan reads stands there, however it ends.
LEMMA ScanYields ==
    ASSUME NEW raw \in Seq(Typed), NEW scan, NEW quote \in {Double, Single},
           Scans(raw, quote, scan)
    PROVE  \A i \in 1..(Len(raw) + 1) : Yields(raw, quote, scan, i)
<1> DEFINE n == Len(raw)
           Y(i) == Yields(raw, quote, scan, i)
           S == {k \in 0..n : \A i \in (n + 1 - k)..(n + 1) : Y(i)}
<1>0. n \in Nat /\ quote \in Char /\ \A i \in 1..n : raw[i] \in Typed
    BY LenProperties, ElementOfSeq, Characters
<1>s. \A i \in 1..(n + 1) : scan[i] = ScanStep(raw, quote, scan, i)
    BY DEF Scans
<1>1. 0 \in S
    <2>1. scan[n + 1] = Failed
        <3>1. n + 1 \in 1..(n + 1) /\ n + 1 > n
            BY <1>0
        <3>2. scan[n + 1] = ScanStep(raw, quote, scan, n + 1)
            BY <1>s, <3>1
        <3> QED BY <3>1, <3>2 DEF ScanStep
    <2>2. \A i \in (n + 1)..(n + 1) : Y(i)
        BY <1>0, <2>1 DEF Yields
    <2> HIDE DEF Y
    <2> QED BY <1>0, <2>2
<1>2. ASSUME NEW p \in 1..n, Y(p + 1), p < n => Y(p + 2) PROVE Y(p)
    <2>0. p \in Nat \ {0} /\ p \in 1..(n + 1) /\ raw[p] \in Typed
        BY <1>0
    <2>s. scan[p] = ScanStep(raw, quote, scan, p)
        BY <1>s, <2>0
    <2>1. CASE quote = Double /\ raw[p] = Backslash
        <3>1. CASE p < n /\ raw[p + 1] \in DOMAIN Escape
            <4> DEFINE e == raw[p + 1]
                       c == Escape[e]
            <4>1. c \in Char /\ CodeIn(quote, c) = <<Backslash, e>>
                BY <2>1, <3>1, Escapes DEF CodeIn
            <4>2. Len(<<Backslash, e>>) = 2
                OBVIOUS
            <4>3. Stands(raw, p, CodeIn(quote, c))
                BY <1>0, <2>0, <2>1, <3>1, <4>1, StandsTwo
            <4>4. scan[p] = Put(c, scan[p + 2])
                BY <2>s, <2>0, <2>1, <3>1 DEF ScanStep
            <4>5. Len(CodeIn(quote, c)) = 2
                BY <4>1, <4>2
            <4> HIDE DEF c
            <4> QED BY <1>0, <1>2, <2>0, <3>1, <4>1, <4>3, <4>4, <4>5, YieldsMore
        <3>2. CASE ~(p < n /\ raw[p + 1] \in DOMAIN Escape)
            <4>1. scan[p] = Failed
                BY <2>s, <2>0, <2>1, <3>2 DEF ScanStep
            <4> QED BY <4>1 DEF Yields
        <3> QED BY <3>1, <3>2
    <2>2. CASE ~(quote = Double /\ raw[p] = Backslash) /\ raw[p] = quote
        <3>1. scan[p] = Outcome(<<>>, p + 1)
            BY <2>s, <2>0, <2>2 DEF ScanStep, Outcome
        <3>2. Stands(raw, p, Closed(quote, <<>>)) /\ p + Len(Inside(quote, <<>>)) + 1 = p + 1
            BY <1>0, <2>0, <2>2, ClosedEmpty, StandsOne
        <3>3. <<>> \in Seq(Char)
            OBVIOUS
        <3> QED BY <3>1, <3>2, <3>3 DEF Yields
    <2>3. CASE ~(quote = Double /\ raw[p] = Backslash) /\ raw[p] # quote
        <3> DEFINE c == raw[p]
        <3>1. c \in Char /\ CodeIn(quote, c) = <<c>>
            <4>1. c \in Char /\ c # Newline
                BY <2>0, Characters
            <4>2. quote = Double => Code(c) = <<c>>
                BY <2>3, <4>1, CodeIs
            <4> QED BY <4>1, <4>2 DEF CodeIn
        <3>2. Len(<<c>>) = 1
            OBVIOUS
        <3>3. Stands(raw, p, CodeIn(quote, c))
            BY <1>0, <2>0, <3>1, StandsOne
        <3>4. scan[p] = Put(c, scan[p + 1])
            BY <2>s, <2>0, <2>3 DEF ScanStep
        <3>5. Len(CodeIn(quote, c)) = 1
            BY <3>1, <3>2
        <3> HIDE DEF c
        <3> QED BY <1>0, <1>2, <2>0, <3>1, <3>3, <3>4, <3>5, YieldsMore
    <2> QED BY <2>1, <2>2, <2>3
<1> HIDE DEF Y
<1>3. ASSUME NEW k \in 0..(n - 1), k \in S PROVE k + 1 \in S
    <2>1. \A i \in (n + 1 - k)..(n + 1) : Y(i)
        BY <1>3
    <2>2. Y(n - k)
        <3>1. n - k \in 1..n /\ (n - k) + 1 \in (n + 1 - k)..(n + 1)
              /\ (n - k < n => (n - k) + 2 \in (n + 1 - k)..(n + 1))
            BY <1>0
        <3> QED BY <1>2, <2>1, <3>1
    <2>3. \A i \in (n + 1 - (k + 1))..(n + 1) : Y(i)
        BY <1>0, <2>1, <2>2
    <2>4. k + 1 \in 0..n
        BY <1>0
    <2> QED BY <2>3, <2>4
<1>4. n \in S
    <2>1. \A k \in 0..(n - 1) : k \in S => k + 1 \in S
        BY <1>3
    <2> HIDE DEF S
    <2>2. 0..n \subseteq S
        BY <1>0, <1>1, <2>1, Induction
    <2> QED BY <1>0, <2>2
<1>5. \A i \in 1..(n + 1) : Y(i)
    <2>1. n + 1 - n = 1
        BY <1>0
    <2> QED BY <1>4, <2>1
<1> QED BY <1>5 DEF Y

LEMMA Standing == ASSUME NEW T, NEW raw \in Seq(T) PROVE Stands(raw, 1, raw)
<1>1. Len(raw) \in Nat
    BY LenProperties
<1> QED BY <1>1 DEF Stands

LEMMA Blanks ==
    ASSUME NEW raw, Len(raw) \in Nat, NEW i \in Nat \ {0}
    PROVE  /\ Inked(raw, i) \subseteq Nat /\ Inked(raw, i) \subseteq 0..Len(raw)
           /\ \A j : j \in Inked(raw, i) <=> j \in i..Len(raw) /\ raw[j] \notin {Space, Tab}
BY DEF Inked

\* The rest of a line is nothing, or a comment.
LEMMA BlankOrComment ==
    ASSUME NEW raw, Len(raw) \in Nat, NEW i \in Nat \ {0}
    PROVE  blank_or_comment_from(raw, i) <=>
              \/ \A j \in i..Len(raw) : raw[j] \in {Space, Tab}
              \/ \E k \in i..Len(raw) :
                    raw[k] = Hash /\ \A j \in i..(k - 1) : raw[j] \in {Space, Tab}
<1> DEFINE In == Inked(raw, i)
<1>1. In \subseteq Nat /\ \A j : j \in In <=> j \in i..Len(raw) /\ raw[j] \notin {Space, Tab}
    BY Blanks
<1>2. In # {} => Min(In) \in In /\ \A x \in In : Min(In) =< x
    BY <1>1, HasMinimum
<1>3. blank_or_comment_from(raw, i) <=> In = {} \/ raw[Min(In)] = Hash
    BY DEF blank_or_comment_from
<1>4. In = {} <=> \A j \in i..Len(raw) : raw[j] \in {Space, Tab}
    BY <1>1
<1> HIDE DEF In
<1>5. ASSUME In # {}, raw[Min(In)] = Hash
      PROVE  \E k \in i..Len(raw) : raw[k] = Hash /\ \A j \in i..(k - 1) : raw[j] \in {Space, Tab}
    <2> DEFINE k == Min(In)
    <2>1. k \in i..Len(raw) /\ k \in In /\ \A x \in In : k =< x
        BY <1>1, <1>2, <1>5
    <2> HIDE DEF k
    <2>2. \A j \in i..(k - 1) : raw[j] \in {Space, Tab}
        BY <1>1, <2>1
    <2> QED BY <1>5, <2>1, <2>2 DEF k
<1>6. ASSUME NEW k \in i..Len(raw), raw[k] = Hash, \A j \in i..(k - 1) : raw[j] \in {Space, Tab}
      PROVE  raw[Min(In)] = Hash
    <2>1. k \in In
        BY <1>1, <1>6, Characters
    <2>2. Min(In) \in In /\ Min(In) =< k
        BY <1>2, <2>1
    <2>3. Min(In) = k
        BY <1>1, <1>6, <2>1, <2>2
    <2> QED BY <1>6, <2>3
<1> QED BY <1>3, <1>4, <1>5, <1>6

\* Quoted, as it is scanned.
LEMMA QuotedIs ==
    ASSUME NEW quote \in Char, NEW v \in Seq(Char)
    PROVE  /\ Closed(quote, v) \in Seq(Char)
           /\ Len(Inside(quote, v)) \in Nat
           /\ Len(Closed(quote, v)) = Len(Inside(quote, v)) + 1
           /\ Closed(quote, v)[Len(Inside(quote, v)) + 1] = quote
           /\ quote = Double => Quoted(v) = <<quote>> \o Closed(quote, v)
           /\ quote = Single => (<<Single>> \o v) \o <<Single>> = <<quote>> \o Closed(quote, v)
<1> DEFINE b == Inside(quote, v)
           q == <<quote>>
<1>1. b \in Seq(Char)
    BY InsideFront, Characters
<1>2. q \in Seq(Char) /\ Len(q) = 1 /\ q[1] = quote
    OBVIOUS
<1>3. Associative(Char)
    BY Associates
<1>4. quote = Double => Quoted(v) = (q \o b) \o q
    BY DEF Quoted, Inside
<1>5. quote = Single => (<<Single>> \o v) \o <<Single>> = (q \o b) \o q
    BY Characters DEF Inside
<1> HIDE DEF b, q, Char
<1>6. b \o q \in Seq(Char) /\ Len(b \o q) = Len(b) + 1 /\ Len(b) \in Nat /\ (b \o q)[Len(b) + 1] = quote
    <2>1. /\ b \o q \in Seq(Char) /\ Len(b \o q) = Len(b) + Len(q)
          /\ \A i \in 1..(Len(b) + Len(q)) : (b \o q)[i] = IF i <= Len(b) THEN b[i] ELSE q[i - Len(b)]
        BY <1>1, <1>2, ConcatProperties
    <2>2. Len(b) \in Nat
        BY <1>1, LenProperties
    <2>3. Len(b) + 1 \in 1..(Len(b) + Len(q)) /\ ~(Len(b) + 1 <= Len(b)) /\ (Len(b) + 1) - Len(b) = 1
        BY <1>2, <2>2
    <2>4. (b \o q)[Len(b) + 1] = q[1]
        BY <2>1, <2>3
    <2> QED BY <1>2, <2>1, <2>2, <2>4
<1>7. (q \o b) \o q = q \o (b \o q)
    BY <1>1, <1>2, <1>3 DEF Associative
<1> QED BY <1>4, <1>5, <1>6, <1>7 DEF b, q, Closed

\* A value in double quotes is read back, whatever blanks and comment follow.
LEMMA QuotedParses ==
    ASSUME NEW v \in Seq(Char), NEW tail \in {<<>>, <<Space, Hash, Double>>}
    PROVE  parse_value((<<Space>> \o Quoted(v)) \o tail) = [ok |-> TRUE, warned |-> FALSE, value |-> v]
<1> DEFINE raw == (<<Space>> \o Quoted(v)) \o tail
           l == Len(Inside(Double, v))
           c == Closed(Double, v)
           sp == <<Space>>
           q == <<Double>>
<1>1. /\ Double \in Char /\ c \in Seq(Char) /\ l \in Nat /\ Len(c) = l + 1 /\ c[l + 1] = Double
      /\ Quoted(v) = q \o c
    <2>1. Double \in Char
        BY Characters
    <2> QED BY <2>1, QuotedIs
<1>2. tail \in Seq(Char) /\ (tail = <<>> => Len(tail) = 0)
      /\ (tail = <<Space, Hash, Double>> => Len(tail) = 3 /\ tail[1] = Space /\ tail[2] = Hash)
    <2>1. \A x, y, z \in Char : /\ <<x, y, z>> \in Seq(Char) /\ Len(<<x, y, z>>) = 3
                              /\ <<x, y, z>>[1] = x /\ <<x, y, z>>[2] = y
        OBVIOUS
    <2>2. <<>> \in Seq(Char) /\ Len(<<>>) = 0
        OBVIOUS
    <2>3. Space \in Char /\ Hash \in Char /\ Double \in Char
        BY Characters
    <2>4. CASE tail = <<>>
        <3>1. <<>> # <<Space, Hash, Double>>
            OBVIOUS
        <3> HIDE DEF Char
        <3> QED BY <2>2, <2>4, <3>1
    <2>5. CASE tail = <<Space, Hash, Double>>
        <3>1. <<>> # <<Space, Hash, Double>>
            OBVIOUS
        <3> HIDE DEF Char
        <3> QED BY <2>1, <2>3, <2>5, <3>1
    <2> QED BY <2>4, <2>5
<1>3. sp \in Seq(Char) /\ Len(sp) = 1 /\ q \in Seq(Char) /\ Len(q) = 1
    BY Characters
<1>4. Associative(Char)
    BY Associates
<1> HIDE DEF sp, q, c, Char
<1>5. raw \in Seq(Char) /\ raw = sp \o (q \o (c \o tail)) /\ Len(raw) = l + 3 + Len(tail)
      /\ Len(raw) \in Nat /\ Len(tail) \in Nat
    <2>1. q \o c \in Seq(Char) /\ c \o tail \in Seq(Char) /\ q \o (c \o tail) \in Seq(Char)
        BY <1>1, <1>2, <1>3, ConcatProperties
    <2>2. (q \o c) \o tail = q \o (c \o tail)
        BY <1>1, <1>2, <1>3, <1>4 DEF Associative
    <2>3. raw = sp \o ((q \o c) \o tail)
        <3> DEFINE d == q \o c
        <3>1. d \in Seq(Char)
            BY <2>1
        <3> HIDE DEF d
        <3>2. (sp \o d) \o tail = sp \o (d \o tail)
            BY <1>2, <1>3, <1>4, <3>1, ZenonT(30) DEF Associative
        <3> QED BY <1>1, <3>2 DEF sp, d
    <2>4. raw = sp \o (q \o (c \o tail))
        BY <2>2, <2>3
    <2> HIDE DEF raw
    <2>5. raw \in Seq(Char) /\ Len(raw) = Len(sp) + (Len(q) + (Len(c) + Len(tail)))
        <3> DEFINE d == c \o tail
                   e == q \o d
        <3>1. Len(d) = Len(c) + Len(tail) /\ d \in Seq(Char)
            BY <1>1, <1>2, ConcatProperties
        <3> HIDE DEF d
        <3>2. Len(e) = Len(q) + Len(d) /\ e \in Seq(Char)
            BY <1>3, <3>1, ConcatProperties
        <3> HIDE DEF e
        <3>3. Len(sp \o e) = Len(sp) + Len(e) /\ sp \o e \in Seq(Char)
            BY <1>3, <3>2, ConcatProperties
        <3>4. raw = sp \o e
            BY <2>4 DEF d, e
        <3> QED BY <3>1, <3>2, <3>3, <3>4
    <2>6. Len(tail) \in Nat
        BY <1>2, LenProperties
    <2> QED BY <1>1, <1>3, <2>4, <2>5, <2>6
<1> HIDE DEF raw
<1>r. Len(raw) \in Nat
    BY <1>5
<1>6. raw[1] = Space /\ raw[2] = Double /\ Stands(raw, 3, c) /\ Stands(raw, l + 4, tail)
    <2>0. ASSUME NEW p \in Nat \ {0}, NEW a \in Seq(Char), NEW b \in Seq(Char), NEW f,
                 f = a \o b, Stands(raw, p, f)
          PROVE  Stands(raw, p, a) /\ Stands(raw, p + Len(a), b)
        <3>1. Stands(raw, p, a \o b)
            BY <2>0
        <3> QED BY <1>r, <3>1, StandsConcat
    <2> DEFINE d == c \o tail
               e == q \o d
    <2>1. d \in Seq(Char)
        BY <1>1, <1>2, ConcatProperties
    <2> HIDE DEF d
    <2>2. e \in Seq(Char)
        BY <1>3, <2>1, ConcatProperties
    <2> HIDE DEF e
    <2>3. Stands(raw, 1, sp) /\ Stands(raw, 2, e)
        <3>1. Stands(raw, 1, raw) /\ raw = sp \o e
            BY <1>5, Standing DEF d, e
        <3>2. Stands(raw, 1, sp) /\ Stands(raw, 1 + Len(sp), e)
            <4>1. 1 \in Nat \ {0} /\ sp \in Seq(Char)
                BY <1>3
            <4> QED BY <2>0, <2>2, <3>1, <4>1
        <3> QED BY <1>3, <3>2
    <2>4. Stands(raw, 2, q) /\ Stands(raw, 3, d)
        <3>1. Stands(raw, 2, q) /\ Stands(raw, 2 + Len(q), d)
            <4>1. e = q \o d
                BY DEF e
            <4>2. 2 \in Nat \ {0} /\ q \in Seq(Char)
                BY <1>3
            <4> QED BY <2>0, <2>1, <2>3, <4>1, <4>2
        <3> QED BY <1>3, <3>1
    <2>5. Stands(raw, 3, c) /\ Stands(raw, 3 + Len(c), tail)
        <3>1. d = c \o tail
            BY DEF d
        <3>2. 3 \in Nat \ {0} /\ c \in Seq(Char) /\ tail \in Seq(Char)
            BY <1>1, <1>2
        <3> QED BY <2>0, <2>4, <3>1, <3>2
    <2>6. 3 + Len(c) = l + 4
        BY <1>1
    <2> QED BY <1>5, <2>3, <2>4, <2>5, <2>6, StandsOne DEF sp, q
<1>7. Inked(raw, 1) # {} /\ Min(Inked(raw, 1)) = 2
    <2> DEFINE In == Inked(raw, 1)
    <2>1. In \subseteq Nat /\ \A j : j \in In <=> j \in 1..Len(raw) /\ raw[j] \notin {Space, Tab}
        BY <1>r, Blanks
    <2>2. 2 \in In /\ 1 \notin In /\ 0 \notin In
        <3>1. 2 \in 1..Len(raw) /\ 1 \in 1..Len(raw) /\ 0 \notin 1..Len(raw)
            BY <1>1, <1>5
        <3>2. raw[1] \in {Space, Tab} /\ raw[2] \notin {Space, Tab}
            BY <1>6, Characters
        <3> QED BY <2>1, <3>1, <3>2
    <2> HIDE DEF In
    <2>3. Min(In) \in In /\ Min(In) =< 2 /\ Min(In) \in Nat
        BY <2>1, <2>2, HasMinimum
    <2>4. Min(In) = 2
        BY <2>2, <2>3
    <2> QED BY <2>2, <2>4 DEF In
<1>8. ScanQuoted(raw, 3) = Outcome(v, l + 4)
    <2>1. 3 \in 1..(Len(raw) + 1) /\ raw[3 - 1] = Double
        BY <1>1, <1>5, <1>6
    <2>2. PICK scan : /\ ScanQuoted(raw, 3) = scan[3]
                      /\ Scans(raw, raw[3 - 1], scan)
        BY <1>r, <2>1, ScanSteps, Zenon
    <2>3. Scans(raw, Double, scan)
        BY <2>1, <2>2
    <2>4. \A w \in Seq(Char), p \in Nat \ {0} :
              Len(w) = Len(v) /\ Stands(raw, p, Closed(Double, w))
                  => scan[p] = Outcome(w, p + Len(Inside(Double, w)) + 1)
        <3>1. Len(v) \in Nat
            BY LenProperties
        <3> QED BY <1>r, <2>3, <3>1, ScanReads
    <2>5. scan[3] = Outcome(v, 3 + l + 1)
        BY <1>6, <2>4 DEF c
    <2>6. 3 + l + 1 = l + 4
        BY <1>1
    <2> QED BY <2>2, <2>5, <2>6
<1>9. blank_or_comment_from(raw, l + 4)
    <2>1. l + 4 \in Nat \ {0}
        BY <1>1
    <2>2. CASE tail = <<>>
        <3>1. \A j \in (l + 4)..Len(raw) : raw[j] \in {Space, Tab}
            BY <1>1, <1>2, <1>5, <2>2
        <3> QED BY <1>5, <2>1, <3>1, BlankOrComment
    <2>3. CASE tail = <<Space, Hash, Double>>
        <3> DEFINE k == l + 5
        <3>0. Len(tail) = 3 /\ tail[1] = Space /\ tail[2] = Hash
            BY <1>2, <2>3
        <3>1. raw[l + 4] = Space /\ raw[k] = Hash
            <4>1. 1 \in 1..Len(tail) /\ 2 \in 1..Len(tail) /\ (l + 4) + 1 - 1 = l + 4
                  /\ (l + 4) + 2 - 1 = k
                BY <1>1, <3>0
            <4> QED BY <1>6, <3>0, <4>1 DEF Stands
        <3>2. k \in (l + 4)..Len(raw) /\ \A j \in (l + 4)..(k - 1) : j = l + 4
            BY <1>1, <1>5, <3>0
        <3> HIDE DEF k
        <3>3. \E e \in (l + 4)..Len(raw) :
                 raw[e] = Hash /\ \A j \in (l + 4)..(e - 1) : raw[j] \in {Space, Tab}
            BY <3>1, <3>2
        <3> QED BY <1>5, <2>1, <3>3, BlankOrComment
    <2> QED BY <2>2, <2>3
<1>10. parse_value(raw) = [ok |-> TRUE, warned |-> FALSE, value |-> v]
    <2>1. Outcome(v, l + 4).ok = TRUE /\ Outcome(v, l + 4).value = v /\ Outcome(v, l + 4).next = l + 4
        BY DEF Outcome
    <2>2. 2 + 1 = 3 /\ raw[2] \in {Double, Single}
        BY <1>6
    <2> QED BY <1>7, <1>8, <1>9, <2>1, <2>2 DEF parse_value
<1> QED BY <1>10 DEF raw

DotenvLine == [key : Keys \cup {NoPair, Skipped}, raw : Seq(Typed)]

\* The lines typed stay lines: a key or what stands for none, and typed characters.
THEOREM DotenvTypeCorrect == DotenvSpec => []DotenvTypeOK
<1>1. DotenvInit => DotenvTypeOK
    BY DEF DotenvInit, DotenvTypeOK
<1>2. ASSUME DotenvTypeOK, [DotenvNext]_dotenvVars PROVE DotenvTypeOK'
    <2> DEFINE L == DotenvLine
    <2>0. dotenv \in Seq(L)
        BY <1>2 DEF DotenvTypeOK, DotenvLine
    <2>1. CASE TypeChar
        <3>1. PICK c \in Typed : dotenv' = [dotenv EXCEPT ![Len(dotenv)].raw = Append(@, c)]
            BY <2>1 DEF TypeChar
        <3> DEFINE i == Len(dotenv)
                   l == [dotenv[i] EXCEPT !.raw = Append(@, c)]
        <3>2. i \in 1..Len(dotenv) /\ dotenv[i] \in L
            <4>1. dotenv # <<>>
                BY <2>1 DEF TypeChar
            <4> HIDE DEF L
            <4>2. i \in Nat /\ i > 0
                BY <2>0, <4>1, EmptySeq, LenProperties
            <4> QED BY <2>0, <4>2, ElementOfSeq
        <3>3. l \in L
            <4>1. Append(dotenv[i].raw, c) \in Seq(Typed)
                <5>1. dotenv[i].raw \in Seq(Typed)
                    BY <3>2 DEF DotenvLine
                <5> HIDE DEF Typed
                <5> QED BY <5>1, AppendProperties
            <4> HIDE DEF Typed
            <4> QED BY <3>2, <4>1 DEF DotenvLine
        <3>4. dotenv' = [dotenv EXCEPT ![i] = l]
            BY <3>1
        <3> HIDE DEF i, l, L
        <3>5. dotenv' \in Seq(L)
            BY <2>0, <3>2, <3>3, <3>4, ExceptSeq
        <3> QED BY <3>5 DEF L, DotenvLine, DotenvTypeOK
    <2>2. CASE TypeLine
        <3>1. PICK k \in Keys \cup {NoPair, Skipped} :
                 dotenv' = Append(dotenv, [key |-> k, raw |-> <<>>])
            BY <2>2 DEF TypeLine
        <3> DEFINE l == [key |-> k, raw |-> <<>>]
        <3>2. l \in L
            BY DEF DotenvLine
        <3> HIDE DEF l, L
        <3>3. dotenv' \in Seq(L)
            BY <2>0, <3>1, <3>2, AppendProperties DEF l
        <3> QED BY <3>3 DEF L, DotenvLine, DotenvTypeOK
    <2>3. CASE UNCHANGED dotenvVars
        BY <1>2, <2>3 DEF dotenvVars, DotenvTypeOK
    <2> QED BY <1>2, <2>1, <2>2, <2>3 DEF DotenvNext
<1> QED BY <1>1, <1>2, PTL DEF DotenvSpec

\* Whatever the value, import reads it back from double quotes (parse_dotenv, the
\* loop over a quoted value), and a comment after it changes nothing.
THEOREM QuotedAlwaysReadsBack == DotenvSpec => []QuotedReadsBack
<1>1. DotenvTypeOK => QuotedReadsBack
    <2> SUFFICES ASSUME DotenvTypeOK, NEW i \in DOMAIN dotenv,
                        NEW tail \in {<<>>, <<Space, Hash, Double>>}
                 PROVE  LET value == [j \in DOMAIN dotenv[i].raw |->
                                IF dotenv[i].raw[j] = "x" THEN Newline ELSE dotenv[i].raw[j]]
                        IN  parse_value(<<Space>> \o Quoted(value) \o tail)
                                = [ok |-> TRUE, warned |-> FALSE, value |-> value]
        BY DEF QuotedReadsBack
    <2> DEFINE raw == dotenv[i].raw
               value == [j \in DOMAIN raw |-> IF raw[j] = "x" THEN Newline ELSE raw[j]]
    <2>1. raw \in Seq(Typed)
        <3>1. dotenv \in Seq(DotenvLine)
            BY DEF DotenvTypeOK, DotenvLine
        <3>2. i \in 1..Len(dotenv)
            BY <3>1, LenProperties
        <3> HIDE DEF DotenvLine
        <3>3. dotenv[i] \in DotenvLine
            BY <3>1, <3>2, ElementOfSeq
        <3> QED BY <3>3 DEF DotenvLine
    <2> HIDE DEF raw
    <2>2. value \in Seq(Char)
        <3>1. DOMAIN raw = 1..Len(raw) /\ Len(raw) \in Nat
            BY <2>1, LenProperties
        <3>2. \A j \in DOMAIN raw : value[j] \in Char
            <4>1. \A j \in 1..Len(raw) : raw[j] \in Typed
                BY <2>1, ElementOfSeq
            <4> QED BY <3>1, <4>1, Characters
        <3> HIDE DEF Char
        <3>3. value \in [1..Len(raw) -> Char]
            BY <3>1, <3>2
        <3> HIDE DEF value
        <3> QED BY <3>1, <3>3
    <2> HIDE DEF value
    <2>3. parse_value((<<Space>> \o Quoted(value)) \o tail)
              = [ok |-> TRUE, warned |-> FALSE, value |-> value]
        BY <2>2, QuotedParses
    <2> QED BY <2>3 DEF value, raw
<1> QED BY <1>1, DotenvTypeCorrect, PTL

\* A text between two of its positions.
LEMMA Slice ==
    ASSUME NEW T, NEW s \in Seq(T), NEW a \in Nat \ {0}, NEW b \in Nat, b =< Len(s), a =< b + 1
    PROVE  /\ SubSeq(s, a, b) \in Seq(T)
           /\ Len(SubSeq(s, a, b)) = b - a + 1
           /\ \A i \in 1..(b - a + 1) : SubSeq(s, a, b)[i] = s[a + i - 1]
<1>1. Len(s) \in Nat
    BY LenProperties
<1>2. \A i \in a..b : s[i] \in T
    BY <1>1, ElementOfSeq
<1>3. a \in Int /\ b \in Int
    OBVIOUS
<1> QED BY <1>2, <1>3, SubSeqProperties

\* The first and the last position of a text that is not blank.
Spans(raw, a, b) ==
    /\ a \in 1..b /\ b \in 1..Len(raw)
    /\ raw[a] \notin {Space, Tab} /\ raw[b] \notin {Space, Tab}
    /\ \A j \in 1..(a - 1) : raw[j] \in {Space, Tab}
    /\ \A j \in (b + 1)..Len(raw) : raw[j] \in {Space, Tab}

LEMMA EndsAre ==
    ASSUME NEW raw, Len(raw) \in Nat, Inked(raw, 1) # {}
    PROVE  Spans(raw, Min(Inked(raw, 1)), Max(Inked(raw, 1)))
<1> DEFINE In == Inked(raw, 1)
           a == Min(In)
           b == Max(In)
<1>1. In \subseteq Nat /\ In \subseteq 0..Len(raw)
      /\ \A j : j \in In <=> j \in 1..Len(raw) /\ raw[j] \notin {Space, Tab}
    BY Blanks
<1> HIDE DEF In
<1>2. a \in In /\ \A x \in In : a =< x
    BY <1>1, HasMinimum DEF In
<1>3. b \in In /\ \A x \in In : x =< b
    BY <1>1, HasMaximum DEF In
<1> HIDE DEF a, b
<1>4. a \in 1..b /\ b \in 1..Len(raw) /\ raw[a] \notin {Space, Tab} /\ raw[b] \notin {Space, Tab}
    BY <1>1, <1>2, <1>3
<1>5. \A j \in 1..(a - 1) : raw[j] \in {Space, Tab}
    BY <1>1, <1>2
<1>6. \A j \in (b + 1)..Len(raw) : raw[j] \in {Space, Tab}
    BY <1>1, <1>3
<1> QED BY <1>4, <1>5, <1>6 DEF Spans, a, b, In

LEMMA EndsUnique ==
    ASSUME NEW raw, Len(raw) \in Nat, NEW a, NEW b, Spans(raw, a, b)
    PROVE  Inked(raw, 1) # {} /\ Min(Inked(raw, 1)) = a /\ Max(Inked(raw, 1)) = b
<1> DEFINE In == Inked(raw, 1)
           c == Min(In)
           d == Max(In)
<1>1. \A j : j \in In <=> j \in 1..Len(raw) /\ raw[j] \notin {Space, Tab}
    BY Blanks
<1>2. a \in In /\ b \in In
    BY <1>1 DEF Spans
<1>3. Spans(raw, c, d)
    BY <1>2, EndsAre
<1> HIDE DEF In, c, d
<1>4. c = a
    BY <1>3 DEF Spans
<1>5. d = b
    BY <1>3 DEF Spans
<1> QED BY <1>2, <1>4, <1>5 DEF In, c, d

\* What is spelled stands in front.
LEMMA FrontsAgree ==
    ASSUME NEW T, NEW s \in Seq(T), NEW t \in Seq(T), Len(s) =< Len(t),
           \A j \in 1..Len(s) : t[j] = s[j]
    PROVE  SubSeq(s, 1, Len(s)) = SubSeq(t, 1, Len(s))
<1>0. \A q \in Seq(T) : Len(q) \in Nat
    BY LenProperties, Zenon
<1>1. Len(s) \in Nat /\ Len(t) \in Nat
    BY <1>0
<1>2. ASSUME NEW q \in Seq(T), Len(s) =< Len(q)
      PROVE  /\ SubSeq(q, 1, Len(s)) \in Seq(T) /\ Len(SubSeq(q, 1, Len(s))) = Len(s)
             /\ \A j \in 1..Len(s) : SubSeq(q, 1, Len(s))[j] = q[j]
    BY <1>1, <1>2, Slice
<1>3. SubSeq(s, 1, Len(s)) = SubSeq(t, 1, Len(s))
    <2> DEFINE a == SubSeq(s, 1, Len(s))
               b == SubSeq(t, 1, Len(s))
    <2>1. a \in Seq(T) /\ Len(a) = Len(s) /\ \A j \in 1..Len(s) : a[j] = s[j]
        BY <1>1, <1>2
    <2>2. b \in Seq(T) /\ Len(b) = Len(s) /\ \A j \in 1..Len(s) : b[j] = t[j]
        BY <1>1, <1>2
    <2> HIDE DEF a, b
    <2>3. a = b
        BY <2>1, <2>2, SeqEqual
    <2> QED BY <2>3 DEF a, b
<1> QED BY <1>3

\* Writing a value in quotes never makes it shorter.
LEMMA InsideLonger ==
    ASSUME NEW quote \in Char, NEW n \in Nat
    PROVE  \A v \in Seq(Char) : Len(v) = n => Len(Inside(quote, v)) >= n
<1> DEFINE S == {k \in 0..n : \A v \in Seq(Char) : Len(v) = k => Len(Inside(quote, v)) >= k}
<1>1. 0 \in S
    <2> SUFFICES ASSUME NEW v \in Seq(Char), Len(v) = 0 PROVE Len(Inside(quote, v)) >= 0
        OBVIOUS
    <2>1. Len(Inside(quote, v)) \in Nat
        BY QuotedFront
    <2> QED BY <2>1
<1>2. ASSUME NEW k \in 0..(n - 1), k \in S PROVE k + 1 \in S
    <2> SUFFICES ASSUME NEW v \in Seq(Char), Len(v) = k + 1 PROVE Len(Inside(quote, v)) >= k + 1
        OBVIOUS
    <2>1. PICK c \in Char, w \in Seq(Char) : v = <<c>> \o w /\ Len(w) = k
        <3>1. Len(v) > 0 /\ Len(v) - 1 = k
            OBVIOUS
        <3>2. \E c \in Char, w \in Seq(Char) : v = <<c>> \o w /\ Len(w) = Len(v) - 1
            <4> HIDE DEF Char
            <4> QED BY <3>1, Headed
        <3> QED BY <3>1, <3>2
    <2>2. Len(CodeIn(quote, c)) >= 1
        <3>1. \A x, y : Len(<<x>>) = 1 /\ Len(<<x, y>>) = 2
            OBVIOUS
        <3>2. Len(Code(c)) \in {1, 2}
            <4>1. CASE c \in Char \ {Newline, Double, Backslash}
                BY <3>1, <4>1, CodeIs
            <4>2. CASE c \in {Newline, Double, Backslash}
                BY <3>1, <4>2, CodeIs
            <4> QED BY <4>1, <4>2
        <3>3. Len(CodeIn(quote, c)) \in {1, 2}
            BY <3>1, <3>2 DEF CodeIn
        <3>4. \A m \in {1, 2} : m >= 1
            OBVIOUS
        <3> HIDE DEF Char
        <3> QED BY <3>3, <3>4
    <2>3. Len(Inside(quote, w)) >= k /\ Len(Inside(quote, w)) \in Nat
        BY <1>2, <2>1, QuotedFront
    <2>4. Len(CodeIn(quote, c)) \in Nat
          /\ Len(Inside(quote, v)) = Len(CodeIn(quote, c)) + Len(Inside(quote, w))
        <3>1. CodeIn(quote, c) \in Seq(Char)
              /\ Len(Inside(quote, <<c>> \o w)) = Len(CodeIn(quote, c)) + Len(Inside(quote, w))
            BY QuotedFront
        <3> HIDE DEF Char
        <3> QED BY <2>1, <3>1, LenProperties
    <2> QED BY <2>2, <2>3, <2>4
<1>3. \A k \in 0..(n - 1) : k \in S => k + 1 \in S
    BY <1>2
<1> HIDE DEF S
<1>4. 0..n \subseteq S
    BY <1>1, <1>3, Induction
<1>5. n \in 0..n
    OBVIOUS
<1> QED BY <1>4, <1>5 DEF S

\* What follows the first m characters.
RestOf(t, m) == SubSeq(t, m + 1, Len(t))

LEMMA RestIs ==
    ASSUME NEW T, NEW t \in Seq(T), NEW m \in Nat, m =< Len(t)
    PROVE  /\ RestOf(t, m) \in Seq(T) /\ Len(RestOf(t, m)) = Len(t) - m
           /\ Len(t) \in Nat /\ Len(t) - m \in Nat
           /\ \A i \in 1..(Len(t) - m) : RestOf(t, m)[i] = t[m + i]
<1> DEFINE a == m + 1
           b == Len(t)
           r == SubSeq(t, a, b)
<1>0. b \in Nat
    BY LenProperties
<1>1. a \in Nat \ {0} /\ a =< b + 1 /\ b - a + 1 = b - m /\ b - m \in Nat
      /\ \A i \in 1..(b - m) : a + i - 1 = m + i
    BY <1>0
<1> HIDE DEF a
<1>2. /\ r \in Seq(T) /\ Len(r) = b - a + 1
      /\ \A i \in 1..(b - a + 1) : r[i] = t[a + i - 1]
    <2>1. b =< Len(t)
        BY <1>0
    <2> HIDE DEF b
    <2> QED BY <1>0, <1>1, <2>1, Slice
<1> HIDE DEF b, r
<1>3. /\ r \in Seq(T) /\ Len(r) = b - m
      /\ \A i \in 1..(b - m) : r[i] = t[m + i]
    BY <1>1, <1>2
<1> QED BY <1>0, <1>1, <1>3 DEF RestOf, a, b, r

\* From position i on there is nothing but blanks, or blanks and a comment.
CommentFrom(t, i) ==
    \/ \A j \in i..Len(t) : t[j] \in {Space, Tab}
    \/ \E k \in i..Len(t) : t[k] = Hash /\ \A j \in i..(k - 1) : t[j] \in {Space, Tab}

LEMMA CommentIs ==
    ASSUME NEW t, Len(t) \in Nat, NEW i \in Nat \ {0}
    PROVE  blank_or_comment_from(t, i) <=> CommentFrom(t, i)
BY BlankOrComment DEF CommentFrom

LEMMA RestComments ==
    ASSUME NEW t \in Seq(Char), NEW m \in Nat, m =< Len(t), CommentFrom(t, m + 1)
    PROVE  blank_or_comment_from(RestOf(t, m), 1)
<1> DEFINE rest == RestOf(t, m)
<1>1. /\ Len(rest) = Len(t) - m /\ Len(t) \in Nat /\ Len(rest) \in Nat
      /\ \A i \in 1..(Len(t) - m) : rest[i] = t[m + i]
    <2> HIDE DEF Char
    <2> QED BY RestIs
<1> HIDE DEF rest
<1>2. ASSUME \A j \in (m + 1)..Len(t) : t[j] \in {Space, Tab} PROVE CommentFrom(rest, 1)
    <2>1. \A j \in 1..Len(rest) : rest[j] \in {Space, Tab}
        BY <1>1, <1>2
    <2> QED BY <2>1, Zenon DEF CommentFrom
<1>3. ASSUME NEW k \in (m + 1)..Len(t), t[k] = Hash,
             \A j \in (m + 1)..(k - 1) : t[j] \in {Space, Tab}
      PROVE  CommentFrom(rest, 1)
    <2> DEFINE e == k - m
    <2>1. e \in 1..Len(rest) /\ rest[e] = Hash
        BY <1>1, <1>3
    <2>2. \A j \in 1..(e - 1) : rest[j] \in {Space, Tab}
        BY <1>1, <1>3
    <2> HIDE DEF e
    <2> QED BY <2>1, <2>2 DEF CommentFrom
<1>4. CommentFrom(rest, 1)
    <2>1. CommentFrom(t, m + 1)
        OBVIOUS
    <2>2. (\E k \in (m + 1)..Len(t) : t[k] = Hash /\ \A j \in (m + 1)..(k - 1) : t[j] \in {Space, Tab})
            => CommentFrom(rest, 1)
        BY <1>3
    <2> QED BY <1>2, <2>1, <2>2, Zenon DEF CommentFrom
<1>5. 1 \in Nat \ {0}
    OBVIOUS
<1> QED BY <1>1, <1>4, <1>5, CommentIs DEF rest

Fronts(t, s) == Len(s) =< Len(t) /\ \A j \in 1..Len(s) : t[j] = s[j]

\* A warning is about what follows a value that is written without quotes, and
\* such a value has no comment in it.
Warns(t, s, pair) ==
    /\ Len(s) < Len(t) => pair.warned \/ s # pair.value
    /\ pair.warned => s = pair.value /\ Len(s) < Len(t) /\ t[Len(s) + 1] \in {Space, Tab}
    /\ s = pair.value => ~Commented(s)

\* A line spells a value if it begins with it and a comment follows.
LEMMA SpellsIf ==
    ASSUME NEW t \in Seq(Char), NEW pair, NEW s \in Seq(Char), s \in Spellings(pair.value),
           Fronts(t, s), CommentFrom(t, Len(s) + 1), Warns(t, s, pair)
    PROVE  Spells(t, pair)
<1> HIDE DEF Char
<1>0. Len(s) \in Nat
    BY LenProperties
<1> DEFINE m == Len(s)
           rest == RestOf(t, m)
<1>1. m \in Nat /\ m =< Len(t)
    BY <1>0 DEF Fronts
<1>2. rest \in Seq(Char) /\ Len(rest) = Len(t) - m /\ Len(t) \in Nat
      /\ \A i \in 1..(Len(t) - m) : rest[i] = t[m + i]
    <2> HIDE DEF m
    <2> QED BY <1>1, RestIs
<1>3. blank_or_comment_from(rest, 1)
    BY <1>1, RestComments DEF Char
<1> HIDE DEF rest
<1>4. rest # <<>> => pair.warned \/ s # pair.value
    <2>1. rest # <<>> => Len(rest) # 0
        BY <1>2, EmptySeq
    <2> QED BY <1>1, <1>2, <2>1 DEF Warns
<1>5. pair.warned => s = pair.value /\ rest[1] \in {Space, Tab}
    <2>1. m < Len(t) => rest[1] = t[m + 1]
        BY <1>1, <1>2
    <2> QED BY <2>1 DEF Warns
<1>6. SubSeq(s, 1, Len(s)) = SubSeq(t, 1, Len(s))
    <2>1. Len(s) =< Len(t) /\ \A j \in 1..Len(s) : t[j] = s[j]
        BY DEF Fronts
    <2> QED BY <2>1, FrontsAgree, Zenon
<1>7. IsPrefix(s, t)
    BY <1>1, <1>6 DEF IsPrefix
<1>8. /\ IsPrefix(s, t)
      /\ blank_or_comment_from(rest, 1)
      /\ rest # <<>> => pair.warned \/ s # pair.value
      /\ pair.warned => s = pair.value /\ rest[1] \in {Space, Tab}
      /\ s = pair.value => ~Commented(s)
    BY <1>3, <1>4, <1>5, <1>7 DEF Warns
<1> QED BY <1>8 DEF Spells, rest, RestOf

\* Without quotes the value is the text up to ` #', or all of it.
LEMMA UnquotedSpells ==
    ASSUME NEW rest \in Seq(Char), NEW m, Spans(rest, 1, m), NEW pair,
           pair.value = Unquoted(rest).value, pair.warned = Unquoted(rest).warned
    PROVE  Spells(SubSeq(rest, 1, m), pair)
<1> DEFINE n == Len(rest)
           t == SubSeq(rest, 1, m)
           hashes == {i \in 1..(n - 1) : rest[i] = Space /\ rest[i + 1] = Hash}
           h == Min(hashes)
           Trim(kept) == IF Inked(kept, 1) = {} THEN <<>> ELSE SubSeq(kept, 1, Max(Inked(kept, 1)))
<1> HIDE DEF Char
<1>0. n \in Nat /\ m \in 1..n
    BY LenProperties DEF Spans
<1>1. t \in Seq(Char) /\ Len(t) = m /\ \A i \in 1..m : t[i] = rest[i]
    <2>1. 1 \in Nat \ {0} /\ m \in Nat /\ m =< Len(rest) /\ 1 =< m + 1 /\ m - 1 + 1 = m
          /\ \A i \in 1..m : 1 + i - 1 = i
        BY <1>0
    <2>2. /\ t \in Seq(Char) /\ Len(t) = m - 1 + 1
          /\ \A i \in 1..(m - 1 + 1) : t[i] = rest[1 + i - 1]
        BY <2>1, Slice
    <2> HIDE DEF t
    <2> QED BY <2>1, <2>2
<1>2. CASE hashes = {}
    <2>1. pair.value = Trim(rest) /\ pair.warned = FALSE
        BY <1>2 DEF Unquoted
    <2>2. Trim(rest) = t
        BY <1>0, EndsUnique
    <2> HIDE DEF t, Trim
    <2>3. t \in Spellings(pair.value)
        BY <2>1, <2>2 DEF Spellings
    <2>4. Fronts(t, t)
        BY <1>0, <1>1 DEF Fronts
    <2>5. CommentFrom(t, Len(t) + 1)
        BY <1>0, <1>1 DEF CommentFrom
    <2>6. ~Commented(t)
        <3>1. \A i \in 1..(m - 1) : i \in 1..(n - 1) /\ i \in 1..m /\ i + 1 \in 1..m
            BY <1>0
        <3>2. \A i \in 1..(n - 1) : ~(rest[i] = Space /\ rest[i + 1] = Hash)
            BY <1>2
        <3>3. \A i \in 1..(Len(t) - 1) : ~(t[i] = Space /\ t[i + 1] = Hash)
            BY <1>1, <3>1, <3>2
        <3> QED BY <3>3, Zenon DEF Commented
    <2>7. Warns(t, t, pair)
        BY <1>0, <1>1, <2>1, <2>6 DEF Warns
    <2> QED BY <1>1, <2>3, <2>4, <2>5, <2>7, SpellsIf DEF Char, t
<1>3. CASE hashes # {}
    <2> DEFINE kept == SubSeq(rest, 1, h - 1)
               e == Max(Inked(kept, 1))
               s == SubSeq(kept, 1, e)
    <2>1. pair.value = Trim(kept) /\ pair.warned = TRUE
        BY <1>3 DEF Unquoted
    <2>2. h \in 2..(n - 1) /\ rest[h] = Space /\ rest[h + 1] = Hash
        <3>1. hashes \subseteq Nat
            OBVIOUS
        <3>2. h \in hashes
            BY <1>3, <3>1, HasMinimum
        <3>3. rest[1] # Space
            BY DEF Spans
        <3> HIDE DEF h
        <3> QED BY <1>0, <3>2, <3>3
    <2>a. \A i \in 1..(h - 2) : ~(rest[i] = Space /\ rest[i + 1] = Hash)
        <3>1. hashes \subseteq Nat
            OBVIOUS
        <3>2. \A i \in hashes : h =< i
            BY <1>3, <3>1, HasMinimum
        <3> HIDE DEF h
        <3> QED BY <1>0, <2>2, <3>2
    <2>3. h + 1 =< m
        <3>1. rest[h + 1] \notin {Space, Tab}
            BY <2>2, Characters
        <3>2. \A j \in (m + 1)..n : rest[j] \in {Space, Tab}
            BY DEF Spans
        <3> HIDE DEF h
        <3> QED BY <1>0, <2>2, <3>1, <3>2
    <2> HIDE DEF h, t
    <2>4. kept \in Seq(Char) /\ Len(kept) = h - 1 /\ \A i \in 1..(h - 1) : kept[i] = rest[i]
        <3> DEFINE k == h - 1
        <3>1. 1 \in Nat \ {0} /\ k \in Nat /\ k =< Len(rest) /\ 1 =< k + 1 /\ k - 1 + 1 = k
              /\ \A i \in 1..k : 1 + i - 1 = i
            BY <1>0, <2>2
        <3> HIDE DEF k
        <3>2. /\ SubSeq(rest, 1, k) \in Seq(Char) /\ Len(SubSeq(rest, 1, k)) = k - 1 + 1
              /\ \A i \in 1..(k - 1 + 1) : SubSeq(rest, 1, k)[i] = rest[1 + i - 1]
            BY <3>1, Slice
        <3>3. kept = SubSeq(rest, 1, k)
            BY DEF k
        <3> HIDE DEF kept
        <3>4. Len(kept) = k /\ kept \in Seq(Char) /\ \A i \in 1..k : kept[i] = rest[i]
            BY <3>1, <3>2, <3>3
        <3> QED BY <3>4 DEF k
    <2> HIDE DEF kept
    <2>5. Inked(kept, 1) # {}
        <3>1. 1 \in 1..Len(kept) /\ kept[1] \notin {Space, Tab}
            BY <2>2, <2>4 DEF Spans
        <3> QED BY <3>1 DEF Inked
    <2>6. e \in 1..(h - 1) /\ \A j \in (e + 1)..(h - 1) : rest[j] \in {Space, Tab}
        <3>1. Len(kept) \in Nat
            BY <2>2, <2>4
        <3>2. Spans(kept, Min(Inked(kept, 1)), e)
            BY <2>5, <3>1, EndsAre
        <3> HIDE DEF e
        <3>3. e \in 1..Len(kept) /\ \A j \in (e + 1)..Len(kept) : kept[j] \in {Space, Tab}
            BY <3>2 DEF Spans
        <3> QED BY <2>2, <2>4, <3>3
    <2>7. pair.value = s
        BY <2>1, <2>5
    <2> HIDE DEF e
    <2>8. s \in Seq(Char) /\ Len(s) = e /\ \A i \in 1..e : s[i] = rest[i]
        <3>1. 1 \in Nat \ {0} /\ e \in Nat /\ e =< Len(kept) /\ 1 =< e + 1 /\ e - 1 + 1 = e
              /\ \A i \in 1..e : 1 + i - 1 = i
            BY <2>2, <2>4, <2>6
        <3>2. /\ s \in Seq(Char) /\ Len(s) = e - 1 + 1
              /\ \A i \in 1..(e - 1 + 1) : s[i] = kept[1 + i - 1]
            BY <2>4, <3>1, Slice
        <3> HIDE DEF s
        <3>3. \A i \in 1..e : kept[i] = rest[i]
            BY <2>2, <2>4, <2>6
        <3> QED BY <3>1, <3>2, <3>3
    <2> HIDE DEF s
    <2>9. s \in Spellings(pair.value)
        BY <2>7 DEF Spellings
    <2>10. Fronts(t, s)
        <3>1. e =< m /\ \A j \in 1..e : j \in 1..m
            BY <1>0, <2>2, <2>3, <2>6
        <3> QED BY <1>1, <2>8, <3>1 DEF Fronts
    <2>11. \A j \in (e + 1)..h : t[j] \in {Space, Tab}
        <3>1. \A j \in (e + 1)..h : j \in 1..m /\ (j = h \/ j \in (e + 1)..(h - 1))
            BY <1>0, <2>2, <2>3, <2>6
        <3> QED BY <1>1, <2>2, <2>6, <3>1
    <2>12. CommentFrom(t, e + 1)
        <3> DEFINE k == h + 1
        <3>1. k \in (e + 1)..Len(t) /\ k \in 1..m /\ k - 1 = h
            BY <1>0, <1>1, <2>2, <2>3, <2>6
        <3>2. t[k] = Hash
            BY <1>1, <2>2, <3>1
        <3> HIDE DEF k
        <3> QED BY <2>11, <3>1, <3>2 DEF CommentFrom
    <2>13. Warns(t, s, pair)
        <3>1. e < m /\ e + 1 \in (e + 1)..h
            BY <1>0, <2>2, <2>3, <2>6
        <3>2. \A i \in 1..(e - 1) : i \in 1..(h - 2) /\ s[i] = rest[i] /\ s[i + 1] = rest[i + 1]
            BY <2>2, <2>6, <2>8
        <3>3. ~Commented(s)
            BY <2>8, <2>a, <3>2 DEF Commented
        <3> QED BY <1>1, <2>1, <2>7, <2>8, <2>11, <3>1, <3>3 DEF Warns
    <2>14. CommentFrom(t, Len(s) + 1)
        BY <2>8, <2>12
    <2> QED BY <1>1, <2>8, <2>9, <2>10, <2>13, <2>14, SpellsIf DEF Char, t
<1> QED BY <1>2, <1>3

\* In quotes the value is what stands between them.
LEMMA QuotedSpells ==
    ASSUME NEW raw \in Seq(Char), NEW a, NEW b, Spans(raw, a, b),
           NEW quote \in {Double, Single}, raw[a] = quote,
           NEW v \in Seq(Char), Stands(raw, a + 1, Closed(quote, v)),
           blank_or_comment_from(raw, a + Len(Inside(quote, v)) + 2),
           NEW pair, pair.value = v, pair.warned = FALSE
    PROVE  Spells(SubSeq(raw, a, b), pair)
<1> DEFINE n == Len(raw)
           t == SubSeq(raw, a, b)
           l == Len(Inside(quote, v))
           c == Closed(quote, v)
           q == <<quote>>
           s == q \o c
<1>0. /\ n \in Nat /\ b \in 1..n /\ a \in 1..b
      /\ \A j \in (b + 1)..n : raw[j] \in {Space, Tab}
    BY LenProperties DEF Spans
<1>1. quote \in Char /\ quote \notin {Space, Tab}
    BY Characters
<1>2. /\ c \in Seq(Char) /\ l \in Nat /\ Len(c) = l + 1 /\ c[l + 1] = quote
      /\ quote = Double => Quoted(v) = s
      /\ quote = Single => (<<Single>> \o v) \o <<Single>> = s
    BY <1>1, QuotedIs
<1>3. q \in Seq(Char) /\ Len(q) = 1
    BY <1>1
<1>4. s \in Spellings(v)
    BY <1>2 DEF Spellings
<1>5. Stands(raw, a, q)
    <2>1. a \in Nat \ {0} /\ a =< n
        BY <1>0
    <2> QED BY <1>0, <2>1, StandsOne
<1> HIDE DEF q, c, Char
<1>6. s \in Seq(Char) /\ Len(s) = l + 2
    <2>1. q \o c \in Seq(Char) /\ Len(q \o c) = Len(q) + Len(c)
        BY <1>2, <1>3, ConcatProperties
    <2> HIDE DEF l
    <2> QED BY <1>2, <1>3, <2>1
<1>7. Stands(raw, a, s)
    <2>1. a \in Nat \ {0} /\ Stands(raw, a + Len(q), c)
        BY <1>0, <1>3 DEF c
    <2> QED BY <1>0, <1>2, <1>3, <1>5, <2>1, StandsConcat
<1> HIDE DEF s, l
<1>8. a + l + 1 =< b
    <2>1. l + 1 \in 1..Len(c) /\ (a + 1) + (l + 1) - 1 = a + l + 1
        <3>1. l \in Nat /\ Len(c) = l + 1 /\ a \in Nat
            BY <1>0, <1>2
        <3> QED BY <3>1
    <2>2. Stands(raw, a + 1, c)
        BY DEF c
    <2>3. raw[a + l + 1] = quote /\ (a + 1) + (l + 1) =< n + 1
        BY <1>2, <2>1, <2>2 DEF Stands
    <2> QED BY <1>0, <1>1, <1>2, <2>3
<1>9. t \in Seq(Char) /\ Len(t) = b - a + 1 /\ \A i \in 1..(b - a + 1) : t[i] = raw[a + i - 1]
    <2>1. a \in Nat \ {0} /\ b \in Nat /\ b =< Len(raw) /\ a =< b + 1
        BY <1>0
    <2> QED BY <2>1, Slice, ZenonT(30)
<1> HIDE DEF t
<1>10. Fronts(t, s)
    <2>1. ASSUME NEW j \in 1..Len(s) PROVE t[j] = s[j]
        <3>1. j \in 1..(b - a + 1)
            BY <1>0, <1>2, <1>6, <1>8
        <3>2. raw[a + j - 1] = s[j]
            BY <1>7 DEF Stands
        <3> QED BY <1>9, <3>1, <3>2
    <2>2. Len(s) =< Len(t)
        BY <1>0, <1>2, <1>6, <1>8, <1>9
    <2> QED BY <2>1, <2>2 DEF Fronts
<1>11. CommentFrom(t, Len(s) + 1)
    <2>1. Len(s) + 1 = l + 3 /\ a + l + 2 \in Nat \ {0}
        BY <1>0, <1>2, <1>6
    <2>2. CommentFrom(raw, a + l + 2)
        BY <1>0, <2>1, CommentIs DEF l
    <2>3. ASSUME \A j \in (a + l + 2)..n : raw[j] \in {Space, Tab} PROVE CommentFrom(t, l + 3)
        <3>1. \A i \in (l + 3)..Len(t) : t[i] \in {Space, Tab}
            <4> SUFFICES ASSUME NEW i \in (l + 3)..Len(t) PROVE t[i] \in {Space, Tab}
                OBVIOUS
            <4>1. i \in 1..(b - a + 1) /\ a + i - 1 \in (a + l + 2)..n
                BY <1>0, <1>2, <1>9
            <4> QED BY <1>9, <2>3, <4>1
        <3> QED BY <3>1, Zenon DEF CommentFrom
    <2>4. ASSUME NEW k \in (a + l + 2)..n, raw[k] = Hash,
                 \A j \in (a + l + 2)..(k - 1) : raw[j] \in {Space, Tab}
          PROVE  CommentFrom(t, l + 3)
        <3> DEFINE e == k - a + 1
        <3>1. k =< b
            BY <1>0, <2>4, Characters
        <3>2. e \in (l + 3)..Len(t) /\ e \in 1..(b - a + 1) /\ a + e - 1 = k
            BY <1>0, <1>2, <1>9, <3>1
        <3>3. t[e] = Hash
            BY <1>9, <2>4, <3>2
        <3>4. \A i \in (l + 3)..(e - 1) : t[i] \in {Space, Tab}
            <4> SUFFICES ASSUME NEW i \in (l + 3)..(e - 1) PROVE t[i] \in {Space, Tab}
                OBVIOUS
            <4>1. i \in 1..(b - a + 1) /\ a + i - 1 \in (a + l + 2)..(k - 1)
                BY <1>0, <1>2, <1>9, <3>1
            <4> QED BY <1>9, <2>4, <4>1
        <3> HIDE DEF e
        <3> QED BY <3>2, <3>3, <3>4 DEF CommentFrom
    <2>5. CommentFrom(t, l + 3)
        BY <2>2, <2>3, <2>4 DEF CommentFrom
    <2> QED BY <2>1, <2>5
<1>12. Warns(t, s, pair)
    <2>1. \A w \in Seq(Char) : Len(w) \in Nat
        BY LenProperties, Zenon
    <2>2. l >= Len(v) /\ Len(v) \in Nat
        BY <1>1, <2>1, InsideLonger DEF l
    <2>3. s # v
        BY <1>2, <1>6, <2>2
    <2> QED BY <2>3 DEF Warns
<1> QED BY <1>4, <1>6, <1>9, <1>10, <1>11, <1>12, SpellsIf DEF Char, t

\* A line that parse_value accepts spells the value it makes of it.
LEMMA ParsedSpells ==
    ASSUME NEW raw \in Seq(Typed), parse_value(raw).ok, NEW pair,
           pair.value = parse_value(raw).value, pair.warned = parse_value(raw).warned
    PROVE  Spells(Trimmed(raw), pair)
<1> DEFINE n == Len(raw)
           a == Min(Inked(raw, 1))
           b == Max(Inked(raw, 1))
           quoted == ScanQuoted(raw, a + 1)
<1>0. raw \in Seq(Char) /\ n \in Nat
    <2>1. Typed \subseteq Char
        BY Characters
    <2> HIDE DEF Typed, Char
    <2> QED BY <2>1, SeqMonotonic, LenProperties
<1>1. CASE Inked(raw, 1) = {}
    <2>1. Trimmed(raw) = <<>>
        BY <1>1 DEF Trimmed
    <2>2. pair.value = <<>> /\ pair.warned = FALSE
        BY <1>1 DEF parse_value
    <2> DEFINE s == <<>>
    <2>3. s \in Seq(Char) /\ Len(s) = 0
        OBVIOUS
    <2> HIDE DEF s
    <2>4. s \in Spellings(pair.value)
        BY <2>2 DEF Spellings, s
    <2>5. Fronts(s, s) /\ CommentFrom(s, Len(s) + 1) /\ Warns(s, s, pair)
        BY <2>2, <2>3 DEF Fronts, CommentFrom, Warns, Commented
    <2>6. Spells(s, pair)
        BY <2>3, <2>4, <2>5, SpellsIf
    <2> QED BY <2>1, <2>6 DEF s
<1>2. CASE Inked(raw, 1) # {} /\ raw[a] \notin {Double, Single}
    <2> DEFINE rest == SubSeq(raw, a, n)
               m == b - a + 1
    <2>1. parse_value(raw) = Unquoted(rest)
        BY <1>2 DEF parse_value
    <2>2. Spans(raw, a, b) /\ Trimmed(raw) = SubSeq(raw, a, b)
        BY <1>0, <1>2, EndsAre DEF Trimmed
    <2>3. a \in 1..b /\ b \in 1..n
        BY <2>2 DEF Spans
    <2> HIDE DEF a, b, Char
    <2>4. rest \in Seq(Char) /\ Len(rest) = n - a + 1 /\ \A i \in 1..(n - a + 1) : rest[i] = raw[a + i - 1]
        <3>1. a \in Nat \ {0} /\ n \in Nat /\ n =< Len(raw) /\ a =< n + 1
            BY <1>0, <2>3
        <3> QED BY <1>0, <3>1, Slice
    <2> HIDE DEF rest
    <2>5. Spans(rest, 1, m)
        <3>1. m \in 1..Len(rest) /\ 1 \in 1..m /\ a + 1 - 1 = a /\ a + m - 1 = b
            BY <1>0, <2>3, <2>4
        <3>2. rest[1] \notin {Space, Tab} /\ rest[m] \notin {Space, Tab}
            <4>1. rest[1] = raw[a] /\ rest[m] = raw[b]
                <5>1. 1 \in 1..(n - a + 1) /\ m \in 1..(n - a + 1)
                    BY <2>4, <3>1
                <5> HIDE DEF m
                <5> QED BY <2>4, <3>1, <5>1
            <4>2. raw[a] \notin {Space, Tab} /\ raw[b] \notin {Space, Tab}
                BY <2>2 DEF Spans
            <4> QED BY <4>1, <4>2
        <3>3. \A j \in (m + 1)..Len(rest) : rest[j] \in {Space, Tab}
            <4>1. \A j \in (b + 1)..n : raw[j] \in {Space, Tab}
                BY <2>2 DEF Spans
            <4> SUFFICES ASSUME NEW j \in (m + 1)..Len(rest) PROVE rest[j] \in {Space, Tab}
                OBVIOUS
            <4>2. j \in 1..(n - a + 1) /\ a + j - 1 \in (b + 1)..n
                BY <1>0, <2>3, <2>4
            <4> QED BY <2>4, <4>1, <4>2
        <3> HIDE DEF m
        <3> QED BY <3>1, <3>2, <3>3 DEF Spans
    <2>6. Spells(SubSeq(rest, 1, m), pair)
        BY <2>1, <2>4, <2>5, UnquotedSpells DEF Char
    <2>7. SubSeq(rest, 1, m) = SubSeq(raw, a, b)
        <3> DEFINE s == SubSeq(rest, 1, m)
                   t == SubSeq(raw, a, b)
        <3>1. t \in Seq(Char) /\ Len(t) = m /\ \A i \in 1..m : t[i] = raw[a + i - 1]
            <4>1. a \in Nat \ {0} /\ b \in Nat /\ b =< Len(raw) /\ a =< b + 1
                BY <1>0, <2>3
            <4> QED BY <1>0, <4>1, Slice
        <3>2. s \in Seq(Char) /\ Len(s) = m /\ \A i \in 1..m : s[i] = rest[i]
            <4>1. 1 \in Nat \ {0} /\ m \in Nat /\ m =< Len(rest) /\ 1 =< m + 1 /\ m - 1 + 1 = m
                  /\ \A i \in 1..m : 1 + i - 1 = i
                BY <1>0, <2>3, <2>4
            <4> HIDE DEF m
            <4>2. /\ s \in Seq(Char) /\ Len(s) = m - 1 + 1
                  /\ \A i \in 1..(m - 1 + 1) : s[i] = rest[1 + i - 1]
                BY <2>4, <4>1, Slice
            <4> HIDE DEF s
            <4> QED BY <4>1, <4>2
        <3>3. \A i \in 1..m : rest[i] = raw[a + i - 1]
            BY <1>0, <2>3, <2>4
        <3> HIDE DEF s, t, m
        <3>4. s = t
            BY <3>1, <3>2, <3>3, SeqEqual
        <3> QED BY <3>4 DEF s, t
    <2> QED BY <2>2, <2>6, <2>7
<1>3. CASE Inked(raw, 1) # {} /\ raw[a] \in {Double, Single}
    <2> DEFINE quote == raw[a]
    <2>1. Spans(raw, a, b) /\ Trimmed(raw) = SubSeq(raw, a, b)
        BY <1>0, <1>3, EndsAre DEF Trimmed
    <2>2. a \in 1..b /\ b \in 1..n
        BY <2>1 DEF Spans
    <2>3. /\ quoted.ok /\ blank_or_comment_from(raw, quoted.next)
          /\ pair.value = quoted.value /\ pair.warned = FALSE
        <3>1. parse_value(raw) =
                  IF quoted.ok /\ blank_or_comment_from(raw, quoted.next)
                  THEN [ok |-> TRUE, warned |-> FALSE, value |-> quoted.value] ELSE Failed
            BY <1>3 DEF parse_value
        <3>2. Failed.ok = FALSE
            BY DEF Failed
        <3> HIDE DEF a, quoted
        <3> QED BY <3>1, <3>2
    <2> HIDE DEF a, b
    <2>4. a + 1 \in 1..(n + 1) /\ (a + 1) - 1 = a
        BY <1>0, <2>2
    <2>5. PICK scan : quoted = scan[a + 1] /\ Scans(raw, raw[(a + 1) - 1], scan)
        BY <1>0, <2>4, ScanSteps, Zenon
    <2>6. Scans(raw, quote, scan) /\ quote \in {Double, Single}
        BY <1>3, <2>4, <2>5
    <2> HIDE DEF quote, quoted
    <2>7. Yields(raw, quote, scan, a + 1)
        <3>1. \A i \in 1..(Len(raw) + 1) : Yields(raw, quote, scan, i)
            BY <2>6, ScanYields
        <3> QED BY <2>4, <3>1
    <2>8. PICK v \in Seq(Char) : /\ quoted = Outcome(v, (a + 1) + Len(Inside(quote, v)) + 1)
                                 /\ Stands(raw, a + 1, Closed(quote, v))
        <3>1. quoted # Failed
            BY <2>3 DEF Failed
        <3> QED BY <2>5, <2>7, <3>1 DEF Yields
    <2>9. pair.value = v /\ quoted.next = a + Len(Inside(quote, v)) + 2
        <3>1. Len(Inside(quote, v)) \in Nat /\ a \in Nat
            <4>1. quote \in Char
                BY <2>6, Characters
            <4> QED BY <1>0, <2>2, <4>1, QuotedFront
        <3>2. (a + 1) + Len(Inside(quote, v)) + 1 = a + Len(Inside(quote, v)) + 2
            BY <3>1
        <3> QED BY <2>3, <2>8, <3>2 DEF Outcome
    <2>10. blank_or_comment_from(raw, a + Len(Inside(quote, v)) + 2)
        BY <2>3, <2>9
    <2>11. raw[a] = quote
        BY DEF quote
    <2>12. Spells(SubSeq(raw, a, b), pair)
        BY <1>0, <2>1, <2>3, <2>6, <2>8, <2>9, <2>10, <2>11, QuotedSpells
    <2> QED BY <2>1, <2>12
<1> QED BY <1>1, <1>2, <1>3

\* A file parse_dotenv accepts is stored whole: each line gives its key, once, the
\* value it spells out, and what is left out is a comment (but for a comment
\* alone after the `=', of which nothing is claimed).
THEOREM AcceptedAlwaysWhole == DotenvSpec => []AcceptedIsWhole
<1>1. DotenvTypeOK => AcceptedIsWhole
    <2> DEFINE result == parse_dotenv(dotenv)
               pairs == {i \in DOMAIN dotenv : dotenv[i].key # Skipped}
    <2> SUFFICES ASSUME DotenvTypeOK, result.ok
                 PROVE  /\ \A i \in DOMAIN dotenv : dotenv[i].key # Skipped =>
                              \E pair \in Range(result.out) :
                                  /\ pair.key = dotenv[i].key
                                  /\ \/ CommentAlone(dotenv[i].raw)
                                     \/ Spells(Trimmed(dotenv[i].raw), pair)
                        /\ \A i, j \in DOMAIN result.out : result.out[i].key = result.out[j].key => i = j
        BY DEF AcceptedIsWhole
    <2>1. /\ result.out = [i \in pairs |-> Pair(dotenv[i])]
          /\ \A i \in pairs : parse_value(dotenv[i].raw).ok
          /\ \A i, j \in pairs : dotenv[i].key = dotenv[j].key => i = j
        BY DEF parse_dotenv, Failed
    <2> HIDE DEF result, pairs
    <2>2. \A i \in pairs : /\ result.out[i].key = dotenv[i].key
                           /\ result.out[i].value = parse_value(dotenv[i].raw).value
                           /\ result.out[i].warned = parse_value(dotenv[i].raw).warned
        BY <2>1 DEF Pair
    <2>3. ASSUME NEW i \in DOMAIN dotenv, dotenv[i].key # Skipped
          PROVE  \E pair \in Range(result.out) :
                    pair.key = dotenv[i].key /\ Spells(Trimmed(dotenv[i].raw), pair)
        <3>1. i \in pairs
            BY <2>3 DEF pairs
        <3>2. dotenv[i].raw \in Seq(Typed)
            <4>1. dotenv \in Seq(DotenvLine)
                BY DEF DotenvTypeOK, DotenvLine
            <4>2. i \in 1..Len(dotenv)
                BY <4>1, LenProperties
            <4> HIDE DEF DotenvLine
            <4>3. dotenv[i] \in DotenvLine
                BY <4>1, <4>2, ElementOfSeq
            <4> QED BY <4>3 DEF DotenvLine
        <3> DEFINE pair == result.out[i]
        <3>3. pair \in Range(result.out)
            BY <2>1, <3>1 DEF Range
        <3>4. pair.key = dotenv[i].key
            BY <2>2, <3>1
        <3>5. Spells(Trimmed(dotenv[i].raw), pair)
            BY <2>1, <2>2, <3>1, <3>2, ParsedSpells
        <3> HIDE DEF pair
        <3> QED BY <3>3, <3>4, <3>5
    <2>4. \A i, j \in DOMAIN result.out : result.out[i].key = result.out[j].key => i = j
        BY <2>1, <2>2
    <2> QED BY <2>3, <2>4
<1> QED BY <1>1, DotenvTypeCorrect, PTL

-----------------------------------------------------------------------------
(* ManifestEdit: nesting, and what putting lines in does to it.            *)

\* Lines, as far as their nesting is concerned.
Text(lines) == lines \in Seq(Line)

\* The type of a text, line by line.
LEMMA TextIs ==
    ASSUME NEW lines, Text(lines)
    PROVE  /\ Len(lines) \in Nat /\ DOMAIN lines = 1..Len(lines)
           /\ \A i \in 1..Len(lines) : lines[i] \in Line /\ lines[i].indent \in Nat
           /\ Content(lines) \subseteq 1..Len(lines)
           /\ \A i : i \in Content(lines) <=> i \in 1..Len(lines) /\ ~blank_or_comment(lines[i])
<1>1. lines \in Seq(Line)
    BY DEF Text
<1> DEFINE L == Line
<1>2. \A l \in L : l.indent \in Nat
    BY DEF Line
<1> HIDE DEF L
<1>3. lines \in Seq(L)
    BY <1>1 DEF L
<1>4. Len(lines) \in Nat /\ DOMAIN lines = 1..Len(lines)
    BY <1>3, LenProperties
<1>5. \A i \in 1..Len(lines) : lines[i] \in L
    BY <1>3, ElementOfSeq
<1>6. \A i : i \in Content(lines) <=> i \in 1..Len(lines) /\ ~blank_or_comment(lines[i])
    BY <1>4 DEF Content
<1> QED BY <1>2, <1>4, <1>5, <1>6 DEF L

\* j is below i: deeper, and nothing between them is less deep than j.
Below(lines, i, j) ==
    /\ j \in Content(lines) /\ i < j
    /\ i # 0 => lines[i].indent < lines[j].indent
    /\ \A k \in Content(lines) : i < k /\ k < j => lines[k].indent >= lines[j].indent

\* Children, said over content lines only.
LEMMA ChildIs ==
    ASSUME NEW lines, Text(lines), NEW i \in 0..Len(lines), NEW j
    PROVE  j \in Children(lines, i) <=> Below(lines, i, j)
<1>1. /\ Len(lines) \in Nat
      /\ \A k : k \in Content(lines) <=> k \in 1..Len(lines) /\ ~blank_or_comment(lines[k])
    BY TextIs
<1>2. j \in Children(lines, i) <=>
         /\ j \in (i + 1)..Len(lines)
         /\ ~blank_or_comment(lines[j])
         /\ i # 0 => lines[i].indent < lines[j].indent
         /\ \A k \in (i + 1)..(j - 1) :
               blank_or_comment(lines[k]) \/ lines[k].indent >= lines[j].indent
    BY DEF Children
<1>3. ASSUME j \in (i + 1)..Len(lines)
      PROVE  (\A k \in (i + 1)..(j - 1) : blank_or_comment(lines[k]) \/ lines[k].indent >= lines[j].indent)
             <=> (\A k \in Content(lines) : i < k /\ k < j => lines[k].indent >= lines[j].indent)
    <2>1. \A k : k \in Content(lines) /\ i < k /\ k < j
                    <=> k \in (i + 1)..(j - 1) /\ ~blank_or_comment(lines[k])
        BY <1>1, <1>3
    <2> QED BY <2>1
<1>4. j \in Content(lines) /\ i < j <=> j \in (i + 1)..Len(lines) /\ ~blank_or_comment(lines[j])
    BY <1>1
<1> QED BY <1>2, <1>3, <1>4 DEF Below

\* A line is below one line only.
LEMMA OneParent ==
    ASSUME NEW lines, Text(lines),
           NEW i \in {0} \cup Content(lines), NEW k \in {0} \cup Content(lines),
           NEW j, j \in Children(lines, i), j \in Children(lines, k)
    PROVE  i = k
<1>2. /\ Len(lines) \in Nat /\ \A x \in 1..Len(lines) : lines[x].indent \in Nat
      /\ Content(lines) \subseteq 1..Len(lines)
    BY TextIs
<1>1. Below(lines, i, j) /\ Below(lines, k, j)
    BY <1>2, ChildIs
<1>3. ASSUME NEW a \in {0} \cup Content(lines), NEW b \in {0} \cup Content(lines),
             Below(lines, a, j), Below(lines, b, j), a < b
      PROVE  FALSE
    <2>1. j \in 1..Len(lines) /\ b \in Content(lines) /\ b \in 1..Len(lines) /\ b < j
        BY <1>2, <1>3 DEF Below
    <2>2. lines[b].indent < lines[j].indent
        BY <1>2, <1>3, <2>1 DEF Below
    <2>3. lines[b].indent >= lines[j].indent
        BY <1>3, <2>1 DEF Below
    <2> QED BY <1>2, <2>1, <2>2, <2>3
<1> QED BY <1>1, <1>2, <1>3

\* Children are content lines after their parent.
LEMMA ChildrenAre ==
    ASSUME NEW lines, Text(lines), NEW i \in 0..Len(lines)
    PROVE  /\ Children(lines, i) \subseteq Content(lines)
           /\ Children(lines, i) \subseteq 1..Len(lines)
           /\ \A j \in Children(lines, i) : i < j
<1>1. Content(lines) \subseteq 1..Len(lines)
    BY TextIs
<1> QED BY <1>1, ChildIs DEF Below

\* new is old with lines put in between: f says where the old lines are now.
\* The old lines are nested as before, and below an added line is no old one.
Grown(old, new, f) ==
    /\ f \in [0..Len(old) -> 0..Len(new)] /\ f[0] = 0
    /\ \A i, j \in 0..Len(old) : i < j => f[i] < f[j]
    /\ \A i \in 1..Len(old) : new[f[i]] = old[i]
    /\ \A i, j \in 0..Len(old) : j \in Children(old, i) <=> f[j] \in Children(new, f[i])
    /\ \A x \in 0..Len(new) : (\A i \in 0..Len(old) : x # f[i]) =>
           \A i \in 0..Len(old) : f[i] \notin Children(new, x)

\* A text is grown from itself.
LEMMA GrownSame ==
    ASSUME NEW lines, Text(lines)
    PROVE  Grown(lines, lines, [i \in 0..Len(lines) |-> i])
<1>1. Len(lines) \in Nat
    BY TextIs
<1> QED BY <1>1 DEF Grown

\* Growing twice is growing.
LEMMA GrownTwice ==
    ASSUME NEW a, NEW b, NEW c, Text(a), Text(b), Text(c), NEW f, NEW g,
           Grown(a, b, f), Grown(b, c, g)
    PROVE  Grown(a, c, [i \in 0..Len(a) |-> g[f[i]]])
<1> DEFINE h == [i \in 0..Len(a) |-> g[f[i]]]
           n == Len(a)
           m == Len(b)
           l == Len(c)
<1>1. n \in Nat /\ m \in Nat /\ l \in Nat
    BY TextIs
<1>2. /\ f \in [0..n -> 0..m] /\ f[0] = 0
      /\ \A i, j \in 0..n : i < j => f[i] < f[j]
      /\ \A i \in 1..n : b[f[i]] = a[i]
    BY DEF Grown
<1>3. /\ g \in [0..m -> 0..l] /\ g[0] = 0
      /\ \A i, j \in 0..m : i < j => g[i] < g[j]
      /\ \A i \in 1..m : c[g[i]] = b[i]
    BY DEF Grown
<1>4. /\ \A i, j \in 0..n : j \in Children(a, i) <=> f[j] \in Children(b, f[i])
      /\ \A x \in 0..m : (\A i \in 0..n : x # f[i]) =>
           \A i \in 0..n : f[i] \notin Children(b, x)
    BY DEF Grown
<1>5. /\ \A i, j \in 0..m : j \in Children(b, i) <=> g[j] \in Children(c, g[i])
      /\ \A x \in 0..l : (\A i \in 0..m : x # g[i]) =>
           \A i \in 0..m : g[i] \notin Children(c, x)
    BY DEF Grown
<1> HIDE DEF n, m, l
<1>6. h \in [0..n -> 0..l] /\ h[0] = 0 /\ \A i \in 0..n : h[i] = g[f[i]] /\ f[i] \in 0..m
    BY <1>1, <1>2, <1>3 DEF n
<1> HIDE DEF h
<1>7. \A i, j \in 0..n : i < j => h[i] < h[j]
    BY <1>2, <1>3, <1>6
<1>8. \A i \in 1..n : c[h[i]] = a[i]
    <2> SUFFICES ASSUME NEW i \in 1..n PROVE c[h[i]] = a[i]
        OBVIOUS
    <2>1. i \in 0..n /\ 0 \in 0..n /\ 0 < i
        BY <1>1
    <2>2. f[i] \in 1..m
        BY <1>1, <1>2, <2>1
    <2> QED BY <1>2, <1>3, <1>6, <2>1, <2>2
<1>9. \A i, j \in 0..n : j \in Children(a, i) <=> h[j] \in Children(c, h[i])
    BY <1>4, <1>5, <1>6
<1>10. ASSUME NEW x \in 0..l, \A i \in 0..n : x # h[i], NEW i \in 0..n
       PROVE  h[i] \notin Children(c, x)
    <2>1. CASE \A y \in 0..m : x # g[y]
        BY <1>5, <1>6, <2>1
    <2>2. CASE \E y \in 0..m : x = g[y]
        <3>1. PICK y \in 0..m : x = g[y]
            BY <2>2
        <3>2. \A k \in 0..n : y # f[k]
            BY <1>10, <3>1, <1>6
        <3>3. f[i] \notin Children(b, y)
            BY <3>2, <1>4
        <3> QED BY <3>1, <3>3, <1>5, <1>6
    <2> QED BY <2>1, <2>2
<1>11. Grown(a, c, h)
    BY <1>6, <1>7, <1>8, <1>9, <1>10 DEF Grown, n, l
<1> QED BY <1>11 DEF h

\* Where the old lines go when l lines are put in at line at.
Moved(old, at, l) == [i \in 0..Len(old) |-> IF i < at THEN i ELSE i + l]

\* new is old with w at line at.
Joined(old, at, w, new) ==
    /\ Text(new)
    /\ Len(new) = Len(old) + Len(w)
    /\ \A i \in 1..(at - 1) : new[i] = old[i]
    /\ \A k \in 1..Len(w) : new[at - 1 + k] = w[k]
    /\ \A i \in at..Len(old) : new[i + Len(w)] = old[i]

\* What InsertAll returns, line by line.
LEMMA InsertIs ==
    ASSUME NEW old, Text(old), NEW w, Text(w), NEW at \in 1..(Len(old) + 1)
    PROVE  Joined(old, at, w, InsertAll(old, at, w))
<1> DEFINE L == Line
           new == InsertAll(old, at, w)
           n == Len(old)
           l == Len(w)
<1> HIDE DEF L
<1>1. old \in Seq(L) /\ w \in Seq(L)
    BY DEF Text, L
<1>2. n \in Nat /\ l \in Nat
    BY <1>1, LenProperties
<1> DEFINE a == SubSeq(old, 1, at - 1)
           c == SubSeq(old, at, n)
<1>3. a \in Seq(L) /\ Len(a) = at - 1 /\ \A i \in 1..(at - 1) : a[i] = old[i]
    <2>1. 1 \in 1..(n + 1) /\ at - 1 \in 0..n
        BY <1>2
    <2>2. \A i \in 1..(at - 1) : i \in 1..n
        BY <1>2
    <2>3. \A i \in 1..(at - 1) : old[i] \in L
        BY <2>2, <1>1, ElementOfSeq
    <2> QED BY <1>1, <1>2, <2>1, <2>2, <2>3, SubSeqProperties
<1>4. c \in Seq(L) /\ Len(c) = n - at + 1 /\ \A i \in 1..(n - at + 1) : c[i] = old[at + i - 1]
    <2>2. \A i \in at..n : i \in 1..n
        BY <1>2
    <2>3. \A i \in at..n : old[i] \in L
        BY <2>2, <1>1, ElementOfSeq
    <2> QED BY <1>1, <1>2, <2>2, <2>3, SubSeqProperties
<1> HIDE DEF a, c, n, l
<1> DEFINE b == a \o w
<1>5. b \in Seq(L) /\ Len(b) = at - 1 + l
      /\ (\A i \in 1..(at - 1) : b[i] = old[i]) /\ \A k \in 1..l : b[at - 1 + k] = w[k]
    <2>1. \A k \in 1..l : at - 1 + k \in (Len(a) + 1)..(Len(a) + Len(w)) /\ at - 1 + k - Len(a) = k
        BY <1>2, <1>3 DEF l
    <2>2. b \in Seq(L) /\ Len(b) = Len(a) + Len(w)
          /\ \A i \in 1..(Len(a) + Len(w)) : b[i] = IF i <= Len(a) THEN a[i] ELSE w[i - Len(a)]
        BY <1>1, <1>3, ConcatProperties
    <2>3. \A k \in 1..l : b[at - 1 + k] = w[k]
        <3> SUFFICES ASSUME NEW k \in 1..l PROVE b[at - 1 + k] = w[k]
            OBVIOUS
        <3>1. at - 1 + k \in 1..(Len(a) + Len(w)) /\ ~(at - 1 + k <= Len(a))
            BY <1>2, <1>3 DEF l
        <3> QED BY <2>1, <2>2, <3>1
    <2>4. \A i \in 1..(at - 1) : b[i] = a[i]
        BY <2>2, <1>2, <1>3 DEF l
    <2> QED BY <2>2, <2>3, <2>4, <1>3 DEF l
<1> HIDE DEF b
<1>6. new = b \o c
    BY DEF InsertAll, a, b, c, n
<1> HIDE DEF new
<1>7. new \in Seq(L) /\ Len(new) = n + l
    <2>1. new \in Seq(L) /\ Len(new) = Len(b) + Len(c)
        BY <1>4, <1>5, <1>6, ConcatProperties
    <2> QED BY <2>1, <1>2, <1>4, <1>5
<1>8. \A i \in 1..(at - 1 + l) : new[i] = b[i]
    BY <1>1, <1>2, <1>4, <1>5, <1>6, ConcatProperties
<1>9. \A i \in at..n : new[i + l] = old[i]
    <2> SUFFICES ASSUME NEW i \in at..n PROVE new[i + l] = old[i]
        OBVIOUS
    <2>1. i - at + 1 \in 1..(n - at + 1) /\ i + l = (at - 1 + l) + (i - at + 1) /\ at + (i - at + 1) - 1 = i
        BY <1>2 DEF n
    <2>2. new[i + l] = c[i - at + 1]
        <3>1. new[i + l] = c[(i + l) - (at - 1 + l)]
            BY <1>2, <1>4, <1>5, <1>6, <2>1, ConcatProperties
        <3> QED BY <3>1, <2>1, <1>2
    <2> QED BY <1>4, <2>1, <2>2
<1>10. (\A i \in 1..(at - 1) : new[i] = old[i]) /\ \A k \in 1..l : new[at - 1 + k] = w[k]
    <2>1. ASSUME NEW i \in 1..(at - 1) PROVE new[i] = old[i]
        <3>1. i \in 1..(at - 1 + l)
            BY <1>2, <2>1
        <3> QED BY <3>1, <1>5, <1>8
    <2>2. ASSUME NEW k \in 1..l PROVE new[at - 1 + k] = w[k]
        <3>1. at - 1 + k \in 1..(at - 1 + l)
            BY <1>2, <2>2
        <3> QED BY <3>1, <1>5, <1>8
    <2> QED BY <2>1, <2>2
<1>11. Text(new)
    BY <1>7 DEF Text, L
<1> QED BY <1>7, <1>9, <1>10, <1>11 DEF new, n, l, Joined

\* Before any line from here on comes one that is less deep.
Shallower(lines, at, m) ==
    \A q \in Content(lines) : q >= at =>
        \E k \in Content(lines) : at <= k /\ k <= q /\ lines[k].indent < m

\* Lines that are put at the end of a block, deep enough to belong to it,
\* leave the nesting of the others alone.
LEMMA InsertGrows ==
    ASSUME NEW old, Text(old), NEW w, Text(w), NEW at \in 1..(Len(old) + 1), NEW m \in Nat,
           \A k \in Content(w) : w[k].indent >= m, Content(w) = 1..Len(w),
           Shallower(old, at, m)
    PROVE  Grown(old, InsertAll(old, at, w), Moved(old, at, Len(w)))
<1> DEFINE new == InsertAll(old, at, w)
           n == Len(old)
           l == Len(w)
           f == Moved(old, at, l)
<1>1. n \in Nat /\ l \in Nat
    BY TextIs
<1>2. /\ Text(new) /\ Len(new) = n + l
      /\ \A i \in 1..(at - 1) : new[i] = old[i]
      /\ \A k \in 1..l : new[at - 1 + k] = w[k]
      /\ \A i \in at..n : new[i + l] = old[i]
    BY InsertIs DEF Joined
<1> HIDE DEF new
<1>3. f \in [0..n -> 0..Len(new)] /\ \A i \in 0..n : f[i] = IF i < at THEN i ELSE i + l
    BY <1>1, <1>2 DEF Moved
<1>4. f[0] = 0 /\ \A i, j \in 0..n : i < j => f[i] < f[j]
    BY <1>1, <1>3
<1>5. \A i \in 1..n : new[f[i]] = old[i]
    BY <1>1, <1>2, <1>3
<1> HIDE DEF f
<1>6. /\ \A i : i \in Content(old) <=> i \in 1..n /\ ~blank_or_comment(old[i])
      /\ \A i \in 1..n : old[i].indent \in Nat
    BY TextIs
<1>7. /\ \A i : i \in Content(new) <=> i \in 1..Len(new) /\ ~blank_or_comment(new[i])
      /\ \A i \in 1..Len(new) : new[i].indent \in Nat
    BY <1>2, TextIs
<1>8. \A i \in 1..n : f[i] \in 1..Len(new) /\ (i \in Content(old) <=> f[i] \in Content(new))
    BY <1>1, <1>2, <1>3, <1>5, <1>6, <1>7
<1>9. \A x \in at..(at - 1 + l) : x \in Content(new) /\ new[x].indent >= m
    <2> SUFFICES ASSUME NEW x \in at..(at - 1 + l) PROVE x \in Content(new) /\ new[x].indent >= m
        OBVIOUS
    <2>1. x - at + 1 \in 1..l /\ at - 1 + (x - at + 1) = x /\ x \in 1..Len(new)
        BY <1>1, <1>2 DEF n
    <2>2. new[x] = w[x - at + 1]
        BY <1>2, <2>1
    <2>3. ~blank_or_comment(w[x - at + 1]) /\ w[x - at + 1].indent >= m
        BY <2>1, TextIs
    <2> QED BY <2>1, <2>2, <2>3, <1>7
<1>10. \A x \in 0..Len(new) : (\E i \in 0..n : x = f[i]) \/ x \in at..(at - 1 + l)
    <2> SUFFICES ASSUME NEW x \in 0..Len(new), x \notin at..(at - 1 + l)
                 PROVE  \E i \in 0..n : x = f[i]
        OBVIOUS
    <2>1. CASE x < at
        <3>1. x \in 0..n /\ f[x] = x
            BY <1>1, <1>3, <2>1 DEF n
        <3> QED BY <3>1
    <2>2. CASE x > at - 1 + l
        <3>1. x - l \in 0..n /\ f[x - l] = x
            BY <1>1, <1>2, <1>3, <2>2
        <3> QED BY <3>1
    <2> QED BY <1>1, <2>1, <2>2 DEF n
<1>11. \A i \in 0..n : f[i] \notin at..(at - 1 + l)
    BY <1>1, <1>3
<1>12. ASSUME NEW i \in 0..n, NEW j \in 0..n PROVE Below(old, i, j) <=> Below(new, f[i], f[j])
    <2>1. ASSUME Below(old, i, j) PROVE Below(new, f[i], f[j])
        <3>1. /\ j \in Content(old) /\ i < j /\ j \in 1..n
              /\ i # 0 => old[i].indent < old[j].indent
              /\ \A k \in Content(old) : i < k /\ k < j => old[k].indent >= old[j].indent
            BY <2>1, <1>6 DEF Below
        <3>2. f[j] \in Content(new) /\ f[i] < f[j]
            BY <3>1, <1>4, <1>8
        <3>3. f[i] # 0 => new[f[i]].indent < new[f[j]].indent
            BY <3>1, <1>4, <1>5
        <3>4. ASSUME NEW x \in Content(new), f[i] < x, x < f[j]
              PROVE  new[x].indent >= new[f[j]].indent
            <4>1. CASE \E k \in 0..n : x = f[k]
                <5>1. PICK k \in 0..n : x = f[k]
                    BY <4>1
                <5>2. i < k /\ k < j /\ k \in 1..n
                    <6>1. ~(k <= i) /\ ~(j <= k)
                        <7>1. k <= i => f[k] <= f[i]
                            BY <1>1, <1>4, <1>3
                        <7>2. j <= k => f[j] <= f[k]
                            BY <1>1, <1>4, <1>3
                        <7> QED BY <7>1, <7>2, <5>1, <3>4, <1>3, <1>1, <1>2
                    <6> QED BY <6>1, <1>1
                <5>3. k \in Content(old)
                    BY <1>8, <5>1, <5>2, <3>4
                <5> QED BY <5>1, <5>2, <5>3, <3>1, <1>5
            <4>2. CASE x \in at..(at - 1 + l)
                <5>1. j >= at
                    BY <1>1, <1>3, <3>4, <4>2, <3>1
                <5>2. i < at
                    BY <1>1, <1>3, <3>4, <4>2, <3>1
                <5>3. PICK k \in Content(old) : at <= k /\ k <= j /\ old[k].indent < m
                    BY <3>1, <5>1 DEF Shallower
                <5>4. old[k].indent >= old[j].indent
                    BY <5>2, <5>3, <3>1, <1>6, <1>1
                <5>5. old[j].indent < m
                    BY <5>3, <5>4, <1>6, <3>1
                <5>6. new[x].indent >= m /\ new[x].indent \in Nat
                    BY <1>9, <4>2, <1>7
                <5> QED BY <5>5, <5>6, <1>5, <3>1, <1>6
            <4> QED BY <1>7, <1>10, <4>1, <4>2, <3>4
        <3> QED BY <3>2, <3>3, <3>4 DEF Below
    <2>2. ASSUME Below(new, f[i], f[j]) PROVE Below(old, i, j)
        <3>1. /\ f[j] \in Content(new) /\ f[i] < f[j]
              /\ f[i] # 0 => new[f[i]].indent < new[f[j]].indent
              /\ \A k \in Content(new) : f[i] < k /\ k < f[j] => new[k].indent >= new[f[j]].indent
            BY <2>2 DEF Below
        <3>2. i < j /\ j \in 1..n
            <4>1. ~(j <= i)
                <5>1. j <= i => f[j] <= f[i]
                    BY <1>1, <1>4, <1>3
                <5> QED BY <5>1, <3>1, <1>3, <1>1, <1>2
            <4> QED BY <4>1, <1>1
        <3>3. j \in Content(old)
            BY <3>1, <3>2, <1>8
        <3>4. i # 0 => old[i].indent < old[j].indent
            <4>1. i # 0 => i \in 1..n /\ f[i] # 0
                BY <1>1, <1>4
            <4> QED BY <4>1, <3>1, <3>2, <1>5
        <3>5. ASSUME NEW k \in Content(old), i < k, k < j PROVE old[k].indent >= old[j].indent
            <4>1. k \in 1..n /\ f[k] \in Content(new) /\ f[i] < f[k] /\ f[k] < f[j]
                BY <3>5, <1>1, <1>6, <1>8, <1>4, <3>2
            <4> QED BY <4>1, <3>1, <3>2, <1>5
        <3> QED BY <3>2, <3>3, <3>4, <3>5 DEF Below
    <2> QED BY <2>1, <2>2
<1>13. \A i, j \in 0..n : j \in Children(old, i) <=> f[j] \in Children(new, f[i])
    <2> SUFFICES ASSUME NEW i \in 0..n, NEW j \in 0..n
                 PROVE  j \in Children(old, i) <=> f[j] \in Children(new, f[i])
        OBVIOUS
    <2>1. f[i] \in 0..Len(new)
        BY <1>3
    <2> QED BY <2>1, <1>2, <1>12, ChildIs
<1>14. ASSUME NEW x \in 0..Len(new), \A i \in 0..n : x # f[i], NEW j \in 0..n
       PROVE  f[j] \notin Children(new, x)
    <2>1. x \in at..(at - 1 + l) /\ x # 0 /\ new[x].indent \in Nat /\ new[x].indent >= m
        <3>1. x \in at..(at - 1 + l)
            BY <1>14, <1>10
        <3>3. x # 0
            BY <3>1, <1>1
        <3>2. x \in Content(new) /\ new[x].indent >= m
            BY <3>1, <1>9
        <3> QED BY <3>1, <3>2, <3>3, <1>7
    <2> SUFFICES ASSUME Below(new, x, f[j]) PROVE FALSE
        BY <1>2, ChildIs
    <2>2. /\ f[j] \in Content(new) /\ x < f[j] /\ new[x].indent < new[f[j]].indent
          /\ \A k \in Content(new) : x < k /\ k < f[j] => new[k].indent >= new[f[j]].indent
        BY <2>1 DEF Below
    <2>3. j >= at /\ j \in 1..n
        BY <1>1, <1>3, <2>1, <2>2
    <2>4. j \in Content(old)
        BY <1>8, <2>2, <2>3
    <2>5. PICK k \in Content(old) : at <= k /\ k <= j /\ old[k].indent < m
        BY <2>3, <2>4 DEF Shallower
    <2>6. k \in 1..n /\ f[k] \in Content(new) /\ x < f[k] /\ new[f[k]] = old[k] /\ new[f[j]] = old[j]
        <3>1. k \in 1..n
            BY <2>5, <1>6
        <3>2. f[k] = k + l /\ k + l > x
            BY <3>1, <2>1, <2>5, <1>1, <1>3
        <3>3. f[k] \in Content(new)
            BY <3>1, <2>5, <1>8
        <3> QED BY <3>1, <3>2, <3>3, <2>3, <1>5
    <2>7. old[j].indent < m
        <3>1. CASE k = j
            BY <3>1, <2>5
        <3>2. CASE k < j
            <4>1. f[k] < f[j]
                BY <1>4, <2>6, <2>3, <3>2
            <4>2. new[f[k]].indent >= new[f[j]].indent
                BY <4>1, <2>2, <2>6
            <4> QED BY <4>2, <2>5, <2>6, <2>3, <1>6
        <3> QED BY <3>1, <3>2, <2>5, <2>6, <2>3
    <2> QED BY <2>1, <2>2, <2>6, <2>7, <2>3, <1>6
<1>15. Grown(old, new, f)
    BY <1>3, <1>4, <1>5, <1>13, <1>14 DEF Grown
<1> QED BY <1>15 DEF new, f

-----------------------------------------------------------------------------
(* One block: where it ends, and what ensure_block does.                   *)

\* Everything below line i, at indentation m or deeper, ends before line e.
Region(lines, i, e, m) ==
    /\ i \in {0} \cup Content(lines) /\ e \in (i + 1)..(Len(lines) + 1) /\ m \in Nat
    /\ i = 0 => e = Len(lines) + 1
    /\ i # 0 => /\ lines[i].indent < m
                /\ \A k \in Content(lines) : i < k /\ k < e => lines[i].indent < lines[k].indent
    /\ e <= Len(lines) => /\ e \in Content(lines) /\ lines[e].indent < m
                          /\ i # 0 => lines[e].indent <= lines[i].indent

\* Its first line, if there is one, has just this indentation.
Lead(lines, i, e, m) ==
    \/ m = 0
    \/ \A k \in Content(lines) : ~(i < k /\ k < e)
    \/ \E h \in Content(lines) : /\ i < h /\ h < e /\ lines[h].indent = m
                                 /\ \A k \in Content(lines) : i < k => h <= k

\* Line c stands below line i, at the indentation of the first line there.
Level(lines, i, c, m) ==
    /\ i \in {0} \cup Content(lines) /\ c \in Content(lines) /\ i < c /\ lines[c].indent = m
    /\ i # 0 => /\ lines[i].indent < m
                /\ \A k \in Content(lines) : i < k /\ k < c => lines[i].indent < lines[k].indent
    /\ \/ m = 0
       \/ \E h \in Content(lines) : /\ i < h /\ h <= c /\ lines[h].indent = m
                                    /\ \A k \in Content(lines) : i < k => h <= k

\* Siblings below line i are equally indented, the half of WellFormed used here.
Uniform(lines, i) == \A j, k \in Children(lines, i) : lines[j].indent = lines[k].indent

\* Such a line is a child once the text is well formed.
LEMMA LevelChild ==
    ASSUME NEW lines, Text(lines), NEW i, NEW c, NEW m \in Nat, Level(lines, i, c, m), Uniform(lines, i)
    PROVE  c \in Children(lines, i)
<1>1. /\ Len(lines) \in Nat /\ \A k \in 1..Len(lines) : lines[k].indent \in Nat
      /\ Content(lines) \subseteq 1..Len(lines)
    BY TextIs
<1>2. /\ i \in {0} \cup Content(lines) /\ c \in Content(lines) /\ i < c /\ lines[c].indent = m
      /\ i # 0 => /\ lines[i].indent < m
                  /\ \A k \in Content(lines) : i < k /\ k < c => lines[i].indent < lines[k].indent
      /\ \/ m = 0
         \/ \E h \in Content(lines) : /\ i < h /\ h <= c /\ lines[h].indent = m
                                      /\ \A k \in Content(lines) : i < k => h <= k
    BY DEF Level
<1>3. i \in 0..Len(lines)
    BY <1>1, <1>2
<1> DEFINE Short == {k \in Content(lines) : i < k /\ k < c /\ lines[k].indent < m}
<1>4. Short = {}
    <2> SUFFICES ASSUME Short # {} PROVE FALSE
        OBVIOUS
    <2>1. Short \in SUBSET Nat
        BY <1>1
    <2>2. Min(Short) \in Short /\ \A k \in Short : Min(Short) =< k
        BY <2>1, HasMinimum
    <2>3. PICK x \in Short : \A k \in Short : x =< k
        BY <2>2
    <2>4. x \in Content(lines) /\ i < x /\ x < c /\ lines[x].indent < m /\ lines[x].indent \in Nat
        BY <2>3, <1>1
    <2>5. \A k \in Content(lines) : i < k /\ k < x => lines[k].indent >= m
        BY <2>3, <2>4, <1>1, <1>2
    <2> HIDE DEF Short
    <2>6. \A k \in Content(lines) : i < k /\ k < x => lines[k].indent >= lines[x].indent
        BY <2>4, <2>5, <1>1
    <2>7. x \in Children(lines, i)
        BY <1>2, <1>3, <2>4, <2>6, ChildIs DEF Below
    <2>8. PICK h \in Content(lines) : i < h /\ lines[h].indent = m /\ \A k \in Content(lines) : i < k => h <= k
        BY <1>2, <2>4, <1>1
    <2>9. \A k \in Content(lines) : ~(i < k /\ k < h)
        BY <2>8, <1>1
    <2>10. h \in Children(lines, i)
        BY <1>2, <1>3, <2>8, <2>9, ChildIs DEF Below
    <2> QED BY <2>4, <2>7, <2>8, <2>10 DEF Uniform
<1>5. \A k \in Content(lines) : i < k /\ k < c => lines[k].indent >= lines[c].indent
    BY <1>1, <1>2, <1>4
<1> HIDE DEF Short
<1> QED BY <1>2, <1>3, <1>5, ChildIs DEF Below

\* What is below a line is in its region, at that indentation.
LEMMA RegionChildren ==
    ASSUME NEW lines, Text(lines), NEW i, NEW e, NEW m, Region(lines, i, e, m), NEW j \in Children(lines, i)
    PROVE  i < j /\ j < e
<1>1. /\ Len(lines) \in Nat /\ \A k \in 1..Len(lines) : lines[k].indent \in Nat
      /\ Content(lines) \subseteq 1..Len(lines)
    BY TextIs
<1>2. /\ i \in {0} \cup Content(lines) /\ e \in (i + 1)..(Len(lines) + 1)
      /\ i = 0 => e = Len(lines) + 1
      /\ e <= Len(lines) => /\ e \in Content(lines)
                            /\ i # 0 => lines[e].indent <= lines[i].indent
    BY DEF Region
<1>3. i \in 0..Len(lines)
    BY <1>1, <1>2
<1>4. /\ j \in Content(lines) /\ i < j
      /\ i # 0 => lines[i].indent < lines[j].indent
      /\ \A k \in Content(lines) : i < k /\ k < j => lines[k].indent >= lines[j].indent
    BY <1>3, ChildIs DEF Below
<1>5. ASSUME ~(j < e) PROVE FALSE
    <2>1. i # 0 /\ e <= Len(lines) /\ e <= j /\ i \in Content(lines) /\ i < e
        BY <1>1, <1>2, <1>4, <1>5
    <2>2. lines[e].indent >= lines[j].indent
        BY <2>1, <1>1, <1>2, <1>4
    <2> QED BY <2>1, <2>2, <1>1, <1>2, <1>4
<1> QED BY <1>4, <1>5

\* In a block that starts at indentation m, what stands at m is below its key.
LEMMA LeadChildren ==
    ASSUME NEW lines, Text(lines), NEW i, NEW e, NEW m, Region(lines, i, e, m), Lead(lines, i, e, m),
           m # 0, Uniform(lines, i), NEW j \in Children(lines, i)
    PROVE  lines[j].indent = m
<1>1. /\ Len(lines) \in Nat
      /\ Content(lines) \subseteq 1..Len(lines)
    BY TextIs
<1>2. i \in 0..Len(lines) /\ i < j /\ j < e /\ (i # 0 => lines[i].indent < m)
    <2>1. i \in {0} \cup Content(lines) /\ (i # 0 => lines[i].indent < m)
        BY DEF Region
    <2>2. i < j /\ j < e
        BY RegionChildren
    <2> QED BY <1>1, <2>1, <2>2
<1>3. j \in Content(lines)
    BY <1>2, ChildIs DEF Below
<1>4. PICK h \in Content(lines) : /\ i < h /\ lines[h].indent = m
                                  /\ \A k \in Content(lines) : i < k => h <= k
    BY <1>2, <1>3 DEF Lead
<1>5. \A k \in Content(lines) : ~(i < k /\ k < h)
    BY <1>1, <1>4
<1>6. h \in Children(lines, i)
    BY <1>2, <1>4, <1>5, ChildIs DEF Below
<1> QED BY <1>4, <1>6 DEF Uniform

\* What comes after the insertion point is outside the region.
LEMMA InsertPoint ==
    ASSUME NEW lines, Text(lines), NEW i, NEW e, NEW m, Region(lines, i, e, m), NEW n \in Nat
    PROVE  LET p == insert_point(lines, i + 1, e, n) IN
           /\ p \in (i + 1)..e
           /\ \A k \in Content(lines) : i < k /\ k < e => k < p
           /\ Shallower(lines, p, m)
<1> DEFINE S == {(i + 1) - 1} \cup
                {k \in (i + 1)..(e - 1) :
                    \/ ~blank_or_comment(lines[k])
                    \/ lines[k].kind = "comment" /\ lines[k].indent >= n}
           p == insert_point(lines, i + 1, e, n)
<1>1. /\ Len(lines) \in Nat
      /\ Content(lines) \subseteq 1..Len(lines)
      /\ \A k : k \in Content(lines) <=> k \in 1..Len(lines) /\ ~blank_or_comment(lines[k])
    BY TextIs
<1>2. /\ i \in {0} \cup Content(lines) /\ e \in (i + 1)..(Len(lines) + 1) /\ m \in Nat
      /\ e <= Len(lines) => e \in Content(lines) /\ lines[e].indent < m
    BY DEF Region
<1>3. i \in Nat /\ e - 1 \in Nat
    BY <1>1, <1>2
<1>4. S \in SUBSET (0..(e - 1)) /\ i \in S
    BY <1>2, <1>3
<1>5. p = 1 + Max(S)
    BY DEF insert_point
<1>6. Max(S) \in S /\ \A x \in S : x =< Max(S)
    BY <1>3, <1>4, HasMaximum
<1>7. Max(S) \in 0..(e - 1) /\ i =< Max(S)
    BY <1>4, <1>6
<1>8. ASSUME NEW k \in Content(lines), i < k, k < e PROVE k < p
    <2>1. k \in S
        BY <1>1, <1>2, <1>8, <1>3
    <2>2. k =< Max(S)
        BY <2>1, <1>6
    <2> QED BY <2>2, <1>5, <1>7, <1>1
<1> HIDE DEF S, p
<1>9. p \in (i + 1)..e
    BY <1>2, <1>3, <1>5, <1>7
<1>10. ASSUME NEW q \in Content(lines), q >= p
       PROVE  \E k \in Content(lines) : p <= k /\ k <= q /\ lines[k].indent < m
    <2>1. q \in 1..Len(lines) /\ e \in Nat /\ p \in Nat /\ i < q
        BY <1>1, <1>2, <1>3, <1>9, <1>10
    <2>2. e <= q
        BY <2>1, <1>8, <1>10
    <2>3. e <= Len(lines)
        BY <2>1, <2>2, <1>1
    <2> QED BY <2>2, <2>3, <1>2, <1>9
<1> QED BY <1>8, <1>9, <1>10 DEF Shallower, p

\* The block whose key is on line k, and the indentation of its entries.
LEMMA BlockIs ==
    ASSUME NEW lines, Text(lines), NEW k \in Content(lines), NEW d \in Nat, lines[k].indent = d,
           NEW step \in Nat, step # 0
    PROVE  LET e == block_end(lines, k, d)
               c == child_indent(lines, k + 1, e)
               m == IF c < 0 THEN d + step ELSE c
           IN  Region(lines, k, e, m) /\ Lead(lines, k, e, m)
<1> DEFINE n == Len(lines)
           S == {n + 1} \cup {i \in Content(lines) : i > k /\ lines[i].indent <= d}
           e == block_end(lines, k, d)
           T == Content(lines) \cap ((k + 1)..(e - 1))
           c == child_indent(lines, k + 1, e)
           m == IF c < 0 THEN d + step ELSE c
<1>1. /\ n \in Nat /\ \A i \in 1..n : lines[i].indent \in Nat
      /\ Content(lines) \subseteq 1..n
    BY TextIs
<1>2. k \in 1..n
    BY <1>1
<1>3. S \in SUBSET Nat /\ S # {}
    BY <1>1
<1>4. e = Min(S)
    BY DEF block_end
<1>5. e \in S /\ \A x \in S : e =< x
    BY <1>3, <1>4, HasMinimum
<1>6. c = IF T = {} THEN -1 ELSE lines[Min(T)].indent
    BY DEF child_indent
<1> HIDE DEF e, c
<1>7. e \in (k + 1)..(n + 1)
    BY <1>1, <1>2, <1>5
<1>8. \A i \in Content(lines) : i > k /\ i < e => d < lines[i].indent
    <2> SUFFICES ASSUME NEW i \in Content(lines), i > k, i < e, ~(d < lines[i].indent) PROVE FALSE
        OBVIOUS
    <2>1. lines[i].indent <= d /\ i \in 1..n
        BY <1>1
    <2>2. i \in S
        BY <2>1
    <2> QED BY <2>1, <2>2, <1>5, <1>7
<1>9. e <= n => e \in Content(lines) /\ lines[e].indent <= d
    BY <1>1, <1>5
<1> HIDE DEF S, n
<1>10. T \in SUBSET Nat
    BY <1>1
<1>11. T # {} => \E h \in T : c = lines[h].indent /\ \A x \in T : h =< x
    <2> SUFFICES ASSUME T # {} PROVE \E h \in T : c = lines[h].indent /\ \A x \in T : h =< x
        OBVIOUS
    <2>1. Min(T) \in T /\ \A x \in T : Min(T) =< x
        BY <1>10, HasMinimum
    <2>2. c = lines[Min(T)].indent
        BY <1>6
    <2> QED BY <2>1, <2>2
<1>12. \A i : i \in T <=> i \in Content(lines) /\ k < i /\ i < e
    BY <1>1, <1>2, <1>7
<1>13. T = {} => c = -1
    BY <1>6
<1> HIDE DEF T
<1>14. m \in Nat /\ d < m
    <2>1. CASE T = {}
        BY <2>1, <1>13
    <2>2. CASE T # {}
        <3>1. PICK h \in T : c = lines[h].indent
            BY <2>2, <1>11
        <3>2. d < c /\ c \in Nat
            BY <3>1, <1>12, <1>8, <1>1
        <3> QED BY <3>2
    <2> QED BY <2>1, <2>2
<1>15. Lead(lines, k, e, m)
    <2>1. CASE T = {}
        BY <2>1, <1>12 DEF Lead
    <2>2. CASE T # {}
        <3>1. PICK h \in T : c = lines[h].indent /\ \A x \in T : h =< x
            BY <2>2, <1>11
        <3>2. h \in Content(lines) /\ k < h /\ h < e /\ c \in Nat /\ h \in 1..n
            BY <3>1, <1>12, <1>1
        <3>3. m = c
            BY <3>2
        <3>4. ASSUME NEW x \in Content(lines), k < x PROVE h <= x
            <4>1. x \in 1..n
                BY <1>1
            <4>2. CASE x < e
                BY <4>2, <3>1, <3>4, <1>12
            <4>3. CASE ~(x < e)
                BY <4>1, <4>3, <3>2, <1>7
            <4> QED BY <4>2, <4>3
        <3> QED BY <3>1, <3>2, <3>3, <3>4 DEF Lead
    <2> QED BY <2>1, <2>2
<1> HIDE DEF m
<1>16. Region(lines, k, e, m)
    <2>1. e <= Len(lines) => lines[e].indent < m
        <3> SUFFICES ASSUME e <= n PROVE lines[e].indent < m
            BY DEF n
        <3>1. lines[e].indent <= d /\ lines[e].indent \in Nat
            BY <1>9, <1>1
        <3> QED BY <3>1, <1>14
    <2> QED BY <1>1, <1>2, <1>7, <1>8, <1>9, <1>14, <2>1 DEF Region, n
<1> QED BY <1>15, <1>16 DEF m, c, e

\* new is old, with a line k for this key in the region of line i if it had
\* none there.
Stage(old, i, e, m, key, new, k, f) ==
    /\ Text(new) /\ Grown(old, new, f) /\ \A x \in 0..i : f[x] = x
    /\ \A x \in 0..Len(new) : x = k \/ \E y \in 0..Len(old) : x = f[y]
    /\ (\A y \in 0..Len(old) : k # f[y]) =>
           \A j \in Content(old) : i < j /\ j < e =>
               f[j] < k /\ ~(old[j].kind = "plain" /\ old[j].indent = m /\ old[j].key = key)
    /\ Level(new, i, k, m)
    /\ new[k].kind = "plain" /\ new[k].key = key

\* The key that ensure_block writes is a line.
LEMMA KeyLine ==
    ASSUME NEW m \in Nat, NEW key \in Words, NEW v \in Values
    PROVE  /\ Key(m, key, v) \in Line /\ ~blank_or_comment(Key(m, key, v))
           /\ Key(m, key, v).indent = m /\ Key(m, key, v).key = key
           /\ Key(m, key, v).value = v /\ Key(m, key, v).kind = "plain"
BY DEF Key, Line, blank_or_comment

\* InsertAt is InsertAll of one line.
LEMMA OneLine ==
    ASSUME NEW l \in Line
    PROVE  /\ Text(<<l>>) /\ Len(<<l>>) = 1 /\ <<l>>[1] = l
           /\ \A lines, at : InsertAt(lines, at, l) = InsertAll(lines, at, <<l>>)
<1> DEFINE L == Line
<1> HIDE DEF L
<1>1. l \in L
    BY DEF L
<1>2. <<l>> \in Seq(L) /\ Len(<<l>>) = 1 /\ <<l>>[1] = l
    BY <1>1
<1>3. \A lines, at : InsertAt(lines, at, l) = InsertAll(lines, at, <<l>>)
    BY DEF InsertAt, InsertAll
<1> QED BY <1>2, <1>3 DEF Text, L

\* The key is there.
LEMMA StageFound ==
    ASSUME NEW lines, Text(lines), NEW i, NEW e, NEW m, NEW key, Region(lines, i, e, m), Lead(lines, i, e, m),
           NEW k \in Content(lines), i < k, k < e,
           lines[k].indent = m, lines[k].kind = "plain", lines[k].key = key
    PROVE  Stage(lines, i, e, m, key, lines, k, [x \in 0..Len(lines) |-> x])
<1> DEFINE f == [x \in 0..Len(lines) |-> x]
<1>1. Len(lines) \in Nat /\ Content(lines) \subseteq 1..Len(lines)
    BY TextIs
<1>2. /\ i \in {0} \cup Content(lines) /\ e \in (i + 1)..(Len(lines) + 1)
      /\ i # 0 => /\ lines[i].indent < m
                  /\ \A x \in Content(lines) : i < x /\ x < e => lines[i].indent < lines[x].indent
    BY DEF Region
<1>3. Grown(lines, lines, f)
    BY GrownSame
<1>4. (\A x \in 0..i : f[x] = x) /\ \A x \in 0..Len(lines) : x = f[x]
    BY <1>1, <1>2
<1> HIDE DEF f
<1>5. k \in 0..Len(lines) /\ k = f[k]
    BY <1>1, <1>4
<1>6. \A x \in Content(lines) : x < k => x < e
    BY <1>1, <1>2
<1>7. \/ m = 0
      \/ \E h \in Content(lines) : /\ i < h /\ h <= k /\ lines[h].indent = m
                                   /\ \A x \in Content(lines) : i < x => h <= x
    BY DEF Lead
<1>8. Level(lines, i, k, m)
    BY <1>2, <1>6, <1>7 DEF Level
<1>9. Stage(lines, i, e, m, key, lines, k, f)
    BY <1>3, <1>4, <1>5, <1>8 DEF Stage
<1> QED BY <1>9 DEF f

\* The key is added.
LEMMA StageAdded ==
    ASSUME NEW lines, Text(lines), NEW i, NEW e, NEW m, NEW key \in Words,
           Region(lines, i, e, m), Lead(lines, i, e, m),
           \A j \in Content(lines) : i < j /\ j < e =>
               ~(lines[j].kind = "plain" /\ lines[j].indent = m /\ lines[j].key = key)
    PROVE  LET k == insert_point(lines, i + 1, e, m)
               new == InsertAt(lines, k, Key(m, key, Nothing))
           IN  Stage(lines, i, e, m, key, new, k, Moved(lines, k, 1))
<1> DEFINE k == insert_point(lines, i + 1, e, m)
           l == Key(m, key, Nothing)
           new == InsertAt(lines, k, l)
           f == Moved(lines, k, 1)
<1>1. /\ Len(lines) \in Nat /\ Content(lines) \subseteq 1..Len(lines)
      /\ \A x : x \in Content(lines) <=> x \in 1..Len(lines) /\ ~blank_or_comment(lines[x])
    BY TextIs
<1>2. /\ i \in {0} \cup Content(lines) /\ e \in (i + 1)..(Len(lines) + 1) /\ m \in Nat
      /\ i # 0 => /\ lines[i].indent < m
                  /\ \A x \in Content(lines) : i < x /\ x < e => lines[i].indent < lines[x].indent
    BY DEF Region
<1>3. /\ k \in (i + 1)..e
      /\ \A x \in Content(lines) : i < x /\ x < e => x < k
      /\ Shallower(lines, k, m)
    BY <1>2, InsertPoint
<1> HIDE DEF k
<1>4. k \in 1..(Len(lines) + 1) /\ i \in 0..Len(lines)
    BY <1>1, <1>2, <1>3
<1>5. l \in Line /\ ~blank_or_comment(l) /\ l.indent = m /\ l.key = key /\ l.kind = "plain"
    BY <1>2, KeyLine DEF Values
<1> HIDE DEF l
<1>6. Text(<<l>>) /\ Len(<<l>>) = 1 /\ <<l>>[1] = l /\ new = InsertAll(lines, k, <<l>>)
    BY <1>5, OneLine
<1> HIDE DEF new
<1>7. Text(new) /\ Len(new) = Len(lines) + 1
      /\ (\A x \in 1..(k - 1) : new[x] = lines[x]) /\ new[k] = l
      /\ \A x \in k..Len(lines) : new[x + 1] = lines[x]
    <2>1. /\ Text(new) /\ Len(new) = Len(lines) + 1
          /\ \A x \in 1..(k - 1) : new[x] = lines[x]
          /\ \A x \in 1..1 : new[k - 1 + x] = <<l>>[x]
          /\ \A x \in k..Len(lines) : new[x + 1] = lines[x]
        <3> DEFINE w == <<l>>
        <3>1. Text(w) /\ Len(w) = 1
            BY <1>6
        <3> HIDE DEF w
        <3>2. Joined(lines, k, w, InsertAll(lines, k, w))
            BY <1>4, <3>1, InsertIs
        <3>3. new = InsertAll(lines, k, w)
            BY <1>6 DEF w
        <3> QED BY <3>1, <3>2, <3>3 DEF w, Joined
    <2>2. 1 \in 1..1 /\ k - 1 + 1 = k
        BY <1>4
    <2> QED BY <2>1, <2>2, <1>6
<1>8. Grown(lines, new, f)
    <2>1. \A x : x \in Content(<<l>>) <=> x \in 1..1 /\ ~blank_or_comment(<<l>>[x])
        BY <1>6, TextIs
    <2>2. Content(<<l>>) = 1..Len(<<l>>) /\ \A x \in Content(<<l>>) : <<l>>[x].indent >= m
        BY <2>1, <1>2, <1>5, <1>6
    <2> QED BY <2>2, <1>2, <1>3, <1>4, <1>6, InsertGrows
<1>9. \A x \in 0..Len(lines) : f[x] = IF x < k THEN x ELSE x + 1
    BY DEF Moved
<1> HIDE DEF f
<1>10. \A x \in 0..i : f[x] = x
    BY <1>1, <1>3, <1>4, <1>9
<1>11. \A x \in 0..Len(new) : x = k \/ \E y \in 0..Len(lines) : x = f[y]
    <2> SUFFICES ASSUME NEW x \in 0..Len(new), x # k PROVE \E y \in 0..Len(lines) : x = f[y]
        OBVIOUS
    <2>1. CASE x < k
        <3>1. x \in 0..Len(lines) /\ f[x] = x
            BY <1>1, <1>4, <1>7, <1>9, <2>1
        <3> QED BY <3>1
    <2>2. CASE x > k
        <3>1. x - 1 \in 0..Len(lines) /\ f[x - 1] = x
            BY <1>1, <1>4, <1>7, <1>9, <2>2
        <3> QED BY <3>1
    <2> QED BY <1>1, <1>4, <1>7, <2>1, <2>2
<1>12. \A j \in Content(lines) : i < j /\ j < e => f[j] < k
    BY <1>1, <1>3, <1>4, <1>9
<1>13. \A x : x \in Content(new) <=> x \in 1..Len(new) /\ ~blank_or_comment(new[x])
    BY <1>7, TextIs
<1>14. k \in Content(new)
    BY <1>1, <1>4, <1>5, <1>7, <1>13
<1>15. \A x : x < k => (x \in Content(new) <=> x \in Content(lines))
    <2> SUFFICES ASSUME NEW x, x < k PROVE x \in Content(new) <=> x \in Content(lines)
        OBVIOUS
    <2>1. x \in 1..Len(new) <=> x \in 1..(k - 1)
        BY <1>1, <1>4, <1>7
    <2>2. x \in 1..Len(lines) <=> x \in 1..(k - 1)
        BY <1>1, <1>4, <1>7
    <2> QED BY <2>1, <2>2, <1>1, <1>7, <1>13
<1>16. \A x \in Content(new) : x < k => new[x] = lines[x]
    <2>1. \A x \in Content(new) : x < k => x \in 1..(k - 1)
        BY <1>4, <1>13
    <2> QED BY <2>1, <1>7
<1>17. i \in {0} \cup Content(new) /\ (i # 0 => new[i] = lines[i]) /\ i < k
    BY <1>2, <1>3, <1>4, <1>15, <1>16
<1>18. \A x \in Content(new) : i < x /\ x < k => x \in Content(lines) /\ x < e /\ new[x] = lines[x]
    BY <1>1, <1>2, <1>3, <1>4, <1>15, <1>16
<1>19. \/ m = 0
       \/ \E h \in Content(new) : /\ i < h /\ h <= k /\ new[h].indent = m
                                  /\ \A x \in Content(new) : i < x => h <= x
    <2>1. CASE m = 0
        BY <2>1
    <2>2. CASE \A x \in Content(lines) : ~(i < x /\ x < e)
        <3>1. \A x \in Content(new) : i < x => k <= x
            BY <2>2, <1>18, <1>13, <1>4, <1>7, <1>1
        <3> QED BY <3>1, <1>14, <1>17, <1>7, <1>5, <1>4
    <2>3. ASSUME NEW h \in Content(lines), i < h, h < e, lines[h].indent = m,
                 \A x \in Content(lines) : i < x => h <= x
          PROVE  \E y \in Content(new) : /\ i < y /\ y <= k /\ new[y].indent = m
                                         /\ \A x \in Content(new) : i < x => y <= x
        <3>1. h < k
            BY <2>3, <1>3
        <3>2. h \in Content(new) /\ new[h].indent = m
            BY <3>1, <2>3, <1>15, <1>16
        <3>3. ASSUME NEW x \in Content(new), i < x PROVE h <= x
            <4>1. CASE x < k
                BY <4>1, <3>3, <1>15, <2>3
            <4>2. CASE ~(x < k)
                BY <4>2, <3>1, <1>13, <1>4, <1>7, <1>1, <2>3
            <4> QED BY <4>1, <4>2
        <3>4. h <= k
            BY <3>1, <1>1, <1>4
        <3> QED BY <3>2, <3>3, <3>4, <2>3
    <2> QED BY <2>1, <2>2, <2>3 DEF Lead
<1>20. Level(new, i, k, m)
    <2>1. i # 0 => /\ new[i].indent < m
                   /\ \A x \in Content(new) : i < x /\ x < k => new[i].indent < new[x].indent
        BY <1>2, <1>17, <1>18
    <2> QED BY <2>1, <1>14, <1>17, <1>19, <1>7, <1>5 DEF Level
<1>21. Stage(lines, i, e, m, key, new, k, f)
    BY <1>5, <1>7, <1>8, <1>10, <1>11, <1>12, <1>20 DEF Stage
<1> QED BY <1>21 DEF new, k, f, l

\* ensure_block, whether it finds the key or adds it.
LEMMA Ensure ==
    ASSUME NEW lines, Text(lines), NEW i, NEW e, NEW m, NEW key \in Words, NEW step \in Nat, step # 0,
           Region(lines, i, e, m), Lead(lines, i, e, m),
           ensure_block(lines, i + 1, e, m, step, key).ok
    PROVE  LET b == ensure_block(lines, i + 1, e, m, step, key) IN
           /\ \E f : Stage(lines, i, e, m, key, b.lines, b.key_line, f)
           /\ Region(b.lines, b.key_line, b.end, b.entry_indent)
           /\ Lead(b.lines, b.key_line, b.end, b.entry_indent)
<1> DEFINE b == ensure_block(lines, i + 1, e, m, step, key)
           F == {j \in Content(lines) \cap ((i + 1)..(e - 1)) :
                    lines[j].indent = m /\ lines[j].kind = "plain" /\ lines[j].key = key}
           found == find_child(lines, i + 1, e, m, key)
           at == IF found = 0 THEN insert_point(lines, i + 1, e, m) ELSE found
           now == IF found = 0 THEN InsertAt(lines, at, Key(m, key, Nothing)) ELSE lines
           stop == block_end(now, at, m)
           c == child_indent(now, at + 1, stop)
           d == IF c < 0 THEN m + step ELSE c
<1>1. b = IF now[at].value # Nothing THEN Throws
          ELSE [ok |-> TRUE, lines |-> now, key_line |-> at, end |-> stop, entry_indent |-> d]
    BY DEF ensure_block
<1>2. found = IF F = {} THEN 0 ELSE Min(F)
    BY DEF find_child
<1> HIDE DEF b, found
<1>3. b.ok
    BY DEF b
<1>4. b = [ok |-> TRUE, lines |-> now, key_line |-> at, end |-> stop, entry_indent |-> d]
    BY <1>1, <1>3 DEF Throws
<1>5. b.lines = now /\ b.key_line = at /\ b.end = stop /\ b.entry_indent = d
    BY <1>4
<1>6. Len(lines) \in Nat /\ Content(lines) \subseteq 1..Len(lines)
    BY TextIs
<1>7. i \in {0} \cup Content(lines) /\ e \in (i + 1)..(Len(lines) + 1) /\ m \in Nat
    BY DEF Region
<1>8. F # {} => found \in F
    <2>1. F \in SUBSET Nat
        BY <1>6
    <2> QED BY <2>1, <1>2, HasMinimum
<1>9. F # {} => found # 0
    BY <1>6, <1>8
<1>10. \E f : Stage(lines, i, e, m, key, now, at, f)
    <2>1. CASE F = {}
        <3>1. \A j \in Content(lines) : i < j /\ j < e =>
                  ~(lines[j].kind = "plain" /\ lines[j].indent = m /\ lines[j].key = key)
            BY <1>6, <1>7, <2>1
        <3>2. found = 0
            BY <2>1, <1>2
        <3> QED BY <3>1, <3>2, StageAdded
    <2>2. CASE F # {}
        <3>1. found \in Content(lines) /\ i < found /\ found < e
              /\ lines[found].indent = m /\ lines[found].kind = "plain" /\ lines[found].key = key
            BY <2>2, <1>6, <1>7, <1>8
        <3>2. at = found /\ now = lines
            BY <2>2, <1>9
        <3>3. Stage(lines, i, e, m, key, lines, found, [x \in 0..Len(lines) |-> x])
            BY <3>1, StageFound
        <3> QED BY <3>2, <3>3
    <2> QED BY <2>1, <2>2
<1> HIDE DEF at, now
<1>11. Text(now) /\ at \in Content(now) /\ now[at].indent = m
    BY <1>10 DEF Stage, Level
<1>12. Region(now, at, stop, d) /\ Lead(now, at, stop, d)
    BY <1>7, <1>11, BlockIs
<1> QED BY <1>5, <1>10, <1>12 DEF b

-----------------------------------------------------------------------------
(* The entries that import adds.                                           *)

\* An entry for one of these names on lines x and x + 1.
EntryAt(w, x, m, v, ns) ==
    /\ x \in 1..Len(w) /\ x + 1 \in 1..Len(w)
    /\ \E n \in ns : w[x] = Key(m, n, Nothing) /\ w[x + 1] = Key(v, "env_var_name", n)

\* Nothing but entries.
EntriesIn(w, m, v, ns) ==
    /\ Text(w)
    /\ \A x \in 1..Len(w) : EntryAt(w, x, m, v, ns) \/ EntryAt(w, x - 1, m, v, ns)

\* No lines are no entries.
LEMMA NoEntries ==
    ASSUME NEW m, NEW v, NEW ns
    PROVE  EntriesIn(<<>>, m, v, ns)
<1>1. <<>> \in Seq(Line) /\ Len(<<>>) = 0
    BY EmptySeq
<1> QED BY <1>1 DEF EntriesIn, Text

\* An entry for this name.
HasEntry(w, m, v, n) == \E x : EntryAt(w, x, m, v, {n})

\* Entries keep their lines when texts are joined, or move along.
LEMMA JoinAt ==
    ASSUME NEW m, NEW v, NEW ns, NEW a, NEW b, Text(a), Text(b)
    PROVE  /\ \A x : EntryAt(a, x, m, v, ns) => EntryAt(a \o b, x, m, v, ns)
           /\ \A x : EntryAt(b, x, m, v, ns) => EntryAt(a \o b, x + Len(a), m, v, ns)
           /\ Text(a \o b) /\ Len(a \o b) = Len(a) + Len(b) /\ Len(a) \in Nat /\ Len(b) \in Nat
<1> DEFINE c == a \o b
           L == Line
           P(w, x) == EntryAt(w, x, m, v, ns)
<1> HIDE DEF L
<1>1. a \in Seq(L) /\ b \in Seq(L)
    BY DEF Text, L
<1>2. Len(a) \in Nat /\ Len(b) \in Nat
    BY <1>1, LenProperties
<1>3. c \in Seq(L) /\ Len(c) = Len(a) + Len(b)
      /\ \A x \in 1..(Len(a) + Len(b)) : c[x] = IF x <= Len(a) THEN a[x] ELSE b[x - Len(a)]
    BY <1>1, ConcatProperties
<1> HIDE DEF c
<1>4. ASSUME NEW x, P(a, x) PROVE P(c, x)
    <2>1. x \in 1..Len(a) /\ x + 1 \in 1..Len(a)
        BY <1>4 DEF EntryAt
    <2>2. c[x] = a[x] /\ c[x + 1] = a[x + 1] /\ x \in 1..Len(c) /\ x + 1 \in 1..Len(c)
        BY <2>1, <1>2, <1>3
    <2> QED BY <2>2, <1>4 DEF EntryAt
<1>5. ASSUME NEW x, P(b, x) PROVE P(c, x + Len(a))
    <2>1. x \in 1..Len(b) /\ x + 1 \in 1..Len(b)
        BY <1>5 DEF EntryAt
    <2>2. x + Len(a) \in 1..Len(c) /\ (x + Len(a)) + 1 \in 1..Len(c)
          /\ ~(x + Len(a) <= Len(a)) /\ ~((x + Len(a)) + 1 <= Len(a))
          /\ (x + Len(a)) - Len(a) = x /\ ((x + Len(a)) + 1) - Len(a) = x + 1
        BY <2>1, <1>2, <1>3
    <2>3. c[x + Len(a)] = b[x] /\ c[(x + Len(a)) + 1] = b[x + 1]
        BY <2>2, <1>3
    <2> QED BY <2>2, <2>3, <1>5 DEF EntryAt
<1> QED BY <1>2, <1>3, <1>4, <1>5 DEF c, Text, L

\* No entry is lost.
LEMMA HasEntryJoin ==
    ASSUME NEW m, NEW v, NEW n, NEW a, NEW b, Text(a), Text(b)
    PROVE  HasEntry(a, m, v, n) \/ HasEntry(b, m, v, n) => HasEntry(a \o b, m, v, n)
BY JoinAt DEF HasEntry

\* Entries after entries are entries.
LEMMA EntriesJoin ==
    ASSUME NEW m, NEW v, NEW ns, NEW a, NEW b, EntriesIn(a, m, v, ns), EntriesIn(b, m, v, ns)
    PROVE  EntriesIn(a \o b, m, v, ns)
<1> DEFINE c == a \o b
           P(w, x) == EntryAt(w, x, m, v, ns)
<1>1. Text(a) /\ Text(b)
    BY DEF EntriesIn
<1>2. /\ \A x : P(a, x) => P(c, x)
      /\ \A x : P(b, x) => P(c, x + Len(a))
      /\ Text(c) /\ Len(c) = Len(a) + Len(b) /\ Len(a) \in Nat /\ Len(b) \in Nat
    BY <1>1, JoinAt
<1> HIDE DEF c
<1>6. ASSUME NEW x \in 1..Len(c) PROVE P(c, x) \/ P(c, x - 1)
    <2>1. CASE x <= Len(a)
        <3>1. P(a, x) \/ P(a, x - 1)
            BY <2>1, <1>2 DEF EntriesIn
        <3> QED BY <3>1, <1>2
    <2>2. CASE x > Len(a)
        <3>1. x - Len(a) \in 1..Len(b)
            BY <2>2, <1>2
        <3>2. P(b, x - Len(a)) \/ P(b, (x - Len(a)) - 1)
            BY <3>1 DEF EntriesIn
        <3>3. (x - Len(a)) + Len(a) = x /\ ((x - Len(a)) - 1) + Len(a) = x - 1
            BY <1>2
        <3> HIDE DEF P
        <3> QED BY <3>2, <3>3, <1>2
    <2> QED BY <2>1, <2>2, <1>2
<1>7. EntriesIn(c, m, v, ns)
    BY <1>2, <1>6 DEF EntriesIn
<1> QED BY <1>7 DEF c

\* What one requested name adds is one entry or nothing.
LEMMA OneEntry ==
    ASSUME NEW m \in Nat, NEW v \in Nat, NEW ns, ns \subseteq Names, NEW n \in ns
    PROVE  /\ EntriesIn(<<Key(m, n, Nothing), Key(v, "env_var_name", n)>>, m, v, ns)
           /\ HasEntry(<<Key(m, n, Nothing), Key(v, "env_var_name", n)>>, m, v, n)
<1> DEFINE a == Key(m, n, Nothing)
           b == Key(v, "env_var_name", n)
           L == Line
<1>1. a \in Line /\ b \in Line
    <2>1. n \in Words /\ "env_var_name" \in Words /\ Nothing \in Values /\ n \in Values
        BY DEF Words, Fields, Values
    <2> QED BY <2>1, KeyLine
<1> HIDE DEF L
<1>2. a \in L /\ b \in L
    BY <1>1 DEF L
<1> DEFINE w == <<a, b>>
<1>3. w \in Seq(L) /\ Len(w) = 2 /\ w[1] = a /\ w[2] = b
    <2> HIDE DEF a, b
    <2> QED BY <1>2
<1> HIDE DEF w
<1>4. EntryAt(w, 1, m, v, ns)
    <2>1. 1 \in 1..Len(w) /\ 1 + 1 \in 1..Len(w) /\ 1 + 1 = 2
        BY <1>3
    <2> QED BY <2>1, <1>3 DEF EntryAt
<1>7. HasEntry(w, m, v, n)
    <2>1. 1 \in 1..Len(w) /\ 1 + 1 \in 1..Len(w) /\ 1 + 1 = 2
        BY <1>3
    <2>2. EntryAt(w, 1, m, v, {n})
        BY <2>1, <1>3 DEF EntryAt
    <2> QED BY <2>2 DEF HasEntry
<1>5. ASSUME NEW x \in 1..Len(w) PROVE EntryAt(w, x, m, v, ns) \/ EntryAt(w, x - 1, m, v, ns)
    <2>1. x = 1 \/ x - 1 = 1
        BY <1>3
    <2> QED BY <2>1, <1>4
<1>6. EntriesIn(w, m, v, ns)
    BY <1>3, <1>5 DEF EntriesIn, Text, L
<1> QED BY <1>6, <1>7 DEF w

\* What import adds is entries, one under each missing name.
LEMMA AddedIs ==
    ASSUME NEW b, Text(b.lines), Region(b.lines, b.key_line, b.end, b.entry_indent),
           NEW names \in Seq(Names), NEW step \in Nat, step # 0
    PROVE  \E v \in Nat : b.entry_indent < v
                          /\ EntriesIn(Added(b, names, step), b.entry_indent, v, Range(names))
                          /\ \A n \in Range(names) :
                                find_child(b.lines, b.key_line + 1, b.end, b.entry_indent, n) = 0 =>
                                    HasEntry(Added(b, names, step), b.entry_indent, v, n)
<1> DEFINE lines == b.lines
           m == b.entry_indent
           inside == (b.key_line + 1)..(b.end - 1)
           deeper == {i \in Content(lines) \cap inside : lines[i].indent > m}
           v == IF deeper = {} THEN m + step ELSE lines[Min(deeper)].indent
           ns == Range(names)
           Missing(n) == find_child(lines, b.key_line + 1, b.end, m, n) = 0
           New(n) == <<Key(m, n, Nothing), Key(v, "env_var_name", n)>>
           s == [i \in DOMAIN names |-> IF Missing(names[i]) THEN New(names[i]) ELSE <<>>]
<1>1. Added(b, names, step) = FlattenSeq(s)
    BY DEF Added
<1>2. m \in Nat
    BY DEF Region
<1>3. v \in Nat /\ m < v
    <2>1. CASE deeper = {}
        BY <2>1, <1>2
    <2>2. CASE deeper # {}
        <3>1. Content(lines) \subseteq 1..Len(lines) /\ Len(lines) \in Nat
              /\ \A i \in 1..Len(lines) : lines[i].indent \in Nat
            BY TextIs
        <3>2. deeper \in SUBSET Nat
            BY <3>1
        <3>3. Min(deeper) \in deeper
            BY <2>2, <3>2, HasMinimum
        <3>4. v = lines[Min(deeper)].indent
            BY <2>2
        <3> QED BY <3>1, <3>3, <3>4, <1>2
    <2> QED BY <2>1, <2>2
<1> HIDE DEF v
<1>4. DOMAIN names = 1..Len(names) /\ Len(names) \in Nat /\ ns \subseteq Names
      /\ \A i \in 1..Len(names) : names[i] \in ns
    <2>1. DOMAIN names = 1..Len(names) /\ Len(names) \in Nat
        BY LenProperties
    <2>2. \A i \in 1..Len(names) : names[i] \in Names
        BY ElementOfSeq
    <2>3. ns = {names[i] : i \in DOMAIN names}
        BY DEF Range
    <2> QED BY <2>1, <2>2, <2>3
<1> HIDE DEF ns, Missing
<1> DEFINE n == Len(names)
           G(w) == EntriesIn(w, m, v, ns)
           T == Line
<1>5. \A i \in 1..n : G(s[i])
    <2> SUFFICES ASSUME NEW i \in 1..n PROVE G(s[i])
        OBVIOUS
    <2>1. G(<<>>)
        BY NoEntries
    <2>2. G(New(names[i]))
        BY <1>2, <1>3, <1>4, OneEntry
    <2>3. s[i] = New(names[i]) \/ s[i] = <<>>
        BY <1>4
    <2> QED BY <2>1, <2>2, <2>3
<1>6. s \in [1..n -> Seq(T)]
    <2>1. \A w : G(w) => w \in Seq(T)
        BY DEF EntriesIn, Text
    <2>2. DOMAIN s = 1..n /\ s = [i \in DOMAIN s |-> s[i]]
        BY <1>4
    <2> HIDE DEF s, T, G, n
    <2> QED BY <2>1, <2>2, <1>5
<1> HIDE DEF s, T, n, G
<1>7. PICK g \in [0..n -> Seq(T)] : /\ g[0] = <<>>
                                    /\ \A i \in 1..n : g[i] = g[i - 1] \o s[i]
                                    /\ FlattenSeq(s) = g[n]
    <2>1. n \in Nat
        BY <1>4 DEF n
    <2> QED BY <2>1, <1>6, Flatten
<1> DEFINE Good == {k \in 0..n : G(g[k])}
<1>8. 0..n \subseteq Good
    <2>1. n \in Nat
        BY <1>4 DEF n
    <2>2. 0 \in Good
        <3>1. G(<<>>)
            BY NoEntries DEF G
        <3> QED BY <2>1, <3>1, <1>7
    <2>3. ASSUME NEW k \in 0..(n - 1), k \in Good PROVE k + 1 \in Good
        <3>1. k + 1 \in 1..n /\ (k + 1) - 1 = k
            BY <2>1
        <3>2. g[k + 1] = g[k] \o s[k + 1]
            <4>1. g[k + 1] = g[(k + 1) - 1] \o s[k + 1]
                BY <3>1, <1>7
            <4> QED BY <3>1, <4>1
        <3>3. G(s[k + 1]) /\ G(g[k])
            BY <3>1, <2>3, <1>5
        <3>4. G(g[k] \o s[k + 1])
            BY <3>3, EntriesJoin DEF G
        <3>5. G(g[k + 1])
            BY <3>2, <3>4
        <3>6. k + 1 \in 0..n
            BY <2>1, <3>1
        <3> QED BY <3>5, <3>6
    <2> HIDE DEF Good
    <2> QED BY <2>1, <2>2, <2>3, Induction
<1>9. G(g[n])
    <2>1. n \in 0..n
        BY <1>4 DEF n
    <2> QED BY <2>1, <1>8
<1>10. EntriesIn(Added(b, names, step), m, v, ns)
    BY <1>1, <1>7, <1>9 DEF G
\* Nor is a missing name forgotten.
<1> DEFINE H(w, x) == HasEntry(w, m, v, x)
           Full == {k \in 0..n : \A i \in 1..k : Missing(names[i]) => H(g[k], names[i])}
<1>11. 0..n \subseteq Full
    <2>1. n \in Nat
        BY <1>4 DEF n
    <2>2. 0 \in Full
        BY <2>1
    <2>3. ASSUME NEW k \in 0..(n - 1), k \in Full PROVE k + 1 \in Full
        <3>1. k + 1 \in 1..n /\ (k + 1) - 1 = k /\ k + 1 \in 0..n /\ k \in 0..n
            BY <2>1
        <3>2. g[k + 1] = g[k] \o s[k + 1]
            <4>1. g[k + 1] = g[(k + 1) - 1] \o s[k + 1]
                BY <3>1, <1>7
            <4> QED BY <3>1, <4>1
        <3>3. Text(g[k]) /\ Text(s[k + 1])
            BY <3>1, <1>6, <1>7 DEF Text, T
        <3>4. ASSUME NEW i \in 1..(k + 1), Missing(names[i]) PROVE H(g[k + 1], names[i])
            <4>1. CASE i = k + 1
                <5>1. s[i] = New(names[i]) /\ names[i] \in ns
                    BY <4>1, <3>1, <3>4, <1>4 DEF s, n
                <5>2. H(s[i], names[i])
                    BY <5>1, <1>2, <1>3, <1>4, OneEntry
                <5> HIDE DEF H
                <5>3. H(s[k + 1], names[i])
                    BY <4>1, <5>2
                <5> QED BY <5>3, <3>2, <3>3, HasEntryJoin DEF H
            <4>2. CASE i # k + 1
                <5>1. i \in 1..k
                    BY <2>1, <3>4, <4>2
                <5>2. H(g[k], names[i])
                    BY <5>1, <2>3, <3>4
                <5> QED BY <5>2, <3>2, <3>3, HasEntryJoin
            <4> QED BY <4>1, <4>2
        <3> QED BY <3>1, <3>4
    <2> HIDE DEF Full
    <2> QED BY <2>1, <2>2, <2>3, Induction
<1>12. ASSUME NEW x \in ns, Missing(x) PROVE HasEntry(Added(b, names, step), m, v, x)
    <2>1. PICK i \in 1..n : x = names[i]
        BY <1>4 DEF ns, n, Range
    <2>2. n \in Full
        <3>1. n \in 0..n
            BY <1>4 DEF n
        <3> QED BY <3>1, <1>11
    <2>3. H(g[n], names[i])
        BY <2>1, <2>2, <1>12
    <2> QED BY <2>1, <2>3, <1>1, <1>7
<1> QED BY <1>3, <1>10, <1>12 DEF ns, Missing

\* Line i is an entry as import writes it, with the line of its variable.
Imported(lines, i) ==
    /\ lines[i].value = Nothing
    /\ \E x \in Content(lines) :
          /\ Children(lines, i) = {x} /\ Children(lines, x) = {}
          /\ lines[x].key = "env_var_name" /\ lines[x].value = lines[i].key

\* new is old with entries for these names at the end of the block on line k.
Filled(old, k, m, ns, new, f, E) ==
    /\ Text(new) /\ Grown(old, new, f) /\ \A x \in 0..k : f[x] = x
    /\ E \subseteq Content(new)
    /\ \A x \in 0..Len(new) : \/ \E y \in 0..Len(old) : x = f[y]
                              \/ x \in E
                              \/ \E i \in E : x \in Children(new, i)
    /\ \A i \in E : \A y \in 0..Len(old) : i # f[y]
    /\ \A i \in E : /\ Level(new, k, i, m)
                    /\ new[i].key \in ns /\ SecretEntry(new, i) = Own(new[i].key)
                    /\ Imported(new, i)
    /\ \A x \in 1..Len(new) : new[x].kind = "plain" \/ \E y \in 0..Len(old) : x = f[y]

\* The entries of w are among those.
Arrived(w, m, v, ns, new, E) ==
    \A n \in ns : HasEntry(w, m, v, n) => \E i \in E : new[i].key = n

\* Entries put at the end of the secrets: block make it Filled.
LEMMA FilledIs ==
    ASSUME NEW lines, Text(lines), NEW k, k # 0, NEW e, NEW m, NEW v \in Nat, m < v, NEW ns, ns \subseteq Names,
           Region(lines, k, e, m), Lead(lines, k, e, m),
           NEW w, EntriesIn(w, m, v, ns)
    PROVE  LET p == insert_point(lines, k + 1, e, m) IN
           \E E : /\ Filled(lines, k, m, ns, InsertAll(lines, p, w), Moved(lines, p, Len(w)), E)
                  /\ Arrived(w, m, v, ns, InsertAll(lines, p, w), E)
<1> DEFINE p == insert_point(lines, k + 1, e, m)
           new == InsertAll(lines, p, w)
           l == Len(w)
           n == Len(lines)
           f == Moved(lines, p, Len(w))
<1>1. /\ n \in Nat /\ Content(lines) \subseteq 1..n
      /\ \A x : x \in Content(lines) <=> x \in 1..n /\ ~blank_or_comment(lines[x])
      /\ \A x \in 1..n : lines[x].indent \in Nat
    BY TextIs
<1>2. /\ k \in Content(lines) /\ e \in (k + 1)..(n + 1) /\ m \in Nat /\ lines[k].indent < m
      /\ \A x \in Content(lines) : k < x /\ x < e => lines[k].indent < lines[x].indent
    BY DEF Region
<1>3. /\ p \in (k + 1)..e
      /\ \A x \in Content(lines) : k < x /\ x < e => x < p
      /\ Shallower(lines, p, m)
    BY <1>2, InsertPoint
<1> HIDE DEF p
<1>4. p \in 1..(n + 1) /\ k \in 1..n /\ k < p
    BY <1>1, <1>2, <1>3
<1>5. Text(w) /\ l \in Nat
    BY TextIs DEF EntriesIn
<1> DEFINE At(x) == EntryAt(w, x, m, v, ns)
<1>6. \A x : At(x) => /\ x \in 1..l /\ x + 1 \in 1..l
                      /\ ~blank_or_comment(w[x]) /\ ~blank_or_comment(w[x + 1])
                      /\ w[x].indent = m /\ w[x + 1].indent = v
                      /\ w[x].key \in ns /\ w[x + 1].key = "env_var_name" /\ w[x + 1].value = w[x].key
                      /\ w[x].value = Nothing
                      /\ w[x].kind = "plain" /\ w[x + 1].kind = "plain"
    <2> SUFFICES ASSUME NEW x, At(x)
                 PROVE  /\ x \in 1..l /\ x + 1 \in 1..l
                        /\ ~blank_or_comment(w[x]) /\ ~blank_or_comment(w[x + 1])
                        /\ w[x].indent = m /\ w[x + 1].indent = v
                        /\ w[x].key \in ns /\ w[x + 1].key = "env_var_name" /\ w[x + 1].value = w[x].key
                        /\ w[x].value = Nothing
                        /\ w[x].kind = "plain" /\ w[x + 1].kind = "plain"
        OBVIOUS
    <2>1. PICK y \in ns : w[x] = Key(m, y, Nothing) /\ w[x + 1] = Key(v, "env_var_name", y)
        BY DEF EntryAt
    <2>2. y \in Words /\ "env_var_name" \in Words /\ Nothing \in Values /\ y \in Values
        BY DEF Words, Fields, Values
    <2> QED BY <1>2, <2>1, <2>2, KeyLine DEF EntryAt
<1>7. \A x \in 1..l : At(x) \/ At(x - 1)
    BY DEF EntriesIn
<1>8. "env_var_name" \notin ns
    BY EditAssumption DEF Fields
<1> HIDE DEF At
<1>9. \A x \in 1..l : ~blank_or_comment(w[x]) /\ w[x].indent >= m /\ w[x].kind = "plain"
    <2> SUFFICES ASSUME NEW x \in 1..l PROVE ~blank_or_comment(w[x]) /\ w[x].indent >= m /\ w[x].kind = "plain"
        OBVIOUS
    <2>1. CASE At(x)
        BY <2>1, <1>6, <1>2
    <2>2. CASE At(x - 1)
        <3>1. (x - 1) + 1 = x
            BY <1>5
        <3>2. ~blank_or_comment(w[(x - 1) + 1]) /\ w[(x - 1) + 1].indent = v
              /\ w[(x - 1) + 1].kind = "plain"
            BY <2>2, <1>6
        <3> QED BY <3>1, <3>2, <1>2
    <2> QED BY <2>1, <2>2, <1>7
<1>10. Joined(lines, p, w, new)
    BY <1>4, <1>5, InsertIs
<1>11. Content(w) = 1..l
    BY <1>5, <1>9, TextIs
<1>12. Grown(lines, new, f)
    <2>1. \A x \in Content(w) : w[x].indent >= m
        BY <1>9, <1>11
    <2> QED BY <2>1, <1>2, <1>3, <1>4, <1>5, <1>11, InsertGrows
<1>13. \A x \in 0..n : f[x] = IF x < p THEN x ELSE x + l
    BY DEF Moved
<1> HIDE DEF new, f
<1>14. /\ Text(new) /\ Len(new) = n + l
       /\ \A x \in 1..(p - 1) : new[x] = lines[x]
       /\ \A x \in 1..l : new[p - 1 + x] = w[x]
       /\ \A x \in p..n : new[x + l] = lines[x]
    BY <1>10 DEF Joined
<1> HIDE DEF l, n
<1>15. /\ \A x : x \in Content(new) <=> x \in 1..(n + l) /\ ~blank_or_comment(new[x])
       /\ \A x \in 1..(n + l) : new[x].indent \in Nat
    BY <1>14, TextIs
<1> DEFINE E == {p - 1 + x : x \in {y \in 1..l : At(y)}}
<1>16. \A i \in E : /\ i \in 1..(n + l) /\ i >= p /\ i + 1 \in 1..(n + l) /\ i + 1 < p + l
                    /\ At(i - p + 1) /\ new[i] = w[i - p + 1] /\ new[i + 1] = w[(i - p + 1) + 1]
                    /\ i \in Content(new) /\ i + 1 \in Content(new)
                    /\ new[i].indent = m /\ new[i + 1].indent = v
                    /\ new[i].key \in ns /\ new[i + 1].key = "env_var_name" /\ new[i + 1].value = new[i].key
                    /\ new[i].value = Nothing
    <2> SUFFICES ASSUME NEW x \in 1..l, At(x), NEW i, i = p - 1 + x
                 PROVE  /\ i \in 1..(n + l) /\ i >= p /\ i + 1 \in 1..(n + l) /\ i + 1 < p + l
                        /\ At(i - p + 1) /\ new[i] = w[i - p + 1] /\ new[i + 1] = w[(i - p + 1) + 1]
                        /\ i \in Content(new) /\ i + 1 \in Content(new)
                        /\ new[i].indent = m /\ new[i + 1].indent = v
                        /\ new[i].key \in ns /\ new[i + 1].key = "env_var_name" /\ new[i + 1].value = new[i].key
                        /\ new[i].value = Nothing
        OBVIOUS
    <2>1. x + 1 \in 1..l
        BY <1>6
    <2>2. i - p + 1 = x /\ i + 1 = p - 1 + (x + 1) /\ i \in 1..(n + l) /\ i >= p
          /\ i + 1 \in 1..(n + l) /\ i + 1 < p + l
        BY <2>1, <1>1, <1>4, <1>5 DEF l, n
    <2>3. new[i] = w[x] /\ new[i + 1] = w[x + 1]
        <3>1. new[p - 1 + (x + 1)] = w[x + 1]
            BY <2>1, <1>14
        <3>2. new[p - 1 + x] = w[x]
            BY <1>14
        <3> QED BY <3>1, <3>2, <2>2
    <2>4. /\ ~blank_or_comment(w[x]) /\ ~blank_or_comment(w[x + 1])
          /\ w[x].indent = m /\ w[x + 1].indent = v
          /\ w[x].key \in ns /\ w[x + 1].key = "env_var_name" /\ w[x + 1].value = w[x].key
          /\ w[x].value = Nothing
        BY <1>6
    <2> QED BY <2>2, <2>3, <2>4, <1>15
<1>17. \A x \in p..(p - 1 + l) : x \in E \/ x - 1 \in E
    <2> SUFFICES ASSUME NEW x \in p..(p - 1 + l) PROVE x \in E \/ x - 1 \in E
        OBVIOUS
    <2>1. x - p + 1 \in 1..l
        BY <1>4, <1>5 DEF l
    <2>2. CASE At(x - p + 1)
        <3>1. x = p - 1 + (x - p + 1)
            BY <1>4
        <3> QED BY <2>1, <2>2, <3>1
    <2>3. CASE At((x - p + 1) - 1)
        <3>1. (x - p + 1) - 1 \in 1..l
            BY <2>3, <1>6
        <3>2. x - 1 = p - 1 + ((x - p + 1) - 1)
            BY <1>4
        <3> QED BY <2>3, <3>1, <3>2
    <2> QED BY <2>1, <2>2, <2>3, <1>7
<1> HIDE DEF E
<1>18. \A x \in 0..(n + l) : (\E y \in 0..n : x = f[y]) \/ x \in p..(p - 1 + l)
    <2> SUFFICES ASSUME NEW x \in 0..(n + l), x \notin p..(p - 1 + l)
                 PROVE  \E y \in 0..n : x = f[y]
        OBVIOUS
    <2>1. CASE x < p
        <3>1. x \in 0..n /\ f[x] = x
            BY <1>1, <1>4, <1>13, <2>1 DEF n
        <3> QED BY <3>1
    <2>2. CASE x > p - 1 + l
        <3>1. x - l \in 0..n /\ ~(x - l < p) /\ (x - l) + l = x
            BY <1>1, <1>4, <1>5, <2>2 DEF n, l
        <3>2. f[x - l] = (x - l) + l
            BY <3>1, <1>13
        <3> QED BY <3>1, <3>2
    <2> QED BY <2>1, <2>2, <1>1, <1>4, <1>5 DEF l, n
<1>19. \A x \in p..(p - 1 + l), y \in 0..n : x # f[y]
    BY <1>1, <1>4, <1>5, <1>13 DEF l, n
<1>20. \A x \in 0..k : f[x] = x
    BY <1>1, <1>4, <1>13 DEF n
\* After an entry comes another one, or what ends the block.
<1>30. ASSUME NEW i \in E, NEW j \in Content(new), j > i + 1,
              \A x \in Content(new) : i + 1 < x /\ x <= j => new[x].indent > m
       PROVE  FALSE
    <2>1. /\ i \in 1..(n + l) /\ i >= p /\ i + 1 \in 1..(n + l) /\ i + 1 < p + l
          /\ new[i + 1].key = "env_var_name"
        BY <1>16
    <2>2. n \in Nat /\ l \in Nat /\ j \in 1..(n + l)
        BY <1>1, <1>5, <1>15 DEF n, l
    <2>3. CASE i + 1 < p - 1 + l
        <4>1. (i + 1) + 1 \in p..(p - 1 + l) /\ ((i + 1) + 1) - 1 = i + 1
            BY <2>1, <2>2, <2>3, <1>4
        <4>2. (i + 1) + 1 \in E \/ i + 1 \in E
            BY <4>1, <1>17
        <4>3. i + 1 \notin E
            BY <2>1, <1>8, <1>16
        <4>4. (i + 1) + 1 \in Content(new) /\ new[(i + 1) + 1].indent = m
            BY <4>2, <4>3, <1>16
        <4>5. i + 1 < (i + 1) + 1 /\ (i + 1) + 1 <= j
            BY <2>1, <2>2, <1>30
        <4>6. new[(i + 1) + 1].indent > m
            BY <4>4, <4>5, <1>30
        <4> QED BY <4>4, <4>6, <1>2
    <2>4. CASE i + 1 = p - 1 + l
        <4>1. j - l \in p..n /\ (j - l) + l = j
            BY <2>4, <2>2, <1>4, <1>30
        <4>2. new[j] = lines[j - l]
            <5>1. new[(j - l) + l] = lines[j - l]
                BY <4>1, <1>14
            <5> QED BY <5>1, <4>1
        <4>3. j - l \in Content(lines)
            <5>1. j - l \in 1..n
                BY <4>1, <2>2, <1>4
            <5> QED BY <5>1, <4>2, <1>1, <1>15, <1>30 DEF n
        <4>4. PICK x \in Content(lines) : p <= x /\ x <= j - l /\ lines[x].indent < m
            BY <1>3, <4>1, <4>3 DEF Shallower
        <4>5. x \in p..n
            BY <4>4, <1>1, <2>2, <1>4 DEF n
        <4>6. x + l \in 1..(n + l) /\ i + 1 < x + l /\ x + l <= j
            BY <4>4, <4>5, <4>1, <2>4, <2>1, <2>2, <1>4
        <4>7. new[x + l] = lines[x]
            BY <4>5, <1>14
        <4>8. x + l \in Content(new)
            BY <4>4, <4>6, <4>7, <1>1, <1>15 DEF n
        <4>9. new[x + l].indent > m
            BY <4>6, <4>8, <1>30
        <4> QED BY <4>4, <4>5, <4>7, <4>9, <1>1, <1>2, <1>4 DEF n
    <2>5. i + 1 < p - 1 + l \/ i + 1 = p - 1 + l
        BY <2>1, <2>2, <1>4
    <2> QED BY <2>3, <2>4, <2>5
<1>31. ASSUME NEW i \in E, NEW q \in {i, i + 1}, NEW j \in Children(new, q) PROVE j = i + 1
    <2> SUFFICES ASSUME j # i + 1 PROVE FALSE
        OBVIOUS
    <2>1. /\ i \in 1..(n + l) /\ i + 1 \in 1..(n + l) /\ i \in Content(new) /\ i + 1 \in Content(new)
          /\ new[i].indent = m /\ new[i + 1].indent = v
        BY <1>16
    <2>2. q \in 0..Len(new) /\ new[q].indent >= m /\ q # 0 /\ q <= i + 1
        BY <2>1, <1>14, <1>2, <1>1, <1>5 DEF n, l
    <2>3. Below(new, q, j)
        BY <2>2, <1>14, ChildIs, <1>31
    <2>4. /\ j \in Content(new) /\ q < j /\ new[q].indent < new[j].indent
          /\ \A x \in Content(new) : q < x /\ x < j => new[x].indent >= new[j].indent
        BY <2>2, <2>3 DEF Below
    <2>5. j > i + 1 /\ j \in 1..(n + l) /\ new[j].indent > m
        BY <2>1, <2>2, <2>4, <1>2, <1>15
    <2>6. ASSUME NEW x \in Content(new), i + 1 < x, x <= j PROVE new[x].indent > m
        <3>1. x \in 1..(n + l) /\ q < x
            BY <2>1, <2>2, <2>6, <1>15
        <3>2. x = j \/ new[x].indent >= new[j].indent
            BY <2>4, <2>5, <2>6, <3>1
        <3> QED BY <3>1, <3>2, <2>5, <1>2, <1>15
    <2> QED BY <2>4, <2>5, <2>6, <1>30
<1>21. \A i \in E : Children(new, i) = {i + 1} /\ Children(new, i + 1) = {}
    <2> SUFFICES ASSUME NEW i \in E PROVE Children(new, i) = {i + 1} /\ Children(new, i + 1) = {}
        OBVIOUS
    <2>1. /\ i \in 1..(n + l) /\ i >= p /\ i + 1 \in 1..(n + l) /\ i + 1 < p + l
          /\ i + 1 \in Content(new) /\ new[i].indent = m /\ new[i + 1].indent = v
        BY <1>16
    <2>2. i \in 0..Len(new) /\ i + 1 \in 0..Len(new) /\ n \in Nat /\ l \in Nat
        BY <2>1, <1>14, <1>1, <1>5 DEF n, l
    <2>3. i + 1 \in Children(new, i)
        <3>1. \A x \in Content(new) : ~(i < x /\ x < i + 1)
            BY <2>1, <2>2, <1>15
        <3>2. Below(new, i, i + 1)
            BY <2>1, <3>1, <1>2 DEF Below
        <3> QED BY <3>2, <2>2, <1>14, ChildIs
    <2>4. \A j \in Children(new, i + 1) : i + 1 < j
        BY <2>2, <1>14, ChildrenAre
    <2>5. \A j \in Children(new, i) : j = i + 1
        BY <1>31
    <2>6. \A j \in Children(new, i + 1) : j = i + 1
        BY <1>31
    <2> QED BY <2>1, <2>3, <2>4, <2>5, <2>6
<1>22. \A i \in E : SecretEntry(new, i) = Own(new[i].key)
    <2> SUFFICES ASSUME NEW i \in E PROVE SecretEntry(new, i) = Own(new[i].key)
        OBVIOUS
    <2>1. Children(new, i) = {i + 1} /\ new[i + 1].key = "env_var_name" /\ new[i + 1].value = new[i].key
          /\ i + 1 \in Nat
        BY <1>16, <1>21
    <2>2. Lookup(new, i, "key") = 0
        <3>1. {j \in Children(new, i) : new[j].key = "key"} = {}
            BY <2>1
        <3> QED BY <3>1 DEF Lookup
    <2>3. Lookup(new, i, "env_var_name") = i + 1
        <3>1. {j \in Children(new, i) : new[j].key = "env_var_name"} = {i + 1}
            BY <2>1
        <3>2. Min({i + 1}) \in {i + 1}
            BY <2>1, HasMinimum
        <3> QED BY <3>1, <3>2 DEF Lookup
    <2> QED BY <2>1, <2>2, <2>3 DEF SecretEntry, Own
<1>23. ASSUME NEW i \in E PROVE Level(new, k, i, m)
    <2>1. /\ i \in Content(new) /\ i >= p /\ i < p + l /\ i \in 1..(n + l) /\ new[i].indent = m
        BY <1>16, <1>4, <1>5 DEF l
    <2>2. \A x \in 1..(p - 1) : x \in Content(new) <=> x \in Content(lines)
        BY <1>1, <1>4, <1>5, <1>14, <1>15 DEF n, l
    <2>3. k \in Content(new) /\ k < i /\ new[k] = lines[k] /\ lines[k].indent \in Nat
        BY <1>1, <1>2, <1>4, <1>14, <2>1, <2>2 DEF n
    <2>4. ASSUME NEW x \in Content(new), k < x, x < i PROVE lines[k].indent < new[x].indent
        <3>1. x \in 1..(n + l)
            BY <1>15
        <3>2. CASE x < p
            <4>1. x \in 1..(p - 1)
                BY <3>1, <3>2, <1>4
            <4>2. x \in Content(lines) /\ new[x] = lines[x]
                BY <4>1, <2>2, <1>14
            <4>3. x < e
                BY <3>2, <1>3, <1>2, <1>1, <3>1, <1>4
            <4> QED BY <4>2, <4>3, <2>4, <1>2
        <3>3. CASE ~(x < p)
            <4>1. x - p + 1 \in 1..l /\ p - 1 + (x - p + 1) = x
                BY <3>1, <3>3, <2>1, <2>4, <1>4, <1>5 DEF l
            <4>2. new[x] = w[x - p + 1]
                BY <4>1, <1>14
            <4>3. w[x - p + 1].indent >= m
                BY <4>1, <1>9
            <4> QED BY <4>2, <4>3, <1>2, <2>3, <3>1, <1>15
        <3> QED BY <3>2, <3>3
    <2>5. \E h \in Content(new) : /\ k < h /\ h <= i /\ new[h].indent = m
                                  /\ \A x \in Content(new) : k < x => h <= x
        <3>1. CASE \A x \in Content(lines) : ~(k < x /\ x < e)
            <4>1. p \in p..(p - 1 + l) /\ p - 1 \notin E
                BY <2>1, <1>4, <1>5, <1>16 DEF l, n
            <4>2. p \in E
                BY <4>1, <1>17
            <4>3. p \in Content(new) /\ new[p].indent = m
                BY <4>2, <1>16
            <4>4. ASSUME NEW x \in Content(new), k < x, x < p PROVE FALSE
                <5>1. x \in 1..(p - 1)
                    BY <4>4, <1>4, <1>15
                <5>2. x \in Content(lines) /\ x < e
                    BY <5>1, <2>2, <4>4, <1>3, <1>2, <1>4, <1>1
                <5> QED BY <5>2, <3>1, <4>4
            <4>5. \A x \in Content(new) : k < x => p <= x
                BY <4>4, <1>15, <1>4
            <4> QED BY <4>3, <4>5, <1>4, <2>1
        <3>2. ASSUME NEW h \in Content(lines), k < h, h < e, lines[h].indent = m,
                     \A x \in Content(lines) : k < x => h <= x
              PROVE  \E y \in Content(new) : /\ k < y /\ y <= i /\ new[y].indent = m
                                             /\ \A x \in Content(new) : k < x => y <= x
            <4>1. h < p /\ h \in 1..(p - 1)
                BY <3>2, <1>1, <1>3, <1>4
            <4>2. h \in Content(new) /\ new[h].indent = m /\ h <= i
                BY <4>1, <2>1, <2>2, <3>2, <1>14, <1>4
            <4>3. ASSUME NEW x \in Content(new), k < x PROVE h <= x
                <5>0. x \in 1..(n + l)
                    BY <1>15
                <5>1. CASE x < p
                    <6>1. x \in 1..(p - 1)
                        BY <5>0, <5>1, <1>4
                    <6> QED BY <6>1, <2>2, <3>2, <4>3
                <5>2. CASE ~(x < p)
                    BY <5>0, <5>2, <4>1, <1>4
                <5> QED BY <5>1, <5>2
            <4> QED BY <4>2, <4>3, <3>2
        <3>3. m # 0
            BY <1>2, <2>3
        <3> QED BY <3>1, <3>2, <3>3 DEF Lead
    <2> QED BY <2>1, <2>3, <2>4, <2>5, <1>2 DEF Level
<1>24. ASSUME NEW x \in 0..Len(new)
       PROVE  \/ \E y \in 0..Len(lines) : x = f[y]
              \/ x \in E
              \/ \E i \in E : x \in Children(new, i)
    <2>1. CASE x - 1 \in E
        <3>1. (x - 1) + 1 = x
            BY <1>14
        <3>2. x \in Children(new, x - 1)
            BY <2>1, <3>1, <1>21
        <3> QED BY <2>1, <3>2
    <2> QED BY <2>1, <1>14, <1>17, <1>18 DEF n
<1>32. \A i \in E : Imported(new, i)
    BY <1>16, <1>21 DEF Imported
<1>33. ASSUME NEW x \in ns, HasEntry(w, m, v, x) PROVE \E i \in E : new[i].key = x
    <2>1. PICK y : EntryAt(w, y, m, v, {x})
        BY <1>33 DEF HasEntry
    <2>2. At(y) /\ w[y] = Key(m, x, Nothing) /\ y \in 1..l
        BY <2>1 DEF EntryAt, At, l
    <2>3. w[y].key = x
        BY <2>2 DEF Key
    <2>4. p - 1 + y \in E /\ new[p - 1 + y] = w[y]
        BY <2>2, <1>14 DEF E
    <2> QED BY <2>3, <2>4
<1>34. Arrived(w, m, v, ns, new, E)
    BY <1>33 DEF Arrived
<1>25. \A i \in E : i \in p..(p - 1 + l)
    BY <1>16, <1>4, <1>5 DEF l, n
<1>27. ASSUME NEW x \in 1..Len(new) PROVE new[x].kind = "plain" \/ \E y \in 0..Len(lines) : x = f[y]
    <2>1. CASE x \in p..(p - 1 + l)
        <3>1. x - p + 1 \in 1..l /\ p - 1 + (x - p + 1) = x
            BY <2>1, <1>4, <1>5 DEF l
        <3>2. new[x] = w[x - p + 1]
            BY <3>1, <1>14
        <3> QED BY <3>1, <3>2, <1>9
    <2> QED BY <2>1, <1>14, <1>18 DEF n
<1>26. Filled(lines, k, m, ns, new, f, E)
    <2>1. \A i \in E : \A y \in 0..Len(lines) : i # f[y]
        BY <1>19, <1>25 DEF n
    <2> QED BY <2>1, <1>12, <1>14, <1>16, <1>20, <1>22, <1>23, <1>24, <1>27, <1>32 DEF Filled
<1> QED BY <1>26, <1>34 DEF new, f, l, p

\* What is uniform after growing was so before.
LEMMA UniformBack ==
    ASSUME NEW a, NEW b, NEW f, Text(a), Grown(a, b, f), NEW i \in 0..Len(a), Uniform(b, f[i])
    PROVE  Uniform(a, i)
<1>1. Children(a, i) \subseteq 1..Len(a) /\ Len(a) \in Nat
    BY ChildrenAre, TextIs
<1>2. \A j \in Children(a, i) : f[j] \in Children(b, f[i]) /\ b[f[j]] = a[j]
    BY <1>1 DEF Grown
<1> QED BY <1>2 DEF Uniform

\* A child stays a child of the same line.
LEMMA GrownChild ==
    ASSUME NEW a, NEW b, NEW f, Text(a), Grown(a, b, f), NEW i \in 0..Len(a), NEW j \in Children(a, i)
    PROVE  f[j] \in Children(b, f[i]) /\ b[f[j]] = a[j]
<1>1. Children(a, i) \subseteq 1..Len(a) /\ Len(a) \in Nat
    BY ChildrenAre, TextIs
<1> QED BY <1>1 DEF Grown

\* The keys that the edit works below are not in quotes.
NoQuotes(lines, env) == \A i \in Content(lines) : lines[i].key = env => lines[i].kind = "plain"

\* Line x is none of the old lines.
IsNew(old, f, x) == \A y \in 0..Len(old) : x # f[y]

\* new is old with what the edit adds: the path to the entries, as far as it
\* was missing, and the entries.
Edited(old, new, f, k1, k2, k3, E, env, ns) ==
    /\ Text(old) /\ Text(new) /\ Grown(old, new, f)
    /\ k1 \in Children(new, 0) /\ k2 \in Children(new, k1) /\ k3 \in Children(new, k2)
    /\ E \subseteq Children(new, k3)
    /\ new[k1].key = "env" /\ new[k2].key = env /\ new[k3].key = "secrets"
    /\ \A x \in 0..Len(new) : \/ ~IsNew(old, f, x)
                              \/ x \in {k1, k2, k3} \cup E
                              \/ \E i \in E : x \in Children(new, i)
    /\ \A i \in E : /\ IsNew(old, f, i)
                    /\ new[i].key \in ns /\ SecretEntry(new, i) = Own(new[i].key)
    /\ IsNew(old, f, k1) => \A j \in Children(new, 0) : j <= k1
    /\ IsNew(old, f, k2) => \A j \in Children(new, k1) : new[j].key = env => j = k2
    /\ IsNew(old, f, k3) => \A j \in Children(new, k2) : j <= k3

\* Three blocks and the entries make an edit, if the result is uniform.
LEMMA EditedIs ==
    ASSUME NEW a, NEW b, NEW c, NEW d, NEW new, Text(a),
           NEW k1, NEW k2, NEW k3, NEW e1, NEW e2, NEW e3, NEW m1, NEW m2, NEW m3,
           NEW f1, NEW f2, NEW f3, NEW f4, NEW E, NEW env, NEW ns,
           Stage(a, 0, Len(a) + 1, 0, "env", b, k1, f1),
           Region(b, k1, e1, m1), Lead(b, k1, e1, m1), Stage(b, k1, e1, m1, env, c, k2, f2),
           Region(c, k2, e2, m2), Stage(c, k2, e2, m2, "secrets", d, k3, f3),
           Region(d, k3, e3, m3), Filled(d, k3, m3, ns, new, f4, E),
           \A i \in {0} \cup Content(new) : Uniform(new, i), NoQuotes(a, env)
    PROVE  \E f : Edited(a, new, f, k1, k2, k3, E, env, ns)
<1> DEFINE c3 == [i \in 0..Len(c) |-> f4[f3[i]]]
           c2 == [i \in 0..Len(b) |-> c3[f2[i]]]
           c1 == [i \in 0..Len(a) |-> c2[f1[i]]]
<1>1. Text(b) /\ Text(c) /\ Text(d) /\ Text(new)
    BY DEF Stage, Filled
<1>2. Grown(a, b, f1) /\ Grown(b, c, f2) /\ Grown(c, d, f3) /\ Grown(d, new, f4)
    BY DEF Stage, Filled
<1>3. Len(a) \in Nat /\ Len(b) \in Nat /\ Len(c) \in Nat /\ Len(d) \in Nat /\ Len(new) \in Nat
    BY <1>1, TextIs
<1>4. /\ Content(a) \subseteq 1..Len(a) /\ Content(b) \subseteq 1..Len(b) /\ Content(c) \subseteq 1..Len(c)
      /\ Content(d) \subseteq 1..Len(d) /\ Content(new) \subseteq 1..Len(new)
    BY <1>1, TextIs
<1>5. /\ k1 \in Content(b) /\ k2 \in Content(c) /\ k3 \in Content(d) /\ 0 < k1 /\ k1 < k2 /\ k2 < k3
      /\ Level(b, 0, k1, 0) /\ Level(c, k1, k2, m1) /\ Level(d, k2, k3, m2)
    BY DEF Stage, Level
<1>6. k1 \in 0..Len(b) /\ k2 \in 0..Len(c) /\ k3 \in 0..Len(d) /\ k1 \in 0..Len(c) /\ k2 \in 0..Len(d) /\ k1 \in 0..Len(d)
    BY <1>3, <1>4, <1>5
<1>7. f2[k1] = k1 /\ f3[k1] = k1 /\ f3[k2] = k2 /\ f4[k1] = k1 /\ f4[k2] = k2 /\ f4[k3] = k3
    <2>1. (\A x \in 0..k1 : f2[x] = x) /\ (\A x \in 0..k2 : f3[x] = x) /\ \A x \in 0..k3 : f4[x] = x
        BY DEF Stage, Filled
    <2>2. k1 \in 0..k1 /\ k1 \in 0..k2 /\ k2 \in 0..k2 /\ k1 \in 0..k3 /\ k2 \in 0..k3 /\ k3 \in 0..k3
        BY <1>3, <1>5, <1>6
    <2> QED BY <2>1, <2>2
<1>8. Grown(c, new, c3)
    BY <1>1, <1>2, GrownTwice
<1>9. \A i \in 0..Len(c) : c3[i] = f4[f3[i]]
    OBVIOUS
<1> HIDE DEF c3
<1>10. Grown(b, new, c2)
    BY <1>1, <1>2, <1>8, GrownTwice
<1>11. \A i \in 0..Len(b) : c2[i] = c3[f2[i]]
    OBVIOUS
<1> HIDE DEF c2
<1>12. Grown(a, new, c1)
    BY <1>1, <1>2, <1>10, GrownTwice
<1>13. \A i \in 0..Len(a) : c1[i] = c2[f1[i]]
    OBVIOUS
<1> HIDE DEF c1
<1>14. c3[k1] = k1 /\ c3[k2] = k2 /\ c2[k1] = k1 /\ c2[0] = 0
    BY <1>6, <1>7, <1>9, <1>10, <1>11 DEF Grown
<1>15. k1 \in Children(new, 0) /\ new[k1].key = "env"
    <2>1. Uniform(new, 0)
        OBVIOUS
    <2>2. Uniform(b, 0)
        BY <2>1, <1>1, <1>3, <1>10, <1>14, UniformBack
    <2>3. k1 \in Children(b, 0)
        BY <2>2, <1>1, <1>5, LevelChild
    <2>4. c2[k1] \in Children(new, c2[0]) /\ new[c2[k1]] = b[k1]
        BY <2>3, <1>1, <1>3, <1>10, GrownChild
    <2>5. b[k1].key = "env"
        BY DEF Stage
    <2> QED BY <2>4, <2>5, <1>14
<1>16. k2 \in Children(new, k1) /\ new[k2].key = env
    <2>1. k1 \in Content(new)
        BY <1>1, <1>3, <1>15, ChildrenAre
    <2>2. Uniform(new, k1)
        BY <2>1
    <2>3. Uniform(c, k1)
        BY <2>2, <1>1, <1>6, <1>8, <1>14, UniformBack
    <2>4. m1 \in Nat
        BY DEF Region
    <2>5. k2 \in Children(c, k1)
        BY <2>3, <2>4, <1>1, <1>5, LevelChild
    <2>6. c3[k2] \in Children(new, c3[k1]) /\ new[c3[k2]] = c[k2]
        BY <2>5, <1>1, <1>6, <1>8, GrownChild
    <2>7. c[k2].key = env
        BY DEF Stage
    <2> QED BY <2>6, <2>7, <1>14
<1>17. k1 \in 0..Len(new) /\ k2 \in 0..Len(new) /\ k1 \in Content(new) /\ k2 \in Content(new)
    <2>1. k1 \in Content(new)
        BY <1>1, <1>3, <1>15, ChildrenAre
    <2>2. k1 \in 0..Len(new)
        BY <2>1, <1>4
    <2>3. k2 \in Content(new)
        BY <2>2, <1>1, <1>16, ChildrenAre
    <2> QED BY <2>1, <2>2, <2>3, <1>4
<1>18. k3 \in Children(new, k2) /\ new[k3].key = "secrets"
    <2>1. Uniform(new, k2)
        BY <1>17
    <2>2. Uniform(d, k2)
        BY <2>1, <1>1, <1>2, <1>6, <1>7, UniformBack
    <2>3. m2 \in Nat
        BY DEF Region
    <2>4. k3 \in Children(d, k2)
        BY <2>2, <2>3, <1>1, <1>5, LevelChild
    <2>5. f4[k3] \in Children(new, f4[k2]) /\ new[f4[k3]] = d[k3]
        BY <2>4, <1>1, <1>2, <1>6, GrownChild
    <2>6. d[k3].key = "secrets"
        BY DEF Stage
    <2> QED BY <2>5, <2>6, <1>7
<1>19. k3 \in 0..Len(new) /\ k3 \in Content(new)
    <2>1. k3 \in Content(new)
        BY <1>1, <1>17, <1>18, ChildrenAre
    <2> QED BY <2>1, <1>4
<1>20. E \subseteq Children(new, k3)
    <2>1. Uniform(new, k3)
        BY <1>19
    <2>2. m3 \in Nat
        BY DEF Region
    <2>3. \A i \in E : Level(new, k3, i, m3)
        BY DEF Filled
    <2> QED BY <2>1, <2>2, <2>3, <1>1, LevelChild
<1>21. \A i \in E : i \in Content(new) /\ k3 < i
    BY <1>1, <1>19, <1>20, ChildrenAre
\* An old line, or one that was added since.
<1>22. ASSUME NEW x \in 0..Len(new)
       PROVE  \/ \E z \in 0..Len(c) : x = c3[z]
              \/ x = k3 \/ x \in E \/ \E i \in E : x \in Children(new, i)
    <2>1. \/ \E y \in 0..Len(d) : x = f4[y]
          \/ x \in E
          \/ \E i \in E : x \in Children(new, i)
        BY DEF Filled
    <2>2. ASSUME NEW y \in 0..Len(d), x = f4[y] PROVE x = k3 \/ \E z \in 0..Len(c) : x = c3[z]
        <3>1. y = k3 \/ \E z \in 0..Len(c) : y = f3[z]
            BY DEF Stage
        <3> QED BY <2>2, <3>1, <1>7, <1>9
    <2> QED BY <2>1, <2>2
<1>23. ASSUME NEW z \in 0..Len(c) PROVE c3[z] = k2 \/ \E y \in 0..Len(b) : c3[z] = c2[y]
    <2>1. z = k2 \/ \E y \in 0..Len(b) : z = f2[y]
        BY DEF Stage
    <2> QED BY <2>1, <1>11, <1>14
<1>24. ASSUME NEW y \in 0..Len(b) PROVE c2[y] = k1 \/ \E t \in 0..Len(a) : c2[y] = c1[t]
    <2>1. y = k1 \/ \E t \in 0..Len(a) : y = f1[t]
        BY DEF Stage
    <2> QED BY <2>1, <1>13, <1>14
<1>25. ASSUME NEW x \in 0..Len(new)
       PROVE  ~IsNew(a, c1, x) \/ x \in {k1, k2, k3} \cup E \/ \E i \in E : x \in Children(new, i)
    BY <1>22, <1>23, <1>24 DEF IsNew
<1>26. ASSUME NEW i \in E PROVE IsNew(a, c1, i)
    <2>1. \A y \in 0..Len(d) : i # f4[y]
        BY DEF Filled
    <2>2. ASSUME NEW t \in 0..Len(a) PROVE \E y \in 0..Len(d) : c1[t] = f4[y]
        <3>1. f1[t] \in 0..Len(b) /\ f2[f1[t]] \in 0..Len(c) /\ f3[f2[f1[t]]] \in 0..Len(d)
            BY <1>2 DEF Grown
        <3>2. c1[t] = f4[f3[f2[f1[t]]]]
            BY <3>1, <1>9, <1>11, <1>13
        <3> QED BY <3>1, <3>2
    <2> QED BY <2>1, <2>2 DEF IsNew
<1>27. ASSUME NEW p \in {0, k1, k2}, NEW j \in Children(new, p)
       PROVE  /\ j \in 0..Len(new) /\ j \notin E /\ (j = k1 => p = 0) /\ (j = k2 => p = k1) /\ (j = k3 => p = k2)
              /\ \A i \in E : j \notin Children(new, i)
    <2>1. p \in {0} \cup Content(new) /\ p \in 0..Len(new) /\ p < k3
        BY <1>3, <1>5, <1>6, <1>17
    <2>2. j \in 0..Len(new)
        BY <2>1, <1>1, <1>3, ChildrenAre
    <2>3. \A q \in {0} \cup Content(new) : j \in Children(new, q) => p = q
        BY <2>1, <1>1, OneParent
    <2>4. k3 # p /\ \A i \in E : i # p
        BY <2>1, <1>21, <1>3, <1>4, <1>19
    <2> QED BY <2>2, <2>3, <2>4, <1>15, <1>16, <1>17, <1>18, <1>19, <1>20, <1>21
<1>28. ASSUME IsNew(a, c1, k1), NEW j \in Children(new, 0) PROVE j <= k1
    <2>1. CASE j = k1
        BY <2>1, <1>6
    <2>2. CASE j # k1
        <3>1. PICK t \in 0..Len(a) : j = c1[t]
            <4>1. j \in 0..Len(new) /\ j # k2 /\ j # k3 /\ j \notin E /\ \A i \in E : j \notin Children(new, i)
                BY <1>5, <1>6, <1>27
            <4>2. ~IsNew(a, c1, j)
                BY <2>2, <4>1, <1>25
            <4> QED BY <4>2 DEF IsNew
        <3>2. t \in Children(a, 0)
            BY <3>1, <1>3, <1>12 DEF Grown
        <3>3. t \in Content(a) /\ 0 < t /\ t < Len(a) + 1
            BY <3>2, <1>3, <1>4, ChildrenAre
        <3>4. \A y \in 0..Len(a) : k1 # f1[y]
            BY <1>28, <1>13, <1>14 DEF IsNew
        <3>5. f1[t] < k1
            BY <3>3, <3>4 DEF Stage
        <3>6. f1[t] \in 0..Len(b)
            BY <1>2 DEF Grown
        <3>7. c2[f1[t]] < c2[k1]
            BY <3>5, <3>6, <1>6, <1>10 DEF Grown
        <3> QED BY <3>1, <3>7, <1>13, <1>14, <1>15, <1>27, <1>17
    <2> QED BY <2>1, <2>2
<1>29. ASSUME IsNew(a, c1, k2), NEW j \in Children(new, k1), new[j].key = env PROVE j = k2
    <2> SUFFICES ASSUME j # k2 PROVE FALSE
        OBVIOUS
    <2>1. PICK z \in 0..Len(c) : j = c3[z]
        <3>1. j \in 0..Len(new) /\ j # k3 /\ j \notin E /\ \A i \in E : j \notin Children(new, i)
            BY <1>5, <1>6, <1>27
        <3> QED BY <3>1, <1>22
    <2>2. PICK u \in 0..Len(b) : j = c2[u]
        BY <2>1, <1>23
    <2>3. u \in Children(b, k1)
        BY <2>2, <1>6, <1>10, <1>14 DEF Grown
    <2>4. u \in Content(b) /\ u \in 1..Len(b) /\ k1 < u /\ u < e1
        BY <2>3, <1>1, <1>6, ChildrenAre, RegionChildren
    <2>5. new[j] = b[u]
        BY <2>2, <2>4, <1>10 DEF Grown
    <2>6. Uniform(b, k1)
        BY <1>1, <1>6, <1>10, <1>14, <1>17, UniformBack
    <2>7. m1 # 0
        <3>1. b[k1].indent \in Nat /\ b[k1].indent < m1
            <4>1. \A x \in 1..Len(b) : b[x].indent \in Nat
                BY <1>1, TextIs
            <4>2. b[k1].indent < m1
                BY <1>5 DEF Region
            <4> QED BY <4>1, <4>2, <1>4, <1>5
        <3> QED BY <3>1
    <2>8. b[u].indent = m1
        BY <2>3, <2>6, <2>7, <1>1, LeadChildren
    <2>9. PICK t \in 0..Len(a) : u = f1[t]
        BY <2>4, <1>6 DEF Stage
    <2>10. t \in 1..Len(a) /\ b[u] = a[t]
        BY <2>4, <2>9, <1>2, <1>3 DEF Grown
    <2>11. b[u].kind = "plain"
        <3>1. ~blank_or_comment(a[t])
            BY <2>4, <2>10, <1>1, TextIs
        <3>2. t \in Content(a)
            BY <3>1, <2>10, TextIs
        <3> QED BY <3>2, <2>5, <2>10, <1>29 DEF NoQuotes
    <2>12. \A y \in 0..Len(b) : k2 # f2[y]
        <3> SUFFICES ASSUME NEW y \in 0..Len(b), k2 = f2[y] PROVE FALSE
            OBVIOUS
        <3>1. y # k1
            BY <1>5, <1>6, <1>7
        <3>2. PICK s \in 0..Len(a) : y = f1[s]
            BY <3>1 DEF Stage
        <3>3. c1[s] = k2
            BY <3>2, <1>11, <1>13, <1>14
        <3> QED BY <3>3, <1>29 DEF IsNew
    <2>13. ~(b[u].kind = "plain" /\ b[u].indent = m1 /\ b[u].key = env)
        BY <2>4, <2>12 DEF Stage
    <2> QED BY <2>5, <2>8, <2>11, <2>13, <1>29
<1>30. ASSUME IsNew(a, c1, k3), NEW j \in Children(new, k2) PROVE j <= k3
    <2>1. CASE j = k3
        BY <2>1, <1>6
    <2>2. CASE j # k3
        <3>1. PICK z \in 0..Len(c) : j = c3[z]
            BY <2>2, <1>22, <1>27
        <3>2. z \in Children(c, k2)
            BY <3>1, <1>6, <1>8, <1>14 DEF Grown
        <3>3. z \in Content(c) /\ k2 < z /\ z < e2
            BY <3>2, <1>1, <1>6, ChildrenAre, RegionChildren
        <3>4. \A y \in 0..Len(c) : k3 # f3[y]
            <4> SUFFICES ASSUME NEW y \in 0..Len(c), k3 = f3[y] PROVE FALSE
                OBVIOUS
            <4>1. y # k2
                BY <1>5, <1>6, <1>7
            <4>2. PICK u \in 0..Len(b) : y = f2[u]
                BY <4>1 DEF Stage
            <4>3. u # k1
                <5>1. f3[f2[k1]] = k1
                    BY <1>7
                <5> QED BY <5>1, <4>2, <1>5, <1>6
            <4>4. PICK t \in 0..Len(a) : u = f1[t]
                BY <4>3 DEF Stage
            <4>5. c1[t] = k3
                BY <4>2, <4>4, <1>7, <1>9, <1>11, <1>13
            <4> QED BY <4>5, <1>30 DEF IsNew
        <3>5. f3[z] < k3
            BY <3>3, <3>4 DEF Stage
        <3>6. f3[z] \in 0..Len(d)
            BY <1>2 DEF Grown
        <3>7. f4[f3[z]] < f4[k3]
            BY <3>5, <3>6, <1>6, <1>2 DEF Grown
        <3> QED BY <3>1, <3>7, <1>9, <1>7, <1>27, <1>19
    <2> QED BY <2>1, <2>2
<1>31. \A i \in E : new[i].key \in ns /\ SecretEntry(new, i) = Own(new[i].key)
    BY DEF Filled
<1>32. Edited(a, new, c1, k1, k2, k3, E, env, ns)
    BY <1>1, <1>12, <1>15, <1>16, <1>18, <1>20, <1>25, <1>26, <1>28, <1>29, <1>30, <1>31 DEF Edited
<1> QED BY <1>32

-----------------------------------------------------------------------------
(* What the edited text means.                                             *)

\* The least element is the minimum.
LEMMA MinimumIs ==
    ASSUME NEW S \in SUBSET Nat, NEW a \in S, \A x \in S : a =< x
    PROVE  Min(S) = a
<1>1. Min(S) \in S /\ Min(S) =< a
    BY HasMinimum
<1>2. a =< Min(S)
    BY <1>1
<1>3. Min(S) \in Nat /\ a \in Nat
    BY <1>1
<1> QED BY <1>1, <1>2, <1>3

\* The greatest element is the maximum.
LEMMA MaximumIs ==
    ASSUME NEW n \in Nat, NEW S \in SUBSET (0..n), NEW a \in S, \A x \in S : x =< a
    PROVE  Max(S) = a
<1>1. Max(S) \in S /\ a =< Max(S)
    BY HasMaximum
<1>2. Max(S) =< a
    BY <1>1
<1>3. Max(S) \in Nat /\ a \in Nat
    <2>1. \A x \in 0..n : x \in Nat
        OBVIOUS
    <2> QED BY <1>1, <2>1
<1> QED BY <1>1, <1>2, <1>3

\* Lookup finds the first child with the key.
LEMMA LookupIs ==
    ASSUME NEW lines, Text(lines), NEW i \in 0..Len(lines), NEW key
    PROVE  /\ Lookup(lines, i, key) # 0 =>
                  /\ Lookup(lines, i, key) \in Children(lines, i)
                  /\ lines[Lookup(lines, i, key)].key = key
                  /\ \A j \in Children(lines, i) : lines[j].key = key => Lookup(lines, i, key) =< j
           /\ Lookup(lines, i, key) = 0 => \A j \in Children(lines, i) : lines[j].key # key
<1> DEFINE S == {j \in Children(lines, i) : lines[j].key = key}
           m == Lookup(lines, i, key)
<1>1. m = IF S = {} THEN 0 ELSE Min(S)
    BY DEF Lookup
<1>2. Children(lines, i) \subseteq 1..Len(lines) /\ Len(lines) \in Nat
    BY ChildrenAre, TextIs
<1>3. S # {} => m \in S /\ \A x \in S : m =< x
    <2>1. S \in SUBSET Nat
        BY <1>2
    <2> QED BY <2>1, <1>1, HasMinimum
<1> HIDE DEF m
<1>4. S # {} => m # 0
    BY <1>2, <1>3
<1> QED BY <1>1, <1>3, <1>4 DEF m

\* Where an added line is.
LEMMA AddedLine ==
    ASSUME NEW old, NEW new, NEW f, NEW k1, NEW k2, NEW k3, NEW E, NEW env, NEW ns,
           Edited(old, new, f, k1, k2, k3, E, env, ns),
           NEW p \in {0} \cup Content(new), NEW x \in Children(new, p), IsNew(old, f, x), p \notin E
    PROVE  \/ p = 0 /\ x = k1
           \/ p = k1 /\ x = k2
           \/ p = k2 /\ x = k3
           \/ p = k3 /\ x \in E
<1>1. Text(new) /\ k1 \in Children(new, 0) /\ k2 \in Children(new, k1) /\ k3 \in Children(new, k2)
      /\ E \subseteq Children(new, k3)
    BY DEF Edited
<1>2. Len(new) \in Nat /\ Content(new) \subseteq 1..Len(new)
    BY <1>1, TextIs
<1>3. k1 \in Content(new) /\ k2 \in Content(new) /\ k3 \in Content(new) /\ E \subseteq Content(new)
    <2>1. \A i \in {0} \cup Content(new) : Children(new, i) \subseteq Content(new)
        BY <1>1, <1>2, ChildrenAre
    <2>2. k1 \in Content(new)
        BY <1>1, <2>1
    <2>3. k2 \in Content(new)
        BY <1>1, <2>1, <2>2
    <2>4. k3 \in Content(new)
        BY <1>1, <2>1, <2>3
    <2> QED BY <1>1, <2>1, <2>2, <2>3, <2>4
<1>4. x \in 0..Len(new)
    BY <1>1, <1>2, ChildrenAre
<1>5. x \in {k1, k2, k3} \cup E \/ \E i \in E : x \in Children(new, i)
    BY <1>4 DEF Edited
<1>6. \A q \in {0} \cup Content(new) : x \in Children(new, q) => p = q
    BY <1>1, OneParent
<1> QED BY <1>1, <1>3, <1>5, <1>6

\* The path to an entry leads through the lines that the edit works on or
\* past all of them.
LEMMA Path ==
    ASSUME NEW old, NEW new, NEW f, NEW k1, NEW k2, NEW k3, NEW E, NEW env, NEW ns,
           Edited(old, new, f, k1, k2, k3, E, env, ns),
           NEW x1 \in Children(new, 0), NEW x2 \in Children(new, x1)
    PROVE  /\ x1 \in Content(new) /\ x1 # k2 /\ x1 # k3
           /\ x2 \in Content(new) /\ x2 # k1 /\ x2 # k3 /\ (x2 = k2 => x1 = k1)
           /\ \A x3 \in Children(new, x2) :
                  /\ x3 \in Content(new) /\ x3 # k1 /\ x3 # k2 /\ (x3 = k3 => x2 = k2)
                  /\ \A x4 \in Children(new, x3) : x4 # k1 /\ x4 # k2 /\ x4 # k3
<1>1. Text(new) /\ k1 \in Children(new, 0) /\ k2 \in Children(new, k1) /\ k3 \in Children(new, k2)
    BY DEF Edited
<1>2. Len(new) \in Nat /\ Content(new) \subseteq 1..Len(new)
    BY <1>1, TextIs
<1>3. \A i \in {0} \cup Content(new) : Children(new, i) \subseteq Content(new)
    BY <1>1, <1>2, ChildrenAre
<1>4. k1 \in Content(new) /\ x1 \in Content(new)
    BY <1>1, <1>3
<1>5. k2 \in Content(new) /\ x2 \in Content(new)
    BY <1>1, <1>3, <1>4
<1>6. k3 \in Content(new)
    BY <1>1, <1>3, <1>5
<1>7. \A p, q \in {0} \cup Content(new) : \A x \in Children(new, p) : x \in Children(new, q) => p = q
    BY <1>1, OneParent
<1>8. 0 \notin Content(new)
    BY <1>2
<1>9. x1 # k2 /\ x1 # k3
    <2>1. x1 # k2
        BY <1>1, <1>4, <1>7, <1>8
    <2>2. x1 # k3
        BY <1>1, <1>5, <1>7, <1>8
    <2> QED BY <2>1, <2>2
<1>10. x2 # k1 /\ x2 # k3 /\ (x2 = k2 => x1 = k1)
    <2>1. x2 # k1
        BY <1>1, <1>4, <1>7, <1>8
    <2>2. x2 # k3
        BY <1>1, <1>4, <1>5, <1>7, <1>9
    <2>3. x2 = k2 => x1 = k1
        BY <1>1, <1>4, <1>7
    <2> QED BY <2>1, <2>2, <2>3
<1>11. ASSUME NEW x3 \in Children(new, x2)
       PROVE  /\ x3 \in Content(new) /\ x3 # k1 /\ x3 # k2 /\ (x3 = k3 => x2 = k2)
              /\ \A x4 \in Children(new, x3) : x4 # k1 /\ x4 # k2 /\ x4 # k3
    <2>1. x3 \in Content(new) /\ x3 # k1
        BY <1>1, <1>3, <1>5, <1>7, <1>8
    <2>2. x3 # k2
        BY <1>1, <1>4, <1>5, <1>7, <1>10
    <2>3. x3 = k3 => x2 = k2
        BY <1>1, <1>5, <1>7
    <2>4. ASSUME NEW x4 \in Children(new, x3) PROVE x4 # k1 /\ x4 # k2 /\ x4 # k3
        <3>1. x4 # k1
            BY <1>1, <2>1, <1>7, <1>8
        <3>2. x4 # k2
            BY <1>1, <1>4, <2>1, <1>7
        <3>3. x4 # k3
            BY <1>1, <1>5, <2>1, <2>2, <1>7
        <3> QED BY <3>1, <3>2, <3>3
    <2> QED BY <2>1, <2>2, <2>3, <2>4
<1> QED BY <1>4, <1>5, <1>9, <1>10, <1>11

\* The old lines.
LEMMA OldLine ==
    ASSUME NEW old, NEW new, NEW f, NEW k1, NEW k2, NEW k3, NEW E, NEW env, NEW ns,
           Edited(old, new, f, k1, k2, k3, E, env, ns), NEW i \in {0} \cup Content(old)
    PROVE  /\ i \in 0..Len(old) /\ f[i] \in 0..Len(new) /\ f[i] \in {0} \cup Content(new) /\ f[i] \notin E
           /\ (f[i] = 0 <=> i = 0) /\ (i # 0 => new[f[i]] = old[i]) /\ ~IsNew(old, f, f[i])
           /\ Children(old, i) \subseteq Content(old)
           /\ \A j \in Children(old, i) : f[j] \in Children(new, f[i]) /\ new[f[j]] = old[j]
           /\ \A x \in Children(new, f[i]) :
                  IsNew(old, f, x) \/ \E j \in Children(old, i) : x = f[j]
<1>1. Text(old) /\ Text(new) /\ Grown(old, new, f)
    BY DEF Edited
<1>2. Len(old) \in Nat /\ Content(old) \subseteq 1..Len(old) /\ Len(new) \in Nat
      /\ (\A x : x \in Content(new) <=> x \in 1..Len(new) /\ ~blank_or_comment(new[x]))
      /\ \A x : x \in Content(old) <=> x \in 1..Len(old) /\ ~blank_or_comment(old[x])
    BY <1>1, TextIs
<1>3. i \in 0..Len(old)
    BY <1>2
<1>4. /\ f \in [0..Len(old) -> 0..Len(new)] /\ f[0] = 0
      /\ \A x, y \in 0..Len(old) : x < y => f[x] < f[y]
      /\ \A x \in 1..Len(old) : new[f[x]] = old[x]
      /\ \A x, y \in 0..Len(old) : y \in Children(old, x) <=> f[y] \in Children(new, f[x])
    BY <1>1 DEF Grown
<1>5. f[i] \in 0..Len(new) /\ (i # 0 => i \in 1..Len(old) /\ new[f[i]] = old[i] /\ f[i] > 0)
    BY <1>2, <1>3, <1>4
<1>6. f[i] \in {0} \cup Content(new)
    BY <1>2, <1>4, <1>5
<1>7. ~IsNew(old, f, f[i])
    BY <1>3 DEF IsNew
<1>8. f[i] \notin E
    BY <1>7 DEF Edited
<1>9. Children(old, i) \subseteq Content(old) /\ Children(old, i) \subseteq 1..Len(old)
    BY <1>1, <1>3, ChildrenAre
<1>10. \A j \in Children(old, i) : f[j] \in Children(new, f[i]) /\ new[f[j]] = old[j]
    BY <1>3, <1>4, <1>9
<1>11. \A x \in Children(new, f[i]) : IsNew(old, f, x) \/ \E j \in Children(old, i) : x = f[j]
    BY <1>3, <1>4 DEF IsNew
<1> QED BY <1>2, <1>3, <1>4, <1>5, <1>6, <1>7, <1>8, <1>9, <1>10, <1>11

\* An added line is found only where there was none.
LEMMA LookupOld ==
    ASSUME NEW old, NEW new, NEW f, NEW k1, NEW k2, NEW k3, NEW E, NEW env, NEW ns,
           Edited(old, new, f, k1, k2, k3, E, env, ns), NEW i \in {0} \cup Content(old), NEW key,
           \A x \in Children(new, f[i]) : IsNew(old, f, x) /\ new[x].key = key =>
               Lookup(old, i, key) # 0 /\ \A j \in Children(new, f[i]) : j <= x
    PROVE  Lookup(new, f[i], key) = f[Lookup(old, i, key)]
<1> DEFINE a == Lookup(old, i, key)
           S == {j \in Children(new, f[i]) : new[j].key = key}
<1>1. Text(old) /\ Text(new) /\ Grown(old, new, f)
    BY DEF Edited
<1>2. /\ i \in 0..Len(old) /\ f[i] \in 0..Len(new)
      /\ Children(old, i) \subseteq Content(old)
      /\ \A j \in Children(old, i) : f[j] \in Children(new, f[i]) /\ new[f[j]] = old[j]
      /\ \A x \in Children(new, f[i]) : IsNew(old, f, x) \/ \E j \in Children(old, i) : x = f[j]
    BY OldLine
<1>3. Lookup(new, f[i], key) = IF S = {} THEN 0 ELSE Min(S)
    BY DEF Lookup
<1>4. /\ a # 0 => /\ a \in Children(old, i) /\ old[a].key = key
                  /\ \A j \in Children(old, i) : old[j].key = key => a =< j
      /\ a = 0 => \A j \in Children(old, i) : old[j].key # key
    BY <1>1, <1>2, LookupIs
<1> HIDE DEF a
<1>5. CASE a = 0
    <2>1. S = {}
        BY <1>2, <1>4, <1>5 DEF a
    <2> QED BY <2>1, <1>3, <1>5, <1>1 DEF a, Grown
<1>6. CASE a # 0
    <2>1. f[a] \in S
        BY <1>2, <1>4, <1>6
    <2>2. Children(new, f[i]) \subseteq 1..Len(new) /\ Len(new) \in Nat /\ Children(old, i) \subseteq 1..Len(old) /\ Len(old) \in Nat
        BY <1>1, <1>2, ChildrenAre, TextIs
    <2>3. \A x, y \in 0..Len(old) : x =< y => f[x] =< f[y]
        BY <1>1, <2>2 DEF Grown
    <2>4. ASSUME NEW x \in S PROVE f[a] =< x
        <3>1. CASE IsNew(old, f, x)
            BY <2>1, <2>4, <3>1
        <3>2. ASSUME NEW j \in Children(old, i), x = f[j] PROVE f[a] =< x
            <4>1. a =< j
                BY <3>2, <1>2, <1>4, <1>6
            <4> QED BY <4>1, <3>2, <2>2, <2>3, <1>4, <1>6
        <3> QED BY <3>1, <3>2, <1>2
    <2>5. S \in SUBSET Nat
        BY <2>2
    <2>6. Min(S) = f[a]
        BY <2>1, <2>4, <2>5, MinimumIs
    <2> QED BY <2>1, <2>6, <1>3 DEF a
<1> QED BY <1>5, <1>6

\* Every entry names its variable.
Named(lines) ==
    \A e \in EnvLines(lines) : Lookup(lines, e, "secrets") # 0 =>
        \A i \in EntryLines(lines, e) : Lookup(lines, i, "env_var_name") # 0

\* Below a line that the edit does not work on nothing is added.
LEMMA NothingAdded ==
    ASSUME NEW old, NEW new, NEW f, NEW k1, NEW k2, NEW k3, NEW E, NEW env, NEW ns,
           Edited(old, new, f, k1, k2, k3, E, env, ns), NEW i \in Content(old),
           f[i] \notin {k1, k2, k3}
    PROVE  \A x \in Children(new, f[i]) : ~IsNew(old, f, x)
<1>0. i \in {0} \cup Content(old)
    OBVIOUS
<1>1. f[i] \in {0} \cup Content(new) /\ f[i] \notin E /\ (f[i] = 0 <=> i = 0)
    BY <1>0, OldLine
<1>2. i # 0
    <2>1. Text(old)
        BY DEF Edited
    <2>2. Content(old) \subseteq 1..Len(old) /\ Len(old) \in Nat
        BY <2>1, TextIs
    <2> QED BY <2>2
<1>3. f[i] # 0
    BY <1>1, <1>2
<1> SUFFICES ASSUME NEW x \in Children(new, f[i]), IsNew(old, f, x) PROVE FALSE
    OBVIOUS
<1>4. \/ f[i] = 0 /\ x = k1
      \/ f[i] = k1 /\ x = k2
      \/ f[i] = k2 /\ x = k3
      \/ f[i] = k3 /\ x \in E
    <2> DEFINE p == f[i]
    <2>1. p \in {0} \cup Content(new) /\ p \notin E /\ x \in Children(new, p)
        BY <1>1
    <2> HIDE DEF p
    <2>2. \/ p = 0 /\ x = k1
          \/ p = k1 /\ x = k2
          \/ p = k2 /\ x = k3
          \/ p = k3 /\ x \in E
        BY <2>1, AddedLine
    <2> QED BY <2>2 DEF p
<1> QED BY <1>3, <1>4

\* Below a line the edit does not work on, lookups find what they found.
LEMMA LookupBeside ==
    ASSUME NEW old, NEW new, NEW f, NEW k1, NEW k2, NEW k3, NEW E, NEW env, NEW ns,
           Edited(old, new, f, k1, k2, k3, E, env, ns), NEW i \in Content(old),
           f[i] \notin {k1, k2, k3}, NEW key
    PROVE  Lookup(new, f[i], key) = f[Lookup(old, i, key)]
<1>1. \A x \in Children(new, f[i]) : ~IsNew(old, f, x)
    BY NothingAdded
<1>2. i \in {0} \cup Content(old)
    OBVIOUS
<1>3. \A x \in Children(new, f[i]) : IsNew(old, f, x) /\ new[x].key = key =>
          Lookup(old, i, key) # 0 /\ \A j \in Children(new, f[i]) : j <= x
    BY <1>1
<1> QED BY <1>2, <1>3, LookupOld

\* An old entry reads as before.
LEMMA EntryBeside ==
    ASSUME NEW old, NEW new, NEW f, NEW k1, NEW k2, NEW k3, NEW E, NEW env, NEW ns,
           Edited(old, new, f, k1, k2, k3, E, env, ns), NEW i \in Content(old),
           f[i] \notin {k1, k2, k3}, Lookup(old, i, "env_var_name") # 0
    PROVE  SecretEntry(new, f[i]) = SecretEntry(old, i)
<1> DEFINE v == Lookup(old, i, "env_var_name")
           k == Lookup(old, i, "key")
<1>1. Text(old)
    BY DEF Edited
<1>2. Content(old) \subseteq 1..Len(old) /\ Len(old) \in Nat
    BY <1>1, TextIs
<1>0. i \in {0} \cup Content(old)
    OBVIOUS
<1>3. /\ i \in 0..Len(old) /\ (i # 0 => new[f[i]] = old[i])
      /\ Children(old, i) \subseteq Content(old)
      /\ \A j \in Children(old, i) : f[j] \in Children(new, f[i]) /\ new[f[j]] = old[j]
    BY <1>0, OldLine
<1>4. i # 0 /\ new[f[i]] = old[i]
    BY <1>2, <1>3
<1>5. Lookup(new, f[i], "env_var_name") = f[v] /\ Lookup(new, f[i], "key") = f[k]
    BY LookupBeside
<1>6. v \in Children(old, i) /\ (k # 0 => k \in Children(old, i))
    BY <1>1, <1>3, LookupIs
<1> HIDE DEF v, k
<1>7. new[f[v]] = old[v] /\ (k # 0 => new[f[k]] = old[k])
    BY <1>3, <1>6
<1>8. f[k] = 0 <=> k = 0
    <2>1. k \in {0} \cup Content(old)
        BY <1>3, <1>6
    <2> QED BY <2>1, OldLine
<1> QED BY <1>4, <1>5, <1>7, <1>8 DEF SecretEntry, v, k

\* What an added block holds.
AddedEntries(new, E) == {SecretEntry(new, i) : i \in E}

\* A secrets: line that was added holds the added entries.
LEMMA NewSecrets ==
    ASSUME NEW old, NEW new, NEW f, NEW k1, NEW k2, NEW k3, NEW E, NEW env, NEW ns,
           Edited(old, new, f, k1, k2, k3, E, env, ns), IsNew(old, f, k3)
    PROVE  Children(new, k3) = E
<1>1. Text(new) /\ k1 \in Children(new, 0) /\ k2 \in Children(new, k1) /\ k3 \in Children(new, k2)
      /\ E \subseteq Children(new, k3) /\ Grown(old, new, f)
    BY DEF Edited
<1>2. k1 \in Content(new) /\ k2 \in Content(new) /\ k3 \in Content(new)
      /\ k3 # k1 /\ k3 # k2
    BY <1>1, Path
<1>3. Len(new) \in Nat /\ Content(new) \subseteq 1..Len(new)
    BY <1>1, TextIs
<1>4. k3 \notin E
    <2>1. k3 \in 0..Len(new)
        BY <1>2, <1>3
    <2>2. \A x \in Children(new, k3) : k3 < x
        BY <2>1, <1>1, ChildrenAre
    <2> QED BY <2>1, <2>2, <1>1, <1>3
<1>5. ASSUME NEW x \in Children(new, k3) PROVE x \in E
    <2>1. IsNew(old, f, x)
        <3>1. k3 \in 0..Len(new)
            BY <1>2, <1>3
        <3>2. \A i \in 0..Len(old) : f[i] \notin Children(new, k3)
            BY <1>1, <3>1 DEF Grown, IsNew
        <3> QED BY <3>2 DEF IsNew
    <2>2. k3 # 0
        BY <1>2, <1>3
    <2>3. k3 \in {0} \cup Content(new)
        BY <1>2
    <2>4. \/ k3 = 0 /\ x = k1
          \/ k3 = k1 /\ x = k2
          \/ k3 = k2 /\ x = k3
          \/ k3 = k3 /\ x \in E
        BY <2>1, <2>3, <1>4, AddedLine
    <2> QED BY <2>2, <2>4, <1>2
<1> QED BY <1>1, <1>5

\* An environment that was added holds the added entries and no variable.
LEMMA NewEnv ==
    ASSUME NEW old, NEW new, NEW f, NEW k1, NEW k2, NEW k3, NEW E, NEW env, NEW ns,
           Edited(old, new, f, k1, k2, k3, E, env, ns), IsNew(old, f, k2)
    PROVE  Secrets(new, k2) = AddedEntries(new, E) /\ Vars(new, k2) = {}
<1>1. Text(new) /\ k1 \in Children(new, 0) /\ k2 \in Children(new, k1) /\ k3 \in Children(new, k2)
      /\ new[k3].key = "secrets" /\ Grown(old, new, f) /\ \A i \in E : i \in Children(new, k3)
    BY DEF Edited
<1>2. k1 \in Content(new) /\ k2 \in Content(new) /\ k3 \in Content(new)
      /\ k2 # k1 /\ k2 # k3
    BY <1>1, Path
<1>3. Len(new) \in Nat /\ Content(new) \subseteq 1..Len(new)
    BY <1>1, TextIs
<1>4. k2 \in 0..Len(new) /\ k2 # 0 /\ k3 # 0 /\ k3 \in 0..Len(new)
    BY <1>2, <1>3
<1>5. \A i \in 0..Len(old) : f[i] \notin Children(new, k2)
    BY <1>1, <1>4 DEF Grown, IsNew
<1>6. k2 \notin E
    <2>1. k2 < k3 /\ \A x \in Children(new, k3) : k3 < x
        BY <1>1, <1>4, ChildrenAre
    <2> QED BY <2>1, <1>1, <1>3, <1>2
<1>7. Children(new, k2) = {k3}
    <2>1. ASSUME NEW x \in Children(new, k2) PROVE x = k3
        <3>1. IsNew(old, f, x)
            BY <1>5 DEF IsNew
        <3> QED BY <3>1, <1>2, <1>4, <1>6, AddedLine
    <2> QED BY <2>1, <1>1
<1>8. IsNew(old, f, k3)
    BY <1>1, <1>5 DEF IsNew
<1>9. Children(new, k3) = E
    BY <1>8, NewSecrets
<1>10. Lookup(new, k2, "vars") = 0 /\ Lookup(new, k2, "secrets") = k3
    BY <1>1, <1>4, <1>7, LookupIs
<1> QED BY <1>4, <1>9, <1>10 DEF Secrets, Vars, EntryLines, AddedEntries

\* The same for old lines.
LEMMA OldPath ==
    ASSUME NEW old, NEW new, NEW f, NEW k1, NEW k2, NEW k3, NEW E, NEW env, NEW ns,
           Edited(old, new, f, k1, k2, k3, E, env, ns),
           NEW d \in Children(old, 0), NEW e \in Children(old, d)
    PROVE  /\ d \in Content(old) /\ f[d] \in Children(new, 0)
           /\ e \in Content(old) /\ e \in {0} \cup Content(old) /\ f[e] \in Children(new, f[d])
           /\ f[e] \in Content(new) /\ f[e] # 0 /\ f[e] # k1 /\ f[e] # k3 /\ (f[e] = k2 => f[d] = k1)
           /\ \A v \in Children(old, e) :
                  /\ v \in Content(old) /\ v \in {0} \cup Content(old)
                  /\ f[v] \in Children(new, f[e]) /\ new[f[v]] = old[v]
                  /\ f[v] \in Content(new) /\ f[v] # 0 /\ f[v] # k1 /\ f[v] # k2 /\ (f[v] = k3 => f[e] = k2)
                  /\ \A x \in Children(new, f[v]) : x # k1 /\ x # k2 /\ x # k3
<1>1. Text(old) /\ Text(new) /\ f[0] = 0
    BY DEF Edited, Grown
<1>2. 0 \notin Content(new) /\ 0 \in {0} \cup Content(old)
    BY <1>1, TextIs
<1>3. d \in Content(old) /\ d \in {0} \cup Content(old) /\ f[d] \in Children(new, 0)
    BY <1>1, <1>2, OldLine
<1>4. e \in Content(old) /\ e \in {0} \cup Content(old) /\ f[e] \in Children(new, f[d])
    BY <1>3, OldLine
<1>5. \A v \in Children(old, e) : /\ v \in Content(old) /\ f[v] \in Children(new, f[e]) /\ new[f[v]] = old[v]
    BY <1>4, OldLine
<1> DEFINE x1 == f[d]
           x2 == f[e]
<1>6. x1 \in Children(new, 0) /\ x2 \in Children(new, x1)
    BY <1>3, <1>4
<1>7. \A v \in Children(old, e) : f[v] \in Children(new, x2)
    BY <1>5
<1> HIDE DEF x1, x2
<1>8. /\ x2 \in Content(new) /\ x2 # k1 /\ x2 # k3 /\ (x2 = k2 => x1 = k1)
      /\ \A x3 \in Children(new, x2) :
            /\ x3 \in Content(new) /\ x3 # k1 /\ x3 # k2 /\ (x3 = k3 => x2 = k2)
            /\ \A x4 \in Children(new, x3) : x4 # k1 /\ x4 # k2 /\ x4 # k3
    BY <1>6, Path
<1>9. \A v \in Children(old, e) :
         /\ f[v] \in Content(new) /\ f[v] # k1 /\ f[v] # k2 /\ (f[v] = k3 => x2 = k2)
         /\ \A x \in Children(new, f[v]) : x # k1 /\ x # k2 /\ x # k3
    BY <1>7, <1>8
<1> QED BY <1>2, <1>3, <1>4, <1>5, <1>8, <1>9 DEF x1, x2

\* The variables of an environment stay what they are.
LEMMA OldVars ==
    ASSUME NEW old, NEW new, NEW f, NEW k1, NEW k2, NEW k3, NEW E, NEW env, NEW ns,
           Edited(old, new, f, k1, k2, k3, E, env, ns),
           NEW d \in Children(old, 0), NEW e \in Children(old, d)
    PROVE  Vars(new, f[e]) = Vars(old, e)
<1>1. Text(old) /\ Text(new) /\ f[0] = 0 /\ new[k3].key = "secrets"
    BY DEF Edited, Grown
<1>2. Content(old) \subseteq 1..Len(old) /\ Len(old) \in Nat /\ Content(new) \subseteq 1..Len(new)
    BY <1>1, TextIs
<1>3. /\ e \in Content(old) /\ e \in {0} \cup Content(old)
      /\ f[e] \in Content(new) /\ f[e] # 0 /\ f[e] # k1 /\ f[e] # k3
      /\ \A v \in Children(old, e) :
             /\ v \in Content(old) /\ v \in {0} \cup Content(old) /\ new[f[v]] = old[v]
             /\ f[v] \in Content(new) /\ f[v] # 0 /\ f[v] # k1 /\ f[v] # k2
    BY OldPath
<1> DEFINE v == Lookup(old, e, "vars")
<1>7. Lookup(new, f[e], "vars") = f[v]
    <2>1. e \in {0} \cup Content(old) /\ f[e] # 0
        BY <1>3
    <2>2. f[e] \in {0} \cup Content(new) /\ f[e] \notin E
        BY <2>1, OldLine
    <2>3. ASSUME NEW x \in Children(new, f[e]), IsNew(old, f, x) PROVE x = k3 /\ f[e] = k2
        <3> DEFINE p == f[e]
        <3>1. p \in {0} \cup Content(new) /\ p \notin E /\ x \in Children(new, p)
            BY <2>2
        <3> HIDE DEF p
        <3>2. \/ p = 0 /\ x = k1
              \/ p = k1 /\ x = k2
              \/ p = k2 /\ x = k3
              \/ p = k3 /\ x \in E
            BY <3>1, <2>3, AddedLine
        <3> QED BY <3>2, <2>1, <1>3 DEF p
    <2>4. \A x \in Children(new, f[e]) : IsNew(old, f, x) /\ new[x].key = "vars" =>
              Lookup(old, e, "vars") # 0 /\ \A j \in Children(new, f[e]) : j <= x
        BY <2>3, <1>1
    <2>5. e \in {0} \cup Content(old)
        BY <2>1
    <2> QED BY <2>4, <2>5, LookupOld
<1>8. e \in 0..Len(old) /\ (v # 0 => v \in Children(old, e) /\ old[v].key = "vars")
    BY <1>1, <1>2, <1>3, LookupIs
<1> HIDE DEF v
<1>9. CASE v = 0
    BY <1>7, <1>9, <1>1 DEF Vars, v
<1>10. CASE v # 0
    <2>1. v \in Content(old) /\ v \in {0} \cup Content(old) /\ new[f[v]] = old[v]
          /\ f[v] # 0 /\ f[v] # k1 /\ f[v] # k2
        BY <1>3, <1>8, <1>10
    <2>2. f[v] # k3
        BY <2>1, <1>1, <1>8, <1>10
    <2>4. \A x \in Children(new, f[v]) : ~IsNew(old, f, x)
        BY <2>1, <2>2, NothingAdded
    <2>6. /\ \A j \in Children(old, v) : f[j] \in Children(new, f[v]) /\ new[f[j]] = old[j]
          /\ \A x \in Children(new, f[v]) : \E j \in Children(old, v) : x = f[j]
        BY <2>1, <2>4, OldLine
    <2>7. {<<new[i].key, new[i].value>> : i \in Children(new, f[v])}
              = {<<old[i].key, old[i].value>> : i \in Children(old, v)}
        BY <2>6
    <2> QED BY <1>7, <1>10, <2>1, <2>7 DEF Vars, VarLines, v
<1> QED BY <1>9, <1>10

\* So do its secrets, but for the entries added to them.
LEMMA OldSecrets ==
    ASSUME NEW old, NEW new, NEW f, NEW k1, NEW k2, NEW k3, NEW E, NEW env, NEW ns,
           Edited(old, new, f, k1, k2, k3, E, env, ns),
           NEW d \in Children(old, 0), NEW e \in Children(old, d),
           Lookup(old, e, "secrets") # 0 =>
               \A i \in EntryLines(old, e) : Lookup(old, i, "env_var_name") # 0
    PROVE  \/ Secrets(new, f[e]) = Secrets(old, e)
           \/ f[e] = k2 /\ Secrets(new, f[e]) = Secrets(old, e) \cup AddedEntries(new, E)
<1>1. Text(old) /\ Text(new) /\ f[0] = 0 /\ new[k3].key = "secrets"
      /\ k1 \in Children(new, 0) /\ k2 \in Children(new, k1) /\ k3 \in Children(new, k2)
      /\ (IsNew(old, f, k3) => \A j \in Children(new, k2) : j <= k3)
      /\ E \subseteq Children(new, k3) /\ \A i \in E : IsNew(old, f, i)
    BY DEF Edited, Grown
<1>2. Content(old) \subseteq 1..Len(old) /\ Len(old) \in Nat /\ Content(new) \subseteq 1..Len(new) /\ Len(new) \in Nat
    BY <1>1, TextIs
<1>5. /\ e \in Content(old) /\ e \in {0} \cup Content(old)
      /\ f[e] \in Content(new) /\ f[e] # 0 /\ f[e] # k1 /\ f[e] # k3
      /\ \A v \in Children(old, e) :
             /\ v \in Content(old) /\ v \in {0} \cup Content(old)
             /\ f[v] \in Content(new) /\ f[v] # 0 /\ f[v] # k1 /\ f[v] # k2 /\ (f[v] = k3 => f[e] = k2)
             /\ \A x \in Children(new, f[v]) : x # k1 /\ x # k2 /\ x # k3
    BY OldPath
<1> DEFINE s == Lookup(old, e, "secrets")
<1>7. e \in {0} \cup Content(old) /\ f[e] # 0 /\ f[e] \in 0..Len(new)
    BY <1>2, <1>5
<1>8. /\ f[e] \in {0} \cup Content(new) /\ f[e] \notin E
      /\ \A j \in Children(old, e) : f[j] \in Children(new, f[e]) /\ new[f[j]] = old[j]
      /\ \A x \in Children(new, f[e]) : IsNew(old, f, x) \/ \E j \in Children(old, e) : x = f[j]
    BY <1>7, OldLine
<1>9. ASSUME NEW x \in Children(new, f[e]), IsNew(old, f, x) PROVE x = k3 /\ f[e] = k2
    <2> DEFINE p == f[e]
    <2>1. p \in {0} \cup Content(new) /\ p \notin E /\ x \in Children(new, p)
        BY <1>8
    <2> HIDE DEF p
    <2>2. \/ p = 0 /\ x = k1
          \/ p = k1 /\ x = k2
          \/ p = k2 /\ x = k3
          \/ p = k3 /\ x \in E
        BY <2>1, <1>9, AddedLine
    <2> QED BY <2>2, <1>5 DEF p
<1>10. /\ s # 0 => s \in Children(old, e) /\ old[s].key = "secrets"
       /\ s = 0 => \A j \in Children(old, e) : old[j].key # "secrets"
    BY <1>1, <1>2, <1>5, LookupIs
<1>11. Lookup(new, f[e], "secrets") # 0 =>
           /\ Lookup(new, f[e], "secrets") \in Children(new, f[e])
           /\ new[Lookup(new, f[e], "secrets")].key = "secrets"
    BY <1>1, <1>7, LookupIs
<1>12. s # 0 => Lookup(new, f[e], "secrets") = f[s]
    <2> SUFFICES ASSUME s # 0 PROVE Lookup(new, f[e], "secrets") = f[s]
        OBVIOUS
    <2>1. \A x \in Children(new, f[e]) : IsNew(old, f, x) /\ new[x].key = "secrets" =>
              Lookup(old, e, "secrets") # 0 /\ \A j \in Children(new, f[e]) : j <= x
        BY <1>1, <1>9
    <2>2. e \in {0} \cup Content(old)
        BY <1>5
    <2> HIDE DEF s
    <2>3. Lookup(new, f[e], "secrets") = f[Lookup(old, e, "secrets")]
        BY <2>1, <2>2, LookupOld
    <2> QED BY <2>3 DEF s
<1>13. s # 0 => \A i \in Children(old, s) : Lookup(old, i, "env_var_name") # 0
    BY DEF EntryLines
<1>14. Secrets(old, e) = IF s = 0 THEN {} ELSE {SecretEntry(old, i) : i \in Children(old, s)}
    BY DEF Secrets, EntryLines
<1> HIDE DEF s
<1>15. CASE s = 0
    <2>1. CASE Lookup(new, f[e], "secrets") = 0
        BY <2>1, <1>14, <1>15 DEF Secrets
    <2>2. CASE Lookup(new, f[e], "secrets") # 0
        <3> DEFINE x == Lookup(new, f[e], "secrets")
        <3>1. x \in Children(new, f[e]) /\ new[x].key = "secrets"
            BY <2>2, <1>11
        <3>2. IsNew(old, f, x)
            BY <3>1, <1>8, <1>10, <1>15
        <3>3. x = k3 /\ f[e] = k2
            BY <3>1, <3>2, <1>9
        <3>4. Children(new, k3) = E
            BY <3>2, <3>3, NewSecrets
        <3>5. Secrets(new, f[e]) = {SecretEntry(new, i) : i \in Children(new, x)}
            BY <2>2 DEF Secrets, EntryLines
        <3> HIDE DEF x
        <3>6. Secrets(new, f[e]) = AddedEntries(new, E)
            BY <3>3, <3>4, <3>5 DEF AddedEntries
        <3> QED BY <3>3, <3>6, <1>14, <1>15
    <2> QED BY <2>1, <2>2
<1>16. CASE s # 0
    <2>1. s \in Content(old) /\ s \in {0} \cup Content(old) /\ f[s] # 0
          /\ f[s] # k1 /\ f[s] # k2 /\ (f[s] = k3 => f[e] = k2)
          /\ \A x \in Children(new, f[s]) : x # k1 /\ x # k2 /\ x # k3
        BY <1>5, <1>10, <1>16
    <2>5. /\ f[s] \in {0} \cup Content(new) /\ f[s] \notin E /\ Children(old, s) \subseteq Content(old)
          /\ \A j \in Children(old, s) : f[j] \in Children(new, f[s])
          /\ \A x \in Children(new, f[s]) : IsNew(old, f, x) \/ \E j \in Children(old, s) : x = f[j]
        BY <2>1, OldLine
    <2>6. \A j \in Children(old, s) : SecretEntry(new, f[j]) = SecretEntry(old, j)
        <3> SUFFICES ASSUME NEW j \in Children(old, s) PROVE SecretEntry(new, f[j]) = SecretEntry(old, j)
            OBVIOUS
        <3>1. j \in Content(old) /\ f[j] \notin {k1, k2, k3} /\ Lookup(old, j, "env_var_name") # 0
            BY <2>1, <2>5, <1>13, <1>16
        <3> QED BY <3>1, EntryBeside
    <2>7. Secrets(new, f[e]) = {SecretEntry(new, x) : x \in Children(new, f[s])}
        BY <2>1, <1>12, <1>16 DEF Secrets, EntryLines
    <2>8. Secrets(old, e) = {SecretEntry(old, i) : i \in Children(old, s)}
        BY <1>14, <1>16
    <2>9. CASE f[s] # k3
        <3>1. \A x \in Children(new, f[s]) : ~IsNew(old, f, x)
            BY <2>1, <2>9, NothingAdded
        <3>2. \A x \in Children(new, f[s]) : \E j \in Children(old, s) : x = f[j]
            BY <3>1, <2>5
        <3>3. Secrets(new, f[e]) = Secrets(old, e)
            BY <3>2, <2>5, <2>6, <2>7, <2>8
        <3> QED BY <3>3
    <2>10. CASE f[s] = k3
        <3>1. ASSUME NEW x \in Children(new, f[s]), IsNew(old, f, x) PROVE x \in E
            <4> DEFINE p == f[s]
            <4>1. p \in {0} \cup Content(new) /\ p \notin E /\ x \in Children(new, p)
                BY <2>5
            <4> HIDE DEF p
            <4>2. \/ p = 0 /\ x = k1
                  \/ p = k1 /\ x = k2
                  \/ p = k2 /\ x = k3
                  \/ p = k3 /\ x \in E
                BY <4>1, <3>1, AddedLine
            <4> QED BY <4>2, <2>1 DEF p
        <3>2. \A x \in Children(new, f[s]) : x \in E \/ \E j \in Children(old, s) : x = f[j]
            BY <3>1, <2>5
        <3>3. \A x \in E : x \in Children(new, f[s])
            BY <2>10, <1>1
        <3>4. Secrets(new, f[e]) = Secrets(old, e) \cup AddedEntries(new, E)
            BY <3>2, <3>3, <2>5, <2>6, <2>7, <2>8 DEF AddedEntries
        <3> QED BY <3>4, <2>1, <2>10
    <2> QED BY <2>9, <2>10
<1> QED BY <1>15, <1>16

\* The lines of the environments are the children of env:.
LEMMA EnvLinesAre ==
    ASSUME NEW lines, Text(lines)
    PROVE  /\ EnvLines(lines) \subseteq 1..Len(lines)
           /\ Lookup(lines, 0, "env") # 0 => /\ Lookup(lines, 0, "env") \in Children(lines, 0)
                                             /\ EnvLines(lines) = Children(lines, Lookup(lines, 0, "env"))
           /\ Lookup(lines, 0, "env") = 0 => EnvLines(lines) = {}
<1> DEFINE d == Lookup(lines, 0, "env")
<1>1. Len(lines) \in Nat
    BY TextIs
<1>2. d # 0 => d \in Children(lines, 0)
    BY <1>1, LookupIs
<1>3. EnvLines(lines) = IF d = 0 THEN {} ELSE Children(lines, d)
    BY DEF EnvLines
<1> HIDE DEF d
<1>4. CASE d = 0
    BY <1>3, <1>4 DEF d
<1>5. CASE d # 0
    <2>1. d \in 0..Len(lines)
        BY <1>1, <1>2, <1>5, ChildrenAre
    <2>2. Children(lines, d) \subseteq 1..Len(lines)
        BY <2>1, ChildrenAre
    <2> QED BY <2>2, <1>2, <1>3, <1>5 DEF d
<1> QED BY <1>4, <1>5

\* EnvLine finds the last of the lines with the environment's name.
LEMMA EnvLineIs ==
    ASSUME NEW lines, Text(lines), NEW u
    PROVE  /\ EnvLine(lines, u) = 0 => \A e \in EnvLines(lines) : lines[e].key # u
           /\ EnvLine(lines, u) # 0 =>
                  /\ EnvLine(lines, u) \in EnvLines(lines) /\ lines[EnvLine(lines, u)].key = u
                  /\ \A e \in EnvLines(lines) : lines[e].key = u => e <= EnvLine(lines, u)
<1> DEFINE S == {0} \cup {e \in EnvLines(lines) : lines[e].key = u}
           m == EnvLine(lines, u)
<1>1. Len(lines) \in Nat /\ EnvLines(lines) \subseteq 1..Len(lines)
    BY TextIs, EnvLinesAre
<1>2. m = Max(S)
    BY DEF EnvLine
<1>3. S \in SUBSET (0..Len(lines)) /\ S # {}
    BY <1>1
<1>4. m \in S /\ \A x \in S : x =< m
    BY <1>1, <1>2, <1>3, HasMaximum
<1> HIDE DEF m
<1>5. m = 0 => \A e \in EnvLines(lines) : lines[e].key # u
    BY <1>1, <1>4
<1>6. m # 0 => /\ m \in EnvLines(lines) /\ lines[m].key = u
               /\ \A e \in EnvLines(lines) : lines[e].key = u => e <= m
    BY <1>4
<1> QED BY <1>5, <1>6 DEF m

\* With the last of the lines for an environment found, so is its line.
LEMMA EnvLineUnique ==
    ASSUME NEW lines, Text(lines), NEW u, NEW e \in EnvLines(lines), lines[e].key = u,
           \A x \in EnvLines(lines) : lines[x].key = u => x <= e
    PROVE  EnvLine(lines, u) = e
<1>1. Len(lines) \in Nat /\ EnvLines(lines) \subseteq 1..Len(lines)
    BY TextIs, EnvLinesAre
<1>2. EnvLine(lines, u) # 0
    BY EnvLineIs
<1>3. /\ EnvLine(lines, u) \in EnvLines(lines) /\ lines[EnvLine(lines, u)].key = u
      /\ e <= EnvLine(lines, u)
    BY <1>2, EnvLineIs
<1>4. EnvLine(lines, u) <= e
    BY <1>3
<1> QED BY <1>1, <1>3, <1>4

\* Meaning, one environment at a time.
LEMMA MeaningIs ==
    ASSUME NEW lines, NEW u \in Words
    PROVE  Meaning(lines)[u] =
               [secrets |-> IF EnvLine(lines, u) = 0 THEN {} ELSE Secrets(lines, EnvLine(lines, u)),
                vars |-> IF EnvLine(lines, u) = 0 THEN {} ELSE Vars(lines, EnvLine(lines, u))]
BY DEF Meaning

\* What one environment means after the edit.
LEMMA EnvMeans ==
    ASSUME NEW old, NEW new, NEW f, NEW k1, NEW k2, NEW k3, NEW E, NEW env, NEW ns,
           Edited(old, new, f, k1, k2, k3, E, env, ns), Named(old), NEW u \in Words
    PROVE  \/ Meaning(new)[u] = Meaning(old)[u]
           \/ /\ u = env
              /\ Meaning(new)[u] = [secrets |-> Meaning(old)[u].secrets \cup AddedEntries(new, E),
                                    vars |-> Meaning(old)[u].vars]
<1> DEFINE a == Lookup(old, 0, "env")
           b == Lookup(new, 0, "env")
           eo == EnvLine(old, u)
           en == EnvLine(new, u)
<1>1. /\ Text(old) /\ Text(new) /\ f[0] = 0 /\ Grown(old, new, f)
      /\ k1 \in Children(new, 0) /\ k2 \in Children(new, k1) /\ k3 \in Children(new, k2)
      /\ new[k1].key = "env" /\ new[k2].key = env
      /\ (IsNew(old, f, k1) => \A j \in Children(new, 0) : j <= k1)
      /\ (IsNew(old, f, k2) => \A j \in Children(new, k1) : new[j].key = env => j = k2)
    BY DEF Edited, Grown
<1>2. /\ Content(old) \subseteq 1..Len(old) /\ Len(old) \in Nat
      /\ Content(new) \subseteq 1..Len(new) /\ Len(new) \in Nat
    BY <1>1, TextIs
<1>3. 0 \in {0} \cup Content(old) /\ 0 \in {0} \cup Content(new) /\ 0 \in 0..Len(old) /\ 0 \in 0..Len(new)
    BY <1>2
<1>4. k1 \in Content(new) /\ k1 # 0 /\ k2 \in Content(new) /\ k2 # 0 /\ k2 # k1
    BY <1>1, <1>2, Path
<1>5. 0 \notin E
    <2>1. \A x \in E : \E y : x \in Children(new, y) /\ y \in Content(new)
        <3>1. k3 \in Content(new) /\ E \subseteq Children(new, k3)
            <4>1. E \subseteq Children(new, k3)
                BY DEF Edited
            <4> QED BY <4>1, <1>1, Path
        <3> QED BY <3>1
    <2>2. \A y \in Content(new) : 0 \notin Children(new, y)
        <3> SUFFICES ASSUME NEW y \in Content(new) PROVE 0 \notin Children(new, y)
            OBVIOUS
        <3>1. y \in 0..Len(new)
            BY <1>2
        <3>2. Children(new, y) \subseteq 1..Len(new)
            BY <3>1, <1>1, ChildrenAre
        <3> QED BY <3>2
    <2> QED BY <2>1, <2>2
<1>6. \A x \in Children(new, 0) : IsNew(old, f, x) => x = k1
    <2> SUFFICES ASSUME NEW x \in Children(new, 0), IsNew(old, f, x) PROVE x = k1
        OBVIOUS
    <2>1. \/ 0 = 0 /\ x = k1
          \/ 0 = k1 /\ x = k2
          \/ 0 = k2 /\ x = k3
          \/ 0 = k3 /\ x \in E
        BY <1>3, <1>5, AddedLine
    <2>2. 0 # k3
        BY <1>1, <1>2, Path
    <2> QED BY <2>1, <2>2, <1>4
<1>7. /\ \A j \in Children(old, 0) : f[j] \in Children(new, 0) /\ new[f[j]] = old[j]
      /\ \A x \in Children(new, 0) : IsNew(old, f, x) \/ \E j \in Children(old, 0) : x = f[j]
    BY <1>1, <1>3, OldLine
<1>8. /\ a # 0 => a \in Children(old, 0) /\ old[a].key = "env"
      /\ a = 0 => \A j \in Children(old, 0) : old[j].key # "env"
      /\ b # 0 => b \in Children(new, 0) /\ new[b].key = "env"
      /\ b = 0 => \A j \in Children(new, 0) : new[j].key # "env"
    BY <1>1, <1>3, LookupIs
<1>9. /\ EnvLines(old) \subseteq 1..Len(old) /\ EnvLines(new) \subseteq 1..Len(new)
      /\ EnvLines(old) = IF a = 0 THEN {} ELSE Children(old, a)
      /\ EnvLines(new) = IF b = 0 THEN {} ELSE Children(new, b)
    BY <1>1, EnvLinesAre
<1>10. Meaning(old)[u] = [secrets |-> IF eo = 0 THEN {} ELSE Secrets(old, eo),
                          vars |-> IF eo = 0 THEN {} ELSE Vars(old, eo)]
    BY MeaningIs
<1>11. Meaning(new)[u] = [secrets |-> IF en = 0 THEN {} ELSE Secrets(new, en),
                          vars |-> IF en = 0 THEN {} ELSE Vars(new, en)]
    BY MeaningIs
<1>12. a # 0 => b = f[a]
    <2> SUFFICES ASSUME a # 0 PROVE b = f[a]
        OBVIOUS
    <2>1. \A x \in Children(new, f[0]) : IsNew(old, f, x) /\ new[x].key = "env" =>
              Lookup(old, 0, "env") # 0 /\ \A j \in Children(new, f[0]) : j <= x
        BY <1>1, <1>6
    <2> HIDE DEF a, b
    <2>2. Lookup(new, f[0], "env") = f[Lookup(old, 0, "env")]
        BY <2>1, <1>3, LookupOld
    <2> QED BY <2>2, <1>1 DEF a, b
<1>13. /\ eo = 0 => \A e \in EnvLines(old) : old[e].key # u
       /\ eo # 0 => /\ eo \in EnvLines(old) /\ old[eo].key = u
                    /\ \A e \in EnvLines(old) : old[e].key = u => e <= eo
    BY <1>1, EnvLineIs
<1>14. /\ en = 0 => \A e \in EnvLines(new) : new[e].key # u
       /\ en # 0 => en \in EnvLines(new) /\ new[en].key = u
    BY <1>1, EnvLineIs
<1>15. Named(old) => \A e \in EnvLines(old) : Lookup(old, e, "secrets") # 0 =>
                         \A i \in EntryLines(old, e) : Lookup(old, i, "env_var_name") # 0
    BY DEF Named
<1> HIDE DEF a, b, eo, en
\* The env: line is new, so everything below it is.
<1>16. CASE a = 0
    <2>1. IsNew(old, f, b) /\ b = k1
        <3>1. \A x \in Children(new, 0) : new[x].key = "env" => IsNew(old, f, x)
            BY <1>7, <1>8, <1>16
        <3>2. b # 0
            BY <1>1, <1>8
        <3> QED BY <3>1, <3>2, <1>6, <1>8
    <2>2. \A i \in 0..Len(old) : f[i] \notin Children(new, k1)
        <3>1. k1 \in 0..Len(new)
            BY <1>2, <1>4
        <3> QED BY <2>1, <3>1, <1>1 DEF Grown, IsNew
    <2>3. \A x \in Children(new, k1) : IsNew(old, f, x)
        BY <2>2 DEF IsNew
    <2>4. IsNew(old, f, k2)
        BY <2>3, <1>1
    <2>5. k1 \notin E
        <3> SUFFICES ASSUME k1 \in E PROVE FALSE
            OBVIOUS
        <3>1. k1 \in Children(new, k3) /\ k3 \in Content(new)
            <4>1. E \subseteq Children(new, k3)
                BY DEF Edited
            <4> QED BY <4>1, <1>1, Path
        <3>2. 0 = k3
            BY <3>1, <1>1, <1>3, OneParent
        <3> QED BY <3>1, <3>2, <1>2
    <2>6. \A x \in Children(new, k1) : x = k2
        <3> SUFFICES ASSUME NEW x \in Children(new, k1) PROVE x = k2
            OBVIOUS
        <3>1. IsNew(old, f, x) /\ k1 \in {0} \cup Content(new)
            BY <2>3, <1>4
        <3>2. \/ k1 = 0 /\ x = k1
              \/ k1 = k1 /\ x = k2
              \/ k1 = k2 /\ x = k3
              \/ k1 = k3 /\ x \in E
            BY <3>1, <2>5, AddedLine
        <3>3. k1 # k3
            BY <1>1, Path
        <3> QED BY <3>2, <3>3, <1>4
    <2>7. EnvLines(new) = {k2} /\ EnvLines(old) = {}
        BY <2>1, <2>6, <1>1, <1>4, <1>9, <1>16
    <2>8. eo = 0
        BY <2>7, <1>13
    <2>9. CASE en = 0
        BY <2>8, <2>9, <1>10, <1>11
    <2>10. CASE en # 0
        <3>1. en = k2 /\ u = env
            BY <2>7, <2>10, <1>1, <1>14
        <3>2. Secrets(new, k2) = AddedEntries(new, E) /\ Vars(new, k2) = {}
            BY <2>4, NewEnv
        <3>3. Meaning(new)[u] = [secrets |-> AddedEntries(new, E), vars |-> {}]
            BY <3>1, <3>2, <2>10, <1>11
        <3>4. Meaning(old)[u] = [secrets |-> {}, vars |-> {}]
            BY <2>8, <1>10
        <3> QED BY <3>1, <3>3, <3>4
    <2> QED BY <2>9, <2>10
<1>17. CASE a # 0
    <2>1. a \in Children(old, 0) /\ b = f[a] /\ b \in Children(new, 0) /\ new[b] = old[a]
        BY <1>7, <1>8, <1>12, <1>17
    <2>2. a \in {0} \cup Content(old)
        BY <2>1, <1>3, OldLine
    <2>3. /\ b \in {0} \cup Content(new) /\ b \notin E
          /\ \A j \in Children(old, a) : f[j] \in Children(new, b) /\ new[f[j]] = old[j]
          /\ \A x \in Children(new, b) : IsNew(old, f, x) \/ \E j \in Children(old, a) : x = f[j]
        BY <2>1, <2>2, OldLine
    <2>4. b # 0 /\ b # k2 /\ b # k3
        <3>1. b # 0
            BY <2>1, <1>2, <1>3, <1>1, ChildrenAre
        <3>2. b # k2
            <4> SUFFICES ASSUME b = k2 PROVE FALSE
                OBVIOUS
            <4>1. k1 \in {0} \cup Content(new) /\ b \in Children(new, k1)
                BY <1>1, <1>4
            <4>2. 0 = k1
                BY <4>1, <2>1, <1>1, <1>3, OneParent
            <4> QED BY <4>2, <1>4
        <3>3. b # k3
            <4> SUFFICES ASSUME b = k3 PROVE FALSE
                OBVIOUS
            <4>1. k2 \in {0} \cup Content(new) /\ b \in Children(new, k2)
                BY <1>1, <1>4
            <4>2. 0 = k2
                BY <4>1, <2>1, <1>1, <1>3, OneParent
            <4> QED BY <4>2, <1>4
        <3> QED BY <3>1, <3>2, <3>3
    <2>5. \A x \in Children(new, b) : IsNew(old, f, x) => x = k2 /\ b = k1
        <3> SUFFICES ASSUME NEW x \in Children(new, b), IsNew(old, f, x) PROVE x = k2 /\ b = k1
            OBVIOUS
        <3>1. \/ b = 0 /\ x = k1
              \/ b = k1 /\ x = k2
              \/ b = k2 /\ x = k3
              \/ b = k3 /\ x \in E
            BY <2>3, AddedLine
        <3> QED BY <3>1, <2>4
    <2>6. EnvLines(old) = Children(old, a) /\ EnvLines(new) = Children(new, b)
        BY <2>4, <1>9, <1>17
\* The line of the environment is new.
    <2>7. CASE \E x \in Children(new, b) : IsNew(old, f, x) /\ new[x].key = u
        <3>1. b = k1 /\ IsNew(old, f, k2) /\ u = env
            BY <2>5, <2>7, <1>1
        <3>2. \A j \in Children(old, a) : old[j].key # u
            <4> SUFFICES ASSUME NEW j \in Children(old, a), old[j].key = u PROVE FALSE
                OBVIOUS
            <4>1. f[j] = k2
                BY <2>3, <3>1, <1>1
            <4>2. j \in 0..Len(old)
                BY <2>6, <1>9, <1>2
            <4> QED BY <4>1, <4>2, <3>1 DEF IsNew
        <3>3. eo = 0
            BY <3>2, <2>6, <1>13
        <3>4. en = k2
            <4>1. en # 0
                BY <2>6, <2>7, <1>14
            <4> QED BY <4>1, <3>1, <2>6, <1>1, <1>14
        <3>5. Secrets(new, k2) = AddedEntries(new, E) /\ Vars(new, k2) = {}
            BY <3>1, NewEnv
        <3>6. Meaning(new)[u] = [secrets |-> AddedEntries(new, E), vars |-> {}]
            BY <3>4, <3>5, <1>4, <1>11
        <3>7. Meaning(old)[u] = [secrets |-> {}, vars |-> {}]
            BY <3>3, <1>10
        <3> QED BY <3>1, <3>6, <3>7
\* It was there.
    <2>8. CASE \A x \in Children(new, b) : IsNew(old, f, x) => new[x].key # u
        <3>1. CASE eo = 0
            <4>1. en = 0
                BY <3>1, <2>3, <2>6, <2>8, <1>13, <1>14
            <4> QED BY <4>1, <3>1, <1>10, <1>11
        <3>2. CASE eo # 0
            <4>1. eo \in Children(old, a) /\ old[eo].key = u
                BY <3>2, <2>6, <1>13
            <4>2. f[eo] \in EnvLines(new) /\ new[f[eo]].key = u
                BY <4>1, <2>3, <2>6
            <4>3. ASSUME NEW x \in EnvLines(new), new[x].key = u PROVE x <= f[eo]
                <5>1. PICK j \in Children(old, a) : x = f[j]
                    BY <4>3, <2>3, <2>6, <2>8
                <5>2. old[j].key = u
                    BY <4>3, <5>1, <2>3
                <5>3. j <= eo /\ j \in 0..Len(old) /\ eo \in 0..Len(old)
                    BY <4>1, <5>2, <3>2, <2>6, <1>2, <1>9, <1>13
                <5>4. f[j] <= f[eo]
                    <6>1. CASE j = eo
                        <7>1. f[eo] \in 0..Len(new)
                            BY <5>3, <1>1 DEF Grown
                        <7> QED BY <6>1, <7>1
                    <6>2. CASE j # eo
                        <7>1. f[j] < f[eo]
                            BY <5>3, <6>2, <1>1 DEF Grown
                        <7>2. f[j] \in 0..Len(new) /\ f[eo] \in 0..Len(new)
                            BY <5>3, <1>1 DEF Grown
                        <7> QED BY <7>1, <7>2
                    <6> QED BY <6>1, <6>2
                <5> QED BY <5>1, <5>4
            <4>4. en = f[eo]
                BY <4>2, <4>3, <1>1, EnvLineUnique DEF en
            <4>5. en # 0
                BY <4>2, <4>4, <1>9
            <4>6. Vars(new, en) = Vars(old, eo)
                BY <4>1, <4>4, <2>1, OldVars
            <4>7. Lookup(old, eo, "secrets") # 0 =>
                      \A i \in EntryLines(old, eo) : Lookup(old, i, "env_var_name") # 0
                BY <4>1, <2>6, <1>15
            <4>8. \/ Secrets(new, f[eo]) = Secrets(old, eo)
                  \/ f[eo] = k2 /\ Secrets(new, f[eo]) = Secrets(old, eo) \cup AddedEntries(new, E)
                BY <4>1, <4>7, <2>1, OldSecrets
            <4>9. Meaning(old)[u] = [secrets |-> Secrets(old, eo), vars |-> Vars(old, eo)]
                BY <3>2, <1>10
            <4>10. Meaning(new)[u] = [secrets |-> Secrets(new, en), vars |-> Vars(old, eo)]
                BY <4>5, <4>6, <1>11
            <4>11. f[eo] = k2 => u = env
                BY <4>2, <1>1
            <4> QED BY <4>4, <4>8, <4>9, <4>10, <4>11
        <3> QED BY <3>1, <3>2
    <2> QED BY <2>7, <2>8
<1> QED BY <1>16, <1>17

\* The update of one field, written out.
LEMMA UpdateField ==
    ASSUME NEW s, NEW v, NEW X, NEW r, r = [secrets |-> s, vars |-> v]
    PROVE  [r EXCEPT !.secrets = r.secrets \cup X] = [secrets |-> r.secrets \cup X, vars |-> r.vars]
OBVIOUS

\* The update at one argument, written out.
LEMMA UpdateAt ==
    ASSUME NEW W, NEW M, M = [u \in W |-> M[u]], NEW k \in W, NEW z
    PROVE  [M EXCEPT ![k] = z] = [u \in W |-> IF u = k THEN z ELSE M[u]]
OBVIOUS

\* An edit adds some of its entries to its environment, and nothing else.
LEMMA MeaningGrows ==
    ASSUME NEW old, NEW new, NEW f, NEW k1, NEW k2, NEW k3, NEW E, NEW env \in Words, NEW ns,
           Edited(old, new, f, k1, k2, k3, E, env, ns), Named(old)
    PROVE  \E X \in SUBSET AddedEntries(new, E) :
               Meaning(new) = [Meaning(old) EXCEPT ![env].secrets = @ \cup X]
<1> DEFINE M == Meaning(old)
           N == Meaning(new)
           A == AddedEntries(new, E)
           W == Words
           r == M[env]
           Z(X) == [secrets |-> r.secrets \cup X, vars |-> r.vars]
<1>1. \A u \in Words : \/ N[u] = M[u]
                       \/ u = env /\ N[u] = [secrets |-> M[u].secrets \cup A, vars |-> M[u].vars]
    BY EnvMeans
<1>2. \E s, v : M[env] = [secrets |-> s, vars |-> v]
    BY MeaningIs
<1>3. M = [u \in W |-> M[u]] /\ N = [u \in W |-> N[u]]
    BY DEF Meaning
<1> HIDE DEF M, N, A, W
<1>4. env \in W
    BY DEF W
<1>5. PICK s, v : r = [secrets |-> s, vars |-> v]
    BY <1>2
<1> HIDE DEF r
<1>6. \A X : [r EXCEPT !.secrets = r.secrets \cup X] = Z(X)
    BY <1>5, UpdateField
<1> HIDE DEF Z
<1>7. \A X : [M EXCEPT ![env] = Z(X)] = [u \in W |-> IF u = env THEN Z(X) ELSE M[u]]
    BY <1>3, <1>4, UpdateAt
<1>8. \A X : [M EXCEPT ![env].secrets = @ \cup X] = [M EXCEPT ![env] = Z(X)]
    BY <1>6, Zenon DEF r
<1>9. \A u \in W : u # env => N[u] = M[u]
    BY <1>1 DEF W
<1>10. N[env] = Z({}) \/ N[env] = Z(A)
    <2>1. N[env] = r \/ N[env] = Z(A)
        BY <1>1, <1>4 DEF W, r, Z
    <2>2. r = Z({})
        <3>1. s \cup {} = s
            OBVIOUS
        <3> QED BY <3>1, <1>5 DEF Z
    <2> QED BY <2>1, <2>2
<1>11. PICK X \in SUBSET A : N[env] = Z(X)
    <2>1. {} \in SUBSET A /\ A \in SUBSET A
        OBVIOUS
    <2> QED BY <2>1, <1>10
<1>12. N = [u \in W |-> IF u = env THEN Z(X) ELSE M[u]]
    BY <1>3, <1>9, <1>11
<1>13. N = [M EXCEPT ![env].secrets = @ \cup X]
    BY <1>7, <1>8, <1>12, Zenon
<1> QED BY <1>13 DEF M, N, A

\* A sequence of elements of T.
LEMMA Elements ==
    ASSUME NEW L, NEW T, NEW s \in Seq(L), \A i \in 1..Len(s) : s[i] \in T
    PROVE  s \in Seq(T)
OBVIOUS

-----------------------------------------------------------------------------
(* manifest_with_entries as a whole.                                       *)

\* A text whose lines are in T is a sequence over T.
LEMMA TextOf ==
    ASSUME NEW T, NEW s, Text(s), \A i \in 1..Len(s) : s[i] \in T
    PROVE  s \in Seq(T)
BY Elements DEF Text

\* What the edit adds: keys that are not in quotes.
PlainLines == {l \in Line : l.kind = "plain"}

\* The edit adds plain lines only.
LEMMA EditKeepsKind ==
    ASSUME NEW old, NEW new, NEW f, NEW T, PlainLines \subseteq T,
           Text(old), Text(new), Grown(old, new, f), \A i \in 1..Len(old) : old[i] \in T,
           \A x \in 1..Len(new) : new[x].kind = "plain" \/ \E y \in 0..Len(old) : x = f[y]
    PROVE  \A x \in 1..Len(new) : new[x] \in T
<1>1. /\ Len(old) \in Nat /\ \A x \in 1..Len(new) : new[x] \in Line
    BY TextIs
<1>2. ASSUME NEW x \in 1..Len(new) PROVE new[x] \in T
    <2>1. CASE new[x].kind = "plain"
        BY <2>1, <1>1 DEF PlainLines
    <2>2. ASSUME NEW y \in 0..Len(old), x = f[y] PROVE new[x] \in T
        <3>1. f[0] = 0 /\ \A i \in 1..Len(old) : new[f[i]] = old[i]
            BY DEF Grown
        <3>2. y \in 1..Len(old)
            BY <2>2, <3>1, <1>1
        <3> QED BY <2>2, <3>1, <3>2
    <2> QED BY <2>1, <2>2
<1> QED BY <1>2

\* So does one call of ensure_block.
LEMMA StageKeepsKind ==
    ASSUME NEW old, NEW i, NEW e, NEW m, NEW key, NEW new, NEW k, NEW f, NEW T, PlainLines \subseteq T,
           Text(old), Stage(old, i, e, m, key, new, k, f), \A x \in 1..Len(old) : old[x] \in T
    PROVE  \A x \in 1..Len(new) : new[x] \in T
<1>1. Text(new) /\ Grown(old, new, f) /\ new[k].kind = "plain"
      /\ \A x \in 0..Len(new) : x = k \/ \E y \in 0..Len(old) : x = f[y]
    BY DEF Stage
<1>2. \A x \in 1..Len(new) : new[x].kind = "plain" \/ \E y \in 0..Len(old) : x = f[y]
    <2>1. \A x \in 1..Len(new) : x \in 0..Len(new)
        BY <1>1, TextIs
    <2> QED BY <1>1, <2>1
<1> QED BY <1>1, <1>2, EditKeepsKind

\* The three blocks, one in the other, and the entries in the last one.
LEMMA EditIs ==
    ASSUME NEW lines, Text(lines), NEW env \in Envs, NEW names \in Seq(Names), NEW step \in Nat, step # 0,
           NEW T, PlainLines \subseteq T, \A i \in 1..Len(lines) : lines[i] \in T,
           LET root == ensure_block(lines, 1, Len(lines) + 1, 0, step, "env") IN
           Complete(Within(Within(root, step, env), step, "secrets"), env, names, step).ok
    PROVE  LET root == ensure_block(lines, 1, Len(lines) + 1, 0, step, "env")
               new == Complete(Within(Within(root, step, env), step, "secrets"), env, names, step).lines
           IN  /\ Text(new) /\ Proved(new, env, names) /\ \A i \in 1..Len(new) : new[i] \in T
               /\ NoQuotes(lines, env) => \E f, k1, k2, k3, E :
                      Edited(lines, new, f, k1, k2, k3, E, env, Range(names))
<1> DEFINE b1 == ensure_block(lines, 1, Len(lines) + 1, 0, step, "env")
           b2 == Within(b1, step, env)
           b3 == Within(b2, step, "secrets")
           res == Complete(b3, env, names, step)
           F == WithEntries(b3, names, step)
<1>1. b3.ok /\ res = [ok |-> TRUE, lines |-> F] /\ Proved(F, env, names)
    <2> HIDE DEF b3, F
    <2>1. res.ok
        BY DEF b3
    <2>2. res = IF ~b3.ok \/ InlineEntry(b3, names) THEN Throws ELSE IfProved(F, env, names)
        BY DEF Complete, F
    <2> HIDE DEF res
    <2>3. b3.ok /\ res = IfProved(F, env, names)
        BY <2>1, <2>2 DEF Throws
    <2> QED BY <2>1, <2>3 DEF IfProved, Throws
<1>2. res.lines = F
    BY <1>1
<1>3. b2.ok /\ b3 = ensure_block(b2.lines, b2.key_line + 1, b2.end, b2.entry_indent, step, "secrets")
    <2> HIDE DEF b2
    <2> QED BY <1>1 DEF Within, Throws
<1>4. b1.ok /\ b2 = ensure_block(b1.lines, b1.key_line + 1, b1.end, b1.entry_indent, step, env)
    <2> HIDE DEF b1
    <2> QED BY <1>3 DEF Within, Throws
<1>5. Region(lines, 0, Len(lines) + 1, 0) /\ Lead(lines, 0, Len(lines) + 1, 0)
    <2>1. Len(lines) \in Nat
        BY TextIs
    <2> QED BY <2>1 DEF Region, Lead
<1>6. "env" \in Words /\ "secrets" \in Words /\ env \in Words
    BY DEF Words, Fields
<1>7. 0 + 1 = 1
    OBVIOUS
<1>8. /\ \E f : Stage(lines, 0, Len(lines) + 1, 0, "env", b1.lines, b1.key_line, f)
      /\ Region(b1.lines, b1.key_line, b1.end, b1.entry_indent)
      /\ Lead(b1.lines, b1.key_line, b1.end, b1.entry_indent)
    <2>1. b1 = ensure_block(lines, 0 + 1, Len(lines) + 1, 0, step, "env")
        BY <1>7
    <2> HIDE DEF b1
    <2>2. ensure_block(lines, 0 + 1, Len(lines) + 1, 0, step, "env").ok
        BY <1>4, <2>1
    <2> QED BY <1>5, <1>6, <2>1, <2>2, Ensure
<1> HIDE DEF b1
<1>9. PICK f1 : Stage(lines, 0, Len(lines) + 1, 0, "env", b1.lines, b1.key_line, f1)
    BY <1>8
<1>10. Text(b1.lines) /\ \A i \in 1..Len(b1.lines) : b1.lines[i] \in T
    <2>1. Text(b1.lines)
        BY <1>9 DEF Stage
    <2> QED BY <1>9, <2>1, StageKeepsKind
<1>11. /\ \E f : Stage(b1.lines, b1.key_line, b1.end, b1.entry_indent, env, b2.lines, b2.key_line, f)
       /\ Region(b2.lines, b2.key_line, b2.end, b2.entry_indent)
       /\ Lead(b2.lines, b2.key_line, b2.end, b2.entry_indent)
    <2> HIDE DEF b2
    <2>1. ensure_block(b1.lines, b1.key_line + 1, b1.end, b1.entry_indent, step, env).ok
        BY <1>3, <1>4
    <2> QED BY <1>4, <1>6, <1>8, <1>10, <2>1, Ensure
<1> HIDE DEF b2
<1>12. PICK f2 : Stage(b1.lines, b1.key_line, b1.end, b1.entry_indent, env, b2.lines, b2.key_line, f2)
    BY <1>11
<1>13. Text(b2.lines) /\ \A i \in 1..Len(b2.lines) : b2.lines[i] \in T
    <2>1. Text(b2.lines)
        BY <1>12 DEF Stage
    <2> QED BY <1>10, <1>12, <2>1, StageKeepsKind
<1>14. /\ \E f : Stage(b2.lines, b2.key_line, b2.end, b2.entry_indent, "secrets", b3.lines, b3.key_line, f)
       /\ Region(b3.lines, b3.key_line, b3.end, b3.entry_indent)
       /\ Lead(b3.lines, b3.key_line, b3.end, b3.entry_indent)
    <2> HIDE DEF b3
    <2>1. ensure_block(b2.lines, b2.key_line + 1, b2.end, b2.entry_indent, step, "secrets").ok
        BY <1>1, <1>3
    <2> QED BY <1>3, <1>6, <1>11, <1>13, <2>1, Ensure
<1> HIDE DEF b3
<1>15. PICK f3 : Stage(b2.lines, b2.key_line, b2.end, b2.entry_indent, "secrets", b3.lines, b3.key_line, f3)
    BY <1>14
<1>16. Text(b3.lines) /\ \A i \in 1..Len(b3.lines) : b3.lines[i] \in T
    <2>1. Text(b3.lines)
        BY <1>15 DEF Stage
    <2> QED BY <1>13, <1>15, <2>1, StageKeepsKind
<1> DEFINE ns == Range(names)
           w == Added(b3, names, step)
           p == insert_point(b3.lines, b3.key_line + 1, b3.end, b3.entry_indent)
<1>17. PICK v \in Nat : b3.entry_indent < v /\ EntriesIn(w, b3.entry_indent, v, ns)
    <2> HIDE DEF ns
    <2> QED BY <1>14, <1>16, AddedIs DEF ns
<1>18. ns \subseteq Names
    <2>1. \A i \in DOMAIN names : names[i] \in Names
        BY ElementOfSeq
    <2> QED BY <2>1 DEF Range
<1>19. F = InsertAll(b3.lines, p, w)
    BY DEF WithEntries
<1>20. b3.key_line # 0
    <2>1. b3.key_line \in Content(b3.lines)
        BY <1>15 DEF Stage, Level
    <2> QED BY <2>1, <1>16, TextIs
<1> HIDE DEF ns, w, F
<1>21. \E E : Filled(b3.lines, b3.key_line, b3.entry_indent, ns, InsertAll(b3.lines, p, w), Moved(b3.lines, p, Len(w)), E)
    BY <1>14, <1>16, <1>17, <1>18, <1>20, FilledIs
<1> HIDE DEF p
<1>22. PICK f4, E : Filled(b3.lines, b3.key_line, b3.entry_indent, ns, F, f4, E)
    BY <1>19, <1>21
<1>23. Text(F) /\ \A i \in 1..Len(F) : F[i] \in T
    <2>1. Text(F) /\ Grown(b3.lines, F, f4)
          /\ \A x \in 1..Len(F) : F[x].kind = "plain" \/ \E y \in 0..Len(b3.lines) : x = f4[y]
        BY <1>22 DEF Filled
    <2> QED BY <1>16, <2>1, EditKeepsKind
<1>24. \A i \in {0} \cup Content(F) : Uniform(F, i)
    BY <1>1 DEF Proved, parse_manifest, WellFormed, Uniform
<1>25. ASSUME NoQuotes(lines, env)
       PROVE  \E f : Edited(lines, F, f, b1.key_line, b2.key_line, b3.key_line, E, env, ns)
    BY <1>9, <1>8, <1>12, <1>11, <1>15, <1>14, <1>22, <1>24, <1>25, EditedIs
<1>26. NoQuotes(lines, env) => \E f, k1, k2, k3, A : Edited(lines, F, f, k1, k2, k3, A, env, ns)
    BY <1>25
<1> QED BY <1>1, <1>2, <1>23, <1>26 DEF b1, b2, b3, ns

\* A record of two fields, taken apart.
LEMMA FieldsOf ==
    ASSUME NEW r, NEW s, NEW v, r = [secrets |-> s, vars |-> v]
    PROVE  r.secrets = s /\ r = [secrets |-> r.secrets, vars |-> v]
OBVIOUS

\* What the manifest holds for one environment.
LEMMA SecretsIs ==
    ASSUME NEW lines, NEW u \in Words
    PROVE  /\ Meaning(lines)[u].secrets = IF EnvLine(lines, u) = 0 THEN {} ELSE Secrets(lines, EnvLine(lines, u))
           /\ \E v : Meaning(lines)[u] = [secrets |-> Meaning(lines)[u].secrets, vars |-> v]
<1> DEFINE r == Meaning(lines)[u]
           s == IF EnvLine(lines, u) = 0 THEN {} ELSE Secrets(lines, EnvLine(lines, u))
           v == IF EnvLine(lines, u) = 0 THEN {} ELSE Vars(lines, EnvLine(lines, u))
<1>1. r = [secrets |-> s, vars |-> v]
    BY MeaningIs
<1> HIDE DEF r, s, v
<1>2. r.secrets = s /\ r = [secrets |-> r.secrets, vars |-> v]
    BY <1>1, FieldsOf
<1> QED BY <1>2 DEF r, s

\* after is before with these entries in addition.
Adds(before, after, env, names) ==
    after = [before EXCEPT ![env].secrets = @ \cup {Own(n) : n \in Range(names)}]

\* The requested entries are there, under the environment.
LEMMA ProvedHas ==
    ASSUME NEW lines, Text(lines), NEW env \in Envs, NEW names, Proved(lines, env, names),
           NEW n \in Range(names)
    PROVE  Own(n) \in Meaning(lines)[env].secrets
<1> DEFINE e == EnvLine(lines, env)
           s == Lookup(lines, e, "secrets")
           found == {i \in EntryLines(lines, e) : lines[i].key = n}
<1>1. /\ e # 0 /\ n \in {x.name : x \in Secrets(lines, e)}
      /\ FirstEntry(lines, e, n) = Own(n)
    BY DEF Proved, Own
<1>2. Secrets(lines, e) = IF s = 0 THEN {} ELSE {SecretEntry(lines, i) : i \in EntryLines(lines, e)}
    BY DEF Secrets
<1>3. EntryLines(lines, e) = Children(lines, s)
    BY DEF EntryLines
<1>4. FirstEntry(lines, e, n) = SecretEntry(lines, Min(found))
    BY DEF FirstEntry
<1>5. Meaning(lines)[env].secrets = IF e = 0 THEN {} ELSE Secrets(lines, e)
    <2>1. env \in Words
        BY DEF Words
    <2> QED BY <2>1, SecretsIs
<1>6. e \in 0..Len(lines)
    BY <1>1, EnvLineIs, EnvLinesAre, TextIs
<1> HIDE DEF e
<1>7. s # 0
    BY <1>1, <1>2
<1>8. s \in 0..Len(lines)
    <2>1. s \in Children(lines, e)
        BY <1>6, <1>7, LookupIs
    <2> QED BY <2>1, <1>6, ChildrenAre, TextIs
<1> HIDE DEF s
<1>9. Children(lines, s) \subseteq 1..Len(lines) /\ Len(lines) \in Nat
    BY <1>8, ChildrenAre, TextIs
<1>10. PICK i \in EntryLines(lines, e) : SecretEntry(lines, i).name = n
    BY <1>1, <1>2, <1>7
<1>11. lines[i].key = n
    BY <1>10 DEF SecretEntry
<1>12. Min(found) \in found
    <2>1. found \in SUBSET Nat
        BY <1>3, <1>9
    <2>2. found # {}
        BY <1>10, <1>11
    <2> QED BY <2>1, <2>2, HasMinimum
<1>13. SecretEntry(lines, Min(found)) \in Secrets(lines, e)
    BY <1>2, <1>7, <1>12
<1> QED BY <1>1, <1>4, <1>5, <1>13

\* What was proved of the result, and what the edit can have added, make up
\* exactly the requested entries.
LEMMA MeaningAdds ==
    ASSUME NEW old, NEW new, NEW f, NEW k1, NEW k2, NEW k3, NEW E, NEW env \in Envs, NEW names,
           Edited(old, new, f, k1, k2, k3, E, env, Range(names)), Named(old), Proved(new, env, names)
    PROVE  Adds(Meaning(old), Meaning(new), env, names)
<1> DEFINE M == Meaning(old)
           N == Meaning(new)
           own == {Own(n) : n \in Range(names)}
           s == M[env].secrets
<1>1. Text(new) /\ \A i \in E : new[i].key \in Range(names) /\ SecretEntry(new, i) = Own(new[i].key)
    BY DEF Edited
<1>2. AddedEntries(new, E) \subseteq own
    BY <1>1 DEF AddedEntries
<1>3. env \in Words
    BY DEF Words
<1>4. PICK X \in SUBSET AddedEntries(new, E) : N = [M EXCEPT ![env].secrets = @ \cup X]
    BY <1>3, MeaningGrows
<1>5. own \subseteq N[env].secrets
    BY <1>1, ProvedHas
<1>6. \E v : M[env] = [secrets |-> s, vars |-> v]
    BY <1>3, SecretsIs
<1>7. env \in DOMAIN M
    BY <1>3 DEF Meaning
<1> HIDE DEF M, N, own
<1>8. N = [M EXCEPT ![env].secrets = s \cup X]
    BY <1>4
<1>9. N[env].secrets = s \cup X
    BY <1>6, <1>7, <1>8
<1>10. s \cup X = s \cup own
    BY <1>2, <1>5, <1>9
<1>11. N = [M EXCEPT ![env].secrets = s \cup own]
    BY <1>8, <1>10
<1>12. N = [M EXCEPT ![env].secrets = @ \cup own]
    BY <1>11
<1> QED BY <1>12 DEF M, N, own, Adds

\* What parses names the variable of each entry.
LEMMA ParsedIsNamed ==
    ASSUME NEW lines, parse_manifest(lines)
    PROVE  Named(lines)
<1>1. \A e \in EnvLines(lines) : ValidEnv(lines, e)
    BY DEF parse_manifest
<1>2. ASSUME NEW e \in EnvLines(lines), Lookup(lines, e, "secrets") # 0, NEW i \in EntryLines(lines, e)
      PROVE  Lookup(lines, i, "env_var_name") # 0
    <2>1. ValidEntry(lines, i)
        BY <1>1, <1>2 DEF ValidEnv
    <2> QED BY <2>1 DEF ValidEntry, IsScalar
<1> QED BY <1>2 DEF Named

\* Texts without environments all mean the same.
LEMMA NoEnvs ==
    ASSUME NEW a, NEW b, Text(a), Text(b), EnvLines(a) = {}, EnvLines(b) = {}
    PROVE  Meaning(a) = Meaning(b) /\ Named(a)
<1>1. \A u : EnvLine(a, u) = 0 /\ EnvLine(b, u) = 0
    BY EnvLineIs
<1>2. \A u \in Words : Meaning(a)[u] = Meaning(b)[u]
    BY <1>1, MeaningIs
<1>3. Meaning(a) = [u \in Words |-> Meaning(a)[u]] /\ Meaning(b) = [u \in Words |-> Meaning(b)[u]]
    BY DEF Meaning
<1>4. Meaning(a) = Meaning(b)
    BY <1>2, <1>3
<1> QED BY <1>4 DEF Named

\* What import starts from if there is no file.
Start == <<Key(0, "name", Project), Key(0, "env", Nothing)>>

\* That start names no environment, so it means what no file means.
LEMMA StartIs ==
    /\ Text(Start) /\ \A i \in 1..Len(Start) : Start[i] \in PlainLines
    /\ Text(<<>>) /\ Named(Start) /\ Meaning(Start) = Meaning(<<>>)
<1> DEFINE a == Key(0, "name", Project)
           b == Key(0, "env", Nothing)
           L == Line
<1>1. /\ a \in Line /\ b \in Line /\ a.kind = "plain" /\ b.kind = "plain"
      /\ a.indent = 0 /\ b.indent = 0
    BY DEF Key, Line, Words, Fields, Values
<1>2. Start = <<a, b>>
    BY DEF Start
<1> HIDE DEF a, b, L
<1>3. <<a, b>> \in Seq(L) /\ <<>> \in Seq(L)
    BY <1>1 DEF L
<1>4. /\ Text(Start) /\ Text(<<>>)
      /\ Len(Start) = 2 /\ Start[1] = a /\ Start[2] = b /\ Len(<<>>) = 0
    BY <1>2, <1>3 DEF Text, L
<1>5. \A i \in 1..Len(Start) : Start[i] \in PlainLines /\ Start[i].indent = 0
    BY <1>1, <1>4 DEF PlainLines
<1> DEFINE d == Lookup(Start, 0, "env")
<1>6. EnvLines(Start) = {}
    <2>1. CASE d = 0
        BY <2>1, <1>4, EnvLinesAre
    <2>2. CASE d # 0
        <3>1. d \in Children(Start, 0) /\ EnvLines(Start) = Children(Start, d)
            BY <2>2, <1>4, EnvLinesAre
        <3>2. d \in 1..Len(Start)
            BY <3>1, <1>4, ChildrenAre
        <3> HIDE DEF d
        <3>3. ASSUME NEW j \in Children(Start, d) PROVE FALSE
            <4>1. d \in 0..Len(Start)
                BY <3>2, <1>4
            <4>2. j \in Content(Start) /\ Start[d].indent < Start[j].indent
                BY <4>1, <3>2, <3>3, <1>4, ChildIs DEF Below
            <4>3. j \in 1..Len(Start)
                BY <4>2, <1>4, TextIs
            <4> QED BY <4>2, <4>3, <3>2, <1>5
        <3> QED BY <3>1, <3>3
    <2> QED BY <2>1, <2>2
<1>7. EnvLines(<<>>) = {}
    BY <1>4, EnvLinesAre
<1> QED BY <1>4, <1>5, <1>6, <1>7, NoEnvs

\* The width of one indentation is never 0.
LEMMA StepIs ==
    ASSUME NEW lines, Text(lines)
    PROVE  Step(lines) \in Nat /\ Step(lines) # 0
<1> DEFINE S == {i \in Content(lines) : lines[i].indent > 0}
<1>1. Step(lines) = IF S = {} THEN 2 ELSE lines[Min(S)].indent
    BY DEF Step
<1>2. S \in SUBSET Nat /\ \A i \in S : lines[i].indent \in Nat /\ lines[i].indent > 0
    BY TextIs
<1>3. S # {} => Min(S) \in S
    BY <1>2, HasMinimum
<1> QED BY <1>1, <1>2, <1>3

\* No quotes around the name of an environment.
Safe == {l \in Line : l.kind = "quoted" => l.key \notin Envs}

\* In such a text every line with the environment's name is plain.
LEMMA SafeIsPlain ==
    ASSUME NEW lines, Text(lines), \A i \in 1..Len(lines) : lines[i] \in Safe, NEW env \in Envs
    PROVE  NoQuotes(lines, env)
<1>1. ASSUME NEW i \in Content(lines), lines[i].key = env PROVE lines[i].kind = "plain"
    <2>1. i \in 1..Len(lines) /\ ~blank_or_comment(lines[i])
        BY TextIs
    <2>2. lines[i] \in Safe
        BY <2>1
    <2>3. lines[i].kind \in {"blank", "comment", "plain", "quoted"} /\ lines[i].kind # "quoted"
        BY <2>2, <1>1 DEF Safe, Line
    <2> QED BY <2>1, <2>3 DEF blank_or_comment
<1> QED BY <1>1 DEF NoQuotes

\* One import.
LEMMA ImportIs ==
    ASSUME NEW T, PlainLines \subseteq T, Text(text), \A i \in 1..Len(text) : text[i] \in T,
           NEW env \in Envs, NEW names \in Seq(Names), Import(env, names)
    PROVE  /\ Text(text') /\ \A i \in 1..Len(text') : text'[i] \in T
           /\ (\A i \in 1..Len(text) : text[i] \in Safe) => Adds(Meaning(text), Meaning(text'), env, names)
<1> DEFINE lines == IF text = <<>> THEN Start ELSE text
           step == Step(text)
           root == ensure_block(lines, 1, Len(lines) + 1, 0, step, "env")
           res == Complete(Within(Within(root, step, env), step, "secrets"), env, names, step)
<1>1. /\ text # <<>> => parse_manifest(text)
      /\ res.ok /\ text' = res.lines
    BY DEF Import, manifest_with_entries, Start
<1>2. step \in Nat /\ step # 0
    BY StepIs
<1>3. /\ Text(lines) /\ \A i \in 1..Len(lines) : lines[i] \in T
      /\ Named(lines) /\ Meaning(lines) = Meaning(text)
      /\ (\A i \in 1..Len(text) : text[i] \in Safe) => NoQuotes(lines, env)
    <2>1. CASE text = <<>>
        <3>1. PlainLines \subseteq Safe
            BY DEF PlainLines, Safe
        <3>2. NoQuotes(Start, env)
            BY <3>1, StartIs, SafeIsPlain
        <3> QED BY <2>1, <3>2, StartIs
    <2>2. CASE text # <<>>
        <3>1. Named(text)
            BY <1>1, <2>2, ParsedIsNamed
        <3> QED BY <2>2, <3>1, SafeIsPlain
    <2> QED BY <2>1, <2>2
<1> HIDE DEF lines, step
<1>4. /\ Text(res.lines) /\ Proved(res.lines, env, names) /\ \A i \in 1..Len(res.lines) : res.lines[i] \in T
      /\ NoQuotes(lines, env) => \E f, k1, k2, k3, E :
             Edited(lines, res.lines, f, k1, k2, k3, E, env, Range(names))
    BY <1>1, <1>2, <1>3, EditIs
<1> HIDE DEF res
<1>5. ASSUME NoQuotes(lines, env)
      PROVE  Adds(Meaning(text), Meaning(text'), env, names)
    <2>1. PICK f, k1, k2, k3, E : Edited(lines, res.lines, f, k1, k2, k3, E, env, Range(names))
        BY <1>4, <1>5
    <2>2. Adds(Meaning(lines), Meaning(res.lines), env, names)
        BY <2>1, <1>3, <1>4, MeaningAdds
    <2> QED BY <2>2, <1>1, <1>3
<1> QED BY <1>1, <1>3, <1>4, <1>5

-----------------------------------------------------------------------------
(* The specification.                                                      *)

\* A slice of a sequence has its elements.
LEMMA SliceOf ==
    ASSUME NEW T, NEW s \in Seq(T), NEW i \in Nat, NEW j \in Nat, 1 =< i, j =< Len(s)
    PROVE  SubSeq(s, i, j) \in Seq(T)
<1>1. \A k \in i..j : s[k] \in T
    OBVIOUS
<1> QED BY <1>1, SubSeqProperties

\* So have two sequences, joined.
LEMMA JoinOf ==
    ASSUME NEW T, NEW s \in Seq(T), NEW t \in Seq(T)
    PROVE  s \o t \in Seq(T)
OBVIOUS

\* A change by hand keeps the lines in any set that is closed under it.
LEMMA HandKeeps ==
    ASSUME NEW T, NewLines \subseteq T,
           \A l \in T, n \in Nat : [l EXCEPT !.indent = n] \in T,
           \A l \in T : l.key \in Quotable => [l EXCEPT !.kind = "quoted"] \in T,
           text \in Seq(T), AddLine \/ DropLine \/ Reindent \/ Quote
    PROVE  text' \in Seq(T) /\ edits < MaxEdits /\ edits' = edits + 1
<1>1. Len(text) \in Nat /\ DOMAIN text = 1..Len(text) /\ \A i \in 1..Len(text) : text[i] \in T
    OBVIOUS
<1>2. CASE AddLine
    <2>1. PICK i \in 1..(Len(text) + 1), l \in NewLines : HandEdit(InsertAt(text, i, l))
        BY <1>2 DEF AddLine
    <2> DEFINE a == SubSeq(text, 1, i - 1)
               c == SubSeq(text, i, Len(text))
    <2>2. a \in Seq(T) /\ c \in Seq(T)
        BY <1>1, SliceOf
    <2>3. InsertAt(text, i, l) = a \o <<l>> \o c
        BY DEF InsertAt
    <2>4. <<l>> \in Seq(T)
        OBVIOUS
    <2> HIDE DEF a, c
    <2>5. InsertAt(text, i, l) \in Seq(T)
        BY <2>2, <2>3, <2>4, JoinOf
    <2> QED BY <2>1, <2>5 DEF HandEdit
<1>3. CASE DropLine
    <2>1. PICK i \in 1..Len(text) : HandEdit(RemoveAt(text, i))
        BY <1>1, <1>3 DEF DropLine
    <2> DEFINE a == SubSeq(text, 1, i - 1)
               c == SubSeq(text, i + 1, Len(text))
    <2>2. a \in Seq(T) /\ c \in Seq(T)
        BY <1>1, SliceOf
    <2>3. RemoveAt(text, i) = a \o c
        BY DEF RemoveAt
    <2> HIDE DEF a, c
    <2>4. RemoveAt(text, i) \in Seq(T)
        BY <2>2, <2>3, JoinOf
    <2> QED BY <2>1, <2>4 DEF HandEdit
<1>4. CASE Reindent
    <2>1. PICK i \in 1..Len(text), n \in 0..MaxIndent : HandEdit([text EXCEPT ![i].indent = n])
        BY <1>1, <1>4 DEF Reindent
    <2> DEFINE l == [text[i] EXCEPT !.indent = n]
    <2>2. n \in Nat
        OBVIOUS
    <2>3. l \in T
        BY <1>1, <2>2
    <2>4. [text EXCEPT ![i].indent = n] = [text EXCEPT ![i] = l]
        OBVIOUS
    <2> HIDE DEF l
    <2>5. [text EXCEPT ![i] = l] \in Seq(T)
        BY <2>3
    <2> QED BY <2>1, <2>4, <2>5 DEF HandEdit
<1>5. CASE Quote
    <2>1. PICK i \in Content(text) : text[i].key \in Quotable /\ HandEdit([text EXCEPT ![i].kind = "quoted"])
        BY <1>5 DEF Quote
    <2> DEFINE l == [text[i] EXCEPT !.kind = "quoted"]
    <2>2. i \in 1..Len(text)
        BY <1>1 DEF Content
    <2>3. l \in T
        BY <1>1, <2>1, <2>2
    <2>4. [text EXCEPT ![i].kind = "quoted"] = [text EXCEPT ![i] = l]
        OBVIOUS
    <2> HIDE DEF l
    <2>5. [text EXCEPT ![i] = l] \in Seq(T)
        BY <2>2, <2>3
    <2> QED BY <2>1, <2>4, <2>5 DEF HandEdit
<1> QED BY <1>2, <1>3, <1>4, <1>5

\* So does an import, if plain lines are among them.
LEMMA ImportKeeps ==
    ASSUME NEW T \in SUBSET Line, PlainLines \subseteq T, text \in Seq(T),
           NEW env \in Envs, NEW names \in Seq(Names), Import(env, names)
    PROVE  text' \in Seq(T) /\ edits' = edits
<1> DEFINE L == Line
<1> HIDE DEF L
<1>1. T \subseteq L
    BY DEF L
<1>2. text \in Seq(L) /\ \A i \in 1..Len(text) : text[i] \in T
    BY <1>1
<1>3. Text(text') /\ \A i \in 1..Len(text') : text'[i] \in T
    BY <1>2, ImportIs DEF Text, L
<1>4. text' \in Seq(T)
    BY <1>3, TextOf
<1> QED BY <1>4 DEF Import

\* A set of lines that the edits do not leave.
Kept(T) ==
    /\ T \subseteq Line /\ PlainLines \subseteq T /\ NewLines \subseteq T
    /\ \A l \in T, n \in Nat : [l EXCEPT !.indent = n] \in T
    /\ \A l \in T : l.key \in Quotable => [l EXCEPT !.kind = "quoted"] \in T

\* No step leaves such a set.
LEMMA StepKeeps ==
    ASSUME NEW T, Kept(T), text \in Seq(T), edits \in 0..MaxEdits, [EditNext]_editVars
    PROVE  text' \in Seq(T) /\ edits' \in 0..MaxEdits
<1>1. /\ T \in SUBSET Line /\ PlainLines \subseteq T /\ NewLines \subseteq T
      /\ \A l \in T, n \in Nat : [l EXCEPT !.indent = n] \in T
      /\ \A l \in T : l.key \in Quotable => [l EXCEPT !.kind = "quoted"] \in T
    BY DEF Kept
<1>2. MaxEdits \in Nat
    BY EditAssumption
<1>3. ASSUME NEW r \in Requests, Import(r.env, r.names) PROVE text' \in Seq(T) /\ edits' = edits
    <2>1. r.env \in Envs /\ r.names \in Seq(Names)
        BY EditAssumption
    <2> QED BY <2>1, <1>1, <1>3, ImportKeeps
<1>4. CASE AddLine \/ DropLine \/ Reindent \/ Quote
    <2>1. text' \in Seq(T) /\ edits < MaxEdits /\ edits' = edits + 1
        BY <1>1, <1>4, HandKeeps
    <2> QED BY <2>1, <1>2
<1>5. CASE UNCHANGED editVars
    BY <1>5 DEF editVars
<1> QED BY <1>3, <1>4, <1>5 DEF EditNext

\* All lines are such a set.
LEMMA AllKept == Kept(Line)
<1>1. PlainLines \subseteq Line /\ NewLines \subseteq Line
    BY EditAssumption DEF PlainLines
<1>2. \A l \in Line, n \in Nat : [l EXCEPT !.indent = n] \in Line
    BY DEF Line
<1>3. \A l \in Line : [l EXCEPT !.kind = "quoted"] \in Line
    BY DEF Line
<1> QED BY <1>1, <1>2, <1>3 DEF Kept

\* The text is lines, whatever is done to it.
THEOREM EditTypeCorrect == EditSpec => []EditTypeOK
<1>1. EditInit => EditTypeOK
    <2> SUFFICES ASSUME EditInit PROVE EditTypeOK
        OBVIOUS
    <2>1. MaxEdits \in Nat /\ \A s \in Samples : s \in Seq(Line)
        BY EditAssumption
    <2>2. text \in Seq(Line)
        <3> DEFINE L == Line
        <3>1. text \in Samples \/ text = <<>>
            BY DEF EditInit
        <3> HIDE DEF L
        <3>2. <<>> \in Seq(L)
            OBVIOUS
        <3> QED BY <2>1, <3>1, <3>2 DEF L
    <2> QED BY <2>1, <2>2 DEF EditInit, EditTypeOK
<1>2. EditTypeOK /\ [EditNext]_editVars => EditTypeOK'
    BY AllKept, StepKeeps DEF EditTypeOK
<1> QED BY <1>1, <1>2, PTL DEF EditSpec

\* No environment's name is ever put in quotes.  The edit looks for plain
\* keys only and would write a name it does not find a second time.
NoQuotedEnvs ==
    /\ Samples \subseteq Seq(Safe) /\ NewLines \subseteq Safe
    /\ Quotable \cap Envs = {}

\* So are the safe lines, if no environment's name is put in quotes.
LEMMA SafeKept == ASSUME NoQuotedEnvs PROVE Kept(Safe)
<1>1. Safe \subseteq Line /\ PlainLines \subseteq Safe /\ NewLines \subseteq Safe
    BY DEF Safe, PlainLines, NoQuotedEnvs
<1>2. ASSUME NEW l \in Safe, NEW n \in Nat PROVE [l EXCEPT !.indent = n] \in Safe
    BY DEF Safe, Line
<1>3. ASSUME NEW l \in Safe, l.key \in Quotable PROVE [l EXCEPT !.kind = "quoted"] \in Safe
    <2>1. l.key \notin Envs
        BY <1>3 DEF NoQuotedEnvs
    <2>2. l \in Line
        BY <1>1
    <2> QED BY <2>1, <2>2 DEF Safe, Line
<1> QED BY <1>1, <1>2, <1>3 DEF Kept

\* Every import that writes adds its own entries and changes nothing else that
\* is read from the manifest (manifest_with_entries), at any indentation, in a
\* file of any length, whatever was done to it by hand but for the quotes.
THEOREM EditAlwaysOnlyAdds ==
    ASSUME NoQuotedEnvs
    PROVE  EditSpec => EditOnlyAdds
<1> DEFINE Inv == text \in Seq(Safe) /\ edits \in 0..MaxEdits
<1>1. EditInit => Inv
    <2> SUFFICES ASSUME EditInit PROVE Inv
        OBVIOUS
    <2>1. \A s \in Samples : s \in Seq(Safe)
        BY DEF NoQuotedEnvs
    <2>2. text \in Samples \/ text = <<>>
        BY DEF EditInit
    <2>3. text \in Seq(Safe)
        <3> DEFINE L == Safe
        <3> HIDE DEF L
        <3>1. <<>> \in Seq(L)
            OBVIOUS
        <3> QED BY <2>1, <2>2, <3>1 DEF L
    <2> QED BY <2>3, EditAssumption DEF EditInit
<1>2. Inv /\ [EditNext]_editVars => Inv'
    BY SafeKept, StepKeeps
<1>3. Inv /\ [EditNext]_editVars =>
          [edits' = edits =>
              LET before == Meaning(text) IN
              \E r \in Requests :
                  Meaning(text') = [before EXCEPT ![r.env].secrets =
                                       @ \cup {Own(n) : n \in Range(r.names)}]]_editVars
    <2> SUFFICES ASSUME Inv, EditNext, edits' = edits
                 PROVE  LET before == Meaning(text) IN
                        \E r \in Requests :
                            Meaning(text') = [before EXCEPT ![r.env].secrets =
                                                 @ \cup {Own(n) : n \in Range(r.names)}]
        BY Zenon
    <2>1. Text(text) /\ \A i \in 1..Len(text) : text[i] \in Safe /\ text[i] \in Line
        <3> DEFINE L == Line
                   S == Safe
        <3>1. S \subseteq L
            BY DEF Safe
        <3>2. text \in Seq(S)
            OBVIOUS
        <3> HIDE DEF L, S
        <3>3. text \in Seq(L) /\ \A i \in 1..Len(text) : text[i] \in S /\ text[i] \in L
            BY <3>1, <3>2
        <3> QED BY <3>3 DEF L, S, Text
    <2>2. ~(AddLine \/ DropLine \/ Reindent \/ Quote)
        <3> SUFFICES ASSUME AddLine \/ DropLine \/ Reindent \/ Quote PROVE FALSE
            OBVIOUS
        <3>1. edits' = edits + 1
            BY DEF AddLine, DropLine, Reindent, Quote, HandEdit
        <3>2. edits \in Nat
            BY EditAssumption
        <3> QED BY <3>1, <3>2
    <2>3. PICK r \in Requests : Import(r.env, r.names)
        BY <2>2 DEF EditNext
    <2>4. r.env \in Envs /\ r.names \in Seq(Names)
        BY EditAssumption
    <2>5. PlainLines \subseteq Line
        BY DEF PlainLines
    <2>6. Adds(Meaning(text), Meaning(text'), r.env, r.names)
        BY <2>1, <2>3, <2>4, <2>5, ImportIs
    <2> QED BY <2>6, Zenon DEF Adds
<1> QED BY <1>1, <1>2, <1>3, PTL DEF EditSpec, EditOnlyAdds

-----------------------------------------------------------------------------
(* Where nothing stands against it, the edit succeeds.                     *)

\* The line that one call of ensure_block adds stands below its block's key,
\* and the text stays well-formed.
LEMMA StageForm ==
    ASSUME NEW old, Text(old), WellFormed(old), NEW i, NEW e, NEW m, NEW key, NEW new, NEW k, NEW f,
           Region(old, i, e, m), Stage(old, i, e, m, key, new, k, f),
           \A j \in Children(old, i) : old[j].indent = m,
           i # 0 => old[i].value = Nothing, new[k].value = Nothing
    PROVE  /\ WellFormed(new) /\ k \in Children(new, i)
           /\ \A y \in {0} \cup Content(old) : y # i =>
                  \A x \in Children(new, f[y]) : \E z \in Children(old, y) : x = f[z]
           /\ IsNew(old, f, k) => Children(new, k) = {}
<1> DEFINE n == Len(old)
           l == Len(new)
<1>1. /\ Text(new) /\ \A x \in 0..i : f[x] = x
      /\ \A x \in 0..l : x = k \/ \E y \in 0..n : x = f[y]
      /\ Level(new, i, k, m)
    BY DEF Stage
<1>2. /\ f \in [0..n -> 0..l] /\ f[0] = 0
      /\ \A x, y \in 0..n : x < y => f[x] < f[y]
      /\ \A x \in 1..n : new[f[x]] = old[x]
      /\ \A x, y \in 0..n : y \in Children(old, x) <=> f[y] \in Children(new, f[x])
      /\ \A x \in 0..l : (\A y \in 0..n : x # f[y]) => \A y \in 0..n : f[y] \notin Children(new, x)
    BY DEF Stage, Grown
<1>3. /\ n \in Nat /\ Content(old) \subseteq 1..n
      /\ \A x : x \in Content(old) <=> x \in 1..n /\ ~blank_or_comment(old[x])
      /\ \A x \in 1..n : old[x].indent \in Nat
    BY TextIs
<1>4. /\ l \in Nat /\ Content(new) \subseteq 1..l
      /\ \A x : x \in Content(new) <=> x \in 1..l /\ ~blank_or_comment(new[x])
      /\ \A x \in 1..l : new[x].indent \in Nat
    BY <1>1, TextIs
<1>5. i \in {0} \cup Content(old) /\ i \in 0..n /\ m \in Nat
    BY <1>3 DEF Region
<1>6. f[i] = i /\ i \in 0..l
    BY <1>1, <1>2, <1>5
<1>7. /\ i \in {0} \cup Content(new) /\ k \in Content(new) /\ k \in 1..l /\ i < k /\ new[k].indent = m
      /\ i # 0 => /\ new[i].indent < m
                  /\ \A x \in Content(new) : i < x /\ x < k => new[i].indent < new[x].indent
    BY <1>1, <1>4 DEF Level
<1>8. i # 0 => i \in 1..n /\ new[i] = old[i]
    BY <1>2, <1>3, <1>5, <1>6
<1>9. /\ \A y \in {0} \cup Content(old) : Children(old, y) \subseteq 1..n
      /\ \A p \in {0} \cup Content(new) : Children(new, p) \subseteq Content(new)
    BY <1>1, <1>3, <1>4, ChildrenAre
<1> HIDE DEF n, l
<1>10. \A x \in Content(new) : x # k => \E y \in Content(old) : x = f[y] /\ y # 0 /\ new[x] = old[y]
    <2> SUFFICES ASSUME NEW x \in Content(new), x # k
                 PROVE  \E y \in Content(old) : x = f[y] /\ y # 0 /\ new[x] = old[y]
        OBVIOUS
    <2>1. x \in 1..l /\ x \in 0..l /\ ~blank_or_comment(new[x])
        BY <1>4
    <2>2. PICK y \in 0..n : x = f[y]
        BY <1>1, <2>1 DEF n, l
    <2>3. y \in 1..n
        BY <2>1, <2>2, <1>2, <1>3
    <2>4. new[x] = old[y]
        BY <2>2, <2>3, <1>2
    <2>5. y \in Content(old)
        BY <2>1, <2>3, <2>4, <1>3
    <2> QED BY <2>2, <2>3, <2>4, <2>5
\* Which lines stand below an old line, the added one aside.
<1>11. ASSUME NEW y \in {0} \cup Content(old), NEW x \in Children(new, f[y]), x # k
       PROVE  \E z \in Children(old, y) : x = f[z] /\ new[x] = old[z]
    <2>1. y \in 0..n /\ f[y] \in 0..l
        BY <1>2, <1>3
    <2>2. f[y] \in {0} \cup Content(new)
        <3>1. CASE y = 0
            BY <3>1, <1>2
        <3>2. CASE y # 0
            <4>1. y \in 1..n /\ new[f[y]] = old[y] /\ ~blank_or_comment(old[y])
                BY <3>2, <1>2, <1>3
            <4>2. f[y] # 0
                <5>1. 0 \in 0..n /\ 0 < y
                    BY <4>1, <1>3
                <5>2. f[0] < f[y]
                    BY <5>1, <2>1, <1>2
                <5> QED BY <5>2, <1>2, <2>1, <1>4
            <4> QED BY <4>1, <4>2, <2>1, <1>4
        <3> QED BY <3>1, <3>2
    <2>3. x \in Content(new)
        BY <2>2, <1>9
    <2>4. PICK z \in Content(old) : x = f[z] /\ new[x] = old[z]
        BY <2>3, <1>10, <1>11
    <2>5. z \in Children(old, y)
        BY <2>1, <2>4, <1>2, <1>3, <1>11
    <2> QED BY <2>4, <2>5
<1>12. k \in Children(new, i)
    <2>1. CASE \E y \in 0..n : k = f[y]
        <3>1. PICK y \in 0..n : k = f[y]
            BY <2>1
        <3>2. y \in 1..n
            BY <3>1, <1>2, <1>3, <1>7
        <3>3. new[k] = old[y]
            BY <3>1, <3>2, <1>2
        <3>4. \A x \in Children(new, i) : new[x].indent = m
            <4> SUFFICES ASSUME NEW x \in Children(new, i) PROVE new[x].indent = m
                OBVIOUS
            <4>1. CASE x = k
                BY <4>1, <1>7
            <4>2. CASE x # k
                BY <4>2, <1>5, <1>6, <1>11
            <4> QED BY <4>1, <4>2
        <3>5. Uniform(new, i)
            BY <3>4 DEF Uniform
        <3> QED BY <3>5, <1>1, <1>5, LevelChild
    <2>2. CASE \A y \in 0..n : k # f[y]
        <3> DEFINE Short == {y \in Content(old) : i < y /\ f[y] < k /\ old[y].indent < m}
        <3>1. Short = {}
            <4> SUFFICES ASSUME Short # {} PROVE FALSE
                OBVIOUS
            <4>1. Short \in SUBSET Nat
                BY <1>3
            <4>2. PICK x \in Short : \A y \in Short : x =< y
                BY <4>1, HasMinimum
            <4>3. x \in Content(old) /\ x \in 1..n /\ i < x /\ f[x] < k /\ old[x].indent < m /\ old[x].indent \in Nat
                BY <4>2, <1>3
            <4>4. \A y \in Content(old) : i < y /\ y < x => old[y].indent >= old[x].indent
                <5> SUFFICES ASSUME NEW y \in Content(old), i < y, y < x PROVE old[y].indent >= old[x].indent
                    OBVIOUS
                <5>1. y \in 1..n /\ old[y].indent \in Nat /\ y \notin Short
                    BY <4>2, <4>3, <1>3
                <5>2. f[y] < f[x] /\ f[x] \in 0..l /\ f[y] \in 0..l
                    BY <5>1, <4>3, <1>2
                <5>3. f[y] < k
                    BY <5>2, <4>3, <1>4, <1>7
                <5> QED BY <5>1, <5>3, <4>3, <1>5
            <4> HIDE DEF Short
            <4>5. i # 0 => old[i].indent < old[x].indent
                <5> SUFFICES ASSUME i # 0 PROVE old[i].indent < old[x].indent
                    OBVIOUS
                <5>1. f[i] < f[x] /\ f[x] \in 0..l /\ new[f[x]] = old[x]
                    BY <4>3, <1>2, <1>5
                <5>2. f[x] \in Content(new)
                    BY <5>1, <4>3, <1>3, <1>4, <1>5, <1>6
                <5> QED BY <5>1, <5>2, <4>3, <1>6, <1>7, <1>8
            <4>6. x \in Children(old, i)
                BY <4>3, <4>4, <4>5, <1>5, ChildIs DEF Below, n
            <4> QED BY <4>3, <4>6, <1>5
        <3>2. \A x \in Content(new) : i < x /\ x < k => new[x].indent >= new[k].indent
            <4> SUFFICES ASSUME NEW x \in Content(new), i < x, x < k PROVE new[x].indent >= new[k].indent
                OBVIOUS
            <4>1. PICK y \in Content(old) : x = f[y] /\ new[x] = old[y]
                BY <1>4, <1>7, <1>10
            <4>2. y \in 1..n /\ old[y].indent \in Nat
                BY <1>3
            <4>3. i < y
                <5>1. y <= i => f[y] = y
                    BY <4>2, <1>1, <1>3, <1>5
                <5> QED BY <5>1, <4>1, <4>2, <1>5
            <4> QED BY <4>1, <4>2, <4>3, <3>1, <1>5, <1>7
        <3> HIDE DEF Short
        <3>3. Below(new, i, k)
            BY <3>2, <1>7 DEF Below
        <3> QED BY <3>3, <1>1, <1>6, ChildIs DEF l
    <2> QED BY <2>1, <2>2
<1>13. ASSUME NEW y \in {0} \cup Content(old), y # i, NEW x \in Children(new, f[y])
       PROVE  \E z \in Children(old, y) : x = f[z] /\ new[x] = old[z]
    <2>1. y \in 0..n /\ f[y] # f[i]
        <3>1. y \in 0..n /\ (y < i \/ i < y)
            BY <1>3, <1>5, <1>13
        <3>2. f[y] < f[i] \/ f[i] < f[y]
            BY <3>1, <1>2, <1>5
        <3>3. f[y] \in Nat /\ f[i] \in Nat
            BY <3>1, <1>2, <1>4, <1>5
        <3> QED BY <3>1, <3>2, <3>3
    <2>2. f[y] \in {0} \cup Content(new)
        <3>1. CASE y = 0
            BY <3>1, <1>2
        <3>2. CASE y # 0
            <4>1. y \in 1..n /\ new[f[y]] = old[y] /\ ~blank_or_comment(old[y])
                BY <3>2, <1>2, <1>3
            <4>2. f[0] < f[y] /\ f[y] \in 0..l
                BY <4>1, <2>1, <1>2, <1>3
            <4> QED BY <4>1, <4>2, <1>2, <1>4
        <3> QED BY <3>1, <3>2
    <2>3. x # k
        <3> SUFFICES ASSUME x = k PROVE FALSE
            OBVIOUS
        <3>1. f[y] = i
            BY <2>2, <1>1, <1>7, <1>12, <1>13, OneParent
        <3> QED BY <3>1, <2>1, <1>6
    <2> QED BY <2>3, <1>11, <1>13
<1>14. ASSUME IsNew(old, f, k) PROVE Children(new, k) = {}
    <2> SUFFICES ASSUME NEW x \in Children(new, k) PROVE FALSE
        OBVIOUS
    <2>1. x \in Content(new) /\ k < x
        BY <1>1, <1>7, ChildrenAre DEF l
    <2>2. PICK z \in Content(old) : x = f[z]
        BY <2>1, <1>4, <1>7, <1>10
    <2>3. z \in 0..n /\ k \in 0..l
        BY <1>3, <1>7
    <2>4. f[z] \notin Children(new, k)
        BY <2>3, <1>2, <1>14 DEF IsNew, n
    <2> QED BY <2>2, <2>4
<1>15. ASSUME NEW p \in {0} \cup Content(new)
       PROVE  /\ \A a, b \in Children(new, p) : new[a].indent = new[b].indent
              /\ p # 0 /\ Children(new, p) # {} => new[p].value = Nothing
    <2>1. CASE p = i
        <3>1. \A x \in Children(new, i) : new[x].indent = m
            <4> SUFFICES ASSUME NEW x \in Children(new, i) PROVE new[x].indent = m
                OBVIOUS
            <4>1. CASE x = k
                BY <4>1, <1>7
            <4>2. CASE x # k
                BY <4>2, <1>5, <1>6, <1>11
            <4> QED BY <4>1, <4>2
        <3> QED BY <2>1, <3>1, <1>8
    <2>2. CASE p # i /\ \E y \in {0} \cup Content(old) : p = f[y]
        <3>1. PICK y \in {0} \cup Content(old) : p = f[y]
            BY <2>2
        <3>2. y # i
            BY <2>2, <3>1, <1>6
        <3>3. \A x \in Children(new, p) : \E z \in Children(old, y) : x = f[z] /\ new[x] = old[z]
            BY <3>1, <3>2, <1>13
        <3>4. /\ \A a, b \in Children(old, y) : old[a].indent = old[b].indent
              /\ y # 0 /\ Children(old, y) # {} => old[y].value = Nothing
            BY DEF WellFormed
        <3>5. p # 0 => y # 0 /\ new[p] = old[y]
            BY <3>1, <1>2, <1>3
        <3> QED BY <3>3, <3>4, <3>5
    <2>3. CASE p = k /\ IsNew(old, f, k)
        BY <2>3, <1>14
    <2>4. p = 0 \/ p = k \/ \E y \in Content(old) : p = f[y]
        BY <1>10
    <2>5. CASE p = k /\ ~IsNew(old, f, k)
        <3>1. PICK y \in 0..n : k = f[y]
            BY <2>5 DEF IsNew, n
        <3>2. y \in 1..n
            BY <3>1, <1>2, <1>3, <1>7
        <3>3. y \in Content(old)
            BY <3>1, <3>2, <1>2, <1>3, <1>4, <1>7
        <3>4. p # i
            BY <2>5, <1>7, <1>5
        <3> QED BY <2>2, <2>5, <3>1, <3>3, <3>4
    <2>6. CASE p = 0
        BY <2>1, <2>2, <2>6, <1>2
    <2> QED BY <2>1, <2>2, <2>3, <2>4, <2>5, <2>6
<1>16. WellFormed(new)
    BY <1>15 DEF WellFormed
<1> QED BY <1>12, <1>13, <1>14, <1>16

\* What is below line i has this indentation.
Even(lines, i, m) == \A j \in Children(lines, i) : lines[j].indent = m

\* A block that can be extended.
Plainly(lines, j) == lines[j].kind = "plain" /\ lines[j].value = Nothing

\* Where keys of this name below line i are blocks that can be extended,
\* ensure_block succeeds and leaves the text well-formed.
LEMMA EnsureForm ==
    ASSUME NEW lines, Text(lines), WellFormed(lines), NEW i, NEW e, NEW m, NEW key \in Words,
           NEW step \in Nat, step # 0, Region(lines, i, e, m), Lead(lines, i, e, m), Even(lines, i, m),
           i # 0 => lines[i].value = Nothing,
           \A j \in Children(lines, i) : lines[j].key = key => Plainly(lines, j)
    PROVE  LET b == ensure_block(lines, i + 1, e, m, step, key) IN
           /\ b.ok /\ b.lines[b.key_line].value = Nothing
           /\ \E f : Stage(lines, i, e, m, key, b.lines, b.key_line, f)
           /\ Region(b.lines, b.key_line, b.end, b.entry_indent)
           /\ Lead(b.lines, b.key_line, b.end, b.entry_indent)
<1> DEFINE b == ensure_block(lines, i + 1, e, m, step, key)
           F == {j \in Content(lines) \cap ((i + 1)..(e - 1)) :
                    lines[j].indent = m /\ lines[j].kind = "plain" /\ lines[j].key = key}
           found == find_child(lines, i + 1, e, m, key)
           at == IF found = 0 THEN insert_point(lines, i + 1, e, m) ELSE found
           now == IF found = 0 THEN InsertAt(lines, at, Key(m, key, Nothing)) ELSE lines
           stop == block_end(now, at, m)
           c == child_indent(now, at + 1, stop)
           d == IF c < 0 THEN m + step ELSE c
<1>1. b = IF now[at].value # Nothing THEN Throws
          ELSE [ok |-> TRUE, lines |-> now, key_line |-> at, end |-> stop, entry_indent |-> d]
    BY DEF ensure_block
<1>2. found = IF F = {} THEN 0 ELSE Min(F)
    BY DEF find_child
<1> HIDE DEF b, found
<1>6. Len(lines) \in Nat /\ Content(lines) \subseteq 1..Len(lines)
    BY TextIs
<1>7. i \in {0} \cup Content(lines) /\ e \in (i + 1)..(Len(lines) + 1) /\ m \in Nat
    BY DEF Region
<1>8. now[at].value = Nothing
    <2>1. CASE F = {}
        <3> DEFINE l == Key(m, key, Nothing)
                   p == insert_point(lines, i + 1, e, m)
                   new == InsertAt(lines, p, l)
        <3>1. found = 0
            BY <2>1, <1>2
        <3>2. Nothing \in Values
            BY DEF Values
        <3>3. l \in Line /\ l.value = Nothing
            BY <1>7, <3>2, KeyLine
        <3>4. p \in (i + 1)..e
            BY <1>7, InsertPoint
        <3>5. p \in 1..(Len(lines) + 1) /\ p - 1 + 1 = p
            BY <3>4, <1>6, <1>7
        <3>6. at = p /\ now = new
            BY <3>1
        <3> HIDE DEF l, p
        <3>7. Text(<<l>>) /\ Len(<<l>>) = 1 /\ <<l>>[1] = l /\ new = InsertAll(lines, p, <<l>>)
            BY <3>3, OneLine
        <3>8. Joined(lines, p, <<l>>, new)
            BY <3>5, <3>7, InsertIs
        <3> HIDE DEF new
        <3>9. new[p - 1 + 1] = <<l>>[1]
            BY <3>7, <3>8 DEF Joined
        <3> QED BY <3>3, <3>5, <3>6, <3>7, <3>9
    <2>2. CASE F # {}
        <3>0. F \in SUBSET Nat
            BY <1>6
        <3>1. found \in F
            BY <3>0, <2>2, <1>2, HasMinimum
        <3>2. found \in Content(lines) /\ i < found /\ found < e /\ found # 0
              /\ lines[found].indent = m /\ lines[found].kind = "plain" /\ lines[found].key = key
            BY <3>1, <1>6, <1>7
        <3>3. Stage(lines, i, e, m, key, lines, found, [x \in 0..Len(lines) |-> x])
            BY <3>2, StageFound
        <3>4. Level(lines, i, found, m)
            BY <3>3 DEF Stage
        <3>5. Uniform(lines, i)
            BY DEF Even, Uniform
        <3>6. found \in Children(lines, i)
            BY <3>4, <3>5, <1>7, LevelChild
        <3>7. lines[found].value = Nothing
            BY <3>2, <3>6 DEF Plainly
        <3> QED BY <3>2, <3>7
    <2> QED BY <2>1, <2>2
<1>9. b = [ok |-> TRUE, lines |-> now, key_line |-> at, end |-> stop, entry_indent |-> d]
    BY <1>1, <1>8
<1>10. b.ok /\ b.lines = now /\ b.key_line = at
    BY <1>9
<1> HIDE DEF now, at
<1>11. b.lines[b.key_line].value = Nothing
    BY <1>8, <1>10
<1>12. /\ \E f : Stage(lines, i, e, m, key, b.lines, b.key_line, f)
       /\ Region(b.lines, b.key_line, b.end, b.entry_indent)
       /\ Lead(b.lines, b.key_line, b.end, b.entry_indent)
    BY <1>10, Ensure DEF b
<1> QED BY <1>10, <1>11, <1>12 DEF b

\* How a well-formed text grows by the block on line k below line i.
Carried(old, i, new, k, f) ==
    /\ Text(old) /\ Text(new) /\ Grown(old, new, f) /\ WellFormed(new)
    /\ i \in {0} \cup Content(old) /\ f[i] = i /\ k \in Children(new, i)
    /\ \A y \in {0} \cup Content(old) : y # i =>
           \A x \in Children(new, f[y]) : \E z \in Children(old, y) : x = f[z]
    /\ IsNew(old, f, k) => Children(new, k) = {}

\* One call of ensure_block is such a growth.
LEMMA StageCarries ==
    ASSUME NEW old, Text(old), WellFormed(old), NEW i, NEW e, NEW m, NEW key, NEW new, NEW k, NEW f,
           Region(old, i, e, m), Stage(old, i, e, m, key, new, k, f), Even(old, i, m),
           i # 0 => old[i].value = Nothing, new[k].value = Nothing
    PROVE  Carried(old, i, new, k, f)
<1>1. /\ WellFormed(new) /\ k \in Children(new, i)
      /\ \A y \in {0} \cup Content(old) : y # i =>
             \A x \in Children(new, f[y]) : \E z \in Children(old, y) : x = f[z]
      /\ IsNew(old, f, k) => Children(new, k) = {}
    BY StageForm DEF Even
<1>2. Text(new) /\ Grown(old, new, f) /\ f[i] = i /\ i \in {0} \cup Content(old)
    <2>1. i \in {0} \cup Content(old)
        BY DEF Region
    <2>2. i \in 0..i
        BY <2>1, TextIs
    <2> QED BY <2>1, <2>2 DEF Stage
<1> QED BY <1>1, <1>2 DEF Carried

\* Blocks that can be extended all the way to the entries for these names.
Way4(lines, i, ns) == \A j \in Children(lines, i) : lines[j].key \in ns => Plainly(lines, j)
Way3(lines, i, ns) ==
    \A j \in Children(lines, i) : lines[j].key = "secrets" => Plainly(lines, j) /\ Way4(lines, j, ns)
Way2(lines, i, env, ns) ==
    \A j \in Children(lines, i) : lines[j].key = env => Plainly(lines, j) /\ Way3(lines, j, ns)
Way1(lines, env, ns) ==
    \A j \in Children(lines, 0) : lines[j].key = "env" => Plainly(lines, j) /\ Way2(lines, j, env, ns)

\* A child after a line that is extended is the same line as before.
LEMMA CarriedChild ==
    ASSUME NEW old, NEW i, NEW new, NEW k, NEW f, Carried(old, i, new, k, f),
           NEW y \in Content(old), i < y, NEW x \in Children(new, f[y])
    PROVE  \E z \in Children(old, y) : x = f[z] /\ new[x] = old[z] /\ z \in Content(old) /\ i < z
<1>1. /\ Text(old) /\ i \in {0} \cup Content(old)
      /\ \A u \in {0} \cup Content(old) : u # i =>
             \A v \in Children(new, f[u]) : \E z \in Children(old, u) : v = f[z]
      /\ \A u \in 1..Len(old) : new[f[u]] = old[u]
    BY DEF Carried, Grown
<1>2. Len(old) \in Nat /\ Content(old) \subseteq 1..Len(old)
    BY <1>1, TextIs
<1>3. y # i /\ y \in 0..Len(old)
    BY <1>1, <1>2
<1>4. PICK z \in Children(old, y) : x = f[z]
    BY <1>1, <1>3
<1>5. z \in Content(old) /\ z \in 1..Len(old) /\ y < z
    BY <1>1, <1>3, <1>4, ChildrenAre
<1> QED BY <1>1, <1>2, <1>4, <1>5

\* A path below an extended line is as open as it was.
LEMMA WayCarried ==
    ASSUME NEW old, NEW i, NEW new, NEW k, NEW f, Carried(old, i, new, k, f),
           NEW env, NEW ns, NEW y \in Content(old), i < y
    PROVE  /\ Way4(old, y, ns) => Way4(new, f[y], ns)
           /\ Way3(old, y, ns) => Way3(new, f[y], ns)
           /\ Way2(old, y, env, ns) => Way2(new, f[y], env, ns)
<1>1. ASSUME NEW u \in Content(old), i < u, Way4(old, u, ns) PROVE Way4(new, f[u], ns)
    <2> SUFFICES ASSUME NEW x \in Children(new, f[u]), new[x].key \in ns PROVE Plainly(new, x)
        BY DEF Way4
    <2>1. PICK z \in Children(old, u) : x = f[z] /\ new[x] = old[z]
        BY <1>1, CarriedChild
    <2>2. Plainly(old, z)
        BY <1>1, <2>1 DEF Way4
    <2> QED BY <2>1, <2>2 DEF Plainly
<1>2. ASSUME NEW u \in Content(old), i < u, Way3(old, u, ns) PROVE Way3(new, f[u], ns)
    <2> SUFFICES ASSUME NEW x \in Children(new, f[u]), new[x].key = "secrets"
                 PROVE  Plainly(new, x) /\ Way4(new, x, ns)
        BY DEF Way3
    <2>1. PICK z \in Children(old, u) : x = f[z] /\ new[x] = old[z] /\ z \in Content(old) /\ i < z
        BY <1>2, CarriedChild
    <2>2. Plainly(old, z) /\ Way4(old, z, ns)
        BY <1>2, <2>1 DEF Way3
    <2>3. Way4(new, x, ns)
        BY <1>1, <2>1, <2>2
    <2> QED BY <2>1, <2>2, <2>3 DEF Plainly
<1>3. ASSUME NEW u \in Content(old), i < u, Way2(old, u, env, ns) PROVE Way2(new, f[u], env, ns)
    <2> SUFFICES ASSUME NEW x \in Children(new, f[u]), new[x].key = env
                 PROVE  Plainly(new, x) /\ Way3(new, x, ns)
        BY DEF Way2
    <2>1. PICK z \in Children(old, u) : x = f[z] /\ new[x] = old[z] /\ z \in Content(old) /\ i < z
        BY <1>3, CarriedChild
    <2>2. Plainly(old, z) /\ Way3(old, z, ns)
        BY <1>3, <2>1 DEF Way2
    <2>3. Way3(new, x, ns)
        BY <1>2, <2>1, <2>2
    <2> QED BY <2>1, <2>2, <2>3 DEF Plainly
<1> QED BY <1>1, <1>2, <1>3

\* The block's key is new and has nothing below it, or it is an old child of
\* line i.
LEMMA CarriedKey ==
    ASSUME NEW old, NEW i, NEW new, NEW k, NEW f, Carried(old, i, new, k, f)
    PROVE  \/ Children(new, k) = {} /\ IsNew(old, f, k)
           \/ \E y \in Children(old, i) : k = f[y] /\ new[k] = old[y] /\ y \in Content(old) /\ i < y
<1>1. /\ Text(old) /\ Text(new) /\ i \in {0} \cup Content(old) /\ f[i] = i /\ k \in Children(new, i)
      /\ f[0] = 0
      /\ \A x, y \in 0..Len(old) : y \in Children(old, x) <=> f[y] \in Children(new, f[x])
      /\ \A u \in 1..Len(old) : new[f[u]] = old[u]
      /\ IsNew(old, f, k) => Children(new, k) = {}
    BY DEF Carried, Grown
<1>2. Len(old) \in Nat /\ Content(old) \subseteq 1..Len(old)
    BY <1>1, TextIs
<1>3. ASSUME ~IsNew(old, f, k)
      PROVE  \E y \in Children(old, i) : k = f[y] /\ new[k] = old[y] /\ y \in Content(old) /\ i < y
    <2>1. PICK y \in 0..Len(old) : k = f[y]
        BY <1>3 DEF IsNew
    <2>2. i \in 0..Len(old)
        BY <1>1, <1>2
    <2>3. y \in Children(old, i)
        BY <1>1, <2>1, <2>2
    <2>4. y \in Content(old) /\ y \in 1..Len(old) /\ i < y
        BY <1>1, <2>2, <2>3, ChildrenAre
    <2> QED BY <1>1, <2>1, <2>3, <2>4
<1> QED BY <1>1, <1>3

\* No key is there twice.
Unique(lines) ==
    \A i \in {0} \cup Content(lines) : \A j, k \in Children(lines, i) :
        lines[j].key = lines[k].key => j = k

\* ensure_block adds a key only where it is missing.
LEMMA StageUnique ==
    ASSUME NEW old, Text(old), Unique(old), NEW i, NEW e, NEW m, NEW key, NEW new, NEW k, NEW f,
           Region(old, i, e, m), Stage(old, i, e, m, key, new, k, f), Even(old, i, m),
           Carried(old, i, new, k, f),
           \A j \in Children(old, i) : old[j].key = key => Plainly(old, j)
    PROVE  Unique(new)
<1> DEFINE n == Len(old)
           l == Len(new)
<1>1. /\ Text(new) /\ new[k].key = key
      /\ \A x \in 0..l : x = k \/ \E y \in 0..n : x = f[y]
      /\ (\A y \in 0..n : k # f[y]) =>
           \A j \in Content(old) : i < j /\ j < e =>
               f[j] < k /\ ~(old[j].kind = "plain" /\ old[j].indent = m /\ old[j].key = key)
    BY DEF Stage
<1>2. /\ f \in [0..n -> 0..l] /\ f[0] = 0
      /\ \A x \in 1..n : new[f[x]] = old[x]
      /\ \A x, y \in 0..n : y \in Children(old, x) <=> f[y] \in Children(new, f[x])
    BY DEF Stage, Grown
<1>3. /\ i \in {0} \cup Content(old) /\ f[i] = i /\ k \in Children(new, i)
      /\ IsNew(old, f, k) => Children(new, k) = {}
    BY DEF Carried
<1>4. /\ n \in Nat /\ Content(old) \subseteq 1..n /\ l \in Nat /\ Content(new) \subseteq 1..l
      /\ \A x : x \in Content(old) <=> x \in 1..n /\ ~blank_or_comment(old[x])
      /\ \A x : x \in Content(new) <=> x \in 1..l /\ ~blank_or_comment(new[x])
    BY <1>1, TextIs
<1>5. /\ \A y \in 0..n : Children(old, y) \subseteq Content(old)
      /\ \A y \in 0..l : Children(new, y) \subseteq Content(new)
    BY <1>1, ChildrenAre
<1> HIDE DEF n, l
\* Children of an old line.
<1>6. ASSUME NEW y \in 0..n, NEW x \in Children(new, f[y])
      PROVE  x = k \/ \E z \in Children(old, y) : x = f[z] /\ new[x] = old[z]
    <2>1. f[y] \in 0..l
        BY <1>2
    <2>2. x \in 1..l
        BY <2>1, <1>4, <1>5
    <2>3. x = k \/ \E z \in 0..n : x = f[z]
        BY <2>2, <1>1 DEF n, l
    <2>4. ASSUME NEW z \in 0..n, x = f[z] PROVE z \in Children(old, y) /\ new[x] = old[z]
        <3>1. z \in Children(old, y)
            BY <2>4, <1>2, <1>6
        <3> QED BY <3>1, <2>4, <1>2, <1>4, <1>5
    <2> QED BY <2>3, <2>4
<1>7. k \in Content(new) /\ i \in 0..n /\ i \in 0..l
    BY <1>2, <1>3, <1>4, <1>5
<1>10. i \in {0} \cup Content(new)
    <2>1. CASE i # 0
        <3>1. i \in 1..n /\ new[i] = old[i] /\ ~blank_or_comment(old[i])
            BY <2>1, <1>2, <1>3, <1>4
        <3> QED BY <3>1, <1>4, <1>7
    <2> QED BY <2>1
\* A new line has a key of its own.
<1>8. ASSUME IsNew(old, f, k), NEW z \in Children(old, i) PROVE old[z].key # key
    <2> SUFFICES ASSUME old[z].key = key PROVE FALSE
        OBVIOUS
    <2>1. old[z].kind = "plain" /\ old[z].indent = m
        BY DEF Plainly, Even
    <2>2. i < z /\ z < e /\ z \in Content(old)
        BY <1>5, <1>7, RegionChildren
    <2>3. \A y \in 0..n : k # f[y]
        BY <1>8 DEF IsNew, n
    <2> QED BY <2>1, <2>2, <2>3, <1>1 DEF n
<1>9. ASSUME NEW p \in {0} \cup Content(new), NEW a \in Children(new, p), NEW b \in Children(new, p),
             new[a].key = new[b].key
      PROVE  a = b
    <2>1. CASE p = k /\ IsNew(old, f, k)
        BY <2>1, <1>3, <1>9
    <2>2. ASSUME NEW y \in {0} \cup Content(old), p = f[y] PROVE a = b
        <3>1. y \in 0..n
            BY <1>4
        <3>2. \A u, v \in Children(old, y) : old[u].key = old[v].key => u = v
            BY DEF Unique
        <3>3. /\ a = k \/ \E z \in Children(old, y) : a = f[z] /\ new[a] = old[z]
              /\ b = k \/ \E z \in Children(old, y) : b = f[z] /\ new[b] = old[z]
            BY <3>1, <2>2, <1>6, <1>9
        <3>4. CASE \E z \in 0..n : k = f[z]
            <4>1. PICK z \in 0..n : k = f[z]
                BY <3>4
            <4>2. k \in Children(new, p) => z \in Children(old, y) /\ new[k] = old[z]
                BY <3>1, <4>1, <2>2, <1>2, <1>4, <1>5
            <4> QED BY <3>2, <3>3, <4>1, <4>2, <1>9
        <3>5. CASE \A z \in 0..n : k # f[z]
            <4>1. IsNew(old, f, k)
                BY <3>5 DEF IsNew, n
            <4>2. CASE a = k \/ b = k
                <5>1. p = i
                    BY <4>2, <1>1, <1>3, <1>9, <1>10, OneParent
                <5>2. y = i
                    <6>1. f[y] = f[i]
                        BY <5>1, <2>2, <1>3
                    <6>2. \A u, v \in 0..n : u < v => f[u] < f[v]
                        BY DEF Stage, Grown, n
                    <6>3. f[y] \in Nat /\ f[i] \in Nat /\ ~(y < i) /\ ~(i < y)
                        BY <6>1, <6>2, <3>1, <1>2, <1>4, <1>7
                    <6> QED BY <6>3, <3>1, <1>7
                <5>3. \A z \in Children(old, y) : old[z].key # key
                    BY <4>1, <5>2, <1>8
                <5> QED BY <3>3, <4>2, <5>3, <1>1, <1>9
            <4>3. CASE a # k /\ b # k
                BY <3>2, <3>3, <4>3, <1>9
            <4> QED BY <4>2, <4>3
        <3> QED BY <3>4, <3>5
    <2>3. CASE p = 0
        BY <2>2, <2>3, <1>2
    <2>4. CASE p # 0 /\ ~(p = k /\ IsNew(old, f, k))
        <3>1. p \in 1..l
            BY <2>4, <1>4
        <3>2. PICK y \in 0..n : p = f[y]
            BY <2>4, <3>1, <1>1 DEF IsNew, n, l
        <3>3. y \in 1..n
            BY <2>4, <3>2, <1>2, <1>4
        <3>4. y \in Content(old)
            BY <3>2, <3>3, <2>4, <1>2, <1>4
        <3> QED BY <3>2, <3>4, <2>2
    <2> QED BY <2>1, <2>3, <2>4
<1> QED BY <1>9 DEF Unique

\* What is below a block's key is evenly indented.
LEMMA NextBlock ==
    ASSUME NEW lines, Text(lines), WellFormed(lines), NEW k, k # 0, NEW e, NEW m,
           Region(lines, k, e, m), Lead(lines, k, e, m)
    PROVE  Even(lines, k, m)
<1>1. k \in Content(lines) /\ lines[k].indent < m /\ m \in Nat
    BY DEF Region
<1>2. lines[k].indent \in Nat
    BY <1>1, TextIs
<1>3. m # 0
    BY <1>1, <1>2
<1>4. Uniform(lines, k)
    BY <1>1 DEF WellFormed, Uniform
<1> QED BY <1>3, <1>4, LeadChildren DEF Even

\* The entries stand below the block's key, and the text stays well-formed.
LEMMA FillForm ==
    ASSUME NEW old, Text(old), WellFormed(old), NEW k \in Content(old), NEW m \in Nat, NEW ns, NEW new, NEW f, NEW E,
           Filled(old, k, m, ns, new, f, E), Even(old, k, m), old[k].value = Nothing
    PROVE  /\ WellFormed(new) /\ E \subseteq Children(new, k)
           /\ \A y \in {0} \cup Content(old) : \A x \in Children(new, f[y]) :
                 (x \in E /\ y = k) \/ \E z \in Children(old, y) : x = f[z] /\ new[x] = old[z]
<1> DEFINE n == Len(old)
           l == Len(new)
<1>1. /\ Text(new) /\ \A x \in 0..k : f[x] = x
      /\ E \subseteq Content(new)
      /\ \A x \in 0..l : \/ \E y \in 0..n : x = f[y]
                         \/ x \in E
                         \/ \E i \in E : x \in Children(new, i)
      /\ \A i \in E : \A y \in 0..n : i # f[y]
      /\ \A i \in E : Level(new, k, i, m) /\ Imported(new, i)
    BY DEF Filled
<1>2. /\ f \in [0..n -> 0..l] /\ f[0] = 0
      /\ \A x, y \in 0..n : x < y => f[x] < f[y]
      /\ \A x \in 1..n : new[f[x]] = old[x]
      /\ \A x, y \in 0..n : y \in Children(old, x) <=> f[y] \in Children(new, f[x])
    BY DEF Filled, Grown
<1>3. /\ n \in Nat /\ Content(old) \subseteq 1..n /\ l \in Nat /\ Content(new) \subseteq 1..l
      /\ \A x : x \in Content(old) <=> x \in 1..n /\ ~blank_or_comment(old[x])
      /\ \A x : x \in Content(new) <=> x \in 1..l /\ ~blank_or_comment(new[x])
    BY <1>1, TextIs
<1>4. /\ \A y \in 0..n : Children(old, y) \subseteq Content(old)
      /\ \A y \in 0..l : Children(new, y) \subseteq Content(new)
    BY <1>1, ChildrenAre
<1> HIDE DEF n, l
<1>5. f[k] = k /\ k \in 1..n /\ k \in 1..l /\ k \in Content(new) /\ new[k] = old[k]
    <2>1. k \in 1..n /\ k \in 0..k
        BY <1>3
    <2>2. f[k] = k /\ f[k] \in 0..l /\ new[k] = old[k]
        BY <2>1, <1>1, <1>2, <1>3
    <2> QED BY <2>1, <2>2, <1>3
<1>6. \A i \in E : /\ new[i].value = Nothing /\ new[i].indent = m /\ k < i
                   /\ \E x \in Content(new) : Children(new, i) = {x} /\ Children(new, x) = {}
    BY <1>1 DEF Imported, Level
\* The lines below an old one are old, or entries, or below entries.
<1>7. ASSUME NEW y \in {0} \cup Content(old), NEW x \in Children(new, f[y])
      PROVE  x \in E \/ \E z \in Children(old, y) : x = f[z] /\ new[x] = old[z]
    <2>1. y \in 0..n /\ f[y] \in 0..l /\ f[y] \in {0} \cup Content(new)
        <3>1. y \in 0..n /\ f[y] \in 0..l
            BY <1>2, <1>3
        <3>2. CASE y = 0
            BY <3>1, <3>2, <1>2
        <3>3. CASE y # 0
            <4>1. y \in 1..n /\ new[f[y]] = old[y] /\ ~blank_or_comment(old[y])
                BY <3>3, <1>2, <1>3
            <4>2. f[0] < f[y]
                BY <4>1, <1>2, <1>3
            <4> QED BY <4>1, <4>2, <3>1, <1>2, <1>3
        <3> QED BY <3>1, <3>2, <3>3
    <2>2. x \in 1..l
        BY <2>1, <1>3, <1>4
    <2>3. ASSUME NEW i \in E, x \in Children(new, i) PROVE FALSE
        <3>1. i \in Content(new)
            BY <1>1
        <3>2. i = f[y]
            BY <3>1, <2>1, <2>3, <1>1, <1>7, OneParent
        <3> QED BY <3>2, <2>1, <1>1 DEF n
    <2>4. x \in E \/ \E z \in 0..n : x = f[z]
        BY <2>2, <2>3, <1>1 DEF n, l
    <2>5. ASSUME NEW z \in 0..n, x = f[z] PROVE z \in Children(old, y) /\ new[x] = old[z]
        <3>1. z \in Children(old, y)
            BY <2>1, <2>5, <1>2, <1>7
        <3> QED BY <3>1, <2>1, <2>5, <1>2, <1>3, <1>4
    <2> QED BY <2>4, <2>5
<1>8. \A x \in Children(new, k) : new[x].indent = m
    <2> SUFFICES ASSUME NEW x \in Children(new, k) PROVE new[x].indent = m
        OBVIOUS
    <2>1. x \in E \/ \E z \in Children(old, k) : x = f[z] /\ new[x] = old[z]
        BY <1>5, <1>7
    <2> QED BY <2>1, <1>6 DEF Even
<1>9. E \subseteq Children(new, k)
    <2>1. Uniform(new, k)
        BY <1>8 DEF Uniform
    <2> QED BY <2>1, <1>1, LevelChild
<1>10. ASSUME NEW y \in {0} \cup Content(old), NEW x \in Children(new, f[y])
       PROVE  (x \in E /\ y = k) \/ \E z \in Children(old, y) : x = f[z] /\ new[x] = old[z]
    <2>1. CASE x \in E
        <3>1. y \in 0..n /\ f[y] \in 0..l
            BY <1>2, <1>3
        <3>2. f[y] \in {0} \cup Content(new)
            <4>1. CASE y = 0
                BY <4>1, <1>2
            <4>2. CASE y # 0
                <5>1. y \in 1..n /\ new[f[y]] = old[y] /\ ~blank_or_comment(old[y])
                    BY <4>2, <1>2, <1>3
                <5>2. f[0] < f[y]
                    BY <5>1, <1>2, <1>3
                <5> QED BY <5>1, <5>2, <3>1, <1>2, <1>3
            <4> QED BY <4>1, <4>2
        <3>3. f[y] = k
            BY <2>1, <3>2, <1>1, <1>5, <1>9, <1>10, OneParent
        <3>4. f[y] \in Nat /\ f[k] \in Nat /\ ~(y < k) /\ ~(k < y)
            BY <3>1, <3>3, <1>2, <1>3, <1>5
        <3> QED BY <2>1, <3>1, <3>4, <1>5
    <2> QED BY <2>1, <1>7, <1>10
<1>11. ASSUME NEW p \in {0} \cup Content(new)
       PROVE  /\ \A a, b \in Children(new, p) : new[a].indent = new[b].indent
              /\ p # 0 /\ Children(new, p) # {} => new[p].value = Nothing
    <2>1. CASE p = k
        BY <2>1, <1>5, <1>8
    <2>2. ASSUME NEW y \in {0} \cup Content(old), p = f[y], p # k
          PROVE  /\ \A a, b \in Children(new, p) : new[a].indent = new[b].indent
                 /\ p # 0 /\ Children(new, p) # {} => new[p].value = Nothing
        <3>1. y # k
            BY <2>2, <1>5
        <3>2. \A x \in Children(new, p) : \E z \in Children(old, y) : x = f[z] /\ new[x] = old[z]
            BY <2>2, <3>1, <1>10
        <3>3. /\ \A a, b \in Children(old, y) : old[a].indent = old[b].indent
              /\ y # 0 /\ Children(old, y) # {} => old[y].value = Nothing
            BY DEF WellFormed
        <3>4. p # 0 => y # 0 /\ new[p] = old[y]
            BY <2>2, <1>2, <1>3
        <3> QED BY <3>2, <3>3, <3>4
    <2>3. CASE p \in E
        BY <2>3, <1>6
    <2>4. CASE \E i \in E : p \in Children(new, i)
        BY <2>4, <1>6
    <2>5. \/ p \in E \/ \E i \in E : p \in Children(new, i)
          \/ \E y \in {0} \cup Content(old) : p = f[y]
        <3>1. p = 0 \/ (p \in 1..l /\ ~blank_or_comment(new[p]))
            BY <1>3
        <3>2. ASSUME NEW y \in 0..n, p = f[y] PROVE y \in {0} \cup Content(old)
            <4>1. CASE y # 0
                <5>1. y \in 1..n /\ new[p] = old[y] /\ f[0] < f[y]
                    BY <3>2, <4>1, <1>2, <1>3
                <5> QED BY <5>1, <3>1, <3>2, <1>2, <1>3
            <4> QED BY <4>1
        <3>3. p \in 0..l
            BY <3>1, <1>3
        <3> QED BY <3>2, <3>3, <1>1 DEF n, l
    <2> QED BY <2>1, <2>2, <2>3, <2>4, <2>5
<1>12. WellFormed(new)
    BY <1>11 DEF WellFormed
<1> QED BY <1>9, <1>10, <1>12

\* One call of ensure_block where nothing is in its way.
LEMMA Extend ==
    ASSUME NEW old, Text(old), WellFormed(old), Unique(old), NEW i, NEW e, NEW m, NEW key \in Words,
           NEW step \in Nat, step # 0, Region(old, i, e, m), Lead(old, i, e, m), Even(old, i, m),
           i # 0 => old[i].value = Nothing,
           \A j \in Children(old, i) : old[j].key = key => Plainly(old, j)
    PROVE  LET b == ensure_block(old, i + 1, e, m, step, key) IN
           /\ b.ok /\ b.lines[b.key_line].value = Nothing /\ b.lines[b.key_line].key = key
           /\ b.key_line # 0 /\ b.key_line \in Content(b.lines)
           /\ \E f : /\ Stage(old, i, e, m, key, b.lines, b.key_line, f)
                     /\ Carried(old, i, b.lines, b.key_line, f)
           /\ Region(b.lines, b.key_line, b.end, b.entry_indent)
           /\ Lead(b.lines, b.key_line, b.end, b.entry_indent)
           /\ Even(b.lines, b.key_line, b.entry_indent)
           /\ Text(b.lines) /\ WellFormed(b.lines) /\ Unique(b.lines)
<1> DEFINE b == ensure_block(old, i + 1, e, m, step, key)
<1>1. /\ b.ok /\ b.lines[b.key_line].value = Nothing
      /\ \E f : Stage(old, i, e, m, key, b.lines, b.key_line, f)
      /\ Region(b.lines, b.key_line, b.end, b.entry_indent)
      /\ Lead(b.lines, b.key_line, b.end, b.entry_indent)
    BY EnsureForm
<1> HIDE DEF b
<1>2. PICK f : Stage(old, i, e, m, key, b.lines, b.key_line, f)
    BY <1>1
<1>3. /\ Text(b.lines) /\ b.lines[b.key_line].key = key /\ b.key_line \in Content(b.lines)
    BY <1>2 DEF Stage, Level
<1>4. b.key_line # 0
    BY <1>3, TextIs
<1>5. Carried(old, i, b.lines, b.key_line, f)
    BY <1>1, <1>2, StageCarries
<1>6. WellFormed(b.lines)
    BY <1>5 DEF Carried
<1>7. Unique(b.lines)
    BY <1>2, <1>5, StageUnique
<1>8. Even(b.lines, b.key_line, b.entry_indent)
    BY <1>1, <1>3, <1>4, <1>6, NextBlock
<1>9. \E g : /\ Stage(old, i, e, m, key, b.lines, b.key_line, g)
             /\ Carried(old, i, b.lines, b.key_line, g)
    BY <1>2, <1>5
<1> QED BY <1>1, <1>3, <1>4, <1>6, <1>7, <1>8, <1>9 DEF b

\* The line and parent of what stands before an extended block's key.
LEMMA Before ==
    ASSUME NEW old, NEW i, NEW e, NEW m, NEW key, NEW new, NEW k, NEW f, Text(old),
           Stage(old, i, e, m, key, new, k, f), i \in 0..Len(old),
           NEW p \in 0..i, NEW c \in Children(old, p), c <= i
    PROVE  c \in Children(new, p) /\ new[c] = old[c]
<1>1. (\A x \in 0..i : f[x] = x) /\ Grown(old, new, f)
    BY DEF Stage
<1>2. Len(old) \in Nat
    BY TextIs
<1>3. p \in 0..Len(old) /\ f[p] = p
    BY <1>1, <1>2
<1>4. f[c] \in Children(new, f[p]) /\ new[f[c]] = old[c]
    BY <1>1, <1>3, GrownChild
<1>5. c \in 1..Len(old)
    BY <1>3, ChildrenAre
<1> QED BY <1>1, <1>2, <1>3, <1>4, <1>5

\* The path to the entries, from a text where nothing is in its way.
Opened(d, k1, k2, k3, env, ns) ==
    /\ Text(d) /\ WellFormed(d) /\ Unique(d)
    /\ k1 \in Children(d, 0) /\ k2 \in Children(d, k1) /\ k3 \in Children(d, k2)
    /\ d[k1].key = "env" /\ d[k2].key = env /\ d[k3].key = "secrets"
    /\ d[k1].value = Nothing /\ d[k2].value = Nothing /\ d[k3].value = Nothing
    /\ Way4(d, k3, ns)

\* The three calls of ensure_block succeed and leave such a path.
LEMMA ThreeStages ==
    ASSUME NEW a, Text(a), WellFormed(a), Unique(a), Even(a, 0, 0),
           NEW env \in Envs, NEW ns, Way1(a, env, ns), NEW step \in Nat, step # 0
    PROVE  LET b1 == ensure_block(a, 1, Len(a) + 1, 0, step, "env")
               b2 == Within(b1, step, env)
               b3 == Within(b2, step, "secrets")
           IN  /\ b1.ok /\ b2.ok /\ b3.ok
               /\ Opened(b3.lines, b1.key_line, b2.key_line, b3.key_line, env, ns)
               /\ Even(b3.lines, b3.key_line, b3.entry_indent)
               /\ Region(b1.lines, b1.key_line, b1.end, b1.entry_indent)
               /\ Lead(b1.lines, b1.key_line, b1.end, b1.entry_indent)
               /\ Region(b2.lines, b2.key_line, b2.end, b2.entry_indent)
               /\ Region(b3.lines, b3.key_line, b3.end, b3.entry_indent)
               /\ Lead(b3.lines, b3.key_line, b3.end, b3.entry_indent)
               /\ \E f : Stage(a, 0, Len(a) + 1, 0, "env", b1.lines, b1.key_line, f)
               /\ \E f : Stage(b1.lines, b1.key_line, b1.end, b1.entry_indent, env,
                               b2.lines, b2.key_line, f)
               /\ \E f : Stage(b2.lines, b2.key_line, b2.end, b2.entry_indent, "secrets",
                               b3.lines, b3.key_line, f)
<1> DEFINE b1 == ensure_block(a, 1, Len(a) + 1, 0, step, "env")
           b2 == Within(b1, step, env)
           b3 == Within(b2, step, "secrets")
<1>1. Region(a, 0, Len(a) + 1, 0) /\ Lead(a, 0, Len(a) + 1, 0)
    <2>1. Len(a) \in Nat
        BY TextIs
    <2> QED BY <2>1 DEF Region, Lead
<1>2. "env" \in Words /\ "secrets" \in Words /\ env \in Words
    BY DEF Words, Fields
<1>3. \A j \in Children(a, 0) : a[j].key = "env" => Plainly(a, j) /\ Way2(a, j, env, ns)
    BY DEF Way1
<1>4. /\ b1.ok /\ b1.lines[b1.key_line].value = Nothing /\ b1.lines[b1.key_line].key = "env"
      /\ b1.key_line # 0 /\ b1.key_line \in Content(b1.lines)
      /\ \E f : /\ Stage(a, 0, Len(a) + 1, 0, "env", b1.lines, b1.key_line, f)
                /\ Carried(a, 0, b1.lines, b1.key_line, f)
      /\ Region(b1.lines, b1.key_line, b1.end, b1.entry_indent)
      /\ Lead(b1.lines, b1.key_line, b1.end, b1.entry_indent)
      /\ Even(b1.lines, b1.key_line, b1.entry_indent)
      /\ Text(b1.lines) /\ WellFormed(b1.lines) /\ Unique(b1.lines)
    <2>1. 0 + 1 = 1
        OBVIOUS
    <2>2. b1 = ensure_block(a, 0 + 1, Len(a) + 1, 0, step, "env")
        BY <2>1
    <2> HIDE DEF b1
    <2> QED BY <1>1, <1>2, <1>3, <2>2, Extend
<1>5. b2 = ensure_block(b1.lines, b1.key_line + 1, b1.end, b1.entry_indent, step, env)
    <2> HIDE DEF b1
    <2> QED BY <1>4 DEF Within
<1> HIDE DEF b1
<1>6. PICK f1 : /\ Stage(a, 0, Len(a) + 1, 0, "env", b1.lines, b1.key_line, f1)
                /\ Carried(a, 0, b1.lines, b1.key_line, f1)
    BY <1>4
<1>7. Way2(b1.lines, b1.key_line, env, ns)
    <2>1. CASE Children(b1.lines, b1.key_line) = {}
        BY <2>1 DEF Way2
    <2>2. ASSUME NEW y \in Children(a, 0), b1.key_line = f1[y], b1.lines[b1.key_line] = a[y],
                 y \in Content(a), 0 < y
          PROVE  Way2(b1.lines, b1.key_line, env, ns)
        <3>1. Way2(a, y, env, ns)
            BY <2>2, <1>3, <1>4
        <3>2. Way2(b1.lines, f1[y], env, ns)
            BY <3>1, <2>2, <1>6, WayCarried
        <3> QED BY <3>2, <2>2
    <2> QED BY <2>1, <2>2, <1>6, CarriedKey
<1>8. \A j \in Children(b1.lines, b1.key_line) : b1.lines[j].key = env =>
          Plainly(b1.lines, j) /\ Way3(b1.lines, j, ns)
    BY <1>7 DEF Way2
<1>9. /\ b2.ok /\ b2.lines[b2.key_line].value = Nothing /\ b2.lines[b2.key_line].key = env
      /\ b2.key_line # 0 /\ b2.key_line \in Content(b2.lines)
      /\ \E f : /\ Stage(b1.lines, b1.key_line, b1.end, b1.entry_indent, env, b2.lines, b2.key_line, f)
                /\ Carried(b1.lines, b1.key_line, b2.lines, b2.key_line, f)
      /\ Region(b2.lines, b2.key_line, b2.end, b2.entry_indent)
      /\ Lead(b2.lines, b2.key_line, b2.end, b2.entry_indent)
      /\ Even(b2.lines, b2.key_line, b2.entry_indent)
      /\ Text(b2.lines) /\ WellFormed(b2.lines) /\ Unique(b2.lines)
    <2> HIDE DEF b2
    <2> QED BY <1>2, <1>4, <1>5, <1>8, Extend
<1>10. b3 = ensure_block(b2.lines, b2.key_line + 1, b2.end, b2.entry_indent, step, "secrets")
    <2> HIDE DEF b2
    <2> QED BY <1>9 DEF Within
<1> HIDE DEF b2
<1>11. PICK f2 : /\ Stage(b1.lines, b1.key_line, b1.end, b1.entry_indent, env, b2.lines, b2.key_line, f2)
                 /\ Carried(b1.lines, b1.key_line, b2.lines, b2.key_line, f2)
    BY <1>9
<1>12. Way3(b2.lines, b2.key_line, ns)
    <2>1. CASE Children(b2.lines, b2.key_line) = {}
        BY <2>1 DEF Way3
    <2>2. ASSUME NEW y \in Children(b1.lines, b1.key_line), b2.key_line = f2[y],
                 b2.lines[b2.key_line] = b1.lines[y], y \in Content(b1.lines), b1.key_line < y
          PROVE  Way3(b2.lines, b2.key_line, ns)
        <3>1. Way3(b1.lines, y, ns)
            BY <2>2, <1>8, <1>9
        <3>2. Way3(b2.lines, f2[y], ns)
            BY <3>1, <2>2, <1>11, WayCarried
        <3> QED BY <3>2, <2>2
    <2> QED BY <2>1, <2>2, <1>11, CarriedKey
<1>13. \A j \in Children(b2.lines, b2.key_line) : b2.lines[j].key = "secrets" =>
          Plainly(b2.lines, j) /\ Way4(b2.lines, j, ns)
    BY <1>12 DEF Way3
<1>14. /\ b3.ok /\ b3.lines[b3.key_line].value = Nothing /\ b3.lines[b3.key_line].key = "secrets"
       /\ b3.key_line # 0 /\ b3.key_line \in Content(b3.lines)
       /\ \E f : /\ Stage(b2.lines, b2.key_line, b2.end, b2.entry_indent, "secrets", b3.lines, b3.key_line, f)
                 /\ Carried(b2.lines, b2.key_line, b3.lines, b3.key_line, f)
       /\ Region(b3.lines, b3.key_line, b3.end, b3.entry_indent)
       /\ Lead(b3.lines, b3.key_line, b3.end, b3.entry_indent)
       /\ Even(b3.lines, b3.key_line, b3.entry_indent)
       /\ Text(b3.lines) /\ WellFormed(b3.lines) /\ Unique(b3.lines)
    <2> HIDE DEF b3
    <2> QED BY <1>2, <1>9, <1>10, <1>13, Extend
<1> HIDE DEF b3
<1>15. PICK f3 : /\ Stage(b2.lines, b2.key_line, b2.end, b2.entry_indent, "secrets", b3.lines, b3.key_line, f3)
                 /\ Carried(b2.lines, b2.key_line, b3.lines, b3.key_line, f3)
    BY <1>14
<1>16. Way4(b3.lines, b3.key_line, ns)
    <2>1. CASE Children(b3.lines, b3.key_line) = {}
        BY <2>1 DEF Way4
    <2>2. ASSUME NEW y \in Children(b2.lines, b2.key_line), b3.key_line = f3[y],
                 b3.lines[b3.key_line] = b2.lines[y], y \in Content(b2.lines), b2.key_line < y
          PROVE  Way4(b3.lines, b3.key_line, ns)
        <3>1. Way4(b2.lines, y, ns)
            BY <2>2, <1>13, <1>14
        <3>2. Way4(b3.lines, f3[y], ns)
            BY <3>1, <2>2, <1>15, WayCarried
        <3> QED BY <3>2, <2>2
    <2> QED BY <2>1, <2>2, <1>15, CarriedKey
<1> DEFINE k1 == b1.key_line
           k2 == b2.key_line
           k3 == b3.key_line
<1>17. k1 \in Children(b1.lines, 0) /\ k2 \in Children(b2.lines, k1) /\ k3 \in Children(b3.lines, k2)
    BY <1>6, <1>11, <1>15 DEF Carried
<1>18. k1 \in 0..Len(b1.lines) /\ k2 \in 0..Len(b2.lines) /\ k1 \in Nat /\ k2 \in Nat /\ k1 < k2 /\ k2 < k3
    <2>1. /\ Content(b1.lines) \subseteq 1..Len(b1.lines) /\ Content(b2.lines) \subseteq 1..Len(b2.lines)
          /\ Len(b1.lines) \in Nat /\ Len(b2.lines) \in Nat
        BY <1>4, <1>9, TextIs
    <2>2. k1 < k2 /\ k2 < k3
        BY <1>11, <1>15 DEF Stage, Level
    <2> QED BY <2>1, <2>2, <1>4, <1>9
<1> HIDE DEF k1, k2, k3
<1>19. k1 \in Children(b2.lines, 0) /\ b2.lines[k1] = b1.lines[k1]
    <2>1. 0 \in 0..k1 /\ k1 <= k1
        BY <1>18
    <2> QED BY <2>1, <1>4, <1>11, <1>17, <1>18, Before DEF k1
<1>20. k1 \in Children(b3.lines, 0) /\ b3.lines[k1] = b2.lines[k1]
    <2>1. 0 \in 0..k2 /\ k1 <= k2
        BY <1>18
    <2> QED BY <2>1, <1>9, <1>15, <1>19, <1>18, Before DEF k2
<1>21. k2 \in Children(b3.lines, k1) /\ b3.lines[k2] = b2.lines[k2]
    <2>1. k1 \in 0..k2 /\ k2 <= k2
        BY <1>18
    <2> QED BY <2>1, <1>9, <1>15, <1>17, <1>18, Before DEF k2
<1>22. Opened(b3.lines, k1, k2, k3, env, ns)
    BY <1>4, <1>9, <1>14, <1>16, <1>17, <1>19, <1>20, <1>21 DEF Opened, k1, k2, k3
<1> QED BY <1>4, <1>6, <1>9, <1>11, <1>14, <1>15, <1>22 DEF b1, b2, b3, k1, k2, k3

\* What find_child finds is a child.
LEMMA FoundChild ==
    ASSUME NEW lines, Text(lines), NEW i, NEW e, NEW m, NEW key, Region(lines, i, e, m), Lead(lines, i, e, m),
           Even(lines, i, m), find_child(lines, i + 1, e, m, key) # 0
    PROVE  /\ find_child(lines, i + 1, e, m, key) \in Children(lines, i)
           /\ lines[find_child(lines, i + 1, e, m, key)].key = key
<1> DEFINE F == {j \in Content(lines) \cap ((i + 1)..(e - 1)) :
                    lines[j].indent = m /\ lines[j].kind = "plain" /\ lines[j].key = key}
           found == find_child(lines, i + 1, e, m, key)
<1>1. found = IF F = {} THEN 0 ELSE Min(F)
    BY DEF find_child
<1> HIDE DEF found
<1>2. Len(lines) \in Nat /\ Content(lines) \subseteq 1..Len(lines)
    BY TextIs
<1>3. i \in {0} \cup Content(lines) /\ e \in (i + 1)..(Len(lines) + 1) /\ m \in Nat
    BY DEF Region
<1>4. F \in SUBSET Nat /\ F # {}
    BY <1>1, <1>2 DEF found
<1>5. found \in F
    BY <1>1, <1>4, HasMinimum
<1>6. found \in Content(lines) /\ i < found /\ found < e
      /\ lines[found].indent = m /\ lines[found].kind = "plain" /\ lines[found].key = key
    BY <1>2, <1>3, <1>5
<1>7. Stage(lines, i, e, m, key, lines, found, [x \in 0..Len(lines) |-> x])
    BY <1>6, StageFound
<1>8. Level(lines, i, found, m)
    BY <1>7 DEF Stage
<1>9. Uniform(lines, i)
    BY DEF Even, Uniform
<1>10. found \in Children(lines, i)
    BY <1>8, <1>9, <1>3, LevelChild
<1> QED BY <1>6, <1>10 DEF found

\* The edited text: the path to the entries is there once, and on it an
\* entry for each name.
Prepared(F, k1, k2, k3, E, env, ns) ==
    /\ WellFormed(F)
    /\ F[k1].value = Nothing /\ F[k2].value = Nothing /\ F[k3].value = Nothing
    /\ \A j \in Children(F, 0) : F[j].key = "env" => j = k1
    /\ \A j \in Children(F, k1) : F[j].key = env => j = k2
    /\ \A j \in Children(F, k2) : F[j].key = "secrets" => j = k3
    /\ \A i \in E : Imported(F, i)
    /\ \A n \in ns : \E x \in Children(F, k3) : F[x].key = n

\* No entry is in the way of the edit, which prepares the text.
LEMMA Prepares ==
    ASSUME NEW b, NEW k1, NEW k2, NEW env, NEW names \in Seq(Names), NEW step \in Nat, step # 0,
           Opened(b.lines, k1, k2, b.key_line, env, Range(names)),
           Region(b.lines, b.key_line, b.end, b.entry_indent),
           Lead(b.lines, b.key_line, b.end, b.entry_indent),
           Even(b.lines, b.key_line, b.entry_indent)
    PROVE  /\ ~InlineEntry(b, names)
           /\ \E f, E : /\ Filled(b.lines, b.key_line, b.entry_indent, Range(names),
                                  WithEntries(b, names, step), f, E)
                        /\ Prepared(WithEntries(b, names, step), k1, k2, b.key_line, E, env, Range(names))
<1> DEFINE d == b.lines
           k3 == b.key_line
           m == b.entry_indent
           ns == Range(names)
           w == Added(b, names, step)
           p == insert_point(d, k3 + 1, b.end, m)
           F == WithEntries(b, names, step)
           Find(n) == find_child(d, k3 + 1, b.end, m, n)
<1>1. /\ Text(d) /\ WellFormed(d) /\ Unique(d)
      /\ k1 \in Children(d, 0) /\ k2 \in Children(d, k1) /\ k3 \in Children(d, k2)
      /\ d[k1].key = "env" /\ d[k2].key = env /\ d[k3].key = "secrets"
      /\ d[k1].value = Nothing /\ d[k2].value = Nothing /\ d[k3].value = Nothing
      /\ Way4(d, k3, ns)
    BY DEF Opened
<1>2. Len(d) \in Nat /\ Content(d) \subseteq 1..Len(d)
    BY <1>1, TextIs
<1>3. k1 \in Content(d) /\ k1 \in 1..Len(d) /\ 0 < k1
    BY <1>1, <1>2, ChildrenAre
<1>4. k2 \in Content(d) /\ k2 \in 1..Len(d) /\ k1 < k2
    BY <1>1, <1>2, <1>3, ChildrenAre
<1>5. k3 \in Content(d) /\ k3 \in 1..Len(d) /\ k2 < k3
    BY <1>1, <1>2, <1>4, ChildrenAre
<1>6. m \in Nat
    BY DEF Region
<1>7. \A n : Find(n) # 0 => Find(n) \in Children(d, k3) /\ d[Find(n)].key = n
    BY <1>1, FoundChild
<1> HIDE DEF Find
<1>8. ~InlineEntry(b, names)
    <2> SUFFICES ASSUME NEW n \in Range(names), Find(n) # 0, d[Find(n)].value # Nothing
                 PROVE  FALSE
        BY DEF InlineEntry, Find
    <2>1. Find(n) \in Children(d, k3) /\ d[Find(n)].key \in ns
        BY <1>7
    <2>2. Plainly(d, Find(n))
        BY <1>1, <2>1 DEF Way4
    <2> QED BY <2>2 DEF Plainly
<1>9. PICK v \in Nat : /\ m < v /\ EntriesIn(w, m, v, ns)
                       /\ \A n \in ns : Find(n) = 0 => HasEntry(w, m, v, n)
    <2> HIDE DEF ns
    <2> QED BY <1>1, AddedIs DEF ns, Find
<1>10. ns \subseteq Names
    <2>1. \A i \in DOMAIN names : names[i] \in Names
        BY ElementOfSeq
    <2> QED BY <2>1 DEF Range
<1>11. F = InsertAll(d, p, w)
    BY DEF WithEntries
<1> HIDE DEF ns, w, F
<1>12. \E E : /\ Filled(d, k3, m, ns, InsertAll(d, p, w), Moved(d, p, Len(w)), E)
              /\ Arrived(w, m, v, ns, InsertAll(d, p, w), E)
    <2> DEFINE e == b.end
    <2>3. Region(d, k3, e, m) /\ Lead(d, k3, e, m)
        OBVIOUS
    <2>4. p = insert_point(d, k3 + 1, e, m)
        OBVIOUS
    <2>1. k3 # 0
        BY <1>5
    <2>2. m < v /\ EntriesIn(w, m, v, ns)
        BY <1>9
    <2> HIDE DEF p, d, k3, m, e
    <2> QED BY <2>1, <2>2, <2>3, <2>4, <1>1, <1>10, FilledIs
<1> HIDE DEF p
<1>13. PICK f, E : /\ Filled(d, k3, m, ns, F, f, E)
                   /\ \A n \in ns : HasEntry(w, m, v, n) => \E i \in E : F[i].key = n
    BY <1>11, <1>12 DEF Arrived
<1>14. /\ WellFormed(F) /\ E \subseteq Children(F, k3)
       /\ \A y \in {0} \cup Content(d) : \A x \in Children(F, f[y]) :
              (x \in E /\ y = k3) \/ \E z \in Children(d, y) : x = f[z] /\ F[x] = d[z]
    BY <1>1, <1>5, <1>6, <1>13, FillForm
<1>15. /\ \A x \in 0..k3 : f[x] = x
       /\ Grown(d, F, f) /\ f[0] = 0
       /\ \A x \in 1..Len(d) : F[f[x]] = d[x]
       /\ \A x, y \in 0..Len(d) : y \in Children(d, x) => f[y] \in Children(F, f[x])
       /\ \A i \in E : Imported(F, i)
    BY <1>13 DEF Filled, Grown
<1>16. f[k1] = k1 /\ f[k2] = k2 /\ f[k3] = k3
    BY <1>2, <1>3, <1>4, <1>5, <1>15
<1>17. F[k1] = d[k1] /\ F[k2] = d[k2] /\ F[k3] = d[k3]
    BY <1>3, <1>4, <1>5, <1>15, <1>16
\* A line on the path is the only one with its key.
<1>18. ASSUME NEW y \in {0} \cup Content(d), y # k3, NEW c \in Children(d, y), f[c] = c,
              NEW j \in Children(F, f[y]), F[j].key = d[c].key
       PROVE  j = c
    <2>1. PICK z \in Children(d, y) : j = f[z] /\ F[j] = d[z]
        BY <1>14, <1>18
    <2>2. z = c
        BY <2>1, <1>1, <1>18 DEF Unique
    <2> QED BY <2>1, <2>2, <1>18
<1>19. \A j \in Children(F, 0) : F[j].key = "env" => j = k1
    BY <1>1, <1>5, <1>15, <1>16, <1>18
<1>20. \A j \in Children(F, k1) : F[j].key = env => j = k2
    BY <1>1, <1>2, <1>3, <1>4, <1>5, <1>16, <1>18
<1>21. \A j \in Children(F, k2) : F[j].key = "secrets" => j = k3
    <2>1. k2 \in {0} \cup Content(d) /\ k2 # k3
        BY <1>4, <1>5
    <2> QED BY <2>1, <1>1, <1>16, <1>18
<1>22. ASSUME NEW n \in ns PROVE \E x \in Children(F, k3) : F[x].key = n
    <2>1. CASE Find(n) = 0
        BY <2>1, <1>9, <1>13, <1>14
    <2>2. CASE Find(n) # 0
        <3>1. Find(n) \in Children(d, k3) /\ d[Find(n)].key = n
            BY <2>2, <1>7
        <3>2. Find(n) \in 1..Len(d)
            BY <3>1, <1>1, <1>2, <1>5, ChildrenAre
        <3>3. f[Find(n)] \in Children(F, k3) /\ F[f[Find(n)]] = d[Find(n)]
            BY <3>1, <3>2, <1>5, <1>2, <1>15, <1>16
        <3> QED BY <3>1, <3>3
    <2> QED BY <2>1, <2>2
<1>23. Prepared(F, k1, k2, k3, E, env, ns)
    BY <1>1, <1>14, <1>15, <1>17, <1>19, <1>20, <1>21, <1>22 DEF Prepared
<1>24. \E g, A : Filled(d, k3, m, ns, F, g, A) /\ Prepared(F, k1, k2, k3, A, env, ns)
    BY <1>13, <1>23
<1> QED BY <1>8, <1>24 DEF ns, F

\* manifest_with_entries up to the proof of its result.
LEMMA Prepare ==
    ASSUME NEW a, Text(a), WellFormed(a), Unique(a), Even(a, 0, 0), NEW env \in Envs, NoQuotes(a, env),
           NEW names \in Seq(Names), Way1(a, env, Range(names)), NEW step \in Nat, step # 0
    PROVE  LET root == ensure_block(a, 1, Len(a) + 1, 0, step, "env") IN
           \E F, f, k1, k2, k3, E :
              /\ Complete(Within(Within(root, step, env), step, "secrets"), env, names, step)
                     = IfProved(F, env, names)
              /\ Edited(a, F, f, k1, k2, k3, E, env, Range(names))
              /\ Prepared(F, k1, k2, k3, E, env, Range(names))
<1> DEFINE b1 == ensure_block(a, 1, Len(a) + 1, 0, step, "env")
           b2 == Within(b1, step, env)
           b3 == Within(b2, step, "secrets")
           ns == Range(names)
           F == WithEntries(b3, names, step)
           k1 == b1.key_line
           k2 == b2.key_line
           k3 == b3.key_line
<1>1. /\ b3.ok
      /\ Opened(b3.lines, k1, k2, k3, env, ns)
      /\ Even(b3.lines, k3, b3.entry_indent)
      /\ Region(b1.lines, k1, b1.end, b1.entry_indent)
      /\ Lead(b1.lines, k1, b1.end, b1.entry_indent)
      /\ Region(b2.lines, k2, b2.end, b2.entry_indent)
      /\ Region(b3.lines, k3, b3.end, b3.entry_indent)
      /\ Lead(b3.lines, k3, b3.end, b3.entry_indent)
      /\ \E f : Stage(a, 0, Len(a) + 1, 0, "env", b1.lines, k1, f)
      /\ \E f : Stage(b1.lines, k1, b1.end, b1.entry_indent, env, b2.lines, k2, f)
      /\ \E f : Stage(b2.lines, k2, b2.end, b2.entry_indent, "secrets", b3.lines, k3, f)
    <2> HIDE DEF ns
    <2> QED BY ThreeStages DEF ns
<1> HIDE DEF b1, b2, b3
<1>2. PICK f1, f2, f3 :
          /\ Stage(a, 0, Len(a) + 1, 0, "env", b1.lines, k1, f1)
          /\ Stage(b1.lines, k1, b1.end, b1.entry_indent, env, b2.lines, k2, f2)
          /\ Stage(b2.lines, k2, b2.end, b2.entry_indent, "secrets", b3.lines, k3, f3)
    BY <1>1
<1>3. /\ ~InlineEntry(b3, names)
      /\ \E f, E : /\ Filled(b3.lines, k3, b3.entry_indent, ns, F, f, E)
                   /\ Prepared(F, k1, k2, k3, E, env, ns)
    BY <1>1, Prepares
<1>4. Complete(b3, env, names, step) = IfProved(F, env, names)
    BY <1>1, <1>3 DEF Complete
<1> HIDE DEF F, ns
<1>5. PICK f4, E : /\ Filled(b3.lines, k3, b3.entry_indent, ns, F, f4, E)
                   /\ Prepared(F, k1, k2, k3, E, env, ns)
    BY <1>3
<1>6. \A i \in {0} \cup Content(F) : Uniform(F, i)
    BY <1>5 DEF Prepared, WellFormed, Uniform
<1>7. PICK f : Edited(a, F, f, k1, k2, k3, E, env, ns)
    <2> HIDE DEF k1, k2, k3
    <2> QED BY <1>1, <1>2, <1>5, <1>6, EditedIs
<1> QED BY <1>4, <1>5, <1>7 DEF b1, b2, b3, ns

\* No entry or variable of the environment has other contents.
Free(lines, env, ns) ==
    \A e \in EnvLines(lines) : lines[e].key = env =>
        /\ \A v \in Vars(lines, e) : v[1] \notin ns
        /\ \A s \in Secrets(lines, e) : s.name \in ns => s = Own(s.name)

\* An edit of a manifest with nothing in the way.
Smooth(old, new, f, k1, k2, k3, E, env, ns) ==
    /\ Edited(old, new, f, k1, k2, k3, E, env, ns) /\ Prepared(new, k1, k2, k3, E, env, ns)
    /\ parse_manifest(old) /\ Unique(old) /\ Free(old, env, ns)
    /\ ns \subseteq Names \ DeniedNames

\* The only child with its key is what Lookup finds.
LEMMA LookupUnique ==
    ASSUME NEW lines, Text(lines), NEW i \in 0..Len(lines), NEW j \in Children(lines, i),
           \A k \in Children(lines, i) : lines[k].key = lines[j].key => k = j
    PROVE  Lookup(lines, i, lines[j].key) = j
<1>1. Lookup(lines, i, lines[j].key) # 0
    BY LookupIs
<1> QED BY <1>1, LookupIs

\* The path to the entries.
LEMMA SmoothPath ==
    ASSUME NEW old, NEW new, NEW f, NEW k1, NEW k2, NEW k3, NEW E, NEW env, NEW ns,
           Smooth(old, new, f, k1, k2, k3, E, env, ns)
    PROVE  /\ Lookup(new, 0, "env") = k1 /\ EnvLines(new) = Children(new, k1)
           /\ Lookup(new, k2, "secrets") = k3 /\ EntryLines(new, k2) = Children(new, k3)
           /\ k1 \in Content(new) /\ k2 \in Content(new) /\ k3 \in Content(new)
           /\ EnvLine(new, env) = k2
<1>1. /\ Text(new) /\ k1 \in Children(new, 0) /\ k2 \in Children(new, k1) /\ k3 \in Children(new, k2)
      /\ new[k1].key = "env" /\ new[k2].key = env /\ new[k3].key = "secrets"
    BY DEF Smooth, Edited
<1>2. /\ \A j \in Children(new, 0) : new[j].key = "env" => j = k1
      /\ \A j \in Children(new, k1) : new[j].key = env => j = k2
      /\ \A j \in Children(new, k2) : new[j].key = "secrets" => j = k3
    BY DEF Smooth, Prepared
<1>3. Len(new) \in Nat /\ Content(new) \subseteq 1..Len(new)
    BY <1>1, TextIs
<1>4. k1 \in Content(new) /\ k1 \in 1..Len(new)
    BY <1>1, <1>3, ChildrenAre
<1>5. k2 \in Content(new) /\ k2 \in 1..Len(new)
    BY <1>1, <1>3, <1>4, ChildrenAre
<1>6. k3 \in Content(new) /\ k3 \in 1..Len(new)
    BY <1>1, <1>3, <1>5, ChildrenAre
<1>7. Lookup(new, 0, "env") = k1
    <2>1. 0 \in 0..Len(new)
        BY <1>3
    <2> QED BY <2>1, <1>1, <1>2, LookupUnique
<1>8. Lookup(new, k2, "secrets") = k3
    <2>1. k2 \in 0..Len(new)
        BY <1>3, <1>5
    <2> QED BY <2>1, <1>1, <1>2, LookupUnique
<1>9. EnvLines(new) = Children(new, k1)
    BY <1>4, <1>7 DEF EnvLines
<1>10. EnvLine(new, env) = k2
    <2>1. \A x \in EnvLines(new) : new[x].key = env => x <= k2
        BY <1>2, <1>5, <1>9
    <2> QED BY <2>1, <1>1, <1>9, EnvLineUnique
<1> QED BY <1>4, <1>5, <1>6, <1>7, <1>8, <1>9, <1>10 DEF EntryLines

\* The environments that are not new were there before.
LEMMA SmoothEnv ==
    ASSUME NEW old, NEW new, NEW f, NEW k1, NEW k2, NEW k3, NEW E, NEW env, NEW ns,
           Smooth(old, new, f, k1, k2, k3, E, env, ns),
           NEW x \in Children(new, k1), ~IsNew(old, f, x)
    PROVE  \E d \in Children(old, 0) : \E e \in Children(old, d) :
               f[d] = k1 /\ x = f[e] /\ EnvLines(old) = Children(old, d)
<1>1. /\ Edited(old, new, f, k1, k2, k3, E, env, ns) /\ Unique(old)
      /\ Text(old) /\ Text(new) /\ k1 \in Children(new, 0) /\ new[k1].key = "env"
    BY DEF Smooth, Edited
<1>2. /\ f \in [0..Len(old) -> 0..Len(new)] /\ f[0] = 0
      /\ \A i \in 1..Len(old) : new[f[i]] = old[i]
      /\ \A i, j \in 0..Len(old) : j \in Children(old, i) <=> f[j] \in Children(new, f[i])
      /\ \A u \in 0..Len(new) : (\A i \in 0..Len(old) : u # f[i]) =>
             \A i \in 0..Len(old) : f[i] \notin Children(new, u)
    BY <1>1 DEF Edited, Grown
<1>3. Len(old) \in Nat /\ Content(old) \subseteq 1..Len(old)
      /\ Len(new) \in Nat /\ Content(new) \subseteq 1..Len(new)
    BY <1>1, TextIs
<1>4. k1 \in 0..Len(new)
    BY <1>1, <1>3, ChildrenAre
<1>5. PICK e \in 0..Len(old) : x = f[e]
    BY DEF IsNew
<1>6. PICK d \in 0..Len(old) : k1 = f[d]
    BY <1>2, <1>4, <1>5
<1>7. d \in Children(old, 0) /\ e \in Children(old, d)
    BY <1>1, <1>2, <1>3, <1>5, <1>6
<1>8. d \in 1..Len(old) /\ old[d].key = "env"
    <2>1. d \in 1..Len(old)
        BY <1>1, <1>3, <1>7, ChildrenAre
    <2> QED BY <2>1, <1>1, <1>2, <1>6
<1>9. Lookup(old, 0, "env") = d
    <2>1. 0 \in 0..Len(old)
        BY <1>3
    <2>2. \A k \in Children(old, 0) : old[k].key = old[d].key => k = d
        BY <1>1, <1>7 DEF Unique
    <2> QED BY <2>1, <2>2, <1>1, <1>7, <1>8, LookupUnique
<1>10. EnvLines(old) = Children(old, d)
    BY <1>8, <1>9 DEF EnvLines
<1> QED BY <1>5, <1>6, <1>7, <1>10

\* What was a scalar beside the path still is one.
LEMMA OldScalar ==
    ASSUME NEW old, NEW new, NEW f, NEW k1, NEW k2, NEW k3, NEW E, NEW env, NEW ns,
           Edited(old, new, f, k1, k2, k3, E, env, ns), NEW i \in Content(old),
           f[i] \notin {k1, k2, k3}, IsScalar(old, i)
    PROVE  IsScalar(new, f[i]) /\ new[f[i]] = old[i]
<1>1. i # 0 /\ old[i].value \notin {Nothing, EmptyMap} /\ Children(old, i) = {}
    BY DEF IsScalar
<1>2. /\ f[i] # 0 /\ new[f[i]] = old[i]
      /\ \A x \in Children(new, f[i]) : IsNew(old, f, x) \/ \E j \in Children(old, i) : x = f[j]
    <2>1. i \in {0} \cup Content(old)
        OBVIOUS
    <2> HIDE DEF IsScalar
    <2> QED BY <2>1, <1>1, OldLine
<1>3. \A x \in Children(new, f[i]) : ~IsNew(old, f, x)
    BY NothingAdded
<1>4. Children(new, f[i]) = {}
    BY <1>1, <1>2, <1>3
<1> QED BY <1>1, <1>2, <1>4 DEF IsScalar

\* An entry that was valid still is.
LEMMA OldEntry ==
    ASSUME NEW old, NEW new, NEW f, NEW k1, NEW k2, NEW k3, NEW E, NEW env, NEW ns,
           Edited(old, new, f, k1, k2, k3, E, env, ns), NEW i \in Content(old),
           f[i] \notin {k1, k2, k3}, \A x \in Children(new, f[i]) : x \notin {k1, k2, k3},
           ValidEntry(old, i)
    PROVE  ValidEntry(new, f[i])
<1> DEFINE v == Lookup(old, i, "env_var_name")
           k == Lookup(old, i, "key")
<1>1. /\ IsScalar(old, v)
      /\ refuse_unknown_keys(old, i, {"env_var_name", "key"})
      /\ require_manifest_env_name(old[v].value)
      /\ optional_scalar(old, i, "key")
    BY DEF ValidEntry
<1>2. Lookup(new, f[i], "env_var_name") = f[v] /\ Lookup(new, f[i], "key") = f[k]
    BY LookupBeside
<1>3. /\ Text(old) /\ i \in 0..Len(old) /\ i # 0 /\ f[0] = 0
      /\ Children(old, i) \subseteq Content(old)
      /\ \A j \in Children(old, i) : f[j] \in Children(new, f[i]) /\ new[f[j]] = old[j]
      /\ \A x \in Children(new, f[i]) : IsNew(old, f, x) \/ \E j \in Children(old, i) : x = f[j]
    <2>1. Text(old) /\ f[0] = 0
        BY DEF Edited, Grown
    <2>2. i # 0
        BY <2>1, TextIs
    <2> QED BY <2>1, <2>2, OldLine
<1>4. \A x \in Children(new, f[i]) : ~IsNew(old, f, x)
    BY NothingAdded
<1>5. \A j \in Children(old, i) : f[j] \notin {k1, k2, k3} /\ j \in Content(old)
    BY <1>3
<1>6. v \in Children(old, i)
    BY <1>1, <1>3, LookupIs DEF IsScalar
<1>7. k # 0 => k \in Children(old, i) /\ IsScalar(old, k)
    BY <1>1, <1>3, LookupIs DEF optional_scalar
<1> HIDE DEF v, k
<1>8. IsScalar(new, f[v]) /\ new[f[v]] = old[v]
    BY <1>1, <1>5, <1>6, OldScalar
<1>9. f[k] # 0 => IsScalar(new, f[k])
    BY <1>3, <1>5, <1>7, OldScalar
<1>10. refuse_unknown_keys(new, f[i], {"env_var_name", "key"})
    BY <1>1, <1>3, <1>4 DEF refuse_unknown_keys
<1> QED BY <1>1, <1>2, <1>8, <1>9, <1>10 DEF ValidEntry, optional_scalar

\* So is an entry as import writes it.
LEMMA NewEntry ==
    ASSUME NEW lines, Text(lines), NEW i, Imported(lines, i), lines[i].key \in Names \ DeniedNames
    PROVE  ValidEntry(lines, i)
<1>1. PICK x \in Content(lines) :
          /\ Children(lines, i) = {x} /\ Children(lines, x) = {}
          /\ lines[x].key = "env_var_name" /\ lines[x].value = lines[i].key
    BY DEF Imported
<1>2. x \in Nat /\ x # 0
    BY TextIs
<1>3. Lookup(lines, i, "env_var_name") = x
    <2>1. {j \in Children(lines, i) : lines[j].key = "env_var_name"} = {x}
        BY <1>1
    <2>2. Min({x}) = x
        BY <1>2, MinimumIs
    <2> QED BY <2>1, <2>2 DEF Lookup
<1>4. Lookup(lines, i, "key") = 0
    <2>1. {j \in Children(lines, i) : lines[j].key = "key"} = {}
        BY <1>1
    <2> QED BY <2>1 DEF Lookup
<1>5. lines[x].value \notin {Nothing, EmptyMap}
    BY <1>1, EditAssumption
<1>6. IsScalar(lines, x)
    BY <1>1, <1>2, <1>5 DEF IsScalar
<1>7. refuse_unknown_keys(lines, i, {"env_var_name", "key"})
    BY <1>1 DEF refuse_unknown_keys
<1> QED BY <1>1, <1>3, <1>4, <1>6, <1>7 DEF ValidEntry, require_manifest_env_name, optional_scalar

\* An environment that was there before is as valid as it was.
LEMMA OldEnvValid ==
    ASSUME NEW old, NEW new, NEW f, NEW k1, NEW k2, NEW k3, NEW E, NEW env, NEW ns,
           Smooth(old, new, f, k1, k2, k3, E, env, ns),
           NEW d \in Children(old, 0), NEW e \in Children(old, d), f[d] = k1,
           EnvLines(old) = Children(old, d)
    PROVE  ValidEnv(new, f[e])
<1> DEFINE s0 == Lookup(old, e, "secrets")
           v0 == Lookup(old, e, "vars")
           s == Lookup(new, f[e], "secrets")
           v == Lookup(new, f[e], "vars")
<1>1. /\ Edited(old, new, f, k1, k2, k3, E, env, ns) /\ Unique(old) /\ Free(old, env, ns)
      /\ Prepared(new, k1, k2, k3, E, env, ns) /\ parse_manifest(old) /\ ns \subseteq Names \ DeniedNames
    BY DEF Smooth
<1>2. /\ Text(old) /\ Text(new) /\ f[0] = 0
      /\ new[k1].key = "env" /\ new[k2].key = env /\ new[k3].key = "secrets"
      /\ k1 \in Children(new, 0) /\ k2 \in Children(new, k1) /\ k3 \in Children(new, k2)
      /\ \A i \in E : IsNew(old, f, i) /\ new[i].key \in ns /\ SecretEntry(new, i) = Own(new[i].key)
    BY <1>1 DEF Edited, Grown
<1>3. /\ IsMapOrNull(old, e) /\ refuse_unknown_keys(old, e, {"secrets", "vars"})
      /\ IsMapOrNull(old, s0) /\ IsMapOrNull(old, v0)
      /\ s0 # 0 => \A i \in EntryLines(old, e) : ValidEntry(old, i)
      /\ v0 # 0 => \A i \in VarLines(old, e) : IsScalar(old, i) /\ require_manifest_env_name(old[i].key)
      /\ \A x \in Secrets(old, e), y \in Vars(old, e) : x.env_var # y[1]
    <2>1. ValidEnv(old, e)
        BY <1>1 DEF parse_manifest
    <2> QED BY <2>1 DEF ValidEnv
<1>4. /\ d \in Content(old) /\ e \in Content(old) /\ f[e] \in Children(new, f[d])
      /\ f[e] \in Content(new) /\ f[e] # 0 /\ f[e] # k1 /\ f[e] # k3
      /\ \A u \in Children(old, e) :
             /\ u \in Content(old) /\ f[u] \in Children(new, f[e]) /\ new[f[u]] = old[u]
             /\ f[u] \in Content(new) /\ f[u] # 0 /\ f[u] # k1 /\ f[u] # k2 /\ (f[u] = k3 => f[e] = k2)
             /\ \A x \in Children(new, f[u]) : x # k1 /\ x # k2 /\ x # k3
    BY <1>1, OldPath
<1>5. /\ e \in 0..Len(old) /\ f[e] \in 0..Len(new) /\ e # 0 /\ new[f[e]] = old[e]
      /\ \A x \in Children(new, f[e]) : IsNew(old, f, x) \/ \E j \in Children(old, e) : x = f[j]
    <2>1. e \in {0} \cup Content(old)
        BY <1>4
    <2> QED BY <2>1, <1>1, <1>2, <1>4, OldLine
<1>6. /\ v # 0 => v \in Children(new, f[e]) /\ new[v].key = "vars"
      /\ s # 0 => s \in Children(new, f[e]) /\ new[s].key = "secrets"
    BY <1>2, <1>5, LookupIs
<1> HIDE DEF s, v
<1>7. ASSUME NEW x \in Children(new, f[e]), IsNew(old, f, x) PROVE x = k3 /\ f[e] = k2
    <2>1. f[e] \in {k1, k2, k3}
        BY <1>1, <1>4, <1>7, NothingAdded
    <2>2. f[e] = k2
        BY <2>1, <1>4
    <2>3. f[e] \in {0} \cup Content(new) /\ f[e] \notin E
        <3>1. e \in {0} \cup Content(old)
            BY <1>4
        <3> QED BY <3>1, <1>1, OldLine
    <2>4. f[e] # 0
        BY <1>4
    <2>5. \/ f[e] = 0 /\ x = k1
          \/ f[e] = k1 /\ x = k2
          \/ f[e] = k2 /\ x = k3
          \/ f[e] = k3 /\ x \in E
        <3> DEFINE p == f[e]
        <3>1. p \in {0} \cup Content(new) /\ p \notin E /\ x \in Children(new, p) /\ IsNew(old, f, x)
            BY <2>3, <1>7
        <3> HIDE DEF p
        <3>2. \/ p = 0 /\ x = k1
              \/ p = k1 /\ x = k2
              \/ p = k2 /\ x = k3
              \/ p = k3 /\ x \in E
            BY <3>1, <1>1, AddedLine
        <3> QED BY <3>2 DEF p
    <2> QED BY <2>2, <2>5, <1>4
\* Each line below it is a new secrets: or one of the lines from before.
<1>8. ASSUME NEW z \in Children(old, e) PROVE Lookup(old, e, old[z].key) = z
    <2>1. \A k \in Children(old, e) : old[k].key = old[z].key => k = z
        BY <1>1, <1>4 DEF Unique
    <2> QED BY <2>1, <1>2, <1>5, LookupUnique
<1>9. s # 0 => (s = k3 /\ IsNew(old, f, s)) \/ (s = f[s0] /\ s0 \in Children(old, e))
    <2> SUFFICES ASSUME s # 0, ~IsNew(old, f, s) PROVE s = f[s0] /\ s0 \in Children(old, e)
        BY <1>6, <1>7
    <2>1. PICK z \in Children(old, e) : s = f[z]
        BY <1>5, <1>6
    <2>2. old[z].key = "secrets"
        BY <2>1, <1>4, <1>6
    <2> QED BY <2>1, <2>2, <1>8
<1>10. v # 0 => v = f[v0] /\ v0 \in Children(old, e)
    <2> SUFFICES ASSUME v # 0 PROVE v = f[v0] /\ v0 \in Children(old, e)
        OBVIOUS
    <2>1. ~IsNew(old, f, v)
        BY <1>2, <1>6, <1>7
    <2>2. PICK z \in Children(old, e) : v = f[z]
        BY <2>1, <1>5, <1>6
    <2>3. old[z].key = "vars"
        BY <2>2, <1>4, <1>6
    <2> QED BY <2>2, <2>3, <1>8
<1>11. \A u \in Children(old, e) : u \in {0} \cup Content(old) /\ u # 0
    BY <1>2, <1>4, TextIs
<1> HIDE DEF s0, v0
<1>12. IsMapOrNull(new, f[e])
    BY <1>3, <1>5 DEF IsMapOrNull
<1>13. refuse_unknown_keys(new, f[e], {"secrets", "vars"})
    <2> SUFFICES ASSUME NEW x \in Children(new, f[e]) PROVE new[x].key \in {"secrets", "vars"}
        BY DEF refuse_unknown_keys
    <2>1. CASE IsNew(old, f, x)
        BY <2>1, <1>2, <1>7
    <2>2. ASSUME NEW z \in Children(old, e), x = f[z] PROVE new[x].key \in {"secrets", "vars"}
        <3>1. new[x] = old[z]
            BY <2>2, <1>4
        <3>2. old[z].key \in {"secrets", "vars"}
            BY <1>3 DEF refuse_unknown_keys
        <3> QED BY <3>1, <3>2
    <2> QED BY <2>1, <2>2, <1>5
<1>14. IsMapOrNull(new, s)
    <2>1. new[k3].value = Nothing
        BY <1>1 DEF Prepared
    <2> QED BY <2>1, <1>3, <1>4, <1>9, <1>11 DEF IsMapOrNull
<1>15. IsMapOrNull(new, v)
    BY <1>3, <1>4, <1>10, <1>11 DEF IsMapOrNull
<1>20. ASSUME NEW p \in Content(new), p \notin {k1, k2, k3}, NEW x \in Children(new, p)
       PROVE  x \notin {k1, k2, k3}
    <2>1. k1 \in Content(new) /\ k2 \in Content(new)
        BY SmoothPath
    <2>2. p # 0
        BY <1>2, TextIs
    <2>3. \A q \in {0} \cup Content(new) : x \in Children(new, q) => p = q
        BY <1>2, <1>20, OneParent
    <2> QED BY <2>1, <2>2, <2>3, <1>2, <1>20
<1>16. ASSUME s # 0, NEW i \in Children(new, s) PROVE ValidEntry(new, i)
    <2>1. s \in Content(new)
        BY <1>2, <1>5, <1>6, <1>16, ChildrenAre
    <2>2. CASE IsNew(old, f, i)
        <3>1. s # k1 /\ s # k2 /\ s # 0 /\ s \notin E
            <4>1. ASSUME IsNew(old, f, s) PROVE s # k1 /\ s # k2 /\ s \notin E
                <5>1. s = k3
                    BY <4>1, <1>6, <1>7, <1>16
                <5>2. f[d] \in Children(new, 0) /\ k3 \in Children(new, f[e]) /\ f[e] \in Children(new, f[d])
                    BY <5>1, <1>2, <1>4, <1>6, <1>16
                <5>3. k3 # k1 /\ k3 # k2
                    BY <5>2, <1>1, Path
                <5>4. k3 \notin E
                    <6>1. E \subseteq Children(new, k3)
                        BY <1>1 DEF Edited
                    <6>2. k3 \in 0..Len(new)
                        BY <5>1, <2>1, <1>2, TextIs
                    <6>3. \A j \in E : k3 < j
                        BY <6>1, <6>2, <1>2, ChildrenAre
                    <6> QED BY <6>2, <6>3
                <5> QED BY <5>1, <5>3, <5>4
            <4>2. ASSUME ~IsNew(old, f, s) PROVE s # k1 /\ s # k2 /\ s \notin E
                BY <4>2, <1>2, <1>4, <1>9, <1>16
            <4> QED BY <4>1, <4>2, <1>16
        <3>5. s \in {0} \cup Content(new) /\ s \notin E
            BY <3>1, <2>1
        <3>4. \/ s = 0 /\ i = k1
              \/ s = k1 /\ i = k2
              \/ s = k2 /\ i = k3
              \/ s = k3 /\ i \in E
            BY <3>5, <2>2, <1>1, <1>16, AddedLine
        <3>2. i \in E
            BY <3>1, <3>4
        <3>3. Imported(new, i) /\ new[i].key \in Names \ DeniedNames
            BY <3>2, <1>1, <1>2 DEF Prepared
        <3> QED BY <3>3, <1>2, NewEntry
    <2>3. CASE ~IsNew(old, f, i)
        <3>1. PICK z \in 0..Len(old) : i = f[z]
            BY <2>3 DEF IsNew
        <3>2. ~IsNew(old, f, s)
            <4>1. \A x \in 0..Len(new) : (\A y \in 0..Len(old) : x # f[y]) =>
                      \A y \in 0..Len(old) : f[y] \notin Children(new, x)
                BY <1>1 DEF Edited, Grown
            <4>2. s \in 0..Len(new)
                BY <2>1, <1>2, TextIs
            <4> QED BY <3>1, <4>1, <4>2, <1>16 DEF IsNew
        <3>3. s = f[s0] /\ s0 \in Children(old, e)
            BY <3>2, <1>9, <1>16
        <3>4. s0 \in 0..Len(old)
            BY <3>3, <1>2, <1>4, TextIs
        <3>5. z \in Children(old, s0)
            <4>1. \A x, y \in 0..Len(old) : y \in Children(old, x) <=> f[y] \in Children(new, f[x])
                BY <1>1 DEF Edited, Grown
            <4> QED BY <3>1, <3>3, <3>4, <4>1, <1>16
        <3>6. z \in EntryLines(old, e) /\ s0 # 0
            BY <3>3, <3>5, <1>11 DEF EntryLines, s0
        <3>7. ValidEntry(old, z) /\ z \in Content(old)
            BY <3>4, <3>5, <3>6, <1>2, <1>3, ChildrenAre
        <3>8. f[z] \notin {k1, k2, k3}
            BY <3>1, <3>3, <1>4, <1>16
        <3>9. \A x \in Children(new, f[z]) : x \notin {k1, k2, k3}
            <4>1. f[z] \in Content(new)
                BY <3>1, <2>1, <1>2, <1>16, TextIs, ChildrenAre
            <4> QED BY <4>1, <3>8, <1>20
        <3> QED BY <3>1, <3>7, <3>8, <3>9, <1>1, OldEntry
    <2> QED BY <2>2, <2>3
<1>17. ASSUME v # 0, NEW i \in Children(new, v)
       PROVE  IsScalar(new, i) /\ require_manifest_env_name(new[i].key)
    <2>1. v = f[v0] /\ v0 \in Children(old, e) /\ v0 \in Content(old) /\ v0 # 0
        BY <1>4, <1>10, <1>11, <1>17
    <2>2. f[v0] \notin {k1, k2, k3}
        BY <2>1, <1>2, <1>4, <1>6, <1>17
    <2>3. ~IsNew(old, f, i)
        BY <2>1, <2>2, <1>1, <1>17, NothingAdded
    <2>4. PICK z \in Children(old, v0) : i = f[z]
        <3>1. v0 \in {0} \cup Content(old)
            BY <2>1
        <3> QED BY <3>1, <2>1, <2>3, <1>1, <1>17, OldLine
    <2>5. z \in Content(old)
        <3>1. v0 \in 0..Len(old)
            BY <2>1, <1>2, TextIs
        <3> QED BY <3>1, <2>4, <1>2, ChildrenAre
    <2>6. z \in VarLines(old, e)
        BY <2>4 DEF VarLines, v0
    <2>7. IsScalar(old, z) /\ require_manifest_env_name(old[z].key)
        BY <2>1, <2>6, <1>3
    <2>8. f[z] \notin {k1, k2, k3}
        BY <2>1, <2>4, <1>4, <1>17
    <2>9. IsScalar(new, f[z]) /\ new[f[z]] = old[z]
        BY <2>5, <2>7, <2>8, <1>1, OldScalar
    <2> QED BY <2>4, <2>7, <2>9
<1>18. \A x \in Secrets(new, f[e]), y \in Vars(new, f[e]) : x.env_var # y[1]
    <2>1. Vars(new, f[e]) = Vars(old, e)
        BY <1>1, OldVars
    <2>2. s0 # 0 => \A i \in EntryLines(old, e) : Lookup(old, i, "env_var_name") # 0
        BY <1>3 DEF ValidEntry, IsScalar
    <2>3. \/ Secrets(new, f[e]) = Secrets(old, e)
          \/ f[e] = k2 /\ Secrets(new, f[e]) = Secrets(old, e) \cup AddedEntries(new, E)
        BY <2>2, <1>1, OldSecrets DEF s0
    <2>4. ASSUME f[e] = k2, NEW x \in AddedEntries(new, E), NEW y \in Vars(old, e) PROVE x.env_var # y[1]
        <3>1. PICK i \in E : x = SecretEntry(new, i)
            BY <2>4 DEF AddedEntries
        <3>2. x = Own(new[i].key) /\ new[i].key \in ns
            BY <3>1, <1>2
        <3>3. x.env_var \in ns
            BY <3>2 DEF Own
        <3>4. e \in EnvLines(old) /\ old[e].key = env
            BY <2>4, <1>2, <1>5
        <3>5. y[1] \notin ns
            BY <3>4, <1>1, <2>4 DEF Free
        <3> QED BY <3>3, <3>5
    <2> QED BY <2>1, <2>3, <2>4, <1>3
<1> QED BY <1>12, <1>13, <1>14, <1>15, <1>16, <1>17, <1>18 DEF ValidEnv, EntryLines, VarLines, s, v

\* Where the lines of the path stand.
LEMMA PathLines ==
    ASSUME NEW old, NEW new, NEW f, NEW k1, NEW k2, NEW k3, NEW E, NEW env, NEW ns,
           Smooth(old, new, f, k1, k2, k3, E, env, ns)
    PROVE  /\ 0 < k1 /\ k1 < k2 /\ k2 < k3 /\ \A i \in E : k3 < i
           /\ k1 \in 1..Len(new) /\ k2 \in 1..Len(new) /\ k3 \in 1..Len(new) /\ E \subseteq 1..Len(new)
<1>1. /\ Text(new) /\ k1 \in Children(new, 0) /\ k2 \in Children(new, k1) /\ k3 \in Children(new, k2)
      /\ E \subseteq Children(new, k3)
    BY DEF Smooth, Edited
<1>2. /\ k1 \in Content(new) /\ k2 \in Content(new) /\ k3 \in Content(new)
    BY SmoothPath
<1>3. Len(new) \in Nat /\ Content(new) \subseteq 1..Len(new)
    BY <1>1, TextIs
<1>4. 0 \in 0..Len(new) /\ k1 \in 0..Len(new) /\ k2 \in 0..Len(new) /\ k3 \in 0..Len(new)
    BY <1>2, <1>3
<1>5. 0 < k1 /\ k1 < k2 /\ k2 < k3
    BY <1>1, <1>4, ChildrenAre
<1>6. E \subseteq 1..Len(new) /\ \A i \in E : k3 < i
    BY <1>1, <1>4, ChildrenAre
<1> QED BY <1>2, <1>3, <1>5, <1>6

\* What is new below a line of the path.
LEMMA PathAdds ==
    ASSUME NEW old, NEW new, NEW f, NEW k1, NEW k2, NEW k3, NEW E, NEW env, NEW ns,
           Smooth(old, new, f, k1, k2, k3, E, env, ns), NEW x, IsNew(old, f, x)
    PROVE  /\ x \in Children(new, 0) => x = k1
           /\ x \in Children(new, k1) => x = k2
           /\ x \in Children(new, k2) => x = k3
<1>1. /\ 0 < k1 /\ k1 < k2 /\ k2 < k3 /\ \A i \in E : k3 < i
      /\ k1 \in 1..Len(new) /\ k2 \in 1..Len(new) /\ k3 \in 1..Len(new) /\ E \subseteq 1..Len(new)
    BY PathLines
<1>2. Edited(old, new, f, k1, k2, k3, E, env, ns) /\ k1 \in Content(new) /\ k2 \in Content(new)
    BY SmoothPath DEF Smooth
<1>3. ASSUME NEW p \in {0, k1, k2}, x \in Children(new, p)
      PROVE  (p = 0 /\ x = k1) \/ (p = k1 /\ x = k2) \/ (p = k2 /\ x = k3)
    <2>1. p \in {0} \cup Content(new) /\ p \notin E /\ p # k3
        BY <1>1, <1>2
    <2>2. \/ p = 0 /\ x = k1
          \/ p = k1 /\ x = k2
          \/ p = k2 /\ x = k3
          \/ p = k3 /\ x \in E
        BY <2>1, <1>2, <1>3, AddedLine
    <2> QED BY <2>1, <2>2
<1>4. k1 # 0 /\ k2 # 0 /\ k1 # k2
    BY <1>1
<1> QED BY <1>3, <1>4

\* An environment that import adds is valid.
LEMMA NewEnvValid ==
    ASSUME NEW old, NEW new, NEW f, NEW k1, NEW k2, NEW k3, NEW E, NEW env, NEW ns,
           Smooth(old, new, f, k1, k2, k3, E, env, ns), IsNew(old, f, k2)
    PROVE  ValidEnv(new, k2)
<1>1. /\ Edited(old, new, f, k1, k2, k3, E, env, ns) /\ Prepared(new, k1, k2, k3, E, env, ns)
      /\ ns \subseteq Names \ DeniedNames
    BY DEF Smooth
<1>2. /\ Text(new) /\ k3 \in Children(new, k2) /\ new[k3].key = "secrets"
      /\ \A x \in 0..Len(new) : (\A i \in 0..Len(old) : x # f[i]) =>
             \A i \in 0..Len(old) : f[i] \notin Children(new, x)
      /\ \A i \in E : new[i].key \in ns
    BY <1>1 DEF Edited, Grown
<1>3. k2 \in 0..Len(new)
    BY PathLines
<1>4. Children(new, k2) = {k3} /\ IsNew(old, f, k3)
    <2>1. ASSUME NEW x \in Children(new, k2) PROVE IsNew(old, f, x)
        BY <1>2, <1>3, <2>1 DEF IsNew
    <2> QED BY <2>1, <1>2, PathAdds
<1>5. Children(new, k3) = E
    BY <1>1, <1>4, NewSecrets
<1>6. Lookup(new, k2, "secrets") = k3 /\ EntryLines(new, k2) = E
    BY <1>5, SmoothPath
<1>7. Lookup(new, k2, "vars") = 0
    <2>1. {j \in Children(new, k2) : new[j].key = "vars"} = {}
        BY <1>2, <1>4
    <2> QED BY <2>1 DEF Lookup
<1>8. Vars(new, k2) = {}
    BY <1>7 DEF Vars
<1>9. IsMapOrNull(new, k2) /\ IsMapOrNull(new, k3) /\ IsMapOrNull(new, 0)
    BY <1>1 DEF Prepared, IsMapOrNull
<1>10. \A i \in E : ValidEntry(new, i)
    <2> SUFFICES ASSUME NEW i \in E PROVE ValidEntry(new, i)
        OBVIOUS
    <2>1. Imported(new, i) /\ new[i].key \in Names \ DeniedNames
        BY <1>1, <1>2 DEF Prepared
    <2> QED BY <2>1, <1>2, NewEntry
<1>11. refuse_unknown_keys(new, k2, {"secrets", "vars"})
    BY <1>2, <1>4 DEF refuse_unknown_keys
<1> QED BY <1>6, <1>7, <1>8, <1>9, <1>10, <1>11 DEF ValidEnv

\* The environment holds nothing else under the requested names.
LEMMA OwnEntries ==
    ASSUME NEW old, NEW new, NEW f, NEW k1, NEW k2, NEW k3, NEW E, NEW env, NEW ns,
           Smooth(old, new, f, k1, k2, k3, E, env, ns),
           NEW s \in Secrets(new, k2), s.name \in ns
    PROVE  s = Own(s.name)
<1>1. /\ Edited(old, new, f, k1, k2, k3, E, env, ns) /\ Free(old, env, ns) /\ parse_manifest(old)
    BY DEF Smooth
<1>2. /\ new[k2].key = env /\ k2 \in Children(new, k1)
      /\ \A i \in E : SecretEntry(new, i) = Own(new[i].key)
    BY <1>1 DEF Edited
<1>3. s \in AddedEntries(new, E) => s = Own(s.name)
    <2> SUFFICES ASSUME NEW i \in E, s = SecretEntry(new, i) PROVE s = Own(s.name)
        BY DEF AddedEntries
    <2>1. s = Own(new[i].key)
        BY <1>2
    <2> QED BY <2>1 DEF Own
<1>4. CASE IsNew(old, f, k2)
    BY <1>1, <1>3, <1>4, NewEnv
<1>5. CASE ~IsNew(old, f, k2)
    <2>0. PICK d \in Children(old, 0) : \E e \in Children(old, d) :
              f[d] = k1 /\ k2 = f[e] /\ EnvLines(old) = Children(old, d)
        BY <1>2, <1>5, SmoothEnv
    <2>1. PICK e \in Children(old, d) :
              f[d] = k1 /\ k2 = f[e] /\ EnvLines(old) = Children(old, d)
        BY <2>0
    <2>2. e \in EnvLines(old) /\ ValidEnv(old, e)
        BY <2>1, <1>1 DEF parse_manifest
    <2>3. Lookup(old, e, "secrets") # 0 =>
              \A i \in EntryLines(old, e) : Lookup(old, i, "env_var_name") # 0
        BY <2>2 DEF ValidEnv, ValidEntry, IsScalar
    <2>4. \/ Secrets(new, f[e]) = Secrets(old, e)
          \/ f[e] = k2 /\ Secrets(new, f[e]) = Secrets(old, e) \cup AddedEntries(new, E)
        BY <2>3, <1>1, OldSecrets
    <2>5. s \in Secrets(old, e) \/ s \in AddedEntries(new, E)
        BY <2>1, <2>4
    <2>6. old[e].key = env
        <3>1. e \in Content(old) /\ e \in {0} \cup Content(old)
            BY <1>1, OldPath
        <3>2. e # 0
            <4>1. Text(old)
                BY <1>1 DEF Edited
            <4> QED BY <3>1, <4>1, TextIs
        <3>3. new[f[e]] = old[e]
            BY <3>1, <3>2, <1>1, OldLine
        <3> QED BY <3>3, <2>1, <1>2
    <2>7. s \in Secrets(old, e) => s = Own(s.name)
        BY <2>2, <2>6, <1>1 DEF Free
    <2> QED BY <2>5, <2>7, <1>3
<1> QED BY <1>4, <1>5

\* The edited text parses, and it holds what was to be imported.
LEMMA EditProves ==
    ASSUME NEW old, NEW new, NEW f, NEW k1, NEW k2, NEW k3, NEW E, NEW env, NEW names,
           Smooth(old, new, f, k1, k2, k3, E, env, Range(names)),
           old[Lookup(old, 0, "name")].value = Project
    PROVE  Proved(new, env, names)
<1> DEFINE ns == Range(names)
           n0 == Lookup(old, 0, "name")
<1>1. /\ Edited(old, new, f, k1, k2, k3, E, env, ns) /\ Prepared(new, k1, k2, k3, E, env, ns)
      /\ parse_manifest(old)
    BY DEF Smooth
<1>2. /\ Text(old) /\ Text(new) /\ f[0] = 0 /\ new[k1].key = "env" /\ WellFormed(new)
      /\ k1 \in Children(new, 0) /\ new[k1].value = Nothing
    BY <1>1 DEF Edited, Grown, Prepared
<1>3. /\ Lookup(new, 0, "env") = k1 /\ EnvLines(new) = Children(new, k1)
      /\ Lookup(new, k2, "secrets") = k3 /\ EntryLines(new, k2) = Children(new, k3)
      /\ k2 \in Content(new) /\ EnvLine(new, env) = k2 /\ k2 # 0 /\ k3 # 0 /\ k3 \in 0..Len(new)
    BY SmoothPath, PathLines
<1>4. /\ \A j \in Children(old, 0) : f[j] \in Children(new, 0) /\ new[f[j]] = old[j]
      /\ \A x \in Children(new, 0) : IsNew(old, f, x) \/ \E j \in Children(old, 0) : x = f[j]
      /\ Children(old, 0) \subseteq Content(old)
    <2>1. 0 \in {0} \cup Content(old)
        OBVIOUS
    <2>2. /\ \A j \in Children(old, 0) : f[j] \in Children(new, f[0]) /\ new[f[j]] = old[j]
          /\ \A x \in Children(new, f[0]) : IsNew(old, f, x) \/ \E j \in Children(old, 0) : x = f[j]
          /\ Children(old, 0) \subseteq Content(old)
        BY <2>1, <1>1, OldLine
    <2> QED BY <2>2, <1>2
<1>5. \A x \in Children(new, 0) : IsNew(old, f, x) => x = k1
    BY PathAdds
<1>6. refuse_unknown_keys(new, 0, {"name", "env"})
    <2>1. refuse_unknown_keys(old, 0, {"name", "env"})
        BY <1>1 DEF parse_manifest
    <2> QED BY <2>1, <1>2, <1>4, <1>5 DEF refuse_unknown_keys
<1>7. IsScalar(old, n0)
    BY <1>1 DEF parse_manifest
<1>8. n0 # 0 /\ n0 \in Children(old, 0) /\ old[n0].key = "name"
    <2>1. n0 # 0
        BY <1>7 DEF IsScalar
    <2>2. 0 \in 0..Len(old)
        BY <1>2, TextIs
    <2> QED BY <2>1, <2>2, <1>2, LookupIs
<1>9. Lookup(new, 0, "name") = f[n0]
    <2>1. \A x \in Children(new, f[0]) : ~(IsNew(old, f, x) /\ new[x].key = "name")
        BY <1>2, <1>5
    <2>2. 0 \in {0} \cup Content(old)
        OBVIOUS
    <2>3. Lookup(new, f[0], "name") = f[n0]
        BY <2>1, <2>2, <1>1, LookupOld
    <2> QED BY <2>3, <1>2
<1> HIDE DEF n0
<1>10. IsScalar(new, f[n0]) /\ new[f[n0]] = old[n0]
    <2>1. f[n0] \in Children(new, 0) /\ f[n0] # k1
        BY <1>2, <1>4, <1>8
    <2>2. f[n0] \notin {k2, k3}
        <3>1. k1 \in Content(new) /\ k2 \in Content(new) /\ k2 \in Children(new, k1) /\ k3 \in Children(new, k2)
              /\ k1 # 0
            BY <1>1, SmoothPath, PathLines DEF Edited
        <3> QED BY <3>1, <2>1, <1>2, <1>3, OneParent
    <2>3. f[n0] \notin {k1, k2, k3} /\ n0 \in Content(old)
        BY <2>1, <2>2, <1>4, <1>8
    <2> QED BY <2>3, <1>1, <1>7, OldScalar
<1>11. IsMapOrNull(new, k1)
    BY <1>2 DEF IsMapOrNull
<1>12. ASSUME NEW x \in Children(new, k1) PROVE ValidEnv(new, x)
    <2>1. CASE IsNew(old, f, x)
        <3>1. x = k2
            BY <2>1, <1>12, PathAdds
        <3> QED BY <3>1, <2>1, NewEnvValid
    <2>2. CASE ~IsNew(old, f, x)
        <3>0. PICK d \in Children(old, 0) : \E e \in Children(old, d) :
                  f[d] = k1 /\ x = f[e] /\ EnvLines(old) = Children(old, d)
            BY <2>2, <1>12, SmoothEnv
        <3>1. PICK e \in Children(old, d) :
                  f[d] = k1 /\ x = f[e] /\ EnvLines(old) = Children(old, d)
            BY <3>0
        <3> QED BY <3>1, OldEnvValid
    <2> QED BY <2>1, <2>2
<1>13. parse_manifest(new)
    BY <1>2, <1>3, <1>6, <1>9, <1>10, <1>11, <1>12 DEF parse_manifest
<1>14. new[Lookup(new, 0, "name")].value = Project
    BY <1>9, <1>10 DEF n0
<1>15. Secrets(new, k2) = {SecretEntry(new, i) : i \in Children(new, k3)}
    BY <1>3 DEF Secrets
<1>16. ASSUME NEW n \in ns
       PROVE  /\ n \in {s.name : s \in Secrets(new, k2)}
              /\ FirstEntry(new, k2, n) = [name |-> n, env_var |-> n, path |-> n]
    <2> DEFINE found == {i \in Children(new, k3) : new[i].key = n}
    <2>1. \A i \in Children(new, k3) : SecretEntry(new, i).name = new[i].key
        BY DEF SecretEntry
    <2>2. found # {}
        BY <1>1, <1>16 DEF Prepared
    <2>3. found \in SUBSET Nat
        BY <1>2, <1>3, ChildrenAre
    <2>4. Min(found) \in found
        BY <2>2, <2>3, HasMinimum
    <2>5. FirstEntry(new, k2, n) = SecretEntry(new, Min(found))
        BY <1>3 DEF FirstEntry
    <2> HIDE DEF found
    <2>6. Min(found) \in Children(new, k3) /\ new[Min(found)].key = n
        BY <2>4 DEF found
    <2> DEFINE s == SecretEntry(new, Min(found))
    <2>7. s \in Secrets(new, k2) /\ s.name = n
        BY <2>1, <2>6, <1>15
    <2> HIDE DEF s
    <2>8. s = Own(n)
        BY <2>7, <1>16, OwnEntries
    <2> QED BY <2>5, <2>7, <2>8 DEF s, Own
<1> QED BY <1>3, <1>13, <1>14, <1>16 DEF Proved

\* Where the environment is read from.
LEMMA EnvMeaning ==
    ASSUME NEW lines, Text(lines), Unique(lines), NEW env \in Words, NEW e \in EnvLines(lines),
           lines[e].key = env
    PROVE  Meaning(lines)[env].secrets = Secrets(lines, e) /\ Meaning(lines)[env].vars = Vars(lines, e)
<1> DEFINE d == Lookup(lines, 0, "env")
<1>1. d # 0 /\ d \in Children(lines, 0) /\ EnvLines(lines) = Children(lines, d)
    BY EnvLinesAre
<1>2. d \in Content(lines) /\ d \in 0..Len(lines) /\ e \in 1..Len(lines)
    <2>1. Len(lines) \in Nat /\ Content(lines) \subseteq 1..Len(lines)
        BY TextIs
    <2>2. d \in Content(lines)
        BY <1>1, <2>1, ChildrenAre
    <2> QED BY <2>1, <2>2, EnvLinesAre
<1>3. \A x \in EnvLines(lines) : lines[x].key = env => x <= e
    BY <1>1, <1>2 DEF Unique
<1>4. EnvLine(lines, env) = e
    BY <1>3, EnvLineUnique
<1>5. Meaning(lines)[env] = [secrets |-> Secrets(lines, e), vars |-> Vars(lines, e)]
    <2>1. e # 0
        BY <1>2
    <2> QED BY <2>1, <1>4, MeaningIs
<1> QED BY <1>5

\* What it takes for nothing to stand against the edit.
LEMMA Unobstructed ==
    ASSUME Text(text), NEW r, r.env \in Envs, NothingInTheWay(r)
    PROVE  /\ WellFormed(text) /\ Unique(text) /\ Even(text, 0, 0) /\ NoQuotes(text, r.env)
           /\ Way1(text, r.env, Range(r.names)) /\ Free(text, r.env, Range(r.names))
<1> DEFINE a == text
           env == r.env
           ns == Range(r.names)
<1>1. /\ parse_manifest(a) /\ Unique(a)
      /\ \A i \in Children(a, 0) : a[i].indent = 0
      /\ \A s \in Meaning(a)[env].secrets : s.name \in ns => s = Own(s.name)
      /\ \A v \in Meaning(a)[env].vars : v[1] \notin ns
    BY DEF NothingInTheWay, Unique
<1>2. \A i \in Content(a) : a[i].key \in {"name", "env", "secrets", env} \cup ns =>
          a[i].kind = "plain" /\ a[i].value # EmptyMap
    BY DEF NothingInTheWay, OnPath
<1>3. /\ WellFormed(a) /\ IsMapOrNull(a, Lookup(a, 0, "env"))
      /\ \A e \in EnvLines(a) : ValidEnv(a, e)
    BY <1>1 DEF parse_manifest
<1>4. Len(a) \in Nat /\ Content(a) \subseteq 1..Len(a)
    BY TextIs
<1>5. \A i \in 0..Len(a) : Children(a, i) \subseteq Content(a)
    BY ChildrenAre
<1>6. ASSUME NEW i \in {0} \cup Content(a), NEW j \in Children(a, i)
      PROVE  Lookup(a, i, a[j].key) = j /\ j \in Content(a) /\ j # 0
    <2>1. i \in 0..Len(a)
        BY <1>4
    <2>2. \A k \in Children(a, i) : a[k].key = a[j].key => k = j
        BY <1>1, <1>6 DEF Unique
    <2>3. j \in Content(a)
        BY <2>1, <1>5, <1>6
    <2> QED BY <2>1, <2>2, <2>3, <1>4, <1>6, LookupUnique
<1>7. ASSUME NEW j \in Children(a, 0), a[j].key = "env"
      PROVE  Plainly(a, j) /\ j \in Content(a) /\ EnvLines(a) = Children(a, j)
    <2>1. Lookup(a, 0, "env") = j /\ j \in Content(a) /\ j # 0
        BY <1>6, <1>7
    <2>2. Plainly(a, j)
        BY <2>1, <1>2, <1>3, <1>7 DEF IsMapOrNull, Plainly
    <2> QED BY <2>1, <2>2 DEF EnvLines
<1>8. ASSUME NEW j \in Children(a, 0), a[j].key = "env", NEW e \in Children(a, j), a[e].key = env
      PROVE  Plainly(a, e) /\ e \in Content(a) /\ ValidEnv(a, e)
    <2>1. j \in Content(a) /\ EnvLines(a) = Children(a, j)
        BY <1>7, <1>8
    <2>2. e \in Content(a) /\ e # 0
        BY <2>1, <1>6, <1>8
    <2>3. ValidEnv(a, e)
        BY <2>1, <1>3, <1>8
    <2> QED BY <2>2, <2>3, <1>2, <1>8 DEF ValidEnv, IsMapOrNull, Plainly
<1>9. ASSUME NEW e \in Content(a), ValidEnv(a, e), NEW s \in Children(a, e), a[s].key = "secrets"
      PROVE  Plainly(a, s) /\ Way4(a, s, ns)
    <2>1. Lookup(a, e, "secrets") = s /\ s \in Content(a) /\ s # 0
        BY <1>6, <1>9
    <2>2. EntryLines(a, e) = Children(a, s)
        BY <2>1 DEF EntryLines
    <2>3. IsMapOrNull(a, s) /\ \A i \in Children(a, s) : ValidEntry(a, i)
        BY <2>1, <2>2, <1>9 DEF ValidEnv
    <2>4. Plainly(a, s)
        BY <2>1, <2>3, <1>2, <1>9 DEF IsMapOrNull, Plainly
    <2>5. ASSUME NEW i \in Children(a, s), a[i].key \in ns PROVE Plainly(a, i)
        <3>1. i \in Content(a) /\ i # 0
            BY <2>1, <2>5, <1>6
        <3>2. Lookup(a, i, "env_var_name") # 0
            BY <2>3, <2>5 DEF ValidEntry, IsScalar
        <3>3. Children(a, i) # {}
            <4>1. i \in 0..Len(a)
                BY <3>1, <1>4
            <4> QED BY <4>1, <3>2, LookupIs
        <3>4. a[i].value = Nothing
            BY <3>1, <3>3, <1>3 DEF WellFormed
        <3> QED BY <3>1, <3>4, <2>5, <1>2 DEF Plainly
    <2> QED BY <2>4, <2>5 DEF Way4
<1>10. Way1(a, env, ns)
    BY <1>7, <1>8, <1>9 DEF Way1, Way2, Way3
<1>11. Free(a, env, ns)
    <2> SUFFICES ASSUME NEW e \in EnvLines(a), a[e].key = env
                 PROVE  /\ \A v \in Vars(a, e) : v[1] \notin ns
                        /\ \A s \in Secrets(a, e) : s.name \in ns => s = Own(s.name)
        BY DEF Free
    <2>1. env \in Words
        BY DEF Words
    <2>2. Meaning(a)[env].secrets = Secrets(a, e) /\ Meaning(a)[env].vars = Vars(a, e)
        BY <2>1, <1>1, EnvMeaning
    <2> QED BY <2>2, <1>1
<1>12. NoQuotes(a, env)
    BY <1>2 DEF NoQuotes
<1> QED BY <1>1, <1>3, <1>10, <1>11, <1>12 DEF Even

\* Where nothing stands against it, the edit succeeds.
LEMMA Succeeds ==
    ASSUME Text(text), NEW r \in Requests, NothingInTheWay(r)
    PROVE  manifest_with_entries(text, r.env, r.names).ok
<1> DEFINE a == text
           step == Step(a)
           root == ensure_block(a, 1, Len(a) + 1, 0, step, "env")
           ns == Range(r.names)
           result == Complete(Within(Within(root, step, r.env), step, "secrets"), r.env, r.names, step)
<1>1. r.env \in Envs /\ r.names \in Seq(Names)
    BY EditAssumption
<1>2. /\ WellFormed(a) /\ Unique(a) /\ Even(a, 0, 0) /\ NoQuotes(a, r.env)
      /\ Way1(a, r.env, ns) /\ Free(a, r.env, ns)
    BY <1>1, Unobstructed
<1>3. /\ parse_manifest(a) /\ a[Lookup(a, 0, "name")].value = Project
      /\ ns \cap DeniedNames = {}
    BY DEF NothingInTheWay
<1>4. ns \subseteq Names \ DeniedNames
    <2>1. \A i \in DOMAIN r.names : r.names[i] \in Names
        BY <1>1, ElementOfSeq
    <2> QED BY <2>1, <1>3 DEF Range
<1>5. step \in Nat /\ step # 0
    BY StepIs
<1>6. a # <<>>
    <2> SUFFICES ASSUME a = <<>> PROVE FALSE
        OBVIOUS
    <2>1. Lookup(a, 0, "name") # 0
        BY <1>3 DEF parse_manifest, IsScalar
    <2>2. Len(a) = 0 /\ Content(a) \subseteq 1..Len(a)
        BY TextIs, EmptySeq
    <2>3. Lookup(a, 0, "name") \in Children(a, 0) /\ Children(a, 0) \subseteq Content(a)
        <3>1. 0 \in 0..Len(a)
            BY <2>2
        <3> QED BY <3>1, <2>1, LookupIs, ChildrenAre
    <2> QED BY <2>2, <2>3
<1>7. manifest_with_entries(a, r.env, r.names) = result
    BY <1>6 DEF manifest_with_entries
<1> DEFINE env == r.env
           names == r.names
<1>8. PICK F, f, k1, k2, k3, E :
          /\ result = IfProved(F, env, names)
          /\ Edited(a, F, f, k1, k2, k3, E, env, ns)
          /\ Prepared(F, k1, k2, k3, E, env, ns)
    <2> HIDE DEF step, env, names
    <2> QED BY <1>1, <1>2, <1>5, Prepare DEF env, names
<1>9. Smooth(a, F, f, k1, k2, k3, E, env, ns)
    BY <1>2, <1>3, <1>4, <1>8 DEF Smooth
<1>10. Proved(F, env, names)
    BY <1>3, <1>9, EditProves
<1>11. result.ok
    BY <1>8, <1>10 DEF IfProved
<1> QED BY <1>7, <1>11

\* Where nothing stands against it, manifest_with_entries succeeds, in every
\* text that imports and edits by hand lead to.
THEOREM EditAlwaysSucceeds == EditSpec => []EditSucceeds
<1>1. EditTypeOK => EditSucceeds
    <2> SUFFICES ASSUME EditTypeOK, NEW r \in Requests, NothingInTheWay(r)
                 PROVE  manifest_with_entries(text, r.env, r.names).ok
        BY DEF EditSucceeds
    <2>1. Text(text)
        BY DEF EditTypeOK, Text
    <2> QED BY <2>1, Succeeds
<1> QED BY <1>1, EditTypeCorrect, PTL
=============================================================================
