---------------------------- MODULE ManifestTrust ----------------------------
(***************************************************************************)
(* Which manifest text secretov acts on (manifest.cpp, read_manifest_text  *)
(* with require_trusted and what it calls, and the check import makes      *)
(* before it creates a manifest), while other accounts use the rights that *)
(* the file system gives them: one manifest name, in a directory, which is *)
(* a file there or a symbolic link to a file in another directory.         *)
(*                                                                         *)
(* Owners, modes, ACLs and the account databases stay as they are, and all *)
(* accounts can be enumerated; directories above the two are out of reach  *)
(* of the others.  An account and its name are one thing.                  *)
(***************************************************************************)
EXTENDS Naturals, Sequences, FiniteSets, FiniteSetsExt

CONSTANTS
    Me,          \* the account secretov runs as
    Root,
    Others,      \* all the other accounts
    GroupNames,  \* names in the group database; a private group is called Me
    Gids,
    Worlds       \* owners, modes and account databases to look at

Accounts == {Me, Root} \cup Others
Inodes == {"manifest", "stale", "planted", "created"}
Dirs == {"here", "there"}

\* One inode, as fstat and getxattr show it.  Group write with an ACL may stand
\* for write by accounts the ACL names.
Attributes == [owner : Accounts, gid : Gids, group_write : BOOLEAN,
               other_write : BOOLEAN, acl : {"none", "some", "unreadable"}]

\* groups is the group database in its order, primary the passwd database's
\* group of each account; scan tells whether they can be read to their end.
GroupEntry == [name : GroupNames, gid : Gids, members : SUBSET Accounts]
World(w) ==
    /\ w.file \in Attributes
    /\ w.dir \in [Dirs -> Attributes]
    /\ w.groups \in Seq(GroupEntry)
    /\ w.primary \in [Accounts -> Gids]
    /\ w.scan \in BOOLEAN
    /\ w.link \in BOOLEAN

ASSUME AccountAssumption ==
    Me # Root /\ Me \notin Others /\ Root \notin Others /\ Others # {}
ASSUME WorldAssumption == \A w \in Worlds : World(w)

VARIABLES
    world,       \* what the disk and the databases look like
    entry,       \* [Dirs -> the inode the name stands for, "link" or "none"]
    placed,      \* [Dirs -> who put that there]
    author,      \* [Inodes -> who wrote its text last]
    pc,          \* next step of read_manifest_text, or of import's check
    real,        \* directory of the canonical path
    fd,          \* the inode that was opened
    via          \* history: who placed the entries the reader went through

trustVars == <<world, entry, placed, author, pc, real, fd, via>>

Steps == {"canonical", "dir", "target", "open", "stat", "read", "creatable"}
Ends == {"idle", "accepted", "refused"}

\* A file of mine that others can read but not write, one of theirs, and what
\* import creates (0644).
Plain(owner) == [owner |-> owner, gid |-> world.primary[owner], group_write |-> FALSE,
                 other_write |-> FALSE, acl |-> "none"]
Inode(i) == IF i = "manifest" THEN world.file
            ELSE IF i = "planted" THEN Plain(CHOOSE u \in Others : TRUE)
            ELSE Plain(Me)

TrustTypeOK ==
    /\ World(world)
    /\ entry \in [Dirs -> Inodes \cup {"link", "none"}]
    /\ placed \in [Dirs -> Accounts]
    /\ author \in [Inodes -> Accounts]
    /\ pc \in Steps \cup Ends
    /\ real \in Dirs
    /\ fd \in Inodes
    /\ via \subseteq Accounts

TrustInit ==
    /\ world \in Worlds
    /\ \E there \in {"manifest", "none"} :
          entry = [here |-> IF world.link THEN "link" ELSE there, there |-> there]
    /\ placed = [d \in Dirs |-> Me]
    /\ author = [i \in Inodes |-> IF i = "planted" THEN CHOOSE u \in Others : TRUE ELSE Me]
    /\ pc = "idle"
    /\ real = "here"
    /\ fd = "manifest"
    /\ via = {}

-----------------------------------------------------------------------------
(* Who is in a group: getgrgid, and the scans of both databases.           *)

Entries(g) == {i \in DOMAIN world.groups : world.groups[i].gid = g}

getgrgid(g) == world.groups[Min(Entries(g))]

\* Mutant: the group's own entry, met again in the scan, is another name.
CollectTwice(g) ==
    [group         |-> getgrgid(g).name,
     other_names   |-> {world.groups[i].name : i \in Entries(g)},
     supplementary |-> UNION {{<<u, world.groups[i].name>> :
                                  u \in world.groups[i].members \ {Me}} : i \in Entries(g)},
     primary       |-> {u \in Accounts \ {Me} : world.primary[u] = g}]

collect_group_members(g) ==
    [group         |-> getgrgid(g).name,
     other_names   |-> {world.groups[i].name : i \in Entries(g)} \ {getgrgid(g).name},
     supplementary |-> UNION {{<<u, world.groups[i].name>> :
                                  u \in world.groups[i].members \ {Me}} : i \in Entries(g)},
     primary       |-> {u \in Accounts \ {Me} : world.primary[u] = g}]

ours_alone(members) ==
    members.primary = {} /\ members.supplementary = {} /\ members.other_names = {}

\* Group write by g is unsafe, or a scan fails.
shared_group_problem(g) ==
    \/ world.primary[Me] # g
    \/ Entries(g) = {}
    \/ ~world.scan
    \/ getgrgid(g).name # Me
    \/ ~ours_alone(collect_group_members(g))

acl_problem(x) == x.acl # "none"

require_trusted(x, directory) ==
    /\ x.owner = Me \/ (directory /\ x.owner = Root)
    /\ ~x.other_write
    /\ x.group_write => ~shared_group_problem(x.gid) /\ ~acl_problem(x)

require_trusted_dir(d) == require_trusted(world.dir[d], TRUE)

-----------------------------------------------------------------------------
(* read_manifest_text.                                                     *)

Refuse == pc' = "refused" /\ UNCHANGED <<real, fd, via>>

Read ==
    /\ pc \in Ends
    /\ pc' = "canonical"
    /\ via' = {}
    /\ UNCHANGED <<world, entry, placed, author, real, fd>>

\* Where the name leads; nothing there is an error.
Canonical ==
    /\ pc = "canonical"
    /\ LET to == IF entry["here"] = "link" THEN "there" ELSE "here" IN
       IF entry[to] \in Inodes
       THEN /\ real' = to
            /\ via' = {placed["here"]}
            /\ pc' = "dir"
            /\ UNCHANGED fd
       ELSE Refuse
    /\ UNCHANGED <<world, entry, placed, author>>

CheckDir ==
    /\ pc = "dir"
    /\ IF require_trusted_dir("here")
       THEN pc' = (IF real = "there" THEN "target" ELSE "open") /\ UNCHANGED <<real, fd, via>>
       ELSE Refuse
    /\ UNCHANGED <<world, entry, placed, author>>

\* Mutant: the directory of a link's target is not looked at.
CheckTargetSkipped ==
    /\ pc = "target"
    /\ pc' = "open"
    /\ UNCHANGED <<real, fd, via, world, entry, placed, author>>

CheckTarget ==
    /\ pc = "target"
    /\ IF require_trusted_dir("there")
       THEN pc' = "open" /\ UNCHANGED <<real, fd, via>>
       ELSE Refuse
    /\ UNCHANGED <<world, entry, placed, author>>

\* O_NOFOLLOW: a link in the meantime is an error, and so is a missing file.
Open ==
    /\ pc = "open"
    /\ IF entry[real] \in Inodes
       THEN /\ fd' = entry[real]
            /\ via' = via \cup {placed[real]}
            /\ pc' = "stat"
            /\ UNCHANGED real
       ELSE Refuse
    /\ UNCHANGED <<world, entry, placed, author>>

\* fstat on the open file, so that what is checked is what is read.
CheckFile ==
    /\ pc = "stat"
    /\ IF require_trusted(Inode(fd), FALSE)
       THEN pc' = "read" /\ UNCHANGED <<real, fd, via>>
       ELSE Refuse
    /\ UNCHANGED <<world, entry, placed, author>>

ReadText ==
    /\ pc = "read"
    /\ pc' = "accepted"
    /\ UNCHANGED <<world, entry, placed, author, real, fd, via>>

-----------------------------------------------------------------------------
(* import where there is no manifest yet.                                  *)

BeginCreate ==
    /\ pc \in Ends
    /\ entry["here"] = "none"
    /\ pc' = "creatable"
    /\ real' = "here"
    /\ UNCHANGED <<world, entry, placed, author, fd, via>>

\* Mutant: a directory that can be written to will do.
CreateAnywhere ==
    /\ pc = "creatable"
    /\ pc' = "idle"
    /\ entry' = [entry EXCEPT !["here"] = "created"]
    /\ placed' = [placed EXCEPT !["here"] = Me]
    /\ author' = [author EXCEPT !["created"] = Me]
    /\ UNCHANGED <<world, real, fd, via>>

\* require_creatable_manifest_dir, where the directory may not be writable
\* either, and, when the secrets are stored, write_file_atomic.
Create ==
    /\ pc = "creatable"
    /\ \/ /\ require_trusted_dir("here")
          /\ pc' = "idle"
          /\ entry' = [entry EXCEPT !["here"] = "created"]
          /\ placed' = [placed EXCEPT !["here"] = Me]
          /\ author' = [author EXCEPT !["created"] = Me]
          /\ UNCHANGED <<real, fd, via>>
       \/ Refuse /\ UNCHANGED <<entry, placed, author>>
    /\ UNCHANGED world

-----------------------------------------------------------------------------
(* What others may do.                                                     *)

\* initgroups gives an account its primary group and every gid under which
\* some entry lists it.
InGroup(u, g) ==
    \/ world.primary[u] = g
    \/ \E i \in Entries(g) : u \in world.groups[i].members

CanWrite(u, x) ==
    \/ x.owner = u
    \/ x.other_write
    \/ x.group_write /\ (x.acl # "none" \/ InGroup(u, x.gid))

\* Another account writes into a file.
Rewrite(u, i) ==
    /\ CanWrite(u, Inode(i))
    /\ author' = [author EXCEPT ![i] = u]
    /\ UNCHANGED <<world, entry, placed, pc, real, fd, via>>

\* Another account renames, links or removes what is in a directory: its own
\* file, or an old one of mine.
Swap(u, d) ==
    /\ CanWrite(u, world.dir[d])
    /\ \E i \in {"stale", "planted", "link", "none"} :
          /\ i = "link" => d = "here"
          /\ entry' = [entry EXCEPT ![d] = i]
    /\ placed' = [placed EXCEPT ![d] = u]
    /\ UNCHANGED <<world, author, pc, real, fd, via>>

Reader ==
    \/ Read \/ Canonical \/ CheckDir \/ CheckTarget \/ Open \/ CheckFile \/ ReadText
    \/ BeginCreate \/ Create

TrustNext ==
    \/ Reader
    \/ \E u \in Others : \/ \E i \in Inodes : Rewrite(u, i)
                         \/ \E d \in Dirs : Swap(u, d)

TrustSpec == TrustInit /\ [][TrustNext]_trustVars

-----------------------------------------------------------------------------
(* Properties.                                                             *)

\* A text that is acted on was written by me, into a file that I (or root) put
\* where its name, and the link that led there, are looked up: whatever the
\* others' rights let them do before and between the checks.
AcceptedIsMine ==
    pc = "accepted" => author[fd] \notin Others /\ via \cap Others = {}

\* A private group: mine by name and gid, in every entry with its gid, with no
\* other member.
PrivateGroup(g) ==
    /\ world.primary[Me] = g
    /\ Entries(g) # {}
    /\ \A i \in Entries(g) : /\ world.groups[i].name = Me
                             /\ world.groups[i].members \subseteq {Me}
    /\ \A u \in Accounts \ {Me} : world.primary[u] # g

Private(x, owners) ==
    /\ x.owner \in owners
    /\ ~x.other_write
    /\ x.group_write => PrivateGroup(x.gid) /\ world.scan /\ x.acl = "none"

\* Nothing is refused without need: with a private group, files and directories
\* made under umask 0002 are fine (USING.md, Permissions).
PrivateIsAccepted ==
    /\ pc = "refused"
    /\ \A d \in Dirs : Private(world.dir[d], {Me, Root})
    /\ Private(world.file, {Me})
    => entry["here"] = "none" \/ (entry["here"] = "link" /\ entry["there"] = "none")

\* Import never creates a manifest that a later command refuses to read, which
\* would orphan the secrets it stored (client.cpp, cmd_import).
CreatedIsReadable == entry["here"] = "created" => pc # "refused"
=============================================================================
