----------------------------- MODULE MCManifest -----------------------------
(* The three parts of manifest handling.  They share no state, so one part *)
(* moves in each behaviour while the others rest.                          *)
EXTENDS ManifestTrust, ManifestEdit, Dotenv

CONSTANTS Parts, other, g1, g2, shared, dev, prod, A, B, PATH

VARIABLE part
mcVars == <<part, trustVars, editVars, dotenvVars>>

TrustRests ==
    /\ world = CHOOSE w \in Worlds : ~w.link
    /\ entry = [d \in Dirs |-> "none"] /\ placed = [d \in Dirs |-> Me]
    /\ author = [i \in Inodes |-> Me]
    /\ pc = "idle" /\ real = "here" /\ fd = "manifest" /\ via = {}
EditRests == text = <<>> /\ edits = 0
DotenvRests == dotenv = <<>>

Init ==
    /\ part \in Parts
    /\ IF part = "trust" THEN TrustInit ELSE TrustRests
    /\ IF part = "edit" THEN EditInit ELSE EditRests
    /\ IF part = "dotenv" THEN DotenvInit ELSE DotenvRests

Next ==
    /\ UNCHANGED part
    /\ \/ part = "trust" /\ TrustNext /\ UNCHANGED <<editVars, dotenvVars>>
       \/ part = "edit" /\ EditNext /\ UNCHANGED <<trustVars, dotenvVars>>
       \/ part = "dotenv" /\ DotenvNext /\ UNCHANGED <<trustVars, editVars>>

Spec == Init /\ [][Next]_mcVars

-----------------------------------------------------------------------------
(* Worlds: one inode at a time is odd, or all were made under umask 0002,  *)
(* with every group database of up to two entries.                         *)
Base == [owner |-> Me, gid |-> g1, group_write |-> FALSE, other_write |-> FALSE, acl |-> "none"]
Odd == [owner : {Me, Root, other}, gid : {g1}, group_write : BOOLEAN, other_write : BOOLEAN,
        acl : {"none", "some", "unreadable"}]
Umask0002 == [Base EXCEPT !.group_write = TRUE]

MCGroupEntry == [name : {Me, shared}, gid : {g1}, members : {{}, {Me}, {other}}]
MCGroups == UNION {[1..n -> MCGroupEntry] : n \in 0..2}
OwnGroup == <<[name |-> Me, gid |-> g1, members |-> {}]>>
MCPrimary == {[u \in Accounts |-> IF u = Me THEN m ELSE IF u = other THEN o ELSE g2] : m, o \in {g1, g2}}

OneOdd(odd) == UNION {{<<x, Base, Base>>, <<Base, x, Base>>, <<Base, Base, x>>} : x \in odd}
GroupWritable == OneOdd({Umask0002}) \cup {<<Umask0002, Umask0002, Umask0002>>}
MCWorld(t, groups, primary, scan, link) ==
    [file |-> t[1], dir |-> [here |-> t[2], there |-> t[3]],
     groups |-> groups, primary |-> primary, scan |-> scan, link |-> link]
MCWorlds ==
    {MCWorld(t, g, p, TRUE, l) : t \in GroupWritable, g \in MCGroups, p \in MCPrimary, l \in BOOLEAN}
    \cup {MCWorld(t, OwnGroup, p, s, l) :
             t \in OneOdd(Odd), p \in MCPrimary, s \in BOOLEAN, l \in BOOLEAN}

-----------------------------------------------------------------------------
(* Manifests in several styles of indentation, and lines to add to them.   *)
NoKey(kind, n) == [indent |-> n, kind |-> kind, key |-> "name", value |-> Nothing]

Indented(s) ==
    <<Key(0, "name", Project), Key(0, "env", Nothing), Key(s, dev, Nothing),
      Key(2 * s, "secrets", Nothing), Key(3 * s, A, Nothing), Key(4 * s, "env_var_name", A),
      Key(s, prod, Nothing), Key(2 * s, "vars", Nothing), Key(3 * s, B, A)>>
Uneven ==
    <<NoKey("comment", 0), Key(0, "name", Project), Key(0, "env", Nothing), Key(3, prod, Nothing),
      Key(5, "secrets", EmptyMap), NoKey("comment", 3), Key(3, dev, Nothing),
      Key(4, "vars", Nothing), Key(7, B, A), NoKey("blank", 0)>>
MCSamples == {Indented(1), Indented(2), Uneven, <<Key(0, "name", Project)>>}

MCNewLines ==
    {NoKey("comment", n) : n \in 0..3}
    \cup {Key(4, "key", Foreign), Key(3, B, EmptyMap), Key(1, dev, Nothing), Key(2, "vars", Nothing),
          Key(3, A, A), Key(3, PATH, A)}
MCRequests == {[env |-> dev, names |-> <<A, B>>], [env |-> prod, names |-> <<A>>]}
NotEnvs == Fields \cup Names
=============================================================================
