---------------------------- MODULE ManifestEdit ----------------------------
(***************************************************************************)
(* How import adds entries to .secretov.yaml (manifest.cpp, the text-level *)
(* YAML editing and manifest_with_entries), and what parse_manifest reads  *)
(* in the result.  The text is a sequence of lines; a line is blank, a     *)
(* comment, or `key:' with nothing, {} or a scalar after it, at some       *)
(* indentation.  The file is edited by hand as well as by imports.         *)
(*                                                                         *)
(* The project is local (no backend:), entries have no kind: or path:, and *)
(* the variable of an imported entry is its name, as in cmd_import.        *)
(***************************************************************************)
EXTENDS Integers, Sequences, FiniteSets, FiniteSetsExt, SequencesExt

CONSTANTS
    Project,     \* the manifest's name:
    Envs,        \* environments
    Names,       \* secret names, which are variable names too
    Foreign,     \* a key: that is not the entry's own
    DeniedNames, \* variables a manifest must not set
    Nothing,     \* `key:' has nothing after the colon
    EmptyMap,    \* `key: {}'
    Requests,    \* imports: an environment and a sequence of names
    Samples,     \* manifests to start from
    NewLines,    \* lines added by hand
    Quotable,    \* keys the user may put in quotes
    MaxIndent,   \* bound on indentation in texts edited by hand
    MaxEdits     \* bound on edits by hand

VARIABLES
    text,        \* the lines of the file; none if there is no file
    edits        \* how often it was edited by hand

editVars == <<text, edits>>

Fields == {"name", "env", "secrets", "vars", "env_var_name", "key"}
Words == Fields \cup Envs \cup Names
Values == {Nothing, EmptyMap, Project, Foreign} \cup Names
Line == [indent : Nat, kind : {"blank", "comment", "plain", "quoted"},
         key : Words, value : Values]

ASSUME EditAssumption ==
    /\ {Nothing, EmptyMap, Foreign} \cap (Names \cup {Project}) = {}
    /\ (Envs \cup Names) \cap Fields = {} /\ DeniedNames \subseteq Names
    /\ Cardinality({Nothing, EmptyMap, Foreign, Project}) = 4
    /\ Requests \subseteq [env : Envs, names : Seq(Names)]
    /\ Samples \subseteq Seq(Line) /\ NewLines \subseteq Line
    /\ MaxIndent \in Nat /\ MaxEdits \in Nat

EditInit == text \in Samples \cup {<<>>} /\ edits = 0

Key(n, k, v) == [indent |-> n, kind |-> "plain", key |-> k, value |-> v]

blank_or_comment(line) == line.kind \in {"blank", "comment"}
Content(lines) == {i \in DOMAIN lines : ~blank_or_comment(lines[i])}

-----------------------------------------------------------------------------
(* What the text means: yaml-cpp and parse_manifest.  A key that is there  *)
(* twice is two children: a lookup finds the first one.                    *)

\* The lines directly below line i; 0 stands for the document.
Children(lines, i) ==
    {j \in (i + 1)..Len(lines) :
        /\ ~blank_or_comment(lines[j])
        /\ i # 0 => lines[i].indent < lines[j].indent
        /\ \A k \in (i + 1)..(j - 1) :
              blank_or_comment(lines[k]) \/ lines[k].indent >= lines[j].indent}

\* Siblings are equally indented, and only `key:' has lines below it.
WellFormed(lines) ==
    \A i \in {0} \cup Content(lines) :
        LET below == Children(lines, i) IN
        /\ \A j, k \in below : lines[j].indent = lines[k].indent
        /\ i # 0 /\ below # {} => lines[i].value = Nothing

\* The child of line i with this key, 0 if there is none.
Lookup(lines, i, key) ==
    LET found == {j \in Children(lines, i) : lines[j].key = key} IN
    IF found = {} THEN 0 ELSE Min(found)

IsMapOrNull(lines, i) == i # 0 => lines[i].value \in {Nothing, EmptyMap}
IsScalar(lines, i) ==
    i # 0 /\ lines[i].value \notin {Nothing, EmptyMap} /\ Children(lines, i) = {}
refuse_unknown_keys(lines, i, allowed) ==
    \A j \in Children(lines, i) : lines[j].key \in allowed

\* The entry at line i: its own key, env/project/NAME, unless it names one.
SecretEntry(lines, i) ==
    LET key == Lookup(lines, i, "key") IN
    [name    |-> lines[i].key,
     env_var |-> lines[Lookup(lines, i, "env_var_name")].value,
     path    |-> IF key = 0 THEN lines[i].key ELSE lines[key].value]

require_manifest_env_name(name) == name \in Names \ DeniedNames

optional_scalar(lines, i, field) ==
    Lookup(lines, i, field) # 0 => IsScalar(lines, Lookup(lines, i, field))

ValidEntry(lines, i) ==
    LET var == Lookup(lines, i, "env_var_name") IN
    /\ IsScalar(lines, var)
    /\ refuse_unknown_keys(lines, i, {"env_var_name", "key"})
    /\ require_manifest_env_name(lines[var].value)
    /\ optional_scalar(lines, i, "key")

\* parse_env_secrets and parse_env_vars for the environment at line e.
EntryLines(lines, e) == Children(lines, Lookup(lines, e, "secrets"))
VarLines(lines, e) == Children(lines, Lookup(lines, e, "vars"))
Secrets(lines, e) ==
    IF Lookup(lines, e, "secrets") = 0 THEN {}
    ELSE {SecretEntry(lines, i) : i \in EntryLines(lines, e)}
Vars(lines, e) ==
    IF Lookup(lines, e, "vars") = 0 THEN {}
    ELSE {<<lines[i].key, lines[i].value>> : i \in VarLines(lines, e)}

ValidEnv(lines, e) ==
    LET secrets == Lookup(lines, e, "secrets")
        plain == Lookup(lines, e, "vars")
    IN  /\ IsMapOrNull(lines, e)
        /\ refuse_unknown_keys(lines, e, {"secrets", "vars"})
        /\ IsMapOrNull(lines, secrets) /\ IsMapOrNull(lines, plain)
        /\ secrets # 0 => \A i \in EntryLines(lines, e) : ValidEntry(lines, i)
        /\ plain # 0 => \A i \in VarLines(lines, e) :
                            /\ IsScalar(lines, i)
                            /\ require_manifest_env_name(lines[i].key)
        /\ \A s \in Secrets(lines, e), v \in Vars(lines, e) : s.env_var # v[1]

EnvLines(lines) ==
    LET env == Lookup(lines, 0, "env") IN
    IF env = 0 THEN {} ELSE Children(lines, env)

parse_manifest(lines) ==
    /\ WellFormed(lines)
    /\ refuse_unknown_keys(lines, 0, {"name", "env"})
    /\ IsScalar(lines, Lookup(lines, 0, "name"))
    /\ IsMapOrNull(lines, Lookup(lines, 0, "env"))
    /\ \A e \in EnvLines(lines) : ValidEnv(lines, e)

\* The environment's line: of two with one name the later one is kept.
EnvLine(lines, env) ==
    Max({0} \cup {e \in EnvLines(lines) : lines[e].key = env})

\* What commands get out of the file; any word may be an environment's name.
Meaning(lines) ==
    [env \in Words |->
        LET e == EnvLine(lines, env) IN
        [secrets |-> IF e = 0 THEN {} ELSE Secrets(lines, e),
         vars    |-> IF e = 0 THEN {} ELSE Vars(lines, e)]]

-----------------------------------------------------------------------------
(* The edit.                                                               *)

Throws == [ok |-> FALSE]

\* The first line after the block whose key is on line k.
block_end(lines, k, indent) ==
    Min({Len(lines) + 1} \cup
        {i \in Content(lines) : i > k /\ lines[i].indent <= indent})

\* Indentation of the first content line in begin..end-1, -1 if there is none.
child_indent(lines, begin, end) ==
    LET content == Content(lines) \cap (begin..(end - 1)) IN
    IF content = {} THEN -1 ELSE lines[Min(content)].indent

\* The line of `key:', written without quotes, at this indentation; else 0.
find_child(lines, begin, end, indent, key) ==
    LET found == {i \in Content(lines) \cap (begin..(end - 1)) :
                     lines[i].indent = indent /\ lines[i].kind = "plain" /\ lines[i].key = key}
    IN  IF found = {} THEN 0 ELSE Min(found)

\* After the last content line; comments count that are indented enough.
insert_point(lines, begin, end, min_indent) ==
    1 + Max({begin - 1} \cup
            {i \in begin..(end - 1) :
                \/ ~blank_or_comment(lines[i])
                \/ lines[i].kind = "comment" /\ lines[i].indent >= min_indent})

\* Mutant: children are always one step deeper.
EnsureBlockBySteps(lines, begin, end, indent, step, key) ==
    LET found == find_child(lines, begin, end, indent, key)
        at == IF found = 0 THEN insert_point(lines, begin, end, indent) ELSE found
        now == IF found = 0 THEN InsertAt(lines, at, Key(indent, key, Nothing)) ELSE lines
    IN  IF now[at].value # Nothing THEN Throws
        ELSE [ok |-> TRUE, lines |-> now, key_line |-> at,
              end |-> block_end(now, at, indent), entry_indent |-> indent + step]

\* The `key:' block at this indentation, put after the last content if it is
\* missing; a key with {} or a scalar cannot be extended.
ensure_block(lines, begin, end, indent, step, key) ==
    LET found == find_child(lines, begin, end, indent, key)
        at == IF found = 0 THEN insert_point(lines, begin, end, indent) ELSE found
        now == IF found = 0 THEN InsertAt(lines, at, Key(indent, key, Nothing)) ELSE lines
        stop == block_end(now, at, indent)
        children == child_indent(now, at + 1, stop)
    IN  IF now[at].value # Nothing THEN Throws
        ELSE [ok |-> TRUE, lines |-> now, key_line |-> at, end |-> stop,
              entry_indent |-> IF children < 0 THEN indent + step ELSE children]

Step(lines) ==
    LET indented == {i \in Content(lines) : lines[i].indent > 0} IN
    IF indented = {} THEN 2 ELSE lines[Min(indented)].indent

\* Entries as import adds them, without those that are there.
Added(block, names, step) ==
    LET lines == block.lines
        inside == (block.key_line + 1)..(block.end - 1)
        deeper == {i \in Content(lines) \cap inside : lines[i].indent > block.entry_indent}
        value_indent == IF deeper = {} THEN block.entry_indent + step
                        ELSE lines[Min(deeper)].indent
        Missing(n) == find_child(lines, block.key_line + 1, block.end,
                                 block.entry_indent, n) = 0
        New(n) == <<Key(block.entry_indent, n, Nothing), Key(value_indent, "env_var_name", n)>>
    IN  FlattenSeq([i \in DOMAIN names |->
                       IF Missing(names[i]) THEN New(names[i]) ELSE <<>>])

\* A name whose `NAME:' carries a value stops the edit.
InlineEntry(block, names) ==
    \E n \in Range(names) :
        LET i == find_child(block.lines, block.key_line + 1, block.end, block.entry_indent, n)
        IN  i # 0 /\ block.lines[i].value # Nothing

InsertAll(lines, at, new) ==
    SubSeq(lines, 1, at - 1) \o new \o SubSeq(lines, at, Len(lines))

\* The entry that parse_manifest lists first under a name.
FirstEntry(lines, e, name) ==
    LET found == {i \in EntryLines(lines, e) : lines[i].key = name} IN
    SecretEntry(lines, Min(found))

\* Mutant: the edit is written without being looked at.
ProvedBlindly(lines, env, names) == TRUE

\* The result must parse and hold each requested entry, under its own key.
Proved(lines, env, names) ==
    /\ parse_manifest(lines)
    /\ lines[Lookup(lines, 0, "name")].value = Project
    /\ LET e == EnvLine(lines, env) IN
       /\ e # 0
       /\ \A n \in Range(names) :
             /\ n \in {s.name : s \in Secrets(lines, e)}
             /\ FirstEntry(lines, e, n) = [name |-> n, env_var |-> n, path |-> n]

\* The block below another one, if that could be had.
Within(block, step, key) ==
    IF block.ok
    THEN ensure_block(block.lines, block.key_line + 1, block.end, block.entry_indent, step, key)
    ELSE Throws

\* The entries go to the end of the secrets: block; then the edit is proved.
WithEntries(block, names, step) ==
    InsertAll(block.lines,
              insert_point(block.lines, block.key_line + 1, block.end, block.entry_indent),
              Added(block, names, step))

IfProved(lines, env, names) ==
    IF Proved(lines, env, names) THEN [ok |-> TRUE, lines |-> lines] ELSE Throws

Complete(block, env, names, step) ==
    IF ~block.ok \/ InlineEntry(block, names) THEN Throws
    ELSE IfProved(WithEntries(block, names, step), env, names)

manifest_with_entries(old, env, names) ==
    LET lines == IF old = <<>> THEN <<Key(0, "name", Project), Key(0, "env", Nothing)>> ELSE old
        root == ensure_block(lines, 1, Len(lines) + 1, 0, Step(old), "env")
    IN  Complete(Within(Within(root, Step(old), env), Step(old), "secrets"),
                 env, names, Step(old))

-----------------------------------------------------------------------------
\* import reads the manifest, which must parse, and writes the edited text.
Import(env, names) ==
    LET result == manifest_with_entries(text, env, names) IN
    /\ text # <<>> => parse_manifest(text)
    /\ result.ok
    /\ text' = result.lines
    /\ UNCHANGED edits

\* The user adds, removes, moves or quotes a line, anywhere.
HandEdit(new) ==
    /\ edits < MaxEdits
    /\ edits' = edits + 1
    /\ text' = new

AddLine == \E i \in 1..(Len(text) + 1), l \in NewLines : HandEdit(InsertAt(text, i, l))
DropLine == \E i \in DOMAIN text : HandEdit(RemoveAt(text, i))
Reindent == \E i \in DOMAIN text, n \in 0..MaxIndent : HandEdit([text EXCEPT ![i].indent = n])
Quote == \E i \in Content(text) : /\ text[i].key \in Quotable
                                  /\ HandEdit([text EXCEPT ![i].kind = "quoted"])

EditNext ==
    \/ \E request \in Requests : Import(request.env, request.names)
    \/ AddLine \/ DropLine \/ Reindent \/ Quote

EditSpec == EditInit /\ [][EditNext]_editVars

-----------------------------------------------------------------------------
(* Properties.                                                             *)

EditTypeOK == text \in Seq(Line) /\ edits \in 0..MaxEdits

Own(n) == [name |-> n, env_var |-> n, path |-> n]

\* An import that writes adds its own entries to its own environment and
\* changes nothing else that any command reads from the manifest: not one
\* entry or variable, in no environment.  The code proves its own entries
\* only (the end of manifest_with_entries).
EditOnlyAdds ==
    [][edits' = edits =>
          LET before == Meaning(text) IN
          \E r \in Requests :
              Meaning(text') = [before EXCEPT ![r.env].secrets =
                                   @ \cup {Own(n) : n \in Range(r.names)}]]_editVars

\* Where nothing stands against it the edit succeeds, however the file is
\* indented: the path to the entries is written once, in plain style, without
\* {}, and neither an entry nor a variable with other contents is in the way.
OnPath(r) == {i \in Content(text) :
                 text[i].key \in {"name", "env", "secrets", r.env} \cup Range(r.names)}
NothingInTheWay(r) ==
    /\ parse_manifest(text)
    /\ text[Lookup(text, 0, "name")].value = Project
    /\ \A i \in OnPath(r) : text[i].kind = "plain" /\ text[i].value # EmptyMap
    /\ \A i \in Children(text, 0) : text[i].indent = 0
    /\ \A i \in {0} \cup Content(text) : \A j, k \in Children(text, i) :
          text[j].key = text[k].key => j = k
    /\ Range(r.names) \cap DeniedNames = {}
    /\ \A s \in Meaning(text)[r.env].secrets : s.name \in Range(r.names) => s = Own(s.name)
    /\ \A v \in Meaning(text)[r.env].vars : v[1] \notin Range(r.names)

EditSucceeds ==
    \A r \in Requests :
        NothingInTheWay(r) => manifest_with_entries(text, r.env, r.names).ok
=============================================================================
