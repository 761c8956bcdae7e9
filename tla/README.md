# secretov: TLA+ models, model checking and proofs

secretov keeps secrets in one encrypted file. A per-user daemon holds the file
unlocked and serves requests on a Unix socket; the command line, the TUI and
`exec`/`import` are clients of that daemon. This directory models the parts
that have to stay right under failures, kills, power loss and concurrency,
checks them with TLC on small instances, and proves the most important
properties with TLAPS for every instance.

Paths below are relative to `src/src/` of the repository.

## 1. Inventory

| Component | State | Operations | Talks to | What makes it correct |
|---|---|---|---|---|
| `write_file_atomic` (`paths.hpp`) | the path, `path.tmp`, the directory | replace the file | the file system | readers and crash recovery see one whole text; a throw means nothing changed |
| `Store` (`store.cpp`) | `data_`, `key_`, `env_`, the file | create, open (migrating version 1), set, remove, rotate, change_passphrase; get, list, get_prefix read | `write_file_atomic` | memory agrees with disk; acknowledged state survives; old keys and passphrases die |
| Daemon loop (`daemon.cpp`, `transport.cpp`, `protocol.hpp`) | backlog, current connection, read buffer | accept, read_line, dispatch, write_line | Store, clients | each request at most once, in order, never half a line |
| `DaemonClient` (`client.cpp`) | one connection per request | send: connect, write, read, with timeouts | daemon loop | what the caller is told is what happened |
| `init` and daemon lifecycle (`client.cpp`, `daemon.cpp`, `transport.cpp`) | socket path, bound inode, open store, token file | create store and token; probe, unlock, auto-rotate, bind, listen, signal, exit | other daemons, the store and token files | one reachable daemon per socket, with the token its clients read; starts and inits lose nothing |
| CLI commands, `import`, `exec` (`client.cpp`, `backend.cpp`) | none between requests | several requests and file writes | daemon, manifest file | partial failures can be repaired; no silent overwrite |
| Manifest trust (`manifest.cpp`) | none; looks at files, directories, groups | canonical path, directory checks, open, fstat, read; the check before a manifest is created | file system, user and group databases | nobody else wrote or placed what is acted on; private groups are not refused |
| Manifest text and dotenv (`manifest.cpp`) | text of `.secretov.yaml`, of the imported file | parse, insert entries, scan values | `import`, `exec` | edits keep what was there; a value is stored as it was spelled, or refused |
| TUI (`tui.cpp`, `tui_edit.cpp`) | mode, form, selection, folds, revealed value, held key | one handler per event, a ticker thread | backend | a paste never submits; a secret is masked again; selection survives refresh |
| Prompts, path resolution, `main` | none | | terminal, environment | |

The hard behaviours: a failed, killed or powered-off write at any system call
(`paths.hpp`); candidates that are persisted before they are adopted
(`store.cpp`); replies that are lost or come after the client gave up, and
requests that stay queued (`client.cpp`, `transport.cpp`); a stalled client and
a single-connection daemon; check-then-act on the socket path and on the store
by several daemons and inits that run together; a manifest that others may
swap between its checks and its use; textual edits of YAML written by hand; the
held key of the TUI, resolved by a second thread. `PROJECT.json` lists them under `hazards`, each at its line,
with the property that would catch it.

## 2. Modules

| Module | Models | Used by |
|---|---|---|
| `AtomicCell` | what callers of `write_file_atomic` rely on (abstract) | `AtomicFile` refines it, `Store` is built on it |
| `AtomicFile` | `write_file_atomic`, one action per system call | |
| `AtomicFileProofs` | theorems about `AtomicFile` | |
| `Store` | `store.cpp`, one action per operation; the write itself is the cell's Start, Land, Return or Throw | |
| `StoreProofs` | theorems about `Store` | |
| `KeyValue` | what a caller of `DaemonClient::send` is promised (abstract) | `Service` refines it |
| `Service` | daemon loop and client calls over a listen backlog | |
| `ServiceProofs` | theorems about `Service`, with its refinement of `KeyValue` | |
| `Lifecycle` | `init`, daemon starts and exits on one socket path, store and token | |
| `LifecycleProofs` | theorems about `Lifecycle` | |
| `Commands` | `import`, `exec`, `set` and `delete` over a daemon queue | |
| `CommandsProofs` | theorems about `Commands` | |
| `ManifestTrust` | which manifest text is acted on, against the rights of other accounts | |
| `ManifestEdit` | `parse_manifest` and `manifest_with_entries`, line by line | |
| `Dotenv` | `parse_dotenv`, character by character | |
| `ManifestProofs` | theorems about `ManifestTrust`, `ManifestEdit` and `Dotenv` | |
| `TuiInput` | which key does what in the TUI: modes, pastes, timers | |
| `TuiInputProofs` | theorems about `TuiInput` | |
| `Tui` | the TUI's key tree against a changing store | |
| `TuiProofs` | theorems about `Tui` | |
| `MC*` | instances and symmetry sets for TLC; `MCManifest` runs the three manifest modules side by side, one per behaviour | |

How they fit: `Store` replaces the file through `AtomicCell`, which `AtomicFile`
implements. `Service` takes from `Store` that a failed write changes nothing.
`Commands` and `Tui` take from `Service` that requests are handled once, in the
order in which they were queued, and that one whose client gave up may still be
handled. `Commands` takes the manifest as a map from names to keys; `ManifestEdit`
shows when the text behaves like that map, `ManifestTrust` which text is read at
all, `Dotenv` which pairs an import gets. `TuiInput` decides which handler runs, `Tui` what the handler does.

### AtomicFile

`dir` maps the names `path` and `tmp` to inodes; `maybe` holds, per name, the
inodes a power cut may leave there, a set that grows with every directory
update and shrinks to one element when the directory is synced. An inode holds
a prefix of its text (`len` of `Chunks` writes) and the part of it that is sure
to survive (`safe`). Each action is one system call of the function, with its
failure branch; `Cleanup` is the `fail` lambda. `Kill` stops a writer between
two calls without cleanup, `PowerCut` chooses among the surviving states. The
kernel's part (inode allocation, what fsync guarantees) is external to the
repository and marked so in the map. A write of zero bytes and EINTR change
nothing and are stutters.

`Next` lets any number of processes write the path at once, which is what the
code allows. `SerialNext` starts a write only when no other is in progress:
inside one daemon that is so because it serves one connection at a time.

### Store

Cryptography is symbolic: a KDF key is the record of passphrase, salt and
limits; a box opens with the key that sealed it; random values never repeat. A
version-1 image is one whose payload the KDF key seals directly, written as
data key 0. KDF limits are small naturals: 1 is libsodium's minimum, `MaxLevel`
the maximum `check_kdf_params` accepts. Every writing operation hands `persist`
a candidate (`next`), as the code does; `Adopt` is the assignment after
`persist` returned. `copies`, `acked`, `undo` and `retired` are history
variables: every image anyone could have copied, what callers were told, what
a power cut may go back to because a warning was printed or no answer was
given, and the data keys that a completed rotation replaced.

### Service

A request is one call of `DaemonClient::send` on its own connection. `line`
says how much of the request line is in the socket; a partial line stays
partial until the daemon serves that connection, because the socket buffer is
full. `Kill` closes every connection, queued ones too. `Dispatch` gives the
possible results of a request; a failing store write is one of them, and
`Store` shows that it changes nothing. Requests of other users are refused by
the 0600 socket and the uid check and are left out.

### Lifecycle

Each look at or change of the socket path is a step. `sock` is the socket a
daemon holds, `bound` the inode it remembers; they differ when the path was
replaced between bind and lstat. The store is the set of acknowledged writes
in it and whether its key is older than 30 days. `cut` is history: the last
run of a process was killed or met a failing system call.

`cmd_init` is the passphrase prompt, the look for an existing store, the write
of the store and the write of the token, each a step that may fail or be the
last one; several inits and daemons share the two files. A file is replaced in
one step here, which is what `AtomicCell` says. `SerialNext` keeps two daemons
from starting at once, and two inits; an init beside a daemon stays possible.

### Commands

One project and one environment, so a variable name, its manifest entry and its
scoped key are one name; a few raw keys stand for entries that read elsewhere.
A stored value is the stamp (command, run, option) of the command that wrote
it, which tells the properties who wrote what. Each request is a step that
queues it (`Send`), a step of the daemon (`dispatch`, which may also answer
with an error) and an answer; a command may also fail to send, give up or be
interrupted, and then its request stays in the queue without anyone to answer.
The manifest is a map: `manifest_with_entries` adds, keeps and never changes
entries; `EditRefused` is the proof `import` makes of the edit before the first
set. `unfit` is a variable of the file that cannot be sent, or that a manifest
must not set. Commands are started again after any end, `MaxRuns` in all.
`SerialNext` runs the writing commands one after the other, as one shell does,
with `exec` free to run beside them; `Next` lets all overlap.

### ManifestTrust

The manifest's name is a file in a directory (`here`) or a link to a file in
another (`there`). A `world` fixes owners, modes, ACLs and both account
databases; each system call of `read_manifest_text` is a step, and between them
any other account may rewrite a file (`Rewrite`) or put something else under a
name (`Swap`) whenever the kernel's rule (`CanWrite`, external) lets it. An ACL
that is there may give anybody write access. `author` and `placed` say who wrote
each file and who put it where it is; `via` collects who placed the entries the
reader went through. `Create` is `require_creatable_manifest_dir` with the write
it allows: between the two nothing they depend on changes.

What is assumed, as the code's comments do: accounts and groups can be
enumerated, modes do not change while a command runs, and directories above the
two belong to nobody else.

### ManifestEdit

A line is blank, a comment, or a key with nothing, `{}` or a scalar after the
colon, at an indentation; a key is plain or in quotes. `Children`, `WellFormed`
and `Lookup` say what yaml-cpp makes of block mappings (external: duplicate keys
are kept, a lookup finds the first, a walk meets both). `parse_manifest` and
`Meaning` are the checks and the result of parsing a local project, the rest is
`manifest_with_entries` with its helpers, under the names of the source. Between
imports the user adds, drops, moves or quotes a line.

### Dotenv

A file is a sequence of lines, each blank or a comment, without a valid key, or
a key and the characters after `=`. `n` stands for the three letters that an
escape turns into a control character, `x` for every character the parser does
not tell apart. `ScanQuoted` is the scanner's loop as a recursive function. The
pairs `parse_dotenv` returns are a function from the numbers of their lines.

### TuiInput

`ui` is the state the lambdas of `run_ui` share, as far as it decides what a key
does; each lambda is an operator from a state to the states it may leave.
Characters are `y` (which answers a question) and `c`, any other; text is
characters, Enter and Tab; the rest are keys with a meaning of their own. A
value is a sequence of marks for characters, newlines and tabs, with the cursor
at its end. Time is `Silence` (long enough for both delays) and `Minute`; keys
with no `Silence` between them are within 50 ms of each other. The ticker
thread and the event loop share `requested` and `posted`.

### Tui

A key is the sequence of its segments. `rows` is rebuilt by `build_rows` from
the key list, the filter and the folds, as in the code, and `selected` is an
index into it. `NewRows` is what one key adds to the rows: the folders it does
not share with the key shown before it, and itself, as far as they are open. A handler that makes several requests is several steps (`step`),
since the daemon serves others between them; a request without an answer may
stay queued, and then nothing is answered until the daemon has come to it.
`target` and `landing` are locals of the running handler. `opened`, `listed`
and `fresh` are history; `fresh` holds the keys that others add after the list
of a running add, which it cannot know of. A change of another client may also
come before a request the TUI gave up on; `asked` notes that the user could not
have been asked about a key that came so late. The list at the start may fail,
and then the tree is empty until the next one.

## 3. Runs

| Run | Shows |
|---|---|
| `AtomicFile_serial` | writes that do not overlap implement `AtomicCell`; the path is never torn; a leftover tmp file never fails a write |
| `Store` | memory and disk agree; crash and power-cut safety; rotation and passphrase change take effect |
| `Service` | at-most-once requests with truthful outcomes, in connect order |
| `Service_live` | with a client that may stall: other calls return; a sent request is read although its client gave up, unless the stalled client holds the daemon for ever |
| `Service_full` (violation) | with the backlog full, connect waits for ever |
| `Lifecycle` | one start at a time beside an init: the serving daemon is reachable and expects the token in the file, nothing acknowledged is lost, a store that an init left without a token is empty, and after any kill or failure the next start serves |
| `Lifecycle_overlap_store` (violation) | two starts together: a late auto-rotation overwrites an acknowledged write |
| `Commands` | serial commands with every failure, an `exec` beside them: a refused import stored nothing and a failed set's message names every key that may be stored; an import that was killed or could not write the manifest, whose message names no key, stored only what its loop had tried; what the messages say is stored is stored, and after a success `exec` can use it; an import overwrites nothing unasked, a file that does not fit stores nothing, `exec` sees a prefix of a running import in file order |
| `TuiInput` | a paste ends up in the value it was pasted into; its rest runs nothing; no value stays in a buffer; a held key acts and a shown value is hidden without further input |
| `Tui` | values are shown with their key, edit and delete act on the key they were opened on, an add asks before it replaces a key, the tree is complete, the selection lands well |
| `Manifest` | trust: what is accepted is the user's own, private groups are accepted, what import creates can be read. Edit: an import adds its entries and changes no other, and succeeds where nothing is in the way. Dotenv: every value can be quoted so that it reads back, and an accepted file is stored whole, without its comments (but for a comment alone after the `=`, see section 5) |
| `ManifestEdit_quoted` (violation) | with the environment's name in quotes, an import hides the entries that were there |

Bounds. Two writers and three inodes are enough for a crash outcome, a current
file and a new tmp file to be three different inodes; two chunks give a torn
state. The store run has two passphrases besides the empty one, two draws of
randomness (a rotation after a passphrase change, or two of either) and limits
below, at and above the default. Three requests and a backlog of two give a
served, a queued and a blocked call; one kill reaches every point of them. Two
daemons and three sockets give each daemon one live and one stale socket.
One init beside two daemons, two tokens (an old and a new one) and two writes
give a write before and after each start. Two names, an import, a setter and an
exec that share three runs give a first run that leaves a request behind, a
second that meets it, and another command between them; the raw key makes exec
need two requests, and the variable that does not fit stands anywhere in the
file. One other account, two groups and up to two group entries give every way
to share a group: a second name or entry for its gid, a listed and a primary
member; one inode at a time has an odd owner, mode or ACL, or all are group
writable. Four manifests (steps of one and two, uneven steps with comments and
an empty map, only a name), one edit by hand anywhere in them and imports into
two environments in any number and order put every kind of line before, in and
after every block. Four characters hold a quoted value with an escape or a
comment, two lines a duplicate key. Three marks of text hold a newline or a tab
between two others. Four keys in two levels of folders give siblings, a return
from a nested folder and a top-level key; the filter keeps one nested and one
top-level key; one foreign change and one queued request meet every step of
every handler.

Fairness. The daemon's loop and clients that do not stall take enabled steps
(weak fairness: these are running processes). A client that waits for its
answer or for room in the socket gets its timeout, which is one of the
alternatives of `Await` and `Write`. Clients in `Holders` have no fairness.
Nothing makes a killed daemon come back, and no property needs it to. In
`Lifecycle`, a process that is not killed runs on; a start that was killed, or
one of whose own system calls failed (`cut`), need not serve. In `TuiInput` the
ticker thread and the event loop run and time passes; nothing is assumed about
keys.

Deadlock checking stays on except in the manifest runs, where what the user
types is bounded and behaviours end; `Quiescent` is the daemon waiting for
the next call, `Finished` the state in which all commands have run as often as
the bound allows, `Left` the TUI after its loop has ended.

## 4. Proofs

`AtomicFileProofs`, for all finite or infinite sets of writers, texts and
inodes and every number of chunks:

* `TypeCorrect` holds for overlapping writers too. `TypeOK` is not inductive:
  `Descriptors` adds that every open descriptor has an inode of its own, as
  full as the program counter says.
* `NeverTorn` and `ThrowsOnlyOnFault` hold for serial writers. `SerialInv`
  adds that at most one process is writing (`OneWriter`), that its tmp inode
  is no crash outcome of the path and holds its own text, that what rename is
  about to publish is complete and synced, and that `open` can only meet a tmp
  file if the preceding unlink failed (`TmpIsOwn`).
* `Refinement` (`SerialSpec => ImplementsCell`) maps the cell's value to what a
  reader of the path gets and "landed" to the place after rename. Most steps
  leave the cell alone because they only touch inodes the path cannot denote.

`StoreProofs` rests on one inductive invariant, `StoreInv`. Its parts: `Calls`
(what is being written is the candidate), `Memory` (what is open was written
first), `Files` (every image a power cut may leave opens, and was copied),
`Told` (each of them is acknowledged or warned about), `KeyOwners` (copies
under one data key share a passphrase; a candidate's key is new or comes with
a known envelope), `Retirement`, `Limits`. The six writing operations are
reduced to one lemma (`CallsWrite`: each hands over a sound `Candidate`). From
it follow the theorems that restate the properties of the `Store` run, and
`KdfNeverWeakens`: no sequence of calls lowers the KDF limits of a store.

`ManifestProofs`. Of `ManifestTrust`, for all accounts, group databases, owners
and modes:

* `OursAlone` and `TrustedIsMine` are about the decision procedure alone: a
  group that `shared_group_problem` passes has no other member in any of its
  entries, and so nobody else can write to what `require_trusted` accepts.
* `OnlyMineIsAccepted` (`TrustSpec => []AcceptedIsMine`) needs two facts that
  are inductive together (`IInv`). `DiskIsMine`: whatever would pass the checks
  was never written or placed by others, since passing depends on owners and
  modes that do not change, and those exclude the others' steps. `Checked`: the
  checks the reader is past hold of the directory and the inode it goes on to
  use, because the file is checked through its descriptor.
* `CreatedCanBeRead` adds that a created manifest stands in a directory that
  passes, where nobody else can replace it, and is itself accepted.
* `TypeCorrect` comes first: the inductive steps of the other two rest on it.
* `PrivateAccepted` is the other direction: where files and directories are
  private to the user, every check passes. It needs that nobody else can step
  in there (`Undisturbed`), and that a search for the first entry of a group
  stops at one that is harmless too: the least such entry exists because the
  naturals are well-founded (`HasMinimum`).

Of `Dotenv`, for files, lines and values of any length:

* The scanner's loop is a function given by its steps (`Scans`), so what it
  returns is found by induction on sets of numbers, which first-order provers
  can do (`Induction`, from `HasMinimum`). `DotenvTypeCorrect` is the type.
* `QuotedAlwaysReadsBack`: whatever was written between quotes with its escapes
  is read back (`ScanReads`, by induction on what is left of the value), also
  with a comment after it.
* `AcceptedAlwaysWhole`: what the scanner returns is what stands between the
  quotes (`ScanYields`, by induction from the line's end), unquoted text is kept
  up to the comment and has no ` #` in it (`UnquotedSpells`), and the pairs of an
  accepted file have keys of their own. A line with only a comment after the `=`
  is left out of the claim (`CommentAlone`).

Of `ManifestEdit`, for texts of any length and indentation:

* `EditTypeCorrect`: the text stays a sequence of lines.
* `EditAlwaysOnlyAdds` (`EditSpec => EditOnlyAdds`), where no environment's name
  is ever put in quotes (`NoQuotedEnvs`; without that it is false, as the run
  `ManifestEdit_quoted` shows, and the `Manifest` run fulfils it). Lines are put
  in only where a block ends, no less indented than the block, so that of two
  old lines the one is below the other after the edit if and only if it was
  before (`Grown`, `InsertGrows`). `Ensure` shows it for one call of
  `ensure_block`, with what the next call needs: where the new block ends
  (`Region`) and how its first line is indented (`Lead`). `FilledIs` shows it for
  the entries. Three calls and the entries compose to `Edited`: every line that
  is new is on the path to an entry or in one. That the code parses its result
  before it writes is needed here: only then are siblings equally indented,
  whatever the user made of the file, and a line put in at the end of a block is
  a child of the block's key. From then on a lookup finds what it found, or
  what was added where there was nothing (`LookupOld`), so each environment but
  the one asked for means what it meant (`EnvMeans`), and that one gains entries
  among those asked for (`MeaningGrows`). The proof the code makes at the end
  says that all of them are there (`ProvedHas`).
* `EditAlwaysSucceeds` (`EditSpec => []EditSucceeds`). Each call of
  `ensure_block` succeeds and leaves the text well-formed, its keys unique and
  its block evenly indented (`Extend`, from `StageForm`, `StageUnique` and
  `NextBlock`), so the three calls leave a path that is there once (`Opened`,
  `ThreeStages`). The entries at its end keep the text well-formed, and there is
  one for each name (`FillForm`, `AddedIs`, `Prepared`). Each check of
  `parse_manifest` that held before holds after, old line by old line
  (`OldScalar`, `OldEntry`, `OldEnvValid`), and holds of what is new
  (`NewEntry`, `NewEnvValid`), so the proof the code makes of its own result
  succeeds (`EditProves`). `Unobstructed` derives where this starts from
  `NothingInTheWay`. Quoted names are allowed here, beside the path.

`LifecycleProofs`, for any number of daemons, inits, sockets, tokens and
writes. `TypeCorrect` holds for starts that overlap. The rest is for starts and
inits that come one after the other (`SerialSpec`), from one invariant (`IInv`)
that says much more than the properties: a process that has probed the path in
vain, or serves on it, is alone (`OneOwner`), so what it did to the path, what
it read of the store and what it read of the token is still so (`OwnPath`,
`OwnStore`, `OwnToken`); a store without a token is the work of an init that
has not finished and holds nothing (`Files`, `Setup`). None of these is
inductive without the others: that nobody replaces a store that was read
follows from `OneOwner`, and that an init leaves it alone from `Setup`.

`ServiceProofs`, for any number of calls and kills and any backlog:

* `TypeCorrect` and `InOrder`: the tickets in the backlog grow, from the one
  being served on (`Order`), so requests are handled in connect order.
* `Implements` (`Spec => ImplementsKeyValue`): a line can be read only while it
  is whole, being read empties the socket, and a call without a whole line has
  no effect (`Fresh`, `Whole`, `Dispatching`), so the steps of a call map to one
  effect at most and to one outcome. `DispatchType` says what a request can
  yield.
* `CallersKnow` and `AtMostOnce` prove, of the abstract steps, what those
  promise: a reply is the effect and stays so, and a call that ended unsent has
  none for ever.

`CommandsProofs`, for any commands, names and keys and any number of runs:

* With commands that overlap in any way (`Spec`), `StoredWasTried` and
  `UnfitStoresNothing`. The invariant `Inv` ties each queued request to the
  client that waits for it (`Mailbox`), gives every run a stamp nobody else has
  (`Stamping`), and keeps the keys that have it, or may still get it from the
  queue, within the part of the file that the loop has reached (`Progress`).
* With writing commands one after the other (`SerialSpec`),
  `PlainImportOverwritesNothing` and `ReportTrue`, which also says that a failed
  manifest write leaves every variable stored. What an earlier command left
  queued is handled before a later one's getprefix (`QuietOf`), so what the
  getprefix found is still so when the sets come (`FoundOf`), and a queued set
  of a plain import only ever meets keys without a value (`PlainSets`).
* `ImportSeenInOrder`: if one import is all that ever stored anything, what its
  present run stored is there, even after it ended with a request still queued
  (`Settled`), and one request of an exec asks for the whole scope
  (`AsksScope`, from what `get_many` returns).

`TuiInputProofs`, for texts of any length: `PasteStays`, `AllIsWiped` and
`RestDropped`. Every lambda has a lemma of its own; the invariant says where
text may be (`Tidy`), that a held key is young while text keys come in quick
succession (`Running`, which is why a newline in a paste never submits), and
that the rest after a submit falls into the quiet time (`Quieted`).

`TuiProofs`, for any keys, filter, number of changes by others and queue:

* `TypeCorrect`, and with it that a target is a key and a landing a row.
* `ShownBesideItsKey`, `ActsAsShown` and `AddAlwaysAsks`. No handler runs while
  another waits for an answer, so the row a handler took its key from is selected
  until its last answer (`AtRow`); an add saves right after an answered list, and
  an answer means nothing is queued, so no set without a question is queued
  behind another request (`Saving`, `Queued`).
* `TreeAlwaysComplete` is about `build_rows` alone, for every set of keys, filter
  and set of closed folders. The fold over the keys is a function given by its
  steps; by induction over the keys shown so far, each adds the folders it does
  not share with the one before it. That no folder comes twice, and that what
  is in one stands together below it, needs keys in the order of `std::sort` on
  segments: two keys of a folder have only keys of that folder between them.
  `SortAssumption` says so; TLC checks it of the order it runs with.
* `SelectionAlwaysLands`: after a save the key it saved is selected; after a
  delete a row of the same folder, if it has one. The landing was chosen from
  the rows before the delete (`Lands`), so the second half holds where those
  rows were up to date (`UpToDate`). They are not after a save whose list
  request failed: then they still show the keys of before it.

Assumptions are the named `ASSUME`s of the modules: sentinels differ from real
values (a missing store from every store, nobody and no value from every
client, key, stamp, request and reply), at least one chunk, a default KDF limit
within the accepted range, at least one other account, finitely many names,
imports, setters and execs that are different commands, keys listed
once each, in an order that keeps folders together (`TuiAssumption`,
`SortAssumption`), lines and requests of their types (`EditAssumption`).

Only model-checked, and why:

* All liveness, which is out of the prover's reach.

`TypeOK` of `TuiInput` and of `Commands` states the ranges of the variables with
the models' bounds on texts, queues and runs; no run lists it. What is proved is
its form without the bounds, as a part of the inductive invariants (`AnyUis` in
`Tidy`, `Types` in `Inv`).

## 5. Findings

The three violation runs are recorded in `PROJECT.json` with the lines and the
documentation they contradict: `connect` without a time limit; a second daemon
start that auto-rotates over the first one's writes, since no lock keeps two
starts apart (DESIGN.md:41 and SECURITY.md:441 accept that both may auto-rotate,
not that a write is lost); and an import into an environment whose name is
written in quotes, which adds a second block for it and so hides the first.

Further disagreements met while modelling, each visible in the module named:

* `AtomicFile`, `PathNeverTorn` under `Spec` for `SerialSpec`: the temporary
  name is the fixed `path.tmp`, so of two processes that write one path at once
  (two starts that migrate or auto-rotate, two inits, two imports into one
  manifest) one can unlink and recreate it while the other renames it, which
  publishes a partly written, unsynced file. README.md:110 says a plain copy at
  any moment is a consistent snapshot.
* `Lifecycle`, `CheckStore` and `ReadToken`: daemon.cpp:181 and USING.md:217
  send a user whose token is missing to `secretov init`, but `Store::create`
  refuses as long as the store is there. `StuckStoreIsEmpty` shows that after an
  init that was cut short removing the store loses nothing; after a token that
  was lost otherwise it would.
* `Dotenv`, `Unquoted`: after `KEY=` and a blank, a `#` starts the value instead
  of a comment, without a warning, since the blank before it has been skipped
  (`KEY= # note` stores `# note`; manifest.hpp:131 and USING.md:59 say that a
  trailing ` #...` comment is dropped with a warning). `AcceptedIsWhole` claims
  nothing of such a line (`CommentAlone`) and, of every other unquoted value,
  that no ` #` is in it.
* `Lifecycle`, `ServingIsReachable` without the one-start-at-a-time condition
  (`Spec` for `SerialSpec`): of two daemons started together both can end up
  serving, one on an unlinked socket, if one connects between the other's bind
  and listen. SECURITY.md:441 says the bind-time re-check stops the second.
* `Commands`, `NoSilentOverwrite` under `Spec`: `import` reads the existing
  keys once and then sets, so a key another client adds in between is replaced
  without `--overwrite` (USING.md:54). `SerialSpec` has no such client.
* `Commands`: USING.md:55 says that the import is all-or-nothing. It is so only
  when it is refused. A set that fails ends it with the earlier keys stored, and
  the message names them. If the manifest cannot be written after the sets
  (`unrecorded`, client.cpp:698), every variable is stored (`ReportIsTrue`), and
  the message gives that error alone (client.cpp:703): it names no key and does
  not say to rerun with `--overwrite`. An import that is killed says nothing.
  `StoresOnlyTried` bounds what all of these may have stored.
* `Tui`, the `fresh` clause of `AddAsks`: a key added between an add's list and
  its set is replaced without the question USING.md:223 promises. The protocol
  has no conditional set.
* `Store`, `Larger`: passwd takes the larger of the stored and the default KDF
  limits; store.hpp:72 says the defaults.

## 6. Not modelled, and the plan

Not modelled: byte layout of the file, JSON, key wiping and memory locking
(memory contents, not behaviour); terminal input, path resolution and the
passphrase prompt (input and output without shared state); TUI rendering and
cursor movement (layout); the registry and the cloud backend settings (format
checks; no cloud backend exists yet); the walk upward that finds a manifest (it
only chooses a path, which `ManifestTrust` then checks); the characters of
segments and the list of denied variables (constants of the models).

Every part of the program that keeps state or makes several steps is modelled.
What is left is a proof: `Lifecycle` without the one-start-at-a-time condition,
that is, which parts of `IInv` remain when starts and inits overlap.
