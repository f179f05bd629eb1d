# Formal models of manymux

manymux keeps terminal sessions alive on the machine they run on. One *node*
(daemon) per account owns the sessions and serves a Unix socket; clients attach
to them, locally or through `ssh <host> mm agent`, and a node also subscribes to
the events of the other machines its owner listed. These modules model the parts
of it where the order of things matters, TLC checks them on small instances, and
TLAPS proves the properties that matter most for every instance.

## The system

| part | state it keeps | operations | speaks to | what makes it correct |
|---|---|---|---|---|
| registry (`node/registry.rs`) | names to sessions, the host's count of clients | spawn, get, attach, list, peek, kill, rename, prune | sessions, under one lock | a running session is under its own name and no other; nothing exited is handed out |
| session (`node/session.rs`) | child, screen, clients and sizes, output and exit channels | ingest, attach, resync, resize, reap, drain, publish | its tasks (reader, writer, reaper), the bus, attachments | output is seen once, in order, and before the exit |
| node and pump (`node/mod.rs`) | upload slots, per attachment: pending input, last heard, a paste | handle a request, pump an attachment, shut down | client frames, the registry, the bus | no attachment outlives its session or hangs on a dead client; a shutdown ends what it took |
| peers (`node/peers.rs`, `Node::watch`) | a task per machine | sync, rewatch, retry, give up | the host list's file, clients' `Reached`, ssh | one subscription per listed machine, given up on when it stays away |
| notifier (`notify.rs`, `node/events.rs`) | cool-downs, a parser | scan output, decide who hears a bell | the bus, the desktop | a bell is told of once, by whoever is near it and not looking |
| node socket (`ipc/unix.rs`, `ensure_running`, `stop`, `restart`) | the socket file | listen, start, stop, wait | other commands, the service manager | one node per socket |
| transport (`proto.rs`, `client/mod.rs`, `client/connections.rs`, `ssh.rs`) | parked connections, a codec, what ssh said | frame, attach, park, reuse, time out, try the next command | ssh | a parked connection is used by one request, in step; a request is handled once |
| attach loop (`attaching.rs`, `client/switch.rs`) | where one is, the trail, what was seeded | hop, reconnect, fall back, rename | listings, attachments | one comes back to where one was, and history is shown once |
| terminal loop (`client/attach/*`, `client/status.rs`, `client/screen.rs`) | mode, box or view over the screen, marks, the modes the program set | keys, popups, uploads, repaint | terminal, attachment, clipboard | the terminal shows the session again, and is left as it was found |
| scroll view (`client/scroll.rs`, `node/history.rs`) | a window, a block, a selection | scroll, search, drag, copy | VIEW and FIND answers | a line named is the line it was; what is copied is what is lit |
| listings and groups (`client/listed.rs`, `client/picker.rs`, `client/groups.rs`, `target.rs`) | one fan-out's answers, rows, groups | ask, merge, pick, locate | every machine at once | late answers do not move what is under the cursor; names are not guessed |
| checkpoints (`client/checkpoint/*`, `checkpointing.rs`, `foreground.rs`) | a file of what was running | save, restore, show | listings, spawns | what did not answer is kept, what runs is not started twice, and it is the same work |
| files (`config.rs`, `hosts.rs`, `settings.rs`) | TOML files and a lock | change, load | other processes | no change is lost, no reader sees half a file |
| update and service (`update.rs`, `signature.rs`, `service.rs`) | the binary, a staged file, the unit | check, apply, restart, install, uninstall | the publisher, the service manager | only what was verified is installed, and a node left behind is said to be |
| phone core (`android/rust/src`) | an attachment, a screen, a key, known hosts, connections | open, resume, detach, trust, ask | machines, the app | it comes back to the session it was in, and says why when it cannot |

What is hard about it: the runtime is multi-threaded, so everything not under a
lock interleaves; `select!` picks among ready arms at random, so an exit can
overtake output; channels are bounded and overtake slow readers; clients stop
reading without closing; machines vanish without a word; streams are cut
anywhere; several commands change one file or one socket; and processes die
between any two steps. `PROJECT.json` lists the hazards at their lines with the
properties that are about each.

## What is modelled

The large modules first; then those that share no state with the others, each
checked as one part of `Parts` or `Edges`.

**Sessions** is the registry and the life of its sessions. `registry`, `name`,
`clients` and `hostClients` are the fields of those names; `reaper` and
`watcher` say how far each session's two tasks have got; `att` is where each
client's attachment is. A critical section is one action, and two where another
thread can see the state in between: a spawn runs the child before its entry is
there (`SpawnChild`, `SpawnInsert`), and an attach and its drop move the host's
count before the session's set (`AttachFind`, `AttachJoin`; `DropAttachment`,
`DropClient`). Every operation prunes, as it does in the code; all that only
read, or were refused, are `Consult`. `Shutdown` is `Node::shutdown` by its
three loops, with the socket served until `ProcessExit`, and its deadline may
run out at any point. A pump that is writing an answer without a deadline
(`Answer`, until `AnswerWritten`) reaches nothing else meanwhile. Names are model
values: `Sanitize` and `Numbered` are functions the instance gives, so that
different requests can come out as one name, or as none.

**Output** is one session's output on its way to terminals. A screen is the
number of chunks it was painted from, so a repaint is a number and a chunk is
its successor; a terminal that gets a chunk out of turn is `Garbled`. The reader
(`Read`), the reaper (`Reap`, `Drain`, `SendExit`), the broadcast channel (`pos`
against `printed`, overtaken past `Backlog`), the pump (`Join`, `TakeChunk`,
`AnswerResync`, `AnswerLines`, `SeeExit`, `TellExit`), its writes (`Send`,
`SendTimesOut`) and the client (`Receive`, and a box over the session:
`OpenBox`, `CloseBox`) are separate steps. A `Plain` client paints what it gets;
a `Boxed` one may put popups and views over the session, behind which nothing is
painted. The answers to VIEW, FIND and RENAME have no deadline, in the code as
here. That a closed box gets its repaint is an invariant (`PictureIsOnItsWay`: it
is asked for, in the pump's hand, or on the wire) and checked among the edges.
`PtyCap <= DrainReads` is what the code relies on: sixteen reads of 16K
empty a kernel buffer of a few pages.

**Mirror** is what attaching promises, without any of that: a terminal shows a
screen the session had, never goes back to an older one, and its owner is told
of the end only once it shows the last. `Output` implements it
(`MirrorsTheSession`) with `final` as `reaper = "sent"` and a client's mode read
off its pump.

**Peers** is the subscriptions to other machines. The poller's steps (`Poll`,
`LoadAgain`, `Sync`, `SpawnWanted`, `Record`) and a request's (`LoadListed`,
`Skip` or `Rewatch`, `Record`) interleave between the locks they take. A watcher
is a task, and its attempt two calls of ssh: the probe of the platform that
every connection begins with (`ssh/bootstrap.rs`), which is answered (`Reached`)
or fails (`Fail`), and the subscription, which may end at any time (`Drop`) and
ends when ssh notices that the machine went (`Notice`). `Over` counts it. The probe has ten
seconds, refused or silent, and two of them are less than STEADY; so a machine
that does not answer is one case, `away`, and an attempt on it never counts as a
subscription that stood. Only a subscription may last that long. An unreadable
host list, which the code logs and passes over, is left out: the file is
replaced by a rename.

**Cycle** is the switch keys' record of where the run is, where it came from
and what it may land on (`client/switch.rs`), as pure operators; the one thing
the loop and the keys both write. **Attaching** is the loop of `do_attach`. Its
locals `cycle`, `snapshot`, `known`, `seeded` and `history` are `book`;
`attached` is `in # NoSession`; `phase` is the arm it is in. Around it a survey
of all machines is out (`listing`) and comes back with what was true when they
were asked; while an attach lasts, the popup's `lister` has it, and hands its
answer over on the way out (`Returned`, which every outcome begins with). The
environment renames, ends, starts and regroups sessions and takes machines off
the network. A session has an identity, as pid and start time give it; the
client has only an address, which another session may come to bear. An attempt
finds whoever bears it (`Attach`), or ends in one of do_attach's four failing
arms, in their order. A regrouping is seen when the code reads `groups.toml`
again, and the tidying of that file is left out, as it touches no session that
runs. A survey that fails as a whole is one that reached no machine. What a key
says on the mark row, the mode it leaves, and parked connections do not change
where the run is and are left out. `been` is a history variable.

**Phone** is the same trouble for the phone's core, which keeps one session
attached over connections that go (`android/rust/src/session.rs`): the queue of
what the app says (`enqueue`, bounded in messages and bytes), the loop
(`keep_attached`, `reaching`, `attach`, `pump`), identity by pid and start or by
name on an older node, the app leaving and resuming. A call of the app is one
step; the waits' lengths and tries are left out. The listing and the attach are
two requests, and `crossed` marks an attach that found the name on another
session in between.

### Parts

| module | code | state and actions |
|---|---|---|
| **Keys**, **Terminal** | `client/attach/keys.rs`, `client/attach/terminal.rs` | `k` is the KeyFilter; a read is typed (`chunk`), makes one action (`act`) and the loop acts on it; `popup`, `view`, `row`, `mouse` are the surfaces, `owing` and `greet` who owes the picture to whom |
| **Scroll** | `client/scroll.rs`, `node/session.rs`, `node/history.rs` | a window counted from the newest line over a history that grows, trims, reflows; `asked`, `inFlight` and the answers in turn; `names` is a history variable that says which line a count was made of |
| **Socket** | `ipc/unix.rs`, `node/mod.rs`, `main.rs` | the path, the nodes binding and clearing it a call at a time, commands that start, stop and restart |
| **Groups** | `client/groups.rs`, `config.rs` | `groups.toml` under its lock, changed by hands and by listings that land late |
| **Watching** | `config.rs`, `hosts.rs`, `settings.rs`, `main.rs` | hosts and settings files as sets of words; commands load, lock, read, write a file of their own and rename it, and may die or fail in each step; `mm add`'s questions to the machine |
| **Rows** | `client/listed.rs`, `attaching.rs` | ids of rows over three ages of the list: known, in the channel, on the screen |
| **Picking** | `client/picker.rs` | the rows found, the highlight, and the lines of the terminal the box is drawn over |
| **Pump** | `node/mod.rs`, `node/session.rs` | what the attachment reads: one pending input, PING and SILENT_FOR, a paste in chunks |
| **Naming** | `node/mod.rs`, `node/registry.rs`, `client/mod.rs` | a name renamed by several hands, the watch on it, and answers on another path |
| **Bells** | `notify.rs`, `node/events.rs`, `node/mod.rs` | stamped bells on the bus, clients that join, leave, lag and die, the desktop's cool-down |
| **Checkpoint** | `checkpointing.rs`, `client/checkpoint/*` | sessions, the file, a save's two questions, a restart, a restore |
| **PhoneScreen**, **PhoneKeys**, **PhoneReach** | `android/rust/src`, `node/session.rs` | its screen against the node's; its key and known hosts on disk, with openings that race and a process that dies; the connections it keeps and the trouble it names |

`Parts` makes a behaviour a behaviour of one of these specifications (`part`),
with variables lent to whichever it is (`v1`, ...; the ones a part has no use for
stay `Off`), so that one run has all of them and three modules of
proofs share them, and each property is the conjunction of the parts' own on one
subject. `MCParts` gives its
constants their values. `Edges` and `MCEdges` are the same of the rest.

### Edges

| module | code | state and actions |
|---|---|---|
| **Output** | `client/attach/terminal.rs`, `node/mod.rs` | as above, with a client that puts boxes over the session (*boxes*) |
| **Stream** | `client/status.rs`, `keyboard.rs`, `client/screen.rs` | a program's bytes through the node's screen and the client's filter to the terminal, cut anywhere; what terminal, filter and node each take the modes to be |
| **Selecting** | `client/scroll.rs` | presses, drags, edges that chase, clicks by word and line, and the copy that waits for its lines |
| **Spelling** | `client/attach/keys.rs`, `client/attach/terminal.rs` | a hand's keys as terminals spell them, reads that end anywhere, and what is made of them |
| **Targets** | `target.rs`, `client/listed.rs` | a word that names a session, a machine or both, over machines that answer, miss or are listed twice |
| **Resuming** | `client/checkpoint/mod.rs`, `client/checkpoint/taking.rs`, `foreground.rs` | a session's command as it is saved, wrapped, restored, and saved again |
| **Framing** | `proto.rs`, `utf8.rs` | frames and characters over a stream cut anywhere, with reads dropped by `select!` |
| **Parking** | `client/connections.rs`, `client/mod.rs`, `node/mod.rs` | streams kept for later, fenced, aged and used again |
| **Carrying** | `client/mod.rs`, `ssh.rs`, `ssh/bootstrap.rs` | the commands tried one after another, what ssh says meanwhile, a request sent again |
| **Uploading** | `client/attach/upload.rs`, `clipboard.rs`, `client/mod.rs`, `node/paste.rs` | from the key to the word about it, over a connection of its own |
| **Updating** | `update.rs`, `signature.rs`, `main.rs`, `node/mod.rs` | check, fetch, verify, rename, restart with or without the sessions kept |
| **Service** | `service.rs` | three things of a unit (its file, enabled, running) and the calls of five managers |

What each leaves out or bounds stands in its header. The ones a reader should
know of: in **Checkpoint** one command runs at a time, without `--force` and
`--dry-run`; **Rows** has no chain of reused names; **Scroll** leaves out the
terminal's reset and `n`/`N` between several matches; **Stream**'s programs end
the sequences they begin and use one tracking mode; **Spelling**'s hand is no
faster than the 30 ms a lone Esc is waited on; **Resuming** has one program to a
directory; **Parking** has no input and no events; **PhoneKeys** does not sync
directories, as the code does not; **Picking**'s details are as wide as its
labels; **Bells** leaves out the events of peers and the scanner that finds a
bell; **Updating** counts a signature that could not be fetched as none;
**Service** runs one command at a time.

## The runs

All are exhaustive. Deadlock is not checked: the node exits, sessions end,
commands finish, and bounded counters run out.

| run | bounds | shows |
|---|---|---|
| `sessions` | 2 sessions, 1 client, 3 names, counter 2 | names are never lost or shared, clients are counted, a shutdown leaves nothing running, an exit detaches |
| `output` | a plain client, backlog 2, one frame in flight, 2 chunks in the kernel, 5 printed | no gap or repeat, refinement of Mirror (with the last words before the exit), no pump left over, every reader catches up |
| `output_stuck` | a boxed client, one frame in flight | *violated*: `PumpsEnd` |
| `peers` | 2 machines, one always listed, a request, 3 tasks, 1 retry, 1 edit, up or away | subscriptions that stay wanted stand; edits are followed; a machine that stays away is given up on, refusing or silent |
| `attaching` | 2 machines, 2 names, 2 sessions, 1 group (the first session is in it), 2 changes | a run never ends unasked, waits for the session it lost and no other, gets back to it, and narrows to where it is |
| `attaching_seeded` | as above | *violated*: `SeededIsShown` |
| `phone` | 2 sessions, 2 names, a queue of 2, 3 typed, 1 break, 1 resume, 2 changes | typed text goes where it was seen, the phone stays with its session, nobody waits for ever |
| `parts` | below | fourteen specifications, ten properties |
| `edges` | below | twelve specifications, nine properties |
| `stream_mouse` | the `edges`, of which it is about *stream* | *violated*: `SessionKeepsTheMouse` |
| `socket_race` | 2 nodes coming up at once | *violated*: `NeverOneInUse` |
| `update_gone` | one update of the stable channel on Linux, one session | *violated*: `StartedAgain` |

Why that is enough to be interesting. Two sessions suffice for one to take, or
be renamed to, a name the other has or had, and three names for a counter to be
needed twice. Attachments do not meet except in `hostClients`, whose sum the
proof covers for any number of clients. Five chunks over a backlog of two let a
client be overtaken twice, before and during the final drain, with chunks left
in the kernel when the child dies. Three watcher tasks are one for each of
two machines and one that was forgotten; more retries only make the same count
longer. Two changes are a session
renamed, or ended, and another that takes its name, or a network that goes and
comes back; what the client does itself is bounded by its sessions only.

`parts`: *terminal* has every key that means something to the client, two
places, one chord held and one repaint out; *scroll* 5 lines printed over a
history of 3 and a window of 2, with blocks of 2, so that a window passes the
end, the block and the trim; *socket* three nodes, of which one is older than a
question it is asked, two commands, one node coming up at a time; *groups* and
*naming* two clients, the least that can cross; *rows* two sessions over four
names; *pump* a paste over its limit by one and silence over its limit by one;
*picking* three listings, three terminals, three keys; *bells* two sessions, one
client, a backlog of one, two bells; *watching* two names of one machine and one
of this one, two commands, one trouble; *checkpoint* two machines, of which one
may not answer; the phone's parts two sizes, two openings, two accounts.

`edges`: *boxes* a client that puts boxes and views over the session, with a
backlog of one, three chunks printed and two frames in flight, which can cross
its request; *stream* a keyboard stack of one and sequences at their limits;
*selecting* three lines of three columns, a window and a block of two, two
presses; *spelling* every way a terminal spells a key, cut anywhere; *targets*
two machines, each under two names; *resuming* one command of every kind, saved,
restored and saved again; *framing* bodies at the limit and one over; *parking*
two sessions on one machine and one on another; *uploading* images at the limit
and over, from every tool; *updating* two builds, one updater; *service* one unit
of each manager.

## Fairness

The node's tasks are assumed to run (weak fairness for each), since the runtime
schedules every ready task. An arm of `select!` that is ready time and again is
picked (strong fairness for `TakeChunk`, `AnswerResync`, `AnswerLines` and
`SeeExit`), since it picks at random. Timers fire and ssh ends. Nothing is
assumed of people, children, networks or the registry's lock. That a client
reads is a premise (`Reads`) of `ExitDetaches` and `CatchesUp`, not part of the
specification; `PumpsEnd` does without, which is why it fails where an answer is
written without a deadline. In Sessions the exit arm is fair in the strong
sense: it is out of reach while an answer is being written and back when it is,
and `select!` picks at random among the arms that are ready.

The attach loop goes on by itself: it leaves the top, an attempt (each is
bounded by `REACH_FOR`, or is the first, which a person waits for) and the wait,
whose delay runs out. A survey comes back, since every machine in it is asked
under a deadline. Weak fairness of `phase` leaving each of these is stated on
`phase` alone, which says the same, every such place having a step that leaves
it. No attempt succeeds by fairness: `GetsBack` holds because the attempt on a
machine that answers finds the session there.

The phone's task is fair in the same way, action by action, and its app is not:
`NobodyIsStuck` says that a loop whose handle is waited on comes to rest, with
the reason on the screen, whatever the app does.

The parts and edges state no fairness. What must come is there as an invariant
that something on its way is still to come (a repaint asked for, an answer out,
a frame unread), so that no step may lose it.

## What the code does otherwise than it says

Runs of this project show these, each against a line of the repository:

* `PumpsEnd` for a boxed client (`output_stuck`): every write of the pump is to
  have a deadline, "or hold the attachment open for the life of the process"; the
  answers to VIEW, FIND and RENAME have none.
* `SeededIsShown` (`attaching_seeded`): a session is put among those "whose
  history this run has already put in the terminal's scrollback" before the
  attach is tried. When the first attempt does not reach its machine, the one
  that does asks for no history, and the scrollback stays without it.
* `SessionKeepsTheMouse` (`stream_mouse`): "Nothing here is taken from a program
  that asked for the mouse itself", says `README.md:395` of either setting. Where
  the client has the wheel and the program asks for the mouse, its request is
  passed to the terminal, and the client then gives back its own mode, which
  switches off the very modes the program asked for (`terminal.rs:1783`, 553).
  `StreamIsFollowed` is stated of all other modes, and of the mouse where the
  client has no window on the history and so takes no wheel
  (`AsTheProgramLeftIt`).
* `NeverOneInUse` (`socket_race`): `listen` clears "never one that is still in
  use", in three calls with nothing held: of two nodes coming up at once, the
  second removes the first one's live socket.
* `StartedAgain` (`update_gone`): a restart "is how a new binary is picked up",
  but on Linux a process whose binary was renamed over reads its own path as a
  deleted one, and cannot start another: the node is stopped, and with
  `--keep-sessions` what was saved is not put back.

Others met while modelling, stated in the modules and not given a run:

* `KillsOnlyUnreaped` (Sessions; `node/session.rs:692`): `kill_now` is "only
  reached while the child is unreaped"; the exit is published only after the
  child was reaped and its output drained, and in that window the shutdown's
  SIGKILL goes to a pid that is free for reuse.
* `OneWatcherEach` (Peers; `node/peers.rs:5`): a sync and a `Reached` that cross
  start two watchers, and the one the map forgets is never stopped.
* `OwedIsOnItsWay` (Selecting; `scroll.rs:1144`): a copy can be owed with nothing
  out that would bring its lines.
* `NeverLeftBlank` (Scroll; `scroll.rs:643`) as the code's comment has it, that
  asking the same twice would only get the same again: two windows are left
  without their lines. One is on an end of the buffer when a search's answer has
  moved the block from under it, and what it would ask it has asked before the
  move (`MovedSinceAsked`); the other is so far behind the selection that no
  block holds both, and every block it asks for is of the selection
  (`LeftBehind`). The property is stated of all others.
* Bells: a phone counts as a client and ignores events, so with only a phone
  attached a bell of another session reaches nobody (`README.md:316`,
  `session.rs:620`); a client that subscribes while a bell is stamped may hear
  what the desktop told; a client that died silences the desktop until it is put
  out as silent; the cool-down goes by name, so a rename lets a bell ring twice.
* Watching: `mm new` puts a second name of a machine on the list unasked, and
  `mm add` asks with what it knew before (`main.rs:538`).
* Targets: with one machine not answering, `mm kill name` acts on the one other
  that has the name, without saying so (`target.rs:470`), though a name is looked
  for "rather than guessing" (`target.rs:476`). `NamesAreNotGuessed` is
  stated of names all of whose machines answer (`AnsweringFor`).
* Phone and Uploading go by name between two requests: a rename with a new
  session of the name in between leads to the other one.
* `NoOrphans` (Terminal; `keys.rs:1660`): "only the session that received a
  press gets its repeat or release" is so of the keys read for the session. In a
  list or in control mode a key that is bound to nothing, and the mode key once
  more, are given to the session whatever their event: a `q` held down in a list
  of groups cancels it, and its repeats are then typed into the session and
  remembered as given; a mode key held down reads as pressed twice. The property
  lets through that one case, a repeat that closes control mode, and no other:
  every other repeat or release the session is given is of a press it was given.
* `NarrowedToWhereItIs` (Attaching; `attaching.rs:233`): a landing leaves the
  cycle alone when the listing is empty, "a run whose listing has never landed".
  An exit's forgetting empties a listing too (`attaching.rs:670`). The cycle may
  then still hold a session under the name it had before a rename that only the
  listing followed; when another session bears that name by now, in no group, the
  run that falls back to it is narrowed to a group it is not in. It takes three
  names and eleven changes by others; the property is stated of listings that
  have something left.
* Picking: a list put over another knows nothing of the taller box that was
  there (`picker.rs:202`).
* PhoneScreen: only the client that resized is told the size
  (`node/mod.rs:571`); the property holds while nobody else resizes
  (`elsewhere`).
* Updating: a slow updater can put an older build over a newer one; sessions
  started after the count go unasked.

## What is proved

For every value of the constants that satisfies the assumptions the modules name
(`NamesAssumption`, `OutputAssumption`, `PhoneKeysAssumption` and so on), which
say what the constants are and that a stand-in for nobody is not somebody.

* **SessionsProofs.** `NeverLost` and `KeyedByOwnName` are not inductive: a
  spawn's name must stay free until its entry is in (`ChosenStaysFree`), an
  unborn session must be nowhere (`UnbornIsNowhere`), an exit watcher starts with
  the entry (`WatchedIsInserted`) and the reaper goes in order (`ReaperOrder`).
  `IInv` is their conjunction with the type and `ClientsCounted`. From it:
  `TypeCorrect`, `NoSessionIsLost`, `KeysAreNames`, `ClientsAreCounted`,
  `ExitedBeforeDropped`, `RenameMovesOneSession`, `EndingIsFinal`. The shutdown
  has an invariant of its own, that a target it has passed in the killing loop is
  dead (`ShutdownKillsItsTargets`).
* **OutputProofs.** What a terminal shows, the frames in flight, the one being
  written and the receiver's place are a chain in which each link follows the one
  before (`Chain`), and how far the attachment is says what may be in flight
  (`Stages`). With the reaper's budget of reads (`LastWordsAreRead`) this gives
  `OutputTypes`, `NeverShowsGarbage`, `LastWordsAreAlwaysShown`, and the
  refinement `OutputMirrors`, for any backlog, wire, kernel buffer and clients.
  A client with boxes misses what arrives behind one: it is in the chain only
  from its next repaint on (`Rejoins`), and so falls out of it by nothing but
  another box, whose closing asks again (`PicturesComeBack`).
* **PeersProofs.** A task is filed under the machine it watches, and a machine
  that stays on the list is wanted from the first load on; so no sync aborts its
  watcher (`KeptSubscriptionsStand`). `PeersTypes` bounds the count of failures
  by the table of delays.
* **AttachingProofs.** `EndsAsAsked` is inductive with what the flags mean at
  each place of the loop: an attach that has landed carries no exit, a run that
  goes on has no result, and a carried exit is of a session that was started, has
  ended, and is the one the run was in last, which nothing brings back
  (`NoRunEndsUnasked`). `HoldsTogether` and `WaitsForItsSession` are about what
  listings do to the cycle, so they rest on what sorting and folding compute: a
  picture sorted has every session once, and on a machine the older before
  (`Ranked`, `Listing`), so the first entry at an address is of the session that
  is listed there (`FirstEntry`); and a fold of renames that spare the run's
  address leaves it and the narrowing alone (`FoldStays`). Then a landing ends
  narrowed to nothing or to the group of the session it is in
  (`RunsHoldTogether`); and of the steps of a run that has lost its session only
  `Recovered` moves it, to where that identity is listed: a hop that was never
  made good is taken back by a run that was not attached after it, so `hopped`
  excludes `been` (`LostSessionsAreFollowed`).
* **PhoneProofs.** Every message typed has a number; those given, those going
  out and those kept are in order, one after the other and without a hole, and
  none of a bygone attach is among what the present one gives
  (`PhoneHoldsTogether`). The identity the phone holds is the session it was in,
  or one of its name on another run of the node; what it was told has ended has
  (`PhoneStaysItsOwn`).

`Parts` is proved about as it is checked: a section has the variables of its
part under the names they have in its module, an inductive invariant for it, and
the lemma that a behaviour of `Parts` that is of this part keeps it.

* **ClientPartsProofs.** *Naming*: a client that is behind has an answer on its
  way, a name unseen by its watch, or one the watch has taken and not sent
  (`ClientsCatchUp`). *Scroll*: a question of a kind is out one at a time, so the
  block a client takes is the answer to the question it holds, moved by what was
  printed in between (`Meets`, `AnsweredBy`), and to ask the same again would be
  to ask for the block in hand; what is named is counted from the count in hand,
  which an answer about a full-screen program's screen leaves as good as it was
  (`OneCount`; `ReadersKeepTheirPlace`). *Pump*: the numbers of what the session
  got, what waits and what is still due are what was sent, in order, a paste
  whole or not at all, and an answer owed is one a ping has asked for
  (`InputIsGivenOnce`). *Terminal*: the agreement of the list, the window, the
  prompt and the mode (`Agreed`) holds between two passes only. So the invariant
  says of each place of a pass what it has seen to already: what is up when a
  key is about to be read (`ReadyToRead`), when its action is about to be taken
  (`Fits`, by action) and when the row is yet to follow (`Nearly`); with the
  host's answer to the mouse, the asking for the picture and the chords the
  filter remembers. One key is a lemma: what it may ask for given the modes
  before and after it (`Means`), and what of it the session gets (`Gives`);
  every arm of the loop is then shown to lead from the places it fits to the
  close of the pass (`SurfacesAreRight`). `ClientTypesAreKept` has the types of the names and of
  the window.
* **PartsProofs.** *Bells*: a bell carries its session's name as it was stamped,
  is sent to everyone who was there before the desktop may tell of it, and who
  came after it does not get it; *Checkpoint*: a listing is of sessions that ran,
  the questions go to whom they name, and what is stopped was written down
  (`NothingAskedGoesUntold`). *Rows*: a name has an owner and no other after it
  (`NamesRight`), and what an id means may change its name but not its owner;
  of the sessions the last answer lists an id has the very name it lists
  (`Meant`), as one that went missing from an answer has ended and comes back in
  none; so a picture keeps the owners its ids have, whatever is published behind
  it (`PointTo`). *Picking*: every way of moving the highlight ends on a row to
  land on where the list has one (`OnARow`), a walk at the nearest (`Nearest`);
  the line drawn for it is the line it is on (`PointedAt`); and lines of a box
  are only where the picker remembers having drawn one (`Covered`). How wide and
  high a box is, how its hints wrap and how a label is cut are bounded by the
  terminal for any rows. Together `EnterIsRight`.
* **SharedPartsProofs.** *Socket*: with one node coming up at a time, whoever serves
  holds the path, and a command that waits has seen the node it asked go
  (`StoppedNodesAreGone`; without that premise `socket_race` shows how it fails).
  *Groups*: a copy read under the lock is the file until the lock is let go, so a
  listing that lands late writes back what a hand did meanwhile; *Watching*: the
  same of the hosts and the settings, with commands that die or fail at any call,
  and no two names on the list are of one machine if that could be told
  (`ChangedByHandAlone`). `TypesAreKept` has the types of the socket and of the
  group file. *PhoneScreen*: wherever the last size the phone was told of is - on
  the wire, with the painter, on the grid - it is the session's
  (`SizeIsComing`); wherever the last whole picture is, what comes after it are
  the chunks printed since, one after the other and at that size
  (`PictureIsComing`); and what it has yet to ask for is the last thing it asks
  (`WishIsComing`). *PhoneKeys*: of each file every version that a power cut may
  bring back is whole, whoever writes one holds its lock, and a change that is
  under way was made of what is in the file. *PhoneReach*: what a call found of
  the machine stays so until it is said, and the connection kept for everyone is
  open on the account it was opened for. Together `PhoneIsToldTheTruth`.

Only model-checked: every liveness property (`ExitDetaches`, `PumpsEnd`,
`CatchesUp`, `ListIsFollowed`, `GivenUpOn`, `GetsBack`,
`NobodyIsStuck`), which the prover does not reach; the types of the parts not
named above; and the edges but for the boxes.
Stream, Framing and Resuming compute over sequences by folds and recursive
functions. The prover has no induction over data to apply there; AttachingProofs
and PartsProofs do by hand, from the least number that fails, the few inductions
they need, and those modules would need one for every scanner they have.

## What the map covers, and what is not modelled

More than half of the lines of `src/src` are tests, which stand in the same files
as the code. The map names the code a definition translates; a helper all of
whose lines another definition of the map stands for may go without an entry.
Beyond it are, by file: in `terminal.rs` and `keys.rs` the drawing of rows and boxes and the
decoding tables; in `status.rs` the wording of the row and the title; in
`listed.rs` the wording of rows; in `proto.rs` the declarations of messages.

Not modelled: the shell scripts, templates and CI that package the program; the
Kotlin and Swift front ends; completions, logs and styles, which are formatting;
the Windows pipe and launch (`ipc/windows.rs`, `node/launch.rs`), whose sequence
of calls is that of Unix over primitives this project would have to take on
trust; the parsing of `/proc`, sysctl and ssh's words.
