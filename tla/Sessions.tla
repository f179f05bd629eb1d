------------------------------- MODULE Sessions -------------------------------
(***************************************************************************)
(* The node's registry of sessions and the life of one session in it:      *)
(* src/node/registry.rs and the lifecycle half of src/node/session.rs,     *)
(* with the shutdown of src/node/mod.rs.                                   *)
(*                                                                         *)
(* The node runs on a multi-threaded runtime, so every critical section    *)
(* is a step of its own and everything done outside a lock interleaves     *)
(* with it.  The registry lock is held across two steps where another      *)
(* thread could see the state between them: a spawn (the child runs before *)
(* its entry is inserted) and an attach (the host's count of clients moves *)
(* before the session's own set of clients does).                          *)
(*                                                                         *)
(* Sizes, output, names as a client knows them and the stamps on events    *)
(* are data of other modules (Geometry, Output, Names, Notify); here a     *)
(* session is its name, its place in the registry and how far its end has  *)
(* got.                                                                    *)
(***************************************************************************)
EXTENDS Naturals, FiniteSets

CONSTANTS
    Sid,        \* sessions that may ever be spawned: one child process each
    Client,     \* attached clients
    Name,       \* the names a session can have
    NoName,     \* what sanitizing leaves of a name with no usable character
    Asked,      \* what a person or a program's basename can ask for
    Sanitize,   \* proto::session_name, as a function on Asked
    Fallback,   \* the base used when the program's own name is unusable
    Counters,   \* BOUND on the counters tried by unique_name: 2, 3, ...
    Numbered,   \* the name base-n
    None        \* no session

ASSUME NamesAssumption ==
    /\ NoName \notin Name
    /\ Sanitize \in [Asked -> Name \cup {NoName}]
    /\ Fallback \in Name
    /\ Counters \subseteq Nat
    /\ Numbered \in [Name -> [Counters -> Name]]
    /\ None \notin Sid
    /\ IsFiniteSet(Client)

VARIABLES
    registry,    \* Registry::sessions: a function from some names to sessions
    name,        \* Session::name, the watch channel
    alive,       \* the child process is running
    reaper,      \* how far the reaper task of each session has got
    watcher,     \* the exit watcher task of each session
    spawning,    \* the session a spawn holding the registry lock has started
    att,         \* each client's attachment, if it has one
    answering,   \* clients whose pump is in the write of an answer
    clients,     \* State::clients: the clients that negotiate a session's size
    hostClients, \* Registry::clients, shared by every session
    announced,   \* which lifecycle events each session has put on the bus
    hungUp,      \* sessions whose process group was sent SIGHUP
    stopping,    \* how far Node::shutdown and the exit after it have got
    targets,     \* the sessions that shutdown took from the registry
    togo         \* the targets its current loop has not reached yet

regVars  == <<registry, name, spawning>>
lifeVars == <<alive, reaper, watcher, announced>>
attVars  == <<att, answering, clients, hostClients>>
stopVars == <<stopping, targets, togo>>
vars     == <<regVars, lifeVars, attVars, hungUp, stopVars>>

(***************************************************************************)
(* Helpers.                                                                *)
(***************************************************************************)

\* The reaper: not spawned; waiting on the child; the child reaped and its
\* last output being drained; Exited published; the exit code sent.
ReaperPhases == {"none", "waiting", "draining", "published", "sent"}

Detached == [at |-> "none", session |-> None, readOnly |-> FALSE]

Attachments == [at : {"none", "joining", "attached", "leaving"},
                session : Sid \cup {None}, readOnly : BOOLEAN]

\* Session::has_exited reads the exit channel, so it turns true with the last
\* step of the reaper and not with the death of the child.
HasExited(s) == reaper[s] = "sent"

\* prune: what is left of a registry once the sessions that have exited go.
Prune(r) == [n \in {m \in DOMAIN r : ~HasExited(r[m])} |-> r[n]]

Put(r, n, s) == [m \in DOMAIN r \cup {n} |-> IF m = n THEN s ELSE r[m]]

Without(r, n) == [m \in DOMAIN r \ {n} |-> r[m]]

Listed(r) == {r[n] : n \in DOMAIN r}

\* Nobody is inside a registry critical section that spans two steps.
Unlocked == spawning = None /\ \A c \in Client : att[c].at # "joining"

Up == stopping # "gone"

\* The attachments that count: viewers too, whichever session they are in.
Present == {c \in Client : att[c].at \in {"joining", "attached"}}

\* Mutant: a name somebody has is as good as a free one.
VettedForFormOnly(r, asked) == Sanitize[asked] # NoName

\* vet: the name as the registry would key it is usable and free.
Vetted(r, asked) == Sanitize[asked] # NoName /\ Sanitize[asked] \notin DOMAIN r

\* Mutant: the fallback for an unusable program name is forgotten.
UniqueNamesUnvetted(r, asked) ==
    LET base == Sanitize[asked]
        free == {n \in Counters : Numbered[base][n] \notin DOMAIN r}
    IN  IF base \notin DOMAIN r
        THEN {base}
        ELSE {Numbered[base][n] : n \in {m \in free : \A k \in free : m <= k}}

\* unique_name: the base itself if it is free, else base-n for the smallest
\* counter that is.
UniqueNames(r, asked) ==
    LET base == IF Sanitize[asked] = NoName THEN Fallback ELSE Sanitize[asked]
        free == {n \in Counters : Numbered[base][n] \notin DOMAIN r}
    IN  IF base \notin DOMAIN r
        THEN {base}
        ELSE {Numbered[base][n] : n \in {m \in free : \A k \in free : m <= k}}

(***************************************************************************)
(* The registry's operations.                                              *)
(***************************************************************************)

Init ==
    /\ registry = [n \in {} |-> None]
    /\ name = [s \in Sid |-> NoName]
    /\ alive = [s \in Sid |-> FALSE]
    /\ reaper = [s \in Sid |-> "none"]
    /\ watcher = [s \in Sid |-> "none"]
    /\ spawning = None
    /\ att = [c \in Client |-> Detached]
    /\ answering = {}
    /\ clients = [s \in Sid |-> {}]
    /\ hostClients = 0
    /\ announced = [s \in Sid |-> {}]
    /\ hungUp = {}
    /\ stopping = "no"
    /\ targets = {}
    /\ togo = {}

\* Registry::spawn up to the return of Session::spawn.  The lock is taken and
\* stays held; the child runs and its reaper waits on it from here on.
SpawnChild(s, n) ==
    /\ Up /\ Unlocked
    /\ reaper[s] = "none"
    /\ registry' = Prune(registry)
    /\ name' = [name EXCEPT ![s] = n]
    /\ spawning' = s
    /\ alive' = [alive EXCEPT ![s] = TRUE]
    /\ reaper' = [reaper EXCEPT ![s] = "waiting"]
    /\ UNCHANGED <<watcher, announced, attVars, hungUp, stopVars>>

\* A spawn with a name takes that name or is refused (see Consult).
SpawnNamed(s, asked) ==
    /\ Vetted(Prune(registry), asked)
    /\ SpawnChild(s, Sanitize[asked])

\* A spawn without one is named after its program.
SpawnUnnamed(s, program) ==
    \E n \in UniqueNames(Prune(registry), program) : SpawnChild(s, n)

\* The rest of Registry::spawn: the entry, the Started event, the lock, and
\* the task that waits for the exit.
SpawnInsert(s) ==
    /\ Up
    /\ spawning = s
    /\ registry' = Put(registry, name[s], s)
    /\ announced' = [announced EXCEPT ![s] = @ \cup {"Started"}]
    /\ spawning' = None
    /\ watcher' = [watcher EXCEPT ![s] = "waiting"]
    /\ UNCHANGED <<name, alive, reaper, attVars, hungUp, stopVars>>

\* Every operation that only reads (list, count, all, peek, doing, get) and
\* every one that is refused still prunes.
Consult ==
    /\ Up /\ Unlocked
    /\ registry' = Prune(registry)
    /\ UNCHANGED <<name, spawning, lifeVars, attVars, hungUp, stopVars>>

\* Registry::rename.  What it does to nothing is Consult.
Rename(from, asked) ==
    LET live == Prune(registry)
        to   == Sanitize[asked]
    IN  /\ Up /\ Unlocked
        /\ from \in DOMAIN live
        /\ Vetted(live, asked)
        /\ registry' = Put(Without(live, from), to, live[from])
        /\ name' = [name EXCEPT ![live[from]] = to]
        /\ UNCHANGED <<spawning, lifeVars, attVars, hungUp, stopVars>>

\* Registry::kill: the lookup is under the lock and the SIGHUP after it, but
\* nothing a session is killed by changes in between except that it may end,
\* which the signal does not notice.
Kill(n) ==
    /\ Up /\ Unlocked
    /\ n \in DOMAIN Prune(registry)
    /\ registry' = Prune(registry)
    /\ hungUp' = hungUp \cup {registry[n]}
    /\ UNCHANGED <<name, spawning, lifeVars, attVars, stopVars>>

(***************************************************************************)
(* Attaching and detaching.                                                *)
(***************************************************************************)

\* Registry::attach and Session::attach up to the session's own lock.
AttachFind(c, n, readOnly) ==
    /\ Up /\ Unlocked
    /\ att[c].at = "none"
    /\ n \in DOMAIN Prune(registry)
    /\ registry' = Prune(registry)
    /\ att' = [att EXCEPT ![c] = [at |-> "joining", session |-> registry[n],
                                  readOnly |-> readOnly]]
    /\ hostClients' = hostClients + 1
    /\ UNCHANGED <<name, spawning, lifeVars, answering, clients, hungUp, stopVars>>

\* Mutant: a viewer is given a say in the session.
AttachJoinAnyone(c) ==
    /\ Up
    /\ att[c].at = "joining"
    /\ att' = [att EXCEPT ![c].at = "attached"]
    /\ clients' = [clients EXCEPT ![att[c].session] = @ \cup {c}]
    /\ UNCHANGED <<regVars, lifeVars, answering, hostClients, hungUp, stopVars>>

\* The rest of Session::attach, under the session's lock.
AttachJoin(c) ==
    LET s == att[c].session IN
    /\ Up
    /\ att[c].at = "joining"
    /\ att' = [att EXCEPT ![c].at = "attached"]
    /\ clients' = [clients EXCEPT ![s] = IF att[c].readOnly THEN @ ELSE @ \cup {c}]
    /\ UNCHANGED <<regVars, lifeVars, answering, hostClients, hungUp, stopVars>>

\* A VIEW, a FIND or a RENAME: the pump is in the write of the answer, which
\* has no deadline, and looks at nothing else until it has gone.
Answer(c) ==
    /\ Up
    /\ att[c].at = "attached" /\ c \notin answering
    /\ answering' = answering \cup {c}
    /\ UNCHANGED <<regVars, lifeVars, att, clients, hostClients, hungUp, stopVars>>

\* The connection had room for the rest of it: the client reads.
AnswerWritten(c) ==
    /\ Up
    /\ c \in answering
    /\ answering' = answering \ {c}
    /\ UNCHANGED <<regVars, lifeVars, att, clients, hostClients, hungUp, stopVars>>

\* Drop for Attachment, in its two halves.  The pump may end at any time: the
\* client detaches or goes silent, a write fails, the session exits.
DropAttachment(c) ==
    /\ Up
    /\ att[c].at = "attached"
    /\ att' = [att EXCEPT ![c].at = "leaving"]
    /\ answering' = answering \ {c}
    /\ hostClients' = hostClients - 1
    /\ UNCHANGED <<regVars, lifeVars, clients, hungUp, stopVars>>

DropClient(c) ==
    LET s == att[c].session IN
    /\ Up
    /\ att[c].at = "leaving"
    /\ att' = [att EXCEPT ![c] = Detached]
    /\ clients' = [clients EXCEPT ![s] = @ \ {c}]
    /\ UNCHANGED <<regVars, lifeVars, answering, hostClients, hungUp, stopVars>>

\* Mutant: a viewer is not told of the exit.
PumpExitToWorkers(c) ==
    /\ att[c].at = "attached" /\ c \notin answering
    /\ ~att[c].readOnly /\ HasExited(att[c].session)
    /\ DropAttachment(c)

\* The pump's exit arm: the client is told and the pump ends.  The receiver
\* it waits on was cloned from one nobody has read, so an exit sent before the
\* attach is still news to it.
PumpExit(c) ==
    /\ att[c].at = "attached" /\ c \notin answering
    /\ HasExited(att[c].session)
    /\ DropAttachment(c)

(***************************************************************************)
(* The end of a session.                                                   *)
(***************************************************************************)

\* The child exits, on its own or of a hangup.  Also once the node is gone,
\* when the kernel hangs its terminal up.
ChildDies(s) ==
    /\ alive[s]
    /\ alive' = [alive EXCEPT ![s] = FALSE]
    /\ UNCHANGED <<regVars, reaper, watcher, announced, attVars, hungUp, stopVars>>

\* child.wait() returns: from here on the pid is not this child's any more.
Reap(s) ==
    /\ Up
    /\ reaper[s] = "waiting" /\ ~alive[s]
    /\ reaper' = [reaper EXCEPT ![s] = "draining"]
    /\ UNCHANGED <<regVars, alive, watcher, announced, attVars, hungUp, stopVars>>

\* The reader is stopped, the last output drained, and Exited published.
PublishExit(s) ==
    /\ Up
    /\ reaper[s] = "draining"
    /\ reaper' = [reaper EXCEPT ![s] = "published"]
    /\ announced' = [announced EXCEPT ![s] = @ \cup {"Exited"}]
    /\ UNCHANGED <<regVars, alive, watcher, attVars, hungUp, stopVars>>

\* exit_tx.send.
SendExit(s) ==
    /\ Up
    /\ reaper[s] = "published"
    /\ reaper' = [reaper EXCEPT ![s] = "sent"]
    /\ UNCHANGED <<regVars, alive, watcher, announced, attVars, hungUp, stopVars>>

\* The exit watcher prunes by what has exited, whatever it is called by now.
WatchExit(s) ==
    /\ Up /\ Unlocked
    /\ watcher[s] = "waiting" /\ HasExited(s)
    /\ registry' = Prune(registry)
    /\ watcher' = [watcher EXCEPT ![s] = "done"]
    /\ UNCHANGED <<name, spawning, alive, reaper, announced, attVars, hungUp, stopVars>>

(***************************************************************************)
(* Node::shutdown, asked for by a Stop request or a signal.  The socket    *)
(* goes on being served until the process exits.                           *)
(***************************************************************************)

ShutdownBegin ==
    /\ stopping = "no" /\ Unlocked
    /\ registry' = Prune(registry)
    /\ targets' = Listed(Prune(registry))
    /\ togo' = targets'
    /\ stopping' = IF targets' = {} THEN "exiting" ELSE "hangup"
    /\ UNCHANGED <<name, spawning, lifeVars, attVars, hungUp>>

ShutdownHangUp(s) ==
    /\ stopping = "hangup" /\ s \in togo
    /\ hungUp' = hungUp \cup {s}
    /\ togo' = togo \ {s}
    /\ UNCHANGED <<regVars, lifeVars, attVars, stopping, targets>>

\* Mutant: the grace period ends without killing what is left.
ShutdownGraceOnly ==
    /\ stopping = "hangup" /\ togo = {}
    /\ stopping' = "kill"
    /\ UNCHANGED <<regVars, lifeVars, attVars, hungUp, targets, togo>>

\* Waiting for the exits ends with the last of them or with the deadline,
\* which may run out at any point.
ShutdownGrace ==
    /\ stopping = "hangup" /\ togo = {}
    /\ stopping' = "kill"
    /\ togo' = targets
    /\ UNCHANGED <<regVars, lifeVars, attVars, hungUp, targets>>

\* A session that has not exited is killed: SIGKILL to the pid it was spawned
\* with, which is the child's for as long as the child is unreaped.
ShutdownKill(s) ==
    /\ stopping = "kill" /\ s \in togo
    /\ togo' = togo \ {s}
    /\ alive' = IF HasExited(s) THEN alive ELSE [alive EXCEPT ![s] = FALSE]
    /\ UNCHANGED <<regVars, reaper, watcher, announced, attVars, hungUp, stopping, targets>>

ShutdownEnd ==
    /\ stopping = "kill" /\ togo = {}
    /\ stopping' = "exiting"
    /\ UNCHANGED <<regVars, lifeVars, attVars, hungUp, targets, togo>>

\* process::exit.
ProcessExit ==
    /\ stopping = "exiting"
    /\ stopping' = "gone"
    /\ UNCHANGED <<regVars, lifeVars, attVars, hungUp, targets, togo>>

Shutdown ==
    \/ ShutdownBegin \/ ShutdownGrace \/ ShutdownEnd \/ ProcessExit
    \/ \E s \in Sid : ShutdownHangUp(s) \/ ShutdownKill(s)

(***************************************************************************)
(* The specification.  Fairness: a task of the node that can run does run, *)
(* and the pump's select! picks among its ready arms at random, so that    *)
(* questions without end do not keep it from its exit arm for ever.        *)
(* Nothing is asked of people, of children, of a lock being fair, or of a  *)
(* client: that an answer is ever written is no fairness of the node's.    *)
(***************************************************************************)

Requests ==
    \/ \E s \in Sid, a \in Asked : SpawnNamed(s, a) \/ SpawnUnnamed(s, a)
    \/ Consult
    \/ \E n \in Name, a \in Asked : Rename(n, a)
    \/ \E n \in Name : Kill(n)
    \/ \E c \in Client, n \in Name, r \in BOOLEAN : AttachFind(c, n, r)

Tasks ==
    \/ \E s \in Sid : \/ SpawnInsert(s) \/ Reap(s) \/ PublishExit(s)
                      \/ SendExit(s) \/ WatchExit(s)
    \/ \E c \in Client : \/ AttachJoin(c) \/ DropAttachment(c) \/ DropClient(c)
                         \/ Answer(c) \/ AnswerWritten(c)

Next == Requests \/ Tasks \/ Shutdown \/ \E s \in Sid : ChildDies(s)

Fairness ==
    /\ \A s \in Sid : /\ WF_vars(SpawnInsert(s))
                      /\ WF_vars(Reap(s))
                      /\ WF_vars(PublishExit(s))
                      /\ WF_vars(SendExit(s))
                      /\ WF_vars(WatchExit(s))
    /\ \A c \in Client : /\ WF_vars(AttachJoin(c))
                         /\ SF_vars(PumpExit(c))
                         /\ WF_vars(DropClient(c))

Spec == Init /\ [][Next]_vars

FairSpec == Spec /\ Fairness

\* A client that reads what it is sent.
Reads(c) == WF_vars(AnswerWritten(c))

(***************************************************************************)
(* Properties.                                                             *)
(***************************************************************************)

\* Every variable has its type.
TypeOK ==
    /\ DOMAIN registry \subseteq Name
    /\ \A n \in DOMAIN registry : registry[n] \in Sid
    /\ name \in [Sid -> Name \cup {NoName}]
    /\ alive \in [Sid -> BOOLEAN]
    /\ reaper \in [Sid -> ReaperPhases]
    /\ watcher \in [Sid -> {"none", "waiting", "done"}]
    /\ spawning \in Sid \cup {None}
    /\ att \in [Client -> Attachments]
    /\ answering \subseteq Client
    /\ clients \in [Sid -> SUBSET Client]
    /\ hostClients \in Nat
    /\ announced \in [Sid -> SUBSET {"Started", "Exited"}]
    /\ hungUp \subseteq Sid
    /\ stopping \in {"no", "hangup", "kill", "exiting", "gone"}
    /\ targets \subseteq Sid
    /\ togo \subseteq Sid

\* A session whose exit is not out yet can be reached by the name it says it
\* has, whatever spawns, renames and prunes went before: none of them loses a
\* running session or leaves it under a name that is another's.
NeverLost ==
    \A s \in Sid :
        (reaper[s] \in {"waiting", "draining", "published"} /\ spawning # s)
            => name[s] \in DOMAIN registry /\ registry[name[s]] = s

\* No two names lead to one session, and a name leads to the session that
\* bears it: the watch channel of a session agrees with the registry's key.
KeyedByOwnName == \A n \in DOMAIN registry : name[registry[n]] = n

\* The host's count of clients is the number of attachments, viewers
\* included, whichever sessions they joined and in whatever order they left;
\* a session's own set is those of them that work in it.
ClientsCounted ==
    /\ hostClients = Cardinality(Present)
    /\ \A s \in Sid :
         clients[s] = {c \in Client : /\ att[c].session = s /\ ~att[c].readOnly
                                      /\ att[c].at \in {"attached", "leaving"}}

\* A listing drops a session only after its Exited event is on the bus, so
\* nobody sees one vanish before they could have heard why.
DroppedAfterExited ==
    \A s \in Sid : (watcher[s] # "none" /\ s \notin Listed(registry)) => "Exited" \in announced[s]

\* A session keeps its name for life except by a rename of that session: a
\* step that changes one live session's name changes no other's, and moves
\* its registry entry with it.
RenameMovesOne ==
    [][\A s \in Sid : (name[s] # NoName /\ name'[s] # name[s]) =>
            /\ s \in Listed(registry)
            /\ name[s] \notin DOMAIN registry'
            /\ \A t \in Sid \ {s} : name'[t] = name[t]]_vars

\* Ending is never undone: a session gone from the registry does not come
\* back, and attaching never reaches a session that has exited.
ExitIsFinal ==
    [][/\ \A s \in Sid : (watcher[s] # "none" /\ s \notin Listed(registry)) => s \notin Listed(registry')
       /\ \A c \in Client : (att[c].at = "none" /\ att'[c].at = "joining")
                                => ~HasExited(att'[c].session)]_vars

\* What the shutdown hung up and waited for is dead by the time the process
\* exits: no target is left running on a terminal nobody holds.
TargetsAreDead == stopping \in {"exiting", "gone"} => \A s \in targets : ~alive[s]

\* Everyone attached to a session that has exited, who reads what they are
\* sent, is told and let go, even a client that attached while the exit was on
\* its way, or one the pump was answering when it came.  One that stops reading
\* in the middle of an answer is not: that write has no deadline (Output's
\* PumpsEnd).
ExitDetaches ==
    \A c \in Client :
        Reads(c) => \A s \in Sid :
            (HasExited(s) /\ att[c].session = s) ~> (att[c].session # s \/ ~Up)

(***************************************************************************)
(* Something the source says of a shutdown that its code does not keep.    *)
(***************************************************************************)

\* session.rs says of kill_now that it only ever signals an unreaped child.
\* The exit is sent after the child was reaped and its output drained, and
\* in that window has_exited is still false.
KillsOnlyUnreaped ==
    [][\A s \in Sid : (stopping = "kill" /\ s \in togo \ togo' /\ ~HasExited(s))
                         => reaper[s] = "waiting"]_vars

===============================================================================
