------------------------------- MODULE Socket -------------------------------
(***************************************************************************)
(* One node per user per machine: the socket it listens on (ipc/unix.rs),  *)
(* and the commands that start, stop and restart it (node/mod.rs,          *)
(* main.rs).  There is no lock file and no pid file.  What says a node is  *)
(* running is that a connection to the path is taken, so a node coming up  *)
(* looks, clears what is there and binds, in three system calls, and a     *)
(* command that waits for one to come or go polls.                         *)
(*                                                                         *)
(* A path names what was last bound there, also after its process is gone: *)
(* nothing removes it on the way out.  A node whose path was cleared goes  *)
(* on listening where nobody can reach it.                                 *)
(***************************************************************************)
EXTENDS FiniteSets, Naturals

CONSTANTS Daemons,    \* processes that may be started as a node, each once
          Clients,    \* commands being typed
          Old,        \* nodes of a build that does not know Request::Stop
          AtOnce      \* how many nodes may be coming up at one time

SocketAssumption ==
    /\ Old \subseteq Daemons /\ "none" \notin Daemons
    /\ IsFiniteSet(Daemons) /\ AtOnce \in Nat

VARIABLES path,   \* the node the path names
          node,   \* where each process is
          cmd,    \* what each command is doing
          asked   \* the node a command has told to stop

vars == <<path, node, cmd, asked>>

None      == "none"
ComingUp  == {"looking", "clearing", "binding"}
Serving   == {"serving", "stopping"}
Waits     == {"idle", "looking up", "starting", "connecting", "signalling",
              "draining", "stopped", "failed"}
Then      == {"stop", "start", "restart"}

connected == path # None /\ node[path] \in Serving

TypeOK ==
    /\ path \in Daemons \union {None}
    /\ node \in [Daemons -> {"off", "gone"} \union ComingUp \union Serving]
    /\ cmd \in [Clients -> [does: Then, at: Waits, to: Daemons \union {None}]]
    /\ asked \in [Clients -> Daemons \union {None}]

Resting == [does |-> "start", at |-> "idle", to |-> None]

Init ==
    /\ path = None
    /\ node = [d \in Daemons |-> "off"]
    /\ cmd = [c \in Clients |-> Resting]
    /\ asked = [c \in Clients |-> None]

(***************************************************************************)
(* A node coming up: listen(), then serve().                               *)
(***************************************************************************)
Becomes(d, s) == node' = [node EXCEPT ![d] = s]

MayStart == Cardinality({d \in Daemons : node[d] \in ComingUp}) < AtOnce

\* A service manager, or somebody typing `mm daemon`.
Launch(d) ==
    /\ node[d] = "off" /\ MayStart
    /\ Becomes(d, "looking")
    /\ UNCHANGED <<path, cmd, asked>>

\* Something is listening already, or nothing is.
Look(d) ==
    /\ node[d] = "looking"
    /\ Becomes(d, IF connected THEN "gone" ELSE "clearing")
    /\ UNCHANGED <<path, cmd, asked>>

\* fs::remove_file, which does not look again.
Clear(d) ==
    /\ node[d] = "clearing"
    /\ path' = None
    /\ Becomes(d, "binding")
    /\ UNCHANGED <<cmd, asked>>

\* bind refuses a path that is there.
Bind(d) ==
    /\ node[d] = "binding"
    /\ IF path = None THEN path' = d /\ Becomes(d, "serving")
                      ELSE path' = path /\ Becomes(d, "gone")
    /\ UNCHANGED <<cmd, asked>>

\* A signal, a Ctrl-C in a terminal, an init going down: the same shutdown.
Signalled(d) ==
    /\ node[d] = "serving"
    /\ Becomes(d, "stopping")
    /\ UNCHANGED <<path, cmd, asked>>

\* Its sessions are hung up, or it crashed, or it was killed.
Exit(d) ==
    /\ node[d] \in ComingUp \union Serving
    /\ Becomes(d, "gone")
    /\ UNCHANGED <<path, cmd, asked>>

(***************************************************************************)
(* The commands.                                                           *)
(***************************************************************************)
Goes(c, at, to) == cmd' = [cmd EXCEPT ![c].at = at, ![c].to = to]

Command(c, does) ==
    /\ cmd[c].at = "idle"
    /\ cmd' = [cmd EXCEPT ![c] = [does |-> does, to |-> None,
                   at |-> IF does = "start" THEN "looking up" ELSE "connecting"]]
    /\ asked' = [asked EXCEPT ![c] = None]
    /\ UNCHANGED <<path, node>>

\* The end of a command, whatever it has said: another one may be typed.
Ends(c) ==
    /\ cmd[c].at \in {"stopped", "failed"}
    /\ cmd[c].does = "restart" => cmd[c].at = "failed"
    /\ cmd' = [cmd EXCEPT ![c] = Resting]
    /\ asked' = [asked EXCEPT ![c] = None]
    /\ UNCHANGED <<path, node>>

\* ensure_running: one is there, or one is started and waited for.
ensure_running(c) ==
    /\ cmd[c].at = "looking up"
    /\ IF connected THEN cmd' = [cmd EXCEPT ![c] = Resting] /\ node' = node
       ELSE /\ MayStart
            /\ \E d \in Daemons : node[d] = "off" /\ Becomes(d, "looking")
            /\ Goes(c, "starting", None)
    /\ asked' = [asked EXCEPT ![c] = None]
    /\ path' = path

\* wait_until(Yes): somebody answers, or the ten seconds are over.
Started(c) ==
    /\ cmd[c].at = "starting"
    /\ \/ connected /\ cmd' = [cmd EXCEPT ![c] = Resting]
       \/ Goes(c, "failed", None)
    /\ UNCHANGED <<path, node, asked>>

Connect(c) ==
    /\ cmd[c].at = "connecting"
    /\ IF connected THEN Goes(c, "connecting", path)
                    ELSE Goes(c, "signalling", None)
    /\ cmd[c].to = None
    /\ UNCHANGED <<path, node, asked>>

\* ask_to_stop: the request is answered and the shutdown begins, or the
\* connection ends without an answer.
ask_to_stop(c) ==
    LET d == cmd[c].to IN
    /\ cmd[c].at = "connecting" /\ d # None
    /\ IF node[d] \in Serving /\ d \notin Old
       THEN /\ Becomes(d, "stopping") /\ Goes(c, "draining", None)
            /\ asked' = [asked EXCEPT ![c] = d]
       ELSE Goes(c, "signalling", None) /\ UNCHANGED <<node, asked>>
    /\ path' = path

\* signal_node: SIGTERM to whatever process holds the socket by now.
signal_node(c) ==
    /\ cmd[c].at = "signalling"
    /\ IF connected
       THEN /\ Becomes(path, "stopping") /\ Goes(c, "draining", None)
            /\ asked' = [asked EXCEPT ![c] = path]
       ELSE Goes(c, "failed", None) /\ UNCHANGED <<node, asked>>
    /\ path' = path

\* Mutant: the request is taken for the deed.
StoppedAtOnce(c) ==
    /\ cmd[c].at = "draining"
    /\ Goes(c, "stopped", None)
    /\ UNCHANGED <<path, node, asked>>

\* wait_until(No): a poll finds nobody, or the five seconds are over.
Stopped(c) ==
    /\ cmd[c].at = "draining"
    /\ \/ ~connected /\ Goes(c, "stopped", None)
       \/ connected /\ Goes(c, "failed", None)
    /\ UNCHANGED <<path, node, asked>>

\* restart: once it is gone, one is started unless one is there.
Again(c) ==
    /\ cmd[c].at = "stopped" /\ cmd[c].does = "restart"
    /\ Goes(c, "looking up", None)
    /\ UNCHANGED <<path, node, asked>>

Next ==
    \/ \E d \in Daemons : \/ Launch(d) \/ Look(d) \/ Clear(d) \/ Bind(d)
                          \/ Signalled(d) \/ Exit(d)
    \/ \E c \in Clients : \/ \E does \in Then : Command(c, does)
                          \/ ensure_running(c) \/ Started(c)
                          \/ Connect(c) \/ ask_to_stop(c) \/ signal_node(c)
                          \/ Stopped(c) \/ Again(c) \/ Ends(c)

Spec == Init /\ [][Next]_vars

(***************************************************************************)
(* Properties.                                                             *)
(***************************************************************************)
\* A command that says it stopped the node has waited for that very node: what
\* it told to stop serves nobody any more, whichever commands ran beside it,
\* whoever started another, and whatever was left on the path by a crash.  Said
\* where nodes come up one at a time; NeverOneInUse is about the other case.
StoppedMeansGone ==
    AtOnce <= 1 => \A c \in Clients :
        cmd[c].at = "stopped" => node[asked[c]] \notin Serving

\* listen() clears a socket left behind by a crash "but never one that is still
\* in use" (ipc/unix.rs).
NeverOneInUse == [][path' = None => ~connected]_vars
=============================================================================
