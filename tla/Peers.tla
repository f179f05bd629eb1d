--------------------------------- MODULE Peers ---------------------------------
(***************************************************************************)
(* Keeping one event subscription per machine: src/node/peers.rs and the   *)
(* watching half of src/node/mod.rs.  The poller follows the host list's   *)
(* file, a client's Reached request brings back a machine that was given   *)
(* up on, and each watcher is a task that retries and then gives up.       *)
(* An attempt is two calls of ssh: a probe of the platform, which has ten  *)
(* seconds whatever ssh would wait for, and then the subscription, asked   *)
(* for and standing, which has no deadline of the node's.                  *)
(* The poller and the connections run on different threads; only the map   *)
(* of watchers is behind a lock, one call at a time.                       *)
(***************************************************************************)
EXTENDS Naturals

CONSTANTS
    Host,      \* machines other than this one
    Kept,      \* those that nobody takes off the list
    Conn,      \* connections that make one Reached request each
    Poller,    \* the node's own task
    Task,      \* watcher tasks that may exist at one time
    None,
    Nets,      \* a machine answers, "up", or does not, "away": it refuses,
               \* or what is sent to it is lost without a word
    Retries,   \* length of RETRIES: 3
    MaxEdits   \* BOUND: changes made to the list

ASSUME PeersAssumption ==
    /\ Kept \subseteq Host /\ None \notin Task \cup Host /\ Poller \notin Conn
    /\ Nets \subseteq {"up", "away"} /\ Retries \in Nat /\ MaxEdits \in Nat

Actor == Conn \cup {Poller}

VARIABLES
    file,      \* the machines in hosts.toml
    version,   \* its modification time
    net,       \* whether a machine answers
    pc,        \* where the node's own task is
    seen,      \* the modification time the poller last saw
    wanted,    \* the list it last loaded
    todo,      \* machines its sync found unwatched
    asking,    \* where each Reached request is
    answered,  \* the machines it names
    left,      \* the listed ones among them still to look at
    hand,      \* a task spawned and not recorded yet
    watchers,  \* Peers::watchers
    host,      \* the machine each task watches
    at,        \* where each task is
    failed     \* its count of failures

fileVars == <<file, version>>
pollVars == <<pc, seen, wanted, todo>>
connVars == <<asking, answered, left>>
taskVars == <<host, at, failed>>
vars     == <<fileVars, net, pollVars, connVars, hand, watchers, taskVars>>

Live(t) == at[t] \in {"probing", "subscribed", "waiting"}

\* JoinHandle::is_finished: over counts as not watched.
Watched(h) == watchers[h] # None /\ Live(watchers[h])

\* A task nothing refers to and that runs no more.
Free(t) == ~Live(t) /\ (\A h \in Host : watchers[h] # t) /\ (\A a \in Actor : hand[a] # t)

Init ==
    /\ file \in {f \in SUBSET Host : Kept \subseteq f}
    /\ version = 0
    /\ net \in [Host -> Nets]
    /\ pc = "loading"
    /\ seen = 0
    /\ wanted = {}
    /\ todo = {}
    /\ asking = [r \in Conn |-> "idle"]
    /\ answered = [r \in Conn |-> {}]
    /\ left = [r \in Conn |-> {}]
    /\ hand = [a \in Actor |-> None]
    /\ watchers = [h \in Host |-> None]
    /\ \E h \in Host : host = [t \in Task |-> h] \* of no task yet
    /\ at = [t \in Task |-> "none"]
    /\ failed = [t \in Task |-> 0]

(***************************************************************************)
(* The world: mm add and mm rm, and the network.                           *)
(***************************************************************************)

\* The list is rewritten by a rename, so a reader sees one whole version.
Edit ==
    /\ version < MaxEdits
    /\ \E f \in SUBSET Host : Kept \subseteq f /\ f # file /\ file' = f
    /\ version' = version + 1
    /\ UNCHANGED <<net, pollVars, connVars, hand, watchers, taskVars>>

Change(h) ==
    /\ \E n \in Nets \ {net[h]} : net' = [net EXCEPT ![h] = n]
    /\ UNCHANGED <<fileVars, pollVars, connVars, hand, watchers, taskVars>>

(***************************************************************************)
(* The node's own task: the start, then the poll.                          *)
(***************************************************************************)

\* Hosts::load, before the node is there.
LoadFirst ==
    /\ pc = "loading"
    /\ wanted' = file
    /\ pc' = "syncing first"
    /\ UNCHANGED <<fileVars, net, seen, todo, connVars, hand, watchers, taskVars>>

\* Mutant: everything is watched anew.
SyncAnew ==
    /\ pc \in {"syncing first", "syncing"}
    /\ watchers' = [h \in Host |-> None]
    /\ at' = [t \in Task |-> IF \E h \in Host : watchers[h] = t THEN "none" ELSE at[t]]
    /\ failed' = [t \in Task |-> IF at'[t] = "none" THEN 0 ELSE failed[t]]
    /\ todo' = wanted
    /\ pc' = IF pc = "syncing" THEN "watching" ELSE "watching first"
    /\ UNCHANGED <<fileVars, net, seen, wanted, connVars, hand, host>>

\* Peers::sync under the lock: what is not wanted is aborted and forgotten,
\* and what is wanted and has no running watcher is to be watched.
Sync ==
    /\ pc \in {"syncing first", "syncing"}
    /\ LET gone == {h \in Host \ wanted : watchers[h] # None} IN
       /\ watchers' = [h \in Host |-> IF h \in gone THEN None ELSE watchers[h]]
       /\ at' = [t \in Task |-> IF \E h \in gone : watchers[h] = t THEN "none" ELSE at[t]]
       /\ failed' = [t \in Task |-> IF at'[t] = "none" THEN 0 ELSE failed[t]]
    /\ todo' = {h \in wanted : ~Watched(h)}
    /\ pc' = IF pc = "syncing" THEN "watching" ELSE "watching first"
    /\ UNCHANGED <<fileVars, net, seen, wanted, connVars, hand, host>>

\* All of them are watched: the first time the poller is spawned.
Synced ==
    /\ pc \in {"watching first", "watching"} /\ todo = {} /\ hand[Poller] = None
    /\ pc' = IF pc = "watching" THEN "sleeping" ELSE "starting"
    /\ UNCHANGED <<fileVars, net, seen, wanted, todo, connVars, hand, watchers, taskVars>>

\* watch_hosts_file notes the file's time when it first runs.
PollStarts ==
    /\ pc = "starting"
    /\ seen' = version
    /\ pc' = "sleeping"
    /\ UNCHANGED <<fileVars, net, wanted, todo, connVars, hand, watchers, taskVars>>

Poll ==
    /\ pc = "sleeping" /\ version # seen
    /\ seen' = version
    /\ pc' = "loading again"
    /\ UNCHANGED <<fileVars, net, wanted, todo, connVars, hand, watchers, taskVars>>

\* Mutant: the file's time is noted again after it was read.
LoadAgainLate ==
    /\ pc = "loading again"
    /\ wanted' \in {file, wanted}
    /\ seen' = version
    /\ pc' = "syncing"
    /\ UNCHANGED <<fileVars, net, todo, connVars, hand, watchers, taskVars>>

LoadAgain ==
    /\ pc = "loading again"
    /\ wanted' = file
    /\ pc' = "syncing"
    /\ UNCHANGED <<fileVars, net, seen, todo, connVars, hand, watchers, taskVars>>

(***************************************************************************)
(* watch_host, for the poller and for a request alike: spawn, then record. *)
(***************************************************************************)

Spawn(a, h) ==
    LET t == CHOOSE t \in Task : Free(t) IN
    /\ hand[a] = None
    /\ \E s \in Task : Free(s)
    /\ hand' = [hand EXCEPT ![a] = t]
    /\ host' = [host EXCEPT ![t] = h]
    /\ at' = [at EXCEPT ![t] = "probing"]
    /\ failed' = [failed EXCEPT ![t] = 0]

SpawnWanted(h) ==
    /\ h \in todo /\ pc \in {"watching first", "watching"}
    /\ Spawn(Poller, h)
    /\ todo' = todo \ {h}
    /\ UNCHANGED <<fileVars, net, pc, seen, wanted, connVars, watchers>>

\* Peers::watching: a handle that was there is dropped, which detaches the
\* task it stands for and stops nothing.
Record(a) ==
    /\ hand[a] # None
    /\ watchers' = [watchers EXCEPT ![host[hand[a]]] = hand[a]]
    /\ hand' = [hand EXCEPT ![a] = None]
    /\ UNCHANGED <<fileVars, net, pollVars, connVars, taskVars>>

(***************************************************************************)
(* A client that reached some machines says so.                            *)
(***************************************************************************)

Reach(r) ==
    /\ asking[r] = "idle" /\ pc \in {"starting", "sleeping", "loading again", "syncing", "watching"}
    /\ \E some \in SUBSET {h \in Host : net[h] = "up"} :
         some # {} /\ answered' = [answered EXCEPT ![r] = some]
    /\ asking' = [asking EXCEPT ![r] = "asked"]
    /\ UNCHANGED <<fileVars, net, pollVars, left, hand, watchers, taskVars>>

\* Only machines on the list, as of now.
LoadListed(r) ==
    /\ asking[r] = "asked"
    /\ left' = [left EXCEPT ![r] = answered[r] \cap file]
    /\ answered' = [answered EXCEPT ![r] = {}]
    /\ asking' = [asking EXCEPT ![r] = "looking"]
    /\ UNCHANGED <<fileVars, net, pollVars, hand, watchers, taskVars>>

\* Watched already.
Skip(r, h) ==
    /\ h \in left[r] /\ hand[r] = None
    /\ Watched(h)
    /\ left' = [left EXCEPT ![r] = @ \ {h}]
    /\ UNCHANGED <<fileVars, net, pollVars, asking, answered, hand, watchers, taskVars>>

Rewatch(r, h) ==
    /\ h \in left[r]
    /\ ~Watched(h)
    /\ Spawn(r, h)
    /\ left' = [left EXCEPT ![r] = @ \ {h}]
    /\ UNCHANGED <<fileVars, net, pollVars, asking, answered, watchers>>

(***************************************************************************)
(* A watcher.                                                              *)
(***************************************************************************)

\* Mutant: the probe waits for as long as ssh does.
OverSlowly(t) ==
    \E steady \in IF at[t] \in {"probing", "subscribed"} THEN BOOLEAN ELSE {} :
      LET n == (IF steady THEN 0 ELSE failed[t]) + 1 IN
      /\ failed' = [failed EXCEPT ![t] = IF n > Retries THEN 0 ELSE n]
      /\ at' = [at EXCEPT ![t] = IF n > Retries THEN "over" ELSE "waiting"]
      /\ UNCHANGED <<fileVars, net, pollVars, connVars, hand, watchers, host>>

\* Mutant: one try more than there are delays.
OverOnceMore(t) ==
    /\ at[t] \in {"probing", "subscribed"}
    /\ failed' = [failed EXCEPT ![t] = IF @ > Retries THEN 0 ELSE @ + 1]
    /\ at' = [at EXCEPT ![t] = IF failed[t] > Retries THEN "over" ELSE "waiting"]
    /\ UNCHANGED <<fileVars, net, pollVars, connVars, hand, watchers, host>>

\* An attempt is over, and began at least STEADY ago or did not: a probe is
\* refused or has run out of its ten seconds.  A subscription that was not
\* answered goes on for as long as ssh's keepalive or its connect timeout, and
\* one that was may have stood for any time.
Over(t) ==
    \E steady \in CASE at[t] = "probing"    -> {FALSE}
                    [] at[t] = "subscribed" -> BOOLEAN
                    [] OTHER                -> {} :
      LET n == (IF steady THEN 0 ELSE failed[t]) + 1 IN
      /\ failed' = [failed EXCEPT ![t] = IF n > Retries THEN 0 ELSE n]
      /\ at' = [at EXCEPT ![t] = IF n > Retries THEN "over" ELSE "waiting"]
      /\ UNCHANGED <<fileVars, net, pollVars, connVars, hand, watchers, host>>

\* No connection, no answer, or no mm at the other end.
Fail(t) == at[t] = "probing" /\ Over(t)

\* The probe is answered: an ssh is on its way that asks to be told of events.
Reached(t) ==
    /\ at[t] = "probing" /\ net[host[t]] = "up"
    /\ at' = [at EXCEPT ![t] = "subscribed"]
    /\ UNCHANGED <<fileVars, net, pollVars, connVars, hand, watchers, host, failed>>

\* The subscription ends: it was refused, the machine went, or hung up.
Drop(t) == at[t] = "subscribed" /\ Over(t)

\* ssh notices a machine that has gone.
Notice(t) == net[host[t]] # "up" /\ Drop(t)

Retry(t) ==
    /\ at[t] = "waiting"
    /\ at' = [at EXCEPT ![t] = "probing"]
    /\ UNCHANGED <<fileVars, net, pollVars, connVars, hand, watchers, host, failed>>

(***************************************************************************)
(* The specification.  Fairness: the node's tasks run, timers fire, and an *)
(* ssh that gets no answer comes to an end.  Nothing is asked of the       *)
(* person or the network.                                                  *)
(***************************************************************************)

NodeStep ==
    \/ LoadFirst \/ Sync \/ Synced \/ PollStarts \/ Poll \/ LoadAgain
    \/ \E h \in Host : SpawnWanted(h)
    \/ Record(Poller)

Request(r) ==
    \/ LoadListed(r) \/ Record(r)
    \/ \E h \in Host : Skip(r, h) \/ Rewatch(r, h)

Watcher(t) == Fail(t) \/ Reached(t) \/ Notice(t) \/ Retry(t)

Next ==
    \/ Edit \/ NodeStep
    \/ \E h \in Host : Change(h)
    \/ \E r \in Conn : Reach(r) \/ Request(r)
    \/ \E t \in Task : Watcher(t) \/ Drop(t)

Spec == Init /\ [][Next]_vars

FairSpec ==
    /\ Spec /\ WF_vars(NodeStep)
    /\ \A r \in Conn : WF_vars(Request(r))
    /\ \A t \in Task : WF_vars(Watcher(t))

(***************************************************************************)
(* Properties.                                                             *)
(***************************************************************************)

\* Every variable has its type, and every bound is kept.
TypeOK ==
    /\ file \subseteq Host /\ Kept \subseteq file
    /\ version \in 0 .. MaxEdits /\ seen \in 0 .. MaxEdits
    /\ net \in [Host -> Nets]
    /\ pc \in {"loading", "syncing first", "watching first", "starting", "sleeping",
               "loading again", "syncing", "watching"}
    /\ wanted \subseteq Host /\ todo \subseteq wanted
    /\ asking \in [Conn -> {"idle", "asked", "looking"}]
    /\ answered \in [Conn -> SUBSET Host]
    /\ left \in [Conn -> SUBSET Host]
    /\ hand \in [Actor -> Task \cup {None}]
    /\ watchers \in [Host -> Task \cup {None}]
    /\ host \in [Task -> Host]
    /\ at \in [Task -> {"none", "probing", "subscribed", "waiting", "over"}]
    /\ failed \in [Task -> 0 .. Retries]

\* A machine nobody takes off the list keeps its subscription whatever else
\* is added, dropped or reached: nothing but its own failures ends a watcher.
KeptIsLeftAlone == [][\A t \in Task : host[t] \in Kept /\ Live(t) => at'[t] # "none"]_vars

\* A change the poller can see is followed: sooner or later the list it works
\* from is the file's.
ListIsFollowed == (pc = "sleeping" /\ seen # version) ~> (wanted = file)

\* A machine that stays away is given up on, however it came to be watched and
\* whether it refuses or is silent: an ssh that hangs for longer than STEADY
\* would count as a machine reached, but the attempts on one that is away end
\* with their probe, and that has ten seconds.
GivenUpOn ==
    \A h \in Kept :
        <>[](net[h] # "up") => <>[](\A t \in Task : Live(t) => host[t] # h)

\* At most one task watches a machine, or every bell of it rings twice:
\* "one watcher, not two".
OneWatcherEach == \A s, t \in Task : Live(s) /\ Live(t) /\ host[s] = host[t] => s = t

===============================================================================
