------------------------------ MODULE Updating ------------------------------
(***************************************************************************)
(* `mm update`, and `mm start`, `stop` and `restart` of the node           *)
(* (update.rs, signature.rs, main.rs): what is published for a             *)
(* machine is compared with the binary that is running, checked, put       *)
(* beside it and moved over it, and a node that still runs another build   *)
(* is restarted, with its sessions written down if that was asked for.     *)
(*                                                                         *)
(* The publisher replaces the files of a release one at a time.  A process *)
(* goes on running the file it was started from after another has its      *)
(* name, and asks the kernel what that file is called: Linux says          *)
(* "mm (deleted)", macOS the name it had (Asked).                          *)
(***************************************************************************)
EXTENDS Integers, Sequences

CONSTANTS
    Updaters,       \* commands typed, each once
    Channel,        \* the channel of each
    Platforms,      \* subset of {"linux", "mac"}
    Keyed,          \* whether RELEASE_KEY may be empty, set
    OldBuilds,      \* builds from before Request::Version
    MaxBuild, MaxSessions, MaxTroubles    \* bounds of the checked runs

UpdatingAssumption ==
    /\ Channel \in [Updaters -> {"stable", "nightly"}]
    /\ Platforms \subseteq {"linux", "mac"} /\ Keyed \subseteq BOOLEAN
    /\ MaxBuild \in Nat \ {0} /\ MaxSessions \in Nat /\ MaxTroubles \in Nat

VARIABLES
    machine,    \* its platform, and whether its builds have a release key
    release,    \* each tag: the build it is moving to, and the files it has
    disk,       \* the two names a binary may be found under
    node,       \* what it runs, what it says it runs, its sessions
    updater,    \* each command
    troubles

vars == <<machine, release, disk, node, updater, troubles>>

Absent == 0       \* no such file
Torn == -1        \* part of one
Tags == {"latest", "nightly"}
Files == {"binary", "sidecar", "signature"}
Names == {"mm", "mm (deleted)"}

tags(u) == IF Channel[u] = "stable" THEN <<"latest", "nightly">> ELSE <<"nightly">>

Trouble == troubles < MaxTroubles /\ troubles' = troubles + 1
Same == UNCHANGED troubles

\* env::current_exe of a process whose file has been moved over, or has not.
Asked(replaced) == IF replaced /\ machine.on = "linux" THEN "mm (deleted)" ELSE "mm"
sha256_of(replaced) == disk[Asked(replaced)]

(***************************************************************************)
(* The publisher.                                                          *)
(***************************************************************************)
Newest == LET builds == {release[t].to : t \in Tags}
          IN CHOOSE b \in builds : \A c \in builds : c <= b

Releases(t) ==
    /\ Newest < MaxBuild
    /\ release' = [release EXCEPT ![t].to = Newest + 1]
    /\ UNCHANGED <<machine, disk, node, updater>> /\ Same

\* A release from before signing has no signature, ever.
Publishes(t, f) ==
    /\ release[t][f] # release[t].to
    /\ release' = [release EXCEPT ![t][f] = release[t].to]
    /\ UNCHANGED <<machine, disk, node, updater>> /\ Same

(***************************************************************************)
(* check: what is published, and whether it is what is running.            *)
(***************************************************************************)
Fresh == [is |-> "off", does |-> "update", replaced |-> FALSE, running |-> Absent, tag |-> 1, checksum |-> Absent,
          signature |-> Absent, staged |-> Absent, over |-> "mm", counted |-> 0, written |-> 0,
          keep |-> FALSE, force |-> FALSE, agreed |-> FALSE, told |-> "nothing"]

Becomes(u, r) == updater' = [updater EXCEPT ![u] = r]
Goes(u, is) == Becomes(u, [updater[u] EXCEPT !.is = is])
\* Staged is dropped with the command that made it, whatever it came to.
Dropped == [Fresh EXCEPT !.is = "over"]
Ends(u, told) == Becomes(u, [Dropped EXCEPT !.told = told])
Disturbs == UNCHANGED <<machine, release, disk, node>>

update(u) ==
    /\ updater[u].is = "off"
    /\ \E keep, force \in BOOLEAN :
         Becomes(u, [Fresh EXCEPT !.is = "starts", !.keep = keep, !.force = force])
    /\ Disturbs /\ Same

Running(u) ==
    /\ updater[u].is = "starts"
    /\ LET ours == sha256_of(updater[u].replaced) IN
         IF ours = Absent THEN Ends(u, "failed")
         ELSE Becomes(u, [updater[u] EXCEPT !.is = "checks", !.running = ours])
    /\ Disturbs /\ Same

Tag(u) == tags(u)[updater[u].tag]
NextTag(u) ==
    IF updater[u].tag = Len(tags(u)) THEN Ends(u, "nothing published")
    ELSE Becomes(u, [updater[u] EXCEPT !.tag = @ + 1])

\* Not there, or it could not be had: curl says the same of both.
Sidecar(u) ==
    /\ updater[u].is = "checks"
    /\ LET had == release[Tag(u)].sidecar IN
         \/ had # Absent /\ Becomes(u, [updater[u] EXCEPT !.is = "signed", !.checksum = had]) /\ Same
         \/ had = Absent /\ NextTag(u) /\ Same
         \/ had # Absent /\ NextTag(u) /\ Trouble
    /\ Disturbs

is_newer(u) == updater[u].checksum # updater[u].running
Compared(u, signature) ==
    Becomes(u, [updater[u] EXCEPT !.signature = signature,
                                  !.is = IF is_newer(u) THEN "applies" ELSE "looks"])

Signature(u) ==
    /\ updater[u].is = "signed"
    /\ \/ Compared(u, release[Tag(u)].signature) /\ Same
       \/ release[Tag(u)].signature # Absent /\ Compared(u, Absent) /\ Trouble
    /\ Disturbs

\* --check says what it found and changes nothing.
Says(u) == updater[u].is \in {"applies", "looks"} /\ Ends(u, "checked") /\ Disturbs /\ Same

(***************************************************************************)
(* apply: verified before it is moved over what is there.                  *)
(***************************************************************************)

\* A signature is over the sidecar: another build's is wrong.  One that is
\* missing is let through.
SignatureHolds(u) == ~machine.keyed \/ updater[u].signature \in {Absent, updater[u].checksum}

apply(u) ==
    /\ updater[u].is = "applies"
    /\ IF SignatureHolds(u)
       THEN Becomes(u, [updater[u] EXCEPT !.is = "downloads", !.staged = Torn, !.over = Asked(updater[u].replaced)])
       ELSE Ends(u, "refused")
    /\ Disturbs /\ Same

\* The directory is root's, or there is no room.
Unwritable(u) == updater[u].is = "applies" /\ Trouble /\ Ends(u, "failed") /\ Disturbs

curl(u) ==
    /\ updater[u].is = "downloads"
    /\ LET had == release[Tag(u)].binary IN
         \/ had # Absent /\ Becomes(u, [updater[u] EXCEPT !.is = "verifies", !.staged = had]) /\ Same
         \/ had = Absent /\ Ends(u, "failed") /\ Same
         \/ Goes(u, "verifies") /\ Trouble
    /\ Disturbs

Verified(u) == updater[u].staged = updater[u].checksum

\* The rename.  Whoever runs from the name it takes runs from a file that has
\* none now.
Replaces(u) ==
    /\ updater[u].is = "verifies"
    /\ IF ~Verified(u) THEN Ends(u, "mismatch") /\ UNCHANGED <<disk, node>>
       ELSE LET takes == updater[u].over = "mm" IN
            /\ disk' = [disk EXCEPT ![updater[u].over] = updater[u].staged]
            /\ updater' = [v \in Updaters |->
                   LET runs == updater[v].is \notin {"off", "over", "killed"} IN
                   [updater[v] EXCEPT !.replaced = @ \/ (takes /\ runs),
                                      !.is = IF v = u THEN "looks" ELSE @,
                                      !.staged = IF v = u THEN Absent ELSE @]]
            /\ node' = [node EXCEPT !.replaced = @ \/ (takes /\ node.is # "off"),
                                    !.raced = @ \/ node.is = "starting"]
    /\ UNCHANGED <<machine, release>> /\ Same

(***************************************************************************)
(* The commands about the node alone.                                      *)
(***************************************************************************)
Start(u) ==
    /\ updater[u].is = "off"
    /\ IF node.is = "on" THEN Ends(u, "already running") ELSE Becomes(u, [Fresh EXCEPT !.is = "starts it"])
    /\ Disturbs /\ Same

Stop(u) ==
    /\ updater[u].is = "off"
    /\ IF node.is # "on" THEN Ends(u, "no node is running")
       ELSE \E force \in BOOLEAN :
                Becomes(u, [Fresh EXCEPT !.is = "restarts", !.does = "stop", !.force = force, !.counted = node.sessions])
    /\ Disturbs /\ Same

Restart(u) ==
    /\ updater[u].is = "off"
    /\ IF node.is # "on" THEN Becomes(u, [Fresh EXCEPT !.is = "starts it"])
       ELSE \E keep, force \in BOOLEAN :
                Becomes(u, [Fresh EXCEPT !.is = "restarts", !.does = "restart", !.keep = keep, !.force = force,
                                         !.counted = node.sessions])
    /\ Disturbs /\ Same

(***************************************************************************)
(* The node: asked how much it holds and what it runs, and restarted.      *)
(***************************************************************************)
running(u) ==
    /\ updater[u].is = "looks"
    /\ IF node.is = "on" THEN Becomes(u, [updater[u] EXCEPT !.is = "compares", !.counted = node.sessions])
       ELSE Ends(u, "done")
    /\ Disturbs /\ Same

\* Mutant: the node says what its binary is when it is asked.
TakenWhenAsked == sha256_of(node.replaced)

own_build == node.build

\* One that cannot answer is behind; one that answers without a checksum is left
\* alone.
Answered == node.runs \notin OldBuilds
is_stale(u) == node.is = "on" /\ (~Answered \/ own_build \notin {Absent, updater[u].checksum})

Stale(u) ==
    /\ updater[u].is = "compares"
    /\ IF is_stale(u) THEN Goes(u, "restarts") ELSE Ends(u, "done")
    /\ Disturbs /\ Same

Short(u, saved) == saved.lost > 0 \/ saved.written < updater[u].counted

\* What save_checkpoint may come to: every session written down or refused, or
\* none for a listing that failed meanwhile.
Saves == {[written |-> w, lost |-> node.sessions - w] : w \in 0..node.sessions}
         \union {[written |-> 0, lost |-> 0]}

\* Counted when it was asked, and asked about when there were any.
agreed(u) ==
    \/ updater[u].counted = 0 \/ updater[u].force
    \/ updater[u].agreed

Answers(u) ==
    /\ updater[u].is = "restarts" /\ ~(updater[u].keep /\ updater[u].counted > 0) /\ ~agreed(u)
    /\ \/ Becomes(u, [updater[u] EXCEPT !.agreed = TRUE])
       \/ Ends(u, "left alone")
    /\ Disturbs /\ Same

\* The restart would end the session the command is typed in, and it with that.
ran_from_a_session_here(u) == Ends(u, "typed in a session")

restart(u) ==
    /\ updater[u].is = "restarts"
    /\ IF updater[u].keep /\ updater[u].counted > 0
       THEN \/ \E saved \in Saves :
                 IF Short(u, saved) /\ ~updater[u].force THEN Ends(u, "not restarting")
                 ELSE Becomes(u, [updater[u] EXCEPT !.is = "stops", !.written = saved.written])
            \/ ran_from_a_session_here(u)
       ELSE agreed(u) /\ Goes(u, "stops")
    /\ Disturbs /\ Same

Off == [is |-> "off", runs |-> Absent, build |-> Absent, replaced |-> FALSE, raced |-> FALSE, sessions |-> 0]
Starting(build, replaced) == [Off EXCEPT !.is = "starting", !.runs = build, !.replaced = replaced]

stop(u) ==
    /\ updater[u].is = "stops" /\ node' = Off
    /\ IF updater[u].does = "stop" THEN Ends(u, "stopped") ELSE Goes(u, "starts it")
    /\ UNCHANGED <<machine, release, disk>> /\ Same

\* ensure_running: somebody else's may be up by now.  The binary is looked up by
\* what the kernel calls the one this command runs from.
start_node(u) ==
    /\ updater[u].is = "starts it"
    /\ LET binary == sha256_of(updater[u].replaced) IN
         IF node.is # "off" THEN Goes(u, "waits") /\ UNCHANGED node
         ELSE IF binary = Absent THEN Ends(u, "no such binary") /\ UNCHANGED node
         ELSE /\ node' = Starting(binary, Asked(updater[u].replaced) = "mm (deleted)")
              /\ Goes(u, "waits")
    /\ UNCHANGED <<machine, release, disk>> /\ Same

\* restore_checkpoint starts what was written down again.
Waits(u) ==
    /\ updater[u].is = "waits" /\ node.is = "on"
    /\ node' = [node EXCEPT !.sessions = IF @ + updater[u].written > MaxSessions THEN MaxSessions
                                         ELSE @ + updater[u].written]
    /\ Ends(u, "restarted") /\ UNCHANGED <<machine, release, disk>> /\ Same

NotUp(u) == updater[u].is = "waits" /\ node.is = "off" /\ Ends(u, "failed") /\ Disturbs /\ Same

(***************************************************************************)
(* What happens meanwhile.                                                 *)
(***************************************************************************)
\* A service manager, or somebody's first command.
NodeStarts == node.is = "off" /\ node' = Starting(disk["mm"], FALSE)
NodeIsUp == node.is = "starting" /\ node' = [node EXCEPT !.is = "on", !.build = sha256_of(node.replaced)]
NodeDies == node.is # "off" /\ node' = Off
SessionStarts == node.is = "on" /\ node.sessions < MaxSessions /\ node' = [node EXCEPT !.sessions = @ + 1]
SessionEnds == node.sessions > 0 /\ node' = [node EXCEPT !.sessions = @ - 1]

Node ==
    /\ \/ (NodeStarts \/ NodeIsUp \/ SessionStarts \/ SessionEnds) /\ Same
       \/ NodeDies /\ Trouble
    /\ UNCHANGED <<machine, release, disk, updater>>

\* It is killed, and what it staged stays.
Killed(u) ==
    /\ updater[u].is \notin {"off", "over", "killed"} /\ Trouble
    /\ Becomes(u, [Fresh EXCEPT !.is = "killed", !.staged = updater[u].staged]) /\ Disturbs

Init ==
    /\ machine \in [on : Platforms, keyed : Keyed]
    /\ release = [t \in Tags |-> IF t = "nightly"
                     THEN [to |-> 1, binary |-> 1, sidecar |-> 1, signature |-> 1]
                     ELSE [to |-> Absent, binary |-> Absent, sidecar |-> Absent, signature |-> Absent]]
    /\ disk = [n \in Names |-> IF n = "mm" THEN 1 ELSE Absent]
    /\ node = [Off EXCEPT !.is = "on", !.runs = 1, !.build = IF 1 \in OldBuilds THEN Absent ELSE 1]
    /\ updater = [u \in Updaters |-> Fresh]
    /\ troubles = 0

Next ==
    \/ \E t \in Tags : Releases(t) \/ \E f \in Files : Publishes(t, f)
    \/ \E u \in Updaters :
         \/ Start(u) \/ Stop(u) \/ Restart(u) \/ update(u) \/ Running(u) \/ Sidecar(u) \/ Signature(u) \/ Says(u) \/ apply(u) \/ Unwritable(u)
         \/ curl(u) \/ Replaces(u) \/ running(u) \/ Stale(u) \/ Answers(u) \/ restart(u) \/ stop(u)
         \/ start_node(u) \/ Waits(u) \/ NotUp(u) \/ Killed(u)
    \/ Node

Spec == Init /\ [][Next]_vars

(***************************************************************************)
(* Properties.                                                             *)
(***************************************************************************)
TypeOK ==
    /\ release \in [Tags -> [to : 0..MaxBuild, binary : 0..MaxBuild, sidecar : 0..MaxBuild,
                             signature : 0..MaxBuild]]
    /\ disk \in [Names -> -1..MaxBuild]
    /\ node.is \in {"off", "starting", "on"} /\ node.sessions \in 0..MaxSessions
    /\ \A u \in Updaters : updater[u].over \in Names

\* What is under the name is a whole binary, and with a release key one whose
\* signature was its own if it had one; a download that was cut short, that is
\* another build's or whose signature is wrong is never moved there.  What was
\* staged goes with the command.
OnlyVerified ==
    /\ disk["mm"] \in 1..MaxBuild
    /\ \A u \in Updaters :
         /\ updater[u].is = "over" => updater[u].staged = Absent
         /\ machine.keyed /\ updater[u].is \in {"downloads", "verifies", "looks"} /\ is_newer(u)
                => updater[u].signature \in {Absent, updater[u].checksum}

\* An update that says nothing of the node leaves none behind that runs another
\* build, unless the binary was replaced while that node was coming up.
LeftAlone ==
    \A u \in Updaters : updater'[u].told = "done" /\ updater[u].is = "compares" =>
        node.is # "on" \/ node.runs = updater[u].checksum \/ node.raced
NothingIsBehind == [][LeftAlone]_vars

\* The sessions that were counted are ended only if none were, if somebody
\* said so, or if as many were written down: restart asks as much where it
\* decides, and what is said here is that no other way leads to the stop.
NobodyLosesUnasked == \A u \in Updaters :
    updater[u].is = "stops" =>
        \/ updater[u].counted = 0 \/ updater[u].force \/ updater[u].agreed
        \/ updater[u].keep /\ updater[u].written >= updater[u].counted

\* node/mod.rs:925: "Stop the node and start one again, which is how a new
\* binary is picked up."
StartedAgain == \A u \in Updaters : updater[u].told # "no such binary"

\* A value of Channel for MCUpdating.cfg.
AllStable == [u \in Updaters |-> "stable"]
=============================================================================
