------------------------------ MODULE Watching ------------------------------
(***************************************************************************)
(* The files a person's commands change (config.rs, hosts.rs, settings.rs, *)
(* and `mm add`, `mm rm`, `mm new` and `mm config` of main.rs): the list   *)
(* of machines to watch, and the settings.                                 *)
(*                                                                         *)
(* Commands run beside each other.  A change takes the file's lock, reads  *)
(* the file, and puts a new one in its place; `mm add` spends a while on   *)
(* ssh first, finding out whether the name is one more for a machine that  *)
(* is listed.  A file is the set of the words in it: the names of the      *)
(* machines, or the settings that are not what they are by default.        *)
(***************************************************************************)
EXTENDS Integers

CONSTANTS
    Commands,
    Names,          \* ssh destinations
    MachineOf,      \* the machine each reaches
    Here,           \* the machine the commands run on
    Listed,         \* what is on the list, where there is one to begin with
    Keys,           \* the settings
    MaxRuns, MaxTroubles    \* bounds of the checked runs

WatchingAssumption ==
    /\ Listed \subseteq Names /\ \A n \in Listed : MachineOf[n] # Here
    /\ \A n, o \in Listed : MachineOf[n] = MachineOf[o] => n = o
    /\ Names \intersect Keys = {} /\ DOMAIN MachineOf = Names
    /\ MaxRuns \in Nat /\ MaxTroubles \in Nat
    /\ "nobody" \notin Commands

Machines == {MachineOf[n] : n \in Names} \union {Here}
Files == {"hosts", "settings"}

VARIABLES
    file,       \* the words in each
    lock,       \* who holds the lock beside it
    cmd,        \* what each command is at
    busy,       \* the machines that have a session
    life,       \* how often each machine's node was started again
    meant,      \* the words each file would have, had the changes come one by one
    blind,      \* names listed where nothing could tell what they reach
    runs, troubles

vars == <<file, lock, cmd, busy, life, meant, blind, runs, troubles>>

Nobody == "nobody"
NoNode == [of |-> Here, life |-> -1]

\* "seen" is the file as it was when the command began, "copy" what it is about
\* to write; "blind" is for the properties.
Idle == [at |-> "idle", does |-> "rm", word |-> CHOOSE w \in Names \union Keys : TRUE,
         listed |-> FALSE, node |-> NoNode, seen |-> {}, copy |-> {}, blind |-> FALSE]

FileOf(c) == IF c.word \in Keys THEN "settings" ELSE "hosts"
Trouble == troubles < MaxTroubles /\ troubles' = troubles + 1
At(p, at) == cmd' = [cmd EXCEPT ![p].at = at]

(***************************************************************************)
(* A change to a file.                                                     *)
(***************************************************************************)
\* What a command does to the words of its file.  `mm config` takes a key back
\* to what it is by default, or away from it.
Applied(c, words) ==
    IF c.does \in {"add", "remember", "set"} THEN words \union {c.word} ELSE words \ {c.word}

Locks(p) ==
    LET f == FileOf(cmd[p]) IN
    /\ cmd[p].at = "waits" /\ lock[f] = Nobody
    /\ lock' = [lock EXCEPT ![f] = p] /\ At(p, "locked")
    /\ UNCHANGED <<file, busy, life, meant, blind, runs, troubles>>

load_toml(p) == file[FileOf(cmd[p])]

Released(p) == [lock EXCEPT ![FileOf(cmd[p])] = Nobody]

\* There is nothing to remove: refused, and nothing is written.
Bails(c, words) == c.does = "rm" /\ c.word \notin words

change_toml(p) ==
    /\ cmd[p].at = "locked"
    /\ IF Bails(cmd[p], load_toml(p))
       THEN lock' = Released(p) /\ cmd' = [cmd EXCEPT ![p] = Idle]
       ELSE /\ cmd' = [cmd EXCEPT ![p].at = "writes", ![p].copy = Applied(cmd[p], load_toml(p))]
            /\ UNCHANGED lock
    /\ UNCHANGED <<file, busy, life, meant, blind, runs, troubles>>

\* A file of its own, that nobody reads.
Writes(p) ==
    /\ cmd[p].at = "writes" /\ At(p, "written")
    /\ UNCHANGED <<file, lock, busy, life, meant, blind, runs, troubles>>

\* Names that came to the list while another for that machine was past its check.
Overtaken(p) ==
    [q \in Commands |->
        IF /\ q # p /\ cmd[p].does \in {"add", "remember"} /\ cmd[q].does = "add"
           /\ MachineOf[cmd[q].word] = MachineOf[cmd[p].word]
        THEN [cmd[q] EXCEPT !.blind = TRUE] ELSE cmd[q]]

\* Renamed into place, and the lock let go.
Installs(p) ==
    LET c == cmd[p] f == FileOf(c) IN
    /\ c.at = "written"
    /\ file' = [file EXCEPT ![f] = c.copy]
    /\ meant' = [meant EXCEPT ![f] = Applied(c, @)]
    /\ blind' = IF c.word \notin c.copy \ meant["hosts"] \/ c.word \in Keys THEN blind
                ELSE IF c.blind \/ c.does = "remember" THEN blind \union {c.word}
                ELSE blind \ {c.word}
    /\ lock' = Released(p) /\ cmd' = [Overtaken(p) EXCEPT ![p] = Idle]
    /\ UNCHANGED <<busy, life, runs, troubles>>

\* Killed, or the disk is full: the lock goes with the process.
Stops(p) ==
    /\ cmd[p].at # "idle" /\ Trouble /\ cmd' = [cmd EXCEPT ![p] = Idle]
    /\ lock' = [f \in Files |-> IF lock[f] = p THEN Nobody ELSE lock[f]]
    /\ UNCHANGED <<file, busy, life, meant, blind, runs>>

(***************************************************************************)
(* The commands.                                                           *)
(***************************************************************************)
Types(p, does, word, at) ==
    /\ cmd[p].at = "idle" /\ runs < MaxRuns /\ runs' = runs + 1
    /\ LET f == IF word \in Keys THEN "settings" ELSE "hosts" IN
       cmd' = [cmd EXCEPT ![p] =
           [Idle EXCEPT !.at = at, !.does = does, !.word = word, !.seen = file[f],
                        !.listed = word \in file[f], !.blind = word \in file[f]]]
    /\ UNCHANGED <<file, lock, busy, life, meant, blind, troubles>>

Rm(p, name) == Types(p, "rm", name, "waits")
remember(p, name) == Types(p, "remember", name, "waits")
Config(p, key) == \E does \in {"set", "reset"} : Types(p, does, key, "waits")
Add(p, name) == Types(p, "add", name, "greets")

\* ssh is let ask its questions first; a machine it cannot get into is not added.
greet(p) ==
    /\ cmd[p].at = "greets"
    /\ \/ At(p, "asks") /\ UNCHANGED troubles
       \/ cmd' = [cmd EXCEPT ![p] = Idle] /\ Trouble
    /\ UNCHANGED <<file, lock, busy, life, meant, blind, runs>>

\* A node says which it is on the rows of its sessions.
NodeOn(m) == IF m \in busy THEN [of |-> m, life |-> life[m]] ELSE NoNode

listed_already(c) == c.listed

\* A machine that says nothing is added all the same.
answer_from(p) ==
    LET c == cmd[p] node == NodeOn(MachineOf[c.word]) IN
    /\ c.at = "asks"
    /\ \/ /\ cmd' = [cmd EXCEPT ![p].node = node, ![p].blind = @ \/ node = NoNode,
                                ![p].at = IF listed_already(c) \/ node = NoNode THEN "waits" ELSE "checks"]
          /\ UNCHANGED troubles
       \/ cmd' = [cmd EXCEPT ![p].blind = TRUE, ![p].at = "waits"] /\ Trouble
    /\ UNCHANGED <<file, lock, busy, life, meant, blind, runs>>

\* This machine is asked with those on the list.
watched_as(node, asked) ==
    NodeOn(Here) = node \/ {n \in asked : NodeOn(MachineOf[n]) = node} # {}

\* Everything on the list is asked, and what answers is compared.
everywhere(p) ==
    LET c == cmd[p] m == MachineOf[c.word] IN
    /\ c.at = "checks"
    /\ \E missed \in SUBSET file["hosts"] :
         /\ IF missed = {} THEN UNCHANGED troubles ELSE Trouble
         /\ IF watched_as(c.node, file["hosts"] \ missed)
            THEN cmd' = [cmd EXCEPT ![p] = Idle]
            ELSE cmd' = [cmd EXCEPT ![p].at = "waits",
                            ![p].blind = @ \/ NodeOn(m) # c.node \/ \E n \in missed : MachineOf[n] = m]
    /\ UNCHANGED <<file, lock, busy, life, meant, blind, runs>>

\* A first session is started on a machine, or its last one ends.
Works(m) ==
    /\ Trouble
    /\ busy' = IF m \in busy THEN busy \ {m} ELSE busy \union {m}
    /\ UNCHANGED <<file, lock, cmd, life, meant, blind, runs>>

Restarts(m) ==
    /\ Trouble /\ life' = [life EXCEPT ![m] = @ + 1]
    /\ UNCHANGED <<file, lock, cmd, busy, meant, blind, runs>>

Init ==
    /\ \E listed \in {{}, Listed} : file = [f \in Files |-> IF f = "hosts" THEN listed ELSE {}]
    /\ meant = file
    /\ lock = [f \in Files |-> Nobody]
    /\ cmd = [p \in Commands |-> Idle]
    /\ busy = Machines /\ life = [m \in Machines |-> 0]
    /\ blind = {} /\ runs = 0 /\ troubles = 0

Next ==
    \/ \E p \in Commands :
         \/ \E n \in Names : Add(p, n) \/ Rm(p, n) \/ remember(p, n)
         \/ \E k \in Keys : Config(p, k)
         \/ greet(p) \/ answer_from(p) \/ everywhere(p)
         \/ Locks(p) \/ change_toml(p) \/ Writes(p) \/ Installs(p) \/ Stops(p)
    \/ \E m \in Machines : Works(m) \/ Restarts(m)

Spec == Init /\ [][Next]_vars

(***************************************************************************)
(* Properties.                                                             *)
(***************************************************************************)
TypeOK ==
    /\ file \in [Files -> SUBSET (Names \union Keys)]
    /\ lock \in [Files -> Commands \union {Nobody}]
    /\ \A p \in Commands : cmd[p].at \in
           {"idle", "greets", "asks", "checks", "waits", "locked", "writes", "written"}
    /\ blind \subseteq Names /\ runs \in 0..MaxRuns /\ troubles \in 0..MaxTroubles

\* Every change that was made is in the file, whatever ran beside it and
\* whatever was killed half way, and nothing else is.
NothingIsLost == file = meant

\* A name goes on the list beside another for the same machine, or as one more
\* for this one, only where nothing told them apart: the machine ran nothing or
\* did not answer, its node was started again in between, the other was added
\* while this one was past its check, or the name was there when it was typed.
ListedOnce ==
    \A n \in file'["hosts"] \ file["hosts"] :
        \/ n \in blind'
        \/ /\ MachineOf[n] # Here
           /\ \A o \in file'["hosts"] \ {n} : MachineOf[o] # MachineOf[n]
MachinesAreListedOnce == [][ListedOnce]_vars
=============================================================================
