------------------------------- MODULE Groups -------------------------------
(***************************************************************************)
(* The group file (client/groups.rs) and how a file of the configuration   *)
(* is changed (config.rs): every client of a machine reads and writes one  *)
(* file, under a lock that has a file of its own, and installs what it has *)
(* written by a rename.  hosts.toml and settings.toml are changed by the   *)
(* same steps (change_toml).                                               *)
(*                                                                         *)
(* A hand puts a session in a group or takes it out.  A listing takes out  *)
(* what its hosts no longer run, and it can land long after they answered: *)
(* it may act only on what was in the file before it asked.                *)
(***************************************************************************)

CONSTANTS Sessions,   \* each lives once: a host, a pid and a start time
          Hosts,
          HostOf,     \* the machine each session is on
          Names,      \* of groups
          Clients

GroupsAssumption ==
    /\ HostOf \in [Sessions -> Hosts]
    /\ "none" \notin Names \union Clients \union Sessions

NoOne == "none"

VARIABLES born, live,  \* the sessions that have started, those that run
          file,        \* groups.toml: the members of each group
          lock,        \* who holds groups.lock
          pc,          \* where each client is
          intent,      \* what it is about to change
          copy         \* its copy of the file

vars == <<born, live, file, lock, pc, intent, copy>>

Contents == [Names -> SUBSET Sessions]
Empty    == [g \in Names |-> {}]

\* A hand moves session "on" to group "to", or out of any; a listing knows
\* what was in the file "before", who answered and what they run.
Resting  == [kind |-> "none", on |-> NoOne, to |-> NoOne, before |-> Empty,
             reached |-> {}, listing |-> {}]

group_of(f, s) == {g \in Names : s \in f[g]}

InOneAtMost(f) ==
    \A s \in Sessions : \A g, h \in group_of(f, s) : g = h

TypeOK ==
    /\ live \subseteq born /\ born \subseteq Sessions
    /\ lock \in Clients \union {NoOne}
    /\ pc \in [Clients -> {"idle", "asking", "ready", "reading", "writing"}]
    /\ copy \in [Clients -> Contents]
    /\ file \in Contents /\ InOneAtMost(file)

Init ==
    /\ born \in {{}, Sessions} /\ live = born
    /\ file \in {f \in Contents : /\ InOneAtMost(f)
                                  /\ \A g \in Names : f[g] \subseteq born}
    /\ lock = NoOne
    /\ pc = [c \in Clients |-> "idle"]
    /\ intent = [c \in Clients |-> Resting]
    /\ copy = [c \in Clients |-> Empty]

Starts(s) ==
    /\ s \notin born
    /\ born' = born \union {s} /\ live' = live \union {s}
    /\ UNCHANGED <<file, lock, pc, intent, copy>>

Ends(s) ==
    /\ s \in live
    /\ live' = live \ {s}
    /\ UNCHANGED <<born, file, lock, pc, intent, copy>>

(***************************************************************************)
(* What a change is.                                                       *)
(***************************************************************************)
clear(f, s)     == [g \in Names |-> f[g] \ {s}]
assign(f, g, s) == [clear(f, s) EXCEPT ![g] = @ \union {s}]
set(f, g, s)    == IF g = NoOne THEN clear(f, s) ELSE assign(f, g, s)

\* Of the hosts that answered, what they do not run any more.
prune(f, reached, listing) ==
    [g \in Names |-> {s \in f[g] : HostOf[s] \notin reached \/ s \in listing}]

\* Mutant: the listing prunes the file as it finds it.
prune_now(f, before, reached, listing) == prune(f, reached, listing)

\* Of what was there before the listing asked and still is, what survived it.
refresh(f, before, reached, listing) ==
    LET survivors == prune(before, reached, listing) IN
    [g \in Names |-> {s \in f[g] : s \notin before[g] \/ s \in survivors[g]}]

change(f, i) == CASE i.kind = "hand"    -> set(f, i.to, i.on)
                  [] i.kind = "listing" ->
                         refresh(f, i.before, i.reached, i.listing)

(***************************************************************************)
(* A client.                                                               *)
(***************************************************************************)
Goes(c, at) == pc' = [pc EXCEPT ![c] = at]

\* The session was running when its machine was asked for its pid.
ByHand(c, s, g) ==
    /\ pc[c] = "idle" /\ s \in live
    /\ intent' = [intent EXCEPT ![c] =
                     [Resting EXCEPT !.kind = "hand", !.on = s, !.to = g]]
    /\ Goes(c, "ready")
    /\ UNCHANGED <<born, live, file, lock, copy>>

\* The file is read, and then the machines are asked.
Survey(c) ==
    /\ pc[c] = "idle"
    /\ intent' = [intent EXCEPT ![c] =
                     [Resting EXCEPT !.kind = "listing", !.before = file]]
    /\ Goes(c, "asking")
    /\ UNCHANGED <<born, live, file, lock, copy>>

\* One machine says what it runs.
Answers(c, h) ==
    /\ pc[c] = "asking" /\ h \notin intent[c].reached
    /\ intent' = [intent EXCEPT ![c].reached = @ \union {h},
                     ![c].listing = @ \union {s \in live : HostOf[s] = h}]
    /\ UNCHANGED <<born, live, file, lock, pc, copy>>

\* All that are going to answer have, and the listing is taken up.
Lands(c) ==
    /\ pc[c] = "asking"
    /\ Goes(c, "ready")
    /\ UNCHANGED <<born, live, file, lock, intent, copy>>

Lock(c) ==
    /\ pc[c] = "ready" /\ lock = NoOne
    /\ lock' = c
    /\ Goes(c, "reading")
    /\ UNCHANGED <<born, live, file, intent, copy>>

\* The file is read under the lock, and what it holds is changed.
Change(c) ==
    /\ pc[c] = "reading"
    /\ copy' = [copy EXCEPT ![c] = change(file, intent[c])]
    /\ Goes(c, "writing")
    /\ UNCHANGED <<born, live, file, lock, intent>>

Lets(c) == /\ lock' = IF lock = c THEN NoOne ELSE lock
           /\ Goes(c, "idle")
           /\ intent' = [intent EXCEPT ![c] = Resting]
           /\ copy' = [copy EXCEPT ![c] = Empty]
           /\ UNCHANGED <<born, live>>

\* The temporary file is whole and takes the name of the old one.
Install(c) == pc[c] = "writing" /\ file' = copy[c] /\ Lets(c)

\* The write fails, or the client dies with its lock, whatever it was doing.
Fails(c) == pc[c] # "idle" /\ file' = file /\ Lets(c)

Next ==
    \/ \E s \in Sessions : Starts(s) \/ Ends(s)
    \/ \E c \in Clients :
           \/ \E s \in Sessions, g \in Names \union {NoOne} : ByHand(c, s, g)
           \/ \E h \in Hosts : Answers(c, h)
           \/ Survey(c) \/ Lands(c) \/ Lock(c) \/ Change(c)
           \/ Install(c) \/ Fails(c)

Spec == Init /\ [][Next]_vars

(***************************************************************************)
(* Properties.                                                             *)
(***************************************************************************)
\* A running session is moved between groups by a hand on that session alone:
\* no other client's older copy of the file, and no listing that lands late or
\* did not reach its machine, takes it out of a group or puts it back in one.
MovedByHand ==
    \A s \in live : group_of(file', s) # group_of(file, s) =>
        \E c \in Clients : /\ pc[c] = "writing" /\ pc'[c] = "idle"
                           /\ intent[c].kind = "hand" /\ intent[c].on = s

OnlyAHandMovesIt == [][MovedByHand]_vars
=============================================================================
