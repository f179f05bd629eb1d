------------------------------- MODULE Phone -------------------------------
(***************************************************************************)
(* The phone's hold on one session (android/rust/src/session.rs): the      *)
(* loop that reaches a machine, attaches, waits and comes back, what is    *)
(* typed at it meanwhile, and the pool its connection comes from           *)
(* (machine.rs).  Other people start, rename and end sessions and restart  *)
(* the node; the network goes and comes back, and a connection that died   *)
(* looks open until something notices.                                     *)
(*                                                                         *)
(* A call from the app is one step, and so is the word that a run is over  *)
(* with the closing of its inbox.  How long a wait lasts is left out, and  *)
(* what is drawn is PhoneScreen.tla's.                                     *)
(***************************************************************************)
EXTENDS Integers, Sequences, FiniteSets

CONSTANTS Sessions, Names,
          First,          \* the name that was opened
          Nobody,         \* no session
          INPUT_BACKLOG, INPUT_BYTES,
          MaxTyped, MaxBreaks, MaxResumes, MaxChanges, MaxNodes   \* bounds

ASSUME PhoneAssumption ==
    /\ First \in Names /\ Nobody \notin Sessions
    /\ INPUT_BACKLOG \in Nat \ {0} /\ INPUT_BYTES \in Nat \ {0}
    /\ {MaxTyped, MaxBreaks, MaxResumes, MaxChanges, MaxNodes} \subseteq Nat

VARIABLES
    at,        \* where the task is
    state,     \* what it last said
    forced,    \* what the app's side said over it
    ever, identity, name,
    chosen,    \* the session the listing gave
    asked,     \* and its name then
    line,      \* the connection this attempt or attach rides on
    pool,      \* the connection held for the next one
    said,      \* the inbox
    queued,    \* bytes in it, as counted
    resumed,   \* a return from the background nobody has acted on
    on,        \* the session that is attached
    given,     \* what this attach was given of what was typed
    leaving,   \* the app asked to leave
    called, life, gen,   \* of every session
    node,      \* which node runs
    up,        \* the network
    crossed,   \* the sessions changed between the listing and the attach
    typed, breaks, resumes, changes   \* counters of the bounds

task == <<at, state, ever, identity, name, chosen, asked, line, on, given>>
app == <<forced, leaving, typed, resumes>>
inbox == <<said, queued>>
machine == <<called, life, gen, node, changes>>
network == <<up, breaks>>
vars == <<task, app, inbox, pool, resumed, machine, network, crossed>>

Reaching == {"connect", "list", "ask"}
Ends == {"ended", "detached", "failed"}
Shown == IF forced # "no" THEN forced ELSE state

Bytes(m) == IF m.is = "input" THEN 1 ELSE 0

Oldest == CHOOSE s \in Sessions : TRUE

Init ==
    /\ at = "connect" /\ state = "reaching" /\ forced = "no"
    /\ ever = FALSE /\ identity = Nobody /\ name = First /\ chosen = Nobody /\ asked = First
    /\ line = "none" /\ pool \in {"none", "open", "stale"}
    /\ said = <<>> /\ queued = 0 /\ resumed = FALSE
    /\ on = Nobody /\ given = <<>> /\ leaving = FALSE
    /\ life = [s \in Sessions |-> IF s = Oldest THEN "alive" ELSE "unborn"]
    /\ called = [s \in Sessions |-> First]
    /\ gen = [s \in Sessions |-> 1] /\ node = 1
    /\ up = TRUE /\ crossed = FALSE
    /\ typed = 0 /\ breaks = 0 /\ resumes = 0 /\ changes = 0

(***************************************************************************)
(* The app.                                                                *)
(***************************************************************************)
Overflowed == forced' = "failed" /\ at' = "over" /\ said' = <<>> /\ UNCHANGED queued

\* Mutant: what there is no room for is dropped.
EnqueueOrDrop(m) ==
    IF queued + Bytes(m) > INPUT_BYTES \/ Len(said) = INPUT_BACKLOG
    THEN UNCHANGED <<forced, at, said, queued>>
    ELSE /\ said' = Append(said, m) /\ queued' = queued + Bytes(m)
         /\ UNCHANGED <<forced, at>>

enqueue(m) ==
    IF queued + Bytes(m) > INPUT_BYTES THEN Overflowed
    ELSE IF Len(said) < INPUT_BACKLOG
         THEN /\ said' = Append(said, m) /\ queued' = queued + Bytes(m)
              /\ UNCHANGED <<forced, at>>
         ELSE IF m.is = "detach"
              THEN forced' = "detached" /\ at' = "over" /\ said' = <<>> /\ UNCHANGED queued
              ELSE Overflowed

Says(m) ==
    /\ at # "over" /\ forced = "no"
    /\ enqueue(m)
    /\ UNCHANGED <<state, ever, identity, name, chosen, asked, line, on, given, pool, resumed,
                   resumes, machine, network, crossed>>

\* Input, and what a drag leaves the view short of.
send(kind) ==
    /\ typed < MaxTyped /\ typed' = typed + 1
    /\ Says([is |-> kind, n |-> typed + 1, old |-> FALSE]) /\ UNCHANGED leaving
detach ==
    /\ ~leaving /\ leaving' = TRUE
    /\ Says([is |-> "detach", n |-> 0, old |-> FALSE]) /\ UNCHANGED typed
resume ==
    /\ resumes < MaxResumes /\ resumes' = resumes + 1 /\ resumed' = TRUE
    /\ UNCHANGED <<task, forced, leaving, typed, inbox, pool, machine, network, crossed>>

(***************************************************************************)
(* The loop.                                                               *)
(***************************************************************************)
Quiet == UNCHANGED <<app, machine, network>>
recv == said # <<>> /\ said' = Tail(said) /\ queued' = queued - Bytes(Head(said))

\* The run is over, with its inbox.
Over(last) ==
    /\ at' = "over" /\ state' = last /\ on' = Nobody /\ line' = "none"
    /\ said' = <<>> /\ UNCHANGED <<queued, ever, identity, name, chosen, asked, given, resumed>>

\* The top of the loop.
TryAgain ==
    /\ at' = "connect" /\ state' = "reaching" /\ on' = Nobody /\ line' = "none"
    /\ given' = <<>> /\ crossed' = FALSE /\ UNCHANGED <<chosen, asked>>
    /\ said' = [i \in DOMAIN said |-> [said[i] EXCEPT !.old = TRUE]]

Waits ==
    /\ at' = "waiting" /\ state' = "waiting" /\ on' = Nobody /\ line' = "none"
    /\ UNCHANGED <<ever, identity, name, chosen, asked, given, inbox, resumed>>

\* Mutant: the connection it was tried on is kept for the next attempt.
MissedOnIt == UNCHANGED pool /\ IF ever THEN Waits ELSE Over("failed")

\* An attempt that did not get to the machine.
MissedMachine ==
    /\ pool' = "none"
    /\ IF ever THEN Waits ELSE Over("failed")

Forgets == resumed /\ resumed' = FALSE /\ pool' = "none"

\* A resume in an attempt, an attach or a wait.
Resumed ==
    /\ at # "over" /\ Forgets /\ TryAgain
    /\ UNCHANGED <<ever, identity, name, queued>> /\ Quiet

\* What the reaching and the waiting take from the inbox, and drop.
Reads == {"input", "look", "detach"}

Drops ==
    /\ at \in Reaching \union {"waiting"} /\ recv /\ Head(said).is \in Reads
    /\ IF Head(said).is = "detach"
       THEN /\ at' = "over" /\ state' = "detached" /\ line' = "none"
            /\ UNCHANGED <<ever, identity, name, chosen, asked, on, given>>
       ELSE UNCHANGED task
    /\ UNCHANGED <<pool, resumed, crossed>> /\ Quiet

connect ==
    /\ at = "connect"
    /\ IF pool # "none" \/ up
       THEN /\ pool' = IF pool = "none" THEN "open" ELSE pool
            /\ line' = pool' /\ at' = "list"
            /\ UNCHANGED <<state, ever, identity, name, chosen, asked, on, given, inbox, resumed>>
       ELSE MissedMachine
    /\ UNCHANGED crossed /\ Quiet

Alive == {s \in Sessions : life[s] = "alive"}
Matching == {s \in Alive : s = identity}

\* Mutant: a session of the name will do.
AnyOfTheName == {s \in Alive : called[s] = name}

\* By its name, unless the node is still the one its session was on.
ByName == {s \in Alive : called[s] = name /\ (identity # Nobody => gen[identity] # gen[s])}

list ==
    /\ at = "list"
    /\ LET found == IF Matching # {} THEN Matching ELSE ByName IN
       CASE line = "stale" -> MissedMachine
         [] line = "open" /\ found = {} -> Over("failed") /\ UNCHANGED pool
         [] OTHER -> \E s \in found :
                /\ chosen' = s /\ asked' = called[s] /\ at' = "ask"
                /\ UNCHANGED <<state, ever, identity, name, line, on, given, inbox, resumed, pool>>
    /\ UNCHANGED crossed /\ Quiet

\* By the time it is asked for, the name is the one the listing gave, and
\* everything that was waiting to be read has been.
ask ==
    /\ at = "ask" /\ \A i \in DOMAIN said : said[i].old => said[i].is \notin Reads
    /\ IF line = "stale" \/ \A s \in Alive : called[s] # asked THEN MissedMachine
       ELSE /\ on' \in {s \in Alive : called[s] = asked}
            /\ at' = "attached" /\ state' = "attached"
            /\ ever' = TRUE /\ identity' = chosen /\ name' = asked
            /\ UNCHANGED <<chosen, asked, line, given, inbox, resumed, pool>>
    /\ UNCHANGED crossed /\ Quiet

\* What is taken of the inbox in an attach.
Takes ==
    /\ at = "attached" /\ recv
    /\ LET m == Head(said) IN
       /\ given' = IF m.is # "detach" /\ line = "open" THEN Append(given, m) ELSE given
       /\ IF m.is = "detach"
          THEN /\ at' = "over" /\ state' = "detached" /\ on' = Nobody /\ line' = "none"
          ELSE UNCHANGED <<at, state, on, line>>
    /\ UNCHANGED <<ever, identity, name, chosen, asked, pool, resumed, crossed>> /\ Quiet

\* What the node says: the name it has, that it has ended; or that it is gone.
Hears ==
    /\ at = "attached" /\ line = "open"
    /\ CASE life[on] = "alive" /\ name # called[on] ->
                /\ name' = called[on]
                /\ UNCHANGED <<at, state, ever, identity, chosen, asked, line, on, given, inbox, resumed>>
         [] life[on] = "ended" /\ gen[on] = node -> Over("ended")
         [] life[on] = "ended" /\ gen[on] # node -> Waits
         [] OTHER -> FALSE
    /\ UNCHANGED <<pool, crossed>> /\ Quiet

\* A dead connection noticed, by a write that fails or a keepalive unanswered.
Lost ==
    /\ at = "attached" /\ line = "stale" /\ Waits
    /\ UNCHANGED <<pool, crossed>> /\ Quiet

Wakes ==
    /\ at = "waiting" /\ TryAgain
    /\ UNCHANGED <<ever, identity, name, queued, pool, resumed>> /\ Quiet

Step == Resumed \/ Drops \/ connect \/ list \/ ask \/ Takes \/ Hears \/ Lost \/ Wakes

(***************************************************************************)
(* Everybody else.                                                         *)
(***************************************************************************)
Change ==
    /\ changes < MaxChanges /\ changes' = changes + 1
    /\ crossed' = (crossed \/ at = "ask")
    /\ UNCHANGED <<task, app, inbox, pool, resumed, network>>

Free(n) == \A s \in Alive : called[s] # n

Start(s, n) ==
    /\ life[s] = "unborn" /\ Free(n)
    /\ life' = [life EXCEPT ![s] = "alive"] /\ called' = [called EXCEPT ![s] = n]
    /\ gen' = [gen EXCEPT ![s] = node] /\ UNCHANGED node /\ Change
End(s) ==
    /\ life[s] = "alive" /\ life' = [life EXCEPT ![s] = "ended"]
    /\ UNCHANGED <<called, gen, node>> /\ Change
Rename(s, n) ==
    /\ life[s] = "alive" /\ Free(n) /\ called' = [called EXCEPT ![s] = n]
    /\ UNCHANGED <<life, gen, node>> /\ Change
Restart ==
    /\ node < MaxNodes /\ node' = node + 1
    /\ life' = [s \in Sessions |-> IF life[s] = "alive" THEN "ended" ELSE life[s]]
    /\ UNCHANGED <<called, gen>> /\ Change

Break ==
    /\ up /\ breaks < MaxBreaks /\ breaks' = breaks + 1 /\ up' = FALSE
    /\ line' = IF line = "open" THEN "stale" ELSE line
    /\ pool' = IF pool = "open" THEN "stale" ELSE pool
    /\ UNCHANGED <<at, state, ever, identity, name, chosen, asked, on, given, app, inbox,
                   resumed, machine, crossed>>
Mend ==
    /\ ~up /\ up' = TRUE
    /\ UNCHANGED <<task, app, inbox, pool, resumed, machine, breaks, crossed>>
\* The connection that is held turns out to be closed.
Notice ==
    /\ pool = "stale" /\ pool' = "none"
    /\ UNCHANGED <<task, app, inbox, resumed, machine, network, crossed>>

Next ==
    \/ \E kind \in {"input", "look"} : send(kind)
    \/ detach \/ resume
    \/ Step
    \/ \E s \in Sessions : End(s) \/ \E n \in Names : Start(s, n) \/ Rename(s, n)
    \/ Restart \/ Break \/ Mend \/ Notice

\* The task runs, and its timers run out.
Fairness ==
    /\ WF_vars(connect) /\ WF_vars(list) /\ WF_vars(ask) /\ WF_vars(Wakes)
    /\ WF_vars(Drops) /\ WF_vars(Takes) /\ WF_vars(Hears) /\ WF_vars(Lost)
Spec == Init /\ [][Next]_vars /\ Fairness

(***************************************************************************)
(* Properties.                                                             *)
(***************************************************************************)
TypeOK ==
    /\ at \in Reaching \union {"attached", "waiting", "over"}
    /\ state \in {"reaching", "attached", "waiting"} \union Ends
    /\ forced \in {"no", "failed", "detached"}
    /\ identity \in IF ever THEN Sessions ELSE {Nobody}
    /\ at = "attached" => on \in Sessions
    /\ at \notin {"attached", "over"} => on = Nobody
    /\ Len(said) <= INPUT_BACKLOG /\ queued \in 0..INPUT_BYTES
    /\ forced = "no" /\ at # "over" => (at \in Reaching) = (state = "reaching")

\* A client that was in a session stays in it, or finds one of its name on
\* another node; it is told that it is gone only when it is, whoever ends,
\* renames and starts what while it is away. The listing and the attach are
\* two requests; what changes hands between them is not covered.
OnlyItsOwn ==
    /\ at = "attached" /\ ~crossed => on = identity
    /\ ever /\ state = "failed" => life[identity] = "ended"
KeepsIt == identity # Nobody => identity' = identity \/ gen[identity'] # gen[identity]
StaysItsOwn == []OnlyItsOwn /\ [][KeepsIt]_vars

\* What is typed is given once and in order, without a hole, and never to an
\* attach that was not already on its way when it was typed.
TypedWhereItWasSeen ==
    /\ \A i \in DOMAIN given : ~given[i].old
    /\ \A i \in 2..Len(given) : given[i].n = given[i - 1].n + 1

\* However it stands with the machine, the network and the inbox, one who asks
\* to leave gets out.
LeavesWhenAsked == leaving ~> Shown \in Ends

\* Where the network comes back, the client is back in its session or says why
\* not.
GetsBack == <>[]up => <>[](Shown \in Ends \/ at = "attached")
NobodyIsStuck == LeavesWhenAsked /\ GetsBack

\* The phone holds together: its types, and what was typed goes to the session
\* that was on the screen.
HoldsTogether == TypeOK /\ TypedWhereItWasSeen
=============================================================================
