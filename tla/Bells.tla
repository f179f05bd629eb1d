-------------------------------- MODULE Bells --------------------------------
(***************************************************************************)
(* Who is told when a session asks for somebody (notify.rs, and the event  *)
(* bus of node/session.rs, node/mod.rs, ipc.rs).  A session puts what      *)
(* happened on its node's bus, stamped with who was watching; the pump of  *)
(* every attachment passes on what the other sessions of that machine say, *)
(* for the terminal to ring, and a machine that watches this one raises it *)
(* on its desktop when nobody was attached there.                          *)
(*                                                                         *)
(* The stamp is read in pieces while clients come and go: who is in the    *)
(* session under its lock, then its name, then how many are on the         *)
(* machine.  A client is counted before it is in the session, and is in    *)
(* the session before it hears the bus.                                    *)
(***************************************************************************)
EXTENDS Integers, Sequences, FiniteSets

CONSTANTS
    Sessions, Clients,
    Called,         \* what each session is called to begin with
    Terminals,      \* the clients that ring: the rest are apps, which do not
    Names, BACKLOG,
    Kinds,          \* subset of {"bell", "title"}
    MaxBells, MaxUnderway, MaxAttaches, MaxRenames, MaxTroubles    \* bounds of the checked runs

BellsAssumption ==
    /\ Terminals \subseteq Clients /\ "desk" \notin Clients
    /\ Called \in [Sessions -> Names] /\ \A s, t \in Sessions : Called[s] = Called[t] => s = t
    /\ Kinds \subseteq {"bell", "title"} /\ Cardinality(Names) > Cardinality(Sessions)
    /\ BACKLOG \in Nat \ {0} /\ MaxBells \in Nat \ {0} /\ MaxUnderway \in Nat
    /\ MaxAttaches \in Nat /\ MaxRenames \in Nat /\ MaxTroubles \in Nat

VARIABLES
    called,     \* what each session is called
    client,     \* what each is to the node, in which session, and whether it is alive
    link,       \* the desk's subscription
    wanted,     \* `mm config notify`, where each of them reads it
    queue,      \* what each receiver of the bus has yet to take
    cooling,    \* the names each has told of in the last 30 seconds
    bell,       \* each event: its stamp, and who was told
    attaches, renames, troubles

vars == <<called, client, link, wanted, queue, cooling, bell, attaches, renames, troubles>>

Desk == "desk"
Receivers == Clients \union {Desk}
Numbers == 1..MaxBells

Trouble == troubles < MaxTroubles /\ troubles' = troubles + 1

(***************************************************************************)
(* Who is there.                                                           *)
(***************************************************************************)
Away == [is |-> "away", in |-> CHOOSE s \in Sessions : TRUE, viewer |-> FALSE, alive |-> TRUE]

Counted == {c \in Clients : client[c].is # "away"}      \* host_clients
Watching(s) == {c \in Clients : client[c].is \in {"joined", "hears"} /\ client[c].in = s /\ ~client[c].viewer}
Hears(r) == IF r = Desk THEN link = "up" ELSE client[r].is = "hears"

(***************************************************************************)
(* An event.  "sat" is who has been in a place to hear it, and to tell of  *)
(* it, ever since it began: for the properties.                            *)
(***************************************************************************)
None == [stage |-> "none", of |-> Away.in, kind |-> "bell", attached |-> 0, name |-> CHOOSE n \in Names : TRUE,
         host_attached |-> 0, sat |-> {}, told |-> {}, held |-> {}, late |-> FALSE, renamed |-> FALSE]

Underway(b) == bell[b].stage \in {"begun", "named", "counted"}
Unsat(who) == [b \in Numbers |-> [bell[b] EXCEPT !.sat = @ \ who]]

InAPlaceToHear(s) ==
    {c \in Terminals : Hears(c) /\ client[c].alive /\ client[c].in # s /\ wanted[c]}
        \union (IF Counted = {} /\ link = "up" /\ wanted[Desk] THEN {Desk} ELSE {})

\* One thread reads a session's output, and the exit is told of after it.
publish(b, s, kind) ==
    /\ bell[b].stage = "none" /\ \A n \in 1..b - 1 : bell[n].stage # "none"
    /\ \A n \in Numbers : Underway(n) => bell[n].of # s
    /\ Cardinality({n \in Numbers : Underway(n)}) < MaxUnderway
    /\ bell' = [bell EXCEPT ![b] = [None EXCEPT !.stage = "begun", !.of = s, !.kind = kind,
                    !.attached = Cardinality(Watching(s)), !.sat = InAPlaceToHear(s)]]
    /\ UNCHANGED <<called, client, link, wanted, queue, cooling, attaches, renames, troubles>>

Names_(b) ==
    /\ bell[b].stage = "begun"
    /\ bell' = [bell EXCEPT ![b].stage = "named", ![b].name = called[bell[b].of]]
    /\ UNCHANGED <<called, client, link, wanted, queue, cooling, attaches, renames, troubles>>

Counts(b) ==
    /\ bell[b].stage = "named"
    /\ bell' = [bell EXCEPT ![b].stage = "counted", ![b].host_attached = Cardinality(Counted)]
    /\ UNCHANGED <<called, client, link, wanted, queue, cooling, attaches, renames, troubles>>

\* A receiver that falls behind loses the oldest.
Pushed(r, b) ==
    IF ~Hears(r) THEN queue[r]
    ELSE IF Len(queue[r]) = BACKLOG THEN Append(Tail(queue[r]), b) ELSE Append(queue[r], b)
Lagging(n) == {r \in Receivers : Hears(r) /\ Len(queue[r]) = BACKLOG /\ Head(queue[r]) = n}

Sends(b) ==
    /\ bell[b].stage = "counted"
    /\ queue' = [r \in Receivers |-> Pushed(r, b)]
    /\ bell' = [n \in Numbers |-> [bell[n] EXCEPT !.stage = IF n = b THEN "sent" ELSE @,
                                                  !.sat = @ \ Lagging(n)]]
    /\ UNCHANGED <<called, client, link, wanted, cooling, attaches, renames, troubles>>

(***************************************************************************)
(* Telling.                                                                *)
(***************************************************************************)

\* Somebody in the session can see what it wants; titles, starts and clean exits
\* interrupt nobody.
worth_interrupting(e) == e.attached = 0 /\ e.kind = "bell"

for_desktop(e) == e.host_attached = 0

\* Cooldown::allow, by the name it was stamped with.
allow(r, e) == e.name \notin cooling[r]

Told(r, b, raises) ==
    LET e == bell[b] IN
    IF ~raises THEN UNCHANGED <<bell, cooling>>
    ELSE IF ~allow(r, e) THEN bell' = [bell EXCEPT ![b].held = @ \union {r}] /\ UNCHANGED cooling
    ELSE /\ cooling' = [cooling EXCEPT ![r] = @ \union {e.name}]
         /\ bell' = [bell EXCEPT ![b].told = IF wanted[r] THEN @ \union {r} ELSE @]

Takes(r) == queue[r] # <<>> /\ queue' = [queue EXCEPT ![r] = Tail(@)]

\* Notifier::handle.  The setting is read last: one that was not wanted cools.
handle ==
    /\ Takes(Desk)
    /\ LET b == Head(queue[Desk]) IN
         Told(Desk, b, worth_interrupting(bell[b]) /\ for_desktop(bell[b]))
    /\ UNCHANGED <<called, client, link, wanted, attaches, renames, troubles>>

\* The pump: not the session on the screen, by what it is called now.
Another(c, e) == e.name # called[client[c].in]

\* The pump passes it on and the terminal rings it, if it wants to be told at
\* all: that is asked first.
ring(c) ==
    /\ client[c].is = "hears" /\ Takes(c)
    /\ LET b == Head(queue[c]) IN
         Told(c, b, /\ Another(c, bell[b]) /\ client[c].alive /\ c \in Terminals /\ wanted[c]
                    /\ worth_interrupting(bell[b]))
    /\ UNCHANGED <<called, client, link, wanted, attaches, renames, troubles>>

\* Thirty seconds.
Passes(r) ==
    /\ cooling[r] # {} /\ cooling' = [cooling EXCEPT ![r] = {}]
    /\ UNCHANGED <<called, client, link, wanted, queue, bell, attaches, renames, troubles>>

(***************************************************************************)
(* Coming and going.                                                       *)
(***************************************************************************)
\* From here the desk may leave it to this client.
attach(c, s, viewer) ==
    /\ client[c].is = "away" /\ attaches < MaxAttaches /\ attaches' = attaches + 1
    /\ client' = [client EXCEPT ![c] = [is |-> "counts", in |-> s, viewer |-> viewer, alive |-> TRUE]]
    /\ bell' = [b \in Numbers |-> IF Underway(b) THEN Unsat({Desk})[b] ELSE bell[b]]
    /\ UNCHANGED <<called, link, wanted, queue, cooling, renames, troubles>>

\* In the session, under its lock; the answer is written next.
Joins(c) ==
    /\ client[c].is = "counts" /\ client' = [client EXCEPT ![c].is = "joined"]
    /\ UNCHANGED <<called, link, wanted, queue, cooling, bell, attaches, renames, troubles>>

Subscribes(c) ==
    /\ client[c].is = "joined" /\ client' = [client EXCEPT ![c].is = "hears"]
    /\ bell' = [b \in Numbers |-> IF Underway(b) THEN [bell[b] EXCEPT !.late = TRUE] ELSE bell[b]]
    /\ UNCHANGED <<called, link, wanted, queue, cooling, attaches, renames, troubles>>

\* The attachment is dropped, and its receiver with it.
Drops(c) == [queue EXCEPT ![c] = <<>>]

Leaves(c) ==
    /\ client[c].is = "hears" /\ client' = [client EXCEPT ![c] = Away]
    /\ queue' = Drops(c) /\ bell' = Unsat({c})
    /\ cooling' = [cooling EXCEPT ![c] = {}]        \* of this run of the loop
    /\ UNCHANGED <<called, link, wanted, attaches, renames, troubles>>

\* Its connection dies, which the node learns of when it stops answering.
Dies(c) ==
    /\ client[c].is = "hears" /\ client[c].alive /\ Trouble
    /\ client' = [client EXCEPT ![c].alive = FALSE] /\ bell' = Unsat({c})
    /\ UNCHANGED <<called, link, wanted, queue, cooling, attaches, renames>>

\* subscribe_once; what was on its way when it is cut is lost.
Subscribed ==
    /\ link = "down" /\ link' = "up"
    /\ UNCHANGED <<called, client, wanted, queue, cooling, bell, attaches, renames, troubles>>

Cut ==
    /\ link = "up" /\ link' = "down" /\ Trouble
    /\ queue' = [queue EXCEPT ![Desk] = <<>>] /\ bell' = Unsat({Desk})
    /\ UNCHANGED <<called, client, wanted, cooling, attaches, renames>>

\* `mm config notify`: it takes hold at once.
notify(r) ==
    /\ Trouble /\ wanted' = [wanted EXCEPT ![r] = ~@] /\ bell' = Unsat({r})
    /\ UNCHANGED <<called, client, link, queue, cooling, attaches, renames>>

\* Somebody in a session that takes a name of an event's may be taken to have
\* heard its own.
rename(s, name) ==
    /\ renames < MaxRenames /\ renames' = renames + 1
    /\ \A t \in Sessions : called[t] # name
    /\ called' = [called EXCEPT ![s] = name]
    /\ bell' = [b \in Numbers |->
           [Unsat({c \in Clients : client[c].in = s})[b] EXCEPT
                !.renamed = @ \/ (bell[b].of = s /\ bell[b].stage \notin {"none", "begun"})]]
    /\ UNCHANGED <<client, link, wanted, queue, cooling, attaches, troubles>>

Init ==
    /\ called = Called
    /\ client = [c \in Clients |-> Away] /\ link = "up"
    /\ wanted = [r \in Receivers |-> TRUE]
    /\ queue = [r \in Receivers |-> <<>>] /\ cooling = [r \in Receivers |-> {}]
    /\ bell = [b \in Numbers |-> None]
    /\ attaches = 0 /\ renames = 0 /\ troubles = 0

Next ==
    \/ \E b \in Numbers :
         \/ \E s \in Sessions, kind \in Kinds : publish(b, s, kind)
         \/ Names_(b) \/ Counts(b) \/ Sends(b)
    \/ \E c \in Clients :
         \/ \E s \in Sessions, viewer \in BOOLEAN : attach(c, s, viewer)
         \/ Joins(c) \/ Subscribes(c) \/ Leaves(c) \/ Dies(c) \/ ring(c)
    \/ handle \/ Subscribed \/ Cut
    \/ \E r \in Receivers : notify(r) \/ Passes(r)
    \/ \E s \in Sessions, n \in Names : rename(s, n)

Spec == Init /\ [][Next]_vars

(***************************************************************************)
(* Properties.                                                             *)
(***************************************************************************)
TypeOK ==
    /\ called \in [Sessions -> Names]
    /\ \A c \in Clients : client[c].is \in {"away", "counts", "joined", "hears"}
    /\ \A r \in Receivers : Len(queue[r]) <= BACKLOG /\ (~Hears(r) => queue[r] = <<>>)

\* A bell nobody was in the session for is told of by every terminal that sat in
\* another session of the machine from before it rang, and by the desk that
\* watches a machine nobody is attached to.  Four are out of it.  Where only a
\* phone is attached nobody is told: it is counted and does not ring.  Who came,
\* or subscribed, while the bell was being stamped may miss it, and so may one
\* that fell behind ("sat").  And a name that was told of in the last 30 seconds
\* is held back, one that was only not told of because notify was off included.
SomebodyHears ==
    \A b \in Numbers :
        /\ bell[b].stage = "sent" /\ bell[b].kind = "bell" /\ bell[b].attached = 0
        => \A r \in bell[b].sat : \/ r \in bell[b].told \union bell[b].held
                                  \/ \E i \in DOMAIN queue[r] : queue[r][i] = b

\* One bell interrupts once: on the desktop or in the terminals there, unless
\* one of those came while it was being stamped ("late").
NotTwice ==
    \A b \in Numbers : Desk \in bell[b].told /\ bell[b].told # {Desk} => bell[b].late

\* A terminal is not rung by the session on its screen, unless that session was
\* renamed after the bell was stamped.
ItsOwn(b, c) == bell[b].of = client[c].in /\ ~bell[b].renamed
OfAnother ==
    \A b \in Numbers : \A c \in Clients : c \in bell'[b].told \ bell[b].told => ~ItsOwn(b, c)
NotItsOwn == [][OfAnother]_vars
=============================================================================
