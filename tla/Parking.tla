------------------------------ MODULE Parking ------------------------------
(***************************************************************************)
(* A client going from session to session on the streams it has            *)
(* (client/mod.rs, client/connections.rs, attach_using in attaching.rs,    *)
(* Node::handle in node/mod.rs). A session is left by parking its stream:  *)
(* the node lets go of the session, says so, and takes another request. The*)
(* stream waits among the parked ones, whoever attaches next sends its     *)
(* request at once and reads past what is left of the session before.      *)
(*                                                                         *)
(* Every host takes requests; a stream may stop carrying anything without  *)
(* either end hearing of it, and both give up on one in their time.        *)
(***************************************************************************)
EXTENDS Integers, Sequences, FiniteSets

CONSTANTS
    Sessions, HostOf, CAPACITY,
    MaxPrinted, MaxLeaves, MaxTroubles   \* bounds

ParkingAssumption == CAPACITY \in Nat /\ {MaxPrinted, MaxLeaves, MaxTroubles} \subseteq Nat

VARIABLES
    alive,      \* sessions whose program runs
    streams,    \* every stream opened
    parked,     \* the parked ones the client keeps, oldest first
    client,     \* what it is doing
    shown,      \* the sessions whose output it showed in this attachment
    printed, leaves, troubles   \* counters

vars == <<alive, streams, parked, client, shown, printed, leaves, troubles>>
counts == <<printed, leaves, troubles>>

None == "none"
Hosts == {HostOf[s] : s \in Sessions}

\* node is the session it is attached to, "request", "parked" or "closed";
\* fenced that what was left of the last session has been read.
NewStream(host) == [host |-> host, up |-> TRUE, mine |-> TRUE, node |-> "request", fenced |-> TRUE,
                    toNode |-> <<>>, toClient |-> <<>>]

Send(frame) == [is |-> frame, of |-> None]
Of(frame, s) == [is |-> frame, of |-> s]

Attached(i) == streams[i].node \in Sessions

Change(i, stream) == streams' = [streams EXCEPT ![i] = stream]

(***************************************************************************)
(* The node, one handler per stream.                                       *)
(***************************************************************************)
Reads(i, frame) ==
    /\ streams[i].node # "closed" /\ streams[i].up
    /\ streams[i].toNode # <<>> /\ Head(streams[i].toNode).is = frame

\* The reply to a request that is not an attach ends the stream, a refusal too.
HandlesAttach(i) ==
    /\ Reads(i, "attach") /\ streams[i].node \in {"request", "parked"}
    /\ LET s == Head(streams[i].toNode).of IN
       Change(i, [streams[i] EXCEPT !.toNode = Tail(@),
           !.node = IF s \in alive THEN s ELSE "closed",
           !.toClient = @ \o <<Of(IF s \in alive THEN "attached" ELSE "refused", s)>>])
    /\ UNCHANGED <<alive, parked, client, shown, counts>>

LetGo(stream) == "parked"

HandlesPark(i) ==
    /\ Reads(i, "park") /\ Attached(i)
    /\ Change(i, [streams[i] EXCEPT !.toNode = Tail(@), !.node = LetGo(streams[i]),
                                    !.toClient = Append(@, Send("park"))])
    /\ UNCHANGED <<alive, parked, client, shown, counts>>

HandlesDetach(i) ==
    /\ Reads(i, "detach") /\ Change(i, [streams[i] EXCEPT !.node = "closed"])
    /\ UNCHANGED <<alive, parked, client, shown, counts>>

Exits(i) ==
    /\ Attached(i) /\ streams[i].node \notin alive
    /\ Change(i, [streams[i] EXCEPT !.node = "closed", !.toClient = Append(@, Of("exit", streams[i].node))])
    /\ UNCHANGED <<alive, parked, client, shown, counts>>

\* The end of the stream; a write that got nowhere; PARK_FOR; pings unanswered.
GivesUp(i) ==
    /\ streams[i].node # "closed"
    /\ \/ ~streams[i].mine
       \/ ~streams[i].up
       \/ streams[i].node = "parked" /\ streams[i].toNode = <<>>
    /\ Change(i, [streams[i] EXCEPT !.node = "closed"])
    /\ UNCHANGED <<alive, parked, client, shown, counts>>

Prints(s) ==
    /\ s \in alive /\ printed < MaxPrinted /\ printed' = printed + 1
    /\ streams' = [i \in DOMAIN streams |->
           IF streams[i].node = s
           THEN [streams[i] EXCEPT !.toClient = Append(@, Of("output", s))] ELSE streams[i]]
    /\ UNCHANGED <<alive, parked, client, shown, leaves, troubles>>
Ends(s) ==
    /\ s \in alive /\ troubles < MaxTroubles /\ troubles' = troubles + 1 /\ alive' = alive \ {s}
    /\ UNCHANGED <<streams, parked, client, shown, printed, leaves>>
Breaks(i) ==
    /\ streams[i].up /\ troubles < MaxTroubles /\ troubles' = troubles + 1
    /\ Change(i, [streams[i] EXCEPT !.up = FALSE])
    /\ UNCHANGED <<alive, parked, client, shown, printed, leaves>>

(***************************************************************************)
(* The client.                                                             *)
(***************************************************************************)
On == client.on

\* Nothing more comes of a stream: it ended, or went, or nothing was heard.
Over(i) ==
    \/ ~streams[i].up
    \/ streams[i].node = "closed" /\ streams[i].toClient = <<>>

Shows ==
    /\ client.is = "attached" /\ streams[On].up /\ streams[On].toClient # <<>>
    /\ LET frame == Head(streams[On].toClient) IN
       /\ shown' = shown \union {frame.of}
       /\ IF frame.is = "exit"
          THEN /\ client' = [is |-> "idle", of |-> None, on |-> 0, told |-> "over"]
               /\ Change(On, [streams[On] EXCEPT !.toClient = Tail(@), !.mine = FALSE])
          ELSE /\ UNCHANGED client /\ Change(On, [streams[On] EXCEPT !.toClient = Tail(@)])
    /\ UNCHANGED <<alive, parked, counts>>

Without(host) == SelectSeq(parked, LAMBDA i : streams[i].host # host)
Kept(list) == IF Len(list) > CAPACITY THEN Tail(list) ELSE list
InUse(list) == {list[k] : k \in DOMAIN list}

\* leave_for: the stream goes among the parked, in place of one of its host and
\* of the oldest beyond what is kept.
Leaves(s) ==
    /\ client.is = "attached" /\ s # client.of /\ leaves < MaxLeaves /\ leaves' = leaves + 1
    /\ \E heard \in BOOLEAN :
          /\ heard \/ Over(On)
          /\ LET list == IF heard THEN Kept(Append(Without(streams[On].host), On))
                         ELSE parked
             IN
             /\ parked' = list
             /\ streams' = [i \in DOMAIN streams |->
                    IF i = On /\ heard
                    THEN [streams[i] EXCEPT !.toNode = Append(@, Send("park")), !.fenced = FALSE]
                    ELSE [streams[i] EXCEPT !.mine = i \in InUse(list)]]
    /\ client' = [is |-> "seeking", of |-> s, on |-> 0, told |-> None]
    /\ UNCHANGED <<alive, shown, printed, troubles>>

Detaches ==
    /\ client.is = "attached" /\ leaves < MaxLeaves /\ leaves' = leaves + 1
    /\ Change(On, [streams[On] EXCEPT !.toNode = Append(@, Send("detach")), !.mine = FALSE])
    /\ client' = [is |-> "idle", of |-> None, on |-> 0, told |-> None]
    /\ UNCHANGED <<alive, parked, shown, printed, troubles>>

Picks(s) ==
    /\ client.is = "idle" /\ leaves < MaxLeaves /\ leaves' = leaves + 1
    /\ client' = [is |-> "seeking", of |-> s, on |-> 0, told |-> None]
    /\ UNCHANGED <<alive, streams, parked, shown, printed, troubles>>

\* RETAIN_FOR: looked at as one is taken or kept.
Expire ==
    /\ parked # <<>> /\ client.is = "seeking" /\ troubles < MaxTroubles /\ troubles' = troubles + 1
    /\ parked' = Tail(parked) /\ Change(Head(parked), [streams[Head(parked)] EXCEPT !.mine = FALSE])
    /\ UNCHANGED <<alive, client, shown, printed, leaves>>

ParkedOn(host) == {k \in DOMAIN parked : streams[parked[k]].host = host}

Asks(i, how) == client' = [client EXCEPT !.is = "asking", !.on = i, !.told = how]

Fresh(s, before) ==
    streams' = Append(before, [NewStream(HostOf[s]) EXCEPT !.toNode = <<Of("attach", s)>>])

\* attach_using: sent behind the park, without waiting for its fence.
Take ==
    /\ client.is = "seeking"
    /\ IF ParkedOn(HostOf[client.of]) = {}
       THEN Fresh(client.of, streams) /\ Asks(Len(streams) + 1, None) /\ UNCHANGED parked
       ELSE \E k \in ParkedOn(HostOf[client.of]) :
               /\ Change(parked[k], [streams[parked[k]] EXCEPT
                                        !.toNode = Append(@, Of("attach", client.of))])
               /\ Asks(parked[k], "reusing") /\ parked' = Without(HostOf[client.of])
    /\ UNCHANGED <<alive, shown, counts>>

\* Mutant: nothing is read past.
TakenAsRead(i) == TRUE

Fenced(i) == streams[i].fenced

\* A stream that parks is read in the background until the node has let go.
Drains(i) ==
    /\ ~Fenced(i) /\ streams[i].mine /\ streams[i].up /\ streams[i].toClient # <<>>
    /\ i \in InUse(parked) \/ (client.is = "asking" /\ i = On)
    /\ Change(i, [streams[i] EXCEPT !.toClient = Tail(@),
                                    !.fenced = Head(streams[i].toClient).is = "park"])
    /\ UNCHANGED <<alive, parked, client, shown, counts>>

\* A refusal, or anything that is no answer, is a session that is not there.
Answered ==
    /\ client.is = "asking" /\ Fenced(On) /\ streams[On].up /\ streams[On].toClient # <<>>
    /\ LET good == Head(streams[On].toClient).is = "attached" IN
       /\ client' = IF good THEN [client EXCEPT !.is = "attached"]
                    ELSE [is |-> "idle", of |-> client.of, on |-> 0, told |-> "gone"]
       /\ shown' = {}
       /\ Change(On, [streams[On] EXCEPT !.toClient = Tail(@), !.mine = good])
    /\ UNCHANGED <<alive, parked, counts>>

\* A parked stream that died, or says nothing for two seconds, gives way to a
\* fresh one, once: the fresh one that dies is a host out of reach.
Silent ==
    /\ client.is = "asking"
    /\ \/ Over(On) /\ UNCHANGED troubles
       \/ client.told = "reusing" /\ troubles < MaxTroubles /\ troubles' = troubles + 1
    /\ LET before == [streams EXCEPT ![On].mine = FALSE] IN
       IF client.told = "reusing"
       THEN Fresh(client.of, before) /\ client' = [client EXCEPT !.on = Len(streams) + 1, !.told = None]
       ELSE streams' = before
            /\ client' = [is |-> "idle", of |-> client.of, on |-> 0, told |-> "unreachable"]
    /\ UNCHANGED <<alive, parked, shown, printed, leaves>>

\* An attachment whose stream is over is begun again on a fresh one.
Loses ==
    /\ client.is = "attached" /\ Over(On)
    /\ Change(On, [streams[On] EXCEPT !.mine = FALSE])
    /\ client' = [client EXCEPT !.is = "seeking", !.on = 0]
    /\ UNCHANGED <<alive, parked, shown, counts>>

Init ==
    /\ alive = Sessions /\ streams = <<>> /\ parked = <<>> /\ shown = {}
    /\ client = [is |-> "idle", of |-> None, on |-> 0, told |-> None]
    /\ printed = 0 /\ leaves = 0 /\ troubles = 0

Next ==
    \/ \E i \in DOMAIN streams :
          \/ HandlesAttach(i) \/ HandlesPark(i) \/ HandlesDetach(i) \/ Exits(i) \/ GivesUp(i)
          \/ Drains(i) \/ Breaks(i)
    \/ \E s \in Sessions : Prints(s) \/ Ends(s) \/ Leaves(s) \/ Picks(s)
    \/ Shows \/ Detaches \/ Expire \/ Take \/ Answered \/ Silent \/ Loses

Spec == Init /\ [][Next]_vars

(***************************************************************************)
(* Properties.                                                             *)
(***************************************************************************)
TypeOK ==
    /\ alive \subseteq Sessions /\ shown \subseteq Sessions
    /\ client.is \in {"idle", "seeking", "asking", "attached"}
    /\ client.on \in 0..Len(streams)
    /\ Len(parked) <= CAPACITY /\ InUse(parked) \subseteq DOMAIN streams
    /\ \A i \in DOMAIN streams :
          streams[i].node \in Sessions \union {"request", "parked", "closed"}

\* A session is said to be gone only when it is: what a reused stream still
\* carries of the session before is never taken for the answer of the next.
GoneIsTrue == client.told = "gone" => client.of \notin alive

\* What is shown of a session is its own.
ShownIsItsOwn == client.is = "attached" => shown \subseteq {client.of}

\* Once every end has heard what the other did, the client is counted at the one
\* session it is attached to, once, and nowhere it was before; and the node is
\* left no stream but those the client still has.
Heard(i) ==
    /\ streams[i].up \/ streams[i].node = "closed"
    /\ streams[i].toNode = <<>> \/ streams[i].node = "closed"
    /\ streams[i].mine \/ streams[i].node = "closed"
CountedOnce ==
    client.is \in {"idle", "attached"} /\ (\A i \in DOMAIN streams : Heard(i)) =>
        \A i \in DOMAIN streams :
            /\ Attached(i) => i = On /\ client.of = streams[i].node
            /\ streams[i].node = "parked" => i \in InUse(parked)
=============================================================================
