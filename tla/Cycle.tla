------------------------------- MODULE Cycle -------------------------------
(***************************************************************************)
(* Which session a switch key lands on: client/switch.rs.                  *)
(*                                                                         *)
(* A cycle is a record: the sessions of the last listing, in its order,    *)
(* each with its group; the session the run is in; the trail of those it   *)
(* came from, most recent first; and the group it is narrowed to.  A       *)
(* session is an address here, a machine and a name on it, and a rename    *)
(* has to find it wherever it is written down.                             *)
(***************************************************************************)
EXTENDS Integers, Sequences, SequencesExt, FiniteSets

CONSTANTS NoGroup,   \* no narrowing, or a session in no group
          Nowhere    \* a motion that lands where the run already is

Motions == {"last", "next", "previous", "nextHost", "previousHost"}

NewCycle(here) == [sessions |-> <<>>, current |-> here, trail |-> <<>>, focus |-> NoGroup]

\* The elements of a finite set by an order, a set of pairs: the n-th of them has
\* n - 1 before it.
InOrder(S, before) ==
    [n \in 1 .. Cardinality(S) |->
        CHOOSE x \in S : Cardinality({y \in S : <<y, x>> \in before}) = n - 1]

\* What a sequence has at some of its places.
Only(seq, places) ==
    LET kept == InOrder(places, {p \in places \X places : p[1] < p[2]})
    IN  [n \in DOMAIN kept |-> seq[kept[n]]]

Without(addresses, gone) == Only(addresses, {i \in DOMAIN addresses : addresses[i] # gone})

\* The sessions a motion may land on: the group's when one is active.
Visible(c) ==
    Only(c.sessions, {i \in DOMAIN c.sessions : c.focus \in {NoGroup, c.sessions[i].group}})

\* The first place of an address in a list, or 0.
Place(list, a) == SelectInSeq(list, LAMBDA e : e.at = a)

Holds(c, here) == \E e \in ToSet(Visible(c)) : e.at = here

\* Mutant: only a group that has emptied ends the narrowing.
RefreshEmptied(c, entries) ==
    LET gone == \A e \in ToSet(entries) : e.group # c.focus
    IN  [c EXCEPT !.sessions = entries, !.focus = IF gone THEN NoGroup ELSE @]

\* A new listing.  A group it has nothing of is dropped, and so is one that the
\* session the run is in has left; a session it does not mention has left nothing.
Refresh(c, entries) ==
    LET gone == \A e \in ToSet(entries) : e.group # c.focus
        here == Place(entries, c.current)
        left == here # 0 /\ entries[here].group # c.focus
    IN  [c EXCEPT !.sessions = entries, !.focus = IF gone \/ left THEN NoGroup ELSE @]

\* The place after i, or before it, in a list of len; i is 0 for what is not in it.
Wrapped(forwards, i, len) ==
    IF forwards THEN (i % len) + 1 ELSE IF i <= 1 THEN len ELSE i - 1

\* What tab walks: this machine's sessions, or the whole group's.
Here(c) ==
    LET v == Visible(c)
    IN  Only(v, {i \in DOMAIN v : c.focus # NoGroup \/ v[i].at.host = c.current.host})

\* The first session listed on each machine, in the machines' order.
FirstOnHosts(c) ==
    LET v == Visible(c)
    IN  Only(v, {i \in DOMAIN v : \A j \in 1 .. i - 1 : v[j].at.host # v[i].at.host})

\* Where a motion lands, or Nowhere.
Step(c, motion) ==
    LET here == Here(c)
        hosts == FirstOnHosts(c)
        at == Place(here, c.current)
        host == SelectInSeq(hosts, LAMBDA e : e.at.host = c.current.host)
        lands ==
            CASE motion = "last" ->
                    IF c.trail = <<>> THEN c.current ELSE Head(c.trail)
              [] motion \in {"next", "previous"} ->
                    IF here = <<>> THEN c.current
                    ELSE here[Wrapped(motion = "next", at, Len(here))].at
              [] motion \in {"nextHost", "previousHost"} ->
                    IF hosts = <<>> THEN c.current
                    ELSE LET to == hosts[Wrapped(motion = "nextHost", host, Len(hosts))].at
                         IN  IF to.host = c.current.host THEN c.current ELSE to
    IN  IF lands = c.current THEN Nowhere ELSE lands

\* A hop, and a hop to a session that this run has just started.
MovedTo(c, next) ==
    [c EXCEPT !.current = next, !.trail = <<c.current>> \o Without(@, next)]

Started(c, next) == [MovedTo(c, next) EXCEPT !.focus = NoGroup]

\* A rename, wherever the address is written down.
RenamedAt(c, was, now) ==
    LET new(a) == IF a = was THEN now ELSE a
    IN  [c EXCEPT !.current = new(@),
                  !.sessions = [i \in DOMAIN @ |-> [at |-> new(@[i].at), group |-> @[i].group]],
                  !.trail = [i \in DOMAIN @ |-> new(@[i])]]

\* A session that is gone.
Forget(c, gone) ==
    [c EXCEPT !.sessions = Only(@, {i \in DOMAIN @ : @[i].at # gone}), !.trail = Without(@, gone)]

\* The session the run is in has ended: back to the one it came from.
FallBack(c) == Forget([c EXCEPT !.current = Head(c.trail), !.trail = Tail(c.trail)], c.current)

\* The hop that could not be made leaves no trail.
Undo(c) ==
    IF c.trail = <<>> THEN c ELSE [c EXCEPT !.current = Head(c.trail), !.trail = Tail(c.trail)]
=============================================================================
