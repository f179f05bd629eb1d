----------------------------- MODULE Attaching -----------------------------
(***************************************************************************)
(* The attached client's loop: do_attach in attaching.rs, with the listing *)
(* it hops by (client/listed.rs) and the cycle of client/switch.rs.        *)
(*                                                                         *)
(* Around it are the machines, which run sessions, lose their networks and *)
(* have their sessions renamed, ended and started by others; a survey of   *)
(* all of them that is asked for off to one side and is collected later,   *)
(* when it may be stale; and, for as long as an attach lasts, the popup's  *)
(* lister, which asks again and again and hands its last answer back.      *)
(*                                                                         *)
(* A session is a member of Session, its identity (machine, pid and start  *)
(* time); the client knows it by its address, which others may change and  *)
(* which another session may bear once it has ended.                       *)
(***************************************************************************)
EXTENDS Cycle

CONSTANTS Session,     \* identities, numbered in the order of their start
          Host,        \* machines, numbered in the order they are listed
          Name, Group,
          First,       \* the session the command line names
          StartHost, StartName,   \* and what it says
         StartGroup,  \* the group that session is in, if any
          MaxChanges   \* bounds the renames, ends, starts, regroupings and network changes

ASSUME AttachingAssumption ==
    /\ Session \subseteq Nat \ {0} /\ Host \subseteq Nat /\ First \in Session
    /\ StartHost \in Host /\ StartName \in Name /\ StartGroup \in Group \cup {NoGroup}
    /\ NoGroup \notin Group /\ MaxChanges \in Nat

Address == [host : Host, name : Name]
NoSession == 0
NoName == Nowhere
Grouping == [Session -> Group \cup {NoGroup}]

VARIABLES
    at,       \* the address of each session that is running
    born,     \* the sessions ever started
    up,       \* the machines that answer
    group,    \* groups.toml, shared with the other clients
    changes,  \* how many of those there have been
    book,     \* cycle, snapshot, known, seeded and history of do_attach
    phase,    \* where its loop is
    in,       \* the session last attached to; none means `attached` is false
    hopped, ended, lost,
    listing,  \* the survey that is out, if any
    lister,   \* the popup's lister
    heard,    \* Run::renamed, the name the attach stream last confirmed
    result,   \* how the run ended
    been      \* history: the run has been attached at the address it is at

world == <<at, born, up, group, changes>>
loop == <<phase, in, hopped, ended, lost, result, been>>
vars == <<world, book, loop, listing, lister, heard>>

(***************************************************************************)
(* Snapshots: what the machines said, and what they said before.           *)
(***************************************************************************)
Unasked == [sessions |-> <<>>, cached |-> <<>>, answered |-> {}]

Known(s) == IF s.cached = <<>> THEN s.sessions ELSE s.cached

\* The session listed at an address; the oldest, if a stale listing has two.
Info(s, here) ==
    LET listed == {x \in DOMAIN s.sessions : s.sessions[x] = here}
    IN  IF listed = {} THEN NoSession ELSE CHOOSE x \in listed : \A y \in listed : x <= y

\* Snapshot::following: a machine that did not answer keeps its last picture.
Following(new, old) ==
    LET known == IF new.cached = <<>> THEN Known(old) ELSE new.cached
        silent == {x \in DOMAIN known : known[x].host \notin new.answered} \ DOMAIN new.sessions
    IN  [new EXCEPT !.cached = [x \in DOMAIN new.sessions \cup silent |->
                                    IF x \in silent THEN known[x] ELSE new.sessions[x]]]

\* Snapshot::renamed, Snapshot::renamed_member and Snapshot::forget, each over
\* the fresh answers and the cached ones.
Over(s, F(_)) == [s EXCEPT !.sessions = F(@), !.cached = F(@)]

Renamed(s, was, now) ==
    Over(s, LAMBDA f : [x \in DOMAIN f |-> IF f[x] = was THEN now ELSE f[x]])

RenamedMember(s, member, name) ==
    Over(s, LAMBDA f : [x \in DOMAIN f |-> IF x = member THEN [f[x] EXCEPT !.name = name] ELSE f[x]])

Forgotten(s, gone) ==
    LET left(f) == [x \in {y \in DOMAIN f : f[y] # gone} |-> f[x]] IN Over(s, left)

\* The listing as the switch keys want it: by machine, then by start.
Listed(f, x, y) == f[x].host < f[y].host \/ (f[x].host = f[y].host /\ x < y)

AsListed(f, S) == InOrder(S, {p \in S \X S : Listed(f, p[1], p[2])})

Entries(s, groups) ==
    LET order == AsListed(s.sessions, DOMAIN s.sessions)
    IN  [i \in DOMAIN order |-> [at |-> s.sessions[order[i]], group |-> groups[order[i]]]]

\* reconcile_cycle: sessions seen under another name, one after the other, all
\* but the one the run is in, whose name is the attach stream's to say.
Followed(c, was, now) == IF was = c.current THEN c ELSE RenamedAt(c, was, now)

AllFollowed(c, before, now, order) ==
    FoldLeft(LAMBDA acc, x : Followed(acc, before[x], now[x]), c, order)

Reconciled(c, new, old) ==
    LET before == Known(old)
        moved == {x \in DOMAIN before \cap DOMAIN new.sessions : before[x] # new.sessions[x]}
    IN  AllFollowed(c, before, new.sessions, AsListed(before, moved))

\* absorb: a listing that landed is the one the switch keys walk.
Absorb(b, landed) ==
    LET s == Following(landed, b.snapshot)
    IN  [b EXCEPT !.snapshot = s,
                  !.cycle = Refresh(Reconciled(@, landed, b.snapshot), Entries(s, group))]

(***************************************************************************)
(* The loop's own book-keeping.                                            *)
(***************************************************************************)
NoOne == [at |-> Nowhere, session |-> NoSession]

\* KnownSession::of
KnownOf(s, here) ==
    IF Info(s, here) = NoSession THEN NoOne ELSE [at |-> here, session |-> Info(s, here)]

\* The name a session has in `seeded` follows a rename.
Reseeded(seeded, was, now) == IF was \in seeded THEN (seeded \ {was}) \cup {now} ELSE seeded

\* KnownSession::recover: the session that was lost, under a name it has now.
Recovered(b) ==
    LET k == b.known
        now == b.snapshot.sessions[k.session]
    IN  IF k.at = b.cycle.current /\ k.session \in DOMAIN b.snapshot.sessions /\ now # k.at
        THEN [b EXCEPT !.cycle = RenamedAt(@, k.at, now), !.known.at = now,
                       !.seeded = Reseeded(@, k.at, now)]
        ELSE b

\* take_listing: a survey that is finished, and never a wait for one.
Collected(b) == IF listing.is = "landed" THEN Absorb(b, listing.snapshot) ELSE b

Quiet == [is |-> "none", snapshot |-> Unasked]
Asked == [is |-> "asking", snapshot |-> Unasked]
Uncollected == IF listing.is = "landed" THEN Quiet ELSE listing

\* After attach::run: the lister's last answer, and the name the stream confirmed.
Returned ==
    LET b == IF lister.fresh THEN Absorb(book, lister.cached) ELSE book
        was == b.cycle.current
        now == [was EXCEPT !.name = heard]
        s == IF b.known.session # NoSession
             THEN RenamedMember(b.snapshot, b.known.session, heard)
             ELSE Renamed(b.snapshot, was, now)
    IN  IF heard = NoName THEN b
        ELSE [b EXCEPT !.cycle = RenamedAt(@, was, now), !.snapshot = s,
                       !.known.at = IF @ = was THEN now ELSE @,
                       !.seeded = Reseeded(@, was, now)]

NoLister == [cached |-> Unasked, fresh |-> FALSE, member |-> NoSession, current |-> Nowhere]

Init ==
    /\ at = [s \in Session |-> IF s = First THEN [host |-> StartHost, name |-> StartName] ELSE Nowhere]
    /\ born = {First} /\ up \in SUBSET Host /\ changes = 0
    /\ group = [s \in Session |-> IF s = First THEN StartGroup ELSE NoGroup]
    /\ book = [cycle |-> NewCycle(at[First]), snapshot |-> Unasked, known |-> NoOne,
               seeded |-> {}, history |-> FALSE]
    /\ phase = "top" /\ in = NoSession /\ hopped = FALSE /\ ended = NoSession /\ lost = FALSE
    /\ listing = Asked /\ lister = NoLister /\ heard = NoName /\ result = "none" /\ been = FALSE

(***************************************************************************)
(* The machines, and the others who use them.                              *)
(***************************************************************************)
Free(a) == \A s \in born : at[s] # a
At(a) == {s \in born : at[s] = a}

Change == changes < MaxChanges /\ changes' = changes + 1
Others == Change /\ UNCHANGED <<book, loop, listing, lister, heard>>

Rename(s, a) ==
    /\ Others /\ at[s] # Nowhere /\ a.host = at[s].host /\ Free(a)
    /\ at' = [at EXCEPT ![s] = a]
    /\ UNCHANGED <<born, up, group>>

End(s) ==
    /\ Others /\ at[s] # Nowhere
    /\ at' = [at EXCEPT ![s] = Nowhere]
    /\ UNCHANGED <<born, up, group>>

Start(s, a) ==
    /\ Others /\ s \notin born /\ Free(a)
    /\ at' = [at EXCEPT ![s] = a]
    /\ born' = born \cup {s}
    /\ UNCHANGED <<up, group>>

Network(h) ==
    /\ Others
    /\ up' = IF h \in up THEN up \ {h} ELSE up \cup {h}
    /\ UNCHANGED <<at, born, group>>

Regrouped(s, g) ==
    /\ Others /\ s \in born /\ group[s] # g
    /\ group' = [group EXCEPT ![s] = g]
    /\ UNCHANGED <<at, born, up>>

\* The survey reaches the machines that are up, and is finished.
Survey ==
    /\ listing.is = "asking"
    /\ LET running == {s \in born : at[s] # Nowhere /\ at[s].host \in up}
           said == [sessions |-> [s \in running |-> at[s]], cached |-> <<>>, answered |-> up]
       IN  listing' = [is |-> "landed", snapshot |-> said]
    /\ UNCHANGED <<world, book, loop, lister, heard>>

(***************************************************************************)
(* An attempt to attach.                                                   *)
(***************************************************************************)

\* The top of the loop: whom the run knows itself to be with, what the survey
\* has found, and the history this attach will ask for.
Begin ==
    /\ phase = "top"
    /\ LET k == IF book.known.at # book.cycle.current THEN NoOne ELSE book.known
           known == IF k = NoOne THEN KnownOf(book.snapshot, book.cycle.current) ELSE k
           b == Recovered(Collected([book EXCEPT !.known = known]))
       IN  book' = [b EXCEPT !.history = b.cycle.current \notin b.seeded,
                             !.seeded = @ \cup {b.cycle.current}]
    /\ phase' = "reaching" /\ listing' = Uncollected
    /\ UNCHANGED <<world, in, hopped, ended, lost, result, been, lister, heard>>

\* Where the attach has landed.  Only the first one narrows to the group of the
\* session it is in.
Landed(b) ==
    LET here == b.cycle.current
        c == IF b.snapshot.sessions = <<>> THEN b.cycle
             ELSE Refresh(b.cycle, Entries(b.snapshot, group))
        info == Info(b.snapshot, here)
    IN  [b EXCEPT !.history = FALSE,
                  !.known = IF info = NoSession THEN @ ELSE [at |-> here, session |-> info],
                  !.cycle = IF in = NoSession /\ info # NoSession
                            THEN [c EXCEPT !.focus = group[info]] ELSE c]

Attached(s, after) ==
    /\ phase = "reaching" /\ s \in At(book.cycle.current) /\ at[s].host \in up
    /\ book' = after
    /\ phase' = "attached" /\ in' = s /\ lost' = FALSE /\ been' = TRUE
    /\ lister' = [cached |-> after.snapshot, fresh |-> FALSE,
                  member |-> Info(after.snapshot, at[s]), current |-> at[s]]
    /\ listing' = Uncollected /\ heard' = NoName
    /\ UNCHANGED <<world, result>>

\* Mutant: the attach made good a hop, and is still taken for one.
AttachHopping(s) == Attached(s, Landed(Collected(book))) /\ ended' = NoSession /\ UNCHANGED hopped

\* Mutant: the exit that sent the run here is still carried.
AttachCarrying(s) == Attached(s, Landed(Collected(book))) /\ hopped' = FALSE /\ UNCHANGED ended

Attach(s) == Attached(s, Landed(Collected(book))) /\ hopped' = FALSE /\ ended' = NoSession

Finish(how) == phase' = "over" /\ result' = how

\* Mutant: nothing asks where the session is now.
WaitUnasked(b) ==
    /\ phase' = "waiting" /\ lost' = TRUE /\ book' = b
    /\ listing' = IF phase = "attached" THEN Quiet ELSE listing
    /\ UNCHANGED result

\* Disconnected, or an attempt that failed: wait, and ask who is where meanwhile.
Wait(b) ==
    /\ phase' = "waiting" /\ lost' = TRUE /\ book' = b
    /\ listing' = IF phase = "attached" \/ listing = Quiet THEN Asked ELSE listing
    /\ UNCHANGED result

Gone == At(book.cycle.current) = {} /\ book.cycle.current.host \in up

\* The machine answers and has no such session: the exit being carried was the
\* end after all, or the hop is taken back.
MissBack ==
    /\ phase = "reaching" /\ Gone /\ ended # NoSession
    /\ Finish("exited")
    /\ UNCHANGED <<world, book, in, hopped, ended, lost, been, listing, lister, heard>>

MissHop ==
    /\ phase = "reaching" /\ Gone /\ ended = NoSession /\ hopped
    /\ book' = [book EXCEPT !.cycle = Undo(Forget(@, book.cycle.current))]
    /\ phase' = "top" /\ hopped' = FALSE /\ been' = TRUE
    /\ UNCHANGED <<world, in, ended, lost, result, listing, lister, heard>>

\* Anything else is waited out, unless the run was never attached to anything.
Miss ==
    /\ phase = "reaching" /\ in # NoSession
    /\ \/ book.cycle.current.host \notin up
       \/ Gone /\ ended = NoSession /\ ~hopped
    /\ Wait(book)
    /\ UNCHANGED <<world, in, hopped, ended, been, lister, heard>>

MissFirst ==
    /\ phase = "reaching" /\ in = NoSession
    /\ book.cycle.current.host \notin up \/ Gone
    /\ Finish("failed")
    /\ UNCHANGED <<world, book, in, hopped, ended, lost, been, listing, lister, heard>>

Retry ==
    /\ phase = "waiting" /\ phase' = "top"
    /\ UNCHANGED <<world, book, in, hopped, ended, lost, result, been, listing, lister, heard>>

GiveUp ==
    /\ phase = "waiting" /\ Finish("disconnected")
    /\ UNCHANGED <<world, book, in, hopped, ended, lost, been, listing, lister, heard>>

(***************************************************************************)
(* While an attach lasts: the stream's names, and the popup's lister.      *)
(***************************************************************************)

\* The stream says what the session is called now.
Hear ==
    /\ phase = "attached" /\ at[in] # Nowhere /\ at[in].host \in up
    /\ at[in].name # IF heard = NoName THEN book.cycle.current.name ELSE heard
    /\ heard' = at[in].name
    /\ UNCHANGED <<world, book, loop, listing, lister>>

\* The lister's next answer, from a snapshot and the name the stream confirmed.
Answer(s) ==
    LET now == IF heard = NoName THEN lister.current ELSE [lister.current EXCEPT !.name = heard]
        member == IF lister.member # NoSession THEN lister.member ELSE Info(s, now)
    IN  [cached |-> IF heard = NoName THEN s
                    ELSE IF member # NoSession THEN RenamedMember(s, member, heard)
                    ELSE Renamed(s, lister.current, now),
         fresh |-> TRUE, member |-> member, current |-> now]

ListerAsks ==
    /\ phase = "attached" /\ listing = Quiet
    /\ listing' = Asked
    /\ UNCHANGED <<world, book, loop, lister, heard>>

ListerCollects ==
    /\ phase = "attached" /\ listing.is = "landed"
    /\ lister' = Answer(Following(listing.snapshot, lister.cached))
    /\ listing' = Quiet
    /\ UNCHANGED <<world, book, loop, heard>>

ListerRenames ==
    /\ phase = "attached" /\ heard # NoName /\ lister.current.name # heard
    /\ lister' = Answer(lister.cached)
    /\ UNCHANGED <<world, book, loop, listing, heard>>

(***************************************************************************)
(* How an attach ends.                                                     *)
(***************************************************************************)

\* The lister is stopped, and its survey with it; what it found is in Returned.
Return(b) ==
    /\ phase = "attached"
    /\ book' = b
    /\ lister' = NoLister /\ heard' = NoName

\* Round the loop again, as a rule with a new survey on its way.
Back(b, moved) ==
    /\ Return(b)
    /\ phase' = "top" /\ hopped' = moved /\ been' = ~moved
    /\ UNCHANGED <<in, ended, lost, result>>

Again(b, moved) == Back(b, moved) /\ listing' = Asked

Hop(b, next) == Again([b EXCEPT !.cycle = MovedTo(@, next)], TRUE)
Stay(b) == Again(b, FALSE)

Detach ==
    /\ Return(Returned) /\ Finish("detached") /\ listing' = Quiet
    /\ UNCHANGED <<world, in, hopped, ended, lost, been>>

Disconnect ==
    /\ phase = "attached" /\ Wait(Returned)
    /\ lister' = NoLister /\ heard' = NoName
    /\ UNCHANGED <<world, in, hopped, ended, been>>

\* The session has ended: back to the one it came from, if there is one.
SeeExit ==
    /\ phase = "attached" /\ at[in] = Nowhere /\ book.cycle.current.host \in up
    /\ LET b == [Returned EXCEPT !.snapshot = Forgotten(@, Returned.cycle.current)]
       IN  IF b.cycle.trail = <<>>
           THEN /\ Return(b) /\ Finish("exited") /\ listing' = Quiet
                /\ UNCHANGED <<in, hopped, ended, lost, been>>
           ELSE /\ Return([b EXCEPT !.cycle = FallBack(@)])
                /\ phase' = "top" /\ listing' = Asked
                /\ hopped' = FALSE /\ ended' = in /\ been' = TRUE
                /\ UNCHANGED <<in, lost, result>>
    /\ UNCHANGED world

\* A switch key.
Switch(motion) ==
    /\ phase = "attached"
    /\ LET next == Step(Returned.cycle, motion)
       IN  IF next = Nowhere THEN Stay(Returned) ELSE Hop(Returned, next)
    /\ UNCHANGED world

\* The rows of the popup that still accept a choice: the narrowing's, on a
\* machine that answered or on the one the run is on.
Available ==
    LET known == Known(lister.cached)
        focus == book.cycle.focus
        here == lister.current
        shown == {x \in DOMAIN known : focus \in {NoGroup, group[x]}}
    IN  {here} \cup {known[x] : x \in {y \in shown : \/ y \in DOMAIN lister.cached.sessions
                                                     \/ known[y].host = here.host}}

\* Whoever changes a session has to know it: from a fresh answer, or from being in it.
Subject(a) == a \in Available /\ (a = Returned.cycle.current \/ Info(Returned.snapshot, a) # NoSession)

\* Enter on a row, and Enter on one that is no longer offered, or that is refused.
Go(a) ==
    /\ phase = "attached" /\ a \in Available
    /\ IF a = Returned.cycle.current THEN Stay(Returned) ELSE Hop(Returned, a)
    /\ UNCHANGED world

Refused == phase = "attached" /\ Stay(Returned) /\ UNCHANGED world

\* A regrouping that fails works the rows out again, from the file if it was read.
Unregrouped ==
    /\ phase = "attached"
    /\ Stay([Returned EXCEPT !.cycle = Refresh(@, Entries(Returned.snapshot, group))])
    /\ UNCHANGED world

\* Enter on a group that is no longer listed: nothing is changed, or asked for.
Unlisted == phase = "attached" /\ Back(Returned, FALSE) /\ listing' = Quiet /\ UNCHANGED world

\* Narrowing, which moves the run only if it is not in the group already.
Narrow(g) ==
    /\ phase = "attached"
    /\ g = NoGroup \/ \E s \in DOMAIN lister.cached.sessions : group[s] = g
    /\ LET b == [Returned EXCEPT !.cycle.focus = g]
           next == Step(b.cycle, "next")
       IN  IF next # Nowhere /\ ~Holds(b.cycle, b.cycle.current) THEN Hop(b, next) ELSE Stay(b)
    /\ UNCHANGED world

\* A session started on a machine picked, or beside this one, and straight into it.
StartOn(h, s, a) ==
    /\ phase = "attached" /\ h \in up /\ s \notin born /\ a.host = h /\ Free(a)
    /\ at' = [at EXCEPT ![s] = a] /\ born' = born \cup {s}
    /\ Again([Returned EXCEPT !.cycle = Started(@, a)], TRUE)
    /\ UNCHANGED <<up, group, changes>>

\* A row put in a group, or taken out of one.
Regroup(a, g) ==
    /\ Change /\ phase = "attached" /\ Subject(a) /\ a.host \in up
    /\ \E s \in At(a) :
        LET now == [group EXCEPT ![s] = g]
        IN  /\ group' = now
            /\ Stay([Returned EXCEPT !.cycle = Refresh(@, Entries(Returned.snapshot, now))])
    /\ UNCHANGED <<at, born, up>>

\* A row renamed over a connection of its own.
RenameRow(a, now) ==
    /\ Change /\ phase = "attached" /\ Subject(a) /\ a.host \in up
    /\ now.host = a.host /\ Free(now)
    /\ \E s \in At(a) : at' = [at EXCEPT ![s] = now]
    /\ LET b == Returned
       IN  Stay([b EXCEPT !.cycle = RenamedAt(@, a, now), !.snapshot = Renamed(@, a, now),
                          !.known.at = IF @ = a THEN now ELSE @,
                          !.seeded = Reseeded(@, a, now)])
    /\ UNCHANGED <<born, up, group>>

(***************************************************************************)
(* The specification.  The loop, its timers and the survey go on by        *)
(* themselves; nothing is asked of the person, the machines or the others. *)
(***************************************************************************)
Elsewhere ==
    \/ \E s \in Session : End(s) \/ \E g \in Group \cup {NoGroup} : Regrouped(s, g)
    \/ \E s \in Session, a \in Address : Rename(s, a) \/ Start(s, a)
    \/ \E h \in Host : Network(h)

Attempt == \/ \E s \in Session : Attach(s)
           \/ MissBack \/ MissHop \/ Miss \/ MissFirst

Menu == \/ \E a \in Address : Go(a)
        \/ Refused \/ Unregrouped \/ Unlisted
        \/ \E g \in Group \cup {NoGroup} : Narrow(g)
        \/ \E h \in Host, s \in Session, a \in Address : StartOn(h, s, a)
        \/ \E a \in Address, g \in Group \cup {NoGroup} : Regroup(a, g)
        \/ \E a, now \in Address : RenameRow(a, now)

Leave == Detach \/ Disconnect \/ SeeExit \/ \E m \in Motions : Switch(m)

Next == \/ Elsewhere \/ Survey \/ Begin \/ Attempt \/ Retry \/ GiveUp
        \/ Hear \/ ListerAsks \/ ListerCollects \/ ListerRenames \/ Menu \/ Leave

Spec == Init /\ [][Next]_vars

Phases == {"top", "reaching", "attached", "waiting", "over"}

Moves(from) == phase = from /\ phase' \in Phases \ {from}

FairSpec == /\ Spec
            /\ WF_phase(Moves("top")) /\ WF_phase(Moves("reaching")) /\ WF_phase(Moves("waiting"))
            /\ WF_vars(Survey)

(***************************************************************************)
(* Properties.                                                             *)
(***************************************************************************)
Addresses == Address \cup {Nowhere}

\* Every variable has its type, and the flags say what they are read for: an
\* attach that has landed is no hop, carries no exit and has nothing lost.
TypeOK ==
    /\ at \in [Session -> Addresses] /\ up \subseteq Host /\ group \in Grouping
    /\ born \subseteq Session /\ \A s \in Session \ born : at[s] = Nowhere
    /\ changes \in 0 .. MaxChanges
    /\ book.cycle.current \in Address /\ book.cycle.trail \in Seq(Address)
    /\ book.cycle.focus \in Group \cup {NoGroup}
    /\ book.history \in BOOLEAN /\ book.known.session \in Session \cup {NoSession} /\ book.seeded \subseteq Address
    /\ phase \in Phases
    /\ in \in born \cup {NoSession} /\ ended \in born \cup {NoSession}
    /\ hopped \in BOOLEAN /\ lost \in BOOLEAN /\ been \in BOOLEAN
    /\ heard \in Name \cup {NoName}
    /\ result \in {"none", "detached", "exited", "disconnected", "failed"}
    /\ phase = "over" <=> result # "none"
    /\ phase = "attached" => in # NoSession /\ ~hopped /\ ended = NoSession /\ ~lost

\* A run that has been attached once is never ended by a machine or a session
\* it cannot find: it waits, falls back, or ends with the exit of the session it
\* was in last, and never with one from before.
EndsAsAsked ==
    /\ result = "failed" => in = NoSession
    /\ result = "exited" => in # NoSession /\ at[in] = Nowhere
    /\ ended # NoSession => ended = in

\* A connection that went is waited for where it was: until the run is attached
\* again it goes to no other session, and only follows this one to a new name.
WaitsForItsSession ==
    [][LET was == book.cycle.current
           now == book'.cycle.current
       IN  been /\ been' /\ lost /\ was # now =>
             \E s \in DOMAIN book'.snapshot.sessions :
                /\ book.known = [at |-> was, session |-> s] \/ Info(book.snapshot, was) = s
                /\ book'.snapshot.sessions[s] = now]_vars

\* Where an attach has landed, the narrowing and the session the run is in agree.
\* This is not said of a run whose listing has nothing left: the code takes an
\* empty one for one that has never landed (attaching.rs:233) and leaves the cycle
\* alone, but an exit empties it too, and the cycle may then still have a session
\* under a name it had before, which another bears by now.
NarrowedToWhereItIs ==
    phase = "attached" /\ book.cycle.focus # NoGroup /\ book.snapshot.sessions # <<>> =>
        LET c == book.cycle
            here == Place(c.sessions, c.current)
        IN  here # 0 => c.sessions[here].group = c.focus

\* There is no waiting for ever for a session known to the run that runs on a
\* machine that answers, whatever it is called by now: the run is attached again.
\* That what it is attached to is that session is WaitsForItsSession's.
Reachable ==
    LET s == book.known.session
    IN  s # NoSession /\ at[s] # Nowhere /\ at[s].host \in up

GetsBack == []<>(phase \in {"attached", "over"} \/ ~Reachable)

\* A session counts as one whose history is in the scrollback when it has been
\* put there: an attempt that was to bring it, and failed, has put nothing.
SeededIsShown ==
    [][phase = "reaching" /\ book.history /\ phase' = "waiting"
        => book'.cycle.current \notin book'.seeded]_vars

\* The state of a run holds together: its types, and a run narrowed to a group
\* or a machine is at a session that is in it.
HoldsTogether == TypeOK /\ NarrowedToWhereItIs
=============================================================================
