-------------------------------- MODULE Rows --------------------------------
(***************************************************************************)
(* The list of sessions an attached client chooses from (client/listed.rs, *)
(* client/picker.rs, and the lister task of attaching.rs).  The picture on *)
(* the screen, the rows in the channel behind it and the answer the run    *)
(* will look the choice up in are three ages of one list, and a row is     *)
(* known between them by an id: a place in a list of addresses that only   *)
(* grows.                                                                  *)
(*                                                                         *)
(* Sessions are numbered in the order they were started, which is the      *)
(* order of a listing.  A rename is followed when two answers name one     *)
(* session differently.                                                    *)
(***************************************************************************)
EXTENDS Integers, Sequences, SequencesExt, FiniteSets

CONSTANTS Most,     \* sessions there can be, the first is the one attached to
          Names     \* what they can be called

RowsAssumption == Most \in Nat \ {0} /\ "none" \notin Names

Sessions == 1..Most
Current  == 1              \* the session the run is in, and its row's id
NoName   == "none"

VARIABLES name,      \* of each session running
          born,      \* how many have started
          pending,   \* an answer on its way to the lister, or nothing
          cached,    \* the lister's last known sessions
          at,        \* the address each id issued means
          rows,      \* the rows in the channel
          shown,     \* the rows on the screen
          highlight, \* the id of the highlighted one, or 0
          taken,     \* names set free, which nobody is given again
          confirmed  \* the name the attach stream gave the run's own session

vars == <<name, born, pending, cached, at, rows, shown, highlight, taken,
          confirmed>>

Nothing == <<>>

\* What a sequence has at some of its places: the n-th of them has n - 1 before it.
Only(seq, places) ==
    LET place(n) == CHOOSE i \in places : Cardinality({j \in places : j < i}) = n - 1
    IN  [n \in 1 .. Cardinality(places) |-> seq[place(n)]]

\* A snapshot: one [who, called] for each session, oldest first.
Listing(called) ==
    Only([s \in Sessions |-> [who |-> s, called |-> called[s]]],
         {s \in Sessions : called[s] # NoName})

Calls(snap, s) == {snap[i].called : i \in {j \in DOMAIN snap : snap[j].who = s}}

(***************************************************************************)
(* Listed: the rows of a snapshot, and the ids they keep.                  *)
(***************************************************************************)
\* A row for each session known, and one for the session the run is in.
Listed(snap, here) ==
    LET named == [i \in DOMAIN snap |-> snap[i].called]
    IN IF here \in ToSet(named) THEN named ELSE Append(named, here)

\* Mutant: every listing numbers its rows anew.
following_nothing(addresses, previous) ==
    FoldLeft(LAMBDA kept, a : IF Contains(kept, a) THEN kept ELSE Append(kept, a),
             <<previous[1]>>, addresses)

\* An address wears the id it has always worn, or a new one.
following(addresses, previous) ==
    FoldLeft(LAMBDA kept, a : IF Contains(kept, a) THEN kept ELSE Append(kept, a),
             previous, addresses)

idOf(ids, a) == CHOOSE i \in DOMAIN ids : ids[i] = a /\ \A j \in 1..(i - 1) : ids[j] # a

\* What is drawn: the id and the name of each row, and whose it is.
Drawn(addresses, ids, snap) ==
    [i \in DOMAIN addresses |->
        [id |-> idOf(ids, addresses[i]), label |-> addresses[i],
         who |-> IF \E j \in DOMAIN snap : snap[j].called = addresses[i]
                 THEN (CHOOSE e \in ToSet(snap) : e.called = addresses[i]).who
                 ELSE Current]]

\* renames_since and Listed::renamed: each change in turn, in every id.
renames(snap, before) ==
    LET now(i) == Calls(snap, before[i].who)
        moved == {i \in DOMAIN before : now(i) \notin {{}, {before[i].called}}}
    IN Only([i \in DOMAIN before |-> [was |-> before[i].called,
                                      now |-> CHOOSE n \in now(i) : TRUE]], moved)

renamed(ids, changes) ==
    FoldLeft(LAMBDA held, c : [i \in DOMAIN held |->
                 IF held[i] = c.was THEN c.now ELSE held[i]],
             ids, changes)

\* renamed_member: what the stream said stands over what a listing says.
Corrected(snap, called) ==
    [i \in DOMAIN snap |->
        IF snap[i].who = Current THEN [snap[i] EXCEPT !.called = called]
                                 ELSE snap[i]]

(***************************************************************************)
(* The sessions, and the rest of the world renaming them.                  *)
(***************************************************************************)
Used == {name[s] : s \in Sessions} \union taken

Init ==
    /\ \E n \in Names : /\ name = [s \in Sessions |-> IF s = 1 THEN n ELSE NoName]
                        /\ at = <<n>>
    /\ born = 1
    /\ pending = Nothing
    /\ cached = Listing(name)
    /\ rows = Drawn(at, at, cached) /\ shown = rows
    /\ highlight = 1
    /\ taken = {}
    /\ confirmed = NoName

Start(n) ==
    /\ born < Most /\ n \in Names \ Used
    /\ born' = born + 1
    /\ name' = [name EXCEPT ![born + 1] = n]
    /\ UNCHANGED <<pending, cached, at, rows, shown, highlight, taken, confirmed>>

End(s) ==
    /\ s # Current /\ name[s] # NoName
    /\ name' = [name EXCEPT ![s] = NoName]
    /\ taken' = taken \union {name[s]}
    /\ UNCHANGED <<born, pending, cached, at, rows, shown, highlight, confirmed>>

Rename(s, n) ==
    /\ name[s] # NoName /\ n \in Names \ Used
    /\ name' = [name EXCEPT ![s] = n]
    /\ taken' = taken \union {name[s]}
    /\ UNCHANGED <<born, pending, cached, at, rows, shown, highlight, confirmed>>

(***************************************************************************)
(* The lister.                                                             *)
(***************************************************************************)
\* The machine answers, or does not: then its last known sessions will stand.
Answer(reached) ==
    /\ pending = Nothing
    /\ pending' = <<[reached |-> reached, found |-> Listing(name)]>>
    /\ UNCHANGED <<name, born, cached, at, rows, shown, highlight, taken, confirmed>>

\* The ids follow the renames the two answers show, but for the run's own
\* session: the attach stream owns that name, and puts it right in every answer.
Publish(snap) ==
    LET all     == renames(snap, cached)
        changes == Only(all, {i \in DOMAIN all : all[i].was # at[1]})
        here    == IF confirmed' = NoName THEN at[1] ELSE confirmed'
        told    == IF confirmed' = NoName THEN snap ELSE Corrected(snap, here)
        held    == renamed(renamed(at, changes), <<[was |-> at[1], now |-> here]>>)
    IN /\ at' = following(Listed(told, here), held)
       /\ rows' = Drawn(Listed(told, here), at', told)
       /\ cached' = told

\* A listing landed.
Land ==
    /\ pending # Nothing
    /\ UNCHANGED confirmed
    /\ Publish(IF pending[1].reached THEN pending[1].found ELSE cached)
    /\ pending' = Nothing
    /\ UNCHANGED <<name, born, shown, highlight, taken>>

\* The attach stream says what the session the run is in is called now.
RenamedHere ==
    /\ confirmed' = name[Current]
    /\ confirmed' # at[1]
    /\ Publish(cached)
    /\ UNCHANGED <<name, born, pending, shown, highlight, taken>>

(***************************************************************************)
(* The picker.                                                             *)
(***************************************************************************)
idsIn(list) == {list[i].id : i \in DOMAIN list}

\* Mutant: the highlight stays, whether its row is there or not.
ShowKeeping ==
    /\ shown # rows
    /\ shown' = rows /\ highlight' = highlight
    /\ UNCHANGED <<name, born, pending, cached, at, rows, taken, confirmed>>

\* replace: the highlight keeps its row by id, or goes to the run's own.
Show ==
    /\ shown # rows
    /\ shown' = rows
    /\ highlight' = IF highlight \in idsIn(rows) THEN highlight
                    ELSE IF 1 \in idsIn(rows) THEN 1 ELSE rows[1].id
    /\ UNCHANGED <<name, born, pending, cached, at, rows, taken, confirmed>>

\* A step of the highlight, around the ends of the list.
Step(down) ==
    /\ Len(shown) > 1
    /\ LET i == CHOOSE j \in DOMAIN shown : shown[j].id = highlight
           n == Len(shown)
       IN highlight' = shown[IF down THEN 1 + (i % n)
                             ELSE 1 + ((i + n - 2) % n)].id
    /\ UNCHANGED <<name, born, pending, cached, at, rows, shown, taken, confirmed>>

Next ==
    \/ \E n \in Names : Start(n)
    \/ \E s \in Sessions : End(s) \/ \E n \in Names : Rename(s, n)
    \/ \E b \in BOOLEAN : Answer(b) \/ Step(b)
    \/ Land \/ RenamedHere \/ Show

Spec == Init /\ [][Next]_vars

(***************************************************************************)
(* Properties.                                                             *)
(***************************************************************************)
TypeOK ==
    /\ born \in Sessions
    /\ name \in [Sessions -> Names \union {NoName}]
    /\ \A i \in DOMAIN at : at[i] \in Names
    /\ highlight \in idsIn(shown)

\* Enter goes to the session whose row it was pressed on.  The row may be from
\* a picture that later answers have overtaken: its id means what that session
\* is called in the last answer, as long as it is in it, and never what
\* another one is.  (Of the run's own session only the second holds: a listing
\* can overtake the attach stream, and give it a row under a name that two
\* renames later is nobody's.)
EnterGoesWhereItPoints ==
    \A i \in DOMAIN shown : shown[i].id \in DOMAIN at /\
        LET chosen == at[shown[i].id]
            whose  == Calls(cached, shown[i].who)
        IN /\ shown[i].who = Current \/ whose = {} \/ chosen \in whose
           /\ \A j \in DOMAIN cached :
                 cached[j].called = chosen => cached[j].who = shown[i].who
=============================================================================
