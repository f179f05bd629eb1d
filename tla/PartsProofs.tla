----------------------------- MODULE PartsProofs -----------------------------
(***************************************************************************)
(* What holds of the parts that tell a person what they missed and what    *)
(* they may choose, for any values of their constants: the bells, the      *)
(* saves and restarts, and the lists.  A section for each part: its        *)
(* variables under the names they have in its module, its inductive        *)
(* invariant, and at the end the same of a behaviour of Parts.             *)
(***************************************************************************)
EXTENDS Parts, FiniteSetTheorems, TLAPS

(***************************************************************************)
(* What holds of Bells for any sessions, clients and names.                *)
(*                                                                         *)
(* Who sat where a bell is heard when it rang is still in a place to hear  *)
(* it and to tell of it (Sitting), in another session than the one it is   *)
(* of, whose name the stamp does not bear; so what it takes from its queue *)
(* it tells of.  The desk tells of a bell whose stamp says nobody was on   *)
(* the machine (ByItsStamp), and a terminal that rings for the same one    *)
(* came to hear the bus after it was stamped (CameLate): nobody was there  *)
(* to hear it before.                                                      *)
(***************************************************************************)
called == v1
client == v2
link == v3
wanted == v4
queue == v5
cooling == v6
bell == v7

USE DEF called, client, link, wanted, queue, cooling, bell

AName == CHOOSE n \in BellsNames : TRUE
Anywhere == BellsSessions \union {B!Away.in}
Stages == {"none", "begun", "named", "counted", "sent"}
Stamped == {"named", "counted", "sent"}

Events == [stage: Stages, of: Anywhere, kind: {"bell", "title"}, attached: Nat,
           name: BellsNames \union {AName}, host_attached: Nat, sat: SUBSET B!Receivers,
           told: SUBSET B!Receivers, held: SUBSET B!Receivers, late: BOOLEAN, renamed: BOOLEAN]

Comers == [is: {"away", "counts", "joined", "hears"}, in: Anywhere, viewer: BOOLEAN, alive: BOOLEAN]

\* What a receiver has yet to take.
Line(r) == {queue[r][i] : i \in DOMAIN queue[r]}

Shapes ==
    /\ called \in [BellsSessions -> BellsNames] /\ \A s, t \in BellsSessions : called[s] = called[t] => s = t
    /\ client \in [BellsClients -> Comers] /\ IsFiniteSet(B!Counted)
    /\ \A c \in BellsClients : client[c].is # "away" => client[c].in \in BellsSessions
    /\ queue \in [B!Receivers -> Seq(B!Numbers)]
    /\ cooling \in [B!Receivers -> SUBSET (BellsNames \union {AName})]
    /\ bell \in [B!Numbers -> Events]
    /\ \A b \in B!Numbers : bell[b].stage # "none" => bell[b].of \in BellsSessions

\* Who hears what comes, and wants to be told.
InPlace(r) ==
    /\ wanted[r]
    /\ IF r = B!Desk THEN link = "up"
       ELSE r \in Terminals /\ client[r].is = "hears" /\ client[r].alive

Sitting ==
    \A b \in B!Numbers : \A r \in bell[b].sat :
        /\ InPlace(r)
        /\ r = B!Desk => /\ B!Underway(b) => B!Counted = {}
                         /\ bell[b].stage \in {"counted", "sent"} => bell[b].host_attached = 0
        /\ r # B!Desk => /\ client[r].in # bell[b].of
                         /\ bell[b].stage \in Stamped => bell[b].name # called[client[r].in]

StampIsItsName ==
    \A b \in B!Numbers : bell[b].stage \in Stamped /\ ~bell[b].renamed =>
        bell[b].name = called[bell[b].of]

ByItsStamp ==
    \A b \in B!Numbers : /\ bell[b].stage # "sent" => bell[b].told = {}
                         /\ B!Desk \in bell[b].told => bell[b].host_attached = 0

SentFirst == \A r \in B!Receivers : \A b \in Line(r) : bell[b].stage = "sent"

CameLate ==
    \A b \in B!Numbers :
        /\ bell[b].stage \in {"counted", "sent"} /\ bell[b].host_attached = 0 /\ ~bell[b].late
        => \A c \in BellsClients : /\ c \notin bell[b].told
                                   /\ bell[b].stage = "counted" => client[c].is # "hears"
                                   /\ bell[b].stage = "sent" => b \notin Line(c)

Answered == \A b \in B!Numbers :
    /\ bell[b].stage = "sent" /\ bell[b].kind = "bell" /\ bell[b].attached = 0
    => \A r \in bell[b].sat : r \in bell[b].told \union bell[b].held \/ b \in Line(r)

BInv == /\ Shapes /\ Sitting /\ StampIsItsName /\ ByItsStamp /\ SentFirst
        /\ CameLate /\ Answered

(***************************************************************************)
(* Lemmas.                                                                 *)
(***************************************************************************)
LEMMA DeskIsNoClient ==
    ASSUME B!BellsAssumption
    PROVE  B!Desk \notin BellsClients /\ B!Desk \in B!Receivers /\ BellsClients \subseteq B!Receivers
BY DEF B!BellsAssumption, B!Desk, B!Receivers

\* What is pushed comes last, and only the oldest goes for it.
LEMMA PushedComesLast ==
    ASSUME B!BellsAssumption, NEW r \in B!Receivers, NEW b \in B!Numbers, queue[r] \in Seq(B!Numbers)
    PROVE  LET q == B!Pushed(r, b)
               line == {q[i] : i \in DOMAIN q}
           IN /\ q \in Seq(B!Numbers)
              /\ line \subseteq Line(r) \union {b}
              /\ B!Hears(r) => b \in line
              /\ ~B!Hears(r) => line = Line(r)
              /\ \A n \in Line(r) : n \in line \/ r \in B!Lagging(n)
<1> PICK q : q = B!Pushed(r, b)
  OBVIOUS
<1> DEFINE line == {q[i] : i \in DOMAIN q}
<1> SUFFICES /\ q \in Seq(B!Numbers)
             /\ line \subseteq Line(r) \union {b}
             /\ B!Hears(r) => b \in line
             /\ ~B!Hears(r) => line = Line(r)
             /\ \A n \in Line(r) : n \in line \/ r \in B!Lagging(n)
  OBVIOUS
<1>1. BellsBACKLOG \in Nat /\ BellsBACKLOG >= 1
  BY DEF B!BellsAssumption
<1>2. CASE ~B!Hears(r)
  BY <1>2 DEF B!Pushed, Line
<1>3. CASE B!Hears(r) /\ Len(queue[r]) # BellsBACKLOG
  <2>1. q = Append(queue[r], b)
    BY <1>3 DEF B!Pushed
  <2>2. PICK len \in Nat : len = Len(queue[r]) /\ DOMAIN queue[r] = 1..len
    OBVIOUS
  <2>3. /\ q \in Seq(B!Numbers) /\ DOMAIN q = 1..len + 1 /\ q[len + 1] = b
        /\ \A i \in 1..len : q[i] = queue[r][i]
    BY <2>1, <2>2
  <2> QED
    BY <1>3, <2>2, <2>3 DEF Line
<1>4. CASE B!Hears(r) /\ Len(queue[r]) = BellsBACKLOG
  <2>1. q = Append(Tail(queue[r]), b)
    BY <1>4 DEF B!Pushed
  <2>2. PICK len \in Nat : len = Len(queue[r]) /\ DOMAIN queue[r] = 1..len /\ len >= 1
    BY <1>1, <1>4
  <2>3. /\ Tail(queue[r]) \in Seq(B!Numbers) /\ Len(Tail(queue[r])) = len - 1
        /\ \A i \in 1..len - 1 : Tail(queue[r])[i] = queue[r][i + 1]
    BY <2>2
  <2>4. /\ q \in Seq(B!Numbers) /\ DOMAIN q = 1..len /\ q[len] = b
        /\ \A i \in 1..len - 1 : q[i] = queue[r][i + 1]
    BY <2>1, <2>2, <2>3
  <2>5. ASSUME NEW j \in 1..len, ~\E i \in DOMAIN q : q[i] = queue[r][j]
        PROVE  r \in B!Lagging(queue[r][j])
    <3>1. j = 1
      <4> SUFFICES ASSUME j # 1 PROVE FALSE
        OBVIOUS
      <4>1. j - 1 \in 1..len - 1 /\ j - 1 \in 1..len
        BY <2>2
      <4>2. q[j - 1] = queue[r][(j - 1) + 1] /\ (j - 1) + 1 = j
        BY <2>4, <4>1
      <4> QED
        BY <2>4, <2>5, <4>1, <4>2
    <3>2. Head(queue[r]) = queue[r][1]
      BY <2>2
    <3> QED
      BY <1>4, <3>1, <3>2 DEF B!Lagging
  <2>6. \A i \in DOMAIN q : q[i] = b \/ \E j \in DOMAIN queue[r] : q[i] = queue[r][j]
    <3> TAKE i \in DOMAIN q
    <3>1. CASE i = len
      BY <2>4, <3>1
    <3>2. CASE i # len
      <4>1. i \in 1..len - 1 /\ i + 1 \in 1..len
        BY <2>2, <2>4, <3>2
      <4> QED
        BY <2>2, <2>4, <4>1
    <3> QED
      BY <3>1, <3>2
  <2>7. len \in DOMAIN q
    BY <2>2, <2>4
  <2>8. line \subseteq Line(r) \union {b}
    BY <2>6 DEF Line
  <2>9. b \in line
    BY <2>4, <2>7
  <2>10. \A n \in Line(r) : n \in line \/ r \in B!Lagging(n)
    <3> TAKE n \in Line(r)
    <3>1. PICK j \in 1..len : n = queue[r][j]
      BY <2>2 DEF Line
    <3> QED
      BY <2>5, <3>1
  <2> QED
    BY <1>4, <2>4, <2>8, <2>9, <2>10
<1> QED
  BY <1>2, <1>3, <1>4

\* A receiver takes the oldest, and the rest waits.
LEMMA TakesTheOldest ==
    ASSUME queue \in [B!Receivers -> Seq(B!Numbers)], NEW r \in B!Receivers, B!Takes(r)
    PROVE  /\ queue' \in [B!Receivers -> Seq(B!Numbers)]
           /\ Head(queue[r]) \in B!Numbers /\ Head(queue[r]) \in Line(r)
           /\ \A s \in B!Receivers : Line(s)' \subseteq Line(s)
           /\ \A s \in B!Receivers : \A n \in Line(s) :
                  n \in Line(s)' \/ (s = r /\ n = Head(queue[r]))
<1>1. PICK len \in Nat : len = Len(queue[r]) /\ DOMAIN queue[r] = 1..len /\ len >= 1
  BY DEF B!Takes
<1>2. Head(queue[r]) = queue[r][1] /\ 1 \in 1..len
  BY <1>1
<1>3. /\ Tail(queue[r]) \in Seq(B!Numbers) /\ DOMAIN Tail(queue[r]) = 1..len - 1
      /\ \A i \in 1..len - 1 : Tail(queue[r])[i] = queue[r][i + 1]
  BY <1>1
<1>4. /\ queue' \in [B!Receivers -> Seq(B!Numbers)]
      /\ queue'[r] = Tail(queue[r])
      /\ \A s \in B!Receivers : s # r => queue'[s] = queue[s]
  BY <1>3 DEF B!Takes
<1>5. Line(r)' \subseteq Line(r)
  <2>1. \A i \in 1..len - 1 : i + 1 \in 1..len
    BY <1>1
  <2> QED
    BY <1>1, <1>3, <1>4, <2>1 DEF Line
<1>6. \A n \in Line(r) : n \in Line(r)' \/ n = Head(queue[r])
  <2>1. ASSUME NEW j \in 1..len, j # 1 PROVE queue[r][j] \in Line(r)'
    <3>1. j - 1 \in 1..len - 1 /\ queue[r][(j - 1) + 1] = queue[r][j]
      BY <1>1, <2>1
    <3> QED
      BY <1>3, <1>4, <3>1 DEF Line
  <2> QED
    BY <1>1, <1>2, <2>1 DEF Line
<1>7. Head(queue[r]) \in B!Numbers /\ Head(queue[r]) \in Line(r)
  BY <1>1, <1>2 DEF Line
<1>8. \A s \in B!Receivers : s # r => Line(s)' = Line(s)
  BY <1>4 DEF Line
<1> QED
  BY <1>4, <1>5, <1>6, <1>7, <1>8

LEMMA NoneIsAnEvent == B!None \in Events /\ B!None.sat = {} /\ B!None.told = {} /\ B!None.stage = "none"
                       /\ B!None.held = {} /\ ~B!None.late /\ ~B!None.renamed
BY DEF B!None, Events, Stages, Anywhere, AName

LEMMA AwayIsNobody == B!Away \in Comers /\ B!Away.is = "away" /\ B!Away.alive
BY DEF B!Away, Comers, Anywhere

LEMMA BInitially == ASSUME B!BellsAssumption PROVE B!Init => BInv
<1> SUFFICES ASSUME B!Init PROVE BInv
  OBVIOUS
<1>1. <<>> \in Seq(B!Numbers) /\ DOMAIN <<>> = {}
  OBVIOUS
<1>2. \A b \in B!Numbers : bell[b] = B!None
  BY DEF B!Init
<1>3. B!Counted = {} /\ IsFiniteSet(B!Counted)
  BY AwayIsNobody, FS_EmptySet DEF B!Init, B!Counted
<1>4. \A r \in B!Receivers : Line(r) = {}
  BY <1>1 DEF B!Init, Line
<1>5. client \in [BellsClients -> Comers] /\ \A c \in BellsClients : client[c].is = "away"
  BY AwayIsNobody DEF B!Init
<1>6. Shapes
  BY <1>1, <1>2, <1>3, <1>5, NoneIsAnEvent DEF B!Init, Shapes, B!BellsAssumption
<1>7. Sitting /\ StampIsItsName /\ ByItsStamp /\ Answered
  BY <1>2, NoneIsAnEvent DEF Sitting, StampIsItsName, ByItsStamp, Answered, Stamped
<1>8. SentFirst /\ CameLate
  BY <1>2, <1>4, NoneIsAnEvent DEF SentFirst, CameLate
<1> QED
  BY <1>6, <1>7, <1>8 DEF BInv

(***************************************************************************)
(* Who comes and goes.                                                     *)
(***************************************************************************)
\* An event that is the same but for who sat where it is heard, of whom some are
\* no longer counted, and for what it is known to have missed.
Thinned(n) ==
    /\ bell'[n].stage = bell[n].stage /\ bell'[n].of = bell[n].of
    /\ bell'[n].kind = bell[n].kind /\ bell'[n].attached = bell[n].attached
    /\ bell'[n].name = bell[n].name /\ bell'[n].host_attached = bell[n].host_attached
    /\ bell'[n].told = bell[n].told /\ bell'[n].held = bell[n].held
    /\ bell'[n].sat \subseteq bell[n].sat
    /\ bell[n].late => bell'[n].late
    /\ bell[n].renamed => bell'[n].renamed

LEMMA ThinnedStep ==
    ASSUME BInv, Shapes', StampIsItsName', \A n \in B!Numbers : Thinned(n),
           \A r \in B!Receivers : Line(r)' \subseteq Line(r),
           \A n \in B!Numbers : \A r \in bell'[n].sat :
               /\ InPlace(r)' /\ Line(r) \subseteq Line(r)'
               /\ r = B!Desk /\ B!Underway(n) => B!Counted' = {}
               /\ r # B!Desk => /\ client'[r].in = client[r].in
                                /\ called'[client[r].in] = called[client[r].in],
           \A c \in BellsClients : client'[c].is = "hears" =>
               \/ client[c].is = "hears"
               \/ \A n \in B!Numbers : B!Underway(n) => bell'[n].late,
           BellsClients \subseteq B!Receivers
    PROVE  BInv'
<1> USE DEF BInv
<1>1. Sitting'
  BY DEF Sitting, Thinned, B!Underway
<1>2. ByItsStamp'
  BY DEF ByItsStamp, Thinned
<1>3. SentFirst'
  <2>1. \A r \in B!Receivers : \A n \in Line(r) : n \in B!Numbers
    BY DEF Shapes, Line
  <2> QED
    BY <2>1 DEF SentFirst, Thinned
<1>4. CameLate'
  BY DEF CameLate, Thinned, B!Underway
<1>5. Answered'
  <2>1. \A n \in B!Numbers : \A r \in bell'[n].sat : r \in bell[n].sat
    BY DEF Thinned
  <2> QED
    BY <2>1 DEF Answered, Thinned
<1> QED
  BY <1>1, <1>2, <1>3, <1>4, <1>5

\* Of an event, only who sat there changes.
LEMMA UnsatThins ==
    ASSUME Shapes, NEW who, bell' = B!Unsat(who)
    PROVE  /\ bell' \in [B!Numbers -> Events]
           /\ \A n \in B!Numbers : /\ Thinned(n) /\ bell'[n].sat = bell[n].sat \ who
                                   /\ bell'[n].renamed = bell[n].renamed
<1> SUFFICES ASSUME NEW n \in B!Numbers
             PROVE  /\ bell'[n] \in Events /\ Thinned(n) /\ bell'[n].sat = bell[n].sat \ who
                    /\ bell'[n].renamed = bell[n].renamed
  BY DEF B!Unsat
<1>1. bell[n] \in Events
  BY DEF Shapes
<1>2. bell'[n] = [bell[n] EXCEPT !.sat = @ \ who]
  BY DEF B!Unsat
<1> QED
  BY <1>1, <1>2 DEF Events, Thinned

\* The same, of those that are underway.
LEMMA UnderwayThins ==
    ASSUME Shapes, NEW who,
           bell' = [b \in B!Numbers |-> IF B!Underway(b) THEN B!Unsat(who)[b] ELSE bell[b]]
    PROVE  /\ bell' \in [B!Numbers -> Events]
           /\ \A n \in B!Numbers : /\ Thinned(n)
                                   /\ B!Underway(n) => bell'[n].sat = bell[n].sat \ who
                                   /\ bell'[n].renamed = bell[n].renamed
<1> SUFFICES ASSUME NEW n \in B!Numbers
             PROVE  /\ bell'[n] \in Events /\ Thinned(n)
                    /\ B!Underway(n) => bell'[n].sat = bell[n].sat \ who
                    /\ bell'[n].renamed = bell[n].renamed
  OBVIOUS
<1>1. bell[n] \in Events
  BY DEF Shapes
<1>2. bell'[n] = IF B!Underway(n) THEN [bell[n] EXCEPT !.sat = @ \ who] ELSE bell[n]
  BY DEF B!Unsat
<1>3. CASE B!Underway(n)
  BY <1>1, <1>2, <1>3 DEF Events, Thinned
<1>4. CASE ~B!Underway(n)
  BY <1>1, <1>2, <1>4 DEF Thinned
<1> QED
  BY <1>3, <1>4

\* Nobody who is not in a place to hear sits there.
LEMMA SitsInPlace ==
    ASSUME BInv, NEW n \in B!Numbers, NEW r \in bell[n].sat
    PROVE  /\ r \in B!Receivers /\ InPlace(r)
           /\ r # B!Desk => r \in BellsClients /\ client[r].is = "hears" /\ client[r].in \in BellsSessions
<1>1. r \in B!Receivers
  BY DEF BInv, Shapes, Events
<1>2. InPlace(r)
  BY DEF BInv, Sitting
<1> QED
  BY <1>1, <1>2 DEF BInv, Shapes, InPlace, B!Receivers

LEMMA StampsStand ==
    ASSUME BInv, called' = called,
           \A n \in B!Numbers : Thinned(n) /\ bell'[n].renamed = bell[n].renamed
    PROVE  StampIsItsName'
BY DEF BInv, StampIsItsName, Thinned

\* A client moves on, and is not where it hears before or is not any more.
LEMMA ClientStep ==
    ASSUME B!BellsAssumption, BInv, NEW c \in BellsClients,
           \/ \E s \in BellsSessions, viewer \in BOOLEAN : B!attach(c, s, viewer)
           \/ B!Joins(c) \/ B!Subscribes(c)
    PROVE  BInv'
<1> USE DEF BInv
<1>1. B!Desk \notin BellsClients /\ B!Desk \in B!Receivers /\ BellsClients \subseteq B!Receivers
  BY DeskIsNoClient
<1>2. /\ UNCHANGED <<called, link, wanted, queue, cooling>>
      /\ client[c].is # "hears" /\ client'[c] \in Comers /\ client'[c].in \in BellsSessions
      /\ client' = [client EXCEPT ![c] = client'[c]]
      /\ client'[c].is # "away" /\ (client'[c].is = "hears" => B!Subscribes(c))
  <2>1. client[c] \in Comers /\ DOMAIN client = BellsClients
    BY DEF Shapes
  <2>2. CASE \E s \in BellsSessions, viewer \in BOOLEAN : B!attach(c, s, viewer)
    BY <2>1, <2>2 DEF B!attach, Comers, Anywhere
  <2>3. CASE B!Joins(c)
    <3>1. client'[c] = [client[c] EXCEPT !.is = "joined"]
      BY <2>1, <2>3 DEF B!Joins
    <3> QED
      BY <2>1, <2>3, <3>1 DEF B!Joins, Comers, Shapes
  <2>4. CASE B!Subscribes(c)
    <3>1. client'[c] = [client[c] EXCEPT !.is = "hears"]
      BY <2>1, <2>4 DEF B!Subscribes
    <3> QED
      BY <2>1, <2>4, <3>1 DEF B!Subscribes, Comers, Shapes
  <2> QED
    BY <2>2, <2>3, <2>4
<1>3. \A d \in BellsClients : d # c => client'[d] = client[d]
  BY <1>2 DEF Shapes
<1>4. /\ bell' \in [B!Numbers -> Events]
      /\ \A n \in B!Numbers : Thinned(n) /\ bell'[n].renamed = bell[n].renamed
  <2>1. CASE \E s \in BellsSessions, viewer \in BOOLEAN : B!attach(c, s, viewer)
    <3>1. bell' = [b \in B!Numbers |-> IF B!Underway(b) THEN B!Unsat({B!Desk})[b] ELSE bell[b]]
      BY <2>1 DEF B!attach
    <3> QED
      BY <3>1, UnderwayThins
  <2>2. CASE B!Joins(c)
    BY <2>2 DEF B!Joins, Thinned, Shapes
  <2>3. CASE B!Subscribes(c)
    <3> SUFFICES ASSUME NEW n \in B!Numbers
                 PROVE  /\ bell'[n] \in Events /\ Thinned(n)
                        /\ bell'[n].renamed = bell[n].renamed
      BY <2>3 DEF B!Subscribes
    <3>1. bell[n] \in Events
      BY DEF Shapes
    <3>2. bell'[n] = IF B!Underway(n) THEN [bell[n] EXCEPT !.late = TRUE] ELSE bell[n]
      BY <2>3 DEF B!Subscribes
    <3>3. [bell[n] EXCEPT !.late = TRUE] \in Events
      BY <3>1 DEF Events
    <3>4. bell'[n] \in Events
      BY <3>1, <3>2, <3>3
    <3>5. CASE B!Underway(n)
      <4>1. bell'[n] = [bell[n] EXCEPT !.late = TRUE]
        BY <3>2, <3>5
      <4> QED
        BY <3>1, <3>4, <4>1, SMTT(30) DEF Events, Thinned
    <3>6. CASE ~B!Underway(n)
      BY <3>2, <3>4, <3>6 DEF Thinned
    <3> QED
      BY <3>5, <3>6
  <2> QED
    BY <2>1, <2>2, <2>3
<1>5. B!Counted' = B!Counted \union {c}
  <2>1. \A d \in BellsClients : d \in B!Counted' <=> d \in B!Counted \/ d = c
    BY <1>2, <1>3 DEF B!Counted
  <2>2. B!Counted \subseteq BellsClients /\ B!Counted' \subseteq BellsClients
    BY DEF B!Counted
  <2> QED
    BY <2>1, <2>2
<1>6. Shapes'
  <2>1. IsFiniteSet(B!Counted')
    BY <1>5, FS_AddElement DEF Shapes
  <2>2. client' \in [BellsClients -> Comers]
    BY <1>2 DEF Shapes
  <2>3. \A n \in B!Numbers : bell'[n].stage # "none" => bell'[n].of \in BellsSessions
    BY <1>4 DEF Shapes, Thinned
  <2>4. \A d \in BellsClients : client'[d].is # "away" => client'[d].in \in BellsSessions
    BY <1>2, <1>3 DEF Shapes
  <2> QED
    BY <1>2, <1>4, <2>1, <2>2, <2>3, <2>4 DEF Shapes
<1>7. StampIsItsName'
  BY <1>2, <1>4, StampsStand
<1>8. \A r \in B!Receivers : Line(r)' = Line(r)
  BY <1>2 DEF Line
<1>9. ASSUME NEW n \in B!Numbers, NEW r \in bell'[n].sat
      PROVE  /\ InPlace(r)' /\ Line(r) \subseteq Line(r)'
             /\ r = B!Desk /\ B!Underway(n) => B!Counted' = {}
             /\ r # B!Desk => /\ client'[r].in = client[r].in
                              /\ called'[client[r].in] = called[client[r].in]
  <2>1. r \in bell[n].sat
    BY <1>4, <1>9 DEF Thinned
  <2>2. /\ r \in B!Receivers /\ InPlace(r)
        /\ r # B!Desk => r \in BellsClients /\ client[r].is = "hears"
    BY <2>1, SitsInPlace
  <2>3. r # B!Desk => r \in BellsClients /\ r # c /\ client'[r] = client[r]
    BY <1>2, <1>3, <2>2
  <2>4. InPlace(r)'
    BY <1>2, <2>2, <2>3 DEF InPlace
  <2>5. ASSUME r = B!Desk, B!Underway(n) PROVE B!Counted' = {}
    <3>1. B!Counted = {}
      BY <2>1, <2>5 DEF Sitting
    <3>2. CASE \E s \in BellsSessions, viewer \in BOOLEAN : B!attach(c, s, viewer)
      <4>1. bell' = [b \in B!Numbers |-> IF B!Underway(b) THEN B!Unsat({B!Desk})[b] ELSE bell[b]]
        BY <3>2 DEF B!attach
      <4>2. bell'[n].sat = bell[n].sat \ {B!Desk}
        BY <2>5, <4>1, UnderwayThins
      <4> QED
        BY <1>9, <2>5, <4>2
    <3>3. CASE B!Joins(c) \/ B!Subscribes(c)
      BY <3>1, <3>3 DEF B!Joins, B!Subscribes, B!Counted
    <3> QED
      BY <3>2, <3>3
  <2> QED
    BY <1>2, <1>8, <2>2, <2>3, <2>4, <2>5
<1>10. \A d \in BellsClients : client'[d].is = "hears" =>
           \/ client[d].is = "hears"
           \/ \A n \in B!Numbers : B!Underway(n) => bell'[n].late
  <2> SUFFICES ASSUME client'[c].is = "hears", NEW n \in B!Numbers, B!Underway(n)
               PROVE  bell'[n].late
    BY <1>3
  <2>1. bell[n] \in Events /\ B!Subscribes(c)
    BY <1>2 DEF Shapes
  <2>2. bell'[n] = [bell[n] EXCEPT !.late = TRUE]
    BY <2>1 DEF B!Subscribes
  <2> QED
    BY <2>1, <2>2 DEF Events
<1> QED
  BY <1>1, <1>4, <1>6, <1>7, <1>8, <1>9, <1>10, ThinnedStep

\* A client leaves or dies, the desk is cut off or hears again, or somebody
\* makes up its mind whether to be told: who is affected sits nowhere.
LEMMA QuietStep ==
    ASSUME B!BellsAssumption, BInv, NEW who \in B!Receivers,
           /\ called' = called /\ bell' = B!Unsat({who})
           /\ queue' \in [B!Receivers -> Seq(B!Numbers)]
           /\ cooling' \in [B!Receivers -> SUBSET (BellsNames \union {AName})]
           /\ client' \in [BellsClients -> Comers]
           /\ \A r \in B!Receivers : Line(r)' \subseteq Line(r)
           /\ \A r \in B!Receivers : r # who =>
                  queue'[r] = queue[r] /\ (InPlace(r) => InPlace(r)')
           /\ \A c \in BellsClients :
                  /\ c # who => client'[c] = client[c]
                  /\ client'[c].is \in {client[c].is, "away"}
                  /\ client'[c].is # "away" => client'[c].in = client[c].in
    PROVE  BInv'
<1> USE DEF BInv
<1>1. B!Desk \notin BellsClients /\ B!Desk \in B!Receivers /\ BellsClients \subseteq B!Receivers
  BY DeskIsNoClient
<1>2. /\ bell' \in [B!Numbers -> Events]
      /\ \A n \in B!Numbers : /\ Thinned(n) /\ bell'[n].sat = bell[n].sat \ {who}
                              /\ bell'[n].renamed = bell[n].renamed
  BY UnsatThins
<1>3. B!Counted' \subseteq B!Counted
  BY DEF B!Counted
<1>4. Shapes'
  <2>1. IsFiniteSet(B!Counted')
    BY <1>3, FS_Subset DEF Shapes
  <2>2. \A n \in B!Numbers : bell'[n].stage # "none" => bell'[n].of \in BellsSessions
    BY <1>2 DEF Shapes, Thinned
  <2>3. \A c \in BellsClients : client'[c].is # "away" => client'[c].in \in BellsSessions
    BY DEF Shapes
  <2> QED
    BY <1>2, <2>1, <2>2, <2>3 DEF Shapes
<1>5. StampIsItsName'
  BY <1>2, StampsStand
<1>6. ASSUME NEW n \in B!Numbers, NEW r \in bell'[n].sat
      PROVE  /\ InPlace(r)' /\ Line(r) \subseteq Line(r)'
             /\ r = B!Desk /\ B!Underway(n) => B!Counted' = {}
             /\ r # B!Desk => /\ client'[r].in = client[r].in
                              /\ called'[client[r].in] = called[client[r].in]
  <2>1. r \in bell[n].sat /\ r # who
    BY <1>2, <1>6
  <2>2. /\ r \in B!Receivers /\ InPlace(r)
        /\ r # B!Desk => r \in BellsClients /\ client[r].is = "hears"
    BY <2>1, SitsInPlace
  <2>3. Line(r)' = Line(r)
    BY <2>1, <2>2 DEF Line
  <2>4. r = B!Desk /\ B!Underway(n) => B!Counted' = {}
    BY <1>3, <2>1 DEF Sitting
  <2> QED
    BY <2>1, <2>2, <2>3, <2>4
<1> QED
  BY <1>1, <1>2, <1>4, <1>5, <1>6, ThinnedStep

LEMMA LeavesStep ==
    ASSUME B!BellsAssumption, BInv, NEW c \in BellsClients, B!Leaves(c)
    PROVE  BInv'
<1> USE DEF BInv
<1>1. B!Desk \notin BellsClients /\ B!Desk \in B!Receivers /\ BellsClients \subseteq B!Receivers
  BY DeskIsNoClient
<1>2. /\ queue' = [queue EXCEPT ![c] = <<>>] /\ client' = [client EXCEPT ![c] = B!Away]
      /\ cooling' = [cooling EXCEPT ![c] = {}] /\ bell' = B!Unsat({c})
      /\ UNCHANGED <<called, link, wanted>>
  BY DEF B!Leaves, B!Drops
<1>3. <<>> \in Seq(B!Numbers) /\ DOMAIN <<>> = {}
  OBVIOUS
<1>4. /\ queue' \in [B!Receivers -> Seq(B!Numbers)]
      /\ cooling' \in [B!Receivers -> SUBSET (BellsNames \union {AName})]
      /\ client' \in [BellsClients -> Comers]
      /\ queue'[c] = <<>> /\ \A r \in B!Receivers : r # c => queue'[r] = queue[r]
      /\ client'[c].is = "away" /\ \A d \in BellsClients : d # c => client'[d] = client[d]
  BY <1>1, <1>2, <1>3, AwayIsNobody DEF Shapes
<1>5. \A r \in B!Receivers : Line(r)' \subseteq Line(r)
  BY <1>3, <1>4 DEF Line
<1>6. \A r \in B!Receivers : r # c /\ InPlace(r) => InPlace(r)'
  BY <1>2, <1>4 DEF InPlace, B!Receivers
<1> QED
  BY <1>1, <1>2, <1>4, <1>5, <1>6, QuietStep

LEMMA DiesStep ==
    ASSUME B!BellsAssumption, BInv, NEW c \in BellsClients, B!Dies(c)
    PROVE  BInv'
<1> USE DEF BInv
<1>1. B!Desk \notin BellsClients /\ B!Desk \in B!Receivers /\ BellsClients \subseteq B!Receivers
  BY DeskIsNoClient
<1>2. client[c] \in Comers /\ DOMAIN client = BellsClients
  BY DEF Shapes
<1>3. /\ client' = [client EXCEPT ![c] = client'[c]] /\ client'[c] = [client[c] EXCEPT !.alive = FALSE]
      /\ bell' = B!Unsat({c}) /\ UNCHANGED <<called, link, wanted, queue, cooling>>
  BY <1>2 DEF B!Dies
<1>4. client'[c] \in Comers /\ client'[c].is = client[c].is /\ client'[c].in = client[c].in
  BY <1>2, <1>3 DEF Comers
<1>5. /\ queue' \in [B!Receivers -> Seq(B!Numbers)]
      /\ cooling' \in [B!Receivers -> SUBSET (BellsNames \union {AName})]
      /\ client' \in [BellsClients -> Comers]
      /\ \A d \in BellsClients : d # c => client'[d] = client[d]
  BY <1>3, <1>4 DEF Shapes
<1>6. \A r \in B!Receivers : Line(r)' = Line(r)
  BY <1>3 DEF Line
<1>7. \A r \in B!Receivers : r # c /\ InPlace(r) => InPlace(r)'
  BY <1>3, <1>5 DEF InPlace, B!Receivers
<1> QED
  BY <1>1, <1>3, <1>4, <1>5, <1>6, <1>7, QuietStep

LEMMA LinkStep ==
    ASSUME B!BellsAssumption, BInv, B!Cut \/ \E r \in B!Receivers : B!notify(r)
    PROVE  BInv'
<1> USE DEF BInv
<1>1. B!Desk \notin BellsClients /\ B!Desk \in B!Receivers /\ BellsClients \subseteq B!Receivers
  BY DeskIsNoClient
<1>2. <<>> \in Seq(B!Numbers) /\ DOMAIN <<>> = {}
  OBVIOUS
<1>3. CASE B!Cut
  <2>1. /\ queue' = [queue EXCEPT ![B!Desk] = <<>>] /\ bell' = B!Unsat({B!Desk})
        /\ UNCHANGED <<called, client, wanted, cooling>>
    BY <1>3 DEF B!Cut
  <2>2. /\ queue' \in [B!Receivers -> Seq(B!Numbers)]
        /\ queue'[B!Desk] = <<>> /\ \A r \in B!Receivers : r # B!Desk => queue'[r] = queue[r]
    BY <1>1, <1>2, <2>1 DEF Shapes
  <2>3. /\ cooling' \in [B!Receivers -> SUBSET (BellsNames \union {AName})]
        /\ client' \in [BellsClients -> Comers]
    BY <2>1 DEF Shapes
  <2>4. \A r \in B!Receivers : Line(r)' \subseteq Line(r)
    BY <1>2, <2>2 DEF Line
  <2>5. \A r \in B!Receivers : r # B!Desk /\ InPlace(r) => InPlace(r)'
    BY <2>1 DEF InPlace
  <2> QED
    BY <1>1, <2>1, <2>2, <2>3, <2>4, <2>5, QuietStep
<1>4. ASSUME NEW r \in B!Receivers, B!notify(r) PROVE BInv'
  <2>1. /\ bell' = B!Unsat({r}) /\ wanted' = [wanted EXCEPT ![r] = ~wanted[r]]
        /\ UNCHANGED <<called, client, link, queue, cooling>>
    BY <1>4 DEF B!notify
  <2>2. /\ queue' \in [B!Receivers -> Seq(B!Numbers)]
        /\ cooling' \in [B!Receivers -> SUBSET (BellsNames \union {AName})]
        /\ client' \in [BellsClients -> Comers]
    BY <2>1 DEF Shapes
  <2>3. \A s \in B!Receivers : Line(s)' = Line(s)
    BY <2>1 DEF Line
  <2>4. \A s \in B!Receivers : s # r /\ InPlace(s) => InPlace(s)'
    BY <2>1 DEF InPlace
  <2> QED
    BY <2>1, <2>2, <2>3, <2>4, QuietStep
<1> QED
  BY <1>3, <1>4

\* The desk hears again, or half a minute is over: it is as it was for whoever
\* sits somewhere.
LEMMA EaseStep ==
    ASSUME B!BellsAssumption, BInv, B!Subscribed \/ \E r \in B!Receivers : B!Passes(r)
    PROVE  BInv'
<1> USE DEF BInv
<1>1. /\ UNCHANGED <<called, client, wanted, queue, bell>>
      /\ link = "up" => link' = "up"
      /\ cooling' \in [B!Receivers -> SUBSET (BellsNames \union {AName})]
  BY DEF B!Subscribed, B!Passes, Shapes
<1>2. Shapes'
  BY <1>1 DEF Shapes, B!Counted
<1>3. \A r : InPlace(r) => InPlace(r)'
  BY <1>1 DEF InPlace
<1>4. Sitting'
  BY <1>1, <1>3 DEF Sitting, B!Underway, B!Counted
<1>5. StampIsItsName' /\ ByItsStamp'
  BY <1>1 DEF StampIsItsName, ByItsStamp
<1>6. SentFirst' /\ CameLate' /\ Answered'
  BY <1>1 DEF SentFirst, CameLate, Answered, Line
<1> QED
  BY <1>2, <1>4, <1>5, <1>6

LEMMA RenameStep ==
    ASSUME B!BellsAssumption, BInv, NEW s \in BellsSessions, NEW name \in BellsNames, B!rename(s, name)
    PROVE  BInv'
<1> USE DEF BInv
<1> DEFINE there == {c \in BellsClients : client[c].in = s}
<1>1. /\ called' = [called EXCEPT ![s] = name] /\ \A t \in BellsSessions : called[t] # name
      /\ UNCHANGED <<client, link, wanted, queue, cooling>>
  BY DEF B!rename
<1>2. /\ called' \in [BellsSessions -> BellsNames] /\ \A t, u \in BellsSessions : called'[t] = called'[u] => t = u
      /\ \A t \in BellsSessions : t # s => called'[t] = called[t]
  BY <1>1 DEF Shapes
<1>3. ASSUME NEW n \in B!Numbers
      PROVE  /\ bell'[n] \in Events /\ Thinned(n) /\ bell'[n].sat = bell[n].sat \ there
             /\ bell'[n].renamed <=> \/ bell[n].renamed
                                     \/ bell[n].of = s /\ bell[n].stage \notin {"none", "begun"}
  <2>1. bell[n] \in Events
    BY DEF Shapes
  <2>2. PICK e : e = B!Unsat(there)[n]
    OBVIOUS
  <2>3. e = [bell[n] EXCEPT !.sat = @ \ there]
    BY <2>2 DEF B!Unsat
  <2>4. e \in Events /\ e.sat = bell[n].sat \ there
    BY <2>1, <2>3 DEF Events
  <2>5. /\ e.stage = bell[n].stage /\ e.of = bell[n].of /\ e.kind = bell[n].kind
        /\ e.attached = bell[n].attached /\ e.name = bell[n].name
        /\ e.host_attached = bell[n].host_attached
        /\ e.told = bell[n].told /\ e.held = bell[n].held /\ e.late = bell[n].late
        /\ e.renamed = bell[n].renamed
    BY <2>1, <2>3 DEF Events
  <2>6. PICK moved \in BOOLEAN :
            moved <=> \/ e.renamed
                      \/ bell[n].of = s /\ bell[n].stage \notin {"none", "begun"}
    OBVIOUS
  <2>7. bell'[n] = [e EXCEPT !.renamed = moved]
    <3>1. bell'[n] = [e EXCEPT !.renamed = @ \/ (bell[n].of = s /\ bell[n].stage \notin {"none", "begun"})]
      BY <2>2 DEF B!rename
    <3>2. e.renamed \in BOOLEAN
      BY <2>4 DEF Events
    <3>3. (e.renamed \/ (bell[n].of = s /\ bell[n].stage \notin {"none", "begun"})) = moved
      BY <2>6, <3>2
    <3> QED
      BY <3>1, <3>3
  <2>8. bell'[n] \in Events /\ bell'[n].renamed = moved
    BY <2>4, <2>7 DEF Events
  <2>9. /\ bell'[n].stage = e.stage /\ bell'[n].of = e.of /\ bell'[n].kind = e.kind
        /\ bell'[n].attached = e.attached /\ bell'[n].name = e.name
        /\ bell'[n].host_attached = e.host_attached /\ bell'[n].sat = e.sat
        /\ bell'[n].told = e.told /\ bell'[n].held = e.held /\ bell'[n].late = e.late
    BY <2>4, <2>7 DEF Events
  <2> QED
    BY <2>4, <2>5, <2>6, <2>8, <2>9 DEF Thinned
<1>4. bell' \in [B!Numbers -> Events]
  BY <1>3 DEF B!rename
<1>5. Shapes'
  <2>1. \A n \in B!Numbers : bell'[n].stage # "none" => bell'[n].of \in BellsSessions
    BY <1>3 DEF Shapes, Thinned
  <2>2. IsFiniteSet(B!Counted')
    BY <1>1 DEF Shapes, B!Counted
  <2> QED
    BY <1>1, <1>2, <1>4, <2>1, <2>2 DEF Shapes
<1>6. StampIsItsName'
  <2> SUFFICES ASSUME NEW n \in B!Numbers, bell'[n].stage \in Stamped, ~bell'[n].renamed
               PROVE  bell'[n].name = called'[bell'[n].of]
    BY DEF StampIsItsName
  <2>1. /\ bell[n].stage \in Stamped /\ ~bell[n].renamed /\ bell[n].of # s
        /\ bell'[n].name = bell[n].name /\ bell'[n].of = bell[n].of
        /\ bell[n].of \in BellsSessions
    BY <1>3 DEF Thinned, Stamped, Shapes
  <2> QED
    BY <1>2, <2>1 DEF StampIsItsName
<1>7. \A r \in B!Receivers : Line(r)' = Line(r)
  BY <1>1 DEF Line
<1>8. ASSUME NEW n \in B!Numbers, NEW r \in bell'[n].sat
      PROVE  /\ InPlace(r)' /\ Line(r) \subseteq Line(r)'
             /\ r = B!Desk /\ B!Underway(n) => B!Counted' = {}
             /\ r # B!Desk => /\ client'[r].in = client[r].in
                              /\ called'[client[r].in] = called[client[r].in]
  <2>1. r \in bell[n].sat /\ r \notin there
    BY <1>3, <1>8
  <2>2. /\ r \in B!Receivers /\ InPlace(r)
        /\ r # B!Desk => r \in BellsClients /\ client[r].in \in BellsSessions
    BY <2>1, SitsInPlace
  <2>3. InPlace(r)'
    BY <1>1, <2>2 DEF InPlace
  <2>4. r = B!Desk /\ B!Underway(n) => B!Counted' = {}
    BY <1>1, <2>1 DEF Sitting, B!Counted
  <2>5. r # B!Desk => client[r].in # s
    BY <2>1, <2>2
  <2> QED
    BY <1>1, <1>2, <1>7, <2>2, <2>3, <2>4, <2>5
<1> QED
  BY <1>1, <1>3, <1>5, <1>6, <1>7, <1>8, DeskIsNoClient, ThinnedStep

(***************************************************************************)
(* A bell.                                                                 *)
(***************************************************************************)
\* One more piece of the stamp.
LEMMA StampStep ==
    ASSUME B!BellsAssumption, BInv, NEW b \in B!Numbers, NEW e \in Events,
           bell' = [bell EXCEPT ![b] = e], bell[b].stage # "sent",
           UNCHANGED <<called, client, link, wanted, queue, cooling>>,
           e.stage \in {"begun", "named", "counted"}, e.of \in BellsSessions, e.told = {},
           \A r \in e.sat :
               /\ InPlace(r)
               /\ r = B!Desk => B!Counted = {} /\ (e.stage = "counted" => e.host_attached = 0)
               /\ r # B!Desk => /\ client[r].in # e.of
                                /\ e.stage \in Stamped => e.name # called[client[r].in],
           e.stage \in Stamped /\ ~e.renamed => e.name = called[e.of],
           e.stage = "counted" /\ e.host_attached = 0 => \A c \in BellsClients : client[c].is # "hears"
    PROVE  BInv'
<1> USE DEF BInv
<1>1. /\ bell'[b] = e /\ \A n \in B!Numbers : n # b => bell'[n] = bell[n]
      /\ bell' \in [B!Numbers -> Events]
  BY DEF Shapes
<1>2. Shapes'
  BY <1>1 DEF Shapes, B!Counted
<1>3. Sitting'
  <2>1. ASSUME NEW n \in B!Numbers, NEW r \in bell'[n].sat
        PROVE  /\ InPlace(r)'
               /\ r = B!Desk => /\ B!Underway(n)' => B!Counted' = {}
                                /\ bell'[n].stage \in {"counted", "sent"} => bell'[n].host_attached = 0
               /\ r # B!Desk => /\ client'[r].in # bell'[n].of
                                /\ bell'[n].stage \in Stamped => bell'[n].name # called'[client'[r].in]
    <3>1. B!Counted' = B!Counted /\ (InPlace(r) => InPlace(r)')
      BY DEF B!Counted, InPlace
    <3>2. CASE n = b
      BY <1>1, <2>1, <3>1, <3>2
    <3>3. CASE n # b
      <4>1. bell'[n] = bell[n] /\ (B!Underway(n)' <=> B!Underway(n))
        BY <1>1, <3>3 DEF B!Underway
      <4> QED
        BY <2>1, <3>1, <4>1 DEF Sitting
    <3> QED
      BY <3>2, <3>3
  <2> QED
    BY <2>1 DEF Sitting
<1>4. StampIsItsName' /\ ByItsStamp'
  BY <1>1 DEF StampIsItsName, ByItsStamp
<1>5. \A r : Line(r)' = Line(r)
  BY DEF Line
<1>6. SentFirst' /\ Answered'
  BY <1>1, <1>5 DEF SentFirst, Answered
<1>7. CameLate'
  BY <1>1, <1>5 DEF CameLate
<1> QED
  BY <1>2, <1>3, <1>4, <1>6, <1>7

LEMMA PublishStep ==
    ASSUME B!BellsAssumption, BInv, NEW b \in B!Numbers, NEW s \in BellsSessions, NEW kind \in Kinds,
           B!publish(b, s, kind)
    PROVE  BInv'
<1> USE DEF BInv
<1>1. B!Desk \notin BellsClients /\ B!Desk \in B!Receivers /\ BellsClients \subseteq B!Receivers
  BY DeskIsNoClient
<1>2. PICK many : many = Cardinality(B!Watching(s))
  OBVIOUS
<1>3. many \in Nat
  <2>1. IsFiniteSet(B!Watching(s))
    <3>1. B!Watching(s) \subseteq B!Counted
      BY DEF B!Watching, B!Counted
    <3> QED
      BY <3>1, FS_Subset DEF Shapes
  <2> QED
    BY <1>2, <2>1, FS_CardinalityType
<1>4. PICK e : e = [B!None EXCEPT !.stage = "begun", !.of = s, !.kind = kind,
                                  !.attached = many, !.sat = B!InAPlaceToHear(s)]
  OBVIOUS
<1>5. \A r \in B!InAPlaceToHear(s) :
          /\ r \in B!Receivers /\ InPlace(r)
          /\ r = B!Desk => B!Counted = {}
          /\ r # B!Desk => client[r].in # s
  BY <1>1 DEF B!InAPlaceToHear, InPlace, B!Hears, B!BellsAssumption
<1>6. /\ e \in Events /\ e.stage = "begun" /\ e.of = s /\ e.sat = B!InAPlaceToHear(s)
      /\ e.told = {}
  <2>1. kind \in {"bell", "title"} /\ s \in Anywhere /\ B!InAPlaceToHear(s) \subseteq B!Receivers
    BY <1>5 DEF B!BellsAssumption, Anywhere
  <2>2. e \in Events
    BY <1>3, <1>4, <2>1, NoneIsAnEvent DEF Events, Stages
  <2>3. /\ e.stage = "begun" /\ e.of = s /\ e.sat = B!InAPlaceToHear(s) /\ e.told = B!None.told
    BY <1>4, NoneIsAnEvent DEF Events
  <2> QED
    BY <2>2, <2>3, NoneIsAnEvent
<1>7. /\ bell' = [bell EXCEPT ![b] = e] /\ bell[b].stage # "sent"
      /\ UNCHANGED <<called, client, link, wanted, queue, cooling>>
  BY <1>2, <1>4 DEF B!publish, B!Cardinality, Cardinality
<1> QED
  BY <1>5, <1>6, <1>7, StampStep DEF Stamped

\* Nobody who sits somewhere is in the session, or in one called the same.
LEMMA NameStep ==
    ASSUME B!BellsAssumption, BInv, NEW b \in B!Numbers, B!Names_(b)
    PROVE  BInv'
<1> USE DEF BInv
<1>1. bell[b] \in Events /\ bell[b].stage = "begun" /\ bell[b].of \in BellsSessions
  BY DEF B!Names_, Shapes
<1>2. PICK name \in BellsNames : name = called[bell[b].of]
  BY <1>1 DEF Shapes
<1>3. PICK e : e = [bell[b] EXCEPT !.stage = "named", !.name = name]
  OBVIOUS
<1>4. /\ e \in Events /\ e.stage = "named" /\ e.name = name /\ e.of = bell[b].of
      /\ e.sat = bell[b].sat /\ e.told = bell[b].told
  BY <1>1, <1>3 DEF Events, Stages
<1>5. /\ bell' = [bell EXCEPT ![b] = e]
      /\ UNCHANGED <<called, client, link, wanted, queue, cooling>>
  BY <1>2, <1>3 DEF B!Names_, Shapes
<1>6. ASSUME NEW r \in bell[b].sat
      PROVE  /\ InPlace(r)
             /\ r = B!Desk => B!Counted = {}
             /\ r # B!Desk => client[r].in # bell[b].of /\ name # called[client[r].in]
  <2>1. r = B!Desk => B!Counted = {}
    BY <1>1 DEF Sitting, B!Underway
  <2>2. ASSUME r # B!Desk
        PROVE  client[r].in # bell[b].of /\ client[r].in \in BellsSessions
    BY <2>2, SitsInPlace DEF Sitting
  <2> QED
    BY <1>1, <1>2, <2>1, <2>2, SitsInPlace DEF Shapes
<1>7. /\ e.told = {} /\ e.of \in BellsSessions /\ e.stage \in {"begun", "named", "counted"}
      /\ e.name = called[e.of] /\ e.stage # "counted" /\ bell[b].stage # "sent"
  BY <1>1, <1>2, <1>4 DEF ByItsStamp
<1>8. \A r \in e.sat :
          /\ InPlace(r)
          /\ r = B!Desk => B!Counted = {}
          /\ r # B!Desk => client[r].in # e.of /\ e.name # called[client[r].in]
  BY <1>4, <1>6
<1> QED
  BY <1>4, <1>5, <1>7, <1>8, StampStep

LEMMA CountStep ==
    ASSUME B!BellsAssumption, BInv, NEW b \in B!Numbers, B!Counts(b)
    PROVE  BInv'
<1> USE DEF BInv
<1>1. bell[b] \in Events /\ bell[b].stage = "named" /\ bell[b].of \in BellsSessions
  BY DEF B!Counts, Shapes
<1>2. PICK many : /\ many = Cardinality(B!Counted)
                  /\ bell' = [bell EXCEPT ![b].stage = "counted", ![b].host_attached = many]
                  /\ UNCHANGED <<called, client, link, wanted, queue, cooling>>
  BY DEF B!Counts, B!Cardinality, Cardinality
<1>3. many \in Nat /\ (many = 0 <=> B!Counted = {})
  BY <1>2, FS_CardinalityType, FS_EmptySet DEF Shapes
<1>4. PICK e : e = [bell[b] EXCEPT !.stage = "counted", !.host_attached = many]
  OBVIOUS
<1>5. /\ e \in Events /\ e.stage = "counted" /\ e.host_attached = many /\ e.name = bell[b].name
      /\ e.of = bell[b].of /\ e.sat = bell[b].sat /\ e.told = bell[b].told
      /\ e.renamed = bell[b].renamed
  BY <1>1, <1>3, <1>4 DEF Events, Stages
<1>6. /\ bell' = [bell EXCEPT ![b] = e]
      /\ UNCHANGED <<called, client, link, wanted, queue, cooling>>
  BY <1>2, <1>4 DEF Shapes
<1>7. ASSUME NEW r \in bell[b].sat
      PROVE  /\ InPlace(r)
             /\ r = B!Desk => B!Counted = {}
             /\ r # B!Desk => client[r].in # bell[b].of /\ bell[b].name # called[client[r].in]
  BY <1>1 DEF Sitting, B!Underway, Stamped
<1>8. e.told = {} /\ (~e.renamed => e.name = called[e.of])
  BY <1>1, <1>5 DEF ByItsStamp, StampIsItsName, Stamped
<1>9. B!Counted = {} => \A c \in BellsClients : client[c].is # "hears"
  BY DEF B!Counted
<1>10. \A r \in e.sat :
           /\ InPlace(r)
           /\ r = B!Desk => B!Counted = {} /\ e.host_attached = 0
           /\ r # B!Desk => client[r].in # e.of /\ e.name # called[client[r].in]
  BY <1>3, <1>5, <1>7
<1>11. /\ e.of \in BellsSessions /\ e.stage \in {"begun", "named", "counted"}
       /\ e.host_attached = 0 => B!Counted = {}
       /\ bell[b].stage # "sent"
  BY <1>1, <1>3, <1>5
<1> QED
  BY <1>5, <1>6, <1>8, <1>9, <1>10, <1>11, StampStep

LEMMA SendStep ==
    ASSUME B!BellsAssumption, BInv, NEW b \in B!Numbers, B!Sends(b)
    PROVE  BInv'
<1> USE DEF BInv
<1>1. /\ bell[b].stage = "counted" /\ queue' = [r \in B!Receivers |-> B!Pushed(r, b)]
      /\ bell' = [n \in B!Numbers |-> [bell[n] EXCEPT !.stage = IF n = b THEN "sent" ELSE @,
                                                      !.sat = @ \ B!Lagging(n)]]
  BY DEF B!Sends
<1>10. bell[b].stage = "counted" /\ UNCHANGED <<called, client, link, wanted, cooling>>
  BY DEF B!Sends
<1>2. ASSUME NEW n \in B!Numbers
      PROVE  /\ bell'[n] \in Events /\ bell'[n].stage = IF n = b THEN "sent" ELSE bell[n].stage
             /\ bell'[n].sat = bell[n].sat \ B!Lagging(n)
             /\ bell'[n].of = bell[n].of /\ bell'[n].kind = bell[n].kind
             /\ bell'[n].attached = bell[n].attached /\ bell'[n].name = bell[n].name
             /\ bell'[n].host_attached = bell[n].host_attached
             /\ bell'[n].told = bell[n].told /\ bell'[n].held = bell[n].held
             /\ bell'[n].late = bell[n].late /\ bell'[n].renamed = bell[n].renamed
  <2>1. bell[n] \in Events
    BY DEF Shapes
  <2>2. PICK stage \in Stages : stage = IF n = b THEN "sent" ELSE bell[n].stage
    BY <2>1 DEF Events, Stages
  <2>3. PICK sat \in SUBSET B!Receivers : sat = bell[n].sat \ B!Lagging(n)
    BY <2>1 DEF Events
  <2>4. bell'[n] = [bell[n] EXCEPT !.stage = stage, !.sat = sat]
    BY <1>1, <2>2, <2>3
  <2> QED
    BY <2>1, <2>2, <2>3, <2>4 DEF Events
<1>3. ASSUME NEW r \in B!Receivers
      PROVE  /\ queue'[r] \in Seq(B!Numbers)
             /\ Line(r)' \subseteq Line(r) \union {b}
             /\ B!Hears(r) => b \in Line(r)'
             /\ ~B!Hears(r) => Line(r)' = Line(r)
             /\ \A n \in Line(r) : n \in Line(r)' \/ r \in B!Lagging(n)
  <2>1. queue[r] \in Seq(B!Numbers) /\ queue'[r] = B!Pushed(r, b)
    BY <1>1 DEF Shapes
  <2>2. PICK q : q = B!Pushed(r, b)
    OBVIOUS
  <2>3. Line(r)' = {q[i] : i \in DOMAIN q}
    BY <2>1, <2>2 DEF Line
  <2> QED
    BY <2>1, <2>2, <2>3, PushedComesLast
<1>4. Shapes'
  <2>1. bell' \in [B!Numbers -> Events]
    BY <1>1, <1>2
  <2>2. queue' \in [B!Receivers -> Seq(B!Numbers)]
    BY <1>1, <1>3
  <2>3. IsFiniteSet(B!Counted')
    BY <1>10 DEF Shapes, B!Counted
  <2>4. \A n \in B!Numbers : bell'[n].stage # "none" => bell'[n].of \in BellsSessions
    BY <1>10, <1>2 DEF Shapes
  <2> QED
    BY <1>10, <2>1, <2>2, <2>3, <2>4 DEF Shapes
<1>5. Sitting'
  <2>1. ASSUME NEW n \in B!Numbers, NEW r \in bell'[n].sat
        PROVE  /\ InPlace(r)'
               /\ r = B!Desk => /\ B!Underway(n)' => B!Counted' = {}
                                /\ bell'[n].stage \in {"counted", "sent"} => bell'[n].host_attached = 0
               /\ r # B!Desk => /\ client'[r].in # bell'[n].of
                                /\ bell'[n].stage \in Stamped => bell'[n].name # called'[client'[r].in]
    <3>1. r \in bell[n].sat
      BY <1>2, <2>1
    <3>2. B!Counted' = B!Counted /\ (InPlace(r) => InPlace(r)')
      BY <1>10 DEF B!Counted, InPlace
    <3>3. (B!Underway(n)' => B!Underway(n)) /\ (bell'[n].stage \in Stamped => bell[n].stage \in Stamped)
      BY <1>10, <1>2 DEF B!Underway, Stamped
    <3>4. bell'[n].stage \in {"counted", "sent"} => bell[n].stage \in {"counted", "sent"}
      BY <1>10, <1>2
    <3> QED
      BY <1>10, <1>2, <3>1, <3>2, <3>3, <3>4 DEF Sitting
  <2> QED
    BY <2>1 DEF Sitting
<1>6. StampIsItsName' /\ ByItsStamp'
  BY <1>10, <1>2 DEF StampIsItsName, ByItsStamp, Stamped
<1>7. SentFirst'
  <2> SUFFICES ASSUME NEW r \in B!Receivers, NEW n \in Line(r)' PROVE bell'[n].stage = "sent"
    BY DEF SentFirst
  <2>1. CASE n = b
    BY <1>2, <2>1
  <2>2. CASE n # b
    <3>1. n \in Line(r)
      BY <1>3, <2>2
    <3>2. n \in B!Numbers
      BY <3>1 DEF Shapes, Line
    <3> QED
      BY <1>2, <2>2, <3>1, <3>2 DEF SentFirst
  <2> QED
    BY <2>1, <2>2
<1>8. CameLate'
  <2> SUFFICES ASSUME NEW n \in B!Numbers, bell'[n].stage \in {"counted", "sent"},
                      bell'[n].host_attached = 0, ~bell'[n].late, NEW c \in BellsClients
               PROVE  /\ c \notin bell'[n].told
                      /\ bell'[n].stage = "counted" => client'[c].is # "hears"
                      /\ bell'[n].stage = "sent" => n \notin Line(c)'
    BY DEF CameLate
  <2>1. /\ bell[n].stage \in {"counted", "sent"} /\ bell[n].host_attached = 0 /\ ~bell[n].late
        /\ c \in B!Receivers /\ c # B!Desk
    BY <1>10, <1>2, DeskIsNoClient
  <2>2. /\ c \notin bell[n].told
        /\ bell[n].stage = "counted" => client[c].is # "hears"
        /\ bell[n].stage = "sent" => n \notin Line(c)
    BY <2>1 DEF CameLate
  <2>3. CASE n = b
    <3>1. ~B!Hears(c) /\ n \notin Line(c)
      BY <1>10, <2>1, <2>2, <2>3 DEF B!Hears, SentFirst
    <3> QED
      BY <1>2, <1>3, <2>1, <2>2, <2>3, <3>1
  <2>4. CASE n # b
    BY <1>10, <1>2, <1>3, <2>1, <2>2, <2>4
  <2> QED
    BY <2>3, <2>4
<1>9. Answered'
  <2> SUFFICES ASSUME NEW n \in B!Numbers, bell'[n].stage = "sent", bell'[n].kind = "bell",
                      bell'[n].attached = 0, NEW r \in bell'[n].sat
               PROVE  r \in bell'[n].told \union bell'[n].held \/ n \in Line(r)'
    BY DEF Answered
  <2>1. r \in bell[n].sat /\ r \notin B!Lagging(n) /\ r \in B!Receivers /\ InPlace(r)
    BY <1>2, SitsInPlace
  <2>2. CASE n = b
    BY <1>3, <2>1, <2>2 DEF InPlace, B!Hears
  <2>3. CASE n # b
    <3>1. r \in bell[n].told \union bell[n].held \/ n \in Line(r)
      BY <1>2, <2>1, <2>3 DEF Answered
    <3> QED
      BY <1>2, <1>3, <2>1, <3>1
  <2> QED
    BY <2>2, <2>3
<1> QED
  BY <1>4, <1>5, <1>6, <1>7, <1>8, <1>9

(***************************************************************************)
(* Telling.                                                                *)
(***************************************************************************)
\* Of what it takes, a receiver tells, or it told of that name just now, or it
\* has no reason to.
LEMMA ToldOrHeld ==
    ASSUME B!BellsAssumption, BInv, NEW r \in B!Receivers, NEW b \in B!Numbers, NEW raises \in BOOLEAN,
           B!Told(r, b, raises)
    PROVE  /\ bell' \in [B!Numbers -> Events]
           /\ cooling' \in [B!Receivers -> SUBSET (BellsNames \union {AName})]
           /\ \A n \in B!Numbers : n # b => bell'[n] = bell[n]
           /\ bell'[b].stage = bell[b].stage /\ bell'[b].of = bell[b].of
           /\ bell'[b].kind = bell[b].kind /\ bell'[b].attached = bell[b].attached
           /\ bell'[b].name = bell[b].name /\ bell'[b].host_attached = bell[b].host_attached
           /\ bell'[b].sat = bell[b].sat /\ bell'[b].late = bell[b].late
           /\ bell'[b].renamed = bell[b].renamed
           /\ bell[b].told \subseteq bell'[b].told /\ bell[b].held \subseteq bell'[b].held
           /\ bell'[b].told \subseteq bell[b].told \union {r}
           /\ ~raises => bell'[b].told = bell[b].told
           /\ raises /\ wanted[r] => r \in bell'[b].told \union bell'[b].held
<1> USE DEF BInv
<1>1. bell[b] \in Events /\ bell \in [B!Numbers -> Events]
      /\ cooling \in [B!Receivers -> SUBSET (BellsNames \union {AName})]
  BY DEF Shapes
<1>2. CASE ~raises
  BY <1>1, <1>2 DEF B!Told
<1>3. CASE raises /\ ~B!allow(r, bell[b])
  <2>1. PICK held \in SUBSET B!Receivers : held = bell[b].held \union {r}
    BY <1>1 DEF Events
  <2>2. PICK e : e = [bell[b] EXCEPT !.held = held]
    OBVIOUS
  <2>3. /\ e \in Events /\ e.held = held
        /\ e.stage = bell[b].stage /\ e.of = bell[b].of /\ e.kind = bell[b].kind
        /\ e.attached = bell[b].attached /\ e.name = bell[b].name
        /\ e.host_attached = bell[b].host_attached /\ e.sat = bell[b].sat
        /\ e.told = bell[b].told /\ e.late = bell[b].late /\ e.renamed = bell[b].renamed
    BY <1>1, <2>2 DEF Events
  <2>4. bell' = [bell EXCEPT ![b] = e] /\ cooling' = cooling
    BY <1>1, <1>3, <2>1, <2>2 DEF B!Told
  <2> QED
    BY <1>1, <1>3, <2>1, <2>3, <2>4
<1>4. CASE raises /\ B!allow(r, bell[b])
  <2>1. PICK told \in SUBSET B!Receivers :
            told = IF wanted[r] THEN bell[b].told \union {r} ELSE bell[b].told
    BY <1>1 DEF Events
  <2>2. PICK e : e = [bell[b] EXCEPT !.told = told]
    OBVIOUS
  <2>3. /\ e \in Events /\ e.told = told
        /\ e.stage = bell[b].stage /\ e.of = bell[b].of /\ e.kind = bell[b].kind
        /\ e.attached = bell[b].attached /\ e.name = bell[b].name
        /\ e.host_attached = bell[b].host_attached /\ e.sat = bell[b].sat
        /\ e.held = bell[b].held /\ e.late = bell[b].late /\ e.renamed = bell[b].renamed
    BY <1>1, <2>2 DEF Events
  <2>4. bell' = [bell EXCEPT ![b] = e]
    BY <1>1, <1>4, <2>1, <2>2 DEF B!Told
  <2>5. cooling' \in [B!Receivers -> SUBSET (BellsNames \union {AName})]
    <3>1. bell[b].name \in BellsNames \union {AName}
      BY <1>1 DEF Events
    <3>2. cooling' = [cooling EXCEPT ![r] = @ \union {bell[b].name}]
      BY <1>4 DEF B!Told
    <3> QED
      BY <1>1, <3>1, <3>2
  <2> QED
    BY <1>1, <1>4, <2>1, <2>3, <2>4, <2>5
<1> QED
  BY <1>2, <1>3, <1>4

\* What comes first is taken, by one that has a reason to tell of it if it sat
\* there, and if it is the desk only when the stamp says that nobody was there.
LEMMA TakeStep ==
    ASSUME B!BellsAssumption, BInv, NEW r \in B!Receivers, NEW b \in B!Numbers, NEW raises \in BOOLEAN,
           B!Takes(r), b = Head(queue[r]), B!Told(r, b, raises),
           UNCHANGED <<called, client, link, wanted>>,
           r = B!Desk /\ raises => bell[b].host_attached = 0,
           r \in bell[b].sat /\ bell[b].kind = "bell" /\ bell[b].attached = 0 => raises
    PROVE  BInv'
<1> USE DEF BInv
<1>1. B!Desk \notin BellsClients /\ B!Desk \in B!Receivers /\ BellsClients \subseteq B!Receivers
  BY DeskIsNoClient
<1>2. /\ queue' \in [B!Receivers -> Seq(B!Numbers)] /\ b \in Line(r)
      /\ \A s \in B!Receivers : Line(s)' \subseteq Line(s)
      /\ \A s \in B!Receivers : \A n \in Line(s) : n \in Line(s)' \/ (s = r /\ n = b)
  BY TakesTheOldest DEF Shapes
<1>3. bell[b].stage = "sent"
  BY <1>2 DEF SentFirst
<1>4. /\ bell' \in [B!Numbers -> Events]
      /\ cooling' \in [B!Receivers -> SUBSET (BellsNames \union {AName})]
      /\ bell[b].told \subseteq bell'[b].told /\ bell[b].held \subseteq bell'[b].held
      /\ bell'[b].told \subseteq bell[b].told \union {r}
      /\ ~raises => bell'[b].told = bell[b].told
      /\ raises /\ wanted[r] => r \in bell'[b].told \union bell'[b].held
      /\ \A n \in B!Numbers : n # b => bell'[n] = bell[n]
  BY ToldOrHeld
<1>5. \A n \in B!Numbers :
          /\ bell'[n].stage = bell[n].stage /\ bell'[n].of = bell[n].of
          /\ bell'[n].kind = bell[n].kind /\ bell'[n].attached = bell[n].attached
          /\ bell'[n].name = bell[n].name /\ bell'[n].host_attached = bell[n].host_attached
          /\ bell'[n].sat = bell[n].sat /\ bell'[n].late = bell[n].late
          /\ bell'[n].renamed = bell[n].renamed
  BY ToldOrHeld
<1>6. Shapes'
  <2>1. IsFiniteSet(B!Counted')
    BY DEF Shapes, B!Counted
  <2>2. \A n \in B!Numbers : bell'[n].stage # "none" => bell'[n].of \in BellsSessions
    BY <1>5 DEF Shapes
  <2> QED
    BY <1>2, <1>4, <2>1, <2>2 DEF Shapes
<1>7. Sitting'
  <2>1. B!Counted' = B!Counted /\ \A s : InPlace(s) => InPlace(s)'
    BY DEF B!Counted, InPlace
  <2>2. \A n \in B!Numbers : B!Underway(n)' <=> B!Underway(n)
    BY <1>5 DEF B!Underway
  <2> QED
    BY <1>5, <2>1, <2>2 DEF Sitting
<1>8. StampIsItsName' /\ SentFirst'
  <2>1. \A s \in B!Receivers : Line(s) \subseteq B!Numbers
    BY DEF Shapes, Line
  <2>2. StampIsItsName'
    BY <1>2, <1>5 DEF StampIsItsName
  <2>3. SentFirst'
    BY <1>2, <1>5, <2>1 DEF SentFirst
  <2> QED
    BY <2>2, <2>3
<1>9. ByItsStamp'
  <2>1. ASSUME NEW n \in B!Numbers
        PROVE  /\ bell'[n].stage # "sent" => bell'[n].told = {}
               /\ B!Desk \in bell'[n].told => bell'[n].host_attached = 0
    <3>1. CASE n = b
      <4>1. ASSUME B!Desk \in bell'[b].told PROVE bell[b].host_attached = 0
        <5>1. B!Desk \in bell[b].told \/ (r = B!Desk /\ raises)
          BY <1>4, <4>1
        <5> QED
          BY <5>1 DEF ByItsStamp
      <4> QED
        BY <1>3, <1>5, <3>1, <4>1
    <3>2. CASE n # b
      BY <1>4, <3>2 DEF ByItsStamp
    <3> QED
      BY <3>1, <3>2
  <2> QED
    BY <2>1 DEF ByItsStamp
<1>10. CameLate'
  <2> SUFFICES ASSUME NEW n \in B!Numbers, bell'[n].stage \in {"counted", "sent"},
                      bell'[n].host_attached = 0, ~bell'[n].late, NEW c \in BellsClients
               PROVE  /\ c \notin bell'[n].told
                      /\ bell'[n].stage = "counted" => client'[c].is # "hears"
                      /\ bell'[n].stage = "sent" => n \notin Line(c)'
    BY DEF CameLate
  <2>1. /\ c \notin bell[n].told
        /\ bell[n].stage = "counted" => client[c].is # "hears"
        /\ bell[n].stage = "sent" => n \notin Line(c)
    BY <1>5 DEF CameLate
  <2>2. c \notin bell'[n].told
    <3>1. CASE n = b
      <4>1. c # r
        BY <1>2, <1>3, <2>1, <3>1
      <4> QED
        BY <1>4, <2>1, <3>1, <4>1
    <3>2. CASE n # b
      BY <1>4, <2>1, <3>2
    <3> QED
      BY <3>1, <3>2
  <2> QED
    BY <1>1, <1>2, <1>5, <2>1, <2>2
<1>11. Answered'
  <2> SUFFICES ASSUME NEW n \in B!Numbers, bell'[n].stage = "sent", bell'[n].kind = "bell",
                      bell'[n].attached = 0, NEW s \in bell'[n].sat
               PROVE  s \in bell'[n].told \union bell'[n].held \/ n \in Line(s)'
    BY DEF Answered
  <2>1. /\ s \in bell[n].sat /\ s \in B!Receivers /\ InPlace(s)
        /\ s \in bell[n].told \union bell[n].held \/ n \in Line(s)
    BY <1>5, SitsInPlace DEF Answered
  <2>2. CASE s \in bell[n].told \union bell[n].held
    BY <1>4, <2>2
  <2>3. CASE n \in Line(s)'
    BY <2>3
  <2>4. CASE s = r /\ n = b
    <3>1. raises /\ wanted[r]
      BY <1>5, <2>1, <2>4 DEF InPlace
    <3> QED
      BY <1>4, <2>4, <3>1
  <2> QED
    BY <1>2, <2>1, <2>2, <2>3, <2>4
<1> QED
  BY <1>6, <1>7, <1>8, <1>9, <1>10, <1>11

\* What the desk takes, and whether it raises it.
LEMMA HandleTakes ==
    ASSUME B!BellsAssumption, BInv, B!handle
    PROVE  \E b \in B!Numbers : \E raises \in BOOLEAN :
               /\ b = Head(queue[B!Desk]) /\ b \in Line(B!Desk) /\ B!Told(B!Desk, b, raises) /\ B!Takes(B!Desk)
               /\ UNCHANGED <<called, client, link, wanted>>
               /\ raises <=> B!worth_interrupting(bell[b]) /\ B!for_desktop(bell[b])
<1>1. B!Desk \in B!Receivers /\ B!Takes(B!Desk) /\ UNCHANGED <<called, client, link, wanted>>
  BY DeskIsNoClient DEF B!handle
<1>2. PICK b \in B!Numbers : b = Head(queue[B!Desk]) /\ b \in Line(B!Desk)
  BY <1>1, TakesTheOldest DEF BInv, Shapes
<1>3. PICK raises \in BOOLEAN :
          raises <=> B!worth_interrupting(bell[b]) /\ B!for_desktop(bell[b])
  OBVIOUS
<1>4. raises = (B!worth_interrupting(bell[b]) /\ B!for_desktop(bell[b]))
  BY <1>3 DEF B!worth_interrupting, B!for_desktop
<1>5. B!Told(B!Desk, b, B!worth_interrupting(bell[b]) /\ B!for_desktop(bell[b]))
  BY <1>2 DEF B!handle
<1>6. B!Told(B!Desk, b, raises)
  BY <1>4, <1>5
<1> QED
  BY <1>1, <1>2, <1>3, <1>6

LEMMA HandleStep ==
    ASSUME B!BellsAssumption, BInv, B!handle
    PROVE  BInv'
<1> USE DEF BInv
<1>1. PICK b \in B!Numbers, raises \in BOOLEAN :
          /\ b = Head(queue[B!Desk]) /\ b \in Line(B!Desk) /\ B!Told(B!Desk, b, raises) /\ B!Takes(B!Desk)
          /\ UNCHANGED <<called, client, link, wanted>>
          /\ raises <=> B!worth_interrupting(bell[b]) /\ B!for_desktop(bell[b])
  BY HandleTakes
<1>2. B!Desk \in B!Receivers
  BY DeskIsNoClient
<1>3. bell[b].stage = "sent"
  BY <1>1, <1>2 DEF SentFirst
<1>4. raises => bell[b].host_attached = 0
  BY <1>1 DEF B!for_desktop
<1>5. B!Desk \in bell[b].sat /\ bell[b].kind = "bell" /\ bell[b].attached = 0 => raises
  BY <1>1, <1>3 DEF B!worth_interrupting, B!for_desktop, Sitting
<1> QED
  BY <1>1, <1>2, <1>4, <1>5, TakeStep

\* What a terminal takes, and whether it rings for it.
LEMMA RingTakes ==
    ASSUME B!BellsAssumption, BInv, NEW c \in BellsClients, B!ring(c)
    PROVE  \E b \in B!Numbers : \E raises \in BOOLEAN :
               /\ b = Head(queue[c]) /\ b \in Line(c) /\ B!Told(c, b, raises) /\ B!Takes(c)
               /\ client[c].is = "hears" /\ UNCHANGED <<called, client, link, wanted>>
               /\ raises <=> /\ B!Another(c, bell[b]) /\ client[c].alive /\ c \in Terminals
                             /\ wanted[c] /\ B!worth_interrupting(bell[b])
<1>1. c \in B!Receivers /\ B!Takes(c) /\ UNCHANGED <<called, client, link, wanted>> /\ client[c].is = "hears"
  BY DeskIsNoClient DEF B!ring
<1>2. PICK b \in B!Numbers : b = Head(queue[c]) /\ b \in Line(c)
  BY <1>1, TakesTheOldest DEF BInv, Shapes
<1>3. PICK raises \in BOOLEAN :
          raises <=> /\ B!Another(c, bell[b]) /\ client[c].alive /\ c \in Terminals
                     /\ wanted[c] /\ B!worth_interrupting(bell[b])
  OBVIOUS
<1>4. raises = (/\ B!Another(c, bell[b]) /\ client[c].alive /\ c \in Terminals
                /\ wanted[c] /\ B!worth_interrupting(bell[b]))
  BY <1>3
<1>5. B!Told(c, b, /\ B!Another(c, bell[b]) /\ client[c].alive /\ c \in Terminals
                   /\ wanted[c] /\ B!worth_interrupting(bell[b]))
  BY <1>2 DEF B!ring
<1>6. B!Told(c, b, raises)
  BY <1>4, <1>5
<1> QED
  BY <1>1, <1>2, <1>3, <1>6

LEMMA RingStep ==
    ASSUME B!BellsAssumption, BInv, NEW c \in BellsClients, B!ring(c)
    PROVE  BInv'
<1> USE DEF BInv
<1>1. PICK b \in B!Numbers, raises \in BOOLEAN :
          /\ b = Head(queue[c]) /\ b \in Line(c) /\ B!Told(c, b, raises) /\ B!Takes(c)
          /\ client[c].is = "hears" /\ UNCHANGED <<called, client, link, wanted>>
          /\ raises <=> /\ B!Another(c, bell[b]) /\ client[c].alive /\ c \in Terminals
                        /\ wanted[c] /\ B!worth_interrupting(bell[b])
  BY RingTakes
<1>2. c \in B!Receivers /\ c # B!Desk
  BY DeskIsNoClient
<1>3. bell[b].stage = "sent"
  BY <1>1, <1>2 DEF SentFirst
<1>4. ASSUME c \in bell[b].sat, bell[b].kind = "bell", bell[b].attached = 0 PROVE raises
  <2>1. InPlace(c) /\ B!Another(c, bell[b])
    BY <1>2, <1>3, <1>4 DEF Sitting, B!Another, Stamped
  <2> QED
    BY <1>1, <1>2, <1>4, <2>1 DEF InPlace, B!worth_interrupting
<1> QED
  BY <1>1, <1>2, <1>4, TakeStep

LEMMA BPreserved ==
    ASSUME B!BellsAssumption PROVE BInv /\ [B!Next]_(B!vars) => BInv'
<1> SUFFICES ASSUME BInv, [B!Next]_(B!vars) PROVE BInv'
  OBVIOUS
<1>1. ASSUME NEW b \in B!Numbers, NEW s \in BellsSessions, NEW kind \in Kinds, B!publish(b, s, kind)
      PROVE  BInv'
  BY <1>1, PublishStep
<1>2. ASSUME NEW b \in B!Numbers, B!Names_(b) \/ B!Counts(b) \/ B!Sends(b) PROVE BInv'
  BY <1>2, NameStep, CountStep, SendStep
<1>3. ASSUME NEW c \in BellsClients,
             \/ \E s \in BellsSessions, viewer \in BOOLEAN : B!attach(c, s, viewer)
             \/ B!Joins(c) \/ B!Subscribes(c)
      PROVE  BInv'
  BY <1>3, ClientStep
<1>4. ASSUME NEW c \in BellsClients, B!Leaves(c) \/ B!Dies(c) \/ B!ring(c) PROVE BInv'
  BY <1>4, LeavesStep, DiesStep, RingStep
<1>5. CASE B!handle
  BY <1>5, HandleStep
<1>6. CASE B!Cut \/ \E r \in B!Receivers : B!notify(r)
  BY <1>6, LinkStep
<1>7. CASE B!Subscribed \/ \E r \in B!Receivers : B!Passes(r)
  BY <1>7, EaseStep
<1>8. ASSUME NEW s \in BellsSessions, NEW n \in BellsNames, B!rename(s, n) PROVE BInv'
  BY <1>8, RenameStep
<1>9. CASE UNCHANGED B!vars
  <2>1. Shapes' /\ Sitting' /\ StampIsItsName'
    BY <1>9 DEF B!vars, BInv, Shapes, Sitting, StampIsItsName, InPlace, B!Counted, B!Underway
  <2>2. ByItsStamp' /\ SentFirst' /\ CameLate' /\ Answered'
    BY <1>9 DEF B!vars, BInv, ByItsStamp, SentFirst, CameLate, Answered, Line
  <2> QED
    BY <2>1, <2>2 DEF BInv
<1> QED
  BY <1>1, <1>2, <1>3, <1>4, <1>5, <1>6, <1>7, <1>8, <1>9 DEF B!Next

LEMMA BHolds == ASSUME B!BellsAssumption PROVE BInv => B!SomebodyHears /\ B!NotTwice
<1> SUFFICES ASSUME BInv PROVE B!SomebodyHears /\ B!NotTwice
  OBVIOUS
<1>1. B!SomebodyHears
  BY DEF B!SomebodyHears, BInv, Answered, Line
<1>2. B!NotTwice
  <2> SUFFICES ASSUME NEW b \in B!Numbers, B!Desk \in bell[b].told, bell[b].told # {B!Desk}, ~bell[b].late
               PROVE  FALSE
    BY DEF B!NotTwice
  <2>1. PICK r \in bell[b].told : r # B!Desk
    OBVIOUS
  <2>2. r \in BellsClients
    BY <2>1 DEF BInv, Shapes, Events, B!Receivers
  <2>3. bell[b].stage = "sent" /\ bell[b].host_attached = 0
    BY DEF BInv, ByItsStamp
  <2> QED
    BY <2>1, <2>2, <2>3 DEF BInv, CameLate
<1> QED
  BY <1>1, <1>2

\* Only a terminal that takes it tells of it, and a stamp that was not overtaken
\* bears the name of its session.
LEMMA BMoves == ASSUME B!BellsAssumption, BInv, B!Next PROVE B!OfAnother
<1> SUFFICES ASSUME NEW b \in B!Numbers, NEW c \in BellsClients, c \in bell'[b].told \ bell[b].told,
                    B!ItsOwn(b, c)
             PROVE  FALSE
  BY DEF B!OfAnother
<1>0. B!Desk \notin BellsClients /\ B!Desk \in B!Receivers /\ BellsClients \subseteq B!Receivers
  BY DeskIsNoClient
<1>1. PICK d \in BellsClients : B!ring(d)
  <2>1. ASSUME NEW n \in B!Numbers, NEW s \in BellsSessions, NEW kind \in Kinds, B!publish(n, s, kind)
        PROVE  FALSE
    <3>1. PICK e : e = [B!None EXCEPT !.stage = "begun", !.of = s, !.kind = kind,
                            !.attached = Cardinality(B!Watching(s)), !.sat = B!InAPlaceToHear(s)]
      OBVIOUS
    <3>2. e.told = {}
      BY <3>1, NoneIsAnEvent DEF Events
    <3>3. bell' = [bell EXCEPT ![n] = e]
      BY <2>1, <3>1 DEF B!publish, B!Cardinality, Cardinality
    <3> QED
      BY <3>2, <3>3 DEF BInv, Shapes
  <2>2. ASSUME NEW n \in B!Numbers, B!Names_(n) \/ B!Counts(n) \/ B!Sends(n) PROVE FALSE
    <3>1. bell[b] \in Events
      BY DEF BInv, Shapes
    <3>2. bell'[b].told = bell[b].told
      <4>1. CASE B!Names_(n)
        BY <3>1, <4>1 DEF B!Names_, BInv, Shapes, Events
      <4>2. CASE B!Counts(n)
        BY <3>1, <4>2 DEF B!Counts, BInv, Shapes, Events
      <4>3. CASE B!Sends(n)
        BY <3>1, <4>3 DEF B!Sends, BInv, Shapes, Events
      <4> QED
        BY <2>2, <4>1, <4>2, <4>3
    <3> QED
      BY <3>2
  <2>3. ASSUME Thinned(b) PROVE FALSE
    BY <2>3 DEF Thinned
  <2>4. ASSUME NEW d \in BellsClients, \/ \E s \in BellsSessions, viewer \in BOOLEAN : B!attach(d, s, viewer)
                                       \/ B!Joins(d) \/ B!Subscribes(d)
        PROVE  FALSE
    <3>1. CASE \E s \in BellsSessions, viewer \in BOOLEAN : B!attach(d, s, viewer)
      <4>1. bell' = [n \in B!Numbers |-> IF B!Underway(n) THEN B!Unsat({B!Desk})[n] ELSE bell[n]]
        BY <3>1 DEF B!attach
      <4> QED
        BY <2>3, <4>1, UnderwayThins DEF BInv
    <3>2. CASE B!Joins(d)
      BY <3>2 DEF B!Joins
    <3>3. CASE B!Subscribes(d)
      BY <3>3 DEF B!Subscribes, BInv, Shapes, Events
    <3> QED
      BY <2>4, <3>1, <3>2, <3>3
  <2>5. ASSUME NEW who, bell' = B!Unsat(who) PROVE FALSE
    BY <2>3, <2>5, UnsatThins DEF BInv
  <2>6. ASSUME NEW d \in BellsClients, B!Leaves(d) \/ B!Dies(d) PROVE FALSE
    BY <2>5, <2>6 DEF B!Leaves, B!Dies
  <2>7. ASSUME B!Cut \/ \E r \in B!Receivers : B!notify(r) PROVE FALSE
    BY <2>5, <2>7 DEF B!Cut, B!notify
  <2>8. ASSUME B!Subscribed \/ \E r \in B!Receivers : B!Passes(r) PROVE FALSE
    BY <2>8 DEF B!Subscribed, B!Passes
  <2>9. ASSUME NEW s \in BellsSessions, NEW n \in BellsNames, B!rename(s, n) PROVE FALSE
    <3>1. bell[b] \in Events
      BY DEF BInv, Shapes
    <3> QED
      BY <2>9, <3>1 DEF B!rename, B!Unsat, Events
  <2>10. ASSUME B!handle PROVE FALSE
    <3>1. PICK n \in B!Numbers, raises \in BOOLEAN : B!Told(B!Desk, n, raises)
      BY <2>10, HandleTakes
    <3> QED
      BY <1>0, <3>1, ToldOrHeld
  <2> QED
    BY <2>1, <2>2, <2>4, <2>6, <2>7, <2>8, <2>9, <2>10 DEF B!Next
<1>2. PICK n \in B!Numbers, raises \in BOOLEAN :
          /\ n = Head(queue[d]) /\ n \in Line(d) /\ B!Told(d, n, raises)
          /\ raises => B!Another(d, bell[n])
  BY <1>1, RingTakes
<1>3. n = b /\ d = c /\ raises
  BY <1>0, <1>2, ToldOrHeld
<1>4. bell[b].stage = "sent"
  BY <1>0, <1>2, <1>3 DEF BInv, SentFirst
<1>5. bell[b].name = called[bell[b].of]
  BY <1>4 DEF BInv, StampIsItsName, B!ItsOwn, Stamped
<1> QED
  BY <1>2, <1>3, <1>5 DEF B!Another, B!ItsOwn

\* Whatever it does, a behaviour that is of the bells keeps it.
BPart == part = "bells" => BInv

LEMMA BPartInitially == Init => BPart
<1> SUFFICES ASSUME Init, part = "bells" PROVE BInv
  BY DEF BPart
<1>1. B!Init
  BY DEF Init
<1> QED
  BY <1>1, BellsAssumed, BInitially

LEMMA BPartStep ==
    ASSUME [Next]_vars, part' = "bells"
    PROVE  part = "bells" /\ [B!Next]_(B!vars)
<1>1. CASE UNCHANGED vars
  BY <1>1 DEF vars, Beyond19, Beyond17, Beyond13, Beyond12, Beyond10,
     Beyond9, Beyond8, Beyond7, Beyond4,
     B!vars
<1>2. CASE Next
  BY <1>2 DEF Next
<1> QED
  BY <1>1, <1>2

LEMMA BPartPreserved == BPart /\ [Next]_vars => BPart'
<1> SUFFICES ASSUME BPart, [Next]_vars, part' = "bells" PROVE BInv'
  BY DEF BPart
<1> QED
  BY BPartStep, BPreserved, BellsAssumed DEF BPart

LEMMA BPartMoves ==
    BPart /\ [Next]_vars => [part = "bells" => B!OfAnother]_vars
<1> SUFFICES ASSUME BPart, Next, part = "bells" PROVE B!OfAnother
  OBVIOUS
<1>1. B!Next
  BY DEF Next
<1> QED
  BY <1>1, BMoves, BellsAssumed DEF BPart

HIDE DEF called, client, link, wanted, queue, cooling, bell

(***************************************************************************)
(* What holds of Checkpoint for any machines, names and number of          *)
(* sessions.                                                               *)
(*                                                                         *)
(* A save writes down only what is its own work (OwnIsWritten): an answer  *)
(* is taken for a session when it is of the pid that was listed.  So what  *)
(* it does not write down at its own work is among those it could not take *)
(* an answer for, and there are at most as many of those as it counts as   *)
(* lost.  A restart that lost none has all of them in the file, and until  *)
(* it stops the node nobody writes another (WrittenDown); the work of a listed    *)
(* session stays what it was while others begin.                           *)
(***************************************************************************)
runs == v1
deed == v2
file == v3
phase == v4
restart == v5
counted == v6
only == v7
before == v8
listing == v9
refused == v10
doing == v11
lost == v12

USE DEF runs, deed, file, phase, restart, counted, only, before, listing,
    refused, doing, lost

Entries == [host: CheckpointHosts, name: CheckpointNames, deed: Nat]

\* What runs anywhere, and what was listed of it.
Everything == {q \in CheckpointHosts \X CheckpointNames : runs[q[1]][q[2]] # C!None}
ShownNow == {q \in CheckpointHosts \X CheckpointNames : q[1] \in DOMAIN listing /\ q[2] \in DOMAIN listing[q[1]]}

CTypes ==
    /\ deed \in Seq(Nat) /\ runs \in [CheckpointHosts -> [CheckpointNames -> 0..Len(deed)]]
    /\ IsFiniteSet(Everything)
    /\ file \subseteq Entries /\ before \subseteq Entries

ListingIsOfSessions ==
    /\ DOMAIN listing \subseteq CheckpointHosts /\ IsFiniteSet(ShownNow)
    /\ \A h \in DOMAIN listing :
         /\ DOMAIN listing[h] \subseteq CheckpointNames
         /\ \A n \in DOMAIN listing[h] : listing[h][n] \in 1..Len(deed)

\* A restart asks this machine alone, and has what it said.
AsksHere ==
    /\ restart => phase \in {"counted", "listed", "saved", "stopped"}
    /\ restart /\ phase \in {"listed", "saved"} => only = {CheckpointHere} /\ CheckpointHere \in DOMAIN listing

WrittenDown ==
    phase = "saved" => /\ restart
                       /\ \A n \in DOMAIN listing[CheckpointHere] : C!Own(<<CheckpointHere, n>>) \in file

CInv == CTypes /\ ListingIsOfSessions /\ AsksHere /\ WrittenDown

(***************************************************************************)
(* The machines.                                                           *)
(***************************************************************************)
LEMMA NothingIsListed == \A f : f = <<>> => DOMAIN f = {}
OBVIOUS

LEMMA CInitially == ASSUME C!CheckpointAssumption PROVE C!Init => CInv
<1> SUFFICES ASSUME C!Init PROVE CInv
  OBVIOUS
<1>1. <<>> \in Seq(Nat) /\ Len(<<>>) = 0
  OBVIOUS
<1>2. DOMAIN listing = {}
  BY NothingIsListed DEF C!Init
<1>3. Everything = {} /\ ShownNow = {}
  BY <1>2 DEF C!Init, Everything, ShownNow, C!None
<1>4. CTypes
  BY <1>1, <1>3, FS_EmptySet DEF C!Init, CTypes, C!None
<1>5. ListingIsOfSessions
  BY <1>2, <1>3, FS_EmptySet DEF ListingIsOfSessions
<1> QED
  BY <1>4, <1>5 DEF C!Init, CInv, AsksHere, WrittenDown

\* One more session begins on a machine; what the others work on is as it was.
LEMMA BeginKeeps ==
    ASSUME CTypes, NEW h \in CheckpointHosts, NEW n \in CheckpointNames, NEW what \in Nat, C!Begin(h, n, what)
    PROVE  /\ deed' \in Seq(Nat) /\ runs' \in [CheckpointHosts -> [CheckpointNames -> 0..Len(deed')]]
           /\ IsFiniteSet(Everything')
           /\ Len(deed') = Len(deed) + 1 /\ \A p \in 1..Len(deed) : deed'[p] = deed[p]
<1>1. PICK len \in Nat : len = Len(deed)
  BY DEF CTypes
<1>2. /\ deed' \in Seq(Nat) /\ Len(deed') = len + 1
      /\ \A p \in 1..len : deed'[p] = deed[p]
  BY <1>1 DEF CTypes, C!Begin
<1>3. runs' = [runs EXCEPT ![h] = [runs[h] EXCEPT ![n] = len + 1]]
  BY <1>1 DEF C!Begin, CTypes
<1>4. runs' \in [CheckpointHosts -> [CheckpointNames -> 0..len + 1]]
  <2>1. runs \in [CheckpointHosts -> [CheckpointNames -> 0..len + 1]]
    BY <1>1 DEF CTypes
  <2> QED
    BY <1>1, <1>3, <2>1
<1>5. Everything' \subseteq Everything \union {<<h, n>>}
  <2>1. \A g \in CheckpointHosts, m \in CheckpointNames : <<g, m>> # <<h, n>> => runs'[g][m] = runs[g][m]
    BY <1>3 DEF CTypes
  <2> QED
    BY <2>1 DEF Everything, C!None
<1>6. IsFiniteSet(Everything')
  <2>1. IsFiniteSet(Everything \union {<<h, n>>})
    BY FS_AddElement DEF CTypes
  <2> QED
    BY <1>5, <2>1, FS_Subset
<1> QED
  BY <1>1, <1>2, <1>4, <1>6

\* A machine's sessions change, and what was learned of them does not.
LEMMA MachineKeeps ==
    ASSUME CInv, UNCHANGED <<file, restart, only, listing, phase>>,
           before' \subseteq before,
           deed' \in Seq(Nat), runs' \in [CheckpointHosts -> [CheckpointNames -> 0..Len(deed')]],
           IsFiniteSet(Everything'), Len(deed') >= Len(deed),
           \A p \in 1..Len(deed) : deed'[p] = deed[p]
    PROVE  CInv'
<1> USE DEF CInv
<1>1. PICK len \in Nat, M \in Nat : len = Len(deed) /\ M = Len(deed') /\ M >= len
  BY DEF CTypes
<1>2. CTypes'
  BY DEF CTypes
<1>3. ListingIsOfSessions'
  BY <1>1 DEF ListingIsOfSessions, ShownNow
<1>4. AsksHere'
  BY DEF AsksHere
<1>5. WrittenDown'
  <2> SUFFICES ASSUME phase = "saved", NEW n \in DOMAIN listing[CheckpointHere]
               PROVE  restart /\ C!Own(<<CheckpointHere, n>>)' \in file
    BY DEF WrittenDown
  <2>1. restart /\ C!Own(<<CheckpointHere, n>>) \in file /\ listing[CheckpointHere][n] \in 1..len
    BY <1>1 DEF WrittenDown, AsksHere, ListingIsOfSessions
  <2>2. C!Own(<<CheckpointHere, n>>)' = C!Own(<<CheckpointHere, n>>)
    BY <1>1, <2>1 DEF C!Own
  <2> QED
    BY <2>1, <2>2
<1> QED
  BY <1>2, <1>3, <1>4, <1>5

LEMMA SpawnStep ==
    ASSUME C!CheckpointAssumption, CInv, NEW h \in CheckpointHosts, NEW n \in CheckpointNames, C!Spawn(h, n)
    PROVE  CInv'
<1>1. Len(deed) \in Nat /\ CTypes
  BY DEF CInv, CTypes
<1>2. C!Begin(h, n, Len(deed) + 1) /\ UNCHANGED <<file, C!command>> /\ Len(deed) + 1 \in Nat
  BY <1>1 DEF C!Spawn
<1>3. /\ deed' \in Seq(Nat) /\ runs' \in [CheckpointHosts -> [CheckpointNames -> 0..Len(deed')]]
      /\ IsFiniteSet(Everything')
      /\ Len(deed') = Len(deed) + 1 /\ \A p \in 1..Len(deed) : deed'[p] = deed[p]
  BY <1>1, <1>2, BeginKeeps
<1> QED
  BY <1>1, <1>2, <1>3, MachineKeeps DEF C!command

LEMMA EndStep ==
    ASSUME C!CheckpointAssumption, CInv, NEW h \in CheckpointHosts, NEW n \in CheckpointNames, NEW m \in CheckpointNames,
           C!End(h, n) \/ C!Rename(h, n, m)
    PROVE  CInv'
<1>1. UNCHANGED <<deed, file, C!command>> /\ CTypes /\ Len(deed) \in Nat
  BY DEF C!End, C!Rename, CInv, CTypes
<1>2. /\ runs' \in [CheckpointHosts -> [CheckpointNames -> 0..Len(deed)]]
      /\ Everything' \subseteq Everything \union {<<h, m>>}
  <2>1. CASE C!End(h, n)
    <3>1. runs' = [runs EXCEPT ![h] = [runs[h] EXCEPT ![n] = 0]]
      BY <2>1 DEF C!End, CTypes, C!None
    <3>2. runs' \in [CheckpointHosts -> [CheckpointNames -> 0..Len(deed)]]
      BY <1>1, <3>1 DEF CTypes
    <3>3. \A g \in CheckpointHosts, k \in CheckpointNames : runs'[g][k] # 0 => runs[g][k] # 0
      BY <1>1, <3>1 DEF CTypes
    <3> QED
      BY <3>2, <3>3 DEF Everything, C!None
  <2>2. CASE C!Rename(h, n, m)
    <3>1. PICK p : p = runs[h][n]
      OBVIOUS
    <3>2. p \in 0..Len(deed) /\ m # n
      BY <1>1, <2>2, <3>1 DEF CTypes, C!Rename
    <3>3. PICK one : one = [runs[h] EXCEPT ![m] = p]
      OBVIOUS
    <3>4. PICK both : both = [one EXCEPT ![n] = 0]
      OBVIOUS
    <3>6. runs' = [runs EXCEPT ![h] = both]
      <4>1. runs' = [runs EXCEPT ![h][m] = p, ![h][n] = 0]
        BY <2>2, <3>1 DEF C!Rename, C!None
      <4>2. runs \in [CheckpointHosts -> [CheckpointNames -> 0..Len(deed)]]
        BY <1>1 DEF CTypes
      <4>3. PICK r : r = [runs EXCEPT ![h] = one]
        OBVIOUS
      <4>4. r[h] = one /\ runs' = [r EXCEPT ![h] = [r[h] EXCEPT ![n] = 0]]
        BY <3>3, <4>1, <4>2, <4>3
      <4>5. runs' = [r EXCEPT ![h] = both]
        BY <3>4, <4>4
      <4> QED
        BY <4>2, <4>3, <4>5
    <3>7. runs' \in [CheckpointHosts -> [CheckpointNames -> 0..Len(deed)]]
      <4>1. runs[h] \in [CheckpointNames -> 0..Len(deed)]
        BY <1>1 DEF CTypes
      <4>2. both \in [CheckpointNames -> 0..Len(deed)]
        BY <1>1, <3>2, <3>3, <3>4, <4>1
      <4> QED
        BY <1>1, <3>6, <4>2 DEF CTypes
    <3>5. \A g \in CheckpointHosts, k \in CheckpointNames :
              runs'[g][k] # 0 => runs[g][k] # 0 \/ (g = h /\ k = m)
      BY <1>1, <3>3, <3>4, <3>6 DEF CTypes
    <3> QED
      BY <3>5, <3>7 DEF Everything, C!None
  <2> QED
    BY <2>1, <2>2
<1>3. IsFiniteSet(Everything')
  <2>1. IsFiniteSet(Everything \union {<<h, m>>})
    BY <1>1, FS_AddElement DEF CTypes
  <2> QED
    BY <1>2, <2>1, FS_Subset
<1>4. deed' \in Seq(Nat) /\ deed' = deed
  BY <1>1 DEF CTypes
<1>5. Len(deed') >= Len(deed) /\ \A p \in 1..Len(deed) : deed'[p] = deed[p]
  BY <1>1, <1>4
<1>6. /\ UNCHANGED <<file, restart, only, listing, phase>> /\ before' \subseteq before
      /\ runs' \in [CheckpointHosts -> [CheckpointNames -> 0..Len(deed')]]
  BY <1>1, <1>2, <1>4 DEF C!command
<1> QED
  BY <1>3, <1>4, <1>5, <1>6, MachineKeeps

(***************************************************************************)
(* A save.                                                                 *)
(***************************************************************************)
LEMMA ListStep ==
    ASSUME C!CheckpointAssumption, CInv, NEW asked, NEW answering, C!List(asked, answering)
    PROVE  CInv'
<1> USE DEF CInv
<1>1. /\ phase = "idle" \/ (phase = "counted" /\ asked = {CheckpointHere})
      /\ answering \subseteq CheckpointHosts /\ asked \intersect answering # {}
      /\ phase' = "listed" /\ only' = asked /\ before' = file
      /\ listing' = [h \in answering |-> [n \in C!Running(h) |-> runs[h][n]]]
      /\ UNCHANGED <<runs, deed, file, restart>>
  BY DEF C!List
<1>2. /\ DOMAIN listing' = answering
      /\ \A h \in answering : /\ DOMAIN listing'[h] = C!Running(h)
                              /\ \A n \in C!Running(h) : listing'[h][n] = runs[h][n]
  BY <1>1
<1>3. CTypes'
  BY <1>1 DEF CTypes, Everything
<1>4. ListingIsOfSessions'
  <2>1. ShownNow' \subseteq Everything
    BY <1>1, <1>2 DEF ShownNow, Everything, C!Running
  <2>2. IsFiniteSet(ShownNow')
    BY <2>1, FS_Subset DEF CTypes
  <2>3. \A h \in answering : /\ DOMAIN listing'[h] \subseteq CheckpointNames
                             /\ \A n \in DOMAIN listing'[h] : listing'[h][n] \in 1..Len(deed)
    <3> TAKE h \in answering
    <3>1. DOMAIN listing'[h] \subseteq CheckpointNames
      BY <1>2 DEF C!Running
    <3>2. ASSUME NEW n \in DOMAIN listing'[h] PROVE listing'[h][n] \in 1..Len(deed)
      <4>1. n \in CheckpointNames /\ runs[h][n] # 0 /\ listing'[h][n] = runs[h][n]
        BY <1>2, <3>2 DEF C!Running, C!None
      <4>2. Len(deed) \in Nat /\ runs[h][n] \in 0..Len(deed)
        BY <1>1, <4>1 DEF CTypes
      <4> QED
        BY <4>1, <4>2
    <3> QED
      BY <3>1, <3>2
  <2> QED
    BY <1>1, <1>2, <2>2, <2>3 DEF ListingIsOfSessions
<1>5. AsksHere'
  <2>1. restart => asked = {CheckpointHere}
    BY <1>1 DEF AsksHere
  <2>2. restart => CheckpointHere \in answering
    BY <1>1, <2>1
  <2> QED
    BY <1>1, <1>2, <2>1, <2>2 DEF AsksHere
<1>6. WrittenDown'
  BY <1>1 DEF WrittenDown
<1> QED
  BY <1>3, <1>4, <1>5, <1>6

\* What a save does not write down at its own work, it counts as lost.
LEMMA OwnIsWritten ==
    ASSUME CInv, C!Write
    PROVE  /\ C!Listed = {q \in ShownNow : q[1] \in only}
           /\ lost' \in Int
           /\ IsFiniteSet({q \in C!Listed : C!Own(q) \notin file'})
           /\ Cardinality({q \in C!Listed : C!Own(q) \notin file'}) <= lost'
           /\ {e \in before : e.host \notin C!Wanted \ refused} \subseteq file'
           /\ file' \subseteq Entries
<1> USE DEF CInv
<1> DEFINE taken == {p \in C!Listed : C!Described(p[1], p[2])}
           entry(q) == [host |-> q[1], name |-> q[2], deed |-> deed[doing[q].pid]]
           missed == {q \in C!Listed : C!Own(q) \notin file'}
<1>1. PICK fresh, carried :
          /\ fresh = {entry(q) : q \in taken}
          /\ carried = {e \in before : \/ e.host \notin C!Wanted \ refused
                                       \/ /\ <<e.host, e.name>> \in C!Listed
                                          /\ ~C!Described(e.host, e.name)}
          /\ file' = fresh \union carried
          /\ lost' = Cardinality(C!Listed) - Cardinality(fresh)
  BY DEF C!Write, C!Cardinality, Cardinality
<1>2. C!Listed = {q \in ShownNow : q[1] \in only}
  BY DEF C!Listed, ShownNow, C!Wanted, ListingIsOfSessions
<1>3. IsFiniteSet(C!Listed) /\ Cardinality(C!Listed) \in Nat
  BY <1>2, FS_Subset, FS_CardinalityType DEF ListingIsOfSessions
<1>4. taken \subseteq C!Listed /\ IsFiniteSet(taken) /\ Cardinality(taken) \in Nat
  BY <1>3, FS_Subset, FS_CardinalityType
<1>5. /\ IsFiniteSet(fresh) /\ Cardinality(fresh) \in Nat
      /\ Cardinality(fresh) <= Cardinality(taken)
  <2>1. [q \in taken |-> entry(q)] \in Surjection(taken, fresh)
    BY <1>1 DEF Surjection
  <2> QED
    BY <1>4, <2>1, FS_Surjection, FS_CardinalityType
<1>6. \A q \in taken : C!Own(q) = entry(q)
  <2> SUFFICES ASSUME NEW q \in taken PROVE C!Own(q) = entry(q)
    OBVIOUS
  <2>1. PICK h \in CheckpointHosts, n \in CheckpointNames : q = <<h, n>>
    BY DEF C!Listed
  <2>2. doing[<<h, n>>].pid = listing[h][n]
    BY <2>1 DEF C!Described, C!Same
  <2> QED
    BY <2>1, <2>2 DEF C!Own
<1>7. missed \subseteq C!Listed \ taken
  BY <1>1, <1>6
<1>8. /\ IsFiniteSet(C!Listed \ taken)
      /\ Cardinality(C!Listed \ taken) = Cardinality(C!Listed) - Cardinality(taken)
  <2>1. taken \intersect C!Listed = taken /\ C!Listed \intersect taken = taken
    BY <1>4
  <2> QED
    BY <1>3, <2>1, FS_Difference
<1>9. /\ IsFiniteSet(missed) /\ Cardinality(missed) \in Nat
      /\ Cardinality(missed) <= Cardinality(C!Listed \ taken)
  BY <1>7, <1>8, FS_Subset, FS_CardinalityType
<1>10. Cardinality(missed) <= lost' /\ lost' \in Int
  <2> HIDE DEF taken, missed
  <2>1. Cardinality(C!Listed \ taken) \in Nat
    BY <1>8, FS_CardinalityType
  <2> QED
    BY <1>1, <1>3, <1>4, <1>5, <1>8, <1>9, <2>1
<1>11. file' \subseteq Entries
  <2>1. \A q \in taken : C!Own(q) \in Entries
    <3> TAKE q \in taken
    <3>1. PICK h \in CheckpointHosts, n \in CheckpointNames : q = <<h, n>> /\ h \in DOMAIN listing /\ n \in DOMAIN listing[h]
      BY DEF C!Listed, C!Wanted
    <3>2. deed[listing[h][n]] \in Nat
      <4>1. listing[h][n] \in 1..Len(deed)
        BY <3>1 DEF ListingIsOfSessions
      <4> QED
        BY <4>1 DEF CTypes
    <3> QED
      BY <3>1, <3>2 DEF C!Own, Entries
  <2> QED
    BY <1>1, <1>6, <2>1 DEF CTypes
<1> QED
  BY <1>1, <1>2, <1>9, <1>10, <1>11

LEMMA WriteStep ==
    ASSUME C!CheckpointAssumption, CInv, C!Write
    PROVE  CInv'
<1> USE DEF CInv
<1>1. phase = "listed" /\ UNCHANGED <<runs, deed>> /\ file' \subseteq Entries
  BY OwnIsWritten DEF C!Write
<1>2. CASE C!Done
  <2>1. DOMAIN listing' = {}
    BY <1>2, NothingIsListed DEF C!Done
  <2>2. CTypes'
    BY <1>1, <1>2 DEF CTypes, C!Done, Everything
  <2>3. ListingIsOfSessions'
    <3>1. ShownNow' = {}
      BY <2>1 DEF ShownNow
    <3> QED
      BY <2>1, <3>1, FS_EmptySet DEF ListingIsOfSessions
  <2>4. AsksHere' /\ WrittenDown'
    BY <1>2 DEF C!Done, AsksHere, WrittenDown
  <2> QED
    BY <2>2, <2>3, <2>4
<1>3. CASE /\ restart /\ lost' = 0 /\ phase' = "saved"
           /\ UNCHANGED <<restart, counted, only, before, listing, refused, doing>>
  <2>1. CTypes'
    BY <1>1, <1>3 DEF CTypes, Everything
  <2>2. ListingIsOfSessions'
    BY <1>1, <1>3 DEF ListingIsOfSessions, ShownNow
  <2>3. AsksHere'
    BY <1>1, <1>3 DEF AsksHere
  <2>4. WrittenDown'
    <3> SUFFICES ASSUME NEW n \in DOMAIN listing[CheckpointHere] PROVE C!Own(<<CheckpointHere, n>>) \in file'
      BY <1>1, <1>3 DEF WrittenDown, C!Own
    <3>1. {q \in C!Listed : C!Own(q) \notin file'} = {}
      <4>1. PICK missed : missed = {q \in C!Listed : C!Own(q) \notin file'}
        OBVIOUS
      <4>2. IsFiniteSet(missed) /\ Cardinality(missed) \in Nat /\ Cardinality(missed) <= 0
        BY <1>3, <4>1, OwnIsWritten, FS_CardinalityType
      <4>3. missed = {}
        BY <4>2, FS_EmptySet
      <4> QED
        BY <4>1, <4>3
    <3>2. <<CheckpointHere, n>> \in C!Listed
      BY <1>1, <1>3 DEF AsksHere, ListingIsOfSessions, C!Listed, C!Wanted, C!CheckpointAssumption
    <3> QED
      BY <3>1, <3>2
  <2> QED
    BY <2>1, <2>2, <2>3, <2>4
<1> QED
  BY <1>2, <1>3 DEF C!Write

\* The rest: what is learned besides, and the two halves of a restart.
LEMMA AskingStep ==
    ASSUME C!CheckpointAssumption, CInv,
           \/ C!Count \/ C!Stop \/ C!Finish
           \/ \E h \in CheckpointHosts : C!Refuse(h) \/ \E full : C!Ask(h, full)
    PROVE  CInv'
<1> USE DEF CInv
<1>0. Len(deed) \in Nat
  BY DEF CTypes
<1>1. UNCHANGED <<deed, file, only, listing, before>>
  BY DEF C!Count, C!Stop, C!Finish, C!Refuse, C!Ask
<1>2. CTypes'
  <2>1. CASE C!Stop
    <3>1. runs' = [runs EXCEPT ![CheckpointHere] = [n \in CheckpointNames |-> 0]]
      BY <2>1 DEF C!Stop, C!None
    <3>2. runs' \in [CheckpointHosts -> [CheckpointNames -> 0..Len(deed)]]
      <4>1. [n \in CheckpointNames |-> 0] \in [CheckpointNames -> 0..Len(deed)]
        BY <1>0
      <4> QED
        BY <3>1, <4>1 DEF CTypes
    <3>3. \A g \in CheckpointHosts, k \in CheckpointNames : runs'[g][k] # 0 => runs[g][k] # 0
      BY <3>1 DEF CTypes
    <3>4. Everything' \subseteq Everything
      BY <3>3 DEF Everything, C!None
    <3>5. IsFiniteSet(Everything')
      BY <3>4, FS_Subset DEF CTypes
    <3> QED
      BY <1>1, <3>2, <3>5 DEF CTypes
  <2>2. CASE ~C!Stop
    BY <1>1, <2>2 DEF C!Count, C!Finish, C!Refuse, C!Ask, CTypes, Everything
  <2> QED
    BY <2>1, <2>2
<1>3. ListingIsOfSessions'
  BY <1>1 DEF ListingIsOfSessions, ShownNow
<1>4. AsksHere'
  <2>1. CASE C!Count \/ C!Stop \/ C!Finish
    BY <1>1, <2>1 DEF C!Count, C!Stop, C!Finish, AsksHere
  <2>2. CASE \E h \in CheckpointHosts : C!Refuse(h) \/ \E full : C!Ask(h, full)
    <3>1. UNCHANGED <<restart, phase>>
      BY <2>2 DEF C!Refuse, C!Ask
    <3> QED
      BY <1>1, <3>1 DEF AsksHere
  <2> QED
    BY <2>1, <2>2
<1>5. WrittenDown'
  BY <1>1 DEF C!Count, C!Stop, C!Finish, C!Refuse, C!Ask, WrittenDown, C!Own
<1> QED
  BY <1>2, <1>3, <1>4, <1>5

LEMMA LoadStep ==
    ASSUME C!CheckpointAssumption, CInv, NEW asked, C!Load(asked)
    PROVE  CInv'
<1> USE DEF CInv
<1>1. /\ phase' = "restoring" /\ before' \subseteq file /\ restart' = FALSE /\ listing' = <<>>
      /\ UNCHANGED <<runs, deed, file>>
  BY DEF C!Load
<1>2. DOMAIN listing' = {}
  BY <1>1, NothingIsListed
<1>3. CTypes'
  BY <1>1 DEF CTypes, Everything
<1>4. ListingIsOfSessions'
  <2>1. ShownNow' = {}
    BY <1>2 DEF ShownNow
  <2> QED
    BY <1>2, <2>1, FS_EmptySet DEF ListingIsOfSessions
<1>5. AsksHere' /\ WrittenDown'
  BY <1>1 DEF AsksHere, WrittenDown
<1> QED
  BY <1>3, <1>4, <1>5

LEMMA PutBackStep ==
    ASSUME C!CheckpointAssumption, CInv, NEW e \in before, C!PutBack(e)
    PROVE  CInv'
<1>1. /\ UNCHANGED <<file, restart, only, listing, phase>> /\ before' \subseteq before
      /\ e.host \in CheckpointHosts /\ e.name \in CheckpointNames /\ e.deed \in Nat /\ CTypes
      /\ Len(deed) \in Nat
  BY DEF C!PutBack, CInv, CTypes, Entries
<1>2. CASE C!Begin(e.host, e.name, e.deed)
  <2>1. /\ deed' \in Seq(Nat) /\ runs' \in [CheckpointHosts -> [CheckpointNames -> 0..Len(deed')]]
        /\ IsFiniteSet(Everything')
        /\ Len(deed') = Len(deed) + 1 /\ \A p \in 1..Len(deed) : deed'[p] = deed[p]
    BY <1>1, <1>2, BeginKeeps
  <2> QED
    BY <1>1, <2>1, MachineKeeps
<1>3. CASE UNCHANGED <<runs, deed>>
  <2>1. /\ deed' \in Seq(Nat) /\ runs' \in [CheckpointHosts -> [CheckpointNames -> 0..Len(deed')]]
        /\ IsFiniteSet(Everything')
        /\ Len(deed') >= Len(deed) /\ \A p \in 1..Len(deed) : deed'[p] = deed[p]
    BY <1>1, <1>3 DEF CTypes, Everything
  <2> QED
    BY <1>1, <2>1, MachineKeeps
<1> QED
  BY <1>2, <1>3 DEF C!PutBack

LEMMA CPreserved ==
    ASSUME C!CheckpointAssumption PROVE CInv /\ [C!Next]_(C!vars) => CInv'
<1> SUFFICES ASSUME CInv, [C!Next]_(C!vars) PROVE CInv'
  OBVIOUS
<1>1. ASSUME NEW h \in CheckpointHosts, NEW n \in CheckpointNames, C!Spawn(h, n) \/ C!End(h, n) PROVE CInv'
  BY <1>1, SpawnStep, EndStep
<1>2. ASSUME NEW h \in CheckpointHosts, NEW n \in CheckpointNames, NEW m \in CheckpointNames, C!Rename(h, n, m) PROVE CInv'
  BY <1>2, EndStep
<1>3. ASSUME NEW asked, NEW answering, C!List(asked, answering) PROVE CInv'
  BY <1>3, ListStep
<1>4. CASE \/ C!Count \/ C!Stop \/ C!Finish
           \/ \E h \in CheckpointHosts : C!Refuse(h) \/ \E full \in SUBSET CheckpointNames : C!Ask(h, full)
  BY <1>4, AskingStep
<1>5. CASE C!Write
  BY <1>5, WriteStep
<1>6. ASSUME NEW asked, C!Load(asked) PROVE CInv'
  BY <1>6, LoadStep
<1>7. ASSUME NEW e \in before, C!PutBack(e) PROVE CInv'
  BY <1>7, PutBackStep
<1>8. CASE UNCHANGED C!vars
  BY <1>8 DEF C!vars, C!command, CInv, CTypes, ListingIsOfSessions, AsksHere, WrittenDown,
              Everything, ShownNow, C!Own
<1> QED
  BY <1>1, <1>2, <1>3, <1>4, <1>5, <1>6, <1>7, <1>8 DEF C!Next

LEMMA CMoves == ASSUME C!CheckpointAssumption, CInv, C!Next PROVE C!Said
<1>1. ASSUME C!Stop PROVE \A n \in DOMAIN listing[CheckpointHere] : C!Own(<<CheckpointHere, n>>) \in file
  BY <1>1 DEF C!Stop, CInv, WrittenDown
<1> QED
  BY <1>1, OwnIsWritten DEF C!Said, C!Cardinality, Cardinality

\* Whatever it does, a behaviour that is of a checkpoint keeps it.
CPart == part = "checkpoint" => CInv

LEMMA CPartInitially == Init => CPart
<1> SUFFICES ASSUME Init, part = "checkpoint" PROVE CInv
  BY DEF CPart
<1>1. C!Init
  BY DEF Init
<1> QED
  BY <1>1, CheckpointAssumed, CInitially

LEMMA CPartStep ==
    ASSUME [Next]_vars, part' = "checkpoint"
    PROVE  part = "checkpoint" /\ [C!Next]_(C!vars)
<1>1. CASE UNCHANGED vars
  BY <1>1 DEF vars, Beyond19, Beyond17, Beyond13, Beyond12, Beyond10,
     Beyond9, Beyond8, Beyond7, Beyond4,
     C!vars, C!command
<1>2. CASE Next
  BY <1>2 DEF Next
<1> QED
  BY <1>1, <1>2

LEMMA CPartPreserved == CPart /\ [Next]_vars => CPart'
<1> SUFFICES ASSUME CPart, [Next]_vars, part' = "checkpoint" PROVE CInv'
  BY DEF CPart
<1> QED
  BY CPartStep, CPreserved, CheckpointAssumed DEF CPart

LEMMA CPartMoves ==
    CPart /\ [Next]_vars => [part = "checkpoint" => C!Said]_vars
<1> SUFFICES ASSUME CPart, Next, part = "checkpoint" PROVE C!Said
  OBVIOUS
<1>1. C!Next
  BY DEF Next
<1> QED
  BY <1>1, CMoves, CheckpointAssumed DEF CPart

HIDE DEF runs, deed, file, phase, restart, counted, only, before, listing,
    refused, doing, lost

(***************************************************************************)
(* What holds of Rows for any number of sessions and any names.            *)
(*                                                                         *)
(* A name is one session's for good: nobody is given it again.  So there   *)
(* is an owner of each (NamesRight), and what an id means may change its   *)
(* name but not its owner: a rename that is followed is from one name of a *)
(* session to another (OthersFollowed).  Of the sessions the last answer   *)
(* lists an id has the very name it lists (Meant), which needs that one    *)
(* that went missing from an answer has ended, and comes back in none      *)
(* (Ended).  A picture keeps the owners its ids have, whatever is          *)
(* published behind it (PointTo).                                          *)
(***************************************************************************)
L_name == v1
born == v2
pending == v3
cached == v4
L_at == v5
rows == v6
shown == v7
L_taken == v9
confirmed == v10

USE DEF L_name, born, pending, cached, L_at, rows, shown, L_taken, confirmed

(***************************************************************************)
(* Numbers, some of the places of a sequence, and folds.                   *)
(***************************************************************************)
\* A set of numbers that has one has a least.
LEMMA LeastOf ==
    ASSUME NEW M \in SUBSET Nat, M # {}
    PROVE  \E m \in M : \A k \in M : m <= k
<1> DEFINE less == {p \in Nat \X Nat : p[1] < p[2]}
<1>1. IsWellFoundedOn(less, Nat)
  BY NatLessThanWellFounded DEF OpToRel
<1>2. \A k, m \in M : k < m => <<k, m>> \in less
  OBVIOUS
<1> HIDE DEF less
<1>3. PICK m \in M : \A k \in M : <<k, m>> \notin less
  BY <1>1, WFMin
<1>4. \A k \in M : ~ (k < m)
  BY <1>2, <1>3, Zenon
<1>5. \A k \in M : m <= k
  BY <1>4
<1> QED
  BY <1>5

\* What holds of 0, and of a number up to n if it does of the one before it.
LEMMA Upwards ==
    ASSUME NEW n \in Nat, NEW Z \in SUBSET (0..n), 0 \in Z,
           \A k \in 1..n : k - 1 \in Z => k \in Z
    PROVE  \A k \in 0..n : k \in Z
<1> DEFINE bad == (0..n) \ Z
<1>1. ASSUME bad # {} PROVE FALSE
  <2>1. bad \in SUBSET Nat
    OBVIOUS
  <2>2. PICK m \in bad : \A k \in bad : m <= k
    <3> HIDE DEF bad
    <3> QED
      BY <1>1, <2>1, LeastOf
  <2>3. m \in 1..n /\ m \notin Z
    OBVIOUS
  <2>4. m - 1 \in bad
    BY <2>3
  <2> HIDE DEF bad
  <2> QED
    BY <2>2, <2>3, <2>4
<1> QED
  BY <1>1

\* Some of the numbers up to n, if any, have a greatest: what Max chooses.
LEMMA GreatestOf ==
    ASSUME NEW n \in Nat, NEW M \in SUBSET (1..n), M # {}
    PROVE  L!Max(M) \in M /\ \A k \in M : k <= L!Max(M)
<1> DEFINE U == {n - k : k \in M}
<1>1. U \in SUBSET Nat /\ U # {}
  <2>1. \A k \in M : k \in 1..n /\ n - k \in U
    OBVIOUS
  <2>2. \A k \in M : n - k \in Nat
    BY <2>1
  <2> QED
    BY <2>1, <2>2
<1>2. PICK m \in U : \A k \in U : m <= k
  <2> HIDE DEF U
  <2> QED
    BY <1>1, LeastOf
<1>3. PICK g \in M : m = n - g
  OBVIOUS
<1>4. \A k \in M : n - g <= n - k
  BY <1>2, <1>3
<1>5. \A k \in M : g >= k
  BY <1>4
<1> QED
  BY <1>5 DEF L!Max

\* The places of a set, in order: q says of each number which place that is.
Placed(q, places) ==
    /\ Cardinality(places) \in Nat
    /\ q = [n \in 1..Cardinality(places) |->
               CHOOSE i \in places : Cardinality({j \in places : j < i}) = n - 1]
    /\ q \in [1..Cardinality(places) -> places]
    /\ \A i \in places : \E n \in 1..Cardinality(places) : q[n] = i
    /\ \A m, n \in 1..Cardinality(places) : m < n => q[m] < q[n]

LEMMA PlacesOf ==
    ASSUME NEW top \in Nat, NEW Q \in SUBSET (1..top)
    PROVE  \E q : Placed(q, Q)
<1> DEFINE count == Cardinality(Q)
           below(i) == {j \in Q : j < i}
           rank == [i \in Q |-> Cardinality(below(i))]
           q == [n \in 1..count |-> CHOOSE i \in Q : Cardinality(below(i)) = n - 1]
<1>1. IsFiniteSet(Q)
  <2> HIDE DEF count, below, rank, q
  <2>1. IsFiniteSet(1..top)
    BY FS_Interval
  <2> QED
    BY <2>1, FS_Subset
<1>2. count \in Nat
  BY <1>1, FS_CardinalityType
<1>3. \A i \in Q : i \in Int /\ below(i) \in SUBSET Q /\ i \notin below(i)
  OBVIOUS
<1>4. \A i, j \in Q : i < j => below(i) \in SUBSET below(j) /\ below(i) # below(j)
  <2> SUFFICES ASSUME NEW i \in Q, NEW j \in Q, i < j
               PROVE  below(i) \in SUBSET below(j) /\ below(i) # below(j)
    OBVIOUS
  <2>1. i \in below(j) /\ i \notin below(i)
    BY <1>3
  <2>2. \A k \in below(i) : k \in below(j)
    BY <1>3
  <2> QED
    BY <2>1, <2>2
<1>5. /\ \A i \in Q : rank[i] = Cardinality(below(i))
      /\ DOMAIN rank = Q /\ rank = [i \in Q |-> rank[i]]
  OBVIOUS
<1>6. q = [n \in 1..count |-> CHOOSE i \in Q : Cardinality(below(i)) = n - 1]
  OBVIOUS
<1> HIDE DEF below, rank, q
<1>7. \A i \in Q : IsFiniteSet(below(i)) /\ rank[i] \in 0..count - 1
  <2> SUFFICES ASSUME NEW i \in Q PROVE IsFiniteSet(below(i)) /\ rank[i] \in 0..count - 1
    OBVIOUS
  <2>1. below(i) \in SUBSET (Q \ {i})
    BY <1>3
  <2>2. IsFiniteSet(Q \ {i}) /\ Cardinality(Q \ {i}) = count - 1
    BY <1>1, FS_RemoveElement
  <2>3. IsFiniteSet(below(i)) /\ Cardinality(below(i)) <= count - 1
    BY <2>1, <2>2, FS_Subset
  <2>4. Cardinality(below(i)) \in Nat
    BY <2>3, FS_CardinalityType
  <2> QED
    BY <1>2, <1>5, <2>3, <2>4
<1>8. \A i, j \in Q : i < j => rank[i] < rank[j]
  <2> SUFFICES ASSUME NEW i \in Q, NEW j \in Q, i < j PROVE rank[i] < rank[j]
    OBVIOUS
  <2> DEFINE A == below(i)
             F == below(j)
  <2>1. A \in SUBSET F /\ A # F /\ IsFiniteSet(F)
    BY <1>4, <1>7
  <2> HIDE DEF A, F
  <2>2. Cardinality(A) <= Cardinality(F) /\ Cardinality(A) # Cardinality(F)
    BY <2>1, FS_Subset
  <2>3. rank[i] <= rank[j] /\ rank[i] # rank[j]
    BY <1>5, <2>2 DEF A, F
  <2>4. rank[i] \in Int /\ rank[j] \in Int
    BY <1>2, <1>7
  <2> QED
    BY <2>3, <2>4
<1>9. \A i \in Q : rank[i] \in Int
  BY <1>2, <1>7
<1>10. \A i, j \in Q : rank[i] = rank[j] => i = j
  BY <1>3, <1>8, <1>9
<1>11. \A n \in 1..count : \E i \in Q : rank[i] = n - 1
  <2>1. rank \in Injection(Q, 0..count - 1)
    BY <1>5, <1>7, <1>10 DEF Injection, IsInjective
  <2>2. IsFiniteSet(0..count - 1) /\ Cardinality(0..count - 1) = count
    <3>1. count \in Nat /\ count - 1 \in Int /\ 0 \in Int
      BY <1>2
    <3>2. /\ IsFiniteSet(0..count - 1)
          /\ Cardinality(0..count - 1) = IF 0 > count - 1 THEN 0 ELSE (count - 1) - 0 + 1
      BY <3>1, FS_Interval, Zenon
    <3>3. (IF 0 > count - 1 THEN 0 ELSE (count - 1) - 0 + 1) = count
      BY <3>1
    <3> QED
      BY <3>2, <3>3
  <2>3. rank \in Surjection(Q, 0..count - 1)
    BY <1>1, <2>1, <2>2, FS_Injection
  <2>4. \A t \in 0..count - 1 : \E i \in Q : rank[i] = t
    BY <2>3 DEF Surjection
  <2> QED
    BY <1>2, <2>4
<1>12. \A n \in 1..count : q[n] \in Q /\ rank[q[n]] = n - 1
  <2> SUFFICES ASSUME NEW n \in 1..count PROVE q[n] \in Q /\ rank[q[n]] = n - 1
    OBVIOUS
  <2>1. \E i \in Q : Cardinality(below(i)) = n - 1
    BY <1>5, <1>11
  <2>2. q[n] = CHOOSE i \in Q : Cardinality(below(i)) = n - 1
    BY <1>6
  <2>3. q[n] \in Q /\ Cardinality(below(q[n])) = n - 1
    BY <2>1, <2>2, Zenon
  <2> QED
    BY <1>5, <2>3
<1>13. q \in [1..count -> Q]
  BY <1>6, <1>12
<1> HIDE DEF count
<1>14. \A i \in Q : \E n \in 1..count : q[n] = i
  <2> SUFFICES ASSUME NEW i \in Q PROVE \E n \in 1..count : q[n] = i
    OBVIOUS
  <2> DEFINE n == rank[i] + 1
  <2>1. n \in 1..count /\ n - 1 = rank[i]
    BY <1>2, <1>7
  <2>2. q[n] \in Q /\ rank[q[n]] = rank[i]
    BY <1>12, <2>1
  <2>3. q[n] = i
    BY <1>10, <2>2
  <2> QED
    BY <2>1, <2>3
<1>15. \A m, n \in 1..count : m < n => q[m] < q[n]
  <2> SUFFICES ASSUME NEW m \in 1..count, NEW n \in 1..count, m < n PROVE q[m] < q[n]
    OBVIOUS
  <2>1. /\ q[m] \in Q /\ rank[q[m]] = m - 1
        /\ q[n] \in Q /\ rank[q[n]] = n - 1
    BY <1>12
  <2>2. q[m] # q[n] /\ ~ (rank[q[n]] < rank[q[m]])
    BY <1>2, <2>1
  <2>3. q[m] \in Int /\ q[n] \in Int /\ ~ (q[n] < q[m])
    BY <1>3, <1>8, <2>1, <2>2
  <2> QED
    BY <2>2, <2>3
<1>16. q = [n \in 1..count |-> CHOOSE i \in Q : Cardinality({j \in Q : j < i}) = n - 1]
  BY <1>6, Zenon DEF below
<1>17. Placed(q, Q)
  BY <1>2, <1>13, <1>14, <1>15, <1>16, Zenon DEF Placed, count
<1> QED
  BY <1>17

\* The places Only takes, in order: q says of each place of what it makes which
\* place of the sequence that is.
Picked(q, seq, places) ==
    /\ Cardinality(places) \in Nat
    /\ q \in [1..Cardinality(places) -> places]
    /\ L!Only(seq, places) = [n \in 1..Cardinality(places) |-> seq[q[n]]]
    /\ \A i \in places : \E n \in 1..Cardinality(places) : q[n] = i
    /\ \A m, n \in 1..Cardinality(places) : m < n => q[m] < q[n]

LEMMA OnlyOf ==
    ASSUME NEW seq, NEW top \in Nat, NEW Q \in SUBSET (1..top)
    PROVE  \E q : Picked(q, seq, Q)
<1> DEFINE count == Cardinality(Q)
           place(n) == CHOOSE i \in Q : Cardinality({j \in Q : j < i}) = n - 1
<1>1. PICK q : Placed(q, Q)
  BY PlacesOf
<1>2. q = [n \in 1..count |-> place(n)]
  BY <1>1, Zenon DEF Placed
<1>3. L!Only(seq, Q) = [n \in 1..count |-> seq[place(n)]]
  BY DEF L!Only, L!Cardinality, Cardinality
<1> HIDE DEF place
<1>4. \A n \in 1..count : q[n] = place(n)
  BY <1>2
<1>5. L!Only(seq, Q) = [n \in 1..count |-> seq[q[n]]]
  BY <1>3, <1>4, Zenon
<1>6. /\ count \in Nat /\ q \in [1..count -> Q]
      /\ \A i \in Q : \E n \in 1..count : q[n] = i
      /\ \A m, n \in 1..count : m < n => q[m] < q[n]
  BY <1>1, Zenon DEF Placed
<1>7. Picked(q, seq, Q)
  BY <1>5, <1>6 DEF Picked
<1> QED
  BY <1>7

\* g folds the steps of each set of the numbers up to n, from the least; and f has
\* what that comes to after each number.
Folds(g, n, c, step) ==
    \A s \in SUBSET (1..n) : g[s] = IF s = {} THEN c ELSE step[L!Max(s)][g[s \ {L!Max(s)}]]

Links(f, n, c, step) == f[0] = c /\ \A i \in 1..n : f[i] = step[i][f[i - 1]]

LEMMA Chain ==
    ASSUME NEW n \in Nat, NEW M, NEW c \in M, NEW step \in [1..n -> [M -> M]]
    PROVE  \E g \in [SUBSET (1..n) -> M] : Folds(g, n, c, step)
<1> DEFINE bad == {k \in 0..n : \A g \in [SUBSET (1..k) -> M] : ~ Folds(g, k, c, step)}
<1>1. \A k \in Nat : \A s \in SUBSET (1..k) : s # {} =>
        /\ L!Max(s) \in s /\ L!Max(s) \in 1..k
        /\ s \ {L!Max(s)} \in SUBSET (1..k - 1)
        /\ k \in s => L!Max(s) = k
        /\ k \notin s => s \in SUBSET (1..k - 1)
  <2> SUFFICES ASSUME NEW k \in Nat, NEW s \in SUBSET (1..k), s # {}
               PROVE  /\ L!Max(s) \in s /\ L!Max(s) \in 1..k
                      /\ s \ {L!Max(s)} \in SUBSET (1..k - 1)
                      /\ k \in s => L!Max(s) = k
                      /\ k \notin s => s \in SUBSET (1..k - 1)
    OBVIOUS
  <2>1. L!Max(s) \in s /\ \A j \in s : j <= L!Max(s)
    BY GreatestOf
  <2>2. \A j \in s : j \in 1..k
    OBVIOUS
  <2> DEFINE g == L!Max(s)
  <2> HIDE DEF g
  <2>3. g \in s /\ g \in 1..k /\ \A j \in s : j <= g
    BY <2>1, <2>2 DEF g
  <2>4. \A j \in s \ {g} : j \in 1..k - 1
    BY <2>2, <2>3
  <2>5. k \in s => g = k
    BY <2>2, <2>3
  <2>6. k \notin s => \A j \in s : j \in 1..k - 1
    BY <2>2
  <2> QED
    BY <2>3, <2>4, <2>5, <2>6 DEF g
<1>2. ASSUME bad # {} PROVE FALSE
  <2>1. bad \in SUBSET Nat
    OBVIOUS
  <2>2. PICK m \in bad : \A k \in bad : m <= k
    <3> HIDE DEF bad
    <3> QED
      BY <1>2, <2>1, LeastOf
  <2>3. m \in 0..n /\ \A g \in [SUBSET (1..m) -> M] : ~ Folds(g, m, c, step)
    OBVIOUS
  <2>4. m # 0
    <3> SUFFICES ASSUME m = 0 PROVE FALSE
      OBVIOUS
    <3> DEFINE g == [s \in SUBSET (1..0) |-> c]
    <3>1. g \in [SUBSET (1..m) -> M] /\ \A s \in SUBSET (1..m) : s = {} /\ g[s] = c
      OBVIOUS
    <3> HIDE DEF g
    <3> QED
      BY <2>3, <3>1 DEF Folds
  <2>5. m - 1 \in 0..n /\ m - 1 \notin bad
    <3> HIDE DEF bad
    <3> QED
      BY <2>2, <2>3, <2>4
  <2>6. PICK h \in [SUBSET (1..m - 1) -> M] : Folds(h, m - 1, c, step)
    BY <2>5
  <2>7. m \in 1..n
    BY <2>3, <2>4
  <2>8. \A s \in SUBSET (1..m) : s \ {m} \in SUBSET (1..m - 1)
    BY <2>7
  <2> DEFINE g == [s \in SUBSET (1..m) |-> IF m \in s THEN step[m][h[s \ {m}]] ELSE h[s]]
  <2>9. \A s \in SUBSET (1..m - 1) : s \in SUBSET (1..m) /\ m \notin s /\ g[s] = h[s]
    BY <2>7
  <2>10. \A s \in SUBSET (1..m) : m \in s => g[s] = step[m][h[s \ {m}]]
    OBVIOUS
  <2>11. g \in [SUBSET (1..m) -> M]
    <3>1. \A s \in SUBSET (1..m) : m \notin s => s \in SUBSET (1..m - 1)
      BY <2>7
    <3>2. \A t \in M : step[m][t] \in M
      BY <2>7
    <3> QED
      BY <2>6, <2>8, <3>1, <3>2
  <2> HIDE DEF g
  <2>12. Folds(g, m, c, step)
    <3> SUFFICES ASSUME NEW s \in SUBSET (1..m)
                 PROVE  g[s] = IF s = {} THEN c ELSE step[L!Max(s)][g[s \ {L!Max(s)}]]
      BY DEF Folds
    <3>1. CASE m \in s
      <4>1. L!Max(s) = m /\ s # {}
        BY <1>1, <2>7, <3>1
      <4> QED
        BY <2>8, <2>9, <2>10, <3>1, <4>1
    <3>2. CASE m \notin s /\ s # {}
      <4>1. s \in SUBSET (1..m - 1) /\ s \ {L!Max(s)} \in SUBSET (1..m - 1)
        BY <1>1, <2>7, <3>2
      <4>2. h[s] = step[L!Max(s)][h[s \ {L!Max(s)}]]
        BY <2>6, <3>2, <4>1 DEF Folds
      <4> QED
        BY <2>9, <3>2, <4>1, <4>2
    <3>3. CASE s = {}
      BY <2>6, <2>9, <3>3 DEF Folds
    <3> QED
      BY <3>1, <3>2, <3>3
  <2> QED
    BY <2>3, <2>11, <2>12
<1>3. n \notin bad
  <2> HIDE DEF bad
  <2> QED
    BY <1>2
<1>4. n \in 0..n
  OBVIOUS
<1>5. \E g \in [SUBSET (1..n) -> M] : Folds(g, n, c, step)
  BY <1>3, <1>4
<1> QED
  BY <1>5

LEMMA Linked ==
    ASSUME NEW n \in Nat, NEW M, NEW c \in M, NEW step \in [1..n -> [M -> M]],
           NEW g \in [SUBSET (1..n) -> M],
           Folds(g, n, c, step)
    PROVE  \E f \in [0..n -> M] : Links(f, n, c, step) /\ f[n] = g[1..n]
<1> DEFINE f == [i \in 0..n |-> g[1..i]]
<1>1. \A i \in 0..n : 1..i \in SUBSET (1..n) /\ f[i] = g[1..i]
  OBVIOUS
<1>2. f \in [0..n -> M] /\ f[n] = g[1..n] /\ 1..0 = {} /\ f[0] = g[1..0]
  OBVIOUS
<1> HIDE DEF f
<1>3. f[0] = c
  <2>1. {} \in SUBSET (1..n)
    OBVIOUS
  <2>2. g[{}] = c
    BY <2>1 DEF Folds
  <2> QED
    BY <1>2, <2>2
<1>4. ASSUME NEW i \in 1..n PROVE f[i] = step[i][f[i - 1]]
  <2>1. 1..i # {} /\ 1..i \in SUBSET (1..i) /\ i \in Nat /\ (1..i) \ {i} = 1..i - 1
    <3>1. i \in Nat /\ i \in 1..i /\ 1..i \in SUBSET (1..i)
      OBVIOUS
    <3>2. (1..i) \ {i} = 1..i - 1
      OBVIOUS
    <3> QED
      BY <3>1, <3>2
  <2>2. L!Max(1..i) \in 1..i /\ \A k \in 1..i : k <= L!Max(1..i)
    BY <2>1, GreatestOf
  <2>3. L!Max(1..i) = i
    <3> DEFINE m == L!Max(1..i)
    <3>1. m \in 1..i /\ \A k \in 1..i : k <= m
      BY <2>2
    <3> HIDE DEF m
    <3>2. m = i
      BY <3>1
    <3> QED
      BY <3>2 DEF m
  <2>4. i \in 0..n /\ i - 1 \in 0..n /\ 1..i \in SUBSET (1..n)
    OBVIOUS
  <2>5. g[1..i] = step[L!Max(1..i)][g[(1..i) \ {L!Max(1..i)}]]
    BY <2>1, <2>4 DEF Folds
  <2>6. g[1..i] = step[i][g[1..i - 1]]
    BY <2>1, <2>3, <2>5
  <2> QED
    BY <1>1, <2>4, <2>6
<1> QED
  BY <1>2, <1>3, <1>4 DEF Links

Chains(g, f, n, M, c, step) ==
    /\ g \in [SUBSET (1..n) -> M] /\ f \in [0..n -> M]
    /\ Folds(g, n, c, step) /\ Links(f, n, c, step) /\ f[n] = g[1..n]

LEMMA Chained ==
    ASSUME NEW n \in Nat, NEW M, NEW c \in M, NEW step \in [1..n -> [M -> M]]
    PROVE  \E g, f : Chains(g, f, n, M, c, step)
<1>1. PICK g \in [SUBSET (1..n) -> M] : Folds(g, n, c, step)
  BY Chain
<1>2. PICK f \in [0..n -> M] : Links(f, n, c, step) /\ f[n] = g[1..n]
  BY <1>1, Linked
<1> QED
  BY <1>1, <1>2 DEF Chains

\* What agrees with a fold where nothing is folded, and after a step where it did
\* before it, is that fold.
LEMMA Agree ==
    ASSUME NEW n \in Nat, NEW g, NEW h,
           \A s \in SUBSET (1..n) :
               /\ s = {} => h[s] = g[s]
               /\ s # {} /\ h[s \ {L!Max(s)}] = g[s \ {L!Max(s)}] => h[s] = g[s]
    PROVE  h[1..n] = g[1..n]
<1> DEFINE bad == {k \in 0..n : \E s \in SUBSET (1..k) : h[s] # g[s]}
<1>1. ASSUME bad # {} PROVE FALSE
  <2>1. bad \in SUBSET Nat
    OBVIOUS
  <2>2. PICK m \in bad : \A k \in bad : m <= k
    <3> HIDE DEF bad
    <3> QED
      BY <1>1, <2>1, LeastOf
  <2>3. m \in 0..n /\ \E s \in SUBSET (1..m) : h[s] # g[s]
    OBVIOUS
  <2>4. PICK s \in SUBSET (1..m) : h[s] # g[s]
    BY <2>3
  <2>5. s \in SUBSET (1..n) /\ s # {}
    <3>1. s \in SUBSET (1..n)
      BY <2>3
    <3> QED
      BY <2>4, <3>1
  <2>6. L!Max(s) \in s /\ \A k \in s : k <= L!Max(s)
    BY <2>3, <2>5, GreatestOf
  <2> DEFINE top == L!Max(s)
  <2>7. h[s \ {top}] # g[s \ {top}]
    <3> HIDE DEF bad
    <3> QED
      BY <2>4, <2>5
  <2>8. top \in s /\ \A k \in s : k <= top
    BY <2>6
  <2> HIDE DEF top
  <2>9. \A k \in s \ {top} : k \in 1..m - 1
    BY <2>3, <2>8
  <2>10. s \ {top} \in SUBSET (1..m - 1) /\ m - 1 \in 0..n
    <3>1. m \in 1..n /\ \A k \in s : k \in 1..m
      BY <2>3, <2>8
    <3>2. m - 1 \in 0..n
      BY <3>1
    <3> QED
      BY <2>9, <3>2
  <2>11. m - 1 \in bad
    BY <2>7, <2>10
  <2> HIDE DEF bad
  <2> QED
    BY <2>2, <2>3, <2>11
<1>2. n \notin bad
  <2> HIDE DEF bad
  <2> QED
    BY <1>1
<1>3. n \in 0..n /\ 1..n \in SUBSET (1..n)
  OBVIOUS
<1> QED
  BY <1>2, <1>3

\* The ids after each of the addresses, and after each of the changes.
LEMMA FollowingChain ==
    ASSUME NEW X, NEW addresses \in Seq(X), NEW previous \in Seq(X)
    PROVE  \E f \in [0..Len(addresses) -> Seq(X)] :
               /\ f[0] = previous /\ f[Len(addresses)] = L!following(addresses, previous)
               /\ \A i \in 1..Len(addresses) :
                      f[i] = IF L!Contains(f[i - 1], addresses[i]) THEN f[i - 1]
                             ELSE Append(f[i - 1], addresses[i])
<1> DEFINE M == Seq(X)
           n == Len(addresses)
           Op(kept, a) == IF L!Contains(kept, a) THEN kept ELSE Append(kept, a)
           iter == CHOOSE g : g = [s \in SUBSET DOMAIN addresses |->
                              IF s = {} THEN previous
                              ELSE Op(g[s \ {L!Max(s)}], addresses[L!Max(s)])]
           step == [i \in 1..n |-> [kept \in M |-> Op(kept, addresses[i])]]
<1>1. n \in Nat /\ DOMAIN addresses = 1..n
  OBVIOUS
<1>2. L!following(addresses, previous) = iter[DOMAIN addresses]
  BY Zenon DEF L!following, L!FoldLeft, L!MapThenFoldSet
<1>3. previous \in M /\ \A i \in 1..n : addresses[i] \in X
  OBVIOUS
<1>4. step \in [1..n -> [M -> M]]
  <2>1. \A i \in 1..n, kept \in M : Op(kept, addresses[i]) \in M
    BY <1>3
  <2> HIDE DEF Op, n, M
  <2> QED
    BY <2>1
<1>5. \A i \in 1..n, kept \in M : step[i][kept] = Op(kept, addresses[i])
  <2> HIDE DEF Op, n, M
  <2> QED
    OBVIOUS
<1> HIDE DEF Op, step, n, M, iter
<1>6. PICK g, f : Chains(g, f, n, M, previous, step)
  <2>1. n \in Nat
    BY <1>1
  <2> QED
    BY <1>3, <1>4, <2>1, Chained
<1>7. \A s \in SUBSET (1..n) : s # {} => L!Max(s) \in 1..n /\ s \ {L!Max(s)} \in SUBSET (1..n)
  BY <1>1, GreatestOf
<1>8. g = [s \in SUBSET DOMAIN addresses |->
              IF s = {} THEN previous ELSE Op(g[s \ {L!Max(s)}], addresses[L!Max(s)])]
  <2>1. \A s \in SUBSET (1..n) : s # {} =>
            step[L!Max(s)][g[s \ {L!Max(s)}]] = Op(g[s \ {L!Max(s)}], addresses[L!Max(s)])
    BY <1>5, <1>6, <1>7 DEF Chains
  <2>2. \A s \in SUBSET (1..n) :
            g[s] = IF s = {} THEN previous ELSE Op(g[s \ {L!Max(s)}], addresses[L!Max(s)])
    BY <1>6, <2>1 DEF Folds, Chains
  <2> QED
    BY <1>1, <1>6, <2>2 DEF Chains
<1>9. iter = [s \in SUBSET DOMAIN addresses |->
                 IF s = {} THEN previous ELSE Op(iter[s \ {L!Max(s)}], addresses[L!Max(s)])]
  BY <1>8, Zenon DEF iter
<1>10. \A s \in SUBSET (1..n) : iter[s] = IF s = {} THEN previous
                                ELSE Op(iter[s \ {L!Max(s)}], addresses[L!Max(s)])
  BY <1>1, <1>9, Zenon
<1>11. iter[1..n] = g[1..n]
  <2>1. \A s \in SUBSET (1..n) :
            /\ s = {} => iter[s] = g[s]
            /\ s # {} /\ iter[s \ {L!Max(s)}] = g[s \ {L!Max(s)}] => iter[s] = g[s]
    BY <1>1, <1>8, <1>10
  <2> QED
    BY <1>1, <2>1, Agree
<1>12. \A i \in 1..n : f[i - 1] \in M
  BY <1>1, <1>6 DEF Chains
<1>13. \A i \in 1..n : f[i] = Op(f[i - 1], addresses[i])
  BY <1>5, <1>6, <1>12 DEF Links, Chains
<1> QED
  BY <1>1, <1>2, <1>11, <1>6, <1>13 DEF n, Op, M, Links, Chains

\* What the ids are after each of the changes.
Renaming(f, ids, changes, X) ==
    /\ f \in [0..Len(changes) -> Seq(X)]
    /\ f[0] = ids /\ f[Len(changes)] = L!renamed(ids, changes)
    /\ \A i \in 1..Len(changes) :
           f[i] = [j \in DOMAIN f[i - 1] |->
                      IF f[i - 1][j] = changes[i].was THEN changes[i].now ELSE f[i - 1][j]]

LEMMA RenamedChain ==
    ASSUME NEW X, NEW ids \in Seq(X), NEW changes \in Seq([was : X, now : X])
    PROVE  \E f : Renaming(f, ids, changes, X)
<1> DEFINE M == Seq(X)
           n == Len(changes)
           Op(held, e) == [j \in DOMAIN held |-> IF held[j] = e.was THEN e.now ELSE held[j]]
           iter == CHOOSE g : g = [s \in SUBSET DOMAIN changes |->
                              IF s = {} THEN ids
                              ELSE Op(g[s \ {L!Max(s)}], changes[L!Max(s)])]
           step == [i \in 1..n |-> [held \in M |-> Op(held, changes[i])]]
<1>1. n \in Nat /\ DOMAIN changes = 1..n
  OBVIOUS
<1>2. L!renamed(ids, changes) = iter[DOMAIN changes]
  BY Zenon DEF L!renamed, L!FoldLeft, L!MapThenFoldSet
<1>3. ids \in M /\ \A i \in 1..n : changes[i] \in [was : X, now : X]
  <2> DEFINE R == [was : X, now : X]
  <2>1. changes \in Seq(R)
    OBVIOUS
  <2> HIDE DEF R, Op, step, iter
  <2>2. \A i \in 1..n : changes[i] \in R
    BY <2>1
  <2> QED
    BY <2>2 DEF R
<1>4. step \in [1..n -> [M -> M]]
  <2>1. \A i \in 1..n, held \in M : Op(held, changes[i]) \in M
    BY <1>3
  <2> HIDE DEF Op, n, M
  <2> QED
    BY <2>1
<1>5. \A i \in 1..n, held \in M : step[i][held] = Op(held, changes[i])
  <2> HIDE DEF Op, n, M
  <2> QED
    OBVIOUS
<1> HIDE DEF Op, step, n, M, iter
<1>6. PICK g, f : Chains(g, f, n, M, ids, step)
  <2>1. n \in Nat
    BY <1>1
  <2> QED
    BY <1>3, <1>4, <2>1, Chained
<1>7. \A s \in SUBSET (1..n) : s # {} => L!Max(s) \in 1..n /\ s \ {L!Max(s)} \in SUBSET (1..n)
  BY <1>1, GreatestOf
<1>8. g = [s \in SUBSET DOMAIN changes |->
              IF s = {} THEN ids ELSE Op(g[s \ {L!Max(s)}], changes[L!Max(s)])]
  <2>1. \A s \in SUBSET (1..n) : s # {} =>
            step[L!Max(s)][g[s \ {L!Max(s)}]] = Op(g[s \ {L!Max(s)}], changes[L!Max(s)])
    BY <1>5, <1>6, <1>7 DEF Chains
  <2>2. \A s \in SUBSET (1..n) :
            g[s] = IF s = {} THEN ids ELSE Op(g[s \ {L!Max(s)}], changes[L!Max(s)])
    BY <1>6, <2>1 DEF Folds, Chains
  <2> QED
    BY <1>1, <1>6, <2>2 DEF Chains
<1>9. iter = [s \in SUBSET DOMAIN changes |->
                 IF s = {} THEN ids ELSE Op(iter[s \ {L!Max(s)}], changes[L!Max(s)])]
  BY <1>8, Zenon DEF iter
<1>10. \A s \in SUBSET (1..n) : iter[s] = IF s = {} THEN ids
                                ELSE Op(iter[s \ {L!Max(s)}], changes[L!Max(s)])
  BY <1>1, <1>9, Zenon
<1>11. iter[1..n] = g[1..n]
  <2>1. \A s \in SUBSET (1..n) :
            /\ s = {} => iter[s] = g[s]
            /\ s # {} /\ iter[s \ {L!Max(s)}] = g[s \ {L!Max(s)}] => iter[s] = g[s]
    BY <1>1, <1>8, <1>10
  <2> QED
    BY <1>1, <2>1, Agree
<1>12. \A i \in 1..n : f[i - 1] \in M
  BY <1>1, <1>6 DEF Chains
<1>13. \A i \in 1..n : f[i] = Op(f[i - 1], changes[i])
  BY <1>5, <1>6, <1>12 DEF Links, Chains
<1>14. f \in [0..n -> M] /\ f[0] = ids /\ f[n] = L!renamed(ids, changes)
  BY <1>1, <1>2, <1>6, <1>11 DEF Links, Chains
<1>15. Renaming(f, ids, changes, X)
  BY <1>13, <1>14, Zenon DEF n, Op, M, Renaming
<1> QED
  BY <1>15


\* The ids there were are kept, a new one is one of the addresses, and each of
\* those has one.
Extends(after, previous, addresses, X) ==
    /\ after \in Seq(X) /\ DOMAIN previous \in SUBSET DOMAIN after
    /\ \A i \in DOMAIN previous : after[i] = previous[i]
    /\ \A i \in DOMAIN after :
           i \in DOMAIN previous \/ \E j \in DOMAIN addresses : after[i] = addresses[j]
    /\ \A j \in DOMAIN addresses : \E i \in DOMAIN after : after[i] = addresses[j]

LEMMA FollowingKeeps ==
    ASSUME NEW X, NEW addresses \in Seq(X), NEW previous \in Seq(X)
    PROVE  Extends(L!following(addresses, previous), previous, addresses, X)
<1> DEFINE n == Len(addresses)
           Keeps(after, k) ==
               /\ after \in Seq(X) /\ Len(previous) <= Len(after)
               /\ \A i \in 1..Len(previous) : after[i] = previous[i]
               /\ \A i \in 1..Len(after) :
                      i \in 1..Len(previous) \/ \E j \in 1..n : after[i] = addresses[j]
               /\ \A j \in 1..k : \E i \in 1..Len(after) : after[i] = addresses[j]
<1>1. PICK f \in [0..n -> Seq(X)] :
          /\ f[0] = previous /\ f[n] = L!following(addresses, previous)
          /\ \A i \in 1..n : f[i] = IF L!Contains(f[i - 1], addresses[i]) THEN f[i - 1]
                                  ELSE Append(f[i - 1], addresses[i])
  BY FollowingChain
<1> DEFINE kept == {k \in 0..n : Keeps(f[k], k)}
<1>2. n \in Nat /\ DOMAIN addresses = 1..n /\ Len(previous) \in Nat
      /\ DOMAIN previous = 1..Len(previous) /\ kept \in SUBSET (0..n)
  OBVIOUS
<1>3. 0 \in kept
  <2>1. Keeps(previous, 0)
    OBVIOUS
  <2> QED
    BY <1>1, <1>2, <2>1
<1>4. ASSUME NEW k \in 1..n, k - 1 \in kept PROVE k \in kept
  <2> DEFINE s == f[k - 1]
             a == addresses[k]
  <2>1. Keeps(s, k - 1) /\ k \in 0..n /\ a \in X
    BY <1>2, <1>4
  <2>2. f[k] = IF L!Contains(s, a) THEN s ELSE Append(s, a)
    BY <1>1
  <2> HIDE DEF s
  <2>3. CASE L!Contains(s, a)
    <3>1. PICK i \in 1..Len(s) : s[i] = a
      BY <2>3 DEF L!Contains
    <3>2. \A j \in 1..k : \E h \in 1..Len(s) : s[h] = addresses[j]
      <4> SUFFICES ASSUME NEW j \in 1..k PROVE \E h \in 1..Len(s) : s[h] = addresses[j]
        OBVIOUS
      <4>1. CASE j = k
        BY <3>1, <4>1
      <4>2. CASE j \in 1..k - 1
        BY <2>1, <4>2
      <4> QED
        BY <4>1, <4>2
    <3>3. Keeps(s, k)
      BY <2>1, <3>2
    <3> QED
      BY <2>1, <2>2, <2>3, <3>3
  <2>4. CASE ~ L!Contains(s, a)
    <3> DEFINE u == Append(s, a)
    <3>1. /\ u \in Seq(X) /\ Len(u) = Len(s) + 1 /\ Len(s) \in Nat
          /\ \A i \in 1..Len(s) : u[i] = s[i]
          /\ u[Len(s) + 1] = a
      BY <2>1
    <3> HIDE DEF u
    <3>2. \A i \in 1..Len(u) : i \in 1..Len(s) \/ i = Len(s) + 1
      BY <3>1
    <3>3. Len(previous) <= Len(u) /\ \A i \in 1..Len(previous) : u[i] = previous[i]
      <4>1. Len(previous) <= Len(s) /\ \A i \in 1..Len(previous) : s[i] = previous[i]
        BY <2>1
      <4>2. \A i \in 1..Len(previous) : i \in 1..Len(s)
        BY <1>2, <3>1, <4>1
      <4> HIDE DEF Keeps, kept
      <4>3. Len(previous) <= Len(u)
        BY <1>2, <3>1, <4>1
      <4>4. ASSUME NEW i \in 1..Len(previous) PROVE u[i] = previous[i]
        <5>1. s[i] = previous[i] /\ i \in 1..Len(s)
          BY <4>1, <4>2
        <5> QED
          BY <3>1, <5>1
      <4> QED
        BY <4>3, <4>4
    <3>4. ASSUME NEW i \in 1..Len(u)
          PROVE  i \in 1..Len(previous) \/ \E j \in 1..n : u[i] = addresses[j]
      <4>1. CASE i \in 1..Len(s)
        <5>1. u[i] = s[i]
          BY <3>1, <4>1
        <5>2. i \in 1..Len(previous) \/ \E j \in 1..n : s[i] = addresses[j]
          BY <2>1, <4>1
        <5> QED
          BY <5>1, <5>2
      <4>2. CASE i = Len(s) + 1
        <5>1. u[i] = addresses[k] /\ k \in 1..n
          BY <1>4, <3>1, <4>2
        <5> HIDE DEF u, s
        <5> QED
          BY <5>1
      <4> QED
        BY <3>2, <4>1, <4>2
    <3>5. \A j \in 1..k : \E h \in 1..Len(u) : u[h] = addresses[j]
      <4> SUFFICES ASSUME NEW j \in 1..k PROVE \E h \in 1..Len(u) : u[h] = addresses[j]
        OBVIOUS
      <4>1. CASE j = k
        BY <3>1, <4>1
      <4>2. CASE j \in 1..k - 1
        <5>1. PICK h \in 1..Len(s) : s[h] = addresses[j]
          BY <2>1, <4>2
        <5> QED
          BY <3>1, <5>1
      <4> QED
        BY <4>1, <4>2
    <3>6. Keeps(u, k)
      BY <3>1, <3>3, <3>4, <3>5
    <3>7. f[k] = u
      BY <2>2, <2>4 DEF u
    <3> HIDE DEF Keeps
    <3> QED
      BY <2>1, <3>6, <3>7
  <2> QED
    BY <2>3, <2>4
<1>5. n \in kept
  <2>1. n \in Nat /\ n \in 0..n /\ kept \in SUBSET (0..n)
    BY <1>2
  <2> HIDE DEF kept, n
  <2>2. \A k \in 1..n : k - 1 \in kept => k \in kept
    BY <1>4
  <2> QED
    BY <1>3, <2>1, <2>2, Upwards
<1> DEFINE after == L!following(addresses, previous)
<1>6. Keeps(after, n)
  BY <1>1, <1>5
<1> HIDE DEF after
<1>7. /\ after \in Seq(X) /\ DOMAIN previous \in SUBSET DOMAIN after
      /\ DOMAIN after = 1..Len(after)
  <2>1. after \in Seq(X) /\ Len(previous) <= Len(after)
    BY <1>6
  <2>2. Len(after) \in Nat /\ DOMAIN after = 1..Len(after)
    BY <2>1
  <2> QED
    BY <1>2, <2>1, <2>2
<1> QED
  BY <1>2, <1>6, <1>7 DEF after, Extends

\* Where every change is from a name to another of the same owner, what an id
\* means keeps its owner; it is left as it is if no change is from it, and is
\* what a change makes of it that is its owner's only one.
Changes(after, ids, changes, o, X) ==
    /\ after \in Seq(X) /\ DOMAIN after = DOMAIN ids
    /\ \A i \in DOMAIN ids :
           /\ o[after[i]] = o[ids[i]]
           /\ (\A c \in DOMAIN changes : changes[c].was # ids[i]) => after[i] = ids[i]
           /\ \A p \in DOMAIN changes :
                  /\ changes[p].was = ids[i]
                  /\ \A c \in DOMAIN changes : c # p => o[changes[c].was] # o[ids[i]]
                  => after[i] = changes[p].now

LEMMA RenamedKeeps ==
    ASSUME NEW X, NEW ids \in Seq(X), NEW changes \in Seq([was : X, now : X]), NEW o,
           \A c \in DOMAIN changes : o[changes[c].was] = o[changes[c].now]
    PROVE  Changes(L!renamed(ids, changes), ids, changes, o, X)
<1> DEFINE n == Len(changes)
           len == Len(ids)
           Left(i) == \A c \in 1..n : changes[c].was # ids[i]
           Its(p, i) == /\ changes[p].was = ids[i]
                        /\ \A c \in 1..n : c # p => o[changes[c].was] # o[ids[i]]
           Keeps(after, k) ==
               /\ after \in Seq(X) /\ Len(after) = len
               /\ \A i \in 1..len :
                      /\ o[after[i]] = o[ids[i]]
                      /\ Left(i) => after[i] = ids[i]
                      /\ \A p \in 1..n :
                             Its(p, i) => after[i] = IF p <= k THEN changes[p].now ELSE ids[i]
<1>1. PICK f : Renaming(f, ids, changes, X)
  BY RenamedChain
<1> DEFINE kept == {k \in 0..n : Keeps(f[k], k)}
<1>2. n \in Nat /\ DOMAIN changes = 1..n /\ len \in Nat /\ DOMAIN ids = 1..len
      /\ kept \in SUBSET (0..n)
  OBVIOUS
<1>3. 0 \in kept
  <2>1. Keeps(ids, 0)
    <3> HIDE DEF Its, Left
    <3> QED
      OBVIOUS
  <2> HIDE DEF Keeps
  <2> QED
    BY <1>1, <1>2, <2>1 DEF Renaming
<1>4. \A k \in 1..n : changes[k].was \in X /\ changes[k].now \in X
                    /\ o[changes[k].was] = o[changes[k].now]
  <2> DEFINE R == [was : X, now : X]
  <2>1. changes \in Seq(R)
    OBVIOUS
  <2> HIDE DEF R, Keeps, kept, Its, Left
  <2>2. \A i \in 1..n : changes[i] \in R
    BY <2>1
  <2> QED
    BY <1>2, <2>2 DEF R
<1>5. ASSUME NEW k \in 1..n, k - 1 \in kept PROVE k \in kept
  <2> DEFINE s == f[k - 1]
             u == f[k]
             e == changes[k]
  <2>1. Keeps(s, k - 1) /\ k \in 0..n
    BY <1>2, <1>5
  <2>2. u = [j \in DOMAIN s |-> IF s[j] = e.was THEN e.now ELSE s[j]]
    BY <1>1 DEF Renaming
  <2>3. e.was \in X /\ e.now \in X /\ o[e.was] = o[e.now]
    BY <1>4
  <2> HIDE DEF s, u, e, Its, Left
  <2>4. s \in Seq(X) /\ DOMAIN s = 1..len /\ \A j \in 1..len : s[j] \in X
    BY <2>1
  <2>5. u \in Seq(X) /\ Len(u) = len
    <3>1. u \in [1..len -> X]
      BY <2>2, <2>3, <2>4
    <3> HIDE DEF Keeps, kept
    <3> QED
      BY <1>2, <3>1
  <2>6. ASSUME NEW i \in 1..len
        PROVE  /\ o[u[i]] = o[ids[i]]
               /\ Left(i) => u[i] = ids[i]
               /\ \A p \in 1..n :
                      Its(p, i) => u[i] = IF p <= k THEN changes[p].now ELSE ids[i]
    <3>1. u[i] = IF s[i] = e.was THEN e.now ELSE s[i]
      BY <2>2, <2>4
    <3>2. /\ o[s[i]] = o[ids[i]]
          /\ Left(i) => s[i] = ids[i]
          /\ \A p \in 1..n :
                 Its(p, i) => s[i] = IF p <= k - 1 THEN changes[p].now ELSE ids[i]
      BY <2>1
    <3>3. Left(i) => e.was # ids[i]
      BY DEF Left, e
    <3> HIDE DEF Keeps, kept
    <3>4. o[u[i]] = o[ids[i]] /\ (Left(i) => u[i] = ids[i])
      BY <2>3, <3>1, <3>2, <3>3
    <3>5. ASSUME NEW p \in 1..n, Its(p, i)
          PROVE  u[i] = IF p <= k THEN changes[p].now ELSE ids[i]
      <4>1. CASE p = k
        <5>1. s[i] = ids[i] /\ e.was = ids[i] /\ e = changes[p]
          BY <3>2, <3>5, <4>1 DEF Its, e
        <5> QED
          BY <3>1, <4>1, <5>1
      <4>2. CASE p # k
        <5>1. o[e.was] # o[ids[i]]
          BY <3>5, <4>2 DEF Its, e
        <5>2. u[i] = s[i]
          BY <3>1, <3>2, <5>1
        <5>3. p <= k - 1 <=> p <= k
          BY <4>2
        <5> QED
          BY <3>2, <3>5, <5>2, <5>3
      <4> QED
        BY <4>1, <4>2
    <3> QED
      BY <3>4, <3>5
  <2>7. Keeps(u, k)
    BY <2>5, <2>6
  <2> HIDE DEF Keeps
  <2> QED
    BY <2>1, <2>7 DEF u
<1>6. n \in kept
  <2>1. n \in Nat /\ n \in 0..n /\ kept \in SUBSET (0..n)
    BY <1>2
  <2> HIDE DEF kept, n
  <2>2. \A k \in 1..n : k - 1 \in kept => k \in kept
    BY <1>5
  <2> QED
    BY <1>3, <2>1, <2>2, Upwards
<1> DEFINE after == L!renamed(ids, changes)
<1>7. Keeps(after, n)
  <2> HIDE DEF Keeps
  <2> QED
    BY <1>1, <1>6 DEF Renaming
<1> HIDE DEF after
<1>8. after \in Seq(X) /\ DOMAIN after = DOMAIN ids
  BY <1>2, <1>7
<1>9. ASSUME NEW i \in DOMAIN ids
      PROVE  /\ o[after[i]] = o[ids[i]]
             /\ Left(i) => after[i] = ids[i]
             /\ \A p \in 1..n : Its(p, i) => after[i] = changes[p].now
  <2> HIDE DEF Left, Its
  <2> QED
    BY <1>2, <1>7
<1>10. ASSUME NEW i \in DOMAIN ids
       PROVE  /\ o[after[i]] = o[ids[i]]
              /\ (\A c \in DOMAIN changes : changes[c].was # ids[i]) => after[i] = ids[i]
              /\ \A p \in DOMAIN changes :
                     /\ changes[p].was = ids[i]
                     /\ \A c \in DOMAIN changes : c # p => o[changes[c].was] # o[ids[i]]
                     => after[i] = changes[p].now
  <2> HIDE DEF Keeps, kept, n
  <2>1. (\A c \in 1..n : changes[c].was # ids[i]) => after[i] = ids[i]
    BY <1>9
  <2>2. \A p \in 1..n :
            /\ changes[p].was = ids[i]
            /\ \A c \in 1..n : c # p => o[changes[c].was] # o[ids[i]]
            => after[i] = changes[p].now
    BY <1>9
  <2> QED
    BY <1>2, <1>9, <2>1, <2>2, Zenon
<1> QED
  BY <1>8, <1>10, Zenon DEF after, Changes

(***************************************************************************)
(* Snapshots, and the changes between two.                                 *)
(***************************************************************************)
Entry == [who : L!Sessions, called : RowsNames]

\* Each session once, under a name that it owns.
Snapshot(snap, o) ==
    /\ snap \in Seq(Entry)
    /\ \A i \in DOMAIN snap : o[snap[i].called] = snap[i].who
    /\ \A i, j \in DOMAIN snap : snap[i].who = snap[j].who => i = j

Whose(snap) == {snap[i].who : i \in DOMAIN snap}

LEMMA EntryOf ==
    ASSUME NEW o, NEW snap, Snapshot(snap, o), NEW i \in DOMAIN snap
    PROVE  /\ snap[i].who \in L!Sessions /\ snap[i].called \in RowsNames
           /\ o[snap[i].called] = snap[i].who
           /\ snap[i].who \in Whose(snap)
<1>1. snap \in Seq(Entry) /\ o[snap[i].called] = snap[i].who
  BY DEF Snapshot
<1>2. snap[i] \in Entry
  BY <1>1
<1>3. snap[i].who \in L!Sessions /\ snap[i].called \in RowsNames
  BY <1>2 DEF Entry
<1> QED
  BY <1>1, <1>3 DEF Whose

\* A session is called what its place says, and one that has none nothing.
LEMMA CallsOf ==
    ASSUME NEW o, NEW snap, Snapshot(snap, o), NEW s
    PROVE  /\ s \notin Whose(snap) => L!Calls(snap, s) = {}
           /\ \A j \in DOMAIN snap : snap[j].who = s => L!Calls(snap, s) = {snap[j].called}
BY DEF Snapshot, Whose, L!Calls

\* A change is from the name one listing has of a session to the other's.
IsChange(c, snap, older) ==
    \E i \in DOMAIN older, j \in DOMAIN snap :
        /\ older[i].who = snap[j].who /\ older[i].called # snap[j].called
        /\ c = [was |-> older[i].called, now |-> snap[j].called]

\* Every change is one, there is one for each of those sessions that is called
\* something else, and no two are of one session's names.
ChangesOf(changes, snap, older, those, o) ==
    /\ changes \in Seq([was : RowsNames, now : RowsNames])
    /\ \A m \in DOMAIN changes : IsChange(changes[m], snap, older)
    /\ \A i \in DOMAIN older, j \in DOMAIN snap :
           /\ older[i].who = snap[j].who /\ older[i].called # snap[j].called
           /\ older[i].who \in those
           => \E m \in DOMAIN changes :
                  changes[m] = [was |-> older[i].called, now |-> snap[j].called]
    /\ \A l, m \in DOMAIN changes : o[changes[l].was] = o[changes[m].was] => l = m

LEMMA RenamesOf ==
    ASSUME NEW o, NEW snap, Snapshot(snap, o), NEW older, Snapshot(older, o)
    PROVE  ChangesOf(L!renames(snap, older), snap, older, L!Sessions, o)
<1> DEFINE now(i) == L!Calls(snap, older[i].who)
           moved == {i \in DOMAIN older : now(i) \notin {{}, {older[i].called}}}
           each == [i \in DOMAIN older |-> [was |-> older[i].called,
                                           now |-> CHOOSE n \in now(i) : TRUE]]
           all == L!renames(snap, older)
           top == Len(older)
<1>1. top \in Nat /\ DOMAIN older = 1..top
  BY DEF Snapshot
<1>2. all = L!Only(each, moved) /\ moved \in SUBSET (1..top) /\ moved \in SUBSET DOMAIN older
  BY <1>1, Zenon DEF L!renames
<1>3. PICK q : Picked(q, each, moved)
  <2> HIDE DEF each, moved, top
  <2> QED
    BY <1>1, <1>2, OnlyOf
<1> DEFINE count == Cardinality(moved)
<1>4. /\ count \in Nat /\ q \in [1..count -> moved]
      /\ all = [n \in 1..count |-> each[q[n]]]
      /\ \A i \in moved : \E n \in 1..count : q[n] = i
      /\ \A l, n \in 1..count : l < n => q[l] < q[n]
  <2> HIDE DEF each, moved, all
  <2> QED
    BY <1>2, <1>3 DEF Picked
<1>5. ASSUME NEW i \in DOMAIN older, NEW j \in DOMAIN snap, older[i].who = snap[j].who
      PROVE  /\ i \in moved <=> older[i].called # snap[j].called
             /\ each[i] = [was |-> older[i].called, now |-> snap[j].called]
  <2>1. now(i) = {snap[j].called}
    BY <1>5, CallsOf
  <2> QED
    BY <2>1
<1>6. ASSUME NEW i \in moved
      PROVE  i \in DOMAIN older /\ \E j \in DOMAIN snap : older[i].who = snap[j].who
  <2>1. now(i) # {}
    OBVIOUS
  <2>2. older[i].who \in Whose(snap)
    BY <2>1, CallsOf
  <2> QED
    BY <2>2 DEF Whose
<1> HIDE DEF each, moved, all, count, now
<1>7. ASSUME NEW m \in 1..count
      PROVE  /\ q[m] \in DOMAIN older
             /\ \E j \in DOMAIN snap :
                   /\ older[q[m]].who = snap[j].who /\ older[q[m]].called # snap[j].called
                   /\ all[m] = [was |-> older[q[m]].called, now |-> snap[j].called]
             /\ all[m].was = older[q[m]].called
             /\ all[m] \in [was : RowsNames, now : RowsNames]
  <2>1. q[m] \in moved /\ all[m] = each[q[m]]
    BY <1>4
  <2>2. PICK j \in DOMAIN snap : older[q[m]].who = snap[j].who
    BY <1>6, <2>1
  <2>3. q[m] \in DOMAIN older
    BY <1>6, <2>1
  <2>4. all[m] = [was |-> older[q[m]].called, now |-> snap[j].called]
        /\ older[q[m]].called # snap[j].called
    BY <1>5, <2>1, <2>2, <2>3
  <2>5. older[q[m]].called \in RowsNames /\ snap[j].called \in RowsNames
    BY <2>3, EntryOf
  <2> QED
    BY <2>2, <2>3, <2>4, <2>5
<1>8. DOMAIN all = 1..count
  BY <1>4
<1>9. \A m \in 1..count : IsChange(all[m], snap, older)
  BY <1>7 DEF IsChange
<1>10. \A m \in 1..count : all[m] \in [was : RowsNames, now : RowsNames]
  BY <1>7
<1>11. all \in Seq([was : RowsNames, now : RowsNames])
  BY <1>4, <1>10
<1>12. ASSUME NEW i \in DOMAIN older, NEW j \in DOMAIN snap,
              older[i].who = snap[j].who, older[i].called # snap[j].called
       PROVE  \E m \in 1..count : all[m] = [was |-> older[i].called, now |-> snap[j].called]
  <2>1. i \in moved /\ each[i] = [was |-> older[i].called, now |-> snap[j].called]
    BY <1>5, <1>12
  <2>2. PICK m \in 1..count : q[m] = i
    BY <1>4, <2>1
  <2> QED
    BY <1>4, <2>1, <2>2
<1>13. ASSUME NEW l \in 1..count, NEW m \in 1..count, o[all[l].was] = o[all[m].was]
       PROVE  l = m
  <2>1. /\ q[l] \in DOMAIN older /\ all[l].was = older[q[l]].called
        /\ q[m] \in DOMAIN older /\ all[m].was = older[q[m]].called
    BY <1>7
  <2>2. older[q[l]].who = older[q[m]].who
    BY <1>13, <2>1, EntryOf
  <2>3. q[l] = q[m]
    BY <2>1, <2>2 DEF Snapshot
  <2>4. q[l] \in Int /\ q[m] \in Int
    BY <1>1, <2>1
  <2> QED
    BY <1>4, <2>3, <2>4
<1> QED
  BY <1>8, <1>9, <1>11, <1>12, <1>13 DEF all, ChangesOf

\* The same of the changes that are followed: all but those from the name the run's
\* own session goes by.
Followed(snap, older, h) ==
    LET all == L!renames(snap, older) IN L!Only(all, {i \in DOMAIN all : all[i].was # h})

LEMMA FollowedOf ==
    ASSUME NEW o, NEW snap, Snapshot(snap, o), NEW older, Snapshot(older, o),
           NEW h, o[h] = L!Current
    PROVE  ChangesOf(Followed(snap, older, h), snap, older, L!Sessions \ {L!Current}, o)
<1> DEFINE R == [was : RowsNames, now : RowsNames]
           all == L!renames(snap, older)
           places == {i \in DOMAIN all : all[i].was # h}
           changes == Followed(snap, older, h)
           count == Cardinality(places)
           top == Len(all)
<1>1. /\ all \in Seq(R)
      /\ \A m \in DOMAIN all : IsChange(all[m], snap, older)
      /\ \A i \in DOMAIN older, j \in DOMAIN snap :
             older[i].who = snap[j].who /\ older[i].called # snap[j].called =>
             \E m \in DOMAIN all :
                 all[m] = [was |-> older[i].called, now |-> snap[j].called]
      /\ \A l, m \in DOMAIN all : o[all[l].was] = o[all[m].was] => l = m
  <2>1. ChangesOf(all, snap, older, L!Sessions, o)
    BY RenamesOf
  <2>2. \A i \in DOMAIN older : older[i].who \in L!Sessions
    BY EntryOf
  <2> HIDE DEF all
  <2> QED
    BY <2>1, <2>2 DEF ChangesOf
<1>2. changes = L!Only(all, places)
  BY Zenon DEF Followed
<1> HIDE DEF R, all, changes
<1>3. top \in Nat /\ DOMAIN all = 1..top /\ places \in SUBSET (1..top)
  BY <1>1
<1>4. PICK q : Picked(q, all, places)
  <2> HIDE DEF places, top
  <2> QED
    BY <1>3, OnlyOf
<1>5. /\ count \in Nat /\ q \in [1..count -> places]
      /\ changes = [n \in 1..count |-> all[q[n]]]
      /\ \A i \in places : \E n \in 1..count : q[n] = i
      /\ \A l, n \in 1..count : l < n => q[l] < q[n]
  <2> HIDE DEF places, top
  <2> QED
    BY <1>2, <1>4 DEF Picked
<1>6. /\ DOMAIN changes = 1..count
      /\ \A n \in 1..count : q[n] \in DOMAIN all /\ q[n] \in Int /\ changes[n] = all[q[n]]
  <2> HIDE DEF count
  <2> QED
    BY <1>3, <1>5
<1> HIDE DEF count
<1>7. \A i \in DOMAIN all : all[i] \in R
  BY <1>1
<1>8. changes \in Seq(R)
  BY <1>5, <1>6, <1>7
<1>9. ASSUME NEW i \in DOMAIN older, NEW j \in DOMAIN snap,
             older[i].who = snap[j].who, older[i].called # snap[j].called,
             older[i].who \in L!Sessions \ {L!Current}
      PROVE  \E m \in DOMAIN changes :
                 changes[m] = [was |-> older[i].called, now |-> snap[j].called]
  <2>1. PICK p \in DOMAIN all : all[p] = [was |-> older[i].called, now |-> snap[j].called]
    BY <1>1, <1>9
  <2>2. o[all[p].was] = older[i].who
    BY <2>1, EntryOf
  <2>3. p \in places
    BY <1>9, <2>2
  <2>4. PICK m \in 1..count : q[m] = p
    BY <1>5, <2>3
  <2> QED
    BY <1>6, <2>1, <2>4
<1>10. ASSUME NEW l \in DOMAIN changes, NEW m \in DOMAIN changes,
              o[changes[l].was] = o[changes[m].was]
       PROVE  l = m
  <2>1. q[l] = q[m]
    BY <1>1, <1>6, <1>10
  <2> QED
    BY <1>5, <1>6, <2>1
<1>11. \A m \in DOMAIN changes : IsChange(changes[m], snap, older)
  BY <1>1, <1>6
<1> QED
  BY <1>8, <1>9, <1>10, <1>11, Zenon DEF changes, R, ChangesOf

(***************************************************************************)
(* What an id means, and the rows.                                         *)
(***************************************************************************)
\* Each id is a name somebody owns, the first the run's own session.
Ids(ids, o) ==
    /\ ids \in Seq(RowsNames) /\ ids # <<>>
    /\ o[ids[1]] = L!Current

\* What an id means is the very name a listing has, of a session it lists.
Meant(ids, snap, o) ==
    \A i \in DOMAIN ids, j \in DOMAIN snap :
        o[ids[i]] = snap[j].who /\ snap[j].who # L!Current => ids[i] = snap[j].called

LEMMA IdsOf ==
    ASSUME NEW o, NEW ids, Ids(ids, o)
    PROVE  /\ 1 \in DOMAIN ids /\ ids[1] \in RowsNames
           /\ \A i \in DOMAIN ids : ids[i] \in RowsNames
BY DEF Ids

\* Renames of others that are followed keep the owners, and bring what is meant
\* up to the new listing.
LEMMA OthersFollowed ==
    ASSUME NEW o, NEW ids, Ids(ids, o), NEW snap, Snapshot(snap, o),
           NEW older, Snapshot(older, o), Meant(ids, older, o),
           \A i \in DOMAIN ids : o[ids[i]] # L!Current /\ o[ids[i]] \in Whose(snap)
                                => o[ids[i]] \in Whose(older)
    PROVE  LET after == L!renamed(ids, Followed(snap, older, ids[1])) IN
           /\ after \in Seq(RowsNames) /\ DOMAIN after = DOMAIN ids
           /\ \A i \in DOMAIN ids : o[after[i]] = o[ids[i]]
           /\ Meant(after, snap, o)
<1> DEFINE changes == Followed(snap, older, ids[1])
           after == L!renamed(ids, changes)
<1>1. ChangesOf(changes, snap, older, L!Sessions \ {L!Current}, o)
  <2>1. o[ids[1]] = L!Current
    BY DEF Ids
  <2> QED
    BY <2>1, FollowedOf
<1>2. ids \in Seq(RowsNames)
  BY DEF Ids
<1> HIDE DEF changes
<1>3. \A m \in DOMAIN changes : o[changes[m].was] = o[changes[m].now]
  BY <1>1, EntryOf DEF IsChange, ChangesOf
<1>4. Changes(after, ids, changes, o, RowsNames)
  <2>1. changes \in Seq([was : RowsNames, now : RowsNames])
    BY <1>1 DEF ChangesOf
  <2> QED
    BY <1>2, <1>3, <2>1, RenamedKeeps
<1> HIDE DEF after
<1>5. ASSUME NEW i \in DOMAIN ids, NEW j \in DOMAIN snap,
             o[after[i]] = snap[j].who, snap[j].who # L!Current
      PROVE  after[i] = snap[j].called
  <2>1. o[ids[i]] = snap[j].who
    BY <1>4, <1>5 DEF Changes
  <2>2. o[ids[i]] \in Whose(older)
    BY <1>5, <2>1 DEF Whose
  <2>3. PICK k \in DOMAIN older : older[k].who = snap[j].who
    BY <2>1, <2>2 DEF Whose
  <2>4. ids[i] = older[k].called
    BY <1>5, <2>1, <2>3 DEF Meant
  <2>5. CASE older[k].called = snap[j].called
    <3>1. ASSUME NEW c \in DOMAIN changes, changes[c].was = ids[i] PROVE FALSE
      <4>1. PICK a \in DOMAIN older, b \in DOMAIN snap :
                /\ older[a].who = snap[b].who /\ older[a].called # snap[b].called
                /\ changes[c] = [was |-> older[a].called, now |-> snap[b].called]
        BY <1>1 DEF IsChange, ChangesOf
      <4>2. older[a].who = snap[j].who
        BY <2>1, <3>1, <4>1, EntryOf
      <4>3. a = k /\ b = j
        BY <2>3, <4>1, <4>2 DEF Snapshot
      <4> QED
        BY <2>5, <4>1, <4>3
    <3> QED
      BY <1>4, <2>4, <2>5, <3>1 DEF Changes
  <2>6. CASE older[k].called # snap[j].called
    <3>1. PICK p \in DOMAIN changes :
              changes[p] = [was |-> older[k].called, now |-> snap[j].called]
      BY <1>1, <1>5, <2>3, <2>6, EntryOf DEF ChangesOf
    <3>2. changes[p].was = ids[i] /\ changes[p].now = snap[j].called
      BY <2>4, <3>1
    <3>3. \A c \in DOMAIN changes : c # p => o[changes[c].was] # o[ids[i]]
      BY <1>1, <3>2 DEF ChangesOf
    <3> QED
      BY <1>4, <3>2, <3>3 DEF Changes
  <2> QED
    BY <2>5, <2>6
<1>6. Meant(after, snap, o)
  BY <1>4, <1>5 DEF Meant, Changes
<1> QED
  BY <1>4, <1>6, Zenon DEF after, changes, Changes

\* The run's own name is followed the same way.
LEMMA HereFollowed ==
    ASSUME NEW o, NEW ids, ids \in Seq(RowsNames), NEW snap, Snapshot(snap, o), Meant(ids, snap, o),
           NEW h \in RowsNames, o[h] = L!Current, NEW here \in RowsNames, o[here] = L!Current
    PROVE  LET after == L!renamed(ids, <<[was |-> h, now |-> here]>>) IN
           /\ after \in Seq(RowsNames) /\ DOMAIN after = DOMAIN ids
           /\ \A i \in DOMAIN ids : o[after[i]] = o[ids[i]]
           /\ Meant(after, snap, o)
<1> DEFINE c == [was |-> h, now |-> here]
           changes == <<c>>
           after == L!renamed(ids, changes)
<1>1. changes \in Seq([was : RowsNames, now : RowsNames])
  OBVIOUS
<1>2. DOMAIN changes = {1} /\ changes[1].was = h /\ changes[1].now = here
  OBVIOUS
<1> HIDE DEF c, changes
<1>3. Changes(after, ids, changes, o, RowsNames)
  <2>1. \A m \in DOMAIN changes : o[changes[m].was] = o[changes[m].now]
    BY <1>2
  <2> QED
    BY <1>1, <2>1, RenamedKeeps
<1> HIDE DEF after
<1>4. Meant(after, snap, o)
  BY <1>2, <1>3 DEF Changes, Meant
<1> QED
  BY <1>3, <1>4, Zenon DEF after, changes, c, Changes

\* Each of the rows listed has the name of a session listed, or the run's own.
LEMMA ListedOf ==
    ASSUME NEW o, NEW told, Snapshot(told, o), NEW here \in RowsNames
    PROVE  /\ L!Listed(told, here) \in Seq(RowsNames)
           /\ \A i \in DOMAIN L!Listed(told, here) :
                  \/ L!Listed(told, here)[i] = here
                  \/ \E j \in DOMAIN told : L!Listed(told, here)[i] = told[j].called
<1> DEFINE named == [i \in DOMAIN told |-> told[i].called]
           len == Len(told)
<1>1. len \in Nat /\ DOMAIN told = 1..len
  BY DEF Snapshot
<1>2. \A i \in DOMAIN told : told[i].called \in RowsNames
  BY EntryOf
<1>3. named \in Seq(RowsNames) /\ DOMAIN named = DOMAIN told
  BY <1>1, <1>2
<1>4. \A i \in DOMAIN told : named[i] = told[i].called
  OBVIOUS
<1>5. L!Listed(told, here) = IF here \in L!ToSet(named) THEN named ELSE Append(named, here)
  BY Zenon DEF L!Listed
<1> HIDE DEF named, len
<1> DEFINE more == Append(named, here)
<1>6. /\ more \in Seq(RowsNames)
      /\ \A i \in DOMAIN more : more[i] = here \/ (i \in DOMAIN named /\ more[i] = named[i])
  BY <1>3
<1> QED
  BY <1>3, <1>4, <1>5, <1>6

\* A row is drawn with the id of its name, and of whose name it is.
PointTo(list, ids, o) ==
    \A i \in DOMAIN list : list[i].id \in DOMAIN ids /\ list[i].who = o[ids[list[i].id]]

LEMMA IdOf ==
    ASSUME NEW ids \in Seq(RowsNames), NEW a, NEW k \in DOMAIN ids, ids[k] = a
    PROVE  L!idOf(ids, a) \in DOMAIN ids /\ ids[L!idOf(ids, a)] = a
<1> DEFINE M == {i \in DOMAIN ids : ids[i] = a}
<1>1. M \in SUBSET Nat /\ M # {} /\ DOMAIN ids = 1..Len(ids) /\ Len(ids) \in Nat
  OBVIOUS
<1>2. PICK m \in M : \A i \in M : m <= i
  <2> HIDE DEF M
  <2> QED
    BY <1>1, LeastOf
<1>3. m \in DOMAIN ids /\ ids[m] = a /\ \A j \in 1..(m - 1) : ids[j] # a
  <2>1. ASSUME NEW j \in 1..(m - 1), ids[j] = a PROVE FALSE
    <3>1. j \in M /\ m \in Nat /\ j < m
      BY <1>1, <2>1
    <3> QED
      BY <1>1, <1>2, <3>1
  <2> QED
    BY <2>1
<1>4. \E i \in DOMAIN ids : ids[i] = a /\ \A j \in 1..(i - 1) : ids[j] # a
  BY <1>3
<1>5. L!idOf(ids, a) = CHOOSE i \in DOMAIN ids : ids[i] = a /\ \A j \in 1..(i - 1) : ids[j] # a
  BY Zenon DEF L!idOf
<1> QED
  BY <1>4, <1>5, Zenon

LEMMA DrawnOf ==
    ASSUME NEW o, NEW told, Snapshot(told, o), NEW ids \in Seq(RowsNames), NEW addresses,
           \A i \in DOMAIN addresses :
               /\ \E k \in DOMAIN ids : ids[k] = addresses[i]
               /\ \/ o[addresses[i]] = L!Current
                  \/ \E j \in DOMAIN told : addresses[i] = told[j].called
    PROVE  PointTo(L!Drawn(addresses, ids, told), ids, o)
<1> DEFINE list == L!Drawn(addresses, ids, told)
           known(a) == \E j \in DOMAIN told : told[j].called = a
           entry(a) == CHOOSE e \in L!ToSet(told) : e.called = a
<1>1. DOMAIN list = DOMAIN addresses
  BY DEF L!Drawn
<1>2. ASSUME NEW i \in DOMAIN addresses
      PROVE  /\ list[i].id = L!idOf(ids, addresses[i])
             /\ list[i].who = IF known(addresses[i]) THEN entry(addresses[i]).who ELSE L!Current
  <2>1. list[i] = [id |-> L!idOf(ids, addresses[i]), label |-> addresses[i],
                   who |-> IF known(addresses[i]) THEN entry(addresses[i]).who ELSE L!Current]
    BY Zenon DEF L!Drawn
  <2> HIDE DEF list, known, entry
  <2> QED
    BY <2>1
<1>3. ASSUME NEW a, known(a) PROVE entry(a).who = o[a]
  <2>1. \E e \in L!ToSet(told) : e.called = a
    BY <1>3 DEF L!ToSet
  <2>2. entry(a) \in L!ToSet(told) /\ entry(a).called = a
    BY <2>1, Zenon
  <2> HIDE DEF entry, known
  <2>3. PICK j \in DOMAIN told : entry(a) = told[j]
    BY <2>2 DEF L!ToSet
  <2> QED
    BY <2>2, <2>3, EntryOf
<1> HIDE DEF list, entry
<1>4. ASSUME NEW i \in DOMAIN addresses
      PROVE  list[i].id \in DOMAIN ids /\ list[i].who = o[ids[list[i].id]]
  <2>1. list[i].id \in DOMAIN ids /\ ids[list[i].id] = addresses[i]
    BY <1>2, IdOf
  <2>2. list[i].who = o[addresses[i]]
    BY <1>2, <1>3
  <2> QED
    BY <2>1, <2>2
<1>5. PointTo(list, ids, o)
  BY <1>1, <1>4 DEF PointTo
<1> QED
  BY <1>5 DEF list

\* The rows of a listing, and the ids they are given or keep.
LEMMA RowsFollowed ==
    ASSUME NEW o, NEW held, Ids(held, o), NEW told, Snapshot(told, o), Meant(held, told, o),
           NEW here \in RowsNames, o[here] = L!Current,
           NEW ids, ids = L!following(L!Listed(told, here), held)
    PROVE  /\ Ids(ids, o) /\ Meant(ids, told, o)
           /\ DOMAIN held \in SUBSET DOMAIN ids
           /\ \A i \in DOMAIN held : o[ids[i]] = o[held[i]]
           /\ \A i \in DOMAIN ids :
                  i \in DOMAIN held \/ o[ids[i]] = L!Current \/ o[ids[i]] \in Whose(told)
           /\ PointTo(L!Drawn(L!Listed(told, here), ids, told), ids, o)
<1> DEFINE listed == L!Listed(told, here)
<1>1. /\ listed \in Seq(RowsNames)
      /\ \A i \in DOMAIN listed :
             \/ listed[i] = here
             \/ \E j \in DOMAIN told : listed[i] = told[j].called
  BY ListedOf
<1>2. held \in Seq(RowsNames) /\ held # <<>> /\ o[held[1]] = L!Current
  BY DEF Ids
<1> HIDE DEF listed
<1>3. Extends(ids, held, listed, RowsNames)
  BY <1>1, <1>2, FollowingKeeps DEF listed
<1>4. ids \in Seq(RowsNames) /\ 1 \in DOMAIN held /\ 1 \in DOMAIN ids /\ ids[1] = held[1]
      /\ ids # <<>>
  <2>1. 1 \in DOMAIN held
    BY <1>2
  <2>2. ids \in Seq(RowsNames) /\ 1 \in DOMAIN ids /\ ids[1] = held[1]
    BY <1>3, <2>1 DEF Extends
  <2>3. ids # <<>>
    BY <2>2
  <2> QED
    BY <2>1, <2>2, <2>3
<1>5. Ids(ids, o)
  BY <1>2, <1>4 DEF Ids
<1>6. ASSUME NEW i \in DOMAIN ids
      PROVE  /\ i \in DOMAIN held => ids[i] = held[i]
             /\ \/ i \in DOMAIN held
                \/ o[ids[i]] = L!Current
                \/ \E j \in DOMAIN told : ids[i] = told[j].called /\ o[ids[i]] = told[j].who
  <2>1. i \in DOMAIN held => ids[i] = held[i]
    BY <1>3 DEF Extends
  <2>2. i \in DOMAIN held \/ \E k \in DOMAIN listed : ids[i] = listed[k]
    BY <1>3 DEF Extends
  <2> QED
    BY <1>1, <2>1, <2>2, EntryOf
<1>7. Meant(ids, told, o)
  <2> SUFFICES ASSUME NEW i \in DOMAIN ids, NEW j \in DOMAIN told,
                      o[ids[i]] = told[j].who, told[j].who # L!Current
               PROVE  ids[i] = told[j].called
    BY DEF Meant
  <2>1. CASE i \in DOMAIN held
    BY <1>6, <2>1 DEF Meant
  <2>2. CASE i \notin DOMAIN held
    <3>1. PICK k \in DOMAIN told : ids[i] = told[k].called /\ o[ids[i]] = told[k].who
      BY <1>6, <2>2
    <3> QED
      BY <3>1 DEF Snapshot
  <2> QED
    BY <2>1, <2>2
<1>8. \A i \in DOMAIN ids :
          i \in DOMAIN held \/ o[ids[i]] = L!Current \/ o[ids[i]] \in Whose(told)
  BY <1>6 DEF Whose
<1>9. PointTo(L!Drawn(listed, ids, told), ids, o)
  <2>1. \A i \in DOMAIN listed :
            /\ \E k \in DOMAIN ids : ids[k] = listed[i]
            /\ \/ o[listed[i]] = L!Current
               \/ \E j \in DOMAIN told : listed[i] = told[j].called
    BY <1>1, <1>3 DEF Extends
  <2> QED
    BY <1>4, <2>1, DrawnOf
<1>10. DOMAIN held \in SUBSET DOMAIN ids /\ \A i \in DOMAIN held : ids[i] = held[i]
  BY <1>3 DEF Extends
<1> QED
  BY <1>5, <1>7, <1>8, <1>9, <1>10 DEF listed

(***************************************************************************)
(* The invariant.                                                          *)
(***************************************************************************)
Owners == [RowsNames -> 0..Most]

\* A name in use is its session's, and one that has an owner is used up.
NamesRight(o) ==
    /\ born \in L!Sessions
    /\ L_name \in [L!Sessions -> RowsNames \union {L!NoName}]
    /\ L_name[L!Current] # L!NoName
    /\ \A s \in L!Sessions : /\ s > born => L_name[s] = L!NoName
                             /\ L_name[s] # L!NoName => o[L_name[s]] = s
    /\ \A n \in RowsNames : o[n] # 0 => n \in L!Used /\ o[n] <= born
    /\ confirmed \in RowsNames \union {L!NoName}
    /\ confirmed # L!NoName => o[confirmed] = L!Current

Ended(s) == /\ L_name[s] = L!NoName
            /\ pending # L!Nothing => s \notin Whose(pending[1].found)

\* What is listed and what is meant have the names of their owners, and a session
\* that is in no listing but an older one has ended and is in none to come.
ListsRight(o) ==
    /\ Snapshot(cached, o)
    /\ pending # L!Nothing => Snapshot(pending[1].found, o)
    /\ Ids(L_at, o) /\ \A i \in DOMAIN L_at : o[L_at[i]] \in L!Sessions
    /\ Meant(L_at, cached, o)
    /\ PointTo(rows, L_at, o) /\ PointTo(shown, L_at, o)
    /\ \A i \in DOMAIN L_at : \/ o[L_at[i]] = L!Current \/ o[L_at[i]] \in Whose(cached)
                              \/ Ended(o[L_at[i]])
    /\ \A s \in Whose(cached) :
           s = L!Current \/ pending = L!Nothing \/ s \in Whose(pending[1].found) \/ L_name[s] = L!NoName

LInv == \E o \in Owners : NamesRight(o) /\ ListsRight(o)

(***************************************************************************)
(* A listing of what runs.                                                 *)
(***************************************************************************)
LEMMA ListingOf ==
    ASSUME L!RowsAssumption, NEW o, NEW calling \in [L!Sessions -> RowsNames \union {L!NoName}],
           \A s \in L!Sessions : calling[s] # L!NoName => o[calling[s]] = s
    PROVE  /\ Snapshot(L!Listing(calling), o)
           /\ Whose(L!Listing(calling)) = {s \in L!Sessions : calling[s] # L!NoName}
<1> DEFINE each == [s \in L!Sessions |-> [who |-> s, called |-> calling[s]]]
           running == {s \in L!Sessions : calling[s] # L!NoName}
           list == L!Listing(calling)
           count == Cardinality(running)
<1>1. Most \in Nat /\ running \in SUBSET (1..Most)
  BY DEF L!RowsAssumption, L!Sessions
<1>2. list = L!Only(each, running)
  BY Zenon DEF L!Listing
<1>3. PICK q : Picked(q, each, running)
  <2> HIDE DEF each, running
  <2> QED
    BY <1>1, OnlyOf
<1>4. /\ count \in Nat /\ q \in [1..count -> running]
      /\ list = [n \in 1..count |-> each[q[n]]]
      /\ \A i \in running : \E n \in 1..count : q[n] = i
      /\ \A l, n \in 1..count : l < n => q[l] < q[n]
  <2> HIDE DEF each, running, list
  <2> QED
    BY <1>2, <1>3 DEF Picked
<1>5. \A s \in running : /\ s \in L!Sessions /\ s \in Int
                         /\ each[s] = [who |-> s, called |-> calling[s]]
                         /\ calling[s] \in RowsNames /\ o[calling[s]] = s
  BY <1>1
<1> HIDE DEF each, list, count
<1>6. DOMAIN list = 1..count
  BY <1>4
<1>7. \A n \in 1..count :
          /\ q[n] \in running
          /\ list[n] = [who |-> q[n], called |-> calling[q[n]]]
  <2> HIDE DEF running
  <2> QED
    BY <1>4, <1>5
<1> HIDE DEF running
<1>8. ASSUME NEW n \in 1..count
      PROVE  /\ list[n] \in Entry /\ list[n].who = q[n]
             /\ o[list[n].called] = list[n].who
  <2>1. q[n] \in L!Sessions /\ calling[q[n]] \in RowsNames /\ o[calling[q[n]]] = q[n]
    BY <1>5, <1>7
  <2>2. list[n] = [who |-> q[n], called |-> calling[q[n]]]
    BY <1>7
  <2> QED
    BY <2>1, <2>2 DEF Entry
<1>9. list \in Seq(Entry)
  BY <1>4, <1>6, <1>8
<1>10. ASSUME NEW l \in 1..count, NEW n \in 1..count, list[l].who = list[n].who PROVE l = n
  <2>1. q[l] = q[n] /\ q[l] \in Int
    BY <1>5, <1>7, <1>8, <1>10
  <2> QED
    BY <1>4, <2>1
<1>11. Snapshot(list, o)
  BY <1>6, <1>8, <1>9, <1>10 DEF Snapshot
<1>12. Whose(list) = running
  BY <1>4, <1>6, <1>7, <1>8 DEF Whose
<1> QED
  BY <1>11, <1>12 DEF list, running

(***************************************************************************)
(* A name of one's own.                                                    *)
(***************************************************************************)
\* What is said of the names that have an owner stands when another gets one.
GivenTo(p, o, n, s) == p = [o EXCEPT ![n] = s]

LEMMA Given ==
    ASSUME L!RowsAssumption, NEW o \in Owners, NEW n \in RowsNames, o[n] = 0, NEW s \in L!Sessions,
           NEW p, GivenTo(p, o, n, s)
    PROVE  /\ p \in Owners /\ p[n] = s
           /\ \A m \in RowsNames : m # n => p[m] = o[m]
           /\ \A snap : Snapshot(snap, o) => Snapshot(snap, p)
           /\ ListsRight(o) => ListsRight(p)
<1>1. Most \in Nat /\ 0 \notin L!Sessions /\ s \in 0..Most
  BY DEF L!RowsAssumption, L!Sessions
<1>2. p \in Owners /\ p[n] = s /\ \A m \in RowsNames : m # n => p[m] = o[m]
  BY <1>1 DEF Owners, GivenTo
<1>3. \A m \in RowsNames : o[m] \in L!Sessions => p[m] = o[m]
  BY <1>1, <1>2
<1>4. ASSUME NEW snap, Snapshot(snap, o) PROVE Snapshot(snap, p)
  BY <1>3, <1>4, EntryOf DEF Snapshot
<1>5. ASSUME ListsRight(o) PROVE ListsRight(p)
  <2>1. \A i \in DOMAIN L_at : L_at[i] \in RowsNames /\ o[L_at[i]] \in L!Sessions /\ p[L_at[i]] = o[L_at[i]]
    BY <1>3, <1>5, IdsOf DEF ListsRight
  <2>2. Ids(L_at, p)
    BY <1>5, <2>1, IdsOf DEF ListsRight, Ids
  <2>3. PointTo(rows, L_at, p) /\ PointTo(shown, L_at, p)
    BY <1>5, <2>1 DEF ListsRight, PointTo
  <2>4. Meant(L_at, cached, p)
    BY <1>5, <2>1 DEF ListsRight, Meant
  <2> QED
    BY <1>4, <1>5, <2>1, <2>2, <2>3, <2>4 DEF ListsRight
<1> QED
  BY <1>2, <1>4, <1>5

(***************************************************************************)
(* A listing is published.                                                 *)
(***************************************************************************)
\* The name the stream gave the run's own session stands in for the listing's.
LEMMA CorrectedOf ==
    ASSUME NEW o, NEW snap, Snapshot(snap, o), NEW here \in RowsNames, o[here] = L!Current
    PROVE  LET told == L!Corrected(snap, here) IN
           /\ Snapshot(told, o) /\ Whose(told) = Whose(snap)
           /\ \A ids : Meant(ids, snap, o) => Meant(ids, told, o)
<1> DEFINE told == L!Corrected(snap, here)
           len == Len(snap)
<1>1. DOMAIN told = DOMAIN snap
  BY DEF L!Corrected
<1>2. len \in Nat /\ DOMAIN snap = 1..len
  BY DEF Snapshot
<1>3. ASSUME NEW i \in DOMAIN snap
      PROVE  /\ told[i] \in Entry /\ told[i].who = snap[i].who
             /\ o[told[i].called] = told[i].who
             /\ snap[i].who # L!Current => told[i].called = snap[i].called
  <2>1. snap[i] \in Entry
    BY DEF Snapshot
  <2>2. told[i] = IF snap[i].who = L!Current THEN [snap[i] EXCEPT !.called = here] ELSE snap[i]
    BY DEF L!Corrected
  <2>3. o[snap[i].called] = snap[i].who
    BY EntryOf
  <2> HIDE DEF told
  <2> QED
    BY <2>1, <2>2, <2>3 DEF Entry
<1>4. told = [i \in DOMAIN snap |-> told[i]]
  BY DEF L!Corrected
<1> HIDE DEF told, len
<1>5. told \in Seq(Entry)
  BY <1>2, <1>3, <1>4
<1>6. Snapshot(told, o)
  BY <1>1, <1>3, <1>5 DEF Snapshot
<1>7. Whose(told) = Whose(snap)
  BY <1>1, <1>3 DEF Whose
<1>8. \A ids : Meant(ids, snap, o) => Meant(ids, told, o)
  BY <1>1, <1>3 DEF Meant
<1> QED
  BY <1>6, <1>7, <1>8 DEF told

LEMMA PublishKeeps ==
    ASSUME L!RowsAssumption, NEW o \in Owners, ListsRight(o), NEW snap, Snapshot(snap, o),
           \A i \in DOMAIN L_at : o[L_at[i]] # L!Current /\ o[L_at[i]] \in Whose(snap)
                                => o[L_at[i]] \in Whose(cached),
           confirmed' \in RowsNames \union {L!NoName}, confirmed' # L!NoName => o[confirmed'] = L!Current,
           L!Publish(snap)
    PROVE  /\ Snapshot(cached', o) /\ Whose(cached') = Whose(snap)
           /\ Ids(L_at', o) /\ Meant(L_at', cached', o)
           /\ PointTo(rows', L_at', o) /\ PointTo(shown, L_at', o)
           /\ \A i \in DOMAIN L_at' :
                  /\ o[L_at'[i]] \in L!Sessions
                  /\ \/ o[L_at'[i]] = L!Current \/ o[L_at'[i]] \in Whose(snap)
                     \/ \E j \in DOMAIN L_at : o[L_at'[i]] = o[L_at[j]]
<1> DEFINE here == IF confirmed' = L!NoName THEN L_at[1] ELSE confirmed'
           told == IF confirmed' = L!NoName THEN snap ELSE L!Corrected(snap, here)
           others == L!renamed(L_at, Followed(snap, cached, L_at[1]))
           held == L!renamed(others, <<[was |-> L_at[1], now |-> here]>>)
<1>1. /\ L_at' = L!following(L!Listed(told, here), held)
      /\ rows' = L!Drawn(L!Listed(told, here), L_at', told)
      /\ cached' = told
  BY Zenon DEF L!Publish, Followed
<1>2. /\ Ids(L_at, o) /\ Snapshot(cached, o) /\ Meant(L_at, cached, o) /\ PointTo(shown, L_at, o)
      /\ \A i \in DOMAIN L_at : o[L_at[i]] \in L!Sessions
  BY DEF ListsRight
<1>3. L_at[1] \in RowsNames /\ o[L_at[1]] = L!Current /\ 1 \in DOMAIN L_at
  BY <1>2, IdsOf DEF Ids
<1>4. here \in RowsNames /\ o[here] = L!Current
  BY <1>3
<1>5. /\ others \in Seq(RowsNames) /\ DOMAIN others = DOMAIN L_at
      /\ \A i \in DOMAIN L_at : o[others[i]] = o[L_at[i]]
      /\ Meant(others, snap, o)
  <2> HIDE DEF here, told, held
  <2> QED
    BY <1>2, OthersFollowed
<1>6. /\ Snapshot(told, o) /\ Whose(told) = Whose(snap)
      /\ \A ids : Meant(ids, snap, o) => Meant(ids, told, o)
  <2>1. CASE confirmed' = L!NoName
    BY <2>1
  <2>2. CASE confirmed' # L!NoName
    <3>1. told = L!Corrected(snap, here)
      BY <2>2
    <3> HIDE DEF told, here, others, held
    <3> QED
      BY <1>4, <3>1, CorrectedOf
  <2> QED
    BY <2>1, <2>2
<1> HIDE DEF here, told, others
<1>7. /\ held \in Seq(RowsNames) /\ DOMAIN held = DOMAIN others
      /\ \A i \in DOMAIN others : o[held[i]] = o[others[i]]
      /\ Meant(held, snap, o)
  BY <1>3, <1>4, <1>5, HereFollowed
<1> HIDE DEF held
<1>8. DOMAIN held = DOMAIN L_at /\ \A i \in DOMAIN L_at : o[held[i]] = o[L_at[i]]
  BY <1>5, <1>7
<1>9. Ids(held, o) /\ Meant(held, told, o)
  <2>1. held # <<>>
    BY <1>3, <1>7, <1>8
  <2> QED
    BY <1>3, <1>6, <1>7, <1>8, <2>1 DEF Ids
<1>10. /\ Ids(L_at', o) /\ Meant(L_at', told, o)
       /\ DOMAIN held \in SUBSET DOMAIN L_at'
       /\ \A i \in DOMAIN held : o[L_at'[i]] = o[held[i]]
       /\ \A i \in DOMAIN L_at' :
              i \in DOMAIN held \/ o[L_at'[i]] = L!Current \/ o[L_at'[i]] \in Whose(told)
       /\ PointTo(rows', L_at', o)
  BY <1>1, <1>4, <1>6, <1>9, RowsFollowed
<1>11. \A i \in DOMAIN L_at : i \in DOMAIN L_at' /\ o[L_at'[i]] = o[L_at[i]]
  BY <1>8, <1>10
<1>12. PointTo(shown, L_at', o)
  BY <1>2, <1>11 DEF PointTo
<1>13. \A s \in Whose(told) : s \in L!Sessions
  BY <1>6, EntryOf DEF Whose
<1>14. L!Current \in L!Sessions
  BY DEF L!Current, L!Sessions, L!RowsAssumption
<1>15. ASSUME NEW i \in DOMAIN L_at'
       PROVE  /\ o[L_at'[i]] \in L!Sessions
              /\ \/ o[L_at'[i]] = L!Current \/ o[L_at'[i]] \in Whose(snap)
                 \/ \E j \in DOMAIN L_at : o[L_at'[i]] = o[L_at[j]]
  <2>1. i \in DOMAIN L_at \/ o[L_at'[i]] = L!Current \/ o[L_at'[i]] \in Whose(told)
    BY <1>8, <1>10
  <2> QED
    BY <1>2, <1>6, <1>11, <1>13, <1>14, <2>1
<1> QED
  BY <1>1, <1>6, <1>10, <1>12, <1>15

(***************************************************************************)
(* The invariant is kept.                                                  *)
(***************************************************************************)
LEMMA LInitially == ASSUME L!RowsAssumption PROVE L!Init => LInv
<1> SUFFICES ASSUME L!Init PROVE LInv
  OBVIOUS
<1>1. PICK n \in RowsNames : /\ L_name = [s \in L!Sessions |-> IF s = 1 THEN n ELSE L!NoName]
                             /\ L_at = <<n>>
  BY DEF L!Init
<1>2. Most \in Nat \ {0} /\ L!NoName \notin RowsNames /\ L!Current \in L!Sessions /\ 1 \in L!Sessions
      /\ L!Current = 1
  BY DEF L!RowsAssumption, L!Sessions, L!Current, L!NoName
<1> DEFINE o == [m \in RowsNames |-> IF m = n THEN L!Current ELSE 0]
<1>3. o \in Owners /\ o[n] = L!Current /\ \A m \in RowsNames : o[m] # 0 => m = n /\ o[m] = 1
  BY <1>2 DEF Owners
<1> HIDE DEF o
<1>4. /\ L_name \in [L!Sessions -> RowsNames \union {L!NoName}] /\ L_name[L!Current] = n
      /\ \A s \in L!Sessions : L_name[s] # L!NoName => s = 1 /\ o[L_name[s]] = s
  BY <1>1, <1>2, <1>3
<1>5. born = 1 /\ pending = L!Nothing /\ cached = L!Listing(L_name) /\ rows = L!Drawn(L_at, L_at, cached)
      /\ shown = rows /\ L_taken = {} /\ confirmed = L!NoName
  BY DEF L!Init
<1>6. NamesRight(o)
  <2>1. \A m \in RowsNames : o[m] # 0 => m \in L!Used /\ o[m] <= born
    BY <1>2, <1>3, <1>4, <1>5 DEF L!Used
  <2>2. \A s \in L!Sessions : s > born => L_name[s] = L!NoName
    BY <1>4, <1>5
  <2> QED
    BY <1>2, <1>4, <1>5, <2>1, <2>2 DEF NamesRight
<1>7. Snapshot(cached, o) /\ Whose(cached) = {s \in L!Sessions : L_name[s] # L!NoName}
  BY <1>4, <1>5, ListingOf
<1>8. /\ L_at \in Seq(RowsNames) /\ L_at # <<>> /\ DOMAIN L_at = {1} /\ L_at[1] = n
  BY <1>1
<1>9. Ids(L_at, o) /\ \A i \in DOMAIN L_at : o[L_at[i]] = L!Current
  BY <1>3, <1>8 DEF Ids
<1>10. PointTo(L!Drawn(L_at, L_at, cached), L_at, o)
  BY <1>7, <1>8, <1>9, DrawnOf
<1>11. Meant(L_at, cached, o)
  BY <1>9 DEF Meant
<1>12. ListsRight(o)
  BY <1>2, <1>5, <1>7, <1>9, <1>10, <1>11 DEF ListsRight
<1> QED
  BY <1>3, <1>6, <1>12 DEF LInv

\* A name for a session: a new one that nobody had.
LEMMA NamedKeeps ==
    ASSUME L!RowsAssumption, NEW o \in Owners, NamesRight(o), ListsRight(o),
           NEW s \in L!Sessions, NEW n \in RowsNames \ L!Used, s <= born',
           L_name' = [L_name EXCEPT ![s] = n], born' \in L!Sessions, born' >= born,
           L_taken \subseteq L_taken', L_name[s] # L!NoName => L_name[s] \in L_taken',
           L_name[s] = L!NoName => s > born,
           UNCHANGED <<pending, cached, L_at, rows, shown, confirmed>>
    PROVE  LInv'
<1>1. /\ born \in L!Sessions /\ L_name \in [L!Sessions -> RowsNames \union {L!NoName}]
      /\ L_name[L!Current] # L!NoName /\ L!NoName \notin RowsNames /\ L!Sessions \subseteq Nat
      /\ L!Current \in L!Sessions /\ 0 \notin L!Sessions
  BY DEF NamesRight, L!RowsAssumption, L!NoName, L!Sessions, L!Current
<1>2. o[n] = 0 /\ n \in RowsNames
  BY DEF NamesRight
<1> DEFINE p == [o EXCEPT ![n] = s]
<1>3. /\ p \in Owners /\ p[n] = s
      /\ \A m \in RowsNames : m # n => p[m] = o[m]
      /\ ListsRight(p)
  <2>1. GivenTo(p, o, n, s)
    BY DEF GivenTo
  <2> HIDE DEF p
  <2> QED
    BY <1>2, <2>1, Given
<1> HIDE DEF p
<1>4. \A m \in RowsNames : o[m] # 0 => m # n
  BY <1>2
<1>5. /\ L_name' \in [L!Sessions -> RowsNames \union {L!NoName}] /\ L_name'[s] = n
      /\ \A r \in L!Sessions : r # s => L_name'[r] = L_name[r]
  BY <1>1
<1>6. /\ L_name'[L!Current] # L!NoName
      /\ \A r \in L!Sessions : /\ r > born' => L_name'[r] = L!NoName
                               /\ L_name'[r] # L!NoName => p[L_name'[r]] = r
  <2> SUFFICES ASSUME NEW r \in L!Sessions
               PROVE  /\ r = L!Current => L_name'[r] # L!NoName
                      /\ r > born' => L_name'[r] = L!NoName
                      /\ L_name'[r] # L!NoName => p[L_name'[r]] = r
    BY <1>1
  <2>1. CASE r = s
    BY <1>1, <1>2, <1>3, <1>5, <2>1
  <2>2. CASE r # s
    <3>1. L_name'[r] = L_name[r]
      BY <1>5, <2>2
    <3>2. r > born' => r > born
      BY <1>1
    <3>3. L_name[r] # L!NoName => o[L_name[r]] = r /\ L_name[r] \in RowsNames
      BY <1>1 DEF NamesRight
    <3>4. L_name[r] # L!NoName => L_name[r] # n
      BY <1>1, <1>4, <3>3
    <3> QED
      BY <1>1, <1>3, <3>1, <3>2, <3>3, <3>4 DEF NamesRight
  <2> QED
    BY <2>1, <2>2
<1>7. \A m \in RowsNames : p[m] # 0 => m \in L!Used' /\ p[m] <= born'
  <2> SUFFICES ASSUME NEW m \in RowsNames, p[m] # 0 PROVE m \in L!Used' /\ p[m] <= born'
    OBVIOUS
  <2>1. CASE m = n
    BY <1>3, <1>5, <2>1 DEF L!Used
  <2>2. CASE m # n
    <3>1. o[m] # 0 /\ p[m] = o[m] /\ o[m] \in Nat
      BY <1>3, <2>2 DEF Owners
    <3>2. m \in L!Used /\ o[m] <= born
      BY <3>1 DEF NamesRight
    <3>3. m \in L!Used'
      <4>1. CASE m \in L_taken
        BY <4>1 DEF L!Used
      <4>2. CASE m \notin L_taken
        <5>1. PICK r \in L!Sessions : L_name[r] = m
          BY <3>2, <4>2 DEF L!Used
        <5>2. r # s => L_name'[r] = m
          BY <1>5, <5>1
        <5>3. r = s => m \in L_taken'
          BY <1>1, <5>1
        <5> QED
          BY <5>2, <5>3 DEF L!Used
      <4> QED
        BY <4>1, <4>2
    <3>4. born \in Nat /\ born' \in Nat /\ born' >= born
      BY <1>1
    <3> QED
      BY <3>1, <3>2, <3>3, <3>4
  <2> QED
    BY <2>1, <2>2
<1>8. confirmed' \in RowsNames \union {L!NoName} /\ (confirmed' # L!NoName => p[confirmed'] = L!Current)
  <2>1. confirmed \in RowsNames \union {L!NoName} /\ (confirmed # L!NoName => o[confirmed] = L!Current)
    BY DEF NamesRight
  <2>2. confirmed # L!NoName => confirmed # n
    BY <1>1, <1>4, <2>1
  <2> QED
    BY <1>3, <2>1, <2>2
<1>9. NamesRight(p)'
  BY <1>5, <1>6, <1>7, <1>8 DEF NamesRight
<1>10. ASSUME NEW r, Ended(r), r \in L!Sessions, r <= born PROVE Ended(r)'
  <2>1. r # s
    BY <1>1, <1>10 DEF Ended
  <2> QED
    BY <1>5, <1>10, <2>1 DEF Ended
<1>11. \A i \in DOMAIN L_at : p[L_at[i]] \in L!Sessions /\ p[L_at[i]] <= born
  <2> SUFFICES ASSUME NEW i \in DOMAIN L_at PROVE p[L_at[i]] \in L!Sessions /\ p[L_at[i]] <= born
    OBVIOUS
  <2>1. L_at[i] \in RowsNames /\ p[L_at[i]] \in L!Sessions /\ o[L_at[i]] \in L!Sessions
    BY <1>3, IdsOf DEF ListsRight
  <2>2. p[L_at[i]] = o[L_at[i]]
    BY <1>1, <1>3, <1>4, <2>1
  <2> QED
    BY <1>1, <2>1, <2>2 DEF NamesRight
<1>12. \A r \in Whose(cached) : L_name[r] = L!NoName => r = L!Current \/ L_name'[r] = L!NoName
  <2> SUFFICES ASSUME NEW r \in Whose(cached), L_name[r] = L!NoName PROVE L_name'[r] = L!NoName
    OBVIOUS
  <2>1. PICK i \in DOMAIN cached : r = cached[i].who
    BY DEF Whose
  <2>2. r \in L!Sessions /\ o[cached[i].called] = r /\ cached[i].called \in RowsNames
    BY <2>1, EntryOf DEF ListsRight
  <2>3. r <= born
    BY <1>1, <2>2 DEF NamesRight
  <2>4. r # s
    BY <1>1, <2>3
  <2> QED
    BY <1>5, <2>2, <2>4
<1>13. ListsRight(p)'
  <2>1. \A i \in DOMAIN L_at : \/ p[L_at[i]] = L!Current \/ p[L_at[i]] \in Whose(cached)
                               \/ Ended(p[L_at[i]])'
    BY <1>3, <1>10, <1>11 DEF ListsRight
  <2>2. \A r \in Whose(cached) :
            \/ r = L!Current \/ pending = L!Nothing \/ r \in Whose(pending[1].found)
            \/ L_name'[r] = L!NoName
    BY <1>3, <1>12 DEF ListsRight
  <2> QED
    BY <1>3, <2>1, <2>2 DEF ListsRight
<1> QED
  BY <1>3, <1>9, <1>13 DEF LInv

\* A session ends.
LEMMA EndKeeps ==
    ASSUME L!RowsAssumption, NEW o \in Owners, NamesRight(o), ListsRight(o),
           NEW s \in L!Sessions, L!End(s)
    PROVE  LInv'
<1>1. /\ born \in L!Sessions /\ L_name \in [L!Sessions -> RowsNames \union {L!NoName}]
      /\ L_name[L!Current] # L!NoName /\ s # L!Current /\ L_name[s] # L!NoName
      /\ L_taken' = L_taken \union {L_name[s]}
      /\ UNCHANGED <<born, pending, cached, L_at, rows, shown, confirmed>>
  BY DEF NamesRight, L!End
<1>2. /\ L_name' \in [L!Sessions -> RowsNames \union {L!NoName}] /\ L_name'[s] = L!NoName
      /\ \A r \in L!Sessions : r # s => L_name'[r] = L_name[r]
  BY <1>1 DEF L!End
<1>3. \A m \in L!Used : m # L!NoName => m \in L!Used'
  <2> SUFFICES ASSUME NEW m \in L!Used, m # L!NoName PROVE m \in L!Used'
    OBVIOUS
  <2>1. CASE m \in L_taken
    BY <1>1, <2>1 DEF L!Used
  <2>2. CASE m \notin L_taken
    <3>1. PICK r \in L!Sessions : L_name[r] = m
      BY <2>2 DEF L!Used
    <3>2. r # s => L_name'[r] = m
      BY <1>2, <3>1
    <3>3. r = s => m \in L_taken'
      BY <1>1, <3>1
    <3> QED
      BY <3>2, <3>3 DEF L!Used
  <2> QED
    BY <2>1, <2>2
<1>4. \A m \in RowsNames : o[m] # 0 => m \in L!Used' /\ o[m] <= born'
  <2>1. \A m \in RowsNames : m # L!NoName
    BY DEF L!RowsAssumption, L!NoName
  <2> QED
    BY <1>1, <1>3, <2>1 DEF NamesRight
<1>5. \A r \in L!Sessions : /\ r > born' => L_name'[r] = L!NoName
                            /\ L_name'[r] # L!NoName => o[L_name'[r]] = r
  BY <1>1, <1>2 DEF NamesRight
<1>6. NamesRight(o)'
  <2>1. L!Current \in L!Sessions
    BY DEF L!RowsAssumption, L!Sessions, L!Current
  <2> QED
    BY <1>1, <1>2, <1>4, <1>5, <2>1 DEF NamesRight
<1>7. ASSUME NEW r \in L!Sessions, L_name[r] = L!NoName PROVE L_name'[r] = L!NoName
  BY <1>2, <1>7
<1>8. ListsRight(o)'
  <2>1. \A i \in DOMAIN L_at : \/ o[L_at[i]] = L!Current \/ o[L_at[i]] \in Whose(cached)
                               \/ Ended(o[L_at[i]])'
    BY <1>1, <1>7 DEF ListsRight, Ended
  <2>2. \A r \in Whose(cached) : r \in L!Sessions
    BY EntryOf DEF ListsRight, Whose
  <2>3. \A r \in Whose(cached) :
            \/ r = L!Current \/ pending = L!Nothing \/ r \in Whose(pending[1].found)
            \/ L_name'[r] = L!NoName
    BY <1>7, <2>2 DEF ListsRight
  <2> QED
    BY <1>1, <2>1, <2>3 DEF ListsRight
<1> QED
  BY <1>6, <1>8 DEF LInv

\* The names are as they were.
LEMMA NamesKeep ==
    ASSUME NEW o, NamesRight(o), UNCHANGED <<L_name, born, L_taken, confirmed>>
    PROVE  NamesRight(o)'
BY DEF NamesRight, L!Used

\* An answer sets out.
LEMMA AnswerKeeps ==
    ASSUME L!RowsAssumption, NEW o \in Owners, NamesRight(o), ListsRight(o),
           NEW reached \in BOOLEAN, L!Answer(reached)
    PROVE  LInv'
<1>1. /\ pending' = <<[reached |-> reached, found |-> L!Listing(L_name)]>>
      /\ UNCHANGED <<L_name, born, cached, L_at, rows, shown, L_taken, confirmed>>
  BY DEF L!Answer
<1>2. pending'[1].found = L!Listing(L_name)
  BY <1>1
<1>3. Snapshot(L!Listing(L_name), o) /\ Whose(L!Listing(L_name)) = {s \in L!Sessions : L_name[s] # L!NoName}
  BY ListingOf DEF NamesRight
<1>4. ListsRight(o)'
  <2>1. \A i \in DOMAIN L_at : \/ o[L_at[i]] = L!Current \/ o[L_at[i]] \in Whose(cached)
                               \/ Ended(o[L_at[i]])'
    BY <1>1, <1>2, <1>3 DEF ListsRight, Ended
  <2>2. \A r \in Whose(cached) : r \in L!Sessions
    BY EntryOf DEF ListsRight, Whose
  <2>3. \A r \in Whose(cached) : r \in Whose(pending'[1].found) \/ L_name[r] = L!NoName
    BY <1>2, <1>3, <2>2
  <2> QED
    BY <1>1, <1>2, <1>3, <2>1, <2>3 DEF ListsRight
<1>5. NamesRight(o)'
  BY <1>1, NamesKeep
<1> QED
  BY <1>4, <1>5 DEF LInv

\* It lands.
LEMMA LandKeeps ==
    ASSUME L!RowsAssumption, NEW o \in Owners, NamesRight(o), ListsRight(o), L!Land
    PROVE  LInv'
<1> DEFINE snap == IF pending[1].reached THEN pending[1].found ELSE cached
<1>1. /\ pending # L!Nothing /\ pending' = L!Nothing
      /\ UNCHANGED <<L_name, born, shown, L_taken, confirmed>> /\ L!Publish(snap)
  BY DEF L!Land
<1>2. /\ Snapshot(pending[1].found, o) /\ Snapshot(cached, o)
      /\ snap = pending[1].found \/ snap = cached
  BY <1>1 DEF ListsRight
<1>3. confirmed' \in RowsNames \union {L!NoName} /\ (confirmed' # L!NoName => o[confirmed'] = L!Current)
  BY <1>1 DEF NamesRight
<1> HIDE DEF snap
<1>4. \A i \in DOMAIN L_at :
          o[L_at[i]] # L!Current /\ o[L_at[i]] \in Whose(snap) => o[L_at[i]] \in Whose(cached)
  BY <1>1, <1>2 DEF ListsRight, Ended
<1>5. /\ Snapshot(cached', o) /\ Whose(cached') = Whose(snap)
      /\ Ids(L_at', o) /\ Meant(L_at', cached', o)
      /\ PointTo(rows', L_at', o) /\ PointTo(shown', L_at', o)
      /\ \A i \in DOMAIN L_at' :
             /\ o[L_at'[i]] \in L!Sessions
             /\ \/ o[L_at'[i]] = L!Current \/ o[L_at'[i]] \in Whose(snap)
                \/ \E j \in DOMAIN L_at : o[L_at'[i]] = o[L_at[j]]
  BY <1>1, <1>2, <1>3, <1>4, PublishKeeps
<1>6. ASSUME NEW j \in DOMAIN L_at
      PROVE  \/ o[L_at[j]] = L!Current \/ o[L_at[j]] \in Whose(snap) \/ L_name[o[L_at[j]]] = L!NoName
  BY <1>1, <1>2 DEF ListsRight, Ended
<1>7. \A i \in DOMAIN L_at' :
          \/ o[L_at'[i]] = L!Current \/ o[L_at'[i]] \in Whose(cached') \/ L_name'[o[L_at'[i]]] = L!NoName
  BY <1>1, <1>5, <1>6
<1>8. ListsRight(o)'
  BY <1>1, <1>5, <1>7 DEF ListsRight, Ended
<1>9. NamesRight(o)'
  BY <1>1, NamesKeep
<1> QED
  BY <1>8, <1>9 DEF LInv

\* The attach stream says what the run's own session is called.
LEMMA RenamedHereKeeps ==
    ASSUME L!RowsAssumption, NEW o \in Owners, NamesRight(o), ListsRight(o), L!RenamedHere
    PROVE  LInv'
<1>1. /\ confirmed' = L_name[L!Current] /\ L!Publish(cached)
      /\ UNCHANGED <<L_name, born, pending, shown, L_taken>>
  BY DEF L!RenamedHere
<1>2. Snapshot(cached, o)
  BY DEF ListsRight
<1>3. confirmed' \in RowsNames \union {L!NoName} /\ (confirmed' # L!NoName => o[confirmed'] = L!Current)
  <2>1. L!Current \in L!Sessions
    BY DEF L!RowsAssumption, L!Sessions, L!Current
  <2> QED
    BY <1>1, <2>1 DEF NamesRight
<1>4. /\ Snapshot(cached', o) /\ Whose(cached') = Whose(cached)
      /\ Ids(L_at', o) /\ Meant(L_at', cached', o)
      /\ PointTo(rows', L_at', o) /\ PointTo(shown', L_at', o)
      /\ \A i \in DOMAIN L_at' :
             /\ o[L_at'[i]] \in L!Sessions
             /\ \/ o[L_at'[i]] = L!Current \/ o[L_at'[i]] \in Whose(cached)
                \/ \E j \in DOMAIN L_at : o[L_at'[i]] = o[L_at[j]]
  BY <1>1, <1>2, <1>3, PublishKeeps
<1>5. \A i \in DOMAIN L_at' :
          \/ o[L_at'[i]] = L!Current \/ o[L_at'[i]] \in Whose(cached')
          \/ /\ L_name'[o[L_at'[i]]] = L!NoName
             /\ pending' # L!Nothing => o[L_at'[i]] \notin Whose(pending'[1].found)
  BY <1>1, <1>4 DEF ListsRight, Ended
<1>6. ListsRight(o)'
  BY <1>1, <1>4, <1>5 DEF ListsRight, Ended
<1>7. NamesRight(o)'
  BY <1>1, <1>3 DEF NamesRight, L!Used
<1> QED
  BY <1>6, <1>7 DEF LInv

\* The picture on the screen becomes the rows of the channel, or nothing that is
\* said here is touched.
LEMMA SeenKeeps ==
    ASSUME NEW o \in Owners, NamesRight(o), ListsRight(o), shown' \in {shown, rows},
           UNCHANGED <<L_name, born, pending, cached, L_at, rows, L_taken, confirmed>>
    PROVE  LInv'
<1>1. ListsRight(o)'
  BY DEF ListsRight, Ended
<1>2. NamesRight(o)'
  BY NamesKeep
<1> QED
  BY <1>1, <1>2 DEF LInv

LEMMA LPreserved == ASSUME L!RowsAssumption PROVE LInv /\ [L!Next]_(L!vars) => LInv'
<1> SUFFICES ASSUME LInv, [L!Next]_(L!vars) PROVE LInv'
  OBVIOUS
<1>1. PICK o \in Owners : NamesRight(o) /\ ListsRight(o)
  BY DEF LInv
<1>2. /\ born \in L!Sessions /\ L!Sessions \subseteq Nat /\ Most \in Nat
      /\ \A s \in L!Sessions : s > born => L_name[s] = L!NoName
  BY <1>1 DEF NamesRight, L!Sessions, L!RowsAssumption
<1>3. ASSUME NEW n \in RowsNames, L!Start(n) PROVE LInv'
  <2>1. born + 1 \in L!Sessions /\ born + 1 > born /\ L_name[born + 1] = L!NoName
    BY <1>2, <1>3 DEF L!Start, L!Sessions
  <2>2. /\ n \in RowsNames \ L!Used /\ born' = born + 1 /\ L_name' = [L_name EXCEPT ![born + 1] = n]
        /\ UNCHANGED <<pending, cached, L_at, rows, shown, L_taken, confirmed>>
    BY <1>3 DEF L!Start
  <2>3. born + 1 <= born' /\ born' \in L!Sessions /\ born' >= born /\ L_taken \subseteq L_taken'
    BY <1>2, <2>1, <2>2
  <2> QED
    BY <1>1, <2>1, <2>2, <2>3, NamedKeeps
<1>4. ASSUME NEW s \in L!Sessions, L!End(s) PROVE LInv'
  BY <1>1, <1>4, EndKeeps
<1>5. ASSUME NEW s \in L!Sessions, NEW n \in RowsNames, L!Rename(s, n) PROVE LInv'
  <2>1. /\ L_name[s] # L!NoName /\ n \in RowsNames \ L!Used /\ L_name' = [L_name EXCEPT ![s] = n]
        /\ L_taken' = L_taken \union {L_name[s]} /\ born' = born
        /\ UNCHANGED <<pending, cached, L_at, rows, shown, confirmed>>
    BY <1>5 DEF L!Rename
  <2>2. s <= born' /\ born' \in L!Sessions /\ born' >= born
    BY <1>2, <2>1
  <2>3. L_taken \subseteq L_taken' /\ L_name[s] \in L_taken'
    BY <2>1
  <2> QED
    BY <1>1, <2>1, <2>2, <2>3, NamedKeeps
<1>6. ASSUME NEW b \in BOOLEAN, L!Answer(b) PROVE LInv'
  BY <1>1, <1>6, AnswerKeeps
<1>7. ASSUME NEW b \in BOOLEAN, L!Step(b) PROVE LInv'
  BY <1>1, <1>7, SeenKeeps DEF L!Step
<1>8. CASE L!Land
  BY <1>1, <1>8, LandKeeps
<1>9. CASE L!RenamedHere
  BY <1>1, <1>9, RenamedHereKeeps
<1>10. CASE L!Show
  BY <1>1, <1>10, SeenKeeps DEF L!Show
<1>11. CASE UNCHANGED L!vars
  BY <1>1, <1>11, SeenKeeps DEF L!vars
<1> QED
  BY <1>3, <1>4, <1>5, <1>6, <1>7, <1>8, <1>9, <1>10, <1>11 DEF L!Next

\* What the last answer calls the session a row is of is what its id means, and
\* no other session has that name in it.
LEMMA LHolds == ASSUME L!RowsAssumption PROVE LInv => L!EnterGoesWhereItPoints
<1> SUFFICES ASSUME NEW o \in Owners, ListsRight(o),
                    NEW i \in DOMAIN shown
             PROVE  /\ shown[i].id \in DOMAIN L_at
                    /\ \/ shown[i].who = L!Current \/ L!Calls(cached, shown[i].who) = {}
                       \/ L_at[shown[i].id] \in L!Calls(cached, shown[i].who)
                    /\ \A j \in DOMAIN cached :
                          cached[j].called = L_at[shown[i].id] => cached[j].who = shown[i].who
  BY Zenon DEF LInv, L!EnterGoesWhereItPoints
<1>1. shown[i].id \in DOMAIN L_at /\ shown[i].who = o[L_at[shown[i].id]]
  BY DEF ListsRight, PointTo
<1>2. \A j \in DOMAIN cached : o[cached[j].called] = cached[j].who
  BY EntryOf DEF ListsRight
<1>3. ASSUME shown[i].who # L!Current, L!Calls(cached, shown[i].who) # {}
      PROVE  L_at[shown[i].id] \in L!Calls(cached, shown[i].who)
  <2>1. PICK j \in DOMAIN cached : cached[j].who = shown[i].who
    BY <1>3 DEF L!Calls
  <2>2. L_at[shown[i].id] = cached[j].called
    BY <1>1, <1>3, <2>1 DEF ListsRight, Meant
  <2> QED
    BY <2>1, <2>2 DEF L!Calls
<1> QED
  BY <1>1, <1>2, <1>3

\* Whatever it does, a behaviour that is of the rows keeps it.
LPart == part = "rows" => LInv

LEMMA LPartInitially == Init => LPart
<1> SUFFICES ASSUME Init, part = "rows" PROVE LInv
  BY DEF LPart
<1>1. L!Init
  BY DEF Init
<1> QED
  BY <1>1, RowsAssumed, LInitially

LEMMA LPartStep ==
    ASSUME [Next]_vars, part' = "rows"
    PROVE  part = "rows" /\ [L!Next]_(L!vars)
<1>1. CASE UNCHANGED vars
  BY <1>1 DEF vars, Beyond19, Beyond17, Beyond13, Beyond12, Beyond10,
     Beyond9, Beyond8, Beyond7, Beyond4,
     L!vars
<1>2. CASE Next
  BY <1>2 DEF Next
<1> QED
  BY <1>1, <1>2

LEMMA LPartPreserved == LPart /\ [Next]_vars => LPart'
<1> SUFFICES ASSUME LPart, [Next]_vars, part' = "rows" PROVE LInv'
  BY DEF LPart
<1> QED
  BY LPartStep, LPreserved, RowsAssumed DEF LPart

HIDE DEF L_name, born, pending, cached, L_at, rows, shown, L_taken, confirmed

(***************************************************************************)
(* What holds of Picking for any lists, searches, hints and terminals.     *)
(*                                                                         *)
(* The highlight is on a row to land on wherever the list has one          *)
(* (OnARow): every way of moving it picks such a row or leaves it.  A walk *)
(* ends at the nearest row it may end on (Nearest), so one by sections     *)
(* that comes to a row has just left a heading.  The line drawn for it is  *)
(* the line it is on now (PointedAt), since everything that moves it draws *)
(* the box.  And lines of the box are only where the picker thinks it last *)
(* drew one, and nowhere once the terminal has no room (Covered).          *)
(***************************************************************************)
picker == v1
size == v2
lines == v3
pointed == v4
swapped == v5
listings == v7

USE DEF picker, size, lines, pointed, swapped, listings

(***************************************************************************)
(* Numbers, and some of the places of a sequence.                          *)
(***************************************************************************)
LEMMA MinOf ==
    ASSUME NEW M \in SUBSET Nat, M # {}
    PROVE  K!Min(M) \in M /\ \A k \in M : K!Min(M) <= k
<1>1. \E m \in M : \A k \in M : m <= k
  BY LeastOf
<1> QED
  BY <1>1 DEF K!Min

\* Of finitely many numbers, if any, the greatest is one.
LEMMA MaxOf ==
    ASSUME NEW n \in Nat, NEW Q \in SUBSET (0..n), Q # {}, NEW w \in [Q -> Nat],
           NEW M, M = {w[i] : i \in Q}
    PROVE  K!Max(M) \in Nat
<1> DEFINE Highest(j, k) == j \in Q /\ j <= k /\ \A i \in Q : i <= k => w[i] <= w[j]
           Above(k) == \A i \in Q : i > k
           Topped(k) == Above(k) \/ \E j \in 0..n : Highest(j, k)
           Z == {k \in 0..n : Topped(k)}
<1>0. \A i \in Q : i \in 0..n /\ w[i] \in Nat
  OBVIOUS
<1>1. Topped(0)
  <2>1. CASE 0 \in Q
    <3>1. \A i \in Q : i <= 0 => i = 0
      BY <1>0
    <3>2. w[0] <= w[0] /\ 0 \in 0..n
      BY <1>0, <2>1
    <3>3. Highest(0, 0)
      BY <2>1, <3>1, <3>2
    <3> HIDE DEF Highest
    <3> QED
      BY <3>2, <3>3
  <2>2. CASE 0 \notin Q
    <3>1. Above(0)
      BY <1>0, <2>2
    <3> HIDE DEF Above, Highest
    <3> QED
      BY <3>1
  <2> QED
    BY <2>1, <2>2
<1>2. ASSUME NEW k \in 1..n, Topped(k - 1) PROVE Topped(k)
  <2>1. \A i \in Q : (i <= k => i <= k - 1 \/ i = k) /\ (i > k - 1 => i > k \/ i = k)
    BY <1>0
  <2>2. CASE k \in Q /\ Above(k - 1)
    <3>1. \A i \in Q : i <= k => i = k
      BY <1>0, <2>2
    <3>2. w[k] <= w[k] /\ k \in 0..n
      BY <1>0, <2>2
    <3>3. Highest(k, k)
      BY <2>2, <3>1, <3>2
    <3> HIDE DEF Highest, Above
    <3> QED
      BY <3>2, <3>3
  <2>3. CASE k \notin Q /\ Above(k - 1)
    <3>1. Above(k)
      BY <2>1, <2>3
    <3> HIDE DEF Highest, Above
    <3> QED
      BY <3>1
  <2>4. ASSUME NEW j \in 0..n, Highest(j, k - 1) PROVE Topped(k)
    <3>1. j \in Q /\ j <= k /\ \A i \in Q : i <= k - 1 => w[i] <= w[j]
      BY <2>4
    <3>2. CASE k \notin Q \/ w[k] <= w[j]
      <4>1. \A i \in Q : i <= k => w[i] <= w[j]
        BY <2>1, <3>1, <3>2
      <4>2. Highest(j, k)
        BY <3>1, <4>1
      <4> HIDE DEF Highest, Above
      <4> QED
        BY <4>2
    <3>3. CASE k \in Q /\ w[j] <= w[k]
      <4>1. ASSUME NEW i \in Q, i <= k PROVE w[i] <= w[k]
        <5>1. i = k \/ w[i] <= w[j]
          BY <2>1, <3>1, <4>1
        <5>2. w[i] \in Nat /\ w[j] \in Nat /\ w[k] \in Nat
          BY <1>0, <3>1, <3>3
        <5> QED
          BY <3>3, <5>1, <5>2
      <4>2. k <= k /\ k \in 0..n
        OBVIOUS
      <4>3. Highest(k, k)
        BY <3>3, <4>1, <4>2
      <4> HIDE DEF Highest, Above
      <4> QED
        BY <4>2, <4>3
    <3>4. k \in Q => w[j] \in Nat /\ w[k] \in Nat
      BY <1>0, <3>1
    <3>5. k \notin Q \/ w[k] <= w[j] \/ (k \in Q /\ w[j] <= w[k])
      BY <3>4
    <3> QED
      BY <3>2, <3>3, <3>5
  <2> HIDE DEF Highest, Above
  <2> QED
    BY <1>2, <2>2, <2>3, <2>4
<1> HIDE DEF Topped
<1>3. Topped(n)
  <2>1. Z \in SUBSET (0..n) /\ 0 \in Z /\ \A k \in 1..n : k - 1 \in Z => k \in Z
    BY <1>1, <1>2
  <2>2. n \in 0..n
    OBVIOUS
  <2>3. \A k \in Z : Topped(k)
    OBVIOUS
  <2> HIDE DEF Z
  <2>4. \A k \in 0..n : k \in Z
    BY <2>1, Upwards
  <2> QED
    BY <2>2, <2>3, <2>4
<1>4. PICK j \in Q : \A i \in Q : w[i] <= w[j]
  <2>1. PICK i : i \in Q
    OBVIOUS
  <2>2. ~ Above(n)
    BY <1>0, <2>1
  <2>3. PICK j \in 0..n : Highest(j, n)
    <3> HIDE DEF Highest, Above
    <3> QED
      BY <1>3, <2>2 DEF Topped
  <2>4. \A k \in Q : k <= n
    BY <1>0
  <2> QED
    BY <2>3, <2>4
<1>5. w[j] \in M /\ \A t \in M : w[j] >= t
  BY <1>0, <1>4
<1>6. K!Max(M) \in M
  BY <1>5 DEF K!Max
<1> QED
  BY <1>6

LEMMA OnlyOfRows ==
    ASSUME NEW seq \in Seq(K!RowOf), NEW Q \in SUBSET DOMAIN seq
    PROVE  K!Only(seq, Q) \in Seq(K!RowOf)
<1> DEFINE count == Cardinality(Q)
           place(n) == CHOOSE i \in Q : Cardinality({j \in Q : j < i}) = n - 1
           len == Len(seq)
<1>1. len \in Nat /\ Q \in SUBSET (1..len)
  OBVIOUS
<1> HIDE DEF len
<1>2. PICK q : Placed(q, Q)
  BY <1>1, PlacesOf
<1>3. q = [n \in 1..count |-> place(n)] /\ q \in [1..count -> Q] /\ count \in Nat
  BY <1>2, Zenon DEF Placed
<1>4. K!Only(seq, Q) = [n \in 1..count |-> seq[place(n)]]
  BY DEF K!Only, K!Cardinality, Cardinality
<1> HIDE DEF place, count
<1>5. \A n \in 1..count : place(n) \in Q
  BY <1>3
<1>6. \A n \in 1..count : seq[place(n)] \in K!RowOf
  BY <1>5
<1> QED
  BY <1>3, <1>4, <1>6


(***************************************************************************)
(* The highlight is on a row.                                              *)
(***************************************************************************)
PickerOf == [source : Seq(K!RowOf), rows : Seq(K!RowOf), query : Queries, at : Nat,
             drawn : [row : Nat, high : Nat]]

\* On a row to land on, or first of a list that has none.
OnARow(p) == K!landable(p, p.at) \/ (K!Landable(p) = {} /\ p.at = 0)

Stands(p) == p \in PickerOf /\ OnARow(p)

LEMMA RowsOf ==
    ASSUME NEW p \in PickerOf
    PROVE  /\ Len(p.rows) \in Nat /\ p.rows \in Seq(K!RowOf) /\ p.source \in Seq(K!RowOf)
           /\ K!Indices(p) = 0..Len(p.rows) - 1
           /\ \A i \in K!Indices(p) : K!Row(p, i) \in K!RowOf
           /\ \A i : i \in K!Landable(p) <=> K!landable(p, i)
           /\ K!Landable(p) \in SUBSET Nat
<1>1. p.rows \in Seq(K!RowOf) /\ p.source \in Seq(K!RowOf)
  BY DEF PickerOf
<1> DEFINE list == p.rows
<1>2. list \in Seq(K!RowOf)
  BY <1>1
<1> HIDE DEF list
<1>3. Len(list) \in Nat /\ \A i \in 0..Len(list) - 1 : list[i + 1] \in K!RowOf
  BY <1>2
<1>4. K!Indices(p) = 0..Len(list) - 1 /\ \A i : K!Row(p, i) = list[i + 1]
  BY DEF K!Indices, K!Row, list
<1>5. K!Landable(p) = {i \in K!Indices(p) : K!landable(p, i)} /\ \A i : K!landable(p, i) => i \in K!Indices(p)
  BY DEF K!Landable, K!landable
<1>6. K!Indices(p) \in SUBSET Nat
  BY <1>4
<1> QED
  BY <1>1, <1>3, <1>4, <1>5, <1>6 DEF list

\* What is said of the rows and the highlight is the same of a picker that has them.
LEMMA SameRows ==
    ASSUME NEW p, NEW q, q.rows = p.rows
    PROVE  /\ K!Indices(q) = K!Indices(p) /\ K!Landable(q) = K!Landable(p)
           /\ \A i : K!Row(q, i) = K!Row(p, i) /\ (K!landable(q, i) <=> K!landable(p, i))
           /\ \A id : K!index_of(q, id) = K!index_of(p, id)
           /\ K!first(q) = K!first(p)
           /\ q.at = p.at => K!chosen(q) = K!chosen(p)
<1>1. K!Indices(q) = K!Indices(p) /\ \A i : K!Row(q, i) = K!Row(p, i)
  BY DEF K!Indices, K!Row
<1>2. \A i : K!landable(q, i) <=> K!landable(p, i)
  BY <1>1 DEF K!landable
<1>3. K!Landable(q) = K!Landable(p)
  BY <1>1, <1>2 DEF K!Landable
<1>4. \A id : K!index_of(q, id) = K!index_of(p, id)
  BY <1>1, <1>3 DEF K!index_of
<1>5. K!first(q) = K!first(p)
  BY <1>3 DEF K!first
<1>6. q.at = p.at => K!chosen(q) = K!chosen(p)
  BY <1>1, <1>2 DEF K!chosen
<1> QED
  BY <1>1, <1>2, <1>3, <1>4, <1>5, <1>6

LEMMA FirstOf ==
    ASSUME NEW p \in PickerOf
    PROVE  /\ K!first(p) \in Nat
           /\ K!landable(p, K!first(p)) \/ (K!Landable(p) = {} /\ K!first(p) = 0)
<1>1. K!Landable(p) \in SUBSET Nat /\ \A i : i \in K!Landable(p) <=> K!landable(p, i)
  BY RowsOf
<1>2. CASE K!Landable(p) = {}
  BY <1>2 DEF K!first
<1>3. CASE K!Landable(p) # {}
  <2>1. K!first(p) = K!Min(K!Landable(p))
    BY <1>3 DEF K!first
  <2>2. K!Min(K!Landable(p)) \in K!Landable(p)
    BY <1>1, <1>3, MinOf
  <2> QED
    BY <1>1, <2>1, <2>2
<1> QED
  BY <1>2, <1>3

LEMMA IndexOf ==
    ASSUME NEW p \in PickerOf, NEW id, K!index_of(p, id) # {}
    PROVE  /\ K!Min(K!index_of(p, id)) \in Nat
           /\ K!landable(p, K!Min(K!index_of(p, id))) /\ K!Row(p, K!Min(K!index_of(p, id))).id = id
<1>1. K!index_of(p, id) = {i \in K!Landable(p) : K!Row(p, i).id = id}
  BY DEF K!index_of
<1>2. K!Landable(p) \in SUBSET Nat /\ \A i : i \in K!Landable(p) <=> K!landable(p, i)
  BY RowsOf
<1>3. K!index_of(p, id) \in SUBSET Nat
  BY <1>1, <1>2
<1>4. K!Min(K!index_of(p, id)) \in K!index_of(p, id)
  BY <1>3, MinOf
<1> QED
  BY <1>1, <1>2, <1>4

\* The highlight put on another row to land on.
LEMMA AtARow ==
    ASSUME NEW p \in PickerOf, NEW at \in Nat,
           K!landable(p, at) \/ (K!Landable(p) = {} /\ at = 0),
           NEW q, q = [p EXCEPT !.at = at]
    PROVE  /\ Stands(q) /\ q.drawn = p.drawn /\ q.rows = p.rows /\ q.at = at
           /\ q.source = p.source /\ q.query = p.query
<1>1. /\ q \in PickerOf /\ q.rows = p.rows /\ q.at = at /\ q.drawn = p.drawn
      /\ q.source = p.source /\ q.query = p.query
  BY DEF PickerOf
<1>2. OnARow(q)
  BY <1>1, SameRows DEF OnARow
<1> QED
  BY <1>1, <1>2 DEF Stands

LEMMA NewStands ==
    ASSUME K!PickingAssumption, NEW source \in Listings, NEW at \in Nat
    PROVE  Stands(K!New(source, at)) /\ K!New(source, at).drawn = K!Undrawn
<1> DEFINE p == [source |-> source, rows |-> source, query |-> "", at |-> at,
                 drawn |-> K!Undrawn]
<1>1. source \in Seq(K!RowOf) /\ "" \in Queries
  BY DEF K!PickingAssumption
<1>2. K!Undrawn \in [row : Nat, high : Nat]
  BY DEF K!Undrawn
<1>3. p \in PickerOf /\ p.at = at /\ p.drawn = K!Undrawn
  BY <1>1, <1>2 DEF PickerOf
<1>4. K!New(source, at) = IF K!landable(p, at) THEN p ELSE [p EXCEPT !.at = K!first(p)]
  BY DEF K!New
<1> HIDE DEF p
<1>5. CASE K!landable(p, at)
  BY <1>3, <1>4, <1>5 DEF Stands, OnARow
<1>6. CASE ~ K!landable(p, at)
  BY <1>3, <1>4, <1>6, FirstOf, AtARow
<1> QED
  BY <1>5, <1>6

\* A picker with other rows has its highlight on one of them, and where it was if
\* that row is still there.
LEMMA FilteredOf ==
    ASSUME NEW source \in Seq(K!RowOf), NEW query
    PROVE  K!filtered(source, query) \in Seq(K!RowOf)
<1> DEFINE found(i) == ~source[i].heading /\ source[i].word = query
           over(h, i) == /\ source[h].heading /\ h < i
                         /\ \A g \in h+1..i-1 : source[g].heading
                                               => source[g].indent > source[h].indent
           kept == {i \in DOMAIN source :
                       found(i) \/ \E j \in DOMAIN source : found(j) /\ over(i, j)}
<1>1. K!filtered(source, query) = IF query = "" THEN source
                                  ELSE IF kept = {} THEN <<K!NoMatches>>
                                  ELSE K!Only(source, kept)
  BY Zenon DEF K!filtered
<1>2. kept \in SUBSET DOMAIN source
  OBVIOUS
<1> HIDE DEF kept
<1>3. K!Only(source, kept) \in Seq(K!RowOf)
  BY <1>2, OnlyOfRows
<1>4. K!NoMatches \in K!RowOf
  BY DEF K!NoMatches, K!RowOf, K!Words
<1>5. <<K!NoMatches>> \in Seq(K!RowOf)
  BY <1>4
<1> QED
  BY <1>1, <1>3, <1>5

LEMMA RebuildStands ==
    ASSUME NEW p \in PickerOf, NEW was, NEW at, NEW q, q = K!rebuild(p, was, at)
    PROVE  /\ Stands(q) /\ q.drawn = p.drawn
           /\ K!index_of(q, was) # {} => K!chosen(q) = was
<1> DEFINE r == [p EXCEPT !.rows = K!filtered(p.source, p.query)]
<1>1. K!filtered(p.source, p.query) \in Seq(K!RowOf)
  BY FilteredOf, RowsOf
<1>2. r \in PickerOf /\ r.drawn = p.drawn
  BY <1>1 DEF PickerOf
<1>3. q = [r EXCEPT !.at = K!Kept(r, was, at)]
  BY Zenon DEF K!rebuild
<1> HIDE DEF r
<1> DEFINE there == r.source[at + 1].id
<1>4. \/ K!index_of(r, was) # {} /\ K!Kept(r, was, at) = K!Min(K!index_of(r, was))
      \/ /\ K!index_of(r, was) = {}
         /\ \/ /\ K!index_of(r, there) # {}
               /\ K!Kept(r, was, at) = K!Min(K!index_of(r, there))
            \/ K!Kept(r, was, at) = K!first(r)
  BY Zenon DEF K!Kept
<1> HIDE DEF there
<1>5. /\ K!Kept(r, was, at) \in Nat
      /\ K!landable(r, K!Kept(r, was, at)) \/ (K!Landable(r) = {} /\ K!Kept(r, was, at) = 0)
      /\ K!index_of(r, was) # {} => K!landable(r, K!Kept(r, was, at))
                                    /\ K!Row(r, K!Kept(r, was, at)).id = was
  BY <1>2, <1>4, IndexOf, FirstOf
<1>6. Stands(q) /\ q.drawn = r.drawn /\ q.rows = r.rows /\ q.at = K!Kept(r, was, at)
  BY <1>2, <1>3, <1>5, AtARow
<1>7. K!index_of(q, was) # {} => K!chosen(q) = was
  BY <1>5, <1>6, SameRows DEF K!chosen
<1> QED
  BY <1>2, <1>6, <1>7

LEMMA ReplaceStands ==
    ASSUME K!PickingAssumption, NEW p \in PickerOf, NEW source \in Listings, NEW at,
           NEW q, q = K!replace(p, source, at)
    PROVE  /\ Stands(q) /\ q.drawn = p.drawn
           /\ K!index_of(q, K!chosen(p)) # {} => K!chosen(q) = K!chosen(p)
<1> DEFINE r == [p EXCEPT !.source = source]
<1>1. r \in PickerOf /\ r.drawn = p.drawn
  BY DEF PickerOf, K!PickingAssumption
<1>2. q = K!rebuild(r, K!chosen(p), at)
  BY DEF K!replace
<1> HIDE DEF r
<1> QED
  BY <1>1, <1>2, RebuildStands

LEMMA SearchStands ==
    ASSUME NEW p \in PickerOf, NEW query \in Queries, NEW q, q = K!search(p, query)
    PROVE  Stands(q) /\ q.drawn = p.drawn
<1> DEFINE r == [p EXCEPT !.query = query]
<1>1. r \in PickerOf /\ r.drawn = p.drawn
  BY DEF PickerOf
<1>2. q = K!rebuild(r, K!chosen(p), K!NoRow)
  BY DEF K!search
<1> HIDE DEF r
<1> QED
  BY <1>1, <1>2, RebuildStands

LEMMA PointAtStands ==
    ASSUME NEW p, Stands(p), NEW id, NEW q, q = K!point_at(p, id)
    PROVE  Stands(q) /\ q.drawn = p.drawn
<1>1. p \in PickerOf
  BY DEF Stands
<1>2. CASE K!index_of(p, id) = {}
  BY <1>2 DEF K!point_at
<1>3. CASE K!index_of(p, id) # {}
  <2>1. q = [p EXCEPT !.at = K!Min(K!index_of(p, id))]
    BY <1>3 DEF K!point_at
  <2> QED
    BY <1>1, <1>3, <2>1, IndexOf, AtARow
<1> QED
  BY <1>2, <1>3

\* A walk is to the nearest of the rows it may end on, if there is one.
Nearest(q, p, forwards, past) ==
    \/ q = p
    \/ \E n \in past :
          /\ q.at = K!wrapped(p, forwards, n) /\ K!landable(p, K!wrapped(p, forwards, n))
          /\ \A m \in past : m < n => ~ K!landable(p, K!wrapped(p, forwards, m))

LEMMA WalkedStands ==
    ASSUME NEW p, Stands(p), NEW forwards \in BOOLEAN, NEW past,
           past \in SUBSET (1..Len(p.rows)), NEW q, q = K!Walked(p, forwards, past)
    PROVE  Stands(q) /\ q.drawn = p.drawn /\ q.rows = p.rows /\ Nearest(q, p, forwards, past)
<1> DEFINE steps == {n \in past : K!landable(p, K!wrapped(p, forwards, n))}
<1>1. p \in PickerOf /\ Len(p.rows) \in Nat
  BY RowsOf DEF Stands
<1>2. q = IF steps = {} THEN p ELSE [p EXCEPT !.at = K!wrapped(p, forwards, K!Min(steps))]
  BY Zenon DEF K!Walked
<1>3. \A n \in steps : n \in past /\ K!landable(p, K!wrapped(p, forwards, n))
  OBVIOUS
<1>4. \A n \in past : K!landable(p, K!wrapped(p, forwards, n)) => n \in steps
  OBVIOUS
<1>5. \A n \in past : n \in Nat
  BY <1>1
<1> HIDE DEF steps
<1>6. CASE steps = {}
  BY <1>2, <1>6 DEF Nearest
<1>7. CASE steps # {}
  <2> DEFINE n == K!Min(steps)
             i == K!wrapped(p, forwards, n)
  <2>1. steps \in SUBSET Nat
    BY <1>3, <1>5
  <2>2. n \in steps /\ \A m \in steps : n <= m
    BY <1>7, <2>1, MinOf
  <2>3. q = [p EXCEPT !.at = i]
    BY <1>2, <1>7
  <2>4. K!landable(p, i) /\ n \in past
    BY <1>3, <2>2
  <2>5. i \in Nat
    BY <1>1, <2>4, RowsOf DEF K!landable
  <2> HIDE DEF n
  <2>6. \A m \in past : m < n => ~ K!landable(p, K!wrapped(p, forwards, m))
    BY <1>4, <1>5, <2>2, <2>4
  <2>7. i = K!wrapped(p, forwards, n)
    OBVIOUS
  <2> HIDE DEF i
  <2>8. Stands(q) /\ q.drawn = p.drawn /\ q.rows = p.rows /\ q.at = i
    BY <1>1, <2>3, <2>4, <2>5, AtARow
  <2> QED
    BY <2>4, <2>6, <2>7, <2>8 DEF Nearest
<1> QED
  BY <1>6, <1>7

LEMMA Before ==
    ASSUME NEW n \in Nat \ {0}, NEW x \in Nat, x % n # 0
    PROVE  (x - 1) % n = (x % n) - 1
<1> DEFINE r == x % n
           q == x \div n
           s == (x - 1) % n
           u == (x - 1) \div n
<1>1. x \in Nat \ {0}
  <2>1. 0 % n = 0
    OBVIOUS
  <2> QED
    BY <2>1
<1>2. r \in 0..n - 1 /\ q \in Int /\ x = n * q + r
  OBVIOUS
<1>3. s \in 0..n - 1 /\ u \in Int /\ x - 1 = n * u + s
  BY <1>1
<1> HIDE DEF r, q, s, u
<1>4. r \in 1..n - 1
  BY <1>2 DEF r
<1>5. n * q - n * u = 1 + s - r
  BY <1>2, <1>3
<1>6. q = u
  <2>1. CASE q >= u + 1
    <3>1. n * (q - u) >= n
      BY <1>2, <1>3, <2>1
    <3>2. n * (q - u) = n * q - n * u
      BY <1>2, <1>3
    <3> QED
      BY <1>3, <1>4, <1>5, <3>1, <3>2
  <2>2. CASE u >= q + 1
    <3>1. n * (u - q) >= n
      BY <1>2, <1>3, <2>2
    <3>2. n * (u - q) = n * u - n * q
      BY <1>2, <1>3
    <3> QED
      BY <1>2, <1>3, <1>4, <1>5, <3>1, <3>2
  <2> QED
    BY <1>2, <1>3, <2>1, <2>2
<1>7. s = r - 1
  BY <1>2, <1>3, <1>5, <1>6
<1> QED
  BY <1>7 DEF s, r

\* A step by sections ends on the first row of one.
LEMMA SectionOf ==
    ASSUME NEW p, Stands(p), NEW forwards \in BOOLEAN,
           NEW q, q = K!next_heading(p, forwards)
    PROVE  /\ Stands(q) /\ q.drawn = p.drawn
           /\ q.at # p.at => K!starts_a_run(q, q.at)
<1> DEFINE w(n) == K!wrapped(p, forwards, n)
           past == {n \in 1..Len(p.rows) : /\ \E m \in 1..n-1 : K!Row(p, w(m)).heading
                                           /\ K!FirstOfItsRun(p, forwards, w(n))}
           len == Len(p.rows)
<1>1. q = K!Walked(p, forwards, past)
  BY Zenon DEF K!next_heading
<1>2. past \in SUBSET (1..Len(p.rows))
  OBVIOUS
<1>3. /\ \A n \in past : /\ n \in 1..len /\ \E m \in 1..n-1 : K!Row(p, w(m)).heading
                         /\ K!FirstOfItsRun(p, forwards, w(n))
      /\ \A n \in 1..len : \A m \in 1..n-1 :
             K!Row(p, w(m)).heading /\ K!FirstOfItsRun(p, forwards, w(n)) => n \in past
  OBVIOUS
<1> HIDE DEF past
<1>4. /\ Stands(q) /\ q.drawn = p.drawn /\ q.rows = p.rows
      /\ \/ q = p
         \/ \E n \in past : /\ q.at = w(n) /\ K!landable(p, w(n))
                            /\ \A m \in past : m < n => ~ K!landable(p, w(m))
  <2>1. /\ Stands(q) /\ q.drawn = p.drawn /\ q.rows = p.rows
        /\ Nearest(q, p, forwards, past)
    BY <1>1, <1>2, WalkedStands
  <2> QED
    BY <2>1, Zenon DEF Nearest
<1>5. len \in Nat /\ p.at \in Nat /\ K!Indices(p) = 0..len - 1
  BY RowsOf DEF Stands, PickerOf
<1>6. forwards => \A n : w(n) = (p.at + n) % len
  BY DEF K!wrapped
<1> HIDE DEF w, len
<1>7. ASSUME q.at # p.at PROVE K!starts_a_run(p, q.at)
  <2>1. PICK n \in past : /\ q.at = w(n) /\ K!landable(p, w(n))
                          /\ \A m \in past : m < n => ~ K!landable(p, w(m))
    BY <1>4, <1>7
  <2>2. n \in 1..len /\ K!FirstOfItsRun(p, forwards, w(n)) /\ w(n) \in 0..len - 1
    BY <1>3, <1>5, <2>1 DEF K!landable
  <2>3. CASE ~ forwards
    BY <2>1, <2>2, <2>3 DEF K!FirstOfItsRun
  <2>4. CASE forwards /\ w(n) # 0
    <3>1. w(n) = (p.at + n) % len /\ w(n - 1) = (p.at + (n - 1)) % len
      BY <1>6, <2>4
    <3>2. w(n - 1) = w(n) - 1
      <4>1. p.at + n \in Nat /\ len \in Nat \ {0} /\ p.at + (n - 1) = (p.at + n) - 1
        BY <1>5, <2>2
      <4> QED
        BY <2>4, <3>1, <4>1, Before
    <3>3. PICK m \in 1..n-1 : K!Row(p, w(m)).heading
      BY <1>3
    <3>4. CASE m = n - 1
      BY <2>1, <3>2, <3>3, <3>4 DEF K!starts_a_run
    <3>5. CASE m # n - 1
      <4>1. m \in 1..(n - 1) - 1 /\ n - 1 \in 1..len /\ n - 1 < n
        BY <1>5, <2>2, <3>5
      <4>2. K!FirstOfItsRun(p, forwards, w(n - 1))
        BY <2>4 DEF K!FirstOfItsRun
      <4>3. n - 1 \in past
        BY <1>3, <3>3, <4>1, <4>2
      <4>4. ~ K!landable(p, w(n) - 1)
        BY <2>1, <3>2, <4>1, <4>3
      <4>5. w(n) - 1 \in K!Indices(p)
        BY <1>5, <2>2, <2>4
      <4> QED
        BY <2>1, <4>4, <4>5 DEF K!landable, K!starts_a_run
    <3> QED
      BY <3>4, <3>5
  <2>5. CASE w(n) = 0
    BY <2>1, <2>5 DEF K!starts_a_run
  <2> QED
    BY <2>3, <2>4, <2>5
<1>8. K!starts_a_run(p, q.at) => K!starts_a_run(q, q.at)
  BY <1>4, SameRows DEF K!starts_a_run
<1> QED
  BY <1>4, <1>7, <1>8

(***************************************************************************)
(* The box.                                                                *)
(***************************************************************************)
\* The lines the hints take is a number.
LEMMA WrapOf == ASSUME K!PickingAssumption, NEW width PROVE K!wrap_hints(width) \in Nat
<1> DEFINE n == Len(HINTS)
<1>0. HINTS \in Seq(Nat)
  BY DEF K!PickingAssumption
<1>1. n \in Nat /\ \A i \in 1..n : HINTS[i] \in Nat
  BY <1>0
<1> HIDE DEF n
<1> DEFINE M == Nat \X Int
           after(was, i) == IF was[1] > 0 /\ was[2] + 2 + HINTS[i] <= width
                            THEN <<was[1], was[2] + 2 + HINTS[i]>>
                            ELSE <<was[1] + 1, HINTS[i]>>
           Fills(g, k) == g = [i \in 0..k |-> IF i = 0 THEN <<0, 0>> ELSE after(g[i - 1], i)]
           Z == {k \in 0..n : \E g \in [0..k -> M] : Fills(g, k)}
<1>2. \A was \in M, i \in 1..n : after(was, i) \in M
  BY <1>1
<1> HIDE DEF after
<1>3. 0 \in Z
  <2> DEFINE g == [i \in 0..0 |-> <<0, 0>>]
  <2>1. g \in [0..0 -> M]
    OBVIOUS
  <2>2. g = [i \in 0..0 |-> IF i = 0 THEN <<0, 0>> ELSE after(g[i - 1], i)]
    OBVIOUS
  <2> HIDE DEF g, M
  <2>3. Fills(g, 0)
    BY <2>2
  <2> QED
    BY <1>1, <2>1, <2>3
<1>4. ASSUME NEW k \in 1..n, k - 1 \in Z PROVE k \in Z
  <2>1. PICK h \in [0..k - 1 -> M] : Fills(h, k - 1)
    BY <1>4
  <2> DEFINE g == [i \in 0..k |-> IF i = k THEN after(h[k - 1], k) ELSE h[i]]
  <2>2. after(h[k - 1], k) \in M
    BY <1>2
  <2> HIDE DEF M
  <2>3. g \in [0..k -> M]
    BY <2>1, <2>2
  <2>4. \A i \in 0..k - 1 : i \in 0..k /\ g[i] = h[i]
    OBVIOUS
  <2>5. g[k] = after(h[k - 1], k)
    OBVIOUS
  <2>6. \A i \in 0..k - 1 : h[i] = IF i = 0 THEN <<0, 0>> ELSE after(h[i - 1], i)
    BY <2>1
  <2> HIDE DEF g
  <2>7. \A i \in 0..k : g[i] = IF i = 0 THEN <<0, 0>> ELSE after(g[i - 1], i)
    BY <2>4, <2>5, <2>6
  <2>8. Fills(g, k)
    BY <2>3, <2>7
  <2> HIDE DEF Fills
  <2> QED
    BY <2>3, <2>8
<1>5. n \in Z
  <2>1. Z \in SUBSET (0..n)
    OBVIOUS
  <2> HIDE DEF Z
  <2>2. \A k \in 0..n : k \in Z
    BY <1>1, <1>3, <1>4, <2>1, Upwards
  <2> QED
    BY <1>1, <2>2
<1>6. \E g : Fills(g, n)
  BY <1>5
<1> DEFINE fill == CHOOSE g : Fills(g, n)
<1>7. K!wrap_hints(width) = fill[n][1]
  BY Zenon DEF K!wrap_hints, n, after
<1>8. Fills(fill, n)
  BY <1>6, Zenon
<1> HIDE DEF fill
<1>9. \A i \in 0..n : fill[i] = IF i = 0 THEN <<0, 0>> ELSE after(fill[i - 1], i)
  <2> DEFINE next(i) == IF i = 0 THEN <<0, 0>> ELSE after(fill[i - 1], i)
  <2>1. fill = [i \in 0..n |-> next(i)]
    BY <1>8, Zenon
  <2> HIDE DEF next
  <2>2. \A i \in 0..n : fill[i] = next(i)
    BY <2>1
  <2> QED
    BY <2>2, Zenon DEF next
<1> DEFINE typed == {k \in 0..n : fill[k] \in M}
<1>10. 0 \in typed
  <2>1. <<0, 0>> \in M /\ 0 \in 0..n
    BY <1>1
  <2> QED
    BY <1>9, <2>1
<1> HIDE DEF M
<1>11. ASSUME NEW k \in 1..n, k - 1 \in typed PROVE k \in typed
  BY <1>2, <1>9, <1>11
<1>12. n \in typed
  <2>1. typed \in SUBSET (0..n)
    OBVIOUS
  <2> HIDE DEF typed
  <2>2. \A k \in 0..n : k \in typed
    BY <1>1, <1>10, <1>11, <2>1, Upwards
  <2> QED
    BY <1>1, <2>2
<1>13. fill[n] \in M
  BY <1>12
<1> QED
  BY <1>7, <1>13 DEF M


LEMMA InnerOf ==
    ASSUME K!PickingAssumption, NEW s \in PickingSizes
    PROVE  K!inner(s) \in 24..60 /\ K!furniture(s) \in Nat /\ s.rows \in Nat
<1>1. s.rows \in Nat /\ s.cols \in Nat
  BY DEF K!PickingAssumption
<1>2. K!inner(s) \in 24..60
  BY <1>1 DEF K!inner, K!clamp, K!Less, K!More, K!Minus, K!MARGIN, K!MIN_COLS, K!WIDEST
<1>3. K!furniture(s) = K!FRAME + K!wrap_hints(K!Minus(K!inner(s), 2))
  BY Zenon DEF K!furniture, K!Furniture
<1>4. K!wrap_hints(K!Minus(K!inner(s), 2)) \in Nat
  BY WrapOf
<1> QED
  BY <1>1, <1>2, <1>3, <1>4 DEF K!FRAME

\* Where it fits the box is on the terminal, and the highlight in it.
LEMMA ShapeOf ==
    ASSUME K!PickingAssumption, NEW s \in PickingSizes, K!Fits(s), NEW p \in PickerOf
    PROVE  LET box == K!shape(p, s) IN
           /\ box.row \in Nat /\ box.high \in Nat /\ box.visible \in Nat
           /\ box.row >= 1 /\ box.row + box.high - 1 <= s.rows
           /\ box.top \in Int /\ p.at - box.top \in 0..box.visible - 1
<1> DEFINE f == K!furniture(s)
           len == Len(p.rows)
           visible == K!More(K!Less(K!Minus(s.rows, f + 2), len), 1)
           high == visible + f
           row == K!Minus(s.rows, high) \div 2 + 1
           top == IF p.at < visible THEN 0 ELSE p.at + 1 - visible
<1>1. f \in Nat /\ s.rows \in Nat /\ s.rows >= f + 3
  BY InnerOf DEF K!Fits
<1>2. len \in Nat /\ p.at \in Nat
  BY RowsOf DEF PickerOf
<1>3. K!shape(p, s) = [row |-> row, high |-> high, visible |-> visible, top |-> top]
  BY Zenon DEF K!shape
<1> HIDE DEF f, len
<1>4. visible \in Nat /\ visible >= 1 /\ visible + f + 2 <= s.rows
  BY <1>1, <1>2 DEF K!More, K!Less, K!Minus
<1> HIDE DEF visible
<1>5. high \in Nat /\ high + 2 <= s.rows
  BY <1>1, <1>4
<1> HIDE DEF high
<1>6. row \in Nat /\ row >= 1 /\ row + high - 1 <= s.rows
  BY <1>1, <1>5 DEF K!More, K!Minus
<1>7. top \in Int /\ p.at - top \in 0..visible - 1
  BY <1>2, <1>4
<1> HIDE DEF row, top
<1> QED
  BY <1>3, <1>4, <1>5, <1>6, <1>7

\* Every row is painted as wide as the box.
LEMMA PaintOf ==
    ASSUME NEW p \in PickerOf, NEW i \in K!Indices(p), NEW width \in 24..60
    PROVE  K!paint(p, i, width) = width
<1> DEFINE row == K!Row(p, i)
           text == row.indent * K!STEP + row.wide
           label == K!label_width(p, width)
           g == K!gutter(p)
           widths == {K!Row(p, j).wide + K!Row(p, j).indent * K!STEP : j \in K!Landable(p)}
           most == IF widths = {} THEN K!MIN_LABEL ELSE K!Max(widths)
           len == Len(p.rows)
<1>1. row \in K!RowOf
  BY RowsOf
<1> HIDE DEF row
<1>2. row.indent \in Nat /\ row.wide \in Nat /\ row.heading \in BOOLEAN
  BY <1>1 DEF K!RowOf
<1>3. text \in Nat
  BY <1>2 DEF K!STEP
<1>4. g \in {0, 2}
  BY DEF K!gutter, K!GUTTER
<1>5. most \in Nat
  <2>1. CASE widths = {}
    BY <2>1 DEF K!MIN_LABEL
  <2>2. CASE widths # {}
    <3> DEFINE of == [j \in K!Landable(p) |-> K!Row(p, j).wide + K!Row(p, j).indent * K!STEP]
    <3>1. len \in Nat /\ K!Indices(p) = 0..len - 1 /\ K!Landable(p) \in SUBSET K!Indices(p)
      BY RowsOf DEF K!Landable
    <3>2. K!Landable(p) \in SUBSET (0..len)
      BY <3>1
    <3>3. \A j \in K!Landable(p) : K!Row(p, j) \in K!RowOf
      BY <3>1, RowsOf
    <3>4. \A j \in K!Landable(p) : K!Row(p, j).wide + K!Row(p, j).indent * K!STEP \in Nat
      BY <3>3 DEF K!RowOf, K!STEP
    <3>5. of \in [K!Landable(p) -> Nat]
      BY <3>4
    <3>6. widths = {of[j] : j \in K!Landable(p)} /\ K!Landable(p) # {}
      BY <2>2
    <3> HIDE DEF of, len, widths
    <3>7. K!Max(widths) \in Nat
      BY <3>1, <3>2, <3>5, <3>6, MaxOf
    <3> QED
      BY <2>2, <3>7
  <2> QED
    BY <2>1, <2>2
<1>6. label = K!Less(K!clamp(most, K!MIN_LABEL, K!MAX_LABEL), K!Minus(width, K!GAPS + K!NOTE + g))
  BY Zenon DEF K!label_width
<1> HIDE DEF text, label, g, widths, most, len
<1>7. label \in Nat /\ label <= width - 12 - g
  BY <1>4, <1>5, <1>6 DEF K!Less, K!More, K!Minus, K!clamp, K!MIN_LABEL, K!MAX_LABEL, K!GAPS, K!NOTE
<1>8. \A n, m \in Nat : K!fit(n, m) = m
  BY DEF K!fit, K!clip, K!Less, K!More, K!Minus
<1>9. CASE row.heading
  <2>1. K!paint(p, i, width) = 2 + g + K!fit(text, width - 2 - g)
    BY <1>9, Zenon DEF K!paint, row, text, g
  <2>2. width - 2 - g \in Nat
    BY <1>4
  <2>3. K!fit(text, width - 2 - g) = width - 2 - g
    BY <1>3, <1>8, <2>2
  <2> QED
    BY <1>4, <2>1, <2>3
<1>10. CASE ~ row.heading
  <2> DEFINE rest == K!Minus(width, K!GAPS + K!NOTE + g + label)
  <2>1. K!paint(p, i, width) = 2 + g + K!fit(text, label) + 1 + K!fit(row.wide, rest) + 2
                                 + K!fit(0, K!NOTE) + 1
    BY <1>10, Zenon DEF K!paint, row, text, g, label
  <2>2. rest = width - 12 - g - label /\ rest \in Nat
    BY <1>4, <1>7 DEF K!Minus, K!More, K!GAPS, K!NOTE
  <2> HIDE DEF rest
  <2>3. K!fit(text, label) = label /\ K!fit(row.wide, rest) = rest /\ K!fit(0, K!NOTE) = 6
    BY <1>2, <1>3, <1>7, <1>8, <2>2 DEF K!NOTE
  <2> QED
    BY <1>4, <1>7, <2>1, <2>2, <2>3
<1> QED
  BY <1>2, <1>9, <1>10

(***************************************************************************)
(* The invariant.                                                          *)
(***************************************************************************)
\* The line of the highlight, in the box it is drawn in.
PointedAt(p, s) ==
    [line |-> K!shape(p, s).row + 3 + p.at - K!shape(p, s).top, id |-> K!chosen(p)]

\* Lines of the box are only where one was last drawn, and nowhere once the
\* terminal has no room for one.
Covered(on, p, s) ==
    /\ DOMAIN on = K!Lines(s)
    /\ \A l \in K!Lines(s) : on[l] = "box" =>
           K!Fits(s) /\ l \in p.drawn.row..p.drawn.row + p.drawn.high - 1

KInv ==
    /\ Stands(picker) /\ size \in PickingSizes /\ listings \in Nat
    /\ K!Fits(size) => pointed = PointedAt(picker, size)
    /\ ~swapped => Covered(lines, picker, size)

\* Drawn again with another box, it is the same.
Redrawn(q, p, row, high) == q = [p EXCEPT !.drawn = [row |-> row, high |-> high]]

LEMMA DrawnAgain ==
    ASSUME NEW p, Stands(p), NEW s, NEW row \in Nat, NEW high \in Nat,
           NEW q, Redrawn(q, p, row, high)
    PROVE  /\ Stands(q) /\ q.rows = p.rows /\ q.at = p.at
           /\ q.drawn = [row |-> row, high |-> high]
           /\ K!shape(q, s) = K!shape(p, s) /\ K!chosen(q) = K!chosen(p)
<1>1. /\ q \in PickerOf /\ q.rows = p.rows /\ q.at = p.at
      /\ q.drawn = [row |-> row, high |-> high]
  BY DEF Stands, PickerOf, Redrawn
<1>2. Stands(q) /\ K!chosen(q) = K!chosen(p)
  BY <1>1, SameRows DEF Stands, OnARow
<1>3. K!shape(q, s) = K!shape(p, s)
  <2> DEFINE shows(x) == K!More(K!Less(K!Minus(s.rows, K!furniture(s) + 2), Len(x.rows)), 1)
             tall(x) == shows(x) + K!furniture(s)
  <2>1. \A x : K!shape(x, s) =
                  [row |-> K!Minus(s.rows, tall(x)) \div 2 + 1, high |-> tall(x),
                   visible |-> shows(x),
                   top |-> IF x.at < shows(x) THEN 0 ELSE x.at + 1 - shows(x)]
    BY Zenon DEF K!shape
  <2>2. shows(q) = shows(p) /\ tall(q) = tall(p)
    BY <1>1
  <2> HIDE DEF shows, tall
  <2> QED
    BY <1>1, <2>1, <2>2
<1> QED
  BY <1>1, <1>2, <1>3

\* Drawing keeps it, over a screen that has a box where the picker has one.
LEMMA DrawKeeps ==
    ASSUME K!PickingAssumption, NEW p, Stands(p), NEW s \in PickingSizes, size' = s, listings' \in Nat,
           NEW under, K!draw(p, s, under),
           ~swapped' => Covered(under, p, s)
    PROVE  /\ KInv' /\ picker'.rows = p.rows /\ picker'.at = p.at
           /\ K!chosen(picker)' = K!chosen(p)
<1> DEFINE new == K!shape(p, s)
           now == [row |-> new.row, high |-> new.high]
<1>1. CASE ~ K!Fits(s)
  <2>1. picker' = p /\ lines' = under
    BY <1>1 DEF K!draw
  <2>2. K!chosen(picker)' = K!chosen(p)
    BY <2>1 DEF K!chosen, K!landable, K!Indices, K!Row
  <2>3. ~swapped' => Covered(lines, picker, size)'
    BY <2>1 DEF Covered, K!Fits, K!inner, K!furniture, K!Lines
  <2>4. Stands(picker)'
    BY <2>1 DEF Stands, OnARow, K!landable, K!Landable, K!Indices, K!Row
  <2>5. ~ K!Fits(size)'
    BY <1>1 DEF K!Fits, K!inner, K!furniture
  <2> QED
    BY <2>1, <2>2, <2>3, <2>4, <2>5 DEF KInv
<1>2. CASE K!Fits(s)
  <2>1. new.row \in Nat /\ new.high \in Nat
    BY <1>2, ShapeOf DEF Stands
  <2>2. /\ picker' = [p EXCEPT !.drawn = now]
        /\ lines' = [l \in K!Lines(s) |->
               IF l \in new.row..new.row + new.high - 1 THEN "box"
               ELSE IF p.drawn # K!Undrawn /\ l \in K!cleared(p.drawn, new) THEN "blank"
               ELSE under[l]]
        /\ pointed' = [line |-> new.row + 3 + p.at - new.top, id |-> K!chosen(p)]
    BY <1>2, Zenon DEF K!draw
  <2>3. pointed' = PointedAt(p, s)
    BY <2>2 DEF PointedAt
  <2> DEFINE q == picker'
  <2> HIDE DEF new
  <2>4. /\ Stands(q) /\ q.rows = p.rows /\ q.at = p.at /\ q.drawn = now
        /\ K!shape(q, s) = K!shape(p, s) /\ K!chosen(q) = K!chosen(p)
    <3>1. Redrawn(q, p, new.row, new.high)
      BY <2>2 DEF Redrawn
    <3> HIDE DEF q
    <3> QED
      BY <2>1, <3>1, DrawnAgain
  <2>5. PointedAt(q, s) = PointedAt(p, s)
    BY <2>4, Zenon DEF PointedAt
  <2>6. ASSUME ~swapped' PROVE Covered(lines', q, s)
    <3>1. DOMAIN lines' = K!Lines(s) /\ \A l \in K!Lines(s) :
              lines'[l] = "box" => \/ l \in new.row..new.row + new.high - 1
                                   \/ under[l] = "box" /\ ~ (p.drawn # K!Undrawn /\ l \in K!cleared(p.drawn, new))
      BY <2>2
    <3>2. ASSUME NEW l \in K!Lines(s), under[l] = "box",
                 ~ (p.drawn # K!Undrawn /\ l \in K!cleared(p.drawn, new))
          PROVE  l \in new.row..new.row + new.high - 1
      <4>1. l \in p.drawn.row..p.drawn.row + p.drawn.high - 1
        BY <2>6, <3>2 DEF Covered
      <4>2. p.drawn.row \in Nat /\ p.drawn.high \in Nat /\ l \in Int
        BY DEF Stands, PickerOf, K!Lines
      <4>3. p.drawn # K!Undrawn
        BY <4>1, <4>2 DEF K!Undrawn
      <4>4. l \notin K!cleared(p.drawn, new)
        BY <3>2, <4>3
      <4>5. ~ (l < new.row \/ l >= new.row + new.high)
        BY <4>1, <4>4 DEF K!cleared
      <4> QED
        BY <2>1, <4>2, <4>5
    <3> QED
      BY <1>2, <2>4, <3>1, <3>2 DEF Covered
  <2>7. KInv'
    <3>1. Stands(picker)' /\ K!chosen(picker)' = K!chosen(q)
      BY <2>4
    <3>2. PointedAt(picker, size)' = PointedAt(q, s)
      OBVIOUS
    <3>3. Covered(lines, picker, size)' <=> Covered(lines', q, s)
      OBVIOUS
    <3> QED
      BY <2>3, <2>5, <2>6, <3>1, <3>2, <3>3 DEF KInv
  <2> QED
    BY <2>4, <2>7
<1> QED
  BY <1>1, <1>2
\* The list is opened on a row.
Opened(source, at) ==
    LET p == K!New(source, at)
        new == K!shape(p, size)
    IN /\ picker = [p EXCEPT !.drawn = [row |-> new.row, high |-> new.high]]
       /\ lines = [l \in K!Lines(size) |->
              IF l \in new.row..new.row + new.high - 1 THEN "box" ELSE "session"]
       /\ pointed = [line |-> new.row + 3 + p.at - new.top, id |-> K!chosen(p)]

LEMMA KInitially == ASSUME K!PickingAssumption PROVE K!Init => KInv
<1> SUFFICES ASSUME K!Init PROVE KInv
  OBVIOUS
<1>1. PICK source \in Listings : \E at \in 0..Len(source) : Opened(source, at)
  BY Zenon DEF K!Init, Opened
<1>2. size \in PickingSizes /\ K!Fits(size) /\ listings = 0
  BY DEF K!Init
<1>3. PICK at \in 0..Len(source) : Opened(source, at)
  BY <1>1
<1>4. at \in Nat
  <2>1. source \in Seq(K!RowOf)
    BY DEF K!PickingAssumption
  <2>2. Len(source) \in Nat
    BY <2>1
  <2> QED
    BY <2>2
<1> DEFINE p == K!New(source, at)
           new == K!shape(p, size)
<1>5. /\ Redrawn(picker, p, new.row, new.high)
      /\ lines = [l \in K!Lines(size) |->
             IF l \in new.row..new.row + new.high - 1 THEN "box" ELSE "session"]
      /\ pointed = PointedAt(p, size)
  BY <1>3, Zenon DEF Opened, Redrawn, PointedAt
<1>6. Stands(p)
  BY <1>4, NewStands
<1> HIDE DEF p
<1>7. new.row \in Nat /\ new.high \in Nat
  BY <1>2, <1>6, ShapeOf DEF Stands
<1> HIDE DEF new
<1>8. /\ Stands(picker) /\ picker.at = p.at
      /\ picker.drawn = [row |-> new.row, high |-> new.high]
      /\ K!shape(picker, size) = K!shape(p, size) /\ K!chosen(picker) = K!chosen(p)
  <2> DEFINE q == picker
             row == new.row
             high == new.high
  <2>1. row \in Nat /\ high \in Nat /\ Redrawn(q, p, row, high)
    BY <1>5, <1>7
  <2> HIDE DEF q, row, high
  <2>2. /\ Stands(q) /\ q.at = p.at /\ q.drawn = [row |-> row, high |-> high]
        /\ K!shape(q, size) = K!shape(p, size) /\ K!chosen(q) = K!chosen(p)
    BY <1>6, <2>1, DrawnAgain
  <2> QED
    BY <2>2 DEF q, row, high
<1>9. pointed = PointedAt(picker, size)
  BY <1>5, <1>8, Zenon DEF PointedAt
<1>10. Covered(lines, picker, size)
  BY <1>2, <1>5, <1>8 DEF Covered
<1> QED
  BY <1>2, <1>8, <1>9, <1>10 DEF KInv

\* A key puts another picker in place of this one, in the box of this one.
LEMMA KeyKeeps ==
    ASSUME K!PickingAssumption, KInv, NEW p, Stands(p), p.drawn = picker.drawn, K!Key(p)
    PROVE  /\ KInv' /\ picker'.rows = p.rows /\ picker'.at = p.at
           /\ UNCHANGED listings
<1>1. K!draw(p, size, lines) /\ UNCHANGED <<size, swapped, listings>>
  BY DEF K!Key
<1>2. size \in PickingSizes /\ listings \in Nat /\ (~swapped => Covered(lines, picker, size))
  BY DEF KInv
<1>3. ~swapped => Covered(lines, p, size)
  BY <1>2 DEF Covered
<1> QED
  BY <1>1, <1>2, <1>3, DrawKeeps

LEMMA LandsKeeps ==
    ASSUME K!PickingAssumption, KInv, NEW source \in Listings, NEW at, K!Lands(source, at)
    PROVE  /\ KInv'
           /\ K!index_of(picker', K!chosen(picker)) # {} => K!chosen(picker') = K!chosen(picker)
<1> DEFINE p == K!replace(picker, source, at)
<1>1. K!draw(p, size, lines) /\ UNCHANGED <<size, swapped>> /\ listings' = listings + 1
  BY DEF K!Lands
<1>2. /\ size \in PickingSizes /\ listings \in Nat /\ (~swapped => Covered(lines, picker, size))
      /\ picker \in PickerOf
  BY DEF KInv, Stands
<1>3. /\ Stands(p) /\ p.drawn = picker.drawn
      /\ K!index_of(p, K!chosen(picker)) # {} => K!chosen(p) = K!chosen(picker)
  BY <1>2, ReplaceStands
<1> HIDE DEF p
<1>4. ~swapped => Covered(lines, p, size)
  BY <1>2, <1>3 DEF Covered
<1>5. KInv' /\ picker'.rows = p.rows /\ picker'.at = p.at
  BY <1>1, <1>2, <1>3, <1>4, DrawKeeps
<1>6. K!index_of(picker', K!chosen(picker)) = K!index_of(p, K!chosen(picker))
      /\ K!chosen(picker') = K!chosen(p)
  <2> DEFINE q == picker'
             was == K!chosen(picker)
  <2>1. q.rows = p.rows /\ q.at = p.at
    BY <1>5
  <2> HIDE DEF q, was
  <2>2. K!index_of(q, was) = K!index_of(p, was) /\ K!chosen(q) = K!chosen(p)
    BY <2>1, SameRows
  <2> QED
    BY <2>2 DEF q, was
<1> QED
  BY <1>3, <1>5, <1>6

LEMMA SwapKeeps ==
    ASSUME K!PickingAssumption, KInv, NEW source \in Listings, NEW id, K!Swap(source, id)
    PROVE  KInv' /\ UNCHANGED listings
<1> DEFINE p == K!point_at(K!New(source, 0), id)
<1>1. K!draw(p, size, lines) /\ UNCHANGED <<size, listings>> /\ swapped' = TRUE
  BY DEF K!Swap
<1>2. Stands(p)
  BY NewStands, PointAtStands
<1> HIDE DEF p
<1> QED
  BY <1>1, <1>2, DrawKeeps DEF KInv

LEMMA ResizeKeeps ==
    ASSUME K!PickingAssumption, KInv, NEW s \in PickingSizes, K!Resize(s)
    PROVE  KInv' /\ UNCHANGED listings
<1> DEFINE under == [l \in K!Lines(s) |-> "session"]
<1>1. K!draw(picker, s, under) /\ size' = s /\ UNCHANGED listings
  BY DEF K!Resize
<1>2. Covered(under, picker, s)
  BY DEF Covered
<1> HIDE DEF under
<1> QED
  BY <1>1, <1>2, DrawKeeps DEF KInv

LEMMA StepKeeps ==
    ASSUME K!PickingAssumption, KInv, NEW forwards \in BOOLEAN
    PROVE  /\ K!Key(K!step(picker, forwards)) => KInv' /\ UNCHANGED listings
           /\ K!Section(forwards) =>
                 /\ KInv' /\ UNCHANGED listings
                 /\ picker'.at # picker.at => K!starts_a_run(picker', picker'.at)
<1>1. Stands(picker)
  BY DEF KInv
<1>2. ASSUME K!Key(K!step(picker, forwards)) PROVE KInv' /\ UNCHANGED listings
  <2> DEFINE p == K!step(picker, forwards)
  <2>1. p = K!Walked(picker, forwards, 1..Len(picker.rows))
    BY DEF K!step
  <2>2. K!Key(p)
    BY <1>2
  <2> HIDE DEF p
  <2>3. Stands(p) /\ p.drawn = picker.drawn
    BY <1>1, <2>1, WalkedStands
  <2> QED
    BY <2>2, <2>3, KeyKeeps
<1>3. ASSUME K!Section(forwards)
      PROVE  /\ KInv' /\ UNCHANGED listings
             /\ picker'.at # picker.at => K!starts_a_run(picker', picker'.at)
  <2> DEFINE p == K!next_heading(picker, forwards)
  <2>1. K!Key(p)
    BY <1>3 DEF K!Section
  <2>2. /\ Stands(p) /\ p.drawn = picker.drawn
        /\ p.at # picker.at => K!starts_a_run(p, p.at)
    BY <1>1, SectionOf
  <2> HIDE DEF p
  <2>3. KInv' /\ UNCHANGED listings /\ picker'.rows = p.rows /\ picker'.at = p.at
    BY <2>1, <2>2, KeyKeeps
  <2>4. K!starts_a_run(p, p.at) => K!starts_a_run(picker', picker'.at)
    BY <2>3 DEF K!starts_a_run, K!Row
  <2> QED
    BY <2>2, <2>3, <2>4
<1> QED
  BY <1>2, <1>3

LEMMA SearchKeeps ==
    ASSUME K!PickingAssumption, KInv, NEW query \in Queries, K!Search(query)
    PROVE  KInv' /\ UNCHANGED listings
<1> DEFINE p == K!search(picker, query)
<1>1. K!Key(p)
  BY DEF K!Search
<1>2. Stands(p) /\ p.drawn = picker.drawn
  BY SearchStands DEF KInv, Stands
<1> HIDE DEF p
<1> QED
  BY <1>1, <1>2, KeyKeeps

LEMMA KPreserved == ASSUME K!PickingAssumption PROVE KInv /\ [K!Next]_(K!vars) => KInv'
<1> SUFFICES ASSUME KInv, [K!Next]_(K!vars) PROVE KInv'
  OBVIOUS
<1>1. CASE K!Up \/ K!Down
  BY <1>1, StepKeeps DEF K!Up, K!Down
<1>2. ASSUME NEW forwards \in BOOLEAN, K!Section(forwards) PROVE KInv'
  BY <1>2, StepKeeps
<1>3. ASSUME NEW query \in Queries, K!Search(query) PROVE KInv'
  BY <1>3, SearchKeeps
<1>4. ASSUME NEW source \in Listings, NEW at, K!Lands(source, at) PROVE KInv'
  BY <1>4, LandsKeeps
<1>5. ASSUME NEW source \in Listings, NEW id, K!Swap(source, id) PROVE KInv'
  BY <1>5, SwapKeeps
<1>6. ASSUME NEW s \in PickingSizes, K!Resize(s) PROVE KInv'
  BY <1>6, ResizeKeeps
<1>7. CASE UNCHANGED K!vars
  BY <1>7 DEF K!vars, KInv, PointedAt, Covered, Stands, OnARow, K!landable, K!Landable, K!Indices, K!Row,
              K!Fits, K!inner, K!furniture, K!Lines, K!shape, K!chosen
<1> QED
  BY <1>1, <1>2, <1>3, <1>4, <1>5, <1>6, <1>7 DEF K!Next

LEMMA KMoves == ASSUME K!PickingAssumption PROVE KInv /\ K!Next => K!MovedByTheHand
<1> SUFFICES ASSUME KInv, K!Next PROVE K!MovedByTheHand
  OBVIOUS
<1>1. ASSUME NEW forwards \in BOOLEAN, K!Section(forwards), picker'.at # picker.at
      PROVE  K!starts_a_run(picker', picker'.at)
  BY <1>1, StepKeeps
<1>2. \/ UNCHANGED listings
      \/ K!index_of(picker', K!chosen(picker)) # {} => K!chosen(picker') = K!chosen(picker)
  <2>1. CASE K!Up \/ K!Down
    BY <2>1, StepKeeps DEF K!Up, K!Down
  <2>2. ASSUME NEW forwards \in BOOLEAN, K!Section(forwards) PROVE UNCHANGED listings
    BY <2>2, StepKeeps
  <2>3. ASSUME NEW query \in Queries, K!Search(query) PROVE UNCHANGED listings
    BY <2>3, SearchKeeps
  <2>4. ASSUME NEW source \in Listings, NEW at, K!Lands(source, at)
        PROVE  K!index_of(picker', K!chosen(picker)) # {} => K!chosen(picker') = K!chosen(picker)
    BY <2>4, LandsKeeps
  <2>5. ASSUME NEW source \in Listings, NEW id, K!Swap(source, id) PROVE UNCHANGED listings
    BY <2>5, SwapKeeps
  <2>6. ASSUME NEW s \in PickingSizes, K!Resize(s) PROVE UNCHANGED listings
    BY <2>6, ResizeKeeps
  <2> QED
    BY <2>1, <2>2, <2>3, <2>4, <2>5, <2>6 DEF K!Next
<1>3. UNCHANGED listings => ~ (listings' > listings)
  BY DEF KInv
<1> QED
  BY <1>1, <1>2, <1>3, Zenon DEF K!MovedByTheHand

LEMMA KHolds ==
    ASSUME K!PickingAssumption PROVE KInv => K!EnterIsWhereItShows /\ K!NothingLeftOfTheBox
<1> SUFFICES ASSUME KInv PROVE K!EnterIsWhereItShows /\ K!NothingLeftOfTheBox
  OBVIOUS
<1>1. picker \in PickerOf /\ OnARow(picker) /\ size \in PickingSizes
  BY DEF KInv, Stands
<1>2. K!Landable(picker) # {} => K!chosen(picker) # K!NoRow
  BY <1>1, RowsOf DEF OnARow, K!chosen, K!NoRow, K!RowOf, K!landable
<1>3. ASSUME K!Fits(size)
      PROVE  LET box == K!shape(picker, size) IN
             /\ pointed.line \in box.row + 3..box.row + 2 + box.visible
             /\ pointed.id = K!chosen(picker)
             /\ K!actionable(picker) \in {K!NoRow, pointed.id}
             /\ box.row >= 1 /\ box.row + box.high - 1 <= size.rows
             /\ \A i \in K!Indices(picker) : K!paint(picker, i, K!inner(size)) = K!inner(size)
  <2> DEFINE box == K!shape(picker, size)
             at == picker.at
  <2>1. /\ box.row \in Nat /\ box.high \in Nat /\ box.visible \in Nat
        /\ box.row >= 1 /\ box.row + box.high - 1 <= size.rows
        /\ box.top \in Int /\ at - box.top \in 0..box.visible - 1
    BY <1>1, <1>3, ShapeOf
  <2>2. pointed.line = box.row + 3 + at - box.top /\ pointed.id = K!chosen(picker)
    BY <1>3 DEF KInv, PointedAt
  <2>3. at \in Nat /\ box.top \in Int
    BY <1>1, <2>1 DEF PickerOf
  <2> HIDE DEF box, at
  <2>4. pointed.line \in box.row + 3..box.row + 2 + box.visible
    BY <2>1, <2>2, <2>3
  <2>5. K!actionable(picker) \in {K!NoRow, K!chosen(picker)}
    BY DEF K!actionable, K!chosen
  <2>6. \A i \in K!Indices(picker) : K!paint(picker, i, K!inner(size)) = K!inner(size)
    BY <1>1, InnerOf, PaintOf
  <2> QED
    BY <2>1, <2>2, <2>4, <2>5, <2>6 DEF box
<1>4. K!EnterIsWhereItShows
  BY <1>2, <1>3, Zenon DEF K!EnterIsWhereItShows
<1>5. K!NothingLeftOfTheBox
  BY DEF KInv, Covered, K!NothingLeftOfTheBox
<1> QED
  BY <1>4, <1>5

\* Whatever it does, a behaviour that is of the picker keeps it.
KPart == part = "picking" => KInv

LEMMA KPartInitially == Init => KPart
<1> SUFFICES ASSUME Init, part = "picking" PROVE KInv
  BY DEF KPart
<1>1. K!Init
  BY DEF Init
<1> QED
  BY <1>1, PickingAssumed, KInitially

LEMMA KPartStep ==
    ASSUME [Next]_vars, part' = "picking"
    PROVE  part = "picking" /\ [K!Next]_(K!vars)
<1>1. CASE UNCHANGED vars
  BY <1>1 DEF vars, Beyond19, Beyond17, Beyond13, Beyond12, Beyond10,
     Beyond9, Beyond8, Beyond7, Beyond4,
     K!vars
<1>2. CASE Next
  BY <1>2 DEF Next
<1> QED
  BY <1>1, <1>2

LEMMA KPartPreserved == KPart /\ [Next]_vars => KPart'
<1> SUFFICES ASSUME KPart, [Next]_vars, part' = "picking" PROVE KInv'
  BY DEF KPart
<1> QED
  BY KPartStep, KPreserved, PickingAssumed DEF KPart

LEMMA KPartMoves ==
    KPart /\ [Next]_vars => [part = "picking" => K!MovedByTheHand]_vars
<1> SUFFICES ASSUME KPart, Next, part = "picking" PROVE K!MovedByTheHand
  OBVIOUS
<1>1. K!Next
  BY DEF Next
<1> QED
  BY <1>1, KMoves, PickingAssumed DEF KPart

HIDE DEF picker, size, lines, pointed, swapped, listings

(***************************************************************************)
(* The theorems.                                                           *)
(***************************************************************************)
\* A bell nobody saw ring is told of by whoever sat where it is heard, or waits
\* to be, once, and never in the session it is of, for any sessions, clients, names
\* and bells.  A save counts as lost every session it was shown and did not write
\* down at its own work, whatever begins, ends or is asked meanwhile, and a restart
\* stops only what is written down.
THEOREM NothingAskedGoesUntold == Spec => NothingGoesUnsaid
<1> DEFINE Both == BPart /\ CPart
           Holds == part = "bells" => B!SomebodyHears /\ B!NotTwice
           Moves == /\ part = "checkpoint" => C!Said
                    /\ part = "bells" => B!OfAnother
<1>1. Init => Both
  BY BPartInitially, CPartInitially
<1>2. Both /\ [Next]_vars => Both'
  BY BPartPreserved, CPartPreserved
<1>3. Both => Holds
  BY BHolds, BellsAssumed DEF BPart
<1>4. Both /\ [Next]_vars => [Moves]_vars
  BY BPartMoves, CPartMoves
<1> QED
  BY <1>1, <1>2, <1>3, <1>4, PTL DEF Spec, NothingGoesUnsaid

\* A row chosen on a picture that later answers have overtaken is still the session
\* it was drawn of, for any number of sessions, names, renames and answers.  The
\* highlight is drawn in the box and on the row that Enter would take, every row is
\* as wide as the box, nothing of a box is left where it no longer is, and a listing
\* moves the highlight only off a row that is gone: for any lists, words searched
\* for, hints and sizes of the terminal.
THEOREM EnterIsRight == Spec => EnterGoesWhereItPoints
<1> DEFINE Both == LPart /\ KPart
           Holds == /\ part = "rows" => L!EnterGoesWhereItPoints
                    /\ part = "picking" => K!EnterIsWhereItShows /\ K!NothingLeftOfTheBox
           Moves == part = "picking" => K!MovedByTheHand
<1>1. Init => Both
  BY LPartInitially, KPartInitially
<1>2. Both /\ [Next]_vars => Both'
  BY LPartPreserved, KPartPreserved
<1>3. Both => Holds
  BY LHolds, KHolds, RowsAssumed, PickingAssumed DEF LPart, KPart
<1>4. Both /\ [Next]_vars => [Moves]_vars
  BY KPartMoves
<1> QED
  BY <1>1, <1>2, <1>3, <1>4, PTL DEF Spec, EnterGoesWhereItPoints
=============================================================================
