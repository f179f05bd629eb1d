----------------------------- MODULE PhoneProofs -----------------------------
(***************************************************************************)
(* What holds of Phone for any number of sessions, names and nodes, and    *)
(* for any limits of the inbox.                                            *)
(*                                                                         *)
(* Two invariants that know nothing of each other.  Held follows the       *)
(* session: what the listing gave is alive under the name it gave, as long *)
(* as nothing changes before it is asked for, and is the one the phone had *)
(* or one of another node.  Kept follows what is typed: the inbox is       *)
(* numbered up to the last thing typed (Numbers), and what an attach was   *)
(* given ends where the inbox begins.                                      *)
(***************************************************************************)
EXTENDS Phone, TLAPS

(***************************************************************************)
(* The session.                                                            *)
(***************************************************************************)
Registry ==
    /\ life \in [Sessions -> {"unborn", "alive", "ended"}]
    /\ called \in [Sessions -> Names] /\ gen \in [Sessions -> Nat] /\ node \in Nat
    /\ \A s, t \in Alive : called[s] = called[t] => s = t

\* The phone knows a session by its number as soon as it was in one.
Known ==
    /\ ever \in BOOLEAN
    /\ ever => identity \in Sessions /\ life[identity] # "unborn"
    /\ ~ever => identity = Nobody

Listed ==
    at = "ask" =>
        /\ chosen \in Sessions /\ life[chosen] # "unborn"
        /\ ever => chosen = identity \/ gen[chosen] # gen[identity]
        /\ ~crossed => life[chosen] = "alive" /\ called[chosen] = asked

Attached ==
    /\ at = "attached" => on \in Sessions
    /\ at \notin {"attached", "over"} => on = Nobody
    /\ state = "failed" => at = "over"

Held == Registry /\ Known /\ Listed /\ Attached /\ OnlyItsOwn

LEMMA HeldInitially == Init => Held
<1> SUFFICES ASSUME Init PROVE Held
  OBVIOUS
<1>1. Registry
  BY PhoneAssumption DEF Init, Registry, Alive
<1>2. Known /\ Listed /\ Attached /\ OnlyItsOwn
  BY DEF Init, Known, Listed, Attached, OnlyItsOwn
<1> QED
  BY <1>1, <1>2 DEF Held

\* A step that is the task's or the app's leaves the registry alone, and one
\* that leaves the phone's own part of it alone keeps what the phone holds.
LEMMA Elsewhere ==
    ASSUME Held, UNCHANGED <<ever, identity, machine>>
    PROVE  Registry' /\ Known'
BY DEF Held, Registry, Known, machine, Alive

\* A session that is alive may have been chosen; one that ends is known to.
LEMMA MachineStep ==
    ASSUME Held, UNCHANGED <<at, state, ever, identity, chosen, asked, on>>,
           crossed' = (crossed \/ at = "ask"), Registry',
           \A s \in Sessions : life[s] # "unborn" => life'[s] # "unborn" /\ gen'[s] = gen[s],
           \A s \in Sessions : life[s] = "ended" => life'[s] = "ended"
    PROVE  Held'
<1>1. Known'
  BY DEF Held, Known
<1>2. Listed'
  BY DEF Held, Listed, Known
<1>3. Attached'
  BY DEF Held, Attached
<1>4. OnlyItsOwn'
  BY DEF Held, OnlyItsOwn, Known
<1> QED
  BY <1>1, <1>2, <1>3, <1>4 DEF Held

\* Where the task is changes, and not what it holds: it does not ask, and it
\* does not attach.
LEMMA TaskStep ==
    ASSUME Held, UNCHANGED <<ever, identity, machine>>,
           at' \notin {"ask", "attached"}, at' # "over" => on' = Nobody,
           state' = "failed" => at' = "over",
           state' = "failed" /\ state # "failed" =>
               ~ever \/ life[identity] = "ended"
    PROVE  Held'
<1>1. Registry' /\ Known'
  BY Elsewhere
<1>2. Listed' /\ Attached'
  BY DEF Listed, Attached
<1>3. OnlyItsOwn'
  BY DEF OnlyItsOwn, Held, machine
<1> QED
  BY <1>1, <1>2, <1>3 DEF Held

\* The task stays where it is.
LEMMA HeldStays ==
    ASSUME Held, UNCHANGED <<at, state, ever, identity, chosen, asked, on, machine, crossed>>
    PROVE  Held'
<1>1. Registry' /\ Known'
  BY Elsewhere
<1>2. Listed' /\ Attached' /\ OnlyItsOwn'
  BY DEF Held, Listed, Attached, OnlyItsOwn, machine
<1> QED
  BY <1>1, <1>2 DEF Held

LEMMA HeldPreserved == Held /\ [Next]_vars => Held'
<1> SUFFICES ASSUME Held, [Next]_vars PROVE Held'
  OBVIOUS
<1>a. (at = "ask" => state # "failed") /\ (at # "over" => state # "failed")
  BY DEF Held, Attached
<1>1. ASSUME NEW m, Says(m) PROVE Held'
  <2>1. at' = at \/ at' = "over"
    BY <1>1 DEF Says, enqueue, Overflowed
  <2>2. UNCHANGED <<state, ever, identity, chosen, asked, on, machine, crossed>>
    BY <1>1 DEF Says
  <2>3. CASE at' = at
    BY <2>2, <2>3, HeldStays
  <2>4. CASE at' = "over"
    BY <2>2, <2>4, TaskStep
  <2> QED
    BY <2>1, <2>3, <2>4
<1>2. CASE \E kind \in {"input", "look"} : send(kind)
  BY <1>1, <1>2 DEF send
<1>3. CASE detach
  BY <1>1, <1>3 DEF detach
<1>4. CASE resume
  BY <1>4, HeldStays DEF resume, task
<1>5. CASE Resumed
  BY <1>5, TaskStep DEF Resumed, TryAgain, Quiet
<1>6. CASE Drops
  <2>1. at \in Reaching \union {"waiting"} /\ UNCHANGED <<machine, crossed>>
    BY <1>6 DEF Drops, Quiet
  <2>2. CASE Head(said).is = "detach"
    BY <1>6, <2>1, <2>2, TaskStep DEF Drops
  <2>3. CASE Head(said).is # "detach"
    BY <1>6, <2>1, <2>3, HeldStays DEF Drops, task
  <2> QED
    BY <2>2, <2>3
<1>m. ASSUME MissedMachine, at \in Reaching, UNCHANGED machine PROVE Held'
  <2>1. CASE ever
    BY <1>m, <2>1, TaskStep DEF MissedMachine, Waits
  <2>2. CASE ~ever
    BY <1>m, <2>2, TaskStep DEF MissedMachine, Over
  <2> QED
    BY <2>1, <2>2
<1>7. CASE connect
  <2>0. at = "connect" /\ UNCHANGED machine
    BY <1>7 DEF connect, Quiet
  <2>1. CASE pool # "none" \/ up
    <3>1. at' = "list" /\ UNCHANGED <<state, ever, identity, on>>
      BY <1>7, <2>1 DEF connect
    <3>2. on = Nobody /\ state # "failed"
      BY <2>0, <1>a DEF Held, Attached
    <3> QED
      BY <2>0, <3>1, <3>2, TaskStep
  <2>2. CASE ~(pool # "none" \/ up)
    BY <1>7, <1>m, <2>0, <2>2 DEF connect, Reaching
  <2> QED
    BY <2>1, <2>2
<1>8. CASE list
  <2> DEFINE found == IF Matching # {} THEN Matching ELSE ByName
  <2>0. at = "list" /\ UNCHANGED machine /\ crossed' = crossed /\ on = Nobody /\ state # "failed"
    BY <1>8, <1>a DEF list, Quiet, Held, Attached
  <2>1. CASE line = "stale"
    BY <1>8, <1>m, <2>0, <2>1 DEF list, Reaching
  <2>2. CASE line = "open" /\ found = {}
    <3>1. Over("failed")
      BY <1>8, <2>2 DEF list
    <3>2. ever => life[identity] = "ended"
      <4>1. Matching = {}
        BY <2>2
      <4> QED
        BY <4>1 DEF Matching, Alive, Held, Known, Registry
    <3> QED
      BY <2>0, <3>1, <3>2, TaskStep DEF Over
  <2>3. CASE line # "stale" /\ ~(line = "open" /\ found = {})
    <3>1. PICK s \in found :
             /\ chosen' = s /\ asked' = called[s] /\ at' = "ask"
             /\ UNCHANGED <<state, ever, identity, name, line, on, given, inbox, resumed, pool>>
      BY <1>8, <2>3 DEF list
    <3>2. Registry' /\ Known'
      BY <2>0, <3>1, Elsewhere
    <3>3. s \in Alive /\ s \in Sessions /\ life[s] = "alive"
          /\ (ever => s = identity \/ gen[s] # gen[identity])
      <4>1. CASE Matching # {}
        BY <4>1 DEF Matching, Alive
      <4>2. CASE Matching = {}
        <5>1. s \in ByName
          BY <4>2
        <5> QED
          BY <5>1, PhoneAssumption DEF ByName, Alive, Held, Known
      <4> QED
        BY <4>1, <4>2
    <3>4. Listed'
      BY <2>0, <3>1, <3>3 DEF Listed, machine
    <3>5. Attached' /\ OnlyItsOwn'
      BY <2>0, <3>1 DEF Attached, OnlyItsOwn
    <3> QED
      BY <3>2, <3>4, <3>5 DEF Held
  <2> QED
    BY <2>1, <2>2, <2>3
<1>9. CASE ask
  <2>0. at = "ask" /\ UNCHANGED machine /\ crossed' = crossed
    BY <1>9 DEF ask, Quiet
  <2>1. CASE line = "stale" \/ \A s \in Alive : called[s] # asked
    BY <1>9, <1>m, <2>0, <2>1 DEF ask, Reaching
  <2>2. CASE ~(line = "stale" \/ \A s \in Alive : called[s] # asked)
    <3>1. /\ on' \in {s \in Alive : called[s] = asked} /\ at' = "attached" /\ state' = "attached"
          /\ ever' = TRUE /\ identity' = chosen
      BY <1>9, <2>2 DEF ask
    <3>2. Registry'
      BY <2>0 DEF Held, Registry, Alive, machine
    <3>3. chosen \in Sessions /\ life[chosen] # "unborn"
      BY <2>0 DEF Held, Listed
    <3>4. Known' /\ Listed' /\ Attached'
      BY <2>0, <3>1, <3>3 DEF Known, Listed, Attached, machine, Alive
    <3>5. ~crossed => on' = chosen
      BY <2>0, <3>1 DEF Held, Listed, Registry, Alive
    <3>6. OnlyItsOwn'
      BY <2>0, <3>1, <3>5 DEF OnlyItsOwn
    <3> QED
      BY <3>2, <3>4, <3>6 DEF Held
  <2> QED
    BY <2>1, <2>2
<1>10. CASE Takes
  <2>0. at = "attached" /\ UNCHANGED <<ever, identity, chosen, asked, crossed, machine>>
    BY <1>10 DEF Takes, Quiet
  <2>1. CASE Head(said).is = "detach"
    BY <1>10, <2>0, <2>1, TaskStep DEF Takes
  <2>2. CASE Head(said).is # "detach"
    BY <1>10, <2>0, <2>2, HeldStays DEF Takes
  <2> QED
    BY <2>1, <2>2
<1>w. ASSUME Waits, UNCHANGED machine PROVE Held'
  BY <1>w, TaskStep DEF Waits
<1>11. CASE Hears
  <2>0. UNCHANGED <<machine, crossed>>
    BY <1>11 DEF Hears, Quiet
  <2>1. CASE life[on] = "alive" /\ name # called[on]
    BY <1>11, <2>0, <2>1, HeldStays DEF Hears
  <2>2. CASE life[on] = "ended" /\ gen[on] = node
    <3>1. Over("ended")
      BY <1>11, <2>2 DEF Hears
    <3> QED
      BY <2>0, <3>1, TaskStep DEF Over
  <2>3. CASE life[on] = "ended" /\ gen[on] # node
    BY <1>11, <1>w, <2>0, <2>3 DEF Hears
  <2> QED
    BY <1>11, <2>1, <2>2, <2>3 DEF Hears
<1>12. CASE Lost
  BY <1>12, <1>w DEF Lost, Quiet
<1>13. CASE Wakes
  BY <1>13, TaskStep DEF Wakes, TryAgain, Quiet
<1>14. ASSUME NEW s \in Sessions, NEW n \in Names, Start(s, n) PROVE Held'
  <2>1. /\ life[s] = "unborn" /\ Free(n)
        /\ life' = [life EXCEPT ![s] = "alive"] /\ called' = [called EXCEPT ![s] = n]
        /\ gen' = [gen EXCEPT ![s] = node] /\ node' = node
        /\ UNCHANGED task /\ crossed' = (crossed \/ at = "ask")
    BY <1>14 DEF Start, Change
  <2>2. Registry'
    BY <2>1 DEF Held, Registry, Alive, Free
  <2>3. /\ \A t \in Sessions : life[t] # "unborn" => life'[t] # "unborn" /\ gen'[t] = gen[t]
        /\ \A t \in Sessions : life[t] = "ended" => life'[t] = "ended"
    BY <2>1 DEF Held, Registry
  <2> QED
    BY <2>1, <2>2, <2>3, MachineStep DEF task
<1>15. ASSUME NEW s \in Sessions, End(s) PROVE Held'
  <2>1. /\ life' = [life EXCEPT ![s] = "ended"] /\ UNCHANGED <<called, gen, node>>
        /\ UNCHANGED task /\ crossed' = (crossed \/ at = "ask")
    BY <1>15 DEF End, Change
  <2>2. Registry'
    BY <2>1 DEF Held, Registry, Alive
  <2>3. /\ \A t \in Sessions : life[t] # "unborn" => life'[t] # "unborn" /\ gen'[t] = gen[t]
        /\ \A t \in Sessions : life[t] = "ended" => life'[t] = "ended"
    BY <2>1 DEF Held, Registry
  <2> QED
    BY <2>1, <2>2, <2>3, MachineStep DEF task
<1>16. ASSUME NEW s \in Sessions, NEW n \in Names, Rename(s, n) PROVE Held'
  <2>1. /\ Free(n) /\ called' = [called EXCEPT ![s] = n] /\ UNCHANGED <<life, gen, node>>
        /\ UNCHANGED task /\ crossed' = (crossed \/ at = "ask")
    BY <1>16 DEF Rename, Change
  <2>2. Registry'
    BY <2>1 DEF Held, Registry, Alive, Free
  <2> QED
    BY <2>1, <2>2, MachineStep DEF task
<1>17. CASE Restart
  <2>1. /\ life' = [s \in Sessions |-> IF life[s] = "alive" THEN "ended" ELSE life[s]]
        /\ UNCHANGED <<called, gen>> /\ node' = node + 1
        /\ UNCHANGED task /\ crossed' = (crossed \/ at = "ask")
    BY <1>17 DEF Restart, Change
  <2>2. Registry'
    BY <2>1 DEF Held, Registry, Alive
  <2>3. /\ \A t \in Sessions : life[t] # "unborn" => life'[t] # "unborn" /\ gen'[t] = gen[t]
        /\ \A t \in Sessions : life[t] = "ended" => life'[t] = "ended"
    BY <2>1 DEF Held, Registry
  <2> QED
    BY <2>1, <2>2, <2>3, MachineStep DEF task
<1>18. CASE Break
  BY <1>18, HeldStays DEF Break
<1>19. CASE Mend
  BY <1>19, HeldStays DEF Mend, task
<1>20. CASE Notice
  BY <1>20, HeldStays DEF Notice, task
<1>21. CASE UNCHANGED vars
  BY <1>21, HeldStays DEF vars, task
<1> QED
  BY <1>2, <1>3, <1>4, <1>5, <1>6, <1>7, <1>8, <1>9, <1>10, <1>11, <1>12, <1>13, <1>14,
     <1>15, <1>16, <1>17, <1>18, <1>19, <1>20, <1>21 DEF Next, Step

\* Who the phone is in is only changed by an attach, to what was listed.
LEMMA HeldMoves == Held /\ [Next]_vars => [KeepsIt]_vars
<1> SUFFICES ASSUME Held, Next PROVE KeepsIt
  OBVIOUS
<1>1. identity' = identity \/ (at = "ask" /\ identity' = chosen)
  BY DEF Next, Step, send, detach, Says, resume, Resumed, Drops, connect, MissedMachine,
     Waits, Over, list, ask, Takes, Hears, Lost, Wakes, Start, End, Rename, Restart, Change,
     Break, Mend, Notice, task
<1>2. identity # Nobody => ever
  BY DEF Held, Known
<1> QED
  BY <1>1, <1>2 DEF KeepsIt, Held, Listed

\* A client that was in a session stays in it or finds one of its name on
\* another node, and hears that it is gone only when it is, for any sessions and
\* names, whoever ends, renames and starts what while it is away, and however
\* often the node restarts.
THEOREM PhoneStaysItsOwn == Spec => StaysItsOwn
<1>1. Held => OnlyItsOwn
  BY DEF Held
<1> QED
  BY <1>1, HeldInitially, HeldPreserved, HeldMoves, PTL DEF Spec, StaysItsOwn

(***************************************************************************)
(* What is typed.                                                          *)
(***************************************************************************)
Msgs == [is : Reads, n : Nat, old : BOOLEAN]

\* In the inbox s the thing typed at i has the number next[i], up to the last,
\* and from i on there are rest[i] bytes.
Follows(s, last, next, rest) ==
    /\ next[Len(s) + 1] = last + 1 /\ rest[Len(s) + 1] = 0
    /\ \A i \in 1..Len(s) :
          /\ s[i].is = "detach" => next[i + 1] = next[i]
          /\ s[i].is # "detach" => next[i + 1] = next[i] + 1 /\ s[i].n = next[i]
          /\ rest[i] = rest[i + 1] + Bytes(s[i])

Numbers(s, last, first, bytes) ==
    \E next, rest \in [1..(Len(s) + 1) -> Nat] :
        Follows(s, last, next, rest) /\ next[1] = first /\ rest[1] = bytes

Types ==
    /\ at \in Reaching \union {"attached", "waiting", "over"}
    /\ state \in {"reaching", "attached", "waiting"} \union Ends
    /\ forced \in {"no", "failed", "detached"}
    /\ forced = "no" /\ at # "over" => (at \in Reaching) = (state = "reaching")
    /\ queued \in 0..INPUT_BYTES
    /\ said \in Seq(Msgs) /\ given \in Seq(Msgs) /\ Len(said) <= INPUT_BACKLOG
    /\ typed \in Nat
    /\ line \in {"none", "open", "stale"} /\ pool \in {"none", "open", "stale"}

\* The inbox goes on where what was given ends.
GoesOn ==
    at # "over" => \E first \in Nat :
        /\ Numbers(said, typed, first, queued)
        /\ at = "attached" /\ line = "open" /\ given # <<>> =>
              given[Len(given)].n + 1 = first

\* What an attach is given was typed since it was asked for.
Fresh ==
    /\ at \in Reaching => given = <<>>
    /\ at = "attached" => \A i \in 1..Len(said) : ~said[i].old

Kept == Types /\ GoesOn /\ Fresh /\ TypedWhereItWasSeen

LEMMA NoneIsNumbered == ASSUME NEW last \in Nat PROVE Numbers(<<>>, last, last + 1, 0)
<1> DEFINE next == [i \in 1..1 |-> last + 1]
           rest == [i \in 1..1 |-> 0]
<1>1. Len(<<>>) = 0 /\ Len(<<>>) + 1 = 1
  OBVIOUS
<1>2. /\ next \in [1..1 -> Nat] /\ rest \in [1..1 -> Nat]
      /\ next[1] = last + 1 /\ rest[1] = 0
  OBVIOUS
<1> HIDE DEF next, rest
<1>3. Follows(<<>>, last, next, rest)
  BY <1>1, <1>2 DEF Follows
<1> QED
  BY <1>1, <1>2, <1>3 DEF Numbers

LEMMA OneMoreIsNumbered ==
    ASSUME NEW s \in Seq(Msgs), NEW last \in Nat, NEW first \in Nat, NEW bytes \in Nat,
           Numbers(s, last, first, bytes), NEW m \in Msgs, NEW later \in Nat,
           m.is = "detach" => later = last,
           m.is # "detach" => later = last + 1 /\ m.n = later
    PROVE  Numbers(Append(s, m), later, first, bytes + Bytes(m))
<1>1. PICK next, rest \in [1..(Len(s) + 1) -> Nat] :
         Follows(s, last, next, rest) /\ next[1] = first /\ rest[1] = bytes
  BY DEF Numbers
<1>2. PICK L \in Nat :
         /\ L = Len(s) /\ Len(Append(s, m)) = L + 1 /\ Append(s, m)[L + 1] = m
         /\ \A i \in 1..L : Append(s, m)[i] = s[i]
  OBVIOUS
<1> DEFINE t == Append(s, m)
           b == Bytes(m)
           n1 == [i \in 1..(L + 2) |-> IF i = L + 2 THEN later + 1 ELSE next[i]]
           r1 == [i \in 1..(L + 2) |-> IF i = L + 2 THEN 0 ELSE rest[i] + b]
<1>3. b \in Nat
  BY DEF Bytes
<1>4. next \in [1..(L + 1) -> Nat] /\ rest \in [1..(L + 1) -> Nat]
      /\ next[L + 1] = last + 1 /\ rest[L + 1] = 0
      /\ Follows(s, last, next, rest)
  BY <1>1, <1>2 DEF Follows
<1> HIDE DEF b
<1>5. /\ n1 \in [1..(L + 2) -> Nat] /\ r1 \in [1..(L + 2) -> Nat]
      /\ n1[L + 2] = later + 1 /\ r1[L + 2] = 0
      /\ \A i \in 1..(L + 1) : n1[i] = next[i] /\ r1[i] = rest[i] + b
  <2>1. \A i \in 1..(L + 2) : i = L + 2 \/ i \in 1..(L + 1)
    OBVIOUS
  <2>2. \A i \in 1..(L + 1) : i # L + 2 /\ i \in 1..(L + 2)
    OBVIOUS
  <2>3. \A i \in 1..(L + 1) : next[i] \in Nat /\ rest[i] \in Nat
    BY <1>4
  <2>4. n1 \in [1..(L + 2) -> Nat]
    BY <2>1, <2>3
  <2>5. r1 \in [1..(L + 2) -> Nat]
    <3>1. \A i \in 1..(L + 1) : rest[i] + b \in Nat
      BY <1>3, <2>3
    <3> QED
      BY <2>1, <3>1
  <2>6. n1[L + 2] = later + 1 /\ r1[L + 2] = 0
    OBVIOUS
  <2> QED
    BY <2>2, <2>4, <2>5, <2>6
<1> HIDE DEF n1, r1, t
<1>t. /\ Len(t) = L + 1 /\ t[L + 1] = m
      /\ \A i \in 1..L : t[i] = s[i]
  BY <1>2 DEF t
<1>6. ASSUME NEW i \in 1..(L + 1)
      PROVE  /\ t[i].is = "detach" => n1[i + 1] = n1[i]
             /\ t[i].is # "detach" => n1[i + 1] = n1[i] + 1 /\ t[i].n = n1[i]
             /\ r1[i] = r1[i + 1] + Bytes(t[i])
  <2>1. CASE i = L + 1
    <3>1. i + 1 = L + 2 /\ t[i] = m
      BY <1>t, <2>1
    <3>2. n1[i] = last + 1 /\ r1[i] = b /\ n1[i + 1] = later + 1 /\ r1[i + 1] = 0
      BY <1>3, <1>4, <1>5, <2>1, <3>1
    <3> QED
      BY <1>3, <3>1, <3>2 DEF b
  <2>2. CASE i \in 1..L
    <3>1. i + 1 \in 1..(L + 1) /\ t[i] = s[i]
      BY <1>t, <2>2
    <3>2. /\ s[i].is = "detach" => next[i + 1] = next[i]
          /\ s[i].is # "detach" => next[i + 1] = next[i] + 1 /\ s[i].n = next[i]
          /\ rest[i] = rest[i + 1] + Bytes(s[i])
      BY <1>2, <1>4, <2>2 DEF Follows
    <3>3. rest[i] \in Nat /\ rest[i + 1] \in Nat /\ Bytes(s[i]) \in Nat
      BY <1>4, <3>1 DEF Bytes
    <3>4. /\ n1[i] = next[i] /\ n1[i + 1] = next[i + 1]
          /\ r1[i] = rest[i] + b /\ r1[i + 1] = rest[i + 1] + b
      BY <1>5, <3>1
    <3>5. r1[i] = r1[i + 1] + Bytes(s[i])
      BY <1>3, <3>2, <3>3, <3>4
    <3> QED
      BY <3>1, <3>2, <3>4, <3>5
  <2> QED
    BY <2>1, <2>2
<1>7. Follows(t, later, n1, r1)
  BY <1>t, <1>5, <1>6 DEF Follows
<1>8. n1[1] = first /\ r1[1] = bytes + b
  BY <1>1, <1>5
<1>9. n1 \in [1..(Len(t) + 1) -> Nat] /\ r1 \in [1..(Len(t) + 1) -> Nat]
  BY <1>t, <1>5
<1> QED
  BY <1>7, <1>8, <1>9 DEF Numbers, t, b

LEMMA OneLessIsNumbered ==
    ASSUME NEW s \in Seq(Msgs), s # <<>>, NEW last \in Nat, NEW first \in Nat,
           NEW bytes \in Nat, Numbers(s, last, first, bytes)
    PROVE  LET after == IF Head(s).is = "detach" THEN first ELSE first + 1
           IN /\ Head(s).is # "detach" => Head(s).n = first
              /\ bytes - Bytes(Head(s)) \in Nat
              /\ Numbers(Tail(s), last, after, bytes - Bytes(Head(s)))
<1>1. PICK next, rest \in [1..(Len(s) + 1) -> Nat] :
         Follows(s, last, next, rest) /\ next[1] = first /\ rest[1] = bytes
  BY DEF Numbers
<1> DEFINE t == Tail(s)
<1>2. PICK L \in Nat :
         /\ L + 1 = Len(s) /\ Len(t) = L /\ Head(s) = s[1]
         /\ \A i \in 1..L : t[i] = s[i + 1]
  <2>1. /\ Len(s) - 1 \in Nat /\ Len(t) = Len(s) - 1 /\ Head(s) = s[1]
        /\ \A i \in 1..(Len(s) - 1) : t[i] = s[i + 1]
    OBVIOUS
  <2> HIDE DEF t
  <2> WITNESS Len(s) - 1 \in Nat
  <2> QED
    BY <2>1
<1> DEFINE n1 == [i \in 1..(L + 1) |-> next[i + 1]]
           r1 == [i \in 1..(L + 1) |-> rest[i + 1]]
<1> HIDE DEF t
<1>3. next \in [1..(L + 2) -> Nat] /\ rest \in [1..(L + 2) -> Nat]
  <2>1. Len(s) + 1 = L + 2
    BY <1>2
  <2> QED
    BY <1>1, <2>1
<1>4. /\ next[L + 2] = last + 1 /\ rest[L + 2] = 0
      /\ \A i \in 1..(L + 1) :
            /\ s[i].is = "detach" => next[i + 1] = next[i]
            /\ s[i].is # "detach" => next[i + 1] = next[i] + 1 /\ s[i].n = next[i]
            /\ rest[i] = rest[i + 1] + Bytes(s[i])
  <2>1. Len(s) + 1 = L + 2
    BY <1>2
  <2> QED
    BY <1>1, <1>2, <2>1 DEF Follows
<1>5. /\ n1 \in [1..(L + 1) -> Nat] /\ r1 \in [1..(L + 1) -> Nat]
      /\ \A i \in 1..(L + 1) : n1[i] = next[i + 1] /\ r1[i] = rest[i + 1]
  <2>1. \A i \in 1..(L + 1) : next[i + 1] \in Nat /\ rest[i + 1] \in Nat
    BY <1>3
  <2> QED
    BY <2>1
<1> HIDE DEF n1, r1
<1>6. ASSUME NEW i \in 1..L
      PROVE  /\ t[i].is = "detach" => n1[i + 1] = n1[i]
             /\ t[i].is # "detach" => n1[i + 1] = n1[i] + 1 /\ t[i].n = n1[i]
             /\ r1[i] = r1[i + 1] + Bytes(t[i])
  <2>1. i + 1 \in 1..(L + 1) /\ i \in 1..(L + 1) /\ t[i] = s[i + 1]
    BY <1>2
  <2>2. n1[i] = next[i + 1] /\ n1[i + 1] = next[(i + 1) + 1]
        /\ r1[i] = rest[i + 1] /\ r1[i + 1] = rest[(i + 1) + 1]
    BY <1>5, <2>1
  <2> QED
    BY <1>4, <2>1, <2>2
<1>7. Follows(t, last, n1, r1)
  <2>1. n1[L + 1] = last + 1 /\ r1[L + 1] = 0
    <3>1. L + 1 \in 1..(L + 1) /\ (L + 1) + 1 = L + 2
      OBVIOUS
    <3> QED
      BY <1>4, <1>5, <3>1
  <2> QED
    BY <1>2, <1>6, <2>1 DEF Follows
<1>8. /\ s[1].is = "detach" => next[2] = first
      /\ s[1].is # "detach" => next[2] = first + 1 /\ s[1].n = first
      /\ bytes = rest[2] + Bytes(s[1]) /\ rest[2] \in Nat /\ Bytes(s[1]) \in Nat
      /\ n1[1] = next[2] /\ r1[1] = rest[2]
  <2>1. 1 \in 1..(L + 1) /\ 1 + 1 = 2 /\ 2 \in 1..(L + 2)
    OBVIOUS
  <2> QED
    BY <1>1, <1>3, <1>4, <1>5, <2>1 DEF Bytes
<1>9. bytes - Bytes(s[1]) = rest[2]
  BY <1>8
<1>10. Numbers(t, last, next[2], rest[2])
  <2>1. n1 \in [1..(Len(t) + 1) -> Nat] /\ r1 \in [1..(Len(t) + 1) -> Nat]
    BY <1>2, <1>5
  <2> QED
    BY <1>7, <1>8, <2>1 DEF Numbers
<1> QED
  BY <1>2, <1>8, <1>9, <1>10 DEF t

LEMMA OlderIsNumbered ==
    ASSUME NEW s \in Seq(Msgs), NEW last \in Nat, NEW first \in Nat, NEW bytes \in Nat,
           Numbers(s, last, first, bytes), NEW t \in Seq(Msgs), Len(t) = Len(s),
           \A i \in 1..Len(s) : t[i].is = s[i].is /\ t[i].n = s[i].n
    PROVE  Numbers(t, last, first, bytes)
<1>1. \A i \in 1..Len(s) : Bytes(t[i]) = Bytes(s[i])
  BY DEF Bytes
<1>2. PICK next, rest \in [1..(Len(s) + 1) -> Nat] :
         Follows(s, last, next, rest) /\ next[1] = first /\ rest[1] = bytes
  BY DEF Numbers
<1>3. Follows(t, last, next, rest)
  BY <1>1, <1>2 DEF Follows
<1> QED
  BY <1>2, <1>3 DEF Numbers

LEMMA KeptInitially == Init => Kept
<1> SUFFICES ASSUME Init PROVE Kept
  OBVIOUS
<1>1. said = <<>> /\ given = <<>> /\ queued = 0 /\ typed = 0 /\ at = "connect"
  BY DEF Init
<1>2. Len(<<>>) = 0 /\ <<>> \in Seq(Msgs)
  OBVIOUS
<1>3. Types
  BY <1>1, <1>2, PhoneAssumption DEF Init, Types, Reaching
<1>4. GoesOn
  <2>1. Numbers(<<>>, 0, 0 + 1, 0)
    BY NoneIsNumbered
  <2> QED
    BY <1>1, <2>1 DEF GoesOn
<1>5. Fresh /\ TypedWhereItWasSeen
  BY <1>1, <1>2 DEF Fresh, TypedWhereItWasSeen
<1> QED
  BY <1>3, <1>4, <1>5 DEF Kept

\* Nothing that was said is touched; the attach is the one it was, or is none,
\* or was given nothing yet.
LEMMA KeptStays ==
    ASSUME Kept, UNCHANGED <<said, queued, typed, given>>,
           at = "over" => at' = "over",
           at' \in Reaching => at \in Reaching,
           at' = "attached" => \/ at = "attached" /\ (line' = "open" => line = "open")
                               \/ given = <<>> /\ \A i \in 1..Len(said) : ~said[i].old
    PROVE  GoesOn' /\ Fresh' /\ TypedWhereItWasSeen'
<1>1. GoesOn'
  <2> SUFFICES ASSUME at' # "over"
               PROVE  \E first \in Nat :
                         /\ Numbers(said, typed, first, queued)
                         /\ at' = "attached" /\ line' = "open" /\ given # <<>> =>
                               given[Len(given)].n + 1 = first
    BY DEF GoesOn, Numbers
  <2>1. PICK first \in Nat :
           /\ Numbers(said, typed, first, queued)
           /\ at = "attached" /\ line = "open" /\ given # <<>> =>
                 given[Len(given)].n + 1 = first
    BY DEF Kept, GoesOn
  <2> QED
    BY <2>1
<1>2. Fresh'
  BY DEF Kept, Fresh
<1>3. TypedWhereItWasSeen'
  BY DEF Kept, TypedWhereItWasSeen
<1> QED
  BY <1>1, <1>2, <1>3

LEMMA KeptOver ==
    ASSUME Kept, at' = "over", given' = given
    PROVE  GoesOn' /\ Fresh' /\ TypedWhereItWasSeen'
BY DEF Kept, GoesOn, Fresh, TypedWhereItWasSeen, Reaching

\* Something joins the inbox.
LEMMA KeptJoined ==
    ASSUME Kept, NEW m \in Msgs, ~m.old, at # "over",
           said' = Append(said, m), queued' = queued + Bytes(m),
           UNCHANGED <<at, line, given>>, typed' \in Nat,
           m.is = "detach" => typed' = typed,
           m.is # "detach" => typed' = typed + 1 /\ m.n = typed'
    PROVE  GoesOn' /\ Fresh' /\ TypedWhereItWasSeen'
<1>1. said \in Seq(Msgs) /\ typed \in Nat /\ queued \in Nat
  BY PhoneAssumption DEF Kept, Types
<1>2. GoesOn'
  <2>1. PICK first \in Nat :
           /\ Numbers(said, typed, first, queued)
           /\ at = "attached" /\ line = "open" /\ given # <<>> =>
                 given[Len(given)].n + 1 = first
    BY DEF Kept, GoesOn
  <2>2. Numbers(said', typed', first, queued')
    BY <1>1, <2>1, OneMoreIsNumbered
  <2> QED
    BY <2>1, <2>2 DEF GoesOn
<1>3. \A i \in 1..Len(said') : said'[i] = m \/ (i \in 1..Len(said) /\ said'[i] = said[i])
  BY <1>1
<1>4. Fresh' /\ TypedWhereItWasSeen'
  BY <1>3 DEF Kept, Fresh, TypedWhereItWasSeen
<1> QED
  BY <1>2, <1>4

\* The head of the inbox is taken outside an attach, and dropped.
LEMMA KeptDropped ==
    ASSUME Kept, recv, at # "over"
    PROVE  /\ said' \in Seq(Msgs) /\ Len(said') <= INPUT_BACKLOG
           /\ queued' \in 0..INPUT_BYTES /\ Head(said) \in Msgs
           /\ \A i \in 1..Len(said') : said'[i] = said[i + 1] /\ i + 1 \in 1..Len(said)
           /\ 1 \in 1..Len(said) /\ Head(said) = said[1]
           /\ \E first, after \in Nat :
                 /\ Numbers(said', typed, after, queued')
                 /\ after = IF Head(said).is = "detach" THEN first ELSE first + 1
                 /\ Head(said).is # "detach" => Head(said).n = first
                 /\ at = "attached" /\ line = "open" /\ given # <<>> =>
                       given[Len(given)].n + 1 = first
<1>1. /\ said \in Seq(Msgs) /\ typed \in Nat /\ queued \in 0..INPUT_BYTES
      /\ INPUT_BYTES \in Nat /\ INPUT_BACKLOG \in Nat /\ Len(said) <= INPUT_BACKLOG
      /\ said # <<>> /\ said' = Tail(said) /\ queued' = queued - Bytes(Head(said))
  BY PhoneAssumption DEF Kept, Types, recv
<1>2. /\ said' \in Seq(Msgs) /\ Len(said') <= INPUT_BACKLOG /\ Head(said) \in Msgs
      /\ \A i \in 1..Len(said') : said'[i] = said[i + 1] /\ i + 1 \in 1..Len(said)
      /\ 1 \in 1..Len(said) /\ Head(said) = said[1]
  BY <1>1
<1>3. PICK first \in Nat :
         /\ Numbers(said, typed, first, queued)
         /\ at = "attached" /\ line = "open" /\ given # <<>> =>
               given[Len(given)].n + 1 = first
  BY DEF Kept, GoesOn
<1>4. PICK after \in Nat : after = IF Head(said).is = "detach" THEN first ELSE first + 1
  OBVIOUS
<1>5. /\ Head(said).is # "detach" => Head(said).n = first
      /\ queued' \in Nat /\ Numbers(said', typed, after, queued')
  BY <1>1, <1>3, <1>4, OneLessIsNumbered
<1>6. queued' \in 0..INPUT_BYTES
  BY <1>1, <1>2, <1>5 DEF Bytes
<1> QED
  BY <1>2, <1>3, <1>4, <1>5, <1>6

\* The next attempt begins: what was said before it is of another screen.
LEMMA KeptTriesAgain ==
    ASSUME Kept, TryAgain, UNCHANGED <<queued, typed>>, at # "over"
    PROVE  GoesOn' /\ Fresh' /\ TypedWhereItWasSeen'
           /\ said' \in Seq(Msgs) /\ Len(said') <= INPUT_BACKLOG
<1>1. said \in Seq(Msgs) /\ typed \in Nat /\ queued \in Nat /\ Len(said) <= INPUT_BACKLOG
  BY PhoneAssumption DEF Kept, Types
<1>2. said' = [i \in 1..Len(said) |-> [said[i] EXCEPT !.old = TRUE]]
  BY <1>1 DEF TryAgain
<1>3. ASSUME NEW i \in 1..Len(said)
      PROVE  [said[i] EXCEPT !.old = TRUE] \in Msgs
  <2>1. said[i] \in Msgs
    BY <1>1
  <2> QED
    BY <2>1 DEF Msgs
<1>4. /\ said' \in Seq(Msgs) /\ Len(said') = Len(said)
      /\ \A i \in 1..Len(said) : said'[i].is = said[i].is /\ said'[i].n = said[i].n
  <2>1. said' \in [1..Len(said) -> Msgs] /\ Len(said) \in Nat
    BY <1>1, <1>2, <1>3
  <2>2. said' \in Seq(Msgs) /\ Len(said') = Len(said)
    BY <2>1
  <2>3. \A i \in 1..Len(said) : said[i] \in Msgs
    BY <1>1
  <2> QED
    BY <1>2, <2>2, <2>3 DEF Msgs
<1>5. at' = "connect" /\ given' = <<>>
  BY DEF TryAgain
<1>6. GoesOn'
  <2>1. PICK first \in Nat : Numbers(said, typed, first, queued)
    BY DEF Kept, GoesOn
  <2>2. Numbers(said', typed, first, queued)
    BY <1>1, <1>4, <2>1, OlderIsNumbered
  <2> QED
    BY <1>5, <2>2 DEF GoesOn
<1>7. Fresh' /\ TypedWhereItWasSeen'
  BY <1>5 DEF Fresh, TypedWhereItWasSeen
<1> QED
  BY <1>1, <1>4, <1>6, <1>7

\* The run is over, or waits.
LEMMA KeptMissed ==
    ASSUME Kept, at # "over", UNCHANGED typed, forced' = forced,
           Waits \/ \E last \in Ends : Over(last), pool' \in {"none", "open", "stale"}
    PROVE  Kept'
<1>1. CASE Waits
  <2>1. UNCHANGED <<said, queued, typed, given>> /\ at' = "waiting" /\ line' = "none"
        /\ state' = "waiting"
    BY <1>1 DEF Waits, inbox
  <2>2. GoesOn' /\ Fresh' /\ TypedWhereItWasSeen'
    BY <2>1, KeptStays DEF Reaching
  <2>3. Types'
    BY <2>1 DEF Kept, Types, Reaching
  <2> QED
    BY <2>2, <2>3 DEF Kept
<1>2. ASSUME NEW last \in Ends, Over(last) PROVE Kept'
  <2>1. /\ at' = "over" /\ state' = last /\ line' = "none" /\ said' = <<>>
        /\ UNCHANGED <<queued, given>>
    BY <1>2 DEF Over
  <2>2. GoesOn' /\ Fresh' /\ TypedWhereItWasSeen'
    BY <2>1, KeptOver
  <2>3. said' \in Seq(Msgs) /\ Len(said') <= INPUT_BACKLOG
    BY <2>1, PhoneAssumption
  <2>4. Types'
    BY <2>1, <2>3 DEF Kept, Types
  <2> QED
    BY <2>2, <2>4 DEF Kept
<1> QED
  BY <1>1, <1>2

LEMMA KeptPreserved == Kept /\ [Next]_vars => Kept'
<1> SUFFICES ASSUME Kept, [Next]_vars PROVE Kept'
  OBVIOUS
<1>t. /\ said \in Seq(Msgs) /\ given \in Seq(Msgs) /\ typed \in Nat /\ Types
      /\ queued \in 0..INPUT_BYTES /\ INPUT_BYTES \in Nat /\ INPUT_BACKLOG \in Nat
  BY PhoneAssumption DEF Kept, Types
<1>s. ASSUME UNCHANGED <<at, state, said, queued, typed, given, forced>>,
             line' \in {"none", "open", "stale"}, line' = "open" => line = "open",
             pool' \in {"none", "open", "stale"}
      PROVE  Kept'
  <2>1. GoesOn' /\ Fresh' /\ TypedWhereItWasSeen'
    BY <1>s, KeptStays
  <2>2. Types'
    BY <1>s DEF Kept, Types
  <2> QED
    BY <2>1, <2>2 DEF Kept
<1>1. ASSUME NEW m \in Msgs, Says(m), ~m.old, typed' \in Nat,
             m.is = "detach" => typed' = typed,
             m.is # "detach" => typed' = typed + 1 /\ m.n = typed'
      PROVE  Kept'
  <2>1. /\ at # "over" /\ forced = "no" /\ UNCHANGED <<state, line, given, pool>>
        /\ enqueue(m)
    BY <1>1 DEF Says
  <2>2. CASE Overflowed \/ (forced' = "detached" /\ at' = "over" /\ said' = <<>> /\ UNCHANGED queued)
    <3>1. GoesOn' /\ Fresh' /\ TypedWhereItWasSeen'
      BY <2>1, <2>2, KeptOver DEF Overflowed
    <3>0. said' = <<>>
      BY <2>2 DEF Overflowed
    <3>2. said' \in Seq(Msgs) /\ Len(said') <= INPUT_BACKLOG
      BY <1>t, <3>0
    <3>3. Types'
      BY <1>1, <2>1, <2>2, <3>2 DEF Kept, Types, Overflowed
    <3> QED
      BY <3>1, <3>3 DEF Kept
  <2>3. CASE /\ queued + Bytes(m) <= INPUT_BYTES /\ Len(said) < INPUT_BACKLOG
             /\ said' = Append(said, m) /\ queued' = queued + Bytes(m)
             /\ UNCHANGED <<forced, at>>
    <3>1. GoesOn' /\ Fresh' /\ TypedWhereItWasSeen'
      BY <1>1, <2>1, <2>3, KeptJoined
    <3>2. said' \in Seq(Msgs) /\ Len(said') <= INPUT_BACKLOG
      BY <1>t, <2>3
    <3>3. queued' \in 0..INPUT_BYTES
      BY <1>t, <2>3 DEF Bytes
    <3>4. Types'
      BY <1>1, <2>1, <2>3, <3>2, <3>3 DEF Kept, Types
    <3> QED
      BY <3>1, <3>4 DEF Kept
  <2>4. queued + Bytes(m) <= INPUT_BYTES <=> ~(queued + Bytes(m) > INPUT_BYTES)
    BY <1>t DEF Bytes
  <2> QED
    BY <2>1, <2>2, <2>3, <2>4 DEF enqueue
<1>2. ASSUME NEW kind \in {"input", "look"}, send(kind) PROVE Kept'
  <2> DEFINE m == [is |-> kind, n |-> typed + 1, old |-> FALSE]
  <2>1. Says(m) /\ typed' = typed + 1
    BY <1>2 DEF send
  <2>2. m \in Msgs /\ ~m.old /\ m.is # "detach" /\ m.n = typed + 1
    BY <1>t DEF Msgs, Reads
  <2> HIDE DEF m
  <2> QED
    BY <1>1, <1>t, <2>1, <2>2
<1>3. CASE detach
  <2> DEFINE m == [is |-> "detach", n |-> 0, old |-> FALSE]
  <2>1. Says(m) /\ typed' = typed
    BY <1>3 DEF detach
  <2>2. m \in Msgs /\ ~m.old /\ m.is = "detach"
    BY DEF Msgs, Reads
  <2> HIDE DEF m
  <2> QED
    BY <1>1, <1>t, <2>1, <2>2
<1>4. CASE resume
  BY <1>4, <1>s, <1>t DEF resume, task, inbox, Types
<1>a. ASSUME TryAgain, at # "over", UNCHANGED <<queued, typed, forced>>,
             pool' \in {"none", "open", "stale"}
      PROVE  Kept'
  <2>1. GoesOn' /\ Fresh' /\ TypedWhereItWasSeen'
        /\ said' \in Seq(Msgs) /\ Len(said') <= INPUT_BACKLOG
    BY <1>a, KeptTriesAgain
  <2>2. at' = "connect" /\ state' = "reaching" /\ line' = "none" /\ given' = <<>>
    BY <1>a DEF TryAgain
  <2>3. given' \in Seq(Msgs)
    BY <2>2
  <2>4. Types'
    BY <1>a, <2>1, <2>2, <2>3 DEF Kept, Types, Reaching
  <2> QED
    BY <2>1, <2>4 DEF Kept
<1>5. CASE Resumed
  BY <1>5, <1>a DEF Resumed, Forgets, Quiet, app
<1>13. CASE Wakes
  BY <1>13, <1>a, <1>t DEF Wakes, Quiet, app, Types
<1>6. CASE Drops
  <2>1. /\ at \in Reaching \union {"waiting"} /\ at # "over" /\ at # "attached" /\ recv
        /\ UNCHANGED <<typed, forced, pool, given>>
    BY <1>6 DEF Drops, Quiet, app, Reaching, task
  <2>2. /\ said' \in Seq(Msgs) /\ Len(said') <= INPUT_BACKLOG
        /\ queued' \in 0..INPUT_BYTES
        /\ \E after \in Nat : Numbers(said', typed, after, queued')
    BY <2>1, KeptDropped
  <2>3. CASE Head(said).is = "detach"
    <3>1. at' = "over" /\ state' = "detached" /\ line' = "none"
      BY <1>6, <2>3 DEF Drops
    <3>2. GoesOn' /\ Fresh' /\ TypedWhereItWasSeen'
      BY <2>1, <3>1, KeptOver
    <3>3. Types'
      BY <2>1, <2>2, <3>1 DEF Kept, Types, Ends
    <3> QED
      BY <3>2, <3>3 DEF Kept
  <2>4. CASE Head(said).is # "detach"
    <3>1. UNCHANGED <<at, state, line>>
      BY <1>6, <2>4 DEF Drops, task
    <3>2. GoesOn'
      BY <2>1, <2>2, <3>1 DEF GoesOn
    <3>3. Fresh' /\ TypedWhereItWasSeen'
      BY <2>1, <3>1 DEF Kept, Fresh, TypedWhereItWasSeen
    <3>4. Types'
      BY <2>1, <2>2, <3>1 DEF Kept, Types
    <3> QED
      BY <3>2, <3>3, <3>4 DEF Kept
  <2> QED
    BY <2>3, <2>4
<1>m. ASSUME MissedMachine, at # "over", UNCHANGED <<typed, forced>> PROVE Kept'
  BY <1>m, KeptMissed DEF MissedMachine, Ends
<1>7. CASE connect
  <2>0. at = "connect" /\ UNCHANGED <<typed, forced>>
    BY <1>7 DEF connect, Quiet, app
  <2>1. CASE pool # "none" \/ up
    <3>1. /\ at' = "list" /\ UNCHANGED <<state, given, said, queued>>
          /\ pool' = IF pool = "none" THEN "open" ELSE pool
          /\ line' = pool'
      BY <1>7, <2>1 DEF connect, inbox
    <3>2. GoesOn' /\ Fresh' /\ TypedWhereItWasSeen'
      BY <2>0, <3>1, KeptStays DEF Reaching
    <3>3. Types'
      BY <2>0, <3>1 DEF Kept, Types, Reaching
    <3> QED
      BY <3>2, <3>3 DEF Kept
  <2>2. CASE ~(pool # "none" \/ up)
    BY <1>7, <1>m, <2>0, <2>2 DEF connect
  <2> QED
    BY <2>1, <2>2
<1>8. CASE list
  <2> DEFINE found == IF Matching # {} THEN Matching ELSE ByName
  <2>0. at = "list" /\ UNCHANGED <<typed, forced>>
    BY <1>8 DEF list, Quiet, app
  <2>1. CASE line = "stale"
    BY <1>8, <1>m, <2>0, <2>1 DEF list
  <2>2. CASE line = "open" /\ found = {}
    <3>1. Over("failed") /\ UNCHANGED pool
      BY <1>8, <2>2 DEF list
    <3> QED
      BY <1>t, <2>0, <3>1, KeptMissed DEF Ends, Types
  <2>3. CASE line # "stale" /\ ~(line = "open" /\ found = {})
    <3>1. at' = "ask" /\ UNCHANGED <<state, line, given, said, queued, pool>>
      BY <1>8, <2>3 DEF list, inbox
    <3>2. GoesOn' /\ Fresh' /\ TypedWhereItWasSeen'
      BY <2>0, <3>1, KeptStays DEF Reaching
    <3>3. Types'
      BY <2>0, <3>1 DEF Kept, Types, Reaching
    <3> QED
      BY <3>2, <3>3 DEF Kept
  <2> QED
    BY <2>1, <2>2, <2>3
<1>9. CASE ask
  <2>0. at = "ask" /\ UNCHANGED <<typed, forced>>
    BY <1>9 DEF ask, Quiet, app
  <2>1. CASE line = "stale" \/ \A s \in Alive : called[s] # asked
    BY <1>9, <1>m, <2>0, <2>1 DEF ask
  <2>2. CASE ~(line = "stale" \/ \A s \in Alive : called[s] # asked)
    <3>1. /\ at' = "attached" /\ state' = "attached"
          /\ UNCHANGED <<line, given, said, queued, pool>>
      BY <1>9, <2>2 DEF ask, inbox
    <3>2. \A i \in 1..Len(said) : ~said[i].old
      <4>1. \A i \in 1..Len(said) : said[i] \in Msgs
        BY <1>t
      <4> QED
        BY <1>9, <1>t, <4>1 DEF ask, Msgs
    <3>3. GoesOn' /\ Fresh' /\ TypedWhereItWasSeen'
      BY <2>0, <3>1, <3>2, KeptStays DEF Reaching, Kept, Fresh
    <3>4. Types'
      BY <2>0, <3>1 DEF Kept, Types, Reaching
    <3> QED
      BY <3>3, <3>4 DEF Kept
  <2> QED
    BY <2>1, <2>2
<1>10. CASE Takes
  <2> DEFINE m == Head(said)
  <2>0. /\ at = "attached" /\ recv /\ UNCHANGED <<typed, forced, pool>>
        /\ given' = IF m.is # "detach" /\ line = "open" THEN Append(given, m) ELSE given
    BY <1>10 DEF Takes, Quiet, app
  <2>1. PICK first, after \in Nat :
           /\ Numbers(said', typed, after, queued')
           /\ after = IF m.is = "detach" THEN first ELSE first + 1
           /\ m.is # "detach" => m.n = first
           /\ line = "open" /\ given # <<>> => given[Len(given)].n + 1 = first
    BY <2>0, KeptDropped
  <2>2. /\ said' \in Seq(Msgs) /\ Len(said') <= INPUT_BACKLOG
        /\ queued' \in 0..INPUT_BYTES /\ m \in Msgs
        /\ \A i \in 1..Len(said') : said'[i] = said[i + 1] /\ i + 1 \in 1..Len(said)
        /\ 1 \in 1..Len(said) /\ m = said[1]
    BY <2>0, KeptDropped
  <2> HIDE DEF m
  <2>3. CASE m.is = "detach"
    <3>1. at' = "over" /\ state' = "detached" /\ line' = "none" /\ given' = given
      BY <1>10, <2>0, <2>3 DEF Takes, m
    <3>2. GoesOn' /\ Fresh' /\ TypedWhereItWasSeen'
      BY <3>1, KeptOver
    <3>3. Types'
      BY <2>0, <2>2, <3>1 DEF Kept, Types, Ends
    <3> QED
      BY <3>2, <3>3 DEF Kept
  <2>4. CASE m.is # "detach"
    <3>1. UNCHANGED <<at, state, line>>
      BY <1>10, <2>4 DEF Takes, m
    <3>f. \A i \in 1..Len(said) : ~said[i].old
      BY <2>0 DEF Kept, Fresh
    <3>2. Fresh'
      BY <2>0, <2>2, <3>1, <3>f DEF Fresh, Reaching
    <3>3. CASE line = "open"
      <4>1. given' = Append(given, m) /\ m.n = first /\ after = first + 1 /\ ~m.old
        BY <2>0, <2>1, <2>2, <2>4, <3>3, <3>f
      <4>2. /\ given' \in Seq(Msgs) /\ Len(given') = Len(given) + 1 /\ Len(given) \in Nat
            /\ given' # <<>> /\ given'[Len(given')] = m
            /\ \A i \in 1..Len(given) : given'[i] = given[i]
            /\ DOMAIN given = 1..Len(given) /\ DOMAIN given' = 1..Len(given')
        BY <1>t, <2>2, <4>1
      <4>3. GoesOn'
        BY <2>0, <2>1, <4>1, <4>2 DEF GoesOn
      <4>4. TypedWhereItWasSeen'
        <5>1. ASSUME NEW i \in DOMAIN given' PROVE ~given'[i].old
          BY <4>1, <4>2 DEF Kept, TypedWhereItWasSeen
        <5>2. ASSUME NEW i \in 2..Len(given') PROVE given'[i].n = given'[i - 1].n + 1
          <6>1. CASE i \in 2..Len(given)
            <7>1. i \in 1..Len(given) /\ i - 1 \in 1..Len(given)
              BY <6>1
            <7> QED
              BY <4>2, <6>1, <7>1 DEF Kept, TypedWhereItWasSeen
          <6>2. CASE i = Len(given) + 1
            <7>1. Len(given) \in 1..Len(given) /\ i - 1 = Len(given) /\ given # <<>>
              BY <4>2, <6>2
            <7> QED
              BY <2>1, <3>3, <4>1, <4>2, <6>2, <7>1
          <6> QED
            BY <4>2, <6>1, <6>2
        <5> QED
          BY <5>1, <5>2 DEF TypedWhereItWasSeen
      <4>5. Types'
        BY <2>0, <2>2, <3>1, <4>2 DEF Kept, Types
      <4> QED
        BY <3>2, <4>3, <4>4, <4>5 DEF Kept
    <3>4. CASE line # "open"
      <4>1. given' = given
        BY <2>0, <3>4
      <4>2. GoesOn'
        BY <2>0, <2>1, <3>1, <3>4 DEF GoesOn
      <4>3. TypedWhereItWasSeen'
        BY <4>1 DEF Kept, TypedWhereItWasSeen
      <4>4. Types'
        BY <2>0, <2>2, <3>1, <4>1 DEF Kept, Types
      <4> QED
        BY <3>2, <4>2, <4>3, <4>4 DEF Kept
    <3> QED
      BY <3>3, <3>4
  <2> QED
    BY <2>3, <2>4
<1>11. CASE Hears
  <2>0. at = "attached" /\ UNCHANGED <<typed, forced, pool>>
    BY <1>11 DEF Hears, Quiet, app
  <2>1. CASE life[on] = "alive" /\ name # called[on]
    <3>1. UNCHANGED <<at, state, line, given, said, queued>>
      BY <1>11, <2>1 DEF Hears, inbox
    <3> QED
      BY <1>s, <1>t, <2>0, <3>1 DEF Types
  <2>2. CASE ~(life[on] = "alive" /\ name # called[on])
    <3>1. Over("ended") \/ Waits
      BY <1>11, <2>2 DEF Hears
    <3> QED
      BY <1>t, <2>0, <3>1, KeptMissed DEF Ends, Types
  <2> QED
    BY <2>1, <2>2
<1>12. CASE Lost
  <2>1. at = "attached" /\ UNCHANGED <<typed, forced, pool>> /\ Waits
    BY <1>12 DEF Lost, Quiet, app
  <2> QED
    BY <1>t, <2>1, KeptMissed DEF Types
<1>14. CASE \E s \in Sessions : End(s) \/ \E n \in Names : Start(s, n) \/ Rename(s, n)
  <2>1. UNCHANGED <<task, app, inbox, pool>>
    BY <1>14 DEF End, Start, Rename, Change
  <2> QED
    BY <1>s, <1>t, <2>1 DEF task, app, inbox, Types
<1>15. CASE Restart \/ Mend
  <2>1. UNCHANGED <<task, app, inbox, pool>>
    BY <1>15 DEF Restart, Mend, Change
  <2> QED
    BY <1>s, <1>t, <2>1 DEF task, app, inbox, Types
<1>16. CASE Break
  <2>1. /\ UNCHANGED <<at, state, given, app, inbox>>
        /\ line' = IF line = "open" THEN "stale" ELSE line
        /\ pool' = IF pool = "open" THEN "stale" ELSE pool
    BY <1>16 DEF Break
  <2> QED
    BY <1>s, <1>t, <2>1 DEF app, inbox, Types
<1>17. CASE Notice
  <2>1. UNCHANGED <<task, app, inbox>> /\ pool' = "none"
    BY <1>17 DEF Notice
  <2> QED
    BY <1>s, <1>t, <2>1 DEF task, app, inbox, Types
<1>18. CASE UNCHANGED vars
  <2>1. UNCHANGED <<task, app, inbox, pool>>
    BY <1>18 DEF vars
  <2> QED
    BY <1>s, <1>t, <2>1 DEF task, app, inbox, Types
<1> QED
  BY <1>2, <1>3, <1>4, <1>5, <1>6, <1>7, <1>8, <1>9, <1>10, <1>11, <1>12, <1>13, <1>14,
     <1>15, <1>16, <1>17, <1>18 DEF Next, Step

\* The phone's types hold, and what is typed is given once, in order and without
\* a hole, never to an attach that was asked for after it was typed: for any
\* limits of the inbox, however often the network goes and the app comes back.
THEOREM PhoneHoldsTogether == Spec => []HoldsTogether
<1>1. Held /\ Kept => HoldsTogether
  <2> SUFFICES ASSUME Held, Kept PROVE TypeOK
    BY DEF HoldsTogether, Kept
  <2>1. identity \in IF ever THEN Sessions ELSE {Nobody}
    BY DEF Held, Known
  <2>2. (at = "attached" => on \in Sessions) /\ (at \notin {"attached", "over"} => on = Nobody)
    BY DEF Held, Attached
  <2> QED
    BY <2>1, <2>2 DEF TypeOK, Kept, Types
<1> QED
  BY <1>1, HeldInitially, HeldPreserved, KeptInitially, KeptPreserved, PTL DEF Spec
=============================================================================
