------------------------------ MODULE PeersProofs ------------------------------
(***************************************************************************)
(* What holds of Peers for any machines, requests, tasks and retries.      *)
(*                                                                         *)
(* KeptIsLeftAlone is about steps: only a sync aborts a task, and the task *)
(* a sync aborts is one the map has for a machine that is not wanted.  So  *)
(* it needs that the map's task watches the machine it is filed under      *)
(* (FiledByMachine), and that a machine on the list throughout is among    *)
(* the wanted ones from the first load on (KeptIsWanted).                  *)
(***************************************************************************)
EXTENDS Peers, TLAPS

\* The map has a machine's task under that machine: a task is not given
\* another machine while anything refers to it.
FiledByMachine == \A h \in Host : watchers[h] # None => host[watchers[h]] = h

\* What nobody takes off the list is wanted once the list was loaded.
KeptIsWanted == pc # "loading" => Kept \subseteq wanted

\* Machines are left to be watched only while the poller is watching them.
TodoWhileWatching == pc \notin {"watching first", "watching"} => todo = {}

PInv == TypeOK /\ FiledByMachine /\ KeptIsWanted /\ TodoWhileWatching

(***************************************************************************)
(* Lemmas about the helpers.                                               *)
(***************************************************************************)

\* Spawning takes a task nothing refers to, and touches no other.
LEMMA SpawnTakesAFreeTask ==
    ASSUME PInv, NEW a \in Actor, NEW h \in Host, Spawn(a, h)
    PROVE  \E t \in Task :
              /\ Free(t)
              /\ hand' = [hand EXCEPT ![a] = t]
              /\ host' = [host EXCEPT ![t] = h]
              /\ at' = [at EXCEPT ![t] = "probing"]
              /\ failed' = [failed EXCEPT ![t] = 0]
BY DEF Spawn

\* So a spawn keeps what is said of tasks, of the map and of hands.
LEMMA SpawnStep ==
    ASSUME PInv, NEW a \in Actor, NEW h \in Host, Spawn(a, h), UNCHANGED watchers
    PROVE  /\ hand' \in [Actor -> Task \cup {None}] /\ host' \in [Task -> Host]
           /\ at' \in [Task -> {"none", "probing", "subscribed", "waiting", "over"}]
           /\ failed' \in [Task -> 0 .. Retries]
           /\ FiledByMachine'
           /\ \A t \in Task : Live(t) => at'[t] = at[t]
<1> USE PeersAssumption
<1>1. PICK t \in Task : /\ Free(t)
                        /\ hand' = [hand EXCEPT ![a] = t]
                        /\ host' = [host EXCEPT ![t] = h]
                        /\ at' = [at EXCEPT ![t] = "probing"]
                        /\ failed' = [failed EXCEPT ![t] = 0]
  BY SpawnTakesAFreeTask
<1>2. FiledByMachine'
  BY <1>1 DEF PInv, TypeOK, FiledByMachine, Free
<1>3. \A s \in Task : Live(s) => at'[s] = at[s]
  BY <1>1 DEF PInv, TypeOK, Free, Live
<1>4. 0 \in 0 .. Retries
  OBVIOUS
<1> QED
  BY <1>1, <1>2, <1>3, <1>4 DEF PInv, TypeOK

\* An attempt that is over leaves its count among the tries there are.
LEMMA OverStep ==
    ASSUME PInv, NEW t \in Task, Over(t)
    PROVE  /\ failed' \in [Task -> 0 .. Retries]
           /\ at' \in [Task -> {"none", "probing", "subscribed", "waiting", "over"}]
           /\ \A s \in Task : Live(s) => at'[s] # "none"
           /\ UNCHANGED <<fileVars, net, pollVars, connVars, hand, watchers, host>>
<1>1. PICK n \in Nat :
          /\ failed' = [failed EXCEPT ![t] = IF n > Retries THEN 0 ELSE n]
          /\ at' = [at EXCEPT ![t] = IF n > Retries THEN "over" ELSE "waiting"]
          /\ UNCHANGED <<fileVars, net, pollVars, connVars, hand, watchers, host>>
  <2>1. PICK steady \in BOOLEAN :
            LET m == (IF steady THEN 0 ELSE failed[t]) + 1 IN
            /\ failed' = [failed EXCEPT ![t] = IF m > Retries THEN 0 ELSE m]
            /\ at' = [at EXCEPT ![t] = IF m > Retries THEN "over" ELSE "waiting"]
            /\ UNCHANGED <<fileVars, net, pollVars, connVars, hand, watchers, host>>
    BY DEF Over
  <2>2. failed[t] \in Nat
    <3>1. failed \in [Task -> 0 .. Retries]
      BY DEF PInv, TypeOK
    <3> QED
      BY <3>1, PeersAssumption
  <2>3. (IF steady THEN 0 ELSE failed[t]) + 1 \in Nat
    BY <2>2
  <2> WITNESS (IF steady THEN 0 ELSE failed[t]) + 1 \in Nat
  <2> QED
    BY <2>1
<1>2. (IF n > Retries THEN 0 ELSE n) \in 0 .. Retries
  BY PeersAssumption
<1>3. failed' \in [Task -> 0 .. Retries]
  BY <1>1, <1>2 DEF PInv, TypeOK
<1> QED
  BY <1>1, <1>3 DEF PInv, TypeOK, Live

(***************************************************************************)
(* The three facts of the inductive invariant.                             *)
(***************************************************************************)

LEMMA InitPInv == Init => PInv
BY PeersAssumption DEF Init, PInv, TypeOK, FiledByMachine, KeptIsWanted, TodoWhileWatching

LEMMA PInvStep == PInv /\ [Next]_vars => PInv'
<1> SUFFICES ASSUME PInv, [Next]_vars PROVE PInv'
  OBVIOUS
<1> USE PeersAssumption
<1>1. CASE Edit
  <2>1. PICK f \in SUBSET Host : Kept \subseteq f /\ file' = f
    BY <1>1 DEF Edit
  <2>2. version' \in 0 .. MaxEdits
    <3>1. version \in 0 .. MaxEdits
      BY DEF PInv, TypeOK
    <3>2. version < MaxEdits /\ version' = version + 1
      BY <1>1 DEF Edit
    <3> QED
      BY <3>1, <3>2
  <2> QED
    BY <1>1, <2>1, <2>2 DEF Edit, PInv, TypeOK, FiledByMachine, KeptIsWanted,
                            TodoWhileWatching, pollVars, connVars, taskVars
<1>2. ASSUME NEW h \in Host, Change(h) PROVE PInv'
  <2>1. net' \in [Host -> Nets]
    BY <1>2 DEF Change, PInv, TypeOK
  <2> QED
    BY <1>2, <2>1 DEF Change, PInv, TypeOK, FiledByMachine, KeptIsWanted, TodoWhileWatching,
                      fileVars, pollVars, connVars, taskVars
<1>3. CASE LoadFirst
  BY <1>3 DEF LoadFirst, PInv, TypeOK, FiledByMachine, KeptIsWanted, TodoWhileWatching,
              fileVars, connVars, taskVars
<1>4. CASE Sync
  <2>1. watchers' \in [Host -> Task \cup {None}] /\ FiledByMachine'
    BY <1>4 DEF Sync, PInv, TypeOK, FiledByMachine
  <2>2. at' \in [Task -> {"none", "probing", "subscribed", "waiting", "over"}]
    BY <1>4 DEF Sync, PInv, TypeOK
  <2>3. failed' \in [Task -> 0 .. Retries]
    <3>1. failed' = [t \in Task |-> IF at'[t] = "none" THEN 0 ELSE failed[t]]
      BY <1>4 DEF Sync
    <3>2. failed \in [Task -> 0 .. Retries]
      BY DEF PInv, TypeOK
    <3>3. \A t \in Task : (IF at'[t] = "none" THEN 0 ELSE failed[t]) \in 0 .. Retries
      BY <3>2
    <3> QED
      BY <3>1, <3>3, Zenon
  <2>4. todo' \subseteq wanted' /\ pc' \in {"watching first", "watching"} /\ KeptIsWanted'
    BY <1>4 DEF Sync, PInv, TypeOK, KeptIsWanted
  <2> QED
    BY <1>4, <2>1, <2>2, <2>3, <2>4 DEF Sync, PInv, TypeOK, TodoWhileWatching, fileVars, connVars
<1>5. CASE Synced
  BY <1>5 DEF Synced, PInv, TypeOK, FiledByMachine, KeptIsWanted, TodoWhileWatching,
              fileVars, connVars, taskVars
<1>6. CASE PollStarts \/ Poll
  BY <1>6 DEF PollStarts, Poll, PInv, TypeOK, FiledByMachine, KeptIsWanted, TodoWhileWatching,
              fileVars, connVars, taskVars
<1>7. CASE LoadAgain
  BY <1>7 DEF LoadAgain, PInv, TypeOK, FiledByMachine, KeptIsWanted, TodoWhileWatching,
              fileVars, connVars, taskVars
<1>8. ASSUME NEW h \in Host, SpawnWanted(h) PROVE PInv'
  <2>1. Spawn(Poller, h) /\ Poller \in Actor
    BY <1>8 DEF SpawnWanted, Actor
  <2>2. UNCHANGED watchers
    BY <1>8 DEF SpawnWanted
  <2> QED
    BY <1>8, <2>1, <2>2, SpawnStep
       DEF SpawnWanted, PInv, TypeOK, KeptIsWanted, TodoWhileWatching, fileVars, connVars
<1>9. ASSUME NEW a \in Actor, Record(a) PROVE PInv'
  <2>1. hand[a] \in Task /\ host[hand[a]] \in Host
    BY <1>9 DEF Record, PInv, TypeOK
  <2>2. FiledByMachine'
    BY <1>9, <2>1 DEF Record, PInv, TypeOK, FiledByMachine, taskVars
  <2> QED
    BY <1>9, <2>1, <2>2 DEF Record, PInv, TypeOK, KeptIsWanted, TodoWhileWatching,
                            fileVars, pollVars, connVars, taskVars
<1>10. ASSUME NEW r \in Conn, Reach(r) \/ LoadListed(r) PROVE PInv'
  <2>1. answered \in [Conn -> SUBSET Host] /\ left \in [Conn -> SUBSET Host] /\ file \subseteq Host
    BY DEF PInv, TypeOK
  <2>2. CASE Reach(r)
    <3>1. PICK some \in SUBSET Host : answered' = [answered EXCEPT ![r] = some]
      BY <2>2 DEF Reach
    <3>2. answered' \in [Conn -> SUBSET Host] /\ left' \in [Conn -> SUBSET Host]
      BY <2>1, <2>2, <3>1 DEF Reach
    <3> QED
      BY <2>2, <3>2 DEF Reach, PInv, TypeOK, FiledByMachine, KeptIsWanted,
                       TodoWhileWatching, fileVars, pollVars, taskVars
  <2>3. CASE LoadListed(r)
    <3>1. answered[r] \cap file \in SUBSET Host
      BY <2>1
    <3>2. answered' \in [Conn -> SUBSET Host] /\ left' \in [Conn -> SUBSET Host]
      BY <2>1, <2>3, <3>1 DEF LoadListed
    <3> QED
      BY <2>3, <3>2 DEF LoadListed, PInv, TypeOK, FiledByMachine, KeptIsWanted,
                       TodoWhileWatching, fileVars, pollVars, taskVars
  <2> QED
    BY <1>10, <2>2, <2>3
<1>11. ASSUME NEW r \in Conn, NEW h \in Host, Skip(r, h) PROVE PInv'
  <2>1. left' \in [Conn -> SUBSET Host]
    BY <1>11 DEF Skip, PInv, TypeOK
  <2> QED
    BY <1>11, <2>1 DEF Skip, PInv, TypeOK, FiledByMachine, KeptIsWanted, TodoWhileWatching,
                       fileVars, pollVars, taskVars
<1>12. ASSUME NEW r \in Conn, NEW h \in Host, Rewatch(r, h) PROVE PInv'
  <2>1. Spawn(r, h) /\ r \in Actor
    BY <1>12 DEF Rewatch, Actor
  <2>2. UNCHANGED watchers
    BY <1>12 DEF Rewatch
  <2>3. left' \in [Conn -> SUBSET Host]
    BY <1>12 DEF Rewatch, PInv, TypeOK
  <2> QED
    BY <1>12, <2>1, <2>2, <2>3, SpawnStep
       DEF Rewatch, PInv, TypeOK, KeptIsWanted, TodoWhileWatching, fileVars, pollVars
<1>13. ASSUME NEW t \in Task, Over(t) PROVE PInv'
  BY <1>13, OverStep DEF PInv, TypeOK, FiledByMachine, KeptIsWanted, TodoWhileWatching,
                         fileVars, pollVars, connVars
<1>14. ASSUME NEW t \in Task, Retry(t) \/ Reached(t) PROVE PInv'
  BY <1>14 DEF Retry, Reached, PInv, TypeOK, FiledByMachine, KeptIsWanted, TodoWhileWatching,
               fileVars, pollVars, connVars
<1>15. CASE UNCHANGED vars
  BY <1>15 DEF vars, PInv, TypeOK, FiledByMachine, KeptIsWanted, TodoWhileWatching,
               fileVars, pollVars, connVars, taskVars
<1> QED
  BY <1>1, <1>2, <1>3, <1>4, <1>5, <1>6, <1>7, <1>8, <1>9, <1>10, <1>11, <1>12, <1>13, <1>14, <1>15
     DEF Next, NodeStep, Request, Watcher, Fail, Notice, Drop, Actor

LEMMA Followed == Spec => []PInv
BY InitPInv, PInvStep, PTL DEF Spec

(***************************************************************************)
(* The theorems.                                                           *)
(***************************************************************************)

\* Every variable keeps its type: a watcher never counts past its last try,
\* and the poller watches only what it loaded.
THEOREM PeersTypes == Spec => []TypeOK
<1>1. PInv => TypeOK
  BY DEF PInv
<1> QED
  BY <1>1, Followed, PTL

\* A step of anybody's leaves the subscription to a machine that stays on the
\* list running, for any list, any edits and any races for the map.
LEMMA KeptStep ==
    ASSUME PInv, [Next]_vars, NEW t \in Task, host[t] \in Kept, Live(t)
    PROVE  at'[t] # "none"
<1>1. CASE UNCHANGED taskVars
  BY <1>1 DEF taskVars, Live
<1>2. CASE Sync
  <2>1. SUFFICES ASSUME NEW h \in Host \ wanted, watchers[h] = t PROVE FALSE
    BY <1>2, <2>1 DEF Sync, PInv, TypeOK, Live
  <2>2. host[t] = h
    BY <2>1, PeersAssumption DEF PInv, FiledByMachine
  <2>3. Kept \subseteq wanted
    BY <1>2 DEF Sync, PInv, KeptIsWanted
  <2> QED
    BY <2>1, <2>2, <2>3
<1>3. ASSUME NEW a \in Actor, NEW h \in Host, Spawn(a, h), UNCHANGED watchers
      PROVE  at'[t] # "none"
  BY <1>3, SpawnStep DEF Live
<1>4. ASSUME NEW s \in Task, Over(s) PROVE at'[t] # "none"
  BY <1>4, OverStep
<1>5. ASSUME NEW s \in Task, Retry(s) \/ Reached(s) PROVE at'[t] # "none"
  BY <1>5 DEF Retry, Reached, PInv, TypeOK, Live
<1>6. ASSUME NEW h \in Host, SpawnWanted(h) PROVE at'[t] # "none"
  BY <1>3, <1>6 DEF SpawnWanted, Actor
<1>7. ASSUME NEW r \in Conn, NEW h \in Host, Rewatch(r, h) PROVE at'[t] # "none"
  BY <1>3, <1>7 DEF Rewatch, Actor
<1> QED
  BY <1>1, <1>2, <1>4, <1>5, <1>6, <1>7
     DEF Next, NodeStep, Request, Watcher, Fail, Notice, Drop, Edit, Change, LoadFirst, Synced,
         PollStarts, Poll, LoadAgain, Record, Reach, LoadListed, Skip, vars

\* Pairing with one machine never interrupts the subscription to another:
\* whatever is edited, polled, reached or raced for, the watcher of a machine
\* that stays on the list is stopped by nothing but its own failures.
THEOREM KeptSubscriptionsStand == Spec => KeptIsLeftAlone
<1>1. PInv /\ [Next]_vars => [\A t \in Task : host[t] \in Kept /\ Live(t) => at'[t] # "none"]_vars
  BY KeptStep
<1> QED
  BY <1>1, Followed, PTL DEF Spec, KeptIsLeftAlone

===============================================================================
