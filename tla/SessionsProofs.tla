---------------------------- MODULE SessionsProofs ----------------------------
(***************************************************************************)
(* What holds of Sessions for any number of sessions, clients and names.   *)
(*                                                                         *)
(* The invariant a reader wants is NeverLost: no operation loses a running *)
(* session or lets another answer to its name.  It is not inductive: it    *)
(* needs that a name stays free from the moment a spawn chose it until its *)
(* entry goes in (ChosenStaysFree), which the lock gives, that the         *)
(* registry holds nothing unborn, and that names and keys agree.           *)
(***************************************************************************)
EXTENDS Sessions, FiniteSetTheorems, TLAPS

\* A spawn has started its child and not yet made its entry: the name it
\* chose is nobody's, and the session is in no entry.
ChosenStaysFree ==
    spawning # None => /\ reaper[spawning] # "none"
                       /\ watcher[spawning] = "none"
                       /\ name[spawning] \in Name
                       /\ name[spawning] \notin DOMAIN registry

\* A session not spawned yet has no name, no process and no entry.
UnbornIsNowhere ==
    \A s \in Sid : reaper[s] = "none" =>
        /\ name[s] = NoName /\ watcher[s] = "none" /\ ~alive[s]
        /\ \A n \in DOMAIN registry : registry[n] # s

\* The watcher starts with the entry and not before.
WatchedIsInserted == \A s \in Sid : watcher[s] # "none" => reaper[s] # "none" /\ spawning # s

\* The reaper's order: dead before reaped, announced before sent.
ReaperOrder ==
    \A s \in Sid : /\ reaper[s] \in {"draining", "published", "sent"} => ~alive[s]
                   /\ reaper[s] \in {"published", "sent"} => "Exited" \in announced[s]

IInv == /\ TypeOK /\ ClientsCounted /\ KeyedByOwnName /\ NeverLost
        /\ ChosenStaysFree /\ UnbornIsNowhere /\ WatchedIsInserted /\ ReaperOrder

(***************************************************************************)
(* Lemmas about the registry's helpers.                                    *)
(***************************************************************************)

\* prune keeps exactly the entries of sessions that have not exited.
LEMMA PruneKeeps ==
    ASSUME NEW r
    PROVE  /\ DOMAIN Prune(r) = {n \in DOMAIN r : ~HasExited(r[n])}
           /\ \A n \in DOMAIN Prune(r) : Prune(r)[n] = r[n]
BY DEF Prune

\* Removing an entry leaves every other one as it was.
LEMMA WithoutRemoves ==
    ASSUME NEW r, NEW n
    PROVE  /\ DOMAIN Without(r, n) = DOMAIN r \ {n}
           /\ \A m \in DOMAIN r \ {n} : Without(r, n)[m] = r[m]
BY DEF Without

\* unique_name never answers with a name that is taken, whatever the counters.
LEMMA UniqueNamesAreFree ==
    ASSUME NEW r, NEW p \in Asked, NEW n \in UniqueNames(r, p)
    PROVE  n \in Name /\ n \notin DOMAIN r
BY NamesAssumption DEF UniqueNames

(***************************************************************************)
(* The three facts of the inductive invariant.                             *)
(***************************************************************************)

LEMMA InitIInv == Init => IInv
<1> SUFFICES ASSUME Init PROVE IInv
  OBVIOUS
<1>1. Present = {}
  BY DEF Init, Present, Detached
<1>2. ClientsCounted
  BY <1>1, FS_EmptySet DEF Init, ClientsCounted, Detached
<1> QED
  BY <1>2, NamesAssumption
     DEF Init, IInv, TypeOK, KeyedByOwnName, NeverLost, ChosenStaysFree, UnbornIsNowhere,
         WatchedIsInserted, ReaperOrder, Attachments, Detached, ReaperPhases

\* A step that prunes the registry, or leaves it alone, and changes no name,
\* no spawn and no session's birth keeps everything said of names.
LEMMA PruningStep ==
    ASSUME IInv,
           registry' = Prune(registry) \/ registry' = registry,
           name' = name, spawning' = spawning,
           \A s \in Sid : reaper'[s] = "none" <=> reaper[s] = "none",
           \A s \in Sid : watcher'[s] = "none" <=> watcher[s] = "none",
           \A s \in Sid : HasExited(s) => HasExited(s)',
           \A s \in Sid : alive'[s] => alive[s],
           reaper' \in [Sid -> ReaperPhases]
    PROVE  /\ DOMAIN registry' \subseteq Name
           /\ \A n \in DOMAIN registry' : registry'[n] \in Sid
           /\ KeyedByOwnName' /\ NeverLost' /\ ChosenStaysFree'
           /\ UnbornIsNowhere' /\ WatchedIsInserted'
<1> USE DEF IInv, TypeOK
<1>1. /\ DOMAIN registry' \subseteq DOMAIN registry
      /\ \A n \in DOMAIN registry' : registry'[n] = registry[n]
      /\ \A n \in DOMAIN registry : ~HasExited(registry[n]) => n \in DOMAIN registry'
  <2>1. CASE registry' = registry
    BY <2>1
  <2>2. CASE registry' = Prune(registry)
    BY <2>2 DEF Prune
  <2> QED BY <2>1, <2>2
<1>2. KeyedByOwnName'
  BY <1>1 DEF KeyedByOwnName
<1>3. NeverLost'
  <2> SUFFICES ASSUME NEW s \in Sid, reaper'[s] \in {"waiting", "draining", "published"},
                      spawning' # s
               PROVE  name'[s] \in DOMAIN registry' /\ registry'[name'[s]] = s
    BY DEF NeverLost
  <2>1. ~HasExited(s) /\ reaper[s] # "none"
    BY DEF HasExited, ReaperPhases
  <2>2. reaper[s] \in {"waiting", "draining", "published"}
    BY <2>1 DEF HasExited, ReaperPhases
  <2>3. name[s] \in DOMAIN registry /\ registry[name[s]] = s
    BY <2>2 DEF NeverLost
  <2> QED BY <1>1, <2>1, <2>3
<1>4. ChosenStaysFree'
  BY <1>1, NamesAssumption DEF ChosenStaysFree
<1>5. UnbornIsNowhere'
  BY <1>1 DEF UnbornIsNowhere
<1>6. WatchedIsInserted'
  BY DEF WatchedIsInserted
<1> QED BY <1>1, <1>2, <1>3, <1>4, <1>5, <1>6

\* A step that leaves the attachments alone leaves their count right.
LEMMA CountUnchanged ==
    ASSUME ClientsCounted, UNCHANGED attVars
    PROVE  ClientsCounted'
BY DEF ClientsCounted, Present, attVars

\* A spawn takes a name that is free, however it came by it.
LEMMA SpawnChildIInv ==
    ASSUME IInv, NEW s \in Sid, NEW n \in Name, n \notin DOMAIN Prune(registry),
           SpawnChild(s, n)
    PROVE  IInv'
<1> USE DEF IInv, SpawnChild
<1>1. /\ DOMAIN registry' \subseteq DOMAIN registry
      /\ \A m \in DOMAIN registry' : registry'[m] = registry[m]
      /\ \A m \in DOMAIN registry : ~HasExited(registry[m]) => m \in DOMAIN registry'
  BY PruneKeeps
<1>2. \A m \in DOMAIN registry : registry[m] # s
  BY DEF UnbornIsNowhere
<1>3. s # None
  BY NamesAssumption
<1>4. TypeOK'
  BY <1>1 DEF TypeOK, ReaperPhases, attVars, stopVars
<1>5. KeyedByOwnName'
  BY <1>1, <1>2 DEF KeyedByOwnName, TypeOK
<1>6. NeverLost'
  <2> SUFFICES ASSUME NEW t \in Sid, reaper'[t] \in {"waiting", "draining", "published"},
                      spawning' # t
               PROVE  name'[t] \in DOMAIN registry' /\ registry'[name'[t]] = t
    BY DEF NeverLost
  <2>1. t # s /\ reaper'[t] = reaper[t] /\ name'[t] = name[t] /\ spawning # t
    BY NamesAssumption DEF TypeOK, Unlocked
  <2> QED BY <1>1, <2>1 DEF NeverLost, HasExited
<1>7. ChosenStaysFree'
  BY <1>3 DEF ChosenStaysFree, TypeOK, UnbornIsNowhere
<1>8. UnbornIsNowhere'
  BY <1>1 DEF UnbornIsNowhere, TypeOK
<1>9. WatchedIsInserted'
  BY DEF WatchedIsInserted, TypeOK, UnbornIsNowhere
<1>10. ReaperOrder'
  BY DEF ReaperOrder, TypeOK
<1>11. ClientsCounted'
  BY CountUnchanged
<1> QED BY <1>11, <1>4, <1>5, <1>6, <1>7, <1>8, <1>9, <1>10

LEMMA SpawnInsertIInv ==
    ASSUME IInv, NEW s \in Sid, SpawnInsert(s)
    PROVE  IInv'
<1> USE DEF IInv, SpawnInsert
<1> DEFINE n == name[s]
<1>1. n \in Name /\ n \notin DOMAIN registry /\ reaper[s] # "none" /\ s # None
  BY NamesAssumption DEF ChosenStaysFree
<1>2. /\ DOMAIN registry' = DOMAIN registry \cup {n}
      /\ registry'[n] = s
      /\ \A m \in DOMAIN registry : registry'[m] = registry[m]
  BY <1>1 DEF Put
<1>3. TypeOK'
  BY <1>1, <1>2 DEF TypeOK, attVars, stopVars
<1>4. KeyedByOwnName'
  BY <1>2 DEF KeyedByOwnName
<1>5. NeverLost'
  BY <1>2 DEF NeverLost
<1>6. ChosenStaysFree'
  BY DEF ChosenStaysFree
<1>7. UnbornIsNowhere'
  BY <1>1, <1>2 DEF UnbornIsNowhere, TypeOK
<1>8. WatchedIsInserted'
  BY <1>1, NamesAssumption DEF WatchedIsInserted, TypeOK
<1>9. ReaperOrder'
  BY DEF ReaperOrder, TypeOK
<1>10. ClientsCounted'
  BY CountUnchanged
<1> QED BY <1>10, <1>3, <1>4, <1>5, <1>6, <1>7, <1>8, <1>9

LEMMA RenameIInv ==
    ASSUME IInv, NEW from \in Name, NEW asked \in Asked, Rename(from, asked)
    PROVE  IInv'
<1> DEFINE live == Prune(registry)
           to == Sanitize[asked]
           s == live[from]
<1> USE DEF IInv
<1>1. /\ DOMAIN live \subseteq DOMAIN registry
      /\ \A m \in DOMAIN live : live[m] = registry[m]
      /\ \A m \in DOMAIN registry : ~HasExited(registry[m]) => m \in DOMAIN live
  BY PruneKeeps
<1>2. /\ Up /\ Unlocked /\ from \in DOMAIN live
      /\ to # NoName /\ to \notin DOMAIN live
      /\ registry' = Put(Without(live, from), to, s)
      /\ name' = [name EXCEPT ![s] = to]
      /\ UNCHANGED <<spawning, lifeVars, attVars, hungUp, stopVars>>
  BY DEF Rename, Vetted
<1>3. s \in Sid /\ name[s] = from /\ to \in Name /\ to # from /\ spawning = None
  BY <1>1, <1>2, NamesAssumption DEF TypeOK, KeyedByOwnName, Unlocked
<1> HIDE DEF live, to, s
<1>4. /\ DOMAIN registry' = (DOMAIN live \ {from}) \cup {to}
      /\ registry'[to] = s
      /\ \A m \in DOMAIN live \ {from} : registry'[m] = live[m]
  <2>1. DOMAIN Without(live, from) = DOMAIN live \ {from}
    BY WithoutRemoves
  <2>2. \A m \in DOMAIN live \ {from} : Without(live, from)[m] = live[m]
    BY WithoutRemoves
  <2>3. DOMAIN registry' = (DOMAIN live \ {from}) \cup {to} /\ registry'[to] = s
    BY <1>2, <2>1 DEF Put
  <2>4. \A m \in DOMAIN Without(live, from) \ {to} : registry'[m] = Without(live, from)[m]
    BY <1>2 DEF Put
  <2> QED BY <1>2, <2>1, <2>2, <2>3, <2>4
<1>5. \A m \in DOMAIN live : live[m] = s => m = from
  BY <1>1, <1>3 DEF KeyedByOwnName
<1>6. TypeOK'
  BY <1>1, <1>2, <1>3, <1>4 DEF TypeOK, lifeVars, attVars, stopVars
<1>7. KeyedByOwnName'
  <2> SUFFICES ASSUME NEW m \in DOMAIN registry'
               PROVE  name'[registry'[m]] = m
    BY DEF KeyedByOwnName
  <2>1. CASE m = to
    BY <2>1, <1>2, <1>3, <1>4 DEF TypeOK
  <2>2. CASE m # to
    <3>1. m \in DOMAIN live \ {from} /\ registry'[m] = registry[m] /\ registry[m] # s
      BY <2>2, <1>1, <1>4, <1>5
    <3> QED BY <3>1, <1>1, <1>2 DEF TypeOK, KeyedByOwnName
  <2> QED BY <2>1, <2>2
<1>8. NeverLost'
  <2> SUFFICES ASSUME NEW t \in Sid, reaper[t] \in {"waiting", "draining", "published"},
                      spawning # t
               PROVE  name'[t] \in DOMAIN registry' /\ registry'[name'[t]] = t
    BY <1>2 DEF NeverLost, lifeVars
  <2>1. name[t] \in DOMAIN live /\ live[name[t]] = t
    BY <1>1 DEF NeverLost, HasExited
  <2>2. CASE t = s
    BY <2>2, <1>2, <1>3, <1>4 DEF TypeOK
  <2>3. CASE t # s
    BY <2>1, <2>3, <1>2, <1>3, <1>4, <1>5 DEF TypeOK, s
  <2> QED BY <2>2, <2>3
<1>9. ChosenStaysFree' /\ UnbornIsNowhere' /\ WatchedIsInserted' /\ ReaperOrder'
  <2>1. ChosenStaysFree' /\ WatchedIsInserted' /\ ReaperOrder'
    BY <1>2, <1>3 DEF ChosenStaysFree, WatchedIsInserted, ReaperOrder, lifeVars
  <2>2. reaper[s] # "none"
    BY <1>1, <1>2 DEF UnbornIsNowhere, TypeOK, s
  <2>3. UnbornIsNowhere'
    BY <1>1, <1>2, <1>3, <1>4, <2>2 DEF UnbornIsNowhere, lifeVars, TypeOK
  <2> QED BY <2>1, <2>3
<1>10. ClientsCounted'
  BY <1>2, CountUnchanged
<1> QED BY <1>6, <1>7, <1>8, <1>9, <1>10

\* The steps of an attachment's life keep the count of the host's clients and
\* the session's set of them, one client at a time; an answer moves neither.
LEMMA AttachmentStep ==
    ASSUME IInv, NEW c \in Client,
           \/ \E n \in Name, r \in BOOLEAN : AttachFind(c, n, r)
           \/ AttachJoin(c) \/ DropAttachment(c) \/ DropClient(c)
           \/ Answer(c) \/ AnswerWritten(c)
    PROVE  /\ att' \in [Client -> Attachments]
           /\ answering' \subseteq Client
           /\ clients' \in [Sid -> SUBSET Client]
           /\ hostClients' \in Nat
           /\ ClientsCounted'
<1> USE DEF IInv
<1>0. answering' \subseteq Client
  BY DEF TypeOK, AttachFind, AttachJoin, DropAttachment, DropClient, Answer, AnswerWritten
<1>1. IsFiniteSet(Present) /\ Present \subseteq Client
  BY NamesAssumption, FS_Subset DEF Present
<1>2. hostClients = Cardinality(Present) /\ hostClients \in Nat
  BY DEF ClientsCounted, TypeOK
<1>3. ASSUME NEW n \in Name, NEW r \in BOOLEAN, AttachFind(c, n, r)
      PROVE  /\ att' \in [Client -> Attachments]
             /\ clients' \in [Sid -> SUBSET Client]
             /\ hostClients' \in Nat
             /\ ClientsCounted'
  <2>1. registry[n] \in Sid
    BY <1>3, PruneKeeps DEF AttachFind, TypeOK
  <2>2. att' \in [Client -> Attachments] /\ clients' = clients /\ hostClients' = hostClients + 1
    BY <1>3, <2>1 DEF AttachFind, TypeOK, Attachments
  <2>3. c \notin Present /\ Present' = Present \cup {c}
    BY <1>3 DEF AttachFind, TypeOK, Present
  <2>4. hostClients' = Cardinality(Present')
    BY <1>1, <1>2, <2>2, <2>3, FS_AddElement
  <2>5. \A s \in Sid :
          clients'[s] = {d \in Client : /\ att'[d].session = s /\ ~att'[d].readOnly
                                        /\ att'[d].at \in {"attached", "leaving"}}
    BY <1>3, <2>2 DEF AttachFind, ClientsCounted, TypeOK
  <2> QED BY <1>2, <2>2, <2>4, <2>5 DEF ClientsCounted, TypeOK
<1>4. CASE AttachJoin(c)
  <2>1. att' \in [Client -> Attachments] /\ clients' \in [Sid -> SUBSET Client]
    <3>1. att' \in [Client -> Attachments]
      BY <1>4 DEF AttachJoin, TypeOK, Attachments
    <3>2. \A s \in Sid : clients[s] \subseteq Client /\ clients[s] \cup {c} \subseteq Client
      BY DEF TypeOK
    <3>3. clients' \in [Sid -> SUBSET Client]
      BY <1>4, <3>2 DEF AttachJoin, TypeOK
    <3> QED BY <3>1, <3>3
  <2>2. Present' = Present /\ hostClients' = hostClients
    BY <1>4 DEF AttachJoin, TypeOK, Present
  <2>3. \A s \in Sid :
          clients'[s] = {d \in Client : /\ att'[d].session = s /\ ~att'[d].readOnly
                                        /\ att'[d].at \in {"attached", "leaving"}}
    <3> SUFFICES ASSUME NEW s \in Sid, NEW d \in Client
                 PROVE  d \in clients'[s] <=> /\ att'[d].session = s /\ ~att'[d].readOnly
                                              /\ att'[d].at \in {"attached", "leaving"}
      BY <2>1
    <3>1. CASE d = c
      BY <1>4, <3>1 DEF AttachJoin, ClientsCounted, TypeOK, Attachments
    <3>2. CASE d # c
      BY <1>4, <3>2 DEF AttachJoin, ClientsCounted, TypeOK
    <3> QED BY <3>1, <3>2
  <2> QED BY <1>0, <1>2, <2>1, <2>2, <2>3 DEF ClientsCounted
<1>5. CASE DropAttachment(c)
  <2>1. att' \in [Client -> Attachments] /\ clients' = clients /\ hostClients' = hostClients - 1
    BY <1>5 DEF DropAttachment, TypeOK, Attachments
  <2>2. c \in Present /\ Present' = Present \ {c}
    BY <1>5 DEF DropAttachment, TypeOK, Present
  <2>3. hostClients' = Cardinality(Present') /\ hostClients' \in Nat
    <3>1. /\ IsFiniteSet(Present \ {c})
          /\ Cardinality(Present \ {c}) = hostClients - 1
      BY <1>1, <1>2, <2>2, FS_RemoveElement
    <3>2. Cardinality(Present \ {c}) \in Nat
      BY <3>1, FS_CardinalityType
    <3> QED BY <2>1, <2>2, <3>1, <3>2
  <2>4. \A s \in Sid :
          clients'[s] = {d \in Client : /\ att'[d].session = s /\ ~att'[d].readOnly
                                        /\ att'[d].at \in {"attached", "leaving"}}
    BY <1>5, <2>1 DEF DropAttachment, ClientsCounted, TypeOK, Attachments
  <2> QED BY <1>0, <2>1, <2>3, <2>4 DEF ClientsCounted, TypeOK
<1>6. CASE DropClient(c)
  <2>1. att' \in [Client -> Attachments] /\ clients' \in [Sid -> SUBSET Client]
    BY <1>6, NamesAssumption DEF DropClient, TypeOK, Attachments, Detached
  <2>2. Present' = Present /\ hostClients' = hostClients
    BY <1>6 DEF DropClient, TypeOK, Present, Detached
  <2>3. \A s \in Sid :
          clients'[s] = {d \in Client : /\ att'[d].session = s /\ ~att'[d].readOnly
                                        /\ att'[d].at \in {"attached", "leaving"}}
    <3> SUFFICES ASSUME NEW s \in Sid, NEW d \in Client
                 PROVE  d \in clients'[s] <=> /\ att'[d].session = s /\ ~att'[d].readOnly
                                              /\ att'[d].at \in {"attached", "leaving"}
      BY <2>1
    <3>1. CASE d = c
      BY <1>6, <3>1 DEF DropClient, ClientsCounted, TypeOK, Attachments, Detached
    <3>2. CASE d # c
      BY <1>6, <3>2 DEF DropClient, ClientsCounted, TypeOK
    <3> QED BY <3>1, <3>2
  <2> QED BY <1>0, <1>2, <2>1, <2>2, <2>3 DEF ClientsCounted
<1>7. CASE Answer(c) \/ AnswerWritten(c)
  <2>1. UNCHANGED <<att, clients, hostClients>>
    BY <1>7 DEF Answer, AnswerWritten
  <2>2. Present' = Present
    BY <2>1 DEF Present
  <2>3. att \in [Client -> Attachments] /\ clients \in [Sid -> SUBSET Client]
    BY DEF TypeOK
  <2> QED BY <1>0, <1>2, <2>1, <2>2, <2>3 DEF ClientsCounted
<1> QED BY <1>0, <1>3, <1>4, <1>5, <1>6, <1>7

\* What the remaining steps have in common: they prune at most, touch neither
\* names nor attachments, and move the end of a session only forward.
QuietStep ==
    /\ registry' = Prune(registry) \/ registry' = registry
    /\ UNCHANGED <<name, spawning, attVars>>
    /\ reaper' \in [Sid -> ReaperPhases]
    /\ alive' \in [Sid -> BOOLEAN]
    /\ watcher' \in [Sid -> {"none", "waiting", "done"}]
    /\ announced' \in [Sid -> SUBSET {"Started", "Exited"}]
    /\ \A t \in Sid : /\ reaper'[t] = "none" <=> reaper[t] = "none"
                      /\ watcher'[t] = "none" <=> watcher[t] = "none"
                      /\ HasExited(t) => HasExited(t)'
                      /\ alive'[t] => alive[t]
    /\ ReaperOrder'
    /\ hungUp' \subseteq Sid /\ targets' \subseteq Sid /\ togo' \subseteq Sid
    /\ stopping' \in {"no", "hangup", "kill", "exiting", "gone"}

LEMMA QuietStepIInv ==
    ASSUME IInv, QuietStep
    PROVE  IInv'
<1> USE DEF IInv, QuietStep
<1>1. /\ DOMAIN registry' \subseteq Name
      /\ \A n \in DOMAIN registry' : registry'[n] \in Sid
      /\ KeyedByOwnName' /\ NeverLost' /\ ChosenStaysFree'
      /\ UnbornIsNowhere' /\ WatchedIsInserted'
  BY PruningStep
<1>2. TypeOK' /\ ClientsCounted'
  BY <1>1, CountUnchanged DEF TypeOK, attVars
<1> QED BY <1>1, <1>2

LEMMA NextIInv == IInv /\ [Next]_vars => IInv'
<1> SUFFICES ASSUME IInv, [Next]_vars
             PROVE  IInv'
  OBVIOUS
<1> USE DEF IInv
<1>1. ASSUME NEW s \in Sid, NEW a \in Asked, SpawnNamed(s, a) \/ SpawnUnnamed(s, a)
      PROVE  IInv'
  <2>1. CASE SpawnNamed(s, a)
    <3>1. /\ Sanitize[a] \in Name
          /\ Sanitize[a] \notin DOMAIN Prune(registry)
      BY <2>1, NamesAssumption DEF SpawnNamed, Vetted
    <3> QED BY <2>1, <3>1, SpawnChildIInv DEF SpawnNamed
  <2>2. CASE SpawnUnnamed(s, a)
    <3>1. PICK n \in UniqueNames(Prune(registry), a) : SpawnChild(s, n)
      BY <2>2 DEF SpawnUnnamed
    <3>2. n \in Name /\ n \notin DOMAIN Prune(registry)
      BY UniqueNamesAreFree
    <3> QED BY <3>1, <3>2, SpawnChildIInv
  <2> QED BY <1>1, <2>1, <2>2
<1>2. ASSUME NEW n \in Name, NEW a \in Asked, Rename(n, a)
      PROVE  IInv'
  BY <1>2, RenameIInv
<1>3. ASSUME NEW s \in Sid, SpawnInsert(s)
      PROVE  IInv'
  BY <1>3, SpawnInsertIInv
<1>4. ASSUME NEW c \in Client,
             \/ \E n \in Name, r \in BOOLEAN : AttachFind(c, n, r)
             \/ AttachJoin(c) \/ DropAttachment(c) \/ DropClient(c)
             \/ Answer(c) \/ AnswerWritten(c)
      PROVE  IInv'
  <2>1. /\ registry' = Prune(registry) \/ registry' = registry
        /\ UNCHANGED <<name, spawning, lifeVars, stopVars, hungUp>>
    BY <1>4 DEF AttachFind, AttachJoin, DropAttachment, DropClient, Answer, AnswerWritten, regVars
  <2>2. /\ DOMAIN registry' \subseteq Name
        /\ \A n \in DOMAIN registry' : registry'[n] \in Sid
        /\ KeyedByOwnName' /\ NeverLost' /\ ChosenStaysFree'
        /\ UnbornIsNowhere' /\ WatchedIsInserted'
    BY <2>1, PruningStep DEF lifeVars, HasExited, TypeOK
  <2>3. ReaperOrder'
    BY <2>1 DEF ReaperOrder, lifeVars
  <2>4. TypeOK' /\ ClientsCounted'
    BY <1>4, <2>1, <2>2, AttachmentStep DEF TypeOK, lifeVars, stopVars
  <2> QED BY <2>2, <2>3, <2>4
<1>5. CASE Consult \/ \E n \in Name : Kill(n)
  <2>1. \A n \in Name : Kill(n) => registry[n] \in Sid
    BY PruneKeeps DEF Kill, TypeOK
  <2>2. QuietStep
    BY <1>5, <2>1 DEF QuietStep, Consult, Kill, lifeVars, stopVars, TypeOK, HasExited, ReaperOrder
  <2> QED BY <2>2, QuietStepIInv
<1>6. ASSUME NEW s \in Sid, ChildDies(s) \/ Reap(s)
      PROVE  IInv'
  <2>1. CASE ChildDies(s)
    <3>1. QuietStep
      BY <2>1 DEF QuietStep, ChildDies, regVars, attVars, stopVars, TypeOK, HasExited, ReaperOrder, ReaperPhases
    <3> QED BY <3>1, QuietStepIInv
  <2>2. CASE Reap(s)
    <3>1. QuietStep
      BY <2>2 DEF QuietStep, Reap, regVars, attVars, stopVars, TypeOK, HasExited, ReaperOrder, ReaperPhases
    <3> QED BY <3>1, QuietStepIInv
  <2> QED BY <1>6, <2>1, <2>2
<1>7. ASSUME NEW s \in Sid, PublishExit(s) \/ SendExit(s) \/ WatchExit(s)
      PROVE  IInv'
  <2>1. ReaperOrder'
    BY <1>7 DEF PublishExit, SendExit, WatchExit, TypeOK, ReaperOrder
  <2>2. announced' \in [Sid -> SUBSET {"Started", "Exited"}]
    <3>1. \A t \in Sid : announced[t] \cup {"Exited"} \in SUBSET {"Started", "Exited"}
      BY DEF TypeOK
    <3> QED BY <1>7, <3>1 DEF PublishExit, SendExit, WatchExit, TypeOK
  <2>3. QuietStep
    BY <1>7, <2>1, <2>2 DEF QuietStep, PublishExit, SendExit, WatchExit, regVars, attVars, stopVars,
                TypeOK, HasExited, ReaperPhases
  <2> QED BY <2>3, QuietStepIInv
<1>8. CASE ShutdownBegin \/ ShutdownGrace \/ ShutdownEnd \/ ProcessExit
  <2>1. Listed(Prune(registry)) \subseteq Sid
    BY DEF Listed, Prune, TypeOK
  <2>2. QuietStep
    BY <1>8, <2>1 DEF QuietStep, ShutdownBegin, ShutdownGrace, ShutdownEnd, ProcessExit, regVars,
                lifeVars, TypeOK, HasExited, ReaperOrder
  <2> QED BY <2>2, QuietStepIInv
<1>9. ASSUME NEW s \in Sid, ShutdownHangUp(s) \/ ShutdownKill(s)
      PROVE  IInv'
  <2>1. QuietStep
    BY <1>9 DEF QuietStep, ShutdownHangUp, ShutdownKill, regVars, lifeVars, TypeOK, HasExited,
                ReaperOrder
  <2> QED BY <2>1, QuietStepIInv
<1>10. CASE UNCHANGED vars
  <2>1. QuietStep
    BY <1>10 DEF QuietStep, vars, regVars, lifeVars, stopVars, TypeOK, HasExited, ReaperOrder
  <2> QED BY <2>1, QuietStepIInv
<1> QED
  BY <1>1, <1>2, <1>3, <1>4, <1>5, <1>6, <1>7, <1>8, <1>9, <1>10
     DEF Next, Requests, Tasks, Shutdown

LEMMA Inductive == Spec => []IInv
BY InitIInv, NextIInv, PTL DEF Spec

(***************************************************************************)
(* The theorems.                                                           *)
(***************************************************************************)

\* Every variable has its type in every reachable state.
THEOREM TypeCorrect == Spec => []TypeOK
BY Inductive, PTL DEF IInv

\* No spawn, rename, prune or lookup loses a running session or hides it
\* behind another's name.
THEOREM NoSessionIsLost == Spec => []NeverLost
BY Inductive, PTL DEF IInv

\* The registry's keys are the names its sessions say they have.
THEOREM KeysAreNames == Spec => []KeyedByOwnName
BY Inductive, PTL DEF IInv

\* The host's client count and the sessions' own sets of clients stay in step
\* with the attachments there are.
THEOREM ClientsAreCounted == Spec => []ClientsCounted
BY Inductive, PTL DEF IInv

\* A session leaves the listing only after its Exited event went out.
THEOREM ExitedBeforeDropped == Spec => []DroppedAfterExited
<1>1. IInv => DroppedAfterExited
  <2> SUFFICES ASSUME IInv, NEW s \in Sid, watcher[s] # "none", s \notin Listed(registry)
               PROVE  "Exited" \in announced[s]
    BY DEF DroppedAfterExited
  <2>1. reaper[s] # "none" /\ spawning # s
    BY DEF IInv, WatchedIsInserted
  <2>2. reaper[s] \notin {"waiting", "draining", "published"}
    BY <2>1 DEF IInv, NeverLost, Listed
  <2>3. reaper[s] = "sent"
    BY <2>1, <2>2 DEF IInv, TypeOK, ReaperPhases
  <2> QED BY <2>3 DEF IInv, ReaperOrder
<1> QED BY <1>1, Inductive, PTL

\* A rename moves one session, and its entry with it.
THEOREM RenameMovesOneSession == Spec => RenameMovesOne
<1> DEFINE A == \A s \in Sid : (name[s] # NoName /\ name'[s] # name[s]) =>
                    /\ s \in Listed(registry)
                    /\ name[s] \notin DOMAIN registry'
                    /\ \A t \in Sid \ {s} : name'[t] = name[t]
<1>1. IInv /\ [Next]_vars => [A]_vars
  <2> SUFFICES ASSUME IInv, Next, NEW s \in Sid, name[s] # NoName, name'[s] # name[s]
               PROVE  /\ s \in Listed(registry)
                      /\ name[s] \notin DOMAIN registry'
                      /\ \A t \in Sid \ {s} : name'[t] = name[t]
    OBVIOUS
  <2>1. ASSUME NEW u \in Sid, NEW n, SpawnChild(u, n)
        PROVE  FALSE
    BY <2>1 DEF SpawnChild, IInv, UnbornIsNowhere, TypeOK
  <2>2. \E n \in Name, a \in Asked : Rename(n, a)
    BY <2>1 DEF Next, Requests, Tasks, Shutdown, SpawnNamed, SpawnUnnamed, Consult, Kill,
                AttachFind, AttachJoin, Answer, AnswerWritten, DropAttachment, DropClient,
                SpawnInsert, Reap,
                PublishExit, SendExit, WatchExit, ChildDies, ShutdownBegin, ShutdownHangUp,
                ShutdownGrace, ShutdownKill, ShutdownEnd, ProcessExit, regVars
  <2>3. PICK n \in Name, a \in Asked : Rename(n, a)
    BY <2>2
  <2> DEFINE live == Prune(registry)
             to == Sanitize[a]
  <2>4. /\ n \in DOMAIN registry /\ n \in DOMAIN live /\ live[n] = registry[n]
        /\ to \notin DOMAIN live
        /\ registry' = Put(Without(live, n), to, live[n])
        /\ name' = [name EXCEPT ![live[n]] = to]
    BY <2>3, PruneKeeps DEF Rename, Vetted
  <2>5. registry[n] = s /\ name[s] = n
    BY <2>4 DEF IInv, TypeOK, KeyedByOwnName
  <2>6. s \in Listed(registry)
    BY <2>4, <2>5 DEF Listed
  <2>7. n \notin DOMAIN registry'
    <3>1. DOMAIN registry' = (DOMAIN live \ {n}) \cup {to}
      BY <2>4 DEF Put, Without
    <3> QED BY <3>1, <2>4
  <2>8. \A t \in Sid \ {s} : name'[t] = name[t]
    BY <2>4, <2>5 DEF IInv, TypeOK
  <2> QED BY <2>5, <2>6, <2>7, <2>8
<1>2. Spec => [][A]_vars
  BY <1>1, Inductive, PTL DEF Spec
<1> QED BY <1>2 DEF RenameMovesOne

\* Ending is never undone, by whatever name the session was last known.
THEOREM EndingIsFinal == Spec => ExitIsFinal
<1> DEFINE A == /\ \A s \in Sid : (watcher[s] # "none" /\ s \notin Listed(registry))
                                    => s \notin Listed(registry')
                /\ \A c \in Client : (att[c].at = "none" /\ att'[c].at = "joining")
                                        => ~HasExited(att'[c].session)
<1>1. IInv /\ [Next]_vars => [A]_vars
  <2> SUFFICES ASSUME IInv, Next
               PROVE  A
    OBVIOUS
  <2>1. ASSUME registry' = Prune(registry) \/ registry' = registry
        PROVE  Listed(registry') \subseteq Listed(registry)
    BY <2>1 DEF Listed, Prune
  <2>2. ASSUME NEW s \in Sid, SpawnInsert(s)
        PROVE  A
    <3>1. Listed(registry') \subseteq Listed(registry) \cup {s} /\ watcher[s] = "none"
      BY <2>2, NamesAssumption DEF SpawnInsert, Listed, Put, IInv, ChosenStaysFree
    <3>2. att' = att
      BY <2>2 DEF SpawnInsert, attVars
    <3> QED BY <3>1, <3>2
  <2>3. ASSUME NEW n \in Name, NEW a \in Asked, Rename(n, a)
        PROVE  A
    <3>1. Listed(registry') \subseteq Listed(registry) /\ att' = att
      BY <2>3 DEF Rename, Listed, Put, Without, Prune, attVars
    <3> QED BY <3>1
  <2>4. ASSUME NEW c \in Client, NEW n \in Name, NEW r \in BOOLEAN, AttachFind(c, n, r)
        PROVE  A
    <3>1. Listed(registry') \subseteq Listed(registry)
      BY <2>1, <2>4 DEF AttachFind
    <3>2. ~HasExited(registry[n])
      BY <2>4, PruneKeeps DEF AttachFind
    <3>3. \A d \in Client : (att[d].at = "none" /\ att'[d].at = "joining")
                               => att'[d].session = registry[n]
      BY <2>4 DEF AttachFind, IInv, TypeOK
    <3> QED BY <3>1, <3>2, <3>3
  <2>5. ASSUME NEW c \in Client,
               \/ AttachJoin(c) \/ DropAttachment(c) \/ DropClient(c)
               \/ Answer(c) \/ AnswerWritten(c)
        PROVE  A
    <3>1. registry' = registry
      BY <2>5 DEF AttachJoin, DropAttachment, DropClient, Answer, AnswerWritten, regVars
    <3>2. \A d \in Client : ~(att[d].at = "none" /\ att'[d].at = "joining")
      BY <2>5 DEF AttachJoin, DropAttachment, DropClient, Answer, AnswerWritten, IInv, TypeOK,
                  Detached
    <3> QED BY <3>1, <3>2
  <2>6. ASSUME NEW s \in Sid, NEW n, SpawnChild(s, n)
        PROVE  A
    BY <2>1, <2>6 DEF SpawnChild, attVars
  <2>7. ASSUME NEW s \in Sid,
               Reap(s) \/ PublishExit(s) \/ SendExit(s) \/ WatchExit(s) \/ ChildDies(s)
        PROVE  A
    <3>1. (registry' = Prune(registry) \/ registry' = registry) /\ att' = att
      BY <2>7 DEF Reap, PublishExit, SendExit, WatchExit, ChildDies, regVars, attVars
    <3> QED BY <2>1, <3>1
  <2>8. CASE Consult \/ (\E n \in Name : Kill(n)) \/ Shutdown
    <3>1. (registry' = Prune(registry) \/ registry' = registry) /\ att' = att
      BY <2>8 DEF Consult, Kill, Shutdown, ShutdownBegin, ShutdownHangUp, ShutdownGrace,
                  ShutdownKill, ShutdownEnd, ProcessExit, regVars, attVars
    <3> QED BY <2>1, <3>1
  <2> QED
    BY <2>2, <2>3, <2>4, <2>5, <2>6, <2>7, <2>8
       DEF Next, Requests, Tasks, SpawnNamed, SpawnUnnamed
<1>2. Spec => [][A]_vars
  BY <1>1, Inductive, PTL DEF Spec
<1> QED BY <1>2 DEF ExitIsFinal

\* What a shutdown took on is dead before the process goes, and what it has
\* already dealt with in its last loop is dead before that.
ShutdownInv ==
    /\ \A s \in targets : reaper[s] # "none"
    /\ stopping = "kill" => \A s \in targets \ togo : ~alive[s]
    /\ TargetsAreDead

THEOREM ShutdownKillsItsTargets == Spec => []TargetsAreDead
<1>1. Init => ShutdownInv
  BY DEF Init, ShutdownInv, TargetsAreDead
<1>2. IInv /\ ShutdownInv /\ [Next]_vars => ShutdownInv'
  <2> SUFFICES ASSUME IInv, ShutdownInv, [Next]_vars
               PROVE  ShutdownInv'
    OBVIOUS
  <2> USE DEF ShutdownInv, TargetsAreDead
  <2>1. ASSUME UNCHANGED stopVars,
               \A t \in Sid : reaper[t] # "none" => reaper'[t] # "none" /\ (alive'[t] => alive[t])
        PROVE  ShutdownInv'
    BY <2>1 DEF stopVars, IInv, TypeOK
  <2>2. ASSUME NEW s \in Sid, NEW n, SpawnChild(s, n)
        PROVE  ShutdownInv'
    BY <2>1, <2>2 DEF SpawnChild, IInv, TypeOK
  <2>3. ASSUME NEW s \in Sid,
               SpawnInsert(s) \/ Reap(s) \/ PublishExit(s) \/ SendExit(s) \/ WatchExit(s)
                 \/ ChildDies(s)
        PROVE  ShutdownInv'
    BY <2>1, <2>3 DEF SpawnInsert, Reap, PublishExit, SendExit, WatchExit, ChildDies, IInv, TypeOK
  <2>4. CASE \/ Consult \/ \E n \in Name, a \in Asked : Rename(n, a)
             \/ \E n \in Name : Kill(n)
             \/ \E c \in Client, n \in Name, r \in BOOLEAN : AttachFind(c, n, r)
             \/ \E c \in Client : \/ AttachJoin(c) \/ DropAttachment(c) \/ DropClient(c)
                                 \/ Answer(c) \/ AnswerWritten(c)
             \/ UNCHANGED vars
    BY <2>1, <2>4 DEF Consult, Rename, Kill, AttachFind, AttachJoin, DropAttachment, DropClient,
                      Answer, AnswerWritten, lifeVars, vars
  <2>5. CASE ShutdownBegin
    <3>1. \A s \in targets' : s \in Sid /\ reaper[s] # "none"
      BY <2>5 DEF ShutdownBegin, Listed, Prune, IInv, TypeOK, UnbornIsNowhere
    <3> QED BY <2>5, <3>1 DEF ShutdownBegin, lifeVars
  <2>6. CASE ShutdownGrace \/ ShutdownEnd \/ ProcessExit
    BY <2>6 DEF ShutdownGrace, ShutdownEnd, ProcessExit, lifeVars
  <2>7. ASSUME NEW s \in Sid, ShutdownHangUp(s)
        PROVE  ShutdownInv'
    BY <2>7 DEF ShutdownHangUp, lifeVars
  <2>8. ASSUME NEW s \in Sid, ShutdownKill(s)
        PROVE  ShutdownInv'
    <3>1. \A t \in Sid : alive'[t] => alive[t] /\ t # s
      BY <2>8 DEF ShutdownKill, HasExited, IInv, TypeOK, ReaperOrder
    <3> QED BY <2>8, <3>1 DEF ShutdownKill, IInv, TypeOK
  <2> QED
    BY <2>2, <2>3, <2>4, <2>5, <2>6, <2>7, <2>8
       DEF Next, Requests, Tasks, Shutdown, SpawnNamed, SpawnUnnamed
<1>3. Spec => []ShutdownInv
  BY <1>1, <1>2, Inductive, PTL DEF Spec
<1> QED BY <1>3, PTL DEF ShutdownInv

===============================================================================
