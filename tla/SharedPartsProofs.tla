----------------------------- MODULE SharedPartsProofs -----------------------------
(***************************************************************************)
(* What holds of the parts of Parts that are about a node and what is kept *)
(* beside it, for any values of their constants: its socket, the files of  *)
(* groups and of machines that commands and clients share, and the phone,  *)
(* with its screen, its keys, the machines it knows and its connections.   *)
(* Laid out as PartsProofs.                                                *)
(***************************************************************************)
EXTENDS Parts, FiniteSetTheorems, TLAPS

(***************************************************************************)
(* What holds of Socket for any processes and commands.                    *)
(*                                                                         *)
(* A command that waited for the path to fall silent knows that the node   *)
(* it told to stop is gone only if no other node is heard in its place and *)
(* no serving node was taken off the path.  Where nodes come up one at a   *)
(* time, the path names whoever serves (ServedByPath): the one coming up   *)
(* clears it only when nobody serves, and nobody else can bind meanwhile   *)
(* (ClearedForOne).  And a node that served does not serve again           *)
(* (AskedOnce), so what was gone when the wait ended stays gone.           *)
(***************************************************************************)
path == v1
node == v2
cmd == v3
asked == v4

USE DEF path, node, cmd, asked

OneComesUp ==
    \A d, e \in Daemons : node[d] \in D!ComingUp /\ node[e] \in D!ComingUp => d = e

ServedByPath == \A d \in Daemons : node[d] \in D!Serving => path = d

ClearedForOne ==
    \A d \in Daemons : node[d] \in {"clearing", "binding"} =>
        \A e \in Daemons : node[e] \notin D!Serving

AskedOnce ==
    \A c \in SocketClients :
        /\ asked[c] # D!None => node[asked[c]] \in D!Serving \union {"gone"}
        /\ cmd[c].at \in {"draining", "stopped"} => asked[c] # D!None

StoppedIsGone ==
    \A c \in SocketClients : cmd[c].at = "stopped" => node[asked[c]] = "gone"

\* What holds of the processes, and with them of the commands.
OneAtATime == OneComesUp /\ ServedByPath /\ ClearedForOne

SInv == /\ D!TypeOK
        /\ AskedOnce
        /\ AtOnce <= 1 => OneAtATime /\ StoppedIsGone

(***************************************************************************)
(* Lemmas.                                                                 *)
(***************************************************************************)
\* When one more may start, and one is all there may be, none is coming up.
LEMMA StartsAlone ==
    ASSUME D!SocketAssumption, AtOnce <= 1, D!MayStart
    PROVE  \A d \in Daemons : node[d] \notin D!ComingUp
<1> DEFINE up == {d \in Daemons : node[d] \in D!ComingUp}
<1>0. IsFiniteSet(Daemons)
  BY DEF D!IsFiniteSet, IsFiniteSet, D!SocketAssumption
<1>1. IsFiniteSet(up)
  BY <1>0, FS_Subset
<1>2. Cardinality(up) \in Nat /\ (Cardinality(up) = 0 <=> up = {})
  BY <1>1, FS_CardinalityType, FS_EmptySet
<1>3. Cardinality(up) < AtOnce
  BY DEF D!Cardinality, Cardinality, D!MayStart
<1>4. up = {}
  BY <1>2, <1>3 DEF D!SocketAssumption
<1> QED
  BY <1>4

\* Nobody serves when nobody is heard, if whoever serves is on the path.
LEMMA SilenceIsAbsence ==
    ASSUME ServedByPath, ~D!connected, D!None \notin Daemons
    PROVE  \A d \in Daemons : node[d] \notin D!Serving
BY DEF ServedByPath, D!connected

\* A process that starts to look, alone, disturbs nothing.
LEMMA StartsLooking ==
    ASSUME SInv, D!SocketAssumption, AtOnce <= 1, D!MayStart, NEW d \in Daemons,
           node[d] = "off", D!Becomes(d, "looking"), path' = path
    PROVE  OneAtATime'
<1>1. \A e \in Daemons : node[e] \notin D!ComingUp
  BY StartsAlone
<1>2. node' = [node EXCEPT ![d] = "looking"] /\ DOMAIN node = Daemons
  BY DEF D!Becomes, SInv, D!TypeOK
<1> QED
  BY <1>1, <1>2 DEF SInv, OneAtATime, OneComesUp, ServedByPath, ClearedForOne,
     D!ComingUp, D!Serving

\* A serving process that is told to stop serves on for now; one that is gone
\* takes nobody's place.  Neither disturbs anything.
LEMMA StopsServing ==
    ASSUME SInv, AtOnce <= 1, NEW d \in Daemons, NEW s,
           \/ node[d] \in D!Serving /\ s = "stopping"
           \/ s = "gone",
           D!Becomes(d, s), path' = path
    PROVE  OneAtATime'
<1>1. node' = [node EXCEPT ![d] = s] /\ DOMAIN node = Daemons
  BY DEF D!Becomes, SInv, D!TypeOK
<1>2. OneComesUp' /\ ServedByPath'
  BY <1>1 DEF SInv, OneAtATime, OneComesUp, ServedByPath, D!ComingUp, D!Serving
<1>3. ClearedForOne'
  BY <1>1 DEF SInv, OneAtATime, ClearedForOne, D!Serving
<1> QED
  BY <1>2, <1>3 DEF OneAtATime

(***************************************************************************)
(* The processes.                                                          *)
(***************************************************************************)
\* Whatever a process does, if it takes no command's node back to life.
LEMMA CommandsStand ==
    ASSUME SInv, UNCHANGED <<cmd, asked>>,
           \A d \in Daemons : /\ node[d] = "gone" => node'[d] = "gone"
                              /\ node[d] \in D!Serving => node'[d] \in D!Serving \union {"gone"}
    PROVE  AskedOnce' /\ (AtOnce <= 1 => StoppedIsGone')
<1>1. \A c \in SocketClients : asked[c] # D!None => asked[c] \in Daemons
  BY DEF SInv, D!TypeOK
<1>2. AskedOnce'
  BY <1>1 DEF SInv, AskedOnce
<1>3. ASSUME AtOnce <= 1 PROVE StoppedIsGone'
  BY <1>1, <1>3 DEF SInv, AskedOnce, StoppedIsGone
<1> QED
  BY <1>2, <1>3

LEMMA ProcessStep ==
    ASSUME D!SocketAssumption, SInv, NEW d \in Daemons,
           \/ D!Launch(d) \/ D!Look(d) \/ D!Clear(d) \/ D!Bind(d)
           \/ D!Signalled(d) \/ D!Exit(d)
    PROVE  SInv'
<1> USE DEF SInv
<1> PICK s : D!Becomes(d, s) /\ s \in {"gone"} \union D!ComingUp \union D!Serving
  BY DEF D!Launch, D!Look, D!Clear, D!Bind, D!Signalled, D!Exit, D!ComingUp, D!Serving
<1>1. node' = [node EXCEPT ![d] = s] /\ DOMAIN node = Daemons
  BY DEF D!Becomes, D!TypeOK
<1>2. UNCHANGED <<cmd, asked>>
  BY DEF D!Launch, D!Look, D!Clear, D!Bind, D!Signalled, D!Exit
<1>3. path' \in Daemons \union {D!None}
  BY DEF D!Launch, D!Look, D!Clear, D!Bind, D!Signalled, D!Exit, D!TypeOK
<1>4. D!TypeOK'
  BY <1>1, <1>2, <1>3 DEF D!TypeOK
<1>5. AskedOnce' /\ (AtOnce <= 1 => StoppedIsGone')
  <2>1. \A e \in Daemons : /\ node[e] = "gone" => node'[e] = "gone"
                           /\ node[e] \in D!Serving => node'[e] \in D!Serving \union {"gone"}
    BY <1>1 DEF D!Launch, D!Look, D!Clear, D!Bind, D!Signalled, D!Exit, D!Becomes, D!ComingUp, D!Serving
  <2> QED
    BY <1>2, <2>1, CommandsStand
<1>6. ASSUME AtOnce <= 1 PROVE OneAtATime'
  <2>1. CASE D!Launch(d)
    BY <1>6, <2>1, StartsLooking DEF D!Launch
  <2>2. CASE D!Look(d)
    <3>1. CASE D!connected
      BY <1>6, <2>2, <3>1, StopsServing DEF D!Look
    <3>2. CASE ~D!connected
      <4>1. \A e \in Daemons : node[e] \notin D!Serving
        BY <1>6, <3>2, SilenceIsAbsence DEF OneAtATime, D!SocketAssumption, D!None
      <4>2. node' = [node EXCEPT ![d] = "clearing"] /\ node[d] = "looking"
        BY <2>2, <3>2 DEF D!Look, D!Becomes
      <4> QED
        BY <1>1, <1>6, <4>1, <4>2
        DEF OneAtATime, OneComesUp, ServedByPath, ClearedForOne, D!ComingUp, D!Serving
    <3> QED
      BY <3>1, <3>2
  <2>3. CASE D!Clear(d)
    <3>1. \A e \in Daemons : node[e] \notin D!Serving
      BY <1>6, <2>3 DEF D!Clear, OneAtATime, ClearedForOne
    <3>2. node' = [node EXCEPT ![d] = "binding"] /\ node[d] = "clearing"
      BY <2>3 DEF D!Clear, D!Becomes
    <3> QED
      BY <1>1, <1>6, <3>1, <3>2
      DEF OneAtATime, OneComesUp, ServedByPath, ClearedForOne, D!ComingUp, D!Serving
  <2>4. CASE D!Bind(d) /\ path # D!None
    BY <1>6, <2>4, StopsServing DEF D!Bind
  <2>5. CASE D!Bind(d) /\ path = D!None
    <3>1. \A e \in Daemons : node[e] \notin D!Serving
      BY <1>6, <2>5 DEF D!Bind, OneAtATime, ClearedForOne
    <3>2. /\ node' = [node EXCEPT ![d] = "serving"] /\ node[d] = "binding"
          /\ path' = d
      BY <2>5 DEF D!Bind, D!Becomes
    <3>3. \A e \in Daemons : node[e] \in D!ComingUp => e = d
      BY <1>6, <3>2 DEF OneAtATime, OneComesUp, D!ComingUp
    <3> QED
      BY <1>1, <3>1, <3>2, <3>3
      DEF OneAtATime, OneComesUp, ServedByPath, ClearedForOne, D!ComingUp, D!Serving
  <2>6. CASE D!Signalled(d)
    BY <1>6, <2>6, StopsServing DEF D!Signalled, D!Serving
  <2>7. CASE D!Exit(d)
    BY <1>6, <2>7, StopsServing DEF D!Exit
  <2> QED
    BY <2>1, <2>2, <2>3, <2>4, <2>5, <2>6, <2>7
<1> QED
  BY <1>4, <1>5, <1>6

(***************************************************************************)
(* The commands.                                                           *)
(***************************************************************************)
\* Going somewhere keeps a command a command.
LEMMA GoesKeepsType ==
    ASSUME D!TypeOK, NEW c \in SocketClients, NEW at \in D!Waits,
           NEW to \in Daemons \union {D!None}, D!Goes(c, at, to)
    PROVE  /\ cmd' \in [SocketClients -> [does: D!Then, at: D!Waits, to: Daemons \union {D!None}]]
           /\ cmd'[c].at = at
           /\ \A b \in SocketClients : b # c => cmd'[b] = cmd[b]
BY DEF D!TypeOK, D!Goes

LEMMA RestingType ==
    D!Resting \in [does: D!Then, at: D!Waits, to: Daemons \union {D!None}]
BY DEF D!Resting, D!Then, D!Waits

\* A command that moves on by itself, to a place where it claims nothing.
LEMMA MovesOn ==
    ASSUME SInv, NEW c \in SocketClients,
           cmd' \in [SocketClients -> [does: D!Then, at: D!Waits, to: Daemons \union {D!None}]],
           cmd'[c].at \notin {"draining", "stopped"},
           \A b \in SocketClients : b # c => cmd'[b] = cmd[b],
           asked' = asked \/ asked' = [asked EXCEPT ![c] = D!None],
           UNCHANGED <<path, node>>
    PROVE  SInv'
<1> USE DEF SInv
<1>1. /\ asked' \in [SocketClients -> Daemons \union {D!None}]
      /\ asked'[c] = asked[c] \/ asked'[c] = D!None
      /\ \A b \in SocketClients : b # c => asked'[b] = asked[b]
  BY DEF D!TypeOK
<1>2. D!TypeOK'
  BY <1>1 DEF D!TypeOK
<1>3. AskedOnce'
  BY <1>1 DEF AskedOnce
<1>4. OneAtATime => OneAtATime'
  BY DEF OneAtATime, OneComesUp, ServedByPath, ClearedForOne
<1>5. StoppedIsGone => StoppedIsGone'
  BY <1>1 DEF StoppedIsGone
<1> QED
  BY <1>2, <1>3, <1>4, <1>5

\* A command tells the node d, which serves, to stop, and waits.
LEMMA TellsToStop ==
    ASSUME SInv, D!SocketAssumption, NEW c \in SocketClients, NEW d \in Daemons,
           node[d] \in D!Serving, D!Becomes(d, "stopping"), path' = path,
           D!Goes(c, "draining", D!None), asked' = [asked EXCEPT ![c] = d]
    PROVE  SInv'
<1> USE DEF SInv
<1>1. /\ cmd' \in [SocketClients -> [does: D!Then, at: D!Waits, to: Daemons \union {D!None}]]
      /\ cmd'[c].at = "draining"
      /\ \A b \in SocketClients : b # c => cmd'[b] = cmd[b]
  BY GoesKeepsType DEF D!Waits
<1>2. node' = [node EXCEPT ![d] = "stopping"] /\ DOMAIN node = Daemons
  BY DEF D!Becomes, D!TypeOK
<1>3. D!TypeOK'
  BY <1>1, <1>2 DEF D!TypeOK, D!Serving
<1>4. /\ asked'[c] = d /\ d # D!None
      /\ \A b \in SocketClients : /\ b # c => asked'[b] = asked[b]
                                  /\ asked[b] # D!None => asked[b] \in Daemons
  BY DEF D!TypeOK, D!SocketAssumption, D!None
<1>5. \A e \in Daemons : node[e] \in D!Serving \union {"gone"} =>
          node'[e] \in D!Serving \union {"gone"}
  BY <1>2 DEF D!Serving
<1>6. AskedOnce'
  <2>1. node'[d] \in D!Serving
    BY <1>2 DEF D!Serving
  <2> QED
    BY <1>1, <1>4, <1>5, <2>1 DEF AskedOnce
<1>7. ASSUME AtOnce <= 1 PROVE OneAtATime'
  BY <1>7, StopsServing
<1>8. ASSUME AtOnce <= 1 PROVE StoppedIsGone'
  <2>1. SUFFICES ASSUME NEW b \in SocketClients, cmd'[b].at = "stopped"
                 PROVE  node'[asked'[b]] = "gone"
    BY DEF StoppedIsGone
  <2>2. b # c /\ cmd[b].at = "stopped" /\ asked'[b] = asked[b]
    BY <1>1, <1>4, <2>1
  <2>3. asked[b] \in Daemons /\ node[asked[b]] = "gone"
    BY <1>4, <1>8, <2>2 DEF StoppedIsGone, AskedOnce
  <2> QED
    BY <1>2, <2>2, <2>3 DEF D!Serving
<1> QED
  BY <1>3, <1>6, <1>7, <1>8

LEMMA CommandStep ==
    ASSUME D!SocketAssumption, SInv, NEW c \in SocketClients,
           \/ \E does \in D!Then : D!Command(c, does)
           \/ D!ensure_running(c) \/ D!Started(c) \/ D!Connect(c) \/ D!ask_to_stop(c)
           \/ D!signal_node(c) \/ D!Stopped(c) \/ D!Again(c) \/ D!Ends(c)
    PROVE  SInv'
<1> DEFINE Cmds == [does: D!Then, at: D!Waits, to: Daemons \union {D!None}]
<1>1. ASSUME NEW does \in D!Then, D!Command(c, does) PROVE SInv'
  <2> DEFINE new == [does |-> does, to |-> D!None,
                 at |-> IF does = "start" THEN "looking up" ELSE "connecting"]
  <2>1. new \in Cmds /\ new.at \notin {"draining", "stopped"}
    BY DEF D!Waits
  <2>2. cmd' = [cmd EXCEPT ![c] = new] /\ cmd \in [SocketClients -> Cmds]
    BY <1>1 DEF D!Command, SInv, D!TypeOK
  <2> HIDE DEF new
  <2>3. /\ cmd' \in [SocketClients -> Cmds] /\ cmd'[c] = new
        /\ \A b \in SocketClients : b # c => cmd'[b] = cmd[b]
    BY <2>1, <2>2
  <2> QED
    BY <1>1, <2>1, <2>3, MovesOn DEF D!Command
<1>2. CASE D!ensure_running(c) /\ D!connected
  <2>1. cmd' = [cmd EXCEPT ![c] = D!Resting] /\ cmd \in [SocketClients -> Cmds]
    BY <1>2 DEF D!ensure_running, SInv, D!TypeOK
  <2>2. /\ cmd' \in [SocketClients -> Cmds] /\ cmd'[c].at = "idle"
        /\ \A b \in SocketClients : b # c => cmd'[b] = cmd[b]
    BY <2>1, RestingType DEF D!Resting
  <2> QED
    BY <1>2, <2>2, MovesOn DEF D!ensure_running
<1>3. CASE D!ensure_running(c) /\ ~D!connected
  <2> USE DEF SInv
  <2>1. PICK d \in Daemons : node[d] = "off" /\ D!Becomes(d, "looking")
    BY <1>3 DEF D!ensure_running
  <2>2. /\ D!MayStart /\ D!Goes(c, "starting", D!None) /\ path' = path
        /\ asked' = [asked EXCEPT ![c] = D!None]
    BY <1>3 DEF D!ensure_running
  <2>3. /\ cmd' \in [SocketClients -> Cmds] /\ cmd'[c].at = "starting"
        /\ \A b \in SocketClients : b # c => cmd'[b] = cmd[b]
    BY <2>2, GoesKeepsType DEF D!Waits
  <2>4. node' = [node EXCEPT ![d] = "looking"] /\ DOMAIN node = Daemons
    BY <2>1 DEF D!Becomes, D!TypeOK
  <2>5. D!TypeOK'
    BY <2>2, <2>3, <2>4 DEF D!TypeOK, D!ComingUp
  <2>6. /\ asked'[c] = D!None
        /\ \A b \in SocketClients : /\ b # c => asked'[b] = asked[b]
                                    /\ asked[b] # D!None => asked[b] \in Daemons
    BY <2>2 DEF D!TypeOK
  <2>7. \A e \in Daemons : node[e] # "off" => node'[e] = node[e]
    BY <2>1, <2>4
  <2>8. AskedOnce'
    <3> SUFFICES ASSUME NEW b \in SocketClients
                 PROVE  /\ asked'[b] # D!None => node'[asked'[b]] \in D!Serving \union {"gone"}
                        /\ cmd'[b].at \in {"draining", "stopped"} => asked'[b] # D!None
      BY DEF AskedOnce, D!None
    <3>1. CASE b = c
      BY <2>3, <2>6, <3>1
    <3>2. CASE b # c
      <4>1. asked[b] # D!None => /\ asked[b] \in Daemons
                                 /\ node[asked[b]] \in D!Serving \union {"gone"}
        BY <2>6 DEF AskedOnce
      <4>2. "off" \notin D!Serving \union {"gone"}
        BY DEF D!Serving
      <4>3. asked[b] # D!None => node'[asked[b]] \in D!Serving \union {"gone"}
        BY <2>7, <4>1, <4>2
      <4> QED
        BY <2>3, <2>6, <3>2, <4>3 DEF AskedOnce
    <3> QED
      BY <3>1, <3>2
  <2>9. AtOnce <= 1 => OneAtATime'
    BY <2>1, <2>2, StartsLooking
  <2>10. AtOnce <= 1 => StoppedIsGone'
    BY <2>3, <2>6, <2>7 DEF AskedOnce, StoppedIsGone
  <2> QED
    BY <2>5, <2>8, <2>9, <2>10
<1>4. CASE D!Started(c)
  <2>1. CASE cmd' = [cmd EXCEPT ![c] = D!Resting]
    <3>1. cmd \in [SocketClients -> Cmds]
      BY DEF SInv, D!TypeOK
    <3>2. /\ cmd' \in [SocketClients -> Cmds] /\ cmd'[c].at = "idle"
          /\ \A b \in SocketClients : b # c => cmd'[b] = cmd[b]
      BY <2>1, <3>1, RestingType DEF D!Resting
    <3> QED
      BY <1>4, <3>2, MovesOn DEF D!Started
  <2>2. CASE D!Goes(c, "failed", D!None)
    <3>1. /\ cmd' \in [SocketClients -> Cmds] /\ cmd'[c].at = "failed"
          /\ \A b \in SocketClients : b # c => cmd'[b] = cmd[b]
      BY <2>2, GoesKeepsType DEF SInv, D!Waits
    <3> QED
      BY <1>4, <3>1, MovesOn DEF D!Started
  <2> QED
    BY <1>4, <2>1, <2>2 DEF D!Started
<1>5. CASE D!Connect(c)
  <2>1. PICK at \in {"connecting", "signalling"}, to \in Daemons \union {D!None} :
            D!Goes(c, at, to)
    BY <1>5 DEF D!Connect, D!connected, SInv, D!TypeOK
  <2>2. /\ cmd' \in [SocketClients -> Cmds] /\ cmd'[c].at = at
        /\ \A b \in SocketClients : b # c => cmd'[b] = cmd[b]
    BY <2>1, GoesKeepsType DEF SInv, D!Waits
  <2> QED
    BY <1>5, <2>2, MovesOn DEF D!Connect
<1>6. CASE D!ask_to_stop(c) \/ D!signal_node(c)
  <2>1. CASE \E d \in Daemons : /\ node[d] \in D!Serving /\ D!Becomes(d, "stopping")
                                /\ D!Goes(c, "draining", D!None)
                                /\ asked' = [asked EXCEPT ![c] = d]
    BY <1>6, <2>1, TellsToStop DEF D!ask_to_stop, D!signal_node
  <2>2. CASE \E at \in {"signalling", "failed"} :
                 D!Goes(c, at, D!None) /\ UNCHANGED <<node, asked>>
    <3>1. PICK at \in {"signalling", "failed"} : D!Goes(c, at, D!None)
      BY <2>2
    <3>2. /\ cmd' \in [SocketClients -> Cmds] /\ cmd'[c].at = at
          /\ \A b \in SocketClients : b # c => cmd'[b] = cmd[b]
      BY <3>1, GoesKeepsType DEF SInv, D!Waits
    <3> QED
      BY <1>6, <2>2, <3>2, MovesOn DEF D!ask_to_stop, D!signal_node
  <2>3. cmd[c].to \in Daemons \union {D!None} /\ path \in Daemons \union {D!None}
    BY DEF SInv, D!TypeOK
  <2> QED
    BY <1>6, <2>1, <2>2, <2>3 DEF D!ask_to_stop, D!signal_node, D!connected
<1>7. CASE D!Stopped(c) /\ D!connected
  <2>1. /\ cmd' \in [SocketClients -> Cmds] /\ cmd'[c].at = "failed"
        /\ \A b \in SocketClients : b # c => cmd'[b] = cmd[b]
    BY <1>7, GoesKeepsType DEF D!Stopped, SInv, D!Waits
  <2> QED
    BY <1>7, <2>1, MovesOn DEF D!Stopped
<1>8. CASE D!Stopped(c) /\ ~D!connected
  <2> USE DEF SInv
  <2>1. /\ cmd' \in [SocketClients -> Cmds] /\ cmd'[c].at = "stopped"
        /\ \A b \in SocketClients : b # c => cmd'[b] = cmd[b]
    BY <1>8, GoesKeepsType DEF D!Stopped, D!Waits
  <2>2. cmd[c].at = "draining" /\ UNCHANGED <<path, node, asked>>
    BY <1>8 DEF D!Stopped
  <2>3. D!TypeOK' /\ AskedOnce'
    BY <2>1, <2>2 DEF D!TypeOK, AskedOnce
  <2>4. OneAtATime => OneAtATime'
    BY <2>2 DEF OneAtATime, OneComesUp, ServedByPath, ClearedForOne
  \* The silence: nobody serves, and the node that was told is not off.
  <2>5. ASSUME AtOnce <= 1 PROVE StoppedIsGone'
    <3>1. \A d \in Daemons : node[d] \notin D!Serving
      BY <1>8, <2>5, SilenceIsAbsence DEF OneAtATime, D!SocketAssumption, D!None
    <3>2. asked[c] \in Daemons /\ node[asked[c]] = "gone"
      BY <2>2, <3>1 DEF D!TypeOK, AskedOnce
    <3> QED
      BY <2>1, <2>2, <2>5, <3>2 DEF StoppedIsGone
  <2> QED
    BY <2>3, <2>4, <2>5
<1>9. CASE D!Again(c)
  <2>1. /\ cmd' \in [SocketClients -> Cmds] /\ cmd'[c].at = "looking up"
        /\ \A b \in SocketClients : b # c => cmd'[b] = cmd[b]
    BY <1>9, GoesKeepsType DEF D!Again, SInv, D!Waits
  <2> QED
    BY <1>9, <2>1, MovesOn DEF D!Again
<1>10. CASE D!Ends(c)
  <2>1. cmd' = [cmd EXCEPT ![c] = D!Resting] /\ cmd \in [SocketClients -> Cmds]
    BY <1>10 DEF D!Ends, SInv, D!TypeOK
  <2>2. /\ cmd' \in [SocketClients -> Cmds] /\ cmd'[c].at = "idle"
        /\ \A b \in SocketClients : b # c => cmd'[b] = cmd[b]
    BY <2>1, RestingType DEF D!Resting
  <2> QED
    BY <1>10, <2>2, MovesOn DEF D!Ends
<1> QED
  BY <1>1, <1>2, <1>3, <1>4, <1>5, <1>6, <1>7, <1>8, <1>9, <1>10

(***************************************************************************)
(* The theorems.                                                           *)
(***************************************************************************)
LEMMA SInitially ==
    ASSUME D!SocketAssumption
    PROVE  D!Init => SInv
BY RestingType DEF D!Init, SInv, D!TypeOK, AskedOnce, OneAtATime, OneComesUp,
   ServedByPath, ClearedForOne, StoppedIsGone, D!Resting, D!ComingUp, D!Serving

LEMMA SPreserved ==
    ASSUME D!SocketAssumption
    PROVE  SInv /\ [D!Next]_(D!vars) => SInv'
<1> SUFFICES ASSUME SInv, [D!Next]_(D!vars) PROVE SInv'
  OBVIOUS
<1>1. CASE UNCHANGED D!vars
  BY <1>1 DEF D!vars, SInv, D!TypeOK, AskedOnce, OneAtATime, OneComesUp,
     ServedByPath, ClearedForOne, StoppedIsGone
<1>2. CASE D!Next
  BY <1>2, ProcessStep, CommandStep DEF D!Next
<1> QED
  BY <1>1, <1>2

\* What a command was told of stays so.
LEMMA SHolds == SInv => D!StoppedMeansGone
BY DEF SInv, StoppedIsGone, D!StoppedMeansGone, D!Serving

\* Whatever it does, a behaviour that is of the socket keeps it.
SPart == part = "socket" => SInv

LEMMA SPartInitially == Init => SPart
<1> SUFFICES ASSUME Init, part = "socket" PROVE SInv
  BY DEF SPart
<1>1. D!Init
  BY DEF Init
<1> QED
  BY <1>1, SocketAssumed, SInitially

LEMMA SPartStep ==
    ASSUME [Next]_vars, part' = "socket"
    PROVE  part = "socket" /\ [D!Next]_(D!vars)
<1>1. CASE UNCHANGED vars
  BY <1>1 DEF vars, Beyond19, Beyond17, Beyond13, Beyond12, Beyond10,
     Beyond9, Beyond8, Beyond7, Beyond4,
     D!vars
<1>2. CASE Next
  BY <1>2 DEF Next
<1> QED
  BY <1>1, <1>2

LEMMA SPartPreserved == SPart /\ [Next]_vars => SPart'
<1> SUFFICES ASSUME SPart, [Next]_vars, part' = "socket" PROVE SInv'
  BY DEF SPart
<1> QED
  BY SPartStep, SPreserved, SocketAssumed DEF SPart

HIDE DEF path, node, cmd, asked

(***************************************************************************)
(* What holds of Groups for any sessions, machines, groups and clients.    *)
(*                                                                         *)
(* OnlyAHandMovesIt is about the step that installs a file.  It rests on   *)
(* two things.  What is installed is the change of the file as it stands:  *)
(* the lock is held from the read on (LockIsHeld), so nobody else writes   *)
(* in between (CopyIsFresh).  And a listing never takes out a session that *)
(* runs: what it may take out was in the file before it asked, so it had   *)
(* started by then, and if it runs now it ran when its machine answered    *)
(* and is in the listing (ListingsKnow).                                   *)
(***************************************************************************)
born == v1
live == v2
file == v3
lock == v4
pc == v5
intent == v6
copy == v7

USE DEF born, live, file, lock, pc, intent, copy

Intents == [kind: {"none", "hand", "listing"}, on: GroupsSessions \union {G!NoOne},
            to: GroupsNames \union {G!NoOne}, before: G!Contents, reached: SUBSET GroupsHosts,
            listing: SUBSET GroupsSessions]

\* A client that is on its way to the lock knows what it is going to change.
MeansIt(p, i) ==
    /\ p = "asking" => i.kind = "listing"
    /\ p \in {"ready", "reading", "writing"} => i.kind \in {"hand", "listing"}
    /\ i.kind = "hand" => i.on \in born \intersect GroupsSessions

\* What a listing is going to leave alone.
Knows(i) ==
    \A g \in GroupsNames, s \in GroupsSessions : s \in i.before[g] =>
        /\ s \in born
        /\ s \in live /\ HostOf[s] \in i.reached => s \in i.listing

Intended ==
    /\ intent \in [GroupsClients -> Intents]
    /\ \A c \in GroupsClients : MeansIt(pc[c], intent[c])

FileIsBorn  == \A g \in GroupsNames : file[g] \subseteq born
ListingsKnow == \A c \in GroupsClients : Knows(intent[c])
LockIsHeld  == \A c \in GroupsClients : pc[c] \in {"reading", "writing"} => lock = c
CopyIsFresh == \A c \in GroupsClients : pc[c] = "writing" =>
                   copy[c] = G!change(file, intent[c])

GInv == /\ G!TypeOK /\ Intended /\ FileIsBorn /\ ListingsKnow
        /\ LockIsHeld /\ CopyIsFresh

(***************************************************************************)
(* Lemmas about the changes.                                               *)
(***************************************************************************)
\* A hand's change leaves a file, and every other session where it was.
LEMMA SetMovesOne ==
    ASSUME G!GroupsAssumption, NEW f \in G!Contents, NEW s \in GroupsSessions,
           NEW g \in GroupsNames \union {G!NoOne}
    PROVE  /\ G!set(f, g, s) \in G!Contents
           /\ G!InOneAtMost(f) => G!InOneAtMost(G!set(f, g, s))
           /\ \A t \in GroupsSessions : t # s =>
                  G!group_of(G!set(f, g, s), t) = G!group_of(f, t)
           /\ \A h \in GroupsNames : G!set(f, g, s)[h] \subseteq f[h] \union {s}
<1> DEFINE new == G!set(f, g, s)
<1>1. /\ new \in G!Contents
      /\ \A h \in GroupsNames : \A t \in GroupsSessions :
             t \in new[h] <=> (IF t = s THEN h = g ELSE t \in f[h])
  <2>1. CASE g = G!NoOne
    BY <2>1 DEF G!GroupsAssumption, G!NoOne, G!Contents, G!set, G!clear
  <2>2. CASE g # G!NoOne
    <3>1. g \in GroupsNames
      BY <2>2
    <3> QED
      BY <2>2, <3>1 DEF G!Contents, G!set, G!clear, G!assign
  <2> QED
    BY <2>1, <2>2
<1>2. \A t \in GroupsSessions : t # s => G!group_of(new, t) = G!group_of(f, t)
  BY <1>1 DEF G!group_of
<1>3. \A h \in GroupsNames : new[h] \subseteq f[h] \union {s}
  BY <1>1 DEF G!Contents
<1>4. ASSUME G!InOneAtMost(f) PROVE G!InOneAtMost(new)
  BY <1>1, <1>4 DEF G!InOneAtMost, G!group_of
<1> QED
  BY <1>1, <1>2, <1>3, <1>4

\* A listing's change only takes out, and nobody it knows to be running.
LEMMA RefreshTakesOut ==
    ASSUME NEW f \in G!Contents, NEW i \in Intents
    PROVE  LET new == G!refresh(f, i.before, i.reached, i.listing) IN
           /\ new \in G!Contents
           /\ G!InOneAtMost(f) => G!InOneAtMost(new)
           /\ \A h \in GroupsNames : new[h] \subseteq f[h]
           /\ Knows(i) => \A s \in live \intersect GroupsSessions :
                              G!group_of(new, s) = G!group_of(f, s)
<1> DEFINE new == G!refresh(f, i.before, i.reached, i.listing)
<1>1. i.before \in G!Contents
  BY DEF Intents
<1>2. /\ new \in G!Contents
      /\ \A h \in GroupsNames : \A s \in GroupsSessions :
             s \in new[h] <=> /\ s \in f[h]
                              /\ \/ s \notin i.before[h]
                                 \/ HostOf[s] \notin i.reached
                                 \/ s \in i.listing
  BY <1>1 DEF G!Contents, G!refresh, G!prune
<1>3. \A h \in GroupsNames : new[h] \subseteq f[h]
  BY <1>2 DEF G!Contents
<1>4. ASSUME G!InOneAtMost(f) PROVE G!InOneAtMost(new)
  BY <1>2, <1>4 DEF G!InOneAtMost, G!group_of
<1>5. ASSUME Knows(i), NEW s \in live \intersect GroupsSessions
      PROVE  G!group_of(new, s) = G!group_of(f, s)
  BY <1>2, <1>5 DEF Knows, G!group_of
<1> QED
  BY <1>2, <1>3, <1>4, <1>5

\* So whatever a client means to do leaves a file of sessions that started.
LEMMA ChangeKeepsAFile ==
    ASSUME GInv, G!GroupsAssumption, NEW c \in GroupsClients,
           pc[c] \in {"reading", "writing"}
    PROVE  LET new == G!change(file, intent[c]) IN
           /\ new \in G!Contents /\ G!InOneAtMost(new)
           /\ \A g \in GroupsNames : new[g] \subseteq born
<1> USE DEF GInv
<1>1. file \in G!Contents /\ G!InOneAtMost(file) /\ intent[c] \in Intents
  BY DEF G!TypeOK, Intended
<1>2. intent[c].kind \in {"hand", "listing"}
  BY DEF Intended, MeansIt
<1>3. CASE intent[c].kind = "hand"
  <2>1. intent[c].on \in born /\ intent[c].on \in GroupsSessions
    BY <1>3 DEF Intended, MeansIt
  <2>2. intent[c].to \in GroupsNames \union {G!NoOne}
    BY <1>1 DEF Intents
  <2>3. G!change(file, intent[c]) = G!set(file, intent[c].to, intent[c].on)
    BY <1>3 DEF G!change
  <2> QED
    BY <1>1, <2>1, <2>2, <2>3, SetMovesOne DEF FileIsBorn
<1>4. CASE intent[c].kind = "listing"
  <2>1. G!change(file, intent[c]) =
            G!refresh(file, intent[c].before, intent[c].reached, intent[c].listing)
    BY <1>4 DEF G!change
  <2> QED
    BY <1>1, <2>1, RefreshTakesOut DEF FileIsBorn
<1> QED
  BY <1>2, <1>3, <1>4

(***************************************************************************)
(* The invariant.                                                          *)
(***************************************************************************)
LEMMA RestingMeansNothing ==
    G!Resting \in Intents /\ MeansIt("idle", G!Resting) /\ Knows(G!Resting)
BY DEF G!Resting, Intents, G!Empty, G!Contents, MeansIt, Knows, G!NoOne

LEMMA GInitially == G!Init => GInv
<1> SUFFICES ASSUME G!Init PROVE GInv
  OBVIOUS
<1>1. G!TypeOK
  BY DEF G!Init, G!TypeOK, G!Empty, G!Contents
<1>2. Intended
  BY RestingMeansNothing DEF G!Init, Intended
<1>3. ListingsKnow
  BY RestingMeansNothing DEF G!Init, ListingsKnow
<1>4. FileIsBorn /\ LockIsHeld /\ CopyIsFresh
  BY DEF G!Init, FileIsBorn, LockIsHeld, CopyIsFresh
<1> QED
  BY <1>1, <1>2, <1>3, <1>4 DEF GInv

\* A copy stays what its client is going to write while the file does.
LEMMA CopiesStayFresh ==
    ASSUME CopyIsFresh, file' = file,
           \A d \in GroupsClients : pc'[d] = "writing" =>
               pc[d] = "writing" /\ intent'[d] = intent[d] /\ copy'[d] = copy[d]
    PROVE  CopyIsFresh'
<1>1. ASSUME NEW d \in GroupsClients, pc'[d] = "writing"
      PROVE  copy'[d] = G!change(file', intent'[d])
  BY <1>1 DEF CopyIsFresh
<1> QED
  BY <1>1 DEF CopyIsFresh, G!change, G!refresh, G!prune, G!set, G!assign, G!clear

\* The sessions of the machines start and end.
LEMMA SessionStep ==
    ASSUME GInv, NEW s \in GroupsSessions, G!Starts(s) \/ G!Ends(s)
    PROVE  GInv'
<1> USE DEF GInv
<1>1. /\ UNCHANGED <<file, lock, pc, intent, copy>>
      /\ live' \subseteq born' /\ born \subseteq born' /\ born' \subseteq GroupsSessions
      /\ \A t \in born : t \in live' => t \in live
  BY DEF G!Starts, G!Ends, G!TypeOK
<1>2. G!TypeOK'
  BY <1>1 DEF G!TypeOK, G!InOneAtMost, G!group_of
<1>3. Intended'
  BY <1>1 DEF Intended, MeansIt
<1>4. FileIsBorn' /\ LockIsHeld'
  BY <1>1 DEF FileIsBorn, LockIsHeld
<1>5. CopyIsFresh'
  BY <1>1, CopiesStayFresh
<1>6. ListingsKnow'
  BY <1>1 DEF ListingsKnow, Knows
<1> QED
  BY <1>2, <1>3, <1>4, <1>5, <1>6

\* A client makes up its mind, without the lock.
LEMMA MindStep ==
    ASSUME GInv, NEW c \in GroupsClients, NEW p \in {"asking", "ready"},
           NEW i \in Intents, MeansIt(p, i), Knows(i),
           pc' = [pc EXCEPT ![c] = p], intent' = [intent EXCEPT ![c] = i],
           UNCHANGED <<born, live, file, lock, copy>>
    PROVE  GInv'
<1> USE DEF GInv
<1>1. /\ pc'[c] = p /\ intent'[c] = i
      /\ \A d \in GroupsClients : d # c => pc'[d] = pc[d] /\ intent'[d] = intent[d]
  BY DEF G!TypeOK, Intended
<1>2. G!TypeOK'
  BY DEF G!TypeOK, G!InOneAtMost, G!group_of
<1>3. Intended'
  BY <1>1 DEF Intended, MeansIt
<1>4. FileIsBorn'
  BY DEF FileIsBorn
<1>5. ListingsKnow'
  BY <1>1 DEF ListingsKnow, Knows
<1>6. LockIsHeld'
  BY <1>1 DEF LockIsHeld
<1>7. CopyIsFresh'
  BY <1>1, CopiesStayFresh
<1> QED
  BY <1>2, <1>3, <1>4, <1>5, <1>6, <1>7

\* A client is done, and holds nothing.
LEMMA LetsStep ==
    ASSUME GInv, G!GroupsAssumption, NEW c \in GroupsClients, G!Lets(c),
           \/ file' = file
           \/ pc[c] = "writing" /\ file' = copy[c]
    PROVE  GInv'
<1> USE DEF GInv
<1>1. /\ pc' = [pc EXCEPT ![c] = "idle"]
      /\ intent' = [intent EXCEPT ![c] = G!Resting]
      /\ copy' = [copy EXCEPT ![c] = G!Empty]
      /\ lock' = IF lock = c THEN G!NoOne ELSE lock
      /\ born' = born /\ live' = live
  BY DEF G!Lets, G!Goes
<1>2. /\ pc'[c] = "idle" /\ intent'[c] = G!Resting
      /\ \A d \in GroupsClients : d # c => /\ pc'[d] = pc[d] /\ intent'[d] = intent[d]
                                           /\ copy'[d] = copy[d]
  BY <1>1 DEF G!TypeOK, Intended
<1>3. file' \in G!Contents /\ G!InOneAtMost(file') /\ \A g \in GroupsNames : file'[g] \subseteq born
  <2>1. CASE file' = file
    BY <2>1 DEF G!TypeOK, FileIsBorn
  <2>2. CASE pc[c] = "writing" /\ file' = copy[c]
    BY <2>2, ChangeKeepsAFile DEF CopyIsFresh
  <2> QED
    BY <2>1, <2>2
<1>4. G!TypeOK'
  <2>1. G!Empty \in G!Contents
    BY DEF G!Empty, G!Contents
  <2>2. G!InOneAtMost(file)'
    BY <1>3 DEF G!InOneAtMost, G!group_of
  <2>3. (file \in G!Contents)'
    BY <1>3 DEF G!Contents
  <2> QED
    BY <1>1, <2>1, <2>2, <2>3 DEF G!TypeOK
<1>5. Intended'
  <2>1. MeansIt("idle", G!Resting)'
    BY DEF MeansIt, G!Resting
  <2> QED
    BY <1>1, <1>2, <2>1, RestingMeansNothing DEF Intended, MeansIt
<1>6. FileIsBorn'
  BY <1>1, <1>3 DEF FileIsBorn
<1>7. ListingsKnow'
  BY <1>1, <1>2, RestingMeansNothing DEF ListingsKnow, Knows
<1>8. LockIsHeld'
  BY <1>1, <1>2 DEF LockIsHeld
<1>9. CopyIsFresh'
  <2>1. ASSUME NEW d \in GroupsClients, pc'[d] = "writing" PROVE file' = file
    BY <1>2, <2>1 DEF LockIsHeld
  <2> QED
    <3>1. CASE \A d \in GroupsClients : pc'[d] # "writing"
      BY <3>1 DEF CopyIsFresh
    <3>2. CASE \E d \in GroupsClients : pc'[d] = "writing"
      BY <1>2, <2>1, <3>2, CopiesStayFresh
    <3> QED
      BY <3>1, <3>2
<1> QED
  BY <1>4, <1>5, <1>6, <1>7, <1>8, <1>9

LEMMA GPreserved ==
    ASSUME G!GroupsAssumption
    PROVE  GInv /\ [G!Next]_(G!vars) => GInv'
<1> SUFFICES ASSUME GInv, [G!Next]_(G!vars) PROVE GInv'
  OBVIOUS
<1> USE DEF GInv
<1>1. CASE UNCHANGED G!vars
  <2>1. CopyIsFresh'
    BY <1>1, CopiesStayFresh DEF G!vars
  <2> QED
    BY <1>1, <2>1 DEF G!vars, G!TypeOK, G!InOneAtMost, G!group_of, Intended, MeansIt,
       FileIsBorn, ListingsKnow, Knows, LockIsHeld
<1>2. ASSUME NEW s \in GroupsSessions, G!Starts(s) \/ G!Ends(s) PROVE GInv'
  BY <1>2, SessionStep
<1>3. ASSUME NEW c \in GroupsClients, NEW s \in GroupsSessions, NEW g \in GroupsNames \union {G!NoOne},
             G!ByHand(c, s, g)
      PROVE  GInv'
  <2> DEFINE i == [G!Resting EXCEPT !.kind = "hand", !.on = s, !.to = g]
  <2>1. i \in Intents /\ i.kind = "hand" /\ i.on = s /\ i.before = G!Empty
    BY RestingMeansNothing DEF G!Resting, Intents
  <2>2. s \in born
    BY <1>3 DEF G!ByHand, G!TypeOK
  <2>3. MeansIt("ready", i) /\ Knows(i)
    BY <2>1, <2>2 DEF MeansIt, Knows, G!Empty
  <2>4. /\ pc' = [pc EXCEPT ![c] = "ready"] /\ intent' = [intent EXCEPT ![c] = i]
        /\ UNCHANGED <<born, live, file, lock, copy>>
    BY <1>3 DEF G!ByHand, G!Goes
  <2> HIDE DEF i
  <2> QED
    BY <2>1, <2>3, <2>4, MindStep
<1>4. ASSUME NEW c \in GroupsClients, G!Survey(c) PROVE GInv'
  <2> DEFINE i == [G!Resting EXCEPT !.kind = "listing", !.before = file]
  <2>1. i \in Intents /\ i.kind = "listing" /\ i.before = file /\ i.reached = {}
    BY RestingMeansNothing DEF G!Resting, Intents, G!TypeOK
  <2>2. MeansIt("asking", i) /\ Knows(i)
    BY <2>1 DEF MeansIt, Knows, FileIsBorn
  <2>3. /\ pc' = [pc EXCEPT ![c] = "asking"] /\ intent' = [intent EXCEPT ![c] = i]
        /\ UNCHANGED <<born, live, file, lock, copy>>
    BY <1>4 DEF G!Survey, G!Goes
  <2> HIDE DEF i
  <2> QED
    BY <2>1, <2>2, <2>3, MindStep
\* What a machine says holds of every session that runs on it.
<1>5. ASSUME NEW c \in GroupsClients, NEW h \in GroupsHosts, G!Answers(c, h) PROVE GInv'
  <2> DEFINE itsSaid == {s \in live : HostOf[s] = h}
             i == [intent[c] EXCEPT !.reached = @ \union {h},
                                    !.listing = @ \union itsSaid]
  <2>1. intent[c] \in Intents /\ itsSaid \subseteq GroupsSessions
    BY DEF Intended, G!TypeOK
  <2>2. /\ i \in Intents /\ i.kind = intent[c].kind /\ i.on = intent[c].on
        /\ i.before = intent[c].before
        /\ i.reached = intent[c].reached \union {h}
        /\ i.listing = intent[c].listing \union itsSaid
    BY <2>1 DEF Intents
  <2>3. MeansIt("asking", i)
    BY <1>5, <2>2 DEF G!Answers, Intended, MeansIt
  <2>4. Knows(i)
    BY <2>2 DEF ListingsKnow, Knows
  <2>5. /\ pc' = [pc EXCEPT ![c] = "asking"] /\ intent' = [intent EXCEPT ![c] = i]
        /\ UNCHANGED <<born, live, file, lock, copy>>
    BY <1>5, <2>1 DEF G!Answers, G!TypeOK, Intended
  <2> HIDE DEF i
  <2> QED
    BY <2>2, <2>3, <2>4, <2>5, MindStep
<1>6. ASSUME NEW c \in GroupsClients, G!Lands(c) PROVE GInv'
  <2>1. intent[c] \in Intents /\ MeansIt("ready", intent[c]) /\ Knows(intent[c])
    BY <1>6 DEF G!Lands, Intended, MeansIt, ListingsKnow
  <2>2. /\ pc' = [pc EXCEPT ![c] = "ready"]
        /\ intent' = [intent EXCEPT ![c] = intent[c]]
        /\ UNCHANGED <<born, live, file, lock, copy>>
    BY <1>6 DEF G!Lands, G!Goes, Intended
  <2> QED
    BY <2>1, <2>2, MindStep
<1>7. ASSUME NEW c \in GroupsClients, G!Lock(c) PROVE GInv'
  <2>1. /\ pc[c] = "ready" /\ lock = G!NoOne /\ lock' = c
        /\ pc' = [pc EXCEPT ![c] = "reading"]
        /\ UNCHANGED <<born, live, file, intent, copy>>
    BY <1>7 DEF G!Lock, G!Goes
  <2>2. \A d \in GroupsClients : d # G!NoOne /\ pc[d] \notin {"reading", "writing"}
    BY <2>1 DEF LockIsHeld, G!GroupsAssumption, G!NoOne
  <2>3. pc'[c] = "reading" /\ \A d \in GroupsClients : d # c => pc'[d] = pc[d]
    BY <2>1 DEF G!TypeOK
  <2>4. G!TypeOK'
    BY <2>1 DEF G!TypeOK, G!InOneAtMost, G!group_of
  <2>5. Intended'
    BY <2>1, <2>3 DEF Intended, MeansIt
  <2>6. FileIsBorn' /\ ListingsKnow'
    BY <2>1 DEF FileIsBorn, ListingsKnow, Knows
  <2>7. LockIsHeld' /\ CopyIsFresh'
    BY <2>1, <2>2, <2>3 DEF LockIsHeld, CopyIsFresh
  <2> QED
    BY <2>4, <2>5, <2>6, <2>7
<1>8. ASSUME NEW c \in GroupsClients, G!Change(c) PROVE GInv'
  <2> DEFINE new == G!change(file, intent[c])
  <2>1. /\ pc[c] = "reading" /\ copy' = [copy EXCEPT ![c] = new]
        /\ pc' = [pc EXCEPT ![c] = "writing"]
        /\ UNCHANGED <<born, live, file, lock, intent>>
    BY <1>8 DEF G!Change, G!Goes
  <2>2. new \in G!Contents
    BY <2>1, ChangeKeepsAFile
  <2>3. /\ pc'[c] = "writing" /\ copy'[c] = new
        /\ \A d \in GroupsClients : d # c => pc'[d] = pc[d] /\ copy'[d] = copy[d]
    BY <2>1 DEF G!TypeOK
  <2>4. G!TypeOK'
    BY <2>1, <2>2 DEF G!TypeOK, G!InOneAtMost, G!group_of
  <2>5. Intended'
    BY <2>1, <2>3 DEF Intended, MeansIt
  <2>6. FileIsBorn' /\ ListingsKnow'
    BY <2>1 DEF FileIsBorn, ListingsKnow, Knows
  <2>7. LockIsHeld'
    BY <2>1, <2>3 DEF LockIsHeld
  <2>8. \A d \in GroupsClients : G!change(file, intent[d])' = G!change(file, intent[d])
    BY <2>1 DEF G!change, G!refresh, G!prune, G!set, G!assign, G!clear
  <2>9. CopyIsFresh'
    BY <2>1, <2>3, <2>8 DEF CopyIsFresh
  <2> QED
    BY <2>4, <2>5, <2>6, <2>7, <2>9
<1>9. ASSUME NEW c \in GroupsClients, G!Install(c) \/ G!Fails(c) PROVE GInv'
  BY <1>9, LetsStep DEF G!Install, G!Fails
<1> QED
  BY <1>1, <1>2, <1>3, <1>4, <1>5, <1>6, <1>7, <1>8, <1>9 DEF G!Next

(***************************************************************************)
(* The theorems.                                                           *)
(***************************************************************************)
\* Only the install of a hand's change moves a session that runs.
LEMMA GMoves ==
    ASSUME G!GroupsAssumption, GInv, G!Next
    PROVE  G!MovedByHand
<1> USE DEF GInv
<1>1. CASE file' = file
  BY <1>1 DEF G!MovedByHand, G!group_of
<1>2. ASSUME NEW c \in GroupsClients, G!Install(c) PROVE G!MovedByHand
  <2>1. pc[c] = "writing" /\ file' = G!change(file, intent[c]) /\ pc'[c] = "idle"
    BY <1>2 DEF G!Install, CopyIsFresh, G!Lets, G!Goes, G!TypeOK
  <2>2. /\ file \in G!Contents /\ intent[c] \in Intents /\ live \subseteq GroupsSessions
        /\ intent[c].kind \in {"hand", "listing"} /\ Knows(intent[c])
    BY <2>1 DEF G!TypeOK, Intended, MeansIt, ListingsKnow
  <2>3. CASE intent[c].kind = "listing"
    <3>1. file' = G!refresh(file, intent[c].before, intent[c].reached, intent[c].listing)
      BY <2>1, <2>3 DEF G!change
    <3>2. \A s \in live : G!group_of(file', s) = G!group_of(file, s)
      BY <2>2, <3>1, RefreshTakesOut
    <3> QED
      BY <3>2 DEF G!MovedByHand
  <2>4. CASE intent[c].kind = "hand"
    <3>1. file' = G!set(file, intent[c].to, intent[c].on)
      BY <2>1, <2>4 DEF G!change
    <3>2. intent[c].on \in GroupsSessions /\ intent[c].to \in GroupsNames \union {G!NoOne}
      BY <2>2, <2>4 DEF Intended, MeansIt, Intents
    <3>3. \A s \in live : s # intent[c].on => G!group_of(file', s) = G!group_of(file, s)
      BY <2>2, <3>1, <3>2, SetMovesOne
    <3> QED
      BY <2>1, <2>4, <3>3 DEF G!MovedByHand
  <2> QED
    BY <2>2, <2>3, <2>4
<1> QED
  BY <1>1, <1>2 DEF G!Next, G!Starts, G!Ends, G!ByHand, G!Survey, G!Answers, G!Lands, G!Lock,
     G!Change, G!Fails

\* Whatever it does, a behaviour that is of the groups keeps it.
GPart == part = "groups" => GInv

LEMMA GPartInitially == Init => GPart
<1> SUFFICES ASSUME Init, part = "groups" PROVE GInv
  BY DEF GPart
<1>1. G!Init
  BY DEF Init
<1> QED
  BY <1>1, GroupsAssumed, GInitially

LEMMA GPartStep ==
    ASSUME [Next]_vars, part' = "groups"
    PROVE  part = "groups" /\ [G!Next]_(G!vars)
<1>1. CASE UNCHANGED vars
  BY <1>1 DEF vars, Beyond19, Beyond17, Beyond13, Beyond12, Beyond10,
     Beyond9, Beyond8, Beyond7, Beyond4,
     G!vars
<1>2. CASE Next
  BY <1>2 DEF Next
<1> QED
  BY <1>1, <1>2

LEMMA GPartPreserved == GPart /\ [Next]_vars => GPart'
<1> SUFFICES ASSUME GPart, [Next]_vars, part' = "groups" PROVE GInv'
  BY DEF GPart
<1> QED
  BY GPartStep, GPreserved, GroupsAssumed DEF GPart

LEMMA GPartMoves ==
    GPart /\ [Next]_vars => [part = "groups" => G!MovedByHand]_vars
<1> SUFFICES ASSUME GPart, Next, part = "groups" PROVE G!MovedByHand
  OBVIOUS
<1>1. G!Next
  BY DEF Next
<1> QED
  BY <1>1, GMoves, GroupsAssumed DEF GPart

HIDE DEF born, live, file, lock, pc, intent, copy

(***************************************************************************)
(* What holds of Watching for any commands, names, machines and settings.  *)
(*                                                                         *)
(* A change is lost when the file is replaced by one made from an older    *)
(* one.  Whoever is past the lock has it (WLockIsHeld), and what is about  *)
(* to be written is the change made to the file as it is now               *)
(* (WCopyIsFresh).  And a name that `mm add` goes on to write down was told *)
(* apart from all that are listed by now, those added since included       *)
(* (ToldApart).                                                            *)
(***************************************************************************)
W_file == v1
W_lock == v2
W_cmd == v3
busy == v4
life == v5
meant == v6
blind == v7
runs == v8
troubles == v9

USE DEF W_file, W_lock, W_cmd, busy, life, meant, blind, runs, troubles

WAts == {"idle", "greets", "asks", "checks", "waits", "locked", "writes", "written"}

WCmds == [at : WAts, does : {"add", "remember", "rm", "set", "reset"},
          word : WatchingNames \union Keys \union {W!Idle.word}, listed : BOOLEAN,
          node : [of : W!Machines, life : Int], seen : SUBSET (WatchingNames \union Keys),
          copy : SUBSET (WatchingNames \union Keys), blind : BOOLEAN]

WTypes == /\ W!TypeOK
          /\ W_cmd \in [Commands -> WCmds]
          /\ life \in [W!Machines -> Nat]

\* What a command that runs is about.
Sensible(c) == c.at # "idle" =>
    /\ c.word \in WatchingNames \union Keys
    /\ c.does \in {"add", "remember"} => c.word \in WatchingNames
    /\ c.does \in {"set", "reset"} => c.word \in Keys
    /\ c.at \in {"greets", "asks", "checks"} => c.does = "add"
    /\ c.listed => c.blind

AllSensible == \A p \in Commands : Sensible(W_cmd[p])

Inside == {"locked", "writes", "written"}

WLockIsHeld == \A p \in Commands :
    W_cmd[p].at \in Inside => W_lock[W!FileOf(W_cmd[p])] = p

WCopyIsFresh == \A p \in Commands :
    W_cmd[p].at \in {"writes", "written"} =>
          W_cmd[p].copy = W!Applied(W_cmd[p], W_file[W!FileOf(W_cmd[p])])

Apart(c, words) ==
    c.at \in {"waits"} \union Inside /\ c.does = "add" /\ ~c.blind =>
        /\ MachineOf[c.word] # WatchingHere
        /\ \A o \in words : MachineOf[o] # MachineOf[c.word]

ToldApart == \A p \in Commands : Apart(W_cmd[p], W_file["hosts"])

WInv == /\ WTypes /\ AllSensible /\ WLockIsHeld /\ WCopyIsFresh /\ ToldApart
        /\ W!NothingIsLost

(***************************************************************************)
(* Lemmas.                                                                 *)
(***************************************************************************)
LEMMA WIdleType == W!Idle \in WCmds /\ W!Idle.at = "idle"
<1>1. W!NoNode \in [of : W!Machines, life : Int]
  BY DEF W!NoNode, W!Machines
<1>2. /\ W!Idle.at = "idle"
      /\ W!Idle = [at |-> "idle", does |-> "rm", word |-> W!Idle.word, listed |-> FALSE,
                   node |-> W!NoNode, seen |-> {}, copy |-> {}, blind |-> FALSE]
  BY DEF W!Idle
<1>3. ASSUME NEW n \in [of : W!Machines, life : Int], NEW w \in {W!Idle.word}
      PROVE  [at |-> "idle", does |-> "rm", word |-> w, listed |-> FALSE,
              node |-> n, seen |-> {}, copy |-> {}, blind |-> FALSE] \in WCmds
  BY DEF WCmds, WAts
<1> QED
  BY <1>1, <1>2, <1>3

\* A command has a file, and changes it to words.
LEMMA WFiles ==
    ASSUME NEW c \in WCmds, NEW words \in SUBSET (WatchingNames \union Keys),
           c.word \in WatchingNames \union Keys
    PROVE  W!FileOf(c) \in W!Files /\ W!Applied(c, words) \in SUBSET (WatchingNames \union Keys)
BY DEF W!FileOf, W!Files, W!Applied

\* One command goes on, or ends, and touches no file: it keeps to the lock, to
\* the file as it is and to what it was told.
LEMMA OneGoesOn ==
    ASSUME WInv, NEW p \in Commands, NEW new \in WCmds, Sensible(new),
           W_cmd' = [W_cmd EXCEPT ![p] = new], UNCHANGED <<W_file, meant, blind>>,
           W_lock' \in [W!Files -> Commands \union {W!Nobody}],
           \A f \in W!Files : W_lock[f] # p => W_lock'[f] = W_lock[f] \/ W_lock[f] = W!Nobody,
           new.at \in Inside => W_lock'[W!FileOf(new)] = p,
           new.at \in {"writes", "written"} =>
               new.copy = W!Applied(new, W_file[W!FileOf(new)]),
           Apart(new, W_file["hosts"]),
           life' \in [W!Machines -> Nat], runs' \in 0..MaxRuns,
           troubles' \in 0..WatchingMaxTroubles, W!Nobody \notin Commands
    PROVE  WInv'
<1> USE DEF WInv
<1>1. /\ W_cmd \in [Commands -> WCmds]
      /\ W_cmd' \in [Commands -> WCmds] /\ W_cmd'[p] = new
      /\ \A q \in Commands : q # p => W_cmd'[q] = W_cmd[q]
  BY DEF WTypes
<1>2. new.at \in WAts /\ \A q \in Commands : W_cmd[q].at \in WAts
  BY <1>1 DEF WCmds
<1>3. WTypes'
  BY <1>1, <1>2 DEF WTypes, W!TypeOK, WAts
<1>4. AllSensible'
  BY <1>1 DEF AllSensible
<1>5. WLockIsHeld'
  <2> SUFFICES ASSUME NEW q \in Commands, W_cmd'[q].at \in Inside
               PROVE  W_lock'[W!FileOf(W_cmd'[q])] = q
    BY DEF WLockIsHeld, W!FileOf
  <2>1. CASE q = p
    BY <1>1, <2>1
  <2>2. CASE q # p
    <3>1. W_cmd'[q] = W_cmd[q] /\ W_lock[W!FileOf(W_cmd[q])] = q
      BY <1>1, <2>2 DEF WLockIsHeld
    <3>2. W!FileOf(W_cmd[q]) \in W!Files
      BY DEF W!FileOf, W!Files
    <3> QED
      BY <2>2, <3>1, <3>2
  <2> QED
    BY <2>1, <2>2
<1>6. WCopyIsFresh'
  BY <1>1 DEF WCopyIsFresh, W!FileOf, W!Applied
<1>7. ToldApart'
  BY <1>1 DEF ToldApart, Apart
<1>8. W!NothingIsLost'
  BY DEF W!NothingIsLost
<1> QED
  BY <1>3, <1>4, <1>5, <1>6, <1>7, <1>8

\* It only goes from one place outside the lock to another.
LEMMA OutsideGoesOn ==
    ASSUME WInv, NEW p \in Commands, NEW new \in WCmds, Sensible(new),
           W_cmd' = [W_cmd EXCEPT ![p] = new],
           new.at \notin Inside, Apart(new, W_file["hosts"]),
           UNCHANGED <<W_file, W_lock, busy, life, meant, blind>>,
           runs' \in 0..MaxRuns, troubles' \in 0..WatchingMaxTroubles, W!Nobody \notin Commands
    PROVE  WInv'
<1>1. W_lock' \in [W!Files -> Commands \union {W!Nobody}] /\ life' \in [W!Machines -> Nat]
  BY DEF WInv, WTypes, W!TypeOK
<1> QED
  BY <1>1, OneGoesOn DEF Inside

LEMMA TroubleCounted ==
    ASSUME WInv, W!WatchingAssumption, W!Trouble \/ UNCHANGED troubles
    PROVE  troubles' \in 0..WatchingMaxTroubles
BY DEF WInv, WTypes, W!TypeOK, W!Trouble, W!WatchingAssumption

\* A node and its machine go together.
LEMMA NodesApart ==
    ASSUME NEW m, NEW o, W!NodeOn(m) # W!NodeOn(o)
    PROVE  m # o
OBVIOUS

(***************************************************************************)
(* The invariant.                                                          *)
(***************************************************************************)
LEMMA WInitially ==
    ASSUME W!WatchingAssumption
    PROVE  W!Init => WInv
<1> SUFFICES ASSUME W!Init PROVE WInv
  OBVIOUS
<1>1. PICK listed \in {{}, WatchingListed} :
          W_file = [f \in W!Files |-> IF f = "hosts" THEN listed ELSE {}]
  BY DEF W!Init
<1>2. W_file \in [W!Files -> SUBSET (WatchingNames \union Keys)]
  BY <1>1 DEF W!WatchingAssumption
<1>3. W_lock \in [W!Files -> Commands \union {W!Nobody}]
  BY DEF W!Init
<1>4. W_cmd \in [Commands -> WCmds] /\ \A p \in Commands : W_cmd[p].at = "idle"
  BY WIdleType DEF W!Init
<1>5. WTypes
  BY <1>2, <1>3, <1>4 DEF W!Init, WTypes, W!TypeOK, W!WatchingAssumption
<1> QED
  BY <1>4, <1>5 DEF W!Init, WInv, AllSensible, Sensible, WLockIsHeld, Inside,
     WCopyIsFresh, ToldApart, Apart, W!NothingIsLost

LEMMA TypesStep ==
    ASSUME WInv, W!WatchingAssumption, NEW p \in Commands, NEW at \in {"waits", "greets"},
           NEW does \in {"add", "remember", "rm", "set", "reset"},
           NEW word \in WatchingNames \union Keys, W!Types(p, does, word, at),
           at = "waits" <=> does # "add",
           does \in {"add", "remember"} => word \in WatchingNames,
           does \in {"set", "reset"} => word \in Keys
    PROVE  WInv'
<1> DEFINE f == IF word \in Keys THEN "settings" ELSE "hosts"
           was == W_file[f]
           there == word \in W_file[f]
           new == [W!Idle EXCEPT !.at = at, !.does = does, !.word = word, !.seen = was,
                                 !.listed = there, !.blind = there]
<1>1. was \in SUBSET (WatchingNames \union Keys) /\ runs \in 0..MaxRuns
  BY DEF WInv, WTypes, W!TypeOK, W!Files
<1>2. /\ W_cmd' = [W_cmd EXCEPT ![p] = new]
      /\ runs < MaxRuns /\ runs' = runs + 1
      /\ UNCHANGED <<W_file, W_lock, busy, life, meant, blind, troubles>>
  BY DEF W!Types
<1>3. there \in BOOLEAN
  OBVIOUS
<1> HIDE DEF was, there
<1>4. /\ new \in WCmds /\ new.at = at /\ new.does = does /\ new.word = word
      /\ new.listed = there /\ new.blind = there
  BY <1>1, <1>3, WIdleType DEF WCmds, WAts
<1> HIDE DEF new, f
<1>5. Sensible(new)
  BY <1>4 DEF Sensible
<1>6. Apart(new, W_file["hosts"]) /\ new.at \notin Inside
  BY <1>4 DEF Apart, Inside
<1>7. runs' \in 0..MaxRuns
  BY <1>1, <1>2 DEF W!WatchingAssumption
<1>8. troubles' \in 0..WatchingMaxTroubles
  BY <1>2, TroubleCounted
<1> QED
  BY <1>2, <1>4, <1>5, <1>6, <1>7, <1>8, OutsideGoesOn DEF W!WatchingAssumption, W!Nobody
\* A command that ends lets nothing of the lock go that is another's.
LEMMA EndsStep ==
    ASSUME WInv, W!WatchingAssumption, NEW p \in Commands,
           W_cmd' = [W_cmd EXCEPT ![p] = W!Idle],
           W_lock' \in [W!Files -> Commands \union {W!Nobody}],
           \A f \in W!Files : W_lock[f] # p => W_lock'[f] = W_lock[f],
           UNCHANGED <<W_file, busy, life, meant, blind, runs>>,
           W!Trouble \/ UNCHANGED troubles
    PROVE  WInv'
<1>1. Sensible(W!Idle) /\ Apart(W!Idle, W_file["hosts"]) /\ W!Idle.at \notin Inside \union {"writes", "written"}
  BY WIdleType DEF Sensible, Apart, Inside
<1>2. troubles' \in 0..WatchingMaxTroubles
  BY TroubleCounted
<1>3. life' \in [W!Machines -> Nat] /\ runs' \in 0..MaxRuns
  BY DEF WInv, WTypes, W!TypeOK
<1> QED
  BY <1>1, <1>2, <1>3, WIdleType, OneGoesOn DEF W!WatchingAssumption, W!Nobody

LEMMA GreetStep ==
    ASSUME WInv, W!WatchingAssumption, NEW p \in Commands, W!greet(p)
    PROVE  WInv'
<1>1. CASE W!At(p, "asks") /\ UNCHANGED troubles
  <2> DEFINE new == [W_cmd[p] EXCEPT !.at = "asks"]
  <2>1. W_cmd[p] \in WCmds /\ Sensible(W_cmd[p]) /\ W_cmd[p].at = "greets"
    BY DEF WInv, WTypes, AllSensible, W!greet
  <2>2. /\ new \in WCmds /\ new.at = "asks" /\ new.word = W_cmd[p].word
        /\ new.does = W_cmd[p].does /\ new.listed = W_cmd[p].listed
        /\ new.blind = W_cmd[p].blind /\ W_cmd' = [W_cmd EXCEPT ![p] = new]
    BY <1>1, <2>1 DEF WCmds, WAts, W!At
  <2> HIDE DEF new
  <2>3. Sensible(new) /\ Apart(new, W_file["hosts"]) /\ new.at \notin Inside
    BY <2>1, <2>2 DEF Sensible, Apart, Inside
  <2>4. runs' \in 0..MaxRuns /\ troubles' \in 0..WatchingMaxTroubles
    BY <1>1 DEF WInv, WTypes, W!TypeOK, W!greet
  <2> QED
    BY <2>2, <2>3, <2>4, OutsideGoesOn DEF W!WatchingAssumption, W!Nobody, W!greet
<1>2. CASE W_cmd' = [W_cmd EXCEPT ![p] = W!Idle] /\ W!Trouble
  <2>1. W_lock' = W_lock /\ W_lock \in [W!Files -> Commands \union {W!Nobody}]
    BY DEF W!greet, WInv, WTypes, W!TypeOK
  <2> QED
    BY <1>2, <2>1, EndsStep DEF W!greet
<1> QED
  BY <1>1, <1>2 DEF W!greet

\* What a machine said of itself, or that it said nothing.
LEMMA AnswerStep ==
    ASSUME WInv, W!WatchingAssumption, NEW p \in Commands, W!answer_from(p)
    PROVE  WInv'
<1> DEFINE c == W_cmd[p]
           itsNode == W!NodeOn(MachineOf[c.word])
<1>1. c \in WCmds /\ Sensible(c) /\ c.at = "asks"
  BY DEF WInv, WTypes, AllSensible, W!answer_from
<1>2. runs' \in 0..MaxRuns /\ troubles' \in 0..WatchingMaxTroubles
  BY TroubleCounted DEF W!answer_from, WInv, WTypes, W!TypeOK
<1>3. ASSUME NEW new \in WCmds, W_cmd' = [W_cmd EXCEPT ![p] = new],
             new.word = c.word, new.does = c.does, new.listed = c.listed,
             c.blind => new.blind,
             new.at = "checks" \/ (new.at = "waits" /\ new.blind)
      PROVE  WInv'
  <2>1. Sensible(new) /\ Apart(new, W_file["hosts"]) /\ new.at \notin Inside
    BY <1>1, <1>3 DEF Sensible, Apart, Inside
  <2> QED
    BY <1>2, <1>3, <2>1, OutsideGoesOn DEF W!WatchingAssumption, W!Nobody, W!answer_from
<1>4. CASE W_cmd' = [W_cmd EXCEPT ![p].node = itsNode, ![p].blind = @ \/ itsNode = W!NoNode,
                     ![p].at = IF W!listed_already(c) \/ itsNode = W!NoNode THEN "waits" ELSE "checks"]
  <2> DEFINE b == c.blind \/ itsNode = W!NoNode
             at == IF W!listed_already(c) \/ itsNode = W!NoNode THEN "waits" ELSE "checks"
             new == [c EXCEPT !.node = itsNode, !.blind = b, !.at = at]
  <2>1. itsNode \in [of : W!Machines, life : Int]
    <3>1. c.word \in WatchingNames
      BY <1>1 DEF Sensible
    <3>2. MachineOf[c.word] \in W!Machines
      BY <3>1 DEF W!Machines
    <3>3. life \in [W!Machines -> Nat] /\ W!NoNode \in [of : W!Machines, life : Int]
      BY DEF WInv, WTypes, W!NoNode, W!Machines
    <3> QED
      BY <3>2, <3>3 DEF W!NodeOn
  <2>2. W_cmd' = [W_cmd EXCEPT ![p] = new]
    BY <1>4
  <2>3. b \in BOOLEAN /\ (c.blind => b)
    BY <1>1 DEF WCmds
  <2>4. at = "checks" \/ (at = "waits" /\ b)
    <3>1. CASE W!listed_already(c) \/ itsNode = W!NoNode
      <4>1. c.listed => c.blind
        BY <1>1 DEF Sensible
      <4>2. b
        BY <3>1, <4>1 DEF W!listed_already
      <4> QED
        BY <3>1, <4>2
    <3>2. CASE ~(W!listed_already(c) \/ itsNode = W!NoNode)
      <4>1. at = "checks"
        BY <3>2 DEF W!listed_already
      <4> QED
        BY <4>1
    <3> QED
      BY <3>1, <3>2
  <2> HIDE DEF itsNode, b, at
  <2>5. /\ new \in WCmds /\ new.at = at /\ new.word = c.word
        /\ new.does = c.does /\ new.listed = c.listed /\ new.blind = b
    BY <1>1, <2>1, <2>3, <2>4 DEF WCmds, WAts
  <2> HIDE DEF new
  <2> QED
    BY <1>3, <2>2, <2>3, <2>4, <2>5
<1>5. CASE W_cmd' = [W_cmd EXCEPT ![p].blind = TRUE, ![p].at = "waits"]
  <2> DEFINE new == [c EXCEPT !.blind = TRUE, !.at = "waits"]
  <2>1. /\ new \in WCmds /\ new.at = "waits" /\ new.word = c.word
        /\ new.does = c.does /\ new.listed = c.listed /\ new.blind
        /\ W_cmd' = [W_cmd EXCEPT ![p] = new]
    BY <1>1, <1>5 DEF WCmds, WAts
  <2> HIDE DEF new
  <2> QED
    BY <1>3, <2>1
<1> QED
  BY <1>4, <1>5 DEF W!answer_from

\* Everything that is listed and is that machine would have said so.
LEMMA EverywhereStep ==
    ASSUME WInv, W!WatchingAssumption, NEW p \in Commands, W!everywhere(p)
    PROVE  WInv'
<1> DEFINE c == W_cmd[p]
           m == MachineOf[c.word]
<1>1. c \in WCmds /\ Sensible(c) /\ c.at = "checks"
  BY DEF WInv, WTypes, AllSensible, W!everywhere
<1>2. PICK missed \in SUBSET W_file["hosts"] :
         /\ W!Trouble \/ UNCHANGED troubles
         /\ IF W!watched_as(c.node, W_file["hosts"] \ missed)
            THEN W_cmd' = [W_cmd EXCEPT ![p] = W!Idle]
            ELSE W_cmd' = [W_cmd EXCEPT ![p].at = "waits",
                            ![p].blind = @ \/ W!NodeOn(m) # c.node \/ \E n \in missed : MachineOf[n] = m]
  BY DEF W!everywhere
<1>3. CASE W!watched_as(c.node, W_file["hosts"] \ missed)
  <2>1. W_lock' = W_lock /\ W_lock \in [W!Files -> Commands \union {W!Nobody}]
    BY DEF W!everywhere, WInv, WTypes, W!TypeOK
  <2> QED
    BY <1>2, <1>3, <2>1, EndsStep DEF W!everywhere
<1>4. CASE ~W!watched_as(c.node, W_file["hosts"] \ missed)
  <2> DEFINE b == c.blind \/ W!NodeOn(m) # c.node \/ \E n \in missed : MachineOf[n] = m
             new == [c EXCEPT !.at = "waits", !.blind = b]
  <2>1. W_cmd' = [W_cmd EXCEPT ![p] = new]
    BY <1>2, <1>4
  <2>2. b \in BOOLEAN /\ (~b => W!NodeOn(m) = c.node /\ \A n \in missed : MachineOf[n] # m)
    BY <1>1 DEF WCmds
  <2> HIDE DEF b
  <2>3. /\ new \in WCmds /\ new.at = "waits" /\ new.word = c.word
        /\ new.does = c.does /\ new.listed = c.listed /\ new.blind = b
    BY <1>1, <2>2 DEF WCmds, WAts
  <2>4. c.blind => b
    BY DEF b
  <2> HIDE DEF new
  <2>5. Sensible(new) /\ new.at \notin Inside
    BY <1>1, <2>3, <2>4 DEF Sensible, Inside
  <2>6. Apart(new, W_file["hosts"])
    <3>1. SUFFICES ASSUME ~b
                   PROVE  m # WatchingHere /\ \A o \in W_file["hosts"] : MachineOf[o] # m
      BY <2>3 DEF Apart
    <3>2. W!NodeOn(WatchingHere) # W!NodeOn(m)
      BY <1>4, <2>2, <3>1 DEF W!watched_as
    <3>3. ASSUME NEW o \in W_file["hosts"], o \notin missed PROVE W!NodeOn(MachineOf[o]) # W!NodeOn(m)
      BY <1>4, <2>2, <3>1, <3>3 DEF W!watched_as
    <3> QED
      BY <2>2, <3>1, <3>2, <3>3
  <2>7. runs' \in 0..MaxRuns /\ troubles' \in 0..WatchingMaxTroubles
    BY <1>2, TroubleCounted DEF W!everywhere, WInv, WTypes, W!TypeOK
  <2> QED
    BY <2>1, <2>3, <2>5, <2>6, <2>7, OutsideGoesOn DEF W!WatchingAssumption, W!Nobody, W!everywhere
<1> QED
  BY <1>3, <1>4
(***************************************************************************)
(* Behind the lock.                                                        *)
(***************************************************************************)
LEMMA LocksStep ==
    ASSUME WInv, W!WatchingAssumption, NEW p \in Commands, W!Locks(p)
    PROVE  WInv'
<1> DEFINE f == W!FileOf(W_cmd[p])
           new == [W_cmd[p] EXCEPT !.at = "locked"]
<1>1. W_cmd[p] \in WCmds /\ Sensible(W_cmd[p]) /\ W_cmd[p].at = "waits" /\ f \in W!Files
  BY DEF WInv, WTypes, AllSensible, W!Locks, W!FileOf, W!Files
<1>2. /\ W_lock[f] = W!Nobody /\ W_lock' = [W_lock EXCEPT ![f] = p]
      /\ UNCHANGED <<W_file, busy, life, meant, blind, runs, troubles>>
      /\ W_cmd' = [W_cmd EXCEPT ![p] = new]
  BY <1>1 DEF W!Locks, W!At
<1>3. /\ new \in WCmds /\ new.at = "locked" /\ new.word = W_cmd[p].word
      /\ new.does = W_cmd[p].does /\ new.listed = W_cmd[p].listed
      /\ new.blind = W_cmd[p].blind
  BY <1>1 DEF WCmds, WAts
<1> HIDE DEF new
<1>4. Sensible(new) /\ W!FileOf(new) = f
  BY <1>1, <1>3 DEF Sensible, W!FileOf
<1>5. Apart(new, W_file["hosts"])
  BY <1>1, <1>3 DEF WInv, ToldApart, Apart
<1> HIDE DEF f
<1>6. /\ W_lock' \in [W!Files -> Commands \union {W!Nobody}] /\ W_lock'[f] = p
      /\ \A g \in W!Files : W_lock[g] # p => W_lock'[g] = W_lock[g] \/ W_lock[g] = W!Nobody
  BY <1>1, <1>2 DEF WInv, WTypes, W!TypeOK
<1>7. life' \in [W!Machines -> Nat] /\ runs' \in 0..MaxRuns /\ troubles' \in 0..WatchingMaxTroubles
  BY <1>2 DEF WInv, WTypes, W!TypeOK
<1> QED
  BY <1>2, <1>3, <1>4, <1>5, <1>6, <1>7, OneGoesOn DEF W!WatchingAssumption, W!Nobody

LEMMA ChangeStep ==
    ASSUME WInv, W!WatchingAssumption, NEW p \in Commands, W!change_toml(p)
    PROVE  WInv'
<1> DEFINE f == W!FileOf(W_cmd[p])
           new == [W_cmd[p] EXCEPT !.at = "writes", !.copy = W!Applied(W_cmd[p], W_file[f])]
<1>1. /\ W_cmd[p] \in WCmds /\ Sensible(W_cmd[p]) /\ W_cmd[p].at = "locked" /\ f \in W!Files
      /\ W_lock[f] = p /\ W_lock \in [W!Files -> Commands \union {W!Nobody}]
      /\ W_file[f] \in SUBSET (WatchingNames \union Keys)
  BY DEF WInv, WTypes, W!TypeOK, WLockIsHeld, Inside, AllSensible, W!change_toml, W!FileOf, W!Files
<1>2. W!Applied(W_cmd[p], W_file[f]) \in SUBSET (WatchingNames \union Keys)
  BY <1>1, WFiles DEF Sensible
<1>3. CASE W!Bails(W_cmd[p], W!load_toml(p))
  <2>1. W_lock' = [W_lock EXCEPT ![f] = W!Nobody] /\ W_cmd' = [W_cmd EXCEPT ![p] = W!Idle]
    BY <1>3 DEF W!change_toml, W!Released
  <2>2. /\ W_lock' \in [W!Files -> Commands \union {W!Nobody}]
        /\ \A g \in W!Files : W_lock[g] # p => W_lock'[g] = W_lock[g]
    BY <1>1, <2>1
  <2> QED
    BY <2>1, <2>2, EndsStep DEF W!change_toml
<1>4. CASE ~W!Bails(W_cmd[p], W!load_toml(p))
  <2>1. /\ W_cmd' = [W_cmd EXCEPT ![p] = new]
        /\ UNCHANGED <<W_file, W_lock, busy, life, meant, blind, runs, troubles>>
    BY <1>4 DEF W!change_toml, W!load_toml
  <2> HIDE DEF f
  <2>2. /\ new \in WCmds /\ new.at = "writes" /\ new.word = W_cmd[p].word
        /\ new.does = W_cmd[p].does /\ new.listed = W_cmd[p].listed
        /\ new.blind = W_cmd[p].blind /\ new.copy = W!Applied(W_cmd[p], W_file[f])
    BY <1>1, <1>2 DEF WCmds, WAts
  <2> HIDE DEF new
  <2>3. Sensible(new) /\ W!FileOf(new) = f /\ W!Applied(new, W_file[f]) = new.copy
    BY <1>1, <2>2 DEF Sensible, W!FileOf, W!Applied, f
  <2>4. Apart(new, W_file["hosts"])
    BY <1>1, <2>2 DEF WInv, ToldApart, Apart, Inside
  <2>5. life' \in [W!Machines -> Nat] /\ runs' \in 0..MaxRuns /\ troubles' \in 0..WatchingMaxTroubles
    BY <2>1 DEF WInv, WTypes, W!TypeOK
  <2> QED
    BY <1>1, <2>1, <2>2, <2>3, <2>4, <2>5, OneGoesOn DEF W!WatchingAssumption, W!Nobody
<1> QED
  BY <1>3, <1>4

LEMMA CommandWritesStep ==
    ASSUME WInv, W!WatchingAssumption, NEW p \in Commands, W!Writes(p)
    PROVE  WInv'
<1> DEFINE f == W!FileOf(W_cmd[p])
           new == [W_cmd[p] EXCEPT !.at = "written"]
<1>1. /\ W_cmd[p] \in WCmds /\ Sensible(W_cmd[p]) /\ W_cmd[p].at = "writes"
      /\ W_lock[f] = p /\ W_lock \in [W!Files -> Commands \union {W!Nobody}]
      /\ W_cmd[p].copy = W!Applied(W_cmd[p], W_file[f])
  BY DEF WInv, WTypes, W!TypeOK, WLockIsHeld, WCopyIsFresh, Inside, AllSensible, W!Writes
<1>2. /\ W_cmd' = [W_cmd EXCEPT ![p] = new]
      /\ UNCHANGED <<W_file, W_lock, busy, life, meant, blind, runs, troubles>>
  BY DEF W!Writes, W!At
<1> HIDE DEF f
<1>3. /\ new \in WCmds /\ new.at = "written" /\ new.word = W_cmd[p].word
      /\ new.does = W_cmd[p].does /\ new.listed = W_cmd[p].listed
      /\ new.blind = W_cmd[p].blind /\ new.copy = W_cmd[p].copy
  BY <1>1 DEF WCmds, WAts
<1> HIDE DEF new
<1>4. Sensible(new) /\ W!FileOf(new) = f /\ W!Applied(new, W_file[f]) = new.copy
  BY <1>1, <1>3 DEF Sensible, W!FileOf, W!Applied, f
<1>5. Apart(new, W_file["hosts"])
  BY <1>1, <1>3 DEF WInv, ToldApart, Apart, Inside
<1>6. life' \in [W!Machines -> Nat] /\ runs' \in 0..MaxRuns /\ troubles' \in 0..WatchingMaxTroubles
  BY <1>2 DEF WInv, WTypes, W!TypeOK
<1> QED
  BY <1>1, <1>2, <1>3, <1>4, <1>5, <1>6, OneGoesOn DEF W!WatchingAssumption, W!Nobody

LEMMA StopsStep ==
    ASSUME WInv, W!WatchingAssumption, NEW p \in Commands, W!Stops(p)
    PROVE  WInv'
<1>1. /\ W_lock' \in [W!Files -> Commands \union {W!Nobody}]
      /\ \A f \in W!Files : W_lock[f] # p => W_lock'[f] = W_lock[f]
  BY DEF W!Stops, WInv, WTypes, W!TypeOK
<1> QED
  BY <1>1, EndsStep DEF W!Stops
\* Whoever was told its name apart, and of whom the new name may be a second,
\* goes on blind.
LEMMA OvertakenKeep ==
    ASSUME WInv, NEW p \in Commands
    PROVE  /\ W!Overtaken(p) \in [Commands -> WCmds]
           /\ \A q \in Commands :
                 LET o == W!Overtaken(p)[q] c == W_cmd[q] IN
                 /\ o.at = c.at /\ o.does = c.does /\ o.word = c.word
                 /\ o.listed = c.listed /\ o.copy = c.copy
                 /\ c.blind => o.blind
                 /\ \/ o.blind \/ q = p
                    \/ W_cmd[p].does \notin {"add", "remember"} \/ c.does # "add"
                    \/ MachineOf[c.word] # MachineOf[W_cmd[p].word]
<1> SUFFICES ASSUME NEW q \in Commands
             PROVE  LET o == W!Overtaken(p)[q] c == W_cmd[q] IN
                    /\ o \in WCmds
                    /\ o.at = c.at /\ o.does = c.does /\ o.word = c.word
                    /\ o.listed = c.listed /\ o.copy = c.copy
                    /\ c.blind => o.blind
                    /\ \/ o.blind \/ q = p
                       \/ W_cmd[p].does \notin {"add", "remember"} \/ c.does # "add"
                       \/ MachineOf[c.word] # MachineOf[W_cmd[p].word]
  BY DEF W!Overtaken
<1>1. W_cmd[q] \in WCmds
  BY DEF WInv, WTypes
<1>2. W!Overtaken(p)[q] =
          IF /\ q # p /\ W_cmd[p].does \in {"add", "remember"} /\ W_cmd[q].does = "add"
             /\ MachineOf[W_cmd[q].word] = MachineOf[W_cmd[p].word]
          THEN [W_cmd[q] EXCEPT !.blind = TRUE] ELSE W_cmd[q]
  BY DEF W!Overtaken
<1> QED
  BY <1>1, <1>2, ZenonT(30) DEF WCmds

LEMMA InstallsStep ==
    ASSUME WInv, W!WatchingAssumption, NEW p \in Commands, W!Installs(p)
    PROVE  WInv' /\ W!ListedOnce
<1> USE DEF WInv
<1> DEFINE c == W_cmd[p]
           f == W!FileOf(c)
<1>1. /\ c \in WCmds /\ Sensible(c) /\ c.at = "written" /\ f \in W!Files
      /\ c.word \in WatchingNames \union Keys
      /\ W_lock[f] = p /\ W_lock \in [W!Files -> Commands \union {W!Nobody}]
      /\ W_file \in [W!Files -> SUBSET (WatchingNames \union Keys)] /\ meant = W_file
      /\ c.copy = W!Applied(c, W_file[f])
  BY DEF WTypes, W!TypeOK, WLockIsHeld, WCopyIsFresh, Inside, AllSensible, Sensible,
     W!Installs, W!FileOf, W!Files, W!NothingIsLost
<1>2. /\ W_file' = [W_file EXCEPT ![f] = c.copy]
      /\ meant' = [meant EXCEPT ![f] = W!Applied(c, meant[f])]
      /\ W_lock' = [W_lock EXCEPT ![f] = W!Nobody]
      /\ W_cmd' = [W!Overtaken(p) EXCEPT ![p] = W!Idle]
      /\ UNCHANGED <<busy, life, runs, troubles>>
  BY DEF W!Installs, W!Released
<1>3. c.copy \in SUBSET (WatchingNames \union Keys)
  BY <1>1, WFiles
<1>4. /\ W_cmd' \in [Commands -> WCmds] /\ W_cmd'[p] = W!Idle
      /\ \A q \in Commands : q # p => W_cmd'[q] = W!Overtaken(p)[q]
  BY <1>2, OvertakenKeep, WIdleType
<1>5. /\ \A q \in Commands : q # p =>
            /\ W_cmd'[q].at = W_cmd[q].at /\ W_cmd'[q].does = W_cmd[q].does
            /\ W_cmd'[q].word = W_cmd[q].word /\ W_cmd'[q].listed = W_cmd[q].listed
            /\ W_cmd'[q].copy = W_cmd[q].copy /\ (W_cmd[q].blind => W_cmd'[q].blind)
      /\ W!Idle.at = "idle"
  BY <1>4, OvertakenKeep, WIdleType
<1>6. blind' \subseteq WatchingNames
  BY <1>1 DEF W!Installs, WTypes, W!TypeOK
<1>7. WTypes'
  <2>1. \A q \in Commands : W_cmd'[q].at \in WAts
    BY <1>4 DEF WCmds
  <2>2. W_file' \in [W!Files -> SUBSET (WatchingNames \union Keys)]
        /\ W_lock' \in [W!Files -> Commands \union {W!Nobody}]
    BY <1>1, <1>2, <1>3
  <2> QED
    BY <1>2, <1>4, <1>6, <2>1, <2>2 DEF WTypes, W!TypeOK, WAts
<1>8. AllSensible'
  <2> SUFFICES ASSUME NEW q \in Commands PROVE Sensible(W_cmd'[q])
    BY DEF AllSensible, Sensible
  <2>1. Sensible(W_cmd[q])
    BY DEF AllSensible
  <2> QED
    BY <1>4, <1>5, <2>1 DEF Sensible
\* Whoever else is behind a lock is behind the other one.
<1>9. ASSUME NEW q \in Commands, W_cmd'[q].at \in Inside
      PROVE  /\ q # p /\ W_cmd[q].at = W_cmd'[q].at /\ W!FileOf(W_cmd'[q]) = W!FileOf(W_cmd[q])
             /\ W!FileOf(W_cmd[q]) \in W!Files \ {f} /\ W_lock[W!FileOf(W_cmd[q])] = q
  <2>1. q # p
    BY <1>4, <1>5, <1>9 DEF Inside
  <2>2. W_lock[W!FileOf(W_cmd[q])] = q
    BY <1>5, <1>9, <2>1 DEF WLockIsHeld
  <2> QED
    BY <1>1, <1>5, <2>1, <2>2 DEF W!FileOf, W!Files
<1> HIDE DEF f
<1>10. WLockIsHeld'
  BY <1>1, <1>2, <1>9 DEF WLockIsHeld, W!FileOf
<1>11. WCopyIsFresh'
  <2> SUFFICES ASSUME NEW q \in Commands, W_cmd'[q].at \in {"writes", "written"}
               PROVE  W_cmd'[q].copy = W!Applied(W_cmd'[q], W_file'[W!FileOf(W_cmd'[q])])
    BY DEF WCopyIsFresh, W!FileOf, W!Applied
  <2>1. q # p /\ W!FileOf(W_cmd'[q]) = W!FileOf(W_cmd[q]) /\ W!FileOf(W_cmd[q]) \in W!Files \ {f}
    BY <1>9 DEF Inside
  <2>2. W_file'[W!FileOf(W_cmd[q])] = W_file[W!FileOf(W_cmd[q])]
    BY <1>1, <1>2, <2>1
  <2>3. W_cmd[q].copy = W!Applied(W_cmd[q], W_file[W!FileOf(W_cmd[q])])
    BY <1>5, <2>1 DEF WCopyIsFresh
  <2> QED
    BY <1>5, <2>1, <2>2, <2>3, ZenonT(30) DEF W!Applied
<1>12. W!NothingIsLost'
  BY <1>1, <1>2 DEF W!NothingIsLost
\* What is new on the list is the word of a command that adds one.
<1>13. \A n \in W_file'["hosts"] : \/ n \in W_file["hosts"]
                                \/ /\ f = "hosts" /\ n = c.word
                                   /\ c.does \in {"add", "remember"} /\ n \in WatchingNames
  <2>1. CASE f = "hosts"
    <3>1. W_file'["hosts"] = W!Applied(c, W_file["hosts"]) /\ c.word \notin Keys
      BY <1>1, <1>2, <2>1 DEF f, W!FileOf
    <3>2. c.does # "set" /\ (c.does \in {"add", "remember"} => c.word \in WatchingNames)
      BY <1>1, <3>1 DEF Sensible
    <3> QED
      BY <2>1, <3>1, <3>2 DEF W!Applied
  <2>2. CASE f # "hosts"
    BY <1>1, <1>2, <2>2
  <2> QED
    BY <2>1, <2>2
<1>14. ToldApart'
  <2> SUFFICES ASSUME NEW q \in Commands, W_cmd'[q].at \in {"waits"} \union Inside,
                      W_cmd'[q].does = "add", ~W_cmd'[q].blind
               PROVE  /\ MachineOf[W_cmd'[q].word] # WatchingHere
                      /\ \A o \in W_file'["hosts"] : MachineOf[o] # MachineOf[W_cmd'[q].word]
    BY DEF ToldApart, Apart
  <2>1. q # p /\ W_cmd'[q] = W!Overtaken(p)[q] /\ W_cmd'[q].word = W_cmd[q].word
    BY <1>4, <1>5 DEF Inside
  <2>2. W_cmd[q].at \in {"waits"} \union Inside /\ W_cmd[q].does = "add" /\ ~W_cmd[q].blind
    BY <1>5, <2>1
  <2>3. /\ MachineOf[W_cmd[q].word] # WatchingHere
        /\ \A o \in W_file["hosts"] : MachineOf[o] # MachineOf[W_cmd[q].word]
    BY <2>2 DEF ToldApart, Apart
  <2>4. c.does \in {"add", "remember"} => MachineOf[W_cmd[q].word] # MachineOf[c.word]
    BY <2>1, <2>2, OvertakenKeep
  <2> QED
    BY <1>13, <2>1, <2>3, <2>4
<1>15. W!ListedOnce
  <2> SUFFICES ASSUME NEW n \in W_file'["hosts"] \ W_file["hosts"], n \notin blind'
               PROVE  /\ MachineOf[n] # WatchingHere
                      /\ \A o \in W_file'["hosts"] \ {n} : MachineOf[o] # MachineOf[n]
    BY DEF W!ListedOnce
  <2>1. f = "hosts" /\ n = c.word /\ c.does \in {"add", "remember"} /\ n \in WatchingNames
    BY <1>13
  <2>2. c.word \in c.copy \ meant["hosts"] /\ c.word \notin Keys
    BY <1>1, <1>2, <2>1 DEF W!Applied, W!WatchingAssumption
  <2>3. ~(c.blind \/ c.does = "remember")
    BY <2>1, <2>2 DEF W!Installs
  <2>4. MachineOf[n] # WatchingHere /\ \A o \in W_file["hosts"] : MachineOf[o] # MachineOf[n]
    BY <1>1, <2>1, <2>3 DEF ToldApart, Apart, Inside
  <2> QED
    BY <1>13, <2>1, <2>4
<1> QED
  BY <1>7, <1>8, <1>10, <1>11, <1>12, <1>14, <1>15

LEMMA WPreserved ==
    ASSUME W!WatchingAssumption
    PROVE  WInv /\ [W!Next]_(W!vars) => WInv'
<1> SUFFICES ASSUME WInv, [W!Next]_(W!vars) PROVE WInv'
  OBVIOUS
<1>1. CASE UNCHANGED W!vars
  BY <1>1 DEF W!vars, WInv, WTypes, W!TypeOK, AllSensible, Sensible, WLockIsHeld, W!FileOf,
     WCopyIsFresh, W!Applied, ToldApart, Apart, W!NothingIsLost
<1>2. ASSUME NEW p \in Commands, NEW n \in WatchingNames, W!Add(p, n) \/ W!Rm(p, n) \/ W!remember(p, n)
      PROVE  WInv'
  BY <1>2, TypesStep DEF W!Add, W!Rm, W!remember
<1>3. ASSUME NEW p \in Commands, NEW k \in Keys, W!Config(p, k) PROVE WInv'
  BY <1>3, TypesStep DEF W!Config
<1>4. ASSUME NEW m \in W!Machines, W!Works(m) \/ W!Restarts(m) PROVE WInv'
  <2>1. troubles' \in 0..WatchingMaxTroubles
    BY <1>4, TroubleCounted DEF W!Works, W!Restarts
  <2>2. life' \in [W!Machines -> Nat]
    BY <1>4 DEF W!Works, W!Restarts, WInv, WTypes
  <2>3. UNCHANGED <<W_file, W_lock, W_cmd, meant, blind, runs>>
    <3>1. CASE W!Works(m)
      BY <3>1 DEF W!Works
    <3>2. CASE W!Restarts(m)
      BY <3>2 DEF W!Restarts
    <3> QED
      BY <1>4, <3>1, <3>2
  <2> QED
    BY <2>1, <2>2, <2>3 DEF WInv, WTypes, W!TypeOK, AllSensible, Sensible, WLockIsHeld,
       W!FileOf, WCopyIsFresh, W!Applied, ToldApart, Apart, W!NothingIsLost
<1> QED
  BY <1>1, <1>2, <1>3, <1>4, GreetStep, AnswerStep, EverywhereStep, LocksStep,
     ChangeStep, CommandWritesStep, InstallsStep, StopsStep DEF W!Next

\* Only an install changes the list.
LEMMA WMoves ==
    ASSUME W!WatchingAssumption, WInv, W!Next
    PROVE  W!ListedOnce
<1>1. CASE W_file' = W_file
  BY <1>1 DEF W!ListedOnce
<1> QED
  BY <1>1, InstallsStep, ZenonT(30) DEF W!Next, W!Add, W!Rm, W!remember, W!Config, W!Types, W!greet, W!answer_from,
     W!everywhere, W!Locks, W!change_toml, W!Writes, W!Stops, W!Works, W!Restarts

LEMMA WHolds == WInv => W!NothingIsLost
BY DEF WInv

\* Whatever it does, a behaviour that is of the host list keeps it.
WPart == part = "watching" => WInv

LEMMA WPartInitially == Init => WPart
<1> SUFFICES ASSUME Init, part = "watching" PROVE WInv
  BY DEF WPart
<1>1. W!Init
  BY DEF Init
<1> QED
  BY <1>1, WatchingAssumed, WInitially

LEMMA WPartStep ==
    ASSUME [Next]_vars, part' = "watching"
    PROVE  part = "watching" /\ [W!Next]_(W!vars)
<1>1. CASE UNCHANGED vars
  BY <1>1 DEF vars, Beyond19, Beyond17, Beyond13, Beyond12, Beyond10,
     Beyond9, Beyond8, Beyond7, Beyond4,
     W!vars
<1>2. CASE Next
  BY <1>2 DEF Next
<1> QED
  BY <1>1, <1>2

LEMMA WPartPreserved == WPart /\ [Next]_vars => WPart'
<1> SUFFICES ASSUME WPart, [Next]_vars, part' = "watching" PROVE WInv'
  BY DEF WPart
<1> QED
  BY WPartStep, WPreserved, WatchingAssumed DEF WPart

LEMMA WPartMoves ==
    WPart /\ [Next]_vars => [part = "watching" => W!ListedOnce]_vars
<1> SUFFICES ASSUME WPart, Next, part = "watching" PROVE W!ListedOnce
  OBVIOUS
<1>1. W!Next
  BY DEF Next
<1> QED
  BY <1>1, WMoves, WatchingAssumed DEF WPart

HIDE DEF W_file, W_lock, W_cmd, busy, life, meant, blind, runs, troubles

(***************************************************************************)
(* What holds of PhoneScreen for any sizes, backlog and number of turns.   *)
(*                                                                         *)
(* A frame on its way is on the wire, then with the painter, then on the   *)
(* grid.  Wherever the last size the phone was told is, it is the          *)
(* session's (SizeIsComing); wherever the last whole picture is, what      *)
(* comes after it are the chunks printed since, one after the other and at *)
(* that size (PictureIsComing).  What the phone has not asked for yet is   *)
(* the last thing it asks (WishIsComing).                                  *)
(***************************************************************************)
session == v1
clients == v2
output == v3
toNode == v4
toPhone == v5
link == v6
wanted == v7
requested == v8
pending == v9
said == v10
repainting == v11
painting == v12
grid == v13
elsewhere == v14

USE DEF session, clients, output, toNode, toPhone, link, wanted, requested,
    pending, said, repainting, painting, grid, elsewhere

FrameHas == {"is", "n", "size"}
Questions == [is: {"resize", "resync"}, size: PhoneScreenSizes \union {0}]

ALine(q) == (\E any : q \in Seq(any)) /\ \A i \in 1..Len(q) : DOMAIN q[i] = FrameHas

AGrid(shown) == shown = [size |-> shown.size, n |-> shown.n, good |-> shown.good]

LinesAre ==
    /\ ALine(output) /\ ALine(toPhone) /\ ALine(painting)
    /\ session = [size |-> session.size, n |-> session.n] /\ session.n \in Nat
    /\ AGrid(grid) /\ grid.good \in BOOLEAN
    /\ \A i \in 1..Len(painting) : painting[i].is \in {"resized", "repaint", "feed"}
    /\ {repainting, elsewhere} \subseteq BOOLEAN

\* The phone's wish: what it has asked for last, or has yet to ask.
WishIsComing ==
    /\ toNode \in Seq(Questions) /\ said \in Seq(PhoneScreenSizes)
    /\ {wanted, requested} \subseteq PhoneScreenSizes /\ pending \in PhoneScreenSizes \union {0}
    /\ DOMAIN clients = {"desk", "phone"}
    /\ \A i \in 1..Len(toNode) : toNode[i].is = "resize" => toNode[i].size \in PhoneScreenSizes
    /\ link = "attached" =>
         /\ clients["phone"] \in PhoneScreenSizes
         /\ pending # 0 => toNode = <<>>
         /\ toNode # <<>> => toNode[Len(toNode)].is = "resync"
         /\ Len(toNode) >= 2 => toNode[Len(toNode) - 1] = [is |-> "resize", size |-> wanted]
         /\ pending = 0 /\ Len(toNode) <= 1 => clients["phone"] = wanted
         /\ repainting => toPhone # <<>> /\ toPhone[1].is = "output"

\* After the k-th of q none is of a kind, or they are the chunks up to n.
NoneAfter(q, k, is) == \A i \in 1..Len(q) : i > k => q[i].is # is
Follow(q, k, is, n, size) ==
    \A i \in 1..Len(q) : i > k => /\ q[i].is = is /\ q[i].size = size
                                  /\ q[i].n = n - (Len(q) - i)

\* The last size told: on the wire, with the painter, or the grid's (at).
SizeAt(p, q, at, size) ==
    \/ \E m \in 1..Len(p) : /\ p[m].is = "size" /\ p[m].size = size
                             /\ NoneAfter(p, m, "size")
    \/ /\ NoneAfter(p, 0, "size")
       /\ \E m \in 1..Len(q) : /\ q[m].is = "resized" /\ q[m].size = size
                               /\ NoneAfter(q, m, "resized")
    \/ NoneAfter(p, 0, "size") /\ NoneAfter(q, 0, "resized") /\ at = size

SizeIsComing ==
    link = "attached" /\ ~elsewhere /\ Len(toNode) <= 1 =>
        SizeAt(toPhone, painting, grid.size, session.size)

\* The last whole picture, and what was printed since: the phone was sent
\* all up to chunk n, and the painter up to chunk fed.
OnTheWire(p, first, n, size) ==
    \E k \in 1..Len(p) : /\ p[k].is = "screen" \/ (first /\ k = 1)
                         /\ p[k].size = size /\ p[k].n = n - (Len(p) - k)
                         /\ Follow(p, k, "output", n, size)
WithThePainter(q, fed, size) ==
    \E k \in 1..Len(q) : /\ q[k].is = "repaint"
                         /\ q[k].size = size /\ q[k].n = fed - (Len(q) - k)
                         /\ Follow(q, k, "feed", fed, size)
OnTheGrid(q, shown, fed, size) ==
    /\ shown.good /\ shown.size = size /\ shown.n = fed - Len(q)
    /\ Follow(q, 0, "feed", fed, size)
Painter(q, shown, fed, size) == WithThePainter(q, fed, size) \/ OnTheGrid(q, shown, fed, size)
PictureAt(p, q, shown, first, n, size) ==
    \/ OnTheWire(p, first, n, size)
    \/ ~first /\ Follow(p, 0, "output", n, size) /\ Painter(q, shown, n - Len(p), size)

PictureIsComing ==
    link = "attached" /\ ~elsewhere /\ toNode = <<>> =>
        /\ Follow(output, 0, "chunk", session.n, session.size)
        /\ PictureAt(toPhone, painting, grid, repainting, session.n - Len(output), session.size)

YInv == LinesAre /\ WishIsComing /\ SizeIsComing /\ PictureIsComing

(***************************************************************************)
(* Lemmas: lines.                                                          *)
(***************************************************************************)
LEMMA Appended ==
    ASSUME NEW q, ALine(q), NEW x, DOMAIN x = FrameHas
    PROVE  /\ ALine(Append(q, x)) /\ Len(q) \in Nat /\ Len(Append(q, x)) = Len(q) + 1
           /\ Append(q, x)[Len(q) + 1] = x /\ \A i \in 1..Len(q) : Append(q, x)[i] = q[i]
<1>1. PICK any : q \in Seq(any)
  BY DEF ALine
<1>2. PICK n \in Nat : n = Len(q) /\ DOMAIN q = 1..n /\ q \in [1..n -> any]
  BY <1>1
<1>3. q \in Seq(any \union {x})
  <2>1. q \in [1..n -> any \union {x}]
    BY <1>2
  <2> QED
    BY <1>2, <2>1
<1>4. PICK new : new = Append(q, x)
  OBVIOUS
<1>5. /\ new \in Seq(any \union {x}) /\ Len(new) = n + 1
      /\ new[n + 1] = x /\ \A i \in 1..n : new[i] = q[i]
  BY <1>2, <1>3, <1>4
<1>6. ASSUME NEW i \in 1..n + 1 PROVE DOMAIN new[i] = FrameHas
  BY <1>2, <1>5 DEF ALine
<1> QED
  BY <1>2, <1>4, <1>5, <1>6 DEF ALine

LEMMA HasLength == ASSUME NEW q, ALine(q) PROVE Len(q) \in Nat
BY DEF ALine

LEMMA Tailed ==
    ASSUME NEW q, ALine(q), q # <<>>
    PROVE  /\ ALine(Tail(q)) /\ Len(q) \in Nat /\ Len(q) >= 1 /\ Len(Tail(q)) = Len(q) - 1
           /\ Head(q) = q[1] /\ DOMAIN Head(q) = FrameHas
           /\ \A i \in 1..Len(q) - 1 : Tail(q)[i] = q[i + 1]
<1>1. PICK any : q \in Seq(any)
  BY DEF ALine
<1>2. PICK n \in Nat : n = Len(q) /\ DOMAIN q = 1..n /\ q \in [1..n -> any] /\ n >= 1
  BY <1>1
<1>3. PICK new : new = Tail(q)
  OBVIOUS
<1>4. /\ new \in Seq(any) /\ Len(new) = n - 1 /\ Head(q) = q[1]
      /\ \A i \in 1..n - 1 : new[i] = q[i + 1]
  BY <1>1, <1>2, <1>3
<1>5. \A i \in 1..n - 1 : i + 1 \in 1..n
  BY <1>2
<1>6. ASSUME NEW i \in 1..n - 1 PROVE DOMAIN new[i] = FrameHas
  BY <1>2, <1>4, <1>5 DEF ALine
<1>7. 1 \in 1..n
  BY <1>2
<1> QED
  BY <1>2, <1>3, <1>4, <1>6, <1>7 DEF ALine

LEMMA Renamed ==
    ASSUME NEW f, DOMAIN f = FrameHas, NEW is
    PROVE  /\ DOMAIN [f EXCEPT !.is = is] = FrameHas
           /\ [f EXCEPT !.is = is].is = is /\ [f EXCEPT !.is = is].n = f.n
           /\ [f EXCEPT !.is = is].size = f.size
BY ZenonT(30) DEF FrameHas

LEMMA NoLine == ALine(<<>>) /\ Len(<<>>) = 0
<1>1. <<>> \in Seq({}) /\ Len(<<>>) = 0
  OBVIOUS
<1> QED
  BY <1>1 DEF ALine

LEMMA OneFrame ==
    ASSUME NEW x, DOMAIN x = FrameHas
    PROVE  ALine(<<x>>) /\ Len(<<x>>) = 1 /\ <<x>>[1] = x
<1>1. PICK new : new = <<x>>
  OBVIOUS
<1>2. new \in Seq({x}) /\ Len(new) = 1 /\ new[1] = x
  BY <1>1
<1>3. \A i \in 1..1 : i = 1
  OBVIOUS
<1> QED
  BY <1>1, <1>2, <1>3 DEF ALine

\* One more chunk, and the first one goes.
LEMMA OneMore ==
    ASSUME NEW q, ALine(q), NEW k, NEW is, NEW n \in Int, NEW size,
           Follow(q, k, is, n, size), NEW x, DOMAIN x = FrameHas, x.is = is, x.size = size, x.n = n + 1
    PROVE  Follow(Append(q, x), k, is, n + 1, size)
<1> SUFFICES ASSUME NEW i \in 1..Len(Append(q, x)), i > k
             PROVE  /\ Append(q, x)[i].is = is /\ Append(q, x)[i].size = size
                    /\ Append(q, x)[i].n = n + 1 - (Len(Append(q, x)) - i)
  BY DEF Follow
<1>1. PICK len \in Nat : len = Len(q)
  BY Appended
<1>2. /\ Len(Append(q, x)) = len + 1 /\ Append(q, x)[len + 1] = x
      /\ \A j \in 1..len : Append(q, x)[j] = q[j]
  BY <1>1, Appended
<1>3. CASE i = len + 1
  BY <1>2, <1>3
<1>4. CASE i \in 1..len
  BY <1>1, <1>2, <1>4 DEF Follow
<1> QED
  BY <1>1, <1>2, <1>3, <1>4

LEMMA OneLess ==
    ASSUME NEW q, ALine(q), q # <<>>, NEW k \in Nat, NEW is, NEW n \in Int, NEW size,
           Follow(q, k, is, n, size)
    PROVE  /\ k >= 1 => Follow(Tail(q), k - 1, is, n, size)
           /\ k = 0 => /\ Follow(Tail(q), 0, is, n, size)
                       /\ Head(q).is = is /\ Head(q).size = size /\ Head(q).n = n - (Len(q) - 1)
<1>1. PICK len \in Nat : len = Len(q) /\ len >= 1
  BY Tailed
<1>2. /\ Len(Tail(q)) = len - 1 /\ Head(q) = q[1]
      /\ \A i \in 1..len - 1 : Tail(q)[i] = q[i + 1]
  BY <1>1, Tailed
<1>3. \A i \in 1..len : i > k => /\ q[i].is = is /\ q[i].size = size /\ q[i].n = n - (len - i)
  BY <1>1 DEF Follow
<1>4. ASSUME NEW j \in Nat, NEW i \in 1..len - 1, i > j, j + 1 >= k
      PROVE  /\ Tail(q)[i].is = is /\ Tail(q)[i].size = size
             /\ Tail(q)[i].n = n - ((len - 1) - i)
  <2>1. i + 1 \in 1..len /\ i + 1 > k
    BY <1>1, <1>4
  <2>2. n - (len - (i + 1)) = n - ((len - 1) - i)
    BY <1>1, <1>4
  <2> QED
    BY <1>2, <1>3, <2>1, <2>2
<1>5. k >= 1 => Follow(Tail(q), k - 1, is, n, size)
  <2>1. k >= 1 => k - 1 \in Nat /\ (k - 1) + 1 >= k
    OBVIOUS
  <2> QED
    BY <1>1, <1>2, <1>4, <2>1 DEF Follow
<1>6. k = 0 => Follow(Tail(q), 0, is, n, size)
  BY <1>1, <1>2, <1>4 DEF Follow
<1>7. 1 \in 1..len
  BY <1>1
<1> QED
  BY <1>1, <1>2, <1>3, <1>5, <1>6, <1>7

LEMMA NoMore ==
    ASSUME NEW q, ALine(q), NEW k, NEW is, NoneAfter(q, k, is), NEW x, DOMAIN x = FrameHas, x.is # is
    PROVE  NoneAfter(Append(q, x), k, is)
<1>1. PICK len \in Nat : len = Len(q)
  BY Appended
<1>2. /\ Len(Append(q, x)) = len + 1 /\ Append(q, x)[len + 1] = x
      /\ \A j \in 1..len : Append(q, x)[j] = q[j]
  BY <1>1, Appended
<1> QED
  BY <1>1, <1>2 DEF NoneAfter

LEMMA NoLess ==
    ASSUME NEW q, ALine(q), q # <<>>, NEW k \in Nat, NEW is, NoneAfter(q, k, is)
    PROVE  /\ k >= 1 => NoneAfter(Tail(q), k - 1, is)
           /\ k = 0 => NoneAfter(Tail(q), 0, is) /\ Head(q).is # is
<1>1. PICK len \in Nat : len = Len(q) /\ len >= 1
  BY Tailed
<1>2. /\ Len(Tail(q)) = len - 1 /\ Head(q) = q[1]
      /\ \A i \in 1..len - 1 : Tail(q)[i] = q[i + 1]
  BY <1>1, Tailed
<1>3. \A i \in 1..len : i > k => q[i].is # is
  BY <1>1 DEF NoneAfter
<1>4. \A i \in 1..len - 1 : i + 1 \in 1..len
  BY <1>1
<1>5. 1 \in 1..len
  BY <1>1
<1> QED
  BY <1>1, <1>2, <1>3, <1>4, <1>5 DEF NoneAfter

(***************************************************************************)
(* The last size.                                                          *)
(***************************************************************************)
LEMMA SizeWaits ==
    ASSUME NEW p, ALine(p), NEW q, NEW at, NEW size, SizeAt(p, q, at, size),
           NEW x, DOMAIN x = FrameHas, x.is # "size"
    PROVE  SizeAt(Append(p, x), q, at, size)
<1>1. PICK len \in Nat : len = Len(p)
  BY Appended
<1>2. /\ Len(Append(p, x)) = len + 1
      /\ \A j \in 1..len : Append(p, x)[j] = p[j] /\ j \in 1..len + 1
  BY <1>1, Appended
<1>3. ASSUME NEW k, NoneAfter(p, k, "size") PROVE NoneAfter(Append(p, x), k, "size")
  BY <1>3, NoMore
<1> QED
  BY <1>1, <1>2, <1>3 DEF SizeAt

LEMMA SizeIsTold ==
    ASSUME NEW p, ALine(p), NEW q, NEW at, NEW size,
           NEW x, DOMAIN x = FrameHas, x.is = "size", x.size = size
    PROVE  SizeAt(Append(p, x), q, at, size)
<1>1. PICK len \in Nat : len = Len(p)
  BY Appended
<1>2. Len(Append(p, x)) = len + 1 /\ Append(p, x)[len + 1] = x
  BY <1>1, Appended
<1>3. NoneAfter(Append(p, x), len + 1, "size")
  BY <1>1, <1>2 DEF NoneAfter
<1>4. len + 1 \in 1..len + 1
  BY <1>1
<1> QED
  BY <1>1, <1>2, <1>3, <1>4 DEF SizeAt

LEMMA SizeIsHeard ==
    ASSUME NEW p, ALine(p), p # <<>>, NEW q, ALine(q), NEW at, NEW size, SizeAt(p, q, at, size),
           NEW x, DOMAIN x = FrameHas, x.size = Head(p).size,
           Head(p).is = "size" => x.is = "resized", Head(p).is # "size" => x.is # "resized"
    PROVE  SizeAt(Tail(p), Append(q, x), at, size)
<1>1. PICK len \in Nat : len = Len(p) /\ len >= 1
  BY Tailed
<1>2. PICK had \in Nat : had = Len(q)
  BY Appended
<1>3. /\ Len(Tail(p)) = len - 1 /\ Head(p) = p[1]
      /\ \A i \in 1..len - 1 : Tail(p)[i] = p[i + 1]
  BY <1>1, Tailed
<1>4. /\ Len(Append(q, x)) = had + 1 /\ Append(q, x)[had + 1] = x
      /\ \A j \in 1..had : Append(q, x)[j] = q[j] /\ j \in 1..had + 1
  BY <1>2, Appended
<1>5. CASE \E m \in 1..Len(p) : /\ p[m].is = "size" /\ p[m].size = size
                                 /\ NoneAfter(p, m, "size")
  <2>1. PICK m \in 1..len : p[m].is = "size" /\ p[m].size = size /\ NoneAfter(p, m, "size")
    BY <1>1, <1>5
  <2>2. NoneAfter(Tail(p), m - 1, "size")
    BY <1>1, <2>1, NoLess
  <2>3. CASE m = 1
    <3>1. x.is = "resized" /\ x.size = size /\ NoneAfter(Tail(p), 0, "size")
      BY <1>3, <2>1, <2>2, <2>3
    <3>2. NoneAfter(Append(q, x), had + 1, "resized") /\ had + 1 \in 1..had + 1
      BY <1>2, <1>4 DEF NoneAfter
    <3> QED
      BY <1>4, <3>1, <3>2 DEF SizeAt
  <2>4. CASE m # 1
    <3>1. m - 1 \in 1..len - 1 /\ Tail(p)[m - 1] = p[m]
      BY <1>1, <1>3, <2>1, <2>4
    <3> QED
      BY <1>3, <2>1, <2>2, <3>1 DEF SizeAt
  <2> QED
    BY <2>3, <2>4
<1>6. CASE NoneAfter(p, 0, "size")
  <2>1. NoneAfter(Tail(p), 0, "size") /\ x.is # "resized"
    BY <1>6, NoLess
  <2>2. ASSUME NEW k, NoneAfter(q, k, "resized") PROVE NoneAfter(Append(q, x), k, "resized")
    BY <2>1, <2>2, NoMore
  <2>3. CASE \E m \in 1..Len(q) : /\ q[m].is = "resized" /\ q[m].size = size
                                   /\ NoneAfter(q, m, "resized")
    BY <1>2, <1>4, <2>1, <2>2, <2>3 DEF SizeAt
  <2>4. CASE NoneAfter(q, 0, "resized") /\ at = size
    BY <2>1, <2>2, <2>4 DEF SizeAt
  <2>5. ~(\E m \in 1..Len(p) : /\ p[m].is = "size" /\ p[m].size = size
                                /\ NoneAfter(p, m, "size"))
    BY <1>1, <1>6 DEF NoneAfter
  <2> QED
    BY <2>3, <2>4, <2>5 DEF SizeAt
<1> QED
  BY <1>5, <1>6 DEF SizeAt

LEMMA SizeIsPainted ==
    ASSUME NEW p, ALine(p), NEW q, ALine(q), q # <<>>, NEW at, NEW size, SizeAt(p, q, at, size),
           NEW new, new = IF Head(q).is = "resized" THEN Head(q).size ELSE at
    PROVE  SizeAt(p, Tail(q), new, size)
<1>1. PICK len \in Nat : len = Len(q) /\ len >= 1
  BY Tailed
<1>2. /\ Len(Tail(q)) = len - 1 /\ Head(q) = q[1]
      /\ \A i \in 1..len - 1 : Tail(q)[i] = q[i + 1]
  BY <1>1, Tailed
<1>3. CASE \E m \in 1..Len(p) : /\ p[m].is = "size" /\ p[m].size = size
                                 /\ NoneAfter(p, m, "size")
  BY <1>3 DEF SizeAt
<1>4. CASE /\ NoneAfter(p, 0, "size")
           /\ \E m \in 1..Len(q) : /\ q[m].is = "resized" /\ q[m].size = size
                                   /\ NoneAfter(q, m, "resized")
  <2>1. PICK m \in 1..len : q[m].is = "resized" /\ q[m].size = size /\ NoneAfter(q, m, "resized")
    BY <1>1, <1>4
  <2>2. NoneAfter(Tail(q), m - 1, "resized")
    BY <1>1, <2>1, NoLess
  <2>3. CASE m = 1
    <3>1. new = size /\ NoneAfter(Tail(q), 0, "resized")
      BY <1>2, <2>1, <2>2, <2>3
    <3> QED
      BY <1>4, <3>1 DEF SizeAt
  <2>4. CASE m # 1
    <3>1. m - 1 \in 1..len - 1 /\ Tail(q)[m - 1] = q[m]
      BY <1>1, <1>2, <2>1, <2>4
    <3> QED
      BY <1>2, <1>4, <2>1, <2>2, <3>1 DEF SizeAt
  <2> QED
    BY <2>3, <2>4
<1>5. CASE NoneAfter(p, 0, "size") /\ NoneAfter(q, 0, "resized") /\ at = size
  <2>1. NoneAfter(Tail(q), 0, "resized") /\ Head(q).is # "resized"
    BY <1>5, NoLess
  <2> QED
    BY <1>5, <2>1 DEF SizeAt
<1> QED
  BY <1>3, <1>4, <1>5 DEF SizeAt

(***************************************************************************)
(* The last picture.                                                       *)
(***************************************************************************)
LEMMA PictureWaits ==
    ASSUME NEW p, ALine(p), NEW q, NEW shown, NEW first, NEW n \in Int, NEW size,
           PictureAt(p, q, shown, first, n, size),
           NEW x, DOMAIN x = FrameHas, x.is = "output", x.size = size, x.n = n + 1
    PROVE  PictureAt(Append(p, x), q, shown, first, n + 1, size)
<1>1. PICK len \in Nat : len = Len(p)
  BY Appended
<1>2. /\ Len(Append(p, x)) = len + 1
      /\ \A j \in 1..len : Append(p, x)[j] = p[j] /\ j \in 1..len + 1
  BY <1>1, Appended
<1>3. CASE OnTheWire(p, first, n, size)
  <2>1. PICK k \in 1..len : /\ p[k].is = "screen" \/ (first /\ k = 1)
                            /\ p[k].size = size /\ p[k].n = n - (len - k)
                            /\ Follow(p, k, "output", n, size)
    BY <1>1, <1>3 DEF OnTheWire
  <2>2. Follow(Append(p, x), k, "output", n + 1, size)
    BY <2>1, OneMore
  <2>3. n - (len - k) = n + 1 - (len + 1 - k) /\ k \in 1..len + 1
    BY <1>1
  <2>4. OnTheWire(Append(p, x), first, n + 1, size)
    <3>1. k \in 1..Len(Append(p, x)) /\ Append(p, x)[k] = p[k]
      BY <1>2, <2>3
    <3>2. Append(p, x)[k].n = n + 1 - (Len(Append(p, x)) - k)
      <4>1. p[k].n = n - (len - k) /\ Len(Append(p, x)) = len + 1
        BY <1>1, <1>2, <2>1
      <4> QED
        BY <2>3, <3>1, <4>1
    <3>3. Append(p, x)[k].is = "screen" \/ (first /\ k = 1)
      BY <2>1, <3>1, Zenon
    <3>4. Append(p, x)[k].size = size
      BY <2>1, <3>1
    <3> SUFFICES \E h \in 1..Len(Append(p, x)) :
                    /\ Append(p, x)[h].is = "screen" \/ (first /\ h = 1)
                    /\ Append(p, x)[h].size = size
                    /\ Append(p, x)[h].n = n + 1 - (Len(Append(p, x)) - h)
                    /\ Follow(Append(p, x), h, "output", n + 1, size)
      BY DEF OnTheWire
    <3> k \in 1..Len(Append(p, x))
      BY <3>1
    <3> WITNESS k \in 1..Len(Append(p, x))
    <3> QED
      BY <2>2, <3>2, <3>3, <3>4
  <2> QED
    BY <2>4 DEF PictureAt
<1>4. CASE ~first /\ Follow(p, 0, "output", n, size) /\ Painter(q, shown, n - Len(p), size)
  <2>1. Follow(Append(p, x), 0, "output", n + 1, size)
    BY <1>4, OneMore
  <2>2. n - Len(p) = n + 1 - Len(Append(p, x))
    BY <1>1, <1>2
  <2> QED
    BY <1>4, <2>1, <2>2 DEF PictureAt
<1> QED
  BY <1>3, <1>4 DEF PictureAt

LEMMA PictureIsTaken ==
    ASSUME NEW p, ALine(p), NEW q, NEW shown, NEW first, NEW n \in Int, NEW size,
           NEW x, DOMAIN x = FrameHas, x.is = "screen" \/ (first /\ p = <<>>), x.size = size, x.n = n
    PROVE  PictureAt(Append(p, x), q, shown, first, n, size)
<1>1. PICK len \in Nat : len = Len(p)
  BY Appended
<1>2. Len(Append(p, x)) = len + 1 /\ Append(p, x)[len + 1] = x
  BY <1>1, Appended
<1>3. Follow(Append(p, x), len + 1, "output", n, size)
  BY <1>1, <1>2 DEF Follow
<1>4. len + 1 \in 1..len + 1 /\ n - ((len + 1) - (len + 1)) = n /\ (p = <<>> => len + 1 = 1)
  BY <1>1, NoLine
<1>5. OnTheWire(Append(p, x), first, n, size)
  BY <1>2, <1>3, <1>4 DEF OnTheWire
<1> QED
  BY <1>5 DEF PictureAt

LEMMA PictureIsHeard ==
    ASSUME NEW p, ALine(p), p # <<>>, NEW q, ALine(q), NEW shown, NEW first \in BOOLEAN, NEW n \in Int,
           NEW size, PictureAt(p, q, shown, first, n, size), first => Head(p).is = "output",
           NEW x, DOMAIN x = FrameHas, x.size = Head(p).size, x.n = Head(p).n,
           x.is = IF Head(p).is = "size" THEN "resized"
                  ELSE IF Head(p).is = "screen" \/ first THEN "repaint" ELSE "feed"
    PROVE  PictureAt(Tail(p), Append(q, x), shown, FALSE, n, size)
<1>1. PICK len \in Nat : len = Len(p) /\ len >= 1
  BY Tailed
<1>2. PICK had \in Nat : had = Len(q)
  BY Appended
<1>3. /\ Len(Tail(p)) = len - 1 /\ Head(p) = p[1]
      /\ \A i \in 1..len - 1 : Tail(p)[i] = p[i + 1]
  BY <1>1, Tailed
<1>4. /\ Len(Append(q, x)) = had + 1 /\ Append(q, x)[had + 1] = x
      /\ \A j \in 1..had : Append(q, x)[j] = q[j] /\ j \in 1..had + 1
  BY <1>2, Appended
<1>5. n - Len(Tail(p)) = n - len + 1 /\ n - len \in Int
  BY <1>1, <1>3
<1>6. CASE OnTheWire(p, first, n, size)
  <2>1. PICK k \in 1..len : /\ p[k].is = "screen" \/ (first /\ k = 1)
                            /\ p[k].size = size /\ p[k].n = n - (len - k)
                            /\ Follow(p, k, "output", n, size)
    BY <1>1, <1>6 DEF OnTheWire
  <2>2. Follow(Tail(p), k - 1, "output", n, size)
    BY <1>1, <2>1, OneLess
  <2>3. CASE k = 1
    <3>1. x.is = "repaint" /\ x.size = size /\ x.n = n - len + 1
      BY <1>1, <1>3, <2>1, <2>3
    <3>2. Follow(Append(q, x), had + 1, "feed", n - len + 1, size)
      BY <1>2, <1>4 DEF Follow
    <3>3. had + 1 \in 1..had + 1 /\ n - len + 1 = n - len + 1 - (had + 1 - (had + 1))
      BY <1>1, <1>2
    <3>4. WithThePainter(Append(q, x), n - len + 1, size)
      BY <1>4, <3>1, <3>2, <3>3 DEF WithThePainter
    <3>5. Follow(Tail(p), 0, "output", n, size)
      BY <2>2, <2>3
    <3> QED
      BY <1>5, <3>4, <3>5 DEF PictureAt, Painter
  <2>4. CASE k # 1
    <3>1. /\ k - 1 \in 1..len - 1 /\ Tail(p)[k - 1] = p[k]
          /\ n - (len - k) = n - (len - 1 - (k - 1))
      BY <1>1, <1>3, <2>1, <2>4
    <3>2. OnTheWire(Tail(p), FALSE, n, size)
      BY <1>3, <2>1, <2>2, <2>4, <3>1 DEF OnTheWire
    <3> QED
      BY <3>2 DEF PictureAt
  <2> QED
    BY <2>3, <2>4
<1>7. CASE ~first /\ Follow(p, 0, "output", n, size) /\ Painter(q, shown, n - Len(p), size)
  <2>1. /\ Follow(Tail(p), 0, "output", n, size)
        /\ Head(p).is = "output" /\ Head(p).size = size /\ Head(p).n = n - (len - 1)
    BY <1>1, <1>7, OneLess
  <2>2. x.is = "feed" /\ x.size = size /\ x.n = n - len + 1
    BY <1>1, <1>7, <2>1
  <2>3. ASSUME NEW k, Follow(q, k, "feed", n - len, size)
        PROVE  Follow(Append(q, x), k, "feed", n - len + 1, size)
    BY <1>5, <2>2, <2>3, OneMore
  <2>4. CASE WithThePainter(q, n - len, size)
    <3>1. PICK k \in 1..had : /\ q[k].is = "repaint"
                              /\ q[k].size = size /\ q[k].n = n - len - (had - k)
                              /\ Follow(q, k, "feed", n - len, size)
      BY <1>2, <2>4 DEF WithThePainter
    <3>2. n - len - (had - k) = n - len + 1 - (had + 1 - k)
      BY <1>1, <1>2
    <3>3. WithThePainter(Append(q, x), n - len + 1, size)
      BY <1>4, <2>3, <3>1, <3>2 DEF WithThePainter
    <3> QED
      BY <1>5, <2>1, <3>3 DEF PictureAt, Painter
  <2>5. CASE OnTheGrid(q, shown, n - len, size)
    <3>1. n - len - had = n - len + 1 - (had + 1)
      BY <1>1, <1>2
    <3>2. OnTheGrid(Append(q, x), shown, n - len + 1, size)
      BY <1>2, <1>4, <2>3, <2>5, <3>1 DEF OnTheGrid
    <3> QED
      BY <1>5, <2>1, <3>2 DEF PictureAt, Painter
  <2> QED
    BY <1>1, <1>7, <2>4, <2>5 DEF Painter
<1> QED
  BY <1>6, <1>7 DEF PictureAt

LEMMA PaintedSo ==
    ASSUME AGrid(grid), grid.good \in BOOLEAN, NEW paint
    PROVE  /\ AGrid(S!Painted(paint)) /\ S!Painted(paint).good \in BOOLEAN
           /\ S!Painted(paint).size = IF paint.is = "resized" THEN paint.size ELSE grid.size
           /\ paint.is # "resized" => S!Painted(paint).n = paint.n
           /\ paint.is = "repaint" => (paint.size = grid.size => S!Painted(paint).good)
           /\ paint.is = "feed" =>
                (grid.good /\ paint.n = grid.n + 1 /\ paint.size = grid.size => S!Painted(paint).good)
<1>1. PICK size, n, good : grid = [size |-> size, n |-> n, good |-> good]
  BY DEF AGrid
<1>2. grid.size = size /\ grid.n = n /\ grid.good = good /\ good \in BOOLEAN
  BY <1>1
<1>3. CASE paint.is = "resized"
  <2>1. S!Painted(paint) = [size |-> paint.size, n |-> n, good |-> good /\ paint.size = size]
    BY <1>1, <1>2, <1>3 DEF S!Painted
  <2> QED
    BY <1>2, <1>3, <2>1 DEF AGrid
<1>4. CASE paint.is = "repaint"
  <2>1. PICK good2 \in BOOLEAN : good2 = (paint.size = size)
    OBVIOUS
  <2>2. S!Painted(paint) = [size |-> size, n |-> paint.n, good |-> good2]
    BY <1>1, <1>2, <1>4, <2>1 DEF S!Painted
  <2>3. /\ S!Painted(paint).size = size /\ S!Painted(paint).n = paint.n
        /\ S!Painted(paint).good = good2
    BY <2>2
  <2>4. AGrid(S!Painted(paint))
    BY <2>2, <2>3 DEF AGrid
  <2>5. S!Painted(paint).good \in BOOLEAN /\ (paint.size = size => S!Painted(paint).good)
    BY <2>1, <2>3
  <2> QED
    BY <1>2, <1>4, <2>3, <2>4, <2>5
<1>5. CASE paint.is \notin {"resized", "repaint"}
  <2>1. S!Painted(paint) = [size |-> size, n |-> paint.n,
                            good |-> good /\ paint.n = n + 1 /\ paint.size = size]
    BY <1>1, <1>2, <1>5 DEF S!Painted
  <2> QED
    BY <1>2, <1>5, <2>1 DEF AGrid
<1> QED
  BY <1>3, <1>4, <1>5

LEMMA PictureIsPainted ==
    ASSUME NEW p, ALine(p), NEW q, ALine(q), q # <<>>, NEW first, NEW n \in Int, NEW size,
           AGrid(grid), grid.good \in BOOLEAN,
           PictureAt(p, q, grid, first, n, size), SizeAt(p, q, grid.size, size)
    PROVE  PictureAt(p, Tail(q), S!Painted(Head(q)), first, n, size)
<1>1. PICK len \in Nat : len = Len(q) /\ len >= 1
  BY Tailed
<1>2. /\ Len(Tail(q)) = len - 1 /\ Head(q) = q[1]
      /\ \A i \in 1..len - 1 : Tail(q)[i] = q[i + 1]
  BY <1>1, Tailed
<1>3. PICK there \in Nat : there = Len(p)
  BY HasLength
<1>4. PICK fed \in Int : fed = n - there
  BY <1>3
<1>5. PICK now : now = S!Painted(Head(q))
  OBVIOUS
<1>6. /\ now.size = IF q[1].is = "resized" THEN q[1].size ELSE grid.size
      /\ q[1].is # "resized" => now.n = q[1].n
      /\ q[1].is = "repaint" => (q[1].size = grid.size => now.good)
      /\ q[1].is = "feed" =>
           (grid.good /\ q[1].n = grid.n + 1 /\ q[1].size = grid.size => now.good)
  BY <1>2, <1>5, PaintedSo
<1>7. CASE OnTheWire(p, first, n, size)
  BY <1>7 DEF PictureAt
<1>8. CASE ~first /\ Follow(p, 0, "output", n, size) /\ Painter(q, grid, n - Len(p), size)
  <2>1. CASE WithThePainter(q, fed, size)
    <3>1. PICK k \in 1..len : /\ q[k].is = "repaint"
                              /\ q[k].size = size /\ q[k].n = fed - (len - k)
                              /\ Follow(q, k, "feed", fed, size)
      BY <1>1, <2>1 DEF WithThePainter
    <3>2. Follow(Tail(q), k - 1, "feed", fed, size)
      BY <1>1, <1>4, <3>1, OneLess
    <3>3. CASE k = 1
      <4>1. ASSUME NEW m \in 1..Len(p) PROVE p[m].is # "size"
        BY <1>3, <1>8, <4>1 DEF Follow
      <4>2. ASSUME NEW m \in 1..Len(q) PROVE q[m].is # "resized"
        BY <1>1, <3>1, <3>3, <4>2 DEF Follow
      <4>3. grid.size = size
        BY <4>1, <4>2 DEF SizeAt
      <4>4. now.good /\ now.size = size /\ now.n = fed - (len - 1)
        BY <1>6, <3>1, <3>3, <4>3
      <4>5. OnTheGrid(Tail(q), now, fed, size)
        BY <1>2, <3>2, <3>3, <4>4 DEF OnTheGrid
      <4> QED
        BY <1>3, <1>4, <1>5, <1>8, <4>5 DEF PictureAt, Painter
    <3>4. CASE k # 1
      <4>1. /\ k - 1 \in 1..len - 1 /\ Tail(q)[k - 1] = q[k]
            /\ fed - (len - k) = fed - (len - 1 - (k - 1))
        BY <1>1, <1>2, <1>4, <3>1, <3>4
      <4>2. WithThePainter(Tail(q), fed, size)
        BY <1>2, <3>1, <3>2, <4>1 DEF WithThePainter
      <4> QED
        BY <1>3, <1>4, <1>8, <4>2 DEF PictureAt, Painter
    <3> QED
      BY <3>3, <3>4
  <2>2. CASE OnTheGrid(q, grid, fed, size)
    <3>1. /\ Follow(Tail(q), 0, "feed", fed, size)
          /\ q[1].is = "feed" /\ q[1].size = size /\ q[1].n = fed - (len - 1)
      BY <1>1, <1>2, <1>4, <2>2, OneLess DEF OnTheGrid
    <3>2. grid.good /\ grid.size = size /\ grid.n + 1 = fed - (len - 1)
      BY <1>1, <1>4, <2>2 DEF OnTheGrid
    <3>3. now.good /\ now.size = size /\ now.n = fed - (len - 1)
      BY <1>6, <3>1, <3>2
    <3>4. OnTheGrid(Tail(q), now, fed, size)
      BY <1>2, <3>1, <3>3 DEF OnTheGrid
    <3> QED
      BY <1>3, <1>4, <1>5, <1>8, <3>4 DEF PictureAt, Painter
  <2> QED
    BY <1>3, <1>4, <1>8, <2>1, <2>2 DEF Painter
<1> QED
  BY <1>7, <1>8 DEF PictureAt

(***************************************************************************)
(* The steps.                                                              *)
(***************************************************************************)
LEMMA YInitially == ASSUME S!PhoneScreenAssumption PROVE S!Init => YInv
<1> SUFFICES ASSUME S!Init PROVE YInv
  OBVIOUS
<1>1. PICK size \in PhoneScreenSizes : session = [size |-> size, n |-> 0]
  BY DEF S!Init
<1>2. session = [size |-> session.size, n |-> session.n] /\ session.n \in Nat
  BY <1>1
<1>3. AGrid(grid) /\ grid.good \in BOOLEAN
  BY DEF S!Init, AGrid
<1>4. LinesAre
  <2>1. output = <<>> /\ toPhone = <<>> /\ painting = <<>> /\ repainting = TRUE /\ elsewhere = FALSE
    BY DEF S!Init
  <2>2. \A i \in 1..Len(painting) : FALSE
    BY <2>1, NoLine
  <2> QED
    BY <1>2, <1>3, <2>1, <2>2, NoLine DEF LinesAre
<1>5. WishIsComing
  <2>1. <<>> \in Seq(Questions) /\ <<>> \in Seq(PhoneScreenSizes) /\ Len(<<>>) = 0
    OBVIOUS
  <2> QED
    BY <2>1 DEF WishIsComing, S!Init
<1>6. SizeIsComing /\ PictureIsComing
  BY DEF SizeIsComing, PictureIsComing, S!Init
<1> QED
  BY <1>4, <1>5, <1>6 DEF YInv

\* A step that touches nothing of what each part speaks of.
LEMMA SizeStays ==
    ASSUME SizeIsComing, UNCHANGED <<session, toNode, toPhone, link, painting, grid, elsewhere>>
    PROVE  SizeIsComing'
BY DEF SizeIsComing, SizeAt, NoneAfter

LEMMA PictureStays ==
    ASSUME PictureIsComing,
           UNCHANGED <<session, output, toNode, toPhone, link, repainting, painting, grid, elsewhere>>
    PROVE  PictureIsComing'
BY DEF PictureIsComing, PictureAt, OnTheWire, Painter, WithThePainter, OnTheGrid, Follow

LEMMA WishStays ==
    ASSUME WishIsComing,
           UNCHANGED <<clients, toNode, toPhone, link, wanted, requested, pending, said, repainting>>
    PROVE  WishIsComing'
BY DEF WishIsComing

\* A screen keeps its shape.
LEMMA Resized ==
    ASSUME LinesAre, NEW client, NEW size, S!Resizes(client, size)
    PROVE  /\ session' = [size |-> session'.size, n |-> session'.n] /\ session'.n = session.n
           /\ session'.size = session.size => session' = session
<1>1. PICK was, n : session = [size |-> was, n |-> n]
  BY DEF LinesAre
<1>2. PICK now : session' = [session EXCEPT !.size = now]
  BY DEF S!Resizes
<1>3. session' = [size |-> now, n |-> n]
  BY <1>1, <1>2
<1> QED
  BY <1>1, <1>3

LEMMA PrintsKeeps == ASSUME YInv, S!PhoneScreenAssumption, S!Prints PROVE YInv'
<1>1. PICK x : x = [is |-> "chunk", n |-> session.n + 1, size |-> session.size]
  OBVIOUS
<1>2. /\ DOMAIN x = FrameHas /\ x.is = "chunk" /\ x.size = session.size /\ x.n = session.n + 1
  BY <1>1 DEF FrameHas
<1>3. /\ session.n \in Nat /\ session' = [size |-> session'.size, n |-> session'.n]
      /\ session'.size = session.size /\ session'.n = session.n + 1
  <2>1. PICK size, n : session = [size |-> size, n |-> n] /\ n \in Nat
    BY DEF YInv, LinesAre
  <2>2. session' = [size |-> size, n |-> n + 1]
    BY <2>1 DEF S!Prints
  <2> QED
    BY <2>1, <2>2
<1>0. ALine(output) /\ session.n \in Int
  BY DEF YInv, LinesAre
<1>4. PICK len \in Nat : len = Len(output)
  BY <1>0, HasLength
<1>5. LinesAre'
  <2>1. ALine(output')
    BY <1>1, <1>2, Appended DEF S!Prints, YInv, LinesAre
  <2>2. UNCHANGED <<toPhone, painting, grid, repainting, elsewhere>>
    BY DEF S!Prints, S!phone
  <2> QED
    BY <1>3, <2>1, <2>2 DEF YInv, LinesAre, ALine, AGrid
<1>6. WishIsComing'
  BY WishStays DEF YInv, S!Prints, S!phone
<1>7. UNCHANGED <<toNode, toPhone, link, repainting, painting, grid, elsewhere, clients>>
  BY DEF S!Prints, S!phone
<1>8. SizeIsComing'
  BY <1>3, <1>7 DEF YInv, SizeIsComing, SizeAt, NoneAfter
<1>9. PictureIsComing'
  <2> SUFFICES ASSUME link = "attached", ~elsewhere, toNode = <<>>
               PROVE  /\ Follow(output', 0, "chunk", session'.n, session'.size)
                      /\ PictureAt(toPhone, painting, grid, repainting,
                                   session'.n - Len(output'), session'.size)
    BY <1>7 DEF PictureIsComing, PictureAt, OnTheWire, Painter, WithThePainter, OnTheGrid, Follow
  <2>1. clients["phone"] # 0
    BY DEF YInv, WishIsComing, S!PhoneScreenAssumption
  <2>2. output' = Append(output, x)
    BY <1>1, <2>1 DEF S!Prints
  <2>3. /\ Follow(output, 0, "chunk", session.n, session.size)
        /\ PictureAt(toPhone, painting, grid, repainting, session.n - len, session.size)
    BY <1>4 DEF YInv, PictureIsComing
  <2>4. Follow(output', 0, "chunk", session.n + 1, session.size)
    BY <1>0, <1>2, <2>2, <2>3, OneMore
  <2>5. Len(output') = len + 1
    BY <1>0, <1>2, <1>4, <2>2, Appended
  <2>6. session'.n - Len(output') = session.n - len /\ session'.n = session.n + 1
    BY <1>0, <1>3, <2>5
  <2> QED
    BY <1>3, <2>3, <2>4, <2>6
<1> QED
  BY <1>5, <1>6, <1>8, <1>9 DEF YInv

LEMMA ForwardsKeeps == ASSUME YInv, S!Forwards PROVE YInv'
<1>0. ALine(output) /\ ALine(toPhone) /\ session.n \in Int /\ output # <<>>
  BY DEF YInv, LinesAre, S!Forwards
<1>1. PICK x : x = [Head(output) EXCEPT !.is = "output"]
  OBVIOUS
<1>2. /\ DOMAIN x = FrameHas /\ x.is = "output"
      /\ x.size = Head(output).size /\ x.n = Head(output).n
  <2>1. DOMAIN Head(output) = FrameHas
    BY <1>0, Tailed
  <2> QED
    BY <1>1, <2>1, Renamed
<1>3. output' = Tail(output) /\ toPhone' = Append(toPhone, x)
  BY <1>1 DEF S!Forwards
<1>4. UNCHANGED <<session, clients, toNode, link, wanted, requested, pending, said,
                  repainting, painting, grid, elsewhere>>
  BY DEF S!Forwards, S!phone
<1>5. PICK len \in Nat : len = Len(output) /\ len >= 1
  BY <1>0, Tailed
<1>6. PICK had \in Nat : had = Len(toPhone)
  BY <1>0, HasLength
<1>7. LinesAre'
  <2>1. ALine(output') /\ ALine(toPhone')
    BY <1>0, <1>2, <1>3, Tailed, Appended
  <2> QED
    BY <1>4, <2>1 DEF YInv, LinesAre, ALine, AGrid
<1>8. WishIsComing'
  <2>1. toPhone # <<>> => toPhone' # <<>> /\ toPhone'[1] = toPhone[1]
    <3>1. Len(toPhone') = had + 1 /\ \A i \in 1..had : toPhone'[i] = toPhone[i]
      BY <1>0, <1>2, <1>3, <1>6, Appended
    <3>2. toPhone # <<>> => had >= 1
      BY <1>0, <1>6, Tailed
    <3>3. had >= 1 => 1 \in 1..had
      OBVIOUS
    <3>4. had + 1 # 0
      OBVIOUS
    <3> QED
      BY <3>1, <3>2, <3>3, <3>4, NoLine
  <2> QED
    BY <1>4, <2>1 DEF YInv, WishIsComing
<1>9. SizeIsComing'
  <2> SUFFICES ASSUME link = "attached", ~elsewhere, Len(toNode) <= 1
               PROVE  SizeAt(toPhone', painting, grid.size, session.size)
    BY <1>4 DEF SizeIsComing, SizeAt, NoneAfter
  <2>1. SizeAt(toPhone, painting, grid.size, session.size)
    BY DEF YInv, SizeIsComing
  <2>2. x.is # "size"
    BY <1>2
  <2> QED
    BY <1>0, <1>2, <1>3, <2>1, <2>2, SizeWaits
<1>10. PictureIsComing'
  <2> SUFFICES ASSUME link = "attached", ~elsewhere, toNode = <<>>
               PROVE  /\ Follow(output', 0, "chunk", session.n, session.size)
                      /\ PictureAt(toPhone', painting, grid, repainting,
                                   session.n - Len(output'), session.size)
    BY <1>4 DEF PictureIsComing, PictureAt, OnTheWire, Painter, WithThePainter, OnTheGrid, Follow
  <2>1. /\ Follow(output, 0, "chunk", session.n, session.size)
        /\ PictureAt(toPhone, painting, grid, repainting, session.n - len, session.size)
    BY <1>5 DEF YInv, PictureIsComing
  <2>2. /\ Follow(output', 0, "chunk", session.n, session.size)
        /\ x.size = session.size /\ x.n = session.n - (len - 1)
    BY <1>0, <1>2, <1>3, <1>5, <2>1, OneLess, SMTT(30)
  <2>3. session.n - (len - 1) = session.n - len + 1 /\ session.n - len \in Int
    BY <1>0, <1>5
  <2>4. PictureAt(toPhone', painting, grid, repainting, session.n - len + 1, session.size)
    BY <1>0, <1>2, <1>3, <2>1, <2>2, <2>3, PictureWaits
  <2>5. Len(output') = len - 1
    BY <1>0, <1>3, <1>5, Tailed
  <2> QED
    BY <2>2, <2>3, <2>4, <2>5
<1> QED
  BY <1>7, <1>8, <1>9, <1>10 DEF YInv

\* What is left to ask, once the node has taken the first question.
LEMMA AskedLess ==
    ASSUME WishIsComing, toNode # <<>>, toNode' = Tail(toNode)
    PROVE  \E len \in Nat :
             /\ len = Len(toNode) /\ len >= 1 /\ Len(toNode') = len - 1
             /\ Head(toNode) = toNode[1] /\ Head(toNode) \in Questions
             /\ toNode' \in Seq(Questions) /\ (toNode' = <<>>) = (len = 1)
             /\ \A i \in 1..len - 1 : toNode'[i] = toNode[i + 1] /\ i + 1 \in 1..len
<1>1. toNode \in Seq(Questions)
  BY DEF WishIsComing
<1>2. PICK len \in Nat : len = Len(toNode) /\ len >= 1
  BY <1>1
<1>3. PICK new : new = Tail(toNode)
  OBVIOUS
<1>4. /\ new \in Seq(Questions) /\ Len(new) = len - 1
      /\ Head(toNode) = toNode[1] /\ toNode[1] \in Questions
      /\ \A i \in 1..len - 1 : new[i] = toNode[i + 1] /\ i + 1 \in 1..len
  BY <1>1, <1>2, <1>3
<1>5. (new = <<>>) = (len = 1)
  BY <1>2, <1>4
<1> QED
  BY <1>2, <1>3, <1>4, <1>5

LEMMA resizeKeeps == ASSUME YInv, S!PhoneScreenAssumption, S!resize PROVE YInv'
<1>0. /\ ALine(toPhone) /\ toNode # <<>> /\ toNode' = Tail(toNode) /\ Head(toNode).is = "resize"
      /\ WishIsComing
  BY DEF YInv, LinesAre, S!resize
<1>1. PICK len \in Nat :
        /\ len = Len(toNode) /\ len >= 1 /\ Len(toNode') = len - 1
        /\ Head(toNode) = toNode[1] /\ Head(toNode) \in Questions
        /\ toNode' \in Seq(Questions) /\ (toNode' = <<>>) = (len = 1)
        /\ \A i \in 1..len - 1 : toNode'[i] = toNode[i + 1] /\ i + 1 \in 1..len
  BY <1>0, AskedLess
<1>2. PICK x : x = [is |-> "size", n |-> 0, size |-> session'.size]
  OBVIOUS
<1>3. DOMAIN x = FrameHas /\ x.is = "size" /\ x.size = session'.size
  BY <1>2 DEF FrameHas
<1>4. /\ toPhone' = Append(toPhone, x) /\ elsewhere' = FALSE
      /\ clients' = [clients EXCEPT !["phone"] = toNode[1].size]
      /\ UNCHANGED <<output, link, wanted, requested, pending, said, repainting, painting, grid>>
  BY <1>1, <1>2 DEF S!resize, S!phone, S!Resizes
<1>5. session' = [size |-> session'.size, n |-> session'.n] /\ session'.n = session.n
  BY Resized DEF YInv, S!resize
<1>6. LinesAre'
  <2>1. ALine(toPhone')
    BY <1>0, <1>3, <1>4, Appended
  <2> QED
    BY <1>4, <1>5, <2>1 DEF YInv, LinesAre, ALine, AGrid
<1>7. 1 \in 1..len
  BY <1>1
<1>8. WishIsComing'
  <2>1. toNode[1].is = "resize" /\ toNode[1].size \in PhoneScreenSizes
    BY <1>0, <1>1, <1>7 DEF WishIsComing
  <2>2. DOMAIN clients' = {"desk", "phone"} /\ clients'["phone"] = toNode[1].size
    BY <1>0, <1>4 DEF WishIsComing
  <2>3. ASSUME NEW i \in 1..Len(toNode'), toNode'[i].is = "resize" PROVE toNode'[i].size \in PhoneScreenSizes
    BY <1>0, <1>1, <2>3 DEF WishIsComing
  <2>4. ASSUME link = "attached"
        PROVE  /\ pending # 0 => toNode' = <<>>
               /\ toNode' # <<>> => toNode'[Len(toNode')].is = "resync"
               /\ Len(toNode') >= 2 => toNode'[Len(toNode') - 1] = [is |-> "resize", size |-> wanted]
               /\ pending = 0 /\ Len(toNode') <= 1 => clients'["phone"] = wanted
               /\ repainting => toPhone' # <<>> /\ toPhone'[1].is = "output"
    <3>1. pending = 0 /\ toNode[len].is = "resync"
      BY <1>0, <1>1, <2>4 DEF WishIsComing
    <3>2. len >= 2 /\ toNode[len - 1] = [is |-> "resize", size |-> wanted]
      <4>1. len # 1
        BY <1>0, <1>1, <3>1
      <4> QED
        BY <1>0, <1>1, <2>4, <4>1 DEF WishIsComing
    <3>3. toNode'[len - 1] = toNode[len] /\ (len - 1 >= 2 => toNode'[len - 2] = toNode[len - 1])
      <4>1. len - 1 \in 1..len - 1 /\ (len - 1 >= 2 => len - 2 \in 1..len - 1)
        BY <3>2
      <4>2. (len - 1) + 1 = len /\ (len - 2) + 1 = len - 1
        BY <1>1
      <4> QED
        BY <1>1, <4>1, <4>2
    <3>4. len - 1 <= 1 => toNode[1].size = wanted
      <4>1. len - 1 <= 1 => len - 1 = 1
        BY <3>2
      <4> QED
        BY <3>2, <4>1
    <3>5. repainting => toPhone' # <<>> /\ toPhone'[1].is = "output"
      <4>1. PICK had \in Nat : had = Len(toPhone)
        BY <1>0, HasLength
      <4>2. Len(toPhone') = had + 1 /\ \A i \in 1..had : toPhone'[i] = toPhone[i]
        BY <1>0, <1>3, <1>4, <4>1, Appended
      <4>3. repainting => toPhone # <<>> /\ toPhone[1].is = "output"
        BY <1>0, <2>4 DEF WishIsComing
      <4>4. toPhone # <<>> => 1 \in 1..had
        BY <1>0, <4>1, Tailed
      <4>5. had + 1 # 0
        OBVIOUS
      <4> QED
        BY <4>2, <4>3, <4>4, <4>5, NoLine
    <3>6. toNode'[len - 1].is = "resync"
      BY <3>1, <3>3
    <3>7. len - 1 >= 2 => toNode'[len - 1 - 1] = [is |-> "resize", size |-> wanted]
      <4>1. len - 1 - 1 = len - 2
        BY <1>1
      <4> QED
        BY <3>2, <3>3, <4>1
    <3> QED
      BY <1>1, <2>2, <3>1, <3>4, <3>5, <3>6, <3>7
  <2> QED
    BY <1>0, <1>1, <1>4, <2>1, <2>2, <2>3, <2>4 DEF WishIsComing
<1>9. SizeIsComing'
  <2>1. SizeAt(toPhone', painting', grid'.size, session'.size)
    BY <1>0, <1>3, <1>4, SizeIsTold
  <2> QED
    BY <2>1 DEF SizeIsComing, SizeAt, NoneAfter
<1>10. PictureIsComing'
  <2>1. link = "attached" => len # 1
    BY <1>0, <1>1 DEF WishIsComing
  <2> QED
    BY <1>1, <1>4, <2>1 DEF PictureIsComing
<1> QED
  BY <1>6, <1>8, <1>9, <1>10 DEF YInv

LEMMA resyncKeeps == ASSUME YInv, S!PhoneScreenAssumption, S!resync PROVE YInv'
<1>0. /\ ALine(toPhone) /\ toNode # <<>> /\ toNode' = Tail(toNode) /\ Head(toNode).is = "resync"
      /\ WishIsComing /\ session.n \in Int
  BY DEF YInv, LinesAre, S!resync
<1>1. PICK len \in Nat :
        /\ len = Len(toNode) /\ len >= 1 /\ Len(toNode') = len - 1
        /\ Head(toNode) = toNode[1] /\ Head(toNode) \in Questions
        /\ toNode' \in Seq(Questions) /\ (toNode' = <<>>) = (len = 1)
        /\ \A i \in 1..len - 1 : toNode'[i] = toNode[i + 1] /\ i + 1 \in 1..len
  BY <1>0, AskedLess
<1>2. PICK x : x = [S!repaint EXCEPT !.is = "screen"]
  OBVIOUS
<1>3. DOMAIN x = FrameHas /\ x.is = "screen" /\ x.size = session.size /\ x.n = session.n
  <2>1. DOMAIN S!repaint = FrameHas /\ S!repaint.size = session.size /\ S!repaint.n = session.n
    BY DEF S!repaint, FrameHas
  <2> QED
    BY <1>2, <2>1, Renamed
<1>4. /\ toPhone' = Append(toPhone, x) /\ output' = <<>>
      /\ UNCHANGED <<session, clients, link, wanted, requested, pending, said, repainting, painting,
                     grid, elsewhere>>
  BY <1>2 DEF S!resync, S!phone
<1>5. PICK had \in Nat : had = Len(toPhone)
  BY <1>0, HasLength
<1>6. LinesAre'
  <2>1. ALine(toPhone') /\ ALine(output')
    BY <1>0, <1>3, <1>4, Appended, NoLine
  <2> QED
    BY <1>4, <2>1 DEF YInv, LinesAre, ALine, AGrid
<1>7. link = "attached" =>
        /\ toNode[len].is = "resync" /\ len # 2
        /\ len >= 2 => toNode[len - 1] = [is |-> "resize", size |-> wanted]
        /\ len >= 2 => toNode'[len - 1] = toNode[len]
        /\ len - 1 >= 2 => toNode'[len - 2] = toNode[len - 1]
  <2> SUFFICES ASSUME link = "attached"
               PROVE  /\ toNode[len].is = "resync" /\ len # 2
                      /\ len >= 2 => toNode[len - 1] = [is |-> "resize", size |-> wanted]
                      /\ len >= 2 => toNode'[len - 1] = toNode[len]
                      /\ len - 1 >= 2 => toNode'[len - 2] = toNode[len - 1]
    OBVIOUS
  <2>1. /\ toNode[len].is = "resync"
        /\ len >= 2 => toNode[len - 1] = [is |-> "resize", size |-> wanted]
    BY <1>0, <1>1 DEF WishIsComing
  <2>2. len # 2
    <3> SUFFICES ASSUME len = 2 PROVE FALSE
      OBVIOUS
    <3>1. len >= 2 /\ len - 1 = 1
      OBVIOUS
    <3>2. toNode[1].is = "resize"
      BY <2>1, <3>1
    <3> QED
      BY <1>0, <1>1, <3>2
  <2>3. /\ len >= 2 => len - 1 \in 1..len - 1 /\ (len - 1) + 1 = len
        /\ len - 1 >= 2 => len - 2 \in 1..len - 1 /\ (len - 2) + 1 = len - 1
    BY <1>1
  <2> QED
    BY <1>1, <2>1, <2>2, <2>3
<1>8. WishIsComing'
  <2>1. ASSUME NEW i \in 1..Len(toNode'), toNode'[i].is = "resize" PROVE toNode'[i].size \in PhoneScreenSizes
    BY <1>0, <1>1, <2>1 DEF WishIsComing
  <2>2. ASSUME link = "attached"
        PROVE  /\ clients["phone"] \in PhoneScreenSizes
               /\ pending # 0 => toNode' = <<>>
               /\ toNode' # <<>> => toNode'[Len(toNode')].is = "resync"
               /\ Len(toNode') >= 2 => toNode'[Len(toNode') - 1] = [is |-> "resize", size |-> wanted]
               /\ pending = 0 /\ Len(toNode') <= 1 => clients["phone"] = wanted
               /\ repainting => toPhone' # <<>> /\ toPhone'[1].is = "output"
    <3>1. /\ clients["phone"] \in PhoneScreenSizes /\ (pending # 0 => toNode = <<>>)
          /\ pending = 0 /\ len <= 1 => clients["phone"] = wanted
          /\ repainting => toPhone # <<>> /\ toPhone[1].is = "output"
      BY <1>0, <1>1, <2>2 DEF WishIsComing
    <3>2. len - 1 <= 1 => len <= 1
      BY <1>1, <1>7, <2>2
    <3>3. repainting => toPhone' # <<>> /\ toPhone'[1].is = "output"
      <4>1. Len(toPhone') = had + 1 /\ \A i \in 1..had : toPhone'[i] = toPhone[i]
        BY <1>0, <1>3, <1>4, <1>5, Appended
      <4>2. toPhone # <<>> => 1 \in 1..had
        BY <1>0, <1>5, Tailed
      <4>3. had + 1 # 0
        OBVIOUS
      <4> QED
        BY <3>1, <4>1, <4>2, <4>3, NoLine
    <3>4. len # 1 => toNode'[len - 1].is = "resync"
      BY <1>1, <1>7, <2>2
    <3>5. len - 1 >= 2 => toNode'[len - 1 - 1] = [is |-> "resize", size |-> wanted]
      <4>1. len - 1 >= 2 => len >= 2 /\ len - 1 - 1 = len - 2
        BY <1>1
      <4> QED
        BY <1>7, <2>2, <4>1
    <3> QED
      BY <1>0, <1>1, <3>1, <3>2, <3>3, <3>4, <3>5
  <2> QED
    BY <1>0, <1>1, <1>4, <2>1, <2>2 DEF WishIsComing
<1>9. SizeIsComing'
  <2> SUFFICES ASSUME link = "attached", ~elsewhere, Len(toNode') <= 1
               PROVE  SizeAt(toPhone', painting, grid.size, session.size)
    BY <1>4 DEF SizeIsComing, SizeAt, NoneAfter
  <2>1. Len(toNode) <= 1
    BY <1>1, <1>7
  <2>2. SizeAt(toPhone, painting, grid.size, session.size) /\ x.is # "size"
    BY <1>3, <2>1 DEF YInv, SizeIsComing
  <2> QED
    BY <1>0, <1>3, <1>4, <2>2, SizeWaits
<1>10. PictureIsComing'
  <2> SUFFICES ASSUME link' = "attached", ~elsewhere', toNode' = <<>>
               PROVE  /\ Follow(output', 0, "chunk", session'.n, session'.size)
                      /\ PictureAt(toPhone', painting', grid', repainting',
                                   session'.n - Len(output'), session'.size)
    BY DEF PictureIsComing, PictureAt, OnTheWire, Painter, WithThePainter, OnTheGrid, Follow
  <2>1. Follow(output', 0, "chunk", session'.n, session'.size)
    <3>1. Len(output') = 0
      BY <1>4, NoLine
    <3> QED
      BY <3>1 DEF Follow
  <2>2. session'.n - Len(output') = session.n
    BY <1>0, <1>4, NoLine
  <2>3. PictureAt(toPhone', painting', grid', repainting', session.n, session'.size)
    <3>1. PictureAt(Append(toPhone, x), painting, grid, repainting, session.n, session.size)
      BY <1>0, <1>3, PictureIsTaken
    <3> QED
      BY <1>4, <3>1
  <2> QED
    BY <2>1, <2>2, <2>3
<1> QED
  BY <1>6, <1>8, <1>9, <1>10 DEF YInv

LEMMA DeskKeeps ==
    ASSUME YInv, NEW size \in PhoneScreenSizes \union {0}, S!Desk(size)
    PROVE  YInv'
<1>1. UNCHANGED <<output, toNode, toPhone, S!phone>>
  BY DEF S!Desk
<1>2. /\ session' = [size |-> session'.size, n |-> session'.n] /\ session'.n = session.n
      /\ session'.size = session.size => session' = session
  BY Resized DEF YInv, S!Desk
<1>3. LinesAre'
  <2>1. elsewhere' \in BOOLEAN
    BY DEF S!Desk
  <2> QED
    BY <1>1, <1>2, <2>1 DEF YInv, LinesAre, ALine, AGrid, S!phone
<1>4. WishIsComing'
  <2>1. DOMAIN clients' = DOMAIN clients /\ clients'["phone"] = clients["phone"]
    BY DEF S!Desk, S!Resizes, YInv, WishIsComing
  <2> QED
    BY <1>1, <2>1 DEF YInv, WishIsComing, S!phone
<1>5. ~elsewhere' => session' = session /\ elsewhere' = elsewhere
  <2>1. elsewhere' = (elsewhere \/ session'.size # session.size)
    BY DEF S!Desk
  <2>2. elsewhere \in BOOLEAN
    BY DEF YInv, LinesAre
  <2> QED
    BY <1>2, <2>1, <2>2
<1>6. SizeIsComing'
  <2> SUFFICES ASSUME ~elsewhere' PROVE SizeIsComing'
    BY DEF SizeIsComing
  <2> QED
    BY <1>1, <1>5, SizeStays DEF YInv, S!phone
<1>7. PictureIsComing'
  <2> SUFFICES ASSUME ~elsewhere' PROVE PictureIsComing'
    BY DEF PictureIsComing
  <2> QED
    BY <1>1, <1>5, PictureStays DEF YInv, S!phone
<1> QED
  BY <1>3, <1>4, <1>6, <1>7 DEF YInv

\* Without an attachment nothing is on its way.
LEMMA NobodyAttached ==
    ASSUME link' # "attached", WishIsComing, LinesAre',
           toNode' \in Seq(Questions), said' \in Seq(PhoneScreenSizes), {wanted', requested'} \subseteq PhoneScreenSizes,
           pending' \in PhoneScreenSizes \union {0}, DOMAIN clients' = {"desk", "phone"},
           \A i \in 1..Len(toNode') : toNode'[i].is = "resize" => toNode'[i].size \in PhoneScreenSizes
    PROVE  YInv'
BY DEF YInv, WishIsComing, SizeIsComing, PictureIsComing

LEMMA BeginsKeeps == ASSUME YInv, S!Begins PROVE YInv'
<1>1. /\ UNCHANGED <<S!node, toNode, toPhone, wanted, pending, said, repainting, painting, grid, elsewhere>>
      /\ link' = "asking" /\ requested' = wanted
  BY DEF S!Begins
<1>2. LinesAre'
  BY <1>1 DEF YInv, LinesAre, ALine, AGrid, S!node
<1> QED
  BY <1>1, <1>2, NobodyAttached DEF YInv, WishIsComing, S!node

LEMMA NotesKeeps == ASSUME YInv, S!Notes PROVE YInv'
<1>1. /\ UNCHANGED <<S!node, toNode, toPhone, requested, pending, repainting, painting, grid, elsewhere>>
      /\ link' # "attached"
  BY DEF S!Notes
<1>2. wanted' \in PhoneScreenSizes /\ said' \in Seq(PhoneScreenSizes)
  BY DEF S!Notes, YInv, WishIsComing
<1>3. LinesAre'
  BY <1>1 DEF YInv, LinesAre, ALine, AGrid, S!node
<1> QED
  BY <1>1, <1>2, <1>3, NobodyAttached DEF YInv, WishIsComing, S!node

LEMMA FinishedKeeps == ASSUME YInv, S!Finished PROVE YInv'
<1>1. /\ UNCHANGED <<S!node, toNode, toPhone, wanted, requested, pending, said, repainting, painting, grid,
                     elsewhere>>
      /\ link' # "attached"
  BY DEF S!Finished
<1>2. LinesAre'
  BY <1>1 DEF YInv, LinesAre, ALine, AGrid, S!node
<1> QED
  BY <1>1, <1>2, NobodyAttached DEF YInv, WishIsComing, S!node

LEMMA LostKeeps ==
    ASSUME YInv, NEW over \in {"away", "draining"}, S!Lost(over)
    PROVE  YInv'
<1>1. /\ UNCHANGED <<wanted, requested, said, repainting, grid, elsewhere>>
      /\ link' # "attached" /\ output' = <<>> /\ toNode' = <<>> /\ toPhone' = <<>> /\ pending' = 0
      /\ painting' \in {<<>>, painting}
  BY DEF S!Lost
<1>2. session' = [size |-> session'.size, n |-> session'.n] /\ session'.n = session.n
  BY Resized DEF YInv, S!Lost
<1>3. DOMAIN clients' = {"desk", "phone"}
  BY DEF S!Lost, S!Resizes, YInv, WishIsComing
<1>4. LinesAre'
  <2>1. /\ ALine(painting') /\ \A i \in 1..Len(painting') : painting'[i].is \in {"resized", "repaint", "feed"}
    <3>1. \A i \in 1..Len(<<>>) : FALSE
      BY NoLine
    <3> QED
      BY <1>1, <3>1, NoLine DEF YInv, LinesAre
  <2> QED
    BY <1>1, <1>2, <2>1, NoLine DEF YInv, LinesAre, AGrid
<1>5. toNode' \in Seq(Questions) /\ \A i \in 1..Len(toNode') : FALSE
  BY <1>1, NoLine
<1> QED
  BY <1>1, <1>3, <1>4, <1>5, NobodyAttached DEF YInv, WishIsComing

LEMMA TurnKeeps == ASSUME YInv, NEW size \in PhoneScreenSizes, S!Turn(size) PROVE YInv'
<1>1. UNCHANGED <<S!node, toNode, toPhone, link, wanted, requested, pending, repainting, painting,
                  grid, elsewhere>>
  BY DEF S!Turn
<1>2. LinesAre'
  BY <1>1 DEF YInv, LinesAre, ALine, AGrid, S!node
<1>3. WishIsComing'
  <2>1. said' \in Seq(PhoneScreenSizes)
    BY DEF S!Turn, YInv, WishIsComing
  <2> QED
    BY <1>1, <2>1 DEF YInv, WishIsComing, S!node
<1>4. SizeIsComing'
  BY <1>1, SizeStays DEF YInv, S!node
<1>5. PictureIsComing'
  BY <1>1, PictureStays DEF YInv, S!node
<1> QED
  BY <1>2, <1>3, <1>4, <1>5 DEF YInv

LEMMA attachKeeps == ASSUME YInv, S!PhoneScreenAssumption, S!attach PROVE YInv'
<1>1. PICK x : x = [is |-> "output", n |-> session.n, size |-> session'.size]
  OBVIOUS
<1>2. DOMAIN x = FrameHas /\ x.is = "output" /\ x.n = session.n /\ x.size = session'.size
  BY <1>1 DEF FrameHas
<1>3. PICK y : y = [is |-> "resized", n |-> 0, size |-> session'.size]
  OBVIOUS
<1>4. DOMAIN y = FrameHas /\ y.is = "resized" /\ y.size = session'.size
  BY <1>3 DEF FrameHas
<1>5. /\ link' = "attached" /\ output' = <<>> /\ toPhone' = <<x>> /\ painting' = <<y>>
      /\ toNode' = <<>> /\ repainting' = TRUE /\ pending' = S!Pending /\ elsewhere' = FALSE
      /\ clients' = [clients EXCEPT !["phone"] = requested]
      /\ UNCHANGED <<wanted, requested, said, grid>>
  BY <1>1, <1>3 DEF S!attach, S!Resizes
<1>6. session' = [size |-> session'.size, n |-> session'.n] /\ session'.n = session.n /\ session.n \in Nat
  BY Resized DEF YInv, LinesAre, S!attach
<1>7. /\ ALine(<<x>>) /\ Len(<<x>>) = 1 /\ <<x>>[1] = x
      /\ ALine(<<y>>) /\ Len(<<y>>) = 1 /\ <<y>>[1] = y
  BY <1>2, <1>4, OneFrame
<1>8. \A i \in 1..1 : i = 1
  OBVIOUS
<1>9. LinesAre'
  <2>1. \A i \in 1..Len(painting') : painting'[i].is = "resized"
    BY <1>4, <1>5, <1>7, <1>8
  <2> QED
    BY <1>5, <1>6, <1>7, <2>1, NoLine DEF YInv, LinesAre
<1>10. WishIsComing'
  <2>1. /\ DOMAIN clients' = {"desk", "phone"} /\ clients'["phone"] = requested
        /\ {wanted, requested} \subseteq PhoneScreenSizes /\ said \in Seq(PhoneScreenSizes)
    BY <1>5 DEF YInv, WishIsComing
  <2>2. /\ pending' \in PhoneScreenSizes \union {0}
        /\ pending' = 0 => wanted = requested
    BY <1>5, <2>1 DEF S!Pending, S!PhoneScreenAssumption
  <2>3. toNode' \in Seq(Questions) /\ Len(toNode') = 0 /\ \A i \in 1..Len(toNode') : FALSE
    BY <1>5, NoLine
  <2>4. toPhone' # <<>> /\ toPhone'[1].is = "output"
    BY <1>2, <1>5, <1>7, NoLine
  <2> QED
    BY <1>5, <2>1, <2>2, <2>3, <2>4 DEF WishIsComing
<1>11. SizeIsComing'
  <2>1. NoneAfter(toPhone', 0, "size")
    BY <1>2, <1>5, <1>7, <1>8 DEF NoneAfter
  <2>2. NoneAfter(painting', 1, "resized") /\ 1 \in 1..1
    BY <1>5, <1>7, <1>8 DEF NoneAfter
  <2>3. SizeAt(toPhone', painting', grid'.size, session'.size)
    BY <1>4, <1>5, <1>7, <2>1, <2>2 DEF SizeAt
  <2> QED
    BY <2>3 DEF SizeIsComing, SizeAt, NoneAfter
<1>12. PictureIsComing'
  <2> SUFFICES ASSUME link' = "attached", ~elsewhere', toNode' = <<>>
               PROVE  /\ Follow(output', 0, "chunk", session'.n, session'.size)
                      /\ PictureAt(toPhone', painting', grid', repainting',
                                   session'.n - Len(output'), session'.size)
    BY DEF PictureIsComing, PictureAt, OnTheWire, Painter, WithThePainter, OnTheGrid, Follow
  <2>1. Follow(output', 0, "chunk", session'.n, session'.size)
    <3>1. Len(output') = 0
      BY <1>5, NoLine
    <3> QED
      BY <3>1 DEF Follow
  <2>2. session'.n - Len(output') = session.n
    BY <1>5, <1>6, NoLine
  <2>3. OnTheWire(toPhone', TRUE, session.n, session'.size)
    <3>1. Follow(toPhone', 1, "output", session.n, session'.size)
      BY <1>5, <1>7, <1>8 DEF Follow
    <3>2. 1 \in 1..1 /\ session.n = session.n - (1 - 1)
      BY <1>6
    <3> QED
      BY <1>2, <1>5, <1>7, <3>1, <3>2 DEF OnTheWire
  <2>4. PictureAt(toPhone', painting', grid', repainting', session.n, session'.size)
    BY <1>5, <2>3 DEF PictureAt
  <2> QED
    BY <2>1, <2>2, <2>4
<1> QED
  BY <1>9, <1>10, <1>11, <1>12 DEF YInv

LEMMA HearsKeeps == ASSUME YInv, S!Hears PROVE YInv'
<1>0. /\ ALine(output) /\ ALine(toPhone) /\ ALine(painting) /\ toPhone # <<>> /\ link = "attached"
      /\ session.n \in Int /\ repainting \in BOOLEAN
  BY DEF YInv, LinesAre, S!Hears
<1>1. PICK is : is = IF Head(toPhone).is = "size" THEN "resized"
                     ELSE IF Head(toPhone).is = "screen" \/ repainting THEN "repaint"
                     ELSE "feed"
  OBVIOUS
<1>2. PICK x : x = [Head(toPhone) EXCEPT !.is = is]
  OBVIOUS
<1>3. /\ DOMAIN x = FrameHas /\ x.is = is
      /\ x.size = Head(toPhone).size /\ x.n = Head(toPhone).n
  <2>1. DOMAIN Head(toPhone) = FrameHas
    BY <1>0, Tailed
  <2> QED
    BY <1>2, <2>1, Renamed
<1>4. /\ toPhone' = Tail(toPhone) /\ painting' = Append(painting, x)
      /\ UNCHANGED <<session, clients, output, toNode, link, wanted, requested, pending, said, grid,
                     elsewhere>>
  BY <1>1, <1>2 DEF S!Hears, S!node
<1>5. Head(toPhone) = toPhone[1]
  BY <1>0, Tailed
<1>6. /\ repainting => Head(toPhone).is = "output"
      /\ repainting' = FALSE
  <2>1. repainting => Head(toPhone).is = "output"
    BY <1>0, <1>5 DEF YInv, WishIsComing
  <2>2. repainting' = (repainting /\ Head(toPhone).is # "output")
    BY DEF S!Hears
  <2> QED
    BY <2>1, <2>2
<1>7. LinesAre'
  <2>1. ALine(toPhone') /\ ALine(painting')
    BY <1>0, <1>3, <1>4, Tailed, Appended
  <2>2. \A i \in 1..Len(painting') : painting'[i].is \in {"resized", "repaint", "feed"}
    <3>1. PICK had \in Nat : had = Len(painting)
      BY <1>0, HasLength
    <3>2. /\ Len(painting') = had + 1 /\ painting'[had + 1] = x
          /\ \A i \in 1..had : painting'[i] = painting[i]
      BY <1>0, <1>3, <1>4, <3>1, Appended
    <3>3. \A i \in 1..had + 1 : i \in 1..had \/ i = had + 1
      BY <3>1
    <3>4. x.is \in {"resized", "repaint", "feed"}
      BY <1>1, <1>3
    <3> QED
      BY <3>1, <3>2, <3>3, <3>4 DEF YInv, LinesAre
  <2> QED
    BY <1>4, <1>6, <2>1, <2>2 DEF YInv, LinesAre, ALine, AGrid
<1>8. WishIsComing'
  BY <1>4, <1>6 DEF YInv, WishIsComing
<1>9. SizeIsComing'
  <2> SUFFICES ASSUME link = "attached", ~elsewhere, Len(toNode) <= 1
               PROVE  SizeAt(toPhone', painting', grid.size, session.size)
    BY <1>4 DEF SizeIsComing, SizeAt, NoneAfter
  <2>1. SizeAt(toPhone, painting, grid.size, session.size)
    BY DEF YInv, SizeIsComing
  <2>2. /\ Head(toPhone).is = "size" => x.is = "resized"
        /\ Head(toPhone).is # "size" => x.is # "resized"
    BY <1>1, <1>3
  <2> QED
    BY <1>0, <1>3, <1>4, <2>1, <2>2, SizeIsHeard
<1>10. PictureIsComing'
  <2> SUFFICES ASSUME link' = "attached", ~elsewhere', toNode' = <<>>
               PROVE  /\ Follow(output', 0, "chunk", session'.n, session'.size)
                      /\ PictureAt(toPhone', painting', grid', repainting',
                                   session'.n - Len(output'), session'.size)
    BY DEF PictureIsComing, PictureAt, OnTheWire, Painter, WithThePainter, OnTheGrid, Follow
  <2>1. /\ Follow(output, 0, "chunk", session.n, session.size)
        /\ PictureAt(toPhone, painting, grid, repainting, session.n - Len(output), session.size)
    BY <1>4 DEF YInv, PictureIsComing
  <2>2. session.n - Len(output) \in Int
    BY <1>0, HasLength
  <2>3. x.is = IF Head(toPhone).is = "size" THEN "resized"
               ELSE IF Head(toPhone).is = "screen" \/ repainting THEN "repaint" ELSE "feed"
    BY <1>1, <1>3
  <2>4. PictureAt(Tail(toPhone), Append(painting, x), grid, FALSE, session.n - Len(output), session.size)
    BY <1>0, <1>3, <1>6, <2>1, <2>2, <2>3, PictureIsHeard
  <2> QED
    BY <1>4, <1>6, <2>1, <2>4
<1> QED
  BY <1>7, <1>8, <1>9, <1>10 DEF YInv

LEMMA LenJoined ==
    ASSUME NEW any, NEW q \in Seq(any), NEW more \in Seq(any)
    PROVE  Len(q \o more) = Len(q) + Len(more)
OBVIOUS

LEMMA TwoMore ==
    ASSUME NEW any, NEW q \in Seq(any), NEW x \in any, NEW y \in any
    PROVE  /\ q \o <<x, y>> \in Seq(any) /\ Len(q) \in Nat /\ Len(q \o <<x, y>>) = Len(q) + 2
           /\ (q \o <<x, y>>)[Len(q) + 1] = x /\ (q \o <<x, y>>)[Len(q) + 2] = y
           /\ \A i \in 1..Len(q) : (q \o <<x, y>>)[i] = q[i]
<1>1. PICK more : more = <<x, y>>
  OBVIOUS
<1>2. more \in Seq(any) /\ Len(more) = 2 /\ more[1] = x /\ more[2] = y
  BY <1>1
<1>3. /\ q \o more \in Seq(any) /\ Len(q) \in Nat /\ Len(q \o more) = Len(q) + 2
      /\ (q \o more)[Len(q) + 1] = x /\ (q \o more)[Len(q) + 2] = y
      /\ \A i \in 1..Len(q) : (q \o more)[i] = q[i]
  <2>1. PICK len \in Nat : len = Len(q)
    OBVIOUS
  <2>2. q \o more \in Seq(any)
    BY <1>2
  <2>3. Len(q \o more) = len + 2
    <3>1. Len(q \o more) = Len(q) + Len(more)
      BY <1>2, LenJoined
    <3> QED
      BY <1>2, <2>1, <3>1
  <2>4. (q \o more)[len + 1] = x
    <3>1. len + 1 = Len(q) + 1 /\ len + 1 \in 1..Len(q \o more)
      BY <2>1, <2>3
    <3> QED
      BY <1>2, <2>1, <3>1, SMTT(30)
  <2>5. (q \o more)[len + 2] = y
    BY <1>2, <2>1, <2>3, SMTT(30)
  <2>6. \A i \in 1..len : (q \o more)[i] = q[i]
    BY <1>2, <2>1
  <2> QED
    BY <2>1, <2>2, <2>3, <2>4, <2>5, <2>6
<1> QED
  BY <1>1, <1>3

LEMMA TakesKeeps == ASSUME YInv, S!PhoneScreenAssumption, S!Takes PROVE YInv'
<1>0. ALine(painting) /\ toNode \in Seq(Questions) /\ link = "attached"
  BY DEF YInv, LinesAre, WishIsComing, S!Takes
<1>1. PICK x : x = [is |-> "resized", n |-> 0, size |-> wanted']
  OBVIOUS
<1>2. DOMAIN x = FrameHas /\ x.is = "resized"
  BY <1>1 DEF FrameHas
<1>3. /\ painting' = Append(painting, x) /\ toNode' = toNode \o S!Asks(wanted') /\ pending' = 0
      /\ UNCHANGED <<session, clients, output, toPhone, link, requested, repainting, grid, elsewhere>>
  BY <1>1 DEF S!Takes, S!node
<1>4. wanted' \in PhoneScreenSizes /\ said' \in Seq(PhoneScreenSizes)
  <2>1. said \in Seq(PhoneScreenSizes) /\ pending \in PhoneScreenSizes \union {0}
    BY DEF YInv, WishIsComing
  <2>2. CASE pending # 0
    BY <2>1, <2>2 DEF S!Takes
  <2>3. CASE pending = 0
    <3>1. said # <<>> /\ said' = Tail(said) /\ wanted' = Head(said)
      BY <2>3 DEF S!Takes
    <3> QED
      BY <2>1, <3>1
  <2> QED
    BY <2>2, <2>3
<1>5. LinesAre'
  <2>1. ALine(painting')
    BY <1>0, <1>2, <1>3, Appended
  <2>2. \A i \in 1..Len(painting') : painting'[i].is \in {"resized", "repaint", "feed"}
    <3>1. PICK had \in Nat : had = Len(painting)
      BY <1>0, HasLength
    <3>2. /\ Len(painting') = had + 1 /\ painting'[had + 1] = x
          /\ \A i \in 1..had : painting'[i] = painting[i]
      BY <1>0, <1>2, <1>3, <3>1, Appended
    <3>3. \A i \in 1..had + 1 : i \in 1..had \/ i = had + 1
      BY <3>1
    <3> QED
      BY <1>2, <3>1, <3>2, <3>3 DEF YInv, LinesAre
  <2> QED
    BY <1>3, <2>1, <2>2 DEF YInv, LinesAre, ALine, AGrid
<1>6. PICK len \in Nat : len = Len(toNode)
  BY <1>0
<1>7. PICK ask : ask = [is |-> "resize", size |-> wanted']
  OBVIOUS
<1>8. PICK then : then = [is |-> "resync", size |-> 0]
  OBVIOUS
<1>9. ask \in Questions /\ then \in Questions /\ ask.size \in PhoneScreenSizes /\ then.is = "resync"
  BY <1>4, <1>7, <1>8 DEF Questions
<1>10. PICK more : more = <<ask, then>>
  OBVIOUS
<1>12. toNode' = toNode \o more
  BY <1>3, <1>7, <1>8, <1>10 DEF S!Asks
<1>13. /\ toNode' \in Seq(Questions) /\ Len(toNode') = len + 2
       /\ toNode'[len + 1] = ask /\ toNode'[len + 2] = then
       /\ \A i \in 1..len : toNode'[i] = toNode[i]
  BY <1>0, <1>6, <1>9, <1>10, <1>12, TwoMore
<1>14. WishIsComing'
  <2>1. ASSUME NEW i \in 1..len + 2, toNode'[i].is = "resize" PROVE toNode'[i].size \in PhoneScreenSizes
    <3>1. i \in 1..len \/ i = len + 1 \/ i = len + 2
      BY <1>6
    <3>2. CASE i \in 1..len
      BY <1>6, <1>13, <2>1, <3>2 DEF YInv, WishIsComing
    <3>3. CASE i = len + 1
      BY <1>9, <1>13, <3>3
    <3>4. CASE i = len + 2
      BY <1>9, <1>13, <2>1, <3>4
    <3> QED
      BY <3>1, <3>2, <3>3, <3>4
  <2>2. len + 2 - 1 = len + 1 /\ ~(len + 2 <= 1)
    BY <1>6
  <2>3. /\ toNode' # <<>> => toNode'[Len(toNode')].is = "resync"
        /\ Len(toNode') >= 2 => toNode'[Len(toNode') - 1] = [is |-> "resize", size |-> wanted']
        /\ ~(Len(toNode') <= 1)
    BY <1>7, <1>9, <1>13, <2>2
  <2>4. /\ DOMAIN clients = {"desk", "phone"} /\ clients["phone"] \in PhoneScreenSizes /\ requested \in PhoneScreenSizes
        /\ repainting => toPhone # <<>> /\ toPhone[1].is = "output"
    BY <1>0 DEF YInv, WishIsComing
  <2> QED
    BY <1>3, <1>4, <1>13, <2>1, <2>3, <2>4 DEF WishIsComing
<1>15. ~(Len(toNode') <= 1) /\ toNode' # <<>>
  BY <1>6, <1>13, NoLine
<1>16. SizeIsComing' /\ PictureIsComing'
  BY <1>15 DEF SizeIsComing, PictureIsComing
<1> QED
  BY <1>5, <1>14, <1>16 DEF YInv

LEMMA PaintsKeeps == ASSUME YInv, S!Paints PROVE YInv'
<1>0. /\ ALine(output) /\ ALine(toPhone) /\ ALine(painting) /\ painting # <<>> /\ session.n \in Int
      /\ AGrid(grid) /\ grid.good \in BOOLEAN
  BY DEF YInv, LinesAre, S!Paints
<1>1. /\ painting' = Tail(painting) /\ grid' = S!Painted(Head(painting))
      /\ UNCHANGED <<session, clients, output, toNode, toPhone, link, wanted, requested, pending, said,
                     repainting, elsewhere>>
  BY DEF S!Paints, S!node
<1>2. /\ AGrid(grid') /\ grid'.good \in BOOLEAN
      /\ grid'.size = IF Head(painting).is = "resized" THEN Head(painting).size ELSE grid.size
  BY <1>0, <1>1, PaintedSo
<1>3. LinesAre'
  <2>1. PICK len \in Nat : len = Len(painting) /\ len >= 1
    BY <1>0, Tailed
  <2>2. ALine(painting') /\ Len(painting') = len - 1 /\ \A i \in 1..len - 1 : painting'[i] = painting[i + 1]
    BY <1>0, <1>1, <2>1, Tailed
  <2>3. \A i \in 1..len - 1 : i + 1 \in 1..len
    BY <2>1
  <2> QED
    BY <1>1, <1>2, <2>1, <2>2, <2>3 DEF YInv, LinesAre, ALine, AGrid
<1>4. WishIsComing'
  BY <1>1, WishStays DEF YInv
<1>5. SizeIsComing'
  <2> SUFFICES ASSUME link = "attached", ~elsewhere, Len(toNode) <= 1
               PROVE  SizeAt(toPhone, painting', grid'.size, session.size)
    BY <1>1, SMTT(30) DEF SizeIsComing, SizeAt, NoneAfter
  <2>1. SizeAt(toPhone, painting, grid.size, session.size)
    BY DEF YInv, SizeIsComing
  <2>2. SizeAt(toPhone, Tail(painting), grid'.size, session.size)
    <3>1. grid'.size = IF Head(painting).is = "resized" THEN Head(painting).size ELSE grid.size
      BY <1>2
    <3>2. ALine(toPhone) /\ ALine(painting) /\ painting # <<>>
      BY <1>0
    <3> QED
      BY <2>1, <3>1, <3>2, SizeIsPainted
  <2> QED
    BY <1>1, <2>2, Zenon
<1>6. PictureIsComing'
  <2> SUFFICES ASSUME link = "attached", ~elsewhere, toNode = <<>>
               PROVE  /\ Follow(output, 0, "chunk", session.n, session.size)
                      /\ PictureAt(toPhone, painting', grid', repainting,
                                   session.n - Len(output), session.size)
    BY <1>1 DEF PictureIsComing, PictureAt, OnTheWire, Painter, WithThePainter, OnTheGrid, Follow
  <2>1. /\ Follow(output, 0, "chunk", session.n, session.size)
        /\ PictureAt(toPhone, painting, grid, repainting, session.n - Len(output), session.size)
    BY DEF YInv, PictureIsComing
  <2>2. SizeAt(toPhone, painting, grid.size, session.size)
    <3>1. Len(toNode) <= 1
      BY NoLine
    <3> QED
      BY <3>1 DEF YInv, SizeIsComing
  <2>3. session.n - Len(output) \in Int
    BY <1>0, HasLength
  <2> QED
    BY <1>0, <1>1, <2>1, <2>2, <2>3, PictureIsPainted
<1> QED
  BY <1>3, <1>4, <1>5, <1>6 DEF YInv

LEMMA YPreserved == ASSUME S!PhoneScreenAssumption, YInv, [S!Next]_(S!vars) PROVE YInv'
<1>1. CASE UNCHANGED S!vars
  <2>1. LinesAre'
    BY <1>1 DEF YInv, LinesAre, ALine, AGrid, S!vars, S!node, S!phone
  <2> QED
    BY <1>1, <2>1, WishStays, SizeStays, PictureStays DEF YInv, S!vars, S!node, S!phone
<1>2. CASE S!Prints
  BY <1>2, PrintsKeeps
<1>3. CASE S!Forwards
  BY <1>3, ForwardsKeeps
<1>4. CASE S!resize
  BY <1>4, resizeKeeps
<1>5. CASE S!resync
  BY <1>5, resyncKeeps
<1>6. CASE \E size \in PhoneScreenSizes \union {0} : S!Desk(size)
  BY <1>6, DeskKeeps
<1>7. CASE S!Begins \/ S!attach
  BY <1>7, BeginsKeeps, attachKeeps
<1>8. CASE S!Hears \/ S!Takes
  BY <1>8, HearsKeeps, TakesKeeps
<1>9. CASE S!Notes \/ S!Finished \/ S!Paints
  BY <1>9, NotesKeeps, FinishedKeeps, PaintsKeeps
<1>10. CASE \E over \in {"away", "draining"} : S!Lost(over)
  BY <1>10, LostKeeps
<1>11. CASE \E size \in PhoneScreenSizes : S!Turn(size)
  BY <1>11, TurnKeeps
<1> QED
  BY <1>1, <1>2, <1>3, <1>4, <1>5, <1>6, <1>7, <1>8, <1>9, <1>10, <1>11 DEF S!Next

LEMMA YHolds == ASSUME YInv PROVE S!PictureIsTheSessions
<1> SUFFICES ASSUME link = "attached", S!Still, pending = 0
             PROVE  /\ clients["phone"] = wanted
                    /\ ~elsewhere => grid = [size |-> session.size, n |-> session.n, good |-> TRUE]
  BY DEF S!PictureIsTheSessions
<1>1. toNode = <<>> /\ toPhone = <<>> /\ output = <<>> /\ painting = <<>> /\ Len(toNode) <= 1
  BY NoLine DEF S!Still
<1>2. clients["phone"] = wanted
  BY <1>1 DEF YInv, WishIsComing
<1>3. ASSUME ~elsewhere PROVE grid = [size |-> session.size, n |-> session.n, good |-> TRUE]
  <2>1. PictureAt(toPhone, painting, grid, repainting, session.n - Len(output), session.size)
    BY <1>1, <1>3 DEF YInv, PictureIsComing
  <2>2. /\ Len(toPhone) = 0 /\ Len(painting) = 0 /\ \A k \in 1..0 : FALSE
        /\ session.n - Len(output) = session.n /\ session.n - 0 = session.n
    BY <1>1, NoLine DEF YInv, LinesAre
  <2>3. grid.good /\ grid.size = session.size /\ grid.n = session.n
    BY <2>1, <2>2 DEF PictureAt, OnTheWire, Painter, WithThePainter, OnTheGrid
  <2>4. AGrid(grid) /\ grid.good \in BOOLEAN
    BY DEF YInv, LinesAre
  <2> QED
    BY <2>3, <2>4 DEF AGrid
<1> QED
  BY <1>2, <1>3

\* Whatever it does, a behaviour that is of the screen keeps it.
YPart == part = "screen" => YInv

LEMMA YPartInitially == Init => YPart
<1> SUFFICES ASSUME Init, part = "screen" PROVE YInv
  BY DEF YPart
<1>1. S!Init
  BY DEF Init
<1> QED
  BY <1>1, PhoneScreenAssumed, YInitially

LEMMA YPartStep ==
    ASSUME [Next]_vars, part' = "screen"
    PROVE  part = "screen" /\ [S!Next]_(S!vars)
<1>1. CASE UNCHANGED vars
  BY <1>1 DEF vars, Beyond19, Beyond17, Beyond13, Beyond12, Beyond10,
     Beyond9, Beyond8, Beyond7, Beyond4,
     S!vars, S!node, S!phone, S!bounds
<1>2. CASE Next
  BY <1>2 DEF Next
<1> QED
  BY <1>1, <1>2

LEMMA YPartPreserved == YPart /\ [Next]_vars => YPart'
<1> SUFFICES ASSUME YPart, [Next]_vars, part' = "screen" PROVE YInv'
  BY DEF YPart
<1> QED
  BY YPartStep, YPreserved, PhoneScreenAssumed DEF YPart

HIDE DEF session, clients, output, toNode, toPhone, link, wanted, requested,
    pending, said, repainting, painting, grid, elsewhere

(***************************************************************************)
(* What holds of PhoneKeys for any callers, machines and host keys.        *)
(*                                                                         *)
(* Whoever has begun a call holds the lock of its file (LocksAreHeld), so nobody  *)
(* else writes that file until it is over: what it is going to write is    *)
(* still its change of the file as it stands (StillTheChange), and what it is      *)
(* going to answer with is what the file says.  What is beside the file    *)
(* when it is renamed is whole and synced, so whatever the disk keeps is a *)
(* whole file (WholeFiles).                                                     *)
(***************************************************************************)
I_file == v1
disk == v2
beside == v3
locked == v4
calls == v5
given == v6
accepted == v7
made == v8

USE DEF I_file, disk, beside, locked, calls, given, accepted, made

KeyFile == "id_ed25519"
HostFile == "known_hosts"
Underway == {"locked", "writes", "opened", "written", "synced", "answers", "fails"}
CallHas == {"step", "does", "at", "key"}

WholeFiles ==
    /\ DOMAIN I_file = I!Files /\ DOMAIN disk = I!Files /\ DOMAIN beside = I!Files
    /\ \A f \in I!Files : I_file[f] \in disk[f]
    /\ \A f \in I!Files : \A x \in disk[f] : x = I!Whole(x.text)
    /\ \A x \in disk[HostFile] : DOMAIN x.text = PhoneKeysMachines
    /\ \A x \in disk[KeyFile] : x.text \in Nat
    /\ \A f \in I!Files : DOMAIN beside[f] = {"has", "synced"}

\* A call, from when it holds its lock, and what it means to do.
LocksAreHeld ==
    /\ made \in Nat
    /\ locked \in [I!Files -> PhoneKeysCallers \union {I!Nobody}]
    /\ DOMAIN calls = PhoneKeysCallers
    /\ \A p \in PhoneKeysCallers :
         /\ calls[p].step \in Underway \union {"idle"}
         /\ calls[p].step # "idle" =>
              /\ DOMAIN calls[p] = CallHas \/ DOMAIN calls[p] = CallHas \union {"text"}
              /\ calls[p].step # "locked" => "text" \in DOMAIN calls[p]
              /\ calls[p].does \in {"kept_at", "trust", "forget"}
              /\ locked[I!FileOf(calls[p])] = p
              /\ calls[p].does = "kept_at" => calls[p].key \in Nat \ {0}
              /\ calls[p].does \in {"trust", "forget"} => calls[p].at \in PhoneKeysMachines
              /\ calls[p].does = "trust" => calls[p].key \in HostKeys
              /\ calls[p].does = "forget" => calls[p].key = I!NoKey

\* What a call is going to write, beside the file and then over it.
ChangeOf(p) ==
    /\ calls[p].step \in {"writes", "opened", "written", "synced"} =>
         /\ calls[p].text = I!Text(calls[p])
         /\ calls[p].does = "kept_at" => I_file[KeyFile].text = 0
         /\ calls[p].does = "trust" => I_file[HostFile].text[calls[p].at] = I!NoKey
    /\ calls[p].step \in {"written", "synced"} =>
         beside[I!Writer(p)].has = I!Whole(calls[p].text)
    /\ calls[p].step = "synced" => beside[I!Writer(p)].synced
    /\ calls[p].step = "answers" =>
         /\ calls[p].does = "kept_at" => I_file[KeyFile].text = calls[p].key
         /\ calls[p].does = "trust" => I_file[HostFile].text[calls[p].at] = calls[p].key
StillTheChange == \A p \in PhoneKeysCallers : ChangeOf(p)

\* What was answered is in the file.
InTheFile ==
    /\ 0 \notin given /\ I!OneKey
    /\ DOMAIN accepted = PhoneKeysMachines /\ \A m \in PhoneKeysMachines : I!NoKey \notin accepted[m]
    /\ I!AcceptedIsWritten

IInv == WholeFiles /\ LocksAreHeld /\ StillTheChange /\ InTheFile

(***************************************************************************)
(* Lemmas.                                                                 *)
(***************************************************************************)
LEMMA Wholes == \A x : I!Whole(x).text = x /\ ~I!Whole(x).torn /\ I!Whole(x) = I!Whole(I!Whole(x).text)
BY DEF I!Whole

LEMMA TheFiles == KeyFile \in I!Files /\ HostFile \in I!Files /\ KeyFile # HostFile /\ I!Files = {KeyFile, HostFile}
BY DEF KeyFile, HostFile, I!Files

LEMMA IInitially == ASSUME I!PhoneKeysAssumption PROVE I!Init => IInv
<1> SUFFICES ASSUME I!Init PROVE IInv
  OBVIOUS
<1>1. \A f \in I!Files : /\ I_file[f] = I!Whole(I!Empty(f)) /\ disk[f] = {I!Whole(I!Empty(f))}
                         /\ beside[f] = [has |-> I!Torn(I!Empty(f)), synced |-> FALSE]
  BY DEF I!Init
<1>2. I!Whole(I!Empty(HostFile)).text = [m \in PhoneKeysMachines |-> I!NoKey] /\ I!Whole(I!Empty(KeyFile)).text = 0
  BY Wholes DEF I!Empty, HostFile, KeyFile
<1>3. WholeFiles
  BY <1>1, <1>2, Wholes, TheFiles DEF I!Init, WholeFiles
<1>4. \A p \in PhoneKeysCallers : calls[p].step = "idle"
  BY DEF I!Init, I!Idle
<1>5. LocksAreHeld
  BY <1>4 DEF I!Init, LocksAreHeld
<1>6. StillTheChange
  BY <1>4 DEF StillTheChange, ChangeOf
<1>7. InTheFile
  BY DEF I!Init, InTheFile, I!OneKey, I!AcceptedIsWritten
<1> QED
  BY <1>3, <1>5, <1>6, <1>7 DEF IInv

\* Two calls that are underway are about two files.
LEMMA OneAFile ==
    ASSUME LocksAreHeld, NEW p \in PhoneKeysCallers, NEW q \in PhoneKeysCallers, p # q,
           calls[p].step # "idle", calls[q].step # "idle"
    PROVE  I!FileOf(calls[p]) # I!FileOf(calls[q])
BY DEF LocksAreHeld

\* A call that goes on to another step is the same call.
LEMMA StepIs ==
    ASSUME LocksAreHeld, NEW p \in PhoneKeysCallers, calls[p].step # "idle", NEW step, I!Step(p, step)
    PROVE  /\ DOMAIN calls' = PhoneKeysCallers /\ \A q \in PhoneKeysCallers : q # p => calls'[q] = calls[q]
           /\ calls'[p].step = step /\ DOMAIN calls'[p] = DOMAIN calls[p]
           /\ calls'[p].does = calls[p].does /\ calls'[p].at = calls[p].at
           /\ calls'[p].key = calls[p].key
           /\ "text" \in DOMAIN calls[p] => calls'[p].text = calls[p].text
<1>1. PICK call : call = calls[p]
  OBVIOUS
<1>2. DOMAIN call = CallHas \/ DOMAIN call = CallHas \union {"text"}
  BY <1>1 DEF LocksAreHeld
<1>3. calls' = [calls EXCEPT ![p] = [call EXCEPT !.step = step]] /\ DOMAIN calls = PhoneKeysCallers
  BY <1>1 DEF I!Step, LocksAreHeld
<1>4. calls'[p] = [call EXCEPT !.step = step] /\ \A q \in PhoneKeysCallers : q # p => calls'[q] = calls[q]
  BY <1>3
<1>5. /\ calls'[p].step = step /\ DOMAIN calls'[p] = DOMAIN call
      /\ calls'[p].does = call.does /\ calls'[p].at = call.at /\ calls'[p].key = call.key
      /\ "text" \in DOMAIN call => calls'[p].text = call.text
  BY <1>2, <1>4 DEF CallHas
<1> QED
  BY <1>1, <1>3, <1>4, <1>5

\* So the file it is about is the same, and the locks are still right.
LEMMA StepLocks ==
    ASSUME LocksAreHeld, NEW p \in PhoneKeysCallers, calls[p].step \notin {"idle", "locked"},
           NEW step \in Underway, I!Step(p, step), UNCHANGED <<locked, made>>
    PROVE  LocksAreHeld' /\ I!Writer(p)' = I!Writer(p)
<1>1. /\ DOMAIN calls' = PhoneKeysCallers /\ \A q \in PhoneKeysCallers : q # p => calls'[q] = calls[q]
      /\ calls'[p].step = step /\ DOMAIN calls'[p] = DOMAIN calls[p]
      /\ calls'[p].does = calls[p].does /\ calls'[p].at = calls[p].at
      /\ calls'[p].key = calls[p].key
  BY StepIs
<1>2. I!FileOf(calls'[p]) = I!FileOf(calls[p])
  BY <1>1 DEF I!FileOf
<1>3. I!Writer(p)' = I!Writer(p)
  BY <1>2 DEF I!Writer
<1>4. \A q \in PhoneKeysCallers : calls'[q].step \in Underway \union {"idle"}
  BY <1>1 DEF LocksAreHeld
<1>5. ASSUME NEW q \in PhoneKeysCallers, calls'[q].step # "idle"
      PROVE  /\ DOMAIN calls'[q] = CallHas \/ DOMAIN calls'[q] = CallHas \union {"text"}
             /\ calls'[q].step # "locked" => "text" \in DOMAIN calls'[q]
             /\ calls'[q].does \in {"kept_at", "trust", "forget"}
             /\ locked[I!FileOf(calls'[q])] = q
             /\ calls'[q].does = "kept_at" => calls'[q].key \in Nat \ {0}
             /\ calls'[q].does \in {"trust", "forget"} => calls'[q].at \in PhoneKeysMachines
             /\ calls'[q].does = "trust" => calls'[q].key \in HostKeys
             /\ calls'[q].does = "forget" => calls'[q].key = I!NoKey
  <2>1. CASE q = p
    BY <1>1, <1>2, <2>1 DEF LocksAreHeld
  <2>2. CASE q # p
    BY <1>1, <1>5, <2>2 DEF LocksAreHeld
  <2> QED
    BY <2>1, <2>2
<1>6. \A call : I!FileOf(call)' = I!FileOf(call)
  BY DEF I!FileOf
<1> QED
  BY <1>1, <1>3, <1>4, <1>5, <1>6 DEF LocksAreHeld

\* What one call does is not about the file of another.
LEMMA OthersStand ==
    ASSUME LocksAreHeld, NEW q \in PhoneKeysCallers, ChangeOf(q),
           calls'[q] = calls[q],
           calls[q].step # "idle" =>
             I_file'[I!Writer(q)] = I_file[I!Writer(q)] /\ beside'[I!Writer(q)] = beside[I!Writer(q)]
    PROVE  ChangeOf(q)'
<1> SUFFICES ASSUME calls[q].step # "idle" PROVE ChangeOf(q)'
  BY DEF ChangeOf
<1>1. I!Writer(q)' = I!Writer(q)
  BY DEF I!Writer, I!FileOf
<1>2. CASE calls[q].does = "kept_at"
  <2>1. I!Writer(q) = KeyFile
    BY <1>2 DEF I!Writer, I!FileOf, KeyFile
  <2>2. I!Text(calls[q])' = I!Text(calls[q])
    BY <1>2 DEF I!Text
  <2> QED
    BY <1>1, <1>2, <2>1, <2>2 DEF ChangeOf
<1>3. CASE calls[q].does # "kept_at"
  <2>1. I!Writer(q) = HostFile
    BY <1>3 DEF I!Writer, I!FileOf, HostFile
  <2>2. I!Text(calls[q])' = I!Text(calls[q])
    BY <1>3, <2>1 DEF I!Text, HostFile
  <2> QED
    BY <1>1, <1>3, <2>1, <2>2 DEF ChangeOf
<1> QED
  BY <1>2, <1>3

LEMMA AskStep ==
    ASSUME I!PhoneKeysAssumption, IInv, NEW p \in PhoneKeysCallers, NEW does \in {"kept_at", "trust", "forget"},
           NEW at, NEW key, I!Asks(p, I!Call(does, at, key)),
           does \in {"trust", "forget"} => at \in PhoneKeysMachines,
           does = "trust" => key \in HostKeys, does = "forget" => key = I!NoKey
    PROVE  IInv'
<1> USE DEF IInv
<1>1. PICK call : call = I!Call(does, at, key)
  OBVIOUS
<1>2. /\ DOMAIN call = CallHas /\ call.step = "locked" /\ call.does = does
      /\ call.at = at /\ call.key = key
  BY <1>1 DEF I!Call, CallHas
<1>3. PICK itsAsked : itsAsked = IF does = "kept_at" THEN [call EXCEPT !.key = made'] ELSE call
  OBVIOUS
<1>4. /\ DOMAIN itsAsked = CallHas /\ itsAsked.step = "locked" /\ itsAsked.does = does /\ itsAsked.at = at
      /\ itsAsked.key = IF does = "kept_at" THEN made' ELSE key
  BY <1>2, <1>3 DEF CallHas
<1>5. /\ made' \in Nat \ {0} /\ calls[p].step = "idle" /\ DOMAIN calls' = PhoneKeysCallers
      /\ calls'[p] = itsAsked /\ \A q \in PhoneKeysCallers : q # p => calls'[q] = calls[q]
  BY <1>1, <1>2, <1>3 DEF I!Asks, LocksAreHeld
<1>6. /\ I!FileOf(call) \in I!Files /\ I!FileOf(itsAsked) = I!FileOf(call)
      /\ \A q \in PhoneKeysCallers : calls[q].step # "idle" => I!FileOf(calls[q]) # I!FileOf(call)
  <2>1. locked[I!FileOf(call)] = I!Nobody
    BY <1>1 DEF I!Asks, I!lock_file
  <2> QED
    BY <1>2, <1>4, <2>1 DEF LocksAreHeld, I!FileOf, I!Files, I!PhoneKeysAssumption
<1>7. /\ locked' \in [I!Files -> PhoneKeysCallers \union {I!Nobody}] /\ locked'[I!FileOf(call)] = p
      /\ \A f \in I!Files : f # I!FileOf(call) => locked'[f] = locked[f]
  BY <1>1, <1>6 DEF I!Asks, LocksAreHeld
<1>8. ASSUME NEW q \in PhoneKeysCallers, calls'[q].step # "idle"
      PROVE  /\ DOMAIN calls'[q] = CallHas \/ DOMAIN calls'[q] = CallHas \union {"text"}
             /\ calls'[q].step # "locked" => "text" \in DOMAIN calls'[q]
             /\ calls'[q].does \in {"kept_at", "trust", "forget"}
             /\ locked'[I!FileOf(calls'[q])] = q
             /\ calls'[q].does = "kept_at" => calls'[q].key \in Nat \ {0}
             /\ calls'[q].does \in {"trust", "forget"} => calls'[q].at \in PhoneKeysMachines
             /\ calls'[q].does = "trust" => calls'[q].key \in HostKeys
             /\ calls'[q].does = "forget" => calls'[q].key = I!NoKey
  <2>1. CASE q = p
    BY <1>4, <1>5, <1>6, <1>7, <2>1
  <2>2. CASE q # p
    <3>1. I!FileOf(calls[q]) \in I!Files
      BY DEF I!FileOf, I!Files
    <3> QED
      BY <1>5, <1>6, <1>7, <1>8, <2>2, <3>1 DEF LocksAreHeld
  <2> QED
    BY <2>1, <2>2
<1>9. LocksAreHeld'
  <2>1. \A q \in PhoneKeysCallers : calls'[q].step \in Underway \union {"idle"}
    BY <1>4, <1>5 DEF LocksAreHeld, Underway
  <2>2. \A c : I!FileOf(c)' = I!FileOf(c)
    BY DEF I!FileOf
  <2> QED
    BY <1>5, <1>7, <1>8, <2>1, <2>2 DEF LocksAreHeld
<1>10. StillTheChange'
  <2>1. ASSUME NEW q \in PhoneKeysCallers PROVE ChangeOf(q)'
    <3>1. CASE q = p
      BY <1>4, <1>5, <3>1 DEF ChangeOf
    <3>2. CASE q # p
      BY <1>5, <3>2, OthersStand DEF I!Asks, StillTheChange
    <3> QED
      BY <3>1, <3>2
  <2> QED
    BY <2>1 DEF StillTheChange
<1>11. WholeFiles' /\ InTheFile'
  BY DEF I!Asks, WholeFiles, InTheFile, I!OneKey, I!AcceptedIsWritten
<1> QED
  BY <1>9, <1>10, <1>11

LEMMA ReadStep ==
    ASSUME I!PhoneKeysAssumption, IInv, NEW p \in PhoneKeysCallers, I!Reads(p)
    PROVE  IInv'
<1> USE DEF IInv
<1>1. PICK call : call = calls[p]
  OBVIOUS
<1>2. /\ call.step = "locked" /\ call.does \in {"kept_at", "trust", "forget"}
      /\ locked[I!FileOf(call)] = p
      /\ call.does = "kept_at" => call.key \in Nat \ {0}
  BY <1>1 DEF I!Reads, LocksAreHeld
<1>3. /\ ~I_file[KeyFile].torn /\ I_file[KeyFile].text \in Nat
      /\ DOMAIN I_file[HostFile].text = PhoneKeysMachines
  BY TheFiles, Wholes DEF WholeFiles
<1>4. PICK reads : reads = [step |-> I!Decision(call), does |-> call.does, at |-> call.at,
           key |-> IF call.does = "kept_at" /\ I!Decision(call) = "answers"
                   THEN I_file["id_ed25519"].text ELSE call.key,
           text |-> I!Text(call)]
  OBVIOUS
<1>5. /\ DOMAIN calls' = PhoneKeysCallers /\ calls'[p] = reads
      /\ \A q \in PhoneKeysCallers : q # p => calls'[q] = calls[q]
  BY <1>1, <1>4 DEF I!Reads, LocksAreHeld
<1>6. /\ DOMAIN reads = CallHas \union {"text"} /\ reads.does = call.does /\ reads.at = call.at
      /\ reads.text = I!Text(call) /\ reads.step = I!Decision(call)
      /\ call.does = "kept_at" =>
           reads.key = IF I!Decision(call) = "answers" THEN I_file[KeyFile].text ELSE call.key
      /\ call.does # "kept_at" => reads.key = call.key
  BY <1>4 DEF CallHas, KeyFile
<1>7. /\ I!Decision(call) \in {"writes", "answers", "fails"}
      /\ call.does = "kept_at" => \/ I!Decision(call) = "writes" /\ I_file[KeyFile].text = 0
                                  \/ I!Decision(call) = "answers" /\ I_file[KeyFile].text # 0
      /\ call.does = "trust" =>
           /\ I!Decision(call) = "writes" => I_file[HostFile].text[call.at] = I!NoKey
           /\ I!Decision(call) = "answers" => I_file[HostFile].text[call.at] = call.key
      /\ call.does = "forget" => I!Decision(call) = "writes"
  BY <1>2, <1>3 DEF I!Decision, I!trust, I!FileOf, KeyFile, HostFile
<1>8. I!FileOf(reads) = I!FileOf(call)
  BY <1>6 DEF I!FileOf
<1>9. ASSUME NEW q \in PhoneKeysCallers, calls'[q].step # "idle"
      PROVE  /\ DOMAIN calls'[q] = CallHas \/ DOMAIN calls'[q] = CallHas \union {"text"}
             /\ calls'[q].step # "locked" => "text" \in DOMAIN calls'[q]
             /\ calls'[q].does \in {"kept_at", "trust", "forget"}
             /\ locked[I!FileOf(calls'[q])] = q
             /\ calls'[q].does = "kept_at" => calls'[q].key \in Nat \ {0}
             /\ calls'[q].does \in {"trust", "forget"} => calls'[q].at \in PhoneKeysMachines
             /\ calls'[q].does = "trust" => calls'[q].key \in HostKeys
             /\ calls'[q].does = "forget" => calls'[q].key = I!NoKey
  <2>1. CASE q = p
    <3>1. /\ call.does \in {"trust", "forget"} => call.at \in PhoneKeysMachines
          /\ call.does = "trust" => call.key \in HostKeys
          /\ call.does = "forget" => call.key = I!NoKey
      BY <1>1, <1>2 DEF LocksAreHeld
    <3>2. call.does = "kept_at" => reads.key \in Nat \ {0}
      BY <1>2, <1>3, <1>6, <1>7
    <3> QED
      BY <1>2, <1>5, <1>6, <1>8, <2>1, <3>1, <3>2 DEF CallHas
  <2>2. CASE q # p
    BY <1>5, <1>9, <2>2 DEF LocksAreHeld
  <2> QED
    BY <2>1, <2>2
<1>10. LocksAreHeld'
  <2>1. \A q \in PhoneKeysCallers : calls'[q].step \in Underway \union {"idle"}
    BY <1>5, <1>6, <1>7 DEF LocksAreHeld, Underway
  <2>2. \A c : I!FileOf(c)' = I!FileOf(c)
    BY DEF I!FileOf
  <2>3. locked' = locked /\ made' = made
    BY DEF I!Reads
  <2> QED
    BY <1>5, <1>9, <2>1, <2>2, <2>3 DEF LocksAreHeld
<1>11. StillTheChange'
  <2>1. ASSUME NEW q \in PhoneKeysCallers PROVE ChangeOf(q)'
    <3>1. CASE q = p
      <4>1. I!Decision(call) = "writes" => I!Text(reads) = I!Text(call)
        BY <1>6, <1>7 DEF I!Text
      <4>2. I!Text(reads)' = I!Text(reads)
        BY DEF I!Text, I!Reads
      <4>3. I_file' = I_file
        BY DEF I!Reads
      <4> QED
        BY <1>5, <1>6, <1>7, <3>1, <4>1, <4>2, <4>3 DEF ChangeOf
    <3>2. CASE q # p
      BY <1>5, <3>2, OthersStand DEF I!Reads, StillTheChange
    <3> QED
      BY <3>1, <3>2
  <2> QED
    BY <2>1 DEF StillTheChange
<1>12. WholeFiles' /\ InTheFile'
  BY DEF I!Reads, WholeFiles, InTheFile, I!OneKey, I!AcceptedIsWritten
<1> QED
  BY <1>10, <1>11, <1>12

\* What p does to its own file, another call does not see.
LEMMA ElseStand ==
    ASSUME LocksAreHeld, StillTheChange, NEW p \in PhoneKeysCallers, calls[p].step # "idle",
           \A q \in PhoneKeysCallers : q # p => calls'[q] = calls[q],
           \A f \in I!Files : f # I!Writer(p) => I_file'[f] = I_file[f] /\ beside'[f] = beside[f]
    PROVE  \A q \in PhoneKeysCallers : q # p => ChangeOf(q)'
<1> SUFFICES ASSUME NEW q \in PhoneKeysCallers, q # p PROVE ChangeOf(q)'
  OBVIOUS
<1>1. ASSUME calls[q].step # "idle" PROVE I!Writer(q) # I!Writer(p)
  BY <1>1, OneAFile DEF I!Writer
<1>2. I!Writer(q) \in I!Files
  BY DEF I!Writer, I!FileOf, I!Files
<1> QED
  BY <1>1, <1>2, OthersStand DEF StillTheChange

LEMMA OpenStep == ASSUME IInv, NEW p \in PhoneKeysCallers, I!Opens(p) PROVE IInv'
<1> USE DEF IInv
<1>1. /\ calls[p].step = "writes" /\ I!Step(p, "opened") /\ UNCHANGED <<locked, made, I_file, disk>>
      /\ "opened" \in Underway /\ I!Writer(p) \in I!Files
      /\ beside' = [beside EXCEPT ![I!Writer(p)] = [has |-> I!Torn(I!Empty(I!Writer(p))), synced |-> FALSE]]
  BY DEF I!Opens, I!OpenedBeside, Underway, I!Writer, I!FileOf, I!Files
<1>2. LocksAreHeld' /\ I!Writer(p)' = I!Writer(p)
  BY <1>1, StepLocks
<1>3. /\ \A q \in PhoneKeysCallers : q # p => calls'[q] = calls[q]
      /\ calls'[p].step = "opened" /\ calls'[p].does = calls[p].does /\ calls'[p].at = calls[p].at
      /\ calls'[p].key = calls[p].key /\ calls'[p].text = calls[p].text
  BY <1>1, StepIs DEF LocksAreHeld
<1>4. \A f \in I!Files : f # I!Writer(p) => I_file'[f] = I_file[f] /\ beside'[f] = beside[f]
  BY <1>1 DEF WholeFiles
<1>5. ChangeOf(p)'
  <2>1. I!Text(calls[p])' = I!Text(calls[p])
    BY <1>1, <1>3 DEF I!Text
  <2>2. ChangeOf(p)
    BY DEF StillTheChange
  <2> QED
    BY <1>1, <1>3, <2>1, <2>2 DEF ChangeOf
<1>6. StillTheChange'
  BY <1>1, <1>3, <1>4, <1>5, ElseStand DEF StillTheChange
<1>7. WholeFiles'
  BY <1>1 DEF WholeFiles
<1>8. InTheFile'
  BY <1>1 DEF I!Opens, InTheFile, I!OneKey, I!AcceptedIsWritten
<1> QED
  BY <1>2, <1>6, <1>7, <1>8

LEMMA WritesStep == ASSUME IInv, NEW p \in PhoneKeysCallers, I!Writes(p) PROVE IInv'
<1> USE DEF IInv
<1>1. /\ calls[p].step = "opened" /\ I!Step(p, "written") /\ UNCHANGED <<locked, made, I_file, disk>>
      /\ "written" \in Underway /\ I!Writer(p) \in I!Files
      /\ beside' = [beside EXCEPT ![I!Writer(p)] = [has |-> I!Whole(calls[p].text), synced |-> FALSE]]
  BY DEF I!Writes, I!OpenedBeside, Underway, I!Writer, I!FileOf, I!Files
<1>2. LocksAreHeld' /\ I!Writer(p)' = I!Writer(p)
  BY <1>1, StepLocks
<1>3. /\ \A q \in PhoneKeysCallers : q # p => calls'[q] = calls[q]
      /\ calls'[p].step = "written" /\ calls'[p].does = calls[p].does /\ calls'[p].at = calls[p].at
      /\ calls'[p].key = calls[p].key /\ calls'[p].text = calls[p].text
  BY <1>1, StepIs DEF LocksAreHeld
<1>4. /\ \A f \in I!Files : f # I!Writer(p) => I_file'[f] = I_file[f] /\ beside'[f] = beside[f]
      /\ beside'[I!Writer(p)].has = I!Whole(calls[p].text)
  BY <1>1 DEF WholeFiles
<1>5. ChangeOf(p)'
  <2>1. I!Text(calls[p])' = I!Text(calls[p])
    BY <1>1, <1>3 DEF I!Text
  <2>2. ChangeOf(p) /\ I!Whole(calls[p].text)' = I!Whole(calls'[p].text)
    BY DEF StillTheChange, I!Whole
  <2>3. I!Whole(calls'[p].text) = I!Whole(calls[p].text)
    BY <1>3
  <2> QED
    BY <1>1, <1>2, <1>3, <1>4, <2>1, <2>2, <2>3 DEF ChangeOf
<1>6. StillTheChange'
  BY <1>1, <1>3, <1>4, <1>5, ElseStand DEF StillTheChange
<1>7. WholeFiles'
  BY <1>1 DEF WholeFiles
<1>8. InTheFile'
  BY <1>1 DEF I!Writes, InTheFile, I!OneKey, I!AcceptedIsWritten
<1> QED
  BY <1>2, <1>6, <1>7, <1>8

LEMMA SyncStep == ASSUME IInv, NEW p \in PhoneKeysCallers, I!Syncs(p) PROVE IInv'
<1> USE DEF IInv
<1>1. /\ calls[p].step = "written" /\ I!Step(p, "synced") /\ UNCHANGED <<locked, made, I_file, disk>>
      /\ "synced" \in Underway /\ I!Writer(p) \in I!Files
      /\ beside' = [beside EXCEPT ![I!Writer(p)] = I!Synced(beside[I!Writer(p)])]
  BY DEF I!Syncs, Underway, I!Writer, I!FileOf, I!Files
<1>2. LocksAreHeld' /\ I!Writer(p)' = I!Writer(p)
  BY <1>1, StepLocks
<1>3. /\ \A q \in PhoneKeysCallers : q # p => calls'[q] = calls[q]
      /\ calls'[p].step = "synced" /\ calls'[p].does = calls[p].does /\ calls'[p].at = calls[p].at
      /\ calls'[p].key = calls[p].key /\ calls'[p].text = calls[p].text
  BY <1>1, StepIs DEF LocksAreHeld
<1>4. PICK now : now = beside[I!Writer(p)]
  OBVIOUS
<1>5. DOMAIN now = {"has", "synced"}
  BY <1>1, <1>4 DEF WholeFiles
<1>6. /\ DOMAIN I!Synced(now) = {"has", "synced"}
      /\ I!Synced(now).has = now.has /\ I!Synced(now).synced
  BY <1>5, ZenonT(30) DEF I!Synced
<1>7. /\ \A f \in I!Files : f # I!Writer(p) => I_file'[f] = I_file[f] /\ beside'[f] = beside[f]
      /\ beside'[I!Writer(p)] = I!Synced(now) /\ DOMAIN beside' = I!Files
  BY <1>1, <1>4 DEF WholeFiles
<1>8. ChangeOf(p)'
  <2>1. I!Text(calls[p])' = I!Text(calls[p])
    BY <1>1, <1>3 DEF I!Text
  <2>2. ChangeOf(p) /\ I!Whole(calls[p].text)' = I!Whole(calls'[p].text)
    BY DEF StillTheChange, I!Whole
  <2>3. I!Whole(calls'[p].text) = I!Whole(calls[p].text)
    BY <1>3
  <2> QED
    BY <1>1, <1>2, <1>3, <1>4, <1>6, <1>7, <2>1, <2>2, <2>3 DEF ChangeOf
<1>9. StillTheChange'
  BY <1>1, <1>3, <1>7, <1>8, ElseStand DEF StillTheChange
<1>10. WholeFiles'
  BY <1>1, <1>6, <1>7 DEF WholeFiles
<1>11. InTheFile'
  BY <1>1 DEF I!Syncs, InTheFile, I!OneKey, I!AcceptedIsWritten
<1> QED
  BY <1>2, <1>9, <1>10, <1>11

LEMMA RenameStep == ASSUME I!PhoneKeysAssumption, IInv, NEW p \in PhoneKeysCallers, I!Renames(p) PROVE IInv'
<1> USE DEF IInv
<1>1. PICK f \in I!Files : f = I!Writer(p)
  BY DEF I!Writer, I!FileOf, I!Files
<1>2. PICK text : text = calls[p].text
  OBVIOUS
<1>3. /\ beside[f].has = I!Whole(text) /\ beside[f].synced /\ text = I!Text(calls[p])
      /\ calls[p].does = "kept_at" => I_file[KeyFile].text = 0
      /\ calls[p].does = "trust" => I_file[HostFile].text[calls[p].at] = I!NoKey
  BY <1>1, <1>2 DEF I!Renames, StillTheChange, ChangeOf
<1>4. /\ calls[p].step = "synced" /\ "answers" \in Underway
      /\ I!Step(p, "answers") /\ UNCHANGED <<locked, made, beside, given>>
  BY DEF I!Renames, Underway
<1>5. /\ calls[p].does \in {"kept_at", "trust", "forget"}
      /\ calls[p].does = "kept_at" => calls[p].key \in Nat \ {0}
      /\ calls[p].does # "kept_at" => calls[p].at \in PhoneKeysMachines
  BY <1>4 DEF LocksAreHeld
<1>6. /\ f = IF calls[p].does = "kept_at" THEN KeyFile ELSE HostFile
      /\ calls[p].does = "kept_at" => text = calls[p].key /\ text \in Nat
      /\ calls[p].does # "kept_at" =>
           text = [I_file[HostFile].text EXCEPT ![calls[p].at] = calls[p].key]
  BY <1>1, <1>3, <1>5 DEF I!Writer, I!FileOf, I!Text, KeyFile, HostFile
<1>7. calls[p].does # "kept_at" =>
        /\ DOMAIN text = PhoneKeysMachines /\ text[calls[p].at] = calls[p].key
        /\ \A m \in PhoneKeysMachines : m # calls[p].at => text[m] = I_file[HostFile].text[m]
  <2>1. DOMAIN I_file[HostFile].text = PhoneKeysMachines
    BY TheFiles DEF WholeFiles
  <2> QED
    BY <1>5, <1>6, <2>1
<1>8. /\ DOMAIN I_file' = I!Files /\ DOMAIN disk' = I!Files
      /\ I_file'[f] = I!Whole(text) /\ disk'[f] = disk[f] \union {I!Whole(text)}
      /\ \A g \in I!Files : g # f => I_file'[g] = I_file[g] /\ disk'[g] = disk[g]
  BY <1>1, <1>3 DEF I!Renames, WholeFiles
<1>9. LocksAreHeld' /\ I!Writer(p)' = I!Writer(p)
  BY <1>4, StepLocks
<1>10. /\ \A q \in PhoneKeysCallers : q # p => calls'[q] = calls[q]
       /\ calls'[p].step = "answers" /\ calls'[p].does = calls[p].does /\ calls'[p].at = calls[p].at
       /\ calls'[p].key = calls[p].key
  BY <1>4, StepIs DEF LocksAreHeld
<1>11. ChangeOf(p)'
  <2>1. /\ calls[p].does = "kept_at" => I_file'[KeyFile].text = calls[p].key
        /\ calls[p].does = "trust" => I_file'[HostFile].text[calls[p].at] = calls[p].key
    BY <1>6, <1>7, <1>8, Wholes
  <2> QED
    BY <1>10, <2>1 DEF ChangeOf
<1>12. StillTheChange'
  <2>1. \A g \in I!Files : g # I!Writer(p) => I_file'[g] = I_file[g] /\ beside'[g] = beside[g]
    BY <1>1, <1>4, <1>8
  <2> QED
    BY <1>4, <1>10, <1>11, <2>1, ElseStand DEF StillTheChange
<1>13. WholeFiles'
  <2>1. \A x : I!Whole(x)' = I!Whole(x)
    BY DEF I!Whole
  <2>2. \A g \in I!Files : I_file'[g] \in disk'[g]
    BY <1>8 DEF WholeFiles
  <2>3. \A g \in I!Files : \A x \in disk'[g] : x = I!Whole(x.text)
    BY <1>8, Wholes DEF WholeFiles
  <2>4. \A x \in disk'[HostFile] : DOMAIN x.text = PhoneKeysMachines
    BY <1>6, <1>7, <1>8, Wholes, TheFiles DEF WholeFiles
  <2>5. \A x \in disk'[KeyFile] : x.text \in Nat
    BY <1>6, <1>8, Wholes, TheFiles DEF WholeFiles
  <2> QED
    BY <1>4, <1>8, <2>1, <2>2, <2>3, <2>4, <2>5 DEF WholeFiles
<1>14. InTheFile'
  <2>1. CASE calls[p].does = "kept_at"
    <3>1. accepted' = accepted /\ I_file'[HostFile] = I_file[HostFile] /\ given = {}
      BY <1>3, <1>6, <1>8, <2>1, TheFiles DEF I!Renames, InTheFile, I!OneKey, KeyFile
    <3> QED
      BY <1>4, <3>1 DEF InTheFile, I!OneKey, I!AcceptedIsWritten, HostFile
  <2>2. CASE calls[p].does = "trust"
    <3>1. accepted' = accepted /\ I_file'[KeyFile] = I_file[KeyFile] /\ I_file'[HostFile].text = text
      BY <1>6, <1>8, <2>2, TheFiles, Wholes DEF I!Renames
    <3>2. \A m \in PhoneKeysMachines : accepted'[m] \subseteq {I_file'[HostFile].text[m]}
      <4>1. TAKE m \in PhoneKeysMachines
      <4>2. CASE m = calls[p].at
        BY <1>3, <2>2, <3>1, <4>2 DEF InTheFile, I!AcceptedIsWritten, HostFile
      <4>3. CASE m # calls[p].at
        BY <1>7, <2>2, <3>1, <4>3 DEF InTheFile, I!AcceptedIsWritten, HostFile
      <4> QED
        BY <4>2, <4>3
    <3> QED
      BY <1>4, <3>1, <3>2 DEF InTheFile, I!OneKey, I!AcceptedIsWritten, HostFile, KeyFile
  <2>3. CASE calls[p].does = "forget"
    <3>1. /\ I_file'[KeyFile] = I_file[KeyFile] /\ I_file'[HostFile].text = text
          /\ DOMAIN accepted' = PhoneKeysMachines /\ accepted'[calls[p].at] = {}
          /\ \A m \in PhoneKeysMachines : m # calls[p].at => accepted'[m] = accepted[m]
      BY <1>5, <1>6, <1>8, <2>3, TheFiles, Wholes DEF I!Renames, InTheFile
    <3>2. \A m \in PhoneKeysMachines : accepted'[m] \subseteq {I_file'[HostFile].text[m]}
      BY <1>7, <2>3, <3>1 DEF InTheFile, I!AcceptedIsWritten, HostFile
    <3> QED
      BY <1>4, <3>1, <3>2 DEF InTheFile, I!OneKey, I!AcceptedIsWritten, HostFile, KeyFile
  <2> QED
    BY <1>5, <2>1, <2>2, <2>3
<1> QED
  BY <1>9, <1>12, <1>13, <1>14

LEMMA SettleStep == ASSUME IInv, NEW f \in I!Files, I!Settles(f) PROVE IInv'
<1> USE DEF IInv
<1>1. /\ UNCHANGED <<I_file, beside, locked, calls, given, accepted, made>>
      /\ disk' = [disk EXCEPT ![f] = {I_file[f]}]
  BY DEF I!Settles
<1>2. \A g \in I!Files : I_file[g] \in disk'[g] /\ disk'[g] \subseteq disk[g]
  BY <1>1 DEF WholeFiles
<1>3. WholeFiles'
  <2>1. DOMAIN disk' = I!Files
    BY <1>1 DEF WholeFiles
  <2>2. \A x : I!Whole(x)' = I!Whole(x)
    BY DEF I!Whole
  <2> QED
    BY <1>1, <1>2, <2>1, <2>2, TheFiles DEF WholeFiles
<1>4. LocksAreHeld' /\ InTheFile'
  BY <1>1 DEF LocksAreHeld, I!FileOf, InTheFile, I!OneKey, I!AcceptedIsWritten
<1>5. StillTheChange'
  BY <1>1, OthersStand DEF StillTheChange
<1> QED
  BY <1>3, <1>4, <1>5

LEMMA AnswersStep == ASSUME I!PhoneKeysAssumption, IInv, NEW p \in PhoneKeysCallers, I!Answers(p) PROVE IInv'
<1> USE DEF IInv
<1>1. /\ DOMAIN calls' = PhoneKeysCallers /\ calls'[p].step = "idle"
      /\ \A q \in PhoneKeysCallers : q # p => calls'[q] = calls[q]
  BY DEF I!Answers, LocksAreHeld, I!Idle
<1>2. /\ locked' = [f \in I!Files |-> IF locked[f] = p THEN I!Nobody ELSE locked[f]]
      /\ UNCHANGED <<I_file, disk, beside, made>>
  BY DEF I!Answers
<1>3. WholeFiles'
  BY <1>2 DEF WholeFiles, I!Whole
<1>4. LocksAreHeld'
  <2>1. locked' \in [I!Files -> PhoneKeysCallers \union {I!Nobody}]
    BY <1>2 DEF LocksAreHeld
  <2>2. \A q \in PhoneKeysCallers : calls'[q].step \in Underway \union {"idle"}
    BY <1>1 DEF LocksAreHeld
  <2>3. ASSUME NEW q \in PhoneKeysCallers, calls'[q].step # "idle"
        PROVE  calls'[q] = calls[q] /\ locked'[I!FileOf(calls[q])] = q
    <3>1. calls'[q] = calls[q] /\ q # p
      BY <1>1, <2>3
    <3>2. locked[I!FileOf(calls[q])] = q /\ I!FileOf(calls[q]) \in I!Files
      BY <2>3, <3>1 DEF LocksAreHeld, I!FileOf, I!Files
    <3> QED
      BY <1>2, <3>1, <3>2
  <2>4. \A c : I!FileOf(c)' = I!FileOf(c)
    BY DEF I!FileOf
  <2> QED
    BY <1>1, <1>2, <2>1, <2>2, <2>3, <2>4 DEF LocksAreHeld
<1>5. StillTheChange'
  <2>1. ChangeOf(p)'
    BY <1>1 DEF ChangeOf
  <2>2. \A q \in PhoneKeysCallers : q # p => ChangeOf(q)'
    BY <1>1, <1>2, OthersStand DEF StillTheChange
  <2> QED
    BY <2>1, <2>2 DEF StillTheChange
<1>6. PICK call : call = calls[p]
  OBVIOUS
<1>7. /\ call.does = "kept_at" => call.key \in Nat \ {0}
      /\ call.does = "trust" => call.at \in PhoneKeysMachines /\ call.key \in HostKeys
      /\ call.step = "answers" /\ call.does = "kept_at" => I_file[KeyFile].text = call.key
      /\ call.step = "answers" /\ call.does = "trust" => I_file[HostFile].text[call.at] = call.key
  BY <1>6 DEF I!Answers, LocksAreHeld, StillTheChange, ChangeOf
<1>8. 0 \notin given' /\ given' \subseteq {I_file[KeyFile].text}
  <2>1. given' = IF call.step = "answers" /\ call.does = "kept_at"
                 THEN given \union {call.key} ELSE given
    BY <1>6 DEF I!Answers
  <2> QED
    BY <1>7, <2>1 DEF InTheFile, I!OneKey, KeyFile
<1>9. /\ DOMAIN accepted' = PhoneKeysMachines /\ \A m \in PhoneKeysMachines : I!NoKey \notin accepted'[m]
      /\ \A m \in PhoneKeysMachines : accepted'[m] \subseteq {I_file[HostFile].text[m]}
  <2>1. accepted' = IF call.step = "answers" /\ call.does = "trust"
                    THEN [accepted EXCEPT ![call.at] = @ \union {call.key}] ELSE accepted
    BY <1>6 DEF I!Answers
  <2>2. CASE call.step = "answers" /\ call.does = "trust"
    <3>1. /\ DOMAIN accepted' = PhoneKeysMachines /\ accepted'[call.at] = accepted[call.at] \union {call.key}
          /\ \A m \in PhoneKeysMachines : m # call.at => accepted'[m] = accepted[m]
      BY <1>7, <2>1, <2>2 DEF InTheFile
    <3> QED
      BY <1>7, <2>2, <3>1 DEF InTheFile, I!AcceptedIsWritten, HostFile, I!PhoneKeysAssumption
  <2>3. CASE ~(call.step = "answers" /\ call.does = "trust")
    BY <2>1, <2>3 DEF InTheFile, I!AcceptedIsWritten, HostFile
  <2> QED
    BY <2>2, <2>3
<1>10. InTheFile'
  BY <1>2, <1>8, <1>9 DEF InTheFile, I!OneKey, I!AcceptedIsWritten, KeyFile, HostFile
<1> QED
  BY <1>3, <1>4, <1>5, <1>10

\* When the app is killed nobody is in the middle of a call, and no lock is held.
LEMMA NobodyCalls ==
    ASSUME LocksAreHeld, I!AllStop, made' = made
    PROVE  LocksAreHeld' /\ StillTheChange'
<1>1. /\ DOMAIN calls' = PhoneKeysCallers /\ \A p \in PhoneKeysCallers : calls'[p].step = "idle"
      /\ locked' \in [I!Files -> PhoneKeysCallers \union {I!Nobody}]
  BY DEF I!AllStop, I!Idle
<1>2. StillTheChange'
  BY <1>1 DEF StillTheChange, ChangeOf
<1> QED
  BY <1>1, <1>2 DEF LocksAreHeld

LEMMA KillStep == ASSUME IInv, I!Killed PROVE IInv'
<1> USE DEF IInv
<1>1. WholeFiles' /\ InTheFile'
  BY DEF I!Killed, WholeFiles, InTheFile, I!OneKey, I!AcceptedIsWritten, I!Whole
<1> QED
  BY <1>1, NobodyCalls DEF I!Killed

\* Whatever the disk kept, it is a whole file, and what it did not keep nobody is
\* held to.
LEMMA PowerStep == ASSUME I!PhoneKeysAssumption, IInv, I!PowerCut PROVE IInv'
<1> USE DEF IInv
<1>1. PICK keys \in disk[KeyFile], hosts \in disk[HostFile] :
        /\ I_file' = [f \in I!Files |-> IF f = KeyFile THEN keys ELSE hosts]
        /\ given' = IF keys = I_file[KeyFile] THEN given ELSE {}
        /\ accepted' = IF hosts = I_file[HostFile] THEN accepted
                       ELSE [m \in PhoneKeysMachines |-> {hosts.text[m]} \ {I!NoKey}]
  BY DEF I!PowerCut, KeyFile, HostFile
<1>2. /\ DOMAIN I_file' = I!Files /\ I_file'[KeyFile] = keys /\ I_file'[HostFile] = hosts
      /\ disk' = [f \in I!Files |-> {I_file'[f]}]
      /\ UNCHANGED <<beside, made>> /\ I!AllStop
  BY <1>1, TheFiles DEF I!PowerCut
<1>3. WholeFiles'
  <2>1. /\ DOMAIN disk' = I!Files
        /\ \A f \in I!Files : disk'[f] = {I_file'[f]} /\ I_file'[f] \in disk[f]
    BY <1>1, <1>2, TheFiles
  <2>2. \A x : I!Whole(x)' = I!Whole(x)
    BY DEF I!Whole
  <2> QED
    BY <1>2, <2>1, <2>2, TheFiles DEF WholeFiles
<1>4. /\ 0 \notin given' /\ given' \subseteq {I_file'[KeyFile].text}
  BY <1>1, <1>2 DEF InTheFile, I!OneKey, KeyFile
<1>5. /\ DOMAIN accepted' = PhoneKeysMachines /\ \A m \in PhoneKeysMachines : I!NoKey \notin accepted'[m]
      /\ \A m \in PhoneKeysMachines : accepted'[m] \subseteq {I_file'[HostFile].text[m]}
  <2>1. CASE hosts = I_file[HostFile]
    BY <1>1, <1>2, <2>1 DEF InTheFile, I!AcceptedIsWritten, HostFile
  <2>2. CASE hosts # I_file[HostFile]
    BY <1>1, <1>2, <2>2
  <2> QED
    BY <2>1, <2>2
<1>6. InTheFile'
  BY <1>4, <1>5 DEF InTheFile, I!OneKey, I!AcceptedIsWritten, KeyFile, HostFile
<1> QED
  BY <1>2, <1>3, <1>6, NobodyCalls

LEMMA IPreserved == ASSUME I!PhoneKeysAssumption, IInv, [I!Next]_(I!vars) PROVE IInv'
<1>1. CASE UNCHANGED I!vars
  BY <1>1, ZenonT(30) DEF I!vars, IInv, WholeFiles, LocksAreHeld, StillTheChange, ChangeOf, InTheFile, I!OneKey,
     I!AcceptedIsWritten, I!Whole, I!Writer, I!FileOf, I!Text
<1>2. ASSUME NEW p \in PhoneKeysCallers, I!Asks(p, I!Call("kept_at", I!NoKey, I!NoKey)) PROVE IInv'
  BY <1>2, AskStep
<1>3. ASSUME NEW p \in PhoneKeysCallers, NEW at \in PhoneKeysMachines, NEW key \in HostKeys,
             I!Asks(p, I!Call("trust", at, key))
      PROVE  IInv'
  BY <1>3, AskStep
<1>4. ASSUME NEW p \in PhoneKeysCallers, NEW at \in PhoneKeysMachines, I!Asks(p, I!Call("forget", at, I!NoKey)) PROVE IInv'
  BY <1>4, AskStep
<1> QED
  BY <1>1, <1>2, <1>3, <1>4, ReadStep, OpenStep, WritesStep, SyncStep, RenameStep, SettleStep,
     AnswersStep, KillStep, PowerStep DEF I!Next

LEMMA IHolds == ASSUME IInv PROVE I!NeverTorn /\ I!OneKey /\ I!AcceptedIsWritten
<1>1. I!NeverTorn
  BY Wholes DEF IInv, WholeFiles, I!NeverTorn
<1> QED
  BY <1>1 DEF IInv, InTheFile

\* Whatever it does, a behaviour that is of the keys keeps it.
IPart == part = "keys" => IInv

LEMMA IPartInitially == Init => IPart
<1> SUFFICES ASSUME Init, part = "keys" PROVE IInv
  BY DEF IPart
<1>1. I!Init
  BY DEF Init
<1> QED
  BY <1>1, PhoneKeysAssumed, IInitially

LEMMA IPartStep ==
    ASSUME [Next]_vars, part' = "keys"
    PROVE  part = "keys" /\ [I!Next]_(I!vars)
<1>1. CASE UNCHANGED vars
  BY <1>1 DEF vars, Beyond19, Beyond17, Beyond13, Beyond12, Beyond10,
     Beyond9, Beyond8, Beyond7, Beyond4,
     I!vars
<1>2. CASE Next
  BY <1>2 DEF Next
<1> QED
  BY <1>1, <1>2

LEMMA IPartPreserved == IPart /\ [Next]_vars => IPart'
<1> SUFFICES ASSUME IPart, [Next]_vars, part' = "keys" PROVE IInv'
  BY DEF IPart
<1> QED
  BY IPartStep, IPreserved, PhoneKeysAssumed DEF IPart

HIDE DEF I_file, disk, beside, locked, calls, given, accepted, made

(***************************************************************************)
(* What holds of PhoneReach for any callers, accounts and keys of an       *)
(* agent.                                                                  *)
(*                                                                         *)
(* A call carries what it has found out (Found): it comes to its own key   *)
(* only where a key is asked for, to the last spelling of mm only where    *)
(* the first is not there, and no agent's keys spend the tries the machine *)
(* allows.  The connection in the pool is one nobody doubts and that       *)
(* failed nobody (HeldIsGood), so a call that takes it is not given one it *)
(* was told to forget.                                                     *)
(***************************************************************************)
machine == v1
known == v2
conns == v3
held == v4
E_locked == v5
E_calls == v6
resumed == v7

USE DEF machine, known, conns, held, E_locked, E_calls, resumed

LoggingIn == {"connects", "asking", "agent", "own key"}
StepsOf == LoggingIn \union {"asks", "climbs", "forgets", "forget", "forget more", "told"}
Words == {"nothing", "reaching", "host key", "turned away", "refused", "no mm", "listing", "forgotten"}

Conn == [account: Accounts, state: {"open", "stale", "closed"}, doubted: BOOLEAN, failed: BOOLEAN]
ACall == [step: StepsOf, account: Accounts, conn: Nat, tries: Nat, program: {1, 2},
          link: {"up", "broke"}, told: Words, doubts: SUBSET Nat]

\* What somebody is told is so, and what is found on the way to it.
SoOfIt(told) ==
    /\ told = "refused" => machine.admits \in {"agent", "nobody"}
    /\ told = "turned away" => machine.admits = "unasked"
    /\ told = "host key" => machine.key = 2
    /\ told = "no mm" => machine.mm = "nowhere"

Found(c) ==
    E_calls[c] # E!Idle =>
        /\ E_calls[c] \in ACall
        /\ E_calls[c].doubts \subseteq {i \in DOMAIN conns : conns[i].doubted}
        /\ E_calls[c].step # "told" =>
             E_calls[c].told = "nothing" \/ (E_calls[c].step = "forgets" /\ E_calls[c].told = "no mm")
        /\ E_calls[c].step \in LoggingIn \union {"asks"} => E_calls[c].program = 1
        /\ E_calls[c].step \in {"agent", "own key"} => machine.admits \notin {"anybody", "unasked"}
        /\ E_calls[c].step = "agent" => E_calls[c].tries \in 1..E!FromTheAgent + 1
        /\ E_calls[c].step \in {"climbs", "forgets"} => E_calls[c].conn \in DOMAIN conns
        /\ E_calls[c].step = "climbs" =>
             /\ conns[E_calls[c].conn].account = E_calls[c].account
             /\ E_calls[c].conn \notin E_calls[c].doubts
             /\ E_calls[c].program # 1 => machine.mm # "path"
        /\ SoOfIt(E_calls[c].told)

HeldIsGood ==
    /\ conns \in Seq(Conn) /\ held \in 0..Len(conns)
    /\ held # 0 => ~conns[held].failed /\ ~conns[held].doubted

WorldIs ==
    /\ machine \in [key: {1, 2}, admits: E!Admits, mm: {"path", "home", "nowhere"}]
    /\ known \in {0, 1, machine.key}

EInv ==
    /\ WorldIs /\ HeldIsGood
    /\ E_locked \in PhoneReachCallers \union {E!Nobody}
    /\ DOMAIN E_calls = PhoneReachCallers /\ \A c \in PhoneReachCallers : Found(c)
    /\ \A c \in PhoneReachCallers : E_locked = c => E_calls[c].step \in LoggingIn

(***************************************************************************)
(* Lemmas.                                                                 *)
(***************************************************************************)
LEMMA EInitially == ASSUME E!PhoneReachAssumption PROVE E!Init => EInv
<1> SUFFICES ASSUME E!Init PROVE EInv
  OBVIOUS
<1>1. machine \in [key: {1, 2}, admits: E!Admits, mm: {"path", "home", "nowhere"}]
  BY DEF E!Init, E!Admits
<1>2. \A c \in PhoneReachCallers : E_calls[c] = E!Idle
  BY DEF E!Init
<1>3. <<>> \in Seq(Conn) /\ Len(<<>>) = 0
  OBVIOUS
<1>4. HeldIsGood
  BY <1>3 DEF E!Init, HeldIsGood
<1>5. /\ E_locked \in PhoneReachCallers \union {E!Nobody} /\ DOMAIN E_calls = PhoneReachCallers
      /\ \A c \in PhoneReachCallers : E_locked # c
  BY DEF E!Init, E!PhoneReachAssumption
<1>6. \A c \in PhoneReachCallers : Found(c)
  BY <1>2 DEF Found
<1>7. known \in {0, 1, machine.key}
  BY DEF E!Init
<1> QED
  BY <1>1, <1>4, <1>5, <1>6, <1>7 DEF EInv, WorldIs

\* What a call has found stays so while no connection goes and none is trusted
\* again, and the machine is at most installed anew.
NothingIsUnsaid ==
    /\ \A i \in DOMAIN conns :
         /\ i \in DOMAIN conns' /\ conns'[i].account = conns[i].account
         /\ conns[i].doubted => conns'[i].doubted
    /\ machine'.admits = machine.admits /\ machine'.mm = machine.mm
    /\ machine.key = 2 => machine'.key = 2

LEMMA StillFound ==
    ASSUME NEW c \in PhoneReachCallers, Found(c), E_calls'[c] = E_calls[c], NothingIsUnsaid
    PROVE  Found(c)'
<1> SUFFICES ASSUME E_calls[c] # E!Idle PROVE Found(c)'
  BY DEF Found, E!Idle
<1>1. SoOfIt(E_calls[c].told)'
  BY DEF Found, SoOfIt, NothingIsUnsaid
<1>2. E!FromTheAgent' = E!FromTheAgent /\ E!Idle' = E!Idle
  BY DEF E!FromTheAgent, E!Idle
<1>3. PICK call \in ACall : call = E_calls[c]
  BY DEF Found
<1>4. call.doubts \subseteq {i \in DOMAIN conns' : conns'[i].doubted}
  BY <1>3 DEF Found, NothingIsUnsaid
<1>5. call.step \in {"climbs", "forgets"} =>
        call.conn \in DOMAIN conns' /\ conns'[call.conn].account = conns[call.conn].account
  BY <1>3 DEF Found, NothingIsUnsaid
<1> QED
  BY <1>1, <1>2, <1>3, <1>4, <1>5, ZenonT(30) DEF Found, NothingIsUnsaid, ACall

LEMMA OthersFound ==
    ASSUME EInv, NEW c \in PhoneReachCallers, \A d \in PhoneReachCallers : d # c => E_calls'[d] = E_calls[d],
           NothingIsUnsaid, Found(c)'
    PROVE  \A d \in PhoneReachCallers : Found(d)'
BY StillFound DEF EInv

LEMMA SameIsSaid == ASSUME UNCHANGED <<conns, machine>> PROVE NothingIsUnsaid
BY DEF NothingIsUnsaid

LEMMA NotIdle == ASSUME NEW c, E_calls[c].step # "idle" PROVE E_calls[c] # E!Idle
BY DEF E!Idle

\* A call that goes on is the same call.
LEMMA GoesIs ==
    ASSUME EInv, NEW c \in PhoneReachCallers, E_calls[c] # E!Idle, NEW step \in StepsOf, E!Goes(c, step)
    PROVE  /\ DOMAIN E_calls' = PhoneReachCallers /\ \A d \in PhoneReachCallers : d # c => E_calls'[d] = E_calls[d]
           /\ E_calls'[c] \in ACall /\ E_calls'[c].step = step
           /\ E_calls'[c].account = E_calls[c].account /\ E_calls'[c].conn = E_calls[c].conn
           /\ E_calls'[c].tries = E_calls[c].tries /\ E_calls'[c].program = E_calls[c].program
           /\ E_calls'[c].told = E_calls[c].told /\ E_calls'[c].doubts = E_calls[c].doubts
           /\ E_calls'[c].link = E_calls[c].link
<1>1. PICK call \in ACall : call = E_calls[c]
  BY DEF EInv, Found
<1>2. PICK next : next = [call EXCEPT !.step = step]
  OBVIOUS
<1>3. /\ next \in ACall /\ next.step = step /\ next.account = call.account /\ next.conn = call.conn
      /\ next.tries = call.tries /\ next.program = call.program /\ next.told = call.told
      /\ next.doubts = call.doubts /\ next.link = call.link
  BY <1>1, <1>2 DEF ACall
<1>4. E_calls' = [E_calls EXCEPT ![c] = next] /\ DOMAIN E_calls = PhoneReachCallers
  BY <1>1, <1>2 DEF E!Goes, EInv
<1> QED
  BY <1>1, <1>3, <1>4

LEMMA TellsIs ==
    ASSUME EInv, NEW c \in PhoneReachCallers, E_calls[c] # E!Idle, NEW what \in Words, E!Tells(c, what)
    PROVE  /\ DOMAIN E_calls' = PhoneReachCallers /\ \A d \in PhoneReachCallers : d # c => E_calls'[d] = E_calls[d]
           /\ E_calls'[c] \in ACall /\ E_calls'[c].step = "told" /\ E_calls'[c].told = what
           /\ E_calls'[c].doubts = E_calls[c].doubts
<1>1. PICK call \in ACall : call = E_calls[c]
  BY DEF EInv, Found
<1>2. PICK one : one = [call EXCEPT !.step = "told"]
  BY Zenon
<1>3. one \in ACall /\ one.step = "told" /\ one.doubts = call.doubts
  BY <1>1, <1>2 DEF ACall, StepsOf
<1>4. PICK both : both = [one EXCEPT !.told = what]
  OBVIOUS
<1>5. both \in ACall /\ both.step = "told" /\ both.told = what /\ both.doubts = call.doubts
  BY <1>3, <1>4 DEF ACall
<1>6. E_calls' = [[E_calls EXCEPT ![c] = one] EXCEPT ![c] = both] /\ DOMAIN E_calls = PhoneReachCallers
  BY <1>1, <1>2, <1>4 DEF E!Tells, EInv
<1> QED
  BY <1>1, <1>5, <1>6

\* Somebody told what is so has found no more.
LEMMA TellsFound ==
    ASSUME EInv, NEW c \in PhoneReachCallers, E_calls[c] # E!Idle, NEW what \in Words, E!Tells(c, what),
           SoOfIt(what)', NothingIsUnsaid, HeldIsGood', WorldIs', E_locked' = E!Nobody \/ (E_locked' = E_locked /\ E_locked # c),
           E!PhoneReachAssumption
    PROVE  EInv'
<1>1. /\ DOMAIN E_calls' = PhoneReachCallers /\ \A d \in PhoneReachCallers : d # c => E_calls'[d] = E_calls[d]
      /\ E_calls'[c] \in ACall /\ E_calls'[c].step = "told" /\ E_calls'[c].told = what
      /\ E_calls'[c].doubts = E_calls[c].doubts
  BY TellsIs
<1>2. Found(c)'
  <2>1. E_calls[c].doubts \subseteq {i \in DOMAIN conns' : conns'[i].doubted}
    BY DEF EInv, Found, NothingIsUnsaid
  <2> QED
    BY <1>1, <2>1 DEF Found, LoggingIn
<1>3. \A d \in PhoneReachCallers : Found(d)'
  BY <1>1, <1>2, OthersFound
<1>4. /\ E_locked' \in PhoneReachCallers \union {E!Nobody}
      /\ \A d \in PhoneReachCallers : E_locked' = d => E_locked = d /\ d # c
  BY DEF EInv, E!PhoneReachAssumption
<1> QED
  BY <1>1, <1>3, <1>4 DEF EInv

LEMMA BeginsStep ==
    ASSUME E!PhoneReachAssumption, EInv, NEW c \in PhoneReachCallers, NEW account \in Accounts,
           NEW what \in {"asks", "forget"}, E!Begins(c, what, account)
    PROVE  EInv'
<1>1. PICK call : call = [step |-> what, account |-> account, conn |-> 0, tries |-> 0,
                    program |-> 1, link |-> "up", told |-> "nothing",
                    doubts |-> {i \in DOMAIN conns : conns[i].doubted}]
  OBVIOUS
<1>2. DOMAIN conns \subseteq Nat
  BY DEF EInv, HeldIsGood
<1>3. /\ call \in ACall /\ call.step = what /\ call.told = "nothing" /\ call.program = 1
      /\ call.doubts = {i \in DOMAIN conns : conns[i].doubted}
  BY <1>1, <1>2 DEF ACall, StepsOf, Words
<1>4. /\ DOMAIN E_calls' = PhoneReachCallers /\ E_calls'[c] = call
      /\ \A d \in PhoneReachCallers : d # c => E_calls'[d] = E_calls[d]
      /\ UNCHANGED <<machine, known, conns, held, E_locked>>
      /\ E_calls[c].step \in {"idle", "told"}
  BY <1>1 DEF E!Begins, EInv
<1>5. Found(c)'
  BY <1>3, <1>4 DEF Found, SoOfIt, LoggingIn
<1>6. \A d \in PhoneReachCallers : Found(d)'
  BY <1>4, <1>5, OthersFound, SameIsSaid
<1>7. HeldIsGood' /\ WorldIs'
  BY <1>4 DEF EInv, HeldIsGood, WorldIs
<1>8. \A d \in PhoneReachCallers : E_locked = d => d # c
  BY <1>4 DEF EInv, LoggingIn
<1>9. \A d \in PhoneReachCallers : E_locked' = d => E_calls'[d].step \in LoggingIn
  BY <1>4, <1>8 DEF EInv
<1> QED
  BY <1>4, <1>6, <1>7, <1>9 DEF EInv

\* What is in the pool nobody doubts, so a call that finds it there may use it.
LEMMA ToStep ==
    ASSUME E!PhoneReachAssumption, EInv, NEW c \in PhoneReachCallers, E!to(c)
    PROVE  EInv'
<1>1. /\ UNCHANGED <<machine, known, conns, held>> /\ E_calls[c].step = "asks" /\ E_calls[c] # E!Idle
      /\ E_locked = E!Nobody
  BY DEF E!to, E!world, E!Idle
<1>2. HeldIsGood' /\ WorldIs' /\ NothingIsUnsaid
  BY <1>1, SameIsSaid DEF EInv, HeldIsGood, WorldIs
<1>3. PICK call \in ACall : call = E_calls[c]
  BY <1>1 DEF EInv, Found
<1>4. CASE E!Held(E_calls[c].account)
  <2>1. PICK one : one = [call EXCEPT !.step = "climbs"]
    BY Zenon
  <2>2. /\ one \in ACall /\ one.step = "climbs" /\ one.account = call.account
        /\ one.program = call.program /\ one.told = call.told /\ one.doubts = call.doubts
    BY <1>3, <2>1 DEF ACall, StepsOf
  <2>3. PICK both : both = [one EXCEPT !.conn = held]
    OBVIOUS
  <2>4. held \in DOMAIN conns /\ held \in Nat
    BY <1>4 DEF EInv, HeldIsGood, E!Held
  <2>5. /\ both \in ACall /\ both.step = "climbs" /\ both.account = call.account
        /\ both.conn = held /\ both.program = call.program /\ both.told = call.told
        /\ both.doubts = call.doubts
    BY <2>2, <2>3, <2>4 DEF ACall
  <2>6. E_calls' = [[E_calls EXCEPT ![c] = one] EXCEPT ![c] = both] /\ DOMAIN E_calls = PhoneReachCallers
    BY <1>3, <1>4, <2>1, <2>3 DEF E!to, EInv
  <2>7. /\ DOMAIN E_calls' = PhoneReachCallers /\ E_calls'[c] = both /\ E_locked' = E!Nobody
        /\ \A d \in PhoneReachCallers : d # c => E_calls'[d] = E_calls[d]
    BY <1>1, <1>4, <2>6 DEF E!to
  <2>8. conns[held].account = call.account /\ ~conns[held].doubted
    BY <1>3, <1>4, <2>4 DEF E!Held, EInv, HeldIsGood
  <2>9. Found(c)'
    <3>1. Found(c) /\ call # E!Idle
      BY <1>1, <1>3 DEF EInv
    <3>2. /\ call.program = 1 /\ call.told = "nothing"
          /\ call.doubts \subseteq {i \in DOMAIN conns : conns[i].doubted}
      BY <1>1, <1>3, <3>1 DEF Found
    <3>3. SoOfIt(both.told)'
      BY <2>5, <3>2 DEF SoOfIt
    <3>4. /\ both.doubts \subseteq {i \in DOMAIN conns : conns[i].doubted}
          /\ both.conn \in DOMAIN conns /\ both.conn \notin both.doubts
          /\ conns[both.conn].account = both.account
      BY <2>4, <2>5, <2>8, <3>2
    <3> QED
      BY <1>1, <2>5, <2>7, <3>2, <3>3, <3>4 DEF Found, LoggingIn, SoOfIt
  <2>10. \A d \in PhoneReachCallers : Found(d)'
    BY <1>2, <2>7, <2>9, OthersFound
  <2> QED
    BY <1>2, <2>7, <2>10 DEF EInv, E!PhoneReachAssumption
<1>5. CASE ~E!Held(E_calls[c].account)
  <2>1. E!Goes(c, "connects") /\ E_locked' = c /\ "connects" \in StepsOf
    BY <1>5 DEF E!to, StepsOf, LoggingIn
  <2>2. /\ DOMAIN E_calls' = PhoneReachCallers /\ \A d \in PhoneReachCallers : d # c => E_calls'[d] = E_calls[d]
        /\ E_calls'[c] \in ACall /\ E_calls'[c].step = "connects" /\ E_calls'[c].doubts = E_calls[c].doubts
        /\ E_calls'[c].program = E_calls[c].program /\ E_calls'[c].told = E_calls[c].told
    BY <1>1, <2>1, GoesIs
  <2>3. Found(c)'
    <3>1. Found(c)
      BY DEF EInv
    <3> QED
      BY <1>1, <2>2, <3>1 DEF Found, LoggingIn, SoOfIt
  <2>4. \A d \in PhoneReachCallers : Found(d)'
    BY <1>2, <2>2, <2>3, OthersFound
  <2> QED
    BY <1>2, <2>1, <2>2, <2>4 DEF EInv, LoggingIn
<1> QED
  BY <1>4, <1>5

\* A connection that comes up is nobody's yet, and the one that asked for it uses it.
LEMMA OpenedStep ==
    ASSUME E!PhoneReachAssumption, EInv, NEW c \in PhoneReachCallers, E_calls[c].step \in LoggingIn,
           E!Opened(c), UNCHANGED <<resumed, E!world>>
    PROVE  EInv'
<1>0. E_calls[c] # E!Idle
  BY NotIdle DEF LoggingIn
<1>1. PICK call \in ACall : call = E_calls[c]
  BY <1>0 DEF EInv, Found
<1>2. PICK new : new = [account |-> call.account, doubted |-> FALSE, failed |-> FALSE,
                        state |-> IF call.link = "up" THEN "open" ELSE "closed"]
  OBVIOUS
<1>3. new \in Conn /\ new.account = call.account /\ new.doubted = FALSE /\ new.failed = FALSE
  BY <1>1, <1>2 DEF Conn, ACall
<1>4. PICK n \in Nat : n = Len(conns) /\ DOMAIN conns = 1..n
  BY DEF EInv, HeldIsGood
<1>5. /\ conns' \in Seq(Conn) /\ Len(conns') = n + 1 /\ DOMAIN conns' = 1..n + 1
      /\ conns'[n + 1] = new /\ \A i \in 1..n : conns'[i] = conns[i]
  <2>1. conns' = Append(conns, new) /\ conns \in Seq(Conn)
    BY <1>1, <1>2 DEF E!Opened, EInv, HeldIsGood
  <2> QED
    BY <1>3, <1>4, <2>1
<1>6. held' = n + 1 /\ E_locked' = E!Nobody /\ UNCHANGED <<known, machine>>
  BY <1>5 DEF E!Opened, E!world
<1>7. HeldIsGood' /\ WorldIs'
  <2>1. held' \in 0..Len(conns') /\ ~conns'[held'].failed /\ ~conns'[held'].doubted
    BY <1>3, <1>4, <1>5, <1>6
  <2> QED
    BY <1>5, <1>6, <2>1 DEF EInv, HeldIsGood, WorldIs
<1>8. NothingIsUnsaid
  BY <1>4, <1>5, <1>6 DEF NothingIsUnsaid
<1>9. PICK one : one = [call EXCEPT !.step = "climbs"]
  BY Zenon
<1>10. /\ one \in ACall /\ one.step = "climbs" /\ one.account = call.account
       /\ one.program = call.program /\ one.told = call.told /\ one.doubts = call.doubts
  BY <1>1, <1>9 DEF ACall, StepsOf
<1>11. PICK both : both = [one EXCEPT !.conn = n + 1]
  OBVIOUS
<1>12. /\ both \in ACall /\ both.step = "climbs" /\ both.account = call.account
       /\ both.conn = n + 1 /\ both.program = call.program /\ both.told = call.told
       /\ both.doubts = call.doubts
  BY <1>4, <1>10, <1>11 DEF ACall
<1>13. /\ DOMAIN E_calls' = PhoneReachCallers /\ E_calls'[c] = both
       /\ \A d \in PhoneReachCallers : d # c => E_calls'[d] = E_calls[d]
  <2>1. E_calls' = [[E_calls EXCEPT ![c] = one] EXCEPT ![c] = both] /\ DOMAIN E_calls = PhoneReachCallers
    BY <1>1, <1>5, <1>9, <1>11 DEF E!Opened, EInv
  <2> QED
    BY <2>1
<1>14. Found(c)'
  <2>1. /\ call.program = 1 /\ call.told = "nothing"
        /\ call.doubts \subseteq {i \in DOMAIN conns : conns[i].doubted}
    BY <1>0, <1>1 DEF EInv, Found, LoggingIn
  <2>2. call.doubts \subseteq {i \in DOMAIN conns' : conns'[i].doubted} /\ n + 1 \notin call.doubts
    BY <1>4, <1>5, <2>1
  <2>3. SoOfIt(both.told)'
    BY <1>12, <2>1 DEF SoOfIt
  <2>4. /\ both.doubts \subseteq {i \in DOMAIN conns' : conns'[i].doubted}
        /\ both.conn \in DOMAIN conns' /\ both.conn \notin both.doubts
        /\ conns'[both.conn].account = both.account
    BY <1>3, <1>4, <1>5, <1>12, <2>2
  <2> QED
    BY <1>12, <1>13, <2>1, <2>3, <2>4 DEF Found, LoggingIn, SoOfIt
<1>15. \A d \in PhoneReachCallers : Found(d)'
  BY <1>8, <1>13, <1>14, OthersFound
<1> QED
  BY <1>6, <1>7, <1>13, <1>15 DEF EInv, E!PhoneReachAssumption

LEMMA FailsStep ==
    ASSUME E!PhoneReachAssumption, EInv, NEW c \in PhoneReachCallers, E_calls[c].step \in LoggingIn,
           NEW what \in Words, E!Fails(c, what), SoOfIt(what), UNCHANGED machine
    PROVE  EInv'
<1>1. E_calls[c] # E!Idle
  BY NotIdle DEF LoggingIn
<1>2. /\ E!Tells(c, what) /\ E_locked' = E!Nobody /\ UNCHANGED <<known, conns, held>>
  BY DEF E!Fails
<1>3. HeldIsGood' /\ WorldIs' /\ NothingIsUnsaid /\ SoOfIt(what)'
  BY <1>2, SameIsSaid DEF EInv, HeldIsGood, WorldIs, SoOfIt
<1> QED
  BY <1>1, <1>2, <1>3, TellsFound

LEMMA GoesOn ==
    ASSUME E!PhoneReachAssumption, EInv, NEW c \in PhoneReachCallers, E_calls[c].step \in LoggingIn,
           NEW step \in {"asking", "own key"}, E!Goes(c, step),
           UNCHANGED <<machine, conns, held, E_locked>>, known' \in {0, 1, machine.key},
           step = "own key" => machine.admits \notin {"anybody", "unasked"}
    PROVE  EInv'
<1>1. E_calls[c] # E!Idle /\ step \in StepsOf
  BY NotIdle DEF LoggingIn, StepsOf
<1>2. /\ DOMAIN E_calls' = PhoneReachCallers /\ \A d \in PhoneReachCallers : d # c => E_calls'[d] = E_calls[d]
      /\ E_calls'[c] \in ACall /\ E_calls'[c].step = step /\ E_calls'[c].doubts = E_calls[c].doubts
      /\ E_calls'[c].program = E_calls[c].program /\ E_calls'[c].told = E_calls[c].told
  BY <1>1, GoesIs
<1>3. HeldIsGood' /\ WorldIs' /\ NothingIsUnsaid
  BY SameIsSaid DEF EInv, HeldIsGood, WorldIs
<1>4. Found(c)'
  <2>1. /\ E_calls[c].program = 1 /\ E_calls[c].told = "nothing"
        /\ E_calls[c].doubts \subseteq {i \in DOMAIN conns' : conns'[i].doubted}
    BY <1>1 DEF EInv, Found, LoggingIn
  <2> QED
    BY <1>2, <2>1 DEF Found, LoggingIn, SoOfIt
<1>5. \A d \in PhoneReachCallers : Found(d)'
  BY <1>2, <1>3, <1>4, OthersFound
<1>6. \A d \in PhoneReachCallers : E_locked' = d => E_calls'[d].step \in LoggingIn
  BY <1>2 DEF EInv, LoggingIn
<1> QED
  BY <1>2, <1>3, <1>5, <1>6 DEF EInv

\* Two fields of a call change, and it goes on logging in.
LEMMA AgentGoesOn ==
    ASSUME E!PhoneReachAssumption, EInv, NEW c \in PhoneReachCallers, E_calls[c].step \in LoggingIn,
           UNCHANGED <<machine, known, conns, held, E_locked>>,
           machine.admits \notin {"anybody", "unasked"},
           NEW next \in ACall, DOMAIN E_calls' = PhoneReachCallers, E_calls'[c] = next,
           \A d \in PhoneReachCallers : d # c => E_calls'[d] = E_calls[d],
           next.step = "agent", next.tries \in 1..E!FromTheAgent + 1,
           next.program = E_calls[c].program, next.told = E_calls[c].told,
           next.doubts = E_calls[c].doubts
    PROVE  EInv'
<1>1. E_calls[c] # E!Idle
  BY NotIdle DEF LoggingIn
<1>2. HeldIsGood' /\ WorldIs' /\ NothingIsUnsaid
  BY SameIsSaid DEF EInv, HeldIsGood, WorldIs
<1>3. Found(c)'
  <2>1. /\ E_calls[c].program = 1 /\ E_calls[c].told = "nothing"
        /\ E_calls[c].doubts \subseteq {i \in DOMAIN conns' : conns'[i].doubted}
    BY <1>1 DEF EInv, Found, LoggingIn
  <2>2. E!FromTheAgent' = E!FromTheAgent
    BY DEF E!FromTheAgent
  <2> QED
    BY <2>1, <2>2 DEF Found, LoggingIn, SoOfIt
<1>4. \A d \in PhoneReachCallers : Found(d)'
  BY <1>2, <1>3, OthersFound
<1>5. \A d \in PhoneReachCallers : E_locked' = d => E_calls'[d].step \in LoggingIn
  BY DEF EInv, LoggingIn
<1> QED
  BY <1>2, <1>4, <1>5 DEF EInv

LEMMA KeyStep ==
    ASSUME E!PhoneReachAssumption, EInv, NEW c \in PhoneReachCallers, E!check_server_key(c)
    PROVE  EInv'
<1>1. /\ E_calls[c].step \in LoggingIn /\ UNCHANGED machine
  BY DEF E!check_server_key, LoggingIn, E!world
<1>2. CASE E_calls[c].link # "up"
  BY <1>1, <1>2, FailsStep DEF E!check_server_key, Words, SoOfIt
<1>3. CASE E_calls[c].link = "up" /\ known \notin {0, machine.key}
  <2>1. machine.key = 2
    BY <1>3 DEF EInv, WorldIs
  <2>2. E!Fails(c, "host key") /\ "host key" \in Words /\ SoOfIt("host key")
    BY <1>3, <2>1 DEF E!check_server_key, Words, SoOfIt
  <2> QED
    BY <1>1, <2>2, FailsStep
<1>4. CASE E_calls[c].link = "up" /\ known \in {0, machine.key}
  BY <1>1, <1>4, GoesOn DEF E!check_server_key
<1> QED
  BY <1>2, <1>3, <1>4

LEMMA NoneStep ==
    ASSUME E!PhoneReachAssumption, EInv, NEW c \in PhoneReachCallers, E!authenticate_none(c)
    PROVE  EInv'
<1>1. /\ E_calls[c].step = "asking" /\ E_calls[c].step \in LoggingIn /\ UNCHANGED <<machine, resumed, E!world>>
  BY DEF E!authenticate_none, LoggingIn, E!world
<1>2. CASE E_calls[c].link = "up" /\ E!Who(c) = "anybody"
  BY <1>1, <1>2, OpenedStep DEF E!authenticate_none
<1>3. CASE E_calls[c].link = "up" /\ E!Who(c) \notin {"anybody", "unasked"}
  <2>1. PICK call \in ACall : call = E_calls[c]
    BY <1>1, NotIdle DEF EInv, Found
  <2>2. PICK one : one = [call EXCEPT !.step = "agent"]
    BY Zenon
  <2>3. /\ one \in ACall /\ one.step = "agent" /\ one.program = call.program
        /\ one.told = call.told /\ one.doubts = call.doubts
    BY <2>1, <2>2 DEF ACall, StepsOf, LoggingIn
  <2>4. PICK both : both = [one EXCEPT !.tries = 1]
    OBVIOUS
  <2>5. /\ both \in ACall /\ both.step = "agent" /\ both.program = call.program
        /\ both.told = call.told /\ both.doubts = call.doubts /\ both.tries = 1
    BY <2>3, <2>4 DEF ACall
  <2>6. /\ E_calls' = [[E_calls EXCEPT ![c] = one] EXCEPT ![c] = both] /\ DOMAIN E_calls = PhoneReachCallers
        /\ UNCHANGED <<known, conns, held, E_locked>>
    BY <1>3, <2>1, <2>2, <2>4 DEF E!authenticate_none, EInv
  <2>7. /\ DOMAIN E_calls' = PhoneReachCallers /\ E_calls'[c] = both
        /\ \A d \in PhoneReachCallers : d # c => E_calls'[d] = E_calls[d]
    BY <2>6
  <2>8. 1 \in 1..E!FromTheAgent + 1
    BY DEF E!FromTheAgent, E!PhoneReachAssumption
  <2>9. machine.admits \notin {"anybody", "unasked"}
    BY <1>3 DEF E!Who
  <2> QED
    BY <1>1, <2>1, <2>5, <2>6, <2>7, <2>8, <2>9, AgentGoesOn
<1>4. CASE E_calls[c].link # "up" \/ E!Who(c) = "unasked"
  <2>1. E_calls[c].link \in {"up", "broke"}
    BY <1>1, NotIdle DEF EInv, Found, ACall
  <2>2. PICK what : what = E!answer(c, "turned away")
    OBVIOUS
  <2>3. E!Fails(c, what)
    BY <1>4, <2>2 DEF E!authenticate_none
  <2>4. what \in Words /\ SoOfIt(what)
    BY <1>4, <2>1, <2>2 DEF E!answer, Words, SoOfIt, E!Who
  <2> QED
    BY <1>1, <2>3, <2>4, FailsStep
<1> QED
  BY <1>2, <1>3, <1>4

\* An agent is let offer fewer keys than the machine allows tries.
LEMMA AgentStep ==
    ASSUME E!PhoneReachAssumption, EInv, NEW c \in PhoneReachCallers, E!from_the_agent(c)
    PROVE  EInv'
<1>1. /\ E_calls[c].step = "agent" /\ E_calls[c].step \in LoggingIn /\ UNCHANGED <<machine, resumed, E!world>>
  BY DEF E!from_the_agent, LoggingIn, E!world
<1>2. PICK call \in ACall : call = E_calls[c]
  BY <1>1, NotIdle DEF EInv, Found
<1>3. /\ machine.admits \notin {"anybody", "unasked"} /\ call.tries \in 1..E!FromTheAgent + 1
      /\ call.step = "agent"
  BY <1>1, <1>2, NotIdle DEF EInv, Found
<1>4. E!FromTheAgent \in Nat /\ E!FromTheAgent <= FROM_AN_AGENT /\ MAX_AUTH_TRIES = FROM_AN_AGENT + 2
      /\ FROM_AN_AGENT \in Nat
  BY DEF E!FromTheAgent, E!PhoneReachAssumption
<1>5. CASE call.tries <= E!FromTheAgent
  <2>1. CASE E_calls[c].link = "up" /\ E!Who(c) = "agent" /\ E!Opened(c)
    BY <1>1, <2>1, OpenedStep
  <2>2. CASE E!Tried(c) /\ UNCHANGED <<known, conns, held, E_locked>>
    <3>1. PICK n \in 1..E!FromTheAgent + 1 : n = call.tries + 1
      BY <1>3, <1>4, <1>5
    <3>2. PICK one : one = [call EXCEPT !.tries = n]
      BY Zenon
    <3>3. /\ one \in ACall /\ one.step = "agent" /\ one.program = call.program
          /\ one.told = call.told /\ one.doubts = call.doubts /\ one.tries = n /\ one.link = call.link
      BY <1>2, <1>3, <1>4, <3>1, <3>2 DEF ACall
    <3>4. ~(n >= MAX_AUTH_TRIES)
      BY <1>4, <3>1
    <3>5. PICK both : both = [one EXCEPT !.link = call.link]
      OBVIOUS
    <3>6. /\ both \in ACall /\ both.step = "agent" /\ both.program = call.program
          /\ both.told = call.told /\ both.doubts = call.doubts /\ both.tries = n
      BY <1>2, <3>3, <3>5 DEF ACall
    <3>7. /\ E_calls' = [[E_calls EXCEPT ![c] = one] EXCEPT ![c] = both] /\ DOMAIN E_calls = PhoneReachCallers
      BY <1>2, <2>2, <3>1, <3>2, <3>3, <3>4, <3>5 DEF E!Tried, EInv
    <3>8. /\ DOMAIN E_calls' = PhoneReachCallers /\ E_calls'[c] = both
          /\ \A d \in PhoneReachCallers : d # c => E_calls'[d] = E_calls[d]
      BY <3>7
    <3> QED
      BY <1>1, <1>2, <1>3, <2>2, <3>1, <3>6, <3>8, AgentGoesOn
  <2> QED
    BY <1>2, <1>5, <2>1, <2>2 DEF E!from_the_agent
<1>6. CASE ~(call.tries <= E!FromTheAgent)
  <2>1. E!Goes(c, "own key") /\ UNCHANGED <<known, conns, held, E_locked>>
    BY <1>2, <1>6 DEF E!from_the_agent
  <2>2. known' \in {0, 1, machine.key}
    BY <2>1 DEF EInv, WorldIs
  <2> QED
    BY <1>1, <1>3, <2>1, <2>2, GoesOn
<1> QED
  BY <1>5, <1>6

\* It is said to be refused where it was the machine that said so.
LEMMA OwnKeyStep ==
    ASSUME E!PhoneReachAssumption, EInv, NEW c \in PhoneReachCallers, E!authenticate_publickey(c)
    PROVE  EInv'
<1>1. /\ E_calls[c].step = "own key" /\ E_calls[c].step \in LoggingIn /\ UNCHANGED <<machine, resumed, E!world>>
  BY DEF E!authenticate_publickey, LoggingIn, E!world
<1>2. CASE E_calls[c].link = "up" /\ E!Who(c) = "device"
  BY <1>1, <1>2, OpenedStep DEF E!authenticate_publickey
<1>3. CASE ~(E_calls[c].link = "up" /\ E!Who(c) = "device")
  <2>1. E_calls[c].link \in {"up", "broke"} /\ machine.admits \notin {"anybody", "unasked"}
    BY <1>1, NotIdle DEF EInv, Found, ACall
  <2>2. PICK what : what = E!answer(c, "refused")
    OBVIOUS
  <2>3. E!Fails(c, what)
    BY <1>3, <2>2 DEF E!authenticate_publickey
  <2>4. machine.admits \in {"device", "agent", "nobody"}
    BY <2>1 DEF EInv, WorldIs, E!Admits
  <2>5. what \in Words /\ SoOfIt(what)
    BY <1>3, <2>1, <2>2, <2>4 DEF E!answer, Words, SoOfIt, E!Who
  <2> QED
    BY <1>1, <2>3, <2>5, FailsStep
<1> QED
  BY <1>2, <1>3

LEMMA TimeOutStep ==
    ASSUME E!PhoneReachAssumption, EInv, NEW c \in PhoneReachCallers, E!TimesOut(c)
    PROVE  EInv'
BY FailsStep DEF E!TimesOut, LoggingIn, Words, SoOfIt

\* It is the last spelling that is missing, and then the first was.
LEMMA ReachStep ==
    ASSUME E!PhoneReachAssumption, EInv, NEW c \in PhoneReachCallers, E!reach(c)
    PROVE  EInv'
<1>1. /\ E_calls[c].step = "climbs" /\ E_calls[c] # E!Idle
      /\ UNCHANGED <<machine, known, conns, held, E_locked>>
  BY NotIdle DEF E!reach
<1>2. PICK call \in ACall : call = E_calls[c]
  BY <1>1 DEF EInv, Found
<1>3. /\ call.told = "nothing" /\ call.doubts \subseteq {i \in DOMAIN conns : conns[i].doubted}
      /\ call.conn \in DOMAIN conns /\ conns[call.conn].account = call.account
      /\ call.conn \notin call.doubts
      /\ call.program # 1 => machine.mm # "path"
  BY <1>1, <1>2 DEF EInv, Found
<1>4. HeldIsGood' /\ WorldIs' /\ NothingIsUnsaid
  BY <1>1, SameIsSaid DEF EInv, HeldIsGood, WorldIs
<1>5. E_locked # c
  BY <1>1 DEF EInv, LoggingIn
<1>6. CASE E!Tells(c, "listing")
  <2>1. SoOfIt("listing")' /\ "listing" \in Words
    BY DEF SoOfIt, Words
  <2> QED
    BY <1>1, <1>4, <1>5, <1>6, <2>1, TellsFound
<1>7. CASE E!Goes(c, "forgets")
  <2>1. "forgets" \in StepsOf
    BY DEF StepsOf
  <2>2. /\ DOMAIN E_calls' = PhoneReachCallers /\ \A d \in PhoneReachCallers : d # c => E_calls'[d] = E_calls[d]
        /\ E_calls'[c] \in ACall /\ E_calls'[c].step = "forgets" /\ E_calls'[c].conn = call.conn
        /\ E_calls'[c].told = call.told /\ E_calls'[c].doubts = call.doubts
    BY <1>1, <1>2, <1>7, <2>1, GoesIs
  <2>3. Found(c)'
    BY <1>1, <1>3, <2>2 DEF Found, LoggingIn, SoOfIt
  <2>4. \A d \in PhoneReachCallers : Found(d)'
    BY <1>4, <2>2, <2>3, OthersFound
  <2> QED
    BY <1>1, <1>4, <1>5, <2>2, <2>4 DEF EInv
<1>8. CASE E!Ladder(c, "127") /\ E!PROGRAMS[E_calls[c].program] # machine.mm
  <2>1. CASE E_calls[c].program < Len(E!PROGRAMS)
    <3>1. call.program = 1 /\ machine.mm # "path"
      BY <1>2, <1>8, <2>1 DEF E!PROGRAMS, ACall
    <3>2. PICK next : next = [call EXCEPT !.program = 2]
      OBVIOUS
    <3>3. /\ next \in ACall /\ next.step = "climbs" /\ next.account = call.account
          /\ next.conn = call.conn /\ next.told = call.told /\ next.doubts = call.doubts
      BY <1>1, <1>2, <3>2 DEF ACall
    <3>4. E_calls' = [E_calls EXCEPT ![c] = next] /\ DOMAIN E_calls = PhoneReachCallers
      BY <1>2, <1>8, <2>1, <3>1, <3>2 DEF E!Ladder, E!Missing, EInv
    <3>5. /\ DOMAIN E_calls' = PhoneReachCallers /\ E_calls'[c] = next
          /\ \A d \in PhoneReachCallers : d # c => E_calls'[d] = E_calls[d]
      BY <3>4
    <3>6. Found(c)'
      BY <1>1, <1>3, <3>1, <3>3, <3>5 DEF Found, LoggingIn, SoOfIt
    <3>7. \A d \in PhoneReachCallers : Found(d)'
      BY <1>4, <3>5, <3>6, OthersFound
    <3> QED
      BY <1>1, <1>4, <1>5, <3>5, <3>7 DEF EInv
  <2>2. CASE ~(E_calls[c].program < Len(E!PROGRAMS))
    <3>1. call.program = 2
      BY <1>2, <2>2 DEF E!PROGRAMS, ACall
    <3>2. machine.mm = "nowhere"
      <4>1. machine.mm # "path" /\ machine.mm # "home"
        BY <1>2, <1>3, <1>8, <3>1 DEF E!PROGRAMS
      <4> QED
        BY <4>1 DEF EInv, WorldIs
    <3>3. PICK one : one = [call EXCEPT !.step = "forgets"]
      BY Zenon
    <3>4. /\ one \in ACall /\ one.step = "forgets" /\ one.conn = call.conn
          /\ one.doubts = call.doubts
      BY <1>2, <3>3 DEF ACall, StepsOf
    <3>5. PICK both : both = [one EXCEPT !.told = "no mm"]
      OBVIOUS
    <3>6. /\ both \in ACall /\ both.step = "forgets" /\ both.conn = call.conn
          /\ both.doubts = call.doubts /\ both.told = "no mm"
      BY <3>4, <3>5 DEF ACall, Words
    <3>7. /\ E_calls' = [[E_calls EXCEPT ![c] = one] EXCEPT ![c] = both] /\ DOMAIN E_calls = PhoneReachCallers
      BY <1>2, <1>8, <2>2, <3>3, <3>5 DEF E!Ladder, E!Missing, EInv
    <3>8. /\ DOMAIN E_calls' = PhoneReachCallers /\ E_calls'[c] = both
          /\ \A d \in PhoneReachCallers : d # c => E_calls'[d] = E_calls[d]
      BY <3>7
    <3>9. Found(c)'
      BY <1>1, <1>3, <3>2, <3>6, <3>8 DEF Found, LoggingIn, SoOfIt
    <3>10. \A d \in PhoneReachCallers : Found(d)'
      BY <1>4, <3>8, <3>9, OthersFound
    <3> QED
      BY <1>1, <1>4, <1>5, <3>8, <3>10 DEF EInv
  <2> QED
    BY <2>1, <2>2
<1>9. E!Ladder(c, "unknown") => E!Goes(c, "forgets")
  BY DEF E!Ladder, E!Missing
<1> QED
  BY <1>6, <1>7, <1>8, <1>9 DEF E!reach

\* What becomes of connections leaves as many, each of its account.
LEMMA ConnsStay ==
    ASSUME conns \in Seq(Conn), NEW new, new \in [DOMAIN conns -> Conn]
    PROVE  new \in Seq(Conn) /\ Len(new) = Len(conns) /\ DOMAIN new = DOMAIN conns
<1>1. PICK n \in Nat : n = Len(conns) /\ DOMAIN conns = 1..n
  OBVIOUS
<1>2. new \in [1..n -> Conn]
  BY <1>1
<1>3. new \in Seq(Conn)
  BY <1>1, <1>2
<1>4. DOMAIN new = 1..n
  BY <1>2
<1>5. Len(new) \in Nat /\ DOMAIN new = 1..Len(new)
  BY <1>3
<1> QED
  BY <1>1, <1>3, <1>4, <1>5

LEMMA ForgetsStep ==
    ASSUME E!PhoneReachAssumption, EInv, NEW c \in PhoneReachCallers, E!Forgets(c)
    PROVE  EInv'
<1>1. /\ E_calls[c].step = "forgets" /\ E_calls[c] # E!Idle /\ E_locked = E!Nobody /\ held' = 0
      /\ UNCHANGED <<machine, known, E_locked>>
  BY NotIdle DEF E!Forgets, E!LetGo, E!world
<1>2. PICK i \in DOMAIN conns : i = E_calls[c].conn
  BY <1>1 DEF EInv, Found
<1>3. PICK conn \in Conn : conn = conns[i]
  BY DEF EInv, HeldIsGood
<1>4. PICK lost : lost = [conn EXCEPT !.failed = TRUE]
  BY Zenon
<1>5. lost \in Conn /\ lost.account = conn.account /\ lost.doubted = conn.doubted
  BY <1>3, <1>4 DEF Conn
<1>6. conns' = [conns EXCEPT ![i] = lost]
  BY <1>2, <1>3, <1>4 DEF E!Forgets
<1>7. /\ conns' \in [DOMAIN conns -> Conn]
      /\ \A j \in DOMAIN conns : conns'[j].account = conns[j].account
                                 /\ conns'[j].doubted = conns[j].doubted
  <2>1. conns \in [DOMAIN conns -> Conn]
    BY DEF EInv, HeldIsGood
  <2> QED
    BY <1>3, <1>5, <1>6, <2>1
<1>8. conns' \in Seq(Conn) /\ Len(conns') = Len(conns) /\ DOMAIN conns' = DOMAIN conns
  BY <1>7, ConnsStay DEF EInv, HeldIsGood
<1>9. HeldIsGood' /\ WorldIs' /\ NothingIsUnsaid
  BY <1>1, <1>7, <1>8 DEF EInv, HeldIsGood, WorldIs, NothingIsUnsaid
<1>10. PICK what : what = IF E_calls[c].told = "no mm" THEN "no mm" ELSE "reaching"
  OBVIOUS
<1>11. what \in Words /\ SoOfIt(what)'
  <2>1. E_calls[c].told = "no mm" => machine.mm = "nowhere"
    BY <1>1 DEF EInv, Found, SoOfIt
  <2> QED
    BY <1>1, <1>10, <2>1 DEF Words, SoOfIt
<1>12. E!Tells(c, what)
  BY <1>10 DEF E!Forgets
<1> QED
  BY <1>1, <1>9, <1>11, <1>12, TellsFound

\* By the time the machine is said to be forgotten nothing is held, and whatever
\* was is doubted.
LEMMA ForgetStep ==
    ASSUME E!PhoneReachAssumption, EInv, NEW c \in PhoneReachCallers, E!ForgetMachine(c)
    PROVE  EInv'
<1>1. UNCHANGED <<machine, E_locked>>
  BY DEF E!ForgetMachine, E!world
<1>2. CASE /\ E_calls[c].step = "forget" /\ known' = 0 /\ UNCHANGED <<held, conns>>
           /\ E!Goes(c, "forget more")
  <2>1. E_calls[c] # E!Idle /\ "forget more" \in StepsOf
    BY <1>2, NotIdle DEF StepsOf
  <2>2. /\ DOMAIN E_calls' = PhoneReachCallers /\ \A d \in PhoneReachCallers : d # c => E_calls'[d] = E_calls[d]
        /\ E_calls'[c] \in ACall /\ E_calls'[c].step = "forget more"
        /\ E_calls'[c].told = E_calls[c].told /\ E_calls'[c].doubts = E_calls[c].doubts
    BY <1>2, <2>1, GoesIs
  <2>3. HeldIsGood' /\ WorldIs' /\ NothingIsUnsaid
    BY <1>1, <1>2, SameIsSaid DEF EInv, HeldIsGood, WorldIs
  <2>4. Found(c)'
    <3>1. /\ E_calls[c].told = "nothing"
          /\ E_calls[c].doubts \subseteq {i \in DOMAIN conns' : conns'[i].doubted}
      BY <1>2, <2>1 DEF EInv, Found
    <3> QED
      BY <2>2, <3>1 DEF Found, LoggingIn, SoOfIt
  <2>5. \A d \in PhoneReachCallers : Found(d)'
    BY <2>2, <2>3, <2>4, OthersFound
  <2>6. E_locked # c
    BY <1>2 DEF EInv, LoggingIn
  <2> QED
    BY <1>1, <2>2, <2>3, <2>5, <2>6 DEF EInv
<1>3. CASE /\ E_calls[c].step = "forget more" /\ E_locked = E!Nobody /\ held' = 0 /\ UNCHANGED known
           /\ E!Tells(c, "forgotten")
           /\ conns' = [j \in DOMAIN conns |-> [conns[j] EXCEPT !.doubted = TRUE]]
  <2>1. /\ conns' \in [DOMAIN conns -> Conn]
        /\ \A j \in DOMAIN conns : conns'[j].account = conns[j].account /\ conns'[j].doubted
    <3>1. ASSUME NEW j \in DOMAIN conns
          PROVE  conns'[j] \in Conn /\ conns'[j].account = conns[j].account /\ conns'[j].doubted
      <4>1. PICK conn \in Conn : conn = conns[j]
        BY DEF EInv, HeldIsGood
      <4>2. PICK doubted : doubted = [conn EXCEPT !.doubted = TRUE]
        OBVIOUS
      <4>3. doubted \in Conn /\ doubted.account = conn.account /\ doubted.doubted
        BY <4>1, <4>2 DEF Conn
      <4>4. conns'[j] = doubted
        BY <1>3, <4>1, <4>2
      <4> QED
        BY <4>1, <4>3, <4>4
    <3>2. PICK new : new = conns'
      OBVIOUS
    <3>3. new = [j \in DOMAIN conns |-> new[j]]
      BY <1>3, <3>2
    <3> QED
      BY <3>1, <3>2, <3>3
  <2>2. conns' \in Seq(Conn) /\ Len(conns') = Len(conns) /\ DOMAIN conns' = DOMAIN conns
    BY <2>1, ConnsStay DEF EInv, HeldIsGood
  <2>3. HeldIsGood' /\ WorldIs' /\ NothingIsUnsaid
    <3>1. NothingIsUnsaid
      BY <1>1, <2>1, <2>2 DEF NothingIsUnsaid
    <3>2. 0 \in 0..Len(conns')
      BY <2>2
    <3> QED
      BY <1>1, <1>3, <2>2, <3>1, <3>2 DEF EInv, HeldIsGood, WorldIs
  <2>4. "forgotten" \in Words /\ SoOfIt("forgotten")' /\ E_calls[c] # E!Idle
    BY <1>3, NotIdle DEF Words, SoOfIt
  <2> QED
    BY <1>1, <1>3, <2>3, <2>4, TellsFound
<1>4. E!Order[1] = "key" /\ E!Order[2] = "pool" /\ "key" # "pool"
  BY DEF E!Order
<1>5. PICK i \in 1..2 :
        /\ E_calls[c].step = (IF i = 1 THEN "forget" ELSE "forget more")
        /\ IF E!Order[i] = "key" THEN known' = 0 /\ UNCHANGED held
           ELSE E_locked = E!Nobody /\ held' = 0 /\ UNCHANGED known
        /\ IF i = 1 THEN E!Goes(c, "forget more") /\ UNCHANGED conns
           ELSE /\ E!Tells(c, "forgotten")
                /\ conns' = [j \in DOMAIN conns |-> [conns[j] EXCEPT !.doubted = TRUE]]
  BY DEF E!ForgetMachine
<1>6. CASE i = 1
  BY <1>2, <1>4, <1>5, <1>6
<1>7. CASE i = 2
  BY <1>3, <1>4, <1>5, <1>7
<1> QED
  BY <1>6, <1>7

LEMMA ResumeStep == ASSUME E!PhoneReachAssumption, EInv, E!resume \/ E!Resumed PROVE EInv'
<1>1. /\ UNCHANGED <<machine, known, conns, E_locked, E_calls>> /\ held' \in {held, 0}
  BY DEF E!resume, E!Resumed, E!world
<1>2. HeldIsGood' /\ WorldIs' /\ NothingIsUnsaid
  BY <1>1, SameIsSaid DEF EInv, HeldIsGood, WorldIs
<1>3. \A c \in PhoneReachCallers : Found(c)'
  BY <1>1, <1>2, StillFound DEF EInv
<1> QED
  BY <1>1, <1>2, <1>3 DEF EInv

LEMMA BreaksStep == ASSUME E!PhoneReachAssumption, EInv, NEW c \in PhoneReachCallers, E!Breaks(c) PROVE EInv'
<1>1. /\ UNCHANGED <<machine, known, conns, held, E_locked>> /\ E_locked = c
      /\ E_calls[c].step \in LoggingIn /\ E_calls[c] # E!Idle
  BY NotIdle DEF E!Breaks, EInv, LoggingIn
<1>2. PICK call \in ACall : call = E_calls[c]
  BY <1>1 DEF EInv, Found
<1>3. PICK next : next = [call EXCEPT !.link = "broke"]
  OBVIOUS
<1>4. /\ next \in ACall /\ next.step = call.step /\ next.account = call.account
      /\ next.conn = call.conn /\ next.tries = call.tries /\ next.program = call.program
      /\ next.told = call.told /\ next.doubts = call.doubts
  BY <1>2, <1>3 DEF ACall
<1>5. E_calls' = [E_calls EXCEPT ![c] = next] /\ DOMAIN E_calls = PhoneReachCallers
  BY <1>2, <1>3 DEF E!Breaks, EInv
<1>6. /\ DOMAIN E_calls' = PhoneReachCallers /\ E_calls'[c] = next
      /\ \A d \in PhoneReachCallers : d # c => E_calls'[d] = E_calls[d]
  BY <1>5
<1>7. HeldIsGood' /\ WorldIs' /\ NothingIsUnsaid
  BY <1>1, SameIsSaid DEF EInv, HeldIsGood, WorldIs
<1>8. Found(c)'
  <2>1. /\ call.doubts \subseteq {i \in DOMAIN conns' : conns'[i].doubted}
        /\ call.told = "nothing" /\ call.program = 1
        /\ call.step \in {"agent", "own key"} => machine.admits \notin {"anybody", "unasked"}
        /\ call.step = "agent" => call.tries \in 1..E!FromTheAgent + 1
    BY <1>1, <1>2 DEF EInv, Found, LoggingIn
  <2>2. E!FromTheAgent' = E!FromTheAgent
    BY DEF E!FromTheAgent
  <2> QED
    BY <1>1, <1>2, <1>4, <1>6, <2>1, <2>2 DEF Found, LoggingIn, SoOfIt
<1>9. \A d \in PhoneReachCallers : Found(d)'
  BY <1>6, <1>7, <1>8, OthersFound
<1> QED
  BY <1>1, <1>2, <1>4, <1>6, <1>7, <1>9 DEF EInv

LEMMA SleepsStep ==
    ASSUME E!PhoneReachAssumption, EInv, NEW i \in DOMAIN conns, NEW state \in {"stale", "closed"},
           E!Sleeps(i, state)
    PROVE  EInv'
<1>1. PICK conn \in Conn : conn = conns[i]
  BY DEF EInv, HeldIsGood
<1>2. PICK asleep : asleep = [conn EXCEPT !.state = state]
  OBVIOUS
<1>3. /\ asleep \in Conn /\ asleep.account = conn.account /\ asleep.doubted = conn.doubted
      /\ asleep.failed = conn.failed
  BY <1>1, <1>2 DEF Conn
<1>4. /\ conns' = [conns EXCEPT ![i] = asleep] /\ UNCHANGED <<machine, known, held, E_locked, E_calls>>
  BY <1>1, <1>2 DEF E!Sleeps
<1>5. /\ conns' \in [DOMAIN conns -> Conn]
      /\ \A j \in DOMAIN conns :
           /\ conns'[j].account = conns[j].account /\ conns'[j].doubted = conns[j].doubted
           /\ conns'[j].failed = conns[j].failed
  <2>1. conns \in [DOMAIN conns -> Conn]
    BY DEF EInv, HeldIsGood
  <2> QED
    BY <1>1, <1>3, <1>4, <2>1
<1>6. conns' \in Seq(Conn) /\ Len(conns') = Len(conns) /\ DOMAIN conns' = DOMAIN conns
  BY <1>5, ConnsStay DEF EInv, HeldIsGood
<1>7. held # 0 => held \in DOMAIN conns
  BY DEF EInv, HeldIsGood
<1>8. HeldIsGood' /\ WorldIs' /\ NothingIsUnsaid
  BY <1>4, <1>5, <1>6, <1>7 DEF EInv, HeldIsGood, WorldIs, NothingIsUnsaid
<1>9. \A c \in PhoneReachCallers : Found(c)'
  BY <1>4, <1>8, StillFound DEF EInv
<1> QED
  BY <1>4, <1>8, <1>9 DEF EInv

LEMMA InstalledStep == ASSUME E!PhoneReachAssumption, EInv, E!Reinstalled PROVE EInv'
<1>1. PICK was \in [key: {1, 2}, admits: E!Admits, mm: {"path", "home", "nowhere"}] : was = machine
  BY DEF EInv, WorldIs
<1>2. PICK now : now = [was EXCEPT !.key = 2]
  OBVIOUS
<1>3. /\ now \in [key: {1, 2}, admits: E!Admits, mm: {"path", "home", "nowhere"}]
      /\ now.key = 2 /\ now.admits = was.admits /\ now.mm = was.mm
  BY <1>1, <1>2
<1>4. /\ machine' = now /\ machine.key = 1 /\ UNCHANGED <<known, conns, held, E_locked, E_calls>>
  BY <1>1, <1>2 DEF E!Reinstalled
<1>5. HeldIsGood' /\ WorldIs' /\ NothingIsUnsaid
  BY <1>1, <1>3, <1>4 DEF EInv, HeldIsGood, WorldIs, NothingIsUnsaid
<1>6. \A c \in PhoneReachCallers : Found(c)'
  BY <1>4, <1>5, StillFound DEF EInv
<1> QED
  BY <1>4, <1>5, <1>6 DEF EInv

LEMMA EPreserved == ASSUME E!PhoneReachAssumption, EInv, [E!Next]_(E!vars) PROVE EInv'
<1>1. CASE UNCHANGED E!vars
  <2>1. NothingIsUnsaid /\ UNCHANGED <<machine, known, conns, held, E_locked, E_calls>>
    BY <1>1, SameIsSaid DEF E!vars
  <2>2. \A c \in PhoneReachCallers : Found(c)'
    BY <2>1, StillFound DEF EInv
  <2> QED
    BY <2>1, <2>2 DEF EInv, HeldIsGood, WorldIs
<1> QED
  BY <1>1, BeginsStep, ToStep, KeyStep, NoneStep, AgentStep, OwnKeyStep, TimeOutStep, ReachStep,
     ForgetsStep, ForgetStep, BreaksStep, SleepsStep, ResumeStep, InstalledStep DEF E!Next

LEMMA EHolds == ASSUME EInv PROVE E!TroubleIsTrue /\ E!HeldIsRight
<1>1. E!TroubleIsTrue
  <2> SUFFICES ASSUME NEW c \in PhoneReachCallers, E_calls[c].step = "told"
               PROVE  CASE E_calls[c].told = "refused" -> E!Who(c) \in {"agent", "nobody"}
                        [] E_calls[c].told = "turned away" -> E!Who(c) = "unasked"
                        [] E_calls[c].told = "host key" -> machine.key = 2
                        [] E_calls[c].told = "no mm" -> machine.mm = "nowhere"
                        [] OTHER -> TRUE
    BY DEF E!TroubleIsTrue
  <2>1. SoOfIt(E_calls[c].told)
    BY NotIdle DEF EInv, Found
  <2> QED
    BY <2>1 DEF SoOfIt, E!Who
<1>2. E!HeldIsRight
  BY NotIdle DEF EInv, Found, HeldIsGood, E!HeldIsRight
<1> QED
  BY <1>1, <1>2

\* Whatever it does, a behaviour that is of the reach keeps it.
EPart == part = "reach" => EInv

LEMMA EPartInitially == Init => EPart
<1> SUFFICES ASSUME Init, part = "reach" PROVE EInv
  BY DEF EPart
<1>1. E!Init
  BY DEF Init
<1> QED
  BY <1>1, PhoneReachAssumed, EInitially

LEMMA EPartStep ==
    ASSUME [Next]_vars, part' = "reach"
    PROVE  part = "reach" /\ [E!Next]_(E!vars)
<1>1. CASE UNCHANGED vars
  BY <1>1 DEF vars, Beyond19, Beyond17, Beyond13, Beyond12, Beyond10,
     Beyond9, Beyond8, Beyond7, Beyond4,
     E!vars
<1>2. CASE Next
  BY <1>2 DEF Next
<1> QED
  BY <1>1, <1>2

LEMMA EPartPreserved == EPart /\ [Next]_vars => EPart'
<1> SUFFICES ASSUME EPart, [Next]_vars, part' = "reach" PROVE EInv'
  BY DEF EPart
<1> QED
  BY EPartStep, EPreserved, PhoneReachAssumed DEF EPart

HIDE DEF machine, known, conns, held, E_locked, E_calls, resumed

(***************************************************************************)
(* The theorems.                                                           *)
(***************************************************************************)
\* A command that says it stopped the node has seen the end of the very node
\* it told to stop, beside any other commands, service managers, crashes and
\* sockets left behind, as long as nodes come up one at a time.
THEOREM StoppedNodesAreGone == Spec => []StoppedMeansGone
<1>1. Init => SPart
  BY SPartInitially
<1>2. SPart /\ [Next]_vars => (SPart)'
  BY SPartPreserved
<1>3. SPart => StoppedMeansGone
  BY SHolds DEF StoppedMeansGone, SPart
<1> QED
  BY <1>1, <1>2, <1>3, PTL DEF Spec

\* A phone that has heard everything shows the session at its size, for any
\* sizes, chunks and turns; its key and the machines it knows are whole files
\* across crashes, for any number of callers; and what it says of a machine it
\* cannot reach is so, for any number of machines' accounts and calls.
THEOREM PhoneIsToldTheTruth == Spec => []PhoneIsTold
<1>1. Init => YPart /\ IPart /\ EPart
  BY YPartInitially, IPartInitially, EPartInitially
<1>2. YPart /\ IPart /\ EPart /\ [Next]_vars => (YPart /\ IPart /\ EPart)'
  BY YPartPreserved, IPartPreserved, EPartPreserved
<1>3. YPart /\ IPart /\ EPart => PhoneIsTold
  BY YHolds, IHolds, EHolds DEF PhoneIsTold, YPart, IPart, EPart
<1> QED
  BY <1>1, <1>2, <1>3, PTL DEF Spec


\* A running session changes its group by a hand on it and by nothing else, for
\* any number of clients that change the file, list, die with the lock, or land a
\* listing as late as they like.  No command undoes another's change to the host
\* list or the settings, and a machine that could be told apart is not listed
\* twice, for any commands, names and machines.
THEOREM ChangedByHandAlone == Spec => OnlyAHandMovesIt
<1> DEFINE Both == GPart /\ WPart
           Moves == /\ part = "groups" => G!MovedByHand
                    /\ part = "watching" => W!ListedOnce
<1>1. Init => Both
  BY GPartInitially, WPartInitially
<1>2. Both /\ [Next]_vars => Both'
  BY GPartPreserved, WPartPreserved
<1>3. Both => (part = "watching" => W!NothingIsLost)
  BY WHolds DEF WPart
<1>4. Both /\ [Next]_vars => [Moves]_vars
  BY GPartMoves, WPartMoves
<1> QED
  BY <1>1, <1>2, <1>3, <1>4, PTL DEF Spec, OnlyAHandMovesIt

\* The variables of the socket with its nodes and commands, and of the group file
\* with what each client holds of it keep their types.
THEOREM TypesAreKept ==
    Spec => [](/\ part = "socket" => D!TypeOK
               /\ part = "groups" => G!TypeOK)
<1> DEFINE Both == SPart /\ GPart
           AsTyped == /\ part = "socket" => D!TypeOK
                      /\ part = "groups" => G!TypeOK
<1>1. Init => Both
  BY SPartInitially, GPartInitially
<1>2. Both /\ [Next]_vars => Both'
  BY SPartPreserved, GPartPreserved
<1>3. Both => AsTyped
  BY DEF SPart, GPart, SInv, GInv
<1> QED
  BY <1>1, <1>2, <1>3, PTL DEF Spec
=============================================================================
