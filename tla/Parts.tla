-------------------------------- MODULE Parts --------------------------------
(***************************************************************************)
(* One state for the parts that share no state: the terminal loop, the     *)
(* scroll view, the socket, the group file, the rows of the popup and the  *)
(* list they are picked from, the input of an attachment, names, bells,    *)
(* the files commands change, checkpoints, and the phone's screen, its     *)
(* keys and its connections.  "part" says which one the behaviour is of,   *)
(* and "v1" to "v20" are lent to its variables, in the order it declares   *)
(* them; those it has no use for stand still.  Every property is the       *)
(* part's own, under its own name.                                         *)
(***************************************************************************)
EXTENDS Integers, Sequences

CONSTANTS
    Codes, MaxForwarded, Pastes, Typed, Places, MaxResyncs,
    Rows, ScrollKept, BLOCK, CopyLines, ScrollMaxPrinted, ScrollFar, Pressed,
    Matches,
    Daemons, SocketClients, Old, AtOnce,
    GroupsSessions, GroupsHosts, HostOf, GroupsNames, GroupsClients,
    Most, RowsNames,
    SILENT_FOR, MAX_PASTE, MaxSent,
    NamingClients, NamingNames,
    Listings, Queries, PickingSizes, HINTS, MaxKeys, MaxListings, MaxResizes,
    BellsSessions, BellsClients, Called, Terminals, BellsNames, BellsBACKLOG,
    Kinds, MaxBells, MaxUnderway, MaxAttaches, MaxRenames, BellsMaxTroubles,
    Commands, WatchingNames, MachineOf, WatchingHere, WatchingListed, Keys,
    MaxRuns, WatchingMaxTroubles,
    PhoneScreenSizes, PhoneScreenBACKLOG, PhoneScreenMaxPrinted, MaxTurns,
    MaxDesk, MaxLost,
    PhoneKeysCallers, PhoneKeysMachines, HostKeys, PhoneKeysMaxCalls,
    MaxKills, MaxCuts,
    PhoneReachCallers, Accounts, AgentKeys, FROM_AN_AGENT, MAX_AUTH_TRIES,
    PhoneReachMaxCalls, PhoneReachMaxTroubles,
    CheckpointHosts, CheckpointHere, CheckpointNames, MaxPid

VARIABLES
    part,
    v1, v2, v3, v4, v5, v6, v7, v8, v9, v10, v11, v12, v13, v14, v15,
    v16, v17, v18, v19, v20

T == INSTANCE Terminal WITH
         k <- v1, chunk <- v2, act <- v3, pc <- v4, place <- v5, status <- v6,
         row <- v7, restate <- v8, popup <- v9, view <- v10, owing <- v11,
         greet <- v12, painted <- v13, boundary <- v14, mouse <- v15,
         stale <- v16, resyncs <- v17, down <- v18, orphan <- v19,
         early <- v20

V == INSTANCE Scroll WITH
         Kept <- ScrollKept, MaxPrinted <- ScrollMaxPrinted, Far <- ScrollFar,
         newest <- v1, counted <- v2, printedCount <- v3, onAlternate <- v4,
         lost <- v5, offset <- v6, total <- v7, printed <- v8, trimming <- v9,
         answered <- v10, block <- v11, asked <- v12, inFlight <- v13,
         selection <- v14, match <- v15, asks <- v16, answers <- v17,
         frame <- v18, names <- v19

D == INSTANCE Socket WITH
         Clients <- SocketClients, path <- v1, node <- v2, cmd <- v3,
         asked <- v4

G == INSTANCE Groups WITH
         Sessions <- GroupsSessions, Hosts <- GroupsHosts,
         Names <- GroupsNames, Clients <- GroupsClients, born <- v1,
         live <- v2, file <- v3, lock <- v4, pc <- v5, intent <- v6,
         copy <- v7

L == INSTANCE Rows WITH
         Names <- RowsNames, name <- v1, born <- v2, pending <- v3,
         cached <- v4, at <- v5, rows <- v6, shown <- v7, highlight <- v8,
         taken <- v9, confirmed <- v10

P == INSTANCE Pump WITH
         client <- v1, wire <- v2, chunks <- v3, owed <- v4, pump <- v5,
         pending <- v6, heard <- v7, answered <- v8, file <- v9,
         too_big <- v10, got <- v11, read_only <- v12, due <- v13

N == INSTANCE Naming WITH
         Clients <- NamingClients, Names <- NamingNames, name <- v1,
         step <- v2, called <- v3, wanted <- v4, answer <- v5, unseen <- v6,
         told <- v7

K == INSTANCE Picking WITH
         Sizes <- PickingSizes, picker <- v1, size <- v2, lines <- v3,
         pointed <- v4, swapped <- v5, keys <- v6, listings <- v7,
         resizes <- v8

B == INSTANCE Bells WITH
         Sessions <- BellsSessions, Clients <- BellsClients,
         Names <- BellsNames, BACKLOG <- BellsBACKLOG,
         MaxTroubles <- BellsMaxTroubles, called <- v1, client <- v2,
         link <- v3, wanted <- v4, queue <- v5, cooling <- v6, bell <- v7,
         attaches <- v8, renames <- v9, troubles <- v10

W == INSTANCE Watching WITH
         Names <- WatchingNames, Here <- WatchingHere,
         Listed <- WatchingListed, MaxTroubles <- WatchingMaxTroubles,
         file <- v1, lock <- v2, cmd <- v3, busy <- v4, life <- v5,
         meant <- v6, blind <- v7, runs <- v8, troubles <- v9

S == INSTANCE PhoneScreen WITH
         Sizes <- PhoneScreenSizes, BACKLOG <- PhoneScreenBACKLOG,
         MaxPrinted <- PhoneScreenMaxPrinted, session <- v1, clients <- v2,
         output <- v3, toNode <- v4, toPhone <- v5, link <- v6, wanted <- v7,
         requested <- v8, pending <- v9, said <- v10, repainting <- v11,
         painting <- v12, grid <- v13, elsewhere <- v14, turns <- v15,
         moves <- v16, losses <- v17

I == INSTANCE PhoneKeys WITH
         Callers <- PhoneKeysCallers, Machines <- PhoneKeysMachines,
         MaxCalls <- PhoneKeysMaxCalls, file <- v1, disk <- v2, beside <- v3,
         locked <- v4, calls <- v5, given <- v6, accepted <- v7, made <- v8,
         cuts <- v9, kills <- v10

E == INSTANCE PhoneReach WITH
         Callers <- PhoneReachCallers, MaxCalls <- PhoneReachMaxCalls,
         MaxTroubles <- PhoneReachMaxTroubles, machine <- v1, known <- v2,
         conns <- v3, held <- v4, locked <- v5, calls <- v6, resumed <- v7,
         made <- v8, troubles <- v9

C == INSTANCE Checkpoint WITH
         Hosts <- CheckpointHosts, Here <- CheckpointHere,
         Names <- CheckpointNames, runs <- v1, deed <- v2, file <- v3,
         phase <- v4, restart <- v5, counted <- v6, only <- v7, before <- v8,
         listing <- v9, refused <- v10, doing <- v11, lost <- v12

ASSUME TerminalAssumed == T!TerminalAssumption
ASSUME ScrollAssumed == V!ScrollAssumption
ASSUME SocketAssumed == D!SocketAssumption
ASSUME GroupsAssumed == G!GroupsAssumption
ASSUME RowsAssumed == L!RowsAssumption
ASSUME PumpAssumed == P!PumpAssumption
ASSUME NamingAssumed == N!NamingAssumption
ASSUME PickingAssumed == K!PickingAssumption
ASSUME BellsAssumed == B!BellsAssumption
ASSUME WatchingAssumed == W!WatchingAssumption
ASSUME PhoneScreenAssumed == S!PhoneScreenAssumption
ASSUME PhoneKeysAssumed == I!PhoneKeysAssumption
ASSUME PhoneReachAssumed == E!PhoneReachAssumption
ASSUME CheckpointAssumed == C!CheckpointAssumption
ASSUME KeysAssumed == T!KeysAssumption

\* The variables a part of n has no use for.
Beyond19 == <<v20>>
Beyond17 == <<v18, v19, Beyond19>>
Beyond13 == <<v14, v15, v16, v17, Beyond17>>
Beyond12 == <<v13, Beyond13>>
Beyond10 == <<v11, v12, Beyond12>>
Beyond9 == <<v10, Beyond10>>
Beyond8 == <<v9, Beyond9>>
Beyond7 == <<v8, Beyond8>>
Beyond4 == <<v5, v6, v7, Beyond7>>

Off == "off"
Off19 == v20 = Off
Off17 == v18 = Off /\ v19 = Off /\ Off19
Off13 == v14 = Off /\ v15 = Off /\ v16 = Off /\ v17 = Off /\ Off17
Off12 == v13 = Off /\ Off13
Off10 == v11 = Off /\ v12 = Off /\ Off12
Off9 == v10 = Off /\ Off10
Off8 == v9 = Off /\ Off9
Off7 == v8 = Off /\ Off8
Off4 == v5 = Off /\ v6 = Off /\ v7 = Off /\ Off7

Init ==
    \/ part = "terminal" /\ T!Init
    \/ part = "scroll" /\ V!Init /\ Off19
    \/ part = "socket" /\ D!Init /\ Off4
    \/ part = "groups" /\ G!Init /\ Off7
    \/ part = "rows" /\ L!Init /\ Off10
    \/ part = "pump" /\ P!Init /\ Off13
    \/ part = "naming" /\ N!Init /\ Off7
    \/ part = "picking" /\ K!Init /\ Off8
    \/ part = "bells" /\ B!Init /\ Off10
    \/ part = "watching" /\ W!Init /\ Off9
    \/ part = "screen" /\ S!Init /\ Off17
    \/ part = "keys" /\ I!Init /\ Off10
    \/ part = "reach" /\ E!Init /\ Off9
    \/ part = "checkpoint" /\ C!Init /\ Off12

Next ==
    \/ part = "terminal" /\ T!Next /\ UNCHANGED part
    \/ part = "scroll" /\ V!Next /\ UNCHANGED <<part, Beyond19>>
    \/ part = "socket" /\ D!Next /\ UNCHANGED <<part, Beyond4>>
    \/ part = "groups" /\ G!Next /\ UNCHANGED <<part, Beyond7>>
    \/ part = "rows" /\ L!Next /\ UNCHANGED <<part, Beyond10>>
    \/ part = "pump" /\ P!Next /\ UNCHANGED <<part, Beyond13>>
    \/ part = "naming" /\ N!Next /\ UNCHANGED <<part, Beyond7>>
    \/ part = "picking" /\ K!Next /\ UNCHANGED <<part, Beyond8>>
    \/ part = "bells" /\ B!Next /\ UNCHANGED <<part, Beyond10>>
    \/ part = "watching" /\ W!Next /\ UNCHANGED <<part, Beyond9>>
    \/ part = "screen" /\ S!Next /\ UNCHANGED <<part, Beyond17>>
    \/ part = "keys" /\ I!Next /\ UNCHANGED <<part, Beyond10>>
    \/ part = "reach" /\ E!Next /\ UNCHANGED <<part, Beyond9>>
    \/ part = "checkpoint" /\ C!Next /\ UNCHANGED <<part, Beyond12>>

vars == <<part, v1, v2, v3, v4, Beyond4>>

Spec == Init /\ [][Next]_vars

\* The variables of every part are of their types, and what its types say of
\* them together holds.
TypeOK ==
    /\ part = "terminal" => T!TypeOK
    /\ part = "scroll" => V!TypeOK
    /\ part = "socket" => D!TypeOK
    /\ part = "groups" => G!TypeOK
    /\ part = "rows" => L!TypeOK
    /\ part = "pump" => P!TypeOK
    /\ part = "naming" => N!TypeOK
    /\ part = "picking" => K!TypeOK
    /\ part = "bells" => B!TypeOK
    /\ part = "watching" => W!TypeOK
    /\ part = "screen" => S!TypeOK
    /\ part = "keys" => I!TypeOK
    /\ part = "reach" => E!TypeOK
    /\ part = "checkpoint" => C!TypeOK

\* Terminal.tla and Keys.tla: what the terminal shows is the session, or the
\* screen is on its way; the row, the box and the window are those of the mode
\* the keys are read in; a release goes where its press went, or where a
\* repeat that closed control mode has gone.
SurfacesFollowTheMode ==
    part = "terminal" => T!PictureIsOwed /\ T!SurfacesFollowTheMode /\ T!NoOrphans

\* Scroll.tla: counts from the end go on naming the lines they were made of,
\* and a window without its lines has asked for them, but where a search has
\* moved the block from under a window pinned to an end or the selection is
\* too far in front of it.
WindowIsTheHistory ==
    part = "scroll" => V!OneFrame /\ V!NeverLeftBlank

\* Socket.tla: a node that was said to be stopped serves nobody.
StoppedMeansGone ==
    part = "socket" => D!StoppedMeansGone

\* Pump.tla: input and pastes are given once, whole and in order, and a client
\* that answers its pings is not put out as silent.
InputIsHeard ==
    part = "pump" => P!GivenWhatWasSent /\ P!AnsweringIsEnough

\* Naming.tla: a client is told what its session is called.
NamesCatchUp ==
    part = "naming" => N!NamesCatchUp

\* Rows.tla: a row chosen on an older picture is still that session.
\* Picking.tla: the highlight is drawn on the row that Enter would take, in a
\* box that leaves nothing of itself behind, and no listing moves it.
EnterGoesWhereItPoints ==
    /\ [](/\ part = "rows" => L!EnterGoesWhereItPoints
          /\ part = "picking" => K!EnterIsWhereItShows /\ K!NothingLeftOfTheBox)
    /\ [][part = "picking" => K!MovedByTheHand]_vars

\* Groups.tla: a listing that lands late undoes nobody's grouping.
\* Watching.tla: no command undoes another's change to the host list or the
\* settings, and a machine is not listed under two names where that could be
\* told.
OnlyAHandMovesIt ==
    /\ [](part = "watching" => W!NothingIsLost)
    /\ [][/\ part = "groups" => G!MovedByHand
          /\ part = "watching" => W!ListedOnce]_vars

\* PhoneScreen.tla: the phone shows the session's screen, or the picture is on
\* its way, until another client changes the size.  PhoneKeys.tla: its key and
\* the machines it knows are whole files, one key, and every machine let
\* through is written down.  PhoneReach.tla: the trouble it names is the
\* machine's, and the connection it keeps is the one to it.
PhoneIsTold ==
    /\ part = "screen" => S!PictureIsTheSessions
    /\ part = "keys" => I!NeverTorn /\ I!OneKey /\ I!AcceptedIsWritten
    /\ part = "reach" => E!TroubleIsTrue /\ E!HeldIsRight

\* Checkpoint.tla: what a save could not write down is counted.  Bells.tla: a
\* session that asks for somebody is told of once, by whoever could see it and
\* is not looking at it, with the exceptions SomebodyHears and NotTwice name.
NothingGoesUnsaid ==
    /\ [](part = "bells" => B!SomebodyHears /\ B!NotTwice)
    /\ [][/\ part = "checkpoint" => C!Said
          /\ part = "bells" => B!OfAnother]_vars
=============================================================================
