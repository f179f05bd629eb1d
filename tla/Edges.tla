-------------------------------- MODULE Edges --------------------------------
(***************************************************************************)
(* One state for the parts that face something they do not control: the    *)
(* bytes a program writes, the boxes a client puts over them, the hand on  *)
(* the mouse, the keys as a terminal spells them, the words of a command   *)
(* and the shells between a command and the terminal; a connection that is *)
(* cut, an ssh that asks, a clipboard, a release half published, a service *)
(* manager.  As in Parts, "part" says which one the behaviour is of, and   *)
(* its variables are lent the slots in the order it declares them.         *)
(***************************************************************************)
EXTENDS Integers, Sequences, TLC

CONSTANTS
    Attachments, KEYBOARD_STACK, MAX_CSI, MAX_OSC,
    OutputPlain, Boxed, Backlog, WireCap, PtyCap, DrainReads, MaxChunks,
    Texts, Total, Rows, Cols, BLOCK, COPY_LINES, FASTER_EVERY, FASTEST,
    SelectingFar, MaxPresses, MaxAsks,
    Spellings, Readers, Hands, SpellingMaxHands,
    TargetsHosts, TargetsHere, Nicer, NodeOf, Old, TargetsNames, Words,
    MAX_QUERIES, MaxBorn,
    Commands, Ids, Unplain, Subcommands, ResumingMaxHands, MaxRestores,
    MAX_FRAME, FramingTags, MaxFrames,
    ParkingSessions, HostOf, CAPACITY, MaxPrinted, MaxLeaves,
    ParkingMaxTroubles,
    KEEP,
    Clients, UploadingSessions, UploadingNames, UploadingAttached, StartsAs,
    Clipboards, WANTED, MAX_PASTE, UPLOADS, Presses, MaxRenames,
    UploadingMaxTroubles,
    Updaters, Channel, Platforms, Keyed, OldBuilds, MaxBuild, MaxSessions,
    UpdatingMaxTroubles,
    Managers, MaxCommands, ServiceMaxTroubles

VARIABLES
    part,
    v1, v2, v3, v4, v5, v6, v7, v8, v9, v10, v11, v12, v13, v14, v15,
    v16, v17

S == INSTANCE Stream WITH
         kind <- v1, prog <- v2, node <- v3, filter <- v4, ours <- v5,
         term <- v6, used <- v7, read <- v8, behind <- v9, covered <- v10,
         coming <- v11, stale <- v12, attached <- v13

O == INSTANCE Output WITH
         Plain <- OutputPlain, alive <- v1, written <- v2, lastWords <- v3,
         printed <- v4, reaper <- v5, left <- v6, pump <- v7, pos <- v8,
         holding <- v9, wire <- v10, asked <- v11, box <- v12, shown <- v13,
         told <- v14

H == INSTANCE Selecting WITH
         Far <- SelectingFar, text <- v1, up <- v2, answered <- v3,
         offset <- v4, block <- v5, asked <- v6, inFlight <- v7, asks <- v8,
         sel <- v9, chasing <- v10, chased <- v11, owed <- v12, down <- v13,
         clicked <- v14, taken <- v15, presses <- v16

K == INSTANCE Spelling WITH
         MaxHands <- SpellingMaxHands, spelling <- v1, reader <- v2,
         hands <- v3, wire <- v4, tail <- v5, chunks <- v6, got <- v7,
         meant <- v8

W == INSTANCE Targets WITH
         Hosts <- TargetsHosts, Here <- TargetsHere, Names <- TargetsNames,
         runs <- v1, born <- v2, grouped <- v3, word <- v4, pc <- v5,
         query <- v6, rows <- v7, says <- v8, out <- v9, standing <- v10

R == INSTANCE Resuming WITH
         MaxHands <- ResumingMaxHands, quick <- v1, stage <- v2, leader <- v3,
         child <- v4, pids <- v5, conv <- v6, begun <- v7, recent <- v8,
         hand <- v9, work <- v10, asked <- v11, written <- v12, kept <- v13,
         keptWork <- v14, moved <- v15, hands <- v16, restores <- v17

F == INSTANCE Framing WITH
         Tags <- FramingTags, sent <- v1, stream <- v2, closed <- v3,
         buffer <- v4, got <- v5, ended <- v6, pending <- v7, text <- v8

P == INSTANCE Parking WITH
         Sessions <- ParkingSessions, MaxTroubles <- ParkingMaxTroubles,
         alive <- v1, streams <- v2, parked <- v3, client <- v4, shown <- v5,
         printed <- v6, leaves <- v7, troubles <- v8

C == INSTANCE Carrying WITH
         machine <- v1, how <- v2, client <- v3, ssh <- v4, relay <- v5,
         terminal <- v6, handled <- v7, installs <- v8

U == INSTANCE Uploading WITH
         Sessions <- UploadingSessions, Names <- UploadingNames,
         Attached <- UploadingAttached, MaxTroubles <- UploadingMaxTroubles,
         called <- v1, client <- v2, pressed <- v3, stream <- v4, given <- v5,
         renames <- v6, troubles <- v7

B == INSTANCE Updating WITH
         MaxTroubles <- UpdatingMaxTroubles, machine <- v1, release <- v2,
         disk <- v3, node <- v4, updater <- v5, troubles <- v6

M == INSTANCE Service WITH
         MaxTroubles <- ServiceMaxTroubles, machine <- v1, unit <- v2,
         manager <- v3, command <- v4, typed <- v5, troubles <- v6

ASSUME StreamAssumed == S!StreamAssumption
ASSUME SelectingAssumed == H!SelectingAssumption
ASSUME SpellingAssumed == K!SpellingAssumption
ASSUME TargetsAssumed == W!TargetsAssumption
ASSUME ResumingAssumed == R!ResumingAssumption
ASSUME FramingAssumed == F!FramingAssumption
ASSUME ParkingAssumed == P!ParkingAssumption
ASSUME CarryingAssumed == C!CarryingAssumption
ASSUME UploadingAssumed == U!UploadingAssumption
ASSUME UpdatingAssumed == B!UpdatingAssumption
ASSUME ServiceAssumed == M!ServiceAssumption

\* The variables a part of n has no use for.
Beyond16 == <<v17>>
Beyond14 == <<v15, v16, Beyond16>>
Beyond13 == <<v14, Beyond14>>
Beyond10 == <<v11, v12, v13, Beyond13>>
Beyond8 == <<v9, v10, Beyond10>>
Beyond7 == <<v8, Beyond8>>
Beyond6 == <<v7, Beyond7>>

Off == "off"
Off16 == v17 = Off
Off14 == v15 = Off /\ v16 = Off /\ Off16
Off13 == v14 = Off /\ Off14
Off10 == v11 = Off /\ v12 = Off /\ v13 = Off /\ Off13
Off8 == v9 = Off /\ v10 = Off /\ Off10
Off7 == v8 = Off /\ Off8
Off6 == v7 = Off /\ Off7

Init ==
    \/ part = "stream" /\ S!Init /\ Off13
    \/ part = "boxes" /\ O!Init /\ Off14
    \/ part = "selecting" /\ H!Init /\ Off16
    \/ part = "spelling" /\ K!Init /\ Off8
    \/ part = "targets" /\ W!Init /\ Off10
    \/ part = "resuming" /\ R!Init
    \/ part = "framing" /\ F!Init /\ Off8
    \/ part = "parking" /\ P!Init /\ Off8
    \/ part = "carrying" /\ C!Init /\ Off8
    \/ part = "uploading" /\ U!Init /\ Off7
    \/ part = "updating" /\ B!Init /\ Off6
    \/ part = "service" /\ M!Init /\ Off6

Next ==
    \/ part = "stream" /\ S!Next /\ UNCHANGED <<part, Beyond13>>
    \/ part = "boxes" /\ O!Next /\ UNCHANGED <<part, Beyond14>>
    \/ part = "selecting" /\ H!Next /\ UNCHANGED <<part, Beyond16>>
    \/ part = "spelling" /\ K!Next /\ UNCHANGED <<part, Beyond8>>
    \/ part = "targets" /\ W!Next /\ UNCHANGED <<part, Beyond10>>
    \/ part = "resuming" /\ R!Next /\ UNCHANGED part
    \/ part = "framing" /\ F!Next /\ UNCHANGED <<part, Beyond8>>
    \/ part = "parking" /\ P!Next /\ UNCHANGED <<part, Beyond8>>
    \/ part = "carrying" /\ C!Next /\ UNCHANGED <<part, Beyond8>>
    \/ part = "uploading" /\ U!Next /\ UNCHANGED <<part, Beyond7>>
    \/ part = "updating" /\ B!Next /\ UNCHANGED <<part, Beyond6>>
    \/ part = "service" /\ M!Next /\ UNCHANGED <<part, Beyond6>>

vars == <<part, v1, v2, v3, v4, v5, v6, Beyond6>>

Spec == Init /\ [][Next]_vars

\* The variables of every part are of their types, and what its types say of
\* them together holds.
TypeOK ==
    /\ part = "stream" => S!TypeOK
    /\ part = "boxes" => O!TypeOK
    /\ part = "selecting" => H!TypeOK
    /\ part = "spelling" => K!TypeOK
    /\ part = "targets" => W!TypeOK
    /\ part = "resuming" => R!TypeOK
    /\ part = "framing" => F!TypeOK
    /\ part = "parking" => P!TypeOK
    /\ part = "carrying" => C!TypeOK
    /\ part = "uploading" => U!TypeOK
    /\ part = "updating" => B!TypeOK
    /\ part = "service" => M!TypeOK

\* Stream.tla: where the client takes the terminal to be between sequences, it
\* is, and one that is up to date is in the modes the program asked for, but
\* for the mouse of a client with a window on the history
\* (SessionKeepsTheMouse).
StreamIsFollowed ==
    part = "stream" => S!BoundariesAgree /\ S!AsTheProgramLeftIt

\* Output.tla: a terminal whose box came off either shows the session or has
\* its repaint on the way.
PictureIsOnItsWay ==
    part = "boxes" => O!PictureIsOnItsWay

\* Spelling.tla: a key means the same however the terminal spells it.
ReadAsPressed ==
    part = "spelling" => K!ReadAsPressed

\* Targets.tla: a bare name finds the one session that has borne it all along,
\* where its machine answers, and a machine listed under two names is said to
\* be.  Of a machine that does not answer, another's session of that name is
\* taken without a word.
NamesAreNotGuessed ==
    part = "targets" => W!NameFindsItsSession /\ W!TwiceIsSaid

\* Resuming.tla: a session saved again is saved as the same command, and one
\* put back is back in its conversation.
WorkComesBack ==
    part = "resuming" => R!SavedAgainTheSame /\ R!ComesBack

\* Framing.tla: frames and text come out as they went in however the stream is
\* cut.  Parking.tla: a stream kept for later shows the session it was kept
\* for and is counted once.  Carrying.tla: a request the node has had is not
\* sent again, and what ssh said is heard.  Uploading.tla: a paste goes whole
\* to the session that has the name when the node takes it in, or it is said
\* not to have gone.
CarriedWhole ==
    /\ part = "framing" => F!FramesAreWhole /\ F!TextIsTheBytes
    /\ part = "parking" => P!GoneIsTrue /\ P!ShownIsItsOwn /\ P!CountedOnce
    /\ part = "carrying" => C!HandledOnce /\ C!SaidIsHeard
    /\ part = "uploading" => U!ToldIsTrue /\ U!WholeOrNothing

\* Selecting.tla: what a gesture copies is what is lit, and what stays lit was
\* copied, was said to be lost, or waits.
CopiedIsLit ==
    /\ [](part = "selecting" => H!NothingLeftLit)
    /\ [][part = "selecting" => H!TakesWhatIsLit]_vars

\* Updating.tla: only what was verified is put under the binary's name, no
\* session is ended that nobody gave up, and no node is left behind unsaid.
\* Service.tla: what was said to be installed runs and what was said to be
\* removed does not.
NewBinaryIsRun ==
    /\ [](part = "updating" => B!OnlyVerified /\ B!NobodyLosesUnasked)
    /\ [][/\ part = "updating" => B!LeftAlone
          /\ part = "service" => M!Said]_vars

\* Stream.tla, and what README.md:395 says that the code does not do: a
\* program that asked for the mouse keeps it, also where the client has it at
\* all other times.
SessionKeepsTheMouse ==
    part = "stream" => S!SessionKeepsTheMouse
=============================================================================
