-------------------------------- MODULE Output --------------------------------
(***************************************************************************)
(* One session's output on its way to the terminals attached to it: the    *)
(* reader and the reaper of src/node/session.rs, the broadcast channel     *)
(* with its backlog, the pump of src/node/mod.rs and the client's end.     *)
(*                                                                         *)
(* A screen is the number of chunks it was painted from, so the session's  *)
(* screen and the number of its last broadcast chunk are one variable:     *)
(* ingest moves both under the session's lock.  A frame repaints a         *)
(* terminal with a whole screen or adds one chunk to what it shows; the    *)
(* answer to a VIEW, a FIND or a RENAME leaves the screen alone.           *)
(***************************************************************************)
EXTENDS Integers, Sequences

CONSTANTS
    Plain,      \* clients that paint whatever arrives
    Boxed,      \* clients that may put a popup or a scroll view over the screen
    Backlog,    \* OUTPUT_BACKLOG: chunks a receiver may fall behind by
    WireCap,    \* BOUND: frames a connection holds before a write blocks
    PtyCap,     \* chunks the kernel holds between the child and the node
    DrainReads, \* reads the reaper makes after the child is gone: 16
    MaxChunks   \* BOUND: chunks ever printed

Client == Plain \cup Boxed

\* Sixteen reads of 16K empty the kernel's buffer, which holds a few pages.
ASSUME OutputAssumption ==
    /\ Plain \cap Boxed = {}
    /\ Backlog \in Nat \ {0} /\ WireCap \in Nat \ {0}
    /\ PtyCap \in Nat \ {0} /\ DrainReads \in Nat \ {0} /\ MaxChunks \in Nat
    /\ PtyCap <= DrainReads

VARIABLES
    alive,      \* the child is running
    written,    \* chunks written to the PTY
    lastWords,  \* chunks written when the child died
    printed,    \* chunks ingested: the screen, and the broadcast's tail
    reaper,     \* how far the reaper has got
    left,       \* reads it has left for the final output
    pump,       \* each client's attachment
    pos,        \* the last chunk each client's receiver is past
    holding,    \* the frame each pump is writing
    wire,       \* frames written and not yet read by the client
    asked,      \* what the client asked for and the pump has not read yet
    box,        \* the client has something of its own over the screen
    shown,      \* what the terminal shows
    told        \* the client has been told of the exit

childVars  == <<alive, written, lastWords>>
reaperVars == <<reaper, left>>
pumpVars   == <<pump, pos, holding>>
clientVars == <<box, shown, told>>
vars       == <<childVars, printed, reaperVars, pumpVars, wire, asked, clientVars>>

Paint(n) == [kind |-> "paint", n |-> n]
Data(n)  == [kind |-> "data", n |-> n]
Exit(n)  == [kind |-> "exit", n |-> n]
Lines(n) == [kind |-> "lines", n |-> n]
Idle     == [kind |-> "none", n |-> 0]

Frames == [kind : {"paint", "data", "exit", "lines"}, n : Nat]

\* What a client asks the pump for.
Asks == {"screen", "lines"}

\* A terminal that shows no screen the session ever had.
Garbled == -1

Init ==
    /\ alive = TRUE
    /\ written = 0
    /\ lastWords = 0
    /\ printed = 0
    /\ reaper = "waiting"
    /\ left = 0
    /\ pump = [c \in Client |-> "off"]
    /\ pos = [c \in Client |-> 0]
    /\ holding = [c \in Client |-> Idle]
    /\ wire = [c \in Client |-> <<>>]
    /\ asked = [c \in Client |-> {}]
    /\ box = [c \in Client |-> FALSE]
    /\ shown = [c \in Client |-> 0]
    /\ told = [c \in Client |-> FALSE]

(***************************************************************************)
(* The child, the reader and the reaper.                                   *)
(***************************************************************************)

\* The child prints, or a descendant that outlives it and holds the terminal.
Write ==
    /\ written < MaxChunks
    /\ written - printed < PtyCap
    /\ written' = written + 1
    /\ UNCHANGED <<alive, lastWords, printed, reaperVars, pumpVars, wire, asked, clientVars>>

ChildDies ==
    /\ alive
    /\ alive' = FALSE
    /\ lastWords' = written
    /\ UNCHANGED <<written, printed, reaperVars, pumpVars, wire, asked, clientVars>>

\* ingest: the screen is fed and the chunk broadcast under one lock.
Ingest ==
    /\ printed < written
    /\ printed' = printed + 1
    /\ UNCHANGED <<childVars, pumpVars, wire, asked, clientVars>>

\* The reader runs until the reaper aborts it, never between a read and the
\* ingest of what it read.
Read == reaper = "waiting" /\ Ingest /\ UNCHANGED reaperVars

\* child.wait returned; the reader is aborted and waited for.
Reap ==
    /\ reaper = "waiting" /\ ~alive
    /\ reaper' = "draining"
    /\ left' = DrainReads
    /\ UNCHANGED <<childVars, printed, pumpVars, wire, asked, clientVars>>

\* Mutant: the last reads are not counted.
DrainUncounted ==
    /\ reaper = "draining"
    /\ Ingest
    /\ left' = left - 1
    /\ UNCHANGED reaper

\* drain_final_output: a bounded number of reads, so that a descendant which
\* goes on printing cannot hold the exit open.
Drain ==
    /\ reaper = "draining" /\ left > 0
    /\ Ingest
    /\ left' = left - 1
    /\ UNCHANGED reaper

\* Nothing left to read, or no reads left: publish, then send the exit.
SendExit ==
    /\ reaper = "draining"
    /\ left = 0 \/ printed = written
    /\ reaper' = "sent"
    /\ UNCHANGED <<childVars, printed, left, pumpVars, wire, asked, clientVars>>

(***************************************************************************)
(* Attaching, and the pump.                                                *)
(***************************************************************************)

\* The registry finds the session before its exit is out.
Find(c) ==
    /\ pump[c] = "off" /\ reaper # "sent"
    /\ pump' = [pump EXCEPT ![c] = "found"]
    /\ UNCHANGED <<childVars, printed, reaperVars, pos, holding, wire, asked, clientVars>>

\* A subscription from this instant and the screen as of this instant, taken
\* under one lock: what attach, resync and a lagging receiver all start from.
Resubscribe(c) ==
    /\ pos' = [pos EXCEPT ![c] = printed]
    /\ holding' = [holding EXCEPT ![c] = Paint(printed)]

\* Session::attach, after which the pump's first frame is the repaint.
Join(c) ==
    /\ pump[c] = "found"
    /\ pump' = [pump EXCEPT ![c] = "running"]
    /\ Resubscribe(c)
    /\ UNCHANGED <<childVars, printed, reaperVars, wire, asked, clientVars>>

Free(c) == pump[c] \in {"running", "draining"} /\ holding[c] = Idle

\* Mutants: a receiver that was overtaken goes on with the oldest chunk there
\* still is; it waits for the ones that are gone.
TakeChunkSkipping(c) ==
    LET next == IF printed - pos[c] > Backlog THEN printed - Backlog + 1 ELSE pos[c] + 1 IN
    /\ Free(c) /\ pos[c] < printed
    /\ pos' = [pos EXCEPT ![c] = next]
    /\ holding' = [holding EXCEPT ![c] = Data(next)]
    /\ UNCHANGED <<childVars, printed, reaperVars, pump, wire, asked, clientVars>>

TakeChunkWaiting(c) ==
    /\ Free(c) /\ pos[c] < printed /\ printed - pos[c] <= Backlog
    /\ pos' = [pos EXCEPT ![c] = @ + 1]
    /\ holding' = [holding EXCEPT ![c] = Data(pos[c] + 1)]
    /\ UNCHANGED <<childVars, printed, reaperVars, pump, wire, asked, clientVars>>

\* output.recv: the next chunk, or the whole screen again for a receiver the
\* channel has overtaken.
TakeChunk(c) ==
    /\ Free(c) /\ pos[c] < printed
    /\ IF printed - pos[c] > Backlog
       THEN Resubscribe(c)
       ELSE /\ pos' = [pos EXCEPT ![c] = @ + 1]
            /\ holding' = [holding EXCEPT ![c] = Data(pos[c] + 1)]
    /\ UNCHANGED <<childVars, printed, reaperVars, pump, wire, asked, clientVars>>

\* Mutant: a request is answered with what is new, and there may be nothing.
AnswerResyncWithNews(c) ==
    /\ Free(c) /\ pump[c] = "running" /\ "screen" \in asked[c]
    /\ asked' = [asked EXCEPT ![c] = @ \ {"screen"}]
    /\ IF pos[c] = printed THEN UNCHANGED <<pos, holding>> ELSE Resubscribe(c)
    /\ UNCHANGED <<childVars, printed, reaperVars, pump, wire, clientVars>>

\* A RESYNC request from the client.
AnswerResync(c) ==
    /\ Free(c) /\ pump[c] = "running" /\ "screen" \in asked[c]
    /\ asked' = [asked EXCEPT ![c] = @ \ {"screen"}]
    /\ Resubscribe(c)
    /\ UNCHANGED <<childVars, printed, reaperVars, pump, wire, clientVars>>

\* A VIEW, a FIND or a RENAME.
AnswerLines(c) ==
    /\ Free(c) /\ pump[c] = "running" /\ "lines" \in asked[c]
    /\ asked' = [asked EXCEPT ![c] = @ \ {"lines"}]
    /\ holding' = [holding EXCEPT ![c] = Lines(pos[c])]
    /\ UNCHANGED <<childVars, printed, reaperVars, pump, pos, wire, clientVars>>

\* exit_rx.changed: from here on the pump only empties its receiver.
SeeExit(c) ==
    /\ Free(c) /\ pump[c] = "running" /\ reaper = "sent"
    /\ pump' = [pump EXCEPT ![c] = "draining"]
    /\ UNCHANGED <<childVars, printed, reaperVars, pos, holding, wire, asked, clientVars>>

\* Mutant: EXIT overtakes what the receiver still holds.
TellExitAtOnce(c) ==
    /\ Free(c) /\ pump[c] = "draining"
    /\ holding' = [holding EXCEPT ![c] = Exit(printed)]
    /\ UNCHANGED <<childVars, printed, reaperVars, pump, pos, wire, asked, clientVars>>

\* drain_output found the receiver empty: EXIT, and the pump is over.
TellExit(c) ==
    /\ Free(c) /\ pump[c] = "draining" /\ pos[c] = printed
    /\ holding' = [holding EXCEPT ![c] = Exit(printed)]
    /\ UNCHANGED <<childVars, printed, reaperVars, pump, pos, wire, asked, clientVars>>

\* send: the frame goes when the connection has room for it.
Send(c) ==
    /\ holding[c] # Idle
    /\ Len(wire[c]) < WireCap
    /\ wire' = [wire EXCEPT ![c] = Append(@, holding[c])]
    /\ holding' = [holding EXCEPT ![c] = Idle]
    /\ pump' = [pump EXCEPT ![c] = IF holding[c].kind = "exit" THEN "over" ELSE @]
    /\ UNCHANGED <<childVars, printed, reaperVars, pos, asked, clientVars>>

\* The connection goes, and with it whatever was on its way.
HangUp(c) ==
    /\ pump' = [pump EXCEPT ![c] = "off"]
    /\ holding' = [holding EXCEPT ![c] = Idle]
    /\ wire' = [wire EXCEPT ![c] = <<>>]
    /\ asked' = [asked EXCEPT ![c] = {}]
    /\ box' = [box EXCEPT ![c] = FALSE]
    /\ UNCHANGED <<childVars, printed, reaperVars, pos, shown, told>>

\* Mutant: a client that does not read is waited for until it hangs up.
SendWaits(c) == FALSE /\ HangUp(c)

\* A client that has not read for SILENT_FOR is given up on, by send; the
\* answers to a view or a prompt are written without it.
SendTimesOut(c) ==
    /\ holding[c] \notin {Idle, Lines(pos[c])} /\ Len(wire[c]) = WireCap
    /\ HangUp(c)

\* The client detaches, or its connection is lost.
Leave(c) == pump[c] \in {"running", "draining", "over"} /\ HangUp(c)

(***************************************************************************)
(* The client.                                                             *)
(***************************************************************************)

\* What a terminal shows once a frame is painted over what it showed.
Painted(frame, before) ==
    CASE frame.kind = "paint" -> frame.n
      [] frame.kind = "data"  -> IF frame.n = before + 1 THEN frame.n ELSE Garbled
      [] OTHER                -> before

\* A frame arrives.  Behind a box it is fed to the client's own parser and not
\* written, and with the exit the attachment is over.
Receive(c) ==
    /\ wire[c] # <<>>
    /\ LET frame == Head(wire[c]) IN
       /\ shown' = [shown EXCEPT ![c] = IF box[c] THEN @ ELSE Painted(frame, @)]
       /\ IF frame.kind = "exit"
          THEN /\ told' = [told EXCEPT ![c] = TRUE]
               /\ pump' = [pump EXCEPT ![c] = "off"]
               /\ wire' = [wire EXCEPT ![c] = <<>>]
               /\ asked' = [asked EXCEPT ![c] = {}]
               /\ box' = [box EXCEPT ![c] = FALSE]
          ELSE /\ wire' = [wire EXCEPT ![c] = Tail(@)]
               /\ UNCHANGED <<told, pump, asked, box>>
    /\ UNCHANGED <<childVars, printed, reaperVars, pos, holding>>

\* A popup or a view goes up over the session, and the picture stops.
OpenBox(c) ==
    /\ c \in Boxed /\ ~box[c] /\ pump[c] \in {"running", "draining", "over"}
    /\ box' = [box EXCEPT ![c] = TRUE]
    /\ shown' = [shown EXCEPT ![c] = Garbled]
    /\ UNCHANGED <<childVars, printed, reaperVars, pumpVars, wire, asked, told>>

\* Closing it asks for the screen again.
CloseBox(c) ==
    /\ box[c]
    /\ box' = [box EXCEPT ![c] = FALSE]
    /\ asked' = [asked EXCEPT ![c] = @ \cup {"screen"}]
    /\ UNCHANGED <<childVars, printed, reaperVars, pumpVars, wire, shown, told>>

\* So does a screen switch that the client kept from the terminal.
AskResync(c) ==
    /\ pump[c] = "running" /\ "screen" \notin asked[c]
    /\ asked' = [asked EXCEPT ![c] = @ \cup {"screen"}]
    /\ UNCHANGED <<childVars, printed, reaperVars, pumpVars, wire, clientVars>>

\* A view scrolled back or searched, and a name typed at a prompt, ask for an
\* answer of their own.
AskLines(c) ==
    /\ pump[c] = "running" /\ box[c] /\ "lines" \notin asked[c]
    /\ asked' = [asked EXCEPT ![c] = @ \cup {"lines"}]
    /\ UNCHANGED <<childVars, printed, reaperVars, pumpVars, wire, clientVars>>

(***************************************************************************)
(* The specification.  Fairness: the node's tasks run, and the pump's      *)
(* select! picks among its ready arms at random, so an arm that is ready   *)
(* again and again is picked.  Nothing is asked of a client.               *)
(***************************************************************************)

Node(c) == \/ Join(c) \/ TakeChunk(c) \/ AnswerResync(c) \/ SeeExit(c)
           \/ TellExit(c) \/ Send(c) \/ SendTimesOut(c)

Person(c) == Find(c) \/ Leave(c) \/ Receive(c) \/ AskResync(c)

\* What there is only where boxes are put up.
Boxing(c) == OpenBox(c) \/ CloseBox(c) \/ AskLines(c) \/ AnswerLines(c)

Next ==
    \/ Write \/ ChildDies \/ Read \/ Reap \/ Drain \/ SendExit
    \/ \E c \in Client : Node(c) \/ Person(c)
    \/ \E c \in Boxed : Boxing(c)

Spec == Init /\ [][Next]_vars

NodeFairness ==
    /\ WF_vars(Read) /\ WF_vars(Reap) /\ WF_vars(Drain) /\ WF_vars(SendExit)
    /\ \A c \in Client :
         /\ WF_vars(Join(c)) /\ WF_vars(TellExit(c)) /\ WF_vars(Send(c)) /\ WF_vars(SendTimesOut(c))
         /\ SF_vars(TakeChunk(c)) /\ SF_vars(AnswerResync(c)) /\ SF_vars(AnswerLines(c))
         /\ SF_vars(SeeExit(c))

FairSpec == Spec /\ NodeFairness

\* A client that reads what it is sent.
Reads(c) == WF_vars(Receive(c))

(***************************************************************************)
(* Properties.                                                             *)
(***************************************************************************)

\* Every variable has its type, and every bound is kept.
TypeOK ==
    /\ alive \in BOOLEAN
    /\ written \in 0 .. MaxChunks
    /\ lastWords \in Nat /\ lastWords <= written
    /\ printed \in Nat /\ printed <= written
    /\ reaper \in {"waiting", "draining", "sent"}
    /\ left \in 0 .. DrainReads
    /\ pump \in [Client -> {"off", "found", "running", "draining", "over"}]
    /\ pos \in [Client -> Nat]
    /\ holding \in [Client -> Frames \cup {Idle}]
    /\ wire \in [Client -> Seq(Frames)]
    /\ asked \in [Client -> SUBSET Asks]
    /\ box \in [Client -> BOOLEAN]
    /\ shown \in [Client -> Nat \cup {Garbled}]
    /\ told \in [Client -> BOOLEAN]

\* No byte is both painted and streamed and none is neither: a terminal that
\* paints all it is sent never shows a screen the session did not have,
\* through attaches, lags, resyncs and the drain at the end.
NeverGarbled == \A c \in Plain : shown[c] # Garbled

\* What the child printed before it died is on the screen of everyone who is
\* told that it died, though the reader was stopped before reading it and the
\* exit may overtake the chunks in the pump.
LastWordsAreShown == \A c \in Plain : told[c] => shown[c] >= lastWords

\* Detailed output implements the promise of Mirror for clients that show all
\* they are sent.
mode == [c \in Plain |-> CASE pump[c] \in {"running", "draining", "over"} -> "watching"
                           [] OTHER -> IF told[c] THEN "told" ELSE "away"]

Abstract == INSTANCE Mirror WITH
    Client  <- Plain,
    final   <- reaper = "sent",
    shown   <- [c \in Plain |-> shown[c]]

MirrorsTheSession == Abstract!Spec

\* No pump outlives its session: once the exit is out everyone attached is
\* written an EXIT or given up on, whatever their client does or does not
\* read.  It is kept for clients that only watch and type (Plain), and not
\* for one whose connection fills up under the answer to a view: that write
\* has no deadline.
PumpsEnd == \A c \in Client : (reaper = "sent" /\ pump[c] = "running") ~> pump[c] \in {"over", "off"}

\* A terminal whose client reads catches up with what has been printed.
CatchesUp ==
    \A c \in Plain :
        Reads(c) => \A n \in 1 .. MaxChunks :
            (pump[c] = "running" /\ printed = n) ~> (shown[c] >= n \/ pump[c] = "off")

\* A client that closed its box and does not see the session yet has its
\* repaint on the way, as a request, in the pump's hands or on the wire: none of
\* the answers and chunks the pump does meanwhile takes the place of it.
PictureIsOnItsWay ==
    \A c \in Boxed :
        (pump[c] = "running" /\ shown[c] = Garbled /\ ~box[c])
            => \/ "screen" \in asked[c]
               \/ holding[c].kind = "paint"
               \/ \E i \in DOMAIN wire[c] : wire[c][i].kind = "paint"

===============================================================================
