----------------------------- MODULE OutputProofs -----------------------------
(***************************************************************************)
(* That a terminal which paints all it is sent never shows anything but a  *)
(* screen of the session's, for any backlog, any connection and any number *)
(* of clients.                                                             *)
(*                                                                         *)
(* The argument is a chain from what the terminal shows, through the       *)
(* frames in flight and the one being written, to the receiver's place in  *)
(* the broadcast: every link is a chunk that follows its predecessor or a  *)
(* repaint no older than it, and the end of the chain is where the         *)
(* receiver goes on from.  A terminal that has boxes put over it misses    *)
(* part of the chain, and is in it again with the next repaint.            *)
(***************************************************************************)
EXTENDS Output, TLAPS

\* A frame that may come after the screen n.
Follows(frame, n) ==
    /\ n <= frame.n /\ frame.n <= printed
    /\ frame.kind = "data" => frame.n = n + 1
    /\ frame.kind = "lines" => frame.n = n
    /\ frame.kind = "exit" => frame.n = n /\ n = printed

\* The screen the i-th frame in flight is painted over, and the one that the
\* terminal will show when all of them have arrived.
Before(c, i) == IF i = 1 THEN shown[c] ELSE wire[c][i - 1].n

End(c) == IF wire[c] = <<>> THEN shown[c] ELSE wire[c][Len(wire[c])].n

Chain(c) ==
    /\ shown[c] \in Nat /\ shown[c] <= printed
    /\ pos[c] <= printed
    /\ \A i \in 1 .. Len(wire[c]) : Follows(wire[c][i], Before(c, i))
    /\ holding[c] # Idle => Follows(holding[c], End(c)) /\ pos[c] = holding[c].n
    /\ (pump[c] \in {"running", "draining"} /\ holding[c] = Idle) => pos[c] = End(c)

\* Where an attachment stands says what it may have in flight.
Stages(c) ==
    /\ pump[c] \in {"off", "found"} => wire[c] = <<>>
    /\ pump[c] \in {"off", "found", "over"} => holding[c] = Idle
    /\ pump[c] \in {"draining", "over"} => reaper = "sent"
    /\ holding[c].kind = "exit" => pump[c] = "draining"
    /\ \A i \in 1 .. Len(wire[c]) : wire[c][i].kind = "exit" => pump[c] = "over"
    /\ told[c] => pump[c] = "off" /\ reaper = "sent" /\ shown[c] = printed
    /\ ~box[c]

\* The reaper has reads enough for everything the child printed.
LastWordsAreRead ==
    /\ ~alive \/ reaper = "waiting"
    /\ written - printed <= PtyCap
    /\ reaper = "draining" => lastWords - printed <= left
    /\ reaper = "sent" => lastWords <= printed

Link(c) == Chain(c) /\ Stages(c)

OInv == TypeOK /\ LastWordsAreRead /\ \A c \in Plain : Link(c)

LEMMA InitOInv == Init => OInv
BY OutputAssumption
   DEF Init, OInv, TypeOK, LastWordsAreRead, Link, Chain, Stages, Client, Frames, Idle, End

(***************************************************************************)
(* Type correctness and the reaper's budget.                               *)
(***************************************************************************)

\* Answering a request leaves the others as they are.
LEMMA AskingLess ==
    ASSUME NEW f \in [Client -> SUBSET Asks], NEW d \in Client, NEW x
    PROVE  [f EXCEPT ![d] = @ \ {x}] \in [Client -> SUBSET Asks]
<1>1. f[d] \ {x} \in SUBSET Asks
  OBVIOUS
<1> QED BY <1>1

LEMMA FramesAreFrames ==
    ASSUME NEW n \in Nat
    PROVE  Paint(n) \in Frames /\ Data(n) \in Frames /\ Exit(n) \in Frames /\ Lines(n) \in Frames
BY DEF Paint, Data, Exit, Lines, Frames

\* One request more among those a pump has not read.
LEMMA AskingMore ==
    ASSUME NEW a \in [Client -> SUBSET Asks], NEW c \in Client, NEW x \in Asks
    PROVE  [a EXCEPT ![c] = @ \cup {x}] \in [Client -> SUBSET Asks]
<1>1. a[c] \cup {x} \in SUBSET Asks
  OBVIOUS
<1> QED BY <1>1

LEMMA TypeStep == TypeOK /\ [Next]_vars => TypeOK'
<1> SUFFICES ASSUME TypeOK, [Next]_vars
             PROVE  TypeOK'
  OBVIOUS
<1> USE OutputAssumption DEF TypeOK
<1>1. CASE Write \/ ChildDies \/ Read \/ Reap \/ Drain \/ SendExit
  <2>1. UNCHANGED <<pump, pos, holding, wire, asked, box, shown, told>>
    BY <1>1 DEF Write, ChildDies, Read, Reap, Drain, SendExit, Ingest, pumpVars, clientVars
  <2>2. /\ alive' \in BOOLEAN
        /\ written' \in 0 .. MaxChunks
        /\ lastWords' \in Nat /\ lastWords' <= written'
        /\ printed' \in Nat /\ printed' <= written'
    <3>1. CASE Write
      BY <3>1 DEF Write
    <3>2. CASE ChildDies
      <4>1. written \in Nat
        OBVIOUS
      <4>2. alive' = FALSE /\ lastWords' = written /\ written' = written /\ printed' = printed
        BY <3>2 DEF ChildDies
      <4>3. lastWords' \in Nat /\ lastWords' <= written'
        BY <4>1, <4>2
      <4> QED BY <4>2, <4>3
    <3>3. CASE Read \/ Drain
      BY <3>3 DEF Read, Drain, Ingest, childVars
    <3>4. CASE Reap \/ SendExit
      BY <3>4 DEF Reap, SendExit, childVars
    <3> QED BY <1>1, <3>1, <3>2, <3>3, <3>4
  <2>3. reaper' \in {"waiting", "draining", "sent"} /\ left' \in 0 .. DrainReads
    BY <1>1 DEF Write, ChildDies, Read, Reap, Drain, SendExit, Ingest, reaperVars
  <2> QED BY <2>1, <2>2, <2>3
<1>2. ASSUME NEW c \in Client, Node(c) \/ Person(c) \/ Boxing(c)
      PROVE  UNCHANGED <<alive, written, lastWords, printed, reaper, left>>
  BY <1>2 DEF Node, Person, Boxing, Find, Join, TakeChunk, AnswerResync, AnswerLines, SeeExit, TellExit,
           Send, SendTimesOut, Leave, HangUp, Receive, OpenBox, CloseBox, AskResync, AskLines,
           reaperVars, childVars
<1>3. ASSUME NEW c \in Client, Find(c)
      PROVE  TypeOK'
  BY <1>2, <1>3 DEF Find, Person, clientVars
<1>4. ASSUME NEW c \in Client, Join(c) \/ AnswerResync(c)
      PROVE  TypeOK'
  <2>1. Paint(printed) \in Frames
    BY FramesAreFrames
  <2>2. holding' \in [Client -> Frames \cup {Idle}] /\ pos' \in [Client -> Nat]
    <3>1. Resubscribe(c)
      BY <1>4 DEF Join, AnswerResync
    <3>2. printed \in Nat
      OBVIOUS
    <3> QED BY <2>1, <3>1, <3>2 DEF Resubscribe
  <2>3. /\ pump' \in [Client -> {"off", "found", "running", "draining", "over"}]
        /\ UNCHANGED <<wire, box, shown, told>>
    BY <1>4 DEF Join, AnswerResync, clientVars
  <2>4. asked' \in [Client -> SUBSET Asks]
    <3>1. UNCHANGED asked \/ asked' = [asked EXCEPT ![c] = @ \ {"screen"}]
      BY <1>4 DEF Join, AnswerResync
    <3>2. asked \in [Client -> SUBSET Asks]
      OBVIOUS
    <3> HIDE DEF TypeOK
    <3> QED BY <3>1, <3>2, AskingLess
  <2>5. UNCHANGED <<alive, written, lastWords, printed, reaper, left>>
    BY <1>2, <1>4 DEF Node
  <2> QED BY <2>2, <2>3, <2>4, <2>5
<1>5. ASSUME NEW c \in Client, TakeChunk(c)
      PROVE  TypeOK'
  <2>1. Paint(printed) \in Frames /\ pos[c] + 1 \in Nat /\ Data(pos[c] + 1) \in Frames
    BY FramesAreFrames
  <2>2. holding' \in [Client -> Frames \cup {Idle}] /\ pos' \in [Client -> Nat]
    BY <1>5, <2>1 DEF TakeChunk, Resubscribe
  <2> QED BY <1>2, <1>5, <2>2 DEF TakeChunk, Node, clientVars
<1>6. ASSUME NEW c \in Client, SeeExit(c) \/ TellExit(c) \/ AnswerLines(c)
      PROVE  TypeOK'
  <2>1. Exit(printed) \in Frames /\ Lines(pos[c]) \in Frames
    BY FramesAreFrames
  <2>2. holding' \in [Client -> Frames \cup {Idle}]
    BY <1>6, <2>1 DEF SeeExit, TellExit, AnswerLines
  <2>3. pump' \in [Client -> {"off", "found", "running", "draining", "over"}]
    BY <1>6 DEF SeeExit, TellExit, AnswerLines
  <2>4. asked' \in [Client -> SUBSET Asks]
    <3>1. UNCHANGED asked \/ asked' = [asked EXCEPT ![c] = @ \ {"lines"}]
      BY <1>6 DEF SeeExit, TellExit, AnswerLines
    <3>2. asked \in [Client -> SUBSET Asks]
      OBVIOUS
    <3> HIDE DEF TypeOK
    <3> QED BY <3>1, <3>2, AskingLess
  <2>5. UNCHANGED <<pos, wire, box, shown, told>>
    BY <1>6 DEF SeeExit, TellExit, AnswerLines, clientVars
  <2>6. UNCHANGED <<alive, written, lastWords, printed, reaper, left>>
    BY <1>2, <1>6 DEF Node, Boxing
  <2> QED BY <2>2, <2>3, <2>4, <2>5, <2>6
<1>7. ASSUME NEW c \in Client, Send(c)
      PROVE  TypeOK'
  <2>1. holding[c] \in Frames
    BY <1>7 DEF Send
  <2>2. wire' \in [Client -> Seq(Frames)]
    BY <1>7, <2>1 DEF Send
  <2> QED BY <1>2, <1>7, <2>2 DEF Send, Node, clientVars
<1>8. ASSUME NEW c \in Client, SendTimesOut(c) \/ Leave(c)
      PROVE  TypeOK'
  <2>1. HangUp(c)
    BY <1>8 DEF SendTimesOut, Leave
  <2>2. wire' \in [Client -> Seq(Frames)]
    <3>1. <<>> \in Seq(Frames)
      OBVIOUS
    <3> QED BY <2>1, <3>1 DEF HangUp
  <2>3. /\ pump' \in [Client -> {"off", "found", "running", "draining", "over"}]
        /\ holding' \in [Client -> Frames \cup {Idle}]
        /\ asked' \in [Client -> SUBSET Asks] /\ box' \in [Client -> BOOLEAN]
        /\ UNCHANGED <<pos, shown, told>>
    BY <2>1 DEF HangUp
  <2>4. UNCHANGED <<alive, written, lastWords, printed, reaper, left>>
    BY <1>2, <1>8 DEF Node, Person, Boxing
  <2> QED BY <2>2, <2>3, <2>4
<1>9. ASSUME NEW c \in Client, Receive(c)
      PROVE  TypeOK'
  <2>1. Head(wire[c]) \in Frames /\ Tail(wire[c]) \in Seq(Frames)
    BY <1>9 DEF Receive
  <2>2. Painted(Head(wire[c]), shown[c]) \in Nat \cup {Garbled}
    BY <2>1 DEF Painted, Frames, Garbled
  <2>3. shown' \in [Client -> Nat \cup {Garbled}]
    BY <1>9, <2>2 DEF Receive
  <2>4. wire' \in [Client -> Seq(Frames)]
    <3>1. <<>> \in Seq(Frames)
      OBVIOUS
    <3>2. wire' = [wire EXCEPT ![c] = <<>>] \/ wire' = [wire EXCEPT ![c] = Tail(wire[c])]
      BY <1>9 DEF Receive
    <3> QED BY <2>1, <3>1, <3>2
  <2>5. /\ told' \in [Client -> BOOLEAN] /\ asked' \in [Client -> SUBSET Asks]
        /\ box' \in [Client -> BOOLEAN]
        /\ pump' \in [Client -> {"off", "found", "running", "draining", "over"}]
        /\ UNCHANGED <<pos, holding>>
    BY <1>9 DEF Receive
  <2> QED BY <1>2, <1>9, <2>3, <2>4, <2>5 DEF Person
<1>10. ASSUME NEW c \in Client, OpenBox(c) \/ CloseBox(c) \/ AskResync(c) \/ AskLines(c)
      PROVE  TypeOK'
  <2>1. asked' \in [Client -> SUBSET Asks]
    <3>1. \/ UNCHANGED asked
          \/ asked' = [asked EXCEPT ![c] = @ \cup {"screen"}]
          \/ asked' = [asked EXCEPT ![c] = @ \cup {"lines"}]
      BY <1>10 DEF OpenBox, CloseBox, AskResync, AskLines
    <3>2. "screen" \in Asks /\ "lines" \in Asks
      BY DEF Asks
    <3>3. asked \in [Client -> SUBSET Asks]
      OBVIOUS
    <3>4. CASE UNCHANGED asked
      BY <3>3, <3>4
    <3>5. CASE asked' = [asked EXCEPT ![c] = @ \cup {"screen"}]
      <4>1. [asked EXCEPT ![c] = @ \cup {"screen"}] \in [Client -> SUBSET Asks]
        BY <3>2, <3>3, AskingMore
      <4> QED BY <3>5, <4>1
    <3>6. CASE asked' = [asked EXCEPT ![c] = @ \cup {"lines"}]
      <4>1. [asked EXCEPT ![c] = @ \cup {"lines"}] \in [Client -> SUBSET Asks]
        BY <3>2, <3>3, AskingMore
      <4> QED BY <3>6, <4>1
    <3> QED BY <3>1, <3>4, <3>5, <3>6
  <2>2. box' \in [Client -> BOOLEAN] /\ shown' \in [Client -> Nat \cup {Garbled}]
    BY <1>10 DEF OpenBox, CloseBox, AskResync, AskLines, clientVars
  <2>3. UNCHANGED <<pump, pos, holding, wire, told>>
    BY <1>10 DEF OpenBox, CloseBox, AskResync, AskLines, pumpVars, clientVars
  <2>4. UNCHANGED <<alive, written, lastWords, printed, reaper, left>>
    BY <1>2, <1>10 DEF Person, Boxing
  <2> QED BY <2>1, <2>2, <2>3, <2>4
<1>11. CASE UNCHANGED vars
  BY <1>11 DEF vars, reaperVars, childVars, pumpVars, clientVars
<1> QED
  BY <1>1, <1>3, <1>4, <1>5, <1>6, <1>7, <1>8, <1>9, <1>10, <1>11 DEF Next, Client, Node, Person, Boxing

LEMMA LastWordsStep == TypeOK /\ LastWordsAreRead /\ [Next]_vars => LastWordsAreRead'
<1> SUFFICES ASSUME TypeOK, LastWordsAreRead, [Next]_vars
             PROVE  LastWordsAreRead'
  OBVIOUS
<1> USE OutputAssumption DEF TypeOK, LastWordsAreRead
<1>1. CASE Write \/ ChildDies \/ Read
  BY <1>1 DEF Write, ChildDies, Read, Ingest, reaperVars, childVars
<1>2. CASE Reap \/ Drain \/ SendExit
  BY <1>2 DEF Reap, Drain, SendExit, Ingest, reaperVars, childVars
<1>3. ASSUME NEW c \in Client, Node(c) \/ Person(c) \/ Boxing(c)
      PROVE  LastWordsAreRead'
  BY <1>3 DEF Node, Person, Boxing, Find, Join, TakeChunk, AnswerResync, AnswerLines, SeeExit, TellExit,
           Send, SendTimesOut, Leave, HangUp, Receive, OpenBox, CloseBox, AskResync, AskLines,
           reaperVars, childVars
<1>4. CASE UNCHANGED vars
  BY <1>4 DEF vars, reaperVars, childVars
<1> QED BY <1>1, <1>2, <1>3, <1>4 DEF Next, Client

(***************************************************************************)
(* The chain of one client.                                                *)
(***************************************************************************)

\* A step that leaves a client's attachment alone leaves its chain whole.
LEMMA Untouched ==
    ASSUME NEW c \in Plain, Link(c), UNCHANGED <<printed, reaper>>,
           UNCHANGED <<shown[c], pos[c], holding[c], wire[c], pump[c], told[c], box[c]>>
    PROVE  Link(c)'
BY DEF Link, Chain, Stages, Follows, Before, End

\* The child, the reader and the reaper add screens, and add none once the
\* exit is out.
LEMMA SessionStep ==
    ASSUME TypeOK, NEW c \in Plain, Link(c),
           Write \/ ChildDies \/ Read \/ Reap \/ Drain \/ SendExit
    PROVE  Link(c)'
<1> c \in Client
  BY DEF Client
<1>1. UNCHANGED <<pump, pos, holding, wire, asked, box, shown, told>>
  BY DEF Write, ChildDies, Read, Reap, Drain, SendExit, Ingest, pumpVars, clientVars
<1>2. /\ printed \in Nat /\ printed' \in Nat /\ printed <= printed'
      /\ reaper = "sent" => printed' = printed /\ reaper' = "sent"
  <2>1. CASE Write \/ ChildDies
    BY <2>1 DEF Write, ChildDies, reaperVars, TypeOK
  <2>2. CASE Read \/ Drain
    BY <2>2 DEF Read, Drain, Ingest, TypeOK
  <2>3. CASE Reap \/ SendExit
    BY <2>3 DEF Reap, SendExit, TypeOK
  <2> QED BY <2>1, <2>2, <2>3
<1>3. /\ wire[c] \in Seq(Frames) /\ holding[c] \in Frames \cup {Idle} /\ pos[c] \in Nat
      /\ \A i \in 1 .. Len(wire[c]) : wire[c][i].n \in Nat
  <2>1. wire[c] \in Seq(Frames) /\ holding[c] \in Frames \cup {Idle} /\ pos[c] \in Nat
    BY DEF TypeOK
  <2>2. ASSUME NEW i \in 1 .. Len(wire[c])
        PROVE  wire[c][i] \in Frames
    BY <2>1
  <2> QED BY <2>1, <2>2 DEF Frames
<1>4. Chain(c)'
  <2>1. \A i \in 1 .. Len(wire[c]) : Follows(wire[c][i], Before(c, i)) => Follows(wire[c][i], Before(c, i))'
    <3> SUFFICES ASSUME NEW i \in 1 .. Len(wire[c]), Follows(wire[c][i], Before(c, i))
                 PROVE  Follows(wire[c][i], Before(c, i))'
      OBVIOUS
    <3>1. wire[c][i].kind = "exit" => printed' = printed
      BY <1>2 DEF Link, Stages
    <3> QED BY <1>1, <1>2, <1>3, <3>1 DEF Follows, Before
  <2>2. holding[c] # Idle /\ Follows(holding[c], End(c)) => Follows(holding[c], End(c))'
    <3> SUFFICES ASSUME holding[c] # Idle, Follows(holding[c], End(c))
                 PROVE  Follows(holding[c], End(c))'
      OBVIOUS
    <3>1. holding[c].kind = "exit" => printed' = printed
      BY <1>2 DEF Link, Stages
    <3>2. holding[c].n \in Nat
      BY <1>3 DEF Frames
    <3> QED BY <1>1, <1>2, <3>1, <3>2 DEF Follows, End
  <2> QED BY <1>1, <1>2, <1>3, <2>1, <2>2 DEF Link, Chain, End
<1>5. Stages(c)'
  BY <1>1, <1>2 DEF Link, Stages
<1> QED BY <1>4, <1>5 DEF Link

\* The pieces of one client's state, typed.
LEMMA Pieces ==
    ASSUME TypeOK, NEW c \in Plain
    PROVE  /\ c \in Client
           /\ printed \in Nat /\ pos[c] \in Nat
           /\ holding[c] \in Frames \cup {Idle}
           /\ wire[c] \in Seq(Frames)
BY DEF TypeOK, Client

\* Attaching, and every new subscription: the repaint is of the newest screen.
LEMMA ResubscribeStep ==
    ASSUME TypeOK, NEW c \in Plain, Link(c), holding[c] = Idle, Resubscribe(c),
           UNCHANGED <<printed, reaper, wire, shown, told, box>>,
           \/ pump[c] = "found" /\ pump' = [pump EXCEPT ![c] = "running"]
           \/ pump[c] \in {"running", "draining"} /\ UNCHANGED pump
    PROVE  Link(c)'
<1>1. /\ c \in Client /\ printed \in Nat /\ wire[c] \in Seq(Frames)
      /\ pos' = [pos EXCEPT ![c] = printed] /\ holding' = [holding EXCEPT ![c] = Paint(printed)]
  BY Pieces DEF Resubscribe
<1>2. pos'[c] = printed /\ holding'[c] = Paint(printed) /\ pump'[c] \in {"running", "draining"}
  BY <1>1 DEF TypeOK
<1>3. End(c) \in Nat /\ End(c) <= printed
  <2>1. CASE wire[c] = <<>>
    BY <2>1 DEF Link, Chain, End
  <2>2. CASE wire[c] # <<>>
    <3>1. Len(wire[c]) \in 1 .. Len(wire[c])
      BY <1>1, <2>2
    <3>2. wire[c][Len(wire[c])] \in Frames
      BY <1>1, <3>1
    <3> QED BY <2>2, <3>1, <3>2 DEF Link, Chain, Follows, End, Frames
  <2> QED BY <2>1, <2>2
<1>4. Chain(c)'
  <2>1. Follows(holding[c], End(c))'
    BY <1>1, <1>2, <1>3 DEF Follows, Paint, End
  <2>2. \A i \in 1 .. Len(wire[c]) : Follows(wire[c][i], Before(c, i))'
    BY DEF Link, Chain, Follows, Before
  <2> QED BY <1>1, <1>2, <2>1, <2>2 DEF Link, Chain, Paint, Idle
<1>5. Stages(c)'
  BY <1>1, <1>2 DEF Link, Stages, Paint, Idle, TypeOK
<1> QED BY <1>4, <1>5 DEF Link

\* The next chunk follows the end of the chain.
LEMMA ChunkStep ==
    ASSUME TypeOK, NEW c \in Plain, Link(c), Free(c), pos[c] < printed,
           pos' = [pos EXCEPT ![c] = @ + 1],
           holding' = [holding EXCEPT ![c] = Data(pos[c] + 1)],
           UNCHANGED <<printed, reaper, pump, wire, shown, told, box>>
    PROVE  Link(c)'
<1>1. c \in Client /\ printed \in Nat /\ pos[c] \in Nat
  BY Pieces
<1>2. pos'[c] = pos[c] + 1 /\ holding'[c] = Data(pos[c] + 1) /\ pos[c] = End(c)
  BY <1>1 DEF TypeOK, Free, Link, Chain
<1>3. Chain(c)'
  <2>1. Follows(holding[c], End(c))'
    BY <1>1, <1>2 DEF Follows, Data, End
  <2>2. \A i \in 1 .. Len(wire[c]) : Follows(wire[c][i], Before(c, i))'
    BY DEF Link, Chain, Follows, Before
  <2> QED BY <1>1, <1>2, <2>1, <2>2 DEF Link, Chain, Data, Idle
<1>4. Stages(c)'
  BY <1>1, <1>2 DEF Link, Stages, Free, Data, Idle
<1> QED BY <1>3, <1>4 DEF Link

\* The exit comes after the last screen there is.
LEMMA TellExitStep ==
    ASSUME TypeOK, NEW c \in Plain, Link(c), TellExit(c)
    PROVE  Link(c)'
<1>1. c \in Client /\ printed \in Nat /\ pos[c] \in Nat
  BY Pieces
<1>2. /\ holding'[c] = Exit(printed) /\ pos[c] = End(c) /\ pos[c] = printed
      /\ pump[c] = "draining"
      /\ UNCHANGED <<printed, reaper, pump, pos, wire, shown, told, box>>
  BY <1>1 DEF TypeOK, TellExit, Free, Link, Chain, reaperVars, clientVars
<1>3. Chain(c)'
  <2>1. Follows(holding[c], End(c))'
    BY <1>1, <1>2 DEF Follows, Exit, End
  <2>2. \A i \in 1 .. Len(wire[c]) : Follows(wire[c][i], Before(c, i))'
    BY <1>2 DEF Link, Chain, Follows, Before
  <2> QED BY <1>1, <1>2, <2>1, <2>2 DEF Link, Chain, Exit, Idle
<1>4. Stages(c)'
  BY <1>1, <1>2 DEF Link, Stages, Exit, Idle
<1> QED BY <1>3, <1>4 DEF Link

\* The answer to a view leaves the screen where the chain ends.
LEMMA AnswerLinesStep ==
    ASSUME TypeOK, NEW c \in Plain, Link(c), AnswerLines(c)
    PROVE  Link(c)'
<1>1. c \in Client /\ printed \in Nat /\ pos[c] \in Nat
  BY Pieces
<1>2. /\ holding'[c] = Lines(pos[c]) /\ pos[c] = End(c) /\ pos[c] <= printed
      /\ pump[c] = "running"
      /\ UNCHANGED <<printed, reaper, pump, pos, wire, shown, told, box>>
  BY <1>1 DEF TypeOK, AnswerLines, Free, Link, Chain, reaperVars, clientVars
<1>3. Chain(c)'
  <2>1. Follows(holding[c], End(c))'
    BY <1>1, <1>2 DEF Follows, Lines, End
  <2>2. \A i \in 1 .. Len(wire[c]) : Follows(wire[c][i], Before(c, i))'
    BY <1>2 DEF Link, Chain, Follows, Before
  <2> QED BY <1>1, <1>2, <2>1, <2>2 DEF Link, Chain, Lines, Idle
<1>4. Stages(c)'
  BY <1>1, <1>2 DEF Link, Stages, Lines, Idle
<1> QED BY <1>3, <1>4 DEF Link

\* Writing the frame moves it from the pump to the end of the wire.
LEMMA SendStep ==
    ASSUME TypeOK, NEW c \in Plain, Link(c), Send(c)
    PROVE  Link(c)'
<1> DEFINE frame == holding[c]
           n == Len(wire[c])
<1>1. /\ c \in Client /\ wire[c] \in Seq(Frames) /\ frame \in Frames /\ n \in Nat
  BY Pieces DEF Send
<1>2. /\ wire'[c] = Append(wire[c], frame) /\ holding'[c] = Idle
      /\ pump'[c] = IF frame.kind = "exit" THEN "over" ELSE pump[c]
      /\ UNCHANGED <<printed, reaper, pos, shown, told, box>>
  BY <1>1 DEF Send, TypeOK, reaperVars, clientVars
<1>3. /\ Len(wire'[c]) = n + 1 /\ wire'[c][n + 1] = frame
      /\ \A i \in 1 .. n : wire'[c][i] = wire[c][i]
  BY <1>1, <1>2
<1>4. Follows(frame, End(c)) /\ pos[c] = frame.n /\ pump[c] \in {"running", "draining"}
  BY <1>1 DEF Link, Chain, Stages, Send, TypeOK
<1>5. Chain(c)'
  <2>1. ASSUME NEW i \in 1 .. n + 1
        PROVE  Follows(wire[c][i], Before(c, i))'
    <3>1. CASE i \in 1 .. n
      <4>1. Before(c, i)' = Before(c, i)
        BY <1>1, <1>2, <1>3, <3>1 DEF Before
      <4> QED BY <1>2, <1>3, <3>1, <4>1 DEF Link, Chain, Follows
    <3>2. CASE i = n + 1
      <4>1. Before(c, i)' = End(c)
        BY <1>1, <1>2, <1>3, <3>2 DEF Before, End
      <4> QED BY <1>2, <1>3, <1>4, <3>2, <4>1 DEF Follows
    <3> QED BY <1>1, <3>1, <3>2
  <2>2. End(c)' = frame.n
    BY <1>1, <1>2, <1>3 DEF End
  <2> QED BY <1>2, <1>3, <1>4, <2>1, <2>2 DEF Link, Chain
<1>6. Stages(c)'
  <2>1. ASSUME NEW i \in 1 .. n + 1, wire'[c][i].kind = "exit"
        PROVE  pump'[c] = "over"
    <3>1. i = n + 1
      <4>1. \A j \in 1 .. n : wire[c][j].kind # "exit"
        BY <1>4 DEF Link, Stages
      <4>2. i \in 1 .. n \/ i = n + 1
        BY <1>1, <2>1
      <4> QED BY <1>3, <2>1, <4>1, <4>2
    <3> QED BY <1>2, <1>3, <2>1, <3>1
  <2>2. frame.kind = "exit" => reaper = "sent"
    BY DEF Link, Stages
  <2>3. Idle.kind # "exit" /\ ~told[c]
    BY <1>4 DEF Idle, Link, Stages
  <2> QED BY <1>2, <1>3, <1>4, <2>1, <2>2, <2>3 DEF Link, Stages
<1> QED BY <1>5, <1>6 DEF Link

\* A connection that goes takes everything in flight with it.
LEMMA HangUpStep ==
    ASSUME TypeOK, NEW c \in Plain, Link(c), HangUp(c),
           pump[c] \in {"running", "draining", "over"}
    PROVE  Link(c)'
<1>1. c \in Client /\ printed \in Nat /\ pos[c] \in Nat
  BY Pieces
<1>2. /\ wire'[c] = <<>> /\ holding'[c] = Idle /\ pump'[c] = "off" /\ box'[c] = FALSE
      /\ UNCHANGED <<printed, reaper, pos, shown, told>>
  BY <1>1 DEF HangUp, TypeOK, reaperVars
<1>3. ~told[c]
  BY DEF Link, Stages
<1> QED BY <1>1, <1>2, <1>3 DEF Link, Chain, Stages, Idle

\* The frame a client receives is the first link of the chain.
LEMMA ReceiveStep ==
    ASSUME TypeOK, NEW c \in Plain, Link(c), Receive(c)
    PROVE  Link(c)'
<1> DEFINE frame == Head(wire[c])
           n == Len(wire[c])
<1>1. /\ c \in Client /\ wire[c] \in Seq(Frames) /\ wire[c] # <<>> /\ printed \in Nat
      /\ pos[c] \in Nat /\ ~box[c] /\ shown[c] \in Nat /\ shown[c] <= printed
  BY Pieces DEF Receive, Link, Chain, Stages
<1>2. n \in Nat \ {0} /\ frame = wire[c][1] /\ frame \in Frames /\ wire[c][n] \in Frames
  BY <1>1
<1>3. Follows(frame, shown[c])
  <2>1. 1 \in 1 .. n
    BY <1>2
  <2> QED BY <1>2, <2>1 DEF Link, Chain, Before
<1>4. shown'[c] = frame.n /\ frame.n \in Nat /\ frame.n <= printed
  <2>1. Painted(frame, shown[c]) = frame.n
    BY <1>2, <1>3 DEF Painted, Follows, Frames
  <2>2. shown'[c] = Painted(frame, shown[c])
    BY <1>1 DEF Receive, TypeOK
  <2> QED BY <1>2, <1>3, <2>1, <2>2 DEF Follows, Frames
<1>5. CASE frame.kind = "exit"
  <2>1. /\ wire'[c] = <<>> /\ pump'[c] = "off" /\ told'[c] = TRUE /\ box'[c] = FALSE
        /\ UNCHANGED <<printed, reaper, pos, holding>>
    BY <1>1, <1>5 DEF Receive, TypeOK, reaperVars
  <2>2. pump[c] = "over" /\ reaper = "sent" /\ holding[c] = Idle
    <3>1. 1 \in 1 .. n
      BY <1>2
    <3> QED BY <1>2, <1>5, <3>1 DEF Link, Stages
  <2>3. frame.n = printed
    BY <1>3, <1>5 DEF Follows
  <2> QED BY <1>1, <1>4, <2>1, <2>2, <2>3 DEF Link, Chain, Stages, Idle
<1>6. CASE frame.kind # "exit"
  <2>1. /\ wire'[c] = Tail(wire[c])
        /\ UNCHANGED <<printed, reaper, pos, holding, told, pump, box>>
    BY <1>1, <1>6 DEF Receive, TypeOK, reaperVars
  <2>2. /\ Len(wire'[c]) = n - 1
        /\ \A i \in 1 .. n - 1 : wire'[c][i] = wire[c][i + 1]
    BY <1>1, <1>2, <2>1
  <2>3. ASSUME NEW i \in 1 .. n - 1
        PROVE  Follows(wire[c][i], Before(c, i))'
    <3>1. Before(c, i)' = Before(c, i + 1)
      <4>1. CASE i = 1
        <5>1. Before(c, 1)' = shown'[c] /\ Before(c, 2) = wire[c][1].n
          BY DEF Before
        <5> QED BY <1>2, <1>4, <4>1, <5>1
      <4>2. CASE i # 1
        <5>1. i - 1 \in 1 .. n - 1 /\ (i - 1) + 1 = i /\ (i + 1) - 1 = i /\ i + 1 # 1
          BY <1>2, <4>2
        <5>2. wire'[c][i - 1] = wire[c][i]
          BY <2>2, <5>1
        <5> QED BY <4>2, <5>1, <5>2 DEF Before
      <4> QED BY <4>1, <4>2
    <3>2. i + 1 \in 1 .. n /\ wire'[c][i] = wire[c][i + 1]
      BY <1>2, <2>2
    <3> QED BY <2>1, <3>1, <3>2 DEF Link, Chain, Follows
  <2>4. End(c)' = End(c)
    <3>1. CASE n = 1
      <4>1. End(c) = frame.n
        BY <1>1, <1>2, <3>1 DEF End
      <4>2. wire'[c] = <<>>
        <5>1. wire'[c] \in Seq(Frames)
          BY <1>1, <2>1
        <5>2. Len(wire'[c]) = 0
          BY <2>2, <3>1
        <5> QED BY <5>1, <5>2
      <4> QED BY <1>4, <4>1, <4>2 DEF End
    <3>2. CASE n # 1
      <4>1. n - 1 \in 1 .. n - 1
        <5>1. n \in Nat \ {0}
          BY <1>2
        <5> HIDE DEF n
        <5> QED BY <3>2, <5>1
      <4>2. wire'[c][n - 1] = wire[c][n] /\ wire'[c] # <<>>
        BY <1>2, <2>1, <2>2, <4>1
      <4> QED BY <1>1, <2>2, <4>2 DEF End
    <3> QED BY <3>1, <3>2
  <2>5. Chain(c)'
    BY <1>4, <2>1, <2>2, <2>3, <2>4 DEF Link, Chain, Follows
  <2>6. Stages(c)'
    <3>1. ~told[c]
      BY <1>1 DEF Link, Stages
    <3>2. ASSUME NEW i \in 1 .. n - 1, wire'[c][i].kind = "exit"
          PROVE  pump[c] = "over"
      <4>1. i + 1 \in 1 .. n
        BY <1>2
      <4> QED BY <2>2, <3>2, <4>1 DEF Link, Stages
    <3>3. pump[c] \notin {"off", "found"}
      BY <1>1 DEF Link, Stages
    <3> QED BY <1>1, <2>1, <2>2, <3>1, <3>2, <3>3 DEF Link, Stages
  <2> QED BY <2>5, <2>6 DEF Link
<1> QED BY <1>5, <1>6

(***************************************************************************)
(* One step, and the theorems.                                             *)
(***************************************************************************)

\* What one client does, it does to its own attachment.
LEMMA ClientStep ==
    ASSUME TypeOK, NEW c \in Plain, Link(c), NEW d \in Client, Node(d) \/ Person(d) \/ Boxing(d)
    PROVE  Link(c)'
<1>1. UNCHANGED <<printed, reaper>>
  BY DEF Node, Person, Boxing, Find, Join, TakeChunk, AnswerResync, AnswerLines, SeeExit, TellExit,
           Send, SendTimesOut, Leave, HangUp, Receive, OpenBox, CloseBox, AskResync, AskLines,
           reaperVars
<1>2. CASE d # c
  <2>1. UNCHANGED <<shown[c], pos[c], told[c]>>
    BY <1>2, Pieces DEF TypeOK, Node, Person, Boxing, Find, Join, TakeChunk, AnswerResync, AnswerLines,
             SeeExit, TellExit, Send, SendTimesOut, Leave, HangUp, Receive, OpenBox, CloseBox,
             AskResync, AskLines, Resubscribe, pumpVars, clientVars
  <2>2. UNCHANGED <<holding[c], wire[c]>>
    BY <1>2, Pieces DEF TypeOK, Node, Person, Boxing, Find, Join, TakeChunk, AnswerResync, AnswerLines,
             SeeExit, TellExit, Send, SendTimesOut, Leave, HangUp, Receive, OpenBox, CloseBox,
             AskResync, AskLines, Resubscribe, pumpVars, clientVars
  <2>3. UNCHANGED <<pump[c], box[c]>>
    BY <1>2, Pieces DEF TypeOK, Node, Person, Boxing, Find, Join, TakeChunk, AnswerResync, AnswerLines,
             SeeExit, TellExit, Send, SendTimesOut, Leave, HangUp, Receive, OpenBox, CloseBox,
             AskResync, AskLines, Resubscribe, pumpVars, clientVars
  <2> QED BY <1>1, <2>1, <2>2, <2>3, Untouched
<1>3. CASE d = c
  <2>1. CASE Find(c)
    <3>1. UNCHANGED <<printed, reaper, pos, holding, wire, shown, told, box>>
      BY <2>1 DEF Find, reaperVars, clientVars
    <3>2. pump[c] = "off" /\ pump'[c] = "found" /\ ~told[c]
      BY <2>1, Pieces DEF Find, TypeOK, Link, Stages
    <3> QED BY <3>1, <3>2 DEF Link, Chain, Stages, Follows, Before, End
  <2>2. CASE Join(c)
    <3>1. holding[c] = Idle
      BY <2>2 DEF Join, Link, Stages
    <3> QED BY <2>2, <3>1, ResubscribeStep DEF Join, reaperVars, clientVars
  <2>3. CASE TakeChunk(c)
    <3>1. CASE Resubscribe(c)
      BY <2>3, <3>1, ResubscribeStep DEF TakeChunk, Free, reaperVars, clientVars
    <3>2. CASE ~Resubscribe(c)
      BY <2>3, <3>2, ChunkStep DEF TakeChunk, reaperVars, clientVars
    <3> QED BY <3>1, <3>2
  <2>4. CASE AnswerResync(c)
    BY <2>4, ResubscribeStep DEF AnswerResync, Free, reaperVars, clientVars
  <2>5. CASE SeeExit(c)
    <3>1. UNCHANGED <<printed, reaper, pos, holding, wire, shown, told, box>> /\ reaper = "sent"
      BY <2>5 DEF SeeExit, reaperVars, clientVars
    <3>2. pump[c] = "running" /\ pump'[c] = "draining" /\ holding[c] = Idle
      BY <2>5, Pieces DEF SeeExit, Free, TypeOK
    <3>3. Chain(c)'
      BY <3>1, <3>2 DEF Link, Chain, Follows, Before, End
    <3>4. Stages(c)'
      BY <3>1, <3>2 DEF Link, Stages
    <3> QED BY <3>3, <3>4 DEF Link
  <2>6. CASE TellExit(c)
    BY <2>6, TellExitStep
  <2>7. CASE Send(c)
    BY <2>7, SendStep
  <2>8. CASE SendTimesOut(c)
    <3>1. pump[c] \in {"running", "draining", "over"}
      BY <2>8, Pieces DEF SendTimesOut, Link, Stages, TypeOK
    <3> QED BY <2>8, <3>1, HangUpStep DEF SendTimesOut
  <2>9. CASE Leave(c)
    BY <2>9, HangUpStep DEF Leave
  <2>10. CASE Receive(c)
    BY <2>10, ReceiveStep
  <2>11. CASE OpenBox(c) \/ CloseBox(c)
    BY <2>11, OutputAssumption DEF OpenBox, CloseBox, Link, Stages
  <2>12. CASE AskResync(c) \/ AskLines(c)
    BY <2>12, <1>1, Untouched DEF AskResync, AskLines, pumpVars, clientVars
  <2>13. CASE AnswerLines(c)
    BY <2>13, AnswerLinesStep
  <2> QED BY <1>3, <2>1, <2>2, <2>3, <2>4, <2>5, <2>6, <2>7, <2>8, <2>9, <2>10, <2>11, <2>12, <2>13
             DEF Node, Person, Boxing
<1> QED BY <1>2, <1>3

LEMMA OInvStep == OInv /\ [Next]_vars => OInv'
<1> SUFFICES ASSUME OInv, [Next]_vars
             PROVE  OInv'
  OBVIOUS
<1>1. TypeOK' /\ LastWordsAreRead'
  BY TypeStep, LastWordsStep DEF OInv
<1>2. ASSUME NEW c \in Plain
      PROVE  Link(c)'
  <2>1. TypeOK /\ Link(c)
    BY DEF OInv
  <2>2. CASE Write \/ ChildDies \/ Read \/ Reap \/ Drain \/ SendExit
    BY <2>1, <2>2, SessionStep
  <2>3. ASSUME NEW d \in Client, Node(d) \/ Person(d) \/ Boxing(d)
        PROVE  Link(c)'
    BY <2>1, <2>3, ClientStep
  <2>4. CASE UNCHANGED vars
    BY <2>1, <2>4, Untouched DEF vars, reaperVars, pumpVars, clientVars
  <2> QED BY <2>2, <2>3, <2>4 DEF Next, Client
<1> QED BY <1>1, <1>2 DEF OInv

LEMMA Chained == Spec => []OInv
BY InitOInv, OInvStep, PTL DEF Spec

\* Every variable of the output path keeps its type, and every bound is kept.
THEOREM OutputTypes == Spec => []TypeOK
BY Chained, PTL DEF OInv

\* A terminal that paints what it is sent always shows a screen its session
\* had: no chunk is lost, doubled or out of order between subscriptions.
THEOREM NeverShowsGarbage == Spec => []NeverGarbled
<1>1. OInv => NeverGarbled
  <2>1. OInv => \A c \in Plain : shown[c] \in Nat
    BY DEF OInv, Link, Chain
  <2>2. Garbled \notin Nat
    BY DEF Garbled
  <2> QED BY <2>1, <2>2 DEF NeverGarbled
<1> QED BY <1>1, Chained, PTL

\* Whoever is told that the child died has seen all that it printed.
THEOREM LastWordsAreAlwaysShown == Spec => []LastWordsAreShown
<1>1. OInv => LastWordsAreShown
  <2> SUFFICES ASSUME OInv, NEW c \in Plain, told[c]
               PROVE  shown[c] >= lastWords
    BY DEF LastWordsAreShown
  <2>1. shown[c] = printed /\ reaper = "sent"
    BY DEF OInv, Link, Stages
  <2>2. printed \in Nat /\ lastWords \in Nat /\ lastWords <= printed
    BY <2>1 DEF OInv, TypeOK, LastWordsAreRead
  <2> QED BY <2>1, <2>2
<1> QED BY <1>1, Chained, PTL

(***************************************************************************)
(* The refinement: every step of the output path is a step of the promise  *)
(* Mirror makes, or no step of it at all.                                  *)
(***************************************************************************)

LEMMA InitMirrors == Init => Abstract!Init
BY DEF Init, Abstract!Init, mode, Client

\* The mode of each client, read off its pump.
LEMMA Modes ==
    ASSUME NEW c \in Plain
    PROVE  /\ pump[c] \in {"running", "draining", "over"} => mode[c] = "watching"
           /\ pump[c] \notin {"running", "draining", "over"} =>
                  mode[c] = IF told[c] THEN "told" ELSE "away"
BY DEF mode

\* What changes one client's attachment changes nobody else's mode.
LEMMA OneMode ==
    ASSUME NEW c \in Plain, NEW m, mode'[c] = m,
           \A d \in Plain \ {c} : UNCHANGED <<pump[d], told[d]>>
    PROVE  mode' = [mode EXCEPT ![c] = m]
<1>1. \A d \in Plain \ {c} : mode'[d] = mode[d]
  BY DEF mode
<1> QED BY <1>1 DEF mode

\* What the terminals show is a function of the clients that paint everything.
Showing == [c \in Plain |-> shown[c]]

LEMMA SessionMirrors ==
    ASSUME TypeOK, Write \/ ChildDies \/ Read \/ Reap \/ Drain \/ SendExit
    PROVE  [Abstract!Next]_(Abstract!vars)
<1>1. UNCHANGED <<Showing, mode>>
  BY DEF Write, ChildDies, Read, Reap, Drain, SendExit, Ingest, pumpVars, clientVars, mode, Showing
<1>2. CASE Write \/ ChildDies \/ Reap
  BY <1>1, <1>2 DEF Write, ChildDies, Reap, reaperVars, Showing, Abstract!vars
<1>3. CASE Read \/ Drain
  BY <1>1, <1>3 DEF Read, Drain, Ingest, reaperVars, Showing, Abstract!Progress, Abstract!Next
<1>4. CASE SendExit
  BY <1>1, <1>4 DEF SendExit, Showing, Abstract!Finish, Abstract!Next
<1> QED BY <1>2, <1>3, <1>4

LEMMA ClientMirrors ==
    ASSUME OInv, NEW d \in Client, Node(d) \/ Person(d) \/ Boxing(d)
    PROVE  [Abstract!Next]_(Abstract!vars)
<1>1. TypeOK /\ UNCHANGED <<printed, reaper>>
  BY DEF OInv, Node, Person, Boxing, Find, Join, TakeChunk, AnswerResync, AnswerLines, SeeExit,
           TellExit, Send, SendTimesOut, Leave, HangUp, Receive, OpenBox, CloseBox, AskResync, AskLines,
           reaperVars
<1>2. \A c \in Plain \ {d} : UNCHANGED <<shown[c], pump[c], told[c]>>
  BY <1>1, Pieces DEF TypeOK, Node, Person, Boxing, Find, Join, TakeChunk, AnswerResync, AnswerLines,
           SeeExit, TellExit, Send, SendTimesOut, Leave, HangUp, Receive, OpenBox, CloseBox, AskResync,
           AskLines, pumpVars, clientVars
<1>3. CASE d \notin Plain
  BY <1>1, <1>2, <1>3 DEF mode, Showing, Abstract!vars
<1>4. CASE d \in Plain
  <2>1. Link(d) /\ d \in Client
    BY <1>4 DEF OInv
  <2>2. ASSUME UNCHANGED <<shown[d], pump[d], told[d]>>
        PROVE  UNCHANGED Abstract!vars
    BY <1>1, <1>2, <2>2 DEF mode, Abstract!vars
  <2>3. CASE Find(d)
    <3>1. UNCHANGED <<shown, told>> /\ pump[d] = "off" /\ pump'[d] = "found"
      BY <2>1, <2>3, <1>1 DEF Find, clientVars, TypeOK
    <3> QED BY <1>1, <1>2, <3>1 DEF mode, Abstract!vars
  <2>4. CASE Join(d)
    <3>1. UNCHANGED <<shown, told>> /\ pump[d] = "found" /\ pump'[d] = "running"
      BY <2>1, <2>4, <1>1 DEF Join, clientVars, TypeOK
    <3>2. mode[d] # "watching" /\ mode'[d] = "watching"
      BY <1>4, <3>1 DEF mode
    <3>3. mode' = [mode EXCEPT ![d] = "watching"]
      BY <1>2, <1>4, <3>2, OneMode
    <3> QED BY <1>1, <1>4, <3>1, <3>2, <3>3 DEF Abstract!Join, Abstract!Next
  <2>5. CASE TakeChunk(d) \/ AnswerResync(d) \/ AnswerLines(d) \/ TellExit(d) \/ AskResync(d) \/ AskLines(d)
    <3>1. UNCHANGED <<shown, pump, told>>
      BY <2>5 DEF TakeChunk, AnswerResync, AnswerLines, TellExit, AskResync, AskLines, pumpVars, clientVars
    <3> QED BY <2>2, <3>1
  <2>6. CASE SeeExit(d) \/ Send(d)
    <3>1. /\ UNCHANGED <<shown, told>>
          /\ pump[d] \in {"running", "draining", "over"}
          /\ pump'[d] \in {"running", "draining", "over"}
      BY <2>1, <2>6, <1>1 DEF SeeExit, Send, clientVars, TypeOK, Link, Stages
    <3> QED BY <1>1, <1>2, <3>1 DEF mode, Abstract!vars
  <2>7. CASE SendTimesOut(d) \/ Leave(d)
    <3>1. /\ UNCHANGED <<shown, told>> /\ ~told[d]
          /\ pump[d] \in {"running", "draining", "over"} /\ pump'[d] = "off"
      BY <2>1, <2>7, <1>1 DEF SendTimesOut, Leave, HangUp, TypeOK, Link, Stages
    <3>2. mode[d] = "watching" /\ mode'[d] = "away"
      BY <1>4, <3>1 DEF mode
    <3>3. mode' = [mode EXCEPT ![d] = "away"]
      BY <1>2, <1>4, <3>2, OneMode
    <3> QED BY <1>1, <1>4, <3>1, <3>2, <3>3 DEF Abstract!Leave, Abstract!Next
  <2>8. CASE Receive(d)
    <3> DEFINE frame == Head(wire[d])
    <3>1. /\ wire[d] \in Seq(Frames) /\ wire[d] # <<>> /\ ~box[d] /\ shown[d] \in Nat
          /\ frame \in Frames /\ frame = wire[d][1] /\ Follows(frame, shown[d])
      <4>1. wire[d] \in Seq(Frames) /\ wire[d] # <<>> /\ ~box[d] /\ shown[d] \in Nat
        BY <1>1, <2>1, <2>8 DEF TypeOK, Receive, Link, Chain, Stages
      <4>2. 1 \in 1 .. Len(wire[d]) /\ frame = wire[d][1] /\ frame \in Frames
        BY <4>1
      <4> QED BY <2>1, <4>1, <4>2 DEF Link, Chain, Before
    <3>2. shown' = [shown EXCEPT ![d] = frame.n] /\ frame.n \in shown[d] .. printed
      <4>1. Painted(frame, shown[d]) = frame.n
        BY <3>1 DEF Painted, Follows, Frames
      <4>2. frame.n \in shown[d] .. printed
        BY <1>1, <3>1 DEF Follows, Frames, TypeOK
      <4> QED BY <2>8, <3>1, <4>1, <4>2 DEF Receive
    <3>3. pump[d] \in {"running", "draining", "over"}
      BY <1>1, <2>1, <3>1 DEF TypeOK, Link, Stages
    <3>4. CASE frame.kind = "exit"
      <4>1. pump[d] = "over" /\ reaper = "sent" /\ ~told[d]
        BY <2>1, <3>1, <3>3, <3>4 DEF Link, Stages
      <4>2. frame.n = shown[d] /\ shown[d] = printed /\ UNCHANGED <<Showing>>
        BY <1>1, <1>4, <2>1, <3>1, <3>2, <3>4 DEF Follows, Showing, TypeOK
      <4>3. pump'[d] = "off" /\ told'[d] = TRUE
        BY <1>1, <2>1, <2>8, <3>4 DEF Receive, TypeOK
      <4>4. mode[d] = "watching" /\ mode'[d] = "told"
        BY <1>4, <3>3, <4>3 DEF mode
      <4>5. mode' = [mode EXCEPT ![d] = "told"]
        BY <1>2, <1>4, <4>4, OneMode
      <4> QED BY <1>1, <1>4, <4>1, <4>2, <4>4, <4>5 DEF Showing, Abstract!Told, Abstract!Next
    <3>5. CASE frame.kind # "exit"
      <4>1. UNCHANGED <<told, pump>>
        BY <2>8, <3>5 DEF Receive
      <4>2. UNCHANGED mode /\ mode[d] = "watching"
        BY <1>4, <3>3, <4>1 DEF mode
      <4>3. Showing' = [Showing EXCEPT ![d] = frame.n]
        BY <1>1, <1>4, <2>1, <3>2 DEF Showing, TypeOK, Client
      <4>4. frame.n \in Showing[d] .. printed
        BY <1>4, <3>2 DEF Showing
      <4> QED BY <1>1, <1>4, <4>2, <4>3, <4>4 DEF Showing, Abstract!CatchUp, Abstract!Next
    <3> QED BY <3>4, <3>5
  <2>9. CASE OpenBox(d) \/ CloseBox(d)
    BY <1>4, <2>1, <2>9, OutputAssumption DEF OpenBox, CloseBox, Link, Stages
  <2> QED BY <2>3, <2>4, <2>5, <2>6, <2>7, <2>8, <2>9 DEF Node, Person, Boxing
<1> QED BY <1>3, <1>4

\* The output path keeps the promise of Mirror: no terminal goes back, none
\* shows what the session did not, and the exit comes with the last screen.
THEOREM OutputMirrors == Spec => MirrorsTheSession
<1>1. OInv /\ [Next]_vars => [Abstract!Next]_(Abstract!vars)
  <2> SUFFICES ASSUME OInv, [Next]_vars
               PROVE  [Abstract!Next]_(Abstract!vars)
    OBVIOUS
  <2>1. CASE UNCHANGED vars
    BY <2>1 DEF vars, reaperVars, pumpVars, clientVars, mode, Abstract!vars
  <2>2. TypeOK
    BY DEF OInv
  <2> QED BY <2>1, <2>2, SessionMirrors, ClientMirrors DEF Next, Client
<1> QED BY <1>1, InitMirrors, Chained, PTL DEF Spec, MirrorsTheSession, Abstract!Spec

(***************************************************************************)
(* A client with boxes.  While one is up its terminal misses what arrives; *)
(* from the next repaint on it is in the chain again, and until then that  *)
(* repaint is on its way.                                                  *)
(***************************************************************************)

\* A frame that takes a terminal from the screen n to its own, or from any.
Leads(frame, n) ==
    \/ frame.kind = "paint" \/ n = Garbled
    \/ frame.n = IF frame.kind = "data" THEN n + 1 ELSE n

Coming(c) ==
    \/ "screen" \in asked[c]
    \/ holding[c].kind = "paint"
    \/ \E i \in DOMAIN wire[c] : wire[c][i].kind = "paint"

Rejoins(c) ==
    /\ \A i \in 1 .. Len(wire[c]) : Leads(wire[c][i], Before(c, i))
    /\ holding[c] # Idle => Leads(holding[c], End(c)) /\ pos[c] = holding[c].n
    /\ (pump[c] \in {"running", "draining"} /\ holding[c] = Idle) => End(c) \in {Garbled, pos[c]}
    /\ pump[c] \in {"off", "found"} => wire[c] = <<>>
    /\ pump[c] \in {"off", "found", "over"} => holding[c] = Idle
    /\ \A i \in 1 .. Len(wire[c]) : wire[c][i].kind = "exit" => pump[c] = "over"
    /\ box[c] => shown[c] = Garbled
    /\ (pump[c] = "running" /\ shown[c] = Garbled /\ ~box[c]) => Coming(c)

BInv == TypeOK /\ \A c \in Boxed : Rejoins(c)

LEMMA BoxedPieces ==
    ASSUME TypeOK, NEW c \in Boxed
    PROVE  /\ c \in Client
           /\ printed \in Nat /\ pos[c] \in Nat
           /\ holding[c] \in Frames \cup {Idle}
           /\ wire[c] \in Seq(Frames)
           /\ shown[c] \in Nat \cup {Garbled}
BY DEF TypeOK, Client

LEMMA BoxedUntouched ==
    ASSUME NEW c \in Boxed, Rejoins(c),
           UNCHANGED <<shown[c], pos[c], holding[c], wire[c], pump[c], asked[c], box[c]>>
    PROVE  Rejoins(c)'
BY DEF Rejoins, Coming, Leads, Before, End

\* Whatever arm of the pump takes a frame in hand, it is one that comes after
\* those in flight, and a request for the screen is gone only with a repaint.
LEMMA TakenStep ==
    ASSUME TypeOK, NEW c \in Boxed, Rejoins(c), holding[c] = Idle,
           NEW frame \in Frames, holding'[c] = frame, pos'[c] = frame.n,
           Leads(frame, End(c)),
           pump[c] # "over", pump'[c] \in {"running", "draining"},
           pump'[c] = "running" => pump[c] = "running" \/ frame.kind = "paint",
           "screen" \in asked[c] => "screen" \in asked'[c] \/ frame.kind = "paint",
           UNCHANGED <<wire[c], shown[c], box[c]>>
    PROVE  Rejoins(c)'
<1>1. frame # Idle /\ Idle.kind # "paint"
  BY DEF Frames, Idle
<1>2. Leads(holding[c], End(c))'
  BY DEF Leads, End
<1>3. \A i \in 1 .. Len(wire[c]) : Leads(wire[c][i], Before(c, i))'
  BY DEF Rejoins, Leads, Before
<1>4. (pump[c] = "running" /\ shown[c] = Garbled /\ ~box[c] => Coming(c))'
  BY <1>1 DEF Rejoins, Coming
<1> QED BY <1>1, <1>2, <1>3, <1>4 DEF Rejoins

\* Writing the frame puts it behind those in flight.
LEMMA BoxedSendStep ==
    ASSUME TypeOK, NEW c \in Boxed, Rejoins(c), Send(c)
    PROVE  Rejoins(c)'
<1> DEFINE frame == holding[c]
           n == Len(wire[c])
<1>1. c \in Client /\ wire[c] \in Seq(Frames) /\ frame \in Frames /\ n \in Nat
  BY BoxedPieces DEF Send
<1>2. /\ wire'[c] = Append(wire[c], frame) /\ holding'[c] = Idle
      /\ pump'[c] = IF frame.kind = "exit" THEN "over" ELSE pump[c]
      /\ UNCHANGED <<pos, shown, box, asked>>
  BY <1>1 DEF Send, TypeOK, clientVars
<1>3. /\ Len(wire'[c]) = n + 1 /\ wire'[c][n + 1] = frame /\ wire'[c] # <<>>
      /\ \A i \in 1 .. n : wire'[c][i] = wire[c][i]
  BY <1>1, <1>2
<1>4. Leads(frame, End(c)) /\ pos[c] = frame.n /\ pump[c] \in {"running", "draining"}
  BY <1>1 DEF Rejoins, Send, TypeOK
<1>5. ASSUME NEW i \in 1 .. n + 1
      PROVE  Leads(wire[c][i], Before(c, i))'
  <2>1. CASE i \in 1 .. n
    <3>1. Before(c, i)' = Before(c, i)
      BY <1>1, <1>2, <1>3, <2>1 DEF Before
    <3> QED BY <1>3, <2>1, <3>1 DEF Rejoins, Leads
  <2>2. CASE i = n + 1
    <3>1. Before(c, i)' = End(c)
      BY <1>1, <1>2, <1>3, <2>2 DEF Before, End
    <3> QED BY <1>3, <1>4, <2>2, <3>1 DEF Leads
  <2> QED BY <1>1, <2>1, <2>2
<1>6. End(c)' = frame.n
  BY <1>1, <1>3 DEF End
<1>7. ASSUME NEW i \in 1 .. n + 1, wire'[c][i].kind = "exit"
      PROVE  pump'[c] = "over"
  <2>1. \A j \in 1 .. n : wire[c][j].kind # "exit"
    BY <1>4 DEF Rejoins
  <2>2. i \in 1 .. n \/ i = n + 1
    BY <1>1
  <2> QED BY <1>2, <1>3, <1>7, <2>1, <2>2
<1>8. Coming(c) => Coming(c)'
  <2>1. CASE frame.kind = "paint"
    <3>1. n + 1 \in DOMAIN wire'[c]
      BY <1>1, <1>2
    <3> QED BY <1>3, <2>1, <3>1 DEF Coming
  <2>2. ASSUME NEW i \in DOMAIN wire[c], wire[c][i].kind = "paint"
        PROVE  Coming(c)'
    <3>1. i \in 1 .. n /\ i \in DOMAIN wire'[c]
      BY <1>1, <1>2
    <3> QED BY <1>3, <2>2, <3>1 DEF Coming
  <2> QED BY <1>2, <2>1, <2>2 DEF Coming
<1> QED BY <1>2, <1>3, <1>4, <1>5, <1>6, <1>7, <1>8 DEF Rejoins

LEMMA BoxedHangUpStep ==
    ASSUME TypeOK, NEW c \in Boxed, Rejoins(c), HangUp(c)
    PROVE  Rejoins(c)'
<1>1. c \in Client
  BY BoxedPieces
<1>2. wire'[c] = <<>> /\ holding'[c] = Idle /\ pump'[c] = "off" /\ box'[c] = FALSE
  BY <1>1 DEF HangUp, TypeOK
<1> QED BY <1>2 DEF Rejoins

\* What arrives is painted or missed: the terminal is on the frame's screen, or
\* on none as it was before a frame that is no repaint.
LEMMA BoxedReceiveStep ==
    ASSUME TypeOK, NEW c \in Boxed, Rejoins(c), Receive(c)
    PROVE  Rejoins(c)'
<1> DEFINE frame == Head(wire[c])
           n == Len(wire[c])
<1>1. /\ c \in Client /\ wire[c] \in Seq(Frames) /\ wire[c] # <<>>
      /\ shown[c] \in Nat \cup {Garbled}
  BY BoxedPieces DEF Receive
<1>2. n \in Nat \ {0} /\ frame = wire[c][1] /\ frame \in Frames /\ wire[c][n] \in Frames
  BY <1>1
<1>3. Leads(frame, shown[c])
  <2>1. 1 \in 1 .. n
    BY <1>2
  <2> QED BY <1>2, <2>1 DEF Rejoins, Before
<1>4. CASE frame.kind = "exit"
  <2>1. /\ wire'[c] = <<>> /\ pump'[c] = "off" /\ box'[c] = FALSE /\ UNCHANGED <<pos, holding>>
    BY <1>1, <1>4 DEF Receive, TypeOK
  <2>2. holding[c] = Idle
    <3>1. 1 \in 1 .. n
      BY <1>2
    <3> QED BY <1>2, <1>4, <3>1 DEF Rejoins
  <2> QED BY <2>1, <2>2 DEF Rejoins
<1>5. CASE frame.kind # "exit"
  <2>1. /\ wire'[c] = Tail(wire[c]) /\ UNCHANGED <<pos, holding, pump, box, asked>>
    BY <1>1, <1>5 DEF Receive, TypeOK
  <2>2. /\ Len(wire'[c]) = n - 1
        /\ \A i \in 1 .. n - 1 : wire'[c][i] = wire[c][i + 1]
    BY <1>1, <1>2, <2>1
  <2>3. /\ shown'[c] \in {frame.n, Garbled}
        /\ box[c] => shown'[c] = Garbled
        /\ ~box[c] /\ shown'[c] = Garbled => shown[c] = Garbled /\ frame.kind # "paint"
    <3>1. shown'[c] = IF box[c] THEN shown[c] ELSE Painted(frame, shown[c])
      BY <1>1 DEF Receive, TypeOK
    <3>2. CASE box[c]
      BY <3>1, <3>2 DEF Rejoins
    <3>3. CASE ~box[c]
      BY <1>1, <1>2, <1>3, <3>1, <3>3 DEF Painted, Leads, Frames, Garbled
    <3> QED BY <3>2, <3>3
  <2>4. ASSUME NEW i \in 1 .. n - 1
        PROVE  Leads(wire[c][i], Before(c, i))'
    <3>1. i + 1 \in 1 .. n /\ wire'[c][i] = wire[c][i + 1] /\ Leads(wire[c][i + 1], Before(c, i + 1))
      BY <1>2, <2>2 DEF Rejoins
    <3>2. Before(c, i)' \in {Before(c, i + 1), Garbled}
      <4>1. CASE i = 1
        <5>1. Before(c, 1)' = shown'[c] /\ Before(c, 2) = wire[c][1].n
          BY DEF Before
        <5> QED BY <1>2, <2>3, <4>1, <5>1
      <4>2. CASE i # 1
        <5>1. i - 1 \in 1 .. n - 1 /\ (i - 1) + 1 = i /\ (i + 1) - 1 = i /\ i + 1 # 1
          BY <1>2, <4>2
        <5>2. wire'[c][i - 1] = wire[c][i]
          BY <2>2, <5>1
        <5> QED BY <4>2, <5>1, <5>2 DEF Before
      <4> QED BY <4>1, <4>2
    <3> QED BY <3>1, <3>2 DEF Leads
  <2>5. End(c)' \in {End(c), Garbled}
    <3>1. CASE n = 1
      <4>1. End(c) = frame.n
        BY <1>1, <1>2, <3>1 DEF End
      <4>2. wire'[c] = <<>>
        <5>1. wire'[c] \in Seq(Frames) /\ Len(wire'[c]) = 0
          BY <1>1, <2>1, <2>2, <3>1
        <5> QED BY <5>1
      <4> QED BY <2>3, <4>1, <4>2 DEF End
    <3>2. CASE n # 1
      <4>1. n - 1 \in 1 .. n - 1
        <5>1. n \in Nat \ {0}
          BY <1>2
        <5> HIDE DEF n
        <5> QED BY <3>2, <5>1
      <4>2. wire'[c][n - 1] = wire[c][n]
        <5>1. (n - 1) + 1 = n
          BY <1>2
        <5> QED BY <2>2, <4>1, <5>1
      <4>3. wire'[c] # <<>>
        <5>1. Len(<<>>) # n - 1
          BY <1>2, <3>2
        <5> QED BY <2>2, <5>1
      <4> QED BY <1>1, <2>2, <4>2, <4>3 DEF End
    <3> QED BY <3>1, <3>2
  <2>6. Coming(c) /\ frame.kind # "paint" => Coming(c)'
    <3>1. ASSUME NEW i \in DOMAIN wire[c], wire[c][i].kind = "paint", frame.kind # "paint"
          PROVE  Coming(c)'
      <4>1. i \in 1 .. n /\ i # 1
        BY <1>1, <1>2, <3>1
      <4>2. i - 1 \in 1 .. n - 1 /\ i - 1 \in DOMAIN wire'[c] /\ (i - 1) + 1 = i
        BY <1>1, <1>2, <2>1, <4>1
      <4>3. wire'[c][i - 1] = wire[c][i]
        BY <2>2, <4>2
      <4> QED BY <3>1, <4>2, <4>3 DEF Coming
    <3> QED BY <2>1, <3>1 DEF Coming
  <2>7. Leads(holding[c], End(c)) => Leads(holding[c], End(c))'
    BY <2>1, <2>5 DEF Leads
  <2>8. pump[c] \notin {"off", "found"}
    BY <1>1 DEF Rejoins
  <2>9. ASSUME NEW i \in 1 .. n - 1, wire'[c][i].kind = "exit"
        PROVE  pump'[c] = "over"
    <3>1. i + 1 \in 1 .. n
      BY <1>2
    <3> QED BY <2>1, <2>2, <2>9, <3>1 DEF Rejoins
  <2> QED BY <2>1, <2>2, <2>3, <2>4, <2>5, <2>6, <2>7, <2>8, <2>9 DEF Rejoins
<1> QED BY <1>4, <1>5

LEMMA BoxedStep ==
    ASSUME TypeOK, NEW c \in Boxed, Rejoins(c), NEW d \in Client, Node(d) \/ Person(d) \/ Boxing(d)
    PROVE  Rejoins(c)'
<1>0. c \in Client /\ printed \in Nat /\ pos[c] \in Nat
  BY BoxedPieces
<1>1. CASE d # c
  <2>1. UNCHANGED <<shown[c], pos[c], box[c], asked[c]>>
    BY <1>0, <1>1 DEF TypeOK, Node, Person, Boxing, Find, Join, TakeChunk, AnswerResync, AnswerLines,
             SeeExit, TellExit, Send, SendTimesOut, Leave, HangUp, Receive, OpenBox, CloseBox,
             AskResync, AskLines, Resubscribe, pumpVars, clientVars
  <2>2. UNCHANGED <<holding[c], wire[c], pump[c]>>
    BY <1>0, <1>1 DEF TypeOK, Node, Person, Boxing, Find, Join, TakeChunk, AnswerResync, AnswerLines,
             SeeExit, TellExit, Send, SendTimesOut, Leave, HangUp, Receive, OpenBox, CloseBox,
             AskResync, AskLines, Resubscribe, pumpVars, clientVars
  <2> QED BY <2>1, <2>2, BoxedUntouched
<1>2. CASE d = c
  <2>1. CASE Find(c)
    <3>1. pump[c] = "off" /\ pump'[c] = "found" /\ UNCHANGED <<pos, holding, wire, shown, box>>
      BY <1>0, <2>1 DEF Find, TypeOK, clientVars
    <3> QED BY <3>1 DEF Rejoins, Leads, Before, End
  <2>2. CASE Join(c)
    <3>1. /\ holding[c] = Idle /\ pump[c] = "found" /\ pump'[c] = "running" /\ pos'[c] = printed
          /\ holding'[c] = Paint(printed) /\ UNCHANGED <<wire, shown, box, asked>>
      BY <1>0, <2>2 DEF Join, Resubscribe, Rejoins, TypeOK, clientVars
    <3> QED BY <1>0, <3>1, FramesAreFrames, TakenStep DEF Leads, Paint
  <2>3. CASE TakeChunk(c)
    <3>1. /\ holding[c] = Idle /\ pump[c] \in {"running", "draining"}
          /\ UNCHANGED <<pump, wire, shown, box, asked>>
      BY <2>3 DEF TakeChunk, Free, clientVars
    <3>2. CASE Resubscribe(c)
      <4>1. pos'[c] = printed /\ holding'[c] = Paint(printed)
        BY <1>0, <3>2 DEF Resubscribe, TypeOK
      <4> QED BY <1>0, <3>1, <4>1, FramesAreFrames, TakenStep DEF Leads, Paint
    <3>3. CASE ~Resubscribe(c)
      <4>1. pos'[c] = pos[c] + 1 /\ holding'[c] = Data(pos[c] + 1)
        BY <1>0, <2>3, <3>3 DEF TakeChunk, TypeOK
      <4>2. End(c) \in {Garbled, pos[c]}
        BY <3>1 DEF Rejoins
      <4>3. Leads(Data(pos[c] + 1), End(c))
        BY <4>2 DEF Leads, Data
      <4> QED BY <1>0, <3>1, <4>1, <4>3, FramesAreFrames, TakenStep DEF Data
    <3> QED BY <3>2, <3>3
  <2>4. CASE AnswerResync(c)
    <3>1. /\ holding[c] = Idle /\ pump[c] = "running" /\ pos'[c] = printed
          /\ holding'[c] = Paint(printed) /\ UNCHANGED <<pump, wire, shown, box>>
      BY <1>0, <2>4 DEF AnswerResync, Free, Resubscribe, TypeOK, clientVars
    <3> QED BY <1>0, <3>1, FramesAreFrames, TakenStep DEF Leads, Paint
  <2>5. CASE AnswerLines(c)
    <3>1. /\ holding[c] = Idle /\ pump[c] = "running" /\ holding'[c] = Lines(pos[c])
          /\ asked'[c] = asked[c] \ {"lines"} /\ UNCHANGED <<pump, pos, wire, shown, box>>
      BY <1>0, <2>5 DEF AnswerLines, Free, TypeOK, clientVars
    <3>2. Leads(Lines(pos[c]), End(c))
      BY <3>1 DEF Rejoins, Leads, Lines
    <3> QED BY <1>0, <3>1, <3>2, FramesAreFrames, TakenStep DEF Lines
  <2>6. CASE SeeExit(c)
    <3>1. /\ pump[c] = "running" /\ pump'[c] = "draining"
          /\ UNCHANGED <<pos, holding, wire, shown, box>>
      BY <1>0, <2>6 DEF SeeExit, TypeOK, clientVars
    <3> QED BY <3>1 DEF Rejoins, Leads, Before, End
  <2>7. CASE TellExit(c)
    <3>1. /\ holding[c] = Idle /\ pump[c] = "draining" /\ pos[c] = printed
          /\ holding'[c] = Exit(printed) /\ UNCHANGED <<pump, pos, wire, shown, box, asked>>
      BY <1>0, <2>7 DEF TellExit, Free, TypeOK, clientVars
    <3>2. Leads(Exit(printed), End(c))
      BY <3>1 DEF Rejoins, Leads, Exit
    <3> QED BY <1>0, <3>1, <3>2, FramesAreFrames, TakenStep DEF Exit
  <2>8. CASE SendTimesOut(c) \/ Leave(c)
    BY <2>8, BoxedHangUpStep DEF SendTimesOut, Leave
  <2>9. CASE OpenBox(c)
    <3>1. /\ shown'[c] = Garbled /\ box'[c] = TRUE
          /\ UNCHANGED <<pump, pos, holding, wire>>
      BY <1>0, <2>9 DEF OpenBox, TypeOK, pumpVars
    <3>2. \A i \in 1 .. Len(wire[c]) : Before(c, i)' \in {Before(c, i), Garbled}
      BY <3>1 DEF Before
    <3>3. End(c)' \in {End(c), Garbled}
      BY <3>1 DEF End
    <3> QED BY <3>1, <3>2, <3>3 DEF Rejoins, Leads
  <2>10. CASE CloseBox(c) \/ AskResync(c) \/ AskLines(c)
    <3>1. /\ UNCHANGED <<pump, pos, holding, wire, shown>> /\ asked[c] \subseteq asked'[c]
          /\ box'[c] # box[c] => "screen" \in asked'[c] /\ box'[c] = FALSE
      BY <1>0, <2>10 DEF CloseBox, AskResync, AskLines, TypeOK, pumpVars, clientVars
    <3> QED BY <3>1 DEF Rejoins, Coming, Leads, Before, End
  <2>11. CASE Send(c)
    BY <2>11, BoxedSendStep
  <2>12. CASE Receive(c)
    BY <2>12, BoxedReceiveStep
  <2> QED BY <1>2, <2>1, <2>2, <2>3, <2>4, <2>5, <2>6, <2>7, <2>8, <2>9, <2>10, <2>11, <2>12
             DEF Node, Person, Boxing
<1> QED BY <1>1, <1>2

\* A client that closed its box and does not see the session yet has its
\* repaint asked for, in the pump's hand or on the wire, for any connection,
\* any backlog and whatever else is asked, printed and lost meanwhile.
THEOREM PicturesComeBack == Spec => []PictureIsOnItsWay
<1>1. Init => BInv
  <2>1. Init => TypeOK
    BY InitOInv DEF OInv
  <2>2. Init => \A c \in Boxed : Rejoins(c)
    BY DEF Init, Rejoins, Client, Garbled, Idle
  <2> QED BY <2>1, <2>2 DEF BInv
<1>2. BInv /\ [Next]_vars => BInv'
  <2> SUFFICES ASSUME BInv, [Next]_vars, NEW c \in Boxed
               PROVE  Rejoins(c)'
    BY TypeStep DEF BInv
  <2>1. TypeOK /\ Rejoins(c)
    BY DEF BInv
  <2>2. CASE Write \/ ChildDies \/ Read \/ Reap \/ Drain \/ SendExit \/ UNCHANGED vars
    <3>1. UNCHANGED <<pump, pos, holding, wire, asked, box, shown>>
      BY <2>2 DEF Write, ChildDies, Read, Reap, Drain, SendExit, Ingest, vars, pumpVars, clientVars
    <3> QED BY <2>1, <3>1, BoxedUntouched
  <2>3. ASSUME NEW d \in Client, Node(d) \/ Person(d) \/ Boxing(d)
        PROVE  Rejoins(c)'
    BY <2>1, <2>3, BoxedStep
  <2> QED BY <2>2, <2>3 DEF Next, Client
<1>3. BInv => PictureIsOnItsWay
  BY DEF BInv, Rejoins, Coming, PictureIsOnItsWay
<1> QED BY <1>1, <1>2, <1>3, PTL DEF Spec

===============================================================================
