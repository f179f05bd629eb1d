------------------------------- MODULE Scroll -------------------------------
(***************************************************************************)
(* The window an attached client moves over a session's history            *)
(* (client/scroll.rs), and the node that answers it (node/session.rs,      *)
(* node/history.rs).  Every number the client holds is a count back from   *)
(* the newest line, and the newest line moves whenever the session prints, *)
(* so two answers are brought together by the one count that only goes up: *)
(* the lines the session has printed.                                      *)
(*                                                                         *)
(* Lines are numbered here from the first the session ever printed, which  *)
(* neither side can see.  "frame" is the number of the newest line at the  *)
(* answer the client's counts are from; "names" holds the lines that what  *)
(* the client keeps stood for when it was made: the block, the selection,  *)
(* the match, and the window as a hand last left it; zero is no line.  A   *)
(* full-screen program has a screen of its own, and an answer about that   *)
(* one has no frame.  "lost" says a reflow has forgotten lines printed     *)
(* since the last count.  A reset of the terminal, which leaves nothing    *)
(* behind to name, is left out.                                            *)
(***************************************************************************)
EXTENDS Integers, Sequences, FiniteSetsExt

CONSTANTS Rows,        \* of the window
          Kept,        \* lines the session's buffer keeps
          BLOCK,       \* windows in a block, 3 in the code
          CopyLines,   \* the longest selection
          MaxPrinted,  \* lines the session prints, a bound
          Far,         \* u64::MAX: further back than any line
          Pressed,     \* the rows a press lands on
          Matches      \* how far back a search finds its needle

ScrollAssumption ==
    /\ Rows \in Nat \ {0} /\ Kept \in Nat /\ Kept >= Rows
    /\ BLOCK \in Nat \ {0} /\ CopyLines \in Nat \ {0}
    /\ Pressed \subseteq 0..(Rows - 1) /\ Matches \subseteq 0..(Kept - 1)
    /\ MaxPrinted \in Nat /\ Rows <= MaxPrinted /\ Far \in Nat /\ Far > 2 * MaxPrinted

VARIABLES newest, counted, printedCount, onAlternate, lost, \* the session
          offset, total, printed, trimming, answered, block, asked, inFlight,
          selection, match,                                 \* the view
          asks, answers,                                    \* the stream
          frame, names

session == <<newest, counted, printedCount, onAlternate, lost>>
view    == <<offset, total, printed, trimming, answered, block, asked,
             inFlight, selection, match>>
vars    == <<newest, counted, printedCount, onAlternate, lost, offset, total,
             printed, trimming, answered, block, asked, inFlight, selection,
             match, asks, answers, frame, names>>

NoLine == -1
NoBlock == [from |-> 0, lines |-> 0]
NoRequest == [kind |-> "none", from |-> 0, lines |-> 0, printed |-> 0]

Upto(a, b) == IF a < b THEN a ELSE b
Over(a, b) == IF a > b THEN a ELSE b
Less(a, b) == Over(a - b, 0)          \* saturating_sub
More(a, b) == Upto(a + b, Far)        \* saturating_add

(***************************************************************************)
(* The node.                                                               *)
(***************************************************************************)
trimmed == Less(newest, Kept)
held    == IF onAlternate THEN Rows ELSE newest - trimmed
here    == trimmed + held
lineAt(n) == IF onAlternate THEN 0 ELSE n

\* How far the newest line moved between two counts; zero does not count.
moved(now, since) == IF now = 0 \/ since = 0 THEN 0 ELSE Less(now, since)

\* State::printed, which brings the count up to now.
CountNow == IF onAlternate THEN printedCount
            ELSE printedCount + Less(here, counted)

Prints(n) ==
    /\ newest + n <= MaxPrinted /\ ~onAlternate
    /\ newest' = newest + n
    /\ UNCHANGED <<counted, printedCount, onAlternate, lost, view, asks, answers,
                   frame, names>>

\* A full-screen program takes the screen or gives it back.
Alternate ==
    /\ onAlternate' = ~onAlternate
    /\ UNCHANGED <<newest, counted, printedCount, lost, view, asks, answers,
                   frame, names>>

\* Another client resized the session: the count goes on from what is here.
Reflow ==
    /\ ~onAlternate
    /\ counted' = here
    /\ lost' = (lost \/ here # counted)
    /\ UNCHANGED <<newest, printedCount, onAlternate, view, asks, answers, frame,
                   names>>

\* One question answered, in the order they were asked.
Answer ==
    /\ asks # <<>>
    /\ printedCount' = CountNow
    /\ counted' = IF onAlternate THEN counted ELSE here
    /\ LET ask   == Head(asks)
           from  == Upto(More(ask.from, moved(CountNow, ask.printed)), held - 1)
           lines == Upto(ask.lines, held - from)
       IN answers' = Append(answers,
              [kind |-> ask.kind, printed |-> CountNow, total |-> held,
               from |-> IF ask.kind = "view" THEN from ELSE ask.from,
               lines |-> IF ask.kind = "view" THEN lines ELSE 1,
               newest |-> lineAt(newest)])
    /\ asks' = Tail(asks)
    /\ UNCHANGED <<newest, onAlternate, lost, view, frame, names>>

(***************************************************************************)
(* The view.                                                               *)
(***************************************************************************)
furthest(t) == Less(t, Rows)

CoveredBy(b, off, t) ==
    LET top == Upto(off + Rows, t) IN
    b.lines > 0 /\ off >= b.from /\ top <= b.from + b.lines

covered == CoveredBy(block, offset, total)

\* The line a count of a frame stands for.
Named(newestThen, back) == IF newestThen = 0 THEN 0 ELSE newestThen - back

\* Whether the window is on an end of the buffer, and on no line of it.
PinnedAt(off, trims, t) == off = 0 \/ (trims /\ off >= furthest(t))

\* wanted(), of the view a step leaves: what to ask for, if anything.
Wanted(off, t, trims, count, b, sel) ==
    LET margin == Rows \div 2
        near   == \/ b.from > 0 /\ off - b.from < margin
                  \/ b.from + b.lines < t /\ Less(b.from + b.lines, off + Rows) < margin
        span   == Rows * BLOCK
        first  == Less(off, (span - Rows) \div 2)
        from   == IF sel = NoLine THEN first ELSE Upto(first, sel)
        top    == IF sel = NoLine THEN More(first, span)
                  ELSE Over(More(first, span), More(sel, 1))
    IN IF CoveredBy(b, off, t) /\ ~near THEN NoRequest
       ELSE [kind |-> "view", from |-> from,
             lines |-> Upto(top - from, CopyLines + span),
             printed |-> IF PinnedAt(off, trims, t) THEN 0 ELSE count]

\* Ask, unless a question is out or this one has had its answer.
Asking(out) ==
    LET want == Wanted(offset', total', trimming', printed', block', selection')
    IN IF out \/ want = NoRequest \/ want = asked
       THEN inFlight' = out /\ UNCHANGED <<asked, asks>>
       ELSE inFlight' = TRUE /\ asked' = want /\ asks' = Append(asks, want)

Init ==
    /\ newest = Rows /\ counted = 0 /\ printedCount = 0
    /\ onAlternate = FALSE /\ lost = FALSE
    /\ offset = 0 /\ total = 0 /\ printed = 0 /\ trimming = FALSE
    /\ answered = FALSE /\ block = NoBlock /\ selection = NoLine
    /\ match = NoLine
    /\ asked = Wanted(0, 0, FALSE, 0, NoBlock, NoLine) /\ inFlight = TRUE
    /\ asks = <<asked>> /\ answers = <<>>
    /\ frame = 0 /\ names = [block |-> 0, sel |-> 0, match |-> 0, window |-> 0]

\* up, down, page_up, page_down, top, bottom: the window goes to "off".
Moves(off) ==
    /\ offset' = IF answered THEN Upto(off, furthest(total)) ELSE off
    /\ names' = [names EXCEPT !.window =
                    IF answered /\ offset' # 0 THEN Named(frame, offset') ELSE 0]
    /\ UNCHANGED <<total, printed, trimming, answered, block, selection, match>>
    /\ Asking(inFlight)
    /\ UNCHANGED <<session, answers, frame>>

Reach == IF answered THEN {offset + 1, offset + Rows, Less(offset, 1), 0, Far}
                     ELSE {0, 1, Far}

\* A press on a line of the window, a row up from its bottom.
SelectFrom(row) ==
    /\ selection' = More(offset, row)
    /\ names' = [names EXCEPT !.sel = IF answered THEN Named(frame, offset + row)
                                                  ELSE 0]
    /\ UNCHANGED <<offset, total, printed, trimming, answered, block, match>>
    /\ Asking(inFlight)
    /\ UNCHANGED <<session, answers, frame>>

\* A search of the history is asked for, one at a time here; "line" is where
\* its match will be found to be.
Search(line) ==
    /\ answered /\ line < held
    /\ \A q \in {asks, answers} : \A i \in DOMAIN q : q[i].kind # "found"
    /\ asks' = Append(asks, [kind |-> "found", from |-> line, lines |-> 1,
                             printed |-> 0])
    /\ UNCHANGED <<session, view, answers, frame, names>>

\* follow(): by how much everything that names a line moves.
Followed(now) == IF answered THEN moved(now, printed) ELSE 0

\* Mutant: the selection is left where it was.
FollowUnselected(now, by) ==
    printed' = (IF now = 0 THEN printed ELSE now) /\ selection' = selection

Follow(now, by) ==
    /\ printed' = IF now = 0 THEN printed ELSE now
    /\ selection' = IF selection = NoLine THEN NoLine ELSE More(selection, by)

Take ==
    /\ answers # <<>> /\ Head(answers).kind = "view"
    /\ LET win == Head(answers)
           by  == Followed(win.printed)
           off == IF offset = 0 THEN 0 ELSE More(offset, by)
       IN /\ trimming' = (moved(win.printed, printed) > 0 /\ win.total = total)
          /\ Follow(win.printed, by)
          /\ total' = win.total /\ answered' = TRUE
          /\ offset' = Upto(off, furthest(win.total))
          /\ block' = [from |-> win.from, lines |-> win.lines]
          /\ match' = IF match = NoLine THEN NoLine ELSE More(match, by)
          /\ frame' = win.newest
          /\ names' = [names EXCEPT
                 !.block = Named(win.newest, win.from),
                 !.sel = IF answered THEN @ ELSE 0,
                 !.window = IF ~answered \/ offset' # off THEN 0 ELSE @]
          /\ Asking(FALSE)
    /\ answers' = Tail(answers)
    /\ UNCHANGED session

\* The match in the middle of the window.
jump(at) == Upto(Less(at, Rows \div 2), furthest(total))

\* Where the search found it: the view goes there if it is further back.
Found ==
    /\ answers # <<>> /\ Head(answers).kind = "found"
    /\ LET found == Head(answers)
           by  == Followed(found.printed)
           off == IF offset = 0 THEN 0 ELSE More(offset, by)
       IN /\ Follow(found.printed, by)
          /\ block' = IF block.lines = 0 THEN block
                      ELSE [block EXCEPT !.from = More(@, by)]
          /\ match' = found.from
          /\ offset' = IF found.from > off
                       THEN jump(found.from)
                       ELSE off
          /\ frame' = found.newest
          /\ names' = [names EXCEPT !.match = Named(found.newest, found.from),
                 !.window = IF offset' = off THEN @
                            ELSE IF offset' = 0 THEN 0
                            ELSE Named(found.newest, offset')]
          /\ UNCHANGED <<total, trimming, answered>>
          /\ Asking(inFlight)
    /\ answers' = Tail(answers)
    /\ UNCHANGED session

Next ==
    \/ \E n \in 1..2 : Prints(n)
    \/ Alternate \/ Reflow \/ Answer \/ Take \/ Found
    \/ \E off \in Reach : Moves(off)
    \/ \E row \in Pressed : SelectFrom(row)
    \/ \E line \in Matches : Search(line)

Spec == Init /\ [][Next]_vars

(***************************************************************************)
(* Properties.                                                             *)
(***************************************************************************)
TypeOK ==
    /\ newest \in 0..MaxPrinted /\ counted \in 0..MaxPrinted
    /\ offset \in 0..Far /\ total \in 0..Kept /\ printed \in 0..MaxPrinted
    /\ block.from \in 0..Far /\ block.lines \in 0..Kept
    /\ selection \in -1..Far /\ match \in -1..Far
    /\ Len(asks) + Len(answers) <= 2

\* What the client holds goes on naming the lines it was made of, however much
\* the session prints between the answers: the block in hand, what is selected,
\* where the search landed, and the window somebody is reading.
OneFrame ==
    answered /\ ~lost /\ frame # 0 =>
        /\ block.lines > 0 /\ names.block # 0 => frame - block.from = names.block
        /\ selection # NoLine /\ names.sel # 0 => frame - selection = names.sel
        /\ match # NoLine /\ names.match # 0 => frame - match = names.match
        /\ names.window # 0 /\ offset # 0 => frame - offset = names.window

\* A window on the history that has nothing to be painted from has a question
\* out: the rule against asking the same thing twice never leaves a reader in
\* front of lines that nobody is going to send.  Not where the window is on an
\* end of the buffer and a search has moved the block from under it, nor where
\* the selection is so far in front of it that no block has both.
MovedSinceAsked == PinnedAt(offset, trimming, total) /\ block.from > asked.from
LeftBehind == selection # NoLine /\ offset + Rows > selection + CopyLines + Rows * BLOCK

QuestionOut == \E q \in {asks, answers} : \E i \in DOMAIN q : q[i].kind = "view"

NeverLeftBlank == covered \/ QuestionOut \/ MovedSinceAsked \/ LeftBehind
=============================================================================
