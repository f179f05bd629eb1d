----------------------------- MODULE Selecting -----------------------------
(***************************************************************************)
(* A hand with a mouse in the window on a session's history: presses,      *)
(* second and third clicks, drags, drags held at an edge, and what letting *)
(* go puts on the clipboard (client/scroll.rs, client/attach/keys.rs).     *)
(* What was printed does not move here; Scroll.tla is about what does.     *)
(*                                                                         *)
(* A cell is a line, counted back from the newest, and a column.  A line   *)
(* is a row of glyphs: one of a word, a wide one, a mark between words, a  *)
(* blank, and the pen, which takes no cell.  The lines are a round trip    *)
(* away: a gesture may be over before they are here.                       *)
(***************************************************************************)
EXTENDS Integers, Sequences, FiniteSets

LOCAL INSTANCE SequencesExt
LOCAL INSTANCE FiniteSetsExt

CONSTANTS Texts,       \* what was printed: functions from 0..Total-1, by line
          Total,       \* lines there are
          Rows, Cols,  \* of the window
          BLOCK,       \* windows in a block, 3 in the code
          COPY_LINES,  \* the longest selection
          FASTER_EVERY, FASTEST,  \* a drag held at an edge picks up speed
          Far,         \* u64::MAX
          MaxPresses, MaxAsks   \* bounds

SelectingAssumption ==
    /\ {Total, Rows, Cols, BLOCK, COPY_LINES, FASTER_EVERY, FASTEST, Far} \subseteq Nat \ {0}
    /\ {MaxPresses, MaxAsks} \subseteq Nat /\ Rows <= Total /\ Far > 2 * Total
    /\ \A t \in Texts : DOMAIN t = 0..(Total - 1)

VARIABLES
    text,
    up,        \* the view is
    answered,  \* the host has said how much there is
    offset,    \* of the bottom row
    block,     \* the lines in hand, from and up to, or none
    asked,     \* the block last asked for, or none
    inFlight,  \* the answer to it is not here
    asks,      \* questions out, those of views that are gone among them
    sel,       \* what is selected, or nothing
    chasing,   \* the spot of a drag held at an edge, or nowhere
    chased,    \* moves it has made
    owed,      \* a copy waits for its lines
    down,      \* the button is
    clicked,   \* where, and how often
    taken,     \* what became of the last gesture: copied, lost, or nothing
    presses

view == <<up, answered, offset, block, asked, inFlight, sel, chasing, chased,
          owed>>
vars == <<text, view, asks, down, clicked, taken, presses>>

None == [none |-> TRUE]
Upto(a, b) == IF a < b THEN a ELSE b
Over(a, b) == IF a > b THEN a ELSE b
Less(a, b) == Over(a - b, 0)
More(a, b) == Upto(a + b, Far)

Spots == [row : 1..Rows, col : 1..Cols]

(***************************************************************************)
(* A line.                                                                 *)
(***************************************************************************)
width(g) == CASE g = "pen" -> 0 [] g = "wide" -> 2 [] OTHER -> 1
in_a_word(g) == g \in {"x", "wide"}

\* The glyphs of a line with the columns they take, the pen left out.
walk(gs) ==
    FoldLeft(LAMBDA w, g : [to |-> w.to + width(g),
                            cells |-> IF g = "pen" THEN w.cells
                                      ELSE Append(w.cells, [glyph |-> g,
                                                            from |-> w.to,
                                                            to |-> w.to + width(g)])],
             [to |-> 0, cells |-> <<>>], gs)
cells(gs) == walk(gs).cells

overlaps(c, from, to) == c.from < to /\ c.to > from

glyphs(cs) == [i \in DOMAIN cs |-> cs[i].glyph]

\* Mutant: a wide glyph is taken where it begins.
Halves(gs, from, to) ==
    glyphs(SelectSeq(cells(gs), LAMBDA c : from <= c.from /\ c.from < to))

plain(gs, from, to) ==
    glyphs(SelectSeq(cells(gs), LAMBDA c : overlaps(c, from, to)))

trim_end(gs) ==
    SubSeq(gs, 1, Max({0} \union {i \in DOMAIN gs : gs[i] # " "}))

(***************************************************************************)
(* The block.                                                              *)
(***************************************************************************)
Here(b, at) == b # None /\ b.from <= at /\ at < b.top
line(b, at) == IF Here(b, at) THEN text[at] ELSE <<>>

furthest == Less(Total, Rows)
covered(b, off) ==
    b # None /\ off >= b.from /\ Upto(off + Rows, Total) <= b.top

\* The two ends, in reading order.
ends(s) == IF \/ s.anchor.line > s.head.line
              \/ s.anchor.line = s.head.line /\ s.anchor.col <= s.head.col
           THEN [first |-> s.anchor, last |-> s.head]
           ELSE [first |-> s.head, last |-> s.anchor]

holds(b, s) == b # None /\ ends(s).first.line < b.top /\ ends(s).last.line >= b.from

\* The block the window wants, stretched over what is selected.
near(b, off) ==
    \/ b.from > 0 /\ off - b.from < Rows \div 2
    \/ b.top < Total /\ Less(b.top, off + Rows) < Rows \div 2
span == Rows * BLOCK
Stretched(from, top, s) ==
    IF s = None THEN [from |-> from, top |-> top]
    ELSE [from |-> Upto(from, ends(s).last.line), top |-> Over(top, More(ends(s).first.line, 1))]
Question(b) == [from |-> b.from, lines |-> Upto(b.top - b.from, COPY_LINES + span)]
Around(below, s) == Question(Stretched(below, More(below, span), s))
Wanted(b, off, s) ==
    IF covered(b, off) /\ ~near(b, off) THEN None ELSE Around(Less(off, (span - Rows) \div 2), s)

(***************************************************************************)
(* What a selection takes.                                                 *)
(***************************************************************************)
\* The cells of the word a column is in, counted along the line.
joined(cs, i, j) == \A k \in Upto(i, j) .. Over(i, j) : in_a_word(cs[k].glyph)
word_in(cs, col) ==
    {j \in DOMAIN cs : \E i \in DOMAIN cs :
        cs[i].from <= col /\ col < cs[i].to /\ joined(cs, i, j)}
Columns(cs, word) ==
    IF word = {} THEN None ELSE [from |-> cs[Min(word)].from, to |-> cs[Max(word)].to - 1]
WordOf(cs, col) == Columns(cs, word_in(cs, col))
word_on(b, at) == WordOf(cells(line(b, at.line)), at.col)

Inked(cs) == {i \in DOMAIN cs : cs[i].glyph # " "}
LastColumn(cs) == IF Inked(cs) = {} THEN 0 ELSE cs[Max(Inked(cs))].to - 1
line_ends(b, at) == LastColumn(cells(line(b, at)))
anything_on(b, at) == trim_end(plain(line(b, at), 0, Far)) # <<>>

\* Each end grown to the grain of the gesture.
ToItsBeginning(at, word) == IF word = None THEN at ELSE [at EXCEPT !.col = word.from]
ToItsEnd(at, word) == IF word = None THEN at ELSE [at EXCEPT !.col = word.to]
Grown(b, s, e) ==
    CASE s.grain = "word" /\ word_on(b, s.anchor) # None ->
             [first |-> ToItsBeginning(e.first, word_on(b, e.first)),
              last  |-> ToItsEnd(e.last, word_on(b, e.last))]
      [] s.grain = "line" ->
             [first |-> [e.first EXCEPT !.col = 0],
              last  |-> [e.last EXCEPT !.col = line_ends(b, e.last.line)]]
      [] OTHER -> e
grained(b, s) == Grown(b, s, ends(s))

spans(s) == IF s = None THEN 0
            ELSE More(ends(s).first.line - ends(s).last.line, 1)

\* How much the row says is selected.
SizeOf(g) ==
    IF g.first.line = g.last.line THEN [chars |-> Less(g.last.col, g.first.col) + 1]
    ELSE [lines |-> g.first.line - g.last.line + 1]
unmoved(b, s) ==
    /\ s.anchor = s.head
    /\ CASE s.grain = "cell" -> TRUE
         [] s.grain = "word" -> word_on(b, s.anchor) = None
         [] s.grain = "line" -> ~anything_on(b, s.anchor.line)
selected_size(b, s) ==
    IF s = None \/ unmoved(b, s) THEN None ELSE SizeOf(grained(b, s))

\* The lines of a selection, the oldest first, each with the columns it takes.
Rowed(g, wide) ==
    [i \in 1..(g.first.line - g.last.line + 1) |->
        [at |-> g.first.line - i + 1, from |-> IF i = 1 THEN g.first.col ELSE 0,
         to |-> IF g.first.line - i + 1 = g.last.line THEN g.last.col + 1 ELSE wide]]
Taken(b, s, wide) == Rowed(grained(b, s), wide)

\* The text of it, or nothing.
TextOf(b, rows) ==
    [i \in DOMAIN rows |-> trim_end(plain(line(b, rows[i].at), rows[i].from, rows[i].to))]
OrNothing(lines) ==
    IF FlattenSeq(lines) = <<>> /\ Len(lines) = 1 THEN None ELSE [lines |-> lines]
selected(b, s) == OrNothing(TextOf(b, Taken(b, s, Far)))

took(b, s) == IF selected_size(b, s) = None THEN None ELSE selected(b, s)

(***************************************************************************)
(* What the rows show as selected.                                         *)
(***************************************************************************)
\* No further than the screen is wide.
selected_on(t) == [t EXCEPT !.to = Upto(@, Cols)]

\* A wide glyph is lit whole.
highlighted(gs, from, to) == glyphs(SelectSeq(cells(gs), LAMBDA c : overlaps(c, from, to)))

LitOn(b, t) == trim_end(highlighted(line(b, t.at), t.from, t.to))
LitOf(b, rows) == [i \in DOMAIN rows |-> LitOn(b, selected_on(rows[i]))]
Lit(b, s) == LitOf(b, Taken(b, s, Cols))

(***************************************************************************)
(* The hand.                                                               *)
(***************************************************************************)
cell(off, spot) ==
    [line |-> More(off, Rows - spot.row), col |-> Upto(spot.col - 1, Cols - 1)]

at_an_edge(spot) == spot.row <= 1 \/ spot.row >= Rows

\* The view as a step leaves it asks for what it wants, one question at a time
\* and no question twice.
Asking(out, was, queue) ==
    \E want \in {Wanted(block', offset', sel')} :
    IF out \/ want = None \/ want = was
    THEN inFlight' = out /\ asked' = was /\ asks' = queue
    ELSE inFlight' = TRUE /\ asked' = want /\ asks' = Append(queue, want)

\* The view a report finds: up, or opened under it as Closed left it.
Opened == UNCHANGED <<answered, offset, block>> /\ up' = TRUE
Asked == Asking(inFlight, asked, asks)

\* The view is gone, and the question it has out is not.
Closed ==
    /\ up' = FALSE /\ answered' = FALSE /\ offset' = 0 /\ block' = None
    /\ asked' = None /\ inFlight' = FALSE /\ sel' = None
    /\ chasing' = None /\ chased' = 0 /\ owed' = FALSE

Nothing == [what |-> "nothing", lines |-> <<>>]
Copied(t) == [what |-> "copied", lines |-> t.lines]
Lost == [what |-> "lost", lines |-> <<>>]

Init ==
    /\ text \in Texts
    /\ up = FALSE /\ answered = FALSE /\ offset = 0 /\ block = None
    /\ asked = None /\ inFlight = FALSE /\ asks = <<>> /\ sel = None
    /\ chasing = None /\ chased = 0 /\ owed = FALSE
    /\ down = FALSE /\ clicked = None /\ taken = Nothing /\ presses = 0

\* A second press in the same place, soon enough after the first, is a word, a
\* third the line.
Clicks(spot, soon) ==
    IF soon /\ clicked # None /\ clicked.at = spot THEN Upto(clicked.clicks + 1, 3)
    ELSE 1

Begun(at, clicks) ==
    CASE clicks = 1 -> [anchor |-> at, head |-> at, grain |-> "cell"]
      [] clicks = 2 -> [anchor |-> at, head |-> at, grain |-> "word"]
      [] OTHER -> [anchor |-> [at EXCEPT !.col = 0],
                   head |-> [at EXCEPT !.col = line_ends(block', at.line)],
                   grain |-> "line"]

Press(spot, soon) ==
    /\ ~down /\ presses < MaxPresses
    /\ presses' = presses + 1 /\ down' = TRUE /\ taken' = Nothing
    /\ clicked' = [at |-> spot, clicks |-> Clicks(spot, soon)]
    /\ Opened
    /\ sel' = Begun(cell(offset', spot), Clicks(spot, soon))
    /\ owed' = FALSE /\ chasing' = None /\ chased' = 0
    /\ Asked
    /\ UNCHANGED text

\* A drag, which a press is not until it has left its cell.
Drag(spot) ==
    /\ down
    /\ clicked' = IF clicked # None /\ clicked.at = spot THEN clicked ELSE None
    /\ IF clicked' # None THEN UNCHANGED <<view, asks>>
       ELSE /\ Opened /\ UNCHANGED owed
            /\ sel' = IF sel # None
                      THEN [sel EXCEPT !.head = cell(offset, spot)] ELSE None
            /\ chasing' = IF at_an_edge(spot) THEN spot ELSE None
            /\ chased' = IF at_an_edge(spot) THEN chased ELSE 0
            /\ Asked
    /\ UNCHANGED <<text, down, taken, presses>>

\* The window goes back or forward, inside what there is once that is known.
Went(off, by, back) ==
    IF ~back THEN Less(off, by)
    ELSE IF answered THEN Upto(More(off, by), furthest) ELSE More(off, by)

\* Moves are counted up to where they make it no faster.
step(moves) == Upto(1 + moves \div FASTER_EVERY, FASTEST)
Again(moves) == Upto(moves + 1, FASTER_EVERY * FASTEST)

\* The clock moves a drag held at an edge, and gives back as much of the move as
\* makes the selection too long to copy.
Chase ==
    /\ up /\ chasing # None
    /\ UNCHANGED <<text, up, answered, block, owed, down, clicked, taken, presses>>
    /\ LET back == chasing.row <= 1
           off  == Went(offset, step(Again(chased)), back)
           at(o) == IF sel = None THEN None
                    ELSE [sel EXCEPT !.head = cell(o, chasing)]
           over == Less(spans(at(off)), COPY_LINES)
       IN \/ /\ off = offset
             /\ chasing' = None /\ chased' = 0
             /\ UNCHANGED <<offset, sel, asked, inFlight, asks>>
          \/ /\ off # offset /\ over = 0
             /\ offset' = off /\ sel' = at(off) /\ chased' = Again(chased)
             /\ Asked
             /\ UNCHANGED chasing
          \/ /\ off # offset /\ over > 0
             /\ offset' = Went(off, over, ~back) /\ sel' = at(offset')
             /\ chasing' = None /\ chased' = 0
             /\ UNCHANGED <<asked, inFlight, asks>>

\* A button let go: a click selected nothing, and what was dragged over is
\* copied if its lines are here.
click == sel = None \/ (sel.grain = "cell" /\ sel.anchor = sel.head)
waits == ~click /\ ~holds(block, sel)

\* On the live screen a gesture that is over gives the session back.
LetGo ==
    /\ down /\ down' = FALSE
    /\ UNCHANGED <<text, clicked, presses>>
    /\ \E got \in {IF ~up \/ click \/ waits THEN None ELSE took(block, sel)} :
       /\ taken' = IF got = None THEN taken ELSE Copied(got)
       /\ \/ /\ offset = 0 /\ ~(up /\ waits)
             /\ Closed /\ UNCHANGED asks
          \/ /\ up /\ (offset # 0 \/ waits)
             /\ UNCHANGED <<up, answered, offset, block>>
             /\ sel' = IF waits \/ got # None THEN sel ELSE None
             /\ chasing' = None /\ chased' = 0 /\ owed' = (owed \/ waits)
             /\ Asked

\* The wheel moves the window under the hand, and a key goes to the far end,
\* which before the first answer is further than anything.  Down to the live
\* screen is back to the session.
Back(off) ==
    /\ up
    /\ offset' = IF answered THEN Upto(off, furthest) ELSE off
    /\ UNCHANGED <<block, sel>>
    /\ Asked
    /\ UNCHANGED <<text, up, answered, chasing, chased, owed, down, clicked, taken,
                   presses>>

Forward ==
    /\ up
    /\ \/ /\ offset > 1 /\ offset' = offset - 1
          /\ UNCHANGED <<block, sel>>
          /\ Asked
          /\ UNCHANGED <<up, answered, chasing, chased, owed>>
       \/ /\ offset <= 1 /\ Len(asks) < MaxAsks
          /\ Closed /\ UNCHANGED asks
    /\ UNCHANGED <<text, down, clicked, taken, presses>>

\* What became of a copy that waited.
owed_copy(b) ==
    CASE ~owed \/ sel = None -> "nothing"
      [] OTHER -> CASE ~holds(b, sel) ->
                           IF sel.anchor = sel.head THEN "empty" ELSE "lost"
                    [] took(b, sel) = None -> "empty"
                    [] OTHER -> "copied"

\* The lines asked for, as far as there are any.
Answered(ask) ==
    [from |-> Upto(ask.from, Total - 1),
     top |-> Upto(Upto(ask.from, Total - 1) + ask.lines, Total)]

\* Lines come, for the view that is up now, whichever asked for them.
Take ==
    /\ asks # <<>>
    /\ \/ /\ ~up /\ asks' = Tail(asks)
          /\ UNCHANGED <<view, taken>>
       \/ /\ up
          /\ \E b \in {Answered(Head(asks))} : \E what \in {owed_copy(b)} :
             /\ taken' = CASE what = "copied" -> Copied(took(b, sel))
                           [] what = "lost" -> Lost
                           [] OTHER -> taken
             /\ IF what # "nothing" /\ Upto(offset, furthest) = 0
                THEN Closed /\ asks' = Tail(asks)
                ELSE /\ answered' = TRUE /\ offset' = Upto(offset, furthest)
                     /\ block' = b /\ owed' = FALSE
                     /\ sel' = IF what = "empty" THEN None ELSE sel
                     /\ Asking(FALSE, asked, Tail(asks))
                     /\ UNCHANGED <<up, chasing, chased>>
    /\ UNCHANGED <<text, down, clicked, presses>>

\* Back to the session, by a key.
Leave ==
    /\ up /\ Len(asks) < MaxAsks
    /\ Closed
    /\ UNCHANGED <<text, asks, down, clicked, taken, presses>>

Next ==
    \/ \E spot \in Spots, soon \in BOOLEAN : Press(spot, soon)
    \/ \E spot \in Spots : Drag(spot)
    \/ \E off \in {More(offset, 1), Far} : Back(off)
    \/ Forward \/ Chase \/ LetGo \/ Take \/ Leave

Spec == Init /\ [][Next]_vars

(***************************************************************************)
(* Properties.                                                             *)
(***************************************************************************)
TypeOK ==
    /\ text \in Texts /\ {up, answered, inFlight, owed, down} \subseteq BOOLEAN
    /\ offset \in 0..Far /\ presses \in 0..MaxPresses
    /\ taken.what \in {"nothing", "copied", "lost"}

\* What a gesture puts on the clipboard is what is lit, whichever way the hand
\* went, by whichever grain, and however late the lines were.
TakesWhatIsLit ==
    taken'.what = "copied" /\ taken' # taken =>
        taken'.lines = Lit([from |-> 0, top |-> Total], sel)

\* Nothing is left lit once the button is up but what was copied, or was said to
\* be lost, or waits for its lines.
NothingLeftLit ==
    up /\ ~down /\ sel # None => taken.what # "nothing" \/ owed

\* A copy that waits has a block on its way, as owed_copy takes for granted.
\* Violated: the answer clamps the window of a drag that went past the oldest
\* line before it, and not the drag.
OwedIsOnItsWay == up /\ owed => inFlight
=============================================================================
