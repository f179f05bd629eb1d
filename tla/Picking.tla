------------------------------- MODULE Picking -------------------------------
(***************************************************************************)
(* The list in the popup (client/picker.rs): rows under headings, the one  *)
(* highlighted, the search that narrows them, the listing that lands under *)
(* a hand, and the box it is drawn in, which gives up lines as it shrinks. *)
(*                                                                         *)
(* A row's text is the word it is found by; the lines of the terminal are  *)
(* what is on them, the session's, the box's or blank.                     *)
(***************************************************************************)
EXTENDS Integers, Sequences, SequencesExt, FiniteSetsExt

CONSTANTS
    Listings,    \* lists of rows a listing may come to
    Queries,     \* what may be searched for, "" is nothing
    Sizes,       \* of the terminal
    HINTS,       \* columns of each hint under the list
    MaxKeys, MaxListings, MaxResizes    \* bounds of the checked runs

Words == {""} \union UNION {{list[i].word : i \in DOMAIN list} : list \in Listings}
RowOf == [id : Nat, heading : BOOLEAN, available : BOOLEAN, number : Nat, indent : Nat,
          word : Words, wide : Nat]

PickingAssumption ==
    /\ "" \in Queries /\ Listings # {} /\ Listings \subseteq Seq(RowOf)
    /\ Sizes # {} /\ Sizes \subseteq [rows : Nat, cols : Nat] /\ HINTS \in Seq(Nat)
    /\ MaxKeys \in Nat /\ MaxListings \in Nat /\ MaxResizes \in Nat

VARIABLES
    picker,     \* source, rows, query, at, drawn
    size,       \* of the terminal
    lines,      \* what each of its lines shows
    pointed,    \* the line of the highlight as it was drawn, and of what row
    swapped,    \* a list was put over another since the screen was painted
    keys, listings, resizes

vars == <<picker, size, lines, pointed, swapped, keys, listings, resizes>>

MARGIN == 2
FRAME == 5
MIN_COLS == 24
WIDEST == 60
STEP == 2
GUTTER == 2
GAPS == 6
NOTE == 6
MIN_LABEL == 12
MAX_LABEL == 30

Less(a, b) == IF a < b THEN a ELSE b
More(a, b) == IF a > b THEN a ELSE b
Minus(a, b) == More(a - b, 0)      \* saturating_sub
clamp(n, low, high) == More(low, Less(n, high))

(***************************************************************************)
(* The rows.                                                               *)
(***************************************************************************)
NoMatches == [id |-> 99, heading |-> TRUE, available |-> TRUE, number |-> 0, indent |-> 0,
              word |-> "", wide |-> 10]

\* What a sequence has at some of its places: the n-th of them has n - 1 before it.
Only(seq, places) ==
    LET place(n) == CHOOSE i \in places : Cardinality({j \in places : j < i}) = n - 1
    IN  [n \in 1 .. Cardinality(places) |-> seq[place(n)]]

\* A heading is kept for a row that is found under it, and so are those it is in.
filtered(source, query) ==
    LET found(i) == ~source[i].heading /\ source[i].word = query
        over(h, i) == /\ source[h].heading /\ h < i
                      /\ \A g \in h+1..i-1 : source[g].heading => source[g].indent > source[h].indent
        kept == {i \in DOMAIN source : found(i) \/ \E j \in DOMAIN source : found(j) /\ over(i, j)}
    IN IF query = "" THEN source
       ELSE IF kept = {} THEN <<NoMatches>>
       ELSE Only(source, kept)

\* Rows are counted from nought.
Row(p, i) == p.rows[i + 1]
Indices(p) == 0..Len(p.rows) - 1
landable(p, i) == i \in Indices(p) /\ ~Row(p, i).heading
Landable(p) == {i \in Indices(p) : landable(p, i)}
first(p) == IF Landable(p) = {} THEN 0 ELSE Min(Landable(p))
index_of(p, id) == {i \in Landable(p) : Row(p, i).id = id}

NoRow == -1
chosen(p) == IF landable(p, p.at) THEN Row(p, p.at).id ELSE NoRow
actionable(p) == IF landable(p, p.at) /\ Row(p, p.at).available THEN Row(p, p.at).id ELSE NoRow

Undrawn == [row |-> 0, high |-> 0]
New(source, at) ==
    LET p == [source |-> source, rows |-> source, query |-> "", at |-> at, drawn |-> Undrawn]
    IN IF landable(p, at) THEN p ELSE [p EXCEPT !.at = first(p)]

\* The row that was highlighted, else the one the caller asks for, else the first.
Kept(p, was, at) ==
    IF index_of(p, was) # {} THEN Min(index_of(p, was))
    ELSE IF at + 1 \in DOMAIN p.source /\ index_of(p, p.source[at + 1].id) # {}
    THEN Min(index_of(p, p.source[at + 1].id)) ELSE first(p)

rebuild(p, was, at) ==
    LET q == [p EXCEPT !.rows = filtered(p.source, p.query)] IN [q EXCEPT !.at = Kept(q, was, at)]

replace(p, source, at) == rebuild([p EXCEPT !.source = source], chosen(p), at)
search(p, query) == rebuild([p EXCEPT !.query = query], chosen(p), NoRow)
point_at(p, id) == IF index_of(p, id) = {} THEN p ELSE [p EXCEPT !.at = Min(index_of(p, id))]

\* How many steps on, or back, a row is.
wrapped(p, forwards, n) == (IF forwards THEN p.at + n ELSE p.at + n * (Len(p.rows) - 1)) % Len(p.rows)
Walked(p, forwards, past) ==
    LET steps == {n \in past : landable(p, wrapped(p, forwards, n))}
    IN IF steps = {} THEN p ELSE [p EXCEPT !.at = wrapped(p, forwards, Min(steps))]

step(p, forwards) == Walked(p, forwards, 1..Len(p.rows))

starts_a_run(p, i) == i = 0 \/ Row(p, i - 1).heading

FirstOfItsRun(p, forwards, i) == forwards \/ starts_a_run(p, i)

next_heading(p, forwards) ==
    Walked(p, forwards, {n \in 1..Len(p.rows) :
        /\ \E m \in 1..n-1 : Row(p, wrapped(p, forwards, m)).heading
        /\ FirstOfItsRun(p, forwards, wrapped(p, forwards, n))})

(***************************************************************************)
(* The box.                                                                *)
(***************************************************************************)
\* Hints go on a line while there is room on it, two columns between them.
wrap_hints(width) ==
    LET fill[i \in 0..Len(HINTS)] ==
            IF i = 0 THEN <<0, 0>>
            ELSE LET was == fill[i - 1] IN
                 IF was[1] > 0 /\ was[2] + 2 + HINTS[i] <= width
                 THEN <<was[1], was[2] + 2 + HINTS[i]>> ELSE <<was[1] + 1, HINTS[i]>>
    IN fill[Len(HINTS)][1]

inner(s) == clamp(Minus(s.cols, MARGIN * 2 + 2), MIN_COLS, WIDEST)
Furniture == [s \in Sizes |-> FRAME + wrap_hints(Minus(inner(s), 2))]
furniture(s) == Furniture[s]
Fits(s) == inner(s) + MARGIN * 2 + 2 <= s.cols /\ s.rows >= furniture(s) + 3

shape(p, s) ==
    LET visible == More(Less(Minus(s.rows, furniture(s) + 2), Len(p.rows)), 1)
        high == visible + furniture(s)
    IN [row |-> Minus(s.rows, high) \div 2 + 1, high |-> high, visible |-> visible,
        top |-> IF p.at < visible THEN 0 ELSE p.at + 1 - visible]

gutter(p) == IF \E i \in Indices(p) : Row(p, i).number # 0 THEN GUTTER ELSE 0
label_width(p, width) ==
    LET widths == {Row(p, i).wide + Row(p, i).indent * STEP : i \in Landable(p)}
    IN Less(clamp(IF widths = {} THEN MIN_LABEL ELSE Max(widths), MIN_LABEL, MAX_LABEL),
            Minus(width, GAPS + NOTE + gutter(p)))

\* One column short where a wide character would not go in, and padded then.
clip(wide, width) == Less(wide, width)

fit(wide, width) == clip(wide, width) + Minus(width, clip(wide, width))

\* The columns a row is painted in; what it is doing is as wide as its label.
paint(p, i, width) ==
    LET text == Row(p, i).indent * STEP + Row(p, i).wide
        label == label_width(p, width)
    IN IF Row(p, i).heading THEN 2 + gutter(p) + fit(text, width - 2 - gutter(p))
       ELSE 2 + gutter(p) + fit(text, label) + 1
                + fit(Row(p, i).wide, Minus(width, GAPS + NOTE + gutter(p) + label)) + 2 + fit(0, NOTE) + 1

cleared(drawn, new) ==
    {l \in drawn.row..drawn.row + drawn.high - 1 : l < new.row \/ l >= new.row + new.high}

Lines(s) == 1..s.rows

\* Cleared where it was, drawn where it is; nothing where there is no room.
draw(p, s, under) ==
    IF ~Fits(s)
    THEN /\ picker' = p /\ lines' = under /\ pointed' = [line |-> 0, id |-> NoRow]
    ELSE LET new == shape(p, s) IN
         /\ picker' = [p EXCEPT !.drawn = [row |-> new.row, high |-> new.high]]
         /\ lines' = [l \in Lines(s) |->
                IF l \in new.row..new.row + new.high - 1 THEN "box"
                ELSE IF p.drawn # Undrawn /\ l \in cleared(p.drawn, new) THEN "blank" ELSE under[l]]
         /\ pointed' = [line |-> new.row + 3 + p.at - new.top, id |-> chosen(p)]

(***************************************************************************)
(* The hand, the listings, the terminal.                                   *)
(***************************************************************************)
Key(p) ==
    /\ keys < MaxKeys /\ keys' = keys + 1
    /\ draw(p, size, lines)
    /\ UNCHANGED <<size, swapped, listings, resizes>>

Up == Key(step(picker, FALSE))
Down == Key(step(picker, TRUE))
Section(forwards) == Key(next_heading(picker, forwards))
Search(query) == query # picker.query /\ Key(search(picker, query))

\* Another list over this one, or this one again, on the row it was left at.
Swap(source, id) ==
    /\ keys < MaxKeys /\ keys' = keys + 1 /\ swapped' = TRUE
    /\ draw(point_at(New(source, 0), id), size, lines)
    /\ UNCHANGED <<size, listings, resizes>>

Lands(source, at) ==
    /\ listings < MaxListings /\ listings' = listings + 1
    /\ draw(replace(picker, source, at), size, lines)
    /\ UNCHANGED <<size, swapped, keys, resizes>>

\* The session's screen is painted again, and the box over it.
Resize(s) ==
    /\ s # size /\ resizes < MaxResizes /\ resizes' = resizes + 1
    /\ size' = s /\ swapped' = FALSE
    /\ draw(picker, s, [l \in Lines(s) |-> "session"])
    /\ UNCHANGED <<keys, listings>>

Init ==
    /\ size \in {s \in Sizes : Fits(s)} /\ swapped = FALSE
    /\ keys = 0 /\ listings = 0 /\ resizes = 0
    /\ \E source \in Listings : \E at \in 0..Len(source) :
         LET p == New(source, at)
             new == shape(p, size)
         IN /\ picker = [p EXCEPT !.drawn = [row |-> new.row, high |-> new.high]]
            /\ lines = [l \in Lines(size) |->
                   IF l \in new.row..new.row + new.high - 1 THEN "box" ELSE "session"]
            /\ pointed = [line |-> new.row + 3 + p.at - new.top, id |-> chosen(p)]

Next ==
    \/ Up \/ Down \/ \E forwards \in BOOLEAN : Section(forwards)
    \/ \E query \in Queries : Search(query)
    \/ \E source \in Listings : \/ \E at \in {0, Len(source) - 1} : Lands(source, at)
                                \/ \E row \in ToSet(source) : Swap(source, row.id)
    \/ \E s \in Sizes : Resize(s)

Spec == Init /\ [][Next]_vars

(***************************************************************************)
(* Properties.                                                             *)
(***************************************************************************)
TypeOK ==
    /\ picker.at \in Indices(picker) \union {0} /\ picker.query \in Queries
    /\ size \in Sizes
    /\ DOMAIN lines = Lines(size) /\ \A l \in DOMAIN lines : lines[l] \in {"session", "box", "blank"}

\* A drawn highlight is inside the box on the row that Enter would take, a list
\* with a row to land on has one, and every row is as wide as the box.
EnterIsWhereItShows ==
    /\ Landable(picker) # {} => chosen(picker) # NoRow
    /\ Fits(size) =>
         LET box == shape(picker, size) IN
         /\ pointed.line \in box.row + 3..box.row + 2 + box.visible
         /\ pointed.id = chosen(picker)
         /\ actionable(picker) \in {NoRow, pointed.id}
         /\ box.row >= 1 /\ box.row + box.high - 1 <= size.rows
         /\ \A i \in Indices(picker) : paint(picker, i, inner(size)) = inner(size)

\* What a box covered and a later one does not is cleared; a list put over
\* another knows nothing of the box that was there.
NothingLeftOfTheBox ==
    ~swapped /\ Fits(size) =>
        \A l \in Lines(size) : lines[l] = "box" =>
            l \in picker.drawn.row..picker.drawn.row + picker.drawn.high - 1

\* A listing moves the highlight only off a row that is gone, and a step by
\* sections ends on the first row of one.
MovedByTheHand ==
    /\ listings' > listings /\ chosen(picker) # NoRow /\ index_of(picker', chosen(picker)) # {}
         => chosen(picker') = chosen(picker)
    /\ (\E forwards \in BOOLEAN : Section(forwards)) /\ picker'.at # picker.at
         => starts_a_run(picker', picker'.at)
OnlyTheHandMovesIt == [][MovedByTheHand]_vars
=============================================================================
