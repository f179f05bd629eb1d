------------------------------- MODULE Stream -------------------------------
(***************************************************************************)
(* What a program writes, byte by byte, and the three that read it: the    *)
(* node's scanner (node/events.rs) keeps what the screen model does not    *)
(* and replays it to a terminal that comes back; the client's filter       *)
(* (client/status.rs) passes the bytes on, holding back what it may have   *)
(* to rewrite; the terminal does what they say.  Each carries a sequence   *)
(* it is in the middle of from one byte to the next, so where a read ends  *)
(* makes no difference, and each has its own idea of where a sequence      *)
(* ends.                                                                   *)
(*                                                                         *)
(* A client that falls behind, or has a box up, stops writing the session  *)
(* and is put right by a screen (screen_repaint).  The terminal is not in  *)
(* this repository: Terminal, Shows and Writes say what it does with the   *)
(* sequences the program and the client write.  The client's keys are read *)
(* in Terminal.tla; here is only whose the mouse is.                       *)
(***************************************************************************)
EXTENDS Integers, Sequences, FiniteSets

LOCAL INSTANCE SequencesExt

CONSTANTS Attachments,    \* [owns, allow, history, says]: the screen is the
                          \* client's own, releases are to be reported, there
                          \* is a window on the history and it is wanted, and
                          \* the bytes the program uses
          KEYBOARD_STACK, \* how many pushed flags are kept
          MAX_CSI,        \* what the scanner keeps of a sequence
          MAX_OSC         \* what the filter holds back

StreamAssumption ==
    /\ \A a \in Attachments : /\ {a.owns, a.allow, a.history} \subseteq BOOLEAN
                              /\ a.history => a.owns
    /\ {KEYBOARD_STACK, MAX_CSI, MAX_OSC} \subseteq Nat \ {0}

VARIABLES
    kind,    \* which of them it is
    prog,    \* where in a sequence the program is
    node,    \* the scanner
    filter,  \* the client's filter
    ours,    \* the client has the mouse
    term,    \* the terminal
    used,    \* the screen model remembers an alternate screen
    read,    \* the client is in a chunk, or has settled what came of it
    behind,  \* output for the client was lost
    covered, \* a box is over the session
    coming,  \* a screen is on its way
    stale,   \* the terminal was not given what the session wrote
    attached

vars == <<kind, prog, node, filter, ours, term, used, read, behind, covered, coming,
          stale, attached>>

(***************************************************************************)
(* Bytes.  The parameters of a sequence are one byte, with what they name: *)
(* private modes, or the flags of the keyboard and how they are changed.   *)
(* A byte that paints says which of its screens the program is on.         *)
(***************************************************************************)
Byte(b) == [is |-> b, set |-> {}, how |-> ""]
Esc == Byte("esc")

Param(lead, set, how) == [is |-> lead, set |-> set, how |-> how]

Tracking  == {"mouse"}      \* 9, 1000, 1002 and 1003
Alternate == {"alternate"}  \* 47, 1047 and 1049
REPLAYED_MODES == Tracking \union {"paste"}
Releases  == {"releases"}   \* report event types

Leads == {"?", ">", "=", "<"}
Painting == {"primary", "alternate"}

ends_csi(b) == b.is \notin Leads \union {"bel", "esc"}

\* What a sequence says: its one parameter string, if it has exactly one.
Meant(params) == IF Len(params) = 1 THEN params[1] ELSE Byte("none")

(***************************************************************************)
(* The keyboard protocol (keyboard.rs), as the scanner, the filter and the *)
(* terminal keep it.                                                       *)
(***************************************************************************)
Plain == [base |-> {}, stack |-> <<>>]

push(k, flags) ==
    [k EXCEPT !.stack = Append(IF Len(@) = KEYBOARD_STACK THEN Tail(@) ELSE @,
                               flags)]
pop(k) == [k EXCEPT !.stack = IF @ = <<>> THEN @ ELSE Front(@)]

Changed(flags, p) == CASE p.how = "add"    -> flags \union p.set
                       [] p.how = "remove" -> flags \ p.set
                       [] OTHER            -> p.set
assign(k, p) ==
    IF k.stack = <<>> THEN [k EXCEPT !.base = Changed(@, p)]
    ELSE [k EXCEPT !.stack[Len(k.stack)] = Changed(@, p)]

note(k, p) == CASE p.is = ">" -> push(k, p.set)
                [] p.is = "<" -> pop(k)
                [] p.is = "=" -> assign(k, p)
                [] OTHER      -> k

Sequence(params, final) == <<Esc, Byte("[")>> \o params \o <<Byte(final)>>

replay_keyboard(k) ==
    (IF k.base = {} THEN <<>>
     ELSE Sequence(<<Param("=", k.base, "assign")>>, "u"))
    \o FlattenSeq([i \in 1 .. Len(k.stack) |->
                      Sequence(<<Param(">", k.stack[i], "")>>, "u")])

(***************************************************************************)
(* The scanner.                                                            *)
(***************************************************************************)
Scanner == [at |-> "ground", csi |-> <<>>, modes |-> {}, keyboard |-> Plain,
            on_alternate |-> FALSE, bells |-> FALSE]

Rings(s) == [s EXCEPT !.bells = ~@]

finish_csi(s, final) ==
    LET p == Meant(s.csi)
        on == final = "h" IN
    CASE final = "u" -> [s EXCEPT !.keyboard = note(@, p)]
      [] final \in {"h", "l"} /\ p.is = "?" ->
             [s EXCEPT !.on_alternate = IF p.set \intersect Alternate # {}
                                        THEN on ELSE @,
                       !.modes = IF on THEN @ \union (p.set \intersect REPLAYED_MODES)
                                 ELSE @ \ p.set]
      [] OTHER -> s

finish_title(s, b) == [s EXCEPT !.at = "ground"]

Scan(s, b) ==
    CASE s.at = "ground" ->
             IF b.is = "bel" THEN Rings(s)
             ELSE IF b.is = "esc" THEN [s EXCEPT !.at = "escape"] ELSE s
      [] s.at = "escape" ->
             CASE b.is = "[" -> [s EXCEPT !.at = "csi", !.csi = <<>>]
               [] b.is = "]" -> [s EXCEPT !.at = "osc"]
               [] b.is = "P" -> [s EXCEPT !.at = "ignored"]
               [] b.is = "esc" -> s
               [] b.is = "c" -> [Scanner EXCEPT !.bells = s.bells]
               [] OTHER -> [s EXCEPT !.at = "ground"]
      [] s.at = "csi" ->
             CASE b.is = "bel" -> Rings(s)
               [] b.is \in Leads ->
                      [s EXCEPT !.csi = IF Len(@) < MAX_CSI THEN Append(@, b)
                                        ELSE @]
               [] ends_csi(b) -> [finish_csi(s, b.is) EXCEPT !.at = "ground",
                                                             !.csi = <<>>]
               [] OTHER -> s
      [] s.at = "osc" ->
             CASE b.is = "bel" -> finish_title(s, b)
               [] b.is = "esc" -> [s EXCEPT !.at = "oscescape"]
               [] OTHER -> s
      [] s.at = "oscescape" ->
             IF b.is = "\\" THEN finish_title(s, b) ELSE [s EXCEPT !.at = "osc"]
      [] s.at = "ignored" ->
             IF b.is = "esc" THEN [s EXCEPT !.at = "ignoredescape"] ELSE s
      [] s.at = "ignoredescape" ->
             CASE b.is = "\\" -> [s EXCEPT !.at = "ground"]
               [] b.is = "esc" -> s
               [] OTHER -> [s EXCEPT !.at = "ignored"]

\* What puts a terminal that comes back where the program left it.
replay(s) ==
    (IF s.modes = {} THEN <<>> ELSE Sequence(<<Param("?", s.modes, "")>>, "h"))
    \o replay_keyboard(s.keyboard)

(***************************************************************************)
(* The filter.  A step answers what it is now and what it lets through.    *)
(***************************************************************************)
Filter(owns, releases) ==
    [owns |-> owns, allow |-> releases, at |-> "ground", held |-> <<>>,
     dirty |-> FALSE, switched |-> FALSE, alternate |-> FALSE,
     mouse |-> FALSE, keyboard |-> Plain, owed |-> FALSE]

Gives(f, out) == [f |-> f, out |-> out]

Passes(f, b, at) == Gives([f EXCEPT !.at = at], <<b>>)
Holds(f, b, at)  == Gives([f EXCEPT !.held = Append(@, b), !.at = at], <<>>)
\* Everything held goes, and b after it.
Release(f, b, at) ==
    Gives([f EXCEPT !.held = <<>>, !.at = at], Append(f.held, b))

\* The erase a swallowed switch owes, with the pen and the cursor put back.
SWITCHED == Byte("erase")

paints(b) == b.is \notin {"bel", "esc"}

at_boundary(f) == f.at = "ground"

\* Mutant: only a push is looked at.
PushOnly(p) == IF p.is = ">" THEN [p EXCEPT !.set = @ \ Releases] ELSE p

\* Flag 2 is taken out of a push or an assignment before the terminal hears
\* of it; taking flags away is always safe to pass on.
remove_key_release_flag(p) ==
    IF p.is \in {">", "="} /\ p.how # "remove"
    THEN [p EXCEPT !.set = @ \ Releases] ELSE p

Reset(f) == [f EXCEPT !.alternate = FALSE, !.mouse = FALSE, !.keyboard = Plain]

\* The program's switches between its screens stop here where the client owns
\* the screen, and leave an erase owing; two of them and nothing painted in
\* between are a round trip and owe nothing.
note_modes(f, p, final) ==
    LET kept == p.set \ Alternate
        tracked == [f EXCEPT !.mouse = IF p.set \intersect Tracking # {}
                                       THEN final = "h" ELSE @]
        noted == [tracked EXCEPT !.alternate = final = "h", !.dirty = TRUE]
        whole == Sequence(<<p>>, final)
    IN  IF kept = p.set THEN Gives(tracked, whole)
        ELSE IF ~f.owns THEN Gives(noted, whole)
        ELSE Gives([noted EXCEPT !.switched = TRUE, !.owed = ~@],
                   IF kept = {} THEN <<>>
                   ELSE Sequence(<<Param("?", kept, "")>>, final))

\* A finished sequence.
note_csi(f, b) ==
    LET params == SubSeq(f.held, 3, Len(f.held))
        p == Meant(params)
        told == IF f.allow THEN p ELSE remove_key_release_flag(p)
        free == [f EXCEPT !.held = <<>>, !.at = "ground"]
    IN  CASE b.is \in {"h", "l"} /\ p.is = "?" -> note_modes(free, p, b.is)
          [] b.is = "J" -> Release([f EXCEPT !.dirty = TRUE], b, "ground")
          [] b.is = "u" /\ p.is # "none" ->
                 Gives([free EXCEPT !.keyboard = note(@, told)],
                       Sequence(<<told>>, "u"))
          [] OTHER -> Release(f, b, "ground")

Opaque == {"str", "long"}
Escaped(at) == at \o "escape"

\* The payload of what began with ESC P ends with ESC \; so does one of an OSC
\* too long to hold, which a bell ends as well.
bel_ends(at) == at = "long"

Feed(f, b) ==
    CASE f.at = "ground" ->
             IF b.is = "esc" THEN Holds(f, b, "escape")
             ELSE IF f.owed /\ paints(b)
                  THEN Gives([f EXCEPT !.owed = FALSE], <<SWITCHED, b>>)
                  ELSE Passes(f, b, "ground")
      [] f.at = "escape" ->
             CASE b.is = "esc" -> Gives([f EXCEPT !.held = <<b>>], f.held)
               [] b.is = "[" -> Holds(f, b, "csi")
               [] b.is = "]" -> Holds(f, b, "osc")
               [] b.is = "P" -> Release(f, b, "str")
               [] b.is = "c" -> Release([Reset(f) EXCEPT !.dirty = TRUE], b, "ground")
               [] OTHER -> Release(f, b, "ground")
      [] f.at = "csi" ->
             IF ends_csi(b) THEN note_csi(f, b)
             ELSE IF Len(f.held) >= MAX_OSC THEN Release(f, b, "csipass")
                  ELSE Holds(f, b, "csi")
      [] f.at = "csipass" ->
             Passes(f, b, IF ends_csi(b) THEN "ground" ELSE "csipass")
      [] f.at = "osc" ->
             CASE b.is = "bel" -> Release(f, b, "ground")
               [] b.is = "esc" -> Gives([f EXCEPT !.at = "oscescape"], <<>>)
               [] Len(f.held) >= MAX_OSC -> Release(f, b, "long")
               [] OTHER -> Holds(f, b, "osc")
      [] f.at = "oscescape" ->
             LET held == [f EXCEPT !.held = Append(@, Esc)] IN
             CASE b.is = "\\" -> Release(held, b, "ground")
               [] Len(held.held) >= MAX_OSC ->
                      Release(held, b, IF b.is = "esc" THEN Escaped("long")
                                       ELSE "long")
               [] OTHER -> Holds(held, b, "osc")
      [] f.at \in Opaque ->
             Passes(f, b, IF b.is = "bel" /\ bel_ends(f.at) THEN "ground"
                          ELSE IF b.is = "esc" THEN Escaped(f.at) ELSE f.at)
      [] OTHER ->
             Passes(f, b, IF b.is = "\\" THEN "ground"
                          ELSE IF b.is = "esc" THEN f.at
                          ELSE IF f.at = Escaped("str") THEN "str" ELSE "long")

\* A run of bytes.
FeedAll(f, bytes) ==
    FoldLeft(LAMBDA g, b : LET n == Feed(g.f, b) IN Gives(n.f, g.out \o n.out),
             Gives(f, <<>>), bytes)

\* A whole screen and the modes with it begin the stream again.
snapshot(f, bytes) ==
    LET g == FeedAll([Reset(f) EXCEPT !.at = "ground", !.held = <<>>,
                                      !.owed = FALSE], bytes)
    IN  Gives([g.f EXCEPT !.switched = FALSE, !.dirty = FALSE], g.out)

(***************************************************************************)
(* The terminal.  "erase" and "undo" are the client's own: a screen wiped, *)
(* and everything a program may have left behind undone.                   *)
(***************************************************************************)
Terminal(owns) ==
    [at |-> "ground", csi |-> <<>>, modes |-> {}, keyboard |-> Plain,
     alternate |-> owns, shows |-> {}, marked |-> TRUE, bells |-> FALSE]

Hears(t, final) ==
    LET p == Meant(t.csi)
        heard == [t EXCEPT !.at = "ground", !.csi = <<>>]
        on == final = "h" IN
    CASE final = "u" -> [heard EXCEPT !.keyboard = note(@, p)]
      [] final = "J" -> [heard EXCEPT !.shows = {}, !.marked = FALSE]
      [] p.is = "?" ->
             [heard EXCEPT !.modes = IF on THEN @ \union (p.set \ Alternate)
                                     ELSE @ \ p.set,
                           !.alternate = IF p.set \intersect Alternate # {}
                                         THEN on ELSE @,
                           !.shows = IF p.set \intersect Alternate # {}
                                     THEN {} ELSE @,
                           !.marked = @ /\ p.set \intersect Alternate = {}]
      [] OTHER -> heard

Goes(t, at) == [t EXCEPT !.at = at]

\* Where a sequence of the client's own is understood: its first byte is ESC.
Between == {"ground", "escape"}

Shows(t, b) ==
    CASE b.is = "can" -> Goes(t, "ground")
      [] b.is = "undo" -> [Goes(t, "ground") EXCEPT !.modes = {},
                              !.keyboard = Plain, !.marked = FALSE]
      [] b.is = "erase" /\ t.at \in Between ->
             [Goes(t, "ground") EXCEPT !.shows = {}, !.marked = FALSE]
      [] b.is = "mark" /\ t.at \in Between ->
             [Goes(t, "ground") EXCEPT !.marked = TRUE]
      [] t.at = "ground" ->
             CASE b.is = "esc" -> Goes(t, "escape")
               [] b.is = "bel" -> [t EXCEPT !.bells = ~@]
               [] b.is \in Painting -> [t EXCEPT !.shows = @ \union {b.is}]
               [] OTHER -> t
      [] t.at = "escape" ->
             CASE b.is = "[" -> [t EXCEPT !.at = "csi", !.csi = <<>>]
               [] b.is = "]" -> Goes(t, "osc")
               [] b.is = "P" -> Goes(t, "str")
               [] b.is = "esc" -> t
               [] b.is = "c" -> [Terminal(FALSE) EXCEPT !.marked = FALSE,
                                                        !.bells = t.bells]
               [] OTHER -> Goes(t, "ground")
      [] t.at = "csi" ->
             IF ends_csi(b) THEN Hears(t, b.is)
             ELSE [t EXCEPT !.csi = Append(@, b)]
      [] t.at = "osc" /\ b.is = "bel" -> Goes(t, "ground")
      [] t.at \in {"osc", "str"} ->
             IF b.is = "esc" THEN Goes(t, t.at \o "end") ELSE t
      [] OTHER -> IF b.is = "\\" THEN Goes(t, "ground")
                  ELSE IF b.is = "[" THEN Goes([t EXCEPT !.csi = <<>>], "csi")
                  ELSE Goes(t, "str")

Writes(t, bytes) == FoldLeft(Shows, t, bytes)

(***************************************************************************)
(* The program.  It ends what it begins, though it may give up a sequence  *)
(* after its first byte; what is longer than one parameter string says     *)
(* nothing; and it changes to the screen it is not on.                     *)
(***************************************************************************)
Legal(b) ==
    CASE prog = "ground" ->
             b \in {Esc, Byte("bel"),
                    Byte(IF node.on_alternate THEN "alternate" ELSE "primary")}
      [] prog = "escape" -> b.is \in {"esc", "[", "]", "P", "c", "h"}
      [] prog = "csi" -> b.is \in Leads \union {"J"}
      [] prog = "params" ->
             LET p == Last(node.csi) IN
             IF Len(node.csi) > 1
             THEN b.is = "h" \/ (b.is \in Leads /\ Len(node.csi) < MAX_CSI)
             ELSE \/ b.is \in {"J", "<"}
                  \/ /\ p.is = "?" /\ b.is \in {"h", "l"}
                     /\ Alternate \subseteq p.set =>
                            (b.is = "h") # node.on_alternate
                  \/ p.is # "?" /\ b.is = "u"
      [] prog \in {"osc", "str"} -> b.is \in {"esc", "bel", "primary"}
      [] OTHER -> b.is = "\\"

Moves(b) ==
    CASE b = Esc -> IF prog \in {"osc", "str"} THEN "end" ELSE "escape"
      [] prog = "escape" -> CASE b.is = "[" -> "csi"
                              [] b.is = "]" -> "osc"
                              [] b.is = "P" -> "str"
                              [] OTHER -> "ground"
      [] prog \in {"csi", "params"} -> IF ends_csi(b) THEN "ground" ELSE "params"
      [] prog = "osc" /\ b.is = "bel" -> "ground"
      [] prog = "end" -> "ground"
      [] OTHER -> prog

(***************************************************************************)
(* The three of them.                                                      *)
(***************************************************************************)
wheel_is_ours(asked) == kind.history /\ ~asked

\* The terminal's mouse, taken for the client and given up.
WHEEL_OURS   == Sequence(<<Param("?", Tracking, "")>>, "h")
WHEEL_THEIRS == Sequence(<<Param("?", Tracking, "")>>, "l")

Init ==
    /\ prog = "ground" /\ node = Scanner
    /\ \E a \in Attachments : /\ filter = Filter(a.owns, a.allow)
                              /\ term = Terminal(a.owns) /\ kind = a
    /\ ours = FALSE /\ used = FALSE /\ read = "settled"
    /\ behind = FALSE /\ covered = FALSE /\ coming = FALSE /\ stale = FALSE
    /\ attached = TRUE

\* A byte is read from the program, and is one more of the chunk the client
\* reads, unless that chunk is lost to it.
Prints(b) ==
    /\ attached /\ Legal(b)
    /\ prog' = Moves(b) /\ node' = Scan(node, b)
    /\ used' = (node'.on_alternate \/ (used /\ ~(node.at = "escape" /\ b.is = "c")))
    /\ IF behind THEN UNCHANGED <<filter, term, read>>
       ELSE LET g == Feed(filter, b) IN
            /\ filter' = g.f /\ read' = "open"
            /\ term' = IF covered THEN term ELSE Writes(term, g.out)
    /\ UNCHANGED <<kind, ours, behind, covered, coming, stale, attached>>

\* Between sequences the client takes or gives up the mouse and puts the mark
\* back.
Settled(t, f, whose, wants) ==
    IF ~at_boundary(f) THEN t
    ELSE Writes(t, (IF whose = wants THEN <<>>
                    ELSE IF wants THEN WHEEL_OURS ELSE WHEEL_THEIRS)
                   \o (IF f.dirty THEN <<Byte("mark")>> ELSE <<>>))

\* The end of a chunk.
Settles ==
    /\ read = "open"
    /\ LET wants == IF at_boundary(filter) THEN wheel_is_ours(filter.mouse)
                    ELSE ours IN
       /\ term' = Settled(term, filter, ours, wants)
       /\ ours' = wants
    /\ coming' = (coming \/ filter.switched)
    /\ filter' = [filter EXCEPT !.switched = FALSE,
                                !.dirty = @ /\ ~at_boundary(filter)]
    /\ read' = "settled"
    /\ UNCHANGED <<kind, prog, node, used, behind, covered, stale, attached>>

FallsBehind ==
    /\ read = "settled" /\ attached /\ ~behind
    /\ behind' = TRUE /\ coming' = TRUE /\ stale' = TRUE
    /\ UNCHANGED <<kind, prog, node, filter, ours, term, used, read, covered, attached>>

\* A dump paints both screens, and names both switches once there were any.
dump == LET to(final) == Sequence(<<Param("?", Alternate, "")>>, final) IN
        <<Byte("primary")>>
        \o (IF node.on_alternate THEN to("h") \o <<Byte("alternate")>>
            ELSE IF used THEN to("h") \o to("l") ELSE <<>>)

\* All that a program may have switched on, off; the screen as it is to be
\* drawn on; what was lost in the middle of a sequence given up first.
given_back == <<Byte("undo")>>
undone == given_back
REGROWN == <<Byte("erase")>>
screen_repaint(picture, wants) ==
    IF covered THEN <<>>
    ELSE <<Byte("can"), Esc, Byte("\\")>> \o undone \o REGROWN \o picture
         \o (IF wants THEN WHEEL_OURS ELSE <<>>)

\* The screen comes.  Under a box it is heard and not written.  Bells that were
\* missed stay missed: they are counted from here on.
Repaints ==
    /\ coming /\ read = "settled" /\ prog = "ground" /\ attached
    /\ LET g == snapshot(filter, dump \o replay(node))
           wants == wheel_is_ours(g.f.mouse) IN
       /\ filter' = g.f
       /\ ours' = IF covered THEN ours ELSE wants
       /\ term' = [Writes(term, screen_repaint(g.out, wants) \o <<Byte("mark")>>)
                   EXCEPT !.bells = IF covered THEN @ ELSE node.bells]
    /\ stale' = covered /\ coming' = FALSE /\ behind' = FALSE
    /\ UNCHANGED <<kind, prog, node, used, read, covered, attached>>

\* A box goes up, and comes down again: the session is asked for.
Covers ==
    /\ read = "settled" /\ attached /\ ~covered /\ at_boundary(filter)
    /\ covered' = TRUE /\ stale' = TRUE
    /\ UNCHANGED <<kind, prog, node, filter, ours, term, used, read, behind, coming,
                   attached>>

Uncovers ==
    /\ read = "settled" /\ attached /\ covered
    /\ covered' = FALSE /\ coming' = TRUE
    /\ UNCHANGED <<kind, prog, node, filter, ours, term, used, read, behind, stale,
                   attached>>

\* The terminal is given back as it was found.
LEAVE_ALTERNATE == Sequence(<<Param("?", Alternate, "")>>, "l")
reset(owns, on_alternate) ==
    undone \o (IF owns \/ on_alternate THEN LEAVE_ALTERNATE ELSE <<>>)

Leaves ==
    /\ read = "settled" /\ attached
    /\ attached' = FALSE
    /\ term' = Writes(term, reset(filter.owns, filter.alternate))
    /\ UNCHANGED <<kind, prog, node, filter, ours, used, read, behind, covered,
                   coming, stale>>

Next ==
    \/ \E b \in kind.says : Prints(b)
    \/ Settles \/ FallsBehind \/ Repaints \/ Covers \/ Uncovers \/ Leaves

Spec == Init /\ [][Next]_vars

(***************************************************************************)
(* Properties.                                                             *)
(***************************************************************************)
InStep == attached /\ read = "settled" /\ ~behind /\ ~covered /\ ~stale

Kept(k, f) == IF f.allow THEN k
              ELSE [base |-> k.base \ Releases,
                    stack |-> [i \in DOMAIN k.stack |-> k.stack[i] \ Releases]]

TypeOK ==
    /\ prog \in {"ground", "escape", "csi", "params", "osc", "str", "end"}
    /\ Len(node.csi) <= MAX_CSI /\ Len(filter.held) <= MAX_OSC + 1
    /\ Len(node.keyboard.stack) <= KEYBOARD_STACK
    /\ {ours, used, behind, covered, coming, stale, attached} \subseteq BOOLEAN

\* The client writes things of its own between sequences, and the filter's word
\* is what it has for it: when the filter says so, the terminal is in the middle
\* of nothing that would swallow it; and a program that is in the middle of
\* nothing does not keep the mark waiting.
BoundariesAgree ==
    /\ attached /\ ~covered /\ ~stale /\ at_boundary(filter) => term.at \in Between
    /\ InStep /\ prog = "ground" => at_boundary(filter)

\* A terminal that followed along, fell behind or was under a box is in the
\* modes the program left it in, as one that comes back now would be; has rung
\* as often as the node has; and on a screen of the client's shows nothing of
\* the screen the program is not on, once it has drawn on the other.  The mouse
\* is left out where the client has a window on the history and so takes the
\* mouse itself: what the program asked for is not kept there, which is
\* SessionKeepsTheMouse.
AsTheProgramLeftIt ==
    InStep /\ prog = "ground" =>
        /\ term.keyboard = Kept(node.keyboard, filter)
        /\ term.modes \ Tracking = node.modes \ Tracking
        /\ ~kind.history => term.modes = node.modes
        /\ filter.mouse = (node.modes \intersect Tracking # {})
        /\ filter.alternate = node.on_alternate
        /\ term.bells = node.bells
        /\ term.marked \/ coming
        /\ filter.owns => Cardinality(term.shows) <= 1

(***************************************************************************)
(* Something the documentation says that the code does not do.             *)
(***************************************************************************)

\* A program that asked for the mouse keeps it while the client has the mouse at
\* all other times: what README.md:395 says of either setting.  What the program
\* writes goes to the terminal first, and then the client, seeing that it has to
\* give the mouse up, switches off the very modes the program has switched on.
SessionKeepsTheMouse ==
    InStep /\ prog = "ground" /\ filter.mouse => Tracking \subseteq term.modes

=============================================================================
