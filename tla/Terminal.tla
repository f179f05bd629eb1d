------------------------------ MODULE Terminal ------------------------------
(***************************************************************************)
(* The loop of an attached client (client/attach/terminal.rs, pump): one   *)
(* task that takes a chunk of keys, a frame of the session, a listing, a   *)
(* resize or a timer, whichever is there, and answers it before it takes   *)
(* the next.  It owns three surfaces drawn over the session: the status    *)
(* row, the box of control mode ("popup") and the window on the history    *)
(* ("view").  While a box or a window is up the session's output is read   *)
(* and not written, so the terminal falls behind the session ("stale")     *)
(* and closing the surface has to ask the node for the screen again.       *)
(*                                                                         *)
(* A chunk of keys is filtered (Keys.tla), the row and the popup follow    *)
(* the mode, the action is done, and a popup whose mode is over is taken   *)
(* down; what is left of the chunk goes round again.  Each is a step here, *)
(* and nothing but the steps of a chunk happens between them.              *)
(*                                                                         *)
(* "down" and "orphan" are history: the chords that went down for the      *)
(* attached session, and whether it was ever given the repeat or release   *)
(* of another.  A key that means nothing in control mode closes it and     *)
(* goes to the session, and so does a repeat of it, whoever had its press: *)
(* that repeat is where it goes down for the session.  "early" says keys   *)
(* were read in the popup's mode before the popup had a screen to be drawn *)
(* on.                                                                     *)
(***************************************************************************)
EXTENDS Keys

CONSTANTS Typed,       \* the chunks of keys a read of the terminal returns
          Places,      \* the attachments there are, each a Place
          MaxResyncs   \* screens asked for and not answered yet, counted

TerminalAssumption ==
    /\ MaxResyncs \in Nat \ {0}
    /\ Typed \subseteq Seq(Key) \ {<<>>}
    /\ Places \subseteq [owns: BOOLEAN, scrolls: BOOLEAN, renames: BOOLEAN,
                         watching: BOOLEAN, mouse: BOOLEAN]

Popups == {"none", "sessions", "moving", "narrowing", "hosting"}
Views  == {"closed", "live", "back"}   \* "live": the window is at the bottom

VARIABLES k, chunk, act, pc, place, status, row, restate, popup, view, owing,
          greet, painted, boundary, mouse, stale, resyncs, down, orphan, early

rowVars     == <<status, row, restate>>
surfaces    == <<popup, view, owing>>
outputVars  == <<greet, painted, boundary, mouse>>
pictureVars == <<stale, resyncs>>
sessionVars == <<down, orphan, early>>

vars == <<k, chunk, act, pc, place, status, row, restate, popup, view, owing,
          greet, painted, boundary, mouse, stale, resyncs, down, orphan, early>>

Covered == popup # "none" \/ view # "closed"

\* The window on the history is there, and somebody asked for the mouse.
history == place.scrolls /\ place.owns /\ place.mouse

wheel_is_ours(asked) == history /\ ~asked

\* The mode a list is read in.
ModeOf(p) == CASE p = "sessions" -> "Control"
               [] p \in {"moving", "narrowing", "hosting"} -> "Picking"
               [] OTHER -> "Focus"

\* The session a list acts on, if it is on one: "row" says whether the
\* highlight of the session list is on one it can act on.
subject(p, onRow) == p = "moving" \/ (p = "sessions" /\ onRow)

(***************************************************************************)
(* Writing the row, asking for the screen, holding the wheel.              *)
(***************************************************************************)
settle(r) == /\ row' = IF boundary /\ r THEN status' ELSE row
             /\ restate' = (r /\ ~boundary)

draw_popup == IF popup' = "none" THEN row' = row /\ restate' = TRUE
              ELSE row' = status' /\ restate' = FALSE

put_up == row' = status' /\ restate' = restate

resync == resyncs' = IF resyncs = MaxResyncs THEN resyncs ELSE resyncs + 1

SetMode(m) == k' = set_mode(k, m) /\ status' = m

own_the_wheel(asked) == k' = IF k.wheel = wheel_is_ours(asked) THEN k
                             ELSE set_wheel(k, wheel_is_ours(asked))

\* What is drawn over the session is not the session: its picture goes.
Covers == stale' = (stale \/ popup' # "none" \/ view' # "closed")

TypeOK ==
    /\ k \in KeyFilter
    /\ pc \in {"idle", "reading", "following", "acting", "closing", "away"}
    /\ act \in Actions
    /\ place \in Places
    /\ status \in Modes
    /\ row \in Modes \union {"gone"}
    /\ popup \in Popups
    /\ view \in Views
    /\ resyncs \in 0..MaxResyncs
    /\ down \subseteq Codes
    /\ \A b \in {restate, owing, greet, painted, boundary, mouse, stale,
                 orphan, early} : b \in BOOLEAN

\* Everything of the loop's own that an attach starts with, in mode m.
Fresh(m) ==
    /\ status' = m /\ row' = m /\ restate' = FALSE
    /\ popup' = "none" /\ view' = "closed" /\ owing' = FALSE
    /\ greet' = (m = "Control")
    /\ painted' = FALSE /\ boundary' = TRUE /\ mouse' = FALSE
    /\ stale' = TRUE /\ resyncs' = 0
    /\ down' = {} /\ orphan' = orphan /\ early' = FALSE
    /\ chunk' = <<>> /\ act' = None

Init ==
    /\ place \in Places
    /\ k = begin_attach(NewFilter, "Focus", place.owns)
    /\ chunk = <<>> /\ act = None /\ pc = "idle"
    /\ status = "Focus" /\ row = "Focus" /\ restate = FALSE
    /\ popup = "none" /\ view = "closed" /\ owing = FALSE
    /\ greet = FALSE /\ painted = FALSE /\ boundary = TRUE /\ mouse = FALSE
    /\ stale = TRUE /\ resyncs = 0
    /\ down = {} /\ orphan = FALSE /\ early = FALSE

\* The terminal changes hands: every mode a session can ask for is undone.
Attach(p, m) ==
    /\ pc = "away" /\ pc' = "idle"
    /\ place' = p /\ k' = begin_attach(k, m, p.owns)
    /\ Fresh(m)

\* The attach is over: leave_for, or the session or the connection is gone.
\* What was left of the chunk goes with it.
Leaves ==
    /\ pc' = "away"
    /\ UNCHANGED <<k, place>>
    /\ Fresh("Focus")

(***************************************************************************)
(* A chunk of keys.                                                        *)
(***************************************************************************)
\* A chord goes down for the session with its press, or with a repeat that
\* closes what the client had the keyboard for and goes to the session with it.
Sends(out) ==
    LET chords == {i \in DOMAIN out : out[i].how = "chord"}
        closing == k.mode # "Focus" /\ k'.mode = "Focus"
        begun  == {i \in chords : \/ out[i].event = "press"
                                  \/ out[i].event # "release" /\ closing}
    IN IF place.watching THEN UNCHANGED <<down, orphan>>
       ELSE /\ down' = down \union {out[i].code : i \in begun}
            /\ orphan' = (orphan \/ \E i \in chords \ begun : out[i].code \notin down)

\* One key of the chunk.  Typing at a prompt is one action for all of it.
Reads(keys) ==
    /\ LET key  == Head(keys)
           r    == filter_at(k, key)
           more == r.act[2] = "typed" /\ Len(keys) > 1
       IN /\ k' = r.k
          /\ Sends(r.out)
          /\ act' = IF more THEN None ELSE r.act
          /\ chunk' = IF r.act = None \/ more \/ rest_after(key, r.act)
                      THEN Tail(keys) ELSE <<>>
          /\ pc' = IF act' = None /\ chunk' # <<>> THEN "reading" ELSE "following"
    /\ early' = (early \/ greet)
    /\ UNCHANGED <<place, rowVars, surfaces, outputVars, pictureVars>>

Type(keys) == pc = "idle" /\ Reads(keys)
Read       == pc = "reading" /\ Reads(chunk)

\* The row takes the mode the keys were left in, and control mode opens its
\* popup on the way in.
Follow ==
    /\ pc = "following"
    /\ status' = k.mode
    /\ LET opens == k.mode = "Control" /\ status # "Control" /\ popup = "none"
           r     == restate \/ k.mode # status
       IN /\ popup' = IF opens THEN "sessions" ELSE popup
          /\ IF opens THEN draw_popup ELSE settle(r)
    /\ view' = view /\ Covers
    /\ pc' = "acting"
    /\ UNCHANGED <<k, chunk, act, place, owing, outputVars, resyncs, sessionVars>>

\* An arm of the action is done, and the close of the pass is next.
Done == /\ act' = None /\ pc' = "closing"
        /\ UNCHANGED <<chunk, place, outputVars, sessionVars>>

\* "continue" from inside an arm: the rest of the chunk, which is empty, is
\* filtered before the pass is closed.
Again == /\ act' = None /\ pc' = "following"
         /\ UNCHANGED <<chunk, place, outputVars, sessionVars>>

Acting(kind) == pc = "acting" /\ act[1] = kind

Nothing == /\ pc = "acting" /\ act = None
           /\ Done
           /\ UNCHANGED <<k, rowVars, surfaces, stale, resyncs>>

Detach == Acting("detach") /\ Leaves
Switch == Acting("switch") /\ Leaves

\* A viewer starts no session.
New ==
    \/ /\ Acting("new") /\ ~place.watching
       /\ Leaves
    \/ /\ Acting("new") \/ (pc = "acting" /\ act = <<"pick", "hosts">>)
       /\ place.watching
       /\ SetMode(ModeOf(popup))
       /\ Done /\ settle(TRUE)
       /\ UNCHANGED <<surfaces, stale, resyncs>>

SessionSearch ==
    /\ Acting("sessions")
    /\ popup' = IF popup = "none" THEN "sessions" ELSE popup
    /\ k' = IF act[2] = "run" THEN stop_typing(k) ELSE k
    /\ status' = status /\ view' = view
    /\ draw_popup /\ Covers /\ Done
    /\ UNCHANGED <<owing, resyncs>>

\* Esc in a list drawn over the session list goes back to the session list.
Cancel ==
    /\ pc = "acting" /\ act = <<"pick", "cancel">>
    /\ status' = status
    /\ IF popup \in {"none", "sessions"}
       THEN UNCHANGED <<row, restate, popup>>
       ELSE popup' = "sessions" /\ draw_popup
    /\ Done
    /\ UNCHANGED <<k, view, owing, stale, resyncs>>

\* A key in a list.  "onRow": the highlight, or the digit, is on a row that
\* can be acted on.
Pick(onRow) ==
    LET up   == IF popup = "none" THEN "sessions" ELSE popup
        into == CASE act[2] = "move"   -> "moving"
                  [] act[2] = "groups" -> "narrowing"
                  [] act[2] = "hosts"  -> "hosting"
                  [] OTHER             -> up
    IN
    /\ Acting("pick") /\ act[2] # "cancel"
    /\ act[2] = "hosts" => ~place.watching
    /\ \/ /\ act[2] \in {"up", "down", "heading"} /\ onRow
          /\ popup' = up /\ UNCHANGED <<k, status>>
          /\ view' = view /\ draw_popup /\ Covers /\ Done
          /\ UNCHANGED <<owing, resyncs>>
       \/ /\ act[2] \in {"move", "groups", "hosts"}
          /\ act[2] = "hosts" \/ onRow
          /\ popup' = into /\ SetMode("Picking")
          /\ view' = view /\ draw_popup /\ Covers /\ Done
          /\ UNCHANGED <<owing, resyncs>>
       \/ /\ act[2] \in {"go", "number"} /\ onRow
          /\ act[2] = "number" => up = "sessions"
          /\ Leaves
       \/ /\ act[2] \in {"move", "groups", "go", "number"} /\ ~onRow
          /\ popup' = up /\ SetMode(ModeOf(up))
          /\ restate' = TRUE /\ row' = row
          /\ view' = view /\ Covers /\ Again
          /\ UNCHANGED <<owing, resyncs>>

\* Naming a group.  "named": something was typed.
GroupName(onRow, named) ==
    /\ Acting("group")
    /\ \/ /\ act[2] = "open" /\ ~subject(popup, onRow)
          /\ k' = set_mode(stop_typing(k), ModeOf(popup))
          /\ status' = ModeOf(popup) /\ popup' = popup
          /\ draw_popup /\ Done
          /\ UNCHANGED <<view, owing, stale, resyncs>>
       \/ /\ act[2] = "run" /\ subject(popup, onRow) /\ named
          /\ Leaves
       \/ /\ act[2] = "open" => subject(popup, onRow)
          /\ act[2] = "run" => ~(subject(popup, onRow) /\ named)
          /\ k' = IF act[2] = "run" THEN stop_typing(k) ELSE k
          /\ status' = status /\ popup' = popup
          /\ draw_popup /\ Done
          /\ UNCHANGED <<view, owing, stale, resyncs>>

\* Giving the keys of the title prompt to a session that has no use for them
\* is refused at the first of them.
Rename(onRow, named) ==
    /\ Acting("rename")
    /\ \/ /\ place.watching \/ ~place.renames
          /\ k' = set_mode(stop_typing(k), "Focus") /\ status' = "Focus"
          /\ Done /\ settle(TRUE)
          /\ UNCHANGED <<surfaces, stale, resyncs>>
       \/ /\ ~place.watching /\ place.renames
          /\ act[2] = "run" /\ popup # "none" /\ subject(popup, onRow) /\ named
          /\ Leaves
       \/ /\ ~place.watching /\ place.renames
          /\ act[2] = "run" /\ popup # "none" => ~(subject(popup, onRow) /\ named)
          /\ k' = IF act[2] = "run" THEN stop_typing(k) ELSE k
          /\ status' = status
          /\ Done /\ settle(TRUE)
          /\ UNCHANGED <<surfaces, stale, resyncs>>

\* The paste key, refused to a viewer and while an upload is under way.
Paste(refused) ==
    /\ Acting("paste")
    /\ restate' = (restate \/ refused)
    /\ place.watching => refused
    /\ Done
    /\ UNCHANGED <<k, status, row, surfaces, stale, resyncs>>

(***************************************************************************)
(* The window on the history.                                              *)
(***************************************************************************)
\* Mutant: the window is closed over the picture it leaves.
close_view_only == /\ view' = "closed" /\ owing' = FALSE
                   /\ SetMode("Focus")
                   /\ settle(TRUE) /\ UNCHANGED <<resyncs, stale>>

\* The window is closed, its keys given back, and the screen asked for.
close_view == /\ view' = "closed" /\ owing' = FALSE
              /\ SetMode("Focus")
              /\ resync /\ settle(TRUE) /\ stale' = stale

\* A host that cannot answer for a window: nothing opens, and the row says so.
TooOld ==
    /\ pc = "acting" /\ act[1] \in {"scroll", "find", "select"}
    /\ ~place.scrolls
    /\ k' = set_mode(IF act[1] = "find" THEN stop_typing(k) ELSE k, "Focus")
    /\ status' = "Focus"
    /\ Done
    /\ IF act[1] = "select" THEN UNCHANGED <<row, restate>> ELSE settle(TRUE)
    /\ UNCHANGED <<surfaces, stale, resyncs>>

LeaveView ==
    /\ pc = "acting" /\ act = <<"scroll", "leave">> /\ place.scrolls
    /\ view' = "closed" /\ owing' = FALSE
    /\ resync
    /\ restate' = TRUE
    /\ Done
    /\ UNCHANGED <<k, status, row, popup, stale>>

\* A move of the window, to v.  Landing at the bottom on the way down closes.
Scroll(v) ==
    /\ Acting("scroll") /\ act[2] # "leave" /\ place.scrolls
    /\ popup' = popup
    /\ IF act[2] = "down" /\ v = "live" THEN close_view
       ELSE /\ view' = v
            /\ UNCHANGED <<k, status, owing, resyncs>>
            /\ put_up /\ Covers
    /\ Done

Find(v) ==
    /\ Acting("find") /\ place.scrolls
    /\ view' = IF act[2] = "step" THEN v
               ELSE IF view = "closed" THEN "live" ELSE view
    /\ k' = IF act[2] = "run" THEN stop_typing(k) ELSE k
    /\ status' = status /\ popup' = popup
    /\ put_up /\ Covers /\ Done
    /\ UNCHANGED <<owing, resyncs>>

\* A hand on the mouse.  Letting go at the bottom ends the gesture, unless its
\* lines are still on their way ("owed").
Select(owed) ==
    LET up == IF view = "closed" THEN "live" ELSE view IN
    /\ Acting("select") /\ place.scrolls
    /\ owed => act[2] = "done"
    /\ popup' = popup
    /\ IF act[2] = "done" /\ up = "live" /\ ~owed THEN close_view
       ELSE /\ view' = up
            /\ owing' = IF act[2] = "to" THEN owing ELSE owed
            /\ UNCHANGED <<k, status, resyncs>>
            /\ put_up /\ Covers
    /\ Done

(***************************************************************************)
(* The end of a pass: a popup whose mode is over comes off the screen, and *)
(* the wheel goes where the session's own asking puts it.                  *)
(***************************************************************************)
Close ==
    /\ pc = "closing"
    /\ status' = status /\ boundary' = boundary
    /\ IF popup # "none" /\ status \notin {"Control", "Picking", "Rename"}
       THEN popup' = "none" /\ resync /\ settle(TRUE)
       ELSE UNCHANGED <<popup, resyncs, row, restate>>
    /\ own_the_wheel(mouse)
    /\ pc' = IF chunk = <<>> THEN "idle" ELSE "reading"
    /\ UNCHANGED <<chunk, act, place, view, owing, greet, painted, mouse, stale, sessionVars>>

(***************************************************************************)
(* What the session sends.                                                 *)
(***************************************************************************)
Idle == pc = "idle"
Quiet == UNCHANGED <<chunk, act, pc, place, sessionVars>>

\* The session ended a program that was told of releases.
drop_finished_releases(f, ended) == IF ended THEN release_reports_ended(f) ELSE f

\* A frame of output.  "what" is the one thing in it the client looks for, and
\* "whole" whether it ends between two sequences.  The first frame is the
\* repaint, behind which a popup that was owed from the start goes up.
Output(what, whole) ==
    LET asked   == CASE what = "mouse on" -> TRUE
                     [] what = "mouse off" -> FALSE
                     [] OTHER -> mouse
        switched == what = "switch" /\ place.owns /\ painted
        cleared == what \in {"clear", "switch"} \/ ~painted
        greets  == greet
    IN
    /\ Idle
    /\ mouse' = asked /\ boundary' = whole
    /\ LET f == drop_finished_releases(k, what = "releases ended")
           ours == wheel_is_ours(asked)
       IN k' = IF whole /\ f.wheel # ours THEN set_wheel(f, ours) ELSE f
    /\ status' = status
    /\ LET r == restate \/ cleared
           shown == IF cleared /\ ~Covered THEN "gone" ELSE row
       IN IF greets \/ (whole /\ r)
          THEN row' = status' /\ restate' = FALSE
          ELSE row' = shown /\ restate' = r
    /\ popup' = IF greets THEN "sessions" ELSE popup
    /\ greet' = FALSE /\ painted' = TRUE
    /\ stale' = (Covered \/ greets \/ switched \/ (painted /\ stale))
    /\ IF switched THEN resync ELSE resyncs' = resyncs
    /\ Quiet
    /\ UNCHANGED <<view, owing>>

\* The screen that was asked for.  Under a surface it is dropped.
Screen(asked, ended) ==
    LET ours == wheel_is_ours(asked) IN
    /\ Idle /\ resyncs > 0
    /\ resyncs' = resyncs - 1
    /\ mouse' = asked /\ boundary' = TRUE
    /\ LET f == drop_finished_releases(k, ended) IN
       IF Covered THEN k' = f /\ stale' = stale
                  ELSE k' = set_wheel(f, ours) /\ stale' = FALSE
    /\ status' = status /\ row' = status /\ restate' = FALSE
    /\ Quiet
    /\ UNCHANGED <<surfaces, greet, painted>>

\* Lines for the window, which may be the ones a copy was waiting for.
ViewLanded(v, answered) ==
    /\ Idle /\ view # "closed"
    /\ answered => owing
    /\ popup' = popup
    /\ IF answered /\ v = "live" THEN close_view
       ELSE /\ view' = v /\ owing' = (owing /\ ~answered)
            /\ UNCHANGED <<k, status, stale, resyncs>>
            /\ put_up
    /\ Quiet
    /\ UNCHANGED outputVars

\* A match the search found, or a step of a drag held against the edge.
ViewMoves(v) ==
    /\ Idle /\ view # "closed"
    /\ view' = v /\ status' = status /\ put_up
    /\ Quiet
    /\ UNCHANGED <<k, popup, owing, stale, resyncs, outputVars>>

\* A name that stuck, a bell next door, an upload that ended, a notice or the
\* end of one.
Said ==
    /\ Idle
    /\ status' = status /\ boundary' = boundary /\ settle(TRUE)
    /\ Quiet
    /\ UNCHANGED <<k, surfaces, greet, painted, mouse, pictureVars>>

\* A listing landed under an open popup.
Landed ==
    /\ Idle /\ popup # "none"
    /\ popup' = popup /\ status' = status /\ draw_popup
    /\ Quiet
    /\ UNCHANGED <<k, view, owing, outputVars, pictureVars>>

\* The terminal changed size.  A surface is drawn again at the new one; the
\* session's picture is asked for when nothing is drawn over it.
Resized ==
    /\ Idle
    /\ status' = status /\ row' = status
    /\ restate' = IF popup # "none" /\ view = "closed" THEN FALSE ELSE restate
    /\ stale' = TRUE
    /\ IF Covered THEN resyncs' = resyncs ELSE resync
    /\ Quiet
    /\ UNCHANGED <<k, surfaces, outputVars>>

\* The session is over, or the connection is.
Gone == Idle /\ Leaves

\* LITERAL runs out: a second mode key is no longer the byte.
Slow ==
    /\ Idle /\ k.quick
    /\ k' = [k EXCEPT !.quick = FALSE]
    /\ Quiet
    /\ UNCHANGED <<rowVars, surfaces, outputVars, pictureVars>>

Action(b, c) == Nothing \/ Detach \/ Switch \/ New \/ SessionSearch \/ Cancel
                \/ Pick(b) \/ GroupName(b, c) \/ Rename(b, c) \/ Paste(b)
                \/ TooOld \/ LeaveView \/ Select(b)

Keyboard ==
    \/ \E keys \in Typed : Type(keys)
    \/ Read \/ Follow \/ Close
    \/ \E b, c \in BOOLEAN : Action(b, c)
    \/ \E v \in {"live", "back"} : Scroll(v) \/ Find(v)

Frames ==
    \/ \E what \in {"text", "clear", "switch", "mouse on", "mouse off",
                    "releases ended"}, whole \in BOOLEAN : Output(what, whole)
    \/ \E asked, ended \in BOOLEAN : Screen(asked, ended)
    \/ \E v \in {"live", "back"} : \/ \E answered \in BOOLEAN : ViewLanded(v, answered)
                                   \/ ViewMoves(v)

Next ==
    \/ Keyboard \/ Frames
    \/ Said \/ Landed \/ Resized \/ Gone \/ Slow
    \/ \E p \in Places, m \in {"Focus", "Control"} : Attach(p, m)

Spec == Init /\ [][Next]_vars

(***************************************************************************)
(* Properties.                                                             *)
(***************************************************************************)
\* The client holds no copy of what its surfaces are drawn over.  So whenever
\* the terminal is behind the session, something is drawn over it or the screen
\* has been asked for: no way of closing a box or a window, and no frame dropped
\* under one, leaves the session's picture wrong for good.
PictureIsOwed == pc = "idle" /\ painted /\ stale => Covered \/ resyncs > 0

\* What the screen says is what the keys are read for, after every way in and
\* out of a list, a window or a prompt: the row has the mode, or is noted as
\* having to be drawn again; a list is up exactly in its own mode or under a
\* prompt of its own, the window exactly in the mode that moves it, and no
\* title or group is typed without a prompt.  The surfaces are not said of keys
\* read before the popup of a hop had a screen to go on.
SurfacesFollowTheMode ==
    /\ pc = "idle" => status = k.mode /\ (row = status \/ restate)
    /\ pc = "idle" /\ ~early /\ ~greet =>
        /\ k.mode \in {"Control", "Picking"} => popup # "none"
        /\ popup # "none" => k.mode \in {ModeOf(popup), "Rename"}
        /\ view # "closed" <=> k.mode = "Scroll"
        /\ k.mode = "Rename" <=> k.prompt \in {"rename", "group"}
        /\ popup = "none" \/ view = "closed"

\* No session is given the release of a chord that went down for someone else:
\* the client, the session before a hop, a program that has ended.  Nor is it
\* given the repeat of one, with an exception that keys.rs:1660 ("only the session
\* that received a press gets its repeat or release") does not make: a key still
\* held down when it means nothing in control mode, or a mode key read as the
\* second, is passed on by its repeat and counted as the session's from there,
\* though its press went to a box (keys.rs:1764-1776).  The property is that the
\* repeat that takes the keyboard back to the session is the only such door.
NoOrphans == ~orphan
=============================================================================
