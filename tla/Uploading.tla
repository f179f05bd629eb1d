----------------------------- MODULE Uploading -----------------------------
(***************************************************************************)
(* The clipboard's image pasted as a path (client/attach/upload.rs,        *)
(* clipboard.rs, Stream::paste, Request::Paste in node/mod.rs,             *)
(* node/paste.rs, Session::paste_file): the paste key starts one worker    *)
(* that looks at the clipboard, reaches the session's machine on a stream  *)
(* of its own and sends the file; the node writes it down when it is whole *)
(* and types where it is.  With no image the key goes back to the session. *)
(*                                                                         *)
(* A press is a stream's name: each worker opens one for each press.       *)
(***************************************************************************)
EXTENDS Integers, Sequences, FiniteSets, FiniteSetsExt

CONSTANTS
    Clients, Sessions, Names,
    Attached,       \* the session each client is attached to
    StartsAs,       \* the name each session starts with
    Clipboards,     \* what one may hold
    WANTED,         \* kinds asked for, best first
    MAX_PASTE,      \* chunks an image may have
    UPLOADS,        \* uploads a node takes at once
    Presses, MaxRenames, MaxTroubles   \* bounds of the checked runs

UploadingAssumption ==
    /\ MAX_PASTE \in Nat \ {0} /\ UPLOADS \in Nat \ {0}
    /\ Presses \subseteq Nat
    /\ Attached \in [Clients -> Sessions] /\ StartsAs \in [Sessions -> Names]

VARIABLES
    called,    \* the name of each session that lives
    client,    \* each client: attached or not, its worker, what it has yet to hear
    pressed,   \* each press: who, where, and what came of it
    stream,    \* each press's stream and the node's end of it
    given,     \* what was typed into a session: a path, or the key
    renames, troubles

vars == <<called, client, pressed, stream, given, renames, troubles>>

None == "none"
Dead == "dead"
Trouble == troubles < MaxTroubles /\ troubles' = troubles + 1 /\ UNCHANGED renames

(***************************************************************************)
(* clipboard.rs: what is offered is asked first, and read afterwards.      *)
(***************************************************************************)
NoImage == [is |-> "no image", size |-> 0]
ClipboardFailed == [is |-> "failed", size |-> 0]

sniff(data) == data.is

as_image(data) ==
    IF sniff(data) = "junk" THEN NoImage
    ELSE IF data.size > MAX_PASTE THEN ClipboardFailed ELSE data

copied_file(file) ==
    IF file.named # "image" \/ file.kind # "file" THEN NoImage
    ELSE IF file.data.size > MAX_PASTE THEN ClipboardFailed ELSE as_image(file.data)

\* On macOS only the best is asked for.
Tried(tool, offered) ==
    LET wanted == {k \in DOMAIN WANTED : WANTED[k] \in offered}
    IN IF tool = "mac" /\ wanted # {} THEN {Min(wanted)} ELSE wanted

image(offered, now) ==
    LET had == {k \in Tried(now.tool, offered) : WANTED[k] \in DOMAIN now.offers}
    IN IF had # {} THEN as_image(now.offers[WANTED[Min(had)]])
       ELSE IF "uris" \in offered /\ now.file.kind # None THEN copied_file(now.file)
       ELSE NoImage

Offered(c) == DOMAIN c.offers \union IF c.file.kind = None THEN {} ELSE {"uris"}

(***************************************************************************)
(* The terminal loop's side, and the worker.                               *)
(***************************************************************************)
Idle == [is |-> "idle", press |-> 0, name |-> None, tool |-> None,
         offered |-> {}, image |-> NoImage, sent |-> 0]
Unused == [up |-> <<>>, down |-> <<>>, open |-> TRUE, node |-> "off", session |-> None, got |-> 0,
           asked |-> None]

Untouched == UNCHANGED <<called, renames>>
Worker(c, w) == client' = [client EXCEPT ![c].worker = w]
Doing(c, is) == Worker(c, [client[c].worker EXCEPT !.is = is])
Finish(c, result) ==
    client' = [client EXCEPT ![c].worker = Idle,
                             ![c].results = Append(@, [is |-> result, press |-> client[c].worker.press])]
Types(s, what) == given' = [given EXCEPT ![s] = Append(@, what)]

NotBusy(c) == ~client[c].busy

start(c, p) ==
    /\ client[c].attached /\ pressed[p].by = None
    /\ \A q \in Presses : q < p => pressed[q].by # None
    /\ IF NotBusy(c)
       THEN /\ client' = [client EXCEPT ![c].busy = TRUE,
                              ![c].worker = [Idle EXCEPT !.is = "looks", !.press = p,
                                                         !.name = client[c].calls]]
            /\ pressed' = [pressed EXCEPT ![p] = [by |-> c, told |-> None, saw |-> NoImage]]
       ELSE /\ pressed' = [pressed EXCEPT ![p] = [by |-> c, told |-> "refused", saw |-> NoImage]]
            /\ UNCHANGED client
    /\ UNCHANGED <<stream, given, troubles>> /\ Untouched

\* The clipboard is anybody's between the two.
Looks(c) ==
    LET w == client[c].worker IN
    /\ w.is = "looks"
    /\ \E clip \in Clipboards :
         CASE clip.tool = None -> Finish(c, "no image")
           [] clip.tool = "missing" -> Finish(c, "clipboard failed")
           [] OTHER -> Worker(c, [w EXCEPT !.is = "reads", !.tool = clip.tool, !.offered = Offered(clip)])
    /\ UNCHANGED <<pressed, stream, given, troubles>> /\ Untouched

Reads(c) ==
    LET w == client[c].worker IN
    /\ w.is = "reads"
    /\ \E clip \in Clipboards : LET held == image(w.offered, clip) IN
         /\ clip.tool = w.tool
         /\ CASE held = NoImage -> Finish(c, "no image")
              [] held = ClipboardFailed -> Finish(c, "clipboard failed")
              [] OTHER -> client' = [client EXCEPT
                    ![c].worker = [w EXCEPT !.is = "asks", !.image = held, !.tool = None, !.offered = {}],
                    ![c].results = Append(@, [is |-> "started", press |-> w.press])]
         /\ pressed' = [pressed EXCEPT ![w.press].saw = held]
    /\ UNCHANGED <<stream, given, troubles>> /\ Untouched

\* reach, and the request for the name as it was when the key was pressed.
Asks(c) ==
    LET w == client[c].worker IN
    /\ w.is = "asks" /\ w.image.size \in 1..MAX_PASTE
    /\ stream' = [stream EXCEPT ![w.press] = [Unused EXCEPT !.node = "asked", !.asked = w.name]]
    /\ Doing(c, "sends") /\ UNCHANGED <<pressed, given, troubles>> /\ Untouched

Answer(c) == stream[client[c].worker.press].down
Heard(c) == stream' = [stream EXCEPT ![client[c].worker.press].down = Tail(@)]
\* A write to a stream that is gone goes nowhere, or fails (Ends).
Sending(c, frame) ==
    stream' = [stream EXCEPT ![client[c].worker.press].up =
                   IF stream[client[c].worker.press].open THEN Append(@, frame) ELSE @]

Admitted(c) ==
    /\ client[c].worker.is = "sends" /\ Answer(c) # <<>>
    /\ IF Head(Answer(c)) = "ok" THEN Doing(c, "chunks") ELSE Finish(c, "failed")
    /\ Heard(c) /\ UNCHANGED <<pressed, given, troubles>> /\ Untouched

Chunk(c) ==
    LET w == client[c].worker IN
    /\ w.is = "chunks"
    /\ IF w.sent < w.image.size
       THEN Sending(c, "chunk") /\ Worker(c, [w EXCEPT !.sent = @ + 1])
       ELSE Sending(c, sniff(w.image)) /\ Doing(c, "waits")
    /\ UNCHANGED <<pressed, given, troubles>> /\ Untouched

Replied(c) ==
    /\ client[c].worker.is = "waits" /\ Answer(c) # <<>>
    /\ Finish(c, IF Head(Answer(c)) = "ok" THEN "pasted" ELSE "failed")
    /\ Heard(c) /\ UNCHANGED <<pressed, given, troubles>> /\ Untouched

\* The stream ends under the worker.
Ends(c) ==
    LET w == client[c].worker IN
    /\ w.is \in {"sends", "chunks", "waits"} /\ ~stream[w.press].open
    /\ w.is # "chunks" => Answer(c) = <<>>
    /\ Finish(c, "failed") /\ UNCHANGED <<pressed, stream, given, troubles>> /\ Untouched

Hangs(s) == [s EXCEPT !.open = FALSE]
Dropped(c) ==
    stream' = IF client[c].worker.is \in {"sends", "chunks", "waits"}
              THEN [stream EXCEPT ![client[c].worker.press] = Hangs(@)] ELSE stream

\* The machine cannot be reached, or three hundred seconds have gone.
TimesOut(c) ==
    /\ client[c].worker.is # "idle" /\ Trouble
    /\ Finish(c, "failed") /\ Dropped(c) /\ UNCHANGED <<called, pressed, given>>

HandsBack(c, u) ==
    IF u.is \in {"no image", "clipboard failed"} /\ called[client[c].at] # Dead
    THEN Types(client[c].at, [press |-> u.press, is |-> "key", size |-> 0]) ELSE UNCHANGED given

next(c) ==
    LET u == Head(client[c].results) IN
    /\ client[c].attached /\ client[c].busy /\ client[c].results # <<>>
    /\ client' = [client EXCEPT ![c].results = Tail(@), ![c].busy = u.is = "started"]
    /\ pressed' = IF u.is = "started" THEN pressed ELSE [pressed EXCEPT ![u.press].told = u.is]
    /\ HandsBack(c, u)
    /\ UNCHANGED <<stream, troubles>> /\ Untouched

\* Drop: the worker goes with the terminal loop.
Leaves(c) ==
    /\ client[c].attached /\ Trouble
    /\ client' = [client EXCEPT ![c] = [@ EXCEPT !.attached = FALSE, !.worker = Idle,
                                                 !.results = <<>>, !.busy = FALSE]]
    /\ Dropped(c) /\ UNCHANGED <<called, pressed, given>>

Learns(c) ==
    /\ called[client[c].at] \notin {Dead, client[c].calls}
    /\ client' = [client EXCEPT ![c].calls = called[client[c].at]]
    /\ UNCHANGED <<pressed, stream, given, troubles>> /\ Untouched

(***************************************************************************)
(* The node's side.                                                        *)
(***************************************************************************)
NodeOnly == UNCHANGED <<called, client, pressed, renames>>
Reply(p, what, then) ==
    stream' = [stream EXCEPT ![p] = [@ EXCEPT !.down = IF stream[p].open THEN Append(@, what) ELSE <<>>,
                                              !.node = then, !.open = @ /\ then # "done"]]
Slots == Cardinality({p \in Presses : stream[p].node \in {"receives", "types"}})

Bound(p, s) == stream[p].session = s

Paste(p) ==
    LET found == {s \in Sessions : called[s] = stream[p].asked} IN
    /\ stream[p].node = "asked"
    /\ IF Slots >= UPLOADS \/ found = {} THEN Reply(p, "no", "done")
       ELSE stream' = [stream EXCEPT ![p] = [@ EXCEPT !.node = "receives", !.session = CHOOSE s \in found : TRUE,
                           !.down = IF stream[p].open THEN Append(@, "ok") ELSE <<>>]]
    /\ UNCHANGED <<given, troubles>> /\ NodeOnly

Frame(p) == Head(stream[p].up)
take(p) ==
    /\ stream[p].node = "receives" /\ stream[p].up # <<>> /\ Frame(p) = "chunk"
    /\ stream' = [stream EXCEPT ![p] = [@ EXCEPT !.up = Tail(@), !.got = @ + 1]]
    /\ UNCHANGED <<given, troubles>> /\ NodeOnly

WholeWhenSaid(p) == stream[p].up # <<>> /\ Frame(p) # "chunk"

\* Over the limit nothing is written down.
finish(p) ==
    /\ stream[p].node = "receives" /\ WholeWhenSaid(p)
    /\ IF stream[p].got \notin 1..MAX_PASTE THEN Reply(p, "no", "done")
       ELSE stream' = [stream EXCEPT ![p].node = "types"]
    /\ UNCHANGED <<given, troubles>> /\ NodeOnly

\* The stream ended before the file did.
receive_paste(p) ==
    /\ stream[p].node = "receives" /\ stream[p].up = <<>> /\ ~stream[p].open
    /\ Reply(p, "no", "done") /\ UNCHANGED <<given, troubles>> /\ NodeOnly

\* Fifteen seconds without a frame.
Silent(p) ==
    /\ stream[p].node = "receives" /\ Trouble
    /\ Reply(p, "no", "done") /\ UNCHANGED <<called, client, pressed, given>>

extension(kind) == IF \E k \in DOMAIN WANTED : WANTED[k] = kind THEN kind ELSE "bin"

paste_file(p, s) ==
    /\ stream[p].node = "types" /\ Bound(p, s)
    /\ IF called[s] = Dead THEN Reply(p, "no", "done") /\ UNCHANGED given
       ELSE /\ Types(s, [press |-> p, size |-> stream[p].got,
                         is |-> extension(IF stream[p].up = <<>> THEN None ELSE Frame(p))])
            /\ Reply(p, "ok", "done")
    /\ UNCHANGED troubles /\ NodeOnly

\* The session takes no input.
Stalls(p) ==
    /\ stream[p].node = "types" /\ Trouble
    /\ Reply(p, "no", "done") /\ UNCHANGED <<called, client, pressed, given>>

(***************************************************************************)
(* What happens meanwhile.                                                 *)
(***************************************************************************)
\* The connection goes, with what was on it.
Cut(p) ==
    /\ stream[p].node # "off" /\ stream[p].open /\ Trouble
    /\ stream' = [stream EXCEPT ![p] = [@ EXCEPT !.open = FALSE, !.up = IF stream[p].node = "types" THEN @ ELSE <<>>,
                                                 !.down = <<>>]]
    /\ UNCHANGED <<called, client, pressed, given>>

Renames(s, n) ==
    /\ renames < MaxRenames /\ renames' = renames + 1
    /\ called[s] # Dead /\ \A t \in Sessions : called[t] # n
    /\ called' = [called EXCEPT ![s] = n]
    /\ UNCHANGED <<client, pressed, stream, given, troubles>>

Dies(s) ==
    /\ called[s] # Dead /\ Trouble /\ called' = [called EXCEPT ![s] = Dead]
    /\ UNCHANGED <<client, pressed, stream, given>>

Init ==
    /\ called = StartsAs
    /\ client = [c \in Clients |-> [attached |-> TRUE, at |-> Attached[c], calls |-> called[Attached[c]],
                                    worker |-> Idle, results |-> <<>>, busy |-> FALSE]]
    /\ pressed = [p \in Presses |-> [by |-> None, told |-> None, saw |-> NoImage]]
    /\ stream = [p \in Presses |-> Unused]
    /\ given = [s \in Sessions |-> <<>>]
    /\ renames = 0 /\ troubles = 0

Next ==
    \/ \E c \in Clients : \/ \E p \in Presses : start(c, p)
                          \/ Looks(c) \/ Reads(c) \/ Asks(c) \/ Admitted(c) \/ Chunk(c) \/ Replied(c)
                          \/ Ends(c) \/ TimesOut(c) \/ next(c) \/ Leaves(c) \/ Learns(c)
    \/ \E p \in Presses : \/ Paste(p) \/ take(p) \/ finish(p) \/ receive_paste(p) \/ Silent(p)
                          \/ Stalls(p) \/ Cut(p) \/ \E s \in Sessions : paste_file(p, s)
    \/ \E s \in Sessions : Dies(s) \/ \E n \in Names : Renames(s, n)

Spec == Init /\ [][Next]_vars

(***************************************************************************)
(* Properties.                                                             *)
(***************************************************************************)
TypeOK ==
    /\ called \in [Sessions -> Names \union {Dead}]
    /\ \A p \in Presses : pressed[p].told \in {None, "refused", "no image", "clipboard failed", "pasted", "failed"}
    /\ \A c \in Clients : client[c].attached \in BOOLEAN /\ client[c].busy \in BOOLEAN

Typed(p) == {at \in Sessions \X (0..Cardinality(Presses)) :
                at[2] \in DOMAIN given[at[1]] /\ given[at[1]][at[2]].press = p}
Paths(p) == {at \in Typed(p) : given[at[1]][at[2]].is # "key"}

\* What a press is said to have come to is what it came to: pasted is typed
\* once, no image is the key typed again and nothing sent, failed is typed at
\* most once.
ToldIsTrue == \A p \in Presses :
    /\ Cardinality(Typed(p)) <= 1
    /\ CASE pressed[p].told = "pasted" -> Cardinality(Paths(p)) = 1
         [] pressed[p].told \in {"no image", "clipboard failed"} ->
                Paths(p) = {} /\ (Typed(p) = {} => called[client[pressed[p].by].at] = Dead)
         [] pressed[p].told = "refused" -> Typed(p) = {}
         [] OTHER -> TRUE

\* Only the whole of the image that was on the clipboard is ever typed, as what
\* it is, and into the session that had the name when the node took it in.
WholeOrNothing == \A p \in Presses : \A at \in Paths(p) :
    LET path == given[at[1]][at[2]] IN
    /\ pressed[p].saw.size = path.size /\ pressed[p].saw.is = path.is
    /\ at[1] = stream[p].session
=============================================================================
