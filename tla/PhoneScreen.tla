---------------------------- MODULE PhoneScreen ----------------------------
(***************************************************************************)
(* The size of a session's screen, and the copy of it a phone keeps        *)
(* (node/session.rs, node/mod.rs, android/rust/src/session.rs, screen.rs). *)
(* The node takes the smallest of what its clients asked for and tells the *)
(* one that asked; a client with a screen of its own has to reflow it to   *)
(* that, and the two reflow differently, so that a copy is only good again *)
(* once it has been painted anew at the size the session has.              *)
(*                                                                         *)
(* A screen is the number of chunks it was printed from, with its size. A  *)
(* grid is good while every chunk of it was fed at the size it was printed *)
(* at.  "desk" is every other client.                                      *)
(***************************************************************************)
EXTENDS Integers, Sequences, FiniteSets

LOCAL INSTANCE FiniteSetsExt

CONSTANTS Sizes, BACKLOG,
          MaxPrinted, MaxTurns, MaxDesk, MaxLost   \* bounds

PhoneScreenAssumption ==
    /\ Sizes # {} /\ Sizes \subseteq Nat \ {0}
    /\ BACKLOG \in Nat \ {0}
    /\ {MaxPrinted, MaxTurns, MaxDesk, MaxLost} \subseteq Nat

VARIABLES
    session,     \* the node's screen: its size, and how much was printed
    clients,     \* the size each asked for, 0 if it is not attached
    output,      \* chunks broadcast and not yet written to the phone
    toNode, toPhone,   \* frames
    link,        \* the phone: away, asking, attached, or painting what is left
    wanted, requested, pending,   \* the size it wants, asked for, has to ask for
    said,        \* turns of the phone its task has not taken
    repainting,  \* the next output is the picture
    painting,    \* on its way to the grid
    grid,        \* the phone's screen
    elsewhere,   \* somebody else changed the size since the phone last asked
    turns, moves, losses   \* counters of the bounds

node == <<session, clients, output>>
phone == <<link, wanted, requested, pending, said, repainting, painting, grid>>
bounds == <<turns, moves, losses>>
vars == <<node, toNode, toPhone, phone, elsewhere, bounds>>

(***************************************************************************)
(* The node.                                                               *)
(***************************************************************************)
Attached(asked) == {c \in DOMAIN asked : asked[c] # 0}

effective_size(asked, now) ==
    IF Attached(asked) = {} THEN now ELSE Min({asked[c] : c \in Attached(asked)})

\* A client asks for a size, or goes.
Resizes(client, size) ==
    /\ clients' = [clients EXCEPT ![client] = size]
    /\ session' = [session EXCEPT !.size = effective_size(clients', @)]

repaint == [is |-> "picture", n |-> session.n, size |-> session.size]

Prints ==
    /\ session.n < MaxPrinted /\ session' = [session EXCEPT !.n = @ + 1]
    /\ output' = IF clients["phone"] = 0 THEN output
                 ELSE Append(output, [is |-> "chunk", n |-> session.n + 1, size |-> session.size])
    /\ UNCHANGED <<clients, toNode, toPhone, phone, elsewhere, bounds>>

Forwards ==
    /\ output # <<>> /\ output' = Tail(output)
    /\ toPhone' = Append(toPhone, [Head(output) EXCEPT !.is = "output"])
    /\ UNCHANGED <<session, clients, toNode, phone, elsewhere, bounds>>

resize ==
    /\ toNode # <<>> /\ Head(toNode).is = "resize" /\ toNode' = Tail(toNode)
    /\ Resizes("phone", Head(toNode).size)
    /\ toPhone' = Append(toPhone, [is |-> "size", n |-> 0, size |-> session'.size])
    /\ elsewhere' = FALSE
    /\ UNCHANGED <<output, phone, bounds>>

resync ==
    /\ toNode # <<>> /\ Head(toNode).is = "resync" /\ toNode' = Tail(toNode)
    /\ output' = <<>>
    /\ toPhone' = Append(toPhone, [repaint EXCEPT !.is = "screen"])
    /\ UNCHANGED <<session, clients, phone, elsewhere, bounds>>

\* Somebody else attaches, resizes or leaves.
Desk(size) ==
    /\ moves < MaxDesk /\ moves' = moves + 1 /\ clients["desk"] # size
    /\ Resizes("desk", size)
    /\ elsewhere' = (elsewhere \/ session'.size # session.size)
    /\ UNCHANGED <<output, toNode, toPhone, phone, turns, losses>>

(***************************************************************************)
(* The phone's task.                                                       *)
(***************************************************************************)
Begins ==
    /\ link = "away" /\ link' = "asking" /\ requested' = wanted
    /\ UNCHANGED <<node, toNode, toPhone, wanted, pending, said, repainting, painting, grid,
                   elsewhere, bounds>>

Pending == IF wanted # requested THEN wanted ELSE 0

\* Screens are taken and the subscription made at one moment.
attach ==
    /\ link = "asking" /\ link' = "attached"
    /\ Resizes("phone", requested)
    /\ output' = <<>> /\ toPhone' = <<[is |-> "output", n |-> session.n, size |-> session'.size]>>
    /\ toNode' = <<>> /\ repainting' = TRUE /\ pending' = Pending
    /\ painting' = <<[is |-> "resized", n |-> 0, size |-> session'.size]>>
    /\ elsewhere' = FALSE
    /\ UNCHANGED <<wanted, requested, said, grid, bounds>>

Room == Len(painting) < BACKLOG

\* A frame from the node.
Hears ==
    /\ link = "attached" /\ toPhone # <<>> /\ toPhone' = Tail(toPhone) /\ Room
    /\ LET frame == Head(toPhone) IN
       /\ painting' = Append(painting, [frame EXCEPT !.is =
             IF frame.is = "size" THEN "resized"
             ELSE IF frame.is = "screen" \/ repainting THEN "repaint"
             ELSE "feed"])
       /\ repainting' = (repainting /\ frame.is # "output")
    /\ UNCHANGED <<node, toNode, link, wanted, requested, pending, said, grid, elsewhere, bounds>>

Asks(size) == <<[is |-> "resize", size |-> size], [is |-> "resync", size |-> 0]>>

\* A turn of the phone: one that waited for the attach goes first.
Takes ==
    /\ link = "attached" /\ Room
    /\ IF pending # 0 THEN UNCHANGED said ELSE said # <<>> /\ said' = Tail(said)
    /\ wanted' = IF pending # 0 THEN pending ELSE Head(said)
    /\ pending' = 0
    /\ painting' = Append(painting, [is |-> "resized", n |-> 0, size |-> wanted'])
    /\ toNode' = toNode \o Asks(wanted')
    /\ UNCHANGED <<node, toPhone, link, requested, repainting, grid, elsewhere, bounds>>

\* While there is no attach, a turn is only noted.
Notes ==
    /\ link \in {"away", "asking"} /\ said # <<>>
    /\ said' = Tail(said) /\ wanted' = Head(said)
    /\ UNCHANGED <<node, toNode, toPhone, link, requested, pending, repainting, painting, grid,
                   elsewhere, bounds>>

\* The connection goes: what was read of it is painted first. One that is
\* given up for a new one takes what was not painted with it.
Lost(over) ==
    /\ link = "attached" /\ losses < MaxLost /\ losses' = losses + 1
    /\ link' = over /\ painting' = IF over = "away" THEN <<>> ELSE painting
    /\ Resizes("phone", 0) /\ output' = <<>> /\ toNode' = <<>> /\ toPhone' = <<>> /\ pending' = 0
    /\ UNCHANGED <<wanted, requested, said, repainting, grid, elsewhere, turns, moves>>
Finished ==
    /\ link = "draining" /\ painting = <<>> /\ link' = "away"
    /\ UNCHANGED <<node, toNode, toPhone, wanted, requested, pending, said, repainting, painting,
                   grid, elsewhere, bounds>>

\* The painter.
Painted(paint) ==
    CASE paint.is = "resized" ->
             [grid EXCEPT !.size = paint.size, !.good = @ /\ paint.size = grid.size]
      [] paint.is = "repaint" -> [grid EXCEPT !.n = paint.n, !.good = paint.size = grid.size]
      [] OTHER -> [grid EXCEPT !.n = paint.n,
                               !.good = @ /\ paint.n = grid.n + 1 /\ paint.size = grid.size]
Paints ==
    /\ painting # <<>> /\ painting' = Tail(painting)
    /\ grid' = Painted(Head(painting))
    /\ UNCHANGED <<node, toNode, toPhone, link, wanted, requested, pending, said, repainting,
                   elsewhere, bounds>>

\* The app: the phone is turned.
Turn(size) ==
    /\ turns < MaxTurns /\ turns' = turns + 1 /\ said' = Append(said, size)
    /\ UNCHANGED <<node, toNode, toPhone, link, wanted, requested, pending, repainting, painting,
                   grid, elsewhere, moves, losses>>

Init ==
    /\ session \in [size : Sizes, n : {0}] /\ clients = [desk |-> 0, phone |-> 0]
    /\ output = <<>> /\ toNode = <<>> /\ toPhone = <<>>
    /\ link = "away" /\ wanted \in Sizes /\ requested = wanted /\ pending = 0
    /\ said = <<>> /\ repainting = TRUE /\ painting = <<>>
    /\ grid = [size |-> wanted, n |-> 0, good |-> FALSE]
    /\ elsewhere = FALSE /\ turns = 0 /\ moves = 0 /\ losses = 0

Next ==
    \/ Prints \/ Forwards \/ resize \/ resync
    \/ \E size \in Sizes \union {0} : Desk(size)
    \/ Begins \/ attach \/ Hears \/ Takes \/ Notes \/ Finished \/ Paints
    \/ \E over \in {"away", "draining"} : Lost(over)
    \/ \E size \in Sizes : Turn(size)

Spec == Init /\ [][Next]_vars

(***************************************************************************)
(* Properties.                                                             *)
(***************************************************************************)
TypeOK ==
    /\ session.size \in Sizes /\ grid.size \in Sizes /\ grid.n \in 0..session.n
    /\ clients \in [{"desk", "phone"} -> Sizes \union {0}]
    /\ link \in {"away", "asking", "attached", "draining"}
    /\ pending \in Sizes \union {0} /\ Len(painting) <= BACKLOG
    /\ (link = "attached") = (clients["phone"] # 0)

Still == toNode = <<>> /\ toPhone = <<>> /\ output = <<>> /\ painting = <<>> /\ said = <<>>

\* Once everything said has been heard, the phone shows the session, at the
\* size it has, and has asked for the size it is, however it was turned before,
\* during and after it attached. The node tells a size only to the one who
\* asked (node/mod.rs:571): the picture is not claimed from when another client
\* has changed the size until the phone asks again, and can be of another size
\* there for as long as nobody turns the phone.
PictureIsTheSessions ==
    link = "attached" /\ Still /\ pending = 0 =>
        /\ clients["phone"] = wanted
        /\ ~elsewhere => grid = [size |-> session.size, n |-> session.n, good |-> TRUE]
=============================================================================
