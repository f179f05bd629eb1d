-------------------------------- MODULE Pump --------------------------------
(***************************************************************************)
(* What a client sends over an attachment, and how the node tells a client *)
(* that is gone from one that is only quiet (pump_attachment in            *)
(* node/mod.rs).  Input waits for room in the session's queue one frame at *)
(* a time, and while it waits the pump reads nothing more: what was typed  *)
(* keeps its order, and the answers to pings pile up behind it.            *)
(*                                                                         *)
(* A frame is <<"typed", n>>, a chunk <<"chunk", n>> of paste n,           *)
(* <<"end", n>>, or <<"pong">>.  One tick of the clock is PING_EVERY; the  *)
(* pump keeps up with the wire between two of them, unless it waits.       *)
(***************************************************************************)
EXTENDS Integers, Sequences, SequencesExt

CONSTANTS SILENT_FOR,   \* ticks a client may say nothing for
          MAX_PASTE,    \* chunks a pasted file may have
          MaxSent       \* keys and pastes a client sends

PumpAssumption == /\ SILENT_FOR \in Nat \ {0} /\ MAX_PASTE \in Nat \ {0}
                         /\ MaxSent \in Nat

VARIABLES client,    \* "old" skips pings, "here" answers them, "gone"
          wire,      \* what it sent that is not read yet
          chunks,    \* of the paste it is sending, or 0
          owed,      \* pings it has not answered
          pump,      \* "on", "left", "silent" or "stuck"
          pending,   \* the input waiting for room
          heard,     \* ticks since the pump last heard anything
          answered,  \* whether it ever heard a pong
          file,      \* the paste arriving
          too_big,
          got,       \* what the session was given
          read_only, \* whether the client only watches
          due        \* what was sent for the session: [number |-> chunks, or 0]

vars == <<client, wire, chunks, owed, pump, pending, heard, answered,
          file, too_big, got, read_only, due>>

Init ==
    /\ client \in {"old", "here"}
    /\ wire = <<>> /\ chunks = 0 /\ owed = 0
    /\ pump = "on" /\ pending = <<>> /\ heard = 0 /\ answered = FALSE
    /\ file = <<>> /\ too_big = FALSE /\ got = <<>>
    /\ read_only \in BOOLEAN /\ due = <<>>

(***************************************************************************)
(* The client.                                                             *)
(***************************************************************************)
Send(frame) ==
    /\ client # "gone" /\ pump = "on" /\ Len(wire) < 3
    /\ wire' = Append(wire, frame)
    /\ UNCHANGED <<client, pump, pending, heard, answered, file, too_big, got, read_only>>

Type == /\ chunks = 0 /\ Len(due) < MaxSent
        /\ due' = Append(due, 0)
        /\ Send(<<"typed", Len(due) + 1>>) /\ UNCHANGED <<chunks, owed>>

SendChunk == /\ Len(due) < MaxSent /\ chunks <= MAX_PASTE
             /\ chunks' = chunks + 1
             /\ Send(<<"chunk", Len(due) + 1>>) /\ UNCHANGED <<owed, due>>

EndPaste == /\ chunks > 0
            /\ chunks' = 0 /\ due' = Append(due, chunks)
            /\ Send(<<"end", Len(due) + 1>>) /\ UNCHANGED owed

AnswerPing == /\ client = "here" /\ owed > 0
              /\ owed' = owed - 1
              /\ Send(<<"pong">>) /\ UNCHANGED <<chunks, due>>

\* Its machine slept, or its network went: it sends and reads no more.
GoQuiet == /\ client # "gone"
           /\ client' = "gone"
           /\ UNCHANGED <<wire, chunks, owed, due, pump, pending, heard,
                          answered, file, too_big, got, read_only>>

(***************************************************************************)
(* The pump.                                                               *)
(***************************************************************************)
Reading == pump = "on" /\ pending = <<>> /\ wire # <<>>

Takes(tag) == /\ Reading /\ Head(wire)[1] = tag
              /\ wire' = Tail(wire) /\ heard' = 0
              /\ UNCHANGED <<client, chunks, owed, due, pump, got, read_only>>

\* Input of a client that watches is dropped.
Wait(input) == pending' = IF read_only THEN <<>> ELSE <<input>>

ReadTyped == /\ Takes("typed") /\ Wait(Head(wire))
             /\ UNCHANGED <<answered, file, too_big>>

ReadPong == /\ Takes("pong") /\ answered' = TRUE
            /\ UNCHANGED <<pending, file, too_big>>

\* Mutant: the chunk over the limit starts the file again.
take_again(chunk) ==
    /\ too_big' = FALSE
    /\ file' = IF Len(file) = MAX_PASTE THEN <<chunk>> ELSE Append(file, chunk)

\* Paste::take: a file over the limit is read to its end and thrown away.
take(chunk) ==
    IF too_big \/ Len(file) = MAX_PASTE
    THEN too_big' = TRUE /\ file' = <<>>
    ELSE too_big' = FALSE /\ file' = Append(file, chunk)

ReadChunk == /\ Takes("chunk") /\ take(Head(wire)[2])
             /\ UNCHANGED <<pending, answered>>

\* Paste::finish: a file over the limit, or of nothing, is refused; either way
\* the next one starts empty.
ReadEnd == /\ Takes("end")
           /\ file' = <<>> /\ too_big' = FALSE
           /\ IF too_big \/ file = <<>> THEN pending' = <<>>
                                        ELSE Wait(<<"file", Head(wire)[2], file>>)
           /\ UNCHANGED answered

\* The session's queue has room: having waited is not having been silent.
Space == /\ pump = "on" /\ pending # <<>>
         /\ got' = got \o pending /\ pending' = <<>> /\ heard' = 0
         /\ UNCHANGED <<client, wire, chunks, owed, due, pump, answered, file, too_big, read_only>>

\* The deadline is kept only by a client that ever answered, and only while
\* the pump is reading.
Overdue == pending = <<>> /\ answered /\ heard > SILENT_FOR

Ping ==
    /\ pump = "on" /\ ~Reading
    /\ client = "here" /\ pending = <<>> => owed = 0
    /\ IF Overdue THEN pump' = "silent" /\ UNCHANGED <<heard, owed>>
                  ELSE /\ heard' = IF heard > SILENT_FOR THEN heard ELSE heard + 1
                       /\ owed' = IF client = "here" /\ owed < 2 THEN owed + 1 ELSE owed
                       /\ UNCHANGED pump
    /\ UNCHANGED <<client, wire, chunks, due, pending, answered, file, too_big, got, read_only>>

\* The write of a frame to a client that stopped reading runs out of time.
WriteStuck == /\ pump = "on" /\ client = "gone"
              /\ pump' = "stuck"
              /\ UNCHANGED <<client, wire, chunks, owed, due, pending, heard,
                             answered, file, too_big, got, read_only>>

\* The client hung up, and what it sent before is read: a detach.
Leave == /\ pump = "on" /\ pending = <<>> /\ wire = <<>>
         /\ pump' = "left"
         /\ UNCHANGED <<client, wire, chunks, owed, due, pending, heard,
                        answered, file, too_big, got, read_only>>

Next == \/ Type \/ SendChunk \/ EndPaste \/ AnswerPing \/ GoQuiet
        \/ ReadTyped \/ ReadPong \/ ReadChunk \/ ReadEnd
        \/ Space \/ Ping \/ WriteStuck \/ Leave

Spec == Init /\ [][Next]_vars

(***************************************************************************)
(* Properties.                                                             *)
(***************************************************************************)
TypeOK ==
    /\ client \in {"old", "here", "gone"} /\ pump \in {"on", "left", "silent", "stuck"}
    /\ Len(due) <= MaxSent /\ chunks \in 0..(MAX_PASTE + 1) /\ owed \in 0..2
    /\ heard \in 0..(SILENT_FOR + 1)
    /\ answered \in BOOLEAN /\ too_big \in BOOLEAN
    /\ Len(pending) <= 1 /\ Len(file) <= MAX_PASTE

\* What the session is given is what the client sent, once each and in order;
\* a pasted file is given whole, and holds nothing of one refused before it;
\* only a file over the limit is not given at all.  A client that watches gives
\* nothing.
GivenWhatWasSent ==
    LET given   == got \o pending
        unread  == {wire[i][2] : i \in {j \in DOMAIN wire : wire[j][1] \in {"typed", "end"}}}
        allowed == {n \in DOMAIN due : due[n] <= MAX_PASTE} \ unread
    IN IF read_only THEN given = <<>>
       ELSE /\ {given[i][2] : i \in DOMAIN given} = allowed
            /\ \A i, j \in DOMAIN given : i < j => given[i][2] < given[j][2]
            /\ \A i \in DOMAIN given : given[i][1] = "file" =>
                  given[i][3] = [k \in 1..due[given[i][2]] |-> given[i][2]]

\* A client that answers the pings it reads, or has never answered one, is not
\* put out for its silence, however long the program it types at reads nothing.
AnsweringIsEnough == pump = "silent" => client = "gone"
=============================================================================
