------------------------------ MODULE Framing ------------------------------
(***************************************************************************)
(* A session's bytes on their way to a screen: cut into the bodies of       *)
(* frames (proto.rs write_frame), cut again wherever the stream pleases,    *)
(* put together by a reader whose reads are dropped in the middle of        *)
(* (FrameReader, awaited in a select!), and turned into text by a decoder   *)
(* that sees only one body at a time (utf8.rs Utf8Decoder).                 *)
(*                                                                         *)
(* A byte is a number.  The header's five are two here, the tag and a       *)
(* length of one byte; of text there is a byte that is a character, the     *)
(* leads of characters of two and three bytes, and the byte that goes on    *)
(* with one.                                                                *)
(***************************************************************************)
EXTENDS Naturals, Sequences, SequencesExt

CONSTANTS
    MAX_FRAME,    \* the longest body
    Tags,         \* what a frame may be, OUTPUT among them
    MaxFrames     \* bound: frames written on a stream

OUTPUT == 0
FramingAssumption ==
    /\ MAX_FRAME \in Nat \ {0} /\ MaxFrames \in Nat
    /\ Tags \subseteq Nat /\ OUTPUT \in Tags

More == 1                       \* goes on with a character
Lead(b) == b \in {2, 3}         \* begins one of as many bytes
Byte == 0..3
Body == UNION {[1..n -> Byte] : n \in 0..MAX_FRAME}
Frame == [tag : Tags, body : Body]
HEAD == 2

VARIABLES
    sent,      \* frames write_frame has taken
    stream,    \* bytes under way
    closed,    \* how the writer's end is: "open", "shut", "cut" in a frame, "reset"
    buffer,    \* bytes the reader holds
    got,       \* frames it has returned
    ended,     \* what it said of the end: "no", "clean", "error"
    pending,   \* bytes the decoder keeps for the next body
    text       \* characters, each its bytes, <<>> for the replacement

vars == <<sent, stream, closed, buffer, got, ended, pending, text>>

Init ==
    /\ sent = <<>> /\ stream = <<>> /\ closed = "open"
    /\ buffer = <<>> /\ got = <<>> /\ ended = "no"
    /\ pending = <<>> /\ text = <<>>

-----------------------------------------------------------------------------

\* The writer.  A body over the limit is refused before a byte of it is
\* written, and whoever wrote it gives the stream up.
Fits(body) == Len(body) <= MAX_FRAME

Written(frame) == <<frame.tag, Len(frame.body)>> \o frame.body

write_frame(tag, body) ==
    /\ closed = "open" /\ Len(sent) < MaxFrames
    /\ IF Fits(body)
       THEN /\ sent' = Append(sent, [tag |-> tag, body |-> body])
            /\ stream' = stream \o Written([tag |-> tag, body |-> body])
            /\ UNCHANGED closed
       ELSE closed' = "shut" /\ UNCHANGED <<sent, stream>>
    /\ UNCHANGED <<buffer, got, ended, pending, text>>

Shut ==
    /\ closed = "open" /\ closed' = "shut"
    /\ UNCHANGED <<sent, stream, buffer, got, ended, pending, text>>

\* A write given up on, at its deadline, with part of its frame on the stream.
Abandoned ==
    /\ closed = "open" /\ sent # <<>>
    /\ \E left \in 1..Len(Written(Last(sent))) - 1 :
        /\ left <= Len(stream)
        /\ stream' = SubSeq(stream, 1, Len(stream) - left)
    /\ sent' = Front(sent) /\ closed' = "cut"
    /\ UNCHANGED <<buffer, got, ended, pending, text>>

\* The other machine resets the connection: what is under way may be lost.
Reset ==
    /\ closed # "reset" /\ ended = "no" /\ closed' = "reset"
    /\ \E kept \in 0..Len(stream) : stream' = SubSeq(stream, 1, kept)
    /\ UNCHANGED <<sent, buffer, got, ended, pending, text>>

-----------------------------------------------------------------------------
\* The reader.  FrameCodec: a frame once the whole of it is in the buffer.
Announced == buffer[HEAD]

Oversized == Len(buffer) >= HEAD /\ Announced > MAX_FRAME
Complete == Len(buffer) >= HEAD /\ ~Oversized /\ Len(buffer) >= HEAD + Announced

\* What the buffer is after a read whose future was dropped: the bytes are in
\* the reader's own buffer.
Dropped(bytes) == buffer \o bytes

Read ==
    /\ ended = "no" /\ ~Complete /\ ~Oversized
    /\ \E n \in 1..Len(stream), dropped \in BOOLEAN :
        LET bytes == SubSeq(stream, 1, n) IN
        /\ buffer' = IF dropped THEN Dropped(bytes) ELSE buffer \o bytes
        /\ stream' = SubSeq(stream, n + 1, Len(stream))
    /\ UNCHANGED <<sent, closed, got, ended, pending, text>>

\* The end of the stream in the middle of a frame is an error, a connection
\* reset is an end like another.
EndsWell == closed = "reset" \/ buffer = <<>>

Ends ==
    /\ ended = "no" /\ ~Complete
    /\ \/ Oversized /\ ended' = "error"
       \/ /\ ~Oversized /\ closed # "open" /\ stream = <<>>
          /\ ended' = IF EndsWell THEN "clean" ELSE "error"
    /\ UNCHANGED <<sent, stream, closed, buffer, got, pending, text>>

-----------------------------------------------------------------------------
\* The decoder.  How many bytes go on with the character at i, of those it
\* may have.
Following(bytes, i) ==
    LET wanted == IF Lead(bytes[i]) THEN bytes[i] - 1 ELSE 0
        ms == {n \in 0..wanted : i + n <= Len(bytes)
                                 /\ \A k \in 1..n : bytes[i + k] = More}
    IN CHOOSE n \in ms : \A other \in ms : other <= n

\* A character, the replacement for what cannot be one, or a tail that may
\* yet become one.
Decoded(bytes) ==
    LET from[i \in 1..Len(bytes) + 1] ==
        IF i > Len(bytes) THEN [text |-> <<>>, tail |-> <<>>]
        ELSE LET n == Following(bytes, i)
                 whole == bytes[i] # More /\ (Lead(bytes[i]) => n = bytes[i] - 1)
                 short == ~whole /\ Lead(bytes[i]) /\ i + n = Len(bytes)
                 after == from[i + n + 1]
             IN IF short THEN [text |-> <<>>, tail |-> SubSeq(bytes, i, Len(bytes))]
                ELSE [after EXCEPT !.text =
                        <<IF whole THEN SubSeq(bytes, i, i + n) ELSE <<>>>> \o @]
    IN from[1]

\* The tail of one body is put before the next.
decode(chunk) == Decoded(pending \o chunk)

Next_ ==
    /\ ended = "no" /\ Complete
    /\ LET frame == [tag |-> buffer[1], body |-> SubSeq(buffer, HEAD + 1, HEAD + Announced)]
       IN /\ got' = Append(got, frame)
          /\ buffer' = SubSeq(buffer, HEAD + Announced + 1, Len(buffer))
          /\ IF frame.tag = OUTPUT
             THEN LET now == decode(frame.body)
                  IN text' = text \o now.text /\ pending' = now.tail
             ELSE UNCHANGED <<pending, text>>
    /\ UNCHANGED <<sent, stream, closed, ended>>

Next ==
    \/ \E tag \in Tags, body \in Body \union {[i \in 1..MAX_FRAME + 1 |-> 0]} :
        write_frame(tag, body)
    \/ Shut \/ Abandoned \/ Reset
    \/ Read \/ Next_ \/ Ends

Spec == Init /\ [][Next]_vars

-----------------------------------------------------------------------------
TypeOK ==
    /\ sent \in Seq(Frame) /\ stream \in Seq(Nat) /\ buffer \in Seq(Nat)
    /\ closed \in {"open", "shut", "cut", "reset"}
    /\ ended \in {"no", "clean", "error"}
    /\ got \in Seq([tag : Nat, body : Seq(Nat)])
    /\ pending \in Seq(Byte) /\ text \in Seq(Seq(Byte))

\* However the stream was cut and whichever reads were dropped, the frames
\* that come out are those that went in, in their order, and the end is an
\* error exactly when it is in the middle of one (proto.rs FrameReader::next).
FramesAreWhole ==
    /\ IsPrefix(got, sent)
    /\ ended = "error" => closed = "cut"
    /\ ended = "clean" /\ closed # "reset" => closed = "shut" /\ got = sent

\* What a decoder that saw every byte at once would have made of it.
Whole(bytes) ==
    LET one(so, b) ==
        LET stopped == IF so.open = <<>> THEN so.text ELSE Append(so.text, <<>>) IN
        IF b = More /\ so.open # <<>>
        THEN IF Len(so.open) + 1 = so.open[1]
             THEN [text |-> Append(so.text, Append(so.open, b)), open |-> <<>>]
             ELSE [so EXCEPT !.open = Append(@, b)]
        ELSE IF Lead(b) THEN [text |-> stopped, open |-> <<b>>]
        ELSE [text |-> Append(stopped, IF b = More THEN <<>> ELSE <<b>>), open |-> <<>>]
    IN FoldLeft(one, [text |-> <<>>, open |-> <<>>], bytes)

\* The text is that of the bytes, wherever they were cut: no character is
\* lost or doubled at the edge of a body, and one bad byte costs one
\* replacement and nothing after it (utf8.rs).
TextIsTheBytes ==
    LET bytes == FlattenSeq([i \in DOMAIN got |->
                    IF got[i].tag = OUTPUT THEN got[i].body ELSE <<>>])
    IN text = Whole(bytes).text /\ pending = Whole(bytes).open
=============================================================================
