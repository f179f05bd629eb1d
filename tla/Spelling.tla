------------------------------ MODULE Spelling ------------------------------
(***************************************************************************)
(* Keys, as a terminal spells them and the client reads them back          *)
(* (client/attach/keys.rs, and the keyboard of client/attach/terminal.rs). *)
(* A program sets the terminal to spell its keys as escape sequences, in   *)
(* one of two ways, and the client's own keys are spelt that way too.  A   *)
(* read ends where it likes, and an Esc that nothing follows is a key.     *)
(*                                                                         *)
(* The parameters of a sequence are one byte, with the fields the client   *)
(* looks at.  What a key does once it is read is in Keys.tla.              *)
(***************************************************************************)
EXTENDS Integers, Sequences

LOCAL INSTANCE SequencesExt

CONSTANTS Spellings,  \* of "plain", "xterm", "kitty", and "alternates", which
                      \* is kitty's with what shift makes of a key
          Readers,    \* of "popup", "prompt", "waiting"
          Hands,      \* [key, mods, event]: what a hand does to a key
          MaxHands    \* a bound

Kitty == {"kitty", "alternates"}

SpellingAssumption ==
    /\ Spellings \subseteq {"plain", "xterm"} \union Kitty
    /\ Readers \subseteq {"popup", "prompt", "waiting"}
    /\ \A h \in Hands : h.event \in {"press", "repeat", "release"}
    /\ MaxHands \in Nat

VARIABLES spelling,  \* the terminal's
          reader,    \* who takes the keys
          hands,     \* how much was done
          wire,      \* written by the terminal, not read
          tail,      \* read, and not whole
          chunks,    \* whole, on their way to the reader
          got,       \* what the reader made of them
          meant      \* what the hand meant by them

vars == <<spelling, reader, hands, wire, tail, chunks, got, meant>>

Byte(b) == [is |-> b]
Esc == Byte("esc")
Params(number, shifted, mods, event, key) ==
    [is |-> "params", number |-> number, shifted |-> shifted, mods |-> mods,
     event |-> event, key |-> key]

Controls == {"esc", "enter", "tab", "backspace", "nak", "etx", "prefix"}
Functional == {"shift", "up"}
Locks == {"caps"}

final_byte(b) == b.is \notin Controls \union {"params", "<"}

\* The key behind a control byte.
key_code(c) == CASE c = "prefix" -> "]" [] c = "nak" -> "u" [] c = "etx" -> "c"

Upper(c) == CASE c = "a" -> "A" [] c = "u" -> "U" [] c = "c" -> "C" [] OTHER -> c

(***************************************************************************)
(* The terminal.                                                           *)
(***************************************************************************)
Down(h) == h.event # "release"
Chord(h) == "ctrl" \in h.mods
Control(h) == CHOOSE c \in {"prefix", "nak", "etx"} : key_code(c) = h.key

\* The byte of a key, where it has one.
Plain(h) == IF Chord(h) THEN Control(h)
            ELSE IF "shift" \in h.mods THEN Upper(h.key) ELSE h.key

Spelt(h) ==
    LET seq(p, final) == <<Esc, Byte("[")>> \o p \o <<Byte(final)>>
        alternate == IF spelling = "alternates" /\ "shift" \in h.mods
                     THEN Upper(h.key) ELSE "none"
        kitty == <<Params(h.key, alternate, h.mods, h.event, "none")>>
        named == <<Params("1", "none", h.mods, h.event, "none")>>
        alters == Chord(h) \/ (h.key = "tab" /\ "shift" \in h.mods)
    IN  CASE h.key = "focus" -> seq(<<>>, "I")
          [] h.key = "mouse" -> seq(<<Byte("<"), Params("0", "none", {}, "press", "none")>>, "M")
          [] h.key = "up" /\ spelling \in Kitty -> seq(named, "A")
          [] spelling \in Kitty -> seq(kitty, "u")
          [] ~Down(h) \/ h.key = "shift" -> <<>>
          [] h.key = "up" -> IF spelling = "xterm" THEN <<Esc, Byte("O"), Byte("A")>>
                             ELSE seq(<<>>, "A")
          [] spelling = "xterm" /\ alters ->
                 seq(<<Params("27", "none", h.mods, "press", h.key)>>, "~")
          [] h.key = "tab" /\ "shift" \in h.mods -> seq(<<>>, "Z")
          [] OTHER -> <<Byte(Plain(h))>>

\* What a byte is to a reader: a key the popup does not know gives the session
\* back, a prompt takes what is text or edits it.
Worth(b) ==
    CASE reader = "popup" -> IF b \in {"nak", "etx"} THEN <<"unbound">> ELSE <<b>>
      [] reader = "prompt" -> IF b \in {"tab", "prefix", "etx"} THEN <<>> ELSE <<b>>
      [] reader = "waiting" -> IF b = "etx" THEN <<b>> ELSE <<>>

\* What a hand means, however it is spelt.
Means(h) ==
    CASE ~Down(h) \/ h.key \in {"focus", "mouse", "shift"} -> <<>>
      [] h.key = "up" \/ (h.key = "tab" /\ "shift" \in h.mods) ->
             IF reader = "popup" THEN <<"up">> ELSE <<>>
      [] OTHER -> Worth(Plain(h))

(***************************************************************************)
(* Sequences.                                                              *)
(***************************************************************************)
Starts(s, a, b) == Len(s) >= 2 /\ s[1].is = a /\ s[2].is = b
Ends(s) == SelectInSubSeq(s, 3, Len(s), final_byte)
Body(s) == SubSeq(s, 3, Ends(s) - 1)

\* How much of the front is one sequence, none of it if it is not whole.
sequence(s) ==
    CASE Starts(s, "esc", "[") -> Ends(s)
      [] Starts(s, "esc", "O") -> IF Len(s) >= 3 THEN 3 ELSE 0
      [] OTHER -> 0

\* A key in one of the long spellings.
NoKey == [len |-> 0]
Encoded(s) ==
    IF sequence(s) = 0 \/ s[2].is # "[" \/ Len(Body(s)) # 1 \/ Body(s)[1].is # "params"
    THEN NoKey
    ELSE LET p == Body(s)[1]
             read(code) == [len |-> Ends(s), code |-> code, shifted |-> p.shifted,
                            mods |-> p.mods \ Locks, event |-> p.event]
         IN  CASE s[Ends(s)].is = "u" -> read(p.number)
               [] s[Ends(s)].is = "~" /\ p.number = "27" -> read(p.key)
               [] OTHER -> NoKey

is(k, c) == k.code = key_code(c) /\ k.mods = {"ctrl"}
down(k) == k.event # "release"
is_modifier(k) == k.code = "shift"

\* The character a key types, if it types one.
text(k) ==
    IF \/ ~down(k) \/ ~(k.mods \subseteq {"shift"})
       \/ k.code \in Functional \union Controls THEN <<>>
    ELSE IF "shift" \notin k.mods THEN <<k.code>>
    ELSE IF k.shifted = "none" THEN <<Upper(k.code)>> ELSE <<k.shifted>>

\* The byte the plain spelling of a key is.
byte(k) == IF k.code \in {"enter", "esc", "backspace", "tab"} THEN <<k.code>> ELSE text(k)

typed(k) == IF ~down(k) THEN <<>> ELSE IF is(k, "nak") THEN <<"nak">> ELSE byte(k)

\* The arrows, with what a long spelling adds taken back off.
Special(s) ==
    IF sequence(s) = 0 THEN NoKey
    ELSE IF s[2].is = "O" THEN [len |-> 3, number |-> "1", ends |-> s[3].is, event |-> "press"]
    ELSE IF Body(s) = <<>>
    THEN [len |-> Ends(s), number |-> "1", ends |-> s[Ends(s)].is, event |-> "press"]
    ELSE IF Body(s)[1].is # "params" THEN NoKey
    ELSE [len |-> Ends(s), number |-> Body(s)[1].number, ends |-> s[Ends(s)].is,
          event |-> Body(s)[1].event]

PICK_KEYS == {"A", "Z"}

(***************************************************************************)
(* The readers: how much one step takes of a chunk, and what it makes of   *)
(* it.                                                                     *)
(***************************************************************************)
Step(len, as) == [len |-> len, as |-> as]

Popup(s) ==
    LET special == Special(s)
        key == Encoded(s)
    IN  CASE /\ special # NoKey
             /\ special.ends \in PICK_KEYS /\ special.number = "1"
             /\ special.event # "release" -> Step(special.len, <<"up">>)
          [] key # NoKey ->
                 Step(key.len, IF ~down(key) \/ is_modifier(key) THEN <<>>
                               ELSE IF is(key, "prefix") THEN <<"prefix">>
                               ELSE IF key.code = "tab" /\ "shift" \in key.mods THEN <<"up">>
                               ELSE IF byte(key) = <<>> THEN <<"unbound">>
                               ELSE Worth(byte(key)[1]))
          [] sequence(s) > 0 -> Step(sequence(s), <<>>)
          [] OTHER -> Step(1, Worth(s[1].is))

Prompt(s) ==
    CASE sequence(s) > 0 ->
             Step(sequence(s), IF Encoded(s) = NoKey \/ typed(Encoded(s)) = <<>> THEN <<>>
                               ELSE Worth(typed(Encoded(s))[1]))
      [] OTHER -> Step(1, Worth(s[1].is))

\* Nobody is attached: Ctrl-C is a way out.
interrupts(s) ==
    LET key == Encoded(s) IN
    IF key # NoKey THEN Step(key.len, IF down(key) /\ is(key, "etx") THEN <<"etx">> ELSE <<>>)
    ELSE Step(1, Worth(s[1].is))

One(s) == CASE reader = "popup" -> Popup(s)
            [] reader = "prompt" -> Prompt(s)
            [] reader = "waiting" -> interrupts(s)

\* A whole chunk.
Reading(s) ==
    LET from[i \in 1..(Len(s) + 1)] ==
            IF i > Len(s) THEN <<>>
            ELSE LET one == One(SubSeq(s, i, Len(s))) IN one.as \o from[i + one.len]
    IN  from[1]

(***************************************************************************)
(* The keyboard.                                                           *)
(***************************************************************************)
\* Mutant: what was read goes on as it is.
AsItComes(s) == Len(s)

complete_input_len(s) ==
    LET upto[i \in 1..(Len(s) + 1)] ==
            LET rest == SubSeq(s, i, Len(s)) IN
            CASE rest = <<>> -> i - 1
              [] rest = <<Esc>> -> i - 1
              [] Starts(rest, "esc", "[") \/ Starts(rest, "esc", "O") ->
                     IF sequence(rest) = 0 THEN i - 1 ELSE upto[i + sequence(rest)]
              [] OTHER -> upto[i + 1]
    IN  upto[1]

Init ==
    /\ spelling \in Spellings /\ reader \in Readers
    /\ hands = 0 /\ wire = <<>> /\ tail = <<>> /\ chunks = <<>>
    /\ got = <<>> /\ meant = <<>>

\* A hand is no faster than the wait behind an Esc.
EscIsRead == ~IsSuffix(<<Esc>>, tail \o wire)

Does(h) ==
    /\ hands < MaxHands /\ hands' = hands + 1
    /\ EscIsRead
    /\ wire' = wire \o Spelt(h) /\ meant' = meant \o Means(h)
    /\ UNCHANGED <<spelling, reader, tail, chunks, got>>

Sent(bytes) == IF bytes = <<>> THEN UNCHANGED chunks ELSE chunks' = Append(chunks, bytes)

\* One read of the terminal.
Read(n) ==
    LET all == tail \o SubSeq(wire, 1, n)
        whole == complete_input_len(all)
    IN  /\ wire' = SubSeq(wire, n + 1, Len(wire))
        /\ tail' = SubSeq(all, whole + 1, Len(all))
        /\ Sent(SubSeq(all, 1, whole))
        /\ UNCHANGED <<spelling, reader, hands, got, meant>>

\* Nothing more came.
expire ==
    /\ tail # <<>> /\ wire = <<>>
    /\ tail' = <<>> /\ Sent(IF tail = <<Esc>> THEN tail ELSE <<>>)
    /\ UNCHANGED <<spelling, reader, hands, wire, got, meant>>

Take ==
    /\ chunks # <<>>
    /\ got' = got \o Reading(Head(chunks)) /\ chunks' = Tail(chunks)
    /\ UNCHANGED <<spelling, reader, hands, wire, tail, meant>>

Next ==
    \/ \E h \in Hands : Does(h)
    \/ \E n \in 1..Len(wire) : Read(n)
    \/ expire \/ Take

Spec == Init /\ [][Next]_vars

(***************************************************************************)
(* Properties.                                                             *)
(***************************************************************************)
TypeOK ==
    /\ spelling \in Spellings /\ reader \in Readers /\ hands \in 0..MaxHands
    /\ Len(tail) <= 4 /\ (tail # <<>> => Head(tail) = Esc)

\* A key is read as the one key it is, whichever way it is spelt and wherever
\* the reads end, and what no hand pressed is not read as keys.
ReadAsPressed ==
    /\ IsPrefix(got, meant)
    /\ wire = <<>> /\ tail = <<>> /\ chunks = <<>> => got = meant
=============================================================================
