------------------------------- MODULE MCEdges -------------------------------
(***************************************************************************)
(* What programs write, what hands do, what ssh and clipboards say, and    *)
(* which releases there are, for TLC.                                      *)
(***************************************************************************)
EXTENDS Edges

\* Bytes a program may use, the pieces of three kinds of sequence, and the
\* terminals they are written to: the client's own screen or not, releases
\* reported or not, with a window on the history or without.
Bytes(X) == {[is |-> x, set |-> {}, how |-> ""] : x \in X}
Param(lead, set, how) == [is |-> lead, set |-> set, how |-> how]
Common == {"esc", "[", "h", "l"}
Keyboard ==
    Bytes(Common \union {"c", "u"}) \union {Param("<", {}, "")}
    \union {Param(">", {"releases"}, "")}
    \union {Param("=", {"releases"}, how) : how \in {"assign", "remove"}}
Screens ==
    Bytes(Common \union {"primary", "alternate"})
    \union {Param("?", modes, "") : modes \in {{"alternate"}, {"mouse"}, {"alternate", "mouse"}}}
Strings == Bytes({"esc", "[", "]", "P", "c", "\\", "bel", "J", "primary"})

Attachment(owns, allow, history, says) ==
    [owns |-> owns, allow |-> allow, history |-> history, says |-> says]
Wheel == Bytes(Common \union {"primary"}) \union {Param("?", modes, "") : modes \in {{"mouse"}, {"alternate"}}}
MCAttachments ==
    {Attachment(TRUE, FALSE, FALSE, Keyboard), Attachment(TRUE, TRUE, FALSE, Screens),
     Attachment(FALSE, TRUE, FALSE, Screens), Attachment(TRUE, TRUE, FALSE, Strings),
     Attachment(TRUE, TRUE, TRUE, Wheel)}

\* Three lines, with a mark between words, a wide glyph, a pen and blanks at
\* the end.
MCTexts ==
    {(0 :> <<"x", ",", "pen", "x">>) @@ (1 :> <<"wide", "x", " ">>)
     @@ (2 :> <<"x", " ">>)}

\* What a hand may do: keys whose spellings differ from terminal to terminal,
\* with what is held, and what is let go of.
Hand(key, mods, event) == [key |-> key, mods |-> mods, event |-> event]
MCHands ==
    {Hand(key, {}, event) : key \in {"a", "tab", "up", "esc", "enter"},
                            event \in {"press", "repeat", "release"}}
    \union {Hand(key, {"shift"}, "press") : key \in {"a", "tab"}}
    \union {Hand("]", mods, "press") : mods \in {{"ctrl"}, {"ctrl", "caps"}}}
    \union {Hand("c", {"ctrl"}, "press"), Hand("shift", {}, "press"),
            Hand("shift", {"shift"}, "release")}
    \union {Hand(key, {}, "press") : key \in {"focus", "mouse"}}

\* Two machines, one of them here, each watched under two names.
MCHosts == <<"an", "box", "here", "me@box">>
MCNicer == <<"here", "an", "box", "me@box">>
MCNodeOf == "box" :> "b" @@ "me@box" :> "b" @@ "here" :> "h" @@ "an" :> "h"
Said(host, session, group, bare) ==
    [host |-> host, session |-> session, group |-> group, bare |-> bare]
MCWords ==
    {Said("none", "api", group, "session") : group \in BOOLEAN}
    \union {Said(host, "none", TRUE, "or_machine") : host \in {"none", "box"}}
    \union {Said("box", "none", FALSE, "or_machine"), Said("box", "api", FALSE, "session")}

\* Commands of every kind: a program that can resume, told which conversation
\* or not, one that cannot, and shells handed a command.
Arg(word) == [is |-> word, with |-> <<>>]
Argv(s) == [i \in DOMAIN s |-> Arg(s[i])]
Sh(words, rest) == <<Arg("sh"), Arg("-c"), [is |-> "snippet", with |-> Argv(words)]>> \o rest
MCCommands ==
    {Argv(<<"claude">> \o rest) :
        rest \in {<<>>, <<"--continue">>, <<"--resume">>, <<"--resume", "--verbose">>,
                  <<"--resume", "c1">>, <<"--session-id", "c1">>, <<"review it">>, <<"mcp">>}}
    \union {<<Arg("claude"), [is |-> "--resume=", with |-> Argv(<<"c1">>)]>>,
            Argv(<<"vim", "notes">>), Sh(<<"claude">>, <<>>), Sh(<<"a", "|", "b">>, <<>>),
            Sh(<<"a">>, <<Arg("b")>>)}
MCIds == <<"c1", "c2", "c3">>

\* Two sessions on one machine and one on another.
MCHostOf == [s \in {"s1", "s2", "t"} |-> IF s = "t" THEN "h2" ELSE "h1"]

\* Clipboards with an image, with one too big, with a file of one, with
\* something else, and none; the client pastes into one session or another.
Data(is, size) == [is |-> is, size |-> size]
NoFile == [named |-> "image", kind |-> "none", data |-> Data("junk", 0)]
File(named, kind, data) == [named |-> named, kind |-> kind, data |-> data]
MCWanted == <<"png", "jpg">>
MCClipboards ==
    {[tool |-> "unix", offers |-> o, file |-> f] :
        o \in {[x \in {} |-> 0], "png" :> Data("png", 2), "png" :> Data("png", 3), "jpg" :> Data("png", 1)},
        f \in {NoFile}}
    \union {[tool |-> "mac", offers |-> "png" :> Data("junk", 1) @@ "jpg" :> Data("jpg", 1), file |-> NoFile]}
    \union {[tool |-> "unix", offers |-> [x \in {} |-> 0], file |-> f] :
        f \in {File("image", "file", Data("png", 2)), File("other", "file", Data("png", 1)),
               File("image", "file", Data("junk", 3))}}
    \union {[tool |-> t, offers |-> [x \in {} |-> 0], file |-> NoFile] : t \in {"none", "missing"}}
MCAttached == "c1" :> "s1" @@ "c2" :> "s1"
MCStartsAs == "s1" :> "a" @@ "s2" :> "b"

MCChannel == "u1" :> "stable"
=============================================================================
