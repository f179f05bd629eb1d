------------------------------- MODULE MCParts -------------------------------
(***************************************************************************)
(* Two or three of everything there are several of, for TLC: clients,      *)
(* sessions, machines, names, the chunks of keys a terminal sends and the  *)
(* lists a popup shows.                                                    *)
(***************************************************************************)
EXTENDS Parts

MCCodes == {"x"}

Byte(c)     == [code |-> c, how |-> "byte", event |-> "press"]
Chord(c, e) == [code |-> c, how |-> "chord", event |-> e]
Arrow(c)    == [code |-> c, how |-> "seq", event |-> "press"]
Report(c)   == [code |-> c, how |-> "mouse", event |-> "press"]

\* What is typed at a terminal: every key that means something to the client,
\* and the runs of keys that a read can end in the middle of.
MCTyped ==
    {<<Byte(c)>> : c \in {"prefix", "esc", "enter", "x", "tab", "m", "n", "N",
                          "l", "d", "[", "/", "r", "paste"}}
    \union {<<Arrow("up")>>}
    \union {<<Chord(c, e)>> : c \in MCCodes, e \in {"press", "repeat", "release"}}
    \union {<<Report(c)>> : c \in {"wheelup", "wheeldown", "button", "letgo"}}
    \union {<<Byte("prefix"), Byte("prefix")>>, <<Byte("tab"), Byte("enter")>>,
            <<Byte("prefix"), Chord("x", "press")>>,
            <<Byte("/"), Byte("enter"), Byte("x")>>,
            <<Report("drag"), Report("letgo")>>}

\* A client that may do everything but rename, and one whose host is too old
\* for a window on the history.
Place(s, r, w, m) == [owns |-> TRUE, scrolls |-> s, renames |-> r,
                      watching |-> w, mouse |-> m]
MCPlaces == {Place(TRUE, TRUE, FALSE, TRUE), Place(FALSE, FALSE, TRUE, TRUE)}

MCHostOf == [s \in {"s1", "s2"} |-> IF s = "s1" THEN "h1" ELSE "h2"]

\* Lists under headings, one heading in another; what a listing may make of
\* one; terminals with room, with little and with none.
Heading(id, indent) ==
    [id |-> id, heading |-> TRUE, available |-> TRUE, number |-> 0, indent |-> indent,
     word |-> "", wide |-> 6]
Session(id, word, available, indent) ==
    [id |-> id, heading |-> FALSE, available |-> available, number |-> id % 10, indent |-> indent,
     word |-> word, wide |-> 13 + (id % 10)]
MCListings ==
    {<<Heading(1, 0), Session(11, "a", TRUE, 1), Session(12, "b", FALSE, 1),
       Heading(2, 0), Heading(3, 1), Session(13, "a", TRUE, 2)>>,
     <<Heading(2, 0), Session(13, "a", TRUE, 1), Session(11, "c", TRUE, 1)>>,
     <<Heading(1, 0)>>}
MCSizes == {[rows |-> 14, cols |-> 40], [rows |-> 10, cols |-> 30], [rows |-> 6, cols |-> 24]}
MCHints == <<10, 8, 9>>

MCCalled == [s \in {"x", "y"} |-> IF s = "x" THEN "a" ELSE "b"]

MCMachineOf == [n \in {"box", "me@box", "self"} |-> IF n = "self" THEN "here" ELSE "far"]
=============================================================================
