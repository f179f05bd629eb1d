-------------------------------- MODULE Keys --------------------------------
(***************************************************************************)
(* The key filter of an attached client (client/attach/keys.rs): what one  *)
(* key pressed on the terminal does to the filter, what of it goes on to   *)
(* the session, and what it asks of the client.  A key is a record         *)
(*                                                                         *)
(*   code    which key, or which report of the mouse                       *)
(*   how     how the terminal spelled it: a plain "byte", a "chord" of an  *)
(*           extended-keys protocol, an escape "seq" (arrows, paging), a   *)
(*           "mouse" report, or a "stray" sequence no hand pressed         *)
(*   event   "press", "repeat" or "release"                                *)
(*                                                                         *)
(* and one mouse report stands for a run of them that the filter adds up.  *)
(* What is typed at a prompt, the cells of a selection and the counts of a *)
(* scroll are left out; which of them happened is kept.  So is the key     *)
(* that opened control mode, which goes to the session ahead of a key that *)
(* turns out to be the session's.                                          *)
(***************************************************************************)
EXTENDS Sequences, FiniteSets, Naturals

CONSTANTS Codes,        \* the keys a chord can name
          MaxForwarded, \* 32 in the code
          Pastes        \* whether the paste key is the client's

KeysAssumption ==
    /\ MaxForwarded \in Nat
    /\ IsFiniteSet(Codes)
    /\ Pastes \in BOOLEAN

Key == [code: STRING, how: {"byte", "chord", "seq", "mouse", "stray"},
        event: {"press", "repeat", "release"}]

Modes   == {"Focus", "Control", "Scroll", "Rename", "Picking"}
Prompts == {"none", "find", "sessions", "rename", "group"}
NoKey   == "no key"
None    == <<"none", "">>

\* What a key asks for: of a list, of a search, of what is typed at a prompt, of
\* the window and of what is selected in it.
Picks   == {"up", "down", "heading", "go", "number", "move", "groups", "hosts", "cancel"}
Typings == {"open", "typed", "run", "cancel"}
Finds   == Typings \union {"step"}
Scrolls == {"up", "down", "leave"}
Selects == {"from", "to", "done"}
Actions ==
    {None} \union {<<a, "">> : a \in {"detach", "new", "switch", "paste"}}
        \union ({"pick"} \X Picks) \union ({"scroll"} \X Scrolls)
        \union ({"select"} \X Selects) \union ({"find"} \X Finds)
        \union ({"sessions", "group", "rename"} \X Typings)

\* What the filter keeps from one key to the next.  "quick": the key that
\* turned control mode on is the last one pressed, within LITERAL.
KeyFilter == [mode: Modes, quick: BOOLEAN, scroll: BOOLEAN, wheel: BOOLEAN,
              prompt: Prompts, acted: Codes \union {NoKey},
              forwarded: SUBSET Codes]

NewFilter == [mode |-> "Focus", quick |-> FALSE, scroll |-> FALSE,
              wheel |-> FALSE, prompt |-> "none", acted |-> NoKey,
              forwarded |-> {}]

(***************************************************************************)
(* The tables: what a key means in each of the modes the client holds.     *)
(***************************************************************************)
controlling(k, code) ==
    CASE code = "d"                -> <<"detach", "">>
      [] code \in {"tab", "j"}     -> <<"pick", "down">>
      [] code = "k"                -> <<"pick", "up">>
      [] code = "enter"            -> <<"pick", "go">>
      [] code = "digit"            -> <<"pick", "number">>
      [] code = "m"                -> <<"pick", "move">>
      [] code = "g"                -> <<"pick", "groups">>
      [] code = "n"                -> <<"pick", "hosts">>
      [] code = "h"                -> <<"pick", "heading">>
      [] code = "l"                -> <<"switch", "">>
      [] code = "N"                -> <<"new", "">>
      [] code = "[" /\ k.scroll    -> <<"scroll", "up">>
      [] code = "/"                -> <<"sessions", "open">>
      [] code = "r"                -> <<"rename", "open">>
      [] OTHER                     -> None

picking(code) ==
    CASE code \in {"tab", "j"}              -> <<"pick", "down">>
      [] code = "k"                         -> <<"pick", "up">>
      [] code \in {"enter", "lf"}           -> <<"pick", "go">>
      [] code \in {"q", "esc", "prefix"}    -> <<"pick", "cancel">>
      [] code \in {"n", "N"}                -> <<"group", "open">>
      [] OTHER                              -> None

scrolling(code) ==
    CASE code = "/"                                     -> <<"find", "open">>
      [] code \in {"n", "N"}                            -> <<"find", "step">>
      [] code \in {"q", "esc", "enter", "lf", "prefix"} -> <<"scroll", "leave">>
      [] code = "j"                                     -> <<"scroll", "down">>
      [] code \in {"k", "g"}                            -> <<"scroll", "up">>
      [] OTHER                                          -> None

\* Where an action leaves the keyboard, from the mode its key arrived in.
after(act, now) ==
    CASE act[1] \in {"detach", "paste", "new"}     -> "Focus"
      [] act[1] \in {"switch", "sessions"}         -> "Control"
      [] act[1] = "pick" /\ act[2] \in {"go", "number"} -> "Focus"
      [] act = <<"pick", "cancel">>                ->
             IF now = "Picking" THEN "Control" ELSE "Focus"
      [] act[1] = "pick" /\ act[2] \in {"move", "groups", "hosts"} -> "Picking"
      [] act[1] = "pick" /\ act[2] \in {"up", "down", "heading"}   -> now
      [] act[1] = "group"  -> IF act[2] \in {"run", "cancel"}
                              THEN "Picking" ELSE "Rename"
      [] act = <<"scroll", "leave">>               -> "Focus"
      [] act[1] = "scroll" /\ act[2] # "leave"     -> "Scroll"
      [] act[1] \in {"find", "select"}             -> "Scroll"
      [] act[1] = "rename" -> IF act[2] \in {"run", "cancel"}
                              THEN "Focus" ELSE "Rename"

\* The prompt an action opens, if it opens one.
opening(k, act) ==
    IF act[2] = "open" THEN [k EXCEPT !.prompt = act[1]] ELSE k

\* Whether what is left of the chunk behind an action is still read: behind a
\* move of the highlight, the opening of its search, and all the mouse does.
rest_after(key, act) ==
    \/ act[1] = "pick" /\ act[2] \in {"up", "down", "heading"}
    \/ act = <<"sessions", "open">>
    \/ key.how = "mouse"

(***************************************************************************)
(* One key.  Every reading of one is [k, out, act]: the filter after it,   *)
(* the keys that go on to the session, the action it asks for.             *)
(***************************************************************************)
Taken(k)         == [k |-> k, out |-> <<>>, act |-> None]
Passed(k, out)   == [k |-> k, out |-> out, act |-> None]
finish(k, act)   == [k |-> [k EXCEPT !.mode = after(act, k.mode)],
                     out |-> <<>>, act |-> act]
Acts(k, act)     == IF act = None THEN Taken(k)
                                  ELSE finish(opening(k, act), act)

remember_forwarded(k, code) ==
    [k EXCEPT !.forwarded =
        (IF Cardinality(k.forwarded) = MaxForwarded THEN {} ELSE k.forwarded)
            \union {code}]

\* A prompt takes everything: the key ends the typing or is typed.
typing(k, key) ==
    CASE key.event = "release" \/ key.how \in {"seq", "stray", "mouse"} ->
             finish(k, <<k.prompt, "typed">>)
      [] key.event # "release" /\ key.code \in {"enter", "lf"}
             /\ key.how \in {"byte", "chord"} -> finish(k, <<k.prompt, "run">>)
      [] key.event # "release" /\ key.code = "esc"
             /\ key.how \in {"byte", "chord"} ->
             finish([k EXCEPT !.prompt = "none"], <<k.prompt, "cancel">>)
      [] OTHER -> finish(k, <<k.prompt, "typed">>)

\* A report of the mouse, while the wheel is the client's: swallowed, whatever
\* it means here.
mousing(k, key) ==
    CASE key.code = "wheelup"   -> finish(k, <<"scroll", "up">>)
      [] key.code = "wheeldown" -> IF k.mode = "Focus" THEN Taken(k)
                                   ELSE finish(k, <<"scroll", "down">>)
      [] key.code = "drag"      -> finish(k, <<"select", "to">>)
      [] key.code = "button"    -> finish(k, <<"select", "from">>)
      [] key.code = "letgo"     -> finish(k, <<"select", "done">>)
      [] OTHER                  -> Taken(k)

\* A key as a plain byte.
typed(k, key) ==
    LET c == key.code IN
    CASE k.mode = "Picking" -> Acts(k, picking(c))
      [] k.mode = "Scroll"  -> Acts(k, scrolling(c))
      [] k.mode = "Focus"   ->
             IF c = "prefix" THEN Taken([k EXCEPT !.mode = "Control",
                                                  !.quick = TRUE])
             ELSE IF Pastes /\ c = "paste" THEN finish(k, <<"paste", "">>)
             ELSE Passed(k, <<key>>)
      [] OTHER ->
             LET unheld == [k EXCEPT !.quick = FALSE]
                 focus  == [unheld EXCEPT !.mode = "Focus"] IN
             IF c = "prefix" THEN Passed(focus, IF k.quick THEN <<key>> ELSE <<>>)
             ELSE IF c \in {"esc", "lf"} THEN Taken(focus)
             ELSE IF controlling(k, c) # None THEN Acts(unheld, controlling(k, c))
             ELSE Passed(focus, <<key>>)

\* A chord read while the keys are the session's.  Of the keys that are not
\* the client's own, only a press the session was given has its repeat and its
\* release passed on.
Focused(k, key) ==
    LET c    == key.code
        ours == c = "prefix" \/ (Pastes /\ c = "paste") \/ k.acted = c
        let_go == [k EXCEPT !.acted = IF @ = c THEN NoKey ELSE @,
                            !.forwarded = @ \ {c}] IN
    IF key.event # "press"
    THEN Passed(IF key.event = "repeat" THEN k ELSE let_go,
                IF ~ours /\ c \in k.forwarded THEN <<key>> ELSE <<>>)
    ELSE IF c = "prefix" THEN Taken([k EXCEPT !.mode = "Control", !.quick = TRUE])
    ELSE IF Pastes /\ c = "paste" THEN finish(k, <<"paste", "">>)
    ELSE Passed(remember_forwarded(
                    [k EXCEPT !.acted = IF @ = c THEN NoKey ELSE @], c), <<key>>)

encoded(k, key) ==
    LET c    == key.code
        held == [k EXCEPT !.acted = c]
        unheld == [held EXCEPT !.quick = FALSE]
        focus  == [unheld EXCEPT !.mode = "Focus"] IN
    CASE k.mode = "Focus" -> Focused(k, key)
      [] k.mode # "Focus" /\ key.event = "release" ->
             Taken([k EXCEPT !.forwarded = @ \ {c}])
      [] k.mode # "Focus" /\ key.event # "release" /\ c = "ctrl" -> Taken(k)
      [] k.mode = "Scroll" /\ key.event # "release" /\ c # "ctrl" ->
             Acts(held, scrolling(c))
      [] k.mode = "Picking" /\ key.event # "release" /\ c # "ctrl" ->
             IF c = "backtab" THEN finish(held, <<"pick", "up">>)
             ELSE Acts(held, picking(c))
      [] k.mode \in {"Control", "Rename"} /\ key.event # "release" /\ c # "ctrl" ->
             IF c = "prefix" THEN Passed(focus, IF k.quick THEN <<key>> ELSE <<>>)
             ELSE IF c = "backtab" THEN finish(unheld, <<"pick", "up">>)
             ELSE IF c = "esc" THEN Taken(focus)
             ELSE IF controlling(k, c) # None THEN Acts(unheld, controlling(k, c))
             ELSE Passed(remember_forwarded([focus EXCEPT !.acted = NoKey], c),
                         <<key>>)

\* filter_at, one key of the chunk.
filter_at(k, key) ==
    LET down == key.event # "release" IN
    IF k.prompt # "none" THEN typing(k, key)
    ELSE IF key.how = "mouse" /\ k.wheel THEN mousing(k, key)
    ELSE IF /\ k.mode = "Scroll" /\ key.how = "seq" /\ down
            /\ key.code \in {"up", "down"}
         THEN finish(k, <<"scroll", key.code>>)
    ELSE IF /\ k.mode \in {"Control", "Picking"} /\ key.how = "seq" /\ down
            /\ key.code \in {"up", "down"}
         THEN finish([k EXCEPT !.quick = FALSE], <<"pick", key.code>>)
    ELSE IF key.how = "chord" THEN encoded(k, key)
    ELSE IF key.how # "byte" THEN
             IF k.mode = "Focus" THEN Passed(k, <<key>>) ELSE Taken(k)
    ELSE typed(k, key)

(***************************************************************************)
(* What the terminal loop tells the filter.                                *)
(***************************************************************************)
stop_typing(k)  == [k EXCEPT !.prompt = "none"]
set_mode(k, m)  == [k EXCEPT !.mode = m, !.quick = FALSE]
set_wheel(k, ours) == [k EXCEPT !.wheel = ours /\ k.scroll]
set_scroll(k, on)  == [k EXCEPT !.scroll = on, !.wheel = @ /\ on]

\* A new attachment: what was typed and given to the one before is forgotten.
begin_attach(k, m, scroll) ==
    set_scroll([set_mode(k, m) EXCEPT !.prompt = "none", !.wheel = FALSE,
                                      !.forwarded = {}], scroll)

release_reports_ended(k) == [k EXCEPT !.forwarded = {}, !.acted = NoKey]
=============================================================================
