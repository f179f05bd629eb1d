------------------------------ MODULE Resuming ------------------------------
(***************************************************************************)
(* What a checkpoint says a session was running, and what a restore makes  *)
(* of it (client/checkpoint/mod.rs, foreground.rs): a session through      *)
(* saves and restarts, with what its shells leave in front of the terminal *)
(* at every moment of its start.  Checkpoint.tla is about which sessions   *)
(* are in the file; this is about the command kept of one.                 *)
(*                                                                         *)
(* A word is named by what it says.  The snippet of a `-c` carries the     *)
(* words it was made of, quoted.  A shell may `exec` a simple command or   *)
(* run it and stay.  Conversations are the ones of the session's           *)
(* directory, and nobody else is in it.                                    *)
(***************************************************************************)
EXTENDS Integers, Sequences, FiniteSets

LOCAL INSTANCE FiniteSetsExt

CONSTANTS Commands,     \* what may be typed, or started with `mm new`
          Ids,          \* names of conversations, in the order they begin
          Unplain,      \* words that are syntax to a shell, or have to be quoted
          Subcommands,  \* of the program that can resume
          MaxHands, MaxRestores   \* bounds

SHELLS == {"login", "sh"}
SHELL_COMMAND_FLAGS == {"-c", "-lc", "-mc"}

Word(w) == [is |-> w, with |-> <<>>]
Snippet(words) == [is |-> "snippet", with |-> words]
KEEP_THE_SHELL == Word("keep")

ResumingAssumption ==
    /\ \A c \in Commands : Len(c) > 0
    /\ {MaxHands, MaxRestores} \subseteq Nat /\ Len(Ids) > 0
    /\ \A i \in DOMAIN Ids : Ids[i] \notin Subcommands

VARIABLES
    quick,     \* the shells that `exec`
    stage,     \* of the session: gone, profile, wrapper, running or prompt
    leader,    \* the argv of the process the node started
    child,     \* the one in front of it, if there is one
    pids,      \* how many processes there were
    conv,      \* what runs: a conversation, its chooser, another program
    begun,     \* conversations there are
    recent,    \* the last one used
    hand,      \* a person started it, not a restore
    work,      \* what the person is at
    asked,     \* a save asks about this process
    written,   \* there is an entry
    kept,      \* its command, empty for a prompt
    keptWork,  \* what the person was at then
    moved,     \* and has done since
    hands, restores

session == <<stage, leader, child, pids, conv, begun, recent, hand, work>>
entry == <<written, kept, keptWork>>
vars == <<quick, session, asked, entry, moved, hands, restores>>

(***************************************************************************)
(* A program that can resume.                                              *)
(***************************************************************************)
Already == {"--continue", "--resume", "--session-id"}
Picks == {"--resume"}

\* A flag up to its `=`.
Valued(w) == w.is = "--resume="
name(w) == IF Valued(w) THEN "--resume" ELSE w.is
flag(w) == w.is \in Already \union {"--resume=", "--verbose"}

resumable(argv) == argv # <<>> /\ argv[1].is = "claude"
a_subcommand(argv) == Len(argv) > 1 /\ argv[2].is \in Subcommands

told_which(argv, at) == Valued(argv[at]) \/ (at < Len(argv) /\ ~flag(argv[at + 1]))
Says(argv) == {at \in 2..Len(argv) : name(argv[at]) \in Already}
Directory(argv) == {at \in Says(argv) : argv[at].is = "--continue"}
Choosers(argv) == {at \in Says(argv) : name(argv[at]) \in Picks /\ ~told_which(argv, at)}

resuming(argv) ==
    CASE Says(argv) \ (Directory(argv) \union Choosers(argv)) # {} -> "named"
      [] Directory(argv) # {} -> "directory"
      [] Choosers(argv) # {} -> "chosen"
      [] OTHER -> "fresh"

(***************************************************************************)
(* Reading a command back.                                                 *)
(***************************************************************************)
unwrapped(argv) ==
    IF /\ Len(argv) > 4 /\ argv[1].is = "sh" /\ argv[2].is = "-mc"
       /\ argv[3] = KEEP_THE_SHELL /\ argv[4].is = "sh"
    THEN SubSeq(argv, 5, Len(argv)) ELSE argv

is_shell(argv) == argv # <<>> /\ argv[1].is \in SHELLS
CommandFlags(argv) == {i \in 2..Len(argv) : argv[i].is \in SHELL_COMMAND_FLAGS}
handed_a_command(argv) == CommandFlags(argv) # {}
at_a_prompt(argv) == argv = <<>> \/ (is_shell(argv) /\ ~handed_a_command(argv))

plain(words) ==
    \A i \in DOMAIN words : ~Valued(words[i])
                            /\ words[i].is \notin Unplain \union {"snippet", "keep"}

\* The words after the flag, if they are a plain command and nothing follows.
shell_command(argv) ==
    IF \/ ~is_shell(argv) \/ ~handed_a_command(argv)
       \/ Min(CommandFlags(argv)) + 1 # Len(argv)
       \/ argv[Len(argv)].is # "snippet" \/ ~plain(argv[Len(argv)].with) THEN <<>>
    ELSE argv[Len(argv)].with

\* Everything that can be read through, from the outside in.
Depth == 3
Peeled(argv) ==
    LET at[n \in 0..Depth] ==
            IF n = 0 THEN unwrapped(argv)
            ELSE IF shell_command(at[n - 1]) = <<>> THEN at[n - 1]
            ELSE unwrapped(shell_command(at[n - 1]))
    IN  at[Depth]

Without(argv, at) == SubSeq(argv, 1, at - 1) \o SubSeq(argv, at + 1, Len(argv))

resumed(foreground) ==
    LET argv == Peeled(foreground) IN
    CASE at_a_prompt(argv) -> <<>>
      [] resumable(argv) /\ ~a_subcommand(argv) /\ resuming(argv) = "fresh" ->
             Append(argv, Word("--continue"))
      [] resumable(argv) /\ ~a_subcommand(argv) /\ resuming(argv) = "chosen" ->
             Append(Without(argv, Max(Choosers(argv))), Word("--continue"))
      [] OTHER -> argv

\* Mutant: only a wrapper that can be seen is one.
OnlyInSight(argv) == \E i \in DOMAIN argv : argv[i] = KEEP_THE_SHELL

still_wrapped(argv) ==
    \E i \in DOMAIN argv : \/ argv[i] = KEEP_THE_SHELL
                           \/ \E j \in DOMAIN argv[i].with : argv[i].with[j] = KEEP_THE_SHELL

to_spawn(command) ==
    IF command = <<>> THEN <<>>
    ELSE <<Word("exec"), Word("sh"), Word("-mc"), KEEP_THE_SHELL, Word("sh")>> \o command

launch(command) ==
    IF command = <<>> THEN <<Word("login"), Word("-l")>>
    ELSE <<Word("login"), Word("-lc"), Snippet(command)>>

(***************************************************************************)
(* Shells and programs.                                                    *)
(***************************************************************************)
Runs(argv) == is_shell(argv) /\ Len(argv) = 3 /\ argv[3].is = "snippet"
Simple(words) == \A i \in DOMAIN words : words[i].is # "|"

\* What is left in front once every shell that gets out of the way has.
Left(argv) ==
    LET at[n \in 0..Depth] ==
            IF n = 0 THEN argv
            ELSE IF Runs(at[n - 1]) /\ at[n - 1][1].is \in quick /\ Simple(at[n - 1][3].with)
                 THEN at[n - 1][3].with ELSE at[n - 1]
    IN  at[Depth]

\* The program behind every shell.
Program(argv) ==
    LET at[n \in 0..Depth] == IF n = 0 THEN argv
                              ELSE IF Runs(at[n - 1]) THEN at[n - 1][3].with ELSE at[n - 1]
    IN  at[Depth]

\* The conversation a program opens.
Opens(argv) ==
    LET p == Program(argv)
        named == {at \in Says(p) \ Directory(p) : at \notin Choosers(p)}
        at == Min(named)
    IN  CASE ~resumable(p) \/ (a_subcommand(p) /\ Says(p) = {}) -> p[1].is
          [] \/ a_subcommand(p) \/ Cardinality(Says(p)) > 1
             \/ (Directory(p) # {} /\ recent = "none") -> "rejected"
          [] named # {} -> IF Valued(p[at]) THEN p[at].with[1].is ELSE p[at + 1].is
          [] Directory(p) # {} -> recent
          [] Choosers(p) # {} -> "menu"
          [] OTHER -> IF begun < Len(Ids) THEN Ids[begun + 1] ELSE "one more"

Conversations == {Ids[i] : i \in 1..begun}

\* What a person may ask for: conversations there are, and room for a new one.
Sensible(argv) ==
    LET p == Program(argv) IN
    /\ resumable(p) => begun < Len(Ids)
    /\ Says(p) # {} => recent # "none"
    /\ \A i \in DOMAIN p : /\ p[i].is \in {Ids[n] : n \in DOMAIN Ids} => p[i].is \in Conversations
                           /\ Valued(p[i]) => p[i].with[1].is \in Conversations

Begins(argv, byhand) ==
    LET opened == Opens(argv)
        new == resumable(Program(argv)) /\ opened \in {Ids[i] : i \in DOMAIN Ids}
    IN  /\ conv' = opened
        /\ begun' = IF new /\ opened \notin Conversations THEN begun + 1 ELSE begun
        /\ recent' = IF new THEN opened ELSE recent
        /\ work' = IF byhand THEN opened ELSE work

\* The front of the terminal, and what a process there says it is.
in_front_of == IF child.pid # 0 THEN child.pid ELSE 1
ArgvOf(pid) == IF pid = 1 THEN leader ELSE IF child.pid = pid THEN child.argv ELSE <<>>
NoChild == [pid |-> 0, argv |-> <<>>]

Init ==
    /\ quick \in SUBSET SHELLS
    /\ stage = "gone" /\ leader = <<>> /\ child = NoChild /\ pids = 1
    /\ conv = "prompt" /\ begun = 0 /\ recent = "none" /\ hand = TRUE /\ work = "prompt"
    /\ asked = 0 /\ written = FALSE /\ kept = <<>> /\ keptWork = "prompt" /\ moved = FALSE
    /\ hands = 0 /\ restores = 0

ByHand == hands < MaxHands /\ hands' = hands + 1 /\ moved' = TRUE /\ hand' = TRUE

Spawns(command) ==
    /\ leader' = launch(command) /\ child' = NoChild
    /\ stage' = IF command = <<>> THEN "prompt" ELSE "profile"

\* `mm new`, with a command or without.
New(command) ==
    /\ stage = "gone" /\ hands = 0 /\ Sensible(command)
    /\ ByHand /\ Spawns(command) /\ conv' = "prompt" /\ work' = "prompt"
    /\ UNCHANGED <<quick, pids, begun, recent, asked, entry, restores>>

\* The login shell has read its profile.
ProfileRead ==
    /\ stage = "profile"
    /\ LET words == leader[3].with IN
       IF words[1].is = "exec"
       THEN /\ leader' = Tail(words) /\ stage' = "wrapper"
            /\ UNCHANGED <<conv, begun, recent, work>>
       ELSE /\ leader' = Left(leader) /\ stage' = "running" /\ Begins(words, hand)
    /\ UNCHANGED <<quick, child, pids, hand, asked, entry, moved, hands, restores>>

InFront(argv, byhand) ==
    /\ pids' = pids + 1 /\ stage' = "running"
    /\ child' = [pid |-> pids + 1, argv |-> Left(argv)]
    /\ Begins(argv, byhand)

\* The wrapper gives its command the terminal.
WrapperRuns ==
    /\ stage = "wrapper" /\ InFront(unwrapped(leader), hand)
    /\ UNCHANGED <<quick, leader, hand, asked, entry, moved, hands, restores>>

\* A person at a prompt.
Types(command) ==
    /\ stage = "prompt" /\ Sensible(command) /\ ByHand
    /\ InFront(command, TRUE)
    /\ UNCHANGED <<quick, leader, asked, entry, restores>>

Chooses(id) ==
    /\ stage = "running" /\ conv = "menu" /\ ByHand
    /\ conv' = id /\ work' = id /\ recent' = id
    /\ UNCHANGED <<quick, stage, leader, child, pids, begun, asked, entry, restores>>

\* The program ends, and leaves a prompt if there is a shell behind it.
Quits ==
    /\ stage = "running" /\ ByHand
    /\ conv' = "prompt" /\ work' = "prompt" /\ child' = NoChild
    /\ IF child = NoChild THEN stage' = "gone" /\ leader' = <<>>
       ELSE stage' = "prompt" /\ leader' = launch(<<>>)
    /\ UNCHANGED <<quick, pids, begun, recent, asked, entry, restores>>

(***************************************************************************)
(* A save, in two passes, and a restore.                                   *)
(***************************************************************************)
Stat ==
    /\ stage # "gone" /\ asked = 0 /\ asked' = in_front_of
    /\ UNCHANGED <<quick, session, entry, moved, hands, restores>>

\* A session running something that cannot be read through is run again as it
\* was, and one that has not begun has nothing to come back to.
Promised(argv) ==
    IF \/ asked # in_front_of \/ (hand /\ stage = "profile")
       \/ is_shell(resumed(argv)) THEN "free" ELSE work

Read ==
    /\ asked # 0 /\ asked' = 0
    /\ LET argv == ArgvOf(asked)
           command == resumed(argv)
       IN  IF argv = <<>> \/ still_wrapped(command) THEN UNCHANGED <<entry, moved>>
           ELSE /\ written' = TRUE /\ kept' = command /\ keptWork' = Promised(argv)
                /\ moved' = (asked # in_front_of \/ (hand /\ stage = "profile"))
    /\ UNCHANGED <<quick, session, hands, restores>>

\* The node is restarted, and the session put back.
Restore ==
    /\ written /\ restores < MaxRestores /\ restores' = restores + 1
    /\ Spawns(to_spawn(kept)) /\ hand' = FALSE /\ asked' = 0
    /\ conv' = "prompt" /\ moved' = FALSE
    /\ keptWork' = IF moved THEN "free" ELSE keptWork
    /\ work' = keptWork'
    /\ UNCHANGED <<quick, pids, begun, recent, written, kept, hands>>

Next ==
    \/ \E c \in Commands \union {<<>>} : New(c)
    \/ \E c \in Commands : Types(c)
    \/ \E id \in Conversations : Chooses(id)
    \/ ProfileRead \/ WrapperRuns \/ Quits \/ Stat \/ Read \/ Restore

Spec == Init /\ [][Next]_vars

(***************************************************************************)
(* Properties.                                                             *)
(***************************************************************************)
TypeOK ==
    /\ stage \in {"gone", "profile", "wrapper", "running", "prompt"}
    /\ begun \in 0..Len(Ids) /\ recent \in Conversations \union {"none"}
    /\ (stage = "gone") = (leader = <<>>) /\ asked \in 0..pids
    /\ stage \in {"gone", "profile", "wrapper", "prompt"} => child = NoChild

\* However often a session is saved and restored, it is the same command, at
\* whichever moment of its start the save falls: the one kept, or what is left
\* of it when its shell got out of the way.
SavedAgainTheSame ==
    written /\ ~moved /\ stage # "gone" =>
        LET command == resumed(ArgvOf(in_front_of)) IN
        still_wrapped(command) \/ command \in {kept, resumed(Left(kept))}

\* Nobody is left at a menu, refused, or in another conversation.
ComesBack ==
    ~hand /\ ~moved /\ keptWork # "free" =>
        /\ stage = "prompt" => keptWork = "prompt"
        /\ stage = "running" => conv = IF keptWork = "menu" THEN recent ELSE keptWork
=============================================================================
