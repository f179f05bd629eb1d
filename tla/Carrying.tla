------------------------------ MODULE Carrying ------------------------------
(***************************************************************************)
(* A request over ssh (client/mod.rs, ssh.rs, ssh/bootstrap.rs): what kind *)
(* of machine it is, the spellings of mm tried one ssh each, mm put there  *)
(* if somebody says so, the request sent again on the next, and what ssh   *)
(* says meanwhile held back until it is known whether it is worth hearing. *)
(*                                                                         *)
(* ssh writes what it has to say to a pipe a task of the client reads; it  *)
(* exits, and the shell or the agent behind it with it, whenever it likes. *)
(***************************************************************************)
EXTENDS Integers, Sequences

CONSTANTS KEEP     \* lines of what ssh says that are kept

CarryingAssumption == KEEP \in Nat \ {0}

VARIABLES
    machine,   \* its platform and where its mm is
    how,       \* who asks: aloud, kept or quiet, and what they say to installing
    client,    \* what the stream is doing
    ssh,       \* the ssh that carries it
    relay,     \* the task that reads what ssh says
    terminal,  \* lines printed
    handled, installs   \* requests the node had; times mm was put there

vars == <<machine, how, client, ssh, relay, terminal, handled, installs>>

PROGRAMS == <<"path", "home">>
NOT_FOUND == 127
Windows == machine.platform = "windows"

NoSsh == [status |-> 0, sent |-> FALSE, had |-> FALSE, answers |-> FALSE, pipe |-> <<>>, said |-> <<>>]
Started == [NoSsh EXCEPT !.status = -1]
Runs == ssh.status = -1
Gone == ssh.status > 0

\* One asked quietly has no pipe, one that keeps has nobody to speak up.
Reader == [is |-> CASE how.heard = "quiet" -> "done" [] how.heard = "kept" -> "keeps"
                    [] OTHER -> "holds",
           held |-> <<>>, asked |-> FALSE]

Goes(is) == client' = [client EXCEPT !.is = is]
Tells(what) == client' = [client EXCEPT !.is = "told", !.told = what]
Opens == ssh' = Started /\ relay' = Reader

(***************************************************************************)
(* The way in.                                                             *)
(***************************************************************************)
Consents == how.consent = "yes"

\* The installer decides where it lands, and may fail. The spellings are tried
\* from the first again.
install_on ==
    \/ Tells("not installed") /\ UNCHANGED <<machine, ssh, relay, installs>>
    \/ /\ \E at \in {machine.mm, "path", "home"} : machine' = [machine EXCEPT !.mm = at]
       /\ installs' = installs + 1
       /\ client' = [client EXCEPT !.is = "sends", !.program = 1, !.installed = TRUE]
       /\ Opens

NobodyHome ==
    IF ~client.installed /\ Consents THEN install_on
    ELSE Tells("no mm") /\ UNCHANGED <<machine, ssh, relay, installs>>

\* Asked before anything is sent. A Windows machine says at once whether mm is
\* there; the spellings are for the others.
detect ==
    /\ client.is = "detects"
    /\ \/ Tells("failed") /\ UNCHANGED <<machine, ssh, relay, installs>>
       \/ Windows /\ machine.mm = "nowhere" /\ NobodyHome
       \/ ~(Windows /\ machine.mm = "nowhere") /\ Goes("sends") /\ Opens
          /\ UNCHANGED <<machine, installs>>
    /\ UNCHANGED <<how, terminal, handled>>

\* A write to an ssh that has exited may fail, or go nowhere.
Sends ==
    /\ client.is = "sends"
    /\ \/ Goes("reads") /\ ssh' = [ssh EXCEPT !.sent = TRUE] /\ UNCHANGED relay
       \/ Gone /\ Goes("reopens") /\ UNCHANGED <<ssh, relay>>
    /\ UNCHANGED <<machine, how, terminal, handled, installs>>

speak_up == relay' = [relay EXCEPT !.asked = TRUE]

request ==
    /\ client.is = "reads"
    /\ \/ ssh.answers /\ Tells("answered") /\ speak_up
       \/ ~ssh.answers /\ Gone /\ Goes("reopens") /\ UNCHANGED relay
    /\ UNCHANGED <<machine, how, ssh, terminal, handled, installs>>

said_no_mm == ssh.status = NOT_FOUND

reopen ==
    /\ client.is = "reopens"
    /\ IF ~said_no_mm THEN Goes("listens") /\ speak_up /\ UNCHANGED <<machine, ssh, installs>>
       ELSE IF ~Windows /\ client.program < Len(PROGRAMS)
       THEN /\ client' = [client EXCEPT !.is = "sends", !.program = @ + 1]
            /\ Opens /\ UNCHANGED <<machine, installs>>
       ELSE NobodyHome
    /\ UNCHANGED <<how, terminal, handled>>

Spoken == relay.is = "done"

\* speak_now: what ssh said last may still be in the pipe.
Listens ==
    /\ client.is = "listens" /\ Spoken
    /\ client' = [client EXCEPT !.is = "told", !.told = "failed", !.error = relay.held]
    /\ UNCHANGED <<machine, how, ssh, relay, terminal, handled, installs>>

(***************************************************************************)
(* What ssh says.                                                          *)
(***************************************************************************)
Say(lines) == IF how.heard = "quiet" THEN ssh.pipe ELSE ssh.pipe \o lines

Lines(lines) == terminal' = terminal \o lines

HeldBack(line) == relay' = [relay EXCEPT !.held = Append(@, line)] /\ UNCHANGED terminal

Reads ==
    /\ ssh.pipe # <<>> /\ ssh' = [ssh EXCEPT !.pipe = Tail(@)]
    /\ CASE relay.is = "holds" -> HeldBack(Head(ssh.pipe))
         [] relay.is = "keeps" /\ Len(relay.held) < KEEP -> HeldBack(Head(ssh.pipe))
         [] relay.is = "speaks" -> Lines(<<Head(ssh.pipe)>>) /\ UNCHANGED relay
         [] OTHER -> UNCHANGED <<terminal, relay>>
    /\ UNCHANGED <<machine, how, client, handled, installs>>
Speaks ==
    /\ relay.is = "holds" /\ relay.asked
    /\ Lines(relay.held) /\ relay' = [relay EXCEPT !.is = "speaks"]
    /\ UNCHANGED <<machine, how, client, ssh, handled, installs>>
Finishes ==
    /\ relay.is \in {"speaks", "keeps"} /\ ssh.pipe = <<>> /\ Gone
    /\ relay' = [relay EXCEPT !.is = "done"]
    /\ UNCHANGED <<machine, how, client, ssh, terminal, handled, installs>>

(***************************************************************************)
(* ssh, and what it runs on the machine.                                   *)
(***************************************************************************)
Found == IF Windows THEN machine.mm # "nowhere" ELSE machine.mm = PROGRAMS[client.program]

Writes(line, status) ==
    ssh' = [ssh EXCEPT !.status = status, !.said = Append(@, line), !.pipe = Say(<<line>>)]
Far == UNCHANGED <<machine, how, client, relay, terminal, installs>>

Warns == Runs /\ ssh.said = <<>> /\ Writes("warning", -1) /\ UNCHANGED handled /\ Far
Breaks == Runs /\ ~ssh.answers /\ Writes("trouble", 255) /\ UNCHANGED handled /\ Far
Misses == Runs /\ ~Found /\ Writes("not found", NOT_FOUND) /\ UNCHANGED handled /\ Far
Handles ==
    /\ Runs /\ Found /\ ssh.sent /\ ~ssh.had /\ handled' = handled + 1
    /\ ssh' = [ssh EXCEPT !.had = TRUE] /\ Far
Answers ==
    /\ Runs /\ ssh.had /\ ~ssh.answers /\ UNCHANGED handled
    /\ ssh' = [ssh EXCEPT !.answers = TRUE, !.status = 1] /\ Far

Init ==
    /\ machine \in [platform : {"unix", "windows"}, mm : {"path", "home", "nowhere"}]
    /\ how \in [heard : {"aloud", "kept", "quiet"}, consent : {"yes", "no"}]
    /\ client = [is |-> "detects", program |-> 1, installed |-> FALSE, told |-> "nothing",
                 error |-> <<>>]
    /\ ssh = NoSsh /\ relay = Reader /\ terminal = <<>> /\ handled = 0 /\ installs = 0

Next ==
    \/ detect \/ Sends \/ request \/ reopen \/ Listens
    \/ Reads \/ Speaks \/ Finishes
    \/ Warns \/ Breaks \/ Misses \/ Handles \/ Answers

Spec == Init /\ [][Next]_vars

(***************************************************************************)
(* Properties.                                                             *)
(***************************************************************************)
TypeOK ==
    /\ client.is \in {"detects", "sends", "reads", "reopens", "listens", "told"}
    /\ client.program \in DOMAIN PROGRAMS
    /\ relay.is \in {"holds", "keeps", "speaks", "done"}
    /\ handled \in Nat /\ installs \in 0..1

\* A request sent again was never had: no node handles one twice, whatever the
\* connection did and whenever.
HandledOnce == handled <= 1 /\ (client.told = "no mm" => handled = 0)

\* Who is told that it failed has been told what ssh said about it, all of it or
\* the first of it; and the line about a spelling that was not there is never
\* printed.
SaidIsHeard ==
    /\ client.is = "told" /\ client.told = "failed" /\ Gone =>
          CASE how.heard = "aloud" -> terminal = ssh.said
            [] how.heard = "kept" -> client.error = SubSeq(ssh.said, 1, Len(client.error))
                                     /\ Len(client.error) >= IF Len(ssh.said) < KEEP
                                                             THEN Len(ssh.said) ELSE KEEP
            [] OTHER -> terminal = <<>>
    /\ ~\E k \in DOMAIN terminal : terminal[k] = "not found"
=============================================================================
