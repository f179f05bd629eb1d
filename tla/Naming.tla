------------------------------- MODULE Naming -------------------------------
(***************************************************************************)
(* What an attached client believes its session is called.  A rename comes *)
(* from the client's own prompt, from another client's, or from mm rename, *)
(* and each client hears of it on two paths: the answer to what it asked,  *)
(* and a watch on the session's name that keeps the newest value only      *)
(* (pump_attachment in node/mod.rs, rename in node/registry.rs).           *)
(*                                                                         *)
(* The answer is worked out in steps that other threads run between: the   *)
(* name is read off the session, the registry looks it up under its lock,  *)
(* and the watch is looked at after.                                       *)
(***************************************************************************)
EXTENDS Integers, FiniteSets

CONSTANTS Clients,    \* clients attached to the session
          Names

NamingAssumption == "free" \notin Names

Mine   == "mine"      \* the session the clients are attached to
Others == {"other"}   \* what else runs on the machine
None   == "free"

VARIABLES name,    \* of each session
          step,    \* of a client's pump: "idle", "looked" or "answered"
          called,  \* the name the pump read off the session
          wanted,  \* the name its client asked for
          answer,  \* what the registry said: a name, or None for a refusal
          unseen,  \* whether the watch holds a value the pump has not read
          told     \* the last name the client was sent

vars == <<name, step, called, wanted, answer, unseen, told>>

Sessions == {Mine} \union Others

Init ==
    /\ name \in {f \in [Sessions -> Names] : \A s \in Others : f[s] # f[Mine]}
    /\ step = [c \in Clients |-> "idle"]
    /\ called = [c \in Clients |-> name[Mine]]
    /\ wanted = [c \in Clients |-> name[Mine]]
    /\ answer = [c \in Clients |-> None]
    /\ unseen = [c \in Clients |-> FALSE]
    /\ told = [c \in Clients |-> name[Mine]]

\* Registry::rename, under its lock: whoever is called `from` now.
Renamed(from, to) ==
    IF from # to /\ from \in {name[s] : s \in Sessions}
                 /\ to \notin {name[s] : s \in Sessions}
    THEN [s \in Sessions |-> IF name[s] = from THEN to ELSE name[s]]
    ELSE name

\* Its own name is not a clash: a rename with nothing to do.
Accepts(from, to) ==
    from \in {name[s] : s \in Sessions} /\ (from = to \/ to \notin {name[s] : s \in Sessions})

\* set_name: every watch of a session that was renamed holds a new value.
Marked(now) == [c \in Clients |-> unseen[c] \/ now[Mine] # name[Mine]]

\* tag::RENAME arrives: what is the session called?
Look(c, n) ==
    /\ step[c] = "idle"
    /\ step' = [step EXCEPT ![c] = "looked"]
    /\ called' = [called EXCEPT ![c] = name[Mine]]
    /\ wanted' = [wanted EXCEPT ![c] = n]
    /\ UNCHANGED <<name, answer, unseen, told>>

Ask(c) ==
    /\ step[c] = "looked"
    /\ step' = [step EXCEPT ![c] = "answered"]
    /\ name' = Renamed(called[c], wanted[c])
    /\ unseen' = Marked(Renamed(called[c], wanted[c]))
    /\ answer' = [answer EXCEPT ![c] = IF Accepts(called[c], wanted[c]) THEN wanted[c]
                                                                        ELSE None]
    /\ UNCHANGED <<called, wanted, told>>

\* Mutant: it is only read.
NothingUnseen(c) == FALSE

\* The watch is read, so that the answer is not sent twice, and marked again if
\* it holds another name than the one the client is about to be sent.
StillUnseen(c) == answer[c] # name[Mine]

Answer(c) ==
    /\ step[c] = "answered"
    /\ step' = [step EXCEPT ![c] = "idle"]
    /\ IF answer[c] = None
       THEN UNCHANGED <<unseen, told>>
       ELSE /\ unseen' = [unseen EXCEPT ![c] = StillUnseen(c)]
            /\ told' = [told EXCEPT ![c] = answer[c]]
    /\ called' = [called EXCEPT ![c] = told'[c]]
    /\ wanted' = [wanted EXCEPT ![c] = told'[c]]
    /\ answer' = [answer EXCEPT ![c] = None]
    /\ UNCHANGED name

\* names.changed(): the newest name is sent.
Tell(c) ==
    /\ step[c] = "idle" /\ unseen[c]
    /\ unseen' = [unseen EXCEPT ![c] = FALSE]
    /\ told' = [told EXCEPT ![c] = name[Mine]]
    /\ UNCHANGED <<name, step, called, wanted, answer>>

\* mm rename, or the prompt of a client attached elsewhere.
RenameOutside(from, to) ==
    /\ Renamed(from, to) # name
    /\ name' = Renamed(from, to)
    /\ unseen' = Marked(Renamed(from, to))
    /\ UNCHANGED <<step, called, wanted, answer, told>>

Next ==
    \/ \E c \in Clients : \/ \E n \in Names : Look(c, n)
                          \/ Ask(c) \/ Answer(c) \/ Tell(c)
    \/ \E from, to \in Names : RenameOutside(from, to)

Spec == Init /\ [][Next]_vars

(***************************************************************************)
(* Properties.                                                             *)
(***************************************************************************)
TypeOK ==
    /\ name \in [Sessions -> Names]
    /\ step \in [Clients -> {"idle", "looked", "answered"}]
    /\ called \in [Clients -> Names] /\ wanted \in [Clients -> Names]
    /\ answer \in [Clients -> Names \union {None}]
    /\ unseen \in [Clients -> BOOLEAN]
    /\ told \in [Clients -> Names]

\* A client shows a name that is not its session's only while a newer one, or
\* the answer to what it asked, is still to be sent: whatever renames land
\* between the steps of an answer, and even one that hit another session
\* because the name it was looked up by had changed hands.
NamesCatchUp ==
    \A c \in Clients : told[c] = name[Mine] \/ unseen[c] \/ answer[c] = name[Mine]
=============================================================================
