----------------------------- MODULE PhoneKeys -----------------------------
(***************************************************************************)
(* The two files a phone keeps (android/rust/src/keys.rs): the key it      *)
(* answers with, made the first time it is asked for, and the host key     *)
(* every machine showed the first time.  Each is read, changed and written *)
(* under a lock of its own, beside the file and renamed over it.           *)
(*                                                                         *)
(* Calls run at once, the app may be killed between any two steps of one,  *)
(* and the power may go: what was not synced is then lost, and of renames  *)
(* the disk has not taken it may keep the file from before.                *)
(***************************************************************************)
EXTENDS Integers, FiniteSets

CONSTANTS
    Callers, Machines, HostKeys,
    MaxCalls, MaxKills, MaxCuts   \* bounds

Nobody == "nobody"
NoKey == "none"

PhoneKeysAssumption ==
    /\ Nobody \notin Callers /\ NoKey \notin HostKeys
    /\ {MaxCalls, MaxKills, MaxCuts} \subseteq Nat

VARIABLES
    file,       \* what each file reads as
    disk,       \* what each may read as after the power went
    beside,     \* what was written next to each, and whether it was synced
    locked,     \* who holds each lock
    calls,      \* what each caller is doing
    given,      \* keys this device was said to have
    accepted,   \* host keys each machine was let through with
    made, cuts, kills   \* counters

vars == <<file, disk, beside, locked, calls, given, accepted, made, cuts, kills>>

Files == {"id_ed25519", "known_hosts"}
Whole(text) == [torn |-> FALSE, text |-> text]
Torn(text) == [torn |-> TRUE, text |-> text]
Empty(f) == IF f = "id_ed25519" THEN 0 ELSE [m \in Machines |-> NoKey]
Idle == [step |-> "idle"]

Step(p, step) == calls' = [calls EXCEPT ![p].step = step]
FileOf(call) == IF call.does = "kept_at" THEN "id_ed25519" ELSE "known_hosts"

\* Mutant: nobody waits.
Unlocked(f) == TRUE

lock_file(f) == locked[f] = Nobody

\* The number of the call serves for a key nobody else has.
Asks(p, call) ==
    /\ calls[p].step = "idle" /\ made < MaxCalls /\ made' = made + 1
    /\ lock_file(FileOf(call)) /\ locked' = [locked EXCEPT ![FileOf(call)] = p]
    /\ calls' = [calls EXCEPT ![p] = IF call.does = "kept_at"
                                   THEN [call EXCEPT !.key = made'] ELSE call]
    /\ UNCHANGED <<file, disk, beside, given, accepted, cuts, kills>>

Call(does, at, key) == [step |-> "locked", does |-> does, at |-> at, key |-> key]

\* A changed key is left alone.
trust(stored, call) ==
    CASE stored = NoKey -> "writes" [] stored = call.key -> "answers" [] OTHER -> "fails"

\* A key that is there and does not parse is not made anew; lines that do not
\* parse are not there.
Decision(call) ==
    LET f == FileOf(call) text == file[f].text IN
    CASE call.does = "kept_at" -> IF file[f].torn THEN "fails"
                                 ELSE IF text = 0 THEN "writes" ELSE "answers"
      [] call.does = "trust" -> trust(text[call.at], call)
      [] OTHER -> "writes"

Text(call) ==
    IF call.does = "kept_at" THEN call.key
    ELSE [file["known_hosts"].text EXCEPT ![call.at] = call.key]

Reads(p) ==
    /\ calls[p].step = "locked"
    /\ calls' = [calls EXCEPT ![p] = [step |-> Decision(@), does |-> @.does, at |-> @.at,
           key |-> IF @.does = "kept_at" /\ Decision(@) = "answers"
                   THEN file["id_ed25519"].text ELSE @.key,
           text |-> Text(@)]]
    /\ UNCHANGED <<file, disk, beside, locked, given, accepted, made, cuts, kills>>

Writer(p) == FileOf(calls[p])

OpenedBeside(f, text) ==
    /\ beside' = [beside EXCEPT ![f] = [has |-> text, synced |-> FALSE]]
    /\ UNCHANGED <<file, disk>>

Opens(p) ==
    /\ calls[p].step = "writes" /\ OpenedBeside(Writer(p), Torn(Empty(Writer(p))))
    /\ Step(p, "opened")
    /\ UNCHANGED <<locked, given, accepted, made, cuts, kills>>
Writes(p) ==
    /\ calls[p].step = "opened" /\ OpenedBeside(Writer(p), Whole(calls[p].text))
    /\ Step(p, "written")
    /\ UNCHANGED <<locked, given, accepted, made, cuts, kills>>

Synced(now) == [now EXCEPT !.synced = TRUE]

Syncs(p) ==
    /\ calls[p].step = "written"
    /\ beside' = [beside EXCEPT ![Writer(p)] = Synced(@)] /\ Step(p, "synced")
    /\ UNCHANGED <<file, disk, locked, given, accepted, made, cuts, kills>>

\* The directory is not synced: the disk may keep either for a while.
Renames(p) ==
    /\ calls[p].step = "synced"
    /\ LET f == Writer(p) now == beside[f] IN
       /\ file' = [file EXCEPT ![f] = now.has]
       /\ disk' = [disk EXCEPT ![f] = @ \union {now.has}
                       \union (IF now.synced THEN {} ELSE {Torn(Empty(f))})]
    /\ Step(p, "answers")
    /\ accepted' = IF calls[p].does = "forget" THEN [accepted EXCEPT ![calls[p].at] = {}]
                   ELSE accepted
    /\ UNCHANGED <<beside, locked, given, made, cuts, kills>>
Settles(f) ==
    /\ disk[f] # {file[f]} /\ disk' = [disk EXCEPT ![f] = {file[f]}]
    /\ UNCHANGED <<file, beside, locked, calls, given, accepted, made, cuts, kills>>

\* The lock goes with the call.
Answers(p) ==
    /\ calls[p].step \in {"answers", "fails"}
    /\ calls' = [calls EXCEPT ![p] = Idle]
    /\ locked' = [f \in Files |-> IF locked[f] = p THEN Nobody ELSE locked[f]]
    /\ LET call == calls[p] IN
       /\ given' = IF call.step = "answers" /\ call.does = "kept_at"
                   THEN given \union {call.key} ELSE given
       /\ accepted' = IF call.step = "answers" /\ call.does = "trust"
                      THEN [accepted EXCEPT ![call.at] = @ \union {call.key}] ELSE accepted
    /\ UNCHANGED <<file, disk, beside, made, cuts, kills>>

AllStop == calls' = [p \in Callers |-> Idle] /\ locked' = [f \in Files |-> Nobody]
Killed ==
    /\ kills < MaxKills /\ kills' = kills + 1 /\ AllStop
    /\ UNCHANGED <<file, disk, beside, given, accepted, made, cuts>>

\* What the disk did not keep nobody is held to.
PowerCut ==
    /\ cuts < MaxCuts /\ cuts' = cuts + 1 /\ AllStop
    /\ \E keys \in disk["id_ed25519"], hosts \in disk["known_hosts"] :
          /\ file' = [f \in Files |-> IF f = "id_ed25519" THEN keys ELSE hosts]
          /\ given' = IF keys = file["id_ed25519"] THEN given ELSE {}
          /\ accepted' = IF hosts = file["known_hosts"] THEN accepted
                         ELSE [m \in Machines |-> {hosts.text[m]} \ {NoKey}]
    /\ disk' = [f \in Files |-> {file'[f]}]
    /\ UNCHANGED <<beside, made, kills>>

Init ==
    /\ file = [f \in Files |-> Whole(Empty(f))]
    /\ disk = [f \in Files |-> {Whole(Empty(f))}]
    /\ beside = [f \in Files |-> [has |-> Torn(Empty(f)), synced |-> FALSE]]
    /\ locked = [f \in Files |-> Nobody] /\ calls = [p \in Callers |-> Idle]
    /\ given = {} /\ accepted = [m \in Machines |-> {}]
    /\ made = 0 /\ cuts = 0 /\ kills = 0

Next ==
    \/ \E p \in Callers :
          \/ Asks(p, Call("kept_at", NoKey, NoKey))
          \/ \E at \in Machines, key \in HostKeys : Asks(p, Call("trust", at, key))
          \/ \E at \in Machines : Asks(p, Call("forget", at, NoKey))
          \/ Reads(p) \/ Opens(p) \/ Writes(p) \/ Syncs(p) \/ Renames(p) \/ Answers(p)
    \/ \E f \in Files : Settles(f)
    \/ Killed \/ PowerCut

Spec == Init /\ [][Next]_vars

(***************************************************************************)
(* Properties.                                                             *)
(***************************************************************************)
TypeOK ==
    /\ \A f \in Files : /\ locked[f] \in Callers \union {Nobody}
                        /\ file[f].torn \in BOOLEAN /\ file[f] \in disk[f]
    /\ \A p \in Callers : calls[p].step \in
          {"idle", "locked", "writes", "opened", "written", "synced", "answers", "fails"}
    /\ given \subseteq 1..MaxCalls
    /\ accepted \in [Machines -> SUBSET HostKeys]

\* Neither file is ever half a file, whatever stopped: a key that does not parse
\* stops the app for good, and hosts that do not are trusted anew.
NeverTorn == \A f \in Files : \A text \in disk[f] : ~text.torn

\* However many asked at once, the device has the one key, and it is the one in
\* the file.
OneKey == given \subseteq {file["id_ed25519"].text}

\* A machine let through with a key is written down with it, and with no other
\* until it is forgotten, whatever was written down for others meanwhile.
AcceptedIsWritten ==
    \A m \in Machines : accepted[m] \subseteq {file["known_hosts"].text[m]}
=============================================================================
