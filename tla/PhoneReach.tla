----------------------------- MODULE PhoneReach -----------------------------
(***************************************************************************)
(* A phone reaches a machine (android/rust/src/machine.rs, ssh.rs,         *)
(* agent.rs, ffi.rs): one connection held for every call, the steps a      *)
(* login climbs (asking first, then the keys of an agent, then its own),   *)
(* the spellings of mm tried in turn, and what somebody is told when one   *)
(* of them is not to be had.                                               *)
(*                                                                         *)
(* One machine, whose accounts are alike but for their names. Host keys    *)
(* are numbered; the records of them are as in PhoneKeys, each call on     *)
(* them one step.                                                          *)
(***************************************************************************)
EXTENDS Integers, Sequences

CONSTANTS
    Callers, Accounts,
    AgentKeys,                     \* how many an agent holds
    FROM_AN_AGENT, MAX_AUTH_TRIES,
    MaxCalls, MaxTroubles          \* bounds

Nobody == "nobody"

PhoneReachAssumption ==
    /\ Nobody \notin Callers
    /\ {AgentKeys, FROM_AN_AGENT, MaxCalls, MaxTroubles} \subseteq Nat
    /\ MAX_AUTH_TRIES = FROM_AN_AGENT + 2

VARIABLES
    machine,    \* its host key, whom it admits, where its mm is
    known,      \* the host key written down, 0 if none
    conns,      \* every connection made: [account, state, doubted, failed]
    held,       \* the one in the pool, 0 if none
    locked,     \* who has the pool
    calls,      \* what each caller is doing
    resumed,    \* a forgetting that nobody waits for is under way
    made, troubles   \* counters

vars == <<machine, known, conns, held, locked, calls, resumed, made, troubles>>
world == <<machine, made, troubles>>

PROGRAMS == <<"path", "home">>
Idle == [step |-> "idle"]

\* It lets in anybody who asks, one key or no key, or never asks for a key.
Admits == {"anybody", "device", "agent", "nobody", "unasked"}

Goes(c, step) == calls' = [calls EXCEPT ![c].step = step]
Tells(c, what) == calls' = [calls EXCEPT ![c].step = "told", ![c].told = what]

Begins(c, what, account) ==
    /\ calls[c].step \in {"idle", "told"} /\ made < MaxCalls /\ made' = made + 1
    /\ calls' = [calls EXCEPT ![c] = [step |-> what, account |-> account, conn |-> 0, tries |-> 0,
                    program |-> 1, link |-> "up", told |-> "nothing",
                    doubts |-> {i \in DOMAIN conns : conns[i].doubted}]]
    /\ UNCHANGED <<machine, known, conns, held, locked, resumed, troubles>>

(***************************************************************************)
(* The pool.                                                               *)
(***************************************************************************)

Held(account) ==
    held # 0 /\ conns[held].account = account /\ conns[held].state # "closed"

to(c) ==
    /\ calls[c].step = "asks" /\ locked = Nobody
    /\ IF Held(calls[c].account)
       THEN /\ calls' = [calls EXCEPT ![c].step = "climbs", ![c].conn = held] /\ UNCHANGED locked
       ELSE Goes(c, "connects") /\ locked' = c
    /\ UNCHANGED <<known, conns, held, resumed, world>>

Fails(c, what) == Tells(c, what) /\ locked' = Nobody /\ UNCHANGED <<known, conns, held>>

Opened(c) ==
    /\ conns' = Append(conns, [account |-> calls[c].account, doubted |-> FALSE, failed |-> FALSE,
           state |-> IF calls[c].link = "up" THEN "open" ELSE "closed"])
    /\ held' = Len(conns') /\ locked' = Nobody
    /\ calls' = [calls EXCEPT ![c].step = "climbs", ![c].conn = Len(conns')]
    /\ UNCHANGED known

(***************************************************************************)
(* The login.                                                              *)
(***************************************************************************)
check_server_key(c) ==
    /\ calls[c].step = "connects"
    /\ IF calls[c].link # "up" THEN Fails(c, "reaching")
       ELSE IF known \notin {0, machine.key} THEN Fails(c, "host key")
       ELSE known' = machine.key /\ Goes(c, "asking") /\ UNCHANGED <<conns, held, locked>>
    /\ UNCHANGED <<resumed, world>>

Who(c) == machine.admits

\* A connection that went answers a question with an empty no. One the machine
\* ended is its word.
answer(c, word) == IF calls[c].link = "broke" THEN "reaching" ELSE word

authenticate_none(c) ==
    /\ calls[c].step = "asking"
    /\ IF calls[c].link # "up" \/ Who(c) = "unasked" THEN Fails(c, answer(c, "turned away"))
       ELSE IF Who(c) = "anybody" THEN Opened(c)
       ELSE /\ calls' = [calls EXCEPT ![c].step = "agent", ![c].tries = 1]
            /\ UNCHANGED <<known, conns, held, locked>>
    /\ UNCHANGED <<resumed, world>>

\* The machine hangs up when the tries it allows are spent.
Tried(c) ==
    calls' = [calls EXCEPT ![c].tries = @ + 1,
        ![c].link = IF @ = "up" /\ calls[c].tries + 1 >= MAX_AUTH_TRIES THEN "hung up" ELSE @]

FromTheAgent == IF AgentKeys < FROM_AN_AGENT THEN AgentKeys ELSE FROM_AN_AGENT

\* The key it is let in with may be any of the agent's.
from_the_agent(c) ==
    /\ calls[c].step = "agent"
    /\ IF calls[c].tries <= FromTheAgent
       THEN \/ calls[c].link = "up" /\ Who(c) = "agent" /\ Opened(c)
            \/ Tried(c) /\ UNCHANGED <<known, conns, held, locked>>
       ELSE Goes(c, "own key") /\ UNCHANGED <<known, conns, held, locked>>
    /\ UNCHANGED <<resumed, world>>

authenticate_publickey(c) ==
    /\ calls[c].step = "own key"
    /\ IF calls[c].link = "up" /\ Who(c) = "device" THEN Opened(c)
       ELSE Fails(c, answer(c, "refused"))
    /\ UNCHANGED <<resumed, world>>

TimesOut(c) ==
    /\ calls[c].step \in {"connects", "asking", "agent", "own key"} /\ troubles < MaxTroubles
    /\ Fails(c, "reaching") /\ troubles' = troubles + 1 /\ UNCHANGED <<resumed, machine, made>>

(***************************************************************************)
(* The spellings of mm.                                                    *)
(***************************************************************************)

Missing(status) == status = "127"

Ladder(c, status) ==
    IF ~Missing(status) THEN Goes(c, "forgets")
    ELSE IF calls[c].program < Len(PROGRAMS)
         THEN calls' = [calls EXCEPT ![c].program = @ + 1]
         ELSE calls' = [calls EXCEPT ![c].step = "forgets", ![c].told = "no mm"]

\* How a command ended may come too late to be known.
reach(c) ==
    /\ calls[c].step = "climbs"
    /\ \/ /\ conns[calls[c].conn].state = "open"
          /\ IF PROGRAMS[calls[c].program] = machine.mm
             THEN Tells(c, "listing")
             ELSE Ladder(c, "127")
          /\ UNCHANGED troubles
       \/ /\ conns[calls[c].conn].state # "open" \/ troubles < MaxTroubles
          /\ Ladder(c, "unknown")
          /\ troubles' = IF conns[calls[c].conn].state = "open" THEN troubles + 1 ELSE troubles
    /\ UNCHANGED <<known, conns, held, locked, resumed, machine, made>>

\* Mutant: the connection is kept.
KeepsIt == held

LetGo == 0

\* A listing that failed lets go of what is held before anybody is told.
Forgets(c) ==
    /\ calls[c].step = "forgets" /\ locked = Nobody /\ held' = LetGo
    /\ conns' = [conns EXCEPT ![calls[c].conn].failed = TRUE]
    /\ Tells(c, IF calls[c].told = "no mm" THEN "no mm" ELSE "reaching")
    /\ UNCHANGED <<known, locked, resumed, world>>

(***************************************************************************)
(* The host key is forgotten, and with it the connection.                  *)
(***************************************************************************)

Order == <<"key", "pool">>

ForgetMachine(c) ==
    \/ \E i \in 1..2 :
          /\ calls[c].step = (IF i = 1 THEN "forget" ELSE "forget more")
          /\ IF Order[i] = "key" THEN known' = 0 /\ UNCHANGED held
             ELSE locked = Nobody /\ held' = 0 /\ UNCHANGED known
          /\ IF i = 1 THEN Goes(c, "forget more") /\ UNCHANGED conns
             ELSE Tells(c, "forgotten")
                  /\ conns' = [j \in DOMAIN conns |-> [conns[j] EXCEPT !.doubted = TRUE]]
          /\ UNCHANGED <<locked, resumed, world>>

(***************************************************************************)
(* The app comes back from the background, and the network.                *)
(***************************************************************************)
resume ==
    /\ ~resumed /\ troubles < MaxTroubles /\ troubles' = troubles + 1 /\ resumed' = TRUE
    /\ UNCHANGED <<machine, known, conns, held, locked, calls, made>>
Resumed ==
    /\ resumed /\ locked = Nobody /\ held' = 0 /\ resumed' = FALSE
    /\ UNCHANGED <<known, conns, locked, calls, world>>

Trouble == troubles < MaxTroubles /\ troubles' = troubles + 1

Breaks(c) ==
    /\ Trouble /\ locked = c /\ calls[c].link = "up"
    /\ calls' = [calls EXCEPT ![c].link = "broke"]
    /\ UNCHANGED <<machine, known, conns, held, locked, resumed, made>>
Sleeps(i, state) ==
    /\ Trouble /\ conns[i].state = "open" /\ conns' = [conns EXCEPT ![i].state = state]
    /\ UNCHANGED <<machine, known, held, locked, calls, resumed, made>>
Reinstalled ==
    /\ Trouble /\ machine.key = 1 /\ machine' = [machine EXCEPT !.key = 2]
    /\ UNCHANGED <<known, conns, held, locked, calls, resumed, made>>

Init ==
    /\ machine \in [key : {1}, admits : Admits, mm : {"path", "home", "nowhere"}]
    /\ known = 0 /\ conns = <<>> /\ held = 0 /\ locked = Nobody
    /\ calls = [c \in Callers |-> Idle] /\ resumed = FALSE /\ made = 0 /\ troubles = 0

Next ==
    \/ \E c \in Callers :
          \/ \E account \in Accounts, what \in {"asks", "forget"} : Begins(c, what, account)
          \/ to(c) \/ check_server_key(c) \/ authenticate_none(c) \/ from_the_agent(c)
          \/ authenticate_publickey(c) \/ TimesOut(c) \/ reach(c) \/ Forgets(c)
          \/ ForgetMachine(c) \/ Breaks(c)
    \/ \E i \in DOMAIN conns, state \in {"stale", "closed"} : Sleeps(i, state)
    \/ resume \/ Resumed \/ Reinstalled

Spec == Init /\ [][Next]_vars

(***************************************************************************)
(* Properties.                                                             *)
(***************************************************************************)
TypeOK ==
    /\ held \in 0..Len(conns) /\ locked \in Callers \union {Nobody} /\ known \in 0..2
    /\ \A c \in Callers : locked = c =>
          calls[c].step \in {"connects", "asking", "agent", "own key"}
    /\ \A i \in DOMAIN conns : conns[i].account \in Accounts

\* What somebody is told of a machine is so of it. The key of this device is
\* said to be refused, which sends them off to paste it, only where it would not
\* be let in, whatever an agent offered first and however the connection fared;
\* and mm is said to be missing only where it is.
TroubleIsTrue ==
    \A c \in Callers : calls[c].step = "told" =>
        CASE calls[c].told = "refused" -> Who(c) \in {"agent", "nobody"}
          [] calls[c].told = "turned away" -> Who(c) = "unasked"
          [] calls[c].told = "host key" -> machine.key = 2
          [] calls[c].told = "no mm" -> machine.mm = "nowhere"
          [] OTHER -> TRUE

\* A call uses a connection of its own account, and none that was there when the
\* host key was last said to be forgotten; one that failed somebody is let go of
\* by the time they are told, so that trying again is worth it.
HeldIsRight ==
    /\ \A c \in Callers : calls[c].step = "climbs" =>
          /\ conns[calls[c].conn].account = calls[c].account
          /\ calls[c].conn \notin calls[c].doubts
    /\ held # 0 => ~conns[held].failed
=============================================================================
