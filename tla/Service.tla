------------------------------- MODULE Service -------------------------------
(***************************************************************************)
(* `mm service` (service.rs): the node handed to whatever starts things on *)
(* this machine.  An install writes a unit and has the manager take it, an *)
(* uninstall has the manager let go of it and removes it; each is a few    *)
(* commands of the manager's, any of which may fail, and those of a        *)
(* teardown are not waited for.                                            *)
(*                                                                         *)
(* A unit is the number of the install that wrote it: what it says is the  *)
(* binary, the account and the directories of that one.                    *)
(***************************************************************************)
EXTENDS Integers, Sequences

CONSTANTS
    Managers,       \* subset of {"launchd", "systemd", "openrc", "sysvinit", "rc"}
    MaxCommands, MaxTroubles     \* bounds of the checked runs

ServiceAssumption ==
    /\ Managers \subseteq {"launchd", "systemd", "openrc", "sysvinit", "rc"}
    /\ MaxCommands \in Nat /\ MaxTroubles \in Nat

VARIABLES
    machine,    \* its manager, and whether it runs a user instance
    unit,       \* the file of each scope
    manager,    \* of each scope: what it has read, what it runs, what it starts at boot
    command,    \* the one being typed
    typed, troubles

vars == <<machine, unit, manager, command, typed, troubles>>

Scopes == {"user", "system"}
None == 0

Trouble == troubles < MaxTroubles /\ troubles' = troubles + 1

PerUser == machine.is \in {"launchd", "systemd"}

Up(s) == s = "system" \/ machine.instance

scope(root) == IF PerUser /\ ~root THEN "user" ELSE "system"

(***************************************************************************)
(* What a manager does with a command, for the unit there is.              *)
(***************************************************************************)
Idle == [read |-> None, runs |-> None, boots |-> FALSE]

\* <<whether it works, what the manager is afterwards>>
Does(what, m, file) ==
    CASE what = "bootout"   -> <<m.read # None, [m EXCEPT !.read = None, !.runs = None]>>
      [] what = "bootstrap" -> <<m.read = None /\ file # None, [read |-> file, runs |-> file, boots |-> TRUE]>>
      [] what = "reload"    -> <<TRUE, [m EXCEPT !.read = file]>>
      [] what = "enable"    -> <<m.read # None, [m EXCEPT !.boots = TRUE, !.runs = IF @ = None THEN m.read ELSE @]>>
      [] what = "disable"   -> <<m.read # None, [m EXCEPT !.boots = FALSE, !.runs = None]>>
      [] what = "add"       -> <<file # None, [m EXCEPT !.boots = TRUE]>>
      [] what = "restart"   -> <<file # None, [m EXCEPT !.runs = file, !.read = file]>>
      [] what = "stop"      -> <<file # None, [m EXCEPT !.runs = None]>>
      [] what = "del"       -> <<TRUE, [m EXCEPT !.boots = FALSE]>>

\* What each is told, in order.
Install == [launchd  |-> <<"bootout", "bootstrap">>,
            systemd  |-> <<"reload", "enable">>,
            openrc   |-> <<"add", "restart">>,
            sysvinit |-> <<"add", "restart">>,
            rc       |-> <<"add", "restart">>]

Uninstall == [launchd  |-> <<"bootout", "remove">>,
              systemd  |-> <<"disable", "remove", "reload">>,
              openrc   |-> <<"stop", "del", "remove">>,
              sysvinit |-> <<"stop", "del", "remove">>,
              rc       |-> <<"stop", "del", "remove">>]

Steps == IF command.does = "install" THEN Install[machine.is] ELSE Uninstall[machine.is]

\* Which of them may fail and be passed over: the old one of launchd's, the
\* registration SysV has two tools for, and every one of a teardown's.
Harmless(what) ==
    \/ command.does = "uninstall"
    \/ what = "bootout" \/ (machine.is = "sysvinit" /\ what = "add")

(***************************************************************************)
(* The command.                                                            *)
(***************************************************************************)
Resting == [is |-> "over", does |-> "install", at |-> "user", step |-> 1, of |-> None, failed |-> FALSE,
            told |-> "nothing"]
Told(what) == command' = [command EXCEPT !.is = "over", !.told = what, !.step = 1]

Types(does, root) ==
    /\ command.is = "over" /\ typed < MaxCommands /\ typed' = typed + 1
    /\ command' = [Resting EXCEPT !.is = "begins", !.does = does, !.at = scope(root), !.of = typed + 1,
                                  !.failed = command.failed,
                                  !.told = IF ~PerUser /\ ~root THEN "needs root" ELSE "nothing"]
    /\ UNCHANGED <<machine, unit, manager, troubles>>

\* Filled in from the binary, the account and the directories of this install.
render == command.of
write_unit == unit' = [unit EXCEPT ![command.at] = render]

\* Nothing is written for a manager that is not there to load it.
install ==
    /\ command.is = "begins" /\ command.told = "nothing" /\ command.does = "install"
    /\ IF ~Up(command.at)
       THEN Told("no user instance") /\ UNCHANGED unit
       ELSE /\ write_unit
            /\ command' = [command EXCEPT !.is = "tells"]
    /\ UNCHANGED <<machine, manager, typed, troubles>>

uninstall ==
    /\ command.is = "begins" /\ command.told = "nothing" /\ command.does = "uninstall"
    /\ command' = [command EXCEPT !.is = "tells"]
    /\ UNCHANGED <<machine, unit, manager, typed, troubles>>

Refused ==
    /\ command.is = "begins" /\ command.told = "needs root" /\ Told("needs root")
    /\ UNCHANGED <<machine, unit, manager, typed, troubles>>

What == Steps[command.step]
Goes(failed) ==
    IF command.step < Len(Steps)
    THEN command' = [command EXCEPT !.step = @ + 1, !.failed = @ \/ failed]
    ELSE command' = [command EXCEPT !.is = "over", !.step = 1, !.failed = @ \/ failed,
                                    !.told = IF command.does = "install" THEN "installed" ELSE "removed"]

\* The manager of a user who has no instance cannot be asked.
Works(done) == done[1] /\ Up(command.at)

run ==
    /\ command.is = "tells" /\ What # "remove"
    /\ LET done == Does(What, manager[command.at], unit[command.at]) IN
         \/ /\ Works(done) /\ manager' = [manager EXCEPT ![command.at] = done[2]]
            /\ Goes(FALSE) /\ UNCHANGED troubles
         \/ /\ ~Works(done) /\ UNCHANGED <<manager, troubles>>
            /\ IF Harmless(What) THEN Goes(FALSE) ELSE Told("failed")
         \/ /\ Trouble /\ UNCHANGED manager
            /\ IF Harmless(What) THEN Goes(TRUE) ELSE Told("failed")
    /\ UNCHANGED <<machine, unit, typed>>

Removes ==
    /\ command.is = "tells" /\ What = "remove"
    /\ unit' = [unit EXCEPT ![command.at] = None]
    /\ Goes(FALSE)
    /\ UNCHANGED <<machine, manager, typed, troubles>>

\* It is killed between two of them.
Killed ==
    /\ command.is # "over" /\ Trouble /\ Told("killed")
    /\ UNCHANGED <<machine, unit, manager, typed>>

(***************************************************************************)
(* The machine.                                                            *)
(***************************************************************************)
\* launchd loads what lies in its directories.
AtBoot(s) ==
    LET starts == unit[s] # None /\ Up(s) /\ (manager[s].boots \/ machine.is = "launchd")
        reads == PerUser /\ Up(s) /\ (starts \/ machine.is = "systemd")
    IN [manager[s] EXCEPT !.read = IF reads THEN unit[s] ELSE None,
                          !.runs = IF starts THEN unit[s] ELSE None]

Reboots ==
    /\ command.is = "over" /\ Trouble
    /\ manager' = [s \in Scopes |-> AtBoot(s)]
    /\ UNCHANGED <<machine, unit, command, typed>>

\* `loginctl enable-linger`, or the last login ends.
Comes == ~machine.instance
Instance ==
    /\ machine.is = "systemd" /\ command.is = "over" /\ Trouble
    /\ machine' = [machine EXCEPT !.instance = ~@]
    /\ manager' = [manager EXCEPT !["user"].runs = IF Comes /\ manager["user"].boots THEN unit["user"] ELSE None,
                                  !["user"].read = IF Comes THEN unit["user"] ELSE None]
    /\ UNCHANGED <<unit, command, typed>>

Init ==
    /\ machine \in [is : Managers, instance : BOOLEAN]
    /\ machine.is # "systemd" => machine.instance
    /\ unit = [s \in Scopes |-> None]
    /\ manager = [s \in Scopes |-> Idle]
    /\ command = Resting /\ typed = 0 /\ troubles = 0

Next ==
    \/ \E does \in {"install", "uninstall"} : \E root \in BOOLEAN : Types(does, root)
    \/ install \/ uninstall \/ Refused \/ run \/ Removes \/ Killed \/ Reboots \/ Instance

Spec == Init /\ [][Next]_vars

(***************************************************************************)
(* Properties.                                                             *)
(***************************************************************************)
TypeOK ==
    /\ unit \in [Scopes -> 0..MaxCommands]
    /\ manager \in [Scopes -> [read : 0..MaxCommands, runs : 0..MaxCommands, boots : BOOLEAN]]
    /\ command.step \in 1..3 /\ typed \in 0..MaxCommands

\* An install that says so leaves its own unit there and read, started at boot,
\* and running: its own, except that systemd leaves one that runs as it is.  A
\* removal that says so leaves no file, and where the manager did as it was told
\* nothing of it running or started at boot: a stop that fails takes its script
\* with it, and no later one can be told to stop what runs.
Said ==
    LET s == command.at IN
    /\ command'.told = "installed" /\ command.is = "tells" =>
         /\ unit'[s] = command.of /\ manager'[s].read = command.of
         /\ manager'[s].boots \/ command'.failed   \* SysV's registration
         /\ manager'[s].runs = command.of \/ (machine.is = "systemd" /\ manager'[s].runs # None)
    /\ command'.told = "removed" /\ command.is = "tells" =>
         /\ unit'[s] = None
         /\ ~command'.failed => manager'[s].runs = None /\ AtBoot(s)'.runs = None
SaidIsSo == [][Said]_vars
=============================================================================
