----------------------------- MODULE Checkpoint -----------------------------
(***************************************************************************)
(* Writing down what every session is doing and starting it again          *)
(* (checkpointing.rs, client/checkpoint/), and the restart of a node that  *)
(* is bracketed by the two (restart in main.rs, with --keep-sessions).     *)
(*                                                                         *)
(* A save asks two questions of each machine, what runs and what that is   *)
(* doing, and sessions end, start and are renamed in between.  An answer   *)
(* about one can be missing: no directory, no command, still in a wrapper. *)
(* A session is its leader's pid; its deed, what it works on, is the pid   *)
(* of the session that began it, and a restored session takes it over.     *)
(*                                                                         *)
(* One command runs at a time: a save holds no lock from reading the file  *)
(* to writing it, and of two that overlap the later undoes the earlier.    *)
(***************************************************************************)
EXTENDS Integers, FiniteSets, Sequences

CONSTANTS Hosts,      \* machines
          Here,       \* the one that is restarted
          Names,
          MaxPid      \* sessions ever started

CheckpointAssumption == Here \in Hosts /\ MaxPid \in Nat

None == 0

VARIABLES runs,     \* the pid of a name on a machine
          deed,     \* of each session started so far
          file,     \* checkpoint.toml: entries [host, name, deed]
          phase,    \* of the command: "idle", "counted", "listed", "saved",
                    \* "stopped" or "restoring"
          restart,  \* whether it is a restart that keeps the sessions
          counted,  \* the sessions the restart was told of at first
          only,     \* the machines it is narrowed to
          before,   \* the file as it was read at the start
          listing,  \* what each machine that answered runs
          refused,  \* machines that would not say what their sessions do
          doing,    \* what was said of <<host, name>>: whose pid, and if in full
          lost      \* sessions it could not write down

command == <<phase, restart, counted, only, before, listing, refused, doing, lost>>
vars == <<runs, deed, file, command>>

Running(h) == {n \in Names : runs[h][n] # None}

Init ==
    /\ runs = [h \in Hosts |-> [n \in Names |-> None]]
    /\ deed = <<>>
    /\ file = {}
    /\ phase = "idle" /\ restart = FALSE /\ counted = 0 /\ only = {}
    /\ before = {} /\ listing = <<>> /\ refused = {} /\ doing = <<>> /\ lost = 0

(***************************************************************************)
(* The machines.                                                           *)
(***************************************************************************)
Begin(h, n, what) ==
    /\ Len(deed) < MaxPid /\ runs[h][n] = None
    /\ deed' = Append(deed, what)
    /\ runs' = [runs EXCEPT ![h][n] = Len(deed) + 1]

Spawn(h, n) == /\ Begin(h, n, Len(deed) + 1)
               /\ UNCHANGED <<file, command>>

End(h, n) == /\ runs[h][n] # None
             /\ runs' = [runs EXCEPT ![h][n] = None]
             /\ UNCHANGED <<deed, file, command>>

Rename(h, n, m) == /\ runs[h][n] # None /\ runs[h][m] = None
                   /\ runs' = [runs EXCEPT ![h][m] = runs[h][n], ![h][n] = None]
                   /\ UNCHANGED <<deed, file, command>>

(***************************************************************************)
(* checkpoint save.                                                        *)
(***************************************************************************)
\* A restart is told how many sessions it would cost, and saves if there are any.
Count ==
    /\ phase = "idle" /\ Running(Here) # {}
    /\ phase' = "counted" /\ restart' = TRUE
    /\ counted' = Cardinality(Running(Here))
    /\ UNCHANGED <<runs, deed, file, only, before, listing, refused, doing, lost>>

\* The file is read, then the machines are listed; one may not answer.
List(asked, answering) ==
    /\ \/ phase = "idle"
       \/ phase = "counted" /\ asked = {Here}
    /\ answering \subseteq Hosts /\ asked \intersect answering # {}
    /\ phase' = "listed"
    /\ only' = asked
    /\ before' = file
    /\ listing' = [h \in answering |-> [n \in Running(h) |-> runs[h][n]]]
    /\ refused' = {} /\ doing' = <<>> /\ lost' = 0
    /\ UNCHANGED <<runs, deed, file, restart, counted>>

Wanted == only \intersect DOMAIN listing

Asked == {q[1] : q \in DOMAIN doing} \union refused

\* What a machine says of each session it runs now, by name: of some in full.
\* This machine is read here, by the pids of the listing.
Describes(h, full) ==
    LET said == IF h = Here
                THEN {n \in DOMAIN listing[h] : \E m \in Names : runs[h][m] = listing[h][n]}
                ELSE Running(h)
        pid(n) == IF h = Here THEN listing[h][n] ELSE runs[h][n]
    IN [q \in {h} \X said |-> [pid |-> pid(q[2]), full |-> q[2] \in full]]

Ask(h, full) ==
    /\ phase = "listed" /\ h \in Wanted /\ h \notin Asked
    /\ doing' = [q \in DOMAIN doing \union DOMAIN Describes(h, full) |->
                    IF q \in DOMAIN doing THEN doing[q] ELSE Describes(h, full)[q]]
    /\ UNCHANGED <<runs, deed, file, phase, restart, counted, only, before,
                   listing, refused, lost>>

Refuse(h) ==
    /\ phase = "listed" /\ h \in Wanted /\ h \notin Asked
    /\ refused' = refused \union {h}
    /\ UNCHANGED <<runs, deed, file, phase, restart, counted, only, before,
                   listing, doing, lost>>

\* Mutant: whoever wears the name.
AnyPid(h, n) == TRUE

\* take: a session is written down when its machine described it in full, and
\* the answer is of the session that was listed.
Same(h, n) == doing[<<h, n>>].pid = listing[h][n]

\* The command is over, and what it had learned is gone.
Done == /\ phase' = "idle" /\ restart' = FALSE /\ counted' = 0 /\ only' = {}
        /\ before' = {} /\ listing' = <<>> /\ refused' = {} /\ doing' = <<>>

Described(h, n) == <<h, n>> \in DOMAIN doing /\ doing[<<h, n>>].full /\ Same(h, n)

Listed == {q \in Hosts \X Names : q[1] \in Wanted /\ q[2] \in DOMAIN listing[q[1]]}
\* The file: what was described, then the entries of sessions that run and
\* could not be, then those of machines that were not asked or did not say.
Write ==
    /\ phase = "listed" /\ Wanted \subseteq Asked
    /\ LET fresh == {[host |-> q[1], name |-> q[2], deed |-> deed[doing[q].pid]] :
                         q \in {p \in Listed : Described(p[1], p[2])}}
           carried == {e \in before : \/ e.host \notin Wanted \ refused
                                      \/ /\ <<e.host, e.name>> \in Listed
                                         /\ ~Described(e.host, e.name)}
       IN /\ file' = fresh \union carried
          /\ lost' = Cardinality(Listed) - Cardinality(fresh)
          /\ IF restart /\ lost' = 0 /\ Cardinality(fresh) >= counted
             THEN phase' = "saved" /\ UNCHANGED <<restart, counted, only, before, listing, refused, doing>>
             ELSE Done
    /\ UNCHANGED <<runs, deed>>

(***************************************************************************)
(* The restart, and checkpoint restore.                                    *)
(***************************************************************************)
\* The node's sessions go with it, and another one starts.
Stop ==
    /\ phase = "saved"
    /\ phase' = "stopped"
    /\ runs' = [runs EXCEPT ![Here] = [n \in Names |-> None]]
    /\ UNCHANGED <<deed, file, restart, counted, only, before, listing, refused, doing, lost>>

\* The file is read, and its entries started one at a time.
Load(asked) ==
    /\ \/ phase = "stopped" /\ asked = {Here}
       \/ phase = "idle" /\ {e \in file : e.host \in asked} # {}
    /\ phase' = "restoring"
    /\ before' = {e \in file : e.host \in asked}
    /\ restart' = FALSE /\ counted' = 0 /\ only' = {} /\ listing' = <<>>
    /\ refused' = {} /\ doing' = <<>> /\ lost' = 0
    /\ UNCHANGED <<runs, deed, file>>

\* A name that is taken is a session that is already back.
PutBack(e) ==
    /\ phase = "restoring" /\ e \in before
    /\ before' = before \ {e}
    /\ IF runs[e.host][e.name] = None THEN Begin(e.host, e.name, e.deed)
                                       ELSE UNCHANGED <<runs, deed>>
    /\ UNCHANGED <<file, phase, restart, counted, only, listing, refused, doing, lost>>

Finish == /\ phase = "restoring" /\ before = {}
          /\ phase' = "idle"
          /\ UNCHANGED <<runs, deed, file, restart, counted, only, before, listing,
                         refused, doing, lost>>

Next ==
    \/ \E h \in Hosts, n \in Names : Spawn(h, n) \/ End(h, n) \/ \E m \in Names : Rename(h, n, m)
    \/ \E asked, answering \in SUBSET Hosts : List(asked, answering)
    \/ \E h \in Hosts : Refuse(h) \/ \E full \in SUBSET Names : Ask(h, full)
    \/ Count \/ Write \/ Stop \/ Finish
    \/ \E asked \in SUBSET Hosts : Load(asked)
    \/ \E e \in before : PutBack(e)

Spec == Init /\ [][Next]_vars

(***************************************************************************)
(* Properties.                                                             *)
(***************************************************************************)
TypeOK ==
    /\ runs \in [Hosts -> [Names -> None..Len(deed)]]
    /\ Len(deed) <= MaxPid /\ \A p \in DOMAIN deed : deed[p] \in 1..p
    /\ \A e, f \in file : e.host = f.host /\ e.name = f.name => e = f
    /\ phase \in {"idle", "counted", "listed", "saved", "stopped", "restoring"}

Own(q) == [host |-> q[1], name |-> q[2], deed |-> deed[listing[q[1]][q[2]]]]

\* Nothing goes unsaid.  A save counts as lost every session it was shown and
\* did not write down at its own work, so that a restart that keeps the sessions
\* takes them down only when the file holds each of them; and it leaves alone
\* what is known of machines it did not ask, or that did not say.
Said ==
    /\ Write => /\ Cardinality({q \in Listed : Own(q) \notin file'}) <= lost'
                /\ {e \in before : e.host \notin Wanted \ refused} \subseteq file'
    /\ Stop => \A n \in DOMAIN listing[Here] : Own(<<Here, n>>) \in file

NothingGoesUnsaid == [][Said]_vars
=============================================================================
