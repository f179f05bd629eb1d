------------------------------- MODULE Targets -------------------------------
(***************************************************************************)
(* Which session somebody means (target.rs): the words of a command are    *)
(* looked for here, then on every watched machine at once, while sessions  *)
(* come and go under it.  A machine that does not answer in time is given  *)
(* up on, and so many are asked at a time.                                 *)
(*                                                                         *)
(* A machine may be watched under two names; a session knows which machine *)
(* it is on, unless its node is too old to say.                            *)
(***************************************************************************)
EXTENDS Integers, Sequences, FiniteSets

LOCAL INSTANCE SequencesExt
LOCAL INSTANCE FiniteSetsExt

CONSTANTS Hosts,        \* this machine and the watched ones, by their names,
                        \* in the order names sort in
          Here,         \* this machine's
          Nicer,        \* the same names, the ones worth keeping first
          NodeOf,       \* the machine of a name
          Old,          \* machines that do not say which they are
          Names,        \* of sessions
          Words,        \* what may be typed: [host, group, session, bare]
          MAX_QUERIES,
          MaxBorn       \* a bound

None == "none"
Nodes == {NodeOf[h] : h \in ToSet(Hosts)}

TargetsAssumption ==
    /\ Here \in ToSet(Hosts) /\ ToSet(Nicer) = ToSet(Hosts)
    /\ Old \subseteq Nodes
    /\ \A w \in Words : /\ w.host \in ToSet(Hosts) \union {None}
                        /\ w.session \in Names \union {None}
                        /\ w.group \in BOOLEAN
                        /\ w.bare \in {"session", "or_machine"}
                        /\ w.group \/ w.session # None \/ w.host # None
    /\ MAX_QUERIES \in Nat \ {0} /\ MaxBorn \in Nat

VARIABLES runs,      \* the sessions: [node, name, born]
          born,      \* how many there were
          grouped,   \* of those, the ones in the group
          word,      \* what was typed
          pc,
          query,     \* by host: waiting, out, answered, missed
          rows,      \* what was answered: [host, name, born]
          says,      \* by host: which machine it said it was
          out,       \* what came of it
          standing   \* sessions that have run since it was typed

vars == <<runs, born, grouped, word, pc, query, rows, says, out, standing>>

NoOut == [what |-> None]
Unasked == [h \in ToSet(Hosts) |-> "waiting"]
Unsaid == [h \in ToSet(Hosts) |-> None]

Place(seq, x) == CHOOSE i \in DOMAIN seq : seq[i] = x

\* By machine, and the oldest first.
Before(a, b) ==
    \/ Place(Hosts, a.host) < Place(Hosts, b.host)
    \/ a.host = b.host /\ a.born <= b.born
First(rs) == CHOOSE a \in rs : \A b \in rs : Before(a, b)

Located(host, name) == [what |-> "one", host |-> host, name |-> name]
Bails(why) == [what |-> why]

Answered == {h \in ToSet(Hosts) : query[h] = "answered"}
missed == {h \in ToSet(Hosts) : query[h] = "missed"}

Init ==
    /\ runs = {} /\ born = 0 /\ grouped = {}
    /\ word \in Words /\ pc = "typed"
    /\ query = Unasked /\ rows = {} /\ says = Unsaid /\ out = NoOut /\ standing = {}

(***************************************************************************)
(* Sessions, meanwhile.                                                    *)
(***************************************************************************)
Started(node, name, group) ==
    LET s == [node |-> node, name |-> name, born |-> born + 1] IN
    /\ pc # "done"
    /\ born < MaxBorn /\ born' = born + 1
    /\ ~\E r \in runs : r.node = node /\ r.name = name
    /\ runs' = runs \union {s}
    /\ grouped' = IF group THEN grouped \union {s} ELSE grouped
    /\ standing' = IF pc = "typed" THEN standing \union {s} ELSE standing
    /\ UNCHANGED <<word, pc, query, rows, says, out>>

Ended(s) ==
    /\ pc # "done"
    /\ runs' = runs \ {s} /\ grouped' = grouped \ {s} /\ standing' = standing \ {s}
    /\ UNCHANGED <<born, word, pc, query, rows, says, out>>

(***************************************************************************)
(* The command.                                                            *)
(***************************************************************************)
Settles(o) == /\ pc' = "done" /\ out' = o
              /\ UNCHANGED <<runs, born, grouped, word, query, rows, says, standing>>
Goes(to) == pc' = to /\ UNCHANGED <<runs, born, grouped, word, query, rows, says, out, standing>>

\* The words themselves: a group is more than one session.
Parse ==
    /\ pc = "typed"
    /\ IF word.group
       THEN IF word.bare = "session" THEN Settles(Bails("a group")) ELSE Goes("survey")
       ELSE IF word.host # None /\ word.session # None
            THEN Settles(Located(word.host, word.session))
            ELSE Goes("here")

\* A bare word: a session's name, which may be a machine's.
wanted == IF word.session = None THEN word.host ELSE word.session

\* Here first, which may not answer.
LookHere ==
    /\ pc = "here"
    /\ \/ /\ \E r \in runs : r.node = NodeOf[Here] /\ r.name = wanted
          /\ Settles(Located(Here, wanted))
       \/ Goes("survey")

Ask(h) ==
    /\ pc = "survey" /\ query[h] = "waiting"
    /\ Cardinality({g \in ToSet(Hosts) : query[g] = "out"}) < MAX_QUERIES
    /\ \A g \in ToSet(Hosts) \ {h} :
          g = Here \/ (h # Here /\ Place(Hosts, g) < Place(Hosts, h)) => query[g] # "waiting"
    /\ query' = [query EXCEPT ![h] = "out"]
    /\ UNCHANGED <<runs, born, grouped, word, pc, rows, says, out, standing>>

\* A machine with nothing running says nothing.
Says(on) == IF on = {} \/ \A r \in on : r.node \in Old THEN None
            ELSE (CHOOSE r \in on : TRUE).node

answer_from(h) ==
    LET on == {r \in runs : r.node = NodeOf[h]} IN
    /\ query[h] = "out" /\ query' = [query EXCEPT ![h] = "answered"]
    /\ rows' = rows \union {[host |-> h, name |-> r.name, born |-> r.born] : r \in on}
    /\ says' = [says EXCEPT ![h] = Says(on)]
    /\ UNCHANGED <<runs, born, grouped, word, pc, out, standing>>

\* Mutant: an answer that comes too late is listed all the same.
ListedLate(h) ==
    LET on == {r \in runs : r.node = NodeOf[h]} IN
    /\ query[h] = "out" /\ query' = [query EXCEPT ![h] = "missed"]
    /\ rows' = rows \union {[host |-> h, name |-> r.name, born |-> r.born] : r \in on}
    /\ UNCHANGED <<runs, born, grouped, word, pc, says, out, standing>>

\* It could not be asked, or took too long.
Missed(h) ==
    /\ query[h] = "out" /\ query' = [query EXCEPT ![h] = "missed"]
    /\ UNCHANGED <<runs, born, grouped, word, pc, rows, says, out, standing>>

\* A name in the group: the first row of it.
in_group ==
    LET of == {s.born : s \in grouped}
        found == {r \in rows : /\ r.born \in of
                               /\ word.host \in {None, r.host}
                               /\ word.session \in {None, r.name}} IN
    IF found = {} THEN Bails("no session") ELSE Located(First(found).host, First(found).name)

\* A name of a machine alone: the first row of it.
on_that_machine ==
    LET found == {r \in rows : r.host = wanted} IN
    IF found # {} THEN Located(wanted, First(found).name)
    ELSE IF wanted \in missed THEN Bails("missed") ELSE Bails("nothing there")

\* Mutant: the first machine that has one.
Guesses ==
    LET found == {r \in rows : r.name = wanted} IN
    IF found # {} THEN Located(First(found).host, wanted)
    ELSE IF missed # {} THEN Bails("missed") ELSE Bails("no session")

\* A bare name, wherever it is, if it is on one machine.
locate ==
    LET hosts == {r.host : r \in {r \in rows : r.name = wanted}} IN
    CASE Cardinality(hosts) = 1 -> Located(CHOOSE h \in hosts : TRUE, wanted)
      [] Cardinality(hosts) > 1 -> [what |-> "more than one", hosts |-> hosts]
      [] hosts = {} /\ word.bare = "or_machine" /\ wanted \in ToSet(Hosts) ->
             on_that_machine
      [] OTHER -> IF missed # {} THEN Bails("missed") ELSE Bails("no session")

Settle ==
    /\ pc = "survey"
    /\ \A h \in ToSet(Hosts) : query[h] \in {"answered", "missed"}
    /\ Settles(IF word.group THEN in_group ELSE locate)

Next ==
    \/ \E node \in Nodes, name \in Names, group \in BOOLEAN : Started(node, name, group)
    \/ \E s \in runs : Ended(s)
    \/ \E h \in ToSet(Hosts) : Ask(h) \/ answer_from(h) \/ Missed(h)
    \/ Parse \/ LookHere \/ Settle

Spec == Init /\ [][Next]_vars

(***************************************************************************)
(* Names for one machine.                                                  *)
(***************************************************************************)

Kept(hosts) == Nicer[Min({Place(Nicer, h) : h \in hosts})]

\* The names said to be of a machine that has another.
duplicates ==
    UNION {{[known_as |-> Kept(hosts), also |-> h] : h \in hosts \ {Kept(hosts)}} :
           hosts \in {{h \in Answered : says[h] = n} : n \in Nodes} \ {{}}}

(***************************************************************************)
(* Properties.                                                             *)
(***************************************************************************)
TypeOK ==
    /\ word \in Words /\ pc \in {"typed", "here", "survey", "done"}
    /\ query \in [ToSet(Hosts) -> {"waiting", "out", "answered", "missed"}]
    /\ standing \subseteq runs /\ grouped \subseteq runs
    /\ \A r \in rows : r.host \in Answered

\* A bare name that has meant one session all along is that session, or is
\* said to be on a machine that did not answer, or under two names: it is never
\* said not to be there, and of two on machines that answer, neither of them this
\* one, none is picked.  A session whose machine does not answer is left out:
\* where another machine has one of its name, that one is taken without a word,
\* for a kill and a rename too (target.rs:464-470), whatever target.rs:476 says of
\* not guessing.
Bare == ~word.group /\ (word.host = None \/ word.session = None)
AnsweringFor(s) == \E h \in Answered : NodeOf[h] = s.node
NameFindsItsSession ==
    pc = "done" /\ Bare =>
        \A s \in standing : s.name = wanted =>
            /\ out.what \in {"one", "more than one", "missed"}
            /\ (out.what = "missed" => ~AnsweringFor(s))
            /\ (out.what = "one" =>
                   \/ NodeOf[out.host] = s.node
                   \/ out.host = Here \/ ~AnsweringFor(s))

\* A session listed twice is under names of one machine that are said to be,
\* and taking the advice leaves it one of them.
TwiceIsSaid ==
    LET also == {d.also : d \in duplicates}
        of(n) == {h \in Answered : says[h] = n}
    IN  \A n \in Nodes : of(n) # {} =>
            /\ Cardinality(of(n) \ also) = 1
            /\ Here \in of(n) => Here \notin also
=============================================================================
