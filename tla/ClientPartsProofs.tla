----------------------------- MODULE ClientPartsProofs -----------------------------
(***************************************************************************)
(* What holds of the parts of Parts a client in a session is on the other  *)
(* end of, for any values of their constants: the names it shows, what is  *)
(* typed in it, its window on the history, and what it draws over the      *)
(* session.  Laid out as PartsProofs.                                      *)
(***************************************************************************)
EXTENDS Parts, FiniteSetTheorems, TLAPS

(***************************************************************************)
(* What holds of Naming for any clients and any names.                     *)
(*                                                                         *)
(* NamesCatchUp says that the right name has been sent, or is still to be  *)
(* sent by the watch or by an answer.  An answer that is to be sent has to *)
(* be one: outside the last step of a rename there is none (AnswersArePut),*)
(* or the second way a client catches up could be left from an earlier     *)
(* rename and taken away by the next.                                      *)
(***************************************************************************)
name == v1
step == v2
called == v3
wanted == v4
answer == v5
unseen == v6
told == v7

USE DEF name, step, called, wanted, answer, unseen, told

AnswersArePut == \A c \in NamingClients : step[c] # "answered" => answer[c] = N!None

NInv == N!TypeOK /\ AnswersArePut /\ N!NamesCatchUp

(***************************************************************************)
(* Lemmas about a rename.                                                  *)
(***************************************************************************)
\* A rename gives names to the sessions there are.
LEMMA RenamedNames ==
    ASSUME N!TypeOK, NEW from \in NamingNames, NEW to \in NamingNames
    PROVE  N!Renamed(from, to) \in [N!Sessions -> NamingNames]
BY DEF N!TypeOK, N!Renamed

\* What is marked is a flag for each client, and a client that is not behind
\* the session's name stays so or is marked.
LEMMA MarkedCatchesUp ==
    ASSUME NInv, NEW now \in [N!Sessions -> NamingNames]
    PROVE  /\ N!Marked(now) \in [NamingClients -> BOOLEAN]
           /\ \A c \in NamingClients : \/ told[c] = now[N!Mine]
                                       \/ N!Marked(now)[c]
                                       \/ answer[c] = now[N!Mine]
BY DEF NInv, N!TypeOK, N!NamesCatchUp, N!Marked

(***************************************************************************)
(* The invariant.                                                          *)
(***************************************************************************)
LEMMA NInitially == N!Init => NInv
<1> SUFFICES ASSUME N!Init PROVE NInv
  OBVIOUS
<1>1. name \in [N!Sessions -> NamingNames]
  BY DEF N!Init
<1>2. name[N!Mine] \in NamingNames
  BY <1>1 DEF N!Sessions
<1> QED
  BY <1>1, <1>2 DEF N!Init, NInv, N!TypeOK, AnswersArePut, N!NamesCatchUp

LEMMA NPreserved ==
    ASSUME N!NamingAssumption
    PROVE  NInv /\ [N!Next]_(N!vars) => NInv'
<1> SUFFICES ASSUME NInv, [N!Next]_(N!vars) PROVE NInv'
  OBVIOUS
<1> USE DEF NInv
<1> N!Mine \in N!Sessions
  BY DEF N!Sessions
<1>1. CASE UNCHANGED N!vars
  BY <1>1 DEF N!vars, N!TypeOK, AnswersArePut, N!NamesCatchUp
<1>2. ASSUME NEW c \in NamingClients, NEW n \in NamingNames, N!Look(c, n) PROVE NInv'
  <2>1. N!TypeOK'
    BY <1>2 DEF N!Look, N!TypeOK
  <2>2. AnswersArePut'
    BY <1>2 DEF N!Look, N!TypeOK, AnswersArePut
  <2> QED
    BY <1>2, <2>1, <2>2 DEF N!Look, N!NamesCatchUp
<1>3. ASSUME NEW c \in NamingClients, N!Ask(c) PROVE NInv'
  <2> DEFINE now == N!Renamed(called[c], wanted[c])
  <2>1. now \in [N!Sessions -> NamingNames]
    BY RenamedNames DEF N!TypeOK
  <2>2. name' = now /\ unseen' = N!Marked(now)
    BY <1>3 DEF N!Ask
  <2>3. N!TypeOK'
    BY <1>3, <2>1, <2>2, MarkedCatchesUp DEF N!Ask, N!TypeOK
  <2>4. AnswersArePut'
    BY <1>3 DEF N!Ask, N!TypeOK, AnswersArePut
  \* Nothing that was told before is taken away: c had no answer to lose.
  <2>5. answer[c] # now[N!Mine]
    BY <1>3, <2>1, N!NamingAssumption DEF N!Ask, AnswersArePut, N!NamingAssumption, N!None
  <2>6. \A d \in NamingClients : \/ told[d] = now[N!Mine] \/ N!Marked(now)[d]
                                 \/ answer[d] = now[N!Mine]
    BY <2>1, MarkedCatchesUp
  <2>7. \A d \in NamingClients : told'[d] = told[d] /\ (d # c => answer'[d] = answer[d])
    BY <1>3 DEF N!Ask, N!TypeOK
  <2>8. N!NamesCatchUp'
    BY <2>2, <2>5, <2>6, <2>7 DEF N!NamesCatchUp
  <2> QED
    BY <2>3, <2>4, <2>8
<1>4. ASSUME NEW c \in NamingClients, N!Answer(c) PROVE NInv'
  <2>1. answer[c] # N!None => answer[c] \in NamingNames
    BY DEF N!TypeOK
  <2>2. /\ unseen' \in [NamingClients -> BOOLEAN] /\ told' \in [NamingClients -> NamingNames]
        /\ name' = name
    BY <1>4, <2>1 DEF N!Answer, N!TypeOK, N!StillUnseen
  <2>3. N!TypeOK'
    BY <1>4, <2>2 DEF N!Answer, N!TypeOK
  <2>4. AnswersArePut'
    BY <1>4 DEF N!Answer, N!TypeOK, AnswersArePut
  <2>5. name[N!Mine] # N!None
    BY N!NamingAssumption DEF N!NamingAssumption, N!None, N!TypeOK
  <2>6. ASSUME NEW d \in NamingClients
        PROVE  told'[d] = name[N!Mine] \/ unseen'[d] \/ answer'[d] = name[N!Mine]
    <3>1. CASE d # c
      BY <1>4, <3>1 DEF N!Answer, N!TypeOK, N!NamesCatchUp
    <3>2. CASE d = c /\ answer[c] = N!None
      BY <1>4, <2>5, <3>2 DEF N!Answer, N!NamesCatchUp
    <3>3. CASE d = c /\ answer[c] # N!None
      BY <1>4, <3>3 DEF N!Answer, N!TypeOK, N!StillUnseen
    <3> QED
      BY <3>1, <3>2, <3>3
  <2> QED
    BY <2>2, <2>3, <2>4, <2>6 DEF N!NamesCatchUp
<1>5. ASSUME NEW c \in NamingClients, N!Tell(c) PROVE NInv'
  <2>1. N!TypeOK'
    BY <1>5 DEF N!Tell, N!TypeOK
  <2>2. AnswersArePut'
    BY <1>5 DEF N!Tell, AnswersArePut
  <2>3. N!NamesCatchUp'
    BY <1>5 DEF N!Tell, N!TypeOK, N!NamesCatchUp
  <2> QED
    BY <2>1, <2>2, <2>3
<1>6. ASSUME NEW from \in NamingNames, NEW to \in NamingNames, N!RenameOutside(from, to)
      PROVE  NInv'
  <2> DEFINE now == N!Renamed(from, to)
  <2>1. now \in [N!Sessions -> NamingNames]
    BY RenamedNames
  <2>2. /\ name' = now /\ unseen' = N!Marked(now)
        /\ UNCHANGED <<step, called, wanted, answer, told>>
    BY <1>6 DEF N!RenameOutside
  <2>3. /\ N!Marked(now) \in [NamingClients -> BOOLEAN]
        /\ \A d \in NamingClients : \/ told[d] = now[N!Mine] \/ N!Marked(now)[d]
                                    \/ answer[d] = now[N!Mine]
    BY <2>1, MarkedCatchesUp
  <2> HIDE DEF now
  <2> QED
    BY <2>1, <2>2, <2>3 DEF N!TypeOK, AnswersArePut, N!NamesCatchUp
<1> QED
  BY <1>1, <1>2, <1>3, <1>4, <1>5, <1>6 DEF N!Next

LEMMA NHolds == NInv => N!NamesCatchUp
BY DEF NInv

\* Whatever it does, a behaviour that is of the names keeps it.
NPart == part = "naming" => NInv

LEMMA NPartInitially == Init => NPart
<1> SUFFICES ASSUME Init, part = "naming" PROVE NInv
  BY DEF NPart
<1>1. N!Init
  BY DEF Init
<1> QED
  BY <1>1, NamingAssumed, NInitially

LEMMA NPartStep ==
    ASSUME [Next]_vars, part' = "naming"
    PROVE  part = "naming" /\ [N!Next]_(N!vars)
<1>1. CASE UNCHANGED vars
  BY <1>1 DEF vars, Beyond19, Beyond17, Beyond13, Beyond12, Beyond10,
     Beyond9, Beyond8, Beyond7, Beyond4,
     N!vars
<1>2. CASE Next
  BY <1>2 DEF Next
<1> QED
  BY <1>1, <1>2

LEMMA NPartPreserved == NPart /\ [Next]_vars => NPart'
<1> SUFFICES ASSUME NPart, [Next]_vars, part' = "naming" PROVE NInv'
  BY DEF NPart
<1> QED
  BY NPartStep, NPreserved, NamingAssumed DEF NPart

HIDE DEF name, step, called, wanted, answer, unseen, told

(***************************************************************************)
(* What holds of Pump for any limits and any number of frames.             *)
(*                                                                         *)
(* What is on the wire is numbered from the first thing the pump has not   *)
(* had whole (OnTheWire): next[i] is the number the frame at i is of, and  *)
(* sofar[i] the chunks of that paste before it, counting those read.  So   *)
(* the file that is arriving is the beginning of the paste that comes next *)
(* (Arriving), and what was given is everything before it (GivenBefore).   *)
(***************************************************************************)
client == v1
wire == v2
chunks == v3
owed == v4
pump == v5
pending == v6
heard == v7
answered == v8
file == v9
too_big == v10
got == v11
read_only == v12
due == v13

USE DEF client, wire, chunks, owed, pump, pending, heard, answered, file,
    too_big, got, read_only, due

Frames == {<<"pong">>} \union ({"typed", "chunk", "end"} \X Nat)
Inputs == Frames \union ({"file"} \X Nat \X Seq(Nat))

PTypes ==
    /\ P!TypeOK
    /\ wire \in Seq(Frames) /\ due \in Seq(Nat) /\ file \in Seq(Nat)
    /\ got \in Seq(Inputs) /\ pending \in Seq(Inputs)
    /\ read_only \in BOOLEAN
    /\ chunks > 0 => Len(due) < MaxSent

\* With that sent, the frame f is of thing n, of which k chunks went before it;
\* m and l are what the next frame is of.
Carries(sent, f, n, itsK, m, l) ==
    \/ f[1] = "pong" /\ m = n /\ l = itsK
    \/ f[1] = "chunk" /\ m = n /\ l = itsK + 1
    \/ /\ f[1] = "typed" /\ f[2] = n /\ n \in 1..Len(sent) /\ sent[n] = 0
       /\ itsK = 0 /\ m = n + 1 /\ l = 0
    \/ /\ f[1] = "end" /\ f[2] = n /\ n \in 1..Len(sent) /\ sent[n] = itsK
       /\ itsK > 0 /\ m = n + 1 /\ l = 0

OnTheWire(next, sofar) ==
    /\ \A i \in 1..Len(wire) :
          Carries(due, wire[i], next[i], sofar[i], next[i + 1], sofar[i + 1])
    /\ \A i \in 1..Len(wire) : wire[i][1] = "chunk" => wire[i][2] = next[i]
    /\ \A i, j \in 1..(Len(wire) + 1) : i <= j => next[i] <= next[j]
    /\ next[Len(wire) + 1] = Len(due) + 1 /\ sofar[Len(wire) + 1] = chunks
    /\ next[1] > 0

\* Everything that was sent whole, from n on, is on the wire.
StillToRead(n) ==
    \A m \in 1..Len(due) : m >= n =>
        \E i \in 1..Len(wire) : wire[i][1] \in {"typed", "end"} /\ wire[i][2] = m

\* k chunks of paste n were read.
Arriving(n, itsK) ==
    IF itsK > MAX_PASTE THEN too_big /\ file = <<>>
                        ELSE ~too_big /\ Len(file) = itsK /\ \A j \in 1..itsK : file[j] = n

Ordered(given) ==
    \A i, j \in 1..Len(given) : i < j => given[i][2] < given[j][2]
Whole(sent, given) ==
    \A i \in 1..Len(given) : given[i][1] = "file" =>
        given[i][3] = [j \in 1..sent[given[i][2]] |-> given[i][2]]
Numbers(given) == {given[i][2] : i \in 1..Len(given)}
Allowed(sent, n) == {m \in 1..(n - 1) : sent[m] <= MAX_PASTE}

GivenBefore(n) ==
    IF read_only THEN got \o pending = <<>>
    ELSE /\ Numbers(got \o pending) = Allowed(due, n)
         /\ Ordered(got \o pending) /\ Whole(due, got \o pending)

Reads(next, sofar) ==
    /\ OnTheWire(next, sofar)
    /\ StillToRead(next[1]) /\ Arriving(next[1], sofar[1]) /\ GivenBefore(next[1])

Numbered == \E next, sofar \in [1..(Len(wire) + 1) -> Nat] : Reads(next, sofar)

\* A client of a build that skips pings sends no answer to one, and one that
\* answers was heard since the last it had, or its answer is on its way.
Answering ==
    /\ client = "old" => ~answered /\ \A i \in 1..Len(wire) : wire[i][1] # "pong"
    /\ client = "here" /\ pending = <<>> /\ wire = <<>> /\ owed = 0 => heard = 0
    /\ pump = "silent" => client = "gone"

PInv == PTypes /\ Numbered /\ Answering

(***************************************************************************)
(* The client.                                                             *)
(***************************************************************************)
\* What was sent is longer by what was sent whole, and is otherwise the same.
LEMMA DueGrows ==
    ASSUME PTypes, NEW d \in Nat, due' = Append(due, d)
    PROVE  /\ due' \in Seq(Nat) /\ Len(due') = Len(due) + 1 /\ Len(due) \in Nat
           /\ due'[Len(due) + 1] = d
           /\ \A m \in 1..Len(due) : due'[m] = due[m]
BY DEF PTypes

\* A frame that is of the thing being sent joins the others.
LEMMA SendNumbers ==
    ASSUME PInv, NEW f \in Frames, P!Send(f), chunks' \in Nat, due' \in Seq(Nat),
           Len(due') >= Len(due), \A m \in 1..Len(due) : due'[m] = due[m],
           Carries(due', f, Len(due) + 1, chunks, Len(due') + 1, chunks'),
           f[1] = "chunk" => f[2] = Len(due) + 1,
           Len(due') > Len(due) => /\ f[1] \in {"typed", "end"}
                                   /\ f[2] = Len(due) + 1 /\ Len(due') = Len(due) + 1
    PROVE  Numbered'
<1>1. PICK next, sofar \in [1..(Len(wire) + 1) -> Nat] : Reads(next, sofar)
  BY DEF PInv, Numbered
<1>2. PICK len \in Nat :
         /\ len = Len(wire) /\ Len(wire') = len + 1 /\ wire'[len + 1] = f
         /\ \A i \in 1..len : wire'[i] = wire[i]
         /\ next \in [1..(len + 1) -> Nat] /\ sofar \in [1..(len + 1) -> Nat]
         /\ chunks \in Nat /\ Len(due) \in Nat /\ Len(due') \in Nat
  <2>1. wire \in Seq(Frames) /\ due \in Seq(Nat) /\ wire' = Append(wire, f) /\ chunks \in Nat
    BY DEF PInv, PTypes, P!TypeOK, P!Send
  <2>2. /\ Len(wire) \in Nat /\ Len(wire') = Len(wire) + 1 /\ wire'[Len(wire) + 1] = f
        /\ \A i \in 1..Len(wire) : wire'[i] = wire[i]
        /\ Len(due) \in Nat /\ Len(due') \in Nat
    BY <2>1
  <2> WITNESS Len(wire) \in Nat
  <2> QED
    BY <2>1, <2>2
<1>u. pending' = pending /\ file' = file /\ too_big' = too_big /\ got' = got /\ read_only' = read_only
  BY DEF P!Send
<1>r. OnTheWire(next, sofar) /\ StillToRead(next[1]) /\ Arriving(next[1], sofar[1]) /\ GivenBefore(next[1])
  BY <1>1 DEF Reads
<1>3. /\ next[len + 1] = Len(due) + 1 /\ sofar[len + 1] = chunks /\ next[1] \in Nat /\ next[1] > 0
  BY <1>r, <1>2, SMTT(30) DEF OnTheWire
<1>c. \A i \in 1..len :
         /\ Carries(due, wire[i], next[i], sofar[i], next[i + 1], sofar[i + 1])
         /\ wire[i][1] = "chunk" => wire[i][2] = next[i]
  BY <1>r, <1>2 DEF OnTheWire
<1>m. \A i, j \in 1..(len + 1) : i <= j => next[i] <= next[j]
  BY <1>r, <1>2 DEF OnTheWire
<1>4. PICK next1, sofar1 \in [1..(Len(wire') + 1) -> Nat] :
         /\ \A i \in 1..(len + 1) : next1[i] = next[i] /\ sofar1[i] = sofar[i]
         /\ next1[len + 2] = Len(due') + 1 /\ sofar1[len + 2] = chunks'
  <2> DEFINE n1 == [i \in 1..(len + 2) |-> IF i = len + 2 THEN Len(due') + 1 ELSE next[i]]
             s1 == [i \in 1..(len + 2) |-> IF i = len + 2 THEN chunks' ELSE sofar[i]]
  <2>1. Len(wire') + 1 = len + 2
    BY <1>2
  <2>2. n1 \in [1..(len + 2) -> Nat] /\ s1 \in [1..(len + 2) -> Nat]
    <3>1. ASSUME NEW i \in 1..(len + 2), i # len + 2 PROVE next[i] \in Nat /\ sofar[i] \in Nat
      <4>1. i \in 1..(len + 1)
        BY <3>1, <1>2
      <4> QED
        BY <4>1, <1>2
    <3>2. Len(due') + 1 \in Nat
      BY <1>2
    <3> QED
      BY <3>1, <3>2
  <2>3. /\ \A i \in 1..(len + 1) : n1[i] = next[i] /\ s1[i] = sofar[i]
        /\ n1[len + 2] = Len(due') + 1 /\ s1[len + 2] = chunks'
    BY <1>2
  <2> HIDE DEF n1, s1
  <2> QED
    BY <2>1, <2>2, <2>3
<1>5. \A i \in 1..(len + 1) :
         /\ Carries(due', wire'[i], next1[i], sofar1[i], next1[i + 1], sofar1[i + 1])
         /\ wire'[i][1] = "chunk" => wire'[i][2] = next1[i]
  <2> TAKE i \in 1..(len + 1)
  <2>1. CASE i = len + 1
    <3>1. /\ wire'[i] = f /\ next1[i] = Len(due) + 1 /\ sofar1[i] = chunks
          /\ next1[i + 1] = Len(due') + 1 /\ sofar1[i + 1] = chunks'
      <4>1. len + 1 \in 1..(len + 1) /\ i + 1 = len + 2
        BY <2>1
      <4>2. next1[i] = next[len + 1] /\ sofar1[i] = sofar[len + 1]
        BY <1>4, <2>1, <4>1
      <4> QED
        BY <1>2, <1>3, <1>4, <2>1, <4>1, <4>2
    <3> QED
      BY <3>1
  <2>2. CASE i \in 1..len
    <3>1. /\ wire'[i] = wire[i] /\ next1[i] = next[i] /\ sofar1[i] = sofar[i]
          /\ next1[i + 1] = next[i + 1] /\ sofar1[i + 1] = sofar[i + 1]
      BY <1>2, <1>4, <2>2, SMTT(30)
    <3>2. Carries(due, wire[i], next[i], sofar[i], next[i + 1], sofar[i + 1])
      BY <1>c, <2>2
    <3>3. Carries(due', wire[i], next[i], sofar[i], next[i + 1], sofar[i + 1])
      BY <1>2, <3>2, SMTT(30) DEF Carries
    <3> QED
      BY <1>c, <2>2, <3>1, <3>3
  <2> QED
    BY <2>1, <2>2
<1>6. \A i, j \in 1..(len + 2) : i <= j => next1[i] <= next1[j]
  <2> SUFFICES ASSUME NEW i \in 1..(len + 2), NEW j \in 1..(len + 2), i <= j
               PROVE  next1[i] <= next1[j]
    OBVIOUS
  <2>0. CASE j \in 1..(len + 1)
    <3>1. i \in 1..(len + 1)
      BY <2>0
    <3> QED
      BY <1>m, <1>4, <2>0, <3>1
  <2>1. CASE i = len + 2
    BY <1>2, <1>4, <2>1
  <2>2. CASE i \in 1..(len + 1) /\ j = len + 2
    <3>1. next[i] <= next[len + 1] /\ next[i] \in Nat
      <4>1. len + 1 \in 1..(len + 1) /\ i <= len + 1
        BY <2>2
      <4>2. next[i] \in Nat
        BY <1>2, <2>2
      <4> QED
        BY <1>m, <2>2, <4>1, <4>2
    <3>2. next1[i] = next[i] /\ next1[j] = Len(due') + 1
      BY <1>4, <2>2
    <3> QED
      BY <1>2, <1>3, <3>1, <3>2, SMTT(30)
  <2> QED
    BY <2>0, <2>1, <2>2
<1>7. OnTheWire(next1, sofar1)'
  <2> SUFFICES /\ \A i \in 1..Len(wire') :
                    /\ Carries(due', wire'[i], next1[i], sofar1[i], next1[i + 1], sofar1[i + 1])
                    /\ wire'[i][1] = "chunk" => wire'[i][2] = next1[i]
               /\ \A i, j \in 1..(Len(wire') + 1) : i <= j => next1[i] <= next1[j]
               /\ next1[Len(wire') + 1] = Len(due') + 1 /\ sofar1[Len(wire') + 1] = chunks'
               /\ next1[1] > 0
    BY DEF OnTheWire, Carries
  <2> QED
    BY <1>2, <1>3, <1>4, <1>5, <1>6
<1>8. StillToRead(next1[1])'
  <2> SUFFICES ASSUME NEW m \in 1..Len(due'), m >= next[1]
               PROVE  \E i \in 1..Len(wire') : wire'[i][1] \in {"typed", "end"} /\ wire'[i][2] = m
    BY <1>4 DEF StillToRead
  <2>1. CASE m \in 1..Len(due)
    <3>1. PICK i \in 1..len : wire[i][1] \in {"typed", "end"} /\ wire[i][2] = m
      BY <1>2, <1>r, <2>1 DEF StillToRead
    <3> QED
      BY <1>2, <3>1
  <2>2. CASE m \notin 1..Len(due)
    <3>1. Len(due') > Len(due) /\ m = Len(due) + 1
      <4>1. Len(due) \in Nat /\ Len(due') \in Nat
        BY <1>2
      <4>2. m \in Nat /\ m > Len(due) /\ m <= Len(due')
        BY <2>2, <4>1
      <4>3. Len(due') = Len(due) + 1
        BY <4>1, <4>2
      <4> QED
        BY <4>1, <4>2, <4>3
    <3>2. f[1] \in {"typed", "end"} /\ f[2] = m
      BY <3>1
    <3>3. len + 1 \in 1..Len(wire') /\ wire'[len + 1] = f
      BY <1>2
    <3> QED
      BY <3>2, <3>3, Zenon
  <2> QED
    BY <2>1, <2>2
<1>9. Arriving(next1[1], sofar1[1])' /\ GivenBefore(next1[1])'
  <2>1. Arriving(next[1], sofar[1])'
    BY <1>u, <1>r DEF Arriving
  <2>2. next[1] <= Len(due) + 1 /\ Len(due) \in Nat
    <3>1. next[1] <= next[len + 1]
      BY <1>2, <1>m
    <3> QED
      BY <1>2, <1>3, <3>1
  <2>3. Allowed(due, next[1])' = Allowed(due, next[1])
    <3>1. \A m \in 1..(next[1] - 1) : due'[m] = due[m]
      BY <1>3, <2>2
    <3> QED
      BY <3>1 DEF Allowed
  <2>4. CASE read_only
    BY <1>u, <1>2, <1>r, <1>4, <2>1, <2>4 DEF GivenBefore
  <2>5. CASE ~read_only
    <3> DEFINE given == got \o pending
    <3>1. given \in Seq(Inputs) /\ given' = given /\ Len(given) \in Nat
      BY <1>u DEF PInv, PTypes
    <3>2. Numbers(given) = Allowed(due, next[1]) /\ Ordered(given) /\ Whole(due, given)
      BY <1>r, <2>5 DEF GivenBefore
    <3> HIDE DEF given
    <3>3. \A i \in 1..Len(given) : given[i][2] \in 1..Len(due)
      <4> SUFFICES ASSUME NEW i \in 1..Len(given) PROVE given[i][2] \in 1..Len(due)
        OBVIOUS
      <4>1. given[i][2] \in 1..(next[1] - 1)
        BY <3>2 DEF Numbers, Allowed
      <4> QED
        BY <1>3, <2>2, <4>1, SMTT(30)
    <3>4. Whole(due, given)'
      BY <3>1, <3>2, <3>3 DEF Whole
    <3>5. Numbers(given)' = Allowed(due, next[1])' /\ Ordered(given)'
      BY <2>3, <3>1, <3>2 DEF Numbers, Ordered
    <3> QED
      BY <1>u, <1>2, <1>4, <2>1, <2>5, <3>4, <3>5 DEF GivenBefore, given
  <2> QED
    BY <2>4, <2>5
<1> QED
  BY <1>4, <1>7, <1>8, <1>9 DEF Numbered, Reads

\* What is read is of what comes next, and the rest is numbered as it was.
LEMMA TakeNumbers ==
    ASSUME PInv, NEW tag, P!Takes(tag)
    PROVE  \E n, itsK, m, l \in Nat :
              /\ Carries(due, Head(wire), n, itsK, m, l)
              /\ tag = "chunk" => Head(wire)[2] = n
              /\ Arriving(n, itsK) /\ GivenBefore(n) /\ n > 0
              /\ (Arriving(m, l) /\ GivenBefore(m))' => Numbered'
<1>1. PICK next, sofar \in [1..(Len(wire) + 1) -> Nat] : Reads(next, sofar)
  BY DEF PInv, Numbered
<1>2. PICK len \in Nat :
         /\ len + 1 = Len(wire) /\ Len(wire') = len
         /\ \A i \in 1..len : wire'[i] = wire[i + 1]
         /\ Head(wire) = wire[1]
         /\ next \in [1..(len + 2) -> Nat] /\ sofar \in [1..(len + 2) -> Nat]
  <2>1. wire \in Seq(Frames) /\ wire # <<>> /\ wire' = Tail(wire)
    BY DEF PInv, PTypes, P!Takes, P!Reading
  <2>2. /\ Len(wire) \in Nat \ {0} /\ Len(wire') = Len(wire) - 1
        /\ \A i \in 1..(Len(wire) - 1) : wire'[i] = wire[i + 1]
        /\ Head(wire) = wire[1]
    BY <2>1
  <2>3. Len(wire) - 1 \in Nat /\ (Len(wire) - 1) + 1 = Len(wire)
        /\ (Len(wire) - 1) + 2 = Len(wire) + 1
    BY <2>2
  <2> WITNESS Len(wire) - 1 \in Nat
  <2> QED
    BY <2>2, <2>3
<1>u. due' = due /\ chunks' = chunks /\ wire[1][1] = tag
  BY <1>2 DEF P!Takes
<1>r. OnTheWire(next, sofar) /\ StillToRead(next[1]) /\ Arriving(next[1], sofar[1]) /\ GivenBefore(next[1])
  BY <1>1 DEF Reads
<1>c. \A i \in 1..(len + 1) :
         /\ Carries(due, wire[i], next[i], sofar[i], next[i + 1], sofar[i + 1])
         /\ wire[i][1] = "chunk" => wire[i][2] = next[i]
  BY <1>r, <1>2 DEF OnTheWire
<1>m. \A i, j \in 1..(len + 2) : i <= j => next[i] <= next[j]
  <2>1. Len(wire) + 1 = len + 2
    BY <1>2
  <2> QED
    BY <1>r, <2>1 DEF OnTheWire
<1>3. /\ next[len + 2] = Len(due) + 1 /\ sofar[len + 2] = chunks /\ next[1] > 0
      /\ 1 \in 1..(len + 1) /\ 1 \in 1..(len + 2) /\ 2 \in 1..(len + 2)
  <2>1. Len(wire) + 1 = len + 2
    BY <1>2
  <2> QED
    BY <1>r, <2>1 DEF OnTheWire
<1>4. PICK next1, sofar1 \in [1..(Len(wire') + 1) -> Nat] :
         \A i \in 1..(len + 1) : next1[i] = next[i + 1] /\ sofar1[i] = sofar[i + 1]
  <2> DEFINE n1 == [i \in 1..(len + 1) |-> next[i + 1]]
             s1 == [i \in 1..(len + 1) |-> sofar[i + 1]]
  <2>1. Len(wire') + 1 = len + 1
    BY <1>2
  <2> n1 \in [1..(Len(wire') + 1) -> Nat] /\ s1 \in [1..(Len(wire') + 1) -> Nat]
    BY <1>2, <2>1, SMTT(30)
  <2>3. \A i \in 1..(len + 1) : n1[i] = next[i + 1] /\ s1[i] = sofar[i + 1]
    OBVIOUS
  <2> HIDE DEF n1, s1
  <2> WITNESS n1 \in [1..(Len(wire') + 1) -> Nat], s1 \in [1..(Len(wire') + 1) -> Nat]
  <2> QED
    BY <2>3
<1>5. /\ next[1] \in Nat /\ sofar[1] \in Nat /\ next[2] \in Nat /\ sofar[2] \in Nat
      /\ next1[1] = next[2] /\ sofar1[1] = sofar[2] /\ next[1] <= next[2]
  BY <1>2, <1>3, <1>4, <1>m
<1>6. Carries(due, Head(wire), next[1], sofar[1], next[2], sofar[2])
      /\ (tag = "chunk" => Head(wire)[2] = next[1])
  BY <1>2, <1>3, <1>c, <1>u, SMTT(30)
<1>7. ASSUME NEW i \in 1..len
      PROVE  /\ Carries(due', wire'[i], next1[i], sofar1[i], next1[i + 1], sofar1[i + 1])
             /\ wire'[i][1] = "chunk" => wire'[i][2] = next1[i]
  <2>1. i \in 1..(len + 1) /\ i + 1 \in 1..(len + 1)
    OBVIOUS
  <2>2. /\ wire'[i] = wire[i + 1] /\ next1[i] = next[i + 1] /\ sofar1[i] = sofar[i + 1]
        /\ next1[i + 1] = next[(i + 1) + 1] /\ sofar1[i + 1] = sofar[(i + 1) + 1]
    BY <1>2, <1>4, <2>1
  <2> QED
    BY <1>c, <1>u, <2>1, <2>2
<1>8. ASSUME NEW i \in 1..(len + 1), NEW j \in 1..(len + 1), i <= j
      PROVE  next1[i] <= next1[j]
  <2>1. i + 1 \in 1..(len + 2) /\ j + 1 \in 1..(len + 2) /\ i + 1 <= j + 1
    BY <1>8
  <2> QED
    BY <1>4, <1>m, <2>1
<1>9. OnTheWire(next1, sofar1)'
  <2>1. /\ next1[len + 1] = Len(due') + 1 /\ sofar1[len + 1] = chunks' /\ next1[1] > 0
    <3>1. len + 1 \in 1..(len + 1) /\ (len + 1) + 1 = len + 2
      OBVIOUS
    <3> QED
      BY <1>3, <1>4, <1>5, <1>u, <3>1, SMTT(30)
  <2> SUFFICES /\ \A i \in 1..Len(wire') :
                    /\ Carries(due', wire'[i], next1[i], sofar1[i], next1[i + 1], sofar1[i + 1])
                    /\ wire'[i][1] = "chunk" => wire'[i][2] = next1[i]
               /\ \A i, j \in 1..(Len(wire') + 1) : i <= j => next1[i] <= next1[j]
               /\ next1[Len(wire') + 1] = Len(due') + 1 /\ sofar1[Len(wire') + 1] = chunks'
               /\ next1[1] > 0
    BY DEF OnTheWire, Carries
  <2> QED
    BY <1>2, <1>7, <1>8, <2>1
<1>10. StillToRead(next1[1])'
  <2> SUFFICES ASSUME NEW m \in 1..Len(due), m >= next[2]
               PROVE  \E i \in 1..Len(wire') : wire'[i][1] \in {"typed", "end"} /\ wire'[i][2] = m
    BY <1>5, <1>u DEF StillToRead
  <2>1. PICK i \in 1..(len + 1) : wire[i][1] \in {"typed", "end"} /\ wire[i][2] = m
    <3>1. m >= next[1]
      BY <1>5
    <3> QED
      BY <1>2, <1>r, <3>1 DEF StillToRead
  <2>2. i # 1
    <3>1. ASSUME i = 1 PROVE FALSE
      <4>1. next[1] = m /\ next[2] = next[1] + 1
        BY <1>2, <1>6, <2>1, <3>1 DEF Carries
      <4> QED
        BY <1>5, <4>1
    <3> QED
      BY <3>1
  <2>3. i - 1 \in 1..len /\ (i - 1) + 1 = i
    BY <2>2
  <2> QED
    BY <1>2, <2>1, <2>3
<1>11. ASSUME (Arriving(next[2], sofar[2]) /\ GivenBefore(next[2]))' PROVE Numbered'
  BY <1>4, <1>5, <1>9, <1>10, <1>11 DEF Numbered, Reads
<1> QED
  BY <1>3, <1>5, <1>6, <1>r, <1>11

\* Nothing of what is read, or was given, has changed.
LEMMA SameNumbers ==
    ASSUME Numbered, UNCHANGED <<wire, due, chunks, file, too_big, read_only>>,
           got' \o pending' = got \o pending
    PROVE  Numbered'
<1>1. PICK next, sofar \in [1..(Len(wire) + 1) -> Nat] : Reads(next, sofar)
  BY DEF Numbered
<1>2. wire' = wire /\ due' = due /\ chunks' = chunks /\ file' = file
      /\ too_big' = too_big /\ read_only' = read_only
  OBVIOUS
<1>3. OnTheWire(next, sofar)' /\ StillToRead(next[1])' /\ Arriving(next[1], sofar[1])'
  BY <1>1, <1>2 DEF Reads, OnTheWire, StillToRead, Arriving
<1>4. GivenBefore(next[1])'
  BY <1>1, <1>2 DEF Reads, GivenBefore
<1> QED
  BY <1>2, <1>3, <1>4 DEF Numbered, Reads

\* Thing n was small enough and joins what was given, or was not and does not.
LEMMA GivenIsMore ==
    ASSUME PInv, NEW n \in Nat, n > 0, GivenBefore(n), ~read_only, pending = <<>>,
           NEW x \in Inputs, x[2] = n, due[n] <= MAX_PASTE,
           x[1] = "file" => x[3] = [j \in 1..due[n] |-> n],
           UNCHANGED <<got, due, read_only>>, pending' = <<x>>
    PROVE  GivenBefore(n + 1)'
<1> DEFINE new == Append(got, x)
<1>1. got \in Seq(Inputs) /\ got \o pending = got /\ got' \o pending' = new
  BY DEF PInv, PTypes
<1>2. PICK gave \in Nat :
         /\ gave = Len(got) /\ Len(new) = gave + 1 /\ new[gave + 1] = x
         /\ \A i \in 1..gave : new[i] = got[i]
  <2>1. /\ Len(got) \in Nat /\ Len(new) = Len(got) + 1 /\ new[Len(got) + 1] = x
        /\ \A i \in 1..Len(got) : new[i] = got[i]
    BY <1>1
  <2> WITNESS Len(got) \in Nat
  <2> QED
    BY <2>1
<1> HIDE DEF new
<1>3. Numbers(got) = Allowed(due, n) /\ Ordered(got) /\ Whole(due, got)
  BY <1>1 DEF GivenBefore
<1>4. \A i \in 1..gave : got[i][2] \in 1..(n - 1)
  BY <1>2, <1>3 DEF Numbers, Allowed
<1>5. Numbers(new) = Allowed(due, n) \union {n}
  <2>1. Numbers(new) = {new[i][2] : i \in 1..gave} \union {new[gave + 1][2]}
    BY <1>2 DEF Numbers
  <2>2. {new[i][2] : i \in 1..gave} = Numbers(got)
    BY <1>2 DEF Numbers
  <2> QED
    BY <1>2, <1>3, <2>1, <2>2
<1>6. Allowed(due, n + 1) = Allowed(due, n) \union {n}
  BY DEF Allowed
<1>7. Ordered(new)
  <2> SUFFICES ASSUME NEW i \in 1..(gave + 1), NEW j \in 1..(gave + 1), i < j
               PROVE  new[i][2] < new[j][2]
    BY <1>2 DEF Ordered
  <2>1. i \in 1..gave
    OBVIOUS
  <2>2. CASE j \in 1..gave
    BY <1>2, <1>3, <2>1, <2>2 DEF Ordered
  <2>3. CASE j = gave + 1
    <3>1. got[i][2] < n
      BY <1>4, <2>1
    <3> QED
      BY <1>2, <2>1, <2>3, <3>1
  <2> QED
    BY <2>2, <2>3
<1>8. Whole(due, new)
  <2> SUFFICES ASSUME NEW i \in 1..(gave + 1), new[i][1] = "file"
               PROVE  new[i][3] = [j \in 1..due[new[i][2]] |-> new[i][2]]
    BY <1>2 DEF Whole
  <2>1. CASE i \in 1..gave
    BY <1>2, <1>3, <2>1 DEF Whole
  <2>2. CASE i = gave + 1
    BY <1>2, <2>2
  <2> QED
    BY <2>1, <2>2
<1> QED
  <2>1. (got \o pending)' = new /\ due' = due /\ read_only' = read_only
    BY <1>1
  <2>2. Numbers(new) = Allowed(due, n + 1)
    BY <1>5, <1>6
  <2>3. LET all == got' \o pending'
        IN  Numbers(all) = Allowed(due', n + 1) /\ Ordered(all) /\ Whole(due', all)
    BY <1>7, <1>8, <2>1, <2>2
  <2>4. ~read_only'
    BY <2>1
  <2> QED
    BY <2>3, <2>4 DEF GivenBefore

\* Thing n is a client's that watches, or a file over the limit: not given.
LEMMA GivenIsSame ==
    ASSUME PInv, NEW n \in Nat, n > 0, GivenBefore(n), pending = <<>>,
           read_only \/ due[n] > MAX_PASTE, due[n] \in Nat, P!PumpAssumption,
           UNCHANGED <<got, due, read_only>>, pending' = <<>>
    PROVE  GivenBefore(n + 1)'
<1>1. (got \o pending)' = got \o pending
  OBVIOUS
<1>2. CASE read_only
  BY <1>1, <1>2 DEF GivenBefore
<1>3. CASE ~read_only
  <2>1. Allowed(due, n + 1) = Allowed(due, n)
    BY <1>3 DEF Allowed, P!PumpAssumption
  <2> QED
    BY <1>1, <1>3, <2>1 DEF GivenBefore
<1> QED
  BY <1>2, <1>3

(***************************************************************************)
(* The pump.                                                               *)
(***************************************************************************)
LEMMA TypedNumbers == ASSUME PInv, P!ReadTyped, P!PumpAssumption PROVE Numbered'
<1>1. PICK n, itsK, m, l \in Nat :
         /\ Carries(due, Head(wire), n, itsK, m, l)
         /\ Arriving(n, itsK) /\ GivenBefore(n) /\ n > 0
         /\ (Arriving(m, l) /\ GivenBefore(m))' => Numbered'
  BY TakeNumbers DEF P!ReadTyped
<1>2. /\ UNCHANGED <<got, due, read_only, file, too_big>> /\ pending = <<>>
      /\ Head(wire)[1] = "typed" /\ Head(wire) \in Frames
      /\ pending' = IF read_only THEN <<>> ELSE <<Head(wire)>>
  BY DEF P!ReadTyped, P!Takes, P!Reading, P!Wait, PInv, PTypes
<1>3. Head(wire)[2] = n /\ n \in 1..Len(due) /\ due[n] = 0 /\ itsK = 0 /\ m = n + 1 /\ l = 0
  BY <1>1, <1>2 DEF Carries
<1>4. Arriving(m, l)'
  BY <1>1, <1>2, <1>3 DEF Arriving, P!PumpAssumption
<1>5. GivenBefore(m)'
  <2>1. CASE read_only
    BY <1>1, <1>2, <1>3, <2>1 DEF GivenBefore
  <2>2. CASE ~read_only
    <3>1. Head(wire) \in Inputs /\ due[n] <= MAX_PASTE
      BY <1>2, <1>3 DEF Inputs, P!PumpAssumption
    <3> QED
      BY GivenIsMore, <1>1, <1>2, <1>3, <2>2, <3>1
  <2> QED
    BY <2>1, <2>2
<1> QED
  BY <1>1, <1>4, <1>5

LEMMA PongNumbers == ASSUME PInv, P!ReadPong PROVE Numbered'
<1>1. PICK n, itsK, m, l \in Nat :
         /\ Carries(due, Head(wire), n, itsK, m, l)
         /\ Arriving(n, itsK) /\ GivenBefore(n) /\ n > 0
         /\ (Arriving(m, l) /\ GivenBefore(m))' => Numbered'
  BY TakeNumbers DEF P!ReadPong
<1>2. UNCHANGED <<got, due, read_only, file, too_big, pending>> /\ Head(wire)[1] = "pong"
  BY DEF P!ReadPong, P!Takes
<1>3. m = n /\ l = itsK
  BY <1>1, <1>2 DEF Carries
<1> QED
  BY <1>1, <1>2, <1>3 DEF Arriving, GivenBefore

LEMMA ChunkNumbers == ASSUME PInv, P!ReadChunk, P!PumpAssumption PROVE Numbered'
<1>1. PICK n, itsK, m, l \in Nat :
         /\ Carries(due, Head(wire), n, itsK, m, l) /\ Head(wire)[2] = n
         /\ Arriving(n, itsK) /\ GivenBefore(n) /\ n > 0
         /\ (Arriving(m, l) /\ GivenBefore(m))' => Numbered'
  BY TakeNumbers DEF P!ReadChunk
<1>2. UNCHANGED <<got, due, read_only, pending>> /\ Head(wire)[1] = "chunk" /\ P!take(n)
  BY <1>1 DEF P!ReadChunk, P!Takes
<1>3. m = n /\ l = itsK + 1
  BY <1>1, <1>2 DEF Carries
<1>4. Arriving(n, itsK + 1)'
  <2>1. MAX_PASTE \in Nat /\ MAX_PASTE > 0 /\ file \in Seq(Nat) /\ too_big \in BOOLEAN
    BY DEF PInv, PTypes, P!TypeOK, P!PumpAssumption
  <2>2. CASE itsK >= MAX_PASTE
    <3>1. too_big' /\ file' = <<>>
      BY <1>1, <1>2, <2>1, <2>2 DEF Arriving, P!take
    <3> QED
      BY <2>1, <2>2, <3>1 DEF Arriving
  <2>3. CASE itsK < MAX_PASTE
    <3>1. ~too_big /\ Len(file) = itsK /\ \A j \in 1..itsK : file[j] = n
      BY <1>1, <2>1, <2>3 DEF Arriving
    <3>2. ~too_big' /\ file' = Append(file, n)
      BY <1>2, <2>1, <2>3, <3>1 DEF P!take
    <3>3. Len(file') = itsK + 1 /\ \A j \in 1..(itsK + 1) : file'[j] = n
      BY <2>1, <3>1, <3>2
    <3> QED
      BY <2>1, <2>3, <3>2, <3>3 DEF Arriving
  <2> QED
    BY <2>1, <2>2, <2>3
<1>5. GivenBefore(n)'
  BY <1>1, <1>2 DEF GivenBefore
<1> QED
  BY <1>1, <1>3, <1>4, <1>5

LEMMA EndNumbers == ASSUME PInv, P!ReadEnd, P!PumpAssumption PROVE Numbered'
<1>1. PICK n, itsK, m, l \in Nat :
         /\ Carries(due, Head(wire), n, itsK, m, l)
         /\ Arriving(n, itsK) /\ GivenBefore(n) /\ n > 0
         /\ (Arriving(m, l) /\ GivenBefore(m))' => Numbered'
  BY TakeNumbers DEF P!ReadEnd
<1>2. /\ UNCHANGED <<got, due, read_only>> /\ pending = <<>>
      /\ Head(wire)[1] = "end" /\ file' = <<>> /\ ~too_big'
  BY DEF P!ReadEnd, P!Takes, P!Reading
<1>3. Head(wire)[2] = n /\ n \in 1..Len(due) /\ due[n] = itsK /\ itsK > 0 /\ m = n + 1 /\ l = 0
  BY <1>1, <1>2 DEF Carries
<1>4. Arriving(m, l)'
  BY <1>2, <1>3 DEF Arriving, P!PumpAssumption
<1>5. GivenBefore(m)'
  <2>1. MAX_PASTE \in Nat /\ file \in Seq(Nat) /\ too_big \in BOOLEAN
    BY DEF PInv, PTypes, P!TypeOK, P!PumpAssumption
  <2>2. CASE read_only \/ itsK > MAX_PASTE
    <3>1. pending' = <<>>
      BY <1>1, <2>1, <2>2 DEF P!ReadEnd, P!Wait, Arriving
    <3> QED
      BY GivenIsSame, <1>1, <1>2, <1>3, <2>2, <3>1
  <2>3. CASE ~(read_only \/ itsK > MAX_PASTE)
    <3> DEFINE x == <<"file", n, file>>
    <3>1. ~too_big /\ Len(file) = itsK /\ (\A j \in 1..itsK : file[j] = n) /\ file # <<>>
      BY <1>1, <1>3, <2>1, <2>3 DEF Arriving
    <3>2. pending' = <<x>>
      BY <1>3, <2>3, <3>1 DEF P!ReadEnd, P!Wait
    <3>3. x \in Inputs /\ x[1] = "file" /\ x[2] = n /\ x[3] = file
      BY <2>1 DEF Inputs
    <3>4. file = [j \in 1..due[n] |-> n]
      BY <1>3, <2>1, <3>1
    <3> HIDE DEF x
    <3> QED
      BY GivenIsMore, <1>1, <1>2, <1>3, <2>1, <2>3, <3>2, <3>3, <3>4
  <2> QED
    BY <2>2, <2>3
<1> QED
  BY <1>1, <1>3, <1>4, <1>5

(***************************************************************************)
(* Types, and who is put out.                                              *)
(***************************************************************************)
LEMMA SendKeeps ==
    ASSUME PInv, NEW f \in Frames, P!Send(f), owed' \in 0..2,
           (due' = due /\ owed' <= owed) \/ UNCHANGED owed, client = "old" => f[1] # "pong"
    PROVE  Answering' /\ wire' \in Seq(Frames)
<1>1. /\ wire \in Seq(Frames) /\ wire' = Append(wire, f)
      /\ client' = client /\ pump' = pump /\ answered' = answered /\ pump = "on"
  BY DEF PInv, PTypes, P!Send
<1>2. wire' \in Seq(Frames) /\ wire' # <<>>
  BY <1>1
<1>3. \A i \in 1..Len(wire') : wire'[i] = f \/ (i \in 1..Len(wire) /\ wire'[i] = wire[i])
  BY <1>1
<1> QED
  BY <1>1, <1>2, <1>3 DEF Answering, PInv

LEMMA TakesKeeps ==
    ASSUME PInv, NEW tag, P!Takes(tag), answered' = answered \/ tag = "pong"
    PROVE  Answering' /\ wire' \in Seq(Frames)
<1>1. /\ wire \in Seq(Frames) /\ wire # <<>> /\ wire' = Tail(wire) /\ wire[1][1] = tag
      /\ client' = client /\ pump' = pump /\ heard' = 0 /\ pump = "on"
  BY DEF PInv, PTypes, P!Takes, P!Reading
<1>2. /\ wire' \in Seq(Frames) /\ 1 \in 1..Len(wire)
      /\ \A i \in 1..Len(wire') : i + 1 \in 1..Len(wire) /\ wire'[i] = wire[i + 1]
  BY <1>1
<1> QED
  BY <1>1, <1>2 DEF Answering, PInv

LEMMA PInitially == ASSUME P!PumpAssumption PROVE P!Init => PInv
<1> SUFFICES ASSUME P!Init PROVE PInv
  OBVIOUS
<1>1. PTypes
  <2>1. /\ wire = <<>> /\ due = <<>> /\ file = <<>> /\ got = <<>> /\ pending = <<>>
        /\ read_only \in BOOLEAN /\ chunks = 0
    BY DEF P!Init
  <2>2. /\ wire \in Seq(Frames) /\ due \in Seq(Nat) /\ file \in Seq(Nat)
        /\ got \in Seq(Inputs) /\ pending \in Seq(Inputs)
        /\ Len(due) = 0 /\ Len(pending) = 0 /\ Len(file) = 0
    BY <2>1
  <2>3. client \in {"old", "here", "gone"} /\ pump \in {"on", "left", "silent", "stuck"}
        /\ answered \in BOOLEAN /\ too_big \in BOOLEAN
    BY DEF P!Init
  <2>4. chunks \in 0..(MAX_PASTE + 1) /\ owed \in 0..2 /\ heard \in 0..(SILENT_FOR + 1)
    BY DEF P!Init, P!PumpAssumption
  <2>5. Len(due) <= MaxSent /\ Len(pending) <= 1 /\ Len(file) <= MAX_PASTE
    BY <2>2 DEF P!PumpAssumption
  <2> QED
    BY <2>1, <2>2, <2>3, <2>4, <2>5 DEF PTypes, P!TypeOK
<1>2. Answering
  BY DEF P!Init, Answering
<1>3. Numbered
  <2> DEFINE next == [i \in 1..(Len(wire) + 1) |-> 1]
             sofar == [i \in 1..(Len(wire) + 1) |-> 0]
  <2>1. /\ Len(wire) = 0 /\ Len(due) = 0 /\ Len(file) = 0 /\ got \o pending = <<>>
        /\ chunks = 0 /\ ~too_big
    BY DEF P!Init
  <2>2. /\ next \in [1..(Len(wire) + 1) -> Nat] /\ sofar \in [1..(Len(wire) + 1) -> Nat]
        /\ next[1] = 1 /\ sofar[1] = 0
    BY <2>1
  <2> HIDE DEF next, sofar
  <2>3. OnTheWire(next, sofar) /\ StillToRead(next[1])
    BY <2>1, <2>2 DEF OnTheWire, StillToRead
  <2>4. Arriving(next[1], sofar[1])
    BY <2>1, <2>2 DEF Arriving, P!Init, P!PumpAssumption
  <2>5. GivenBefore(next[1])
    <3>1. Numbers(<<>>) = {} /\ Ordered(<<>>) /\ Whole(due, <<>>) /\ Allowed(due, 1) = {}
      BY DEF Numbers, Ordered, Whole, Allowed
    <3> QED
      BY <2>1, <2>2, <3>1 DEF GivenBefore
  <2> QED
    BY <2>2, <2>3, <2>4, <2>5 DEF Numbered, Reads
<1> QED
  BY <1>1, <1>2, <1>3 DEF PInv

LEMMA PPreserved == ASSUME P!PumpAssumption PROVE PInv /\ [P!Next]_(P!vars) => PInv'
<1> SUFFICES ASSUME PInv, [P!Next]_(P!vars) PROVE PInv'
  OBVIOUS
<1>t. /\ wire \in Seq(Frames) /\ due \in Seq(Nat) /\ file \in Seq(Nat)
      /\ got \in Seq(Inputs) /\ pending \in Seq(Inputs) /\ read_only \in BOOLEAN
      /\ chunks \in 0..(MAX_PASTE + 1) /\ owed \in 0..2 /\ heard \in 0..(SILENT_FOR + 1)
      /\ answered \in BOOLEAN /\ too_big \in BOOLEAN /\ Len(due) \in Nat
      /\ MAX_PASTE \in Nat \ {0} /\ SILENT_FOR \in Nat \ {0} /\ MaxSent \in Nat
  BY DEF PInv, PTypes, P!TypeOK, P!PumpAssumption
<1>1. CASE P!Type
  <2> DEFINE f == <<"typed", Len(due) + 1>>
  <2>1. f \in Frames /\ f[1] = "typed" /\ f[2] = Len(due) + 1
    BY <1>t DEF Frames
  <2>2. P!Send(f) /\ due' = Append(due, 0) /\ chunks' = 0 /\ chunks = 0 /\ owed' = owed
        /\ Len(due) < MaxSent
    BY <1>1 DEF P!Type
  <2> HIDE DEF f
  <2>3. /\ due' \in Seq(Nat) /\ Len(due') = Len(due) + 1 /\ due'[Len(due) + 1] = 0
        /\ \A m \in 1..Len(due) : due'[m] = due[m]
    BY <1>t, <2>2
  <2>4. Carries(due', f, Len(due) + 1, chunks, Len(due') + 1, chunks')
    BY <1>t, <2>1, <2>2, <2>3 DEF Carries
  <2>5. Numbered'
    BY SendNumbers, <1>t, <2>1, <2>2, <2>3, <2>4
  <2>6. Answering' /\ wire' \in Seq(Frames)
    BY SendKeeps, <1>t, <2>1, <2>2
  <2>7. PTypes'
    BY <1>t, <2>2, <2>3, <2>6 DEF PTypes, P!TypeOK, PInv, P!Send
  <2> QED
    BY <2>5, <2>6, <2>7 DEF PInv
<1>2. CASE P!SendChunk
  <2> DEFINE f == <<"chunk", Len(due) + 1>>
  <2>1. f \in Frames /\ f[1] = "chunk" /\ f[2] = Len(due) + 1
    BY <1>t DEF Frames
  <2>2. P!Send(f) /\ chunks' = chunks + 1 /\ owed' = owed
        /\ Len(due) < MaxSent /\ chunks <= MAX_PASTE
    BY <1>2 DEF P!SendChunk
  <2>u. due' = due
    BY <1>2 DEF P!SendChunk
  <2> HIDE DEF f
  <2>3. /\ due' \in Seq(Nat) /\ Len(due') = Len(due) /\ chunks' \in Nat
        /\ \A m \in 1..Len(due) : due'[m] = due[m]
    BY <1>t, <2>2, <2>u
  <2>4. Carries(due', f, Len(due) + 1, chunks, Len(due') + 1, chunks')
    BY <1>t, <2>1, <2>2, <2>u DEF Carries
  <2>5. Numbered'
    BY SendNumbers, <1>t, <2>1, <2>2, <2>3, <2>4
  <2>6. Answering' /\ wire' \in Seq(Frames)
    BY SendKeeps, <1>t, <2>1, <2>2, <2>u
  <2>7. PTypes'
    BY <1>t, <2>2, <2>u, <2>6 DEF PTypes, P!TypeOK, PInv, P!Send
  <2> QED
    BY <2>5, <2>6, <2>7 DEF PInv
<1>3. CASE P!EndPaste
  <2> DEFINE f == <<"end", Len(due) + 1>>
  <2>1. f \in Frames /\ f[1] = "end" /\ f[2] = Len(due) + 1
    BY <1>t DEF Frames
  <2>2. P!Send(f) /\ due' = Append(due, chunks) /\ chunks' = 0 /\ chunks > 0 /\ owed' = owed
        /\ Len(due) < MaxSent
    BY <1>3, <1>t DEF P!EndPaste, PInv, PTypes
  <2> HIDE DEF f
  <2>3. /\ due' \in Seq(Nat) /\ Len(due') = Len(due) + 1 /\ due'[Len(due) + 1] = chunks
        /\ \A m \in 1..Len(due) : due'[m] = due[m]
    BY <1>t, <2>2
  <2>4. Carries(due', f, Len(due) + 1, chunks, Len(due') + 1, chunks')
    BY <1>t, <2>1, <2>2, <2>3 DEF Carries
  <2>5. Numbered'
    BY SendNumbers, <1>t, <2>1, <2>2, <2>3, <2>4
  <2>6. Answering' /\ wire' \in Seq(Frames)
    BY SendKeeps, <1>t, <2>1, <2>2
  <2>7. PTypes'
    BY <1>t, <2>2, <2>3, <2>6 DEF PTypes, P!TypeOK, PInv, P!Send
  <2> QED
    BY <2>5, <2>6, <2>7 DEF PInv
<1>4. CASE P!AnswerPing
  <2> DEFINE f == <<"pong">>
  <2>1. f \in Frames /\ f[1] = "pong"
    BY DEF Frames
  <2>2. P!Send(f) /\ owed' = owed - 1 /\ owed > 0
        /\ client = "here"
    BY <1>4 DEF P!AnswerPing
  <2>u. due' = due /\ chunks' = chunks
    BY <1>4 DEF P!AnswerPing
  <2> HIDE DEF f
  <2>3. /\ due' \in Seq(Nat) /\ Len(due') = Len(due) /\ chunks' \in Nat
        /\ \A m \in 1..Len(due) : due'[m] = due[m]
    BY <1>t, <2>2, <2>u
  <2>4. Carries(due', f, Len(due) + 1, chunks, Len(due') + 1, chunks')
    BY <1>t, <2>1, <2>2, <2>u DEF Carries
  <2>5. Numbered'
    <3>1. f[1] # "chunk" /\ ~(Len(due') > Len(due)) /\ Len(due') >= Len(due)
      BY <1>t, <2>1, <2>3
    <3>2. P!Send(f)
      BY <2>2
    <3> QED
      BY SendNumbers, <2>1, <2>3, <2>4, <3>1, <3>2
  <2>6. Answering' /\ wire' \in Seq(Frames)
    BY SendKeeps, <1>t, <2>1, <2>2, <2>u
  <2>7. PTypes'
    BY <1>t, <2>2, <2>u, <2>6 DEF PTypes, P!TypeOK, PInv, P!Send
  <2> QED
    BY <2>5, <2>6, <2>7 DEF PInv
<1>5. CASE P!GoQuiet
  <2>1. Numbered'
    BY <1>5, SameNumbers DEF P!GoQuiet, PInv
  <2> QED
    BY <1>5, <2>1 DEF P!GoQuiet, PInv, PTypes, P!TypeOK, Answering
<1>6. CASE P!ReadTyped
  <2>1. Answering' /\ wire' \in Seq(Frames)
    BY <1>6, TakesKeeps DEF P!ReadTyped
  <2>2. pending' \in Seq(Inputs) /\ Len(pending') <= 1
    <3>1. Head(wire) \in Inputs
      BY <1>6, <1>t DEF P!ReadTyped, P!Takes, P!Reading, Inputs
    <3> QED
      BY <1>6, <3>1 DEF P!ReadTyped, P!Wait
  <2>3. PTypes'
    BY <1>6, <1>t, <2>1, <2>2 DEF P!ReadTyped, P!Takes, PTypes, P!TypeOK, PInv
  <2> QED
    BY <1>6, <2>1, <2>3, TypedNumbers DEF PInv
<1>7. CASE P!ReadPong
  <2>1. Answering' /\ wire' \in Seq(Frames)
    BY <1>7, TakesKeeps DEF P!ReadPong
  <2>3. PTypes'
    BY <1>7, <1>t, <2>1 DEF P!ReadPong, P!Takes, PTypes, P!TypeOK, PInv
  <2> QED
    BY <1>7, <2>1, <2>3, PongNumbers DEF PInv
<1>8. CASE P!ReadChunk
  <2>1. Answering' /\ wire' \in Seq(Frames)
    BY <1>8, TakesKeeps DEF P!ReadChunk
  <2>2. file' \in Seq(Nat) /\ Len(file') <= MAX_PASTE /\ too_big' \in BOOLEAN
    <3>1. Head(wire)[2] \in Nat
      <4>1. Head(wire) \in Frames /\ Head(wire)[1] = "chunk"
        BY <1>8, <1>t DEF P!ReadChunk, P!Takes, P!Reading
      <4> QED
        BY <4>1 DEF Frames
    <3>2. P!take(Head(wire)[2]) /\ Len(file) <= MAX_PASTE /\ Len(file) \in Nat
      BY <1>8, <1>t DEF P!ReadChunk, PInv, PTypes, P!TypeOK
    <3>3. too_big' \in BOOLEAN
      BY <3>2 DEF P!take
    <3>4. CASE too_big \/ Len(file) = MAX_PASTE
      <4>1. file' = <<>>
        BY <3>2, <3>4 DEF P!take
      <4> QED
        BY <1>t, <3>3, <4>1
    <3>5. CASE ~(too_big \/ Len(file) = MAX_PASTE)
      <4>1. file' = Append(file, Head(wire)[2])
        BY <3>2, <3>5 DEF P!take
      <4>2. file' \in Seq(Nat) /\ Len(file') = Len(file) + 1
        BY <1>t, <3>1, <4>1
      <4> QED
        BY <1>t, <3>2, <3>3, <3>5, <4>2
    <3> QED
      BY <3>4, <3>5
  <2>3. PTypes'
    BY <1>8, <1>t, <2>1, <2>2 DEF P!ReadChunk, P!Takes, PTypes, P!TypeOK, PInv
  <2> QED
    BY <1>8, <2>1, <2>3, ChunkNumbers DEF PInv
<1>9. CASE P!ReadEnd
  <2>1. Answering' /\ wire' \in Seq(Frames)
    BY <1>9, TakesKeeps DEF P!ReadEnd
  <2>2. pending' \in Seq(Inputs) /\ Len(pending') <= 1
    <3>1. Head(wire)[2] \in Nat
      <4>1. Head(wire) \in Frames /\ Head(wire)[1] = "end"
        BY <1>9, <1>t DEF P!ReadEnd, P!Takes, P!Reading
      <4> QED
        BY <4>1 DEF Frames
    <3>2. ASSUME NEW n \in Nat, NEW f \in Seq(Nat) PROVE <<"file", n, f>> \in Inputs
      BY DEF Inputs
    <3>3. PICK x \in Inputs : x = <<"file", Head(wire)[2], file>>
      BY <1>t, <3>1, <3>2
    <3>4. pending' = <<>> \/ pending' = <<x>>
      BY <1>9, <3>3 DEF P!ReadEnd, P!Wait
    <3>5. <<>> \in Seq(Inputs) /\ Len(<<>>) <= 1 /\ <<x>> \in Seq(Inputs) /\ Len(<<x>>) <= 1
      OBVIOUS
    <3> QED
      BY <3>4, <3>5
  <2>3. file' \in Seq(Nat) /\ Len(file') <= MAX_PASTE /\ too_big' \in BOOLEAN
    <3>1. file' = <<>> /\ too_big' = FALSE
      BY <1>9 DEF P!ReadEnd
    <3>2. Len(<<>>) = 0 /\ <<>> \in Seq(Nat)
      OBVIOUS
    <3>3. too_big' \in BOOLEAN
      BY <3>1
    <3> QED
      BY <1>t, <3>1, <3>2, <3>3
  <2>4. UNCHANGED <<client, chunks, owed, due, pump, got, read_only, answered>> /\ heard' = 0
    BY <1>9 DEF P!ReadEnd, P!Takes
  <2>5. PTypes'
    BY <1>t, <2>1, <2>2, <2>3, <2>4 DEF PTypes, P!TypeOK, PInv
  <2> QED
    BY <1>9, <2>1, <2>5, EndNumbers DEF PInv
<1>10. CASE P!Space
  <2>1. got' \o pending' = got \o pending /\ got' \in Seq(Inputs)
    BY <1>10, <1>t DEF P!Space
  <2>2. Numbered'
    BY <1>10, <2>1, SameNumbers DEF P!Space, PInv
  <2> QED
    BY <1>10, <1>t, <2>1, <2>2 DEF P!Space, PInv, PTypes, P!TypeOK, Answering
<1>11. CASE P!Ping
  <2>1. Numbered'
    BY <1>11, SameNumbers DEF P!Ping, PInv
  <2>2. PTypes'
    BY <1>11, <1>t DEF P!Ping, PInv, PTypes, P!TypeOK
  <2>3. Answering'
    <3>1. CASE P!Overdue
      <4>1. pending = <<>> /\ answered /\ heard > SILENT_FOR /\ wire = <<>>
        BY <1>11, <3>1 DEF P!Overdue, P!Ping, P!Reading
      <4>2. client = "gone"
        BY <1>11, <1>t, <4>1 DEF P!Ping, PInv, Answering, PTypes, P!TypeOK
      <4> QED
        BY <1>11, <3>1, <4>2 DEF P!Ping, Answering
    <3>2. CASE ~P!Overdue
      BY <1>11, <1>t, <3>2 DEF P!Ping, PInv, Answering
    <3> QED
      BY <3>1, <3>2
  <2> QED
    BY <2>1, <2>2, <2>3 DEF PInv
<1>12. CASE P!WriteStuck
  <2>1. Numbered'
    BY <1>12, SameNumbers DEF P!WriteStuck, PInv
  <2> QED
    BY <1>12, <2>1 DEF P!WriteStuck, PInv, PTypes, P!TypeOK, Answering
<1>13. CASE P!Leave
  <2>1. Numbered'
    BY <1>13, SameNumbers DEF P!Leave, PInv
  <2> QED
    BY <1>13, <2>1 DEF P!Leave, PInv, PTypes, P!TypeOK, Answering
<1>14. CASE UNCHANGED P!vars
  <2>1. Numbered'
    BY <1>14, SameNumbers DEF P!vars, PInv
  <2> QED
    BY <1>14, <2>1 DEF P!vars, PInv, PTypes, P!TypeOK, Answering
<1> QED
  BY <1>1, <1>2, <1>3, <1>4, <1>5, <1>6, <1>7, <1>8, <1>9, <1>10, <1>11, <1>12, <1>13,
     <1>14 DEF P!Next

LEMMA PHolds == PInv => P!GivenWhatWasSent /\ P!AnsweringIsEnough
<1> SUFFICES ASSUME PInv PROVE P!GivenWhatWasSent
  BY DEF PInv, Answering, P!AnsweringIsEnough
<1>1. PICK next, sofar \in [1..(Len(wire) + 1) -> Nat] : Reads(next, sofar)
  BY DEF PInv, Numbered
<1>2. /\ wire \in Seq(Frames) /\ due \in Seq(Nat) /\ got \o pending \in Seq(Inputs)
      /\ \A n \in 1..Len(due) : due[n] \in Nat
  BY DEF PInv, PTypes
<1> DEFINE start == next[1]
           given == got \o pending
           whole == {j \in DOMAIN wire : wire[j][1] \in {"typed", "end"}}
           unread == {wire[i][2] : i \in whole}
<1>3. /\ Len(wire) \in Nat /\ Len(due) \in Nat /\ DOMAIN wire = 1..Len(wire)
      /\ DOMAIN due = 1..Len(due) /\ DOMAIN given = 1..Len(given)
  BY <1>2
<1>4. start \in Nat /\ start > 0 /\ start <= Len(due) + 1
  <2>1. 1 \in 1..(Len(wire) + 1) /\ Len(wire) + 1 \in 1..(Len(wire) + 1) /\ 1 <= Len(wire) + 1
    BY <1>3
  <2> QED
    BY <1>1, <1>3, <2>1 DEF Reads, OnTheWire
<1>5. unread = start..Len(due)
  <2>1. ASSUME NEW i \in 1..Len(wire), wire[i][1] \in {"typed", "end"}
        PROVE  wire[i][2] \in start..Len(due)
    <3>1. Carries(due, wire[i], next[i], sofar[i], next[i + 1], sofar[i + 1])
      BY <1>1 DEF Reads, OnTheWire
    <3>2. wire[i][2] = next[i] /\ next[i] \in 1..Len(due)
      BY <2>1, <3>1 DEF Carries
    <3>3. 1 \in 1..(Len(wire) + 1) /\ i \in 1..(Len(wire) + 1) /\ 1 <= i
      BY <1>3
    <3>4. start <= next[i]
      BY <1>1, <3>3 DEF Reads, OnTheWire
    <3> QED
      BY <1>3, <1>4, <3>2, <3>4
  <2>2. ASSUME NEW m \in start..Len(due) PROVE m \in unread
    <3>1. m \in 1..Len(due) /\ m >= start
      BY <1>3, <1>4
    <3>2. PICK i \in 1..Len(wire) : wire[i][1] \in {"typed", "end"} /\ wire[i][2] = m
      BY <1>1, <3>1 DEF Reads, StillToRead
    <3> QED
      BY <1>3, <3>2
  <2>3. unread \subseteq start..Len(due)
    BY <1>3, <2>1
  <2> QED
    BY <2>2, <2>3
<1> HIDE DEF start, unread
<1>6. {n \in DOMAIN due : due[n] <= MAX_PASTE} \ unread = Allowed(due, start)
  BY <1>2, <1>3, <1>4, <1>5 DEF Allowed
<1>7. IF read_only THEN given = <<>>
      ELSE Numbers(given) = Allowed(due, start) /\ Ordered(given) /\ Whole(due, given)
  BY <1>1 DEF Reads, GivenBefore, start
<1>8. {given[i][2] : i \in DOMAIN given} = Numbers(given)
  BY <1>3 DEF Numbers
<1> HIDE DEF given, unread, start
<1>9. CASE read_only
  BY <1>7, <1>9 DEF P!GivenWhatWasSent, given
<1>10. CASE ~read_only
  <2>1. {given[i][2] : i \in DOMAIN given} = {n \in DOMAIN due : due[n] <= MAX_PASTE} \ unread
    BY <1>6, <1>7, <1>8, <1>10
  <2>2. \A i, j \in DOMAIN given : i < j => given[i][2] < given[j][2]
    BY <1>3, <1>7, <1>10 DEF Ordered
  <2>3. \A i \in DOMAIN given : given[i][1] = "file" =>
           given[i][3] = [itsK \in 1..due[given[i][2]] |-> given[i][2]]
    BY <1>3, <1>7, <1>10 DEF Whole
  <2> QED
    BY <1>10, <2>1, <2>2, <2>3 DEF P!GivenWhatWasSent, given, unread
<1> QED
  BY <1>9, <1>10

\* Whatever it does, a behaviour that is of the input keeps it.
PPart == part = "pump" => PInv

LEMMA PPartInitially == Init => PPart
<1> SUFFICES ASSUME Init, part = "pump" PROVE PInv
  BY DEF PPart
<1>1. P!Init
  BY DEF Init
<1> QED
  BY <1>1, PumpAssumed, PInitially

LEMMA PPartStep ==
    ASSUME [Next]_vars, part' = "pump"
    PROVE  part = "pump" /\ [P!Next]_(P!vars)
<1>1. CASE UNCHANGED vars
  BY <1>1 DEF vars, Beyond19, Beyond17, Beyond13, Beyond12, Beyond10,
     Beyond9, Beyond8, Beyond7, Beyond4,
     P!vars
<1>2. CASE Next
  BY <1>2 DEF Next
<1> QED
  BY <1>1, <1>2

LEMMA PPartPreserved == PPart /\ [Next]_vars => PPart'
<1> SUFFICES ASSUME PPart, [Next]_vars, part' = "pump" PROVE PInv'
  BY DEF PPart
<1> QED
  BY PPartStep, PPreserved, PumpAssumed DEF PPart

HIDE DEF client, wire, chunks, owed, pump, pending, heard, answered, file,
    too_big, got, read_only, due

(***************************************************************************)
(* What holds of Scroll for any window, buffer and block, any lines        *)
(* printed and any searches.                                               *)
(*                                                                         *)
(* A question of a kind is out one at a time, so the block a client takes  *)
(* is the answer to the question it holds, and what it asked about is in   *)
(* it: moved by what the session printed since, which the count the        *)
(* question carries tells the node (Meets), or where the end is now        *)
(* (AnsweredBy).  Asking the same again is then asking for the block in    *)
(* hand.  What is named is counted from the count the client has           *)
(* (OneCount), which an answer about a full-screen program's screen leaves *)
(* as good as it was.                                                      *)
(***************************************************************************)
newest == v1
counted == v2
printedCount == v3
onAlternate == v4
lost == v5
offset == v6
total == v7
printed == v8
trimming == v9
V_answered == v10
block == v11
asked == v12
inFlight == v13
selection == v14
match == v15
asks == v16
answers == v17
frame == v18
names == v19

USE DEF newest, counted, printedCount, onAlternate, lost, offset, total,
    printed, trimming, V_answered, block, asked, inFlight, selection, match,
    asks, answers, frame, names

Requests == [kind: {"view"}, from: 0..ScrollFar, lines: Nat, printed: Nat]
Blocks == [from: 0..ScrollFar, lines: 0..ScrollKept]
NoNames == [block |-> 0, sel |-> 0, match |-> 0, window |-> 0]

\* The stream: a question and an answer of a kind are the only ones of it.
Questions == [kind: {"view", "found"}, from: 0..ScrollFar, lines: Nat, printed: Nat]
Windows == [kind: {"view", "found"}, printed: Nat, total: Nat, from: 0..ScrollFar, lines: Nat,
            newest: Nat]
QueueTypes == asks \in Seq(Questions) /\ answers \in Seq(Windows)

ViewTypes ==
    /\ offset \in 0..ScrollFar /\ total \in Nat /\ total <= ScrollMaxPrinted /\ total <= ScrollKept
    /\ printed \in Nat /\ trimming \in BOOLEAN /\ V_answered \in BOOLEAN
    /\ block \in Blocks /\ selection \in -1..ScrollFar /\ match \in -1..ScrollFar

VTypes ==
    /\ newest \in Nat /\ Rows <= newest /\ newest <= ScrollMaxPrinted
    /\ counted \in Nat /\ printedCount \in Nat
    /\ printed <= printedCount /\ printedCount <= counted /\ counted <= newest
    /\ onAlternate \in BOOLEAN /\ lost \in BOOLEAN
    /\ ~lost => printedCount = counted
    /\ ViewTypes /\ inFlight \in BOOLEAN /\ asked \in Requests
    /\ frame \in Nat /\ names \in [block: Int, sel: Int, match: Int, window: Int]

\* One question of a kind is out at a time, whichever side of the node it is on.
OneOfAKind ==
    /\ \A p, q \in 1..Len(asks) : asks[p].kind = asks[q].kind => p = q
    /\ \A p, q \in 1..Len(answers) : answers[p].kind = answers[q].kind => p = q
    /\ \A p \in 1..Len(asks), q \in 1..Len(answers) : asks[p].kind # answers[q].kind

\* The question out for a block is the one the client holds.
AsAsked ==
    \A p \in 1..Len(asks) :
        /\ asks[p].kind = "view" => inFlight /\ asks[p] = asked
        /\ asks[p].kind = "found" => V_answered /\ asks[p].from < ScrollMaxPrinted

\* While the client waits for a block, its question or the answer is on its way.
StillOut ==
    inFlight => \/ \E p \in 1..Len(asks) : asks[p].kind = "view"
                \/ \E p \in 1..Len(answers) : answers[p].kind = "view"

\* What the node made of a question it was asked.
Meets(win, q) ==
    /\ Rows <= win.total /\ win.total <= ScrollKept /\ win.total <= ScrollMaxPrinted
    /\ win.from = V!Upto(V!More(q.from, V!moved(win.printed, q.printed)), win.total - 1)
    /\ win.lines = V!Upto(q.lines, win.total - win.from)

AsAnswered ==
    /\ \A p \in 1..Len(answers) :
        /\ printed <= answers[p].printed /\ answers[p].printed <= printedCount
        /\ ~lost /\ answers[p].newest # 0 => answers[p].printed = answers[p].newest
        /\ answers[p].kind = "view" => inFlight /\ Meets(answers[p], asked)
        /\ answers[p].kind = "found" => V_answered /\ answers[p].from < ScrollMaxPrinted
    /\ \A p, q \in 1..Len(answers) : p <= q => answers[p].printed <= answers[q].printed

\* Before the first answer there is nothing to count from.
Unanswered ==
    ~V_answered => /\ printed = 0 /\ frame = 0 /\ block = V!NoBlock /\ match = V!NoLine
                   /\ names = NoNames /\ inFlight
Within ==
    V_answered => /\ Rows <= total /\ offset <= ScrollMaxPrinted - Rows + printed
                  /\ block.from <= ScrollMaxPrinted + printed

\* What is named is named of the count the client has, an answer about a
\* full-screen program's screen or not.
OneCount ==
    ~lost =>
        /\ frame # 0 => printed = frame
        /\ printed = 0 => names = NoNames
        /\ block.lines > 0 /\ names.block # 0 => printed - block.from = names.block
        /\ selection # V!NoLine /\ names.sel # 0 =>
             printed - selection = names.sel /\ selection <= ScrollMaxPrinted + printed
        /\ match # V!NoLine /\ names.match # 0 =>
             printed - match = names.match /\ match <= ScrollMaxPrinted + printed
        /\ names.window # 0 /\ offset # 0 => printed - offset = names.window

\* The block the client has is the answer to the question it asked last, or
\* that one carried back by what was printed when a search's answer came in.
AnsweredBy(b, q, t, count) ==
    /\ q.lines > 0 => b.lines > 0
    /\ q.printed \in {0, count} =>
         /\ b.from >= V!Upto(q.from, t - 1)
         /\ b.from + b.lines >= V!Upto(V!Upto(q.from, t - 1) + q.lines, t)
         /\ q.printed = count => b.from = V!Upto(q.from, t - 1)

Settled ==
    /\ asked.printed <= printed
    /\ ~inFlight =>
        /\ V_answered /\ AnsweredBy(block, asked, total, printed)
        /\ V!Wanted(offset, total, trimming, printed, block, selection) \in {V!NoRequest, asked}

VInv == /\ VTypes /\ QueueTypes /\ OneOfAKind /\ AsAsked /\ StillOut /\ AsAnswered
        /\ Unanswered /\ Within /\ OneCount /\ Settled

(***************************************************************************)
(* The window.                                                             *)
(***************************************************************************)
LEMMA Spans == ASSUME V!ScrollAssumption PROVE Rows * BLOCK \in Nat /\ Rows * BLOCK >= Rows
  BY DEF V!ScrollAssumption

\* What a window asks for is of the count in hand, or of no count.
LEMMA WantedIs ==
    ASSUME V!ScrollAssumption, NEW off \in 0..ScrollFar, NEW t \in Nat, NEW trims \in BOOLEAN,
           NEW count \in Nat, NEW b \in Blocks, NEW line \in -1..ScrollFar
    PROVE  \/ /\ V!Wanted(off, t, trims, count, b, line) = V!NoRequest
              /\ V!CoveredBy(b, off, t)
           \/ /\ V!Wanted(off, t, trims, count, b, line) \in Requests
              /\ V!Wanted(off, t, trims, count, b, line).printed \in {0, count}
<1>1. PICK span \in Nat : span = Rows * BLOCK /\ span >= Rows
  BY Spans
<1> DEFINE first == V!Less(off, (span - Rows) \div 2)
           from == IF line = V!NoLine THEN first ELSE V!Upto(first, line)
           last == IF line = V!NoLine THEN V!More(first, span)
                   ELSE V!Over(V!More(first, span), V!More(line, 1))
           lines == V!Upto(last - from, CopyLines + span)
<1>2. (span - Rows) \div 2 \in Nat
  BY <1>1 DEF V!ScrollAssumption
<1>3. first \in 0..ScrollFar
  BY <1>1, <1>2 DEF V!Less, V!Over, V!ScrollAssumption
<1>4. from \in 0..ScrollFar /\ lines \in Nat
  BY <1>1, <1>3 DEF V!Upto, V!More, V!Over, V!NoLine, V!ScrollAssumption
<1>5. \/ V!Wanted(off, t, trims, count, b, line) = V!NoRequest /\ V!CoveredBy(b, off, t)
      \/ V!Wanted(off, t, trims, count, b, line) =
           [kind |-> "view", from |-> from, lines |-> lines,
            printed |-> IF V!PinnedAt(off, trims, t) THEN 0 ELSE count]
  BY <1>1, Zenon DEF V!Wanted
<1> QED
  BY <1>4, <1>5 DEF Requests

\* The block in hand answers the question a window asks again: the window is
\* in it, but for what NeverLeftBlank says.
LEMMA SameAgain ==
    ASSUME V!ScrollAssumption, NEW off \in 0..ScrollFar, NEW t \in Nat, NEW trims \in BOOLEAN,
           NEW count \in Nat, NEW b \in Blocks, NEW line \in -1..ScrollFar, NEW q \in Requests,
           t >= Rows, off + Rows <= ScrollFar,
           V!Wanted(off, t, trims, count, b, line) = q, AnsweredBy(b, q, t, count),
           ~(V!PinnedAt(off, trims, t) /\ b.from > q.from),
           ~(line # V!NoLine /\ off + Rows > line + CopyLines + Rows * BLOCK)
    PROVE  V!CoveredBy(b, off, t)
<1>1. PICK span \in Nat : span = Rows * BLOCK /\ span >= Rows
  BY Spans
<1>2. PICK below \in Nat : below = (span - Rows) \div 2 /\ span - below >= Rows
  BY <1>1 DEF V!ScrollAssumption
<1> DEFINE first == V!Less(off, below)
           from == IF line = V!NoLine THEN first ELSE V!Upto(first, line)
           last == IF line = V!NoLine THEN V!More(first, span)
                   ELSE V!Over(V!More(first, span), V!More(line, 1))
           lines == V!Upto(last - from, CopyLines + span)
<1> SUFFICES ASSUME ~V!CoveredBy(b, off, t) PROVE FALSE
  OBVIOUS
<1>3. q = [kind |-> "view", from |-> from, lines |-> lines,
           printed |-> IF V!PinnedAt(off, trims, t) THEN 0 ELSE count]
  BY <1>1, <1>2, Zenon DEF V!Wanted
<1>4. q.from = from /\ q.lines = lines /\ q.printed \in {0, count}
  BY <1>3
<1>5. first \in Nat /\ first <= off /\ first + span >= off + Rows /\ first < ScrollFar
  BY <1>1, <1>2 DEF V!Less, V!Over, V!ScrollAssumption
<1>6. from \in Nat /\ from <= first
  BY <1>5 DEF V!Upto, V!NoLine
<1>7. V!More(first, span) \in Nat /\ V!More(first, span) > first /\ V!More(first, span) >= off + Rows
  BY <1>1, <1>5 DEF V!More, V!Upto, V!ScrollAssumption
<1>8. last \in Int /\ last >= V!More(first, span)
  BY <1>7 DEF V!Over, V!More, V!Upto, V!ScrollAssumption
<1>9. lines \in Nat /\ lines > 0 /\ from + lines >= off + Rows
  <2>1. CASE lines = last - from
    <3>1. last - from \in Nat /\ last - from > 0 /\ from + (last - from) >= off + Rows
      <4> HIDE DEF first, from, last
      <4> QED
        BY <1>5, <1>6, <1>7, <1>8 DEF V!ScrollAssumption
    <3> QED
      BY <2>1, <3>1
  <2>2. CASE lines = CopyLines + span
    <3>1. from + CopyLines + span >= off + Rows
      BY <1>1, <1>5, <1>6 DEF V!Upto, V!ScrollAssumption
    <3> QED
      BY <2>2, <3>1, <1>1, <1>6 DEF V!ScrollAssumption
  <2> QED
    BY <2>1, <2>2 DEF V!Upto
<1>10. b.from <= from
  <2>1. CASE V!PinnedAt(off, trims, t)
    BY <2>1, <1>4, <1>6 DEF Blocks
  <2>2. CASE ~V!PinnedAt(off, trims, t)
    <3>1. q.printed = count
      BY <2>2, <1>3
    <3>2. b.from = V!Upto(q.from, t - 1)
      BY <3>1 DEF AnsweredBy
    <3> QED
      BY <3>2, <1>4, <1>6 DEF V!Upto, Blocks, V!ScrollAssumption
  <2> QED
    BY <2>1, <2>2
<1>11. b.lines > 0
  BY <1>4, <1>9 DEF AnsweredBy
<1>12. b.from + b.lines >= V!Upto(V!Upto(from, t - 1) + lines, t)
  BY <1>4 DEF AnsweredBy
<1>13. b.from + b.lines >= V!Upto(off + Rows, t)
  BY <1>6, <1>9, <1>12 DEF V!Upto, Blocks, V!ScrollAssumption
<1> QED
  BY <1>5, <1>6, <1>10, <1>11, <1>13 DEF V!CoveredBy, Blocks

LEMMA VHolds == ASSUME V!ScrollAssumption, VInv PROVE V!OneFrame /\ V!NeverLeftBlank
<1>1. V!OneFrame
  BY DEF VInv, OneCount, V!OneFrame, VTypes, ViewTypes
<1>2. V!NeverLeftBlank
  <2> SUFFICES ASSUME ~V!QuestionOut, ~V!MovedSinceAsked, ~V!LeftBehind PROVE V!covered
    BY DEF V!NeverLeftBlank
  <2>0. ~inFlight
    BY DEF VInv, StillOut, V!QuestionOut, QueueTypes
  <2>1. /\ V_answered /\ AnsweredBy(block, asked, total, printed)
        /\ V!Wanted(offset, total, trimming, printed, block, selection) \in {V!NoRequest, asked}
    BY <2>0 DEF VInv, Settled
  <2>2. /\ offset \in 0..ScrollFar /\ total \in Nat /\ trimming \in BOOLEAN /\ printed \in Nat
        /\ block \in Blocks /\ selection \in -1..ScrollFar /\ asked \in Requests
        /\ total >= Rows /\ offset + Rows <= ScrollFar
    BY <2>1 DEF VInv, VTypes, ViewTypes, Within, V!ScrollAssumption, Blocks, Requests
  <2>3. CASE V!Wanted(offset, total, trimming, printed, block, selection) = V!NoRequest
    <3>1. V!NoRequest \notin Requests
      BY DEF Requests, V!NoRequest
    <3> QED
      BY <2>2, <2>3, <3>1, WantedIs DEF V!covered
  <2>4. CASE V!Wanted(offset, total, trimming, printed, block, selection) = asked
    BY <2>1, <2>2, <2>4, SameAgain DEF V!covered, V!MovedSinceAsked, V!LeftBehind
  <2> QED
    BY <2>1, <2>3, <2>4
<1> QED
  BY <1>1, <1>2

(***************************************************************************)
(* The stream.                                                             *)
(***************************************************************************)
Queue == QueueTypes /\ OneOfAKind /\ AsAsked /\ StillOut /\ AsAnswered

LEMMA OneQuestion ==
    \A r \in Requests : <<r>> \in Seq(Requests) /\ Len(<<r>>) = 1 /\ <<r>>[1] = r
  OBVIOUS

LEMMA VInitially == ASSUME V!ScrollAssumption PROVE V!Init => VInv
<1> SUFFICES ASSUME V!Init PROVE VInv
  OBVIOUS
<1>1. asked \in Requests /\ asked.printed = 0
  <2>1. /\ V!NoBlock \in Blocks /\ 0 \in 0..ScrollFar /\ V!NoLine \in -1..ScrollFar /\ 0 \in Nat
        /\ ~V!CoveredBy(V!NoBlock, 0, 0) /\ FALSE \in BOOLEAN
    BY DEF V!ScrollAssumption, V!NoBlock, V!NoLine, V!CoveredBy, Blocks
  <2>2. \/ V!CoveredBy(V!NoBlock, 0, 0)
        \/ /\ V!Wanted(0, 0, FALSE, 0, V!NoBlock, V!NoLine) \in Requests
           /\ V!Wanted(0, 0, FALSE, 0, V!NoBlock, V!NoLine).printed \in {0, 0}
    BY <2>1, WantedIs, Zenon
  <2>3. asked = V!Wanted(0, 0, FALSE, 0, V!NoBlock, V!NoLine)
    BY DEF V!Init
  <2> QED
    BY <2>1, <2>2, <2>3
<1>2. VTypes
  <2>1. NoNames \in [block: Int, sel: Int, match: Int, window: Int] /\ V!NoBlock \in Blocks
    BY DEF NoNames, V!NoBlock, Blocks, V!ScrollAssumption
  <2>2. /\ newest = Rows /\ counted = 0 /\ printedCount = 0 /\ onAlternate = FALSE
        /\ lost = FALSE /\ offset = 0 /\ total = 0 /\ printed = 0 /\ trimming = FALSE
        /\ V_answered = FALSE /\ block = V!NoBlock /\ selection = -1 /\ match = -1
        /\ inFlight = TRUE /\ frame = 0 /\ names = NoNames
    BY DEF V!Init, V!NoLine, NoNames
  <2>3. /\ Rows \in Nat /\ ScrollKept \in Nat /\ ScrollMaxPrinted \in Nat /\ Rows <= ScrollMaxPrinted
        /\ 0 \in 0..ScrollFar /\ -1 \in -1..ScrollFar /\ counted <= newest /\ total <= ScrollKept
    BY <2>2 DEF V!ScrollAssumption
  <2>4. /\ onAlternate \in BOOLEAN /\ lost \in BOOLEAN /\ trimming \in BOOLEAN
        /\ V_answered \in BOOLEAN /\ inFlight \in BOOLEAN
    BY <2>2, Zenon
  <2>5. /\ newest \in Nat /\ counted \in Nat /\ printedCount \in Nat /\ printed \in Nat
        /\ Rows <= newest /\ newest <= ScrollMaxPrinted /\ printed <= printedCount
        /\ printedCount = counted /\ printedCount <= counted
        /\ total \in Nat /\ total <= ScrollMaxPrinted /\ frame \in Nat
    BY <2>2, <2>3
  <2> QED
    BY <1>1, <2>1, <2>2, <2>3, <2>4, <2>5, Zenon DEF VTypes, ViewTypes
<1>3. asks = <<asked>> /\ answers = <<>> /\ inFlight /\ ~V_answered /\ printed = 0
  BY DEF V!Init
<1>4. asks \in Seq(Requests) /\ Len(asks) = 1 /\ asks[1] = asked
  BY <1>1, <1>3, OneQuestion, Zenon
<1>5. Queue
  <2>1. asks \in Seq(Questions) /\ Len(answers) = 0 /\ answers \in Seq(Windows)
    BY <1>3, <1>4 DEF Requests, Questions
  <2>2. \A p \in 1..Len(asks) : asks[p] = asked /\ p = 1
    BY <1>4
  <2> QED
    BY <1>1, <1>3, <1>4, <2>1, <2>2 DEF Queue, QueueTypes, OneOfAKind, AsAsked, StillOut,
       AsAnswered, Requests
<1>6. Unanswered /\ Within /\ OneCount
  BY DEF Unanswered, Within, V!Init, OneCount, V!NoLine, NoNames, V!NoBlock
<1>7. Settled
  BY <1>1, <1>3 DEF Settled
<1> QED
  BY <1>2, <1>5, <1>6, <1>7 DEF VInv, Queue

\* What a step that may ask leaves asked.
LEMMA AskingIs ==
    ASSUME V!ScrollAssumption, ViewTypes', NEW out \in BOOLEAN, asked \in Requests, V!Asking(out)
    PROVE  \/ /\ inFlight' = out /\ asked' = asked /\ asks' = asks
              /\ out \/ V!Wanted(offset', total', trimming', printed', block', selection')
                          \in {V!NoRequest, asked'}
           \/ /\ ~out /\ inFlight' = TRUE /\ asks' = Append(asks, asked')
              /\ asked' \in Requests /\ asked'.printed \in {0, printed'}
<1>1. block' \in Blocks /\ selection' \in -1..ScrollFar
  BY DEF ViewTypes, Blocks
<1> DEFINE want == V!Wanted(offset', total', trimming', printed', block', selection')
<1>2. \/ want = V!NoRequest
      \/ want \in Requests /\ want.printed \in {0, printed'}
  <2>1. /\ offset' \in 0..ScrollFar /\ total' \in Nat /\ trimming' \in BOOLEAN /\ printed' \in Nat
    BY DEF ViewTypes
  <2> QED
    BY <1>1, <2>1, WantedIs, Zenon
<1>3. \/ /\ out \/ want \in {V!NoRequest, asked}
         /\ inFlight' = out /\ asked' = asked /\ asks' = asks
      \/ /\ ~out /\ want # V!NoRequest
         /\ inFlight' = TRUE /\ asked' = want /\ asks' = Append(asks, want)
  BY DEF V!Asking
<1> HIDE DEF want
<1>4. \/ /\ inFlight' = out /\ asked' = asked /\ asks' = asks
         /\ out \/ want \in {V!NoRequest, asked'}
      \/ /\ ~out /\ inFlight' = TRUE /\ asks' = Append(asks, asked')
         /\ asked' \in Requests /\ asked'.printed \in {0, printed'}
  BY <1>2, <1>3
<1> QED
  BY <1>4 DEF want

\* The answers left when one may have been taken.
LEMMA Rest ==
    ASSUME QueueTypes,
           \/ answers' = answers
           \/ answers # <<>> /\ answers' = Tail(answers)
    PROVE  \E d \in {0, 1} :
             /\ d = 0 => answers' = answers
             /\ d = 1 => answers # <<>>
             /\ Len(answers') = Len(answers) - d /\ Len(answers') \in Nat
             /\ \A p \in 1..Len(answers') : answers'[p] = answers[p + d] /\ p + d \in 1..Len(answers)
<1>1. CASE answers' = answers
  BY <1>1 DEF QueueTypes
<1>2. CASE answers # <<>> /\ answers' = Tail(answers)
  BY <1>2 DEF QueueTypes
<1> QED
  BY <1>1, <1>2

\* A step of the view, which may ask, and may have taken an answer first: the
\* one to its question, and then it is out no more, or another.
LEMMA ViewKeepsQueue ==
    ASSUME V!ScrollAssumption, VTypes, ViewTypes', Queue, NEW out \in BOOLEAN, V!Asking(out),
           UNCHANGED V!session,
           \/ answers' = answers /\ out = inFlight
           \/ /\ answers # <<>> /\ answers' = Tail(answers)
              /\ IF Head(answers).kind = "view" THEN ~out ELSE out = inFlight,
           V_answered => V_answered',
           \/ printed' = printed
           \/ answers # <<>> /\ answers' = Tail(answers) /\ printed' = Head(answers).printed
    PROVE  Queue'
<1> USE DEF Queue
<1>1. asked \in Requests
  BY DEF VTypes, ViewTypes, Requests
<1>2. PICK d \in {0, 1} :
        /\ d = 0 => answers' = answers
        /\ d = 1 => answers # <<>>
        /\ Len(answers') = Len(answers) - d /\ Len(answers') \in Nat
        /\ \A p \in 1..Len(answers') : answers'[p] = answers[p + d] /\ p + d \in 1..Len(answers)
  BY Rest
<1>3. /\ asks \in Seq(Questions) /\ Len(asks) \in Nat /\ answers \in Seq(Windows)
      /\ Len(answers) \in Nat
  BY DEF QueueTypes
<1>4. answers # <<>> => Head(answers) = answers[1] /\ 1 \in 1..Len(answers)
  BY <1>3
<1>5. answers # <<>> /\ answers' = Tail(answers) => d = 1
  BY <1>2, <1>3
<1>6. \A p \in 1..Len(answers') :
        printed' <= answers'[p].printed /\ answers'[p].printed <= printedCount
  <2> TAKE p \in 1..Len(answers')
  <2>1. /\ answers'[p] = answers[p + d] /\ p + d \in 1..Len(answers)
        /\ printed <= answers[p + d].printed /\ answers[p + d].printed <= printedCount
    BY <1>2 DEF AsAnswered
  <2>2. d = 1 => answers[1].printed <= answers[p + d].printed
    BY <1>2, <1>4, <2>1 DEF AsAnswered
  <2> QED
    BY <1>4, <1>5, <2>1, <2>2
<1>7. \A p \in 1..Len(answers') : answers'[p].kind = "view" =>
        out /\ inFlight /\ Meets(answers'[p], asked)
  <2> SUFFICES ASSUME NEW p \in 1..Len(answers'), answers'[p].kind = "view"
               PROVE  out /\ inFlight /\ Meets(answers'[p], asked)
    OBVIOUS
  <2>1. answers'[p] = answers[p + d] /\ p + d \in 1..Len(answers)
    BY <1>2
  <2>2. inFlight /\ Meets(answers'[p], asked)
    BY <2>1 DEF AsAnswered
  <2>3. d = 1 => Head(answers).kind # "view"
    BY <1>3, <1>4, <1>2, <2>1 DEF OneOfAKind
  <2>4. out
    BY <1>2, <1>5, <2>2, <2>3
  <2> QED
    BY <2>2, <2>4
<1>8. \A p \in 1..Len(asks) : asks[p].kind = "view" => out
  <2> SUFFICES ASSUME NEW p \in 1..Len(asks), asks[p].kind = "view" PROVE out
    OBVIOUS
  <2>1. inFlight
    BY DEF AsAsked
  <2>2. answers # <<>> => Head(answers).kind # "view"
    BY <1>4 DEF OneOfAKind
  <2> QED
    BY <2>1, <2>2
<1>9. /\ answers' \in Seq(Windows)
      /\ \A p, q \in 1..Len(answers') : answers'[p].kind = answers'[q].kind => p = q
      /\ \A p \in 1..Len(asks), q \in 1..Len(answers') : asks[p].kind # answers'[q].kind
  <2>1. answers' \in Seq(Windows)
    BY <1>3
  <2>2. \A p, q \in 1..Len(answers') : answers'[p].kind = answers'[q].kind => p = q
    BY <1>2 DEF OneOfAKind
  <2>3. \A p \in 1..Len(asks), q \in 1..Len(answers') : asks[p].kind # answers'[q].kind
    BY <1>2, SMTT(30) DEF OneOfAKind
  <2> QED
    BY <2>1, <2>2, <2>3
<1>10. \A p \in 1..Len(answers') :
         /\ ~lost /\ answers'[p].newest # 0 => answers'[p].printed = answers'[p].newest
         /\ answers'[p].kind = "found" => V_answered /\ answers'[p].from < ScrollMaxPrinted
  BY <1>2 DEF AsAnswered
<1>11. \A p, q \in 1..Len(answers') : p <= q => answers'[p].printed <= answers'[q].printed
  <2> TAKE p, q \in 1..Len(answers')
  <2> HAVE p <= q
  <2>1. p + d <= q + d
    BY <1>2
  <2> QED
    BY <1>2, <2>1 DEF AsAnswered
<1>12. lost' = lost /\ printedCount' = printedCount
  BY DEF V!session
<1>13. CASE /\ inFlight' = out /\ asked' = asked /\ asks' = asks
  <2>1. QueueTypes' /\ OneOfAKind'
    BY <1>3, <1>9, <1>13 DEF QueueTypes, OneOfAKind
  <2>2. AsAsked'
    BY <1>8, <1>13 DEF AsAsked
  <2>3. AsAnswered'
    BY <1>6, <1>7, <1>10, <1>11, <1>12, <1>13 DEF AsAnswered, Meets
  <2>4. StillOut'
    <3> SUFFICES ASSUME out, \A p \in 1..Len(asks) : asks[p].kind # "view"
                 PROVE  \E p \in 1..Len(answers') : answers'[p].kind = "view"
      BY <1>13 DEF StillOut
    <3>1. inFlight /\ (d = 1 => Head(answers).kind # "view")
      <4>1. d = 1 => answers' # answers
        BY <1>2, <1>3
      <4>2. /\ answers' = answers => inFlight
            /\ answers' # answers => Head(answers).kind # "view" /\ inFlight
        BY Zenon
      <4> QED
        BY <4>1, <4>2
    <3>2. PICK p \in 1..Len(answers) : answers[p].kind = "view"
      BY <3>1 DEF StillOut
    <3>3. p - d \in 1..Len(answers')
      <4>1. d = 1 => p # 1
        BY <1>2, <1>4, <3>1, <3>2
      <4>2. Len(answers') = Len(answers) - d
        BY <1>2
      <4> QED
        BY <1>3, <3>2, <4>1, <4>2
    <3>4. answers'[p - d] = answers[p]
      BY <1>2, <1>3, <3>3
    <3> QED
      BY <3>2, <3>3, <3>4
  <2> QED
    BY <2>1, <2>2, <2>3, <2>4
<1>14. CASE /\ ~out /\ inFlight' = TRUE /\ asks' = Append(asks, asked') /\ asked' \in Requests
  <2>1. asked' \in Questions /\ asked'.kind = "view"
    BY <1>14 DEF Requests, Questions
  <2>2. /\ asks' \in Seq(Questions) /\ Len(asks') = Len(asks) + 1
        /\ asks'[Len(asks) + 1] = asked' /\ \A p \in 1..Len(asks) : asks'[p] = asks[p]
    BY <1>3, <1>14, <2>1
  <2>3. \A p \in 1..Len(answers') : answers'[p].kind # "view"
    BY <1>7, <1>14
  <2>4. \A p \in 1..Len(asks) : asks[p].kind # "view"
    BY <1>8, <1>14
  <2>5. QueueTypes' /\ OneOfAKind'
    <3>1. \A p, q \in 1..Len(asks') : asks'[p].kind = asks'[q].kind => p = q
      <4>1. \A p \in 1..Len(asks') :
              \/ p \in 1..Len(asks) /\ asks'[p].kind # "view"
              \/ p = Len(asks) + 1 /\ asks'[p].kind = "view"
        BY <1>3, <2>1, <2>2, <2>4
      <4> TAKE p, q \in 1..Len(asks')
      <4> HAVE asks'[p].kind = asks'[q].kind
      <4>2. CASE asks'[p].kind = "view"
        BY <4>1, <4>2
      <4>3. CASE asks'[p].kind # "view"
        <5>1. /\ p \in 1..Len(asks) /\ asks'[p] = asks[p]
              /\ q \in 1..Len(asks) /\ asks'[q] = asks[q]
          BY <4>1, <4>3, <2>2
        <5> QED
          BY <5>1 DEF OneOfAKind
      <4> QED
        BY <4>2, <4>3
    <3>2. \A p \in 1..Len(asks'), q \in 1..Len(answers') : asks'[p].kind # answers'[q].kind
      <4> TAKE p \in 1..Len(asks'), q \in 1..Len(answers')
      <4>1. CASE p \in 1..Len(asks)
        BY <4>1, <1>9, <2>2
      <4>2. CASE p = Len(asks) + 1
        BY <4>2, <2>1, <2>2, <2>3
      <4> QED
        BY <1>3, <2>2, <4>1, <4>2
    <3> QED
      BY <1>9, <2>2, <3>1, <3>2 DEF QueueTypes, OneOfAKind
  <2>6. AsAsked'
    BY <1>3, <1>14, <2>1, <2>2, <2>4 DEF AsAsked
  <2>7. AsAnswered'
    BY <1>6, <1>7, <1>10, <1>11, <1>12, <2>3 DEF AsAnswered
  <2>8. StillOut'
    BY <1>3, <2>1, <2>2 DEF StillOut
  <2> QED
    BY <2>5, <2>6, <2>7, <2>8
<1> QED
  BY <1>1, <1>13, <1>14, AskingIs, Zenon

(***************************************************************************)
(* The node.                                                               *)
(***************************************************************************)
LEMMA SessionKeeps ==
    ASSUME V!ScrollAssumption, VInv, UNCHANGED <<V!view, asks, answers, frame, names, printedCount>>,
           newest' \in Nat, counted' \in Nat, Rows <= newest', newest' <= ScrollMaxPrinted,
           printedCount <= counted', counted' <= newest',
           onAlternate' \in BOOLEAN, lost' \in BOOLEAN, lost => lost',
           ~lost' => printedCount = counted'
    PROVE  VInv'
<1> USE DEF VInv, V!view
<1>1. VTypes'
  BY DEF VTypes, ViewTypes
<1>2. QueueTypes' /\ OneOfAKind' /\ AsAsked' /\ StillOut'
  BY DEF QueueTypes, OneOfAKind, AsAsked, StillOut
<1>3. AsAnswered'
  BY DEF AsAnswered, Meets
<1>4. Unanswered' /\ Within'
  BY DEF Unanswered, Within
<1>5. OneCount'
  BY DEF OneCount
<1>6. Settled'
  BY DEF Settled
<1> QED
  BY <1>1, <1>2, <1>3, <1>4, <1>5, <1>6

\* The count and the lines there are to answer with.
LEMMA CountIs ==
    ASSUME V!ScrollAssumption, VTypes
    PROVE  /\ V!CountNow \in Nat /\ printedCount <= V!CountNow
           /\ onAlternate => V!CountNow = printedCount
           /\ ~onAlternate => V!CountNow <= newest /\ (~lost => V!CountNow = newest)
           /\ V!held \in Nat /\ Rows <= V!held /\ V!held <= ScrollKept /\ V!held <= ScrollMaxPrinted
           /\ ~onAlternate => V!here = newest
<1>1. /\ Rows \in Nat /\ Rows > 0 /\ ScrollKept \in Nat /\ Rows <= ScrollKept /\ Rows <= ScrollMaxPrinted
      /\ newest \in Nat /\ Rows <= newest /\ newest <= ScrollMaxPrinted /\ ScrollMaxPrinted \in Nat
      /\ printedCount \in Nat /\ counted \in Nat /\ printedCount <= counted /\ counted <= newest
      /\ ~lost => printedCount = counted
  BY DEF V!ScrollAssumption, VTypes, ViewTypes
<1>2. V!trimmed \in Nat /\ V!trimmed <= newest /\ newest - V!trimmed <= ScrollKept /\ newest - V!trimmed >= Rows
  BY <1>1 DEF V!trimmed, V!Less, V!Over
<1>3. V!held \in Nat /\ Rows <= V!held /\ V!held <= ScrollKept /\ V!held <= ScrollMaxPrinted
  BY <1>1, <1>2 DEF V!held
<1>4. ~onAlternate => V!here = newest
  BY <1>1, <1>2 DEF V!here, V!held
<1>5. CASE onAlternate
  BY <1>1, <1>3, <1>5 DEF V!CountNow
<1>6. CASE ~onAlternate
  <2>1. V!CountNow = printedCount + V!Less(newest, counted)
    BY <1>4, <1>6 DEF V!CountNow
  <2> QED
    BY <1>1, <1>3, <1>4, <1>6, <2>1 DEF V!Less, V!Over
<1> QED
  BY <1>5, <1>6

LEMMA AnswerKeeps == ASSUME V!ScrollAssumption, VInv, V!Answer PROVE VInv'
<1> USE DEF VInv
<1>1. VTypes /\ QueueTypes /\ asks # <<>>
  BY DEF V!Answer
<1>2. /\ Len(asks) \in Nat /\ 1 \in 1..Len(asks) /\ Head(asks) = asks[1] /\ asks[1] \in Questions
      /\ Len(answers) \in Nat
  BY <1>1 DEF QueueTypes
<1> DEFINE ask   == asks[1]
           from  == V!Upto(V!More(ask.from, V!moved(V!CountNow, ask.printed)), V!held - 1)
           lines == V!Upto(ask.lines, V!held - from)
           win   == [kind |-> ask.kind, printed |-> V!CountNow, total |-> V!held,
                     from |-> IF ask.kind = "view" THEN from ELSE ask.from,
                     lines |-> IF ask.kind = "view" THEN lines ELSE 1,
                     newest |-> V!lineAt(newest)]
<1>3. /\ answers' = Append(answers, win) /\ asks' = Tail(asks)
      /\ printedCount' = V!CountNow /\ counted' = (IF onAlternate THEN counted ELSE V!here)
      /\ UNCHANGED <<newest, onAlternate, lost, V!view, frame, names>>
  BY <1>2, Zenon DEF V!Answer
<1>4. VTypes'
  <2>1. /\ printedCount' \in Nat /\ printedCount <= printedCount' /\ counted' \in Nat
        /\ printedCount' <= counted' /\ counted' <= newest
        /\ ~lost => printedCount' = counted'
    BY <1>1, <1>3, CountIs, SMTT(30) DEF VTypes, ViewTypes
  <2> QED
    BY <1>1, <1>3, <2>1 DEF VTypes, ViewTypes, V!view
<1>5. /\ ask.from \in 0..ScrollFar /\ ask.printed \in Nat /\ ask.lines \in Nat
      /\ ask.kind \in {"view", "found"}
  BY <1>2 DEF Questions
<1>6. /\ V!CountNow \in Nat /\ printedCount <= V!CountNow /\ V!held \in Nat /\ Rows <= V!held
      /\ V!held <= ScrollKept /\ V!held <= ScrollMaxPrinted /\ Rows \in Nat /\ Rows > 0 /\ ScrollFar \in Nat
      /\ ScrollMaxPrinted < ScrollFar /\ ScrollKept \in Nat
  BY <1>1, CountIs DEF V!ScrollAssumption
<1>7. V!moved(V!CountNow, ask.printed) \in Nat
  BY <1>5, <1>6 DEF V!moved, V!Less, V!Over
<1>8. from \in 0..ScrollFar /\ from < V!held /\ lines \in Nat
  BY <1>5, <1>6, <1>7 DEF V!Upto, V!More
<1>9. win \in Windows
  <2>1. V!lineAt(newest) \in Nat
    BY <1>1 DEF V!lineAt, VTypes, ViewTypes
  <2> QED
    BY <1>5, <1>6, <1>8, <2>1 DEF Windows
<1>10. ask.kind = "view" => inFlight /\ Meets(win, asked)
  <2> SUFFICES ASSUME ask.kind = "view" PROVE inFlight /\ Meets(win, asked)
    OBVIOUS
  <2>1. inFlight /\ ask = asked
    BY <1>2 DEF AsAsked
  <2>2. /\ win.total = V!held /\ win.printed = V!CountNow /\ win.from = from /\ win.lines = lines
    OBVIOUS
  <2> QED
    BY <1>6, <2>1, <2>2 DEF Meets
<1>11. ask.kind = "found" => V_answered /\ win.from < ScrollMaxPrinted
  BY <1>2 DEF AsAsked
<1>12. ~lost /\ win.newest # 0 => win.printed = win.newest
  BY <1>1, CountIs DEF V!lineAt
<1>13. win.kind = ask.kind /\ win.printed = V!CountNow
  OBVIOUS
<1> HIDE DEF ask, win
<1>14. /\ Len(answers') = Len(answers) + 1 /\ answers' \in Seq(Windows)
       /\ answers'[Len(answers) + 1] = win
       /\ \A p \in 1..Len(answers) : answers'[p] = answers[p]
  BY <1>1, <1>3, <1>9 DEF QueueTypes
<1>15. /\ asks' \in Seq(Questions) /\ Len(asks') = Len(asks) - 1 /\ Len(asks') \in Nat
       /\ \A p \in 1..Len(asks') : asks'[p] = asks[p + 1] /\ p + 1 \in 1..Len(asks)
  BY <1>1, <1>2, <1>3 DEF QueueTypes
<1>16. \A p \in 1..Len(answers') :
         \/ p \in 1..Len(answers) /\ answers'[p] = answers[p] /\ answers[p].kind # ask.kind
         \/ p = Len(answers) + 1 /\ answers'[p] = win
  BY <1>2, <1>14 DEF OneOfAKind, ask
<1>17. OneOfAKind'
  <2>1. \A p, q \in 1..Len(asks') : asks'[p].kind = asks'[q].kind => p = q
    BY <1>2, <1>15 DEF OneOfAKind
  <2>2. \A p, q \in 1..Len(answers') : answers'[p].kind = answers'[q].kind => p = q
    <3> TAKE p, q \in 1..Len(answers')
    <3> HAVE answers'[p].kind = answers'[q].kind
    <3>1. CASE p = Len(answers) + 1 /\ q = Len(answers) + 1
      BY <3>1
    <3>2. CASE p \in 1..Len(answers) /\ answers'[p] = answers[p] /\ answers[p].kind # ask.kind
      <4>1. answers'[q] # win
        BY <1>13, <3>2
      <4>2. q \in 1..Len(answers) /\ answers'[q] = answers[q]
        BY <1>16, <4>1
      <4> QED
        BY <3>2, <4>2 DEF OneOfAKind
    <3>3. CASE q \in 1..Len(answers) /\ answers'[q] = answers[q] /\ answers[q].kind # ask.kind
      <4>1. answers'[p] # win
        BY <1>13, <3>3
      <4>2. p \in 1..Len(answers) /\ answers'[p] = answers[p]
        BY <1>16, <4>1
      <4> QED
        BY <3>3, <4>2 DEF OneOfAKind
    <3> QED
      BY <1>16, <3>1, <3>2, <3>3
  <2>3. \A p \in 1..Len(asks'), q \in 1..Len(answers') : asks'[p].kind # answers'[q].kind
    <3> TAKE p \in 1..Len(asks'), q \in 1..Len(answers')
    <3>1. asks'[p] = asks[p + 1] /\ p + 1 \in 1..Len(asks) /\ asks[p + 1].kind # ask.kind
      BY <1>2, <1>15 DEF OneOfAKind, ask
    <3> QED
      BY <1>13, <1>16, <3>1 DEF OneOfAKind
  <2> QED
    BY <2>1, <2>2, <2>3 DEF OneOfAKind
<1>18. QueueTypes' /\ AsAsked'
  BY <1>3, <1>14, <1>15 DEF QueueTypes, AsAsked, V!view
<1>19. AsAnswered'
  <2>1. /\ printedCount' = V!CountNow /\ lost' = lost /\ inFlight' = inFlight /\ asked' = asked
        /\ V_answered' = V_answered /\ printed' = printed /\ printed <= V!CountNow
    BY <1>1, <1>3, <1>6 DEF V!view, VTypes, ViewTypes
  <2> DEFINE Fits(w) == /\ printed <= w.printed /\ w.printed <= V!CountNow
                        /\ ~lost /\ w.newest # 0 => w.printed = w.newest
                        /\ w.kind = "view" => inFlight /\ Meets(w, asked)
                        /\ w.kind = "found" => V_answered /\ w.from < ScrollMaxPrinted
  <2>2. \A p \in 1..Len(answers') : Fits(answers'[p])
    <3>1. Fits(win)
      <4>1. printed <= win.printed /\ win.printed <= V!CountNow
        BY <1>6, <1>13, <2>1
      <4> QED
        <5>1. win.kind = "view" => inFlight /\ Meets(win, asked)
          BY <1>10, <1>13
        <5>2. win.kind = "found" => V_answered /\ win.from < ScrollMaxPrinted
          BY <1>11, <1>13
        <5> QED
          BY <1>12, <4>1, <5>1, <5>2, Zenon
    <3>2. \A p \in 1..Len(answers) : Fits(answers[p])
      <4> TAKE p \in 1..Len(answers)
      <4>1. answers[p].printed \in Nat
        <5>1. answers \in Seq(Windows)
          BY DEF QueueTypes
        <5>2. answers[p] \in Windows
          BY <5>1
        <5> QED
          BY <5>2 DEF Windows
      <4>2. /\ printed <= answers[p].printed /\ answers[p].printed <= printedCount
            /\ ~lost /\ answers[p].newest # 0 => answers[p].printed = answers[p].newest
            /\ answers[p].kind = "view" => inFlight /\ Meets(answers[p], asked)
            /\ answers[p].kind = "found" => V_answered /\ answers[p].from < ScrollMaxPrinted
        BY DEF AsAnswered
      <4>3. answers[p].printed <= V!CountNow
        BY <4>1, <4>2, <1>1, <1>6, SMTT(30) DEF VTypes, ViewTypes
      <4> QED
        BY <4>2, <4>3, Zenon
    <3> HIDE DEF Fits
    <3> QED
      BY <1>16, <3>1, <3>2, Zenon
  <2>3. \A p, q \in 1..Len(answers') : p <= q => answers'[p].printed <= answers'[q].printed
    BY <1>2, <1>13, <1>14, <1>16, <2>2, <1>6 DEF AsAnswered
  <2> QED
    BY <2>1, <2>2, <2>3 DEF AsAnswered, Meets
<1>20. Unanswered' /\ Within' /\ OneCount' /\ Settled'
  BY <1>3 DEF Unanswered, Within, OneCount, Settled, V!view
<1>21. StillOut'
  <2> SUFFICES ASSUME inFlight
               PROVE  \/ \E p \in 1..Len(asks') : asks'[p].kind = "view"
                      \/ \E p \in 1..Len(answers') : answers'[p].kind = "view"
    BY <1>3 DEF StillOut, V!view
  <2>1. CASE \E p \in 1..Len(answers) : answers[p].kind = "view"
    BY <1>2, <1>14, <2>1
  <2>2. CASE ask.kind = "view"
    BY <1>2, <1>13, <1>14, <2>2
  <2>3. ASSUME NEW p \in 1..Len(asks), p # 1, asks[p].kind = "view"
        PROVE  \E m \in 1..Len(asks') : asks'[m].kind = "view"
    <3>1. p - 1 \in 1..Len(asks')
      BY <1>2, <1>15, <2>3
    <3>2. asks'[p - 1] = asks[p]
      BY <1>15, <3>1
    <3> QED
      BY <2>3, <3>1, <3>2
  <2> QED
    BY <2>1, <2>2, <2>3 DEF StillOut, ask
<1> QED
  BY <1>4, <1>17, <1>18, <1>19, <1>20, <1>21

LEMMA SearchKeeps ==
    ASSUME V!ScrollAssumption, VInv, NEW line \in Matches, V!Search(line) PROVE VInv'
<1> USE DEF VInv
<1>1. VTypes /\ QueueTypes /\ line \in Nat /\ line < ScrollMaxPrinted /\ line \in 0..ScrollFar /\ V_answered
  <2>1. VTypes /\ QueueTypes /\ line < V!held /\ V_answered
    BY DEF V!Search
  <2> QED
    BY <2>1, CountIs DEF V!ScrollAssumption
<1> DEFINE ask == [kind |-> "found", from |-> line, lines |-> 1, printed |-> 0]
<1>2. ask \in Questions /\ ask.kind = "found" /\ ask.from = line
  BY <1>1 DEF Questions
<1>3. /\ asks' = Append(asks, ask) /\ UNCHANGED <<V!session, V!view, answers, frame, names>>
      /\ \A p \in DOMAIN asks : asks[p].kind # "found"
      /\ \A p \in DOMAIN answers : answers[p].kind # "found"
  BY Zenon DEF V!Search
<1> HIDE DEF ask
<1>4. /\ asks' \in Seq(Questions) /\ Len(asks') = Len(asks) + 1 /\ Len(asks) \in Nat
      /\ asks'[Len(asks) + 1] = ask /\ \A p \in 1..Len(asks) : asks'[p] = asks[p]
      /\ Len(answers) \in Nat
      /\ \A p \in 1..Len(asks) : asks[p].kind # "found"
      /\ \A p \in 1..Len(answers) : answers[p].kind # "found"
  BY <1>1, <1>2, <1>3 DEF QueueTypes
<1>5. \A p \in 1..Len(asks') :
        \/ p \in 1..Len(asks) /\ asks'[p] = asks[p] /\ asks'[p].kind # "found"
        \/ p = Len(asks) + 1 /\ asks'[p] = ask
  BY <1>4
<1>6. OneOfAKind'
  <2>1. \A p, q \in 1..Len(asks') : asks'[p].kind = asks'[q].kind => p = q
    <3> TAKE p, q \in 1..Len(asks')
    <3> HAVE asks'[p].kind = asks'[q].kind
    <3>1. CASE asks'[p].kind = "found"
      BY <1>5, <3>1
    <3>2. CASE asks'[p].kind # "found"
      <4>1. /\ p \in 1..Len(asks) /\ asks'[p] = asks[p]
            /\ q \in 1..Len(asks) /\ asks'[q] = asks[q]
        BY <1>2, <1>5, <3>2
      <4> QED
        BY <4>1 DEF OneOfAKind
    <3> QED
      BY <3>1, <3>2
  <2>2. \A p \in 1..Len(asks'), q \in 1..Len(answers') : asks'[p].kind # answers'[q].kind
    BY <1>2, <1>3, <1>4, <1>5 DEF OneOfAKind
  <2> QED
    BY <1>3, <2>1, <2>2 DEF OneOfAKind
<1>7. QueueTypes' /\ AsAsked'
  <2>1. AsAsked'
    <3> SUFFICES ASSUME NEW p \in 1..Len(asks')
                 PROVE  /\ asks'[p].kind = "view" => inFlight /\ asks'[p] = asked
                        /\ asks'[p].kind = "found" => V_answered /\ asks'[p].from < ScrollMaxPrinted
      BY <1>3, Zenon DEF AsAsked, V!view
    <3>1. CASE p \in 1..Len(asks) /\ asks'[p] = asks[p]
      BY <3>1 DEF AsAsked
    <3>2. CASE asks'[p] = ask
      BY <3>2, <1>1, <1>2
    <3> QED
      BY <1>5, <3>1, <3>2
  <2> QED
    BY <1>3, <1>4, <2>1 DEF QueueTypes
<1>8. VTypes' /\ AsAnswered' /\ Unanswered' /\ Within' /\ OneCount' /\ Settled'
  BY <1>3 DEF VTypes, ViewTypes, AsAnswered, Meets, Unanswered, Within, OneCount, Settled, V!view, V!session
<1>9. StillOut'
  <2>1. \A p \in 1..Len(asks) : p \in 1..Len(asks')
    BY <1>4
  <2> QED
    BY <1>3, <1>4, <2>1 DEF StillOut, V!view
<1> QED
  BY <1>6, <1>7, <1>8, <1>9

(***************************************************************************)
(* The view.                                                               *)
(***************************************************************************)

\* What asking leaves of the client's own.
LEMMA AskingSettles ==
    ASSUME V!ScrollAssumption, ViewTypes', asked \in Requests, NEW out \in BOOLEAN, V!Asking(out),
           asked.printed <= printed',
           ~out => V_answered' /\ AnsweredBy(block', asked, total', printed')
    PROVE  /\ inFlight' \in BOOLEAN /\ asked' \in Requests /\ (out => inFlight')
           /\ Settled'
<1>1. printed' \in Nat
  BY DEF ViewTypes
<1>2. CASE /\ inFlight' = out /\ asked' = asked /\ asks' = asks
           /\ out \/ V!Wanted(offset', total', trimming', printed', block', selection')
                       \in {V!NoRequest, asked'}
  BY <1>2 DEF Settled
<1>3. CASE /\ ~out /\ inFlight' = TRUE /\ asks' = Append(asks, asked')
           /\ asked' \in Requests /\ asked'.printed \in {0, printed'}
  BY <1>1, <1>3 DEF Settled
<1> QED
  BY <1>2, <1>3, AskingIs, Zenon

NameTypes == [block: Int, sel: Int, match: Int, window: Int]

\* A step of the view, of which what it leaves in hand is as it should be.
LEMMA ViewKeeps ==
    ASSUME V!ScrollAssumption, VInv, NEW out \in BOOLEAN, V!Asking(out), UNCHANGED V!session,
           \/ answers' = answers /\ out = inFlight
           \/ /\ answers # <<>> /\ answers' = Tail(answers)
              /\ IF Head(answers).kind = "view" THEN ~out ELSE out = inFlight,
           V_answered => V_answered',
           \/ printed' = printed
           \/ answers # <<>> /\ answers' = Tail(answers) /\ printed' = Head(answers).printed,
           ViewTypes', frame' \in Nat, names' \in NameTypes, Within', OneCount',
           ~V_answered' => ~V_answered /\ out /\ UNCHANGED <<printed, frame, block, match, names>>,
           ~out => V_answered' /\ AnsweredBy(block', asked, total', printed')
    PROVE  VInv'
<1> USE DEF VInv
<1>1. asked \in Requests /\ VTypes /\ Queue
  BY DEF VTypes, Queue
<1>2. Queue'
  BY <1>1, ViewKeepsQueue
<1>3. printed <= printed' /\ printed' <= printedCount
  <2>1. answers # <<>> => Head(answers) = answers[1] /\ 1 \in 1..Len(answers)
    BY DEF QueueTypes
  <2>2. answers # <<>> => printed <= answers[1].printed /\ answers[1].printed <= printedCount
    BY <2>1 DEF AsAnswered
  <2>3. printed <= printed /\ printed <= printedCount
    BY <1>1 DEF VTypes, ViewTypes
  <2>4. printed' \in {printed, Head(answers).printed}
    OBVIOUS
  <2>5. printed' # printed => answers # <<>>
    OBVIOUS
  <2> QED
    BY <2>1, <2>2, <2>3, <2>4, <2>5
<1>4. asked.printed \in Nat /\ asked.printed <= printed'
  <2>1. asked.printed \in Nat
    BY <1>1 DEF Requests
  <2>2. asked.printed <= printed
    BY DEF Settled
  <2>3. printed \in Nat /\ printed' \in Nat
    BY <1>1 DEF VTypes, ViewTypes
  <2> QED
    BY <1>3, <2>1, <2>2, <2>3
<1>5. inFlight' \in BOOLEAN /\ asked' \in Requests /\ (out => inFlight') /\ Settled'
  BY <1>1, <1>4, AskingSettles
<1>6. VTypes'
  BY <1>1, <1>3, <1>5 DEF VTypes, V!session, NameTypes
<1>7. Unanswered'
  BY <1>5 DEF Unanswered
<1> QED
  BY <1>2, <1>5, <1>6, <1>7 DEF Queue

LEMMA ConstantsAre ==
    ASSUME V!ScrollAssumption
    PROVE  /\ Rows \in Nat /\ Rows > 0 /\ ScrollKept \in Nat /\ ScrollMaxPrinted \in Nat /\ ScrollFar \in Nat
           /\ Rows <= ScrollMaxPrinted /\ 2 * ScrollMaxPrinted < ScrollFar /\ Rows <= ScrollKept
  BY DEF V!ScrollAssumption

\* What is named of a line is named of the count in hand.
LEMMA NamedIs ==
    ASSUME VInv, NEW back \in Int
    PROVE  /\ V!Named(frame, back) \in Int
           /\ ~lost => /\ V!Named(frame, back) # 0 => printed - back = V!Named(frame, back)
                       /\ printed = 0 => V!Named(frame, back) = 0
  BY DEF VInv, VTypes, ViewTypes, OneCount, V!Named

LEMMA MovesKeeps ==
    ASSUME V!ScrollAssumption, VInv, NEW off \in V!Reach, V!Moves(off) PROVE VInv'
<1>1. VTypes /\ ViewTypes /\ inFlight \in BOOLEAN /\ V!Asking(inFlight)
  BY DEF VInv, VTypes, V!Moves
<1>2. /\ offset' = IF V_answered THEN V!Upto(off, V!furthest(total)) ELSE off
      /\ names' = [names EXCEPT !.window =
                      IF V_answered /\ offset' # 0 THEN V!Named(frame, offset') ELSE 0]
      /\ UNCHANGED <<total, printed, trimming, V_answered, block, selection, match>>
      /\ UNCHANGED <<V!session, answers, frame>>
  BY Zenon DEF V!Moves
<1>3. off \in Nat /\ (~V_answered => off <= ScrollFar)
  BY <1>1, ConstantsAre DEF V!Reach, ViewTypes, V!Less, V!Over
<1>4. /\ offset' \in 0..ScrollFar /\ (V_answered => Rows <= total /\ offset' <= ScrollMaxPrinted - Rows)
  <2>1. CASE V_answered
    <3>1. total \in Nat /\ total <= ScrollMaxPrinted /\ Rows <= total
      BY <1>1, <2>1 DEF ViewTypes, VInv, Within
    <3>2. offset' = V!Upto(off, V!furthest(total))
      BY <1>2, <2>1
    <3> QED
      BY <1>3, <3>1, <3>2, ConstantsAre DEF V!Upto, V!furthest, V!Less, V!Over
  <2>2. CASE ~V_answered
    BY <1>2, <1>3, <2>2
  <2> QED
    BY <2>1, <2>2
<1>5. /\ names \in NameTypes /\ names' \in NameTypes /\ names'.block = names.block
      /\ names'.sel = names.sel /\ names'.match = names.match
      /\ names'.window \in {0, V!Named(frame, offset')}
      /\ ~V_answered => names'.window = 0
  <2>1. names \in NameTypes /\ offset' \in Int
    BY <1>1, <1>4 DEF VTypes, NameTypes
  <2>2. V!Named(frame, offset') \in Int
    BY <2>1, NamedIs
  <2> DEFINE now == IF V_answered /\ offset' # 0 THEN V!Named(frame, offset') ELSE 0
  <2>3. now \in Int /\ now \in {0, V!Named(frame, offset')} /\ (~V_answered => now = 0)
    BY <2>2
  <2>4. names' = [names EXCEPT !.window = now]
    BY <1>2
  <2> HIDE DEF now
  <2> QED
    BY <2>1, <2>3, <2>4 DEF NameTypes
<1>6. ViewTypes'
  BY <1>1, <1>2, <1>4 DEF ViewTypes
<1>7. Within'
  BY <1>1, <1>2, <1>4, ConstantsAre DEF Within, VInv, ViewTypes
<1>8. OneCount'
  <2>1. printed = 0 /\ ~lost => names'.window = 0
    BY <1>4, <1>5, NamedIs
  <2>2. printed = 0 /\ ~lost => names' = NoNames
    BY <2>1, <1>5 DEF VInv, OneCount, NoNames, NameTypes
  <2>3. names'.window # 0 /\ ~lost => printed - offset' = names'.window
    BY <1>4, <1>5, NamedIs
  <2> QED
    BY <1>2, <1>5, <2>2, <2>3 DEF VInv, OneCount, V!session
<1>9. ~V_answered => inFlight /\ names' = names
  BY <1>5 DEF VInv, Unanswered, NoNames, NameTypes
<1>10. ~inFlight => V_answered' /\ AnsweredBy(block', asked, total', printed')
  BY <1>2 DEF VInv, Settled
<1>11. frame' \in Nat
  BY <1>1, <1>2 DEF VTypes
<1> QED
  BY <1>1, <1>2, <1>5, <1>6, <1>7, <1>8, <1>9, <1>10, <1>11, ViewKeeps

LEMMA SelectFromKeeps ==
    ASSUME V!ScrollAssumption, VInv, NEW itsRow \in Pressed, V!SelectFrom(itsRow) PROVE VInv'
<1>1. VTypes /\ ViewTypes /\ inFlight \in BOOLEAN /\ V!Asking(inFlight)
  BY DEF VInv, VTypes, V!SelectFrom
<1>2. /\ selection' = V!More(offset, itsRow)
      /\ names' = [names EXCEPT !.sel = IF V_answered THEN V!Named(frame, offset + itsRow) ELSE 0]
      /\ UNCHANGED <<offset, total, printed, trimming, V_answered, block, match>>
      /\ UNCHANGED <<V!session, answers, frame>>
  BY Zenon DEF V!SelectFrom
<1>3. itsRow \in Nat /\ itsRow < Rows
  BY ConstantsAre DEF V!ScrollAssumption
<1>4. /\ selection' \in 0..ScrollFar /\ offset + itsRow \in Int
      /\ V_answered => selection' = offset + itsRow /\ selection' <= ScrollMaxPrinted + printed
  <2>1. offset \in 0..ScrollFar /\ printed \in Nat /\ printed <= ScrollMaxPrinted
    BY <1>1, ConstantsAre DEF ViewTypes, VTypes
  <2>2. V_answered => offset <= ScrollMaxPrinted - Rows + printed
    BY DEF VInv, Within
  <2> QED
    BY <1>2, <1>3, <2>1, <2>2, ConstantsAre DEF V!More, V!Upto
<1>5. /\ names \in NameTypes /\ names' \in NameTypes /\ names'.block = names.block
      /\ names'.window = names.window /\ names'.match = names.match
      /\ names'.sel \in {0, V!Named(frame, offset + itsRow)}
      /\ ~V_answered => names'.sel = 0
  <2>1. names \in NameTypes
    BY <1>1 DEF VTypes, NameTypes
  <2>2. V!Named(frame, offset + itsRow) \in Int
    BY <1>4, NamedIs
  <2> DEFINE now == IF V_answered THEN V!Named(frame, offset + itsRow) ELSE 0
  <2>3. now \in Int /\ now \in {0, V!Named(frame, offset + itsRow)} /\ (~V_answered => now = 0)
    BY <2>2
  <2>4. names' = [names EXCEPT !.sel = now]
    BY <1>2
  <2> HIDE DEF now
  <2> QED
    BY <2>1, <2>3, <2>4 DEF NameTypes
<1>6. ViewTypes'
  BY <1>1, <1>2, <1>4 DEF ViewTypes
<1>7. Within'
  BY <1>2 DEF Within, VInv
<1>8. OneCount'
  <2>1. printed = 0 /\ ~lost => names'.sel = 0
    BY <1>4, <1>5, NamedIs
  <2>2. printed = 0 /\ ~lost => names' = NoNames
    BY <2>1, <1>5 DEF VInv, OneCount, NoNames, NameTypes
  <2>3. names'.sel # 0 /\ ~lost =>
          printed - selection' = names'.sel /\ selection' <= ScrollMaxPrinted + printed
    BY <1>4, <1>5, NamedIs
  <2> QED
    BY <1>2, <1>5, <2>2, <2>3 DEF VInv, OneCount, V!session
<1>9. ~V_answered => inFlight /\ names' = names
  BY <1>5 DEF VInv, Unanswered, NoNames, NameTypes
<1>10. ~inFlight => V_answered' /\ AnsweredBy(block', asked, total', printed')
  BY <1>2 DEF VInv, Settled
<1>11. frame' \in Nat
  BY <1>1, <1>2 DEF VTypes
<1> QED
  BY <1>1, <1>2, <1>5, <1>6, <1>7, <1>8, <1>9, <1>10, <1>11, ViewKeeps

\* By how much an answer moves what names a line: as far as the newest line has,
\* from a count the client has to another.
LEMMA FollowedIs ==
    ASSUME V!ScrollAssumption, VInv, answers # <<>>
    PROVE  LET now == answers[1].printed
               by  == V!Followed(now) IN
           /\ Head(answers) = answers[1] /\ answers[1] \in Windows
           /\ now \in Nat /\ printed <= now /\ now <= ScrollMaxPrinted
           /\ printed \in Nat /\ by \in Nat
           /\ now = 0 => printed = 0
           /\ V_answered /\ printed # 0 => by = now - printed
           /\ printed = 0 \/ ~V_answered => by = 0
           /\ printed + by <= now
           /\ answers[1].newest \in Nat
           /\ ~lost /\ answers[1].newest # 0 => now = answers[1].newest
<1>1. /\ Head(answers) = answers[1] /\ answers[1] \in Windows /\ 1 \in 1..Len(answers)
  BY DEF VInv, QueueTypes
<1>2. /\ answers[1].printed \in Nat /\ answers[1].newest \in Nat
  BY <1>1 DEF Windows
<1>3. /\ printed <= answers[1].printed /\ answers[1].printed <= printedCount
      /\ ~lost /\ answers[1].newest # 0 => answers[1].printed = answers[1].newest
  BY <1>1 DEF VInv, AsAnswered
<1>4. /\ printed \in Nat /\ printedCount \in Nat /\ printedCount <= ScrollMaxPrinted
      /\ ~V_answered => printed = 0
  BY ConstantsAre, SMTT(30) DEF VInv, VTypes, ViewTypes, Unanswered
<1> DEFINE now == answers[1].printed
<1>5. /\ V!Followed(now) \in Nat
      /\ V_answered /\ printed # 0 => V!Followed(now) = now - printed
      /\ printed = 0 \/ ~V_answered => V!Followed(now) = 0
  BY <1>2, <1>3, <1>4 DEF V!Followed, V!moved, V!Less, V!Over
<1> HIDE DEF now
<1> QED
  BY <1>1, <1>2, <1>3, <1>4, <1>5, ConstantsAre, SMTT(30) DEF now

\* Nothing counted from the count in hand is moved as far as Far.
LEMMA CarriedIs ==
    ASSUME V!ScrollAssumption, NEW back \in 0..ScrollFar, NEW by \in Nat, NEW count \in Nat,
           NEW now \in Nat, count + by <= now, now <= ScrollMaxPrinted
    PROVE  /\ V!More(back, by) \in 0..ScrollFar /\ back <= V!More(back, by)
           /\ by = 0 => V!More(back, by) = back
           /\ back <= ScrollMaxPrinted + count =>
                V!More(back, by) = back + by /\ V!More(back, by) <= ScrollMaxPrinted + now
           /\ back <= ScrollMaxPrinted - Rows + count => V!More(back, by) <= ScrollMaxPrinted - Rows + now
<1>1. /\ back + by < ScrollFar => V!More(back, by) = back + by
      /\ ~(back + by < ScrollFar) => V!More(back, by) = ScrollFar
  BY DEF V!More, V!Upto
<1>2. back <= ScrollMaxPrinted + count => back + by <= ScrollMaxPrinted + now /\ ScrollMaxPrinted + now < ScrollFar
  BY ConstantsAre
<1> QED
  BY <1>1, <1>2, ConstantsAre

\* What was named of a line is named of it in the count the answer brings.
LEMMA NameCarried ==
    ASSUME V!ScrollAssumption, VInv, answers # <<>>, ~lost, NEW back \in -1..ScrollFar, NEW itsName \in Int,
           itsName # 0, back # V!NoLine, printed # 0, V_answered,
           printed - back = itsName, back <= ScrollMaxPrinted + printed
    PROVE  /\ answers[1].printed - V!More(back, V!Followed(answers[1].printed)) = itsName
           /\ V!More(back, V!Followed(answers[1].printed)) <= ScrollMaxPrinted + answers[1].printed
<1>1. PICK now \in Nat, by \in Nat : /\ now = answers[1].printed /\ by = V!Followed(now)
                                     /\ by = now - printed /\ now <= ScrollMaxPrinted /\ printed \in Nat
                                     /\ printed + by <= now
  BY FollowedIs
<1>2. back \in 0..ScrollFar
  BY ConstantsAre DEF V!NoLine
<1>3. V!More(back, by) = back + by /\ V!More(back, by) <= ScrollMaxPrinted + now
  BY <1>1, <1>2, CarriedIs
<1> QED
  BY <1>1, <1>2, <1>3, SMTT(30)

LEMMA TakeKeeps == ASSUME V!ScrollAssumption, VInv, V!Take PROVE VInv'
<1> DEFINE win == answers[1]
           now == win.printed
           by  == V!Followed(now)
           off == IF offset = 0 THEN 0 ELSE V!More(offset, by)
<1>1. answers # <<>> /\ Head(answers) = win /\ win.kind = "view" /\ 1 \in 1..Len(answers)
  <2>1. answers # <<>> /\ Head(answers).kind = "view"
    BY DEF V!Take
  <2> QED
    BY <2>1, FollowedIs DEF VInv, QueueTypes
<1>2. /\ win \in Windows /\ now \in Nat /\ now <= ScrollMaxPrinted /\ printed \in Nat /\ by \in Nat
      /\ now = 0 => printed = 0
      /\ printed + by <= now /\ win.newest \in Nat
      /\ ~lost /\ win.newest # 0 => now = win.newest
  BY <1>1, FollowedIs
<1>3. /\ trimming' = (V!moved(now, printed) > 0 /\ win.total = total)
      /\ V!Follow(now, by)
      /\ total' = win.total /\ V_answered' = TRUE
      /\ offset' = V!Upto(off, V!furthest(win.total))
      /\ block' = [from |-> win.from, lines |-> win.lines]
      /\ match' = IF match = V!NoLine THEN V!NoLine ELSE V!More(match, by)
      /\ frame' = win.newest
      /\ names' = [names EXCEPT
             !.block = V!Named(win.newest, win.from),
             !.sel = IF V_answered THEN @ ELSE 0,
             !.window = IF ~V_answered \/ offset' # off THEN 0 ELSE @]
      /\ V!Asking(FALSE) /\ answers' = Tail(answers) /\ UNCHANGED V!session
  BY <1>1, Zenon DEF V!Take
<1>4. /\ printed' = now
      /\ selection' = IF selection = V!NoLine THEN V!NoLine ELSE V!More(selection, by)
  BY <1>2, <1>3 DEF V!Follow
<1>5. VTypes /\ ViewTypes /\ Meets(win, asked) /\ asked \in Requests
  BY <1>1 DEF VInv, AsAnswered, VTypes
<1>6. /\ win.total \in Nat /\ Rows <= win.total /\ win.total <= ScrollKept /\ win.total <= ScrollMaxPrinted
      /\ win.from \in 0..ScrollFar /\ win.from <= win.total - 1 /\ win.lines \in 0..ScrollKept
  <2>1. /\ win.total \in Nat /\ win.from \in 0..ScrollFar /\ win.lines \in Nat
    BY <1>2 DEF Windows
  <2>2. /\ Rows <= win.total /\ win.total <= ScrollKept /\ win.total <= ScrollMaxPrinted
        /\ win.from = V!Upto(V!More(asked.from, V!moved(win.printed, asked.printed)), win.total - 1)
        /\ win.lines = V!Upto(asked.lines, win.total - win.from)
    BY <1>5 DEF Meets
  <2>3. asked.from \in Nat /\ V!More(asked.from, V!moved(win.printed, asked.printed)) \in Int
    BY <1>2, <1>5, ConstantsAre DEF Requests, V!More, V!Upto, V!moved, V!Less, V!Over
  <2> QED
    BY <2>1, <2>2, <2>3, ConstantsAre DEF V!Upto
<1>7. offset \in 0..ScrollFar /\ selection \in -1..ScrollFar /\ match \in -1..ScrollFar /\ names \in NameTypes
  BY <1>5 DEF ViewTypes, VTypes, NameTypes
<1>8. \A back \in 0..ScrollFar : V!More(back, by) \in 0..ScrollFar
  BY <1>2, CarriedIs
<1> HIDE DEF win, now, by
<1>9. off \in 0..ScrollFar
  BY <1>7, <1>8, ConstantsAre
<1>10. offset' \in 0..ScrollFar /\ offset' <= ScrollMaxPrinted - Rows
  <2> HIDE DEF off
  <2> QED
    BY <1>3, <1>6, <1>9, ConstantsAre, SMTT(30) DEF V!Upto, V!furthest, V!Less, V!Over
<1>11. selection' \in -1..ScrollFar /\ match' \in -1..ScrollFar
  BY <1>3, <1>4, <1>7, <1>8, ConstantsAre DEF V!NoLine
<1>12. ViewTypes'
  <2>1. trimming' \in BOOLEAN /\ V_answered' \in BOOLEAN
    BY <1>3, Zenon
  <2>2. block' \in Blocks
    BY <1>3, <1>6 DEF Blocks
  <2>3. printed' \in Nat
    BY <1>2, <1>4
  <2>4. total' \in Nat /\ total' <= ScrollMaxPrinted /\ total' <= ScrollKept
    BY <1>3, <1>6
  <2> QED
    BY <1>10, <1>11, <2>1, <2>2, <2>3, <2>4 DEF ViewTypes
<1>13. Within'
  <2>1. block'.from <= ScrollMaxPrinted + printed' /\ total' = win.total
    BY <1>2, <1>3, <1>4, <1>6, ConstantsAre, SMTT(30)
  <2>2. offset' <= ScrollMaxPrinted - Rows + printed'
    BY <1>2, <1>4, <1>10, ConstantsAre
  <2> QED
    BY <1>6, <2>1, <2>2 DEF Within
<1>14. /\ names' \in NameTypes /\ names'.block = V!Named(win.newest, win.from)
       /\ names'.sel = (IF V_answered THEN names.sel ELSE 0)
       /\ names'.match = names.match
       /\ names'.window = (IF ~V_answered \/ offset' # off THEN 0 ELSE names.window)
  <2> HIDE DEF off
  <2> DEFINE itsBlock  == V!Named(win.newest, win.from)
             itsSel    == IF V_answered THEN names.sel ELSE 0
             itsWindow == IF ~V_answered \/ offset' # off THEN 0 ELSE names.window
  <2>1. itsBlock \in Int /\ itsSel \in Int /\ itsWindow \in Int
    BY <1>2, <1>6, <1>7 DEF V!Named, NameTypes
  <2>2. names' = [names EXCEPT !.block = itsBlock, !.sel = itsSel, !.window = itsWindow]
    BY <1>3, Zenon
  <2> HIDE DEF itsBlock, itsSel, itsWindow
  <2>3. /\ names' \in NameTypes /\ names'.block = itsBlock /\ names'.sel = itsSel
        /\ names'.match = names.match /\ names'.window = itsWindow
    BY <1>7, <2>1, <2>2 DEF NameTypes
  <2> QED
    BY <2>3 DEF itsBlock, itsSel, itsWindow
<1>15. OneCount'
  <2> SUFFICES ASSUME ~lost PROVE OneCount'
    BY <1>3 DEF OneCount, V!session
  <2>1. printed = 0 => names = NoNames
    BY DEF VInv, OneCount
  <2>2. frame' # 0 => printed' = frame'
    BY <1>2, <1>3, <1>4
  <2>3. printed' = 0 => names' = NoNames
    <3>1. printed' = 0 => V!Named(win.newest, win.from) = 0 /\ names = NoNames
      BY <1>2, <1>4, <2>1 DEF V!Named
    <3> QED
      BY <3>1, <1>14 DEF NoNames, NameTypes
  <2>4. names'.block # 0 => printed' - block'.from = names'.block
    BY <1>2, <1>3, <1>4, <1>14 DEF V!Named
  <2>5. selection' # V!NoLine /\ names'.sel # 0 =>
          printed' - selection' = names'.sel /\ selection' <= ScrollMaxPrinted + printed'
    <3> SUFFICES ASSUME selection' # V!NoLine, names'.sel # 0
                 PROVE  printed' - selection' = names'.sel /\ selection' <= ScrollMaxPrinted + printed'
      OBVIOUS
    <3>1. V_answered /\ names.sel = names'.sel /\ selection # V!NoLine /\ names.sel \in Int
      BY <1>4, <1>7, <1>14 DEF NameTypes
    <3>2. printed # 0 /\ printed - selection = names.sel /\ selection <= ScrollMaxPrinted + printed
      BY <2>1, <3>1 DEF VInv, OneCount, NoNames
    <3> QED
      BY <1>1, <1>4, <1>7, <3>1, <3>2, NameCarried DEF win, now, by
  <2>6. match' # V!NoLine /\ names'.match # 0 =>
          printed' - match' = names'.match /\ match' <= ScrollMaxPrinted + printed'
    <3> SUFFICES ASSUME match' # V!NoLine, names'.match # 0
                 PROVE  printed' - match' = names'.match /\ match' <= ScrollMaxPrinted + printed'
      OBVIOUS
    <3>1. names.match = names'.match /\ match # V!NoLine /\ names.match \in Int
      BY <1>3, <1>7, <1>14 DEF NameTypes
    <3>2. V_answered
      BY <3>1 DEF VInv, Unanswered
    <3>3. printed # 0 /\ printed - match = names.match /\ match <= ScrollMaxPrinted + printed
      BY <2>1, <3>1 DEF VInv, OneCount, NoNames
    <3> QED
      BY <1>1, <1>3, <1>4, <1>7, <3>1, <3>2, <3>3, NameCarried DEF win, now, by
  <2>7. names'.window # 0 /\ offset' # 0 => printed' - offset' = names'.window
    <3> SUFFICES ASSUME names'.window # 0, offset' # 0
                 PROVE  printed' - offset' = names'.window
      OBVIOUS
    <3>1. /\ V_answered /\ offset' = off /\ names.window = names'.window /\ offset # 0
          /\ offset' = V!More(offset, by) /\ names.window \in Int
      BY <1>7, <1>14 DEF NameTypes
    <3>2. printed # 0 /\ printed - offset = names.window
      BY <2>1, <3>1 DEF VInv, OneCount, NoNames
    <3>3. offset <= ScrollMaxPrinted + printed /\ offset \in -1..ScrollFar /\ offset # V!NoLine
      BY <1>2, <1>7, <3>1, ConstantsAre DEF VInv, Within, V!NoLine
    <3> QED
      BY <1>1, <1>4, <3>1, <3>2, <3>3, NameCarried DEF win, now, by
  <2> QED
    BY <2>2, <2>3, <2>4, <2>5, <2>6, <2>7 DEF OneCount
<1>16. AnsweredBy(block', asked, total', printed')
  <2>1. /\ asked.from \in 0..ScrollFar /\ asked.lines \in Nat /\ asked.printed \in Nat
    BY <1>5 DEF Requests
  <2>2. /\ win.from = V!Upto(V!More(asked.from, V!moved(now, asked.printed)), win.total - 1)
        /\ win.lines = V!Upto(asked.lines, win.total - win.from)
    BY <1>5 DEF Meets, now
  <2>3. /\ block'.from = win.from /\ block'.lines = win.lines /\ total' = win.total
        /\ printed' = now
    BY <1>3, <1>4
  <2>4. asked.printed \in {0, now} => win.from = V!Upto(asked.from, win.total - 1)
    <3>1. asked.printed \in {0, now} => V!moved(now, asked.printed) = 0
      BY <1>2 DEF V!moved, V!Less, V!Over
    <3>2. V!More(asked.from, 0) = asked.from
      BY <2>1, ConstantsAre DEF V!More, V!Upto
    <3> QED
      BY <2>2, <3>1, <3>2
  <2>5. asked.lines > 0 => win.lines > 0
    BY <1>6, <2>1, <2>2 DEF V!Upto
  <2>6. win.from + win.lines >= V!Upto(win.from + asked.lines, win.total)
    BY <1>6, <2>1, <2>2 DEF V!Upto
  <2> QED
    BY <1>6, <2>1, <2>3, <2>4, <2>5, <2>6 DEF AnsweredBy
<1> QED
  <2>1. /\ answers # <<>> /\ answers' = Tail(answers) /\ Head(answers).kind = "view"
        /\ V_answered' /\ frame' \in Nat /\ printed' = Head(answers).printed
        /\ V!Asking(FALSE) /\ UNCHANGED V!session /\ FALSE \in BOOLEAN
    BY <1>1, <1>2, <1>3, <1>4 DEF now
  <2> QED
    BY <1>12, <1>13, <1>14, <1>15, <1>16, <2>1, ViewKeeps

LEMMA FoundKeeps == ASSUME V!ScrollAssumption, VInv, V!Found PROVE VInv'
<1> DEFINE found == answers[1]
           now == found.printed
           by  == V!Followed(now)
           off == IF offset = 0 THEN 0 ELSE V!More(offset, by)
<1>1. answers # <<>> /\ Head(answers) = found /\ found.kind = "found" /\ 1 \in 1..Len(answers)
  <2>1. answers # <<>> /\ Head(answers).kind = "found"
    BY DEF V!Found
  <2> QED
    BY <2>1, FollowedIs DEF VInv, QueueTypes
<1>2. /\ found \in Windows /\ now \in Nat /\ now <= ScrollMaxPrinted /\ printed \in Nat /\ by \in Nat
      /\ now = 0 => printed = 0
      /\ printed + by <= now /\ found.newest \in Nat
      /\ ~lost /\ found.newest # 0 => now = found.newest
  BY <1>1, FollowedIs
<1>3. /\ V!Follow(now, by)
      /\ block' = IF block.lines = 0 THEN block ELSE [block EXCEPT !.from = V!More(@, by)]
      /\ match' = found.from
      /\ offset' = IF found.from > off THEN V!jump(found.from) ELSE off
      /\ frame' = found.newest
      /\ names' = [names EXCEPT !.match = V!Named(found.newest, found.from),
             !.window = IF offset' = off THEN @
                        ELSE IF offset' = 0 THEN 0
                        ELSE V!Named(found.newest, offset')]
      /\ UNCHANGED <<total, trimming, V_answered>>
      /\ V!Asking(inFlight) /\ answers' = Tail(answers) /\ UNCHANGED V!session
  BY <1>1, Zenon DEF V!Found
<1>4. /\ printed' = now
      /\ selection' = IF selection = V!NoLine THEN V!NoLine ELSE V!More(selection, by)
  BY <1>2, <1>3 DEF V!Follow
<1>5. /\ VTypes /\ ViewTypes /\ asked \in Requests /\ inFlight \in BOOLEAN /\ V_answered
      /\ found.from < ScrollMaxPrinted /\ found.from \in 0..ScrollFar
  <2>1. found.from \in 0..ScrollFar
    BY <1>2 DEF Windows
  <2> QED
    BY <1>1, <2>1 DEF VInv, AsAnswered, VTypes
<1>6. /\ offset \in 0..ScrollFar /\ selection \in -1..ScrollFar /\ names \in NameTypes /\ block \in Blocks
      /\ total \in Nat /\ total <= ScrollMaxPrinted /\ Rows <= total
      /\ offset <= ScrollMaxPrinted - Rows + printed /\ block.from <= ScrollMaxPrinted + printed
  BY <1>5 DEF ViewTypes, VTypes, NameTypes, VInv, Within
<1>7. \A back \in 0..ScrollFar :
        /\ V!More(back, by) \in 0..ScrollFar /\ back <= V!More(back, by)
        /\ by = 0 => V!More(back, by) = back
        /\ back <= ScrollMaxPrinted + printed => V!More(back, by) <= ScrollMaxPrinted + now
        /\ back <= ScrollMaxPrinted - Rows + printed => V!More(back, by) <= ScrollMaxPrinted - Rows + now
  BY <1>2, CarriedIs
<1> HIDE DEF found, now, by
<1>8. off \in 0..ScrollFar /\ off <= ScrollMaxPrinted - Rows + now
  BY <1>2, <1>6, <1>7, ConstantsAre
<1>9. V!jump(found.from) \in 0..ScrollFar /\ V!jump(found.from) <= ScrollMaxPrinted - Rows
  <2>1. V!Less(found.from, Rows \div 2) \in Nat
    BY <1>5, ConstantsAre DEF V!Less, V!Over
  <2>2. V!furthest(total) \in Nat /\ V!furthest(total) <= ScrollMaxPrinted - Rows
    BY <1>6, ConstantsAre DEF V!furthest, V!Less, V!Over
  <2> QED
    BY <2>1, <2>2, ConstantsAre DEF V!jump, V!Upto
<1>10. offset' \in 0..ScrollFar /\ offset' <= ScrollMaxPrinted - Rows + now
  <2> HIDE DEF off
  <2> QED
    BY <1>2, <1>3, <1>8, <1>9, ConstantsAre, SMTT(30)
<1>11. selection' \in -1..ScrollFar /\ match' \in -1..ScrollFar /\ match' \in 0..ScrollFar
  BY <1>3, <1>4, <1>5, <1>6, <1>7, ConstantsAre, SMTT(30) DEF V!NoLine
<1>12. /\ block' \in Blocks /\ block'.lines = block.lines /\ block.from <= block'.from
       /\ by = 0 => block' = block
       /\ block.lines # 0 => block'.from = V!More(block.from, by)
       /\ block'.from <= ScrollMaxPrinted + now
  <2>1. block.from \in 0..ScrollFar /\ block.lines \in 0..ScrollKept
    BY <1>6 DEF Blocks
  <2>2. CASE block.lines = 0
    <3>1. block' = block
      BY <1>3, <2>2
    <3> QED
      BY <1>2, <1>6, <2>1, <2>2, <3>1, ConstantsAre
  <2>3. CASE block.lines # 0
    <3> DEFINE from == V!More(block.from, by)
    <3>1. /\ from \in 0..ScrollFar /\ block.from <= from /\ (by = 0 => from = block.from)
          /\ from <= ScrollMaxPrinted + now
      BY <1>6, <1>7, <2>1
    <3>2. block' = [block EXCEPT !.from = from]
      BY <1>3, <2>3
    <3> HIDE DEF from
    <3>3. block' \in Blocks /\ block'.lines = block.lines /\ block'.from = from
      BY <1>6, <3>1, <3>2 DEF Blocks
    <3>4. by = 0 => block' = block
      BY <1>6, <3>1, <3>2 DEF Blocks
    <3> QED
      BY <2>3, <3>1, <3>3, <3>4 DEF from
  <2> QED
    BY <2>2, <2>3
<1>13. ViewTypes'
  BY <1>2, <1>3, <1>4, <1>5, <1>10, <1>11, <1>12 DEF ViewTypes
<1>14. Within'
  BY <1>3, <1>4, <1>6, <1>10, <1>12 DEF Within
<1> DEFINE itsWindow == IF offset' = off THEN names.window
                        ELSE IF offset' = 0 THEN 0 ELSE V!Named(found.newest, offset')
<1>15. /\ names' \in NameTypes /\ names'.block = names.block /\ names'.sel = names.sel
       /\ names'.match = V!Named(found.newest, found.from) /\ names'.window = itsWindow
  <2> HIDE DEF off
  <2> DEFINE itsMatch == V!Named(found.newest, found.from)
  <2>1. itsMatch \in Int /\ itsWindow \in Int
    BY <1>2, <1>5, <1>6, <1>10 DEF V!Named, NameTypes
  <2>2. names' = [names EXCEPT !.match = itsMatch, !.window = itsWindow]
    BY <1>3, Zenon
  <2> HIDE DEF itsMatch, itsWindow
  <2>3. /\ names' \in NameTypes /\ names'.match = itsMatch /\ names'.block = names.block
        /\ names'.sel = names.sel /\ names'.window = itsWindow
    BY <1>6, <2>1, <2>2 DEF NameTypes
  <2> QED
    BY <2>3 DEF itsMatch
<1>16. OneCount'
  <2> SUFFICES ASSUME ~lost PROVE OneCount'
    BY <1>3 DEF OneCount, V!session
  <2>1. printed = 0 => names = NoNames
    BY DEF VInv, OneCount
  <2>2. frame' # 0 => printed' = frame'
    BY <1>2, <1>3, <1>4
  <2>3. printed' = 0 => names' = NoNames
    <3>1. printed' = 0 => /\ V!Named(found.newest, found.from) = 0 /\ itsWindow = 0
                          /\ names = NoNames
      <4> HIDE DEF off
      <4> QED
        BY <1>2, <1>4, <2>1 DEF V!Named, NoNames
    <3> QED
      BY <3>1, <1>15 DEF NoNames, NameTypes
  <2>4. block'.lines > 0 /\ names'.block # 0 => printed' - block'.from = names'.block
    <3> SUFFICES ASSUME block'.lines > 0, names'.block # 0
                 PROVE  printed' - block'.from = names'.block
      OBVIOUS
    <3>1. /\ names.block = names'.block /\ names.block \in Int /\ block.lines > 0
          /\ block'.from = V!More(block.from, by) /\ block.from \in -1..ScrollFar /\ block.from # V!NoLine
      BY <1>6, <1>12, <1>15, ConstantsAre DEF NameTypes, Blocks, V!NoLine
    <3>2. printed # 0 /\ printed - block.from = names.block
      BY <2>1, <3>1 DEF VInv, OneCount, NoNames
    <3> QED
      BY <1>1, <1>4, <1>5, <1>6, <3>1, <3>2, NameCarried DEF found, now, by
  <2>5. selection' # V!NoLine /\ names'.sel # 0 =>
          printed' - selection' = names'.sel /\ selection' <= ScrollMaxPrinted + printed'
    <3> SUFFICES ASSUME selection' # V!NoLine, names'.sel # 0
                 PROVE  printed' - selection' = names'.sel /\ selection' <= ScrollMaxPrinted + printed'
      OBVIOUS
    <3>1. names.sel = names'.sel /\ selection # V!NoLine /\ names.sel \in Int
      BY <1>4, <1>6, <1>15 DEF NameTypes
    <3>2. printed # 0 /\ printed - selection = names.sel /\ selection <= ScrollMaxPrinted + printed
      BY <2>1, <3>1 DEF VInv, OneCount, NoNames
    <3> QED
      BY <1>1, <1>4, <1>5, <1>6, <3>1, <3>2, NameCarried DEF found, now, by
  <2>6. names'.match # 0 => printed' - match' = names'.match /\ match' <= ScrollMaxPrinted + printed'
    BY <1>2, <1>3, <1>4, <1>5, <1>15, ConstantsAre DEF V!Named
  <2>7. names'.window # 0 /\ offset' # 0 => printed' - offset' = names'.window
    <3> SUFFICES ASSUME names'.window # 0, offset' # 0
                 PROVE  printed' - offset' = names'.window
      OBVIOUS
    <3>1. CASE offset' = off
      <4>1. /\ names.window = names'.window /\ offset # 0 /\ names.window \in Int
            /\ offset' = V!More(offset, by)
        BY <3>1, <1>6, <1>15 DEF NameTypes
      <4>2. printed # 0 /\ printed - offset = names.window
        BY <2>1, <4>1 DEF VInv, OneCount, NoNames
      <4>3. offset <= ScrollMaxPrinted + printed /\ offset \in -1..ScrollFar /\ offset # V!NoLine
        BY <1>2, <1>6, ConstantsAre DEF V!NoLine
      <4> QED
        BY <1>1, <1>4, <1>5, <4>1, <4>2, <4>3, NameCarried DEF found, now, by
    <3>2. CASE offset' # off
      <4>1. names'.window = V!Named(found.newest, offset')
        BY <3>2, <1>15
      <4> QED
        BY <4>1, <1>2, <1>4 DEF V!Named
    <3> QED
      BY <3>1, <3>2
  <2> QED
    BY <2>2, <2>3, <2>4, <2>5, <2>6, <2>7 DEF OneCount
<1>17. ~inFlight => AnsweredBy(block', asked, total', printed')
  <2> SUFFICES ASSUME ~inFlight PROVE AnsweredBy(block', asked, total, now)
    BY <1>3, <1>4
  <2>1. AnsweredBy(block, asked, total, printed) /\ asked.printed <= printed
    BY DEF VInv, Settled
  <2>2. asked.printed \in Nat /\ block.from \in Int /\ block.lines \in Int /\ block'.from \in Int
        /\ block'.lines = block.lines /\ block.from <= block'.from
    BY <1>5, <1>6, <1>12 DEF Requests, Blocks
  <2>3. asked.printed \in {0, now} => asked.printed \in {0, printed}
    BY <1>2, <2>1, <2>2
  <2>4. asked.printed = now => by = 0 /\ asked.printed = printed
    BY <1>2, <2>1, <2>2
  <2>5. asked.printed = now => block'.from = block.from
    BY <1>12, <2>4
  <2>6. /\ asked.from \in Int /\ asked.lines \in Int /\ V!Upto(asked.from, total - 1) \in Int
        /\ V!Upto(V!Upto(asked.from, total - 1) + asked.lines, total) \in Int
    BY <1>5, <1>6 DEF Requests, V!Upto
  <2> QED
    BY <2>1, <2>2, <2>3, <2>4, <2>5, <2>6 DEF AnsweredBy
<1> QED
  <2>1. /\ answers # <<>> /\ answers' = Tail(answers) /\ Head(answers).kind # "view"
        /\ V_answered' /\ frame' \in Nat /\ printed' = Head(answers).printed
        /\ V!Asking(inFlight) /\ UNCHANGED V!session
    BY <1>1, <1>2, <1>3, <1>4, <1>5 DEF now
  <2> QED
    BY <1>5, <1>13, <1>14, <1>15, <1>16, <1>17, <2>1, ViewKeeps

LEMMA VPreserved == ASSUME V!ScrollAssumption PROVE VInv /\ [V!Next]_(V!vars) => VInv'
<1> SUFFICES ASSUME VInv, [V!Next]_(V!vars) PROVE VInv'
  OBVIOUS
<1>1. VTypes
  BY DEF VInv
<1>2. ASSUME NEW n \in 1..2, V!Prints(n) PROVE VInv'
  BY <1>1, <1>2, ConstantsAre, SessionKeeps DEF V!Prints, VTypes
<1>3. CASE V!Alternate
  <2>1. onAlternate' \in BOOLEAN
    BY <1>3, Zenon DEF V!Alternate
  <2>2. UNCHANGED <<V!view, asks, answers, frame, names, printedCount, newest, counted, lost>>
    BY <1>3, Zenon DEF V!Alternate
  <2> QED
    BY <1>1, <2>1, <2>2, SessionKeeps DEF VTypes
<1>4. CASE V!Reflow
  <2>1. V!here = newest
    BY <1>1, <1>4, CountIs DEF V!Reflow
  <2>2. /\ counted' = newest /\ lost' = (lost \/ V!here # counted)
        /\ UNCHANGED <<V!view, asks, answers, frame, names, printedCount, newest, onAlternate>>
    BY <1>4, <2>1, Zenon DEF V!Reflow
  <2>3. lost' \in BOOLEAN /\ (lost => lost')
    BY <1>1, <2>2, Zenon DEF VTypes
  <2>4. ~lost' => printedCount = counted'
    BY <1>1, <2>1, <2>2 DEF VTypes
  <2> QED
    BY <1>1, <2>2, <2>3, <2>4, SessionKeeps DEF VTypes
<1>5. CASE UNCHANGED V!vars
  BY <1>1, <1>5, SessionKeeps DEF V!vars, VTypes, V!view
<1> QED
  BY <1>2, <1>3, <1>4, <1>5, AnswerKeeps, TakeKeeps, FoundKeeps, MovesKeeps, SelectFromKeeps,
     SearchKeeps DEF V!Next

\* The stream holds no more than a question or an answer of each kind.
LEMMA VTyped == ASSUME V!ScrollAssumption, VInv PROVE V!TypeOK
<1>1. VTypes /\ ViewTypes /\ QueueTypes /\ OneOfAKind
  BY DEF VInv, VTypes
<1>2. /\ asks \in Seq(Questions) /\ answers \in Seq(Windows)
      /\ Len(asks) \in Nat /\ Len(answers) \in Nat
  BY <1>1 DEF QueueTypes
<1>3. /\ \A p \in 1..Len(asks) : asks[p].kind \in {"view", "found"}
      /\ \A p \in 1..Len(answers) : answers[p].kind \in {"view", "found"}
  <2>1. \A p \in 1..Len(asks) : asks[p] \in Questions
    BY <1>2
  <2>2. \A p \in 1..Len(answers) : answers[p] \in Windows
    BY <1>2
  <2> QED
    BY <2>1, <2>2 DEF Questions, Windows
<1>4. Len(asks) <= 2
  <2> SUFFICES ASSUME Len(asks) > 2 PROVE FALSE
    BY <1>2
  <2>1. 1 \in 1..Len(asks) /\ 2 \in 1..Len(asks) /\ 3 \in 1..Len(asks)
    BY <1>2
  <2> QED
    BY <1>1, <1>3, <2>1 DEF OneOfAKind
<1>5. Len(answers) <= 2
  <2> SUFFICES ASSUME Len(answers) > 2 PROVE FALSE
    BY <1>2
  <2>1. 1 \in 1..Len(answers) /\ 2 \in 1..Len(answers) /\ 3 \in 1..Len(answers)
    BY <1>2
  <2> QED
    BY <1>1, <1>3, <2>1 DEF OneOfAKind
<1>6. Len(asks) = 2 => Len(answers) = 0
  <2> SUFFICES ASSUME Len(asks) = 2, Len(answers) # 0 PROVE FALSE
    OBVIOUS
  <2>1. 1 \in 1..Len(asks) /\ 2 \in 1..Len(asks) /\ 1 \in 1..Len(answers)
    BY <1>2
  <2> QED
    BY <1>1, <1>3, <2>1 DEF OneOfAKind
<1>7. Len(answers) = 2 => Len(asks) = 0
  <2> SUFFICES ASSUME Len(answers) = 2, Len(asks) # 0 PROVE FALSE
    OBVIOUS
  <2>1. 1 \in 1..Len(answers) /\ 2 \in 1..Len(answers) /\ 1 \in 1..Len(asks)
    BY <1>2
  <2> QED
    BY <1>1, <1>3, <2>1 DEF OneOfAKind
<1>8. Len(asks) + Len(answers) <= 2
  <2> \A p, q \in Nat : p <= 2 /\ q <= 2 /\ (p = 2 => q = 0) /\ (q = 2 => p = 0) => p + q <= 2
    OBVIOUS
  <2> QED
    BY <1>2, <1>4, <1>5, <1>6, <1>7
<1>9. /\ newest \in 0..ScrollMaxPrinted /\ counted \in 0..ScrollMaxPrinted /\ printed \in 0..ScrollMaxPrinted
      /\ total \in 0..ScrollKept
  BY <1>1, ConstantsAre DEF VTypes, ViewTypes
<1>10. block.from \in 0..ScrollFar /\ block.lines \in 0..ScrollKept
  BY <1>1 DEF ViewTypes, Blocks
<1> QED
  BY <1>1, <1>8, <1>9, <1>10 DEF V!TypeOK, ViewTypes

\* Whatever it does, a behaviour that is of the window on the history keeps it.
VPart == part = "scroll" => VInv

LEMMA VPartInitially == Init => VPart
<1> SUFFICES ASSUME Init, part = "scroll" PROVE VInv
  BY DEF VPart
<1>1. V!Init
  BY DEF Init
<1> QED
  BY <1>1, ScrollAssumed, VInitially

LEMMA VPartStep ==
    ASSUME [Next]_vars, part' = "scroll"
    PROVE  part = "scroll" /\ [V!Next]_(V!vars)
<1>1. CASE UNCHANGED vars
  BY <1>1 DEF vars, Beyond19, Beyond17, Beyond13, Beyond12, Beyond10,
     Beyond9, Beyond8, Beyond7, Beyond4,
     V!vars
<1>2. CASE Next
  BY <1>2 DEF Next
<1> QED
  BY <1>1, <1>2

LEMMA VPartPreserved == VPart /\ [Next]_vars => VPart'
<1> SUFFICES ASSUME VPart, [Next]_vars, part' = "scroll" PROVE VInv'
  BY DEF VPart
<1> QED
  BY VPartStep, VPreserved, ScrollAssumed DEF VPart

HIDE DEF newest, counted, printedCount, onAlternate, lost, offset, total,
    printed, trimming, V_answered, block, asked, inFlight, selection, match,
    asks, answers, frame, names

(***************************************************************************)
(* What holds of Terminal for any keys, places and chunks of input.        *)
(*                                                                         *)
(* A pass over a chunk of keys goes through states that the surfaces do    *)
(* not fit, so the invariant says of each place of the pass what has been  *)
(* seen to and what has not: keys may be read with a list that is to be    *)
(* put up or taken down (ReadyToRead), an action finds the mode, the list, *)
(* the window and the prompt it was read for (Fits), and at the close all  *)
(* is right but a list whose mode is over (Nearly).  Of the filter it is   *)
(* enough to know what one key may ask for in each mode, and what it does  *)
(* to mode and prompt (Means).                                             *)
(***************************************************************************)
k == v1
chunk == v2
act == v3
pc == v4
place == v5
status == v6
row == v7
restate == v8
popup == v9
view == v10
owing == v11
greet == v12
painted == v13
mouse == v15
stale == v16
resyncs == v17
down == v18
orphan == v19
early == v20

USE DEF k, chunk, act, pc, place, status, row, restate, popup, view, owing,
    greet, painted, mouse, stale, resyncs, down, orphan, early

KeyHas == {"mode", "quick", "scroll", "wheel", "prompt", "acted", "forwarded"}

AFilter(f) == DOMAIN f = KeyHas /\ f.mode \in T!Modes /\ f.prompt \in T!Prompts

TTypes ==
    /\ AFilter(k)
    /\ popup \in T!Popups /\ resyncs \in 0..MaxResyncs
    /\ chunk \in Seq(T!Key) /\ (pc = "reading" => chunk # <<>>)
    /\ pc \in {"idle", "reading", "following", "acting", "closing", "away"}

\* What was seen of the list, the window and the prompt, to be read with the
\* mode m, the list p that is up, the window w and the prompt q.
Promptly(m, p, q) ==
    /\ m = "Rename" <=> q \in {"rename", "group"}
    /\ q = "group" => T!ModeOf(p) = "Picking"
    /\ q = "sessions" => m = "Control"
    /\ q = "find" => m \in {"Scroll", "Focus"}

\* The pass may be closed: all but a list whose mode is over.
Nearly(m, p, w, q) ==
    /\ Promptly(m, p, q)
    /\ m \in {"Control", "Picking"} => p # "none" /\ m = T!ModeOf(p)
    /\ w # "closed" <=> m = "Scroll"

Agreed(m, p, w, q) ==
    /\ Nearly(m, p, w, q)
    /\ p # "none" => m \in {T!ModeOf(p), "Rename"}

\* The keys are between the session and a list that has not been put up, or
\* not been taken down yet.
Between(m, p, w, q) ==
    /\ {m, status} \subseteq {"Focus", "Control"}
    /\ q = "none" /\ w = "closed"
    /\ p = IF status = "Control" THEN "sessions" ELSE "none"

\* A pattern is being typed.
Finding(m, p, w, q) == q = "find" /\ m = "Scroll" /\ p = "none"

ReadyToRead(m, p, w, q) ==
    \/ status = m /\ Agreed(m, p, w, q)
    \/ Between(m, p, w, q)
    \/ Finding(m, p, w, q)

\* The list that is up once the row has followed the mode.
Opened(m, p) == IF m = "Control" /\ status # "Control" /\ p = "none" THEN "sessions" ELSE p

\* Where an action finds the mode, the list, the window and the prompt.
Fits(a, m, p, w, q) ==
    \/ a[1] = "none" /\ Nearly(m, p, w, q)
    \/ /\ a[1] \in {"detach", "switch", "new", "paste"} /\ q = "none" /\ w = "closed"
       /\ a[1] = "paste" => m = "Focus"
    \/ /\ a[1] = "sessions" /\ m = "Control" /\ p = "sessions" /\ w = "closed"
       /\ q = IF a[2] = "cancel" THEN "none" ELSE "sessions"
    \/ /\ a[1] = "pick" /\ q = "none" /\ w = "closed"
       /\ \/ a[2] = "cancel" /\ m = "Control" /\ p # "none"
          \/ a[2] \in {"up", "down", "heading"} /\ p # "none" /\ m = T!ModeOf(p)
          \/ a[2] \in {"move", "groups", "hosts", "go", "number"}
    \/ /\ a[1] = "group" /\ w = "closed" /\ T!ModeOf(p) = "Picking"
       /\ m = IF a[2] \in {"run", "cancel"} THEN "Picking" ELSE "Rename"
       /\ q = IF a[2] = "cancel" THEN "none" ELSE "group"
    \/ /\ a[1] = "rename" /\ w = "closed"
       /\ m = IF a[2] \in {"run", "cancel"} THEN "Focus" ELSE "Rename"
       /\ q = IF a[2] = "cancel" THEN "none" ELSE "rename"
    \/ /\ a[1] = "scroll" /\ q = "none"
       /\ m = IF a[2] = "leave" THEN "Focus" ELSE "Scroll"
    \/ /\ a[1] = "find" /\ m = "Scroll"
       /\ q = IF a[2] \in {"cancel", "step"} THEN "none" ELSE "find"
    \/ /\ a[1] = "select" /\ q = "none" /\ m = "Scroll"

SurfacesFit ==
    ~early =>
        /\ pc = "idle" => IF greet THEN /\ k.mode = "Control" /\ k.prompt = "none"
                                        /\ popup = "none" /\ view = "closed"
                                   ELSE Agreed(k.mode, popup, view, k.prompt)
        /\ pc = "reading" => ReadyToRead(k.mode, popup, view, k.prompt)
        /\ pc = "following" => Fits(act, k.mode, Opened(k.mode, popup), view, k.prompt)
        /\ pc = "acting" => Fits(act, k.mode, popup, view, k.prompt)
        /\ pc = "closing" => Nearly(k.mode, popup, view, k.prompt)
        /\ pc \notin {"idle", "away"} => ~greet

RowFollows ==
    /\ pc # "away" => (row = status \/ restate)
    /\ pc \in {"acting", "closing", "idle"} => status = k.mode

HostAnswers ==
    /\ view # "closed" => place.scrolls
    /\ pc # "away" /\ k.wheel => place.scrolls
    /\ pc \in {"following", "acting"} /\ act[1] = "select" => place.scrolls

PictureIsOut == painted /\ stale => T!Covered \/ resyncs > 0

ChordsAreKnown ==
    /\ ~orphan
    /\ pc # "away" /\ ~place.watching => k.forwarded \subseteq down

TInv == TTypes /\ SurfacesFit /\ RowFollows /\ HostAnswers /\ PictureIsOut /\ ChordsAreKnown

(***************************************************************************)
(* One key.                                                                *)
(***************************************************************************)
\* What a key may ask for of a filter that was f and is g: nothing, more of
\* what is typed at a prompt, a prompt, or something of the client.
AsksNothing(f, g, a) ==
    /\ a = T!None /\ f.prompt = "none" /\ g.prompt = "none"
    /\ \/ g.mode = f.mode
       \/ f.mode \in {"Focus", "Control", "Rename"} /\ g.mode \in {"Focus", "Control"}

IsTyped(f, g, a) ==
    /\ f.prompt # "none" /\ a[1] = f.prompt /\ a[2] \in {"typed", "run", "cancel"}
    /\ g.prompt = IF a[2] = "cancel" THEN "none" ELSE f.prompt
    /\ a[1] = "sessions" => g.mode = "Control"
    /\ a[1] = "find" => g.mode = "Scroll"
    /\ a[1] = "group" => g.mode = IF a[2] = "typed" THEN "Rename" ELSE "Picking"
    /\ a[1] = "rename" => g.mode = IF a[2] = "typed" THEN "Rename" ELSE "Focus"

OpensAPrompt(f, g, a) ==
    /\ f.prompt = "none" /\ a[2] = "open" /\ g.prompt = a[1]
    /\ \/ a[1] = "sessions" /\ f.mode \in {"Control", "Rename"} /\ g.mode = "Control"
       \/ a[1] = "rename" /\ f.mode \in {"Control", "Rename"} /\ g.mode = "Rename"
       \/ a[1] = "group" /\ f.mode = "Picking" /\ g.mode = "Rename"
       \/ a[1] = "find" /\ f.mode = "Scroll" /\ g.mode = "Scroll"

IsAsked(f, g, a) ==
    /\ f.prompt = "none" /\ g.prompt = "none" /\ a[2] \notin {"typed", "open"}
    /\ \/ /\ a[1] \in {"detach", "switch", "new", "paste"}
          /\ f.mode \in {"Focus", "Control", "Rename"}
          /\ a[1] = "paste" => g.mode = "Focus"
       \/ a = <<"pick", "cancel">> /\ f.mode = "Picking" /\ g.mode = "Control"
       \/ /\ a[1] = "pick" /\ a[2] \in {"up", "down", "heading"}
          /\ f.mode \in {"Control", "Rename", "Picking"} /\ g.mode = f.mode
       \/ /\ a[1] = "pick" /\ a[2] \in {"move", "groups", "hosts", "go", "number"}
          /\ f.mode \in {"Control", "Rename", "Picking"}
       \/ a = <<"scroll", "leave">> /\ f.mode = "Scroll" /\ g.mode = "Focus"
       \/ a[1] = "scroll" /\ a[2] # "leave" /\ g.mode = "Scroll"
       \/ a = <<"find", "step">> /\ f.mode = "Scroll" /\ g.mode = "Scroll"
       \/ a[1] = "select" /\ f.wheel /\ g.mode = "Scroll"

Means(f, g, a) == AsksNothing(f, g, a) \/ IsTyped(f, g, a) \/ OpensAPrompt(f, g, a) \/ IsAsked(f, g, a)

\* What of it goes on to the session.
Begins(f, g, key) ==
    \/ key.event = "press"
    \/ key.event # "release" /\ f.mode # "Focus" /\ g.mode = "Focus"

Gives(f, g, out, key) ==
    \/ /\ out = <<>> \/ (out = <<key>> /\ (key.how # "chord" \/ key.code \in f.forwarded))
       /\ g.forwarded \subseteq f.forwarded
    \/ /\ out = <<key>> /\ key.how = "chord" /\ Begins(f, g, key)
       /\ g.forwarded \subseteq f.forwarded \union {key.code}

Says(f, key, r) ==
    /\ AFilter(r.k) /\ r.k.wheel = f.wheel
    /\ Means(f, r.k, r.act)
    /\ Gives(f, r.k, r.out, key)

\* The fields of a filter that one key changes.
Alike(f, g) == /\ AFilter(g) /\ g.mode = f.mode /\ g.prompt = f.prompt
               /\ g.wheel = f.wheel /\ g.forwarded \subseteq f.forwarded

LEMMA Altered ==
    ASSUME NEW f, AFilter(f), NEW m \in T!Modes, NEW q, NEW c
    PROVE  /\ Alike(f, [f EXCEPT !.quick = q]) /\ Alike(f, [f EXCEPT !.acted = c])
           /\ LET g == [f EXCEPT !.mode = m] IN
              AFilter(g) /\ g.mode = m /\ g.prompt = f.prompt /\ g.wheel = f.wheel
              /\ g.forwarded = f.forwarded
           /\ q \in T!Prompts =>
              LET g == [f EXCEPT !.prompt = q] IN
              AFilter(g) /\ g.mode = f.mode /\ g.prompt = q /\ g.wheel = f.wheel
              /\ g.forwarded = f.forwarded
           /\ LET g == [f EXCEPT !.forwarded = q] IN
              AFilter(g) /\ g.mode = f.mode /\ g.prompt = f.prompt /\ g.wheel = f.wheel
              /\ g.forwarded = q
BY DEF AFilter, Alike, KeyHas

\* A key that asks for nothing, and one the session is given.
LEMMA NothingSays ==
    ASSUME NEW f, AFilter(f), NEW key, f.prompt = "none",
           NEW g, AFilter(g), g.prompt = "none", g.wheel = f.wheel,
           g.forwarded \subseteq f.forwarded,
           \/ g.mode = f.mode
           \/ f.mode \in {"Focus", "Control", "Rename"} /\ g.mode \in {"Focus", "Control"}
    PROVE  /\ Says(f, key, T!Taken(g))
           /\ key.how # "chord" => Says(f, key, T!Passed(g, <<key>>))
           /\ key.code \in f.forwarded => Says(f, key, T!Passed(g, <<key>>))
           /\ Begins(f, g, key) => Says(f, key, T!Passed(g, <<key>>))
<1>1. Means(f, g, T!None)
  BY DEF Means, AsksNothing
<1>2. /\ Gives(f, g, <<>>, key)
      /\ key.how # "chord" \/ key.code \in f.forwarded => Gives(f, g, <<key>>, key)
      /\ Begins(f, g, key) => Gives(f, g, <<key>>, key)
  BY DEF Gives
<1> QED
  BY <1>1, <1>2 DEF Says, T!Taken, T!Passed

\* A key that acts leaves the mode its action says.
LEMMA FinishSays ==
    ASSUME NEW f, AFilter(f), NEW key, NEW a, NEW g, AFilter(g), g.mode = f.mode,
           g.wheel = f.wheel, g.forwarded \subseteq f.forwarded, T!after(a, f.mode) \in T!Modes,
           NEW h, h = [g EXCEPT !.mode = T!after(a, f.mode)], Means(f, h, a)
    PROVE  Says(f, key, T!finish(g, a))
<1>1. AFilter(h) /\ h.wheel = f.wheel /\ h.forwarded \subseteq f.forwarded
  BY DEF AFilter, KeyHas
<1> DEFINE r == T!finish(g, a)
<1>2. r.k = h /\ r.out = <<>> /\ r.act = a
  BY DEF T!finish
<1>3. Gives(f, h, <<>>, key)
  BY <1>1 DEF Gives
<1> HIDE DEF r
<1>4. Says(f, key, r)
  BY <1>1, <1>2, <1>3, Zenon DEF Says
<1> QED
  BY <1>4 DEF r

\* A key of the tables: the filter is left as it was but for what it opens.
LEMMA ActsSays ==
    ASSUME NEW f, AFilter(f), NEW key, f.prompt = "none", NEW a, NEW g, Alike(f, g),
           a # T!None => /\ T!after(a, f.mode) \in T!Modes
                         /\ a[2] = "open" => a[1] \in T!Prompts
                         /\ \A h : /\ h.mode = T!after(a, f.mode)
                                   /\ h.prompt = IF a[2] = "open" THEN a[1] ELSE "none"
                                   => Means(f, h, a)
    PROVE  Says(f, key, T!Acts(g, a))
<1>1. CASE a = T!None
  BY <1>1, NothingSays DEF T!Acts, Alike
<1>2. CASE a # T!None
  <2> DEFINE o == T!opening(g, a)
             h == [o EXCEPT !.mode = T!after(a, f.mode)]
  <2>1. /\ AFilter(o) /\ o.mode = f.mode /\ o.wheel = f.wheel /\ o.forwarded \subseteq f.forwarded
        /\ o.prompt = IF a[2] = "open" THEN a[1] ELSE "none"
    <3>1. CASE a[2] = "open"
      <4>1. o = [g EXCEPT !.prompt = a[1]] /\ a[1] \in T!Prompts
        BY <1>2, <3>1 DEF T!opening
      <4>2. AFilter(g) /\ "Focus" \in T!Modes
        BY DEF Alike, T!Modes
      <4>3. /\ AFilter(o) /\ o.mode = g.mode /\ o.wheel = g.wheel
            /\ o.forwarded = g.forwarded /\ o.prompt = a[1]
        <5> HIDE DEF o
        <5>1. LET g1 == [g EXCEPT !.prompt = a[1]] IN
              AFilter(g1) /\ g1.mode = g.mode /\ g1.prompt = a[1] /\ g1.wheel = g.wheel
              /\ g1.forwarded = g.forwarded
          BY <4>1, <4>2 DEF AFilter, KeyHas
        <5> QED
          BY <4>1, <5>1
      <4> QED
        BY <3>1, <4>3 DEF Alike
    <3>2. CASE a[2] # "open"
      BY <3>2 DEF T!opening, Alike
    <3> QED
      BY <3>1, <3>2
  <2>2. h.mode = T!after(a, f.mode) /\ h.prompt = o.prompt
    BY <1>2, <2>1, Altered
  <2>3. Means(f, h, a)
    BY <1>2, <2>1, <2>2
  <2>4. T!Acts(g, a) = T!finish(o, a)
    BY <1>2 DEF T!Acts
  <2> HIDE DEF o, h
  <2> QED
    BY <1>2, <2>1, <2>3, <2>4, FinishSays DEF h
<1> QED
  BY <1>1, <1>2

\* The tables.
LEMMA ControllingSays ==
    ASSUME NEW f, AFilter(f), NEW key, f.prompt = "none", NEW g, Alike(f, g),
           f.mode \in {"Control", "Rename"}, NEW c, T!controlling(f, c) # T!None
    PROVE  Says(f, key, T!Acts(g, T!controlling(f, c)))
<1> DEFINE a == T!controlling(f, c)
           Leaving == a \in {<<"detach", "">>, <<"switch", "">>, <<"new", "">>}
           Moving  == a \in {<<"pick", "down">>, <<"pick", "up">>, <<"pick", "heading">>}
           Picked  == a \in {<<"pick", "go">>, <<"pick", "number">>, <<"pick", "move">>,
                             <<"pick", "groups">>, <<"pick", "hosts">>}
           Up      == a = <<"scroll", "up">>
           Opening == a \in {<<"sessions", "open">>, <<"rename", "open">>}
<1>1. Leaving \/ Moving \/ Picked \/ Up \/ Opening
  BY Zenon DEF T!controlling
<1> HIDE DEF a
<1>a. Leaving => a[1] \in {"detach", "switch", "new"} /\ a[2] \notin {"open", "typed"}
  <2>1. CASE a = <<"detach", "">>
    BY <2>1
  <2>2. CASE a = <<"switch", "">>
    BY <2>2
  <2>3. CASE a = <<"new", "">>
    BY <2>3
  <2> QED
    BY <2>1, <2>2, <2>3, Zenon
<1>b. Picked => a[1] = "pick" /\ a[2] \in {"go", "number", "move", "groups", "hosts"}
  OBVIOUS
<1> HIDE DEF Leaving, Picked
<1>2. ASSUME NEW h, h.mode = T!after(a, f.mode), h.prompt = IF a[2] = "open" THEN a[1] ELSE "none"
      PROVE  Means(f, h, a)
  <2>1. CASE Leaving \/ Picked
    <3>1. \/ a[1] \in {"detach", "switch", "new"}
          \/ a[1] = "pick" /\ a[2] \in {"go", "number", "move", "groups", "hosts"}
      BY <1>a, <1>b, <2>1
    <3>2. a[2] \notin {"open", "typed"}
      BY <1>a, <1>b, <2>1
    <3>3. IsAsked(f, h, a)
      BY <1>2, <3>1, <3>2 DEF IsAsked
    <3> QED
      BY <3>3 DEF Means
  <2>2. CASE Moving
    <3>1. a[1] = "pick" /\ a[2] \in {"up", "down", "heading"}
      BY <2>2
    <3>2. T!after(a, f.mode) = f.mode
      BY <3>1 DEF T!after
    <3>3. IsAsked(f, h, a)
      BY <1>2, <3>1, <3>2 DEF IsAsked
    <3> QED
      BY <3>3 DEF Means
  <2>3. CASE Up
    <3>1. T!after(a, f.mode) = "Scroll"
      BY <2>3 DEF T!after
    <3>2. IsAsked(f, h, a)
      BY <1>2, <2>3, <3>1 DEF IsAsked
    <3> QED
      BY <3>2 DEF Means
  <2>4. CASE Opening
    <3>1. T!after(a, f.mode) = IF a[1] = "sessions" THEN "Control" ELSE "Rename"
      BY <2>4 DEF T!after
    <3>2. OpensAPrompt(f, h, a)
      BY <1>2, <2>4, <3>1 DEF OpensAPrompt
    <3> QED
      BY <3>2 DEF Means
  <2> QED
    BY <1>1, <2>1, <2>2, <2>3, <2>4
<1>3. T!after(a, f.mode) \in T!Modes /\ (a[2] = "open" => a[1] \in T!Prompts)
  <2>1. CASE Leaving
    BY <1>a, <2>1 DEF T!after, T!Modes
  <2>2. CASE Moving
    BY <2>2 DEF T!after, T!Modes
  <2>3. CASE Picked
    BY <1>b, <2>3 DEF T!after, T!Modes
  <2>4. CASE Up
    BY <2>4 DEF T!after, T!Modes
  <2>5. CASE Opening
    BY <2>5 DEF T!after, T!Modes, T!Prompts
  <2> QED
    BY <1>1, <2>1, <2>2, <2>3, <2>4, <2>5
<1> QED
  BY <1>2, <1>3, ActsSays DEF a

LEMMA PickingSays ==
    ASSUME NEW f, AFilter(f), NEW key, f.prompt = "none", NEW g, Alike(f, g),
           f.mode = "Picking", NEW c
    PROVE  Says(f, key, T!Acts(g, T!picking(c)))
<1> DEFINE a == T!picking(c)
<1>1. a \in {T!None, <<"pick", "down">>, <<"pick", "up">>, <<"pick", "go">>,
             <<"pick", "cancel">>, <<"group", "open">>}
  BY Zenon DEF T!picking
<1> HIDE DEF a
<1> DEFINE Asks(t) == /\ T!after(t, f.mode) \in T!Modes
                      /\ t[2] = "open" => t[1] \in T!Prompts
                      /\ \A h : /\ h.mode = T!after(t, f.mode)
                                /\ h.prompt = IF t[2] = "open" THEN t[1] ELSE "none"
                                => Means(f, h, t)
<1>2. Asks(<<"pick", "down">>)
  BY DEF Means, OpensAPrompt, IsAsked, T!after, T!Modes, T!Prompts
<1>3. Asks(<<"pick", "up">>)
  BY DEF Means, OpensAPrompt, IsAsked, T!after, T!Modes, T!Prompts
<1>4. Asks(<<"pick", "go">>)
  BY DEF Means, OpensAPrompt, IsAsked, T!after, T!Modes, T!Prompts
<1>5. Asks(<<"pick", "cancel">>)
  BY DEF Means, OpensAPrompt, IsAsked, T!after, T!Modes, T!Prompts
<1>6. Asks(<<"group", "open">>)
  BY DEF Means, OpensAPrompt, IsAsked, T!after, T!Modes, T!Prompts
<1>7. a # T!None => Asks(a)
  BY <1>1, <1>2, <1>3, <1>4, <1>5, <1>6
<1> QED
  BY <1>7, ActsSays DEF a

LEMMA ScrollingSays ==
    ASSUME NEW f, AFilter(f), NEW key, f.prompt = "none", NEW g, Alike(f, g),
           f.mode = "Scroll", NEW c
    PROVE  Says(f, key, T!Acts(g, T!scrolling(c)))
<1> DEFINE a == T!scrolling(c)
<1>1. a \in {T!None, <<"find", "open">>, <<"find", "step">>, <<"scroll", "leave">>,
             <<"scroll", "down">>, <<"scroll", "up">>}
  BY Zenon DEF T!scrolling
<1> HIDE DEF a
<1> DEFINE Asks(t) == /\ T!after(t, f.mode) \in T!Modes
                      /\ t[2] = "open" => t[1] \in T!Prompts
                      /\ \A h : /\ h.mode = T!after(t, f.mode)
                                /\ h.prompt = IF t[2] = "open" THEN t[1] ELSE "none"
                                => Means(f, h, t)
<1>2. Asks(<<"find", "open">>)
  BY DEF Means, OpensAPrompt, IsAsked, T!after, T!Modes, T!Prompts
<1>3. Asks(<<"find", "step">>)
  BY DEF Means, OpensAPrompt, IsAsked, T!after, T!Modes, T!Prompts
<1>4. Asks(<<"scroll", "leave">>)
  BY DEF Means, OpensAPrompt, IsAsked, T!after, T!Modes, T!Prompts
<1>5. Asks(<<"scroll", "down">>)
  BY DEF Means, OpensAPrompt, IsAsked, T!after, T!Modes, T!Prompts
<1>6. Asks(<<"scroll", "up">>)
  BY DEF Means, OpensAPrompt, IsAsked, T!after, T!Modes, T!Prompts
<1>7. a # T!None => Asks(a)
  BY <1>1, <1>2, <1>3, <1>4, <1>5, <1>6
<1> QED
  BY <1>7, ActsSays DEF a

\* A chord the session is given for its own.
LEMMA GivenSays ==
    ASSUME NEW f, AFilter(f), NEW key, f.prompt = "none", key.how = "chord",
           NEW g, AFilter(g), Begins(f, g, key), g.prompt = "none", g.wheel = f.wheel,
           g.forwarded \subseteq f.forwarded \union {key.code},
           \/ g.mode = f.mode
           \/ f.mode \in {"Focus", "Control", "Rename"} /\ g.mode \in {"Focus", "Control"}
    PROVE  Says(f, key, T!Passed(g, <<key>>))
<1>1. Means(f, g, T!None)
  BY DEF Means, AsksNothing
<1>2. Gives(f, g, <<key>>, key)
  BY DEF Gives
<1> QED
  BY <1>1, <1>2 DEF Says, T!Passed

LEMMA Remembered ==
    ASSUME NEW g, AFilter(g), NEW c, NEW h, h = T!remember_forwarded(g, c)
    PROVE  /\ AFilter(h) /\ h.mode = g.mode /\ h.prompt = g.prompt /\ h.wheel = g.wheel
           /\ h.forwarded \subseteq g.forwarded \union {c}
<1>1. PICK kept : h = [g EXCEPT !.forwarded = kept] /\ kept \subseteq g.forwarded \union {c}
  BY DEF T!remember_forwarded
<1> QED
  BY <1>1 DEF AFilter, KeyHas

\* A prompt takes every key.
LEMMA TypingSays ==
    ASSUME NEW f, AFilter(f), NEW key, f.prompt # "none"
    PROVE  Says(f, key, T!typing(f, key))
<1>1. ASSUME NEW x \in {"typed", "run", "cancel"}
      PROVE  /\ T!after(<<f.prompt, x>>, f.mode) \in T!Modes
             /\ \A h : /\ h.mode = T!after(<<f.prompt, x>>, f.mode)
                       /\ h.prompt = IF x = "cancel" THEN "none" ELSE f.prompt
                       => IsTyped(f, h, <<f.prompt, x>>)
  <2>1. CASE f.prompt = "sessions"
    BY <2>1 DEF T!after, T!Modes, IsTyped
  <2>2. CASE f.prompt = "find"
    BY <2>2 DEF T!after, T!Modes, IsTyped
  <2>3. CASE f.prompt = "group"
    BY <2>3 DEF T!after, T!Modes, IsTyped
  <2>4. CASE f.prompt = "rename"
    BY <2>4 DEF T!after, T!Modes, IsTyped
  <2> QED
    BY <2>1, <2>2, <2>3, <2>4 DEF AFilter, T!Prompts
<1>2. ASSUME NEW x \in {"typed", "run", "cancel"}, NEW g, AFilter(g), g.mode = f.mode,
             g.wheel = f.wheel, g.forwarded \subseteq f.forwarded,
             g.prompt = IF x = "cancel" THEN "none" ELSE f.prompt
      PROVE  Says(f, key, T!finish(g, <<f.prompt, x>>))
  <2> DEFINE a == <<f.prompt, x>>
             h == [g EXCEPT !.mode = T!after(a, f.mode)]
  <2>1. h.mode = T!after(a, f.mode) /\ h.prompt = g.prompt
    BY <1>1, <1>2, Altered
  <2>2. Means(f, h, a)
    BY <1>1, <1>2, <2>1 DEF Means
  <2>3. T!after(a, f.mode) \in T!Modes
    BY <1>1
  <2> HIDE DEF a, h
  <2> QED
    BY <1>2, <2>2, <2>3, FinishSays DEF a, h
<1>3. /\ Says(f, key, T!finish(f, <<f.prompt, "typed">>))
      /\ Says(f, key, T!finish(f, <<f.prompt, "run">>))
  BY <1>2
<1>4. Says(f, key, T!finish([f EXCEPT !.prompt = "none"], <<f.prompt, "cancel">>))
  <2> DEFINE g == [f EXCEPT !.prompt = "none"]
  <2>1. AFilter(g) /\ g.mode = f.mode /\ g.prompt = "none" /\ g.wheel = f.wheel
        /\ g.forwarded = f.forwarded
    BY DEF AFilter, KeyHas, T!Prompts
  <2> HIDE DEF g
  <2>2. Says(f, key, T!finish(g, <<f.prompt, "cancel">>))
    BY <1>2, <2>1
  <2> QED
    BY <2>2 DEF g
<1> QED
  BY <1>3, <1>4, Zenon DEF T!typing

\* The mouse.
LEMMA MousingSays ==
    ASSUME NEW f, AFilter(f), NEW key, f.prompt = "none", f.wheel
    PROVE  Says(f, key, T!mousing(f, key))
<1>1. ASSUME NEW a, a[1] \in {"scroll", "select"}, a[2] \in {"up", "down", "to", "from", "done"}
      PROVE  Says(f, key, T!finish(f, a))
  <2> DEFINE h == [f EXCEPT !.mode = T!after(a, f.mode)]
  <2>1. T!after(a, f.mode) = "Scroll"
    BY <1>1 DEF T!after
  <2>2. h.mode = "Scroll" /\ h.prompt = "none"
    BY <2>1, Altered DEF T!Modes
  <2>3. IsAsked(f, h, a)
    BY <1>1, <2>2 DEF IsAsked
  <2>4. "Scroll" \in T!Modes
    BY DEF T!Modes
  <2> HIDE DEF h
  <2> QED
    BY <2>1, <2>3, <2>4, FinishSays DEF Means, h
<1>2. ASSUME NEW x \in {"scroll", "select"}, NEW y \in {"up", "down", "to", "from", "done"}
      PROVE  Says(f, key, T!finish(f, <<x, y>>))
  BY <1>1
<1>3. Says(f, key, T!Taken(f))
  BY NothingSays
<1> QED
  BY <1>2, <1>3, Zenon DEF T!mousing

\* The paste key, which is the client's while the keys are the session's.
LEMMA PasteSays ==
    ASSUME NEW f, AFilter(f), NEW key, f.prompt = "none", f.mode = "Focus"
    PROVE  Says(f, key, T!finish(f, <<"paste", "">>))
<1> DEFINE a == <<"paste", "">>
           h == [f EXCEPT !.mode = T!after(a, f.mode)]
<1>1. T!after(a, f.mode) = "Focus" /\ a[1] = "paste" /\ a[2] \notin {"typed", "open"}
  BY DEF T!after
<1>2. h.mode = "Focus" /\ h.prompt = "none" /\ "Focus" \in T!Modes
  BY <1>1 DEF AFilter, KeyHas, T!Modes
<1> HIDE DEF a
<1>3. IsAsked(f, h, a)
  BY <1>1, <1>2 DEF IsAsked
<1> HIDE DEF h
<1>4. Says(f, key, T!finish(f, a))
  BY <1>1, <1>2, <1>3, FinishSays DEF Means, h
<1> QED
  BY <1>4 DEF a

LEMMA TypedSays ==
    ASSUME NEW f, AFilter(f), NEW key, f.prompt = "none", key.how = "byte"
    PROVE  Says(f, key, T!typed(f, key))
<1> DEFINE c == key.code
<1>0. Alike(f, f)
  BY DEF Alike
<1>1. CASE f.mode = "Picking"
  BY <1>0, <1>1, PickingSays DEF T!typed
<1>2. CASE f.mode = "Scroll"
  BY <1>0, <1>2, ScrollingSays DEF T!typed
<1>3. CASE f.mode = "Focus"
  <2>1. Says(f, key, T!Taken([f EXCEPT !.mode = "Control", !.quick = TRUE]))
    <3> DEFINE g == [f EXCEPT !.mode = "Control", !.quick = TRUE]
    <3>1. AFilter(g) /\ g.mode = "Control" /\ g.prompt = "none" /\ g.wheel = f.wheel
          /\ g.forwarded \subseteq f.forwarded
      BY DEF AFilter, KeyHas, T!Modes
    <3> HIDE DEF g
    <3>2. Says(f, key, T!Taken(g))
      BY <1>3, <3>1, NothingSays
    <3> QED
      BY <3>2 DEF g
  <2>2. Says(f, key, T!finish(f, <<"paste", "">>))
    BY <1>3, PasteSays
  <2>3. Says(f, key, T!Passed(f, <<key>>))
    BY NothingSays
  <2> QED
    BY <1>3, <2>1, <2>2, <2>3 DEF T!typed
<1>4. CASE f.mode \in {"Control", "Rename"}
  <2> DEFINE unheld == [f EXCEPT !.quick = FALSE]
             focus  == [unheld EXCEPT !.mode = "Focus"]
  <2>1. Alike(f, unheld)
    BY DEF Alike, AFilter, KeyHas
  <2>2. AFilter(focus) /\ focus.mode = "Focus" /\ focus.prompt = "none"
        /\ focus.wheel = f.wheel /\ focus.forwarded \subseteq f.forwarded
    BY DEF AFilter, KeyHas, T!Modes
  <2>3. T!typed(f, key) =
          IF c = "prefix" THEN T!Passed(focus, IF f.quick THEN <<key>> ELSE <<>>)
          ELSE IF c \in {"esc", "lf"} THEN T!Taken(focus)
          ELSE IF T!controlling(f, c) # T!None THEN T!Acts(unheld, T!controlling(f, c))
          ELSE T!Passed(focus, <<key>>)
    BY <1>4 DEF T!typed
  <2> HIDE DEF unheld, focus, c
  <2>4. Says(f, key, T!Passed(focus, <<key>>)) /\ Says(f, key, T!Taken(focus))
    BY <1>4, <2>2, NothingSays
  <2>5. T!Passed(focus, <<>>) = T!Taken(focus)
    BY DEF T!Passed, T!Taken
  <2>6. T!controlling(f, c) # T!None => Says(f, key, T!Acts(unheld, T!controlling(f, c)))
    BY <1>4, <2>1, ControllingSays
  <2> QED
    BY <2>3, <2>4, <2>5, <2>6, Zenon
<1> QED
  BY <1>1, <1>2, <1>3, <1>4 DEF AFilter, T!Modes

\* A chord.
LEMMA FocusedSays ==
    ASSUME NEW f, AFilter(f), NEW key, f.prompt = "none", f.mode = "Focus", key.how = "chord"
    PROVE  Says(f, key, T!Focused(f, key))
<1> DEFINE c == key.code
           ours == c = "prefix" \/ (Pastes /\ c = "paste") \/ f.acted = c
           let_go == [f EXCEPT !.acted = IF @ = c THEN T!NoKey ELSE @, !.forwarded = @ \ {c}]
           taken == [f EXCEPT !.acted = IF @ = c THEN T!NoKey ELSE @]
           up == [f EXCEPT !.mode = "Control", !.quick = TRUE]
<1>0. Alike(f, let_go) /\ Alike(f, taken)
  BY DEF Alike, AFilter, KeyHas
<1>s. Alike(f, f)
  BY DEF Alike
<1>1. AFilter(up) /\ up.mode = "Control" /\ up.prompt = "none" /\ up.wheel = f.wheel
      /\ up.forwarded \subseteq f.forwarded
  BY DEF AFilter, KeyHas, T!Modes
<1>2. T!Focused(f, key) =
        IF key.event # "press"
        THEN T!Passed(IF key.event = "repeat" THEN f ELSE let_go,
                      IF ~ours /\ c \in f.forwarded THEN <<key>> ELSE <<>>)
        ELSE IF c = "prefix" THEN T!Taken(up)
        ELSE IF Pastes /\ c = "paste" THEN T!finish(f, <<"paste", "">>)
        ELSE T!Passed(T!remember_forwarded(taken, c), <<key>>)
  BY DEF T!Focused
<1> HIDE DEF let_go, taken, up, ours
<1>3. Says(f, key, T!Taken(up))
  BY <1>1, NothingSays
<1>4. Says(f, key, T!finish(f, <<"paste", "">>))
  BY PasteSays
<1>5. key.event = "press" => Says(f, key, T!Passed(T!remember_forwarded(taken, c), <<key>>))
  <2> DEFINE g == T!remember_forwarded(taken, c)
  <2>1. AFilter(g) /\ g.mode = f.mode /\ g.prompt = "none" /\ g.wheel = f.wheel
        /\ g.forwarded \subseteq f.forwarded \union {c}
    BY <1>0, Remembered DEF Alike
  <2> HIDE DEF g
  <2>2. key.event = "press" => Says(f, key, T!Passed(g, <<key>>))
    BY <2>1, GivenSays DEF Begins
  <2> QED
    BY <2>2 DEF g
<1>6. ASSUME NEW g, Alike(f, g)
      PROVE  /\ c \in f.forwarded => Says(f, key, T!Passed(g, <<key>>))
             /\ Says(f, key, T!Passed(g, <<>>))
  <2>1. T!Passed(g, <<>>) = T!Taken(g)
    BY DEF T!Passed, T!Taken
  <2> QED
    BY <1>6, <2>1, NothingSays DEF Alike
<1> HIDE DEF c
<1>7. CASE key.event # "press"
  <2>1. PICK g \in {f, let_go} : T!Focused(f, key) = T!Passed(g, IF ~ours /\ c \in f.forwarded THEN <<key>> ELSE <<>>)
    BY <1>2, <1>7
  <2>2. Alike(f, g)
    BY <1>0, <1>s, <2>1
  <2> QED
    BY <1>6, <2>1, <2>2
<1>8. CASE key.event = "press"
  BY <1>2, <1>3, <1>4, <1>5, <1>8
<1> QED
  BY <1>7, <1>8

\* A key that moves the highlight back, in whichever list.
LEMMA MoveSays ==
    ASSUME NEW f, AFilter(f), NEW key, f.prompt = "none", NEW g, Alike(f, g),
           f.mode \in {"Control", "Rename", "Picking"}, NEW d \in {"up", "down"}
    PROVE  Says(f, key, T!finish(g, <<"pick", d>>))
<1> DEFINE a == <<"pick", d>>
           h == [g EXCEPT !.mode = T!after(a, f.mode)]
<1>1. T!after(a, f.mode) = f.mode /\ f.mode \in T!Modes
  BY DEF T!after, T!Modes
<1>2. h.mode = f.mode /\ h.prompt = "none"
  BY <1>1 DEF AFilter, Alike, KeyHas
<1>3. IsAsked(f, h, a)
  BY <1>2 DEF IsAsked
<1>4. AFilter(g) /\ g.mode = f.mode /\ g.wheel = f.wheel /\ g.forwarded \subseteq f.forwarded
  BY DEF Alike
<1> HIDE DEF a, h
<1>5. Says(f, key, T!finish(g, a))
  BY <1>1, <1>3, <1>4, FinishSays DEF Means, h
<1> QED
  BY <1>5 DEF a

LEMMA EncodedSays ==
    ASSUME NEW f, AFilter(f), NEW key, f.prompt = "none", key.how = "chord"
    PROVE  Says(f, key, T!encoded(f, key))
<1> DEFINE c == key.code
           held == [f EXCEPT !.acted = c]
           unheld == [held EXCEPT !.quick = FALSE]
           focus == [unheld EXCEPT !.mode = "Focus"]
           unacted == [focus EXCEPT !.acted = T!NoKey]
           let_go == [f EXCEPT !.forwarded = @ \ {c}]
<1>0. Alike(f, f) /\ Alike(f, held) /\ Alike(f, unheld) /\ Alike(f, let_go)
  BY DEF Alike, AFilter, KeyHas
<1>1. /\ AFilter(focus) /\ focus.mode = "Focus" /\ focus.prompt = "none"
      /\ focus.wheel = f.wheel /\ focus.forwarded \subseteq f.forwarded
      /\ AFilter(unacted) /\ unacted.mode = "Focus" /\ unacted.prompt = "none"
      /\ unacted.wheel = f.wheel /\ unacted.forwarded \subseteq f.forwarded
  BY DEF AFilter, KeyHas, T!Modes
<1>2. CASE f.mode = "Focus"
  <2>1. T!encoded(f, key) = T!Focused(f, key)
    BY <1>2 DEF T!encoded
  <2> QED
    BY <1>2, <2>1, FocusedSays
<1>3. CASE f.mode # "Focus" /\ key.event = "release"
  <2>1. T!encoded(f, key) = T!Taken(let_go)
    BY <1>3 DEF T!encoded
  <2> HIDE DEF let_go
  <2>2. Says(f, key, T!Taken(let_go))
    BY <1>0, NothingSays DEF Alike
  <2> QED
    BY <2>1, <2>2
<1>4. CASE f.mode # "Focus" /\ key.event # "release" /\ c = "ctrl"
  <2>1. T!encoded(f, key) = T!Taken(f)
    BY <1>4 DEF T!encoded
  <2> QED
    BY <2>1, NothingSays
<1>5. CASE f.mode = "Scroll" /\ key.event # "release" /\ c # "ctrl"
  <2>1. T!encoded(f, key) = T!Acts(held, T!scrolling(c))
    BY <1>5 DEF T!encoded
  <2> HIDE DEF held, c
  <2> QED
    BY <1>0, <1>5, <2>1, ScrollingSays
<1>6. CASE f.mode = "Picking" /\ key.event # "release" /\ c # "ctrl"
  <2>1. T!encoded(f, key) = IF c = "backtab" THEN T!finish(held, <<"pick", "up">>)
                            ELSE T!Acts(held, T!picking(c))
    BY <1>6 DEF T!encoded
  <2> HIDE DEF held, c
  <2>2. Says(f, key, T!finish(held, <<"pick", "up">>))
    BY <1>0, <1>6, MoveSays
  <2>3. Says(f, key, T!Acts(held, T!picking(c)))
    BY <1>0, <1>6, PickingSays
  <2> QED
    BY <2>1, <2>2, <2>3
<1>7. CASE f.mode \in {"Control", "Rename"} /\ key.event # "release" /\ c # "ctrl"
  <2>1. T!encoded(f, key) =
          IF c = "prefix" THEN T!Passed(focus, IF f.quick THEN <<key>> ELSE <<>>)
          ELSE IF c = "backtab" THEN T!finish(unheld, <<"pick", "up">>)
          ELSE IF c = "esc" THEN T!Taken(focus)
          ELSE IF T!controlling(f, c) # T!None THEN T!Acts(unheld, T!controlling(f, c))
          ELSE T!Passed(T!remember_forwarded(unacted, c), <<key>>)
    BY <1>7 DEF T!encoded
  <2>2. Says(f, key, T!Passed(T!remember_forwarded(unacted, c), <<key>>))
    <3> HIDE DEF unacted
    <3> DEFINE g == T!remember_forwarded(unacted, c)
    <3>1. AFilter(g) /\ g.mode = "Focus" /\ g.prompt = "none" /\ g.wheel = f.wheel
          /\ g.forwarded \subseteq f.forwarded \union {c}
      BY <1>1, Remembered
    <3> HIDE DEF g
    <3>2. Says(f, key, T!Passed(g, <<key>>))
      BY <1>7, <3>1, GivenSays DEF Begins
    <3> QED
      BY <3>2 DEF g
  <2> HIDE DEF unheld, focus, unacted, c
  <2>3. Says(f, key, T!Passed(focus, <<key>>)) /\ Says(f, key, T!Taken(focus))
    BY <1>1, <1>7, NothingSays DEF Begins
  <2>4. T!Passed(focus, <<>>) = T!Taken(focus)
    BY DEF T!Passed, T!Taken
  <2>5. Says(f, key, T!finish(unheld, <<"pick", "up">>))
    BY <1>0, <1>7, MoveSays
  <2>6. T!controlling(f, c) # T!None => Says(f, key, T!Acts(unheld, T!controlling(f, c)))
    BY <1>0, <1>7, ControllingSays
  <2> QED
    BY <2>1, <2>2, <2>3, <2>4, <2>5, <2>6, Zenon
<1> QED
  BY <1>2, <1>3, <1>4, <1>5, <1>6, <1>7 DEF AFilter, T!Modes

\* Any key.
LEMMA KeySays ==
    ASSUME NEW f, AFilter(f), NEW key
    PROVE  Says(f, key, T!filter_at(f, key))
<1> DEFINE arrow == key.how = "seq" /\ key.event # "release" /\ key.code \in {"up", "down"}
           unheld == [f EXCEPT !.quick = FALSE]
<1>1. CASE f.prompt # "none"
  BY <1>1, TypingSays DEF T!filter_at
<1>2. CASE f.prompt = "none" /\ key.how = "mouse" /\ f.wheel
  BY <1>2, MousingSays DEF T!filter_at
<1>3. CASE f.prompt = "none" /\ f.mode = "Scroll" /\ arrow
  <2>1. PICK d \in {"up", "down"} : d = key.code
    BY <1>3
  <2> DEFINE a == <<"scroll", d>>
             h == [f EXCEPT !.mode = T!after(a, f.mode)]
  <2>2. T!filter_at(f, key) = T!finish(f, a)
    BY <1>3, <2>1 DEF T!filter_at
  <2>3. T!after(a, f.mode) = "Scroll" /\ "Scroll" \in T!Modes
    BY <2>1 DEF T!after, T!Modes
  <2>4. h.mode = "Scroll" /\ h.prompt = "none"
    BY <1>3, <2>3 DEF AFilter, KeyHas
  <2>5. IsAsked(f, h, a)
    BY <1>3, <2>1, <2>4 DEF IsAsked
  <2> HIDE DEF a, h
  <2>6. Says(f, key, T!finish(f, a))
    BY <2>3, <2>5, FinishSays DEF Means, h
  <2> QED
    BY <2>2, <2>6
<1>4. CASE f.prompt = "none" /\ f.mode \in {"Control", "Picking"} /\ arrow
  <2>1. PICK d \in {"up", "down"} : d = key.code
    BY <1>4
  <2>2. T!filter_at(f, key) = T!finish(unheld, <<"pick", d>>)
    BY <1>4, <2>1 DEF T!filter_at
  <2>3. Alike(f, unheld)
    BY DEF Alike, AFilter, KeyHas
  <2> HIDE DEF unheld
  <2> QED
    BY <1>4, <2>2, <2>3, MoveSays
<1>5. CASE /\ f.prompt = "none" /\ ~(key.how = "mouse" /\ f.wheel)
           /\ ~(f.mode \in {"Scroll", "Control", "Picking"} /\ arrow)
  <2>1. T!filter_at(f, key) =
          IF key.how = "chord" THEN T!encoded(f, key)
          ELSE IF key.how # "byte" THEN
                   IF f.mode = "Focus" THEN T!Passed(f, <<key>>) ELSE T!Taken(f)
          ELSE T!typed(f, key)
    BY <1>5 DEF T!filter_at
  <2>2. key.how # "chord" => Says(f, key, T!Passed(f, <<key>>))
    BY <1>5, NothingSays
  <2>3. Says(f, key, T!Taken(f))
    BY <1>5, NothingSays
  <2>4. key.how = "chord" => Says(f, key, T!encoded(f, key))
    BY <1>5, EncodedSays
  <2>5. key.how = "byte" => Says(f, key, T!typed(f, key))
    BY <1>5, TypedSays
  <2> QED
    BY <2>1, <2>2, <2>3, <2>4, <2>5, Zenon
<1> QED
  BY <1>1, <1>2, <1>3, <1>4, <1>5, Zenon

(***************************************************************************)
(* A key read.                                                             *)
(***************************************************************************)
\* With the keyboard the session's or the list's, and nothing else up.
LEMMA BetweenLists ==
    ASSUME NEW f, NEW p \in T!Popups, NEW w, ReadyToRead(f.mode, p, w, f.prompt),
           f.prompt = "none", f.mode \in {"Focus", "Control", "Rename"}
    PROVE  /\ Between(f.mode, p, w, "none") /\ f.mode # "Rename"
           /\ \A m \in {"Focus", "Control"} :
                 /\ Between(m, p, w, "none")
                 /\ Nearly(m, Opened(m, p), w, "none")
<1>1. Between(f.mode, p, w, "none") /\ f.mode # "Rename"
  <2>1. CASE status = f.mode /\ Agreed(f.mode, p, w, f.prompt)
    BY <2>1 DEF Agreed, Nearly, Promptly, Between, T!ModeOf, T!Popups
  <2>2. CASE Between(f.mode, p, w, f.prompt)
    BY <2>2 DEF Between
  <2>3. CASE Finding(f.mode, p, w, f.prompt)
    BY <2>3 DEF Finding
  <2> QED
    BY <2>1, <2>2, <2>3 DEF ReadyToRead
<1>2. ASSUME NEW m \in {"Focus", "Control"}
      PROVE  Between(m, p, w, "none") /\ Nearly(m, Opened(m, p), w, "none")
  BY <1>1 DEF Between, Nearly, Promptly, Opened, T!ModeOf
<1> QED
  BY <1>1, <1>2

\* In the other modes all is settled, but where a pattern is being typed.
LEMMA AgreedElsewhere ==
    ASSUME NEW f, NEW p \in T!Popups, NEW w, ReadyToRead(f.mode, p, w, f.prompt),
           f.prompt \in {"sessions", "group", "rename"} \/ f.mode = "Picking"
    PROVE  status = f.mode /\ Agreed(f.mode, p, w, f.prompt)
BY DEF ReadyToRead, Between, Finding

LEMMA NothingIsNamed == \A a : a = T!None => a[1] = "none" /\ a[2] # "typed"
<1>1. ASSUME NEW a, a = <<"none", "">>
      PROVE  a[1] = "none" /\ a[2] # "typed"
  BY <1>1
<1> QED
  BY <1>1 DEF T!None

LEMMA NothingFits ==
    ASSUME NEW f, NEW g, NEW a, NEW p \in T!Popups, NEW w,
           ReadyToRead(f.mode, p, w, f.prompt), AsksNothing(f, g, a)
    PROVE  /\ Fits(a, g.mode, Opened(g.mode, p), w, g.prompt)
           /\ ReadyToRead(g.mode, p, w, g.prompt)
<1> USE DEF AsksNothing
<1>1. CASE f.mode \in {"Focus", "Control", "Rename"}
  <2>1. g.mode \in {"Focus", "Control"}
    BY <1>1, BetweenLists
  <2>2. Between(g.mode, p, w, g.prompt) /\ Nearly(g.mode, Opened(g.mode, p), w, g.prompt)
    BY <1>1, <2>1, BetweenLists
  <2> QED
    BY <2>2, NothingIsNamed DEF Fits, ReadyToRead
<1>2. CASE f.mode \notin {"Focus", "Control", "Rename"}
  <2>1. status = g.mode /\ Agreed(g.mode, p, w, g.prompt)
    BY <1>2 DEF ReadyToRead, Between, Finding
  <2>2. Opened(g.mode, p) = p
    BY <2>1 DEF Opened
  <2> QED
    BY <2>1, <2>2, NothingIsNamed DEF Fits, ReadyToRead, Agreed
<1> QED
  BY <1>1, <1>2

LEMMA TypingFits ==
    ASSUME NEW f, NEW g, NEW a, NEW p \in T!Popups, NEW w, f.prompt \in T!Prompts,
           ReadyToRead(f.mode, p, w, f.prompt), IsTyped(f, g, a)
    PROVE  /\ Fits(a, g.mode, Opened(g.mode, p), w, g.prompt)
           /\ a[2] = "typed" => ReadyToRead(g.mode, p, w, g.prompt)
<1>1. CASE f.prompt \in {"sessions", "group", "rename"}
  <2>1. status = f.mode /\ Agreed(f.mode, p, w, f.prompt)
    BY <1>1, AgreedElsewhere
  <2>2. CASE f.prompt = "sessions"
    <3>1. p = "sessions" /\ w = "closed" /\ f.mode = "Control"
      BY <2>1, <2>2 DEF Agreed, Nearly, Promptly, T!ModeOf, T!Popups
    <3> QED
      BY <2>1, <2>2, <3>1 DEF IsTyped, Fits, Opened, ReadyToRead
  <2>3. CASE f.prompt = "group"
    <3>1. T!ModeOf(p) = "Picking" /\ w = "closed" /\ f.mode = "Rename"
      BY <2>1, <2>3 DEF Agreed, Nearly, Promptly
    <3> QED
      BY <2>1, <2>3, <3>1 DEF IsTyped, Fits, Opened, ReadyToRead
  <2>4. CASE f.prompt = "rename"
    <3>1. w = "closed" /\ f.mode = "Rename"
      BY <2>1, <2>4 DEF Agreed, Nearly, Promptly
    <3> QED
      BY <2>1, <2>4, <3>1 DEF IsTyped, Fits, Opened, ReadyToRead
  <2> QED
    BY <1>1, <2>2, <2>3, <2>4
<1>2. CASE f.prompt = "find"
  <2>1. p = "none"
    BY <1>2 DEF ReadyToRead, Agreed, Nearly, Promptly, Between, Finding, T!ModeOf, T!Popups
  <2> QED
    BY <1>2, <2>1 DEF IsTyped, Fits, ReadyToRead, Finding
<1> QED
  BY <1>1, <1>2 DEF IsTyped, T!Prompts

LEMMA OpeningFits ==
    ASSUME NEW f, NEW g, NEW a, NEW p \in T!Popups, NEW w,
           ReadyToRead(f.mode, p, w, f.prompt), OpensAPrompt(f, g, a)
    PROVE  Fits(a, g.mode, Opened(g.mode, p), w, g.prompt)
<1>1. CASE f.mode \in {"Control", "Rename"}
  <2>1. Between(f.mode, p, w, "none") /\ f.mode = "Control"
    BY <1>1, BetweenLists DEF OpensAPrompt
  <2>2. w = "closed" /\ Opened("Control", p) = "sessions"
    BY <2>1 DEF Between, Opened
  <2> QED
    BY <1>1, <2>2 DEF OpensAPrompt, Fits
<1>2. CASE f.mode = "Picking"
  <2>1. w = "closed" /\ T!ModeOf(p) = "Picking"
    BY <1>2, AgreedElsewhere DEF Agreed, Nearly
  <2> QED
    BY <1>2, <2>1 DEF OpensAPrompt, Fits, Opened
<1>3. CASE f.mode = "Scroll"
  BY <1>3 DEF OpensAPrompt, Fits
<1> QED
  BY <1>1, <1>2, <1>3 DEF OpensAPrompt

LEMMA AskingFits ==
    ASSUME NEW f, NEW g, NEW a, NEW p \in T!Popups, NEW w,
           ReadyToRead(f.mode, p, w, f.prompt), IsAsked(f, g, a)
    PROVE  Fits(a, g.mode, Opened(g.mode, p), w, g.prompt)
<1>1. CASE f.mode \in {"Focus", "Control", "Rename"}
  <2>1. w = "closed" /\ f.mode # "Rename" /\ (f.mode = "Control" => Opened("Control", p) = "sessions")
    BY <1>1, BetweenLists DEF IsAsked, Between, Opened
  <2>2. T!ModeOf("sessions") = "Control"
    BY DEF T!ModeOf
  <2> QED
    BY <1>1, <2>1, <2>2 DEF IsAsked, Fits
<1>2. CASE f.mode = "Picking"
  <2>1. w = "closed" /\ T!ModeOf(p) = "Picking" /\ p # "none" /\ status = "Picking"
    BY <1>2, AgreedElsewhere DEF Agreed, Nearly
  <2>2. \A m : Opened(m, p) = p
    BY <2>1 DEF Opened
  <2> QED
    BY <1>2, <2>1, <2>2 DEF IsAsked, Fits
<1>3. CASE f.mode \notin {"Focus", "Control", "Rename", "Picking"}
  BY <1>3 DEF IsAsked, Fits
<1> QED
  BY <1>1, <1>2, <1>3

LEMMA MeantFits ==
    ASSUME NEW f, NEW g, NEW a, NEW p \in T!Popups, NEW w, f.prompt \in T!Prompts,
           ReadyToRead(f.mode, p, w, f.prompt), Means(f, g, a)
    PROVE  /\ Fits(a, g.mode, Opened(g.mode, p), w, g.prompt)
           /\ a = T!None \/ a[2] = "typed" => ReadyToRead(g.mode, p, w, g.prompt)
<1>1. CASE AsksNothing(f, g, a)
  BY <1>1, NothingFits
<1>2. CASE IsTyped(f, g, a)
  <2>1. a # T!None
    BY <1>2, NothingIsNamed DEF IsTyped
  <2> QED
    BY <1>2, <2>1, TypingFits
<1>3. CASE OpensAPrompt(f, g, a)
  <2>1. a # T!None /\ a[2] # "typed"
    BY <1>3, NothingIsNamed DEF OpensAPrompt
  <2> QED
    BY <1>3, <2>1, OpeningFits
<1>4. CASE IsAsked(f, g, a)
  <2>1. a # T!None /\ a[2] # "typed"
    <3>1. a[1] # "none" /\ a[2] # "typed"
      BY <1>4 DEF IsAsked
    <3> QED
      BY <3>1, NothingIsNamed
  <2> QED
    BY <1>4, <2>1, AskingFits
<1> QED
  BY <1>1, <1>2, <1>3, <1>4 DEF Means

\* The session is given no part of a chord it was not told of.
LEMMA SendsKeeps ==
    ASSUME NEW key, NEW out, Gives(k, k', out, key), T!Sends(out), ChordsAreKnown, pc # "away"
    PROVE  ~orphan' /\ (~place.watching => k'.forwarded \subseteq down')
<1>1. CASE place.watching
  BY <1>1 DEF T!Sends, ChordsAreKnown
<1>2. CASE ~place.watching
  <2>0. k.forwarded \subseteq down /\ ~orphan
    BY <1>2 DEF ChordsAreKnown
  <2> DEFINE chords == {i \in DOMAIN out : out[i].how = "chord"}
             closing == k.mode # "Focus" /\ k'.mode = "Focus"
             begun  == {i \in chords : \/ out[i].event = "press"
                                       \/ out[i].event # "release" /\ closing}
  <2>1. /\ down' = down \union {out[i].code : i \in begun}
        /\ orphan' = (orphan \/ \E i \in chords \ begun : out[i].code \notin down)
    BY <1>2 DEF T!Sends
  <2>2. CASE out = <<>>
    <3>1. chords = {}
      BY <2>2
    <3> HIDE DEF chords
    <3> QED
      BY <2>0, <2>1, <2>2, <3>1 DEF Gives
  <2>3. CASE out = <<key>>
    <3>1. DOMAIN out = {1} /\ out[1] = key
      BY <2>3
    <3>2. \A i \in chords : out[i] = key /\ key.how = "chord"
      BY <3>1
    <3>3. key.how = "chord" /\ Begins(k, k', key) => 1 \in begun /\ chords \ begun = {}
      BY <3>1 DEF Begins
    <3> HIDE DEF chords, begun
    <3> QED
      BY <2>0, <2>1, <2>3, <3>1, <3>2, <3>3 DEF Gives
  <2> QED
    BY <2>2, <2>3 DEF Gives
<1> QED
  BY <1>1, <1>2

LEMMA WhatIsLeft ==
    ASSUME NEW Any, NEW s \in Seq(Any), s # <<>>
    PROVE  Tail(s) \in Seq(Any) /\ (Len(s) > 1 => Tail(s) # <<>>) /\ <<>> \in Seq(Any)
<1>1. Tail(s) \in Seq(Any) /\ Len(Tail(s)) = Len(s) - 1
  OBVIOUS
<1>2. <<>> \in Seq(Any) /\ Len(<<>>) = 0
  OBVIOUS
<1>3. Tail(s) = <<>> => Len(s) - 1 = 0
  BY <1>1, <1>2, Zenon
<1>4. Len(s) \in Nat
  OBVIOUS
<1>5. \A n \in Nat : n > 1 => n - 1 # 0
  OBVIOUS
<1> QED
  BY <1>1, <1>2, <1>3, <1>4, <1>5, Zenon

LEMMA ReadsKeeps ==
    ASSUME TInv, NEW keys \in Seq(T!Key), keys # <<>>, pc \in {"idle", "reading"}, T!Reads(keys)
    PROVE  TInv'
<1> DEFINE key  == Head(keys)
           r    == T!filter_at(k, key)
           more == r.act[2] = "typed" /\ Len(keys) > 1
<1>1. /\ k' = r.k /\ T!Sends(r.out)
      /\ act' = IF more THEN T!None ELSE r.act
      /\ chunk' = IF r.act = T!None \/ more \/ T!rest_after(key, r.act)
                  THEN Tail(keys) ELSE <<>>
      /\ pc' = IF act' = T!None /\ chunk' # <<>> THEN "reading" ELSE "following"
      /\ early' = (early \/ greet)
      /\ UNCHANGED <<place, T!rowVars, T!surfaces, T!outputVars, T!pictureVars>>
  BY DEF T!Reads
<1>2. AFilter(k) /\ AFilter(k') /\ k'.wheel = k.wheel /\ Means(k, k', r.act) /\ Gives(k, k', r.out, key)
  <2> HIDE DEF key, r
  <2>1. Says(k, key, T!filter_at(k, key))
    BY KeySays DEF TInv, TTypes
  <2> QED
    BY <1>1, <2>1 DEF Says, TInv, TTypes, r
<1>3. Tail(keys) \in Seq(T!Key) /\ (Len(keys) > 1 => Tail(keys) # <<>>) /\ <<>> \in Seq(T!Key)
  BY WhatIsLeft
<1>4. place' = place /\ status' = status /\ row' = row /\ restate' = restate /\ popup' = popup
      /\ view' = view /\ greet' = greet /\ painted' = painted /\ stale' = stale /\ resyncs' = resyncs
  BY <1>1 DEF T!rowVars, T!surfaces, T!outputVars, T!pictureVars
<1> HIDE DEF key, r
<1>5. TTypes'
  BY <1>1, <1>2, <1>3, <1>4 DEF TInv, TTypes, AFilter
<1>6. ~early' => ~early /\ ~greet /\ ReadyToRead(k.mode, popup, view, k.prompt)
  BY <1>1 DEF TInv, SurfacesFit, RowFollows, ReadyToRead
<1>7. ~early' => /\ Fits(r.act, k'.mode, Opened(k'.mode, popup), view, k'.prompt)
                 /\ r.act = T!None \/ more => ReadyToRead(k'.mode, popup, view, k'.prompt)
  BY <1>2, <1>6, MeantFits DEF TInv, TTypes, AFilter
<1>8. pc' = "reading" => r.act = T!None \/ more
  BY <1>1
<1>9. pc' = "following" => act' = r.act
  BY <1>1, <1>3
<1>10. SurfacesFit'
  <2>1. CASE pc' = "reading"
    BY <1>4, <1>6, <1>7, <1>8, <2>1
       DEF SurfacesFit, ReadyToRead, Agreed, Nearly, Promptly, Between, Finding, T!ModeOf
  <2>2. CASE pc' = "following"
    BY <1>4, <1>6, <1>7, <1>9, <2>2
       DEF SurfacesFit, Fits, Opened, Nearly, Promptly, T!ModeOf
  <2> QED
    BY <1>1, <2>1, <2>2
<1>11. RowFollows'
  BY <1>1, <1>4 DEF TInv, RowFollows
<1>12. HostAnswers'
  <2>1. r.act[1] = "select" => k.wheel
    <3>1. k.prompt \in T!Prompts
      BY DEF TInv, TTypes, AFilter
    <3> QED
      BY <1>2, <3>1, NothingIsNamed
         DEF Means, AsksNothing, IsTyped, OpensAPrompt, IsAsked, T!Prompts
  <2>2. pc' = "following" => act' = r.act
    BY <1>9
  <2> QED
    BY <1>1, <1>2, <1>4, <2>1, <2>2 DEF TInv, HostAnswers
<1>13. PictureIsOut'
  BY <1>4 DEF TInv, PictureIsOut, T!Covered
<1>14. ChordsAreKnown'
  BY <1>1, <1>2, <1>4, SendsKeeps DEF TInv, ChordsAreKnown
<1> QED
  BY <1>5, <1>10, <1>11, <1>12, <1>13, <1>14 DEF TInv

(***************************************************************************)
(* What the loop tells the filter, and the close of a pass.                *)
(***************************************************************************)
LEMMA Told ==
    ASSUME NEW f, AFilter(f), NEW m \in T!Modes, NEW b
    PROVE  /\ LET g == T!set_mode(f, m) IN
              AFilter(g) /\ g.mode = m /\ g.prompt = f.prompt /\ g.wheel = f.wheel
              /\ g.forwarded = f.forwarded
           /\ LET g == T!stop_typing(f) IN
              AFilter(g) /\ g.mode = f.mode /\ g.prompt = "none" /\ g.wheel = f.wheel
              /\ g.forwarded = f.forwarded
           /\ LET g == T!set_wheel(f, b) IN
              AFilter(g) /\ g.mode = f.mode /\ g.prompt = f.prompt /\ (g.wheel => b)
              /\ g.forwarded = f.forwarded
           /\ LET g == T!begin_attach(f, m, b) IN
              AFilter(g) /\ g.mode = m /\ g.prompt = "none" /\ ~g.wheel /\ g.forwarded = {}
<1> USE DEF AFilter, KeyHas
<1>1. LET g == T!set_mode(f, m) IN
      AFilter(g) /\ g.mode = m /\ g.prompt = f.prompt /\ g.wheel = f.wheel
      /\ g.forwarded = f.forwarded
  BY DEF T!set_mode
<1>2. LET g == T!stop_typing(f) IN
      AFilter(g) /\ g.mode = f.mode /\ g.prompt = "none" /\ g.wheel = f.wheel
      /\ g.forwarded = f.forwarded
  BY DEF T!stop_typing, T!Prompts
<1>3. LET g == T!set_wheel(f, b) IN
      AFilter(g) /\ g.mode = f.mode /\ g.prompt = f.prompt /\ (g.wheel => b)
      /\ g.forwarded = f.forwarded
  BY DEF T!set_wheel
<1>4. LET g == T!begin_attach(f, m, b) IN
      AFilter(g) /\ g.mode = m /\ g.prompt = "none" /\ ~g.wheel /\ g.forwarded = {}
  BY DEF T!begin_attach, T!set_scroll, T!set_mode, T!Prompts
<1> QED
  BY <1>1, <1>2, <1>3, <1>4

LEMMA ToldTwice ==
    ASSUME NEW f, AFilter(f), NEW m \in T!Modes
    PROVE  LET g == T!set_mode(T!stop_typing(f), m) IN
           AFilter(g) /\ g.mode = m /\ g.prompt = "none" /\ g.wheel = f.wheel
           /\ g.forwarded = f.forwarded
<1> DEFINE h == T!stop_typing(f)
<1>1. AFilter(h) /\ h.prompt = "none" /\ h.wheel = f.wheel /\ h.forwarded = f.forwarded
  BY Told
<1> HIDE DEF h
<1>2. LET g == T!set_mode(h, m) IN
      AFilter(g) /\ g.mode = m /\ g.prompt = "none" /\ g.wheel = f.wheel
      /\ g.forwarded = f.forwarded
  BY <1>1, Told
<1> QED
  BY <1>2 DEF h

\* What every arm of an action leaves to the close of the pass.
LEMMA ToTheClose ==
    ASSUME TInv, pc = "acting", pc' = "closing", UNCHANGED <<chunk, place, T!outputVars, T!sessionVars>>,
           AFilter(k'), k'.wheel = k.wheel, k'.forwarded = k.forwarded,
           popup' \in T!Popups, resyncs' \in 0..MaxResyncs,
           ~early => Nearly(k'.mode, popup', view', k'.prompt),
           status' = k'.mode, row' = status' \/ restate',
           view' # "closed" => place.scrolls,
           painted /\ stale' => popup' # "none" \/ view' # "closed" \/ resyncs' > 0
    PROVE  TInv'
<1> USE DEF TInv, T!outputVars, T!sessionVars
<1>1. TTypes'
  BY DEF TTypes, AFilter
<1>2. SurfacesFit'
  BY DEF SurfacesFit, Nearly, Promptly, T!ModeOf
<1>3. RowFollows'
  BY DEF RowFollows
<1>4. HostAnswers'
  BY DEF HostAnswers
<1>5. PictureIsOut'
  BY DEF PictureIsOut, T!Covered
<1>6. ChordsAreKnown'
  BY DEF ChordsAreKnown
<1> QED
  BY <1>1, <1>2, <1>3, <1>4, <1>5, <1>6

LEMMA AsksForTheScreen ==
    ASSUME T!TerminalAssumption, resyncs \in 0..MaxResyncs
    PROVE  /\ T!resync => resyncs' \in 0..MaxResyncs /\ resyncs' > 0
           /\ 0 \in 0..MaxResyncs
<1>1. MaxResyncs \in Nat \ {0}
  BY DEF T!TerminalAssumption
<1> QED
  BY <1>1 DEF T!resync

LEMMA LeavesKeeps == ASSUME T!TerminalAssumption, TInv, T!Leaves PROVE TInv'
<1> USE DEF TInv, T!Leaves, T!Fresh
<1>0. <<>> \in Seq(T!Key)
  OBVIOUS
<1>1. TTypes'
  BY <1>0, AsksForTheScreen DEF TTypes, AFilter, T!Popups
<1>2. SurfacesFit'
  BY DEF SurfacesFit
<1>3. RowFollows'
  BY DEF RowFollows
<1>4. HostAnswers'
  BY DEF HostAnswers
<1>5. PictureIsOut'
  BY DEF PictureIsOut
<1>6. ChordsAreKnown'
  BY DEF ChordsAreKnown
<1> QED
  BY <1>1, <1>2, <1>3, <1>4, <1>5, <1>6

LEMMA AttachKeeps ==
    ASSUME T!TerminalAssumption, TInv, NEW p \in Places, NEW m \in {"Focus", "Control"}, T!Attach(p, m)
    PROVE  TInv'
<1>1. /\ AFilter(k') /\ k'.mode = m /\ k'.prompt = "none" /\ ~k'.wheel /\ k'.forwarded = {}
  <2>1. k' = T!begin_attach(k, m, p.owns) /\ AFilter(k)
    BY DEF T!Attach, TInv, TTypes
  <2>2. m \in T!Modes
    BY DEF T!Modes
  <2> QED
    BY <2>1, <2>2, Told
<1>0. <<>> \in Seq(T!Key)
  OBVIOUS
<1> USE DEF TInv, T!Attach, T!Fresh
<1>2. TTypes'
  BY <1>0, <1>1, AsksForTheScreen DEF TTypes, AFilter, T!Popups
<1>3. SurfacesFit'
  BY <1>1 DEF SurfacesFit, Agreed, Nearly, Promptly, T!ModeOf
<1>4. RowFollows'
  BY <1>1 DEF RowFollows
<1>5. HostAnswers'
  BY <1>1 DEF HostAnswers
<1>6. PictureIsOut'
  BY DEF PictureIsOut
<1>7. ChordsAreKnown'
  BY <1>1 DEF ChordsAreKnown
<1> QED
  BY <1>2, <1>3, <1>4, <1>5, <1>6, <1>7

LEMMA FollowKeeps == ASSUME TInv, T!Follow PROVE TInv'
<1> USE DEF TInv, T!outputVars, T!sessionVars
<1>1. /\ pc = "following" /\ pc' = "acting" /\ status' = k.mode
      /\ popup' = Opened(k.mode, popup) /\ view' = view /\ k' = k /\ act' = act
      /\ place' = place /\ resyncs' = resyncs /\ chunk' = chunk
      /\ stale' = (stale \/ popup' # "none" \/ view' # "closed")
      /\ UNCHANGED <<T!outputVars, T!sessionVars>>
  BY DEF T!Follow, Opened, T!Covers
<1>2. row' = status' \/ restate'
  <2>1. CASE k.mode = "Control" /\ status # "Control" /\ popup = "none"
    BY <2>1 DEF T!Follow, T!draw_popup
  <2>2. CASE ~(k.mode = "Control" /\ status # "Control" /\ popup = "none")
    <3>1. T!settle(restate \/ k.mode # status) /\ status' = k.mode
      BY <2>2 DEF T!Follow
    <3>2. row = status \/ restate
      BY <1>1 DEF RowFollows
    <3> QED
      BY <3>1, <3>2 DEF T!settle
  <2> QED
    BY <2>1, <2>2
<1>3. TTypes'
  BY <1>1 DEF TTypes, AFilter, T!Popups, Opened
<1>4. SurfacesFit'
  BY <1>1 DEF SurfacesFit, Fits, Nearly, Promptly, T!ModeOf
<1>5. RowFollows'
  BY <1>1, <1>2 DEF RowFollows
<1>6. HostAnswers'
  BY <1>1 DEF HostAnswers
<1>7. PictureIsOut'
  BY <1>1 DEF PictureIsOut, T!Covered, Opened
<1>8. ChordsAreKnown'
  BY <1>1 DEF ChordsAreKnown
<1> QED
  BY <1>3, <1>4, <1>5, <1>6, <1>7, <1>8

\* The wheel is the client's only where the host can answer for a window.
LEMMA Wheeled ==
    ASSUME NEW f, AFilter(f), f.wheel => place.scrolls, NEW itsAsked,
           NEW g \in {f, T!set_wheel(f, T!wheel_is_ours(itsAsked))}
    PROVE  /\ AFilter(g) /\ g.mode = f.mode /\ g.prompt = f.prompt
           /\ (g.wheel => place.scrolls) /\ g.forwarded = f.forwarded
<1>1. CASE g = f
  BY <1>1
<1>2. CASE g = [f EXCEPT !.wheel = T!wheel_is_ours(itsAsked) /\ f.scroll]
  <2>1. T!wheel_is_ours(itsAsked) => place.scrolls
    BY DEF T!wheel_is_ours, T!history
  <2>2. g.wheel = (T!wheel_is_ours(itsAsked) /\ f.scroll)
    BY <1>2 DEF AFilter, KeyHas
  <2>3. AFilter(g) /\ g.mode = f.mode /\ g.prompt = f.prompt /\ g.forwarded = f.forwarded
    BY <1>2 DEF AFilter, KeyHas
  <2> QED
    BY <2>1, <2>2, <2>3
<1> QED
  BY <1>1, <1>2 DEF T!set_wheel

LEMMA CloseKeeps == ASSUME T!TerminalAssumption, TInv, T!Close PROVE TInv'
<1> USE DEF TInv, T!sessionVars
<1>1. /\ AFilter(k') /\ k'.mode = k.mode /\ k'.prompt = k.prompt
      /\ (k'.wheel => place.scrolls) /\ k'.forwarded = k.forwarded
  <2>1. k' \in {k, T!set_wheel(k, T!wheel_is_ours(mouse))}
    BY DEF T!Close, T!own_the_wheel
  <2>2. AFilter(k) /\ (k.wheel => place.scrolls)
    BY DEF T!Close, TTypes, HostAnswers
  <2> QED
    BY <2>1, <2>2, Wheeled
<1>2. TTypes'
  BY <1>1, AsksForTheScreen DEF TTypes, AFilter, T!Close, T!Popups
<1>3. ~early => Agreed(k'.mode, popup', view', k'.prompt)
  BY <1>1 DEF T!Close, SurfacesFit, RowFollows, Agreed, Nearly, Promptly, T!ModeOf, T!Popups, TTypes
<1>4. SurfacesFit'
  BY <1>1, <1>3 DEF T!Close, SurfacesFit, RowFollows, ReadyToRead, Agreed, Nearly, Promptly, T!ModeOf
<1>5. RowFollows'
  BY <1>1 DEF RowFollows, T!Close, T!settle
<1>6. HostAnswers'
  BY <1>1 DEF HostAnswers, T!Close
<1>7. PictureIsOut'
  BY AsksForTheScreen DEF PictureIsOut, T!Covered, T!Close, TTypes
<1>8. ChordsAreKnown'
  BY <1>1 DEF ChordsAreKnown, T!Close
<1> QED
  BY <1>2, <1>4, <1>5, <1>6, <1>7, <1>8

(***************************************************************************)
(* What an action does.                                                    *)
(***************************************************************************)
\* Of every arm: what it starts from.
LEMMA Acting1 ==
    ASSUME TInv, pc = "acting"
    PROVE  /\ AFilter(k) /\ k.mode \in T!Modes /\ popup \in T!Popups /\ resyncs \in 0..MaxResyncs
           /\ status = k.mode /\ (row = status \/ restate)
           /\ view # "closed" => place.scrolls
           /\ act[1] = "select" => place.scrolls
           /\ painted /\ stale => popup # "none" \/ view # "closed" \/ resyncs > 0
           /\ ~early => Fits(act, k.mode, popup, view, k.prompt)
           /\ T!ModeOf(popup) \in T!Modes
BY DEF TInv, TTypes, AFilter, RowFollows, HostAnswers, PictureIsOut, T!Covered, SurfacesFit,
       T!ModeOf, T!Popups, T!Modes

LEMMA NothingKeeps == ASSUME TInv, T!Nothing PROVE TInv'
<1>1. pc = "acting" /\ act[1] = "none"
  BY NothingIsNamed DEF T!Nothing
<1>2. /\ k' = k /\ status' = status /\ row' = row /\ restate' = restate /\ popup' = popup
      /\ view' = view /\ stale' = stale /\ resyncs' = resyncs /\ pc' = "closing"
      /\ UNCHANGED <<chunk, place, T!outputVars, T!sessionVars>> /\ painted' = painted
  BY DEF T!Nothing, T!Done, T!rowVars, T!surfaces, T!outputVars
<1>3. ~early => Nearly(k.mode, popup, view, k.prompt)
  BY <1>1, Acting1 DEF Fits
<1> QED
  BY <1>1, <1>2, <1>3, Acting1, ToTheClose

LEMMA NewKeeps == ASSUME T!TerminalAssumption, TInv, T!New PROVE TInv'
<1>1. CASE T!Leaves
  BY <1>1, LeavesKeeps
<1>2. CASE ~T!Leaves
  <2>1. /\ pc = "acting" /\ (act[1] = "new" \/ (act[1] = "pick" /\ act[2] = "hosts"))
        /\ T!SetMode(T!ModeOf(popup)) /\ T!Done /\ T!settle(TRUE)
        /\ UNCHANGED <<T!surfaces, stale, resyncs>>
    <3>1. act = <<"pick", "hosts">> => act[1] = "pick" /\ act[2] = "hosts"
      OBVIOUS
    <3> QED
      BY <1>2, <3>1 DEF T!New, T!Acting
  <2>2. /\ k' = T!set_mode(k, T!ModeOf(popup)) /\ status' = T!ModeOf(popup)
        /\ popup' = popup /\ view' = view /\ stale' = stale /\ resyncs' = resyncs /\ pc' = "closing"
        /\ UNCHANGED <<chunk, place, T!outputVars, T!sessionVars>>
        /\ row' = status' \/ restate'
    BY <2>1 DEF T!SetMode, T!Done, T!settle, T!surfaces
  <2>3. ~early => Nearly(T!ModeOf(popup), popup, view, k.prompt)
    BY <2>1, Acting1 DEF Fits, Nearly, Promptly, T!ModeOf, T!Popups
  <2> QED
    BY <2>1, <2>2, <2>3, Acting1, Told, ToTheClose
<1> QED
  BY <1>1, <1>2

\* Drawing the popup, and closing the window, settle the row.
LEMMA Drawn ==
    /\ T!draw_popup => row' = status' \/ restate'
    /\ T!put_up => row' = status'
    /\ T!settle(TRUE) => row' = status' \/ restate'
BY DEF T!draw_popup, T!put_up, T!settle

LEMMA SessionSearchKeeps == ASSUME TInv, T!SessionSearch PROVE TInv'
<1>1. /\ pc = "acting" /\ act[1] = "sessions"
      /\ popup' = IF popup = "none" THEN "sessions" ELSE popup
      /\ k' = IF act[2] = "run" THEN T!stop_typing(k) ELSE k
      /\ status' = status /\ view' = view /\ resyncs' = resyncs /\ pc' = "closing"
      /\ stale' = (stale \/ popup' # "none" \/ view' # "closed")
      /\ UNCHANGED <<chunk, place, T!outputVars, T!sessionVars>>
      /\ row' = status' \/ restate'
  BY Drawn DEF T!SessionSearch, T!Acting, T!Done, T!Covers
<1>2. /\ AFilter(k') /\ k'.mode = k.mode /\ k'.wheel = k.wheel /\ k'.forwarded = k.forwarded
      /\ k'.prompt = IF act[2] = "run" THEN "none" ELSE k.prompt
  <2>1. AFilter(k) /\ k.mode \in T!Modes
    BY <1>1, Acting1
  <2> QED
    BY <1>1, <2>1, Told
<1>3. ~early => Nearly(k'.mode, popup', view', k'.prompt)
  BY <1>1, <1>2, Acting1 DEF Fits, Nearly, Promptly, T!ModeOf
<1>4. popup' \in T!Popups
  BY <1>1, Acting1 DEF T!Popups
<1> QED
  BY <1>1, <1>2, <1>3, <1>4, Acting1, ToTheClose

LEMMA CancelKeeps == ASSUME TInv, T!Cancel PROVE TInv'
<1>1. /\ pc = "acting" /\ act[1] = "pick" /\ act[2] = "cancel"
      /\ popup' = IF popup \in {"none", "sessions"} THEN popup ELSE "sessions"
      /\ k' = k /\ status' = status /\ view' = view /\ resyncs' = resyncs /\ pc' = "closing"
      /\ stale' = stale
      /\ UNCHANGED <<chunk, place, T!outputVars, T!sessionVars>>
  <2>1. act = <<"pick", "cancel">> => act[1] = "pick" /\ act[2] = "cancel"
    OBVIOUS
  <2>2. popup \notin {"none", "sessions"} => popup' = "sessions"
    BY DEF T!Cancel
  <2>3. popup \in {"none", "sessions"} => popup' = popup
    BY DEF T!Cancel
  <2> QED
    BY <2>1, <2>2, <2>3 DEF T!Cancel, T!Done
<1>2. row' = status' \/ restate'
  BY <1>1, Acting1, Drawn DEF T!Cancel
<1>3. ~early => Nearly(k.mode, popup', view', k.prompt)
  BY <1>1, Acting1 DEF Fits, Nearly, Promptly, T!ModeOf, T!Popups
<1>4. popup' \in T!Popups /\ (popup # "none" => popup' # "none")
  BY <1>1, Acting1 DEF T!Popups
<1> QED
  BY <1>1, <1>2, <1>3, <1>4, Acting1, ToTheClose

LEMMA PickKeeps ==
    ASSUME T!TerminalAssumption, TInv, NEW onRow, T!Pick(onRow)
    PROVE  TInv'
<1> DEFINE up   == IF popup = "none" THEN "sessions" ELSE popup
           into == CASE act[2] = "move"   -> "moving"
                     [] act[2] = "groups" -> "narrowing"
                     [] act[2] = "hosts"  -> "hosting"
                     [] OTHER             -> up
<1>1. pc = "acting" /\ act[1] = "pick" /\ act[2] # "cancel"
  BY DEF T!Pick, T!Acting
<1>2. up \in T!Popups /\ up # "none" /\ T!ModeOf(up) \in T!Modes
  BY <1>1, Acting1 DEF T!Popups, T!ModeOf, T!Modes
<1>3. \/ /\ act[2] \in {"up", "down", "heading"} /\ onRow
         /\ popup' = up /\ UNCHANGED <<k, status>>
         /\ view' = view /\ T!draw_popup /\ T!Covers /\ T!Done
         /\ UNCHANGED <<owing, resyncs>>
      \/ /\ act[2] \in {"move", "groups", "hosts"}
         /\ popup' = into /\ T!SetMode("Picking")
         /\ view' = view /\ T!draw_popup /\ T!Covers /\ T!Done
         /\ UNCHANGED <<owing, resyncs>>
      \/ T!Leaves
      \/ /\ act[2] \in {"move", "groups", "go", "number"}
         /\ popup' = up /\ T!SetMode(T!ModeOf(up))
         /\ restate' = TRUE /\ row' = row
         /\ view' = view /\ T!Covers /\ T!Again
         /\ UNCHANGED <<owing, resyncs>>
  BY DEF T!Pick
<1> HIDE DEF up
<1>4. CASE /\ act[2] \in {"up", "down", "heading"}
           /\ popup' = up /\ UNCHANGED <<k, status>>
           /\ view' = view /\ T!draw_popup /\ T!Covers /\ T!Done
           /\ UNCHANGED <<owing, resyncs>>
  <2>1. row' = status' \/ restate'
    BY <1>4, Drawn
  <2>2. ~early => Nearly(k.mode, up, view, k.prompt)
    BY <1>1, <1>4, Acting1 DEF Fits, Nearly, Promptly, T!ModeOf, T!Popups, up
  <2> QED
    BY <1>1, <1>2, <1>4, <2>1, <2>2, Acting1, ToTheClose DEF T!Done, T!Covers
<1>5. CASE /\ act[2] \in {"move", "groups", "hosts"}
           /\ popup' = into /\ T!SetMode("Picking")
           /\ view' = view /\ T!draw_popup /\ T!Covers /\ T!Done
           /\ UNCHANGED <<owing, resyncs>>
  <2>1. row' = status' \/ restate'
    BY <1>5, Drawn
  <2>2. into \in {"moving", "narrowing", "hosting"}
    BY <1>5
  <2>3. into \in T!Popups /\ into # "none" /\ T!ModeOf(into) = "Picking" /\ "Picking" \in T!Modes
    BY <2>2 DEF T!Popups, T!ModeOf, T!Modes
  <2> HIDE DEF into
  <2>4. k' = T!set_mode(k, "Picking") /\ status' = "Picking"
    BY <1>5 DEF T!SetMode
  <2>5. /\ AFilter(k') /\ k'.mode = "Picking" /\ k'.prompt = k.prompt
        /\ k'.wheel = k.wheel /\ k'.forwarded = k.forwarded
    <3>1. AFilter(k)
      BY <1>1, Acting1
    <3> QED
      BY <2>3, <2>4, <3>1, Told
  <2>6. ~early => Nearly("Picking", into, view, k.prompt)
    BY <1>1, <1>5, <2>3, Acting1 DEF Fits, Nearly, Promptly
  <2> QED
    BY <1>1, <1>5, <2>1, <2>3, <2>4, <2>5, <2>6, Acting1, ToTheClose DEF T!Done, T!Covers
<1>6. CASE T!Leaves
  BY <1>6, LeavesKeeps
<1>7. CASE /\ act[2] \in {"move", "groups", "go", "number"}
           /\ popup' = up /\ T!SetMode(T!ModeOf(up))
           /\ restate' = TRUE /\ row' = row
           /\ view' = view /\ T!Covers /\ T!Again
           /\ UNCHANGED <<owing, resyncs>>
  <2>1. /\ k' = T!set_mode(k, T!ModeOf(up)) /\ status' = T!ModeOf(up) /\ pc' = "following"
        /\ act' = T!None /\ stale' = (stale \/ popup' # "none" \/ view' # "closed")
        /\ UNCHANGED <<chunk, place, T!outputVars, T!sessionVars>>
    BY <1>7 DEF T!SetMode, T!Again, T!Covers
  <2>2. /\ AFilter(k') /\ k'.mode = T!ModeOf(up) /\ k'.prompt = k.prompt
        /\ k'.wheel = k.wheel /\ k'.forwarded = k.forwarded
    <3>1. AFilter(k)
      BY <1>1, Acting1
    <3> QED
      BY <1>2, <2>1, <3>1, Told
  <2>3. ~early => Nearly(T!ModeOf(up), up, view, k.prompt)
    BY <1>1, <1>2, <1>7, Acting1 DEF Fits, Nearly, Promptly, T!ModeOf, T!Popups
  <2> USE DEF TInv, T!outputVars, T!sessionVars
  <2>4. TTypes'
    BY <1>2, <1>7, <2>1, <2>2 DEF TTypes, AFilter
  <2>5. SurfacesFit'
    <3>1. act'[1] = "none"
      BY <2>1, NothingIsNamed
    <3>2. ~early' => ~early /\ ~greet'
      BY <1>1, <2>1 DEF SurfacesFit
    <3>3. popup' # "none" /\ popup' = up /\ view' = view
      BY <1>2, <1>7
    <3> HIDE DEF TInv
    <3> QED
      BY <2>1, <2>2, <2>3, <3>1, <3>2, <3>3 DEF SurfacesFit, Fits, Opened, Nearly, Promptly, T!ModeOf
  <2>6. RowFollows'
    BY <1>7, <2>1 DEF RowFollows
  <2>7. HostAnswers'
    BY <1>1, <1>7, <2>1, <2>2, NothingIsNamed DEF HostAnswers
  <2>8. PictureIsOut'
    BY <1>2, <1>7, <2>1 DEF PictureIsOut, T!Covered
  <2>9. ChordsAreKnown'
    BY <1>1, <2>1, <2>2 DEF ChordsAreKnown
  <2> QED
    BY <2>4, <2>5, <2>6, <2>7, <2>8, <2>9
<1> QED
  BY <1>3, <1>4, <1>5, <1>6, <1>7

LEMMA GroupNameKeeps ==
    ASSUME T!TerminalAssumption, TInv, NEW onRow, NEW named, T!GroupName(onRow, named)
    PROVE  TInv'
<1>1. pc = "acting" /\ act[1] = "group"
  BY DEF T!GroupName, T!Acting
<1>2. AFilter(k) /\ k.mode \in T!Modes /\ T!ModeOf(popup) \in T!Modes
  BY <1>1, Acting1
<1>3. CASE /\ act[2] = "open"
           /\ k' = T!set_mode(T!stop_typing(k), T!ModeOf(popup))
           /\ status' = T!ModeOf(popup) /\ popup' = popup
           /\ T!draw_popup /\ T!Done
           /\ UNCHANGED <<view, owing, stale, resyncs>>
  <2>1. /\ AFilter(k') /\ k'.mode = T!ModeOf(popup) /\ k'.prompt = "none"
        /\ k'.wheel = k.wheel /\ k'.forwarded = k.forwarded
    BY <1>2, <1>3, ToldTwice
  <2>2. ~early => Nearly(k'.mode, popup, view, "none")
    BY <1>1, <2>1, Acting1 DEF Fits, Nearly, Promptly, T!ModeOf
  <2> QED
    BY <1>1, <1>3, <2>1, <2>2, Acting1, Drawn, ToTheClose DEF T!Done
<1>4. CASE T!Leaves
  BY <1>4, LeavesKeeps
<1>5. CASE /\ k' = IF act[2] = "run" THEN T!stop_typing(k) ELSE k
           /\ status' = status /\ popup' = popup
           /\ T!draw_popup /\ T!Done
           /\ UNCHANGED <<view, owing, stale, resyncs>>
  <2>1. /\ AFilter(k') /\ k'.mode = k.mode /\ k'.wheel = k.wheel /\ k'.forwarded = k.forwarded
        /\ k'.prompt = IF act[2] = "run" THEN "none" ELSE k.prompt
    BY <1>2, <1>5, Told
  <2>2. ~early => Nearly(k'.mode, popup, view, k'.prompt)
    BY <1>1, <2>1, Acting1 DEF Fits, Nearly, Promptly, T!ModeOf
  <2> QED
    BY <1>1, <1>5, <2>1, <2>2, Acting1, Drawn, ToTheClose DEF T!Done
<1> QED
  BY <1>3, <1>4, <1>5 DEF T!GroupName

LEMMA RenameKeeps ==
    ASSUME T!TerminalAssumption, TInv, NEW onRow, NEW named, T!Rename(onRow, named)
    PROVE  TInv'
<1>1. pc = "acting" /\ act[1] = "rename"
  BY DEF T!Rename, T!Acting
<1>2. AFilter(k) /\ k.mode \in T!Modes /\ "Focus" \in T!Modes
  BY <1>1, Acting1 DEF T!Modes
<1>3. CASE /\ k' = T!set_mode(T!stop_typing(k), "Focus") /\ status' = "Focus"
           /\ T!Done /\ T!settle(TRUE)
           /\ UNCHANGED <<T!surfaces, stale, resyncs>>
  <2>1. /\ AFilter(k') /\ k'.mode = "Focus" /\ k'.prompt = "none"
        /\ k'.wheel = k.wheel /\ k'.forwarded = k.forwarded
    BY <1>2, <1>3, ToldTwice
  <2>2. ~early => Nearly("Focus", popup, view, "none")
    BY <1>1, Acting1 DEF Fits, Nearly, Promptly
  <2> QED
    BY <1>1, <1>3, <2>1, <2>2, Acting1, Drawn, ToTheClose DEF T!Done, T!surfaces
<1>4. CASE T!Leaves
  BY <1>4, LeavesKeeps
<1>5. CASE /\ k' = IF act[2] = "run" THEN T!stop_typing(k) ELSE k
           /\ status' = status
           /\ T!Done /\ T!settle(TRUE)
           /\ UNCHANGED <<T!surfaces, stale, resyncs>>
  <2>1. /\ AFilter(k') /\ k'.mode = k.mode /\ k'.wheel = k.wheel /\ k'.forwarded = k.forwarded
        /\ k'.prompt = IF act[2] = "run" THEN "none" ELSE k.prompt
    BY <1>2, <1>5, Told
  <2>2. ~early => Nearly(k'.mode, popup, view, k'.prompt)
    BY <1>1, <2>1, Acting1 DEF Fits, Nearly, Promptly, T!ModeOf
  <2> QED
    BY <1>1, <1>5, <2>1, <2>2, Acting1, Drawn, ToTheClose DEF T!Done, T!surfaces
<1> QED
  BY <1>3, <1>4, <1>5 DEF T!Rename

LEMMA PasteKeeps == ASSUME TInv, NEW refused, T!Paste(refused) PROVE TInv'
<1>1. pc = "acting" /\ act[1] = "paste"
  BY DEF T!Paste, T!Acting
<1>2. /\ restate' = (restate \/ refused) /\ row' = row /\ status' = status /\ k' = k
      /\ popup' = popup /\ view' = view /\ stale' = stale /\ resyncs' = resyncs /\ pc' = "closing"
      /\ UNCHANGED <<chunk, place, T!outputVars, T!sessionVars>>
  BY DEF T!Paste, T!Done, T!surfaces
<1>3. ~early => Nearly(k.mode, popup, view, k.prompt)
  BY <1>1, Acting1 DEF Fits, Nearly, Promptly
<1>4. row' = status' \/ restate'
  BY <1>1, <1>2, Acting1
<1> QED
  BY <1>1, <1>2, <1>3, <1>4, Acting1, ToTheClose

(***************************************************************************)
(* The window on the history.                                              *)
(***************************************************************************)
LEMMA TooOldKeeps == ASSUME TInv, T!TooOld PROVE TInv'
<1>1. pc = "acting" /\ act[1] \in {"scroll", "find"} /\ view = "closed"
  BY Acting1 DEF T!TooOld
<1>2. AFilter(k) /\ k.mode \in T!Modes /\ "Focus" \in T!Modes
  BY <1>1, Acting1 DEF T!Modes
<1>3. /\ k' = T!set_mode(IF act[1] = "find" THEN T!stop_typing(k) ELSE k, "Focus")
      /\ status' = "Focus" /\ T!Done /\ T!settle(TRUE)
      /\ UNCHANGED <<T!surfaces, stale, resyncs>>
  BY <1>1 DEF T!TooOld
<1>4. /\ AFilter(k') /\ k'.mode = "Focus"
      /\ k'.prompt = IF act[1] = "find" THEN "none" ELSE k.prompt
      /\ k'.wheel = k.wheel /\ k'.forwarded = k.forwarded
  <2>1. CASE act[1] = "find"
    BY <1>2, <1>3, <2>1, ToldTwice
  <2>2. CASE act[1] # "find"
    BY <1>2, <1>3, <2>2, Told
  <2> QED
    BY <2>1, <2>2
<1>5. ~early => Nearly("Focus", popup, view, k'.prompt)
  BY <1>1, <1>4, Acting1 DEF Fits, Nearly, Promptly
<1> QED
  BY <1>1, <1>3, <1>4, <1>5, Acting1, Drawn, ToTheClose DEF T!Done, T!surfaces

LEMMA LeaveViewKeeps == ASSUME T!TerminalAssumption, TInv, T!LeaveView PROVE TInv'
<1>1. pc = "acting" /\ act[1] = "scroll" /\ act[2] = "leave"
  <2>1. act = <<"scroll", "leave">> => act[1] = "scroll" /\ act[2] = "leave"
    OBVIOUS
  <2> QED
    BY <2>1 DEF T!LeaveView
<1>2. /\ view' = "closed" /\ T!resync /\ restate' = TRUE /\ T!Done
      /\ k' = k /\ status' = status /\ popup' = popup
  BY DEF T!LeaveView
<1>3. resyncs' \in 0..MaxResyncs /\ resyncs' > 0
  BY <1>1, <1>2, Acting1, AsksForTheScreen
<1>4. ~early => Nearly(k.mode, popup, "closed", k.prompt)
  BY <1>1, Acting1 DEF Fits, Nearly, Promptly
<1> QED
  BY <1>1, <1>2, <1>3, <1>4, Acting1, ToTheClose DEF T!Done

\* The window is closed on the way.
LEMMA ClosesTheView ==
    ASSUME T!TerminalAssumption, TInv, pc = "acting", T!close_view, popup' = popup, T!Done,
           ~early => k.mode = "Scroll" /\ k.prompt \in {"none", "find"}
    PROVE  TInv'
<1>1. /\ AFilter(k') /\ k'.mode = "Focus" /\ k'.prompt = k.prompt
      /\ k'.wheel = k.wheel /\ k'.forwarded = k.forwarded
  <2>1. k' = T!set_mode(k, "Focus") /\ AFilter(k) /\ "Focus" \in T!Modes
    BY Acting1 DEF T!close_view, T!SetMode, T!Modes
  <2> QED
    BY <2>1, Told
<1>2. /\ view' = "closed" /\ status' = "Focus" /\ T!resync /\ T!settle(TRUE) /\ stale' = stale
  BY DEF T!close_view, T!SetMode
<1>3. resyncs' \in 0..MaxResyncs /\ resyncs' > 0
  BY <1>2, Acting1, AsksForTheScreen
<1>4. ~early => Nearly("Focus", popup, "closed", k.prompt)
  BY DEF Nearly, Promptly
<1> QED
  BY <1>1, <1>2, <1>3, <1>4, Acting1, Drawn, ToTheClose DEF T!Done

\* The window goes up, or stays up.
LEMMA PutsUpTheView ==
    ASSUME TInv, pc = "acting", place.scrolls, view' # "closed", popup' = popup, T!Done,
           T!put_up, T!Covers, resyncs' = resyncs, status' = status,
           AFilter(k'), k'.mode = k.mode, k'.wheel = k.wheel, k'.forwarded = k.forwarded,
           ~early => k.mode = "Scroll" /\ k'.prompt \in {"none", "find"}
    PROVE  TInv'
<1>1. ~early => Nearly(k.mode, popup, view', k'.prompt)
  BY DEF Nearly, Promptly
<1> QED
  BY <1>1, Acting1, Drawn, ToTheClose DEF T!Done, T!Covers

LEMMA ScrollKeeps ==
    ASSUME T!TerminalAssumption, TInv, NEW v \in {"live", "back"}, T!Scroll(v)
    PROVE  TInv'
<1>1. pc = "acting" /\ act[1] = "scroll" /\ act[2] # "leave" /\ place.scrolls /\ popup' = popup /\ T!Done
  BY DEF T!Scroll, T!Acting
<1>2. ~early => k.mode = "Scroll" /\ k.prompt = "none"
  BY <1>1, Acting1 DEF Fits
<1>3. CASE T!close_view
  BY <1>1, <1>2, <1>3, ClosesTheView
<1>4. CASE ~T!close_view
  <2>1. view' = v /\ UNCHANGED <<k, status, owing, resyncs>> /\ T!put_up /\ T!Covers
    BY <1>4 DEF T!Scroll
  <2> QED
    BY <1>1, <1>2, <2>1, Acting1, PutsUpTheView
<1> QED
  BY <1>3, <1>4

LEMMA FindKeeps ==
    ASSUME TInv, NEW v \in {"live", "back"}, T!Find(v)
    PROVE  TInv'
<1>1. /\ pc = "acting" /\ act[1] = "find" /\ place.scrolls /\ popup' = popup /\ T!Done
      /\ status' = status /\ T!put_up /\ T!Covers /\ resyncs' = resyncs
      /\ k' = IF act[2] = "run" THEN T!stop_typing(k) ELSE k
      /\ view' = IF act[2] = "step" THEN v ELSE IF view = "closed" THEN "live" ELSE view
  BY DEF T!Find, T!Acting
<1>2. ~early => k.mode = "Scroll" /\ k.prompt \in {"none", "find"}
  BY <1>1, Acting1 DEF Fits
<1>3. AFilter(k) /\ k.mode \in T!Modes
  BY <1>1, Acting1
<1>4. /\ AFilter(k') /\ k'.mode = k.mode /\ k'.wheel = k.wheel /\ k'.forwarded = k.forwarded
      /\ k'.prompt \in {k.prompt, "none"}
  BY <1>1, <1>3, Told
<1>5. view' # "closed"
  BY <1>1
<1> QED
  BY <1>1, <1>2, <1>4, <1>5, PutsUpTheView

LEMMA SelectKeeps ==
    ASSUME T!TerminalAssumption, TInv, NEW itsOwed, T!Select(itsOwed)
    PROVE  TInv'
<1>1. pc = "acting" /\ act[1] = "select" /\ place.scrolls /\ popup' = popup /\ T!Done
  BY DEF T!Select, T!Acting
<1>2. ~early => k.mode = "Scroll" /\ k.prompt = "none"
  BY <1>1, Acting1 DEF Fits
<1>3. CASE T!close_view
  BY <1>1, <1>2, <1>3, ClosesTheView
<1>4. CASE ~T!close_view
  <2>1. /\ view' = IF view = "closed" THEN "live" ELSE view
        /\ UNCHANGED <<k, status, resyncs>> /\ T!put_up /\ T!Covers
    BY <1>4 DEF T!Select
  <2>2. view' # "closed"
    BY <2>1
  <2> QED
    BY <1>1, <1>2, <2>1, <2>2, Acting1, PutsUpTheView
<1> QED
  BY <1>3, <1>4

(***************************************************************************)
(* What the session and the clock bring.                                   *)
(***************************************************************************)
\* Between two passes: what there is, and what a step must leave.
LEMMA Waiting ==
    ASSUME TInv, T!Idle
    PROVE  /\ AFilter(k) /\ k.mode \in T!Modes /\ popup \in T!Popups /\ resyncs \in 0..MaxResyncs
           /\ status = k.mode /\ (row = status \/ restate)
           /\ (view # "closed" => place.scrolls) /\ (k.wheel => place.scrolls)
           /\ painted /\ stale => T!Covered \/ resyncs > 0
           /\ ~early => IF greet THEN /\ k.mode = "Control" /\ k.prompt = "none"
                                      /\ popup = "none" /\ view = "closed"
                                 ELSE Agreed(k.mode, popup, view, k.prompt)
BY DEF T!Idle, TInv, TTypes, AFilter, RowFollows, HostAnswers, PictureIsOut, SurfacesFit

LEMMA StillIdle ==
    ASSUME TInv, T!Idle, T!Quiet,
           AFilter(k'), k'.wheel => place.scrolls, k'.forwarded \subseteq k.forwarded,
           popup' \in T!Popups, resyncs' \in 0..MaxResyncs,
           ~early => IF greet' THEN /\ k'.mode = "Control" /\ k'.prompt = "none"
                                    /\ popup' = "none" /\ view' = "closed"
                               ELSE Agreed(k'.mode, popup', view', k'.prompt),
           status' = k'.mode, row' = status' \/ restate',
           view' # "closed" => place.scrolls,
           painted' /\ stale' => popup' # "none" \/ view' # "closed" \/ resyncs' > 0
    PROVE  TInv'
<1> USE DEF TInv, T!Idle, T!Quiet, T!sessionVars
<1>1. TTypes'
  BY DEF TTypes, AFilter
<1>2. SurfacesFit'
  BY DEF SurfacesFit, Agreed, Nearly, Promptly, T!ModeOf
<1>3. RowFollows'
  BY DEF RowFollows
<1>4. HostAnswers'
  BY DEF HostAnswers
<1>5. PictureIsOut'
  BY DEF PictureIsOut, T!Covered
<1>6. ChordsAreKnown'
  BY DEF ChordsAreKnown
<1> QED
  BY <1>1, <1>2, <1>3, <1>4, <1>5, <1>6

\* What a frame says of releases, and of the mouse, changes nothing else.
LEMMA Followed ==
    ASSUME AFilter(k), k.mode \in T!Modes, k.wheel => place.scrolls, NEW ended, NEW itsAsked,
           NEW g \in {T!drop_finished_releases(k, ended),
                      T!set_wheel(T!drop_finished_releases(k, ended), T!wheel_is_ours(itsAsked))}
    PROVE  /\ AFilter(g) /\ g.mode = k.mode /\ g.prompt = k.prompt
           /\ (g.wheel => place.scrolls) /\ g.forwarded \subseteq k.forwarded
<1> DEFINE f == T!drop_finished_releases(k, ended)
<1>1. f \in {k, T!release_reports_ended(k)}
  BY DEF T!drop_finished_releases
<1> HIDE DEF f
<1>2. /\ AFilter(f) /\ f.mode = k.mode /\ f.prompt = k.prompt /\ f.wheel = k.wheel
      /\ f.forwarded \subseteq k.forwarded
  BY <1>1 DEF T!release_reports_ended, AFilter, KeyHas
<1>3. g \in {f, T!set_wheel(f, T!wheel_is_ours(itsAsked))}
  BY DEF f
<1> QED
  BY <1>2, <1>3, Wheeled

LEMMA OutputKeeps ==
    ASSUME T!TerminalAssumption, TInv, NEW what, NEW whole \in BOOLEAN, T!Output(what, whole)
    PROVE  TInv'
<1> DEFINE itsAsked   == CASE what = "mouse on" -> TRUE
                        [] what = "mouse off" -> FALSE
                        [] OTHER -> mouse
           switched == what = "switch" /\ place.owns /\ painted
           cleared == what \in {"clear", "switch"} \/ ~painted
           ended == what = "releases ended"
           f == T!drop_finished_releases(k, ended)
           ours == T!wheel_is_ours(itsAsked)
           shown == IF cleared /\ ~T!Covered THEN "gone" ELSE row
<1>1. /\ T!Idle /\ T!Quiet /\ status' = status /\ view' = view
      /\ k' \in {f, T!set_wheel(f, ours)}
      /\ IF greet \/ (whole /\ (restate \/ cleared))
         THEN row' = status' /\ restate' = FALSE
         ELSE row' = shown /\ restate' = (restate \/ cleared)
      /\ popup' = IF greet THEN "sessions" ELSE popup
      /\ greet' = FALSE
      /\ stale' = (T!Covered \/ greet \/ switched \/ (painted /\ stale))
      /\ IF switched THEN T!resync ELSE resyncs' = resyncs
  BY DEF T!Output
<1> HIDE DEF itsAsked, ended
<1>3. /\ AFilter(k') /\ k'.mode = k.mode /\ k'.prompt = k.prompt
      /\ (k'.wheel => place.scrolls) /\ k'.forwarded \subseteq k.forwarded
  <2>1. AFilter(k) /\ k.mode \in T!Modes /\ (k.wheel => place.scrolls)
    BY <1>1, Waiting
  <2> QED
    BY <1>1, <2>1, Followed
<1> HIDE DEF f, ours, switched
<1>4. popup' \in T!Popups /\ resyncs' \in 0..MaxResyncs /\ (switched => resyncs' > 0)
  BY <1>1, Waiting, AsksForTheScreen DEF T!Popups
<1>5. row' = status' \/ restate'
  BY <1>1, Waiting
<1>6. ~early => Agreed(k'.mode, popup', view', k'.prompt)
  BY <1>1, <1>3, Waiting DEF Agreed, Nearly, Promptly, T!ModeOf
<1>7. painted' /\ stale' => popup' # "none" \/ view' # "closed" \/ resyncs' > 0
  BY <1>1, <1>4, Waiting DEF T!Covered
<1> QED
  BY <1>1, <1>3, <1>4, <1>5, <1>6, <1>7, Waiting, StillIdle

LEMMA ScreenKeeps ==
    ASSUME T!TerminalAssumption, TInv, NEW itsAsked, NEW ended, T!Screen(itsAsked, ended)
    PROVE  TInv'
<1> DEFINE f == T!drop_finished_releases(k, ended)
           ours == T!wheel_is_ours(itsAsked)
<1>1. /\ T!Idle /\ T!Quiet /\ resyncs > 0 /\ resyncs' = resyncs - 1
      /\ status' = status /\ row' = status /\ popup' = popup /\ view' = view /\ greet' = greet
      /\ painted' = painted /\ k' \in {f, T!set_wheel(f, ours)}
      /\ IF T!Covered THEN stale' = stale ELSE stale' = FALSE
  BY DEF T!Screen, T!surfaces
<1>3. /\ AFilter(k') /\ k'.mode = k.mode /\ k'.prompt = k.prompt
      /\ (k'.wheel => place.scrolls) /\ k'.forwarded \subseteq k.forwarded
  <2>1. AFilter(k) /\ k.mode \in T!Modes /\ (k.wheel => place.scrolls)
    BY <1>1, Waiting
  <2> QED
    BY <1>1, <2>1, Followed
<1>4. resyncs' \in 0..MaxResyncs
  <2>1. MaxResyncs \in Nat /\ resyncs \in 0..MaxResyncs
    BY <1>1, Waiting DEF T!TerminalAssumption
  <2> QED
    BY <1>1, <2>1
<1>5. painted' /\ stale' => popup' # "none" \/ view' # "closed"
  BY <1>1 DEF T!Covered
<1> HIDE DEF f, ours
<1> QED
  BY <1>1, <1>3, <1>4, <1>5, Waiting, StillIdle

LEMMA ViewLandedKeeps ==
    ASSUME T!TerminalAssumption, TInv, NEW v \in {"live", "back"}, NEW itsAnswered,
           T!ViewLanded(v, itsAnswered)
    PROVE  TInv'
<1>1. /\ T!Idle /\ T!Quiet /\ view # "closed" /\ popup' = popup /\ greet' = greet /\ painted' = painted
  BY DEF T!ViewLanded, T!outputVars
<1>2. ~early => ~greet /\ k.mode = "Scroll" /\ Agreed("Scroll", popup, view, k.prompt)
  BY <1>1, Waiting DEF Agreed, Nearly
<1>3. CASE T!close_view
  <2>1. /\ AFilter(k') /\ k'.mode = "Focus" /\ k'.prompt = k.prompt
        /\ k'.wheel = k.wheel /\ k'.forwarded = k.forwarded
    <3>1. k' = T!set_mode(k, "Focus") /\ AFilter(k) /\ "Focus" \in T!Modes
      BY <1>1, <1>3, Waiting DEF T!close_view, T!SetMode, T!Modes
    <3> QED
      BY <3>1, Told
  <2>2. /\ view' = "closed" /\ status' = "Focus" /\ T!resync /\ T!settle(TRUE)
    BY <1>3 DEF T!close_view, T!SetMode
  <2>3. resyncs' \in 0..MaxResyncs /\ resyncs' > 0
    BY <1>1, <2>2, Waiting, AsksForTheScreen
  <2>4. ~early => Agreed("Focus", popup, "closed", k.prompt)
    BY <1>1, <1>2, Waiting DEF Agreed, Nearly, Promptly, T!ModeOf, T!Popups
  <2> QED
    BY <1>1, <1>2, <2>1, <2>2, <2>3, <2>4, Waiting, Drawn, StillIdle
<1>4. CASE ~T!close_view
  <2>1. view' = v /\ UNCHANGED <<k, status, stale, resyncs>> /\ T!put_up
    BY <1>4 DEF T!ViewLanded
  <2>2. ~early => Agreed(k.mode, popup, v, k.prompt)
    BY <1>1, <1>2 DEF Agreed, Nearly
  <2> QED
    BY <1>1, <1>2, <2>1, <2>2, Waiting, Drawn, StillIdle
<1> QED
  BY <1>3, <1>4

LEMMA ViewMovesKeeps ==
    ASSUME TInv, NEW v \in {"live", "back"}, T!ViewMoves(v)
    PROVE  TInv'
<1>1. /\ T!Idle /\ T!Quiet /\ view # "closed" /\ view' = v /\ status' = status /\ T!put_up
      /\ k' = k /\ popup' = popup /\ stale' = stale /\ resyncs' = resyncs
      /\ greet' = greet /\ painted' = painted
  BY DEF T!ViewMoves, T!outputVars
<1>2. ~early => ~greet /\ Agreed(k.mode, popup, v, k.prompt)
  BY <1>1, Waiting DEF Agreed, Nearly
<1> QED
  BY <1>1, <1>2, Waiting, Drawn, StillIdle

LEMMA SaidKeeps == ASSUME TInv, T!Said PROVE TInv'
<1>1. /\ T!Idle /\ T!Quiet /\ status' = status /\ T!settle(TRUE)
      /\ k' = k /\ popup' = popup /\ view' = view /\ stale' = stale /\ resyncs' = resyncs
      /\ greet' = greet /\ painted' = painted
  BY DEF T!Said, T!surfaces, T!pictureVars
<1> QED
  BY <1>1, Waiting, Drawn, StillIdle DEF T!Covered

LEMMA LandedKeeps == ASSUME TInv, T!Landed PROVE TInv'
<1>1. /\ T!Idle /\ T!Quiet /\ status' = status /\ T!draw_popup
      /\ k' = k /\ popup' = popup /\ view' = view /\ stale' = stale /\ resyncs' = resyncs
      /\ greet' = greet /\ painted' = painted
  BY DEF T!Landed, T!outputVars, T!pictureVars
<1> QED
  BY <1>1, Waiting, Drawn, StillIdle DEF T!Covered

LEMMA ResizedKeeps == ASSUME T!TerminalAssumption, TInv, T!Resized PROVE TInv'
<1>1. /\ T!Idle /\ T!Quiet /\ status' = status /\ row' = status
      /\ k' = k /\ popup' = popup /\ view' = view
      /\ greet' = greet /\ painted' = painted
      /\ IF T!Covered THEN resyncs' = resyncs ELSE T!resync
  BY DEF T!Resized, T!outputVars, T!surfaces
<1>2. resyncs' \in 0..MaxResyncs /\ (~T!Covered => resyncs' > 0)
  BY <1>1, Waiting, AsksForTheScreen
<1> QED
  BY <1>1, <1>2, Waiting, StillIdle DEF T!Covered

LEMMA SlowKeeps == ASSUME TInv, T!Slow PROVE TInv'
<1>1. /\ T!Idle /\ T!Quiet /\ k' = [k EXCEPT !.quick = FALSE]
      /\ UNCHANGED <<T!rowVars, T!surfaces, T!outputVars, T!pictureVars>>
  BY DEF T!Slow
<1>2. /\ AFilter(k') /\ k'.mode = k.mode /\ k'.prompt = k.prompt
      /\ k'.wheel = k.wheel /\ k'.forwarded = k.forwarded
  <2>1. AFilter(k)
    BY <1>1, Waiting
  <2> QED
    BY <1>1, <2>1 DEF AFilter, KeyHas
<1>3. /\ status' = status /\ row' = row /\ restate' = restate /\ popup' = popup
      /\ view' = view /\ stale' = stale /\ resyncs' = resyncs
      /\ greet' = greet /\ painted' = painted
  BY <1>1 DEF T!rowVars, T!surfaces, T!outputVars, T!pictureVars
<1> QED
  BY <1>1, <1>2, <1>3, Waiting, StillIdle DEF T!Covered

(***************************************************************************)
(* Every step.                                                             *)
(***************************************************************************)
LEMMA TInitially == ASSUME T!TerminalAssumption, T!Init PROVE TInv
<1>1. /\ AFilter(k) /\ k.mode = "Focus" /\ k.prompt = "none" /\ ~k.wheel /\ k.forwarded = {}
  <2>1. k = T!begin_attach(T!NewFilter, "Focus", place.owns) /\ "Focus" \in T!Modes
    BY DEF T!Init, T!Modes
  <2>2. AFilter(T!NewFilter)
    BY DEF AFilter, T!NewFilter, KeyHas, T!Modes, T!Prompts
  <2> QED
    BY <2>1, <2>2, Told
<1>2. <<>> \in Seq(T!Key) /\ 0 \in 0..MaxResyncs
  BY DEF T!TerminalAssumption
<1> USE DEF T!Init
<1>3. TTypes
  BY <1>1, <1>2 DEF TTypes, T!Popups
<1>4. SurfacesFit
  BY <1>1 DEF SurfacesFit, Agreed, Nearly, Promptly, T!ModeOf
<1>5. RowFollows /\ HostAnswers /\ PictureIsOut /\ ChordsAreKnown
  BY <1>1 DEF RowFollows, HostAnswers, PictureIsOut, ChordsAreKnown
<1> QED
  BY <1>3, <1>4, <1>5 DEF TInv

LEMMA TActed == ASSUME T!TerminalAssumption, TInv, NEW b \in BOOLEAN, NEW c \in BOOLEAN, T!Action(b, c) PROVE TInv'
<1>1. CASE T!Nothing
  BY <1>1, NothingKeeps
<1>2. CASE T!Detach \/ T!Switch
  BY <1>2, LeavesKeeps DEF T!Detach, T!Switch
<1>3. CASE T!New
  BY <1>3, NewKeeps
<1>4. CASE T!SessionSearch
  BY <1>4, SessionSearchKeeps
<1>5. CASE T!Cancel
  BY <1>5, CancelKeeps
<1>6. CASE T!Pick(b)
  BY <1>6, PickKeeps
<1>7. CASE T!GroupName(b, c)
  BY <1>7, GroupNameKeeps
<1>8. CASE T!Rename(b, c)
  BY <1>8, RenameKeeps
<1>9. CASE T!Paste(b)
  BY <1>9, PasteKeeps
<1>10. CASE T!TooOld
  BY <1>10, TooOldKeeps
<1>11. CASE T!LeaveView
  BY <1>11, LeaveViewKeeps
<1>12. CASE T!Select(b)
  BY <1>12, SelectKeeps
<1> QED
  BY <1>1, <1>2, <1>3, <1>4, <1>5, <1>6, <1>7, <1>8, <1>9, <1>10, <1>11, <1>12 DEF T!Action

LEMMA TPreserved == ASSUME T!TerminalAssumption, TInv, [T!Next]_(T!vars) PROVE TInv'
<1>1. ASSUME NEW keys \in Typed, T!Type(keys)
      PROVE  TInv'
  <2>1. keys \in Seq(T!Key) /\ keys # <<>>
    BY DEF T!TerminalAssumption
  <2> QED
    BY <1>1, <2>1, ReadsKeeps DEF T!Type
<1>2. CASE T!Read
  <2>1. chunk \in Seq(T!Key) /\ chunk # <<>> /\ pc = "reading" /\ T!Reads(chunk)
    BY <1>2 DEF T!Read, TInv, TTypes
  <2> QED
    BY <2>1, ReadsKeeps
<1>3. CASE T!Follow \/ T!Close
  BY <1>3, FollowKeeps, CloseKeeps
<1>4. ASSUME NEW b \in BOOLEAN, NEW c \in BOOLEAN, T!Action(b, c)
      PROVE  TInv'
  BY <1>4, TActed
<1>5. ASSUME NEW v \in {"live", "back"}, T!Scroll(v) \/ T!Find(v)
      PROVE  TInv'
  BY <1>5, ScrollKeeps, FindKeeps
<1>6. CASE T!Keyboard
  BY <1>1, <1>2, <1>3, <1>4, <1>5, <1>6 DEF T!Keyboard
<1>7. CASE T!Frames
  <2>1. ASSUME NEW what, NEW whole \in BOOLEAN, T!Output(what, whole)
        PROVE  TInv'
    BY <2>1, OutputKeeps
  <2>2. ASSUME NEW itsAsked \in BOOLEAN, NEW ended \in BOOLEAN, T!Screen(itsAsked, ended)
        PROVE  TInv'
    BY <2>2, ScreenKeeps
  <2>3. ASSUME NEW v \in {"live", "back"}, NEW itsAnswered \in BOOLEAN, T!ViewLanded(v, itsAnswered)
        PROVE  TInv'
    BY <2>3, ViewLandedKeeps
  <2>4. ASSUME NEW v \in {"live", "back"}, T!ViewMoves(v)
        PROVE  TInv'
    BY <2>4, ViewMovesKeeps
  <2> QED
    BY <1>7, <2>1, <2>2, <2>3, <2>4 DEF T!Frames
<1>8. CASE T!Said \/ T!Landed \/ T!Resized \/ T!Gone \/ T!Slow
  BY <1>8, SaidKeeps, LandedKeeps, ResizedKeeps, LeavesKeeps, SlowKeeps DEF T!Gone
<1>9. ASSUME NEW p \in Places, NEW m \in {"Focus", "Control"}, T!Attach(p, m)
      PROVE  TInv'
  BY <1>9, AttachKeeps
<1>10. CASE UNCHANGED T!vars
  BY <1>10 DEF T!vars, TInv, TTypes, AFilter, SurfacesFit, RowFollows, HostAnswers, PictureIsOut,
     ChordsAreKnown, T!Covered, Agreed, Nearly, Promptly, T!ModeOf, ReadyToRead, Between, Finding,
     Fits, Opened
<1> QED
  BY <1>6, <1>7, <1>8, <1>9, <1>10 DEF T!Next

\* The three properties of the terminal that the run checks.
LEMMA THolds == ASSUME TInv PROVE T!PictureIsOwed /\ T!SurfacesFollowTheMode /\ T!NoOrphans
<1>1. T!PictureIsOwed /\ T!NoOrphans
  BY DEF TInv, PictureIsOut, ChordsAreKnown, T!PictureIsOwed, T!NoOrphans
<1>2. T!SurfacesFollowTheMode
  BY DEF TInv, TTypes, RowFollows, SurfacesFit, Agreed, Nearly, Promptly, T!ModeOf, T!Popups,
         T!SurfacesFollowTheMode
<1> QED
  BY <1>1, <1>2

\* Whatever it does, a behaviour that is of the terminal keeps it.
TPart == part = "terminal" => TInv

LEMMA TPartInitially == Init => TPart
<1> SUFFICES ASSUME Init, part = "terminal" PROVE TInv
  BY DEF TPart
<1>1. T!Init
  BY DEF Init
<1> QED
  BY <1>1, TerminalAssumed, TInitially

LEMMA TPartStep ==
    ASSUME [Next]_vars, part' = "terminal"
    PROVE  part = "terminal" /\ [T!Next]_(T!vars)
<1>1. CASE UNCHANGED vars
  BY <1>1 DEF vars, Beyond19, Beyond17, Beyond13, Beyond12, Beyond10,
     Beyond9, Beyond8, Beyond7, Beyond4,
     T!vars
<1>2. CASE Next
  BY <1>2 DEF Next
<1> QED
  BY <1>1, <1>2

LEMMA TPartPreserved == TPart /\ [Next]_vars => TPart'
<1> SUFFICES ASSUME TPart, [Next]_vars, part' = "terminal" PROVE TInv'
  BY DEF TPart
<1> QED
  BY TPartStep, TPreserved, TerminalAssumed DEF TPart

HIDE DEF k, chunk, act, pc, place, status, row, restate, popup, view, owing,
    greet, painted, mouse, stale, resyncs, down, orphan, early

(***************************************************************************)
(* The theorems.                                                           *)
(***************************************************************************)
\* A client that shows a name its session does not bear has the right one on
\* its way, whatever renames land between the steps of an answer: the renames
\* of any number of clients, of this session and of others.
THEOREM ClientsCatchUp == Spec => []NamesCatchUp
<1>1. Init => NPart
  BY NPartInitially
<1>2. NPart /\ [Next]_vars => (NPart)'
  BY NPartPreserved
<1>3. NPart => NamesCatchUp
  BY NHolds DEF NamesCatchUp, NPart
<1> QED
  BY <1>1, <1>2, <1>3, PTL DEF Spec

\* What a client reading the history holds goes on naming the lines it was made
\* of, however much the session prints between its answers, and a window without
\* its lines has its question or the answer to it on the way: for any window,
\* buffer, block and selection, and any lines printed.
THEOREM ReadersKeepTheirPlace == Spec => []WindowIsTheHistory
<1>1. Init => VPart
  BY VPartInitially
<1>2. VPart /\ [Next]_vars => VPart'
  BY VPartPreserved
<1>3. VPart => WindowIsTheHistory
  BY VHolds, ScrollAssumed DEF WindowIsTheHistory, VPart
<1> QED
  BY <1>1, <1>2, <1>3, PTL DEF Spec

\* The session is given what a client sends, once each, whole and in order, for
\* any number of keys and pastes of any size, and a client that answers its pings
\* is not put out for its silence.
THEOREM InputIsGivenOnce == Spec => []InputIsHeard
<1>1. Init => PPart
  BY PPartInitially
<1>2. PPart /\ [Next]_vars => (PPart)'
  BY PPartPreserved
<1>3. PPart => InputIsHeard
  BY PHolds DEF InputIsHeard, PPart
<1> QED
  BY <1>1, <1>2, <1>3, PTL DEF Spec

\* The picture behind a list or a window is on its way once they are closed, the
\* row, the list, the window and the prompts show what the keys are read for, and
\* no session is given part of a chord that went down for another: for any chunks
\* of keys, any keys in them, and any attachments.
THEOREM SurfacesAreRight == Spec => []SurfacesFollowTheMode
<1>1. Init => TPart
  BY TPartInitially
<1>2. TPart /\ [Next]_vars => (TPart)'
  BY TPartPreserved
<1>3. TPart => SurfacesFollowTheMode
  BY THolds DEF SurfacesFollowTheMode, TPart
<1> QED
  BY <1>1, <1>2, <1>3, PTL DEF Spec


\* The variables of the names and of the window on the history keep their types.
THEOREM ClientTypesAreKept ==
    Spec => [](/\ part = "naming" => N!TypeOK
               /\ part = "scroll" => V!TypeOK)
<1> DEFINE Both == NPart /\ VPart
           AsTyped == /\ part = "naming" => N!TypeOK
                      /\ part = "scroll" => V!TypeOK
<1>1. Init => Both
  BY NPartInitially, VPartInitially
<1>2. Both /\ [Next]_vars => Both'
  BY NPartPreserved, VPartPreserved
<1>3. Both => AsTyped
  <2>1. NPart => (part = "naming" => N!TypeOK)
    BY DEF NPart, NInv
  <2>2. VPart => (part = "scroll" => V!TypeOK)
    BY VTyped, ScrollAssumed DEF VPart
  <2> QED
    BY <2>1, <2>2
<1> QED
  BY <1>1, <1>2, <1>3, PTL DEF Spec
=============================================================================
