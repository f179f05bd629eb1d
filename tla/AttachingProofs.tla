-------------------------- MODULE AttachingProofs --------------------------
(***************************************************************************)
(* What holds of Attaching for any sessions, machines, names and groups.   *)
(*                                                                         *)
(* Three theorems, from two invariants.  EndsAsAsked is about the flags    *)
(* that do_attach carries from one turn of its loop to the next, and needs *)
(* three facts more: an attach that has landed carries no exit, a run that *)
(* is over says how, and the exit that is carried is of a session that was *)
(* started and has ended, which no rename and no start of another brings   *)
(* back.                                                                   *)
(*                                                                         *)
(* HoldsTogether and WaitsForItsSession are about the cycle and the        *)
(* listings.  For them a sorted listing is shown to have each session      *)
(* once, the older before on a machine, and a fold of renames to leave the *)
(* address of the run and its narrowing alone.  Both are inductions: the   *)
(* least number at which it fails (LeastOf) is where the step says it does *)
(* not.                                                                    *)
(***************************************************************************)
EXTENDS Attaching, FiniteSetTheorems, TLAPS

(***************************************************************************)
(* Sets in order, and folds.                                               *)
(***************************************************************************)

\* A set of numbers that has one has a least.
LEMMA LeastOf ==
    ASSUME NEW T \in SUBSET Nat, T # {}
    PROVE  \E m \in T : \A k \in T : m <= k
<1> DEFINE less == {p \in Nat \X Nat : p[1] < p[2]}
<1>1. IsWellFoundedOn(less, Nat)
  BY NatLessThanWellFounded DEF OpToRel
<1>2. \A k, m \in T : k < m => <<k, m>> \in less
  OBVIOUS
<1> HIDE DEF less
<1>3. PICK m \in T : \A k \in T : <<k, m>> \notin less
  BY <1>1, WFMin
<1>4. \A k \in T : ~ (k < m)
  BY <1>2, <1>3, Zenon
<1>5. \A k \in T : m <= k
  BY <1>4
<1> QED BY <1>5

\* Some of the numbers up to n, if any, have a greatest: what Max chooses.
LEMMA GreatestOf ==
    ASSUME NEW n \in Nat, NEW T \in SUBSET (1..n), T # {}
    PROVE  Max(T) \in T /\ \A k \in T : k <= Max(T)
<1> DEFINE U == {n - k : k \in T}
<1>1. U \in SUBSET Nat /\ U # {}
  <2>1. \A k \in T : k \in 1 .. n /\ n - k \in U
    OBVIOUS
  <2>2. \A k \in T : n - k \in Nat
    BY <2>1
  <2> QED BY <2>1, <2>2
<1>2. PICK m \in U : \A k \in U : m <= k
  <2> HIDE DEF U
  <2> QED BY <1>1, LeastOf
<1>3. PICK g \in T : m = n - g
  OBVIOUS
<1>4. \A k \in T : n - g <= n - k
  BY <1>2, <1>3
<1>5. \A k \in T : g >= k
  BY <1>4
<1> QED BY <1>5 DEF Max

\* R orders the elements of S, each of two before the other one.
Orders(S, R) ==
    /\ \A x \in S : <<x, x>> \notin R
    /\ \A x, y, z \in S : <<x, y>> \in R /\ <<y, z>> \in R => <<x, z>> \in R
    /\ \A x, y \in S : x = y \/ <<x, y>> \in R \/ <<y, x>> \in R

\* What InOrder makes of a finite set has each of its elements at one place, and
\* of two places the element before at the one before.
LEMMA Ranked ==
    ASSUME NEW S, IsFiniteSet(S), NEW R, Orders(S, R)
    PROVE  /\ InOrder(S, R) \in [1 .. Cardinality(S) -> S] /\ Cardinality(S) \in Nat
           /\ \A x \in S : \E n \in 1 .. Cardinality(S) : InOrder(S, R)[n] = x
           /\ \A m, n \in 1 .. Cardinality(S) : m < n => <<InOrder(S, R)[m], InOrder(S, R)[n]>> \in R
<1> DEFINE size == Cardinality(S)
           below(x) == {y \in S : <<y, x>> \in R}
           rank == [x \in S |-> Cardinality(below(x))]
<1>1. size \in Nat
  BY FS_CardinalityType
<1>2. \A x \in S : below(x) \in SUBSET S /\ x \notin below(x)
  BY DEF Orders
<1>3. \A x, y \in S : <<x, y>> \in R => below(x) \in SUBSET below(y) /\ below(x) # below(y)
  BY DEF Orders
<1>4. \A x \in S : rank[x] = Cardinality(below(x))
  OBVIOUS
<1>5. DOMAIN rank = S /\ rank = [x \in S |-> rank[x]]
  OBVIOUS
<1> DEFINE q == InOrder(S, R)
<1>6. q = [n \in 1 .. size |-> CHOOSE x \in S : Cardinality(below(x)) = n - 1]
  BY Zenon DEF InOrder
<1> HIDE DEF below, rank, q
<1>7. \A x \in S : IsFiniteSet(below(x)) /\ rank[x] \in 0 .. size - 1
  <2> SUFFICES ASSUME NEW x \in S PROVE IsFiniteSet(below(x)) /\ rank[x] \in 0 .. size - 1
    OBVIOUS
  <2>1. below(x) \in SUBSET (S \ {x})
    BY <1>2
  <2>2. IsFiniteSet(S \ {x}) /\ Cardinality(S \ {x}) = size - 1
    BY FS_RemoveElement
  <2>3. IsFiniteSet(below(x)) /\ Cardinality(below(x)) <= size - 1
    BY <2>1, <2>2, FS_Subset
  <2>4. Cardinality(below(x)) \in Nat
    BY <2>3, FS_CardinalityType
  <2> QED BY <1>1, <1>4, <2>3, <2>4
<1>8. \A x, y \in S : <<x, y>> \in R => rank[x] < rank[y]
  <2> SUFFICES ASSUME NEW x \in S, NEW y \in S, <<x, y>> \in R PROVE rank[x] < rank[y]
    OBVIOUS
  <2> DEFINE A == below(x)
             B == below(y)
  <2>1. A \in SUBSET B /\ A # B /\ IsFiniteSet(B)
    BY <1>3, <1>7
  <2> HIDE DEF A, B
  <2>2. Cardinality(A) <= Cardinality(B) /\ Cardinality(A) # Cardinality(B)
    BY <2>1, FS_Subset
  <2>3. rank[x] <= rank[y] /\ rank[x] # rank[y]
    BY <1>4, <2>2 DEF A, B
  <2>4. rank[x] \in Int /\ rank[y] \in Int
    BY <1>1, <1>7
  <2> QED BY <2>3, <2>4
<1>9. \A x \in S : rank[x] \in Int
  BY <1>1, <1>7
<1>10. \A x, y \in S : rank[x] = rank[y] => x = y
  <2>1. \A x, y \in S : x = y \/ <<x, y>> \in R \/ <<y, x>> \in R
    BY DEF Orders
  <2> SUFFICES ASSUME NEW x \in S, NEW y \in S, rank[x] = rank[y], x # y PROVE FALSE
    OBVIOUS
  <2>2. rank[x] < rank[y] \/ rank[y] < rank[x]
    BY <1>8, <2>1
  <2> QED BY <1>9, <2>2
<1>11. \A n \in 1 .. size : \E x \in S : rank[x] = n - 1
  <2>1. rank \in Injection(S, 0 .. size - 1)
    BY <1>5, <1>7, <1>10 DEF Injection, IsInjective
  <2>2. IsFiniteSet(0 .. size - 1) /\ Cardinality(0 .. size - 1) = size
    BY <1>1, FS_Interval
  <2>3. rank \in Surjection(S, 0 .. size - 1)
    BY <2>1, <2>2, FS_Injection
  <2>4. \A t \in 0 .. size - 1 : \E x \in S : rank[x] = t
    BY <2>3 DEF Surjection
  <2> QED BY <1>1, <2>4
<1>12. \A n \in 1 .. size : q[n] \in S /\ rank[q[n]] = n - 1
  <2> SUFFICES ASSUME NEW n \in 1 .. size PROVE q[n] \in S /\ rank[q[n]] = n - 1
    OBVIOUS
  <2>1. \E x \in S : Cardinality(below(x)) = n - 1
    BY <1>4, <1>11
  <2>2. q[n] = CHOOSE x \in S : Cardinality(below(x)) = n - 1
    BY <1>6
  <2>3. q[n] \in S /\ Cardinality(below(q[n])) = n - 1
    BY <2>1, <2>2, Zenon
  <2> QED BY <1>4, <2>3
<1>13. q \in [1 .. size -> S]
  BY <1>6, <1>12
<1> HIDE DEF size
<1>14. \A x \in S : \E n \in 1 .. size : q[n] = x
  <2> SUFFICES ASSUME NEW x \in S PROVE \E n \in 1 .. size : q[n] = x
    OBVIOUS
  <2> DEFINE n == rank[x] + 1
  <2>1. n \in 1 .. size /\ n - 1 = rank[x]
    BY <1>1, <1>7
  <2>2. q[n] \in S /\ rank[q[n]] = rank[x]
    BY <1>12, <2>1
  <2>3. q[n] = x
    BY <1>10, <2>2
  <2> QED BY <2>1, <2>3
<1>15. \A m, n \in 1 .. size : m < n => <<q[m], q[n]>> \in R
  <2> SUFFICES ASSUME NEW m \in 1 .. size, NEW n \in 1 .. size, m < n PROVE <<q[m], q[n]>> \in R
    OBVIOUS
  <2>1. /\ q[m] \in S /\ rank[q[m]] = m - 1
        /\ q[n] \in S /\ rank[q[n]] = n - 1
    BY <1>12
  <2>2. q[m] # q[n] /\ ~ (rank[q[n]] < rank[q[m]])
    BY <1>1, <2>1
  <2>3. <<q[n], q[m]>> \notin R
    BY <1>8, <2>1, <2>2
  <2> QED BY <2>1, <2>2, <2>3 DEF Orders
<1> QED BY <1>1, <1>13, <1>14, <1>15 DEF q, size

\* What a sequence has at some of its places is a sequence of the same.
LEMMA OnlyOf ==
    ASSUME NEW X, NEW s \in Seq(X), NEW P \in SUBSET DOMAIN s
    PROVE  /\ Only(s, P) \in Seq(X)
           /\ \A n \in DOMAIN Only(s, P) : \E i \in P : Only(s, P)[n] = s[i]
<1> DEFINE R == {p \in P \X P : p[1] < p[2]}
           q == InOrder(P, R)
<1>1. IsFiniteSet(P)
  BY FS_Interval, FS_Subset
<1>2. Orders(P, R)
  BY DEF Orders
<1>3. q \in [1 .. Cardinality(P) -> P] /\ Cardinality(P) \in Nat
  BY <1>1, <1>2, Ranked
<1>4. Only(s, P) = [n \in 1 .. Cardinality(P) |-> s[q[n]]]
  BY <1>3 DEF Only
<1> HIDE DEF q
<1> QED BY <1>3, <1>4

\* A fold of renames ends among the values that no rename leaves.
LEMMA FoldStays ==
    ASSUME NEW before, NEW now, NEW T, NEW S, NEW c \in T, NEW seq \in Seq(S),
           \A acc \in T, x \in S : Followed(acc, before[x], now[x]) \in T
    PROVE  AllFollowed(c, before, now, seq) \in T
<1> DEFINE F(acc, i) == Followed(acc, before[seq[i]], now[seq[i]])
           size == Len(seq)
           Folds(g, k) == \A s \in SUBSET (1 .. k) :
                              g[s] = IF s = {} THEN c ELSE F(g[s \ {Max(s)}], Max(s))
           iter == CHOOSE g : g = [s \in SUBSET DOMAIN seq |->
                              IF s = {} THEN c ELSE F(g[s \ {Max(s)}], Max(s))]
<1>1. size \in Nat /\ DOMAIN seq = 1 .. size
  OBVIOUS
<1>2. \A acc \in T, i \in 1 .. size : F(acc, i) \in T
  OBVIOUS
<1>3. AllFollowed(c, before, now, seq) = iter[DOMAIN seq]
  BY Zenon DEF AllFollowed, FoldLeft, MapThenFoldSet
<1>4. \A k \in Nat : \A s \in SUBSET (1 .. k) : s # {} =>
        /\ Max(s) \in s /\ Max(s) \in 1 .. k
        /\ s \ {Max(s)} \in SUBSET (1 .. k - 1)
        /\ k \in s => Max(s) = k
        /\ k \notin s => s \in SUBSET (1 .. k - 1)
  <2> SUFFICES ASSUME NEW k \in Nat, NEW s \in SUBSET (1 .. k), s # {}
               PROVE  /\ Max(s) \in s /\ Max(s) \in 1 .. k
                      /\ s \ {Max(s)} \in SUBSET (1 .. k - 1)
                      /\ k \in s => Max(s) = k
                      /\ k \notin s => s \in SUBSET (1 .. k - 1)
    OBVIOUS
  <2>1. Max(s) \in s /\ \A j \in s : j <= Max(s)
    BY GreatestOf
  <2>2. \A j \in s : j \in 1 .. k
    OBVIOUS
  <2> DEFINE g == Max(s)
  <2> HIDE DEF g
  <2>3. g \in s /\ g \in 1 .. k /\ \A j \in s : j <= g
    BY <2>1, <2>2 DEF g
  <2>4. \A j \in s \ {g} : j \in 1 .. k - 1
    BY <2>2, <2>3
  <2>5. k \in s => g = k
    BY <2>2, <2>3
  <2>6. k \notin s => \A j \in s : j \in 1 .. k - 1
    BY <2>2
  <2> QED BY <2>3, <2>4, <2>5, <2>6 DEF g
<1> HIDE DEF F
<1>5. \A k \in 0 .. size : \E g \in [SUBSET (1 .. k) -> T] : Folds(g, k)
  <2> DEFINE bad == {k \in 0 .. size : \A g \in [SUBSET (1 .. k) -> T] : ~ Folds(g, k)}
  <2> SUFFICES ASSUME bad # {} PROVE FALSE
    OBVIOUS
  <2>1. bad \in SUBSET Nat
    BY <1>1
  <2>2. PICK m \in bad : \A k \in bad : m <= k
    <3> HIDE DEF bad
    <3> QED BY <2>1, LeastOf
  <2>3. m \in 0 .. size /\ \A g \in [SUBSET (1 .. m) -> T] : ~ Folds(g, m)
    OBVIOUS
  <2>4. m # 0
    <3> SUFFICES ASSUME m = 0 PROVE FALSE
      OBVIOUS
    <3> DEFINE g == [s \in SUBSET (1 .. 0) |-> c]
    <3>1. g \in [SUBSET (1 .. m) -> T] /\ \A s \in SUBSET (1 .. m) : s = {} /\ g[s] = c
      OBVIOUS
    <3> HIDE DEF g
    <3> QED BY <2>3, <3>1
  <2>5. m - 1 \in 0 .. size /\ m - 1 \notin bad
    <3> HIDE DEF bad
    <3> QED BY <1>1, <2>2, <2>3, <2>4
  <2>6. PICK h \in [SUBSET (1 .. m - 1) -> T] : Folds(h, m - 1)
    BY <2>5
  <2>7. m \in 1 .. size
    BY <1>1, <2>3, <2>4
  <2>8. \A s \in SUBSET (1 .. m) : s \ {m} \in SUBSET (1 .. m - 1)
    BY <1>1, <2>7
  <2> DEFINE g == [s \in SUBSET (1 .. m) |-> IF m \in s THEN F(h[s \ {m}], m) ELSE h[s]]
  <2>9. \A s \in SUBSET (1 .. m - 1) : s \in SUBSET (1 .. m) /\ m \notin s /\ g[s] = h[s]
    BY <1>1, <2>7
  <2>10. \A s \in SUBSET (1 .. m) : m \in s => g[s] = F(h[s \ {m}], m)
    OBVIOUS
  <2>11. g \in [SUBSET (1 .. m) -> T]
    <3>1. \A s \in SUBSET (1 .. m) : m \notin s => s \in SUBSET (1 .. m - 1)
      BY <1>1, <2>7
    <3> QED BY <1>2, <2>6, <2>7, <2>8, <3>1
  <2> HIDE DEF g
  <2>12. Folds(g, m)
    <3> SUFFICES ASSUME NEW s \in SUBSET (1 .. m)
                 PROVE  g[s] = IF s = {} THEN c ELSE F(g[s \ {Max(s)}], Max(s))
      OBVIOUS
    <3>1. CASE m \in s
      <4>1. Max(s) = m /\ s # {}
        BY <1>1, <1>4, <2>7, <3>1
      <4> QED BY <2>8, <2>9, <2>10, <3>1, <4>1
    <3>2. CASE m \notin s /\ s # {}
      <4>1. s \in SUBSET (1 .. m - 1) /\ s \ {Max(s)} \in SUBSET (1 .. m - 1)
        BY <1>1, <1>4, <2>7, <3>2
      <4>2. h[s] = F(h[s \ {Max(s)}], Max(s))
        BY <2>6, <3>2, <4>1
      <4> QED BY <2>9, <3>2, <4>1, <4>2
    <3>3. CASE s = {}
      BY <2>6, <2>9, <3>3
    <3> QED BY <3>1, <3>2, <3>3
  <2> QED BY <2>3, <2>11, <2>12
<1>6. iter = [s \in SUBSET DOMAIN seq |-> IF s = {} THEN c ELSE F(iter[s \ {Max(s)}], Max(s))]
  <2>1. PICK g \in [SUBSET (1 .. size) -> T] : Folds(g, size)
    <3>1. size \in 0 .. size
      BY <1>1
    <3> HIDE DEF Folds, size
    <3> QED BY <1>5, <3>1
  <2>2. g = [s \in SUBSET DOMAIN seq |-> IF s = {} THEN c ELSE F(g[s \ {Max(s)}], Max(s))]
    BY <1>1, <2>1
  <2> QED BY <2>2, Zenon
<1> HIDE DEF iter
<1>7. \A k \in 0 .. size : \A s \in SUBSET (1 .. k) : iter[s] \in T
  <2> DEFINE bad == {k \in 0 .. size : ~ \A s \in SUBSET (1 .. k) : iter[s] \in T}
  <2> SUFFICES ASSUME bad # {} PROVE FALSE
    OBVIOUS
  <2>1. bad \in SUBSET Nat
    BY <1>1
  <2>2. PICK m \in bad : \A k \in bad : m <= k
    <3> HIDE DEF bad
    <3> QED BY <2>1, LeastOf
  <2>3. m \in 0 .. size
    OBVIOUS
  <2>4. PICK s \in SUBSET (1 .. m) : iter[s] \notin T
    OBVIOUS
  <2>5. s \in SUBSET DOMAIN seq
    BY <1>1, <2>3
  <2>6. s # {}
    BY <1>6, <2>4, <2>5
  <2>7. Max(s) \in 1 .. m /\ s \ {Max(s)} \in SUBSET (1 .. m - 1)
    BY <1>4, <2>3, <2>6
  <2>8. m - 1 \in 0 .. size /\ Max(s) \in 1 .. size
    BY <1>1, <2>3, <2>7
  <2>9. m - 1 \notin bad
    <3> HIDE DEF bad
    <3> QED BY <1>1, <2>2, <2>3
  <2>10. iter[s \ {Max(s)}] \in T
    BY <2>7, <2>8, <2>9
  <2>11. iter[s] = F(iter[s \ {Max(s)}], Max(s))
    BY <1>6, <2>5, <2>6
  <2> QED BY <1>2, <2>4, <2>8, <2>10, <2>11
<1>8. iter[DOMAIN seq] \in T
  BY <1>1, <1>7
<1> QED BY <1>3, <1>8
(***************************************************************************)
(* Types.                                                                  *)
(***************************************************************************)
Groups    == Group \cup {NoGroup}
Sessions  == Session \cup {NoSession}
Pictures  == {f \in UNION {[D -> Address] : D \in SUBSET Session} : IsFiniteSet(DOMAIN f)}
Snapshots == [sessions : Pictures, cached : Pictures, answered : SUBSET Host]
Entry     == [at : Address, group : Groups]
Cycles    == [sessions : Seq(Entry), current : Address, trail : Seq(Address), focus : Groups]
Books     == [cycle : Cycles, snapshot : Snapshots, known : [at : Addresses, session : Sessions],
              seeded : SUBSET Address, history : BOOLEAN]
Listers   == [cached : Snapshots, fresh : BOOLEAN, member : Sessions, current : Addresses]
Listings  == [is : {"none", "asking", "landed"}, snapshot : Snapshots]

LEMMA IsPicture ==
    ASSUME NEW f \in Pictures
    PROVE  /\ DOMAIN f \in SUBSET Session /\ IsFiniteSet(DOMAIN f)
           /\ f \in [DOMAIN f -> Address]
BY DEF Pictures

LEMMA ToPicture ==
    ASSUME NEW D \in SUBSET Session, IsFiniteSet(D), NEW f \in [D -> Address]
    PROVE  f \in Pictures
BY DEF Pictures

LEMMA NothingIsPictured == <<>> \in Pictures
<1>1. IsFiniteSet({}) /\ <<>> \in [{} -> Address]
  BY FS_EmptySet
<1> QED BY <1>1, ToPicture

(***************************************************************************)
(* Snapshots.                                                              *)
(***************************************************************************)
LEMMA FollowingTyped ==
    ASSUME NEW new \in Snapshots, NEW old \in Snapshots
    PROVE  Following(new, old) \in Snapshots /\ Following(new, old).sessions = new.sessions
<1> DEFINE known == IF new.cached = <<>> THEN Known(old) ELSE new.cached
           silent == {x \in DOMAIN known : known[x].host \notin new.answered} \ DOMAIN new.sessions
           D == DOMAIN new.sessions \cup silent
           f == [x \in D |-> IF x \in silent THEN known[x] ELSE new.sessions[x]]
<1>1. known \in Pictures /\ new.sessions \in Pictures
  BY DEF Known, Snapshots
<1>2. silent \in SUBSET DOMAIN known
  OBVIOUS
<1>3. Following(new, old) = [new EXCEPT !.cached = f]
  BY DEF Following
<1> HIDE DEF known, silent
<1>4. IsFiniteSet(D)
  BY <1>1, <1>2, IsPicture, FS_Subset, FS_Union
<1>5. D \in SUBSET Session /\ f \in [D -> Address]
  BY <1>1, <1>2, IsPicture
<1>6. f \in Pictures
  BY <1>4, <1>5, ToPicture
<1> QED BY <1>3, <1>6 DEF Snapshots

LEMMA OverTyped ==
    ASSUME NEW s \in Snapshots, NEW f \in Pictures, NEW g \in Pictures
    PROVE  [s EXCEPT !.sessions = f, !.cached = g] \in Snapshots
BY DEF Snapshots

LEMMA RenamedTyped ==
    ASSUME NEW s \in Snapshots, NEW was, NEW now \in Address
    PROVE  Renamed(s, was, now) \in Snapshots
<1> DEFINE F(f) == [x \in DOMAIN f |-> IF f[x] = was THEN now ELSE f[x]]
<1>1. \A f \in Pictures : F(f) \in Pictures
  BY IsPicture, ToPicture
<1>2. Renamed(s, was, now) = [s EXCEPT !.sessions = F(s.sessions), !.cached = F(s.cached)]
  BY DEF Renamed, Over, Snapshots
<1> HIDE DEF F
<1> QED BY <1>1, <1>2 DEF Snapshots

LEMMA RenamedMemberTyped ==
    ASSUME NEW s \in Snapshots, NEW member, NEW name \in Name
    PROVE  RenamedMember(s, member, name) \in Snapshots
<1> DEFINE F(f) == [x \in DOMAIN f |-> IF x = member THEN [f[x] EXCEPT !.name = name] ELSE f[x]]
<1>0. \A a \in Address : [a EXCEPT !.name = name] \in Address
  BY DEF Address
<1>1. \A f \in Pictures : F(f) \in Pictures
  BY <1>0, IsPicture, ToPicture
<1>2. RenamedMember(s, member, name) = [s EXCEPT !.sessions = F(s.sessions), !.cached = F(s.cached)]
  BY DEF RenamedMember, Over, Snapshots
<1> HIDE DEF F
<1> QED BY <1>1, <1>2 DEF Snapshots

LEMMA ForgottenTyped ==
    ASSUME NEW s \in Snapshots, NEW gone
    PROVE  Forgotten(s, gone) \in Snapshots
<1> DEFINE F(f) == [x \in {y \in DOMAIN f : f[y] # gone} |-> f[x]]
<1>1. \A f \in Pictures : F(f) \in Pictures
  <2> SUFFICES ASSUME NEW f \in Pictures PROVE F(f) \in Pictures
    OBVIOUS
  <2> DEFINE D == {y \in DOMAIN f : f[y] # gone}
  <2>1. D \in SUBSET DOMAIN f /\ F(f) \in [D -> Address]
    BY IsPicture
  <2>2. D \in SUBSET Session /\ IsFiniteSet(D)
    BY <2>1, IsPicture, FS_Subset
  <2> QED BY <2>1, <2>2, ToPicture
<1>2. Forgotten(s, gone) = [s EXCEPT !.sessions = F(s.sessions), !.cached = F(s.cached)]
  BY DEF Forgotten, Over, Snapshots
<1> HIDE DEF F
<1> QED BY <1>1, <1>2 DEF Snapshots

\* Who is listed at an address is listed, and the oldest there.
LEMMA InfoOf ==
    ASSUME NEW s \in Snapshots, NEW here, Info(s, here) # NoSession
    PROVE  /\ Info(s, here) \in DOMAIN s.sessions /\ s.sessions[Info(s, here)] = here
           /\ \A y \in DOMAIN s.sessions : s.sessions[y] = here => Info(s, here) <= y
<1> DEFINE listed == {x \in DOMAIN s.sessions : s.sessions[x] = here}
<1>1. listed # {} /\ Info(s, here) = CHOOSE x \in listed : \A y \in listed : x <= y
  BY DEF Info
<1>2. listed \in SUBSET Nat
  BY IsPicture, AttachingAssumption DEF Snapshots
<1>3. \E x \in listed : \A y \in listed : x <= y
  <2> HIDE DEF listed
  <2> QED BY <1>1, <1>2, LeastOf
<1>4. Info(s, here) \in listed /\ \A y \in listed : Info(s, here) <= y
  <2> HIDE DEF listed
  <2> QED BY <1>1, <1>3, Zenon
<1> QED BY <1>4

LEMMA InfoTyped ==
    ASSUME NEW s \in Snapshots, NEW here
    PROVE  Info(s, here) \in Sessions
BY InfoOf, IsPicture DEF Snapshots, Sessions

(***************************************************************************)
(* The cycle.                                                              *)
(***************************************************************************)

\* The first of some places, or none: what SelectInSeq finds.
LEMMA FirstPlace ==
    ASSUME NEW n \in Nat, NEW P \in SUBSET (1 .. n), NEW i, i = IF P # {} THEN Min(P) ELSE 0
    PROVE  i \in 0 .. n /\ (i # 0 => i \in P /\ \A j \in P : i <= j)
<1>1. P # {} => i \in P /\ \A k \in P : i <= k
  <2>1. P # {} => \E m \in P : \A k \in P : m <= k
    BY LeastOf
  <2>2. P # {} => Min(P) \in P /\ \A k \in P : Min(P) <= k
    BY <2>1, Zenon DEF Min
  <2> QED BY <2>2, Zenon
<1>2. P = {} => i = 0
  OBVIOUS
<1>3. \A j \in P : j \in 0 .. n
  OBVIOUS
<1>4. i \in 0 .. n
  <2>1. 0 \in 0 .. n
    OBVIOUS
  <2> QED BY <1>1, <1>2, <1>3, <2>1, Zenon
<1> QED BY <1>1, <1>2, <1>4, Zenon

\* An address that is in a list has the first place there it is at.
LEMMA PlaceOf ==
    ASSUME NEW X, NEW s \in Seq(X), NEW a
    PROVE  /\ Place(s, a) \in 0 .. Len(s)
           /\ Place(s, a) # 0 => s[Place(s, a)].at = a
           /\ \A j \in 1 .. Len(s) : s[j].at = a => Place(s, a) # 0 /\ Place(s, a) <= j
<1> DEFINE P == {i \in 1 .. Len(s) : s[i].at = a}
           i == Place(s, a)
<1>1. i = IF P # {} THEN Min(P) ELSE 0
  BY Zenon DEF Place, SelectInSeq
<1>2. P \in SUBSET (1 .. Len(s)) /\ Len(s) \in Nat
  OBVIOUS
<1> HIDE DEF i
<1>3. i \in 0 .. Len(s) /\ (i # 0 => i \in P /\ \A j \in P : i <= j)
  <2> HIDE DEF P
  <2> QED BY <1>1, <1>2, FirstPlace
<1>4. P # {} => i # 0
  <2>1. P # {} => \E m \in P : \A k \in P : m <= k
    <3> HIDE DEF P
    <3> QED BY <1>2, LeastOf
  <2>2. P # {} => Min(P) \in P
    <3> HIDE DEF P
    <3> QED BY <2>1, Zenon DEF Min
  <2> QED BY <1>1, <1>2, <2>2
<1> QED BY <1>3, <1>4 DEF i

LEMMA VisibleTyped ==
    ASSUME NEW c \in Cycles
    PROVE  Visible(c) \in Seq(Entry)
<1>1. c.sessions \in Seq(Entry)
  BY DEF Cycles
<1> DEFINE P == {i \in DOMAIN c.sessions : c.focus \in {NoGroup, c.sessions[i].group}}
<1>2. P \in SUBSET DOMAIN c.sessions /\ Visible(c) = Only(c.sessions, P)
  BY DEF Visible
<1> HIDE DEF P
<1> QED BY <1>1, <1>2, OnlyOf

LEMMA HereTyped ==
    ASSUME NEW c \in Cycles
    PROVE  Here(c) \in Seq(Entry)
<1> DEFINE v == Visible(c)
           P == {i \in DOMAIN v : c.focus # NoGroup \/ v[i].at.host = c.current.host}
<1>1. v \in Seq(Entry)
  BY VisibleTyped
<1>2. P \in SUBSET DOMAIN v /\ Here(c) = Only(v, P)
  BY DEF Here
<1> HIDE DEF P, v
<1> QED BY <1>1, <1>2, OnlyOf

LEMMA FirstOnHostsTyped ==
    ASSUME NEW c \in Cycles
    PROVE  FirstOnHosts(c) \in Seq(Entry)
<1> DEFINE v == Visible(c)
           P == {i \in DOMAIN v : \A j \in 1 .. i - 1 : v[j].at.host # v[i].at.host}
<1>1. v \in Seq(Entry)
  BY VisibleTyped
<1>2. P \in SUBSET DOMAIN v /\ FirstOnHosts(c) = Only(v, P)
  BY DEF FirstOnHosts
<1> HIDE DEF P, v
<1> QED BY <1>1, <1>2, OnlyOf

\* The place after another in a list that has any, or before it, is one of its own.
LEMMA WrappedIn ==
    ASSUME NEW forwards \in BOOLEAN, NEW len \in Nat, len # 0, NEW i \in 0 .. len
    PROVE  Wrapped(forwards, i, len) \in 1 .. len
<1>1. i % len \in 0 .. len - 1
  OBVIOUS
<1>2. (i % len) + 1 \in 1 .. len
  BY <1>1
<1> QED BY <1>2 DEF Wrapped

\* A motion lands at an address, or nowhere.
LEMMA StepTyped ==
    ASSUME NEW c \in Cycles, NEW motion \in Motions, Step(c, motion) # Nowhere
    PROVE  Step(c, motion) \in Address
<1> DEFINE here == Here(c)
           hosts == FirstOnHosts(c)
           at0 == Place(here, c.current)
           host0 == SelectInSeq(hosts, LAMBDA e : e.at.host = c.current.host)
           next == here[Wrapped(motion = "next", at0, Len(here))].at
           over == hosts[Wrapped(motion = "nextHost", host0, Len(hosts))].at
<1>1. c.current \in Address /\ (c.trail # <<>> => Head(c.trail) \in Address)
  BY DEF Cycles
<1>2. here # <<>> => next \in Address
  <2>1. here \in Seq(Entry) /\ at0 \in 0 .. Len(here)
    <3>1. here \in Seq(Entry)
      BY HereTyped
    <3> HIDE DEF here
    <3> QED BY <3>1, PlaceOf
  <2> HIDE DEF here, at0
  <2>2. here # <<>> => Len(here) \in Nat /\ Len(here) # 0
    BY <2>1
  <2>3. here # <<>> => Wrapped(motion = "next", at0, Len(here)) \in 1 .. Len(here)
    BY <2>1, <2>2, WrappedIn
  <2>4. \A i \in 1 .. Len(here) : here[i].at \in Address
    <3>1. \A e \in Entry : e.at \in Address
      BY DEF Entry
    <3>2. \A i \in 1 .. Len(here) : here[i] \in Entry
      BY <2>1
    <3> QED BY <3>1, <3>2
  <2> QED BY <2>3, <2>4
<1>3. hosts # <<>> => over \in Address
  <2>1. hosts \in Seq(Entry) /\ host0 \in 0 .. Len(hosts)
    <3> DEFINE P == {i \in 1 .. Len(hosts) : hosts[i].at.host = c.current.host}
    <3>1. host0 = IF P # {} THEN Min(P) ELSE 0
      BY Zenon DEF SelectInSeq
    <3>2. hosts \in Seq(Entry)
      BY FirstOnHostsTyped
    <3>3. P \in SUBSET (1 .. Len(hosts)) /\ Len(hosts) \in Nat
      BY <3>2
    <3> HIDE DEF hosts, host0, P
    <3> QED BY <3>1, <3>2, <3>3, FirstPlace
  <2> HIDE DEF hosts, host0
  <2>2. hosts # <<>> => Len(hosts) \in Nat /\ Len(hosts) # 0
    BY <2>1
  <2>3. hosts # <<>> => Wrapped(motion = "nextHost", host0, Len(hosts)) \in 1 .. Len(hosts)
    BY <2>1, <2>2, WrappedIn
  <2>4. \A i \in 1 .. Len(hosts) : hosts[i].at \in Address
    <3>1. \A e \in Entry : e.at \in Address
      BY DEF Entry
    <3>2. \A i \in 1 .. Len(hosts) : hosts[i] \in Entry
      BY <2>1
    <3> QED BY <3>1, <3>2
  <2> QED BY <2>3, <2>4
<1> DEFINE lands ==
              CASE motion = "last" -> IF c.trail = <<>> THEN c.current ELSE Head(c.trail)
                [] motion \in {"next", "previous"} -> IF here = <<>> THEN c.current ELSE next
                [] motion \in {"nextHost", "previousHost"} ->
                      IF hosts = <<>> THEN c.current
                      ELSE IF over.host = c.current.host THEN c.current ELSE over
<1>4. Step(c, motion) = IF lands = c.current THEN Nowhere ELSE lands
  BY Zenon DEF Step
<1> HIDE DEF here, hosts, next, over
<1>5. lands \in Address
  BY <1>1, <1>2, <1>3 DEF Motions
<1> HIDE DEF lands
<1> QED BY <1>4, <1>5

LEMMA WithoutTyped ==
    ASSUME NEW s \in Seq(Address), NEW gone
    PROVE  Without(s, gone) \in Seq(Address)
<1> DEFINE P == {i \in DOMAIN s : s[i] # gone}
<1>1. P \in SUBSET DOMAIN s /\ Without(s, gone) = Only(s, P)
  BY DEF Without
<1> HIDE DEF P
<1> QED BY <1>1, OnlyOf

LEMMA MovedToTyped ==
    ASSUME NEW c \in Cycles, NEW next \in Address
    PROVE  MovedTo(c, next) \in Cycles /\ Started(c, next) \in Cycles
<1> DEFINE t == <<c.current>> \o Without(c.trail, next)
<1>1. t \in Seq(Address)
  <2>1. Without(c.trail, next) \in Seq(Address) /\ <<c.current>> \in Seq(Address)
    BY WithoutTyped DEF Cycles
  <2> QED BY <2>1
<1>2. MovedTo(c, next) = [c EXCEPT !.current = next, !.trail = t]
  BY DEF MovedTo, Cycles
<1> HIDE DEF t
<1> QED BY <1>1, <1>2 DEF Cycles, Started, Groups

LEMMA RenamedAtTyped ==
    ASSUME NEW c \in Cycles, NEW was, NEW now \in Address
    PROVE  /\ RenamedAt(c, was, now) \in Cycles
           /\ RenamedAt(c, was, now).focus = c.focus
           /\ RenamedAt(c, was, now).current = IF c.current = was THEN now ELSE c.current
<1> DEFINE new(a) == IF a = was THEN now ELSE a
           s == [i \in DOMAIN c.sessions |-> [at |-> new(c.sessions[i].at), group |-> c.sessions[i].group]]
           t == [i \in DOMAIN c.trail |-> new(c.trail[i])]
<1>1. \A a \in Address : new(a) \in Address
  OBVIOUS
<1>2. RenamedAt(c, was, now) = [c EXCEPT !.current = new(c.current), !.sessions = s, !.trail = t]
  BY DEF RenamedAt, Cycles
<1>3. s \in Seq(Entry)
  <2>1. c.sessions \in Seq(Entry) /\ \A e \in Entry : [at |-> new(e.at), group |-> e.group] \in Entry
    BY <1>1 DEF Cycles, Entry
  <2> QED BY <2>1
<1>4. t \in Seq(Address) /\ new(c.current) \in Address
  BY <1>1 DEF Cycles
<1>5. new(c.current) = IF c.current = was THEN now ELSE c.current
  OBVIOUS
<1> HIDE DEF s, t, new
<1> QED BY <1>2, <1>3, <1>4, <1>5 DEF Cycles

LEMMA ForgetTyped ==
    ASSUME NEW c \in Cycles, NEW gone
    PROVE  Forget(c, gone) \in Cycles
<1> DEFINE P == {i \in DOMAIN c.sessions : c.sessions[i].at # gone}
           s == Only(c.sessions, P)
           t == Without(c.trail, gone)
<1>1. Forget(c, gone) = [c EXCEPT !.sessions = s, !.trail = t]
  BY DEF Forget, Cycles
<1>2. t \in Seq(Address)
  BY WithoutTyped DEF Cycles
<1>3. s \in Seq(Entry)
  <2>1. P \in SUBSET DOMAIN c.sessions /\ c.sessions \in Seq(Entry)
    BY DEF Cycles
  <2> HIDE DEF P
  <2> QED BY <2>1, OnlyOf
<1> HIDE DEF s, t
<1> QED BY <1>1, <1>2, <1>3 DEF Cycles

LEMMA UndoTyped ==
    ASSUME NEW c \in Cycles
    PROVE  Undo(c) \in Cycles /\ (c.trail # <<>> => FallBack(c) \in Cycles)
<1>1. c.trail # <<>> => [c EXCEPT !.current = Head(c.trail), !.trail = Tail(c.trail)] \in Cycles
  <2>1. c.trail # <<>> => Head(c.trail) \in Address /\ Tail(c.trail) \in Seq(Address)
    BY DEF Cycles
  <2> DEFINE h == Head(c.trail)
             t == Tail(c.trail)
  <2> HIDE DEF h, t
  <2>2. h \in Address /\ t \in Seq(Address) => [c EXCEPT !.current = h, !.trail = t] \in Cycles
    BY DEF Cycles
  <2> QED BY <2>1, <2>2 DEF h, t
<1> QED BY <1>1, ForgetTyped DEF Undo, FallBack

LEMMA RefreshTyped ==
    ASSUME NEW c \in Cycles, NEW entries \in Seq(Entry)
    PROVE  /\ Refresh(c, entries) \in Cycles
           /\ Refresh(c, entries).current = c.current
           /\ Refresh(c, entries).sessions = entries
<1>1. \E f \in {c.focus, NoGroup} : Refresh(c, entries) = [c EXCEPT !.sessions = entries, !.focus = f]
  <2> DEFINE gone == \A e \in ToSet(entries) : e.group # c.focus
             here == Place(entries, c.current)
             left == here # 0 /\ entries[here].group # c.focus
             f == IF gone \/ left THEN NoGroup ELSE c.focus
  <2>1. Refresh(c, entries) = [c EXCEPT !.sessions = entries, !.focus = f]
    BY Zenon DEF Refresh, Cycles
  <2>2. f \in {c.focus, NoGroup}
    BY Zenon
  <2> HIDE DEF f
  <2> QED BY <2>1, <2>2
<1> QED BY <1>1 DEF Cycles, Groups

\* A narrowing that is left after a listing is to the group of the session the
\* run is in, if the listing has it.
LEMMA RefreshAgrees ==
    ASSUME NEW c \in Cycles, NEW entries \in Seq(Entry), Refresh(c, entries).focus # NoGroup
    PROVE  LET here == Place(entries, c.current)
           IN  here # 0 => entries[here].group = Refresh(c, entries).focus
<1> DEFINE gone == \A e \in ToSet(entries) : e.group # c.focus
           here == Place(entries, c.current)
           left == here # 0 /\ entries[here].group # c.focus
           f == IF gone \/ left THEN NoGroup ELSE c.focus
<1>1. Refresh(c, entries) = [c EXCEPT !.sessions = entries, !.focus = f]
  BY Zenon DEF Refresh, Cycles
<1>2. Refresh(c, entries).focus = f
  <2> HIDE DEF f
  <2> QED BY <1>1 DEF Cycles
<1>3. f # NoGroup => f = c.focus /\ ~left
  BY Zenon
<1> HIDE DEF here
<1> QED BY <1>2, <1>3 DEF here

(***************************************************************************)
(* A listing, and what it does to the cycle.                               *)
(***************************************************************************)

\* A picture's sessions as they are listed: each of them once, and of two on one
\* machine the one started first before.
LEMMA Listing ==
    ASSUME NEW f \in Pictures, NEW S \in SUBSET DOMAIN f
    PROVE  LET order == AsListed(f, S)
           IN  /\ order \in Seq(S)
               /\ \A x \in S : \E n \in DOMAIN order : order[n] = x
               /\ \A m, n \in DOMAIN order : m < n => Listed(f, order[m], order[n])
<1> DEFINE R == {p \in S \X S : Listed(f, p[1], p[2])}
           order == AsListed(f, S)
<1>1. IsFiniteSet(S)
  BY IsPicture, FS_Subset
<1>2. \A x \in S : x \in Nat /\ f[x].host \in Nat
  BY IsPicture, AttachingAssumption DEF Address
<1>3. \A x, y \in S : <<x, y>> \in R <=> Listed(f, x, y)
  OBVIOUS
<1>4. Orders(S, R)
  <2> HIDE DEF R
  <2> QED BY <1>2, <1>3 DEF Orders, Listed
<1>5. order = InOrder(S, R)
  BY DEF AsListed
<1> HIDE DEF order, R
<1>6. /\ order \in [1 .. Cardinality(S) -> S] /\ Cardinality(S) \in Nat
      /\ \A x \in S : \E n \in 1 .. Cardinality(S) : order[n] = x
      /\ \A m, n \in 1 .. Cardinality(S) : m < n => <<order[m], order[n]>> \in R
  BY <1>1, <1>4, <1>5, Ranked
<1>7. order \in Seq(S) /\ DOMAIN order = 1 .. Cardinality(S)
  BY <1>6
<1>8. \A m, n \in DOMAIN order : m < n => Listed(f, order[m], order[n])
  BY <1>3, <1>6, <1>7
<1> QED BY <1>6, <1>7, <1>8 DEF order

LEMMA EntriesTyped ==
    ASSUME NEW s \in Snapshots, NEW groups \in Grouping
    PROVE  Entries(s, groups) \in Seq(Entry)
<1> DEFINE f == s.sessions
           order == AsListed(f, DOMAIN f)
<1>1. f \in Pictures
  BY DEF Snapshots
<1>2. order \in Seq(DOMAIN f)
  BY <1>1, Listing
<1>3. \A x \in DOMAIN f : f[x] \in Address /\ groups[x] \in Groups
  BY <1>1, IsPicture DEF Grouping, Groups
<1>4. Entries(s, groups) = [i \in DOMAIN order |-> [at |-> f[order[i]], group |-> groups[order[i]]]]
  BY DEF Entries
<1> HIDE DEF f, order
<1>5. \A x \in DOMAIN f : [at |-> f[x], group |-> groups[x]] \in Entry
  BY <1>3 DEF Entry
<1> QED BY <1>2, <1>4, <1>5

\* The first entry at an address is that of the session that is listed there.
LEMMA FirstEntry ==
    ASSUME NEW s \in Snapshots, NEW groups \in Grouping, NEW a, Info(s, a) # NoSession,
           Place(Entries(s, groups), a) # 0
    PROVE  Entries(s, groups)[Place(Entries(s, groups), a)].group = groups[Info(s, a)]
<1> DEFINE f == s.sessions
           order == AsListed(f, DOMAIN f)
           entries == Entries(s, groups)
           here == Place(entries, a)
           info == Info(s, a)
<1>1. /\ order \in Seq(DOMAIN f)
      /\ \A x \in DOMAIN f : \E n \in DOMAIN order : order[n] = x
      /\ \A m, n \in DOMAIN order : m < n => Listed(f, order[m], order[n])
  <2>1. f \in Pictures
    BY DEF Snapshots
  <2> HIDE DEF f
  <2> QED BY <2>1, Listing
<1>2. entries = [i \in DOMAIN order |-> [at |-> f[order[i]], group |-> groups[order[i]]]]
  BY DEF Entries
<1>3. info \in DOMAIN f /\ f[info] = a /\ \A y \in DOMAIN f : f[y] = a => info <= y
  BY InfoOf
<1>4. \A y \in DOMAIN f : y \in Nat /\ f[y].host \in Nat
  BY IsPicture, AttachingAssumption DEF Address, Snapshots
<1>5. entries \in Seq(Entry)
  BY EntriesTyped
<1> HIDE DEF f, order, entries, info
<1>6. Len(entries) \in Nat /\ DOMAIN entries = DOMAIN order /\ DOMAIN order = 1 .. Len(entries)
  BY <1>1, <1>2
<1>7. PICK n \in DOMAIN order : order[n] = info
  BY <1>1, <1>3
<1>8. entries[n].at = a
  BY <1>2, <1>3, <1>7
<1>9. here \in 1 .. Len(entries) /\ entries[here].at = a /\ here <= n
  <2>1. here # 0 /\ here \in 0 .. Len(entries)
    BY <1>5, PlaceOf DEF entries
  <2>2. entries[here].at = a /\ here <= n
    BY <1>5, <1>6, <1>7, <1>8, <2>1, PlaceOf
  <2> HIDE DEF here
  <2> QED BY <1>6, <2>1, <2>2
<1> HIDE DEF here
<1>10. here \in DOMAIN order /\ order[here] \in DOMAIN f
  BY <1>1, <1>6, <1>9
<1>11. f[order[here]] = a
  BY <1>2, <1>9, <1>10
<1>12. order[here] = info
  <2> SUFFICES ASSUME here # n PROVE FALSE
    BY <1>7
  <2>1. here < n
    BY <1>6, <1>9
  <2>2. Listed(f, order[here], info)
    BY <1>1, <1>7, <1>10, <2>1
  <2>3. order[here] < info
    BY <1>3, <1>4, <1>10, <1>11, <2>2 DEF Listed
  <2> QED BY <1>3, <1>4, <1>10, <1>11, <2>3
<1>13. entries[here].group = groups[info]
  BY <1>2, <1>10, <1>12
<1> QED BY <1>13 DEF here, entries, info

\* A listing renames what moved, and leaves the session the run is in and the
\* narrowing as they are.
LEMMA ReconciledTyped ==
    ASSUME NEW c \in Cycles, NEW new \in Snapshots, NEW old \in Snapshots
    PROVE  /\ Reconciled(c, new, old) \in Cycles
           /\ Reconciled(c, new, old).current = c.current
           /\ Reconciled(c, new, old).focus = c.focus
<1> DEFINE before == Known(old)
           now == new.sessions
           moved == {x \in DOMAIN before \cap DOMAIN now : before[x] # now[x]}
           seq == AsListed(before, moved)
           T == {d \in Cycles : d.current = c.current /\ d.focus = c.focus}
<1>1. before \in Pictures /\ now \in Pictures
  BY DEF Known, Snapshots
<1>2. moved \in SUBSET DOMAIN before /\ moved \in SUBSET DOMAIN now
  OBVIOUS
<1>3. Reconciled(c, new, old) = AllFollowed(c, before, now, seq)
  BY Zenon DEF Reconciled
<1>4. seq \in Seq(moved)
  <2> HIDE DEF before, moved
  <2> QED BY <1>1, <1>2, Listing
<1>5. \A acc \in T, x \in moved : Followed(acc, before[x], now[x]) \in T
  <2> SUFFICES ASSUME NEW acc \in T, NEW x \in moved PROVE Followed(acc, before[x], now[x]) \in T
    OBVIOUS
  <2>1. now[x] \in Address
    BY <1>1, <1>2, IsPicture
  <2> HIDE DEF before, now
  <2> QED BY <2>1, RenamedAtTyped DEF Followed
<1>6. c \in T
  OBVIOUS
<1> HIDE DEF before, now, moved, seq, T
<1>7. AllFollowed(c, before, now, seq) \in T
  BY <1>4, <1>5, <1>6, FoldStays
<1> QED BY <1>3, <1>7 DEF T

\* What a listing that lands leaves as it is.
LEMMA AbsorbTyped ==
    ASSUME NEW b \in Books, NEW landed \in Snapshots, group \in Grouping
    PROVE  /\ Absorb(b, landed) \in Books
           /\ Absorb(b, landed).cycle.current = b.cycle.current
           /\ Absorb(b, landed).known = b.known
<1> DEFINE s == Following(landed, b.snapshot)
           r == Reconciled(b.cycle, landed, b.snapshot)
           c == Refresh(r, Entries(s, group))
<1>1. b.cycle \in Cycles /\ b.snapshot \in Snapshots
  BY DEF Books
<1>2. s \in Snapshots
  BY <1>1, FollowingTyped
<1>3. r \in Cycles /\ r.current = b.cycle.current
  BY <1>1, ReconciledTyped
<1>4. Entries(s, group) \in Seq(Entry)
  BY <1>2, EntriesTyped
<1>5. c \in Cycles /\ c.current = b.cycle.current
  BY <1>3, <1>4, RefreshTyped
<1>6. Absorb(b, landed) = [b EXCEPT !.snapshot = s, !.cycle = c]
  BY DEF Absorb, Books
<1> HIDE DEF s, c
<1> QED BY <1>2, <1>5, <1>6 DEF Books

(***************************************************************************)
(* The invariant: the world, the flags of the loop, and what it keeps.     *)
(***************************************************************************)
WorldOK ==
    /\ at \in [Session -> Addresses] /\ up \subseteq Host /\ group \in Grouping
    /\ born \subseteq Session /\ \A s \in Session \ born : at[s] = Nowhere
    /\ IsFiniteSet(born) /\ changes \in 0 .. MaxChanges

\* A hop is one the run has not been attached after: it may still be taken back.
FlagsOK ==
    /\ phase \in Phases
    /\ in \in born \cup {NoSession} /\ ended \in born \cup {NoSession}
    /\ hopped \in BOOLEAN /\ lost \in BOOLEAN /\ been \in BOOLEAN
    /\ result \in {"none", "detached", "exited", "disconnected", "failed"}
    /\ phase = "over" <=> result # "none"
    /\ phase = "attached" => in # NoSession /\ ~hopped /\ ended = NoSession /\ ~lost
    /\ hopped => ~been

DataOK ==
    /\ book \in Books /\ listing \in Listings /\ lister \in Listers
    /\ heard \in Name \cup {NoName}
    /\ phase = "attached" => lister.current \in Address

LEMMA UnaskedTyped == Unasked \in Snapshots
BY NothingIsPictured DEF Unasked, Snapshots

LEMMA QuietTyped == Quiet \in Listings /\ Asked \in Listings /\ NoLister \in Listers
BY UnaskedTyped DEF Quiet, Asked, NoLister, Listings, Listers, Sessions, Addresses

(***************************************************************************)
(* The book, by what the loop does to it.                                  *)
(***************************************************************************)
LEMMA ReseededTyped ==
    ASSUME NEW seeded \in SUBSET Address, NEW was, NEW now \in Address
    PROVE  Reseeded(seeded, was, now) \in SUBSET Address
BY DEF Reseeded

LEMMA CollectedTyped ==
    ASSUME NEW b \in Books, WorldOK, DataOK
    PROVE  /\ Collected(b) \in Books
           /\ Collected(b).cycle.current = b.cycle.current
           /\ Collected(b).known = b.known
           /\ Uncollected \in Listings
<1>1. listing.snapshot \in Snapshots
  BY DEF DataOK, Listings
<1> QED BY <1>1, AbsorbTyped, QuietTyped DEF Collected, Uncollected, WorldOK, DataOK

\* The session that was lost is followed to a name of its own, and no other.
LEMMA RecoveredTyped ==
    ASSUME NEW b \in Books
    PROVE  /\ Recovered(b) \in Books /\ Recovered(b).snapshot = b.snapshot
           /\ Recovered(b).cycle.current # b.cycle.current =>
                /\ b.known.at = b.cycle.current /\ b.known.session \in DOMAIN b.snapshot.sessions
                /\ Recovered(b).cycle.current = b.snapshot.sessions[b.known.session]
<1> DEFINE k == b.known
           now == b.snapshot.sessions[k.session]
           c == RenamedAt(b.cycle, k.at, now)
           s == Reseeded(b.seeded, k.at, now)
<1>1. CASE k.at = b.cycle.current /\ k.session \in DOMAIN b.snapshot.sessions /\ now # k.at
  <2>1. now \in Address
    BY <1>1, IsPicture DEF Books, Snapshots
  <2>2. c \in Cycles /\ c.current = now
    <3> HIDE DEF now
    <3> QED BY <1>1, <2>1, RenamedAtTyped DEF Books
  <2>3. s \in SUBSET Address
    <3> HIDE DEF now
    <3> QED BY <2>1, ReseededTyped DEF Books
  <2>4. Recovered(b) = [b EXCEPT !.cycle = c, !.known = [@ EXCEPT !.at = now], !.seeded = s]
    BY <1>1 DEF Recovered, Books
  <2>5. [b.known EXCEPT !.at = now] \in [at : Addresses, session : Sessions]
    BY <2>1 DEF Books, Addresses
  <2> HIDE DEF c, s, now
  <2> QED BY <1>1, <2>2, <2>3, <2>4, <2>5 DEF Books, now
<1>2. CASE ~ (k.at = b.cycle.current /\ k.session \in DOMAIN b.snapshot.sessions /\ now # k.at)
  BY <1>2 DEF Recovered
<1> QED BY <1>1, <1>2

\* Where an attach has landed the narrowing and the session it is in agree.
LEMMA LandedTyped ==
    ASSUME NEW b \in Books, WorldOK
    PROVE  /\ Landed(b) \in Books /\ Landed(b).cycle.current = b.cycle.current
           /\ LET c == Landed(b).cycle
                  here == Place(c.sessions, c.current)
              IN  c.focus # NoGroup /\ Landed(b).snapshot.sessions # <<>> /\ here # 0
                    => c.sessions[here].group = c.focus
<1> DEFINE a == b.cycle.current
           entries == Entries(b.snapshot, group)
           c == IF b.snapshot.sessions = <<>> THEN b.cycle ELSE Refresh(b.cycle, entries)
           info == Info(b.snapshot, a)
           d == IF in = NoSession /\ info # NoSession THEN [c EXCEPT !.focus = group[info]] ELSE c
           k == IF info = NoSession THEN b.known ELSE [at |-> a, session |-> info]
           here == Place(entries, a)
<1>1. /\ b.cycle \in Cycles /\ b.snapshot \in Snapshots /\ group \in Grouping /\ a \in Address
      /\ b.known \in [at : Addresses, session : Sessions]
  BY DEF Books, WorldOK, Cycles
<1>2. entries \in Seq(Entry)
  BY <1>1, EntriesTyped
<1>3. info \in Sessions
  BY <1>1, InfoTyped
<1>4. info # NoSession /\ here # 0 => entries[here].group = group[info]
  BY <1>1, FirstEntry
<1>5. Landed(b) = [b EXCEPT !.history = FALSE, !.known = k, !.cycle = d]
  BY DEF Landed, Books
<1>6. info # NoSession => group[info] \in Groups
  BY <1>1, <1>3 DEF Grouping, Groups, Sessions
<1> HIDE DEF entries, info
<1>7. c \in Cycles /\ c.current = a
  BY <1>1, <1>2, RefreshTyped
<1>8. k \in [at : Addresses, session : Sessions]
  BY <1>1, <1>3 DEF Addresses
<1>9. b.snapshot.sessions # <<>> => /\ c.sessions = entries
                                    /\ c.focus # NoGroup /\ here # 0 => entries[here].group = c.focus
  BY <1>1, <1>2, RefreshTyped, RefreshAgrees
<1> HIDE DEF c, here
<1>10. d \in Cycles /\ d.current = a /\ d.sessions = c.sessions
  BY <1>6, <1>7 DEF Cycles
<1>11. b.snapshot.sessions # <<>> /\ d.focus # NoGroup /\ here # 0 => entries[here].group = d.focus
  <2>1. CASE in = NoSession /\ info # NoSession
    <3>1. d.focus = group[info]
      BY <1>7, <2>1 DEF Cycles
    <3> QED BY <1>4, <2>1, <3>1
  <2>2. CASE ~ (in = NoSession /\ info # NoSession)
    BY <1>9, <2>2
  <2> QED BY <2>1, <2>2
<1> HIDE DEF d, k
<1>12. /\ Landed(b) \in Books /\ Landed(b).cycle = d /\ Landed(b).snapshot = b.snapshot
  BY <1>5, <1>8, <1>10 DEF Books
<1>13. b.snapshot.sessions # <<>> => d.sessions = entries
  BY <1>9, <1>10
<1> QED BY <1>10, <1>11, <1>12, <1>13 DEF here

\* What the run has in hand when the attach returns.
LEMMA ReturnedTyped ==
    ASSUME WorldOK, DataOK
    PROVE  Returned \in Books
<1> DEFINE b == IF lister.fresh THEN Absorb(book, lister.cached) ELSE book
           was == b.cycle.current
           now == [was EXCEPT !.name = heard]
           s == IF b.known.session # NoSession
                THEN RenamedMember(b.snapshot, b.known.session, heard)
                ELSE Renamed(b.snapshot, was, now)
           c == RenamedAt(b.cycle, was, now)
           seeded == Reseeded(b.seeded, was, now)
           k == [b.known EXCEPT !.at = IF @ = was THEN now ELSE @]
<1>1. b \in Books
  BY AbsorbTyped DEF DataOK, WorldOK, Listers
<1> HIDE DEF b
<1>2. CASE heard = NoName
  BY <1>1, <1>2 DEF Returned, b
<1>3. CASE heard # NoName
  <2>1. heard \in Name /\ was \in Address /\ b.cycle \in Cycles /\ b.snapshot \in Snapshots
        /\ b.seeded \in SUBSET Address /\ b.known \in [at : Addresses, session : Sessions]
    BY <1>1, <1>3 DEF DataOK, Books, Cycles
  <2>2. now \in Address
    BY <2>1 DEF Address
  <2>3. c \in Cycles
    <3> HIDE DEF now, was
    <3> QED BY <2>1, <2>2, RenamedAtTyped
  <2>4. s \in Snapshots
    <3> HIDE DEF now, was
    <3> QED BY <2>1, <2>2, RenamedTyped, RenamedMemberTyped
  <2>5. seeded \in SUBSET Address
    <3> HIDE DEF now, was
    <3> QED BY <2>1, <2>2, ReseededTyped
  <2>6. k \in [at : Addresses, session : Sessions]
    BY <2>1, <2>2 DEF Addresses
  <2>7. Returned = [b EXCEPT !.cycle = c, !.snapshot = s, !.known = k, !.seeded = seeded]
    BY <1>1, <1>3, Zenon DEF Returned, b
  <2> HIDE DEF c, s, seeded, k
  <2> QED BY <1>1, <2>3, <2>4, <2>5, <2>6, <2>7 DEF Books
<1> QED BY <1>2, <1>3

LEMMA AnswerTyped ==
    ASSUME DataOK, lister.current \in Address, NEW s \in Snapshots
    PROVE  Answer(s) \in Listers /\ Answer(s).current \in Address
<1> DEFINE now == IF heard = NoName THEN lister.current ELSE [lister.current EXCEPT !.name = heard]
           member == IF lister.member # NoSession THEN lister.member ELSE Info(s, now)
           cached == IF heard = NoName THEN s
                     ELSE IF member # NoSession THEN RenamedMember(s, member, heard)
                     ELSE Renamed(s, lister.current, now)
<1>1. heard = NoName \/ heard \in Name
  BY DEF DataOK
<1>2. now \in Address
  BY <1>1 DEF Address
<1>3. Answer(s) = [cached |-> cached, fresh |-> TRUE, member |-> member, current |-> now]
  BY DEF Answer
<1> HIDE DEF now
<1>4. member \in Sessions
  BY InfoTyped DEF DataOK, Listers
<1> HIDE DEF member
<1>5. cached \in Snapshots
  <2>1. CASE heard = NoName
    BY <2>1
  <2>2. CASE heard # NoName
    <3>1. RenamedMember(s, member, heard) \in Snapshots /\ Renamed(s, lister.current, now) \in Snapshots
      BY <1>1, <1>2, <2>2, RenamedTyped, RenamedMemberTyped
    <3> QED BY <2>2, <3>1
  <2> QED BY <2>1, <2>2
<1> HIDE DEF cached
<1> QED BY <1>2, <1>3, <1>4, <1>5 DEF Listers, Addresses

(***************************************************************************)
(* The world, in every step.                                               *)
(***************************************************************************)

\* What changes the world: the others, and what the run asks a machine to do.
Changing ==
    \/ Elsewhere
    \/ \E h \in Host, s \in Session, a \in Address : StartOn(h, s, a)
    \/ \E a \in Address, g \in Groups : Regroup(a, g)
    \/ \E a, now \in Address : RenameRow(a, now)

LEMMA OthersLeaveTheWorld ==
    ASSUME [Next]_vars, ~ Changing
    PROVE  UNCHANGED world
<1>1. CASE UNCHANGED vars
  BY <1>1 DEF vars
<1>2. CASE Survey \/ Begin \/ Retry \/ GiveUp \/ Hear \/ ListerAsks \/ ListerCollects \/ ListerRenames
  BY <1>2 DEF Survey, Begin, Retry, GiveUp, Hear, ListerAsks, ListerCollects, ListerRenames
<1>3. CASE Attempt
  BY <1>3 DEF Attempt, Attach, Attached, MissBack, MissHop, Miss, MissFirst
<1>4. CASE Leave
  BY <1>4 DEF Leave, Detach, Disconnect, SeeExit, Switch
<1>5. CASE Menu
  BY <1>5 DEF Changing, Menu, Go, Refused, Unregrouped, Unlisted, Narrow, Groups
<1> QED BY <1>1, <1>2, <1>3, <1>4, <1>5 DEF Next, Changing

LEMMA WorldStep ==
    ASSUME WorldOK, [Next]_vars
    PROVE  WorldOK' /\ born \subseteq born'
<1>1. CASE ~ Changing
  BY <1>1, OthersLeaveTheWorld DEF world, WorldOK
<1>2. ASSUME NEW s \in Session, End(s) PROVE WorldOK' /\ born \subseteq born'
  BY <1>2, AttachingAssumption DEF End, Others, Change, WorldOK, Addresses
<1>3. ASSUME NEW s \in Session, NEW g \in Groups, Regrouped(s, g)
      PROVE  WorldOK' /\ born \subseteq born'
  BY <1>3, AttachingAssumption DEF Regrouped, Others, Change, WorldOK, Grouping, Groups
<1>4. ASSUME NEW s \in Session, NEW a \in Address, Rename(s, a)
      PROVE  WorldOK' /\ born \subseteq born'
  BY <1>4, AttachingAssumption DEF Rename, Others, Change, WorldOK, Addresses
<1>5. ASSUME NEW s \in Session, NEW a \in Address, Start(s, a) \/ \E h \in Host : StartOn(h, s, a)
      PROVE  WorldOK' /\ born \subseteq born'
  <2>1. /\ at' = [at EXCEPT ![s] = a] /\ born' = born \cup {s}
        /\ UNCHANGED <<up, group>> /\ changes' \in {changes, changes + 1}
        /\ changes' = changes \/ changes < MaxChanges
    BY <1>5 DEF Start, Others, Change, StartOn
  <2>2. IsFiniteSet(born')
    BY <2>1, FS_AddElement DEF WorldOK
  <2> QED BY <2>1, <2>2, AttachingAssumption DEF WorldOK, Addresses
<1>6. ASSUME NEW h \in Host, Network(h) PROVE WorldOK' /\ born \subseteq born'
  BY <1>6, AttachingAssumption DEF Network, Others, Change, WorldOK
<1>7. ASSUME NEW a \in Address, NEW g \in Groups, Regroup(a, g)
      PROVE  WorldOK' /\ born \subseteq born'
  <2>1. PICK s \in At(a) : group' = [group EXCEPT ![s] = g]
    BY <1>7 DEF Regroup
  <2> QED BY <1>7, <2>1, AttachingAssumption DEF Regroup, At, Change, WorldOK, Grouping, Groups
<1>8. ASSUME NEW a \in Address, NEW now \in Address, RenameRow(a, now)
      PROVE  WorldOK' /\ born \subseteq born'
  <2>1. PICK s \in At(a) : at' = [at EXCEPT ![s] = now]
    BY <1>8 DEF RenameRow
  <2> QED BY <1>8, <2>1, AttachingAssumption DEF RenameRow, At, Change, WorldOK, Addresses
<1> QED BY <1>1, <1>2, <1>3, <1>4, <1>5, <1>6, <1>7, <1>8 DEF Changing, Elsewhere, Groups

(***************************************************************************)
(* The flags.                                                              *)
(***************************************************************************)
LEMMA FlagsStep ==
    ASSUME WorldOK, FlagsOK, [Next]_vars
    PROVE  FlagsOK'
<1>0. born \subseteq born'
  BY WorldStep
<1>1. CASE UNCHANGED vars \/ Elsewhere \/ Survey \/ Hear \/ ListerAsks \/ ListerCollects \/ ListerRenames
  <2>1. UNCHANGED loop
    BY <1>1 DEF vars, Elsewhere, End, Regrouped, Rename, Start, Network, Others, Survey, Hear,
                ListerAsks, ListerCollects, ListerRenames
  <2> QED BY <1>0, <2>1 DEF loop, FlagsOK
<1>2. CASE Begin \/ Retry \/ GiveUp
  BY <1>0, <1>2 DEF Begin, Retry, GiveUp, Finish, FlagsOK, Phases
<1>3. CASE Attempt
  <2>1. ASSUME NEW s \in Session, Attach(s) PROVE FlagsOK'
    <3>1. /\ phase' = "attached" /\ in' = s /\ ended' = NoSession /\ ~hopped' /\ ~lost' /\ been'
          /\ hopped' \in BOOLEAN /\ lost' \in BOOLEAN /\ been' \in BOOLEAN
          /\ s \in born /\ phase = "reaching" /\ UNCHANGED <<born, result>>
      BY <2>1 DEF Attach, Attached, At, world
    <3>2. s # NoSession
      BY AttachingAssumption DEF NoSession
    <3> QED BY <3>1, <3>2 DEF FlagsOK, Phases
  <2>2. CASE MissBack \/ MissFirst
    BY <1>0, <2>2 DEF MissBack, MissFirst, Finish, FlagsOK, Phases
  <2>3. CASE MissHop
    BY <1>0, <2>3 DEF MissHop, FlagsOK, Phases
  <2>4. CASE Miss
    BY <1>0, <2>4 DEF Miss, Wait, FlagsOK, Phases
  <2> QED BY <1>3, <2>1, <2>2, <2>3, <2>4 DEF Attempt
<1>4. ASSUME NEW b, NEW moved \in BOOLEAN, Back(b, moved) PROVE FlagsOK'
  BY <1>0, <1>4 DEF Back, Return, FlagsOK, Phases
<1>5. CASE Leave
  <2>1. CASE \E m \in Motions : Switch(m)
    <3>1. \E b : Back(b, TRUE) \/ Back(b, FALSE)
      BY <2>1 DEF Switch, Stay, Hop, Again
    <3> QED BY <1>4, <3>1
  <2>2. CASE Detach
    BY <1>0, <2>2 DEF Detach, Return, Finish, FlagsOK, Phases
  <2>4. CASE Disconnect
    BY <1>0, <2>4 DEF Disconnect, Wait, FlagsOK, Phases
  <2>3. CASE SeeExit
    <3>1. /\ phase = "attached" /\ UNCHANGED <<in, lost>> /\ hopped' \in BOOLEAN /\ been' \in BOOLEAN
          /\ \/ phase' = "over" /\ result' = "exited" /\ UNCHANGED <<ended, hopped, been>>
             \/ /\ phase' = "top" /\ result' = result /\ ended' = in
                /\ hopped' = FALSE /\ been' = TRUE
      BY <2>3 DEF SeeExit, Return, Finish, FlagsOK
    <3> QED BY <1>0, <3>1 DEF FlagsOK, Phases
  <2> QED BY <1>5, <2>1, <2>2, <2>3, <2>4 DEF Leave
<1>6. CASE Menu
  <2>1. \E b : Back(b, TRUE) \/ Back(b, FALSE)
    BY <1>6 DEF Menu, Go, Refused, Unregrouped, Unlisted, Narrow, StartOn, Regroup, RenameRow,
              Stay, Hop, Again
  <2> QED BY <1>4, <2>1
<1> QED BY <1>1, <1>2, <1>3, <1>5, <1>6 DEF Next

(***************************************************************************)
(* What the loop keeps.                                                    *)
(***************************************************************************)
Inv == WorldOK /\ FlagsOK /\ DataOK /\ NarrowedToWhereItIs

\* The survey says what runs where, of the machines it reached.
LEMMA SurveyStep ==
    ASSUME Inv, Survey
    PROVE  DataOK'
<1> DEFINE running == {s \in born : at[s] # Nowhere /\ at[s].host \in up}
           f == [s \in running |-> at[s]]
           said == [sessions |-> f, cached |-> <<>>, answered |-> up]
<1>1. running \in SUBSET born /\ IsFiniteSet(born)
  BY DEF Inv, WorldOK
<1>2. IsFiniteSet(running) /\ running \in SUBSET Session
  <2> HIDE DEF running
  <2> QED BY <1>1, FS_Subset DEF Inv, WorldOK
<1>3. f \in [running -> Address]
  BY DEF Inv, WorldOK, Addresses
<1>4. f \in Pictures
  <2> HIDE DEF running, f
  <2> QED BY <1>2, <1>3, ToPicture
<1>5. said \in Snapshots
  <2> HIDE DEF f
  <2> QED BY <1>4, NothingIsPictured DEF Snapshots, Inv, WorldOK
<1>6. listing' = [is |-> "landed", snapshot |-> said] /\ UNCHANGED <<book, phase, lister, heard>>
  BY DEF Survey, loop
<1> HIDE DEF said
<1> QED BY <1>5, <1>6 DEF Inv, DataOK, Listings

\* The lister's answers.
LEMMA ListerStep ==
    ASSUME Inv, ListerAsks \/ ListerCollects \/ ListerRenames \/ Hear
    PROVE  DataOK'
<1>1. phase' = phase /\ phase = "attached" /\ book' = book /\ DataOK /\ lister.current \in Address
  BY DEF ListerAsks, ListerCollects, ListerRenames, Hear, loop, Inv, DataOK
<1>2. listing.snapshot \in Snapshots /\ lister.cached \in Snapshots
  BY DEF Inv, DataOK, Listings, Listers
<1>3. CASE ListerAsks
  BY <1>1, <1>3, QuietTyped DEF ListerAsks, DataOK
<1>4. CASE ListerCollects
  <2>1. Following(listing.snapshot, lister.cached) \in Snapshots
    BY <1>2, FollowingTyped
  <2> QED BY <1>1, <1>4, <2>1, AnswerTyped, QuietTyped DEF ListerCollects, DataOK
<1>5. CASE ListerRenames
  BY <1>1, <1>2, <1>5, AnswerTyped DEF ListerRenames, DataOK
<1>6. CASE Hear
  <2>1. at[in] \in Address
    BY <1>6 DEF Hear, Inv, WorldOK, FlagsOK, Addresses
  <2>2. at[in].name \in Name
    BY <2>1 DEF Address
  <2> QED BY <1>1, <1>6, <2>2 DEF Hear, DataOK
<1> QED BY <1>3, <1>4, <1>5, <1>6

LEMMA BeginStep ==
    ASSUME Inv, Begin
    PROVE  DataOK'
<1> DEFINE k == IF book.known.at # book.cycle.current THEN NoOne ELSE book.known
           known == IF k = NoOne THEN KnownOf(book.snapshot, book.cycle.current) ELSE k
           b1 == [book EXCEPT !.known = known]
           b == Recovered(Collected(b1))
<1>1. book \in Books
  BY DEF Inv, DataOK
<1>2. known \in [at : Addresses, session : Sessions]
  <2>1. /\ book.snapshot \in Snapshots /\ book.cycle.current \in Address
        /\ book.known \in [at : Addresses, session : Sessions]
    BY <1>1 DEF Books, Cycles
  <2>2. KnownOf(book.snapshot, book.cycle.current) \in [at : Addresses, session : Sessions]
    BY <2>1, InfoTyped DEF KnownOf, NoOne, Addresses, Sessions
  <2> QED BY <2>1, <2>2
<1> HIDE DEF known
<1>3. b1 \in Books
  BY <1>1, <1>2 DEF Books
<1> HIDE DEF b1
<1>4. b \in Books /\ Uncollected \in Listings
  BY <1>3, CollectedTyped, RecoveredTyped DEF Inv
<1>5. /\ book' = [b EXCEPT !.history = b.cycle.current \notin b.seeded,
                          !.seeded = @ \cup {b.cycle.current}]
      /\ listing' = Uncollected /\ phase' = "reaching" /\ UNCHANGED <<lister, heard>>
  BY DEF Begin, b1, known
<1> HIDE DEF b
<1>6. book' \in Books
  <2>1. b.cycle.current \in Address /\ (b.cycle.current \notin b.seeded) \in BOOLEAN
    BY <1>4 DEF Books, Cycles
  <2> DEFINE h == b.cycle.current \notin b.seeded
             s == b.seeded \cup {b.cycle.current}
  <2>2. book' = [b EXCEPT !.history = h, !.seeded = s] /\ h \in BOOLEAN /\ s \in SUBSET Address
    BY <1>4, <1>5, <2>1 DEF Books
  <2> HIDE DEF h, s
  <2> QED BY <1>4, <2>2 DEF Books
<1> QED BY <1>4, <1>5, <1>6 DEF Inv, DataOK

LEMMA AttachStep ==
    ASSUME Inv, NEW s \in Session, Attach(s)
    PROVE  DataOK' /\ NarrowedToWhereItIs'
<1> DEFINE after == Landed(Collected(book))
<1>1. Collected(book) \in Books /\ Uncollected \in Listings
  BY CollectedTyped DEF Inv, DataOK
<1>2. after \in Books /\ LET c == after.cycle
                             here == Place(c.sessions, c.current)
                         IN  c.focus # NoGroup /\ after.snapshot.sessions # <<>> /\ here # 0
                               => c.sessions[here].group = c.focus
  BY <1>1, LandedTyped DEF Inv
<1> HIDE DEF after
<1>3. /\ book' = after /\ listing' = Uncollected /\ heard' = NoName
      /\ lister' = [cached |-> after.snapshot, fresh |-> FALSE,
                    member |-> Info(after.snapshot, at[s]), current |-> at[s]]
  BY DEF Attach, Attached, after
<1>4. at[s] \in Address
  BY DEF Attach, Attached, At, Inv, DataOK, Books, Cycles
<1>5. after.snapshot \in Snapshots /\ Info(after.snapshot, at[s]) \in Sessions
  BY <1>2, InfoTyped DEF Books
<1>6. lister' \in Listers /\ lister'.current \in Address
  BY <1>3, <1>4, <1>5 DEF Listers, Addresses
<1>7. DataOK'
  BY <1>1, <1>2, <1>3, <1>6 DEF DataOK
<1>8. NarrowedToWhereItIs'
  BY <1>2, <1>3 DEF NarrowedToWhereItIs
<1> QED BY <1>7, <1>8

LEMMA MissStep ==
    ASSUME Inv, MissBack \/ MissHop \/ Miss \/ MissFirst
    PROVE  DataOK'
<1>1. CASE MissBack \/ MissFirst
  BY <1>1 DEF MissBack, MissFirst, Finish, Inv, DataOK
<1>2. CASE MissHop
  <2>1. book.cycle \in Cycles /\ Undo(Forget(book.cycle, book.cycle.current)) \in Cycles
    BY ForgetTyped, UndoTyped DEF Inv, DataOK, Books
  <2>2. book' = [book EXCEPT !.cycle = Undo(Forget(@, book.cycle.current))]
    BY <1>2 DEF MissHop
  <2>3. book' \in Books
    BY <2>1, <2>2 DEF Inv, DataOK, Books
  <2> QED BY <1>2, <2>3 DEF MissHop, Inv, DataOK
<1>3. CASE Miss
  BY <1>3, QuietTyped DEF Miss, Wait, Inv, DataOK
<1> QED BY <1>1, <1>2, <1>3

\* Round the loop again, with a book that is one.
LEMMA ReturnStep ==
    ASSUME Inv, NEW b \in Books, NEW moved, Back(b, moved), listing' \in {Asked, Quiet}
    PROVE  DataOK'
BY QuietTyped DEF Back, Return, DataOK, NoName

LEMMA HopTyped ==
    ASSUME NEW b \in Books, NEW c \in Cycles
    PROVE  [b EXCEPT !.cycle = c] \in Books
BY DEF Books

LEMMA HopStep ==
    ASSUME Inv, NEW b \in Books, NEW next \in Address, Hop(b, next)
    PROVE  DataOK'
<1>1. MovedTo(b.cycle, next) \in Cycles
  BY MovedToTyped DEF Books
<1>2. [b EXCEPT !.cycle = MovedTo(@, next)] \in Books
  BY <1>1, HopTyped
<1> QED BY <1>2, ReturnStep DEF Hop, Again

LEMMA LeaveTyped ==
    ASSUME Inv, Leave
    PROVE  DataOK'
<1>0. Returned \in Books
  BY ReturnedTyped DEF Inv
<1>1. CASE Detach \/ Disconnect
  BY <1>0, <1>1, QuietTyped DEF Detach, Disconnect, Return, Wait, Finish, Inv, DataOK, NoName
<1>2. CASE SeeExit
  <2> DEFINE s == Forgotten(Returned.snapshot, Returned.cycle.current)
             b == [Returned EXCEPT !.snapshot = s]
             d == [b EXCEPT !.cycle = FallBack(b.cycle)]
  <2>1. s \in Snapshots
    BY <1>0, ForgottenTyped DEF Books
  <2>2. b \in Books
    BY <1>0, <2>1 DEF Books
  <2>3. \/ Return(b) /\ phase' = "over" /\ listing' = Quiet
        \/ b.cycle.trail # <<>> /\ Return(d) /\ phase' = "top" /\ listing' = Asked
    BY <1>2 DEF SeeExit, Finish
  <2> HIDE DEF b
  <2>4. b.cycle.trail # <<>> => d \in Books
    <3>1. b.cycle.trail # <<>> => FallBack(b.cycle) \in Cycles
      BY <2>2, UndoTyped DEF Books
    <3> QED BY <2>2, <3>1, HopTyped
  <2> HIDE DEF d
  <2> QED BY <2>2, <2>3, <2>4, QuietTyped DEF Return, DataOK, NoName
<1>3. ASSUME NEW m \in Motions, Switch(m) PROVE DataOK'
  <2>1. Step(Returned.cycle, m) # Nowhere => Step(Returned.cycle, m) \in Address
    BY <1>0, StepTyped DEF Books
  <2> DEFINE next == Step(Returned.cycle, m)
  <2>2. IF next = Nowhere THEN Stay(Returned) ELSE Hop(Returned, next)
    BY <1>3 DEF Switch
  <2> HIDE DEF next
  <2> QED BY <1>0, <2>1, <2>2, HopStep, ReturnStep DEF Stay, Again, next
<1> QED BY <1>1, <1>2, <1>3 DEF Leave

LEMMA MenuTyped ==
    ASSUME Inv, Menu
    PROVE  DataOK'
<1>0. Returned \in Books /\ Returned.cycle \in Cycles /\ Returned.snapshot \in Snapshots
      /\ Returned.seeded \in SUBSET Address
      /\ Returned.known \in [at : Addresses, session : Sessions]
  BY ReturnedTyped DEF Inv, Books
<1>1. ASSUME NEW a \in Address, Go(a) PROVE DataOK'
  BY <1>0, <1>1, HopStep, ReturnStep DEF Go, Stay, Again
<1>2. CASE Refused
  BY <1>0, <1>2, ReturnStep DEF Refused, Stay, Again
<1>8. CASE Unregrouped
  <2>1. Refresh(Returned.cycle, Entries(Returned.snapshot, group)) \in Cycles
    BY <1>0, EntriesTyped, RefreshTyped DEF Inv, WorldOK
  <2>2. [Returned EXCEPT !.cycle = Refresh(@, Entries(Returned.snapshot, group))] \in Books
    BY <1>0, <2>1, HopTyped
  <2> QED BY <1>8, <2>2, ReturnStep DEF Unregrouped, Stay, Again
<1>7. CASE Unlisted
  BY <1>0, <1>7, ReturnStep DEF Unlisted
<1>3. ASSUME NEW g \in Groups, Narrow(g) PROVE DataOK'
  <2> DEFINE c == [Returned.cycle EXCEPT !.focus = g]
             b == [Returned EXCEPT !.cycle = c]
             next == Step(c, "next")
  <2>1. c \in Cycles
    BY <1>0 DEF Cycles
  <2>2. b \in Books /\ b.cycle = c /\ b = [Returned EXCEPT !.cycle.focus = g]
    BY <1>0, <2>1, HopTyped DEF Books
  <2>3. next # Nowhere => next \in Address
    <3> HIDE DEF c
    <3> QED BY <2>1, StepTyped DEF Motions
  <2>4. \/ next # Nowhere /\ Hop(b, next)
        \/ Stay(b)
    BY <1>3, <2>2 DEF Narrow
  <2> HIDE DEF b, next
  <2> QED BY <2>2, <2>3, <2>4, HopStep, ReturnStep DEF Stay, Again
<1>4. ASSUME NEW h \in Host, NEW s \in Session, NEW a \in Address, StartOn(h, s, a) PROVE DataOK'
  <2>1. Started(Returned.cycle, a) \in Cycles
    BY <1>0, MovedToTyped
  <2>2. [Returned EXCEPT !.cycle = Started(@, a)] \in Books
    BY <1>0, <2>1, HopTyped
  <2> QED BY <1>4, <2>2, ReturnStep DEF StartOn, Again
<1>5. ASSUME NEW a \in Address, NEW g \in Groups, Regroup(a, g) PROVE DataOK'
  <2>1. PICK s \in At(a) :
          Stay([Returned EXCEPT !.cycle =
                  Refresh(@, Entries(Returned.snapshot, [group EXCEPT ![s] = g]))])
    BY <1>5 DEF Regroup
  <2> DEFINE now == [group EXCEPT ![s] = g]
             c == Refresh(Returned.cycle, Entries(Returned.snapshot, now))
  <2>2. now \in Grouping
    BY DEF At, Inv, WorldOK, Grouping, Groups
  <2> HIDE DEF now
  <2>3. c \in Cycles
    BY <1>0, <2>2, EntriesTyped, RefreshTyped
  <2> HIDE DEF c
  <2>4. [Returned EXCEPT !.cycle = c] \in Books
    BY <1>0, <2>3, HopTyped
  <2>5. Stay([Returned EXCEPT !.cycle = c])
    BY <2>1 DEF c, now
  <2> QED BY <2>4, <2>5, ReturnStep DEF Stay, Again
<1>6. ASSUME NEW a \in Address, NEW now \in Address, RenameRow(a, now) PROVE DataOK'
  <2> DEFINE b == Returned
             c == RenamedAt(b.cycle, a, now)
             s == Renamed(b.snapshot, a, now)
             k == [b.known EXCEPT !.at = IF @ = a THEN now ELSE @]
             seeded == Reseeded(b.seeded, a, now)
             d == [b EXCEPT !.cycle = c, !.snapshot = s, !.known = k, !.seeded = seeded]
  <2>1. Stay(d)
    BY <1>0, <1>6, Zenon DEF RenameRow
  <2>2. c \in Cycles /\ s \in Snapshots /\ seeded \in SUBSET Address
    BY <1>0, RenamedAtTyped, RenamedTyped, ReseededTyped
  <2>3. k \in [at : Addresses, session : Sessions]
    BY <1>0 DEF Addresses
  <2>4. d \in Books
    <3> HIDE DEF c, s, k, seeded
    <3> QED BY <1>0, <2>2, <2>3 DEF Books
  <2> HIDE DEF d
  <2> QED BY <2>1, <2>4, ReturnStep DEF Stay, Again
<1> QED BY <1>1, <1>2, <1>3, <1>4, <1>5, <1>6, <1>7, <1>8 DEF Menu, Groups

LEMMA InvStep ==
    ASSUME Inv, [Next]_vars
    PROVE  Inv'
<1>1. WorldOK' /\ FlagsOK'
  BY WorldStep, FlagsStep DEF Inv
<1>2. ASSUME NEW s \in Session, Attach(s) PROVE Inv'
  BY <1>1, <1>2, AttachStep DEF Inv
<1>3. CASE ~ \E s \in Session : Attach(s)
  <2>1. DataOK'
    <3>1. CASE UNCHANGED vars \/ Elsewhere \/ Retry \/ GiveUp
      <4>1. UNCHANGED <<book, listing, lister, heard>> /\ (phase' = "attached" => phase = "attached")
        BY <3>1 DEF vars, loop, Elsewhere, End, Regrouped, Rename, Start, Network, Others,
                    Retry, GiveUp, Finish
      <4> QED BY <4>1 DEF Inv, DataOK
    <3> QED BY <1>3, <3>1, SurveyStep, BeginStep, ListerStep, MissStep, LeaveTyped, MenuTyped
            DEF Next, Attempt
  <2>2. NarrowedToWhereItIs'
    <3>1. phase' = "attached" => phase = "attached" /\ book' = book
      BY <1>3 DEF vars, world, loop, Next, Elsewhere, End, Regrouped, Rename, Start, Network, Others, Survey,
                  Begin, Attempt, MissBack, MissHop, Miss, MissFirst, Wait, Retry, GiveUp, Finish,
                  Hear, ListerAsks, ListerCollects, ListerRenames, Menu, Go, Refused, Unregrouped, Unlisted, Narrow,
                  StartOn, Regroup, RenameRow, Leave, Detach, Disconnect, SeeExit, Switch,
                  Hop, Stay, Again, Back, Return
    <3> QED BY <3>1 DEF Inv, NarrowedToWhereItIs
  <2> QED BY <1>1, <2>1, <2>2 DEF Inv
<1> QED BY <1>2, <1>3

LEMMA InvInit == Init => Inv
<1> SUFFICES ASSUME Init PROVE Inv
  OBVIOUS
<1>1. First \in Session /\ [host |-> StartHost, name |-> StartName] \in Address
  BY AttachingAssumption DEF Address
<1>2. WorldOK
  <2>1. IsFiniteSet({First})
    BY FS_Singleton
  <2> QED BY <1>1, <2>1, AttachingAssumption DEF Init, WorldOK, Addresses, Grouping
<1>3. FlagsOK
  BY DEF Init, FlagsOK, Phases
<1>4. book \in Books
  <2>1. NewCycle(at[First]) \in Cycles
    BY <1>1 DEF Init, NewCycle, Cycles, Groups
  <2>2. NoOne \in [at : Addresses, session : Sessions]
    BY DEF NoOne, Addresses, Sessions
  <2> QED BY <2>1, <2>2, UnaskedTyped DEF Init, Books
<1>5. DataOK /\ NarrowedToWhereItIs
  BY <1>4, QuietTyped DEF Init, DataOK, NarrowedToWhereItIs
<1> QED BY <1>2, <1>3, <1>5 DEF Inv

LEMMA InvHolds == Spec => []Inv
<1> QED BY InvInit, InvStep, PTL DEF Spec

\* The run's book is what it is taken for, in every state, and a run that is
\* narrowed to a group is in a session of it: where an attach lands, the group is
\* dropped or is the session's, by the listing it landed with.
THEOREM RunsHoldTogether == Spec => []HoldsTogether
<1>1. Inv => HoldsTogether
  <2> SUFFICES ASSUME Inv PROVE TypeOK
    BY DEF Inv, HoldsTogether
  <2> QED BY DEF Inv, WorldOK, FlagsOK, DataOK, Books, Cycles, TypeOK, Groups, Sessions
<1> QED BY <1>1, InvHolds, PTL

\* A run that is waiting for a session it lost goes to that session's new name, as
\* the machines tell it, and to nothing else: the step that finds it is the only
\* one that leaves the address the run was at, a hop that failed being one that
\* was never attached.
THEOREM LostSessionsAreFollowed == Spec => WaitsForItsSession
<1> DEFINE Follows ==
      LET was == book.cycle.current
          now == book'.cycle.current
      IN  been /\ been' /\ lost /\ was # now =>
            \E s \in DOMAIN book'.snapshot.sessions :
               /\ book.known = [at |-> was, session |-> s] \/ Info(book.snapshot, was) = s
               /\ book'.snapshot.sessions[s] = now
<1>1. Inv /\ [Next]_vars => [Follows]_vars
  <2> SUFFICES ASSUME Inv, Next, been, been', lost, book'.cycle.current # book.cycle.current
               PROVE  Follows
    BY DEF vars
  <2>1. phase # "attached" /\ ~hopped
    BY DEF Inv, FlagsOK
  <2>2. book' # book
    OBVIOUS
  <2>3. CASE Begin
    <3> DEFINE was == book.cycle.current
               k == IF book.known.at # was THEN NoOne ELSE book.known
               known == IF k = NoOne THEN KnownOf(book.snapshot, was) ELSE k
               b1 == [book EXCEPT !.known = known]
               b2 == Collected(b1)
               b == Recovered(b2)
    <3>1. /\ book \in Books /\ book.snapshot \in Snapshots /\ was \in Address
          /\ book.known \in [at : Addresses, session : Sessions]
      BY DEF Inv, DataOK, Books, Cycles
    <3>2. known \in [at : Addresses, session : Sessions]
      BY <3>1, InfoTyped DEF KnownOf, NoOne, Addresses, Sessions
    <3>3. known.session # NoSession =>
             known = [at |-> was, session |-> known.session]
               /\ (book.known = known \/ Info(book.snapshot, was) = known.session)
      BY <3>1 DEF KnownOf, NoOne
    <3> HIDE DEF known
    <3>4. b1 \in Books /\ b1.known = known /\ b1.cycle = book.cycle
      BY <3>1, <3>2 DEF Books
    <3> HIDE DEF b1
    <3>5. b2 \in Books /\ b2.known = known /\ b2.cycle.current = was
      BY <3>4, CollectedTyped DEF Inv
    <3> HIDE DEF b2
    <3>6. /\ b \in Books /\ b.snapshot = b2.snapshot
          /\ b.cycle.current # was => /\ known.session \in DOMAIN b2.snapshot.sessions
                                      /\ b.cycle.current = b2.snapshot.sessions[known.session]
      BY <3>5, RecoveredTyped
    <3>7. book' = [b EXCEPT !.history = b.cycle.current \notin b.seeded,
                            !.seeded = @ \cup {b.cycle.current}]
      BY <2>3 DEF Begin, b1, b2, known
    <3> HIDE DEF b, k, was
    <3>8. book'.cycle = b.cycle /\ book'.snapshot = b2.snapshot
      BY <3>6, <3>7 DEF Books
    <3>9. known.session \in Session
      <4>1. b2.snapshot.sessions \in Pictures
        BY <3>5 DEF Books, Snapshots
      <4> QED BY <3>6, <3>8, <4>1, IsPicture DEF was
    <3>10. known.session # NoSession
      BY <3>9, AttachingAssumption DEF NoSession
    <3> QED BY <3>3, <3>6, <3>8, <3>10 DEF was
  <2>4. CASE Attempt
    <3>1. \E s \in Session : Attach(s)
      BY <2>1, <2>2, <2>4 DEF Attempt, MissBack, MissHop, Miss, MissFirst, Wait
    <3>2. book' = Landed(Collected(book))
      BY <3>1 DEF Attach, Attached
    <3>3. Collected(book) \in Books /\ Collected(book).cycle.current = book.cycle.current
      BY CollectedTyped DEF Inv, DataOK
    <3>4. Landed(Collected(book)).cycle.current = book.cycle.current
      BY <3>3, LandedTyped DEF Inv
    <3> QED BY <3>2, <3>4
  <2>5. CASE Elsewhere \/ Survey \/ Retry \/ GiveUp \/ Hear \/ ListerAsks \/ ListerCollects \/ ListerRenames
    BY <2>2, <2>5 DEF Elsewhere, End, Regrouped, Rename, Start, Network, Others, Survey, Retry,
                      GiveUp, Hear, ListerAsks, ListerCollects, ListerRenames
  <2>6. CASE Menu \/ Leave
    BY <2>1, <2>6 DEF Menu, Go, Refused, Unregrouped, Unlisted, Narrow, StartOn, Regroup, RenameRow, Leave, Detach,
                      Disconnect, SeeExit, Switch, Return, Hop, Stay, Again, Back
  <2> QED BY <2>3, <2>4, <2>5, <2>6 DEF Next
<1> QED BY <1>1, InvHolds, PTL DEF Spec, WaitsForItsSession

(***************************************************************************)
(* How a run ends.                                                         *)
(***************************************************************************)

\* Sessions that were never started run nowhere.
StartedOnce == born \subseteq Session /\ at = [s \in Session |-> at[s]]

\* The session the run was in last is one that was started.
InWasStarted == in = NoSession \/ in \in born

\* What each place of the loop says of the flags.
FlagsFollowTheLoop ==
    /\ phase = "attached" => in # NoSession /\ ended = NoSession
    /\ phase # "over" => result = "none"

\* The exit carried is the end of the session the run was in last.
CarriedExit == ended # NoSession => in # NoSession /\ at[in] = Nowhere

AInv == EndsAsAsked /\ StartedOnce /\ InWasStarted /\ FlagsFollowTheLoop /\ CarriedExit

(***************************************************************************)
(* The others: they leave the loop alone, and an ended session ended.      *)
(***************************************************************************)

\* A change of the world that leaves ended sessions ended keeps the invariant.
LEMMA WorldMoves ==
    ASSUME AInv, StartedOnce', UNCHANGED loop, born \subseteq born',
           \A s \in born : at[s] = Nowhere => at'[s] = Nowhere
    PROVE  AInv'
BY DEF AInv, EndsAsAsked, InWasStarted, FlagsFollowTheLoop, CarriedExit, loop, NoSession

LEMMA ElsewhereStep == AInv /\ Elsewhere => AInv'
<1> SUFFICES ASSUME AInv, Elsewhere PROVE AInv'
  OBVIOUS
<1>1. UNCHANGED loop
  BY DEF Elsewhere, End, Regrouped, Rename, Start, Network, Others
<1>2. CASE \E s \in Session : End(s)
  <2>1. PICK s \in Session : End(s)
    BY <1>2
  <2>2. StartedOnce' /\ born' = born /\ \A x \in born : at[x] = Nowhere => at'[x] = Nowhere
    BY <2>1 DEF End, AInv, StartedOnce
  <2> QED BY <1>1, <2>2, WorldMoves
<1>3. CASE \E s \in Session, a \in Address : Rename(s, a)
  <2>1. PICK s \in Session, a \in Address : Rename(s, a)
    BY <1>3
  <2>2. StartedOnce' /\ born' = born /\ \A x \in born : at[x] = Nowhere => at'[x] = Nowhere
    BY <2>1 DEF Rename, AInv, StartedOnce
  <2> QED BY <1>1, <2>2, WorldMoves
<1>4. CASE \E s \in Session, a \in Address : Start(s, a)
  <2>1. PICK s \in Session, a \in Address : Start(s, a)
    BY <1>4
  <2>2. StartedOnce' /\ born \subseteq born' /\ \A x \in born : at[x] = Nowhere => at'[x] = Nowhere
    BY <2>1 DEF Start, AInv, StartedOnce
  <2> QED BY <1>1, <2>2, WorldMoves
<1>5. CASE \/ \E s \in Session, g \in Group \cup {NoGroup} : Regrouped(s, g)
           \/ \E h \in Host : Network(h)
  <2>1. born' = born /\ at' = at
    BY <1>5 DEF Regrouped, Network
  <2> QED BY <1>1, <2>1, WorldMoves DEF AInv, StartedOnce
<1> QED BY <1>2, <1>3, <1>4, <1>5 DEF Elsewhere

(***************************************************************************)
(* The attempts.                                                           *)
(***************************************************************************)

LEMMA AttemptStep == AInv /\ Attempt => AInv'
<1> SUFFICES ASSUME AInv, Attempt PROVE AInv'
  OBVIOUS
<1> USE DEF AInv, EndsAsAsked, StartedOnce, InWasStarted, FlagsFollowTheLoop, CarriedExit
<1>1. CASE \E s \in Session : Attach(s)
  <2>1. PICK s \in Session : Attach(s)
    BY <1>1
  <2>2. /\ phase' = "attached" /\ in' = s /\ ended' = NoSession
        /\ s \in born /\ phase = "reaching"
        /\ UNCHANGED <<at, born, result>>
    BY <2>1 DEF Attach, Attached, At, world
  <2>3. s # NoSession
    BY AttachingAssumption DEF NoSession
  <2> QED BY <2>2, <2>3
<1>2. CASE MissBack
  BY <1>2 DEF MissBack, Finish, world
<1>3. CASE MissHop
  BY <1>3 DEF MissHop, world
<1>4. CASE Miss
  BY <1>4 DEF Miss, Wait, world
<1>5. CASE MissFirst
  BY <1>5 DEF MissFirst, Finish, world
<1> QED BY <1>1, <1>2, <1>3, <1>4, <1>5 DEF Attempt

(***************************************************************************)
(* The ways an attach ends.                                                *)
(***************************************************************************)

\* Round the loop again, whatever the machines were asked to do first: only the
\* session an attach is in could have ended, and it carries no exit.
LEMMA BackStep ==
    ASSUME AInv, NEW b, NEW moved, Back(b, moved), StartedOnce', born \subseteq born'
    PROVE  AInv'
BY DEF Back, Return, AInv, EndsAsAsked, InWasStarted, FlagsFollowTheLoop, CarriedExit, NoSession

LEMMA LeaveStep == AInv /\ Leave => AInv'
<1> SUFFICES ASSUME AInv, Leave PROVE AInv'
  OBVIOUS
<1>1. UNCHANGED world
  BY DEF Leave, Detach, Disconnect, SeeExit, Switch
<1>2. CASE Detach
  BY <1>1, <1>2 DEF Detach, Return, Finish, world, AInv, EndsAsAsked, StartedOnce,
                    InWasStarted, FlagsFollowTheLoop, CarriedExit
<1>3. CASE Disconnect
  BY <1>1, <1>3 DEF Disconnect, Wait, world, AInv, EndsAsAsked, StartedOnce,
                    InWasStarted, FlagsFollowTheLoop, CarriedExit
<1>4. CASE SeeExit
  <2>1. /\ phase = "attached" /\ at[in] = Nowhere /\ in' = in
        /\ \/ phase' = "over" /\ result' = "exited" /\ ended' = ended
           \/ phase' = "top" /\ result' = result /\ ended' = in
    BY <1>4 DEF SeeExit, Return, Finish
  <2> QED BY <1>1, <2>1 DEF world, AInv, EndsAsAsked, StartedOnce,
                            InWasStarted, FlagsFollowTheLoop, CarriedExit
<1>5. CASE \E m \in Motions : Switch(m)
  <2>1. \E b, moved : Back(b, moved)
    BY <1>5 DEF Switch, Stay, Hop, Again
  <2> QED BY <1>1, <2>1, BackStep DEF world, AInv, StartedOnce
<1> QED BY <1>2, <1>3, <1>4, <1>5 DEF Leave

LEMMA MenuStep == AInv /\ Menu => AInv'
<1> SUFFICES ASSUME AInv, Menu PROVE AInv'
  OBVIOUS
<1>1. CASE \E a \in Address : Go(a)
  <2>1. UNCHANGED world /\ \E b, moved : Back(b, moved)
    BY <1>1 DEF Go, Stay, Hop, Again
  <2> QED BY <2>1, BackStep DEF world, AInv, StartedOnce
<1>2. CASE Refused
  <2>1. UNCHANGED world /\ \E b, moved : Back(b, moved)
    BY <1>2 DEF Refused, Stay, Again
  <2> QED BY <2>1, BackStep DEF world, AInv, StartedOnce
<1>8. CASE Unregrouped
  <2>1. UNCHANGED world /\ \E b, moved : Back(b, moved)
    BY <1>8 DEF Unregrouped, Stay, Again
  <2> QED BY <2>1, BackStep DEF world, AInv, StartedOnce
<1>7. CASE Unlisted
  <2>1. UNCHANGED world /\ \E b, moved : Back(b, moved)
    BY <1>7 DEF Unlisted
  <2> QED BY <2>1, BackStep DEF world, AInv, StartedOnce
<1>3. CASE \E g \in Group \cup {NoGroup} : Narrow(g)
  <2>1. UNCHANGED world /\ \E b, moved : Back(b, moved)
    BY <1>3 DEF Narrow, Stay, Hop, Again
  <2> QED BY <2>1, BackStep DEF world, AInv, StartedOnce
<1>4. CASE \E h \in Host, s \in Session, a \in Address : StartOn(h, s, a)
  <2>1. PICK h \in Host, s \in Session, a \in Address : StartOn(h, s, a)
    BY <1>4
  <2>2. at' = [at EXCEPT ![s] = a] /\ born' = born \cup {s} /\ \E b, moved : Back(b, moved)
    BY <2>1 DEF StartOn, Again
  <2> QED BY <2>2, BackStep DEF AInv, StartedOnce
<1>5. CASE \E a \in Address, g \in Group \cup {NoGroup} : Regroup(a, g)
  <2>1. UNCHANGED <<at, born>> /\ \E b, moved : Back(b, moved)
    BY <1>5 DEF Regroup, Stay, Again
  <2> QED BY <2>1, BackStep DEF AInv, StartedOnce
<1>6. CASE \E a, now \in Address : RenameRow(a, now)
  <2>1. PICK a \in Address, now \in Address : RenameRow(a, now)
    BY <1>6
  <2>2. /\ \E s \in born : at' = [at EXCEPT ![s] = now]
        /\ born' = born /\ \E b, moved : Back(b, moved)
    BY <2>1 DEF RenameRow, Stay, Again, At
  <2> QED BY <2>2, BackStep DEF AInv, StartedOnce
<1> QED BY <1>1, <1>2, <1>3, <1>4, <1>5, <1>6, <1>7, <1>8 DEF Menu

(***************************************************************************)
(* The theorem.                                                            *)
(***************************************************************************)

\* What the loop and the lister do by themselves.
LEMMA LoopStep ==
    AInv /\ (Survey \/ Begin \/ Retry \/ GiveUp \/ Hear
                \/ ListerAsks \/ ListerCollects \/ ListerRenames) => AInv'
<1> USE DEF AInv, EndsAsAsked, StartedOnce, InWasStarted, FlagsFollowTheLoop, CarriedExit, world, loop
<1>1. ASSUME AInv, Survey \/ Hear \/ ListerAsks \/ ListerCollects \/ ListerRenames PROVE AInv'
  <2>1. UNCHANGED <<world, loop>>
    BY <1>1 DEF Survey, Hear, ListerAsks, ListerCollects, ListerRenames
  <2> QED BY <1>1, <2>1
<1>2. ASSUME AInv, Begin PROVE AInv'
  <2>1. phase' = "reaching" /\ phase = "top" /\ UNCHANGED <<world, in, ended, result>>
    BY <1>2 DEF Begin
  <2> QED BY <1>2, <2>1
<1>3. ASSUME AInv, Retry \/ GiveUp PROVE AInv'
  BY <1>3 DEF Retry, GiveUp, Finish
<1> QED BY <1>1, <1>2, <1>3

LEMMA AttachingInductive == Spec => []AInv
<1>1. Init => AInv
  <2> SUFFICES ASSUME Init PROVE AInv
    OBVIOUS
  <2>1. First \in Session
    BY AttachingAssumption
  <2> QED BY <2>1 DEF Init, AInv, EndsAsAsked, StartedOnce, InWasStarted, FlagsFollowTheLoop,
                      CarriedExit
<1>2. AInv /\ [Next]_vars => AInv'
  <2>1. CASE Next
    BY <2>1, ElsewhereStep, AttemptStep, LeaveStep, MenuStep, LoopStep DEF Next
  <2>2. CASE UNCHANGED vars
    BY <2>2 DEF vars, world, loop, AInv, EndsAsAsked, StartedOnce, InWasStarted,
                FlagsFollowTheLoop, CarriedExit
  <2> QED BY <2>1, <2>2
<1> QED BY <1>1, <1>2, PTL DEF Spec

\* A run that was attached once ends by a detach, by giving up, or by the end of
\* the session it was in last, whatever the machines do and in whatever order:
\* the guards of do_attach's arms for an attempt that failed.
THEOREM NoRunEndsUnasked == Spec => []EndsAsAsked
<1>1. AInv => EndsAsAsked
  BY DEF AInv
<1> QED BY <1>1, AttachingInductive, PTL
=============================================================================
