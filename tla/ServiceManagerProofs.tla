------------------------- MODULE ServiceManagerProofs -------------------------
(***************************************************************************)
(* What one looper keeps of the service manager; with two, TLC finds a     *)
(* second svcinfo for a name.  Each invariant adds to the one before it.   *)
(*                                                                         *)
(*   ListInv   one svcinfo to a name, and what a looper knows of svclist   *)
(*             at each place of its work;                                  *)
(*   RefInv    references are neither leaked nor released twice, and a     *)
(*             handle in svclist stands for a service that asked for the   *)
(*             entry's name;                                               *)
(*   DeathInv  whatever is registered will be withdrawn when it dies: the  *)
(*             driver has been asked to tell of the death, and what it     *)
(*             tells leads back to the very entry that holds the handle;   *)
(*   TableInv  the list is the table of ServiceRegistry, for any services, *)
(*             names and clients.                                          *)
(*                                                                         *)
(* The last two rest on the order of the driver's queue: no registration   *)
(* of a service comes behind its death, and a death is told once.          *)
(***************************************************************************)
EXTENDS ServiceManager, SequencesExt, FiniteSetTheorems, WellFoundedInduction,
        SequenceTheorems, TLAPS

(* What the queues and lists keep when an element is added or taken away:  *)
(* the other elements, in their order, and how many of them are of a kind. *)

\* t is s without the element at i.
Without(t, s, i) ==
  /\ i \in 1 .. Len(s) /\ Len(s) = Len(t) + 1
  /\ \A k \in 1 .. Len(t) : t[k] = s[IF k < i THEN k ELSE k + 1]

\* Tail takes the first element away.
LEMMA TailWithout ==
  ASSUME NEW S, NEW s \in Seq(S), s # <<>>
  PROVE  Tail(s) \in Seq(S) /\ Without(Tail(s), s, 1) /\ Head(s) = s[1]
BY DEF Without

\* Append adds an element at the end.
LEMMA AppendWithout ==
  ASSUME NEW S, NEW s \in Seq(S), NEW e \in S
  PROVE  /\ Append(s, e) \in Seq(S) /\ Without(s, Append(s, e), Len(s) + 1)
         /\ Append(s, e)[Len(s) + 1] = e
BY DEF Without

\* An element in front is one more.
LEMMA ConsWithout ==
  ASSUME NEW S, NEW s \in Seq(S), NEW e \in S
  PROVE  /\ <<e>> \o s \in Seq(S) /\ Without(s, <<e>> \o s, 1)
         /\ (<<e>> \o s)[1] = e
BY DEF Without

\* RemoveAt takes one element away.
LEMMA RemoveAtWithout ==
  ASSUME NEW S, NEW s \in Seq(S), NEW i \in DOMAIN s
  PROVE  RemoveAt(s, i) \in Seq(S) /\ Without(RemoveAt(s, i), s, i)
<1> DEFINE a == SubSeq(s, 1, i - 1)  b == SubSeq(s, i + 1, Len(s))
<1>1. a \in Seq(S) /\ Len(a) = i - 1 /\ \A k \in 1 .. i - 1 : a[k] = s[k]
  OBVIOUS
<1>2. b \in Seq(S) /\ Len(b) = Len(s) - i /\ \A k \in 1 .. Len(s) - i : b[k] = s[i + k]
  OBVIOUS
<1> HIDE DEF a, b
<1>3. RemoveAt(s, i) = a \o b
  BY DEF RemoveAt, a, b
<1>4. i \in 1 .. Len(s) /\ Len(s) \in Nat
  OBVIOUS
<1>5. /\ a \o b \in Seq(S)
      /\ Len(a \o b) = Len(a) + Len(b)
      /\ \A k \in 1 .. Len(a) + Len(b) :
           (a \o b)[k] = IF k <= Len(a) THEN a[k] ELSE b[k - Len(a)]
  BY <1>1, <1>2, ConcatProperties
<1>6. Len(a) + Len(b) = Len(s) - 1
  BY <1>1, <1>2, <1>4
<1>7. ASSUME NEW k \in 1 .. Len(s) - 1
      PROVE  (a \o b)[k] = s[IF k < i THEN k ELSE k + 1]
  <2>1. CASE k < i
    <3>1. k <= Len(a) /\ k \in 1 .. i - 1
      BY <2>1, <1>1, <1>4
    <3>2. (a \o b)[k] = a[k]
      BY <3>1, <1>5, <1>6
    <3> QED
      BY <3>1, <3>2, <2>1, <1>1
  <2>2. CASE ~(k < i)
    <3>1. Len(a) = i - 1 /\ ~(k <= Len(a))
      BY <2>2, <1>1, <1>4
    <3>2. (a \o b)[k] = b[k - (i - 1)]
      BY <3>1, <1>5, <1>6
    <3>3. k - (i - 1) \in 1 .. Len(s) - i /\ i + (k - (i - 1)) = k + 1
      BY <2>2, <1>4
    <3>4. b[k - (i - 1)] = s[k + 1]
      BY <1>2, <3>3
    <3> QED
      BY <3>2, <3>4, <2>2
  <2> QED
    BY <2>1, <2>2
<1>8. Without(a \o b, s, i)
  <2>1. Len(a \o b) = Len(s) - 1
    BY <1>5, <1>6
  <2> QED
    BY <2>1, <1>4, <1>7 DEF Without
<1> QED
  BY <1>3, <1>5, <1>8

\* The elements of s are e = s[i] and those of t, in the order of t.
LEMMA WithoutHas ==
  ASSUME NEW s, NEW t, NEW i, Len(s) \in Nat, Len(t) \in Nat, Without(t, s, i)
  PROVE  \A k \in 1 .. Len(s) : k # i =>
           \E n \in 1 .. Len(t) : /\ t[n] = s[k]
                                  /\ k = IF n < i THEN n ELSE n + 1
<1> SUFFICES ASSUME NEW k \in 1 .. Len(s), k # i
             PROVE  \E n \in 1 .. Len(t) : /\ t[n] = s[k]
                                           /\ k = IF n < i THEN n ELSE n + 1
  OBVIOUS
<1>1. CASE k < i
  <2>1. k \in 1 .. Len(t)
    BY <1>1 DEF Without
  <2> QED
    BY <2>1, <1>1 DEF Without
<1>2. CASE k > i
  <2>1. k - 1 \in 1 .. Len(t) /\ ~(k - 1 < i) /\ (k - 1) + 1 = k
    BY <1>2 DEF Without
  <2>2. t[k - 1] = s[(k - 1) + 1]
    BY <2>1 DEF Without
  <2> QED
    BY <2>1, <2>2
<1> QED
  BY <1>1, <1>2 DEF Without

\* e is an element of s.
In(s, e) == \E k \in 1 .. Len(s) : s[k] = e

\* What is in s is in t or the element that t lacks.
LEMMA WithoutIn ==
  ASSUME NEW s, NEW t, NEW i, Len(s) \in Nat, Len(t) \in Nat, Without(t, s, i)
  PROVE  \A j : In(s, j) <=> In(t, j) \/ j = s[i]
<1>1. ASSUME NEW j, In(s, j), j # s[i]
      PROVE  In(t, j)
  BY <1>1, WithoutHas DEF In
<1>2. ASSUME NEW j, In(t, j)
      PROVE  In(s, j)
  <2>1. PICK k \in 1 .. Len(t) : t[k] = j
    BY <1>2 DEF In
  <2>2. (IF k < i THEN k ELSE k + 1) \in 1 .. Len(s)
    BY DEF Without
  <2> QED
    BY <2>1, <2>2 DEF In, Without
<1>3. In(s, s[i])
  BY DEF In, Without
<1> QED
  BY <1>1, <1>2, <1>3

\* Where s has an element of W: at finitely many places.
Where(s, W) == {k \in 1 .. Len(s) : s[k] \in W}

\* The places of a sequence with an element of a set are finitely many.
LEMMA WhereCounted ==
  ASSUME NEW s, NEW W, Len(s) \in Nat
  PROVE  IsFiniteSet(Where(s, W)) /\ Cardinality(Where(s, W)) \in Nat
<1>1. IsFiniteSet(1 .. Len(s)) /\ Where(s, W) \in SUBSET (1 .. Len(s))
  BY FS_Interval DEF Where
<1> QED
  BY <1>1, FS_Subset, FS_CardinalityType

\* One element less is one of W less, if it was one.
LEMMA WithoutCounts ==
  ASSUME NEW s, NEW t, NEW i, NEW W, Len(s) \in Nat, Len(t) \in Nat, Without(t, s, i)
  PROVE  Cardinality(Where(s, W)) =
           Cardinality(Where(t, W)) + (IF s[i] \in W THEN 1 ELSE 0)
<1> DEFINE f == [n \in Where(t, W) |-> IF n < i THEN n ELSE n + 1]
           T == Where(s, W) \ {i}
<1>1. f \in [Where(t, W) -> T]
  <2> SUFFICES ASSUME NEW n \in Where(t, W)
               PROVE  (IF n < i THEN n ELSE n + 1) \in T
    OBVIOUS
  <2>1. n \in 1 .. Len(t) /\ t[n] = s[IF n < i THEN n ELSE n + 1]
    BY DEF Where, Without
  <2>2. (IF n < i THEN n ELSE n + 1) \in (1 .. Len(s)) \ {i}
    BY <2>1 DEF Without
  <2> QED
    BY <2>1, <2>2 DEF Where
<1>2. \A m, n \in Where(t, W) : f[m] = f[n] => m = n
  BY DEF Where, Without
<1>3. \A k \in T : \E n \in Where(t, W) : f[n] = k
  <2> SUFFICES ASSUME NEW k \in T
               PROVE  \E n \in Where(t, W) : f[n] = k
    OBVIOUS
  <2>1. PICK n \in 1 .. Len(t) : t[n] = s[k] /\ k = IF n < i THEN n ELSE n + 1
    BY WithoutHas DEF Where
  <2> QED
    BY <2>1 DEF Where
<1>4. f \in Surjection(Where(t, W), T) /\ f \in Injection(Where(t, W), T)
  <2> HIDE DEF f, T
  <2> QED
    BY <1>1, <1>2, <1>3 DEF Surjection, Injection, IsInjective
<1>5. Cardinality(T) = Cardinality(Where(t, W))
  <2> HIDE DEF f, T
  <2> QED
    BY <1>4, FS_Surjection, WhereCounted
<1>6. Cardinality(T) = IF i \in Where(s, W) THEN Cardinality(Where(s, W)) - 1
                                          ELSE Cardinality(Where(s, W))
  BY WhereCounted, FS_RemoveElement
<1>7. i \in Where(s, W) <=> s[i] \in W
  BY DEF Where, Without
<1>8. Cardinality(Where(s, W)) \in Nat /\ Cardinality(Where(t, W)) \in Nat
  BY WhereCounted
<1> HIDE DEF f, T
<1> QED
  BY <1>5, <1>6, <1>7, <1>8

\* The order of the natural numbers, as a relation.
LEMMA Less == \A m, n : <<n, m>> \in OpToRel(<, Nat) <=> n \in Nat /\ m \in Nat /\ n < m
BY SMT DEF OpToRel

\* A set of natural numbers that is not empty has a least element.
LEMMA Least ==
  ASSUME NEW S, S \subseteq Nat, S # {}
  PROVE  \E m \in S : \A n \in S : m <= n
<1>1. \E m \in S : \A n \in S : ~(<<n, m>> \in OpToRel(<, Nat))
  BY WFMin, NatLessThanWellFounded, Zenon
<1>2. PICK m \in S : \A n \in S : ~(<<n, m>> \in OpToRel(<, Nat))
  BY <1>1
<1>3. ASSUME NEW n \in S
      PROVE  m <= n
  <2>1. ~(n < m)
    BY <1>2, Less
  <2> QED
    BY <2>1
<1> QED
  BY <1>3
-----------------------------------------------------------------------------
OneLooper == \A k, l \in Loopers : k = l
-----------------------------------------------------------------------------
(* Counting registrations.                                                   *)

\* The registrations in s that hold a reference to h.
Adds(s, h) == {k \in 1 .. Len(s) : s[k].kind = "add" /\ s[k].handle = h}

\* They are finitely many, and one less in a queue that is one registration of
\* the handle shorter.
LEMMA AddsCounted ==
  ASSUME NEW s, NEW h, Len(s) \in Nat
  PROVE  IsFiniteSet(Adds(s, h)) /\ Cardinality(Adds(s, h)) \in Nat
<1>1. IsFiniteSet(1 .. Len(s)) /\ Adds(s, h) \in SUBSET (1 .. Len(s))
  BY FS_Interval DEF Adds
<1> QED
  BY <1>1, FS_Subset, FS_CardinalityType

\* A queue that loses an element has one addService less for a handle, if it
\* was one.
LEMMA AddsLess ==
  ASSUME NEW s, NEW t, NEW i, NEW h, Len(s) \in Nat, Len(t) \in Nat, Without(t, s, i)
  PROVE  Cardinality(Adds(s, h)) =
           Cardinality(Adds(t, h)) + (IF s[i].kind = "add" /\ s[i].handle = h THEN 1 ELSE 0)
<1> DEFINE W == {j \in {s[k] : k \in 1 .. Len(s)} : j.kind = "add" /\ j.handle = h}
<1>1. Adds(s, h) = Where(s, W)
  BY DEF Adds, Where
<1>2. Adds(t, h) = Where(t, W)
  <2>1. \A k \in 1 .. Len(t) : \E n \in 1 .. Len(s) : t[k] = s[n]
    BY DEF Without
  <2> QED
    BY <2>1 DEF Adds, Where
<1>3. s[i] \in W <=> s[i].kind = "add" /\ s[i].handle = h
  BY DEF Without
<1> HIDE DEF W
<1>4. s[i] \in W => Cardinality(Where(s, W)) = Cardinality(Where(t, W)) + 1
  BY WithoutCounts
<1>5. s[i] \notin W => Cardinality(Where(s, W)) = Cardinality(Where(t, W)) + 0
  BY WithoutCounts
<1> QED
  BY <1>1, <1>2, <1>3, <1>4, <1>5
-----------------------------------------------------------------------------
(* Types.                                                                    *)

Places == {"idle", "find", "test", "release", "clear", "set", "alloc", "insert",
           "acquire", "link", "read", "reply"}

JobRec == [kind : {"add", "get", "death"},
           from : Services \cup Clients \cup Entries,
           handle : 0 .. Cardinality(Services), ok : BOOLEAN]
Work == {j \in JobRec :
           /\ j.kind = "add" => j.from \in Services /\ j.handle \in Handles
           /\ j.kind = "get" => j.from \in Clients
           /\ j.kind = "death" => j.from \in Entries /\ j.handle \in Handles}

TypeOK ==
  /\ svclist \in Seq(Entries)
  /\ next \in [Entries -> Seq(Entries)]
  /\ name \in [Entries -> Names \cup {NoName}]
  /\ handle \in [Entries -> 0 .. Cardinality(Services)]
  /\ pc \in [Loopers -> Places]
  /\ job \in [Loopers -> Work \cup {NoJob}]
  /\ si \in [Loopers -> Entries \cup {NoEntry}]
  /\ node \in [Handles -> Services \cup {NoService}]
  /\ strong \in [Handles -> Nat]
  /\ death \in [Handles -> Entries \cup {NoEntry}]
  /\ todo \in Seq(Work)
  /\ alive \subseteq Services
  /\ asked \in [Clients -> Names \cup {NoName}]
  /\ answer \in [Clients -> Services \cup {NoService}]

\* A service has one handle.
OneHandle ==
  \A h, k \in Handles : node[h] = node[k] /\ node[h] # NoService => h = k

\* What a looper knows of its work and of its svcinfo at each place.
LoopersKnow ==
  \A l \in Loopers :
    /\ (pc[l] = "idle") <=> (job[l].kind = "none")
    /\ pc[l] \in {"find", "reply"} => job[l].kind \in {"add", "get"}
    /\ pc[l] = "read" => job[l].kind = "get"
    /\ pc[l] \in {"test", "release", "clear"} => job[l].kind \in {"add", "death"}
    /\ pc[l] \in {"set", "alloc", "insert", "acquire", "link"} => job[l].kind = "add"
    /\ pc[l] \in {"test", "release", "clear", "set", "acquire", "link", "read"}
         => si[l] \in Listed
    /\ pc[l] = "insert" => si[l] \in Entries \ Listed /\ next[si[l]] = svclist
    /\ job[l].kind = "death" => si[l] = job[l].from
    /\ pc[l] \in {"alloc", "insert"} =>
         \A e \in Listed : name[e] # NameOf[job[l].from]
    /\ job[l].kind = "add" /\ pc[l] \notin {"find", "alloc", "reply"}
         => name[si[l]] = NameOf[job[l].from]
    /\ pc[l] = "release" => handle[si[l]] # 0
    /\ pc[l] = "set" => handle[si[l]] = 0
    /\ pc[l] \in {"insert", "acquire", "link"} => handle[si[l]] = job[l].handle

\* The entries that were allocated are those in svclist, and the one that is
\* about to be inserted; those who are told of a death are in it.
Inserting == {si[l] : l \in {k \in Loopers : pc[k] = "insert"}}
Allocated ==
  /\ \A e \in Entries : name[e] # NoName <=> e \in Listed \cup Inserting
  /\ \A e \in Entries : name[e] = NoName => handle[e] = 0
  /\ \A h \in Handles : death[h] # NoEntry => death[h] \in Listed
  /\ \A k \in DOMAIN todo : todo[k].kind = "death" => todo[k].from \in Listed

ListInv == TypeOK /\ OneHandle /\ LoopersKnow /\ Allocated /\ OneEntryPerName

\* The services are finitely many.
LEMMA ServicesCounted == Cardinality(Services) \in Nat
BY FiniteOK, FS_CardinalityType

\* What the processes and the driver queue is work.
LEMMA WorkMade ==
  /\ NoJob \notin Work /\ NoJob.kind = "none"
  /\ \A s \in Services, h \in Handles, ok \in BOOLEAN : AddJob(s, h, ok) \in Work
  /\ \A c \in Clients : GetJob(c) \in Work
  /\ \A h \in Handles, e \in Entries : DeathJob(h, e) \in Work
BY ServicesCounted DEF Work, JobRec, NoJob, AddJob, GetJob, DeathJob, Handles

\* While a service has no handle there is a free one for it.
LEMMA HandleForIs ==
  ASSUME node \in [Handles -> Services \cup {NoService}], OneHandle,
         NEW s \in Services
  PROVE  HandleFor(s) \in Handles /\ node[HandleFor(s)] \in {s, NoService}
         /\ \A h \in Handles : node[h] = s => h = HandleFor(s)
<1> USE ServicesCounted, NamesOK
<1>1. CASE \E h \in Handles : node[h] = s
  BY <1>1 DEF HandleFor, OneHandle
<1>2. CASE ~\E h \in Handles : node[h] = s
  <2> DEFINE Free == {h \in Handles : node[h] = NoService}
             f == [h \in Handles |-> node[h]]
  <2>1. Free # {}
    <3> SUFFICES ASSUME Free = {}
                 PROVE  FALSE
      OBVIOUS
    <3>1. f \in [Handles -> Services \ {s}]
      BY <1>2
    <3>2. IsFiniteSet(Services \ {s}) /\ Cardinality(Services \ {s}) = Cardinality(Services) - 1
      BY FiniteOK, FS_RemoveElement
    <3>3. IsFiniteSet(Handles) /\ Cardinality(Handles) = Cardinality(Services)
      BY FS_Interval DEF Handles
    <3>4. \E x, y \in Handles : x # y /\ f[x] = f[y]
      <4> HIDE DEF f, Free
      <4> QED
        BY <3>1, <3>2, <3>3, FS_PigeonHole
    <3> QED
      BY <3>4 DEF OneHandle
  <2>2. PICK m \in Free : \A k \in Free : m <= k
    <3>1. Free \subseteq Nat
      BY DEF Handles
    <3> HIDE DEF Free
    <3> QED
      BY <2>1, <3>1, Least
  <2>3. \E h \in Handles : /\ node[h] = NoService
                           /\ \A k \in Handles : node[k] = NoService => h <= k
    <3>1. m \in Handles /\ node[m] = NoService
      OBVIOUS
    <3>2. \A k \in Handles : node[k] = NoService => m <= k
      BY <2>2
    <3> QED
      BY <3>1, <3>2
  <2>4. HandleFor(s) = CHOOSE h \in Handles :
                         /\ node[h] = NoService
                         /\ \A k \in Handles : node[k] = NoService => h <= k
    BY <1>2 DEF HandleFor
  <2>5. HandleFor(s) \in Handles /\ node[HandleFor(s)] = NoService
    BY <2>3, <2>4, Zenon
  <2> QED
    BY <1>2, <2>5
<1> QED
  BY <1>1, <1>2

\* find_svc returns the entry of the name, or NoEntry where there is none.
LEMMA FindIs ==
  ASSUME svclist \in Seq(Entries), NEW n
  PROVE  /\ find_svc(n) = NoEntry => \A e \in Listed : name[e] # n
         /\ find_svc(n) # NoEntry => find_svc(n) \in Listed /\ name[find_svc(n)] = n
<1> DEFINE K == {k \in DOMAIN svclist : name[svclist[k]] = n}
<1>1. CASE K = {}
  BY <1>1 DEF find_svc, Listed
<1>2. CASE K # {}
  <2> K \subseteq Nat /\ DOMAIN svclist = 1 .. Len(svclist)
    OBVIOUS
  <2>1. PICK k \in K : \A m \in K : k <= m
    <3> HIDE DEF K
    <3> QED
      BY <1>2, Least
  <2>2. \A m \in 1 .. k - 1 : name[svclist[m]] # n
    <3>1. \A m \in 1 .. k - 1 : m \in 1 .. Len(svclist) /\ ~(k <= m)
      OBVIOUS
    <3> QED
      BY <3>1, <2>1
  <2> DEFINE First(j) == /\ name[svclist[j]] = n
                         /\ \A m \in 1 .. j - 1 : name[svclist[m]] # n
             first == CHOOSE j \in DOMAIN svclist : First(j)
  <2>3. \E j \in DOMAIN svclist : First(j)
    BY <2>1, <2>2
  <2>4. find_svc(n) \in Listed /\ name[find_svc(n)] = n
    <3>1. find_svc(n) = svclist[first]
      BY <2>1 DEF find_svc
    <3>2. first \in DOMAIN svclist /\ First(first)
      BY <2>3, Zenon
    <3> HIDE DEF first
    <3> QED
      BY <3>1, <3>2 DEF Listed
  <2>5. NoEntry \notin Listed
    BY NamesOK DEF Listed
  <2> QED
    BY <2>4, <2>5
<1> QED
  BY <1>1, <1>2
-----------------------------------------------------------------------------
(* The list.                                                                 *)

\* At most the last reference takes the handle and its death away.
LEMMA ReleaseDoes ==
  ASSUME TypeOK, NEW h \in Handles, BC_RELEASE(h)
  PROVE  /\ node' \in [Handles -> Services \cup {NoService}]
         /\ strong' \in [Handles -> Nat]
         /\ death' \in [Handles -> Entries \cup {NoEntry}]
         /\ todo' \in Seq(Work)
         /\ \A k \in Handles \ {h} : /\ node'[k] = node[k] /\ death'[k] = death[k]
                                     /\ strong'[k] = strong[k]
         /\ \/ /\ node[h] # NoService /\ strong[h] > 1
               /\ strong'[h] = strong[h] - 1 /\ UNCHANGED <<node, death, todo>>
            \/ /\ node[h] # NoService /\ strong[h] <= 1
               /\ strong'[h] = 0 /\ node'[h] = NoService /\ death'[h] = NoEntry
            \/ node[h] = NoService /\ UNCHANGED <<node, strong, death, todo>>
         /\ \/ todo' = todo /\ (DeathsOf(h) = {} \/ node'[h] = node[h])
            \/ \E i \in DeathsOf(h) : Without(todo', todo, i)
<1> USE DEF TypeOK
<1>1. CASE node[h] = NoService
  BY <1>1 DEF BC_RELEASE, driverVars
<1>2. CASE node[h] # NoService /\ strong[h] > 1
  <2>1. strong' = [strong EXCEPT ![h] = @ - 1] /\ UNCHANGED <<node, death, todo>>
    BY <1>2 DEF BC_RELEASE
  <2>2. strong[h] - 1 \in Nat
    BY <1>2
  <2> QED
    BY <1>2, <2>1, <2>2
<1>3. CASE node[h] # NoService /\ ~(strong[h] > 1)
  <2>1. /\ strong' = [strong EXCEPT ![h] = 0]
        /\ node' = [node EXCEPT ![h] = NoService]
        /\ death' = [death EXCEPT ![h] = NoEntry]
        /\ todo' = IF DeathsOf(h) = {} THEN todo
                   ELSE RemoveAt(todo, CHOOSE k \in DeathsOf(h) : TRUE)
    BY <1>3 DEF BC_RELEASE
  <2>2. ASSUME DeathsOf(h) # {}
        PROVE  todo' \in Seq(Work) /\ \E i \in DeathsOf(h) : Without(todo', todo, i)
    <3>1. PICK i \in DeathsOf(h) : todo' = RemoveAt(todo, i)
      BY <2>1, <2>2
    <3>2. i \in DOMAIN todo
      BY DEF DeathsOf
    <3> QED
      BY <3>1, <3>2, RemoveAtWithout
  <2>3. todo' \in Seq(Work)
    BY <2>1, <2>2
  <2>4. strong[h] <= 1
    BY <1>3
  <2> QED
    BY <1>3, <2>1, <2>2, <2>3, <2>4
<1> QED
  BY <1>1, <1>2, <1>3

\* Where todo has no new deaths, and no notification is new, both stay listed.
LEMMA DeathsStayListed ==
  ASSUME ListInv, Listed \subseteq Listed',
         \A h \in Handles : death'[h] \in {death[h], NoEntry} \cup Listed,
         \A k \in DOMAIN todo' :
           todo'[k].kind = "death" =>
             todo'[k].from \in Listed \/ \E n \in DOMAIN todo : todo'[k] = todo[n]
  PROVE  /\ \A h \in Handles : death'[h] # NoEntry => death'[h] \in Listed'
         /\ \A k \in DOMAIN todo' : todo'[k].kind = "death" => todo'[k].from \in Listed'
BY DEF ListInv, Allocated

\* Nothing happens to the list, and the looper, if any, stays where it is.
LEMMA CallersList ==
  ASSUME ListInv, UNCHANGED <<listVars, looperVars>>, TypeOK', OneHandle',
         \A h \in Handles : death'[h] \in {death[h], NoEntry} \cup Listed,
         \A k \in DOMAIN todo' :
           todo'[k].kind = "death" =>
             todo'[k].from \in Listed \/ \E n \in DOMAIN todo : todo'[k] = todo[n]
  PROVE  ListInv'
<1>1. Listed' = Listed /\ Inserting' = Inserting
  BY DEF Listed, Inserting, listVars, looperVars
<1>2. LoopersKnow'
  BY <1>1 DEF ListInv, LoopersKnow, listVars, looperVars
<1>3. Allocated'
  BY <1>1, DeathsStayListed DEF ListInv, Allocated, listVars
<1>4. OneEntryPerName'
  BY DEF ListInv, OneEntryPerName, listVars
<1> QED
  BY <1>2, <1>3, <1>4 DEF ListInv

\* Asking to register keeps what the list and the loopers have in common.
LEMMA CallAddServiceList ==
  ASSUME ListInv, NEW s \in Services, CallAddService(s)
  PROVE  ListInv'
<1> USE NamesOK
<1>1. PICK h \in Handles, ok \in BOOLEAN :
        /\ h = HandleFor(s) /\ node[h] \in {s, NoService}
        /\ \A k \in Handles : node[k] = s => k = h
        /\ node' = [node EXCEPT ![h] = s]
        /\ strong' = [strong EXCEPT ![h] = @ + 1]
        /\ todo' = Append(todo, AddJob(s, h, ok))
  BY HandleForIs DEF CallAddService, ListInv, TypeOK
<1>2. UNCHANGED <<listVars, looperVars, death, alive, asked, answer>>
  BY DEF CallAddService
<1>3. AddJob(s, h, ok) \in Work /\ AddJob(s, h, ok).kind = "add"
  BY WorkMade DEF AddJob
<1>4. TypeOK'
  BY <1>1, <1>2, <1>3 DEF ListInv, TypeOK, listVars, looperVars
<1>5. OneHandle'
  BY <1>1 DEF ListInv, TypeOK, OneHandle
<1>6. \A k \in DOMAIN todo' : todo'[k].kind = "death" =>
        \E n \in DOMAIN todo : todo'[k] = todo[n]
  BY <1>1, <1>3 DEF ListInv, TypeOK
<1> QED
  BY <1>2, <1>4, <1>5, <1>6, CallersList

\* Asking for a name keeps what the list and the loopers have in common.
LEMMA CallGetServiceList ==
  ASSUME ListInv, NEW c \in Clients, CallGetService(c)
  PROVE  ListInv'
<1>1. /\ todo' = Append(todo, GetJob(c))
      /\ UNCHANGED <<listVars, looperVars, node, strong, death, alive, answer>>
      /\ \E n \in Names : asked' = [asked EXCEPT ![c] = n]
  BY DEF CallGetService
<1>2. GetJob(c) \in Work /\ GetJob(c).kind = "get"
  BY WorkMade DEF GetJob
<1>3. TypeOK'
  BY <1>1, <1>2 DEF ListInv, TypeOK, listVars, looperVars
<1>4. OneHandle'
  BY <1>1 DEF ListInv, OneHandle
<1>5. \A k \in DOMAIN todo' : todo'[k].kind = "death" =>
        \E n \in DOMAIN todo : todo'[k] = todo[n]
  BY <1>1, <1>2 DEF ListInv, TypeOK
<1> QED
  BY <1>1, <1>3, <1>4, <1>5, CallersList

\* A service's death keeps what the list and the loopers have in common.
LEMMA DieList ==
  ASSUME ListInv, NEW s \in Services, Die(s)
  PROVE  ListInv'
<1>1. UNCHANGED <<listVars, looperVars, node, strong, death, asked, answer>>
      /\ alive' = alive \ {s}
  BY DEF Die
<1>2. \/ todo' = todo
      \/ \E h \in Handles : /\ node[h] = s /\ death[h] # NoEntry
                            /\ todo' = Append(todo, DeathJob(h, death[h]))
  BY DEF Die
<1>3. \A h \in Handles : death[h] # NoEntry =>
        death[h] \in Entries \cap Listed /\ DeathJob(h, death[h]) \in Work
  BY WorkMade DEF ListInv, TypeOK, Allocated
<1>4. todo' = todo \/ \E j \in Work : j.from \in Listed /\ todo' = Append(todo, j)
  <2>1. CASE todo' # todo
    <3>1. PICK h \in Handles : death[h] # NoEntry /\ todo' = Append(todo, DeathJob(h, death[h]))
      BY <1>2, <2>1
    <3>2. DeathJob(h, death[h]) \in Work /\ DeathJob(h, death[h]).from \in Listed
      BY <1>3, <3>1 DEF DeathJob
    <3> QED
      BY <3>1, <3>2
  <2> QED
    BY <2>1
<1>5. todo' \in Seq(Work)
  <2>1. todo \in Seq(Work)
    BY DEF ListInv, TypeOK
  <2> QED
    BY <1>4, <2>1
<1>6. TypeOK'
  BY <1>1, <1>5 DEF ListInv, TypeOK, listVars, looperVars
<1>7. OneHandle'
  BY <1>1 DEF ListInv, OneHandle
<1>8. \A k \in DOMAIN todo' : todo'[k].kind = "death" =>
        todo'[k].from \in Listed \/ \E n \in DOMAIN todo : todo'[k] = todo[n]
  <2>1. CASE todo' = todo
    BY <2>1
  <2>2. ASSUME NEW j \in Work, j.from \in Listed, todo' = Append(todo, j)
        PROVE  \A k \in DOMAIN todo' :
                 todo'[k].from \in Listed \/ \E n \in DOMAIN todo : todo'[k] = todo[n]
    BY <2>2 DEF ListInv, TypeOK
  <2> QED
    BY <1>4, <2>1, <2>2
<1> QED
  BY <1>1, <1>6, <1>7, <1>8, CallersList

\* A looper's step that leaves the list alone, and whatever it is inserting.
LEMMA QuietList ==
  ASSUME ListInv, OneLooper, NEW l \in Loopers, UNCHANGED <<svclist, name, next>>,
         TypeOK', OneHandle', LoopersKnow',
         pc[l] # "insert", pc'[l] # "insert",
         \A e \in Entries : name[e] = NoName => handle'[e] = 0,
         \A h \in Handles : death'[h] \in {death[h], NoEntry} \cup Listed,
         \A k \in DOMAIN todo' :
           todo'[k].kind = "death" =>
             todo'[k].from \in Listed \/ \E n \in DOMAIN todo : todo'[k] = todo[n]
  PROVE  ListInv'
<1>1. Listed' = Listed /\ Inserting = {} /\ Inserting' = {}
  BY DEF Listed, Inserting, OneLooper
<1>2. Allocated'
  BY <1>1, DeathsStayListed DEF ListInv, Allocated
<1>3. OneEntryPerName'
  BY DEF ListInv, OneEntryPerName
<1> QED
  BY <1>2, <1>3 DEF ListInv

\* A looper that takes work keeps what the list and the loopers have in common.
LEMMA TakeList ==
  ASSUME ListInv, OneLooper, NEW l \in Loopers, Take(l)
  PROVE  ListInv'
<1> DEFINE j == Head(todo)
<1>1. /\ pc[l] = "idle" /\ todo # <<>> /\ todo' = Tail(todo)
      /\ job' = [job EXCEPT ![l] = j]
      /\ \/ j.kind = "death" /\ si' = [si EXCEPT ![l] = j.from] /\ Goto(l, "test")
         \/ j.kind # "death" /\ UNCHANGED si /\ Goto(l, "find")
      /\ UNCHANGED <<listVars, node, strong, death, clientVars>>
  BY DEF Take
<1>2. /\ todo \in Seq(Work) /\ j \in Work /\ todo' \in Seq(Work)
      /\ j = todo[1] /\ 1 \in DOMAIN todo
      /\ \A k \in DOMAIN todo' : todo'[k] = todo[k + 1] /\ k + 1 \in DOMAIN todo
  BY <1>1 DEF ListInv, TypeOK
<1>3. j.kind = "death" => j.from \in Entries \cap Listed
  BY <1>2 DEF ListInv, Allocated, Work
<1> HIDE DEF j
<1>4. TypeOK'
  BY <1>1, <1>2, <1>3 DEF ListInv, TypeOK, listVars, clientVars, Goto, Places
<1>5. j.kind \in {"add", "get", "death"}
  BY <1>2 DEF Work, JobRec
<1>6. LoopersKnow'
  <2>1. \A k \in Loopers : k = l
    BY DEF OneLooper
  <2>2. job'[l] = j /\ Listed' = Listed
    BY <1>1 DEF ListInv, TypeOK, Listed, listVars
  <2>3. CASE j.kind = "death"
    <3>1. pc'[l] = "test" /\ si'[l] = j.from
      BY <1>1, <2>3 DEF ListInv, TypeOK, Goto
    <3> QED
      BY <2>1, <2>2, <2>3, <3>1, <1>3 DEF LoopersKnow
  <2>4. CASE j.kind # "death"
    <3>1. pc'[l] = "find"
      BY <1>1, <2>4 DEF ListInv, TypeOK, Goto
    <3> QED
      BY <2>1, <2>2, <2>4, <3>1, <1>5 DEF LoopersKnow
  <2> QED
    BY <2>3, <2>4
<1>7. pc'[l] \in {"find", "test"}
  BY <1>1 DEF ListInv, TypeOK, Goto
<1>8. \A e \in Entries : name[e] = NoName => handle'[e] = 0
  BY <1>1 DEF ListInv, Allocated, listVars
<1> QED
  BY <1>1, <1>2, <1>4, <1>6, <1>7, <1>8, QuietList DEF ListInv, OneHandle, listVars

\* A looper that has finished knows nothing.
LEMMA FinishKnows ==
  ASSUME TypeOK, OneLooper, NEW l \in Loopers, Finish(l)
  PROVE  /\ pc' = [pc EXCEPT ![l] = "idle"] /\ pc'[l] = "idle"
         /\ job' \in [Loopers -> Work \cup {NoJob}]
         /\ si' \in [Loopers -> Entries \cup {NoEntry}]
         /\ job'[l] = NoJob
         /\ LoopersKnow'
<1>1. /\ pc' = [pc EXCEPT ![l] = "idle"]
      /\ job' = [job EXCEPT ![l] = NoJob]
      /\ si' = [si EXCEPT ![l] = NoEntry]
  BY DEF Finish, Goto
<1>2. pc'[l] = "idle" /\ job'[l] = NoJob
  BY <1>1 DEF TypeOK
<1>3. LoopersKnow'
  BY <1>2, WorkMade DEF LoopersKnow, OneLooper
<1> QED
  BY <1>1, <1>2, <1>3 DEF TypeOK

\* The steps that change only where the looper is, and its job and svcinfo.
LEMMA LooperMoves ==
  ASSUME ListInv, OneLooper, NEW l \in Loopers,
         UNCHANGED <<listVars, driverVars, clientVars>>,
         pc' \in [Loopers -> Places], job' \in [Loopers -> Work \cup {NoJob}],
         si' \in [Loopers -> Entries \cup {NoEntry}], LoopersKnow',
         pc[l] # "insert", pc'[l] # "insert"
  PROVE  ListInv'
<1>1. TypeOK'
  BY DEF ListInv, TypeOK, listVars, driverVars, clientVars
<1>2. OneHandle'
  BY DEF ListInv, OneHandle, driverVars
<1>3. \A e \in Entries : name[e] = NoName => handle'[e] = 0
  BY DEF ListInv, Allocated, listVars
<1> QED
  BY <1>1, <1>2, <1>3, QuietList DEF listVars, driverVars

\* A refusal by onTransact or addService keeps what the list and the loopers
\* have in common.
LEMMA RefuseAddList ==
  ASSUME ListInv, OneLooper, NEW l \in Loopers, RefuseAdd(l)
  PROVE  ListInv'
<1>1. /\ pc[l] = "find" /\ pc' = [pc EXCEPT ![l] = "reply"]
      /\ UNCHANGED <<listVars, job, si, driverVars, clientVars>>
  BY DEF RefuseAdd, Goto
<1>2. pc'[l] = "reply"
  BY <1>1 DEF ListInv, TypeOK
<1>3. LoopersKnow'
  BY <1>1, <1>2 DEF ListInv, LoopersKnow, OneLooper
<1> QED
  BY <1>1, <1>2, <1>3, LooperMoves DEF ListInv, TypeOK, Places

\* find_svc leaves the looper with the entry of the name, if there is one.
LEMMA FindList ==
  ASSUME ListInv, OneLooper, NEW l \in Loopers, Find(l)
  PROVE  ListInv'
<1> DEFINE e == find_svc(Wanted(l))
<1>1. /\ pc[l] = "find" /\ si' = [si EXCEPT ![l] = e]
      /\ \/ job[l].kind = "add" /\ e = NoEntry /\ pc' = [pc EXCEPT ![l] = "alloc"]
         \/ job[l].kind = "add" /\ e # NoEntry /\ pc' = [pc EXCEPT ![l] = "test"]
         \/ job[l].kind # "add" /\ e = NoEntry /\ pc' = [pc EXCEPT ![l] = "reply"]
         \/ job[l].kind # "add" /\ e # NoEntry /\ pc' = [pc EXCEPT ![l] = "read"]
      /\ UNCHANGED <<listVars, job, driverVars, clientVars>>
  BY DEF Find, Goto
<1>2. /\ e = NoEntry => \A f \in Listed : name[f] # Wanted(l)
      /\ e # NoEntry => e \in Listed /\ name[e] = Wanted(l)
  BY FindIs DEF ListInv, TypeOK
<1> HIDE DEF e
<1>3. Listed \subseteq Entries /\ Listed' = Listed
  BY <1>1 DEF ListInv, TypeOK, Listed, listVars
<1>4. job[l].kind = "add" => Wanted(l) = NameOf[job[l].from]
  BY DEF Wanted
<1>5. /\ si'[l] = e /\ job'[l] = job[l] /\ job[l].kind \in {"add", "get"}
      /\ pc'[l] \in {"alloc", "test", "reply", "read"}
      /\ pc' \in [Loopers -> Places] /\ si' \in [Loopers -> Entries \cup {NoEntry}]
  BY <1>1, <1>2, <1>3 DEF ListInv, TypeOK, LoopersKnow, Places
<1>6. LoopersKnow'
  <2>1. \A k \in Loopers : k = l
    BY DEF OneLooper
  <2>2. /\ pc'[l] = "alloc" => job[l].kind = "add" /\ e = NoEntry
        /\ pc'[l] = "test" => job[l].kind = "add" /\ e # NoEntry
        /\ pc'[l] = "read" => job[l].kind = "get" /\ e # NoEntry
    BY <1>1, <1>5 DEF ListInv, TypeOK
  <2>3. name' = name
    BY <1>1 DEF listVars
  <2> QED
    BY <1>2, <1>3, <1>4, <1>5, <2>1, <2>2, <2>3 DEF LoopersKnow
<1> QED
  BY <1>1, <1>5, <1>6, LooperMoves DEF ListInv, TypeOK

\* serviceManagerbinderDeath's test of the handle keeps what the list and the
\* loopers have in common.
LEMMA TestHandleList ==
  ASSUME ListInv, OneLooper, NEW l \in Loopers, TestHandle(l)
  PROVE  ListInv'
<1>1. pc[l] = "test" /\ UNCHANGED <<listVars, driverVars, clientVars>>
  BY DEF TestHandle
<1>2. CASE handle[si[l]] # 0
  <2>1. pc' = [pc EXCEPT ![l] = "release"] /\ UNCHANGED <<job, si>>
    BY <1>2 DEF TestHandle, Goto
  <2>2. pc'[l] = "release"
    BY <2>1 DEF ListInv, TypeOK
  <2>3. LoopersKnow'
    BY <1>1, <1>2, <2>1, <2>2 DEF ListInv, LoopersKnow, OneLooper, Listed, listVars
  <2> QED
    BY <1>1, <2>1, <2>2, <2>3, LooperMoves DEF ListInv, TypeOK, Places
<1>3. CASE handle[si[l]] = 0 /\ job[l].kind = "add"
  <2>1. pc' = [pc EXCEPT ![l] = "set"] /\ UNCHANGED <<job, si>>
    BY <1>3 DEF TestHandle, Goto
  <2>2. pc'[l] = "set"
    BY <2>1 DEF ListInv, TypeOK
  <2>3. LoopersKnow'
    BY <1>1, <1>3, <2>1, <2>2 DEF ListInv, LoopersKnow, OneLooper, Listed, listVars
  <2> QED
    BY <1>1, <2>1, <2>2, <2>3, LooperMoves DEF ListInv, TypeOK, Places
<1>4. CASE handle[si[l]] = 0 /\ job[l].kind # "add"
  <2>1. Finish(l)
    BY <1>4 DEF TestHandle
  <2> QED
    <3>1. pc' \in [Loopers -> Places]
      BY <2>1 DEF Finish, Goto, ListInv, TypeOK, Places
    <3> QED
      BY <1>1, <2>1, <3>1, FinishKnows, LooperMoves DEF ListInv
<1> QED
  BY <1>2, <1>3, <1>4

\* BC_RELEASE tells of no new death.
LEMMA ReleaseTells ==
  ASSUME ListInv, NEW h \in Handles, BC_RELEASE(h)
  PROVE  /\ OneHandle'
         /\ \A k \in Handles : death'[k] \in {death[k], NoEntry}
         /\ \A k \in DOMAIN todo' : \E n \in DOMAIN todo : todo'[k] = todo[n]
<1>1. TypeOK
  BY DEF ListInv
<1>2. OneHandle'
  <2>1. \A k \in Handles : node'[k] \in {node[k], NoService}
    BY <1>1, ReleaseDoes
  <2> QED
    BY <2>1 DEF ListInv, OneHandle
<1>3. \A k \in Handles : death'[k] \in {death[k], NoEntry}
  BY <1>1, ReleaseDoes
<1>4. \A k \in DOMAIN todo' : \E n \in DOMAIN todo : todo'[k] = todo[n]
  <2>1. CASE todo' = todo
    BY <2>1
  <2>2. ASSUME NEW i \in DeathsOf(h), Without(todo', todo, i)
        PROVE  \A k \in DOMAIN todo' : \E n \in DOMAIN todo : todo'[k] = todo[n]
    <3>1. todo \in Seq(Work) /\ todo' \in Seq(Work)
      BY <1>1, ReleaseDoes DEF TypeOK
    <3>2. DOMAIN todo = 1 .. Len(todo) /\ DOMAIN todo' = 1 .. Len(todo')
          /\ Len(todo) \in Nat /\ Len(todo') \in Nat
      BY <3>1
    <3> QED
      BY <2>2, <3>2 DEF Without
  <2> QED
    BY <1>1, <2>1, <2>2, ReleaseDoes
<1> QED
  BY <1>2, <1>3, <1>4

\* The release of the old handle keeps what the list and the loopers have in
\* common.
LEMMA ReleaseHandleList ==
  ASSUME ListInv, OneLooper, NEW l \in Loopers, ReleaseHandle(l)
  PROVE  ListInv'
<1>1. /\ pc[l] = "release" /\ pc' = [pc EXCEPT ![l] = "clear"]
      /\ UNCHANGED <<listVars, job, si, clientVars>>
  BY DEF ReleaseHandle, Goto
<1>2. si[l] \in Entries /\ handle[si[l]] \in Handles /\ BC_RELEASE(handle[si[l]])
  BY <1>1, ServicesCounted DEF ListInv, TypeOK, LoopersKnow, Listed, Handles, ReleaseHandle
<1>3. pc'[l] = "clear"
  BY <1>1 DEF ListInv, TypeOK
<1>4. TypeOK'
  BY <1>1, <1>2, ReleaseDoes DEF ListInv, TypeOK, Places, listVars, clientVars
<1>5. LoopersKnow'
  BY <1>1, <1>3 DEF ListInv, LoopersKnow, OneLooper, Listed, listVars
<1>6. \A e \in Entries : name[e] = NoName => handle'[e] = 0
  BY <1>1 DEF ListInv, Allocated, listVars
<1> QED
  BY <1>1, <1>2, <1>3, <1>4, <1>5, <1>6, ReleaseTells, QuietList DEF listVars

\* Clearing the released handle keeps what the list and the loopers have in
\* common.
LEMMA ClearHandleList ==
  ASSUME ListInv, OneLooper, NEW l \in Loopers, ClearHandle(l)
  PROVE  ListInv'
<1>1. /\ pc[l] = "clear" /\ handle' = [handle EXCEPT ![si[l]] = 0]
      /\ UNCHANGED <<svclist, next, name, driverVars, clientVars>>
  BY DEF ClearHandle
<1>2. si[l] \in Entries /\ handle'[si[l]] = 0
  BY <1>1 DEF ListInv, TypeOK, LoopersKnow, Listed
<1>3. handle' \in [Entries -> 0 .. Cardinality(Services)]
  <2>1. 0 \in 0 .. Cardinality(Services)
    BY ServicesCounted
  <2> QED
    BY <1>1, <2>1 DEF ListInv, TypeOK
<1>4. \A e \in Entries : name[e] = NoName => handle'[e] = 0
  BY <1>1, <1>2 DEF ListInv, TypeOK, Allocated
<1>5. OneHandle'
  BY <1>1 DEF ListInv, OneHandle, driverVars
<1>6. CASE job[l].kind = "add"
  <2>1. pc' = [pc EXCEPT ![l] = "set"] /\ UNCHANGED <<job, si>>
    BY <1>6 DEF ClearHandle, Goto
  <2>2. pc'[l] = "set"
    BY <2>1 DEF ListInv, TypeOK
  <2>3. LoopersKnow'
    BY <1>1, <1>2, <1>6, <2>1, <2>2 DEF ListInv, LoopersKnow, OneLooper, Listed
  <2>4. TypeOK'
    BY <1>1, <1>3, <2>1 DEF ListInv, TypeOK, Places, driverVars, clientVars
  <2> QED
    BY <1>1, <1>4, <1>5, <2>2, <2>3, <2>4, QuietList DEF driverVars
<1>7. CASE job[l].kind # "add"
  <2>1. Finish(l)
    BY <1>7 DEF ClearHandle
  <2>2. pc' \in [Loopers -> Places]
    BY <2>1 DEF Finish, Goto, ListInv, TypeOK, Places
  <2>3. TypeOK
    BY DEF ListInv
  <2>4. TypeOK'
    BY <1>1, <1>3, <2>1, <2>2, <2>3, FinishKnows DEF TypeOK, driverVars, clientVars
  <2> QED
    BY <1>1, <1>4, <1>5, <2>1, <2>3, <2>4, FinishKnows, QuietList DEF driverVars
<1> QED
  BY <1>6, <1>7

\* Storing the new handle keeps what the list and the loopers have in common.
LEMMA SetHandleList ==
  ASSUME ListInv, OneLooper, NEW l \in Loopers, SetHandle(l)
  PROVE  ListInv'
<1>1. /\ pc[l] = "set" /\ pc' = [pc EXCEPT ![l] = "acquire"]
      /\ handle' = [handle EXCEPT ![si[l]] = job[l].handle]
      /\ UNCHANGED <<svclist, next, name, job, si, driverVars, clientVars>>
  BY DEF SetHandle, Goto
<1>2. pc'[l] = "acquire"
  BY <1>1 DEF ListInv, TypeOK
<1>3. si[l] \in Entries \cap Listed /\ job[l] \in Work /\ job[l].kind = "add"
  BY <1>1, WorkMade DEF ListInv, TypeOK, LoopersKnow, Listed
<1>4. job[l].handle \in 0 .. Cardinality(Services)
  BY <1>3 DEF Work, JobRec
<1>5. TypeOK'
  BY <1>1, <1>3, <1>4 DEF ListInv, TypeOK, Places, driverVars, clientVars
<1>6. handle'[si[l]] = job[l].handle
  BY <1>1, <1>3 DEF ListInv, TypeOK
<1>7. LoopersKnow'
  BY <1>1, <1>2, <1>3, <1>6 DEF ListInv, LoopersKnow, OneLooper, Listed
<1>8. OneHandle'
  BY <1>1 DEF ListInv, OneHandle, driverVars
<1>9. \A e \in Entries : name[e] = NoName => handle'[e] = 0
  BY <1>1, <1>3 DEF ListInv, TypeOK, Allocated
<1> QED
  BY <1>1, <1>2, <1>5, <1>7, <1>8, <1>9, QuietList DEF driverVars

\* malloc and the fields of the new svcinfo keeps what the list and the loopers
\* have in common.
LEMMA AllocateList ==
  ASSUME ListInv, OneLooper, NEW l \in Loopers, Allocate(l)
  PROVE  ListInv'
<1>1. PICK e \in Entries :
        /\ name[e] = NoName
        /\ si' = [si EXCEPT ![l] = e]
        /\ name' = [name EXCEPT ![e] = Wanted(l)]
        /\ handle' = [handle EXCEPT ![e] = job[l].handle]
        /\ next' = [next EXCEPT ![e] = svclist]
  BY DEF Allocate
<1>2. /\ pc[l] = "alloc" /\ pc' = [pc EXCEPT ![l] = "insert"]
      /\ UNCHANGED <<svclist, job, driverVars, clientVars>>
  BY DEF Allocate, Goto
<1>3. job[l] \in Work /\ job[l].kind = "add"
  BY <1>2, WorkMade DEF ListInv, TypeOK, LoopersKnow
<1>4. /\ Wanted(l) = NameOf[job[l].from] /\ Wanted(l) \in Names /\ Wanted(l) # NoName
      /\ job[l].handle \in 0 .. Cardinality(Services)
  BY <1>3, NamesOK DEF Work, JobRec, Wanted
<1>5. TypeOK'
  BY <1>1, <1>2, <1>4 DEF ListInv, TypeOK, Places, driverVars, clientVars
<1>6. /\ pc'[l] = "insert" /\ si'[l] = e /\ job'[l] = job[l]
      /\ name'[e] = Wanted(l) /\ handle'[e] = job[l].handle /\ next'[e] = svclist
      /\ \A f \in Entries \ {e} : name'[f] = name[f] /\ handle'[f] = handle[f]
  BY <1>1, <1>2 DEF ListInv, TypeOK
<1>7. e \notin Listed /\ Listed' = Listed /\ Listed \subseteq Entries
  BY <1>1, <1>2 DEF ListInv, TypeOK, Allocated, Listed
<1>8. \A f \in Listed : name[f] # Wanted(l) /\ name'[f] = name[f]
  BY <1>2, <1>4, <1>6, <1>7 DEF ListInv, LoopersKnow
<1>9. Inserting = {} /\ Inserting' = {e}
  BY <1>2, <1>6 DEF Inserting, OneLooper
<1>10. LoopersKnow'
  <2>1. \A k \in Loopers : k = l
    BY DEF OneLooper
  <2> QED
    BY <1>2, <1>3, <1>4, <1>6, <1>7, <1>8, <2>1 DEF LoopersKnow
<1>11. OneHandle'
  BY <1>2 DEF ListInv, OneHandle, driverVars
<1>12. Allocated'
  <2>1. \A f \in Entries : name'[f] # NoName <=> f \in Listed' \cup Inserting'
    BY <1>4, <1>6, <1>7, <1>9 DEF ListInv, Allocated
  <2>2. \A f \in Entries : name'[f] = NoName => handle'[f] = 0
    BY <1>4, <1>6 DEF ListInv, Allocated
  <2> QED
    BY <1>2, <1>7, <2>1, <2>2 DEF ListInv, Allocated, driverVars
<1>13. OneEntryPerName'
  <2>1. \A f \in Entries \ {e} : name[f] # NoName => f \in Listed
    BY <1>9 DEF ListInv, Allocated
  <2> QED
    BY <1>4, <1>6, <1>8, <2>1 DEF ListInv, OneEntryPerName
<1> QED
  BY <1>5, <1>10, <1>11, <1>12, <1>13 DEF ListInv

\* A malloc that fails keeps what the list and the loopers have in common.
LEMMA OutOfMemoryList ==
  ASSUME ListInv, OneLooper, NEW l \in Loopers, OutOfMemory(l)
  PROVE  ListInv'
<1>1. /\ pc[l] = "alloc" /\ pc' = [pc EXCEPT ![l] = "reply"]
      /\ job' = [job EXCEPT ![l].ok = FALSE]
      /\ UNCHANGED <<listVars, si, driverVars, clientVars>>
  BY DEF OutOfMemory, Goto
<1>2. job[l] \in Work /\ job[l].kind = "add"
  BY <1>1, WorkMade DEF ListInv, TypeOK, LoopersKnow
<1>3. [job[l] EXCEPT !.ok = FALSE] \in Work /\ [job[l] EXCEPT !.ok = FALSE].kind = "add"
  BY <1>2 DEF Work, JobRec
<1>4. pc'[l] = "reply" /\ job'[l].kind = "add" /\ job' \in [Loopers -> Work \cup {NoJob}]
  BY <1>1, <1>3 DEF ListInv, TypeOK
<1>5. LoopersKnow'
  BY <1>4 DEF LoopersKnow, OneLooper
<1> QED
  BY <1>1, <1>4, <1>5, LooperMoves DEF ListInv, TypeOK, Places

\* Putting the new svcinfo at the head keeps the list: it holds what it held,
\* and the entry.
LEMMA InsertList ==
  ASSUME ListInv, OneLooper, NEW l \in Loopers, Insert(l)
  PROVE  ListInv' /\ Listed' = Listed \cup {si[l]}
<1> DEFINE e == si[l]
<1>1. /\ pc[l] = "insert" /\ pc' = [pc EXCEPT ![l] = "acquire"]
      /\ svclist' = <<e>> \o next[e]
      /\ UNCHANGED <<next, name, handle, job, si, driverVars, clientVars>>
  BY DEF Insert, Goto
<1>2. /\ e \in Entries \ Listed /\ next[e] = svclist /\ job[l].kind = "add"
      /\ name[e] = NameOf[job[l].from] /\ handle[e] = job[l].handle
  BY <1>1 DEF ListInv, LoopersKnow
<1>3. /\ svclist' \in Seq(Entries) /\ Without(svclist, svclist', 1) /\ svclist'[1] = e
      /\ svclist \in Seq(Entries)
  BY <1>1, <1>2, ConsWithout DEF ListInv, TypeOK
<1>4. Listed' = Listed \cup {e}
  <2>1. Len(svclist) \in Nat /\ DOMAIN svclist = 1 .. Len(svclist)
        /\ Len(svclist') \in Nat /\ DOMAIN svclist' = 1 .. Len(svclist')
    BY <1>3
  <2>2. \A k \in 1 .. Len(svclist') : k # 1 => svclist'[k] \in Listed
    BY <1>3, <2>1, WithoutHas DEF Listed
  <2>3. Listed' \subseteq Listed \cup {e}
    BY <1>3, <2>1, <2>2 DEF Listed
  <2>4. \A k \in 1 .. Len(svclist) :
          k + 1 \in 1 .. Len(svclist') /\ svclist'[k + 1] = svclist[k]
    BY <1>3, <2>1 DEF Without
  <2>5. e \in Listed' /\ Listed \subseteq Listed'
    <3>1. 1 \in DOMAIN svclist'
      BY <1>3, <2>1 DEF Without
    <3>2. ASSUME NEW f \in Listed
          PROVE  f \in Listed'
      <4>1. PICK k \in 1 .. Len(svclist) : f = svclist[k]
        BY <2>1 DEF Listed
      <4> QED
        BY <4>1, <2>1, <2>4 DEF Listed
    <3> QED
      BY <1>3, <3>1, <3>2 DEF Listed
  <2> QED
    BY <2>3, <2>5
<1>5. TypeOK'
  BY <1>1, <1>3 DEF ListInv, TypeOK, Places, driverVars, clientVars
<1>6. pc'[l] = "acquire" /\ si'[l] = e
  BY <1>1 DEF ListInv, TypeOK
<1> HIDE DEF e
<1>7. LoopersKnow'
  <2>1. \A k \in Loopers : k = l
    BY DEF OneLooper
  <2> QED
    BY <1>1, <1>2, <1>4, <1>6, <2>1 DEF LoopersKnow
<1>8. OneHandle'
  BY <1>1 DEF ListInv, OneHandle, driverVars
<1>9. Allocated'
  <2>1. Inserting = {e} /\ Inserting' = {}
    BY <1>1, <1>6 DEF Inserting, OneLooper, e
  <2> QED
    BY <1>1, <1>4, <2>1 DEF ListInv, Allocated, driverVars
<1>10. OneEntryPerName'
  BY <1>1 DEF ListInv, OneEntryPerName
<1> QED
  BY <1>4, <1>5, <1>7, <1>8, <1>9, <1>10 DEF ListInv, e

\* BC_ACQUIRE on the stored handle keeps what the list and the loopers have in
\* common.
LEMMA AcquireList ==
  ASSUME ListInv, OneLooper, NEW l \in Loopers, Acquire(l)
  PROVE  ListInv'
<1>1. /\ pc[l] = "acquire" /\ pc' = [pc EXCEPT ![l] = "link"]
      /\ BC_ACQUIRE(job[l].handle)
      /\ UNCHANGED <<listVars, job, si, clientVars>>
  BY DEF Acquire, Goto
<1>2. pc'[l] = "link"
  BY <1>1 DEF ListInv, TypeOK
<1>3. job[l] \in Work /\ job[l].kind = "add"
  BY <1>1, WorkMade DEF ListInv, TypeOK, LoopersKnow
<1>4. job[l].handle \in Handles
  BY <1>3 DEF Work
<1>5. strong' \in [Handles -> Nat] /\ UNCHANGED <<node, death, todo>>
  BY <1>1, <1>4 DEF BC_ACQUIRE, ListInv, TypeOK
<1>6. TypeOK'
  BY <1>1, <1>5 DEF ListInv, TypeOK, Places, listVars, clientVars
<1>7. LoopersKnow'
  BY <1>1, <1>2 DEF ListInv, LoopersKnow, OneLooper, Listed, listVars
<1>8. OneHandle'
  BY <1>5 DEF ListInv, OneHandle
<1>9. \A e \in Entries : name[e] = NoName => handle'[e] = 0
  BY <1>1 DEF ListInv, Allocated, listVars
<1> QED
  BY <1>1, <1>2, <1>5, <1>6, <1>7, <1>8, <1>9, QuietList DEF listVars

\* What a request for a death notification does.
LEMMA RequestDoes ==
  ASSUME TypeOK, NEW h \in Handles, NEW e \in Entries, BC_REQUEST_DEATH_NOTIFICATION(h, e)
  PROVE  /\ UNCHANGED <<node, strong>>
         /\ death' \in [Handles -> Entries \cup {NoEntry}]
         /\ todo' \in Seq(Work)
         /\ \/ (node[h] = NoService \/ death[h] # NoEntry) /\ UNCHANGED <<death, todo>>
            \/ /\ node[h] # NoService /\ death[h] = NoEntry
               /\ death'[h] = e /\ \A k \in Handles \ {h} : death'[k] = death[k]
               /\ IF node[h] \in alive THEN todo' = todo
                  ELSE Without(todo, todo', 1) /\ todo'[1] = DeathJob(h, e)
<1> USE DEF TypeOK
<1>1. CASE node[h] = NoService \/ death[h] # NoEntry
  BY <1>1 DEF BC_REQUEST_DEATH_NOTIFICATION
<1>2. CASE node[h] # NoService /\ death[h] = NoEntry
  <2>1. /\ UNCHANGED <<node, strong>> /\ death' = [death EXCEPT ![h] = e]
        /\ \/ node[h] \in alive /\ todo' = todo
           \/ node[h] \notin alive /\ todo' = <<DeathJob(h, e)>> \o todo
    BY <1>2 DEF BC_REQUEST_DEATH_NOTIFICATION
  <2>2. DeathJob(h, e) \in Work
    BY WorkMade
  <2>3. CASE node[h] \in alive
    BY <1>2, <2>1, <2>3
  <2>4. CASE node[h] \notin alive
    <3>1. todo' = <<DeathJob(h, e)>> \o todo
      BY <2>1, <2>4
    <3>2. todo \in Seq(Work)
      OBVIOUS
    <3>3. todo' \in Seq(Work) /\ Without(todo, todo', 1) /\ todo'[1] = DeathJob(h, e)
      <4> DEFINE t == <<DeathJob(h, e)>> \o todo
      <4>1. t \in Seq(Work) /\ Without(todo, t, 1) /\ t[1] = DeathJob(h, e)
        BY <2>2, <3>2, ConsWithout
      <4> QED
        BY <4>1, <3>1
    <3> QED
      BY <1>2, <2>1, <2>4, <3>3
  <2> QED
    BY <2>3, <2>4
<1> QED
  BY <1>1, <1>2

\* linkToDeath keeps what the list and the loopers have in common.
LEMMA LinkToDeathList ==
  ASSUME ListInv, OneLooper, NEW l \in Loopers, LinkToDeath(l)
  PROVE  ListInv'
<1>1. /\ pc[l] = "link" /\ pc' = [pc EXCEPT ![l] = "reply"]
      /\ BC_REQUEST_DEATH_NOTIFICATION(job[l].handle, si[l])
      /\ UNCHANGED <<listVars, job, si, clientVars>>
  BY DEF LinkToDeath, Goto
<1>2. pc'[l] = "reply"
  BY <1>1 DEF ListInv, TypeOK
<1>3. job[l] \in Work /\ job[l].kind = "add" /\ si[l] \in Entries \cap Listed
  BY <1>1, WorkMade DEF ListInv, TypeOK, LoopersKnow, Listed
<1>4. job[l].handle \in Handles /\ TypeOK
  BY <1>3 DEF Work, ListInv
<1>5. TypeOK'
  BY <1>1, <1>3, <1>4, RequestDoes DEF TypeOK, Places, listVars, clientVars
<1>6. LoopersKnow'
  BY <1>1, <1>2, <1>3 DEF LoopersKnow, OneLooper
<1>7. OneHandle'
  BY <1>1, <1>3, <1>4, RequestDoes DEF ListInv, OneHandle
<1>8. \A e \in Entries : name[e] = NoName => handle'[e] = 0
  BY <1>1 DEF ListInv, Allocated, listVars
<1>9. \A h \in Handles : death'[h] \in {death[h], NoEntry} \cup Listed
  BY <1>1, <1>3, <1>4, RequestDoes
<1>10. \A k \in DOMAIN todo' :
         todo'[k].kind = "death" =>
           todo'[k].from \in Listed \/ \E n \in DOMAIN todo : todo'[k] = todo[n]
  <2>1. CASE todo' = todo
    BY <2>1
  <2>2. CASE Without(todo, todo', 1) /\ todo'[1] = DeathJob(job[l].handle, si[l])
    <3>1. DOMAIN todo = 1 .. Len(todo) /\ DOMAIN todo' = 1 .. Len(todo')
          /\ Len(todo) \in Nat /\ Len(todo') \in Nat
      BY <1>4, <1>5 DEF TypeOK
    <3>2. todo'[1].from \in Listed
      BY <1>3, <2>2 DEF DeathJob
    <3> QED
      BY <2>2, <3>1, <3>2, WithoutHas
  <2> QED
    BY <1>1, <1>3, <1>4, <2>1, <2>2, RequestDoes
<1> QED
  BY <1>1, <1>2, <1>5, <1>6, <1>7, <1>8, <1>9, <1>10, QuietList DEF listVars

\* getService's read of the handle keeps what the list and the loopers have in
\* common.
LEMMA ReadHandleList ==
  ASSUME ListInv, OneLooper, NEW l \in Loopers, ReadHandle(l)
  PROVE  ListInv'
<1>1. /\ pc[l] = "read" /\ pc' = [pc EXCEPT ![l] = "reply"]
      /\ job' = [job EXCEPT ![l].handle = handle[si[l]]]
      /\ UNCHANGED <<listVars, si, driverVars, clientVars>>
  BY DEF ReadHandle, Goto
<1>2. job[l] \in Work /\ job[l].kind = "get" /\ handle[si[l]] \in 0 .. Cardinality(Services)
  BY <1>1, WorkMade DEF ListInv, TypeOK, LoopersKnow, Listed
<1>3. /\ [job[l] EXCEPT !.handle = handle[si[l]]] \in Work
      /\ [job[l] EXCEPT !.handle = handle[si[l]]].kind = "get"
  BY <1>2 DEF Work, JobRec
<1>4. pc'[l] = "reply" /\ job'[l].kind = "get" /\ job' \in [Loopers -> Work \cup {NoJob}]
  BY <1>1, <1>3 DEF ListInv, TypeOK
<1>5. LoopersKnow'
  BY <1>4 DEF LoopersKnow, OneLooper
<1> QED
  BY <1>1, <1>4, <1>5, LooperMoves DEF ListInv, TypeOK, Places

\* The reply that frees the buffer keeps what the list and the loopers have in
\* common.
LEMMA ReplyToAddList ==
  ASSUME ListInv, OneLooper, NEW l \in Loopers, ReplyToAdd(l)
  PROVE  ListInv'
<1>1. /\ pc[l] = "reply" /\ Finish(l) /\ BC_RELEASE(job[l].handle)
      /\ UNCHANGED <<listVars, clientVars>>
  BY DEF ReplyToAdd
<1>2. job[l] \in Work /\ job[l].kind = "add" /\ TypeOK
  BY <1>1, WorkMade DEF ListInv, TypeOK, ReplyToAdd, LoopersKnow
<1>3. job[l].handle \in Handles
  BY <1>2 DEF Work
<1>4. pc' \in [Loopers -> Places]
  BY <1>1 DEF Finish, Goto, ListInv, TypeOK, Places
<1>5. TypeOK'
  BY <1>1, <1>2, <1>3, <1>4, FinishKnows, ReleaseDoes DEF TypeOK, listVars, clientVars
<1>6. \A e \in Entries : name[e] = NoName => handle'[e] = 0
  BY <1>1 DEF ListInv, Allocated, listVars
<1>7. /\ OneHandle'
      /\ \A k \in Handles : death'[k] \in {death[k], NoEntry}
      /\ \A k \in DOMAIN todo' : \E n \in DOMAIN todo : todo'[k] = todo[n]
  BY <1>1, <1>3, ReleaseTells
<1>8. pc'[l] # "insert" /\ LoopersKnow'
  BY <1>1, <1>2, FinishKnows
<1> QED
  BY <1>1, <1>5, <1>6, <1>7, <1>8, QuietList DEF listVars

\* The reply to a lookup keeps what the list and the loopers have in common.
LEMMA ReplyToGetList ==
  ASSUME ListInv, OneLooper, NEW l \in Loopers, ReplyToGet(l)
  PROVE  ListInv'
<1> DEFINE h == job[l].handle  a == IF h = 0 THEN NoService ELSE node[h]
<1>1. /\ pc[l] = "reply" /\ Finish(l) /\ UNCHANGED <<listVars, driverVars, alive>>
      /\ answer' = [answer EXCEPT ![job[l].from] = a]
      /\ asked' = [asked EXCEPT ![job[l].from] = NoName]
  BY DEF ReplyToGet
<1>2. job[l] \in Work /\ TypeOK
  BY <1>1, WorkMade DEF ListInv, TypeOK, ReplyToGet, LoopersKnow
<1>3. a \in Services \cup {NoService}
  BY <1>2, ServicesCounted DEF Work, JobRec, TypeOK, Handles
<1> HIDE DEF a
<1>4. pc' \in [Loopers -> Places]
  BY <1>1 DEF Finish, Goto, ListInv, TypeOK, Places
<1>5. TypeOK'
  BY <1>1, <1>2, <1>3, <1>4, FinishKnows DEF TypeOK, listVars, driverVars
<1>6. OneHandle'
  BY <1>1 DEF ListInv, OneHandle, driverVars
<1>7. \A e \in Entries : name[e] = NoName => handle'[e] = 0
  BY <1>1 DEF ListInv, Allocated, listVars
<1>8. pc'[l] # "insert" /\ LoopersKnow'
  BY <1>1, <1>2, FinishKnows
<1> QED
  BY <1>1, <1>5, <1>6, <1>7, <1>8, QuietList DEF listVars, driverVars

\* No service is listed at first.
LEMMA ListInit == Init => ListInv
<1> SUFFICES ASSUME Init
             PROVE  ListInv
  OBVIOUS
<1> USE DEF Init
<1>1. TypeOK
  BY ServicesCounted DEF TypeOK, Places
<1>2. Listed = {} /\ Inserting = {}
  BY DEF Listed, Inserting
<1>3. LoopersKnow
  BY WorkMade DEF LoopersKnow
<1>4. OneHandle /\ Allocated /\ OneEntryPerName
  BY <1>2 DEF OneHandle, Allocated, OneEntryPerName
<1> QED
  BY <1>1, <1>3, <1>4 DEF ListInv

\* One looper keeps what the list and the loopers have in common.
LEMMA ListStep == ListInv /\ OneLooper /\ [Next]_vars => ListInv'
<1> SUFFICES ASSUME ListInv, OneLooper, [Next]_vars
             PROVE  ListInv'
  OBVIOUS
<1>1. CASE UNCHANGED vars
  <2>1. Listed' = Listed /\ Inserting' = Inserting
    BY <1>1 DEF vars, Listed, Inserting, listVars, looperVars
  <2> QED
    BY <1>1, <2>1 DEF vars, listVars, looperVars, driverVars, clientVars, ListInv, TypeOK,
                      OneHandle, LoopersKnow, Allocated, OneEntryPerName
<1>2. CASE Next
  BY <1>2, CallAddServiceList, CallGetServiceList, DieList, TakeList, RefuseAddList,
     FindList, TestHandleList, ReleaseHandleList, ClearHandleList, SetHandleList,
     AllocateList, OutOfMemoryList, InsertList, AcquireList, LinkToDeathList,
     ReadHandleList, ReplyToAddList, ReplyToGetList DEF Next, LooperStep
<1> QED
  BY <1>1, <1>2

\* One looper never makes a second entry for a name.
THEOREM OneLooperOneEntry ==
  ASSUME OneLooper
  PROVE  Spec => []OneEntryPerName
<1>1. Init => ListInv
  BY ListInit
<1>2. ListInv /\ [Next]_vars => ListInv'
  BY ListStep
<1>3. ListInv => OneEntryPerName
  BY DEF ListInv
<1> QED
  BY <1>1, <1>2, <1>3, PTL DEF Spec
-----------------------------------------------------------------------------
\* The entries that hold a reference that the driver counts: not one whose
\* handle is released but not cleared, or stored but not acquired.
Unheld(e) ==
  \E l \in Loopers : si[l] = e /\ pc[l] \in {"clear", "insert", "acquire"}
EntriesOf(h) == {e \in Entries : handle[e] = h /\ ~Unheld(e)}

\* The reference that is in the buffer a looper works on.
Buffer(h) ==
  IF \E l \in Loopers : job[l].kind = "add" /\ job[l].handle = h THEN 1 ELSE 0

Count(h) == Cardinality(EntriesOf(h)) + Cardinality(Adds(todo, h)) + Buffer(h)

Balance ==
  \A h \in Handles : /\ strong[h] = Count(h)
                     /\ strong[h] = 0 <=> node[h] = NoService

\* A reference stands for the service that asked for the name.
Stand ==
  /\ \A h \in Handles : \A e \in EntriesOf(h) : NameOf[node[h]] = name[e]
  /\ \A k \in DOMAIN todo :
       todo[k].kind = "add" => node[todo[k].handle] = todo[k].from
  /\ \A l \in Loopers : job[l].kind = "add" => node[job[l].handle] = job[l].from

RefInv == ListInv /\ Balance /\ Stand

\* A step after which every handle is held by the entries that held it.
SameEntries == \A h \in Handles : EntriesOf(h)' = EntriesOf(h)

\* A step after which no handle is held by more entries, and no free one is.
FewerEntries ==
  \A h \in Handles : /\ EntriesOf(h)' \subseteq EntriesOf(h)
                     /\ EntriesOf(h)' # {} => node'[h] # NoService
-----------------------------------------------------------------------------
\* The references to a handle are finitely many.
LEMMA Counted ==
  ASSUME TypeOK, NEW h
  PROVE  /\ IsFiniteSet(EntriesOf(h)) /\ Cardinality(EntriesOf(h)) \in Nat
         /\ IsFiniteSet(Adds(todo, h)) /\ Cardinality(Adds(todo, h)) \in Nat
         /\ Buffer(h) \in {0, 1}
<1>1. EntriesOf(h) \in SUBSET Entries
  BY DEF EntriesOf
<1>2. IsFiniteSet(EntriesOf(h)) /\ Cardinality(EntriesOf(h)) \in Nat
  BY <1>1, FiniteOK, FS_Subset, FS_CardinalityType
<1>3. Len(todo) \in Nat
  BY DEF TypeOK
<1> QED
  BY <1>2, <1>3, AddsCounted DEF Buffer

\* Only allocated entries have a handle.
LEMMA HoldersNamed ==
  ASSUME ListInv, NEW h \in Handles, NEW e \in EntriesOf(h)
  PROVE  e \in Entries /\ name[e] # NoName
BY DEF EntriesOf, ListInv, Allocated, Handles

\* What holds references, how many there are and for whom they stand stays.
LEMMA QuietRefs ==
  ASSUME RefInv, ListInv', UNCHANGED <<node, strong>>,
         \A h \in Handles : /\ EntriesOf(h)' = EntriesOf(h) /\ Buffer(h)' = Buffer(h)
                            /\ Cardinality(Adds(todo', h)) = Cardinality(Adds(todo, h)),
         \A e \in Entries : name[e] # NoName => name'[e] = name[e],
         \A k \in DOMAIN todo' :
           todo'[k].kind = "add" => \E n \in DOMAIN todo : todo'[k] = todo[n],
         \A l \in Loopers : job'[l].kind = "add" =>
           job[l].kind = "add" /\ job'[l].handle = job[l].handle /\ job'[l].from = job[l].from
  PROVE  RefInv'
<1>1. Balance'
  BY DEF RefInv, Balance, Count
<1>2. \A h \in Handles : \A e \in EntriesOf(h)' : NameOf[node'[h]] = name'[e]
  BY HoldersNamed DEF RefInv, Stand
<1>3. Stand'
  BY <1>2 DEF RefInv, Stand
<1> QED
  BY <1>1, <1>3 DEF RefInv

\* A looper's step away from the places where a handle is not held.
LEMMA MovesRefs ==
  ASSUME RefInv, OneLooper, NEW l \in Loopers, ListInv',
         UNCHANGED <<handle, name, node, strong, todo>>,
         pc[l] \notin {"clear", "insert", "acquire"},
         pc'[l] \notin {"clear", "insert", "acquire"},
         \/ job[l].kind # "add" /\ job'[l].kind # "add"
         \/ /\ job[l].kind = "add" /\ job'[l].kind = "add"
            /\ job'[l].handle = job[l].handle /\ job'[l].from = job[l].from
  PROVE  RefInv' /\ SameEntries
<1>1. \A k \in Loopers : k = l
  BY DEF OneLooper
<1>2. \A h \in Handles : EntriesOf(h)' = EntriesOf(h)
  BY <1>1 DEF EntriesOf, Unheld
<1>3. \A h \in Handles : Buffer(h)' = Buffer(h)
  BY <1>1 DEF Buffer
<1> QED
  BY <1>1, <1>2, <1>3, QuietRefs DEF SameEntries

\* A refusal by onTransact or addService keeps the count of the references.
LEMMA RefuseAddRefs ==
  ASSUME RefInv, OneLooper, NEW l \in Loopers, ListInv', RefuseAdd(l)
  PROVE  RefInv' /\ SameEntries
<1>1. pc[l] = "find" /\ pc'[l] = "reply"
  BY DEF RefuseAdd, Goto, RefInv, ListInv, TypeOK
<1> QED
  BY <1>1, MovesRefs DEF RefuseAdd, listVars, driverVars

\* find_svc keeps the count of the references.
LEMMA FindRefs ==
  ASSUME RefInv, OneLooper, NEW l \in Loopers, ListInv', Find(l)
  PROVE  RefInv' /\ SameEntries
<1>1. pc[l] = "find" /\ pc'[l] \in {"alloc", "test", "reply", "read"}
  BY DEF Find, Goto, RefInv, ListInv, TypeOK
<1> QED
  BY <1>1, MovesRefs DEF Find, listVars, driverVars

\* serviceManagerbinderDeath's test of the handle keeps the count of the
\* references.
LEMMA TestHandleRefs ==
  ASSUME RefInv, OneLooper, NEW l \in Loopers, ListInv', TestHandle(l)
  PROVE  RefInv' /\ SameEntries
<1>1. pc[l] = "test" /\ pc'[l] \in {"release", "set", "idle"}
  BY DEF TestHandle, Finish, Goto, RefInv, ListInv, TypeOK
<1>2. job'[l] = job[l] \/ (job[l].kind # "add" /\ job'[l] = NoJob)
  BY DEF TestHandle, Finish, RefInv, ListInv, TypeOK
<1> QED
  BY <1>1, <1>2, WorkMade, MovesRefs DEF TestHandle, listVars, driverVars

\* A malloc that fails keeps the count of the references.
LEMMA OutOfMemoryRefs ==
  ASSUME RefInv, OneLooper, NEW l \in Loopers, ListInv', OutOfMemory(l)
  PROVE  RefInv' /\ SameEntries
<1>1. pc[l] = "alloc" /\ pc'[l] = "reply" /\ job' = [job EXCEPT ![l].ok = FALSE]
  BY DEF OutOfMemory, Goto, RefInv, ListInv, TypeOK
<1>2. job[l] \in Work /\ job'[l] = [job[l] EXCEPT !.ok = FALSE]
  BY <1>1, WorkMade DEF RefInv, ListInv, TypeOK, LoopersKnow
<1>3. /\ job'[l].kind = job[l].kind /\ job'[l].handle = job[l].handle
      /\ job'[l].from = job[l].from
  BY <1>2 DEF Work, JobRec
<1> QED
  BY <1>1, <1>3, MovesRefs DEF OutOfMemory, listVars, driverVars

\* getService's read of the handle keeps the count of the references.
LEMMA ReadHandleRefs ==
  ASSUME RefInv, OneLooper, NEW l \in Loopers, ListInv', ReadHandle(l)
  PROVE  RefInv' /\ SameEntries
<1>1. pc[l] = "read" /\ pc'[l] = "reply" /\ job' = [job EXCEPT ![l].handle = handle[si[l]]]
  BY DEF ReadHandle, Goto, RefInv, ListInv, TypeOK
<1>2. /\ job[l] \in Work /\ job[l].kind = "get"
      /\ job'[l] = [job[l] EXCEPT !.handle = handle[si[l]]]
  BY <1>1, WorkMade DEF RefInv, ListInv, TypeOK, LoopersKnow
<1>3. job'[l].kind = "get"
  BY <1>2 DEF Work, JobRec
<1> QED
  BY <1>1, <1>2, <1>3, MovesRefs DEF ReadHandle, listVars, driverVars

\* The reply to a lookup keeps the count of the references.
LEMMA ReplyToGetRefs ==
  ASSUME RefInv, OneLooper, NEW l \in Loopers, ListInv', ReplyToGet(l)
  PROVE  RefInv' /\ SameEntries
<1>1. pc[l] = "reply" /\ job[l].kind = "get" /\ pc'[l] = "idle" /\ job'[l] = NoJob
  BY FinishKnows DEF ReplyToGet, RefInv, ListInv
<1> QED
  BY <1>1, WorkMade, MovesRefs DEF ReplyToGet, listVars, driverVars

\* The steps that give an entry its handle, or take it, while it is not held.
LEMMA HandleRefs ==
  ASSUME RefInv, OneLooper, NEW l \in Loopers, ListInv', UNCHANGED <<node, strong, todo>>,
         \A h \in Handles : EntriesOf(h)' = EntriesOf(h),
         \A e \in Entries : name[e] # NoName => name'[e] = name[e],
         (job[l].kind # "add" /\ job'[l].kind # "add") \/ job'[l] = job[l]
  PROVE  RefInv'
<1>1. \A k \in Loopers : k = l
  BY DEF OneLooper
<1>2. \A h \in Handles : Buffer(h)' = Buffer(h)
  BY <1>1 DEF Buffer
<1> QED
  BY <1>1, <1>2, QuietRefs

\* Clearing the released handle keeps the count: the entry was counted no more.
LEMMA ClearHandleRefs ==
  ASSUME RefInv, OneLooper, NEW l \in Loopers, ListInv', ClearHandle(l)
  PROVE  RefInv' /\ SameEntries
<1>1. pc[l] = "clear" /\ pc'[l] \in {"set", "idle"}
  BY DEF ClearHandle, Finish, Goto, RefInv, ListInv, TypeOK
<1>2. job'[l] = job[l] \/ (job[l].kind # "add" /\ job'[l] = NoJob)
  BY DEF ClearHandle, Finish, RefInv, ListInv, TypeOK
<1>3. /\ UNCHANGED <<name, node, strong, todo>>
      /\ \A e \in Entries : handle'[e] = IF e = si[l] THEN 0 ELSE handle[e]
  BY DEF ClearHandle, driverVars, RefInv, ListInv, TypeOK
<1>4. \A e : (Unheld(e) <=> e = si[l]) /\ ~Unheld(e)'
  BY <1>1 DEF Unheld, OneLooper
<1>5. \A h \in Handles : EntriesOf(h)' = EntriesOf(h)
  BY <1>3, <1>4 DEF EntriesOf, Handles
<1> QED
  BY <1>2, <1>3, <1>5, WorkMade, HandleRefs DEF SameEntries

\* Storing the new handle keeps the count: the entry is not counted yet.
LEMMA SetHandleRefs ==
  ASSUME RefInv, OneLooper, NEW l \in Loopers, ListInv', SetHandle(l)
  PROVE  RefInv' /\ SameEntries
<1>1. pc[l] = "set" /\ pc'[l] = "acquire" /\ handle[si[l]] = 0
  BY DEF SetHandle, Goto, RefInv, ListInv, TypeOK, LoopersKnow
<1>2. /\ UNCHANGED <<name, node, strong, todo, job, si>>
      /\ \A e \in Entries : e # si[l] => handle'[e] = handle[e]
  BY DEF SetHandle, driverVars, RefInv, ListInv, TypeOK
<1>3. \A e : (Unheld(e)' <=> e = si[l]) /\ ~Unheld(e)
  BY <1>1, <1>2 DEF Unheld, OneLooper
<1>4. \A h \in Handles : EntriesOf(h)' = EntriesOf(h)
  BY <1>1, <1>2, <1>3 DEF EntriesOf, Handles
<1> QED
  BY <1>2, <1>4, HandleRefs DEF SameEntries

\* malloc and the fields of the new svcinfo keeps the count of the references.
LEMMA AllocateRefs ==
  ASSUME RefInv, OneLooper, NEW l \in Loopers, ListInv', Allocate(l)
  PROVE  RefInv' /\ SameEntries
<1>1. pc[l] = "alloc" /\ pc'[l] = "insert"
  BY DEF Allocate, Goto, RefInv, ListInv, TypeOK
<1>2. PICK e \in Entries :
        /\ name[e] = NoName /\ si'[l] = e
        /\ \A f \in Entries \ {e} : name'[f] = name[f] /\ handle'[f] = handle[f]
  BY DEF Allocate, RefInv, ListInv, TypeOK
<1>3. handle[e] = 0
  BY <1>2 DEF RefInv, ListInv, Allocated
<1>4. \A f : (Unheld(f)' <=> f = e) /\ ~Unheld(f)
  BY <1>1, <1>2 DEF Unheld, OneLooper
<1>5. \A h \in Handles : EntriesOf(h)' = EntriesOf(h)
  BY <1>2, <1>3, <1>4 DEF EntriesOf, Handles
<1> QED
  BY <1>2, <1>5, HandleRefs DEF Allocate, driverVars, SameEntries

\* Putting the new svcinfo at the head keeps the count of the references.
LEMMA InsertRefs ==
  ASSUME RefInv, OneLooper, NEW l \in Loopers, ListInv', Insert(l)
  PROVE  RefInv' /\ SameEntries
<1>1. pc[l] = "insert" /\ pc'[l] = "acquire"
  BY DEF Insert, Goto, RefInv, ListInv, TypeOK
<1>2. UNCHANGED <<name, handle, node, strong, todo, job, si>>
  BY DEF Insert, driverVars
<1>3. \A h \in Handles : EntriesOf(h)' = EntriesOf(h)
  BY <1>1, <1>2 DEF EntriesOf, Unheld, OneLooper
<1> QED
  BY <1>2, <1>3, HandleRefs DEF SameEntries

\* The steps of others than the loopers leave the entries and buffers alone.
LEMMA NotLoopers ==
  ASSUME UNCHANGED <<handle, looperVars>>
  PROVE  \A h : EntriesOf(h)' = EntriesOf(h) /\ Buffer(h)' = Buffer(h)
BY DEF EntriesOf, Unheld, Buffer, looperVars

\* A job that comes to todo, or leaves it, changes the count of its handle.
LEMMA TodoCounts ==
  ASSUME todo \in Seq(Work), todo' \in Seq(Work), NEW h
  PROVE  /\ \A i : Without(todo', todo, i) =>
              Cardinality(Adds(todo, h)) = Cardinality(Adds(todo', h))
                + (IF todo[i].kind = "add" /\ todo[i].handle = h THEN 1 ELSE 0)
         /\ \A i : Without(todo, todo', i) =>
              Cardinality(Adds(todo', h)) = Cardinality(Adds(todo, h))
                + (IF todo'[i].kind = "add" /\ todo'[i].handle = h THEN 1 ELSE 0)
         /\ Cardinality(Adds(todo, h)) \in Nat /\ Cardinality(Adds(todo', h)) \in Nat
<1>1. Len(todo) \in Nat /\ Len(todo') \in Nat
  OBVIOUS
<1> QED
  BY <1>1, AddsLess, AddsCounted

\* Asking for a name keeps the count of the references.
LEMMA CallGetServiceRefs ==
  ASSUME RefInv, ListInv', NEW c \in Clients, CallGetService(c)
  PROVE  RefInv'
<1>1. /\ todo' = Append(todo, GetJob(c))
      /\ UNCHANGED <<listVars, looperVars, node, strong>>
  BY DEF CallGetService
<1>2. GetJob(c) \in Work /\ GetJob(c).kind = "get"
  BY WorkMade DEF GetJob
<1>3. todo \in Seq(Work) /\ todo' \in Seq(Work)
  BY DEF RefInv, ListInv, TypeOK
<1>4. Without(todo, todo', Len(todo) + 1) /\ todo'[Len(todo) + 1].kind = "get"
  BY <1>1, <1>2, <1>3, AppendWithout
<1>5. \A h : Cardinality(Adds(todo', h)) = Cardinality(Adds(todo, h))
  BY <1>3, <1>4, TodoCounts
<1>6. \A k \in DOMAIN todo' :
        todo'[k].kind = "add" => \E n \in DOMAIN todo : todo'[k] = todo[n]
  BY <1>1, <1>2, <1>3
<1> QED
  BY <1>1, <1>5, <1>6, NotLoopers, QuietRefs DEF listVars, looperVars

\* A service's death keeps the count of the references.
LEMMA DieRefs ==
  ASSUME RefInv, ListInv', NEW s \in Services, Die(s)
  PROVE  RefInv'
<1>1. UNCHANGED <<listVars, looperVars, node, strong>>
  BY DEF Die
<1>2. todo \in Seq(Work) /\ todo' \in Seq(Work)
  BY DEF RefInv, ListInv, TypeOK
<1>3. CASE todo' = todo
  BY <1>1, <1>3, NotLoopers, QuietRefs DEF listVars, looperVars
<1>4. CASE todo' # todo
  <2>1. PICK h \in Handles : death[h] # NoEntry /\ todo' = Append(todo, DeathJob(h, death[h]))
    BY <1>4 DEF Die
  <2>2. DeathJob(h, death[h]) \in Work /\ DeathJob(h, death[h]).kind = "death"
    BY <2>1, WorkMade DEF DeathJob, RefInv, ListInv, TypeOK
  <2>3. Without(todo, todo', Len(todo) + 1) /\ todo'[Len(todo) + 1].kind = "death"
    BY <2>1, <2>2, <1>2, AppendWithout
  <2>4. \A k : Cardinality(Adds(todo', k)) = Cardinality(Adds(todo, k))
    BY <1>2, <2>3, TodoCounts
  <2>5. \A k \in DOMAIN todo' :
          todo'[k].kind = "add" => \E n \in DOMAIN todo : todo'[k] = todo[n]
    BY <2>1, <2>2, <1>2
  <2> QED
    BY <1>1, <2>4, <2>5, NotLoopers, QuietRefs DEF listVars, looperVars
<1> QED
  BY <1>3, <1>4

\* linkToDeath keeps the count of the references.
LEMMA LinkToDeathRefs ==
  ASSUME RefInv, OneLooper, NEW l \in Loopers, ListInv', LinkToDeath(l)
  PROVE  RefInv' /\ SameEntries
<1>1. /\ pc[l] = "link" /\ pc'[l] = "reply"
      /\ BC_REQUEST_DEATH_NOTIFICATION(job[l].handle, si[l])
      /\ UNCHANGED <<listVars, job, si, clientVars>>
  BY DEF LinkToDeath, Goto, RefInv, ListInv, TypeOK
<1>2. /\ job[l].handle \in Handles /\ si[l] \in Entries /\ TypeOK
      /\ todo \in Seq(Work) /\ todo' \in Seq(Work)
  <2>1. TypeOK /\ TypeOK'
    BY DEF RefInv, ListInv
  <2>2. job[l].kind = "add" /\ si[l] \in Listed
    BY <1>1 DEF RefInv, ListInv, LoopersKnow
  <2>3. job[l] \in Work /\ job[l].kind = "add" /\ si[l] \in Entries
    BY <2>1, <2>2, WorkMade DEF TypeOK, Listed
  <2>4. job[l].handle \in Handles
    BY <2>3 DEF Work
  <2>5. todo \in Seq(Work) /\ todo' \in Seq(Work)
    BY <2>1 DEF TypeOK
  <2> QED
    BY <2>1, <2>3, <2>4, <2>5
<1>3. UNCHANGED <<node, strong>>
  BY <1>1, <1>2, RequestDoes
<1>4. \A h \in Handles : EntriesOf(h)' = EntriesOf(h)
  BY <1>1 DEF EntriesOf, Unheld, OneLooper, listVars
<1>5. \A h \in Handles : Buffer(h)' = Buffer(h)
  BY <1>1 DEF Buffer
<1>6. CASE todo' = todo
  BY <1>1, <1>3, <1>4, <1>5, <1>6, QuietRefs DEF listVars, SameEntries
<1>7. CASE Without(todo, todo', 1) /\ todo'[1] = DeathJob(job[l].handle, si[l])
  <2>1. todo'[1].kind = "death"
    BY <1>7 DEF DeathJob
  <2>2. \A k : Cardinality(Adds(todo', k)) = Cardinality(Adds(todo, k))
    BY <1>2, <1>7, <2>1, TodoCounts
  <2>3. DOMAIN todo = 1 .. Len(todo) /\ DOMAIN todo' = 1 .. Len(todo')
        /\ Len(todo) \in Nat /\ Len(todo') \in Nat
    BY <1>2
  <2>4. \A k \in DOMAIN todo' :
          todo'[k].kind = "add" => \E n \in DOMAIN todo : todo'[k] = todo[n]
    BY <1>7, <2>1, <2>3, WithoutHas
  <2> QED
    BY <1>1, <1>3, <1>4, <1>5, <2>2, <2>4, QuietRefs DEF listVars, SameEntries
<1> QED
  BY <1>1, <1>2, <1>6, <1>7, RequestDoes

\* A handle has no reference of any kind exactly when it is free.
LEMMA RefsKnown ==
  ASSUME TypeOK, Balance, NEW h \in Handles
  PROVE  /\ node[h] = NoService <=>
              EntriesOf(h) = {} /\ Adds(todo, h) = {} /\ Buffer(h) = 0
         /\ strong[h] \in Nat
<1>1. Count(h) = 0 <=> EntriesOf(h) = {} /\ Adds(todo, h) = {} /\ Buffer(h) = 0
  <2>1. /\ Cardinality(EntriesOf(h)) = 0 <=> EntriesOf(h) = {}
        /\ Cardinality(Adds(todo, h)) = 0 <=> Adds(todo, h) = {}
    BY Counted, FS_EmptySet
  <2> QED
    BY <2>1, Counted DEF Count
<1> QED
  BY <1>1 DEF Balance, TypeOK

\* Asking to register keeps the count of the references.
LEMMA CallAddServiceRefs ==
  ASSUME RefInv, ListInv', NEW s \in Services, CallAddService(s)
  PROVE  RefInv'
<1> USE NamesOK
<1>0. TypeOK /\ TypeOK' /\ Balance /\ Stand
  BY DEF RefInv, ListInv
<1>1. PICK h \in Handles, ok \in BOOLEAN :
        /\ h = HandleFor(s) /\ node[h] \in {s, NoService}
        /\ node' = [node EXCEPT ![h] = s]
        /\ strong' = [strong EXCEPT ![h] = @ + 1]
        /\ todo' = Append(todo, AddJob(s, h, ok))
        /\ UNCHANGED <<listVars, looperVars>>
  BY HandleForIs DEF CallAddService, RefInv, ListInv, TypeOK
<1>2. \A k \in Handles : EntriesOf(k)' = EntriesOf(k) /\ Buffer(k)' = Buffer(k)
  BY <1>1, NotLoopers DEF listVars
<1>3. /\ AddJob(s, h, ok) \in Work
      /\ AddJob(s, h, ok).kind = "add" /\ AddJob(s, h, ok).handle = h
      /\ AddJob(s, h, ok).from = s
  BY WorkMade DEF AddJob
<1>4. /\ todo \in Seq(Work) /\ todo' \in Seq(Work)
      /\ Without(todo, todo', Len(todo) + 1)
      /\ todo'[Len(todo) + 1] = AddJob(s, h, ok)
  BY <1>0, <1>1, <1>3, AppendWithout DEF TypeOK
<1>5. \A k \in Handles : Cardinality(Adds(todo', k)) =
        Cardinality(Adds(todo, k)) + (IF k = h THEN 1 ELSE 0)
  BY <1>3, <1>4, TodoCounts
<1>6. \A k \in Handles : strong'[k] = strong[k] + (IF k = h THEN 1 ELSE 0)
                         /\ node'[k] = IF k = h THEN s ELSE node[k]
  BY <1>0, <1>1 DEF TypeOK
<1>7. Balance'
  <2> SUFFICES ASSUME NEW k \in Handles
               PROVE  /\ strong'[k] = Count(k)'
                      /\ strong'[k] = 0 <=> node'[k] = NoService
    BY DEF Balance
  <2>1. strong[k] = Count(k) /\ (strong[k] = 0 <=> node[k] = NoService) /\ strong[k] \in Nat
    BY <1>0 DEF Balance, TypeOK
  <2>2. Count(k)' = Count(k) + (IF k = h THEN 1 ELSE 0)
    BY <1>0, <1>2, <1>5, Counted DEF Count
  <2> QED
    BY <1>6, <2>1, <2>2
<1>8. Stand'
  <2>1. ASSUME NEW k \in Handles, NEW e \in EntriesOf(k)'
        PROVE  NameOf[node'[k]] = name'[e]
    <3>1. e \in EntriesOf(k) /\ node[k] # NoService
      BY <1>0, <1>2, RefsKnown
    <3>2. node'[k] = node[k]
      BY <1>1, <1>6, <3>1
    <3> QED
      BY <1>0, <1>1, <3>1, <3>2 DEF Stand, listVars
  <2>2. ASSUME NEW j \in Work, j.kind = "add", node[j.handle] = j.from
        PROVE  node'[j.handle] = j.from
    BY <1>1, <1>6, <2>2 DEF Work
  <2>3. ASSUME NEW k \in DOMAIN todo', todo'[k].kind = "add"
        PROVE  node'[todo'[k].handle] = todo'[k].from
    <3>1. CASE todo'[k] = AddJob(s, h, ok)
      BY <1>3, <1>6, <3>1
    <3>2. CASE k \in DOMAIN todo /\ todo'[k] = todo[k]
      BY <1>0, <1>4, <2>2, <2>3, <3>2 DEF Stand
    <3> QED
      BY <1>1, <1>3, <1>4, <3>1, <3>2
  <2>4. ASSUME NEW l \in Loopers, job'[l].kind = "add"
        PROVE  node'[job'[l].handle] = job'[l].from
    BY <1>0, <1>1, <2>2, <2>4, WorkMade DEF Stand, TypeOK, looperVars
  <2> QED
    BY <2>1, <2>3, <2>4 DEF Stand
<1> QED
  BY <1>7, <1>8 DEF RefInv

\* A looper that takes work keeps the count of the references.
LEMMA TakeRefs ==
  ASSUME RefInv, OneLooper, NEW l \in Loopers, ListInv', Take(l)
  PROVE  RefInv' /\ SameEntries
<1>0. TypeOK /\ TypeOK' /\ Balance /\ Stand
  BY DEF RefInv, ListInv
<1> DEFINE j == Head(todo)
<1>1. /\ pc[l] = "idle" /\ pc'[l] \in {"find", "test"}
      /\ todo # <<>> /\ todo' = Tail(todo) /\ job'[l] = j
      /\ UNCHANGED <<listVars, node, strong>>
  BY <1>0 DEF Take, Goto, TypeOK
<1>2. todo \in Seq(Work) /\ todo' \in Seq(Work) /\ Without(todo', todo, 1) /\ j = todo[1]
      /\ j \in Work /\ 1 \in DOMAIN todo
  BY <1>0, <1>1, TailWithout DEF TypeOK
<1>3. \A k \in DOMAIN todo' : k + 1 \in DOMAIN todo /\ todo'[k] = todo[k + 1]
  BY <1>0, <1>1, <1>2
<1> HIDE DEF j
<1>4. \A k \in Loopers : k = l
  BY DEF OneLooper
<1>5. job[l].kind # "add"
  BY <1>1 DEF RefInv, ListInv, LoopersKnow
<1>6. \A h \in Handles : EntriesOf(h)' = EntriesOf(h)
  BY <1>1, <1>4 DEF EntriesOf, Unheld, listVars
<1>7. \A h \in Handles : /\ Buffer(h) = 0
                         /\ Buffer(h)' = IF j.kind = "add" /\ j.handle = h THEN 1 ELSE 0
  BY <1>1, <1>4, <1>5 DEF Buffer
<1>8. \A h \in Handles : Cardinality(Adds(todo, h)) =
        Cardinality(Adds(todo', h)) + (IF j.kind = "add" /\ j.handle = h THEN 1 ELSE 0)
  BY <1>2, TodoCounts
<1>9. Balance'
  <2>1. \A h \in Handles : Count(h)' = Count(h)
    <3> SUFFICES ASSUME NEW h \in Handles
                 PROVE  Count(h)' = Count(h)
      OBVIOUS
    <3>1. /\ Cardinality(EntriesOf(h)) \in Nat /\ Cardinality(Adds(todo, h)) \in Nat
          /\ Cardinality(Adds(todo', h)) \in Nat
      BY <1>0, <1>2, Counted, TodoCounts
    <3> QED
      BY <1>6, <1>7, <1>8, <3>1 DEF Count
  <2> QED
    BY <1>0, <1>1, <2>1 DEF Balance
<1>10. Stand'
  <2>1. \A h \in Handles : \A e \in EntriesOf(h)' : NameOf[node'[h]] = name'[e]
    BY <1>0, <1>1, <1>6 DEF Stand, listVars
  <2>2. \A k \in DOMAIN todo' : todo'[k].kind = "add" => node'[todo'[k].handle] = todo'[k].from
    BY <1>0, <1>1, <1>3 DEF Stand
  <2>3. job'[l].kind = "add" => node'[job'[l].handle] = job'[l].from
    BY <1>0, <1>1, <1>2 DEF Stand
  <2> QED
    BY <1>4, <2>1, <2>2, <2>3 DEF Stand
<1> QED
  BY <1>6, <1>9, <1>10 DEF RefInv, SameEntries

\* BC_ACQUIRE on the stored handle counts the reference of the entry.
LEMMA AcquireRefs ==
  ASSUME RefInv, OneLooper, NEW l \in Loopers, ListInv', Acquire(l)
  PROVE  /\ RefInv'
         /\ \A k \in Handles : EntriesOf(k)' \subseteq EntriesOf(k) \cup {si[l]}
<1> DEFINE h == job[l].handle  e == si[l]
<1>0. TypeOK /\ TypeOK' /\ Balance /\ Stand
  BY DEF RefInv, ListInv
<1>1. /\ pc[l] = "acquire" /\ pc'[l] = "link" /\ BC_ACQUIRE(h)
      /\ UNCHANGED <<listVars, job, si>>
  BY <1>0 DEF Acquire, Goto, TypeOK
<1>2. /\ job[l] \in Work /\ job[l].kind = "add" /\ handle[e] = h
      /\ e \in Entries /\ name[e] = NameOf[job[l].from]
  <2>1. /\ job[l].kind = "add" /\ handle[e] = h /\ e \in Listed
        /\ name[e] = NameOf[job[l].from]
    BY <1>1 DEF RefInv, ListInv, LoopersKnow
  <2>2. job[l] \in Work
    BY <1>0, <2>1, WorkMade DEF TypeOK
  <2>3. e \in Entries
    BY <1>0, <2>1 DEF TypeOK, Listed
  <2> QED
    BY <2>1, <2>2, <2>3
<1>3. h \in Handles /\ node[h] = job[l].from /\ node[h] # NoService
  <2>1. h \in Handles /\ job[l].from \in Services
    BY <1>2 DEF Work
  <2> QED
    BY <1>0, <1>2, <2>1, NamesOK DEF Stand
<1>4. /\ UNCHANGED <<node, todo>>
      /\ \A k \in Handles : strong'[k] = strong[k] + (IF k = h THEN 1 ELSE 0)
  BY <1>0, <1>1, <1>3 DEF BC_ACQUIRE, TypeOK
<1> HIDE DEF h, e
<1>5. \A f : (Unheld(f) <=> f = e) /\ ~Unheld(f)'
  BY <1>1 DEF Unheld, OneLooper, e
<1>6. \A k \in Handles : EntriesOf(k)' = IF k = h THEN EntriesOf(k) \cup {e} ELSE EntriesOf(k)
  BY <1>1, <1>2, <1>5 DEF EntriesOf, listVars
<1>7. e \notin EntriesOf(h)
  BY <1>5 DEF EntriesOf
<1>8. \A k \in Handles : Buffer(k)' = Buffer(k)
  BY <1>1 DEF Buffer
<1>9. Balance'
  <2> SUFFICES ASSUME NEW k \in Handles
               PROVE  /\ strong'[k] = Count(k)'
                      /\ strong'[k] = 0 <=> node'[k] = NoService
    BY DEF Balance
  <2>1. strong[k] = Count(k) /\ (strong[k] = 0 <=> node[k] = NoService) /\ strong[k] \in Nat
    BY <1>0 DEF Balance, TypeOK
  <2>2. Cardinality(EntriesOf(k)') = Cardinality(EntriesOf(k)) + (IF k = h THEN 1 ELSE 0)
    BY <1>0, <1>6, <1>7, Counted, FS_AddElement
  <2>3. Count(k)' = Count(k) + (IF k = h THEN 1 ELSE 0)
    BY <1>0, <1>4, <1>8, <2>2, Counted DEF Count
  <2> QED
    BY <1>3, <1>4, <2>1, <2>3
<1>10. Stand'
  <2>1. NameOf[node[h]] = name[e]
    BY <1>2, <1>3 DEF h, e
  <2>2. \A k \in Handles : \A f \in EntriesOf(k)' : NameOf[node'[k]] = name'[f]
    BY <1>0, <1>1, <1>4, <1>6, <2>1 DEF Stand, listVars
  <2> QED
    BY <1>0, <1>1, <1>4, <2>2 DEF Stand
<1> QED
  BY <1>6, <1>9, <1>10 DEF RefInv, e

\* A release by somebody who has a reference: the count of the handle is one
\* less, and a handle that is forgotten had no other.
LEMMA ReleaseRefs ==
  ASSUME RefInv, ListInv', NEW h \in Handles, BC_RELEASE(h), node[h] # NoService,
         UNCHANGED name,
         \A k \in Handles : EntriesOf(k)' \subseteq EntriesOf(k),
         \A k \in Handles : Cardinality(EntriesOf(k)') + Buffer(k)' =
           Cardinality(EntriesOf(k)) + Buffer(k) - (IF k = h THEN 1 ELSE 0),
         \A l \in Loopers : job'[l].kind = "add" => job'[l] = job[l]
  PROVE  RefInv' /\ FewerEntries
<1>0. TypeOK /\ TypeOK' /\ Balance /\ Stand
  BY DEF RefInv, ListInv
<1>1. todo \in Seq(Work) /\ todo' \in Seq(Work)
  BY <1>0 DEF TypeOK
<1>2. \A k \in Handles : Cardinality(Adds(todo', k)) = Cardinality(Adds(todo, k))
  <2>1. CASE todo' = todo
    BY <2>1
  <2>2. ASSUME NEW i \in DeathsOf(h), Without(todo', todo, i)
        PROVE  \A k \in Handles : Cardinality(Adds(todo', k)) = Cardinality(Adds(todo, k))
    <3>1. todo[i].kind # "add"
      BY DEF DeathsOf
    <3> QED
      BY <1>1, <2>2, <3>1, TodoCounts
  <2> QED
    BY <1>0, <2>1, <2>2, ReleaseDoes
<1>3. strong[h] \in Nat /\ strong[h] # 0
  BY <1>0 DEF Balance, TypeOK
<1>4. /\ \A k \in Handles \ {h} : node'[k] = node[k] /\ strong'[k] = strong[k]
      /\ strong'[h] = strong[h] - 1
      /\ strong'[h] = 0 <=> node'[h] = NoService
      /\ node'[h] \in {node[h], NoService}
  BY <1>0, <1>3, ReleaseDoes
<1>5. Balance'
  <2> SUFFICES ASSUME NEW k \in Handles
               PROVE  /\ strong'[k] = Count(k)'
                      /\ strong'[k] = 0 <=> node'[k] = NoService
    BY DEF Balance
  <2>1. strong[k] = Count(k) /\ (strong[k] = 0 <=> node[k] = NoService) /\ strong[k] \in Nat
    BY <1>0 DEF Balance, TypeOK
  <2>2. /\ Cardinality(EntriesOf(k)) \in Nat /\ Cardinality(Adds(todo, k)) \in Nat
        /\ Buffer(k) \in Nat
    BY <1>0, Counted
  <2>3. Cardinality(EntriesOf(k)') \in Nat /\ Buffer(k)' \in Nat
    <3>1. EntriesOf(k)' \in SUBSET EntriesOf(k) /\ IsFiniteSet(EntriesOf(k))
      BY <1>0, Counted
    <3> QED
      BY <3>1, FS_Subset, FS_CardinalityType DEF Buffer
  <2>4. Count(k)' = Count(k) - (IF k = h THEN 1 ELSE 0)
    BY <1>2, <2>2, <2>3 DEF Count
  <2> QED
    BY <1>4, <2>1, <2>4
<1>6. \A k \in Handles : node'[k] = NoService =>
        EntriesOf(k)' = {} /\ Adds(todo', k) = {} /\ Buffer(k)' = 0
  <2> SUFFICES ASSUME NEW k \in Handles, node'[k] = NoService
               PROVE  EntriesOf(k)' = {} /\ Adds(todo', k) = {} /\ Buffer(k)' = 0
    OBVIOUS
  <2>1. Count(k)' = 0
    BY <1>5 DEF Balance
  <2>2. /\ IsFiniteSet(EntriesOf(k)') /\ Cardinality(EntriesOf(k)') \in Nat
        /\ IsFiniteSet(Adds(todo', k)) /\ Cardinality(Adds(todo', k)) \in Nat
        /\ Buffer(k)' \in Nat
    <3>1. EntriesOf(k)' \in SUBSET EntriesOf(k) /\ IsFiniteSet(EntriesOf(k))
      BY <1>0, Counted
    <3>2. Len(todo') \in Nat
      BY <1>1
    <3> QED
      BY <3>1, <3>2, AddsCounted, FS_Subset, FS_CardinalityType DEF Buffer
  <2>3. Cardinality(EntriesOf(k)') = 0 /\ Cardinality(Adds(todo', k)) = 0 /\ Buffer(k)' = 0
    BY <2>1, <2>2 DEF Count
  <2> QED
    BY <2>2, <2>3, FS_EmptySet
<1>7. \A k \in Handles : EntriesOf(k)' # {} \/ Adds(todo', k) # {} \/ Buffer(k)' # 0
                           => node'[k] = node[k]
  BY <1>4, <1>6
<1>8. Stand'
  <2>1. ASSUME NEW k \in Handles, NEW e \in EntriesOf(k)'
        PROVE  NameOf[node'[k]] = name'[e]
    BY <1>0, <1>7, <2>1 DEF Stand
  <2>2. ASSUME NEW k \in DOMAIN todo', todo'[k].kind = "add"
        PROVE  node'[todo'[k].handle] = todo'[k].from
    <3>1. todo'[k] \in Work /\ todo'[k].handle \in Handles
      BY <1>1, <2>2 DEF Work
    <3>2. k \in Adds(todo', todo'[k].handle)
      BY <1>1, <2>2 DEF Adds
    <3>3. PICK n \in DOMAIN todo : todo'[k] = todo[n]
      BY ReleaseTells DEF RefInv
    <3> QED
      BY <1>0, <1>7, <2>2, <3>1, <3>2, <3>3 DEF Stand
  <2>3. ASSUME NEW l \in Loopers, job'[l].kind = "add"
        PROVE  node'[job'[l].handle] = job'[l].from
    <3>1. job'[l] = job[l]
      BY <2>3
    <3>2. job[l] \in Work
      BY <1>0, <2>3, <3>1, WorkMade DEF TypeOK
    <3>3. PICK k \in Handles : k = job'[l].handle
      BY <2>3, <3>1, <3>2 DEF Work
    <3>4. Buffer(k)' # 0
      BY <2>3, <3>3 DEF Buffer
    <3>5. node'[k] = node[k]
      BY <1>7, <3>4
    <3> QED
      BY <1>0, <2>3, <3>1, <3>3, <3>5 DEF Stand
  <2> QED
    BY <2>1, <2>2, <2>3 DEF Stand
<1> QED
  BY <1>5, <1>6, <1>8 DEF RefInv, FewerEntries

\* What is held by an entry or by the buffer of a looper is a handle in use.
LEMMA HeldIsInUse ==
  ASSUME RefInv, NEW h \in Handles, EntriesOf(h) # {} \/ Buffer(h) # 0
  PROVE  node[h] # NoService
<1>1. TypeOK /\ Balance
  BY DEF RefInv, ListInv
<1>2. /\ IsFiniteSet(EntriesOf(h)) /\ Cardinality(EntriesOf(h)) \in Nat
      /\ Cardinality(Adds(todo, h)) \in Nat /\ Buffer(h) \in Nat
  BY <1>1, Counted
<1>3. Cardinality(EntriesOf(h)) # 0 \/ Buffer(h) # 0
  BY <1>2, FS_EmptySet
<1>4. Count(h) # 0
  BY <1>2, <1>3 DEF Count
<1> QED
  BY <1>1, <1>4 DEF Balance

\* serviceManagerbinderDeath releases the reference of its entry.
LEMMA ReleaseHandleRefs ==
  ASSUME RefInv, OneLooper, NEW l \in Loopers, ListInv', ReleaseHandle(l)
  PROVE  /\ RefInv' /\ FewerEntries
         /\ handle[si[l]] \in Handles /\ node[handle[si[l]]] # NoService
         /\ BC_RELEASE(handle[si[l]])
<1> DEFINE e == si[l]  h == handle[e]
<1>0. TypeOK
  BY DEF RefInv, ListInv
<1>1. pc[l] = "release" /\ pc'[l] = "clear" /\ UNCHANGED <<handle, name, job, si>>
  BY <1>0 DEF ReleaseHandle, Goto, TypeOK, listVars
<1>2. e \in Entries /\ h \in Handles /\ BC_RELEASE(h)
  <2>1. e \in Listed /\ h # 0
    BY <1>1 DEF RefInv, ListInv, LoopersKnow
  <2>2. e \in Entries
    BY <1>0, <2>1 DEF TypeOK, Listed
  <2>3. h \in Handles
    BY <1>0, <2>1, <2>2, ServicesCounted DEF TypeOK, Handles
  <2> QED
    BY <2>1, <2>2, <2>3 DEF ReleaseHandle
<1>3. \A f : (Unheld(f)' <=> f = e) /\ ~Unheld(f)
  BY <1>1 DEF Unheld, OneLooper
<1>4. e \in EntriesOf(h)
  BY <1>2, <1>3 DEF EntriesOf
<1>5. \A k \in Handles : EntriesOf(k)' = IF k = h THEN EntriesOf(k) \ {e} ELSE EntriesOf(k)
  BY <1>1, <1>2, <1>3 DEF EntriesOf
<1>6. \A k \in Handles : Buffer(k)' = Buffer(k)
  BY <1>1 DEF Buffer
<1>7. node[h] # NoService
  BY <1>2, <1>4, HeldIsInUse
<1> HIDE DEF h, e
<1>8. \A k \in Handles : Cardinality(EntriesOf(k)') + Buffer(k)' =
        Cardinality(EntriesOf(k)) + Buffer(k) - (IF k = h THEN 1 ELSE 0)
  <2> SUFFICES ASSUME NEW k \in Handles
               PROVE  Cardinality(EntriesOf(k)') + Buffer(k)' =
                        Cardinality(EntriesOf(k)) + Buffer(k) - (IF k = h THEN 1 ELSE 0)
    OBVIOUS
  <2>1. /\ IsFiniteSet(EntriesOf(k)) /\ Cardinality(EntriesOf(k)) \in Nat
        /\ Buffer(k) \in Nat
    BY <1>0, Counted
  <2>2. k = h => Cardinality(EntriesOf(k)') = Cardinality(EntriesOf(k)) - 1
    BY <1>4, <1>5, <2>1, FS_RemoveElement
  <2> QED
    BY <1>5, <1>6, <2>1, <2>2
<1> QED
  BY <1>1, <1>2, <1>5, <1>6, <1>7, <1>8, ReleaseRefs DEF e, h

\* The reply to addService frees the buffer of the message.
LEMMA ReplyToAddRefs ==
  ASSUME RefInv, OneLooper, NEW l \in Loopers, ListInv', ReplyToAdd(l)
  PROVE  /\ RefInv' /\ FewerEntries
         /\ job[l].handle \in Handles /\ node[job[l].handle] # NoService
<1> DEFINE h == job[l].handle
<1>0. TypeOK
  BY DEF RefInv, ListInv
<1>1. /\ pc[l] = "reply" /\ job[l].kind = "add" /\ Finish(l) /\ BC_RELEASE(h)
      /\ UNCHANGED <<handle, name>>
  BY DEF ReplyToAdd, listVars
<1>2. h \in Handles
  <2>1. job[l] \in Work
    BY <1>0, <1>1, WorkMade DEF TypeOK
  <2> QED
    BY <1>1, <2>1 DEF Work
<1>3. pc'[l] = "idle" /\ job'[l] = NoJob /\ NoJob.kind = "none"
  BY <1>1, FinishKnows, WorkMade DEF RefInv, ListInv
<1>4. \A e : ~Unheld(e) /\ ~Unheld(e)'
  BY <1>1, <1>3 DEF Unheld, OneLooper
<1>5. \A k \in Handles : EntriesOf(k)' = EntriesOf(k)
  BY <1>1, <1>4 DEF EntriesOf
<1>6. \A k \in Handles : Buffer(k)' = 0 /\ Buffer(k) = IF k = h THEN 1 ELSE 0
  BY <1>1, <1>3 DEF Buffer, OneLooper
<1>7. node[h] # NoService
  BY <1>2, <1>6, HeldIsInUse
<1>8. \A k \in Loopers : job'[k].kind = "add" => job'[k] = job[k]
  BY <1>3 DEF OneLooper
<1> HIDE DEF h
<1>9. \A k \in Handles : Cardinality(EntriesOf(k)') + Buffer(k)' =
        Cardinality(EntriesOf(k)) + Buffer(k) - (IF k = h THEN 1 ELSE 0)
  <2>1. \A k \in Handles : Cardinality(EntriesOf(k)) \in Nat
    BY <1>0, Counted
  <2> QED
    BY <1>5, <1>6, <2>1
<1> QED
  BY <1>1, <1>2, <1>5, <1>7, <1>8, <1>9, ReleaseRefs DEF h

\* There are no references at first.
LEMMA RefInit == Init => RefInv
<1> SUFFICES ASSUME Init
             PROVE  RefInv
  OBVIOUS
<1>1. ListInv
  BY ListInit
<1>2. \A h \in Handles : EntriesOf(h) = {} /\ Adds(todo, h) = {} /\ Buffer(h) = 0
  BY WorkMade DEF Init, EntriesOf, Adds, Buffer, Handles
<1>3. \A h \in Handles : Count(h) = 0
  BY <1>2, FS_EmptySet DEF Count
<1>4. Balance
  BY <1>3 DEF Init, Balance
<1>5. Stand
  BY <1>2, WorkMade DEF Init, Stand
<1> QED
  BY <1>1, <1>4, <1>5 DEF RefInv

\* One looper keeps the count of the references.
LEMMA RefStep == RefInv /\ OneLooper /\ [Next]_vars => RefInv'
<1> SUFFICES ASSUME RefInv, OneLooper, [Next]_vars
             PROVE  RefInv'
  OBVIOUS
<1>1. ListInv'
  BY ListStep DEF RefInv
<1>2. CASE UNCHANGED vars
  <2>1. UNCHANGED <<handle, name, node, strong, todo, job, looperVars>>
    BY <1>2 DEF vars, listVars, looperVars, driverVars
  <2> QED
    BY <1>1, <2>1, NotLoopers, QuietRefs
<1>3. CASE Next
  BY <1>1, <1>3, CallAddServiceRefs, CallGetServiceRefs, DieRefs, TakeRefs, RefuseAddRefs,
     FindRefs, TestHandleRefs, ReleaseHandleRefs, ClearHandleRefs, SetHandleRefs,
     AllocateRefs, OutOfMemoryRefs, InsertRefs, AcquireRefs, LinkToDeathRefs,
     ReadHandleRefs, ReplyToAddRefs, ReplyToGetRefs DEF Next, LooperStep
<1> QED
  BY <1>2, <1>3

\* With one looper no reference is leaked and none is released twice.
THEOREM ReferencesAreBalanced ==
  ASSUME OneLooper
  PROVE  Spec => []ReferencesBalance
<1>1. RefInv => ReferencesBalance
  <2> SUFFICES ASSUME RefInv, AtRest, NEW h \in Handles
               PROVE  strong[h] = Cardinality({e \in Entries : handle[e] = h})
                                  + Cardinality({k \in Queued : todo[k].handle = h})
    BY DEF ReferencesBalance
  <2>1. \A l \in Loopers : pc[l] = "idle" /\ job[l].kind # "add"
    BY DEF AtRest, RefInv, ListInv, LoopersKnow
  <2>2. EntriesOf(h) = {e \in Entries : handle[e] = h}
    BY <2>1 DEF EntriesOf, Unheld
  <2>3. Adds(todo, h) = {k \in Queued : todo[k].handle = h}
    BY DEF Adds, Queued, RefInv, ListInv, TypeOK
  <2>4. Buffer(h) = 0
    BY <2>1 DEF Buffer
  <2>5. Cardinality(EntriesOf(h)) \in Nat /\ Cardinality(Adds(todo, h)) \in Nat
    BY Counted DEF RefInv, ListInv
  <2>6. strong[h] = Cardinality(EntriesOf(h)) + Cardinality(Adds(todo, h))
    BY <2>4, <2>5 DEF RefInv, Balance, Count
  <2> QED
    BY <2>2, <2>3, <2>6
<1>2. RefInv /\ [Next]_vars => RefInv'
  BY RefStep
<1> QED
  BY <1>1, <1>2, RefInit, PTL DEF Spec

\* With one looper a handle in the list stands for a service that asked for
\* the name, never for another that was given the number after a release.
THEOREM HandlesStayOurs ==
  ASSUME OneLooper
  PROVE  Spec => []HandlesAreOurs
<1>1. RefInv => HandlesAreOurs
  <2> SUFFICES ASSUME RefInv, AtRest, NEW e \in Listed, handle[e] # 0
               PROVE  node[handle[e]] # NoService /\ NameOf[node[handle[e]]] = name[e]
    BY DEF HandlesAreOurs
  <2>1. e \in Entries /\ handle[e] \in Handles
    BY ServicesCounted DEF RefInv, ListInv, TypeOK, Listed, Handles
  <2>2. e \in EntriesOf(handle[e])
    BY <2>1 DEF AtRest, EntriesOf, Unheld
  <2> QED
    BY <2>1, <2>2, HeldIsInUse DEF RefInv, Stand
<1>2. RefInv /\ [Next]_vars => RefInv'
  BY RefStep
<1> QED
  BY <1>1, <1>2, RefInit, PTL DEF Spec
-----------------------------------------------------------------------------
(* Deaths.                                                                   *)


\* Work j may be queued behind work i: no registration of a service behind
\* its death, no second death of a handle, and one call of a process at a time.
Follows(i, j) ==
  /\ i.kind = "death" /\ j.kind \in {"add", "death"} => j.handle # i.handle
  /\ i.kind = j.kind /\ i.kind \in {"add", "get"} => j.from # i.from
InTodo(j) == In(todo, j)
InOrder(s) == \A k, m \in 1 .. Len(s) : k < m => Follows(s[k], s[m])

\* All of todo is behind what a looper does, until it has released the handle
\* of a service that has died.
Ordered ==
  /\ InOrder(todo)
  /\ \A l \in Loopers, j \in Work :
       InTodo(j) /\ (job[l].kind = "add" \/ pc[l] # "clear") => Follows(job[l], j)

\* Who is told of the death of a handle's service: an entry of its name, and
\* the one that holds the handle.
Linking(e) == \E l \in Loopers : pc[l] = "link" /\ si[l] = e
Notified ==
  \A h \in Handles :
    /\ death[h] # NoEntry => node[h] # NoService /\ name[death[h]] = NameOf[node[h]]
    /\ \A e \in EntriesOf(h) : Linking(e) \/ death[h] = e

\* The death of a service that has died is queued or in a looper's hands.
Telling(j) == \E l \in Loopers : pc[l] \in {"test", "release"} /\ job[l] = j
Told ==
  \A h \in Handles :
    death[h] # NoEntry /\ node[h] \notin alive =>
      Telling(DeathJob(h, death[h])) \/ InTodo(DeathJob(h, death[h]))

\* A death is told of a service that has died and still has its handle.
IsDeath(j) == /\ death[j.handle] = j.from
              /\ node[j.handle] \notin alive \cup {NoService}
DeathsTrue ==
  \A j \in Work : j.kind = "death" /\ (InTodo(j) \/ Telling(j)) => IsDeath(j)

DeathInv == RefInv /\ Ordered /\ Notified /\ Told /\ DeathsTrue
-----------------------------------------------------------------------------
(* Queues in order.                                                          *)

\* What is in a queue to which j is appended.
LEMMA AppendedIn ==
  ASSUME NEW s \in Seq(Work), NEW j \in Work
  PROVE  \A i : In(Append(s, j), i) <=> In(s, i) \/ i = j
<1>1. /\ Without(s, Append(s, j), Len(s) + 1) /\ Append(s, j)[Len(s) + 1] = j
      /\ Len(s) \in Nat /\ Len(Append(s, j)) \in Nat
  BY AppendWithout
<1> DEFINE t == Append(s, j)  n == Len(s) + 1
<1>2. Without(s, t, n) /\ t[n] = j /\ Len(s) \in Nat /\ Len(t) \in Nat
  BY <1>1
<1> HIDE DEF t, n
<1>3. \A i : In(t, i) <=> In(s, i) \/ i = j
  BY <1>2, WithoutIn
<1> QED
  BY <1>3 DEF t

\* What is taken away leaves the rest in its order.
LEMMA RemovedInOrder ==
  ASSUME NEW s, NEW t, NEW i, Len(s) \in Nat, Len(t) \in Nat, Without(t, s, i), InOrder(s)
  PROVE  InOrder(t)
<1> SUFFICES ASSUME NEW k \in 1 .. Len(t), NEW m \in 1 .. Len(t), k < m
             PROVE  Follows(t[k], t[m])
  BY DEF InOrder
<1> DEFINE at(n) == IF n < i THEN n ELSE n + 1
<1>1. at(k) \in 1 .. Len(s) /\ at(m) \in 1 .. Len(s) /\ at(k) < at(m)
  BY DEF Without
<1>2. t[k] = s[at(k)] /\ t[m] = s[at(m)]
  BY DEF Without
<1> HIDE DEF at
<1> QED
  BY <1>1, <1>2 DEF InOrder

\* Work that follows all the rest may be queued behind it.
LEMMA AppendedInOrder ==
  ASSUME NEW s \in Seq(Work), NEW j \in Work, InOrder(s),
         \A i \in Work : In(s, i) => Follows(i, j)
  PROVE  InOrder(Append(s, j))
<1> SUFFICES ASSUME NEW k \in 1 .. Len(s) + 1, NEW m \in 1 .. Len(s) + 1, k < m
             PROVE  Follows(Append(s, j)[k], Append(s, j)[m])
  BY DEF InOrder
<1>1. CASE m \in 1 .. Len(s)
  <2>1. Append(s, j)[k] = s[k] /\ Append(s, j)[m] = s[m] /\ k \in 1 .. Len(s)
    BY <1>1
  <2> QED
    BY <1>1, <2>1 DEF InOrder
<1>2. CASE m = Len(s) + 1
  <2>1. Append(s, j)[k] = s[k] /\ Append(s, j)[m] = j /\ k \in 1 .. Len(s) /\ s[k] \in Work
    BY <1>2
  <2>2. In(s, s[k])
    BY <2>1 DEF In
  <2> QED
    BY <2>1, <2>2
<1> QED
  BY <1>1, <1>2

\* Work that all the rest follows may be put before it.
LEMMA FirstInOrder ==
  ASSUME NEW s \in Seq(Work), NEW t \in Seq(Work), Without(s, t, 1), InOrder(s),
         \A j \in Work : In(s, j) => Follows(t[1], j)
  PROVE  InOrder(t)
<1> SUFFICES ASSUME NEW k \in 1 .. Len(t), NEW m \in 1 .. Len(t), k < m
             PROVE  Follows(t[k], t[m])
  BY DEF InOrder
<1>1. /\ m - 1 \in 1 .. Len(s) /\ t[m] = s[m - 1]
  <2>1. m - 1 \in 1 .. Len(s)
    BY DEF Without
  <2>2. s[m - 1] = t[IF m - 1 < 1 THEN m - 1 ELSE m - 1 + 1]
    BY <2>1 DEF Without
  <2> QED
    BY <2>1, <2>2
<1>2. CASE k = 1
  <2>1. s[m - 1] \in Work /\ In(s, s[m - 1])
    BY <1>1 DEF In
  <2> QED
    BY <1>1, <1>2, <2>1
<1>3. CASE k # 1
  <2>1. k - 1 \in 1 .. Len(s) /\ k - 1 < m - 1
    BY <1>3 DEF Without
  <2>2. s[k - 1] = t[IF k - 1 < 1 THEN k - 1 ELSE k - 1 + 1]
    BY <2>1 DEF Without
  <2>3. t[k] = s[k - 1]
    BY <2>1, <2>2
  <2> QED
    BY <1>1, <2>1, <2>3 DEF InOrder
<1> QED
  BY <1>2, <1>3

-----------------------------------------------------------------------------
(* The steps that touch no death.                                            *)

\* Nothing that a death is about changes.
LEMMA QuietDeaths ==
  ASSUME DeathInv, RefInv', OneLooper, NEW l \in Loopers,
         UNCHANGED <<node, death, todo, alive>>,
         \A e \in Entries : name[e] # NoName => name'[e] = name[e],
         SameEntries, pc[l] # "link", pc'[l] # "link",
         \/ job[l].kind # "death" /\ job'[l].kind # "death"
         \/ job'[l].kind = "none" /\ pc[l] \notin {"test", "release"}
         \/ /\ job'[l] = job[l]
            /\ pc[l] \in {"test", "release"} /\ pc'[l] \in {"test", "release"},
         job'[l].kind \in {"add", "get"} =>
           job[l].kind = job'[l].kind /\ job'[l].from = job[l].from
  PROVE  DeathInv'
<1>1. \A k \in Loopers : k = l
  BY DEF OneLooper
<1>2. \A j \in Work : j.kind = "death" => Telling(j)' = Telling(j)
  <2>1. \A j : j.kind = "death" => (Telling(j)' <=> Telling(j))
    BY <1>1 DEF Telling
  <2> QED
    BY <2>1 DEF Telling
<1>3. \A j : InTodo(j)' = InTodo(j)
  BY DEF InTodo, In
<1>4. TypeOK /\ TypeOK'
  BY DEF DeathInv, RefInv, ListInv
<1>5. Ordered'
  <2>1. ASSUME NEW j \in Work, InTodo(j), job'[l].kind = "add" \/ pc'[l] # "clear"
        PROVE  Follows(job'[l], j)
    <3>1. CASE job'[l].kind \in {"add", "get"}
      <4>1. job[l].kind = "get" => pc[l] # "clear"
        BY DEF DeathInv, RefInv, ListInv, LoopersKnow
      <4> QED
        BY <2>1, <3>1, <4>1 DEF DeathInv, Ordered, Follows
    <3>2. CASE job'[l].kind = "death"
      BY <2>1, <3>2 DEF DeathInv, Ordered, Follows
    <3> QED
      BY <3>1, <3>2 DEF Follows
  <2> QED
    BY <1>1, <1>3, <2>1 DEF DeathInv, Ordered, InOrder
<1>6. Notified'
  <2>1. \A h \in Handles : death[h] # NoEntry => name[death[h]] # NoName
    BY <1>4 DEF DeathInv, RefInv, ListInv, Allocated, TypeOK
  <2>2. \A e : ~Linking(e)
    BY <1>1 DEF Linking
  <2>3. \A h \in Handles : death[h] # NoEntry => name'[death[h]] = name[death[h]]
    BY <1>4, <2>1 DEF TypeOK
  <2> QED
    BY <2>2, <2>3 DEF DeathInv, Notified, SameEntries
<1>7. Told'
  <2> SUFFICES ASSUME NEW h \in Handles, death[h] # NoEntry, node[h] \notin alive
               PROVE  Telling(DeathJob(h, death[h]))' \/ InTodo(DeathJob(h, death[h]))'
    BY DEF Told
  <2>1. DeathJob(h, death[h]) \in Work /\ DeathJob(h, death[h]).kind = "death"
    BY <1>4, WorkMade DEF TypeOK, DeathJob
  <2> QED
    BY <1>2, <1>3, <2>1 DEF DeathInv, Told
<1>8. DeathsTrue'
  BY <1>2, <1>3 DEF DeathInv, DeathsTrue, IsDeath
<1> QED
  BY <1>5, <1>6, <1>7, <1>8 DEF DeathInv

\* The steps of a looper before it finds out what it has to release.
LEMMA RefuseAddDeaths ==
  ASSUME DeathInv, OneLooper, NEW l \in Loopers, ListInv', RefuseAdd(l)
  PROVE  DeathInv'
<1>1. pc[l] = "find" /\ pc'[l] = "reply" /\ job[l].kind # "death" /\ job'[l] = job[l]
  BY DEF RefuseAdd, Goto, DeathInv, RefInv, ListInv, TypeOK, LoopersKnow
<1> QED
  BY <1>1, RefuseAddRefs, QuietDeaths DEF DeathInv, RefuseAdd, listVars, driverVars, clientVars

\* find_svc keeps the order of the work and who is told of a death.
LEMMA FindDeaths ==
  ASSUME DeathInv, OneLooper, NEW l \in Loopers, ListInv', Find(l)
  PROVE  DeathInv'
<1>1. /\ pc[l] = "find" /\ pc'[l] \in {"alloc", "test", "reply", "read"}
      /\ job[l].kind # "death" /\ job'[l] = job[l]
  BY DEF Find, Goto, DeathInv, RefInv, ListInv, TypeOK, LoopersKnow
<1> QED
  BY <1>1, FindRefs, QuietDeaths DEF DeathInv, Find, listVars, driverVars, clientVars

\* Clearing the released handle keeps the order of the work and who is told of
\* a death.
LEMMA ClearHandleDeaths ==
  ASSUME DeathInv, OneLooper, NEW l \in Loopers, ListInv', ClearHandle(l)
  PROVE  DeathInv'
<1>1. /\ pc[l] = "clear" /\ pc'[l] \in {"set", "idle"}
      /\ \/ job[l].kind = "add" /\ job'[l] = job[l]
         \/ job[l].kind # "add" /\ job'[l] = NoJob
  BY DEF ClearHandle, Finish, Goto, DeathInv, RefInv, ListInv, TypeOK, LoopersKnow
<1> QED
  BY <1>1, WorkMade, ClearHandleRefs, QuietDeaths
  DEF DeathInv, ClearHandle, driverVars, clientVars

\* Storing the new handle keeps the order of the work and who is told of a
\* death.
LEMMA SetHandleDeaths ==
  ASSUME DeathInv, OneLooper, NEW l \in Loopers, ListInv', SetHandle(l)
  PROVE  DeathInv'
<1>1. pc[l] = "set" /\ pc'[l] = "acquire" /\ job[l].kind = "add" /\ job'[l] = job[l]
  BY DEF SetHandle, Goto, DeathInv, RefInv, ListInv, TypeOK, LoopersKnow
<1> QED
  BY <1>1, SetHandleRefs, QuietDeaths DEF DeathInv, SetHandle, driverVars, clientVars

\* malloc and the fields of the new svcinfo keeps the order of the work and who
\* is told of a death.
LEMMA AllocateDeaths ==
  ASSUME DeathInv, OneLooper, NEW l \in Loopers, ListInv', Allocate(l)
  PROVE  DeathInv'
<1>1. pc[l] = "alloc" /\ pc'[l] = "insert" /\ job[l].kind = "add" /\ job'[l] = job[l]
  BY DEF Allocate, Goto, DeathInv, RefInv, ListInv, TypeOK, LoopersKnow
<1>2. \A e \in Entries : name[e] # NoName => name'[e] = name[e]
  BY DEF Allocate, DeathInv, RefInv, ListInv, TypeOK
<1> QED
  BY <1>1, <1>2, AllocateRefs, QuietDeaths DEF DeathInv, Allocate, driverVars, clientVars

\* A malloc that fails keeps the order of the work and who is told of a death.
LEMMA OutOfMemoryDeaths ==
  ASSUME DeathInv, OneLooper, NEW l \in Loopers, ListInv', OutOfMemory(l)
  PROVE  DeathInv'
<1>1. /\ pc[l] = "alloc" /\ pc'[l] = "reply" /\ job[l].kind = "add"
      /\ job' = [job EXCEPT ![l].ok = FALSE]
  BY DEF OutOfMemory, Goto, DeathInv, RefInv, ListInv, TypeOK, LoopersKnow
<1>2. job[l] \in Work
  BY <1>1, WorkMade DEF DeathInv, RefInv, ListInv, TypeOK
<1>3. job'[l].kind = "add" /\ job'[l].from = job[l].from
  BY <1>1, <1>2 DEF Work, JobRec, DeathInv, RefInv, ListInv, TypeOK
<1> QED
  BY <1>1, <1>3, OutOfMemoryRefs, QuietDeaths
  DEF DeathInv, OutOfMemory, listVars, driverVars, clientVars

\* Putting the new svcinfo at the head keeps the order of the work and who is
\* told of a death.
LEMMA InsertDeaths ==
  ASSUME DeathInv, OneLooper, NEW l \in Loopers, ListInv', Insert(l)
  PROVE  DeathInv'
<1>1. pc[l] = "insert" /\ pc'[l] = "acquire" /\ job[l].kind = "add" /\ job'[l] = job[l]
  BY DEF Insert, Goto, DeathInv, RefInv, ListInv, TypeOK, LoopersKnow
<1> QED
  BY <1>1, InsertRefs, QuietDeaths DEF DeathInv, Insert, driverVars, clientVars

\* getService's read of the handle keeps the order of the work and who is told
\* of a death.
LEMMA ReadHandleDeaths ==
  ASSUME DeathInv, OneLooper, NEW l \in Loopers, ListInv', ReadHandle(l)
  PROVE  DeathInv'
<1>1. /\ pc[l] = "read" /\ pc'[l] = "reply" /\ job[l].kind = "get"
      /\ job' = [job EXCEPT ![l].handle = handle[si[l]]]
  BY DEF ReadHandle, Goto, DeathInv, RefInv, ListInv, TypeOK, LoopersKnow
<1>2. job[l] \in Work
  BY <1>1, WorkMade DEF DeathInv, RefInv, ListInv, TypeOK
<1>3. job'[l].kind = "get" /\ job'[l].from = job[l].from
  BY <1>1, <1>2 DEF Work, JobRec, DeathInv, RefInv, ListInv, TypeOK
<1> QED
  BY <1>1, <1>3, ReadHandleRefs, QuietDeaths
  DEF DeathInv, ReadHandle, listVars, driverVars, clientVars

\* The reply to a lookup keeps the order of the work and who is told of a
\* death.
LEMMA ReplyToGetDeaths ==
  ASSUME DeathInv, OneLooper, NEW l \in Loopers, ListInv', ReplyToGet(l)
  PROVE  DeathInv'
<1>1. pc[l] = "reply" /\ job[l].kind = "get" /\ pc'[l] = "idle" /\ job'[l] = NoJob
  BY FinishKnows DEF ReplyToGet, DeathInv, RefInv, ListInv
<1> QED
  BY <1>1, WorkMade, ReplyToGetRefs, QuietDeaths
  DEF DeathInv, ReplyToGet, listVars, driverVars, clientVars
-----------------------------------------------------------------------------
(* The steps that a death is about.                                          *)

\* A death that is told has the last reference to its handle: the one of the
\* entry that it leads back to.
LEMMA DeathIsHeld ==
  ASSUME DeathInv, OneLooper, NEW l \in Loopers,
         pc[l] \in {"test", "release"}, job[l].kind = "death"
  PROVE  /\ job[l].handle \in Handles /\ si[l] \in Entries
         /\ handle[si[l]] = job[l].handle /\ strong[job[l].handle] = 1
         /\ death[job[l].handle] = si[l] /\ node[job[l].handle] # NoService
<1> DEFINE h == job[l].handle  e == si[l]
<1>0. TypeOK /\ Balance
  BY DEF DeathInv, RefInv, ListInv
<1>1. job[l] \in Work /\ h \in Handles /\ e = job[l].from /\ e \in Entries
  <2>1. job[l] \in Work
    BY <1>0, WorkMade DEF TypeOK
  <2> QED
    BY <2>1 DEF Work, DeathInv, RefInv, ListInv, LoopersKnow
<1>2. death[h] = e /\ node[h] # NoService
  BY <1>1 DEF DeathInv, DeathsTrue, Telling, IsDeath
<1>3. Adds(todo, h) = {}
  <2> SUFFICES ASSUME NEW k \in Adds(todo, h)
               PROVE  FALSE
    OBVIOUS
  <2>1. todo[k] \in Work /\ InTodo(todo[k]) /\ todo[k].kind = "add" /\ todo[k].handle = h
    BY <1>0 DEF Adds, TypeOK, InTodo, In
  <2>2. Follows(job[l], todo[k])
    BY <2>1 DEF DeathInv, Ordered
  <2> QED
    BY <2>1, <2>2 DEF Follows
<1>4. Buffer(h) = 0
  BY DEF Buffer, OneLooper
<1>5. \A f \in EntriesOf(h) : f = e
  <2>1. \A f : ~Linking(f)
    BY DEF Linking, OneLooper
  <2> QED
    BY <1>1, <1>2, <2>1 DEF DeathInv, Notified
<1>6. EntriesOf(h) = {e}
  BY <1>0, <1>1, <1>2, <1>3, <1>4, <1>5, RefsKnown
<1>7. handle[e] = h
  BY <1>6 DEF EntriesOf
<1>8. strong[h] = 1
  <2>1. Cardinality(EntriesOf(h)) = 1 /\ Cardinality(Adds(todo, h)) = 0
    BY <1>3, <1>6, FS_Singleton, FS_EmptySet
  <2> QED
    BY <1>0, <1>1, <1>4, <2>1 DEF Balance, Count
<1> QED
  BY <1>1, <1>2, <1>7, <1>8

\* serviceManagerbinderDeath's test of the handle keeps the order of the work
\* and who is told of a death.
LEMMA TestHandleDeaths ==
  ASSUME DeathInv, OneLooper, NEW l \in Loopers, ListInv', TestHandle(l)
  PROVE  DeathInv'
<1>0. pc[l] = "test"
  BY DEF TestHandle
<1>1. CASE job[l].kind = "death"
  <2>1. handle[si[l]] # 0
    BY <1>0, <1>1, DeathIsHeld DEF Handles
  <2>2. pc'[l] = "release" /\ job'[l] = job[l]
    BY <1>0, <2>1 DEF TestHandle, Goto, DeathInv, RefInv, ListInv, TypeOK
  <2> QED
    BY <1>0, <1>1, <2>2, TestHandleRefs, QuietDeaths
    DEF DeathInv, TestHandle, listVars, driverVars, clientVars
<1>2. CASE job[l].kind # "death"
  <2>1. job[l].kind = "add"
    BY <1>0, <1>2 DEF DeathInv, RefInv, ListInv, LoopersKnow
  <2>2. pc'[l] \in {"release", "set"} /\ job'[l] = job[l]
    BY <1>0, <2>1 DEF TestHandle, Goto, DeathInv, RefInv, ListInv, TypeOK
  <2> QED
    BY <1>0, <1>2, <2>2, TestHandleRefs, QuietDeaths
    DEF DeathInv, TestHandle, listVars, driverVars, clientVars
<1> QED
  BY <1>1, <1>2

\* A release that is not the last changes no death; the last one takes the
\* death of the handle away, queued or not, and no other.
LEMMA ReleaseForgets ==
  ASSUME DeathInv, TypeOK', NEW h \in Handles, BC_RELEASE(h), node[h] # NoService
  PROVE  /\ InOrder(todo')
         /\ \A j : InTodo(j)' => InTodo(j)
         /\ \A j : InTodo(j) => InTodo(j)' \/ (j.kind = "death" /\ j.handle = h)
         /\ \A k \in Handles \ {h} : node'[k] = node[k] /\ death'[k] = death[k]
         /\ \/ UNCHANGED <<node, death, todo>>
            \/ /\ node'[h] = NoService /\ death'[h] = NoEntry
               /\ \A j : InTodo(j)' => ~(j.kind = "death" /\ j.handle = h)
<1>0. TypeOK /\ Len(todo) \in Nat /\ Len(todo') \in Nat
  BY DEF DeathInv, RefInv, ListInv, TypeOK
<1>1. DOMAIN todo = 1 .. Len(todo)
  BY <1>0 DEF TypeOK
<1>2. CASE UNCHANGED <<node, death, todo>>
  BY <1>2 DEF DeathInv, Ordered, InTodo
<1>3. CASE node'[h] = NoService /\ death'[h] = NoEntry /\ todo' = todo /\ DeathsOf(h) = {}
  <2>1. \A j : InTodo(j) => ~(j.kind = "death" /\ j.handle = h)
    BY <1>1, <1>3 DEF InTodo, In, DeathsOf
  <2> QED
    BY <1>0, <1>3, <2>1, ReleaseDoes DEF DeathInv, Ordered, InTodo
<1>4. ASSUME node'[h] = NoService, death'[h] = NoEntry,
             NEW i \in DeathsOf(h), Without(todo', todo, i)
      PROVE  /\ InOrder(todo')
             /\ \A j : InTodo(j)' => InTodo(j)
             /\ \A j : InTodo(j) => InTodo(j)' \/ (j.kind = "death" /\ j.handle = h)
             /\ \A j : InTodo(j)' => ~(j.kind = "death" /\ j.handle = h)
  <2>1. InOrder(todo')
    BY <1>0, <1>4, RemovedInOrder DEF DeathInv, Ordered
  <2>2. \A j : InTodo(j) <=> InTodo(j)' \/ j = todo[i]
    BY <1>0, <1>4, WithoutIn DEF InTodo
  <2>3. i \in 1 .. Len(todo) /\ todo[i].kind = "death" /\ todo[i].handle = h
    BY <1>1 DEF DeathsOf
  <2>4. ASSUME NEW j, InTodo(j)', j.kind = "death", j.handle = h
        PROVE  FALSE
    <3>1. PICK n \in 1 .. Len(todo') : todo'[n] = j
      BY <2>4 DEF InTodo, In
    <3>2. PICK k \in 1 .. Len(todo) : k # i /\ todo[k] = j
      <4>1. CASE n < i
        BY <1>0, <1>4, <3>1, <4>1 DEF Without
      <4>2. CASE ~(n < i)
        <5>1. n + 1 \in 1 .. Len(todo) /\ n + 1 # i /\ todo[n + 1] = j
          BY <1>0, <1>4, <3>1, <4>2 DEF Without
        <5> QED
          BY <5>1
      <4> QED
        BY <4>1, <4>2
    <3>3. k < i \/ i < k
      BY <2>3, <3>2
    <3> QED
      BY <2>3, <2>4, <3>2, <3>3 DEF DeathInv, Ordered, InOrder, Follows
  <2> QED
    BY <2>1, <2>2, <2>3, <2>4
<1>5. node'[h] = node[h] => UNCHANGED <<node, death, todo>>
  BY <1>0, ReleaseDoes
<1>6. \/ UNCHANGED <<node, death, todo>>
      \/ node'[h] = NoService /\ death'[h] = NoEntry
  BY <1>0, ReleaseDoes
<1>7. \A k \in Handles \ {h} : node'[k] = node[k] /\ death'[k] = death[k]
  BY <1>0, ReleaseDoes
<1>8. \/ todo' = todo /\ (DeathsOf(h) = {} \/ node'[h] = node[h])
      \/ \E i \in DeathsOf(h) : Without(todo', todo, i)
  BY <1>0, ReleaseDoes
<1> QED
  BY <1>2, <1>3, <1>4, <1>5, <1>6, <1>7, <1>8

\* A release by somebody who has a reference, and who tells of no death but
\* that of the service whose last reference this is.
LEMMA ReleaseDeaths ==
  ASSUME DeathInv, RefInv', FewerEntries, NEW h \in Handles, BC_RELEASE(h),
         node[h] # NoService, UNCHANGED <<name, alive>>,
         \A e : ~Linking(e),
         \A l \in Loopers : job'[l].kind # "get",
         \A l \in Loopers : job'[l].kind = "add" => job'[l] = job[l],
         \A l \in Loopers : job'[l].kind = "death" => pc'[l] = "clear",
         \A j \in Work : j.kind = "death" /\ Telling(j) => j.handle = h /\ node'[h] = NoService
  PROVE  DeathInv'
<1>0. TypeOK /\ TypeOK'
  BY DEF DeathInv, RefInv, ListInv
<1>1. /\ InOrder(todo')
      /\ \A j : InTodo(j)' => InTodo(j)
      /\ \A j : InTodo(j) => InTodo(j)' \/ (j.kind = "death" /\ j.handle = h)
      /\ \A k \in Handles \ {h} : node'[k] = node[k] /\ death'[k] = death[k]
      /\ \/ UNCHANGED <<node, death, todo>>
         \/ /\ node'[h] = NoService /\ death'[h] = NoEntry
            /\ \A j : InTodo(j)' => ~(j.kind = "death" /\ j.handle = h)
  BY <1>0, ReleaseForgets
<1>2. \A k \in Handles : death'[k] # NoEntry => death'[k] = death[k] /\ node'[k] = node[k]
  BY <1>1
<1>3. Ordered'
  <2>1. ASSUME NEW l \in Loopers, NEW j \in Work, InTodo(j)',
               job'[l].kind = "add" \/ pc'[l] # "clear"
        PROVE  Follows(job'[l], j)
    <3>1. CASE job'[l].kind = "add"
      BY <1>1, <2>1, <3>1 DEF DeathInv, Ordered
    <3>2. CASE job'[l].kind \notin {"add", "get", "death"}
      BY <3>2 DEF Follows
    <3> QED
      BY <2>1, <3>1, <3>2
  <2> QED
    BY <1>1, <2>1 DEF Ordered
<1>4. Notified'
  <2>1. ASSUME NEW k \in Handles, death'[k] # NoEntry
        PROVE  node'[k] # NoService /\ name'[death'[k]] = NameOf[node'[k]]
    BY <1>2, <2>1 DEF DeathInv, Notified
  <2>2. ASSUME NEW k \in Handles, NEW e \in EntriesOf(k)'
        PROVE  death'[k] = e
    <3>1. e \in EntriesOf(k) /\ node'[k] # NoService
      BY <2>2 DEF FewerEntries
    <3>2. death'[k] = death[k]
      BY <1>1, <3>1
    <3> QED
      BY <3>1, <3>2 DEF DeathInv, Notified
  <2> QED
    BY <2>1, <2>2 DEF Notified
<1>5. Told'
  <2> SUFFICES ASSUME NEW k \in Handles, death'[k] # NoEntry, node'[k] \notin alive'
               PROVE  In(todo', DeathJob(k, death'[k]))
    BY DEF Told, InTodo
  <2> DEFINE j == DeathJob(k, death[k])
  <2>1. death'[k] = death[k] /\ node'[k] = node[k] /\ node'[k] # NoService
    BY <1>2, <1>4 DEF Notified
  <2>2. j \in Work /\ j.kind = "death" /\ j.handle = k
    BY <1>0, <2>1, WorkMade DEF TypeOK, DeathJob
  <2>3. Telling(j) \/ InTodo(j)
    BY <2>1 DEF DeathInv, Told
  <2>4. ~Telling(j)
    BY <2>1, <2>2
  <2> HIDE DEF j
  <2>5. In(todo', j)
    BY <1>1, <2>1, <2>2, <2>3, <2>4 DEF InTodo
  <2> QED
    BY <2>1, <2>5 DEF j
<1>6. DeathsTrue'
  <2> SUFFICES ASSUME NEW j \in Work, j.kind = "death", InTodo(j)' \/ Telling(j)'
               PROVE  IsDeath(j)'
    BY DEF DeathsTrue
  <2>1. ~Telling(j)'
    BY DEF Telling
  <2>2. IsDeath(j) /\ j.handle \in Handles
    BY <1>1, <2>1 DEF DeathInv, DeathsTrue, Work
  <2> QED
    BY <1>1, <2>1, <2>2 DEF IsDeath
<1> QED
  BY <1>3, <1>4, <1>5, <1>6 DEF DeathInv

\* The release of the old handle forgets the death of the handle with it.
LEMMA ReleaseHandleDeaths ==
  ASSUME DeathInv, OneLooper, NEW l \in Loopers, ListInv', ReleaseHandle(l)
  PROVE  DeathInv'
<1> DEFINE h == handle[si[l]]
<1>1. /\ pc[l] = "release" /\ pc'[l] = "clear" /\ job'[l] = job[l]
      /\ UNCHANGED <<name, alive>>
  BY DEF ReleaseHandle, Goto, DeathInv, RefInv, ListInv, TypeOK, listVars, clientVars
<1>2. job[l].kind # "get"
  BY <1>1 DEF DeathInv, RefInv, ListInv, LoopersKnow
<1>3. /\ RefInv' /\ FewerEntries
      /\ h \in Handles /\ node[h] # NoService /\ BC_RELEASE(h)
  BY ReleaseHandleRefs DEF DeathInv
<1>4. ASSUME NEW j \in Work, j.kind = "death", Telling(j)
      PROVE  j.handle = h /\ node'[h] = NoService
  <2>1. job[l] = j
    BY <1>4 DEF Telling, OneLooper
  <2>2. j.handle = h /\ strong[h] = 1
    BY <1>1, <1>4, <2>1, DeathIsHeld
  <2>3. TypeOK
    BY DEF DeathInv, RefInv, ListInv
  <2> HIDE DEF h
  <2> QED
    BY <1>3, <2>2, <2>3, ReleaseDoes
<1>5. \A e : ~Linking(e)
  BY <1>1 DEF Linking, OneLooper
<1> HIDE DEF h
<1>6. \A k \in Loopers : k = l
  BY DEF OneLooper
<1> QED
  BY <1>1, <1>2, <1>3, <1>4, <1>5, <1>6, ReleaseDeaths

\* The reply that frees the buffer keeps the order of the work and who is told
\* of a death.
LEMMA ReplyToAddDeaths ==
  ASSUME DeathInv, OneLooper, NEW l \in Loopers, ListInv', ReplyToAdd(l)
  PROVE  DeathInv'
<1> DEFINE h == job[l].handle
<1>1. /\ pc[l] = "reply" /\ pc'[l] = "idle" /\ job'[l] = NoJob
      /\ BC_RELEASE(h) /\ UNCHANGED <<name, alive>>
  BY FinishKnows DEF ReplyToAdd, DeathInv, RefInv, ListInv, listVars, clientVars
<1>2. RefInv' /\ FewerEntries /\ h \in Handles /\ node[h] # NoService
  BY ReplyToAddRefs DEF DeathInv
<1>3. \A j : ~Telling(j)
  BY <1>1 DEF Telling, OneLooper
<1>4. \A e : ~Linking(e)
  BY <1>1 DEF Linking, OneLooper
<1> HIDE DEF h
<1>5. \A k \in Loopers : k = l
  BY DEF OneLooper
<1> QED
  BY <1>1, <1>2, <1>3, <1>4, <1>5, WorkMade, ReleaseDeaths

\* A looper that takes work keeps the order of the work: what it takes was the
\* first.
LEMMA TakeDeaths ==
  ASSUME DeathInv, OneLooper, NEW l \in Loopers, ListInv', Take(l)
  PROVE  DeathInv'
<1> DEFINE j == Head(todo)
<1>0. TypeOK /\ TypeOK' /\ RefInv' /\ SameEntries
  BY TakeRefs DEF DeathInv, RefInv, ListInv
<1>1. /\ pc[l] = "idle" /\ pc'[l] = (IF j.kind = "death" THEN "test" ELSE "find")
      /\ todo # <<>> /\ todo' = Tail(todo) /\ job'[l] = j
      /\ UNCHANGED <<name, node, death, alive>>
  BY <1>0 DEF Take, Goto, TypeOK, listVars, clientVars
<1>2. /\ Len(todo) \in Nat /\ Len(todo') \in Nat
      /\ Without(todo', todo, 1) /\ j = todo[1] /\ j \in Work
  BY <1>0, <1>1, TailWithout DEF TypeOK
<1> HIDE DEF j
<1>3. \A k \in Loopers : k = l
  BY DEF OneLooper
<1>4. \A i : InTodo(i) <=> InTodo(i)' \/ i = j
  BY <1>2, WithoutIn DEF InTodo
<1>5. Ordered'
  <2>1. InOrder(todo')
    BY <1>2, RemovedInOrder DEF DeathInv, Ordered
  <2>2. ASSUME NEW i, InTodo(i)'
        PROVE  Follows(j, i)
    <3>1. PICK n \in 1 .. Len(todo') : todo'[n] = i
      BY <2>2 DEF InTodo, In
    <3>2. n + 1 \in 1 .. Len(todo) /\ todo[n + 1] = i /\ 1 < n + 1 /\ 1 \in 1 .. Len(todo)
      BY <1>2, <3>1 DEF Without
    <3> QED
      BY <1>2, <3>2 DEF DeathInv, Ordered, InOrder
  <2> QED
    BY <1>1, <1>3, <2>1, <2>2 DEF Ordered
<1>6. \A i : (Telling(i)' <=> j.kind = "death" /\ i = j) /\ ~Telling(i)
  BY <1>1, <1>3 DEF Telling
<1>7. Notified'
  <2>1. \A e : ~Linking(e)
    BY <1>1, <1>3 DEF Linking
  <2> QED
    BY <1>0, <1>1, <2>1 DEF DeathInv, Notified, SameEntries
<1>8. Told'
  <2> SUFFICES ASSUME NEW h \in Handles, NEW i, i = DeathJob(h, death[h]),
                      death[h] # NoEntry, node[h] \notin alive
               PROVE  Telling(i)' \/ InTodo(i)'
    BY <1>1 DEF Told
  <2>1. InTodo(i) /\ i.kind = "death"
    BY <1>6 DEF DeathInv, Told, DeathJob
  <2> QED
    BY <1>4, <1>6, <2>1
<1>9. DeathsTrue'
  <2>1. \A i \in Work : InTodo(i)' \/ Telling(i)' => InTodo(i)
    BY <1>4, <1>6
  <2> QED
    BY <1>1, <2>1 DEF DeathInv, DeathsTrue, IsDeath
<1> QED
  BY <1>0, <1>5, <1>7, <1>8, <1>9 DEF DeathInv

\* BC_ACQUIRE on the stored handle keeps the order of the work and who is told
\* of a death.
LEMMA AcquireDeaths ==
  ASSUME DeathInv, OneLooper, NEW l \in Loopers, ListInv', Acquire(l)
  PROVE  DeathInv'
<1>0. TypeOK /\ RefInv' /\ \A h \in Handles : EntriesOf(h)' \subseteq EntriesOf(h) \cup {si[l]}
  BY AcquireRefs DEF DeathInv, RefInv, ListInv
<1>1. /\ pc[l] = "acquire" /\ pc'[l] = "link" /\ job[l].kind = "add"
      /\ UNCHANGED <<name, job, si, alive>>
  BY <1>0 DEF Acquire, Goto, TypeOK, DeathInv, RefInv, ListInv, LoopersKnow, listVars,
              clientVars
<1>2. UNCHANGED <<node, death, todo>>
  BY DEF Acquire, BC_ACQUIRE
<1>3. \A k \in Loopers : k = l
  BY DEF OneLooper
<1>4. \A j : InTodo(j)' = InTodo(j)
  BY <1>2 DEF InTodo
<1>5. \A j : ~Telling(j) /\ ~Telling(j)'
  BY <1>1, <1>3 DEF Telling
<1>6. Ordered'
  BY <1>1, <1>2, <1>3, <1>4 DEF DeathInv, Ordered
<1>7. Notified'
  <2>1. \A e : ~Linking(e)
    BY <1>1, <1>3 DEF Linking
  <2>2. \A e : e = si[l] => Linking(e)'
    BY <1>1 DEF Linking
  <2>3. ASSUME NEW h \in Handles, NEW e \in EntriesOf(h)'
        PROVE  Linking(e)' \/ death'[h] = e
    <3>1. e = si[l] \/ e \in EntriesOf(h)
      BY <1>0
    <3>2. e \in EntriesOf(h) => death[h] = e
      BY <2>1 DEF DeathInv, Notified
    <3> QED
      BY <1>2, <2>2, <3>1, <3>2
  <2> QED
    BY <1>1, <1>2, <2>3 DEF DeathInv, Notified
<1>8. Told'
  BY <1>1, <1>2, <1>4, <1>5 DEF DeathInv, Told, InTodo
<1>9. DeathsTrue'
  BY <1>1, <1>2, <1>4, <1>5 DEF DeathInv, DeathsTrue, IsDeath
<1> QED
  BY <1>0, <1>6, <1>7, <1>8, <1>9 DEF DeathInv

\* linkToDeath arms the notification of the entry, and a service that is dead
\* is told of first.
LEMMA LinkToDeathDeaths ==
  ASSUME DeathInv, OneLooper, NEW l \in Loopers, ListInv', LinkToDeath(l)
  PROVE  DeathInv'
<1> DEFINE h == job[l].handle  e == si[l]
<1>0. TypeOK /\ TypeOK' /\ RefInv' /\ SameEntries /\ NoEntry \notin Entries
  BY LinkToDeathRefs, NamesOK DEF DeathInv, RefInv, ListInv
<1>1. /\ pc[l] = "link" /\ pc'[l] = "reply" /\ job[l].kind = "add"
      /\ BC_REQUEST_DEATH_NOTIFICATION(h, e)
      /\ UNCHANGED <<name, handle, job, si, alive>>
  BY <1>0 DEF LinkToDeath, Goto, TypeOK, DeathInv, RefInv, ListInv, LoopersKnow, listVars,
              clientVars
<1>2. job[l] \in Work /\ h \in Handles
  <2>1. job[l] \in Work
    BY <1>0, <1>1, WorkMade DEF TypeOK
  <2> QED
    BY <1>1, <2>1 DEF Work
<1>3. /\ e \in Entries /\ e \in Listed /\ handle[e] = h /\ node[h] = job[l].from
      /\ name[e] = NameOf[node[h]] /\ name[e] # NoName
  <2>1. e \in Listed /\ handle[e] = h /\ name[e] = NameOf[job[l].from]
    BY <1>1 DEF DeathInv, RefInv, ListInv, LoopersKnow
  <2>2. e \in Entries
    BY <1>0, <2>1 DEF TypeOK, Listed
  <2>3. node[h] = job[l].from
    BY <1>1 DEF DeathInv, RefInv, Stand
  <2> QED
    BY <2>1, <2>2, <2>3 DEF DeathInv, RefInv, ListInv, Allocated
<1>4. UNCHANGED <<node, strong>> /\ \A k \in Handles \ {h} : death'[k] = death[k]
  BY <1>0, <1>1, <1>2, <1>3, RequestDoes
<1>5. \/ death[h] # NoEntry /\ UNCHANGED <<death, todo>>
      \/ /\ death[h] = NoEntry /\ death'[h] = e
         /\ IF node[h] \in alive THEN todo' = todo
            ELSE Without(todo, todo', 1) /\ todo'[1] = DeathJob(h, e)
  <2>1. node[h] # NoService
    BY <1>1, <1>2, <1>3, NamesOK DEF Work
  <2> QED
    BY <1>0, <1>1, <1>2, <1>3, <2>1, RequestDoes
<1>6. DeathJob(h, e) \in Work
  BY <1>2, <1>3, WorkMade
<1> HIDE DEF h, e
<1>7. /\ DeathJob(h, e).kind = "death" /\ DeathJob(h, e).handle = h
      /\ DeathJob(h, e).from = e
  BY DEF DeathJob
<1>8. \A k \in Loopers : k = l
  BY DEF OneLooper
<1>9. \A j : InTodo(j)' <=> \/ InTodo(j)
                            \/ todo' # todo /\ j = DeathJob(h, e)
  <2>1. CASE todo' = todo
    BY <2>1 DEF InTodo
  <2>2. CASE todo' # todo
    <3>1. Without(todo, todo', 1) /\ todo'[1] = DeathJob(h, e)
      BY <1>5, <2>2
    <3>2. Len(todo) \in Nat /\ Len(todo') \in Nat
      BY <1>0 DEF TypeOK
    <3> QED
      BY <2>2, <3>1, <3>2, WithoutIn DEF InTodo
  <2> QED
    BY <2>1, <2>2
<1>10. \A j : ~Telling(j) /\ ~Telling(j)'
  BY <1>1, <1>8 DEF Telling
<1>11. death[h] # NoEntry => death[h] = e
  <2>1. death[h] # NoEntry => death[h] \in Entries /\ name[death[h]] = name[e]
    BY <1>0, <1>2, <1>3 DEF DeathInv, Notified, TypeOK
  <2> QED
    BY <1>3, <2>1 DEF DeathInv, RefInv, ListInv, OneEntryPerName
<1>12. Ordered'
  <2>1. InOrder(todo')
    <3>1. CASE todo' = todo
      BY <3>1 DEF DeathInv, Ordered
    <3>2. CASE todo' # todo
      <4>1. Without(todo, todo', 1) /\ todo'[1] = DeathJob(h, e) /\ death[h] = NoEntry
        BY <1>5, <3>2
      <4>2. ASSUME NEW j \in Work, InTodo(j), j.kind = "add"
            PROVE  j.handle # h
        <5>1. Follows(job[l], j)
          BY <1>1, <4>2 DEF DeathInv, Ordered
        <5>2. node[j.handle] = j.from
          BY <1>0, <4>2 DEF InTodo, In, DeathInv, RefInv, Stand, TypeOK
        <5> QED
          BY <1>1, <1>3, <4>2, <5>1, <5>2 DEF Follows
      <4>3. ASSUME NEW j \in Work, InTodo(j), j.kind = "death"
            PROVE  j.handle # h
        <5>1. death[j.handle] = j.from /\ j.from \in Entries
          BY <4>3 DEF DeathInv, DeathsTrue, IsDeath, Work
        <5> QED
          BY <1>0, <4>1, <5>1
      <4>4. \A j \in Work : In(todo, j) => Follows(todo'[1], j)
        BY <1>7, <4>1, <4>2, <4>3 DEF Follows, InTodo
      <4> QED
        BY <1>0, <4>1, <4>4, FirstInOrder DEF DeathInv, Ordered, TypeOK
    <3> QED
      BY <3>1, <3>2
  <2>2. ASSUME NEW j \in Work, InTodo(j)'
        PROVE  Follows(job[l], j)
    <3>1. CASE InTodo(j)
      BY <1>1, <3>1 DEF DeathInv, Ordered
    <3>2. CASE j = DeathJob(h, e)
      BY <1>1, <1>7, <3>2 DEF Follows
    <3> QED
      BY <1>9, <2>2, <3>1, <3>2
  <2> QED
    BY <1>1, <1>8, <2>1, <2>2 DEF Ordered
<1>13. death'[h] = e
  BY <1>5, <1>11
<1>14. Notified'
  <2>1. ASSUME NEW k \in Handles, NEW f \in EntriesOf(k)
        PROVE  death'[k] = f
    <3>1. CASE Linking(f)
      <4>1. f = e
        BY <1>8, <3>1 DEF Linking, e
      <4>2. k = h
        BY <1>3, <4>1 DEF EntriesOf
      <4> QED
        BY <1>13, <4>1, <4>2
    <3>2. CASE death[k] = f
      <4>1. f \in Entries
        BY DEF EntriesOf
      <4> QED
        BY <1>0, <1>4, <1>11, <1>13, <3>2, <4>1
    <3> QED
      BY <3>1, <3>2 DEF DeathInv, Notified
  <2>2. ASSUME NEW k \in Handles, death'[k] # NoEntry
        PROVE  node'[k] # NoService /\ name'[death'[k]] = NameOf[node'[k]]
    <3>1. CASE k = h
      BY <1>1, <1>2, <1>3, <1>4, <1>13, <3>1, NamesOK DEF Work, h
    <3>2. CASE k # h
      BY <1>1, <1>4, <2>2, <3>2 DEF DeathInv, Notified
    <3> QED
      BY <3>1, <3>2
  <2> QED
    BY <1>0, <2>1, <2>2 DEF Notified, SameEntries
<1>15. Told'
  <2> SUFFICES ASSUME NEW k \in Handles, NEW j, j = DeathJob(k, death'[k]),
                      death'[k] # NoEntry, node[k] \notin alive
               PROVE  InTodo(j)'
    BY <1>1, <1>4 DEF Told, InTodo
  <2>1. CASE death[k] # NoEntry
    <3>1. death'[k] = death[k]
      BY <1>4, <1>11, <1>13, <2>1
    <3>2. InTodo(j)
      BY <1>10, <2>1, <3>1 DEF DeathInv, Told
    <3> QED
      BY <1>9, <3>2
  <2>2. CASE death[k] = NoEntry
    <3>1. k = h /\ j = DeathJob(h, e)
      BY <1>4, <1>13, <2>2
    <3>2. Without(todo, todo', 1) /\ todo'[1] = DeathJob(h, e)
      BY <1>5, <2>2, <3>1
    <3>3. In(todo', j)
      BY <3>1, <3>2, <1>0 DEF In, Without, TypeOK
    <3> QED
      BY <3>3 DEF InTodo
  <2> QED
    BY <2>1, <2>2
<1>16. DeathsTrue'
  <2> SUFFICES ASSUME NEW j \in Work, j.kind = "death", InTodo(j)'
               PROVE  death'[j.handle] = j.from /\ node[j.handle] \notin alive \cup {NoService}
    BY <1>1, <1>4, <1>10 DEF DeathsTrue, IsDeath
  <2>1. CASE InTodo(j)
    <3>1. death[j.handle] = j.from /\ node[j.handle] \notin alive \cup {NoService}
      BY <2>1 DEF DeathInv, DeathsTrue, IsDeath
    <3>2. j.from \in Entries /\ j.handle \in Handles
      BY DEF Work
    <3> QED
      BY <1>0, <1>4, <1>11, <1>13, <3>1, <3>2
  <2>2. CASE todo' # todo /\ j = DeathJob(h, e)
    <3>1. node[h] \notin alive
      BY <1>5, <2>2
    <3>2. node[h] # NoService
      BY <1>2, <1>14, <1>13, <1>4, <1>3, <1>0 DEF Notified
    <3> QED
      BY <1>7, <1>13, <2>2, <3>1, <3>2
  <2> QED
    BY <1>9, <2>1, <2>2
<1> QED
  BY <1>0, <1>12, <1>14, <1>15, <1>16 DEF DeathInv
-----------------------------------------------------------------------------
(* The steps of the processes.                                               *)

\* A looper that works on a death still tells of it, unless it has released
\* the handle.
LEMMA DeathInHand ==
  ASSUME ListInv, NEW l \in Loopers, job[l].kind = "death", pc[l] # "clear"
  PROVE  job[l] \in Work /\ Telling(job[l])
<1>1. job[l] \in Work
  BY WorkMade DEF ListInv, TypeOK
<1>2. pc[l] \in {"test", "release"}
  BY DEF ListInv, TypeOK, Places, LoopersKnow
<1> QED
  BY <1>1, <1>2 DEF Telling

\* The work of all is what is queued and what loopers have.
LEMMA JobsAre ==
  ASSUME TypeOK
  PROVE  \A j : j \in Jobs <=> InTodo(j) \/ \E l \in Loopers : job[l] = j
<1>1. DOMAIN todo = 1 .. Len(todo)
  BY DEF TypeOK
<1>2. \A j : j \in {todo[k] : k \in DOMAIN todo} <=> InTodo(j)
  BY <1>1 DEF InTodo, In
<1> QED
  BY <1>2, Zenon DEF Jobs

\* New work that is no death may be queued where it follows the rest.
LEMMA MoreWorkDeaths ==
  ASSUME DeathInv, RefInv', UNCHANGED <<listVars, looperVars, death, alive>>,
         NEW j \in Work, j.kind # "death", todo' = Append(todo, j),
         \A i \in Work : InTodo(i) => Follows(i, j),
         \A l \in Loopers : Follows(job[l], j) \/ (job[l].kind = "death" /\ pc[l] = "clear"),
         \A h \in Handles : node'[h] # node[h] => death[h] = NoEntry /\ node'[h] # NoService
  PROVE  DeathInv'
<1>0. TypeOK /\ TypeOK' /\ NoEntry \notin Entries
  BY NamesOK DEF DeathInv, RefInv, ListInv
<1>1. \A i : InTodo(i)' <=> InTodo(i) \/ i = j
  BY <1>0, AppendedIn DEF InTodo, TypeOK
<1>2. \A i : Telling(i)' = Telling(i)
  BY DEF Telling, looperVars
<1>3. Ordered'
  <2>1. InOrder(todo')
    BY <1>0, AppendedInOrder DEF DeathInv, Ordered, InTodo, TypeOK
  <2>2. ASSUME NEW l \in Loopers, NEW i \in Work, InTodo(i)',
               job'[l].kind = "add" \/ pc'[l] # "clear"
        PROVE  Follows(job'[l], i)
    <3>1. job'[l] = job[l] /\ pc'[l] = pc[l]
      BY DEF looperVars
    <3>2. CASE InTodo(i)
      BY <2>2, <3>1, <3>2 DEF DeathInv, Ordered
    <3>3. CASE i = j
      BY <2>2, <3>1, <3>3
    <3> QED
      BY <1>1, <2>2, <3>2, <3>3
  <2> QED
    BY <2>1, <2>2 DEF Ordered
<1>4. Notified'
  <2>1. \A h \in Handles : EntriesOf(h)' = EntriesOf(h)
    BY NotLoopers DEF listVars
  <2>2. \A e : Linking(e)' = Linking(e)
    BY DEF Linking, looperVars
  <2> QED
    BY <2>1, <2>2 DEF DeathInv, Notified, listVars
<1>5. Told'
  <2> SUFFICES ASSUME NEW h \in Handles, NEW i, i = DeathJob(h, death[h]),
                      death[h] # NoEntry, node'[h] \notin alive
               PROVE  Telling(i)' \/ InTodo(i)'
    BY DEF Told
  <2> QED
    BY <1>1, <1>2 DEF DeathInv, Told
<1>6. DeathsTrue'
  <2> SUFFICES ASSUME NEW i \in Work, i.kind = "death", InTodo(i)' \/ Telling(i)'
               PROVE  death[i.handle] = i.from /\ node'[i.handle] \notin alive \cup {NoService}
    BY DEF DeathsTrue, IsDeath
  <2>1. death[i.handle] = i.from /\ node[i.handle] \notin alive \cup {NoService}
    BY <1>1, <1>2 DEF DeathInv, DeathsTrue, IsDeath
  <2>2. i.from \in Entries /\ i.handle \in Handles
    BY DEF Work
  <2> QED
    BY <1>0, <2>1, <2>2
<1> QED
  BY <1>3, <1>4, <1>5, <1>6 DEF DeathInv

\* Asking for a name keeps the order of the work and who is told of a death.
LEMMA CallGetServiceDeaths ==
  ASSUME DeathInv, ListInv', NEW c \in Clients, CallGetService(c)
  PROVE  DeathInv'
<1>1. RefInv'
  BY CallGetServiceRefs DEF DeathInv
<1>2. GetJob(c) \in Work /\ GetJob(c).kind = "get"
  BY WorkMade DEF GetJob
<1>3. ASSUME NEW i \in Jobs
      PROVE  Follows(i, GetJob(c))
  BY <1>2 DEF Follows, CallGetService, Calling, GetJob
<1>4. /\ \A i : InTodo(i) => i \in Jobs
      /\ \A l \in Loopers : job[l] \in Jobs
  BY JobsAre DEF DeathInv, RefInv, ListInv
<1> QED
  BY <1>1, <1>2, <1>3, <1>4, MoreWorkDeaths DEF CallGetService

\* Asking to register is queued behind no death of the same handle.
LEMMA CallAddServiceDeaths ==
  ASSUME DeathInv, ListInv', NEW s \in Services, CallAddService(s)
  PROVE  DeathInv'
<1>0. TypeOK /\ RefInv' /\ s \in alive /\ s # NoService /\ ~Calling(s)
  BY CallAddServiceRefs, NamesOK DEF DeathInv, RefInv, ListInv, CallAddService
<1>1. PICK h \in Handles, ok \in BOOLEAN :
        /\ node[h] \in {s, NoService} /\ node' = [node EXCEPT ![h] = s]
        /\ todo' = Append(todo, AddJob(s, h, ok))
        /\ UNCHANGED <<listVars, looperVars, death, alive>>
  BY <1>0, HandleForIs DEF CallAddService, DeathInv, RefInv, ListInv, TypeOK
<1> DEFINE j == AddJob(s, h, ok)
<1>2. j \in Work /\ j.kind = "add" /\ j.from = s /\ j.handle = h
  BY WorkMade DEF AddJob
<1>3. \A i : IsDeath(i) => i.handle # h
  BY <1>0, <1>1 DEF IsDeath
<1> HIDE DEF j
<1>4. ASSUME NEW i \in Work, InTodo(i)
      PROVE  Follows(i, j)
  <2>1. i.kind = "add" => i.from # s
    BY <1>0, <1>4 DEF InTodo, In, Calling, Jobs, TypeOK
  <2>2. i.kind = "death" => i.handle # h
    BY <1>3, <1>4 DEF DeathInv, DeathsTrue
  <2> QED
    BY <1>2, <2>1, <2>2 DEF Follows
<1>5. ASSUME NEW l \in Loopers, ~(job[l].kind = "death" /\ pc[l] = "clear")
      PROVE  Follows(job[l], j)
  <2>1. job[l].kind = "add" => job[l].from # s
    BY <1>0 DEF Calling, Jobs
  <2>2. job[l].kind = "death" => job[l].handle # h
    BY <1>3, <1>5, DeathInHand DEF DeathInv, RefInv, DeathsTrue
  <2> QED
    BY <1>2, <2>1, <2>2 DEF Follows
<1>6. \A k \in Handles : node'[k] # node[k] => death[k] = NoEntry /\ node'[k] # NoService
  <2>1. \A k \in Handles : node'[k] # node[k] => k = h /\ node[k] = NoService /\ node'[k] = s
    BY <1>0, <1>1 DEF TypeOK
  <2> QED
    BY <1>0, <2>1 DEF DeathInv, Notified
<1> QED
  BY <1>0, <1>1, <1>2, <1>4, <1>5, <1>6, MoreWorkDeaths DEF j

\* A service's death is queued for the entry that asked to be told.
LEMMA DieDeaths ==
  ASSUME DeathInv, ListInv', NEW s \in Services, Die(s)
  PROVE  DeathInv'
<1>0. TypeOK /\ TypeOK' /\ RefInv' /\ s \in alive /\ s # NoService /\ NoEntry \notin Entries
  BY DieRefs, NamesOK DEF DeathInv, RefInv, ListInv, Die
<1>1. UNCHANGED <<listVars, looperVars, node, death>> /\ alive' = alive \ {s}
  BY DEF Die
<1>2. /\ \A h \in Handles : EntriesOf(h)' = EntriesOf(h)
      /\ \A e : Linking(e)' = Linking(e)
      /\ \A i : Telling(i)' = Telling(i)
  BY <1>1, NotLoopers DEF listVars, looperVars, Linking, Telling
<1>3. Notified'
  BY <1>1, <1>2 DEF DeathInv, Notified, listVars
<1>4. CASE \A h \in Handles : node[h] = s => death[h] = NoEntry
  <2>1. todo' = todo
    BY <1>4 DEF Die
  <2>2. Ordered'
    BY <1>1, <2>1 DEF DeathInv, Ordered, InTodo, looperVars
  <2>3. Told'
    <3> SUFFICES ASSUME NEW h \in Handles, NEW i, i = DeathJob(h, death[h]),
                        death[h] # NoEntry, node[h] \notin alive
                 PROVE  Telling(i)' \/ InTodo(i)'
      BY <1>1, <1>4 DEF Told
    <3> QED
      BY <1>2, <2>1 DEF DeathInv, Told, InTodo
  <2>4. DeathsTrue'
    BY <1>1, <1>2, <2>1 DEF DeathInv, DeathsTrue, IsDeath, InTodo
  <2> QED
    BY <1>0, <1>3, <2>2, <2>3, <2>4 DEF DeathInv
<1>5. ASSUME NEW h \in Handles, node[h] = s, death[h] # NoEntry
      PROVE  DeathInv'
  <2> DEFINE j == DeathJob(h, death[h])
  <2>1. \A k \in Handles : node[k] = s => k = h
    BY <1>0, <1>5 DEF DeathInv, RefInv, ListInv, OneHandle
  <2>2. todo' = Append(todo, j)
    <3>1. {k \in Handles : node[k] = s /\ death[k] # NoEntry} = {h}
      BY <1>5, <2>1
    <3> QED
      BY <3>1 DEF Die
  <2>3. j \in Work /\ j.kind = "death" /\ j.from = death[h] /\ j.handle = h
    BY <1>0, <1>5, WorkMade DEF TypeOK, DeathJob
  <2>4. \A i : IsDeath(i) => i.handle # h
    BY <1>0, <1>5 DEF IsDeath
  <2>5. \A k \in Handles : node[k] = s => DeathJob(k, death[k]) = j
    BY <2>1
  <2> HIDE DEF j
  <2>6. \A i : InTodo(i)' <=> InTodo(i) \/ i = j
    BY <1>0, <2>2, <2>3, AppendedIn DEF InTodo, TypeOK
  <2>7. \A i \in Work : InTodo(i) => Follows(i, j)
    BY <2>3, <2>4 DEF DeathInv, DeathsTrue, Follows
  <2>8. ASSUME NEW l \in Loopers, ~(job[l].kind = "death" /\ pc[l] = "clear")
        PROVE  Follows(job[l], j)
    BY <2>3, <2>4, <2>8, DeathInHand DEF DeathInv, RefInv, DeathsTrue, Follows
  <2>9. Ordered'
    <3>1. InOrder(todo')
      BY <1>0, <2>2, <2>3, <2>7, AppendedInOrder DEF DeathInv, Ordered, InTodo, TypeOK
    <3>2. ASSUME NEW l \in Loopers, NEW i \in Work, InTodo(i)',
                 job'[l].kind = "add" \/ pc'[l] # "clear"
          PROVE  Follows(job'[l], i)
      <4>1. job'[l] = job[l] /\ pc'[l] = pc[l]
        BY <1>1 DEF looperVars
      <4>2. CASE InTodo(i)
        BY <3>2, <4>1, <4>2 DEF DeathInv, Ordered
      <4>3. CASE i = j
        BY <2>8, <3>2, <4>1, <4>3
      <4> QED
        BY <2>6, <3>2, <4>2, <4>3
    <3> QED
      BY <3>1, <3>2 DEF Ordered
  <2>10. Told'
    <3> SUFFICES ASSUME NEW k \in Handles, NEW i, i = DeathJob(k, death[k]),
                        death[k] # NoEntry, node[k] \notin alive'
                 PROVE  Telling(i)' \/ InTodo(i)'
      BY <1>1 DEF Told
    <3>1. CASE node[k] = s
      BY <2>5, <2>6, <3>1
    <3>2. CASE node[k] # s
      BY <1>1, <1>2, <2>6, <3>2 DEF DeathInv, Told
    <3> QED
      BY <3>1, <3>2
  <2>11. DeathsTrue'
    <3> SUFFICES ASSUME NEW i \in Work, i.kind = "death", InTodo(i)' \/ Telling(i)'
                 PROVE  death[i.handle] = i.from /\ node[i.handle] \notin alive' \cup {NoService}
      BY <1>1 DEF DeathsTrue, IsDeath
    <3>1. CASE i = j
      BY <1>0, <1>1, <1>5, <2>3, <3>1
    <3>2. CASE i # j
      BY <1>1, <1>2, <2>6, <3>2 DEF DeathInv, DeathsTrue, IsDeath
    <3> QED
      BY <3>1, <3>2
  <2> QED
    BY <1>0, <1>3, <2>9, <2>10, <2>11 DEF DeathInv
<1> QED
  BY <1>4, <1>5
-----------------------------------------------------------------------------

\* Nobody is told of a death at first.
LEMMA DeathInit == Init => DeathInv
<1> SUFFICES ASSUME Init
             PROVE  DeathInv
  OBVIOUS
<1>1. RefInv
  BY RefInit
<1>2. \A j : ~InTodo(j) /\ ~Telling(j)
  BY DEF Init, InTodo, In, Telling
<1>3. Ordered
  BY <1>2 DEF Init, Ordered, InOrder
<1>4. Notified
  BY DEF Init, Notified, EntriesOf, Handles
<1>5. Told /\ DeathsTrue
  BY <1>2 DEF Init, Told, DeathsTrue
<1> QED
  BY <1>1, <1>3, <1>4, <1>5 DEF DeathInv

\* One looper keeps the order of the work and who is told of a death.
LEMMA DeathStep == DeathInv /\ OneLooper /\ [Next]_vars => DeathInv'
<1> SUFFICES ASSUME DeathInv, OneLooper, [Next]_vars
             PROVE  DeathInv'
  OBVIOUS
<1>1. ListInv'
  BY ListStep DEF DeathInv, RefInv
<1>2. CASE UNCHANGED vars
  <2>1. RefInv'
    BY <1>2, RefStep DEF DeathInv
  <2>2. UNCHANGED <<listVars, looperVars, node, death, todo, alive, name, pc, si, job, handle>>
    BY <1>2 DEF vars, listVars, looperVars, driverVars, clientVars
  <2>3. /\ \A h \in Handles : EntriesOf(h)' = EntriesOf(h)
        /\ \A e : Linking(e)' = Linking(e)
        /\ \A i : Telling(i)' = Telling(i) /\ InTodo(i)' = InTodo(i)
    BY <2>2, NotLoopers DEF Linking, Telling, InTodo
  <2>4. Ordered' /\ Notified' /\ DeathsTrue'
    BY <2>2, <2>3 DEF DeathInv, Ordered, Notified, DeathsTrue, IsDeath
  <2>5. Told'
    BY <2>2, <2>3 DEF DeathInv, Told, Telling, InTodo
  <2> QED
    BY <2>1, <2>4, <2>5 DEF DeathInv
<1>3. CASE Next
  BY <1>1, <1>3, CallAddServiceDeaths, CallGetServiceDeaths, DieDeaths, TakeDeaths,
     RefuseAddDeaths, FindDeaths, TestHandleDeaths, ReleaseHandleDeaths, ClearHandleDeaths,
     SetHandleDeaths, AllocateDeaths, OutOfMemoryDeaths, InsertDeaths, AcquireDeaths,
     LinkToDeathDeaths, ReadHandleDeaths, ReplyToAddDeaths, ReplyToGetDeaths
  DEF Next, LooperStep
<1> QED
  BY <1>2, <1>3

\* With one looper whatever is registered will be withdrawn when it dies.
THEOREM DeathsAreArmed ==
  ASSUME OneLooper
  PROVE  Spec => []DeathIsArmed
<1>1. DeathInv => DeathIsArmed
  <2> SUFFICES ASSUME DeathInv, AtRest, NEW e \in Listed, handle[e] # 0
               PROVE  /\ death[handle[e]] = e
                      /\ node[handle[e]] \notin alive =>
                           \E k \in DOMAIN todo : todo[k] = DeathJob(handle[e], e)
    BY DEF DeathIsArmed
  <2>1. TypeOK
    BY DEF DeathInv, RefInv, ListInv
  <2>2. e \in Entries /\ handle[e] \in Handles
    BY <2>1, ServicesCounted DEF TypeOK, Listed, Handles
  <2>3. e \in EntriesOf(handle[e]) /\ ~Linking(e)
    BY <2>2 DEF AtRest, EntriesOf, Unheld, Linking
  <2>4. death[handle[e]] = e
    BY <2>2, <2>3 DEF DeathInv, Notified
  <2>5. ASSUME node[handle[e]] \notin alive
        PROVE  InTodo(DeathJob(handle[e], e))
    <3>1. e # NoEntry
      BY <2>2, NamesOK
    <3>2. \A j : ~Telling(j)
      BY DEF AtRest, Telling
    <3> QED
      BY <2>2, <2>4, <2>5, <3>1, <3>2 DEF DeathInv, Told
  <2> QED
    BY <2>1, <2>4, <2>5 DEF InTodo, In, TypeOK
<1>2. DeathInv /\ [Next]_vars => DeathInv'
  BY DeathStep
<1> QED
  BY <1>1, <1>2, DeathInit, PTL DEF Spec
-----------------------------------------------------------------------------
(* The table of ServiceRegistry: what the mapping's variables stand for.     *)

\* A client waits for an answer while its lookup is queued or in a looper's
\* hands, and the looper has found what is listed under the name.
Asking ==
  /\ \A c \in Clients :
       asked[c] # NoName <=> \E j \in Jobs : j.kind = "get" /\ j.from = c
  /\ \A k \in DOMAIN todo : todo[k].kind = "get" => todo[k] = GetJob(todo[k].from)
Looking ==
  \A l \in Loopers : job[l].kind = "get" =>
    /\ pc[l] = "find" => job[l].ok /\ job[l].handle = 0
    /\ pc[l] = "read" => name[si[l]] = asked[job[l].from]
    /\ pc[l] = "reply" =>
         \/ /\ job[l].handle = 0
            /\ \A e \in Listed : name[e] # asked[job[l].from]
         \/ \E e \in Listed : /\ name[e] = asked[job[l].from]
                              /\ handle[e] = job[l].handle

TableInv == DeathInv /\ Asking /\ Looking

Pending == {todo[k].from : k \in Queued} \cup {job[l].from : l \in Deciding}
Registered == [n \in Names |-> Holder(n)]
TableStep == [Registry!SRNext]_Registry!srVars

\* What each step of the table means for svclist and the loopers.
LEMMA TableStays ==
  ASSUME UNCHANGED <<alive, Pending, Registered, asked, answer>>
  PROVE  TableStep
BY DEF TableStep, Registry!srVars, Pending, Registered

\* A registration becomes pending.
LEMMA TableAsks ==
  ASSUME NEW s \in Services, s \in alive, Pending' = Pending \cup {s},
         UNCHANGED <<alive, Registered, asked, answer>>
  PROVE  TableStep
BY DEF TableStep, Registry!SRNext, Registry!AskToRegister, Pending, Registered

\* A pending registration is refused.
LEMMA TableRefuses ==
  ASSUME NEW s \in Services, s \in Pending, Pending' = Pending \ {s},
         UNCHANGED <<alive, Registered, asked, answer>>
  PROVE  TableStep
BY DEF TableStep, Registry!SRNext, Registry!Refuse, Pending, Registered

\* A pending registration is made.
LEMMA TableRegisters ==
  ASSUME NEW s \in Services, s \in Pending, Pending' = Pending \ {s},
         Registered' = [Registered EXCEPT ![NameOf[s]] = s],
         UNCHANGED <<alive, asked, answer>>
  PROVE  TableStep
BY DEF TableStep, Registry!SRNext, Registry!Register, Pending, Registered

\* A name is taken away, for a reason.
LEMMA TableWithdraws ==
  ASSUME NEW n \in Names, Registered[n] # NoService,
         Registered[n] \notin alive \/ \E s \in Pending : NameOf[s] = n,
         Registered' = [Registered EXCEPT ![n] = NoService],
         UNCHANGED <<alive, Pending, asked, answer>>
  PROVE  TableStep
BY DEF TableStep, Registry!SRNext, Registry!Withdraw, Pending, Registered

\* A service dies.
LEMMA TableDies ==
  ASSUME NEW s \in Services, alive' = alive \ {s},
         UNCHANGED <<Pending, Registered, asked, answer>>
  PROVE  TableStep
BY DEF TableStep, Registry!SRNext, Registry!Die, Pending, Registered

\* A client asks for a name.
LEMMA TableIsAsked ==
  ASSUME NEW c \in Clients, NEW n \in Names, asked[c] = NoName,
         asked' = [asked EXCEPT ![c] = n],
         UNCHANGED <<alive, Pending, Registered, answer>>
  PROVE  TableStep
BY DEF TableStep, Registry!SRNext, Registry!Ask, Pending, Registered

\* A client has its answer.
LEMMA TableAnswers ==
  ASSUME NEW c \in Clients, asked[c] # NoName,
         asked' = [asked EXCEPT ![c] = NoName],
         answer' = [answer EXCEPT ![c] = Registered[asked[c]]],
         UNCHANGED <<alive, Pending, Registered>>
  PROVE  TableStep
BY DEF TableStep, Registry!SRNext, Registry!Answer, Pending, Registered
-----------------------------------------------------------------------------
(* Who holds a name, and whose registrations are pending.                    *)

OneTable ==
  \A n : /\ Held(n) = {} => Holder(n) = NoService
         /\ \A e \in Held(n) : Holder(n) = node[handle[e]]

\* One entry, at most, holds a name.
LEMMA OneHolds == ListInv => OneTable
<1> SUFFICES ASSUME ListInv, NEW n, NEW e \in Held(n)
             PROVE  Holder(n) = node[handle[e]]
  BY DEF OneTable, Holder
<1>1. \A f \in Held(n) : f \in Entries /\ f \in Listed /\ name[f] = n
  BY DEF Held, Listed, ListInv, TypeOK
<1>2. name[e] # NoName
  BY <1>1 DEF ListInv, Allocated
<1>3. \A f \in Held(n) : f = e
  BY <1>1, <1>2 DEF ListInv, OneEntryPerName
<1>4. (CHOOSE f \in Held(n) : TRUE) = e
  BY <1>3, Zenon
<1> QED
  BY <1>4 DEF Holder

\* An entry that holds a name stands for a service that asked for it.
LEMMA HeldKnown ==
  ASSUME RefInv, OneLooper, NEW n, NEW e \in Held(n)
  PROVE  /\ e \in Entries /\ e \in Listed /\ name[e] = n
         /\ handle[e] \in Handles /\ node[handle[e]] \in Services
         /\ NameOf[node[handle[e]]] = n
<1> DEFINE h == handle[e]
<1>0. TypeOK /\ NoService \notin Services
  BY NamesOK DEF RefInv, ListInv
<1>1. e \in Entries /\ e \in Listed /\ name[e] = n /\ h # 0
  BY <1>0 DEF Held, Listed, TypeOK
<1>2. h \in Handles
  BY <1>0, <1>1, ServicesCounted DEF TypeOK, Handles
<1>3. CASE ~Unheld(e)
  <2>1. e \in EntriesOf(h)
    BY <1>1, <1>3 DEF EntriesOf
  <2>2. node[h] # NoService /\ NameOf[node[h]] = name[e]
    BY <1>2, <2>1, HeldIsInUse DEF RefInv, Stand
  <2> QED
    BY <1>0, <1>1, <1>2, <2>2 DEF TypeOK
<1>4. CASE Unheld(e)
  <2>1. PICK l \in Loopers : si[l] = e /\ pc[l] \in {"clear", "insert", "acquire"}
    BY <1>4 DEF Unheld
  <2>2. pc[l] = "acquire"
    BY <1>1, <2>1 DEF Held, RefInv, ListInv, LoopersKnow
  <2>3. job[l].kind = "add" /\ job[l].handle = h /\ name[e] = NameOf[job[l].from]
    BY <2>1, <2>2 DEF RefInv, ListInv, LoopersKnow
  <2>4. job[l] \in Work
    BY <1>0, <2>3, WorkMade DEF TypeOK
  <2>5. node[h] = job[l].from /\ job[l].from \in Services
    BY <2>3, <2>4 DEF Work, RefInv, Stand
  <2> QED
    BY <1>1, <1>2, <2>3, <2>5
<1> QED
  BY <1>3, <1>4

\* A name keeps its holder while the entry and the handle's service stay.
LEMMA HolderStays ==
  ASSUME ListInv, ListInv', NEW n, Held(n)' = Held(n),
         \A e \in Held(n) : node'[handle'[e]] = node[handle[e]]
  PROVE  Holder(n)' = Holder(n)
<1>1. OneTable /\ OneTable'
  BY OneHolds, PTL
<1>2. CASE Held(n) = {}
  BY <1>1, <1>2 DEF OneTable
<1>3. ASSUME NEW e \in Held(n)
      PROVE  Holder(n)' = Holder(n)
  BY <1>1, <1>3 DEF OneTable
<1> QED
  BY <1>2, <1>3

PendingKnown ==
  \A s : s \in Pending <=>
           \/ \E j \in Work : j.kind = "add" /\ j.from = s /\ InTodo(j)
           \/ \E l \in Deciding : job[l].from = s

\* A registration is pending while it is queued or decided on.
LEMMA PendingIs == TypeOK => PendingKnown
<1> SUFFICES ASSUME TypeOK
             PROVE  PendingKnown
  OBVIOUS
<1>1. DOMAIN todo = 1 .. Len(todo) /\ \A k \in DOMAIN todo : todo[k] \in Work
  BY DEF TypeOK
<1>2. \A s : s \in {todo[k].from : k \in Queued} <=>
               \E j \in Work : j.kind = "add" /\ j.from = s /\ InTodo(j)
  BY <1>1 DEF Queued, InTodo, In
<1> QED
  BY <1>2, Zenon DEF PendingKnown, Pending

\* The same registrations are pending when none is queued or decided.
LEMMA PendingStays ==
  ASSUME TypeOK, TypeOK', Deciding' = Deciding,
         \A j : j.kind = "add" => (InTodo(j)' <=> InTodo(j)),
         \A l \in Deciding : job'[l].from = job[l].from
  PROVE  Pending' = Pending
<1>1. PendingKnown /\ PendingKnown'
  BY PendingIs, PTL
<1>2. \A s : s \in Pending' <=> s \in Pending
  <2> SUFFICES ASSUME NEW s
               PROVE  s \in Pending' <=> s \in Pending
    OBVIOUS
  <2>1. s \in Pending' <=> \/ \E j \in Work : j.kind = "add" /\ j.from = s /\ InTodo(j)'
                           \/ \E l \in Deciding' : job'[l].from = s
    BY <1>1 DEF PendingKnown
  <2>2. s \in Pending <=> \/ \E j \in Work : j.kind = "add" /\ j.from = s /\ InTodo(j)
                          \/ \E l \in Deciding : job[l].from = s
    BY <1>1 DEF PendingKnown
  <2> QED
    BY <2>1, <2>2
<1> QED
  BY <1>2 DEF Pending

\* What a looper decides is the only registration of the service.
LEMMA PendingDecided ==
  ASSUME DeathInv, TypeOK', OneLooper, NEW l \in Loopers,
         l \in Deciding, l \notin Deciding', UNCHANGED todo
  PROVE  job[l].from \in Pending /\ Pending' = Pending \ {job[l].from}
<1>0. TypeOK
  BY DEF DeathInv, RefInv, ListInv
<1>1. PendingKnown /\ PendingKnown'
  BY <1>0, PendingIs, PTL
<1>2. job[l].kind = "add" /\ Deciding = {l} /\ Deciding' = {}
  BY DEF Deciding, OneLooper
<1>3. \A j \in Work : j.kind = "add" /\ InTodo(j) => j.from # job[l].from
  BY <1>2 DEF DeathInv, Ordered, Follows
<1>4. \A s : s \in Pending' <=> \E j \in Work : j.kind = "add" /\ j.from = s /\ InTodo(j)
  BY <1>1, <1>2 DEF PendingKnown, InTodo
<1>5. \A s : s \in Pending <=> \/ \E j \in Work : j.kind = "add" /\ j.from = s /\ InTodo(j)
                               \/ s = job[l].from
  BY <1>1, <1>2 DEF PendingKnown
<1> QED
  BY <1>3, <1>4, <1>5 DEF Pending

\* The same clients wait while the lookups are where they were.
LEMMA AskingStays ==
  ASSUME TypeOK, TypeOK', Asking, UNCHANGED asked,
         \A j : j.kind = "get" => (InTodo(j)' <=> InTodo(j)),
         \A l \in Loopers : job'[l].kind = "get" <=> job[l].kind = "get",
         \A l \in Loopers : job[l].kind = "get" => job'[l].from = job[l].from
  PROVE  Asking'
<1>1. ASSUME NEW c
      PROVE  (\E j \in Jobs : j.kind = "get" /\ j.from = c)
               <=> (\E j \in Jobs' : j.kind = "get" /\ j.from = c)
  <2>1. \A j : j \in Jobs <=> InTodo(j) \/ \E l \in Loopers : job[l] = j
    BY JobsAre
  <2>2. \A j : j \in Jobs' <=> InTodo(j)' \/ \E l \in Loopers : job'[l] = j
    <3>1. DOMAIN todo' = 1 .. Len(todo')
      BY DEF TypeOK
    <3>2. \A j : j \in {todo'[k] : k \in DOMAIN todo'} <=> InTodo(j)'
      BY <3>1 DEF InTodo, In
    <3> QED
      BY <3>2, Zenon DEF Jobs
  <2> QED
    BY <2>1, <2>2
<1>2. ASSUME NEW k \in DOMAIN todo', todo'[k].kind = "get"
      PROVE  todo'[k] = GetJob(todo'[k].from)
  <2>1. InTodo(todo'[k])
    <3>1. In(todo', todo'[k])
      BY <1>2 DEF In, TypeOK
    <3> QED
      BY <1>2, <3>1 DEF InTodo
  <2>2. PICK n \in DOMAIN todo : todo[n] = todo'[k]
    BY <2>1 DEF InTodo, In, TypeOK
  <2> QED
    BY <1>2, <2>2 DEF Asking
<1> QED
  BY <1>1, <1>2 DEF Asking

\* Names are held as before while no looper begins or ends a release.
LEMMA HeldStays ==
  ASSUME OneLooper, NEW l \in Loopers, UNCHANGED listVars,
         pc[l] # "clear", pc'[l] # "clear"
  PROVE  \A n : Held(n)' = Held(n)
BY DEF Held, Listed, listVars, OneLooper

\* A looper's step that the table does not show.
LEMMA QuietTable ==
  ASSUME TableInv, DeathInv', Looking', OneLooper, NEW l \in Loopers,
         UNCHANGED <<alive, asked, answer>>,
         \A j : j.kind \in {"add", "get"} => (InTodo(j)' <=> InTodo(j)),
         Deciding' = Deciding,
         job'[l].kind = "get" <=> job[l].kind = "get",
         job'[l].kind # "none" => job'[l].from = job[l].from,
         job'[l].kind = "none" => job[l].kind # "get" /\ l \notin Deciding,
         \A n \in Names : /\ Held(n)' = Held(n)
                          /\ \A e \in Held(n) : node'[handle'[e]] = node[handle[e]]
  PROVE  TableInv' /\ TableStep
<1>0. ListInv /\ ListInv' /\ TypeOK /\ TypeOK'
  BY DEF TableInv, DeathInv, RefInv, ListInv
<1>1. \A k \in Loopers : k = l
  BY DEF OneLooper
<1>2. Asking'
  BY <1>0, <1>1, AskingStays DEF TableInv
<1>3. Pending' = Pending
  BY <1>0, <1>1, PendingStays DEF Deciding
<1>4. Registered' = Registered
  BY <1>0, HolderStays DEF Registered
<1> QED
  BY <1>2, <1>3, <1>4, TableStays DEF TableInv
-----------------------------------------------------------------------------
(* The steps of a looper.                                                    *)

\* A refusal by onTransact or addService is the refusal of a pending
\* registration.
LEMMA RefuseAddTable ==
  ASSUME TableInv, OneLooper, NEW l \in Loopers, DeathInv', RefuseAdd(l)
  PROVE  TableInv' /\ TableStep
<1>0. ListInv /\ ListInv' /\ TypeOK /\ TypeOK'
  BY DEF TableInv, DeathInv, RefInv, ListInv
<1>1. /\ pc[l] = "find" /\ pc'[l] = "reply" /\ ~job[l].ok
      /\ UNCHANGED <<listVars, job, node, todo, alive, asked, answer>>
  BY <1>0 DEF RefuseAdd, Goto, TypeOK, driverVars, clientVars
<1>2. job[l].kind = "add"
  BY <1>0, <1>1 DEF TableInv, Looking, LoopersKnow, ListInv
<1>3. job[l].from \in Pending /\ Pending' = Pending \ {job[l].from}
  BY <1>0, <1>1, <1>2, PendingDecided DEF TableInv, Deciding
<1>4. Registered' = Registered
  <2>1. \A n : Held(n)' = Held(n)
    BY <1>1, HeldStays
  <2> QED
    BY <1>0, <1>1, <2>1, HolderStays DEF Registered, listVars
<1>5. job[l].from \in Services
  BY <1>0, <1>2, WorkMade DEF TypeOK, Work
<1>6. Asking'
  BY <1>0, <1>1, AskingStays DEF TableInv, InTodo
<1>7. Looking'
  BY <1>1, <1>2 DEF Looking, OneLooper
<1> QED
  BY <1>1, <1>3, <1>4, <1>5, <1>6, <1>7, TableRefuses DEF TableInv

\* A malloc that fails is the refusal of a pending registration.
LEMMA OutOfMemoryTable ==
  ASSUME TableInv, OneLooper, NEW l \in Loopers, DeathInv', OutOfMemory(l)
  PROVE  TableInv' /\ TableStep
<1>0. ListInv /\ ListInv' /\ TypeOK /\ TypeOK'
  BY DEF TableInv, DeathInv, RefInv, ListInv
<1>1. /\ pc[l] = "alloc" /\ pc'[l] = "reply" /\ job' = [job EXCEPT ![l].ok = FALSE]
      /\ UNCHANGED <<listVars, node, todo, alive, asked, answer>>
  BY <1>0 DEF OutOfMemory, Goto, TypeOK, driverVars, clientVars
<1>2. job[l].kind = "add" /\ job[l] \in Work
  BY <1>0, <1>1, WorkMade DEF LoopersKnow, ListInv, TypeOK
<1>3. job'[l].kind = "add"
  BY <1>0, <1>1, <1>2 DEF Work, JobRec, TypeOK
<1>4. job[l].from \in Pending /\ Pending' = Pending \ {job[l].from}
  BY <1>0, <1>1, <1>2, PendingDecided DEF TableInv, Deciding
<1>5. Registered' = Registered
  <2>1. \A n : Held(n)' = Held(n)
    BY <1>1, HeldStays
  <2> QED
    BY <1>0, <1>1, <2>1, HolderStays DEF Registered, listVars
<1>6. job[l].from \in Services
  BY <1>2 DEF Work
<1>7. \A k \in Loopers : k = l
  BY DEF OneLooper
<1>8. Asking'
  BY <1>0, <1>1, <1>2, <1>3, <1>7, AskingStays DEF TableInv, InTodo
<1>9. Looking'
  BY <1>3, <1>7 DEF Looking
<1> QED
  BY <1>1, <1>4, <1>5, <1>6, <1>8, <1>9, TableRefuses DEF TableInv

\* find_svc is no step of the table: the looper now knows what is listed.
LEMMA FindTable ==
  ASSUME TableInv, OneLooper, NEW l \in Loopers, DeathInv', Find(l)
  PROVE  TableInv' /\ TableStep
<1>0. ListInv /\ ListInv' /\ TypeOK /\ TypeOK'
  BY DEF TableInv, DeathInv, RefInv, ListInv
<1> DEFINE e == find_svc(Wanted(l))
<1>1. /\ pc[l] = "find" /\ si' = [si EXCEPT ![l] = e]
      /\ IF job[l].kind = "add"
         THEN pc'[l] \in {"alloc", "test"}
         ELSE pc'[l] = IF e = NoEntry THEN "reply" ELSE "read"
      /\ UNCHANGED <<listVars, job, node, todo, alive, asked, answer>>
  BY <1>0 DEF Find, Goto, TypeOK, driverVars, clientVars
<1>2. job[l].kind \in {"add", "get"}
  BY <1>0, <1>1 DEF LoopersKnow, ListInv
<1>3. job[l].kind = "get" => /\ Wanted(l) = asked[job[l].from]
                             /\ job[l].handle = 0
  BY <1>1 DEF Wanted, TableInv, Looking
<1>4. /\ e = NoEntry => \A f \in Listed : name[f] # Wanted(l)
      /\ e # NoEntry => e \in Listed /\ name[e] = Wanted(l)
  BY <1>0, FindIs DEF TypeOK
<1> HIDE DEF e
<1>5. si'[l] = e /\ Listed' = Listed
  BY <1>0, <1>1 DEF TypeOK, Listed, listVars
<1>6. Looking'
  BY <1>1, <1>2, <1>3, <1>4, <1>5 DEF Looking, OneLooper, listVars
<1>7. Deciding' = Deciding
  BY <1>1 DEF Deciding, OneLooper
<1>8. \A n : Held(n)' = Held(n)
  BY <1>1, <1>2, HeldStays
<1> QED
  BY <1>1, <1>2, <1>6, <1>7, <1>8, QuietTable DEF listVars, InTodo

\* serviceManagerbinderDeath's test of the handle is no step of the table.
LEMMA TestHandleTable ==
  ASSUME TableInv, OneLooper, NEW l \in Loopers, DeathInv', TestHandle(l)
  PROVE  TableInv' /\ TableStep
<1>0. ListInv /\ ListInv' /\ TypeOK /\ TypeOK'
  BY DEF TableInv, DeathInv, RefInv, ListInv
<1>1. /\ pc[l] = "test" /\ pc'[l] \in {"release", "set", "idle"}
      /\ \/ job'[l] = job[l] /\ pc'[l] # "idle"
         \/ job[l].kind # "add" /\ job'[l] = NoJob
      /\ UNCHANGED <<listVars, node, todo, alive, asked, answer>>
  BY <1>0 DEF TestHandle, Finish, Goto, TypeOK, driverVars, clientVars
<1>2. job[l].kind \in {"add", "death"}
  BY <1>0, <1>1 DEF LoopersKnow, ListInv
<1>3. Looking'
  BY <1>1, <1>2, WorkMade DEF Looking, OneLooper
<1>4. Deciding' = Deciding
  BY <1>1, <1>2, WorkMade DEF Deciding, OneLooper
<1>5. \A n : Held(n)' = Held(n)
  BY <1>1, HeldStays
<1> QED
  BY <1>1, <1>2, <1>3, <1>4, <1>5, WorkMade, QuietTable DEF listVars, InTodo, Deciding

\* Clearing the released handle is no step of the table: its name was taken
\* away at the release.
LEMMA ClearHandleTable ==
  ASSUME TableInv, OneLooper, NEW l \in Loopers, DeathInv', ClearHandle(l)
  PROVE  TableInv' /\ TableStep
<1>0. ListInv /\ ListInv' /\ TypeOK /\ TypeOK'
  BY DEF TableInv, DeathInv, RefInv, ListInv
<1>1. /\ pc[l] = "clear" /\ pc'[l] \in {"set", "idle"}
      /\ handle' = [handle EXCEPT ![si[l]] = 0]
      /\ \/ job'[l] = job[l] /\ pc'[l] # "idle"
         \/ job[l].kind # "add" /\ job'[l] = NoJob
      /\ UNCHANGED <<svclist, name, node, todo, alive, asked, answer>>
  BY <1>0 DEF ClearHandle, Finish, Goto, TypeOK, driverVars, clientVars
<1>2. job[l].kind \in {"add", "death"}
  BY <1>0, <1>1 DEF LoopersKnow, ListInv
<1>3. Looking'
  BY <1>1, <1>2, WorkMade DEF Looking, OneLooper
<1>4. Deciding' = Deciding
  BY <1>1, <1>2, WorkMade DEF Deciding, OneLooper
<1>5. \A f \in Entries : handle'[f] = IF f = si[l] THEN 0 ELSE handle[f]
  BY <1>0, <1>1 DEF TypeOK
<1>6. \A n : Held(n)' = Held(n) /\ si[l] \notin Held(n)
  <2>1. Listed' = Listed /\ Listed \subseteq Entries
    BY <1>0, <1>1 DEF Listed, TypeOK
  <2> QED
    BY <1>1, <1>5, <2>1 DEF Held, OneLooper
<1>7. \A n : \A f \in Held(n) : handle'[f] = handle[f]
  <2>1. \A n : Held(n) \subseteq Entries
    BY <1>0 DEF Held, Listed, TypeOK
  <2> QED
    BY <1>5, <1>6, <2>1
<1> QED
  BY <1>1, <1>2, <1>3, <1>4, <1>6, <1>7, WorkMade, QuietTable DEF InTodo, Deciding

\* malloc and the fields of the new svcinfo is no step of the table: nobody
\* sees the entry yet.
LEMMA AllocateTable ==
  ASSUME TableInv, OneLooper, NEW l \in Loopers, DeathInv', Allocate(l)
  PROVE  TableInv' /\ TableStep
<1>0. ListInv /\ ListInv' /\ TypeOK /\ TypeOK'
  BY DEF TableInv, DeathInv, RefInv, ListInv
<1>1. /\ pc[l] = "alloc" /\ pc'[l] = "insert" /\ job[l].kind = "add"
      /\ UNCHANGED <<svclist, job, node, todo, alive, asked, answer>>
  BY <1>0 DEF Allocate, Goto, TypeOK, driverVars, clientVars, LoopersKnow, ListInv
<1>2. PICK e \in Entries :
        /\ name[e] = NoName
        /\ \A f \in Entries \ {e} : name'[f] = name[f] /\ handle'[f] = handle[f]
  BY <1>0 DEF Allocate, TypeOK
<1>3. Listed' = Listed /\ Listed \subseteq Entries /\ e \notin Listed
  BY <1>0, <1>1, <1>2 DEF Listed, TypeOK, ListInv, Allocated
<1>4. Looking'
  BY <1>1 DEF Looking, OneLooper
<1>5. Deciding' = Deciding
  BY <1>1 DEF Deciding, OneLooper
<1>6. \A n : Held(n)' = Held(n)
  BY <1>1, <1>2, <1>3 DEF Held, OneLooper
<1>7. \A n : \A f \in Held(n) : handle'[f] = handle[f]
  BY <1>2, <1>3 DEF Held
<1> QED
  BY <1>1, <1>4, <1>5, <1>6, <1>7, QuietTable DEF InTodo

\* BC_ACQUIRE on the stored handle is no step of the table.
LEMMA AcquireTable ==
  ASSUME TableInv, OneLooper, NEW l \in Loopers, DeathInv', Acquire(l)
  PROVE  TableInv' /\ TableStep
<1>0. ListInv /\ ListInv' /\ TypeOK /\ TypeOK'
  BY DEF TableInv, DeathInv, RefInv, ListInv
<1>1. /\ pc[l] = "acquire" /\ pc'[l] = "link" /\ job[l].kind = "add"
      /\ UNCHANGED <<listVars, job, node, todo, alive, asked, answer>>
  BY <1>0 DEF Acquire, BC_ACQUIRE, Goto, TypeOK, clientVars, LoopersKnow, ListInv
<1>2. Looking' /\ Deciding' = Deciding
  BY <1>1 DEF Looking, Deciding, OneLooper
<1>3. \A n : Held(n)' = Held(n)
  BY <1>1, HeldStays
<1> QED
  BY <1>1, <1>2, <1>3, QuietTable DEF listVars, InTodo

\* linkToDeath is no step of the table.
LEMMA LinkToDeathTable ==
  ASSUME TableInv, OneLooper, NEW l \in Loopers, DeathInv', LinkToDeath(l)
  PROVE  TableInv' /\ TableStep
<1>0. ListInv /\ ListInv' /\ TypeOK /\ TypeOK'
  BY DEF TableInv, DeathInv, RefInv, ListInv
<1>1. /\ pc[l] = "link" /\ pc'[l] = "reply" /\ job[l].kind = "add" /\ si[l] \in Listed
      /\ BC_REQUEST_DEATH_NOTIFICATION(job[l].handle, si[l])
      /\ UNCHANGED <<listVars, job, alive, asked, answer>>
  BY <1>0 DEF LinkToDeath, Goto, TypeOK, clientVars, LoopersKnow, ListInv
<1>2. job[l].handle \in Handles /\ si[l] \in Entries
  <2>1. job[l] \in Work /\ si[l] \in Entries
    BY <1>0, <1>1, WorkMade DEF TypeOK, Listed
  <2> QED
    BY <1>1, <2>1 DEF Work
<1>3. /\ UNCHANGED node
      /\ \/ todo' = todo
         \/ Without(todo, todo', 1) /\ todo'[1] = DeathJob(job[l].handle, si[l])
  BY <1>0, <1>1, <1>2, RequestDoes
<1>4. \A j : j.kind \in {"add", "get"} => (InTodo(j)' <=> InTodo(j))
  <2>1. CASE todo' = todo
    BY <2>1 DEF InTodo
  <2>2. CASE Without(todo, todo', 1) /\ todo'[1] = DeathJob(job[l].handle, si[l])
    <3>1. Len(todo) \in Nat /\ Len(todo') \in Nat /\ todo'[1].kind = "death"
      BY <1>0, <2>2 DEF TypeOK, DeathJob
    <3> QED
      BY <2>2, <3>1, WithoutIn DEF InTodo
  <2> QED
    BY <1>3, <2>1, <2>2
<1>5. Looking' /\ Deciding' = Deciding
  BY <1>1 DEF Looking, Deciding, OneLooper
<1>6. \A n : Held(n)' = Held(n)
  BY <1>1, HeldStays
<1> QED
  BY <1>1, <1>3, <1>4, <1>5, <1>6, QuietTable DEF listVars

\* getService's read of the handle is no step of the table: the answer is what
\* is listed.
LEMMA ReadHandleTable ==
  ASSUME TableInv, OneLooper, NEW l \in Loopers, DeathInv', ReadHandle(l)
  PROVE  TableInv' /\ TableStep
<1>0. ListInv /\ ListInv' /\ TypeOK /\ TypeOK'
  BY DEF TableInv, DeathInv, RefInv, ListInv
<1>1. /\ pc[l] = "read" /\ pc'[l] = "reply" /\ job[l].kind = "get"
      /\ job' = [job EXCEPT ![l].handle = handle[si[l]]]
      /\ UNCHANGED <<listVars, si, node, todo, alive, asked, answer>>
  BY <1>0 DEF ReadHandle, Goto, TypeOK, driverVars, clientVars, LoopersKnow, ListInv
<1>2. job[l] \in Work
  BY <1>0, <1>1, WorkMade DEF TypeOK
<1>3. job'[l].kind = "get" /\ job'[l].from = job[l].from /\ job'[l].handle = handle[si[l]]
  BY <1>0, <1>1, <1>2 DEF Work, JobRec, TypeOK
<1>4. /\ si[l] \in Listed /\ name[si[l]] = asked[job[l].from] /\ Listed' = Listed
  BY <1>0, <1>1 DEF TableInv, Looking, ListInv, LoopersKnow, Listed, listVars
<1>5. Looking'
  BY <1>1, <1>3, <1>4 DEF Looking, OneLooper, listVars
<1>6. Deciding' = Deciding
  BY <1>1, <1>3 DEF Deciding, OneLooper
<1>7. \A n : Held(n)' = Held(n)
  BY <1>1, HeldStays
<1> QED
  BY <1>1, <1>3, <1>5, <1>6, <1>7, QuietTable DEF listVars, InTodo

\* A name is taken away from a service that has died, or for a registration
\* that is pending.
LEMMA ReleaseHandleTable ==
  ASSUME TableInv, OneLooper, NEW l \in Loopers, DeathInv', ReleaseHandle(l)
  PROVE  TableInv' /\ TableStep
<1> DEFINE e == si[l]  h == handle[e]
<1>0. ListInv /\ ListInv' /\ RefInv /\ DeathInv /\ TypeOK /\ TypeOK' /\ NoService \notin Services
  BY NamesOK DEF TableInv, DeathInv, RefInv, ListInv
<1>1. /\ pc[l] = "release" /\ pc'[l] = "clear"
      /\ UNCHANGED <<listVars, job, si, alive, asked, answer>>
  BY <1>0 DEF ReleaseHandle, Goto, TypeOK, clientVars
<1>2. job[l].kind \in {"add", "death"} /\ e \in Listed /\ h # 0
  BY <1>0, <1>1 DEF LoopersKnow, ListInv
<1>3. h \in Handles /\ node[h] # NoService /\ BC_RELEASE(h)
  BY <1>0, ReleaseHandleRefs
<1>4. /\ \A k \in Handles \ {h} : node'[k] = node[k]
      /\ \A j : j.kind \in {"add", "get"} => (InTodo(j)' <=> InTodo(j))
  BY <1>0, <1>3, ReleaseForgets
<1>a. PICK n : n = name[e]
  OBVIOUS
<1>5. e \in Held(n)
  BY <1>1, <1>2, <1>a DEF Held, OneLooper
<1>6. /\ n \in Names /\ node[h] \in Services /\ NameOf[node[h]] = n
  BY <1>0, <1>5, HeldKnown, NamesOK
<1>7. Listed' = Listed
  BY <1>1 DEF Listed, listVars
<1> HIDE DEF e, h
<1>8. \A m : Held(m)' = Held(m) \ {e}
  BY <1>1, <1>7 DEF Held, OneLooper, listVars, e
<1>9. ASSUME NEW m, m # n
      PROVE  Holder(m)' = Holder(m)
  <2>1. Held(m)' = Held(m)
    BY <1>8, <1>9, <1>a DEF Held
  <2>2. ASSUME NEW f \in Held(m)
        PROVE  node'[handle'[f]] = node[handle[f]]
    <3>1. handle[f] \in Handles /\ NameOf[node[handle[f]]] = m
      BY <1>0, HeldKnown
    <3>2. handle[f] # h
      BY <1>6, <1>9, <3>1
    <3> QED
      BY <1>1, <1>4, <3>1, <3>2 DEF listVars
  <2> QED
    BY <1>0, <2>1, <2>2, HolderStays
<1>10. Holder(n) = node[h] /\ Holder(n)' = NoService
  <2>1. OneTable /\ OneTable'
    BY <1>0, OneHolds, PTL
  <2>2. Held(n)' = {}
    <3>1. \A f \in Held(n) : f = e
      BY <1>0, <1>5, <1>a, HeldKnown, NamesOK DEF ListInv, OneEntryPerName, Allocated
    <3> QED
      BY <1>8, <3>1
  <2> QED
    BY <1>5, <2>1, <2>2 DEF OneTable, h
<1>11. Registered' = [Registered EXCEPT ![n] = NoService] /\ Registered[n] = node[h]
  BY <1>6, <1>9, <1>10 DEF Registered
<1>12. Pending' = Pending
  <2>1. Deciding' = Deciding
    BY <1>1 DEF Deciding, OneLooper
  <2> QED
    BY <1>0, <1>1, <1>4, <2>1, PendingStays
<1>13. node[h] \notin alive \/ \E s \in Pending : NameOf[s] = n
  <2>1. CASE job[l].kind = "add"
    <3>1. l \in Deciding
      BY <1>1, <2>1 DEF Deciding
    <3>2. job[l].from \in Pending
      BY <3>1 DEF Pending
    <3>3. NameOf[job[l].from] = n
      BY <1>0, <1>1, <1>a, <2>1 DEF ListInv, LoopersKnow, e
    <3> QED
      BY <3>2, <3>3
  <2>2. CASE job[l].kind = "death"
    <3>1. job[l].handle = h
      BY <1>0, <1>1, <2>2, DeathIsHeld DEF h, e
    <3>2. job[l] \in Work /\ Telling(job[l])
      BY <1>0, <1>1, <2>2, DeathInHand
    <3> QED
      BY <1>0, <2>2, <3>1, <3>2 DEF DeathInv, DeathsTrue, IsDeath
  <2> QED
    BY <1>2, <2>1, <2>2
<1>14. Asking'
  BY <1>0, <1>1, <1>4, AskingStays DEF TableInv
<1>15. Looking'
  BY <1>1, <1>2 DEF Looking, OneLooper
<1> QED
  BY <1>0, <1>1, <1>6, <1>3, <1>11, <1>12, <1>13, <1>14, <1>15, TableWithdraws DEF TableInv

\* The two ways in which an entry comes to hold a name for a registration.
LEMMA Registers ==
  ASSUME TableInv, OneLooper, NEW l \in Loopers, DeathInv',
         NEW e \in Entries, pc[l] \in {"set", "insert"}, pc'[l] = "acquire",
         si[l] = e, job[l].kind = "add", name[e] = NameOf[job[l].from],
         e \in Listed', Listed' \subseteq Listed \cup {e}, Listed \subseteq Listed',
         e \notin Listed \/ handle[e] = 0,
         handle'[e] = job[l].handle, \A f \in Entries \ {e} : handle'[f] = handle[f],
         UNCHANGED <<name, job, si, node, todo, alive, asked, answer>>
  PROVE  TableInv' /\ TableStep
<1>a. PICK s : s = job[l].from
  OBVIOUS
<1> DEFINE h == job[l].handle  n == NameOf[s]
<1>0. ListInv /\ ListInv' /\ RefInv /\ TypeOK /\ TypeOK'
  BY DEF TableInv, DeathInv, RefInv, ListInv
<1>1. s \in Services /\ h \in Handles /\ h # 0 /\ n \in Names
  <2>1. job[l] \in Work
    BY <1>0, WorkMade DEF TypeOK
  <2> QED
    BY <1>a, <2>1, NamesOK DEF Work, Handles
<1>2. node[h] = s
  BY <1>0, <1>a DEF RefInv, Stand
<1>3. \A m : Held(m)' = IF m = n THEN Held(m) \cup {e} ELSE Held(m)
  <2>1. Listed \subseteq Entries
    BY <1>0 DEF TypeOK, Listed
  <2> QED
    BY <1>1, <1>a, <2>1 DEF Held, OneLooper
<1>4. \A m : e \notin Held(m)
  BY DEF Held
<1>5. ASSUME NEW m, m # n
      PROVE  Holder(m)' = Holder(m)
  <2>1. Held(m)' = Held(m) /\ \A f \in Held(m) : handle'[f] = handle[f]
    BY <1>0, <1>3, <1>4, <1>5, HeldKnown
  <2> QED
    BY <1>0, <2>1, HolderStays
<1>6. Holder(n)' = s
  <2>1. OneTable'
    BY <1>0, OneHolds, PTL
  <2>2. e \in Held(n)'
    BY <1>3
  <2> QED
    BY <1>2, <2>1, <2>2 DEF OneTable
<1> HIDE DEF n
<1>7. Registered' = [Registered EXCEPT ![n] = s]
  BY <1>1, <1>5, <1>6 DEF Registered
<1>8. s \in Pending /\ Pending' = Pending \ {s}
  BY <1>0, <1>a, PendingDecided DEF TableInv, Deciding
<1>9. Asking'
  BY <1>0, AskingStays DEF TableInv, InTodo
<1>10. Looking'
  BY DEF Looking, OneLooper
<1> QED
  BY <1>1, <1>7, <1>8, <1>9, <1>10, TableRegisters DEF TableInv, n

\* Storing the new handle registers the service in the entry of its name.
LEMMA SetHandleTable ==
  ASSUME TableInv, OneLooper, NEW l \in Loopers, DeathInv', SetHandle(l)
  PROVE  TableInv' /\ TableStep
<1>0. TypeOK
  BY DEF TableInv, DeathInv, RefInv, ListInv
<1>1. /\ pc[l] = "set" /\ pc'[l] = "acquire"
      /\ handle' = [handle EXCEPT ![si[l]] = job[l].handle]
      /\ UNCHANGED <<svclist, name, job, si, node, todo, alive, asked, answer>>
  BY <1>0 DEF SetHandle, Goto, TypeOK, driverVars, clientVars
<1>2. /\ job[l].kind = "add" /\ si[l] \in Listed /\ handle[si[l]] = 0
      /\ name[si[l]] = NameOf[job[l].from]
  BY <1>1 DEF TableInv, DeathInv, RefInv, ListInv, LoopersKnow
<1>3. Listed' = Listed /\ si[l] \in Entries
  BY <1>0, <1>1, <1>2 DEF Listed, TypeOK
<1>4. /\ handle'[si[l]] = job[l].handle
      /\ \A f \in Entries \ {si[l]} : handle'[f] = handle[f]
  BY <1>0, <1>1, <1>3 DEF TypeOK
<1> QED
  BY <1>1, <1>2, <1>3, <1>4, Registers

\* Putting the new svcinfo at the head registers the service under a new name.
LEMMA InsertTable ==
  ASSUME TableInv, OneLooper, NEW l \in Loopers, DeathInv', Insert(l)
  PROVE  TableInv' /\ TableStep
<1>0. ListInv /\ TypeOK
  BY DEF TableInv, DeathInv, RefInv, ListInv
<1>1. /\ pc[l] = "insert" /\ pc'[l] = "acquire"
      /\ UNCHANGED <<handle, name, job, si, node, todo, alive, asked, answer>>
  BY <1>0 DEF Insert, Goto, TypeOK, driverVars, clientVars
<1>2. /\ job[l].kind = "add" /\ si[l] \in Entries \ Listed
      /\ handle[si[l]] = job[l].handle /\ name[si[l]] = NameOf[job[l].from]
  BY <1>0, <1>1 DEF ListInv, LoopersKnow
<1>3. Listed' = Listed \cup {si[l]}
  BY <1>0, InsertList
<1> QED
  BY <1>1, <1>2, <1>3, Registers

\* The reply that frees the buffer is no step of the table: a handle that is in
\* use keeps its service.
LEMMA ReplyToAddTable ==
  ASSUME TableInv, OneLooper, NEW l \in Loopers, DeathInv', ReplyToAdd(l)
  PROVE  TableInv' /\ TableStep
<1> DEFINE h == job[l].handle
<1>0. ListInv /\ ListInv' /\ RefInv /\ DeathInv /\ TypeOK /\ TypeOK'
  BY DEF TableInv, DeathInv, RefInv, ListInv
<1>1. /\ pc[l] = "reply" /\ pc'[l] = "idle" /\ job[l].kind = "add" /\ job'[l] = NoJob
      /\ BC_RELEASE(h) /\ UNCHANGED <<listVars, alive, asked, answer>>
  BY <1>0, FinishKnows DEF ReplyToAdd, clientVars
<1>2. h \in Handles /\ node[h] # NoService /\ FewerEntries
  BY <1>0, ReplyToAddRefs
<1>3. /\ \A k \in Handles \ {h} : node'[k] = node[k]
      /\ node'[h] \in {node[h], NoService}
      /\ \A j : j.kind \in {"add", "get"} => (InTodo(j)' <=> InTodo(j))
  BY <1>0, <1>1, <1>2, ReleaseForgets
<1> HIDE DEF h
<1>4. \A n : Held(n)' = Held(n)
  BY <1>1, HeldStays
<1>5. ASSUME NEW n, NEW e \in Held(n)
      PROVE  node'[handle'[e]] = node[handle[e]]
  <2>1. e \in Entries /\ handle[e] \in Handles
    BY <1>0, HeldKnown
  <2>2. ~Unheld(e)'
    BY <1>1 DEF Unheld, OneLooper
  <2>3. PICK k \in Handles : k = handle[e]
    BY <2>1
  <2>4. e \in EntriesOf(k)'
    BY <1>1, <2>1, <2>2, <2>3 DEF EntriesOf, listVars
  <2>5. node'[k] # NoService
    BY <1>2, <2>3, <2>4 DEF FewerEntries
  <2> QED
    BY <1>1, <1>3, <2>1, <2>3, <2>5 DEF listVars
<1>6. Looking' /\ Deciding' = Deciding /\ l \notin Deciding
  BY <1>1, WorkMade DEF Looking, Deciding, OneLooper
<1> QED
  BY <1>1, <1>3, <1>4, <1>5, <1>6, WorkMade, QuietTable

-----------------------------------------------------------------------------
(* Lookups asked for and answered.                                           *)

WaitsFor(c) == \/ \E j \in Work : j.kind = "get" /\ j.from = c /\ InTodo(j)
               \/ \E l \in Loopers : job[l].kind = "get" /\ job[l].from = c
WaitersKnown ==
  \A c : (\E j \in Jobs : j.kind = "get" /\ j.from = c) <=> WaitsFor(c)

\* The clients that wait, by where their lookups are.
LEMMA WaitersAre == TypeOK => WaitersKnown
<1> SUFFICES ASSUME TypeOK, NEW c
             PROVE  (\E j \in Jobs : j.kind = "get" /\ j.from = c) <=> WaitsFor(c)
  BY DEF WaitersKnown
<1>1. \A j : j \in Jobs <=> InTodo(j) \/ \E l \in Loopers : job[l] = j
  BY JobsAre
<1>2. \A j : InTodo(j) => j \in Work
  BY DEF TypeOK, InTodo, In
<1> QED
  BY <1>1, <1>2 DEF WaitsFor

\* Clients wait as their lookups are queued and worked on.
LEMMA AskingBy ==
  ASSUME TypeOK', \A c \in Clients : asked'[c] # NoName <=> WaitsFor(c)',
         \A j \in Work : InTodo(j)' /\ j.kind = "get" => j = GetJob(j.from)
  PROVE  Asking'
<1>1. WaitersKnown'
  BY WaitersAre, PTL
<1>2. \A c \in Clients :
        asked'[c] # NoName <=> (\E j \in Jobs' : j.kind = "get" /\ j.from = c)
  BY <1>1 DEF WaitersKnown
<1>3. ASSUME NEW k \in DOMAIN todo', todo'[k].kind = "get"
      PROVE  todo'[k] = GetJob(todo'[k].from)
  <2>1. PICK j : j = todo'[k]
    OBVIOUS
  <2>2. InTodo(j)' /\ j \in Work
    BY <2>1 DEF InTodo, In, TypeOK
  <2> QED
    BY <1>3, <2>1, <2>2
<1> QED
  BY <1>2, <1>3 DEF Asking

\* What Asking says of each lookup.
LEMMA AskingSays ==
  ASSUME TypeOK, Asking
  PROVE  /\ \A c \in Clients : asked[c] # NoName <=> WaitsFor(c)
         /\ \A j \in Work : InTodo(j) /\ j.kind = "get" => j = GetJob(j.from)
<1>1. WaitersKnown
  BY WaitersAre
<1>2. DOMAIN todo = 1 .. Len(todo)
  BY DEF TypeOK
<1> QED
  BY <1>1, <1>2 DEF WaitersKnown, Asking, InTodo, In

\* A lookup is answered with the service that has the name.
LEMMA ReplyToGetTable ==
  ASSUME TableInv, OneLooper, NEW l \in Loopers, DeathInv', ReplyToGet(l)
  PROVE  TableInv' /\ TableStep
<1>0. ListInv /\ ListInv' /\ RefInv /\ DeathInv /\ TypeOK /\ TypeOK'
  BY DEF TableInv, DeathInv, RefInv, ListInv
<1>a. PICK c, h : c = job[l].from /\ h = job[l].handle
  OBVIOUS
<1>1. /\ pc[l] = "reply" /\ pc'[l] = "idle" /\ job[l].kind = "get" /\ job'[l] = NoJob
      /\ answer' = [answer EXCEPT ![c] = IF h = 0 THEN NoService ELSE node[h]]
      /\ asked' = [asked EXCEPT ![c] = NoName]
      /\ UNCHANGED <<listVars, node, todo, alive>>
  BY <1>0, <1>a, FinishKnows DEF ReplyToGet, driverVars
<1>2. job[l] \in Work /\ c \in Clients
  BY <1>0, <1>1, <1>a, WorkMade DEF TypeOK, Work
<1>3. \A d \in Clients : asked[d] # NoName <=> WaitsFor(d)
  BY <1>0, AskingSays DEF TableInv
<1>4. asked[c] # NoName /\ asked[c] \in Names
  BY <1>0, <1>1, <1>2, <1>3, <1>a DEF WaitsFor, TypeOK
<1>5. \A j \in Work : InTodo(j) /\ j.kind = "get" => j.from # c
  BY <1>1, <1>a DEF DeathInv, TableInv, Ordered, Follows
<1>6. NoJob.kind = "none" /\ \A k \in Loopers : k = l
  BY WorkMade DEF OneLooper
<1>7. \A d : WaitsFor(d)' <=> WaitsFor(d) /\ d # c
  BY <1>1, <1>5, <1>6, <1>a DEF WaitsFor, InTodo
<1>8. Asking'
  <2>1. \A d \in Clients : asked'[d] # NoName <=> WaitsFor(d)'
    BY <1>0, <1>1, <1>2, <1>3, <1>7 DEF TypeOK
  <2>2. \A j \in Work : InTodo(j)' /\ j.kind = "get" => j = GetJob(j.from)
    BY <1>0, <1>1, AskingSays DEF TableInv, InTodo
  <2> QED
    BY <1>0, <2>1, <2>2, AskingBy
<1>9. Looking'
  BY <1>1, <1>6 DEF Looking
<1>10. Holder(asked[c]) = IF h = 0 THEN NoService ELSE node[h]
  <2> DEFINE n == asked[c]
  <2>1. OneTable
    BY <1>0, OneHolds
  <2>2. CASE h = 0 /\ \A e \in Listed : name[e] # n
    BY <2>1, <2>2 DEF OneTable, Held
  <2>3. ASSUME NEW e \in Listed, name[e] = n, handle[e] = h
        PROVE  Holder(n) = IF h = 0 THEN NoService ELSE node[h]
    <3>1. Listed \subseteq Entries
      BY <1>0 DEF TypeOK, Listed
    <3>2. \A f \in Held(n) : f = e
      BY <1>0, <1>4, <2>3, <3>1 DEF Held, ListInv, OneEntryPerName
    <3>3. CASE h = 0
      <4>1. Held(n) = {}
        BY <2>3, <3>2, <3>3 DEF Held
      <4> QED
        BY <2>1, <3>3, <4>1 DEF OneTable
    <3>4. CASE h # 0
      <4>1. e \in Held(n)
        BY <1>1, <1>6, <2>3, <3>4 DEF Held
      <4> QED
        BY <2>1, <2>3, <3>4, <4>1 DEF OneTable
    <3> QED
      BY <3>3, <3>4
  <2> QED
    BY <1>1, <1>a, <2>2, <2>3 DEF TableInv, Looking
<1>11. Registered[asked[c]] = IF h = 0 THEN NoService ELSE node[h]
  BY <1>4, <1>10 DEF Registered
<1>12. Registered' = Registered
  <2>1. \A n : Held(n)' = Held(n)
    BY <1>1, HeldStays
  <2> QED
    BY <1>0, <1>1, <2>1, HolderStays DEF Registered, listVars
<1>13. Pending' = Pending
  <2>1. Deciding = {} /\ Deciding' = {}
    BY <1>1, <1>6 DEF Deciding
  <2>2. \A j : InTodo(j)' <=> InTodo(j)
    BY <1>1 DEF InTodo
  <2> QED
    BY <1>0, <2>1, <2>2, PendingStays
<1> QED
  BY <1>1, <1>2, <1>4, <1>8, <1>9, <1>11, <1>12, <1>13, TableAnswers DEF TableInv

\* A looper that takes work is no step of the table: a registration stays
\* pending, a lookup stays asked.
LEMMA TakeTable ==
  ASSUME TableInv, OneLooper, NEW l \in Loopers, DeathInv', Take(l)
  PROVE  TableInv' /\ TableStep
<1>0. ListInv /\ ListInv' /\ TypeOK /\ TypeOK'
  BY DEF TableInv, DeathInv, RefInv, ListInv
<1>a. PICK j : j = Head(todo)
  OBVIOUS
<1>1. /\ pc[l] = "idle" /\ pc'[l] = (IF j.kind = "death" THEN "test" ELSE "find")
      /\ todo # <<>> /\ todo' = Tail(todo) /\ job'[l] = j
      /\ UNCHANGED <<listVars, node, alive, asked, answer>>
  BY <1>0, <1>a DEF Take, Goto, TypeOK, clientVars
<1>2. /\ Len(todo) \in Nat /\ Len(todo') \in Nat
      /\ Without(todo', todo, 1) /\ j = todo[1] /\ j \in Work
  BY <1>0, <1>1, <1>a, TailWithout DEF TypeOK
<1>3. job[l].kind = "none" /\ \A k \in Loopers : k = l
  BY <1>0, <1>1 DEF OneLooper, ListInv, LoopersKnow
<1>4. \A i : InTodo(i) <=> InTodo(i)' \/ i = j
  BY <1>2, WithoutIn DEF InTodo
<1>5. Asking'
  <2>1. \A c : WaitsFor(c)' <=> WaitsFor(c)
    BY <1>1, <1>2, <1>3, <1>4 DEF WaitsFor
  <2>2. \A c \in Clients : asked'[c] # NoName <=> WaitsFor(c)'
    BY <1>0, <1>1, <2>1, AskingSays DEF TableInv
  <2>3. \A i \in Work : InTodo(i)' /\ i.kind = "get" => i = GetJob(i.from)
    BY <1>0, <1>4, AskingSays DEF TableInv
  <2> QED
    BY <1>0, <2>2, <2>3, AskingBy
<1>6. Looking'
  <2>1. j.kind = "get" => j = GetJob(j.from)
    BY <1>0, <1>2, <1>4, AskingSays DEF TableInv
  <2>2. j.kind = "get" => j.ok /\ j.handle = 0 /\ pc'[l] = "find"
    BY <1>1, <2>1 DEF GetJob
  <2> QED
    BY <1>1, <1>3, <2>2 DEF Looking
<1>7. Pending' = Pending
  <2>1. PendingKnown /\ PendingKnown'
    BY <1>0, PendingIs, PTL
  <2>2. Deciding = {} /\ Deciding' = IF j.kind = "add" THEN {l} ELSE {}
    BY <1>1, <1>3 DEF Deciding
  <2>3. \A s : s \in Pending <=> \E i \in Work : i.kind = "add" /\ i.from = s /\ InTodo(i)
    BY <2>1, <2>2 DEF PendingKnown
  <2>4. \A s : s \in Pending' <=> \/ \E i \in Work : i.kind = "add" /\ i.from = s /\ InTodo(i)'
                                  \/ j.kind = "add" /\ j.from = s
    BY <1>1, <2>1, <2>2 DEF PendingKnown
  <2>5. \A s : s \in Pending' <=> s \in Pending
    BY <1>2, <1>4, <2>3, <2>4
  <2> QED
    BY <2>5 DEF Pending
<1>8. Registered' = Registered
  <2>1. \A n : Held(n)' = Held(n)
    BY <1>1, HeldStays
  <2> QED
    BY <1>0, <1>1, <2>1, HolderStays DEF Registered, listVars
<1> QED
  BY <1>1, <1>5, <1>6, <1>7, <1>8, TableStays DEF TableInv
-----------------------------------------------------------------------------
(* The steps of the processes.                                               *)

\* Asking for a name is a question to the table.
LEMMA CallGetServiceTable ==
  ASSUME TableInv, NEW c \in Clients, DeathInv', CallGetService(c)
  PROVE  TableInv' /\ TableStep
<1>0. ListInv /\ ListInv' /\ TypeOK /\ TypeOK' /\ NoName \notin Names
  BY NamesOK DEF TableInv, DeathInv, RefInv, ListInv
<1> DEFINE j == GetJob(c)
<1>1. PICK n \in Names :
        /\ asked' = [asked EXCEPT ![c] = n] /\ todo' = Append(todo, j)
        /\ UNCHANGED <<listVars, looperVars, node, alive, answer>>
  BY DEF CallGetService
<1>2. j \in Work /\ j.kind = "get" /\ j.from = c
  BY WorkMade DEF GetJob
<1>3. asked[c] = NoName /\ ~WaitsFor(c)
  <2>1. ~\E i \in Jobs : i.kind = "get" /\ i.from = c
    BY DEF CallGetService, Calling
  <2> QED
    BY <1>0, <2>1, WaitersAre DEF TableInv, Asking, WaitersKnown
<1> HIDE DEF j
<1>4. \A i : InTodo(i)' <=> InTodo(i) \/ i = j
  BY <1>0, <1>1, <1>2, AppendedIn DEF InTodo, TypeOK
<1>5. Asking'
  <2>1. \A d : WaitsFor(d)' <=> WaitsFor(d) \/ d = c
    BY <1>1, <1>2, <1>4 DEF WaitsFor, looperVars
  <2>2. \A d \in Clients : asked'[d] # NoName <=> WaitsFor(d)'
    BY <1>0, <1>1, <2>1, AskingSays DEF TableInv, TypeOK
  <2>3. \A i \in Work : InTodo(i)' /\ i.kind = "get" => i = GetJob(i.from)
    BY <1>0, <1>2, <1>4, AskingSays DEF TableInv, j
  <2> QED
    BY <1>0, <2>2, <2>3, AskingBy
<1>6. Looking'
  <2>1. \A l \in Loopers : job[l].kind = "get" => asked'[job[l].from] = asked[job[l].from]
    BY <1>0, <1>1, <1>3 DEF WaitsFor, TypeOK
  <2>2. Listed' = Listed /\ UNCHANGED <<pc, job, si, name, handle>>
    BY <1>1 DEF Listed, listVars, looperVars
  <2> QED
    BY <2>1, <2>2 DEF TableInv, Looking
<1>7. Pending' = Pending
  <2>1. Deciding' = Deciding
    BY <1>1 DEF Deciding, looperVars
  <2> QED
    BY <1>0, <1>1, <1>2, <1>4, <2>1, PendingStays DEF looperVars
<1>8. Registered' = Registered
  <2>1. \A m : Held(m)' = Held(m)
    BY <1>1 DEF Held, Listed, listVars, looperVars
  <2> QED
    BY <1>0, <1>1, <2>1, HolderStays DEF Registered, listVars
<1> QED
  BY <1>1, <1>3, <1>5, <1>6, <1>7, <1>8, TableIsAsked DEF TableInv

\* Asking to register makes a registration pending.
LEMMA CallAddServiceTable ==
  ASSUME TableInv, OneLooper, NEW s \in Services, DeathInv', CallAddService(s)
  PROVE  TableInv' /\ TableStep
<1>0. ListInv /\ ListInv' /\ RefInv /\ TypeOK /\ TypeOK' /\ s # NoService /\ s \in alive
  BY NamesOK DEF TableInv, DeathInv, RefInv, ListInv, CallAddService
<1>1. PICK h \in Handles, ok \in BOOLEAN :
        /\ node[h] \in {s, NoService} /\ node' = [node EXCEPT ![h] = s]
        /\ todo' = Append(todo, AddJob(s, h, ok))
        /\ UNCHANGED <<listVars, looperVars, alive, asked, answer>>
  BY <1>0, HandleForIs DEF CallAddService, ListInv, TypeOK
<1> DEFINE j == AddJob(s, h, ok)
<1>2. j \in Work /\ j.kind = "add" /\ j.from = s
  BY WorkMade DEF AddJob
<1> HIDE DEF j
<1>3. \A i : InTodo(i)' <=> InTodo(i) \/ i = j
  BY <1>0, <1>1, <1>2, AppendedIn DEF InTodo, TypeOK, j
<1>4. Asking'
  BY <1>0, <1>1, <1>2, <1>3, AskingStays DEF TableInv, looperVars
<1>5. Looking'
  <2>1. Listed' = Listed /\ UNCHANGED <<pc, job, si, name, handle, asked>>
    BY <1>1 DEF Listed, listVars, looperVars
  <2> QED
    BY <2>1 DEF TableInv, Looking
<1>6. Pending' = Pending \cup {s}
  <2>1. PendingKnown /\ PendingKnown'
    BY <1>0, PendingIs, PTL
  <2>2. Deciding' = Deciding /\ job' = job
    BY <1>1 DEF Deciding, looperVars
  <2>3. \A t : t \in Pending' <=> \/ \E i \in Work : i.kind = "add" /\ i.from = t /\ InTodo(i)'
                                  \/ \E l \in Deciding : job[l].from = t
    BY <2>1, <2>2 DEF PendingKnown
  <2>4. \A t : t \in Pending' <=> t \in Pending \/ t = s
    BY <1>2, <1>3, <2>1, <2>3 DEF PendingKnown
  <2> QED
    BY <2>4 DEF Pending
<1>7. Registered' = Registered
  <2>1. \A n : Held(n)' = Held(n)
    BY <1>1 DEF Held, Listed, listVars, looperVars
  <2>2. ASSUME NEW n, NEW e \in Held(n)
        PROVE  node'[handle'[e]] = node[handle[e]]
    <3>1. handle[e] \in Handles /\ node[handle[e]] \in Services
      BY <1>0, HeldKnown
    <3> QED
      BY <1>0, <1>1, <3>1, NamesOK DEF listVars, TypeOK
  <2> QED
    BY <1>0, <2>1, <2>2, HolderStays DEF Registered
<1> QED
  BY <1>0, <1>1, <1>4, <1>5, <1>6, <1>7, TableAsks DEF TableInv

\* A service's death is the death of a service of the table.
LEMMA DieTable ==
  ASSUME TableInv, NEW s \in Services, DeathInv', Die(s)
  PROVE  TableInv' /\ TableStep
<1>0. ListInv /\ ListInv' /\ TypeOK /\ TypeOK'
  BY DEF TableInv, DeathInv, RefInv, ListInv
<1>1. alive' = alive \ {s} /\ UNCHANGED <<listVars, looperVars, node, death, asked, answer>>
  BY DEF Die
<1>2. \A j : j.kind \in {"add", "get"} => (InTodo(j)' <=> InTodo(j))
  <2> DEFINE told == {h \in Handles : node[h] = s /\ death[h] # NoEntry}
             h == CHOOSE h \in told : TRUE
  <2>1. CASE told = {}
    BY <2>1 DEF Die, InTodo
  <2>2. CASE told # {}
    <3>1. h \in told /\ todo' = Append(todo, DeathJob(h, death[h]))
      BY <2>2 DEF Die
    <3>2. DeathJob(h, death[h]) \in Work /\ DeathJob(h, death[h]).kind = "death"
      BY <1>0, <3>1, WorkMade DEF TypeOK, DeathJob
    <3> QED
      BY <1>0, <3>1, <3>2, AppendedIn DEF InTodo, TypeOK
  <2> QED
    BY <2>1, <2>2
<1>3. Asking'
  BY <1>0, <1>1, <1>2, AskingStays DEF TableInv, looperVars
<1>4. Looking'
  <2>1. Listed' = Listed /\ UNCHANGED <<pc, job, si, name, handle, asked>>
    BY <1>1 DEF Listed, listVars, looperVars
  <2> QED
    BY <2>1 DEF TableInv, Looking
<1>5. Pending' = Pending
  <2>1. Deciding' = Deciding
    BY <1>1 DEF Deciding, looperVars
  <2> QED
    BY <1>0, <1>1, <1>2, <2>1, PendingStays DEF looperVars
<1>6. Registered' = Registered
  <2>1. \A n : Held(n)' = Held(n)
    BY <1>1 DEF Held, Listed, listVars, looperVars
  <2> QED
    BY <1>0, <1>1, <2>1, HolderStays DEF Registered, listVars
<1> QED
  BY <1>1, <1>3, <1>4, <1>5, <1>6, TableDies DEF TableInv
-----------------------------------------------------------------------------
(* The refinement.                                                           *)

\* The table is empty at first.
LEMMA TableInit == Init => TableInv /\ Registry!SRInit
<1> SUFFICES ASSUME Init
             PROVE  TableInv /\ Registry!SRInit
  OBVIOUS
<1>0. DeathInv /\ ListInv /\ TypeOK
  BY DeathInit DEF DeathInv, RefInv, ListInv
<1>1. (\A l \in Loopers : job[l].kind = "none") /\ \A j : ~InTodo(j)
  BY WorkMade DEF Init, InTodo, In
<1>2. Asking
  <2>1. \A c : ~\E j \in Jobs : j.kind = "get" /\ j.from = c
    BY <1>0, <1>1, WaitersAre DEF WaitersKnown, WaitsFor
  <2> QED
    BY <2>1 DEF Init, Asking
<1>3. Looking
  BY <1>1 DEF Looking
<1>4. Pending = {}
  <2>1. \A s : s \notin Pending
    BY <1>0, <1>1, PendingIs DEF PendingKnown, Deciding
  <2> QED
    BY <2>1 DEF Pending
<1>5. Registered = [n \in Names |-> NoService]
  <2>1. \A n : Held(n) = {}
    BY DEF Init, Held, Listed
  <2> QED
    BY <1>0, <2>1, OneHolds DEF OneTable, Registered
<1> QED
  BY <1>0, <1>2, <1>3, <1>4, <1>5 DEF TableInv, Registry!SRInit, Init, Pending, Registered

\* Where nothing changes the table does not.
LEMMA TableStutters ==
  ASSUME TableInv, DeathInv', UNCHANGED vars
  PROVE  TableInv' /\ TableStep
<1>0. ListInv /\ ListInv' /\ TypeOK /\ TypeOK'
  BY DEF TableInv, DeathInv, RefInv, ListInv
<1>1. UNCHANGED <<svclist, name, handle, pc, job, si, node, todo, alive, asked, answer>>
  BY DEF vars, listVars, looperVars, driverVars, clientVars
<1>2. Listed' = Listed /\ Deciding' = Deciding /\ \A n : Held(n)' = Held(n)
  BY <1>1 DEF Listed, Deciding, Held
<1>3. Asking'
  BY <1>0, <1>1, AskingStays DEF TableInv, InTodo
<1>4. Looking'
  BY <1>1, <1>2 DEF TableInv, Looking
<1>5. Pending' = Pending
  BY <1>0, <1>1, <1>2, PendingStays DEF InTodo
<1>6. Registered' = Registered
  BY <1>0, <1>1, <1>2, HolderStays DEF Registered
<1> QED
  BY <1>1, <1>3, <1>4, <1>5, <1>6, TableStays DEF TableInv

\* Every step of the loopers and of the processes is a step of the table.
LEMMA TableNext == TableInv /\ OneLooper /\ [Next]_vars => TableInv' /\ TableStep
<1> SUFFICES ASSUME TableInv, OneLooper, [Next]_vars
             PROVE  TableInv' /\ TableStep
  OBVIOUS
<1>1. DeathInv'
  BY DeathStep DEF TableInv
<1>2. CASE UNCHANGED vars
  BY <1>1, <1>2, TableStutters
<1>3. ASSUME NEW l \in Loopers, LooperStep(l)
      PROVE  TableInv' /\ TableStep
  BY <1>1, <1>3, TakeTable, RefuseAddTable, FindTable, TestHandleTable,
     ReleaseHandleTable, ClearHandleTable, SetHandleTable, AllocateTable,
     OutOfMemoryTable, InsertTable, AcquireTable, LinkToDeathTable,
     ReadHandleTable, ReplyToAddTable, ReplyToGetTable
  DEF LooperStep
<1>4. CASE Next
  BY <1>1, <1>3, <1>4, CallAddServiceTable, CallGetServiceTable, DieTable DEF Next
<1> QED
  BY <1>2, <1>4

\* With one looper the list is one table from names to services.
THEOREM TheListIsATable ==
  ASSUME OneLooper
  PROVE  Spec => ImplementsServiceRegistry
<1>1. Init => TableInv /\ Registry!SRInit
  BY TableInit
<1>2. TableInv /\ [Next]_vars => TableInv' /\ [Registry!SRNext]_(Registry!srVars)
  BY TableNext DEF TableStep
<1> QED
  BY <1>1, <1>2, PTL DEF Spec, ImplementsServiceRegistry, Registry!SRSpec

\* With one looper, nothing is left to do once it has no work: every process
\* has its answer, and no name is held by a service that has died, whenever
\* it died and whatever was queued then (ServiceManager.cpp:55-66).  That a
\* looper with work goes on is what TLC adds in NobodyIsForgotten.
THEOREM NothingIsLeftWhenIdle ==
  ASSUME OneLooper
  PROVE  Spec => [](Idle => NothingIsLeft)
<1>1. ASSUME TableInv, HandlesAreOurs, DeathIsArmed, Idle
      PROVE  NothingIsLeft
  <2>1. TypeOK /\ LoopersKnow /\ Asking
    BY <1>1 DEF TableInv, DeathInv, RefInv, ListInv
  <2>2. \A j : ~InTodo(j)
    BY <1>1 DEF Idle, InTodo, In
  <2>3. \A l \in Loopers : job[l].kind = "none"
    BY <1>1, <2>1 DEF Idle, AtRest, LoopersKnow
  <2>4. \A j \in Jobs : j.kind = "none"
    BY <2>1, <2>2, <2>3, JobsAre, Zenon
  <2>5. \A p \in Services \cup Clients : ~Calling(p)
    BY <2>4 DEF Calling
  <2>6. \A c \in Clients : asked[c] = NoName
    BY <2>1, <2>4 DEF Asking
  <2>7. ASSUME NEW n \in Names, Held(n) # {}
        PROVE  Holder(n) \in alive
    <3>1. PICK e : e \in Held(n) /\ Holder(n) = node[handle[e]]
      BY <2>7 DEF Holder
    <3>2. e \in Listed /\ handle[e] # 0
      BY <3>1 DEF Held
    <3>3. ~InTodo(DeathJob(handle[e], e))
      BY <2>2
    <3>4. DOMAIN todo = 1 .. Len(todo)
      BY <2>1 DEF TypeOK
    <3> QED
      BY <1>1, <3>1, <3>2, <3>3, <3>4 DEF Idle, DeathIsArmed, InTodo, In
  <2> QED
    BY <2>5, <2>6, <2>7 DEF NothingIsLeft, Holder
<1>2. Spec => []TableInv
  BY TableInit, TableNext, PTL DEF Spec
<1> QED
  BY <1>1, <1>2, HandlesStayOurs, DeathsAreArmed, PTL
=============================================================================
