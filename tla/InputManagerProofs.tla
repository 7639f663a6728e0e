-------------------------- MODULE InputManagerProofs --------------------------
(***************************************************************************)
(* Proofs about the input manager, for any processes, listeners and        *)
(* events.  First, that a listener hears of every event of its types, once *)
(* and in order: the walk of the dispatch thread is followed along the     *)
(* list, and the listeners it has come past have had the event that runs,  *)
(* the others have not, whatever is pushed or removed meanwhile.  Then,    *)
(* for the one looper the program has, that the references of a process    *)
(* are those its listeners hold, that the death of a listed listener is    *)
(* armed, and that no freed listener is used but through the iterator of   *)
(* the walk or of delListener, on an element that has left the list.       *)
(***************************************************************************)
EXTENDS InputManager, SequencesExt, FiniteSetTheorems, WellFoundedInduction,
        SequenceTheorems, TLAPS

(* What the queues and lists keep when an element is added or taken away:  *)
(* the other elements, in their order, and how many of them are of a kind. *)

\* t is s without the element at i.
Without(t, s, i) ==
  /\ i \in 1 .. Len(s) /\ Len(s) = Len(t) + 1
  /\ \A k \in 1 .. Len(t) : t[k] = s[IF k < i THEN k ELSE k + 1]

\* Tail takes the first element away.
LEMMA TailWithout ==
  ASSUME NEW S, NEW s \in Seq(S), s # <<>>
  PROVE  Tail(s) \in Seq(S) /\ Without(Tail(s), s, 1) /\ Head(s) = s[1]
BY DEF Without

\* Append adds an element at the end.
LEMMA AppendWithout ==
  ASSUME NEW S, NEW s \in Seq(S), NEW e \in S
  PROVE  /\ Append(s, e) \in Seq(S) /\ Without(s, Append(s, e), Len(s) + 1)
         /\ Append(s, e)[Len(s) + 1] = e
BY DEF Without

\* An element in front is one more.
LEMMA ConsWithout ==
  ASSUME NEW S, NEW s \in Seq(S), NEW e \in S
  PROVE  /\ <<e>> \o s \in Seq(S) /\ Without(s, <<e>> \o s, 1)
         /\ (<<e>> \o s)[1] = e
BY DEF Without

\* RemoveAt takes one element away.
LEMMA RemoveAtWithout ==
  ASSUME NEW S, NEW s \in Seq(S), NEW i \in DOMAIN s
  PROVE  RemoveAt(s, i) \in Seq(S) /\ Without(RemoveAt(s, i), s, i)
<1> DEFINE a == SubSeq(s, 1, i - 1)  b == SubSeq(s, i + 1, Len(s))
<1>1. a \in Seq(S) /\ Len(a) = i - 1 /\ \A k \in 1 .. i - 1 : a[k] = s[k]
  OBVIOUS
<1>2. b \in Seq(S) /\ Len(b) = Len(s) - i /\ \A k \in 1 .. Len(s) - i : b[k] = s[i + k]
  OBVIOUS
<1> HIDE DEF a, b
<1>3. RemoveAt(s, i) = a \o b
  BY DEF RemoveAt, a, b
<1>4. i \in 1 .. Len(s) /\ Len(s) \in Nat
  OBVIOUS
<1>5. /\ a \o b \in Seq(S)
      /\ Len(a \o b) = Len(a) + Len(b)
      /\ \A k \in 1 .. Len(a) + Len(b) :
           (a \o b)[k] = IF k <= Len(a) THEN a[k] ELSE b[k - Len(a)]
  BY <1>1, <1>2, ConcatProperties
<1>6. Len(a) + Len(b) = Len(s) - 1
  BY <1>1, <1>2, <1>4
<1>7. ASSUME NEW k \in 1 .. Len(s) - 1
      PROVE  (a \o b)[k] = s[IF k < i THEN k ELSE k + 1]
  <2>1. CASE k < i
    <3>1. k <= Len(a) /\ k \in 1 .. i - 1
      BY <2>1, <1>1, <1>4
    <3>2. (a \o b)[k] = a[k]
      BY <3>1, <1>5, <1>6
    <3> QED
      BY <3>1, <3>2, <2>1, <1>1
  <2>2. CASE ~(k < i)
    <3>1. Len(a) = i - 1 /\ ~(k <= Len(a))
      BY <2>2, <1>1, <1>4
    <3>2. (a \o b)[k] = b[k - (i - 1)]
      BY <3>1, <1>5, <1>6
    <3>3. k - (i - 1) \in 1 .. Len(s) - i /\ i + (k - (i - 1)) = k + 1
      BY <2>2, <1>4
    <3>4. b[k - (i - 1)] = s[k + 1]
      BY <1>2, <3>3
    <3> QED
      BY <3>2, <3>4, <2>2
  <2> QED
    BY <2>1, <2>2
<1>8. Without(a \o b, s, i)
  <2>1. Len(a \o b) = Len(s) - 1
    BY <1>5, <1>6
  <2> QED
    BY <2>1, <1>4, <1>7 DEF Without
<1> QED
  BY <1>3, <1>5, <1>8

\* The elements of s are e = s[i] and those of t, in the order of t.
LEMMA WithoutHas ==
  ASSUME NEW s, NEW t, NEW i, Len(s) \in Nat, Len(t) \in Nat, Without(t, s, i)
  PROVE  \A k \in 1 .. Len(s) : k # i =>
           \E n \in 1 .. Len(t) : /\ t[n] = s[k]
                                  /\ k = IF n < i THEN n ELSE n + 1
<1> SUFFICES ASSUME NEW k \in 1 .. Len(s), k # i
             PROVE  \E n \in 1 .. Len(t) : /\ t[n] = s[k]
                                           /\ k = IF n < i THEN n ELSE n + 1
  OBVIOUS
<1>1. CASE k < i
  <2>1. k \in 1 .. Len(t)
    BY <1>1 DEF Without
  <2> QED
    BY <2>1, <1>1 DEF Without
<1>2. CASE k > i
  <2>1. k - 1 \in 1 .. Len(t) /\ ~(k - 1 < i) /\ (k - 1) + 1 = k
    BY <1>2 DEF Without
  <2>2. t[k - 1] = s[(k - 1) + 1]
    BY <2>1 DEF Without
  <2> QED
    BY <2>1, <2>2
<1> QED
  BY <1>1, <1>2 DEF Without

\* e is an element of s.
In(s, e) == \E k \in 1 .. Len(s) : s[k] = e

\* What is in s is in t or the element that t lacks.
LEMMA WithoutIn ==
  ASSUME NEW s, NEW t, NEW i, Len(s) \in Nat, Len(t) \in Nat, Without(t, s, i)
  PROVE  \A j : In(s, j) <=> In(t, j) \/ j = s[i]
<1>1. ASSUME NEW j, In(s, j), j # s[i]
      PROVE  In(t, j)
  BY <1>1, WithoutHas DEF In
<1>2. ASSUME NEW j, In(t, j)
      PROVE  In(s, j)
  <2>1. PICK k \in 1 .. Len(t) : t[k] = j
    BY <1>2 DEF In
  <2>2. (IF k < i THEN k ELSE k + 1) \in 1 .. Len(s)
    BY DEF Without
  <2> QED
    BY <2>1, <2>2 DEF In, Without
<1>3. In(s, s[i])
  BY DEF In, Without
<1> QED
  BY <1>1, <1>2, <1>3

\* Where s has an element of W: at finitely many places.
Where(s, W) == {k \in 1 .. Len(s) : s[k] \in W}

\* The places of a sequence with an element of a set are finitely many.
LEMMA WhereCounted ==
  ASSUME NEW s, NEW W, Len(s) \in Nat
  PROVE  IsFiniteSet(Where(s, W)) /\ Cardinality(Where(s, W)) \in Nat
<1>1. IsFiniteSet(1 .. Len(s)) /\ Where(s, W) \in SUBSET (1 .. Len(s))
  BY FS_Interval DEF Where
<1> QED
  BY <1>1, FS_Subset, FS_CardinalityType

\* One element less is one of W less, if it was one.
LEMMA WithoutCounts ==
  ASSUME NEW s, NEW t, NEW i, NEW W, Len(s) \in Nat, Len(t) \in Nat, Without(t, s, i)
  PROVE  Cardinality(Where(s, W)) =
           Cardinality(Where(t, W)) + (IF s[i] \in W THEN 1 ELSE 0)
<1> DEFINE f == [n \in Where(t, W) |-> IF n < i THEN n ELSE n + 1]
           T == Where(s, W) \ {i}
<1>1. f \in [Where(t, W) -> T]
  <2> SUFFICES ASSUME NEW n \in Where(t, W)
               PROVE  (IF n < i THEN n ELSE n + 1) \in T
    OBVIOUS
  <2>1. n \in 1 .. Len(t) /\ t[n] = s[IF n < i THEN n ELSE n + 1]
    BY DEF Where, Without
  <2>2. (IF n < i THEN n ELSE n + 1) \in (1 .. Len(s)) \ {i}
    BY <2>1 DEF Without
  <2> QED
    BY <2>1, <2>2 DEF Where
<1>2. \A m, n \in Where(t, W) : f[m] = f[n] => m = n
  BY DEF Where, Without
<1>3. \A k \in T : \E n \in Where(t, W) : f[n] = k
  <2> SUFFICES ASSUME NEW k \in T
               PROVE  \E n \in Where(t, W) : f[n] = k
    OBVIOUS
  <2>1. PICK n \in 1 .. Len(t) : t[n] = s[k] /\ k = IF n < i THEN n ELSE n + 1
    BY WithoutHas DEF Where
  <2> QED
    BY <2>1 DEF Where
<1>4. f \in Surjection(Where(t, W), T) /\ f \in Injection(Where(t, W), T)
  <2> HIDE DEF f, T
  <2> QED
    BY <1>1, <1>2, <1>3 DEF Surjection, Injection, IsInjective
<1>5. Cardinality(T) = Cardinality(Where(t, W))
  <2> HIDE DEF f, T
  <2> QED
    BY <1>4, FS_Surjection, WhereCounted
<1>6. Cardinality(T) = IF i \in Where(s, W) THEN Cardinality(Where(s, W)) - 1
                                          ELSE Cardinality(Where(s, W))
  BY WhereCounted, FS_RemoveElement
<1>7. i \in Where(s, W) <=> s[i] \in W
  BY DEF Where, Without
<1>8. Cardinality(Where(s, W)) \in Nat /\ Cardinality(Where(t, W)) \in Nat
  BY WhereCounted
<1> HIDE DEF f, T
<1> QED
  BY <1>5, <1>6, <1>7, <1>8

\* The order of the natural numbers, as a relation.
LEMMA Less == \A m, n : <<n, m>> \in OpToRel(<, Nat) <=> n \in Nat /\ m \in Nat /\ n < m
BY SMT DEF OpToRel

\* A set of natural numbers that is not empty has a least element.
LEMMA Least ==
  ASSUME NEW S, S \subseteq Nat, S # {}
  PROVE  \E m \in S : \A n \in S : m <= n
<1>1. \E m \in S : \A n \in S : ~(<<n, m>> \in OpToRel(<, Nat))
  BY WFMin, NatLessThanWellFounded, Zenon
<1>2. PICK m \in S : \A n \in S : ~(<<n, m>> \in OpToRel(<, Nat))
  BY <1>1
<1>3. ASSUME NEW n \in S
      PROVE  m <= n
  <2>1. ~(n < m)
    BY <1>2, Less
  <2> QED
    BY <2>1
<1> QED
  BY <1>3
-----------------------------------------------------------------------------
Places == {"idle", "create", "acquire", "link", "push", "find", "remove",
           "release", "free", "reply"}
JobRec == [kind : {"add", "del", "death"}, client : Clients, uid : Nat,
           types : SUBSET Types, ok : BOOLEAN, cookie : Descs \cup {NoDesc}]
\* A death has a cookie, and a call has none.
Work == {j \in JobRec : j.kind = "death" <=> j.cookie # NoDesc}
Memory == [mem : {"unused", "used", "freed"}, client : Clients \cup {NoClient},
           uid : Nat, types : SUBSET Types]

TypeOK ==
  /\ mListenerDescList \in Seq(Descs)
  /\ desc \in [Descs -> Memory]
  /\ strong \in [Clients -> Nat]
  /\ death \in [Clients -> Descs \cup {NoDesc}]
  /\ todo \in Seq(Work)
  /\ pc \in [Loopers -> Places]
  /\ job \in [Loopers -> Work \cup {NoJob}]
  /\ it \in [Loopers -> Descs \cup {NoDesc}]
  /\ m_tasks \in Seq(Events) /\ running \in SUBSET Events
  /\ dispatched \in SUBSET Events
  /\ dpc \in {"idle", "test", "write", "next"}
  /\ at \in Descs \cup {NoDesc}
  /\ sent \in [Descs -> Seq(Events)]
  /\ unread \in [Descs -> Nat]
  /\ alive \in SUBSET Clients /\ sockets \in SUBSET Descs /\ adds \in Nat
  /\ state \in {"up", "killed", "undefined"}
  /\ taken \in Seq(Events)
  /\ missed \in [Descs -> SUBSET Events]

Made(d) == desc[d].mem # "unused"
Making(l) == pc[l] \in {"acquire", "link", "push"}

\* What a looper has in hand at each place of its work.
Knows(l) ==
  /\ pc[l] = "idle" => job[l] = NoJob /\ it[l] = NoDesc
  /\ pc[l] # "idle" => job[l] \in Work
  /\ pc[l] = "create" \/ Making(l) => job[l].kind = "add"
  /\ pc[l] = "find" => job[l].kind = "del"
  /\ pc[l] \in {"remove", "release", "free"} => job[l].kind \in {"del", "death"}
  /\ pc[l] = "reply" => job[l].kind \in {"add", "del"}
  /\ pc[l] \in {"create", "find"} => it[l] = NoDesc
  /\ Making(l) \/ pc[l] \in {"remove", "release", "free"} => it[l] \in Descs
  /\ it[l] \in Descs => Made(it[l])
  /\ Making(l) => desc[it[l]].client = job[l].client
LoopersKnow == \A l \in Loopers : Knows(l)

Of(d, c) == d \in Descs /\ Made(d) /\ desc[d].client = c

\* A ListenerDesc is made before anything leads to it, and keeps its client.
Owned ==
  /\ \A d \in Descs : Made(d) <=> desc[d].client \in Clients
  /\ \A d \in Listed : Made(d)
  /\ \A c \in Clients : death[c] # NoDesc => Of(death[c], c)
  /\ \A k \in DOMAIN todo :
       todo[k].kind = "death" => Of(todo[k].cookie, todo[k].client)

\* A ListenerDesc that has not been pushed is in no other hands.
ToBePushed(d) == ~Made(d) \/ \E l \in Loopers : Making(l) /\ it[l] = d
Fresh ==
  /\ \A d \in Descs : ToBePushed(d) => d \notin Listed /\ d # at /\ sent[d] = <<>>
  /\ \A k, l \in Loopers : Making(k) /\ Making(l) /\ it[k] = it[l] => k = l
ListedOnce ==
  \A j, k \in DOMAIN mListenerDescList :
    mListenerDescList[j] = mListenerDescList[k] => j = k

ListInv == TypeOK /\ LoopersKnow /\ Owned /\ Fresh /\ ListedOnce

\* The events that have begun are the first of those read, and the rest wait.
Begun == Len(taken) - Len(m_tasks)
Pool ==
  /\ \A m, n \in DOMAIN taken : taken[m] = taken[n] => m = n
  /\ Begun >= 0
  /\ \A k \in DOMAIN m_tasks : m_tasks[k] = taken[Begun + k]
  /\ dpc = "idle" <=> running = {}
  /\ running # {} => Begun > 0 /\ running = {taken[Begun]}
  /\ dispatched = {taken[k] : k \in 1 .. (IF running = {} THEN Begun ELSE Begun - 1)}

\* The listeners that the walk has come past; all of them at the end.
Past(d) ==
  \/ at = NoDesc
  \/ \E j, k \in DOMAIN mListenerDescList :
       /\ mListenerDescList[j] = d /\ mListenerDescList[k] = at
       /\ j < k \/ (j = k /\ dpc = "next")
Due(e, d) == e \notin missed[d] => (e \in Heard(d) <=> TypeOf[e] \cap desc[d].types # {})

InEventOrder ==
  \A d \in Descs :
    /\ missed[d] \subseteq running \cup dispatched
    /\ Heard(d) \subseteq running \cup dispatched
    /\ \A j, k \in DOMAIN sent[d] : j < k => Before(sent[d][j], sent[d][k])
    /\ \A e, f \in Heard(d) \cap missed[d] : e = f
    /\ running # {} /\ running \subseteq missed[d] => Heard(d) \subseteq running
Walked ==
  /\ \A d \in Listed, e \in dispatched : Due(e, d)
  /\ dpc \in {"write", "next"} => at # NoDesc
  /\ dpc \in {"test", "write"} /\ at # NoDesc => running \cap Heard(at) = {}
  /\ dpc = "write" => desc[at].types \cap CurrentTypes # {}
  /\ dpc # "idle" /\ at \in Listed \cup {NoDesc} =>
       \A d \in Listed, e \in running :
         IF Past(d) THEN Due(e, d) ELSE e \notin Heard(d)

WalkInv == ListInv /\ Pool /\ InEventOrder /\ Walked
-----------------------------------------------------------------------------
(* The list.                                                                 *)

\* What is listed is at one place.
LEMMA PlaceIs ==
  ASSUME ListedOnce, NEW d \in Listed
  PROVE  /\ Place(d) \in DOMAIN mListenerDescList /\ mListenerDescList[Place(d)] = d
         /\ \A k \in DOMAIN mListenerDescList : mListenerDescList[k] = d => k = Place(d)
<1>1. \E k \in DOMAIN mListenerDescList : mListenerDescList[k] = d
  BY DEF Listed
<1>2. Place(d) \in DOMAIN mListenerDescList /\ mListenerDescList[Place(d)] = d
  BY <1>1 DEF Place
<1> QED
  BY <1>2 DEF ListedOnce

\* What is listed where list t lacks the element of list s at i.
LEMMA WithoutListed ==
  ASSUME TypeOK, ListedOnce, NEW i,
         mListenerDescList' \in Seq(Descs), Without(mListenerDescList', mListenerDescList, i)
  PROVE  /\ Listed' = Listed \ {mListenerDescList[i]} /\ ListedOnce'
         /\ mListenerDescList[i] \in Listed
<1> DEFINE s == mListenerDescList
<1>1. s \in Seq(Descs) /\ Len(s) \in Nat /\ DOMAIN s = 1 .. Len(s)
  BY DEF TypeOK
<1>2. PICK t : t = mListenerDescList'
  OBVIOUS
<1>3. t \in Seq(Descs) /\ Len(t) \in Nat /\ DOMAIN t = 1 .. Len(t) /\ Without(t, s, i)
  BY <1>2
<1>4. \A d : In(s, d) <=> In(t, d) \/ d = s[i]
  BY <1>1, <1>3, WithoutIn
<1>5. i \in 1 .. Len(s) /\ Len(s) = Len(t) + 1
      /\ \A k \in 1 .. Len(t) : t[k] = s[IF k < i THEN k ELSE k + 1]
  BY <1>3 DEF Without
<1>6. \A j, k \in 1 .. Len(s) : s[j] = s[k] => j = k
  BY <1>1 DEF ListedOnce
<1> HIDE DEF s
<1>7. ~In(t, s[i])
  <2> SUFFICES ASSUME NEW k \in 1 .. Len(t), t[k] = s[i] PROVE FALSE
    BY DEF In
  <2>1. s[IF k < i THEN k ELSE k + 1] = s[i] /\ (IF k < i THEN k ELSE k + 1) \in 1 .. Len(s)
    BY <1>5, <1>1, <1>3
  <2> QED
    BY <2>1, <1>5, <1>6, <1>1, <1>3
<1>8. \A j, k \in 1 .. Len(t) : t[j] = t[k] => j = k
  <2> SUFFICES ASSUME NEW j \in 1 .. Len(t), NEW k \in 1 .. Len(t), t[j] = t[k]
               PROVE  j = k
    OBVIOUS
  <2>1. /\ s[IF j < i THEN j ELSE j + 1] = s[IF k < i THEN k ELSE k + 1]
        /\ (IF j < i THEN j ELSE j + 1) \in 1 .. Len(s)
        /\ (IF k < i THEN k ELSE k + 1) \in 1 .. Len(s)
    BY <1>5, <1>1, <1>3
  <2>2. (IF j < i THEN j ELSE j + 1) = (IF k < i THEN k ELSE k + 1)
    BY <2>1, <1>6
  <2> QED
    BY <2>2, <1>5, <1>1
<1>9. Listed = {d \in Descs : In(s, d)} /\ Listed' = {d \in Descs : In(t, d)}
  BY <1>1, <1>2, <1>3 DEF Listed, In, s
<1>10. ListedOnce'
  BY <1>8, <1>2, <1>3 DEF ListedOnce
<1>11. s[i] \in Descs /\ In(s, s[i])
  BY <1>1, <1>5 DEF In
<1> QED
  BY <1>4, <1>7, <1>9, <1>10, <1>11 DEF s

\* What is listed after a push.
LEMMA PushListed ==
  ASSUME TypeOK, ListedOnce, NEW d \in Descs \ Listed,
         mListenerDescList' = Append(mListenerDescList, d)
  PROVE  Listed' = Listed \cup {d} /\ ListedOnce' /\ mListenerDescList' \in Seq(Descs)
<1> DEFINE s == mListenerDescList
<1>1. s \in Seq(Descs) /\ Len(s) \in Nat /\ DOMAIN s = 1 .. Len(s)
  BY DEF TypeOK
<1>2. PICK t : t = mListenerDescList'
  OBVIOUS
<1>3. /\ t \in Seq(Descs) /\ Len(t) = Len(s) + 1 /\ DOMAIN t = 1 .. Len(s) + 1
      /\ t[Len(s) + 1] = d
      /\ \A k \in 1 .. Len(s) : t[k] = s[k]
  BY <1>1, <1>2
<1>4. Listed = {s[k] : k \in 1 .. Len(s)} /\ Listed' = {t[k] : k \in 1 .. Len(s) + 1}
  BY <1>1, <1>2, <1>3 DEF Listed
<1>5. \A j, k \in 1 .. Len(s) : s[j] = s[k] => j = k
  BY <1>1 DEF ListedOnce
<1> HIDE DEF s
<1>6. {t[k] : k \in 1 .. Len(s) + 1} = {s[k] : k \in 1 .. Len(s)} \cup {d}
  <2>1. \A k \in 1 .. Len(s) + 1 : k \in 1 .. Len(s) \/ k = Len(s) + 1
    BY <1>1
  <2>2. \A k \in 1 .. Len(s) : k \in 1 .. Len(s) + 1
    BY <1>1
  <2>3. Len(s) + 1 \in 1 .. Len(s) + 1
    BY <1>1
  <2> QED
    BY <1>3, <2>1, <2>2, <2>3
<1>7. \A j, k \in 1 .. Len(s) + 1 : t[j] = t[k] => j = k
  <2> SUFFICES ASSUME NEW j \in 1 .. Len(s) + 1, NEW k \in 1 .. Len(s) + 1, t[j] = t[k]
               PROVE  j = k
    OBVIOUS
  <2>1. \A n \in 1 .. Len(s) : s[n] # d
    BY <1>4
  <2>2. (j \in 1 .. Len(s) \/ j = Len(s) + 1) /\ (k \in 1 .. Len(s) \/ k = Len(s) + 1)
    BY <1>1
  <2> QED
    BY <2>1, <2>2, <1>3, <1>5
<1>8. ListedOnce'
  BY <1>7, <1>2, <1>3 DEF ListedOnce
<1> QED
  BY <1>2, <1>3, <1>4, <1>6, <1>8
-----------------------------------------------------------------------------
(* The driver.                                                               *)

\* What the last reference takes away of the driver's state.
LEMMA ReleaseDoes ==
  ASSUME TypeOK, NEW c \in Clients, BC_RELEASE(c)
  PROVE  /\ strong' \in [Clients -> Nat]
         /\ death' \in [Clients -> Descs \cup {NoDesc}]
         /\ todo' \in Seq(Work)
         /\ \A b \in Clients \ {c} : strong'[b] = strong[b] /\ death'[b] = death[b]
         /\ \/ strong[c] > 1 /\ strong'[c] = strong[c] - 1 /\ UNCHANGED <<death, todo>>
            \/ strong[c] = 1 /\ strong'[c] = 0 /\ death'[c] = NoDesc
            \/ strong[c] = 0 /\ UNCHANGED <<strong, death, todo>>
         /\ \/ todo' = todo /\ (DeathsOf(c) = {} \/ death'[c] = death[c])
            \/ death'[c] = NoDesc /\ \E i \in DeathsOf(c) : Without(todo', todo, i)
<1> USE DEF TypeOK
<1>1. CASE strong[c] = 0
  BY <1>1 DEF BC_RELEASE, driverVars
<1>2. CASE strong[c] # 0 /\ strong[c] > 1
  <2>1. strong' = [strong EXCEPT ![c] = @ - 1] /\ UNCHANGED <<death, todo>>
    BY <1>2 DEF BC_RELEASE
  <2>2. strong[c] - 1 \in Nat
    BY <1>2
  <2> QED
    BY <1>2, <2>1, <2>2
<1>3. CASE strong[c] # 0 /\ ~(strong[c] > 1)
  <2>1. /\ strong' = [strong EXCEPT ![c] = @ - 1]
        /\ death' = [death EXCEPT ![c] = NoDesc]
        /\ todo' = IF DeathsOf(c) = {} THEN todo
                   ELSE RemoveAt(todo, CHOOSE k \in DeathsOf(c) : TRUE)
    BY <1>3 DEF BC_RELEASE
  <2>2. ASSUME DeathsOf(c) # {}
        PROVE  todo' \in Seq(Work) /\ \E i \in DeathsOf(c) : Without(todo', todo, i)
    <3>1. PICK i \in DeathsOf(c) : todo' = RemoveAt(todo, i)
      BY <2>1, <2>2
    <3>2. i \in DOMAIN todo
      BY DEF DeathsOf
    <3> QED
      BY <3>1, <3>2, RemoveAtWithout
  <2>3. todo' \in Seq(Work)
    BY <2>1, <2>2
  <2>4. strong[c] = 1
    BY <1>3
  <2> QED
    BY <1>3, <2>1, <2>2, <2>3, <2>4
<1> QED
  BY <1>1, <1>2, <1>3

\* What a request adds to the driver's state.
LEMMA RequestDoes ==
  ASSUME TypeOK, NEW c \in Clients, NEW d \in Descs, BC_REQUEST_DEATH_NOTIFICATION(c, d)
  PROVE  /\ death' \in [Clients -> Descs \cup {NoDesc}]
         /\ todo' \in Seq(Work)
         /\ strong' = strong
         /\ \/ death[c] # NoDesc /\ UNCHANGED <<death, todo>>
            \/ /\ death[c] = NoDesc /\ death' = [death EXCEPT ![c] = d]
               /\ todo' = IF c \in alive THEN todo ELSE <<DeathJob(c, d)>> \o todo
         /\ DeathJob(c, d) \in Work
<1>1. DeathJob(c, d) \in Work
  BY NothingIsNothing DEF DeathJob, Work, JobRec
<1>2. <<DeathJob(c, d)>> \o todo \in Seq(Work)
  BY <1>1, ConsWithout DEF TypeOK
<1>3. CASE death[c] # NoDesc
  BY <1>1, <1>3 DEF BC_REQUEST_DEATH_NOTIFICATION, TypeOK
<1>4. CASE death[c] = NoDesc
  <2>1. /\ death' = [death EXCEPT ![c] = d] /\ strong' = strong
        /\ todo' = IF c \in alive THEN todo ELSE <<DeathJob(c, d)>> \o todo
    BY <1>4 DEF BC_REQUEST_DEATH_NOTIFICATION
  <2>2. todo' \in Seq(Work)
    BY <2>1, <1>2 DEF TypeOK
  <2>3. death' \in [Clients -> Descs \cup {NoDesc}]
    BY <2>1 DEF TypeOK
  <2> QED
    BY <2>1, <2>2, <2>3, <1>1, <1>4
<1> QED
  BY <1>3, <1>4
-----------------------------------------------------------------------------
(* The steps that touch no list.                                             *)

\* A ListenerDesc stays one of its client.
Kept == \A d \in Descs : Made(d) => Made(d)' /\ desc'[d].client = desc[d].client

\* Where the driver has nothing new, but what leads to a client's ListenerDesc.
LEMMA OwnedStays ==
  ASSUME ListInv, TypeOK', Kept, \A d \in Descs : Made(d)' <=> desc'[d].client \in Clients,
         \A d \in Listed' : d \in Listed \/ Made(d)',
         \A c \in Clients : death'[c] \in {death[c], NoDesc} \/ Of(death[c], c)',
         \A k \in DOMAIN todo' : todo'[k].kind = "death" =>
           \/ \E n \in DOMAIN todo : todo'[k] = todo[n]
           \/ Of(todo[k].cookie, todo[k].client)'
  PROVE  Owned'
<1>1. \A d \in Descs, c \in Clients : Of(d, c) => Of(d, c)'
  BY DEF Of, Kept
<1>2. Listed' \subseteq Descs
  BY DEF TypeOK, Listed
<1>3. \A d \in Listed' : Made(d)'
  BY <1>2 DEF ListInv, Owned, Kept
<1>4. \A c \in Clients : death'[c] # NoDesc => Of(death[c], c)'
  <2> SUFFICES ASSUME NEW c \in Clients, death'[c] # NoDesc, death'[c] = death[c]
               PROVE  Of(death[c], c)'
    OBVIOUS
  <2>1. Of(death[c], c) /\ death[c] \in Descs
    BY DEF ListInv, Owned, Of
  <2> QED
    BY <2>1 DEF Of, Kept
<1>5. \A k \in DOMAIN todo' :
        todo'[k].kind = "death" => Of(todo[k].cookie, todo[k].client)'
  <2> SUFFICES ASSUME NEW k \in DOMAIN todo', todo'[k].kind = "death",
                      NEW n \in DOMAIN todo, todo'[k] = todo[n]
               PROVE  Of(todo[k].cookie, todo[k].client)'
    OBVIOUS
  <2>1. Of(todo[n].cookie, todo[n].client)
    BY DEF ListInv, Owned
  <2> QED
    BY <2>1 DEF Of, Kept
<1> QED
  BY <1>3, <1>4, <1>5 DEF Owned

\* Where the looper l alone goes on.
LEMMA OthersKnow ==
  ASSUME ListInv, Kept, NEW l \in Loopers, Knows(l)',
         \A k \in Loopers \ {l} : pc'[k] = pc[k] /\ job'[k] = job[k] /\ it'[k] = it[k]
  PROVE  LoopersKnow'
<1> SUFFICES ASSUME NEW k \in Loopers, k # l PROVE Knows(k)'
  BY DEF LoopersKnow
<1>1. Knows(k) /\ pc'[k] = pc[k] /\ job'[k] = job[k] /\ it'[k] = it[k]
  BY DEF ListInv, LoopersKnow
<1>2. \A d \in Descs : Made(d) => Made(d)' /\ desc'[d].client = desc[d].client
  BY DEF Kept
<1>3. Making(k) => it[k] \in Descs
  BY <1>1 DEF Knows
<1>4. Making(k)' <=> Making(k)
  BY <1>1 DEF Making
<1> QED
  BY <1>1, <1>2, <1>3, <1>4 DEF Knows, Made

\* Where nothing new is to be pushed, and what the walk comes to is listed.
LEMMA FreshStays ==
  ASSUME ListInv, Listed' \subseteq Listed, Kept,
         \A k \in Loopers : Making(k)' => Making(k) /\ it'[k] = it[k],
         at' = at \/ at' \in Listed \cup {NoDesc},
         \A d \in Descs : sent'[d] = sent[d] \/ d = at
  PROVE  Fresh'
<1>1. \A d \in Descs : ToBePushed(d)' => ToBePushed(d)
  BY DEF ToBePushed, Kept
<1>2. \A d \in Descs : ToBePushed(d)' => d \notin Listed' /\ d # at' /\ sent'[d] = <<>>
  BY <1>1, NothingIsNothing DEF ListInv, Fresh
<1> QED
  BY <1>2 DEF ListInv, Fresh

\* The list and the loopers stay as they are.
LEMMA CallersList ==
  ASSUME ListInv, TypeOK', UNCHANGED <<listVars, looperVars, death>>,
         at' = at \/ at' \in Listed \cup {NoDesc},
         \A d \in Descs : sent'[d] = sent[d] \/ d = at,
         \A k \in DOMAIN todo' : todo'[k].kind = "death" =>
           \/ \E n \in DOMAIN todo : todo'[k] = todo[n]
           \/ Of(todo[k].cookie, todo[k].client)'
  PROVE  ListInv'
<1>1. Listed' = Listed /\ ListedOnce'
  BY DEF Listed, listVars, ListInv, ListedOnce
<1>2. Kept /\ \A d \in Descs : Made(d)' <=> desc'[d].client \in Clients
  BY DEF Kept, Made, listVars, ListInv, Owned
<1>3. LoopersKnow'
  BY DEF LoopersKnow, Knows, ListInv, Making, Made, listVars, looperVars
<1>4. \A k \in Loopers : Making(k)' => Making(k) /\ it'[k] = it[k]
  BY DEF Making, looperVars
<1>5. Owned'
  BY <1>1, <1>2, OwnedStays
<1>6. Fresh'
  BY <1>1, <1>2, <1>4, FreshStays
<1> QED
  BY <1>1, <1>3, <1>5, <1>6 DEF ListInv

\* A listener asks to be added.
LEMMA CallAddListenerList ==
  ASSUME ListInv, NEW c \in Clients, CallAddListener(c)
  PROVE  ListInv'
<1>1. PICK t \in Masks, ok \in BOOLEAN : todo' = Append(todo, AddJob(c, adds + 1, t, ok))
  BY DEF CallAddListener
<1>2. AddJob(c, adds + 1, t, ok) \in Work /\ AddJob(c, adds + 1, t, ok).kind = "add"
  BY EventsHaveTypes, NothingIsNothing DEF AddJob, Work, JobRec, ListInv, TypeOK
<1> DEFINE j == AddJob(c, adds + 1, t, ok)
<1> HIDE DEF j
<1>3. todo' = Append(todo, j) /\ j \in Work /\ j.kind = "add"
  BY <1>1, <1>2 DEF j
<1>4. TypeOK'
  BY <1>3 DEF CallAddListener, ListInv, TypeOK, listVars, looperVars, poolVars,
     walkVars, history
<1>5. \A k \in DOMAIN todo' : todo'[k].kind = "death" => \E n \in DOMAIN todo : todo'[k] = todo[n]
  <2>1. todo \in Seq(Work)
    BY DEF ListInv, TypeOK
  <2> QED
    BY <1>3, <2>1
<1> QED
  BY <1>4, <1>5, CallersList DEF CallAddListener, walkVars

\* A listener asks to be deleted.
LEMMA CallDelListenerList ==
  ASSUME ListInv, NEW c \in Clients, CallDelListener(c)
  PROVE  ListInv'
<1>1. PICK d \in Mine(c) : todo' = Append(todo, DelJob(c, desc[d].uid))
  BY DEF CallDelListener
<1>2. desc[d].uid \in Nat
  BY DEF ListInv, TypeOK, Mine, Memory
<1> DEFINE j == DelJob(c, desc[d].uid)
<1>3. todo' = Append(todo, j) /\ j \in Work /\ j.kind = "del"
  BY <1>1, <1>2, NothingIsNothing DEF DelJob, Work, JobRec
<1> HIDE DEF j
<1>4. TypeOK'
  BY <1>3 DEF CallDelListener, ListInv, TypeOK, listVars, looperVars, poolVars,
     walkVars, clientVars, history
<1>5. \A k \in DOMAIN todo' : todo'[k].kind = "death" => \E n \in DOMAIN todo : todo'[k] = todo[n]
  <2>1. todo \in Seq(Work)
    BY DEF ListInv, TypeOK
  <2> QED
    BY <1>3, <2>1
<1> QED
  BY <1>4, <1>5, CallersList DEF CallDelListener, walkVars

\* A process dies: the driver's cookie is a ListenerDesc of its own.
LEMMA DieList ==
  ASSUME ListInv, NEW c \in Clients, Die(c)
  PROVE  ListInv'
<1>1. CASE death[c] = NoDesc
  <2>1. todo' = todo
    BY <1>1 DEF Die
  <2>2. TypeOK'
    BY <2>1 DEF Die, ListInv, TypeOK, listVars, looperVars, poolVars, walkVars, history
  <2> QED
    BY <2>1, <2>2, CallersList DEF Die, walkVars
<1>2. CASE death[c] # NoDesc
  <2> DEFINE j == DeathJob(c, death[c])
  <2>1. death[c] \in Descs /\ Of(death[c], c)
    BY <1>2 DEF ListInv, TypeOK, Owned
  <2>2. todo' = Append(todo, j) /\ j \in Work
    BY <1>2, <2>1, NothingIsNothing DEF Die, DeathJob, Work, JobRec
  <2>3. j.client = c /\ j.cookie = death[c]
    BY DEF DeathJob
  <2> HIDE DEF j
  <2>4. TypeOK'
    BY <2>2 DEF Die, ListInv, TypeOK, listVars, looperVars, poolVars, walkVars, history
  <2>5. \A k \in DOMAIN todo' : (\E n \in DOMAIN todo : todo'[k] = todo[n]) \/ todo'[k] = j
    <3>1. todo \in Seq(Work)
      BY DEF ListInv, TypeOK
    <3> QED
      BY <2>2, <3>1
  <2>6. Of(death[c], c)'
    <3>1. death' = death /\ desc' = desc
      BY DEF Die, listVars
    <3> QED
      BY <3>1, <2>1 DEF Of, Made
  <2>7. \A k \in DOMAIN todo' : todo'[k].kind = "death" =>
          \/ \E n \in DOMAIN todo : todo'[k] = todo[n]
          \/ Of(todo[k].cookie, todo[k].client)'
    <3> SUFFICES ASSUME NEW k \in DOMAIN todo', todo'[k] = j
                 PROVE  Of(todo[k].cookie, todo[k].client)'
      BY <2>5
    <3>1. todo'[k].client = c /\ todo'[k].cookie = death[c] /\ death' = death
      BY <2>3 DEF Die
    <3> QED
      BY <3>1, <2>6 DEF Of, Made
  <2> QED
    BY <2>4, <2>7, CallersList DEF Die, walkVars
<1> QED
  BY <1>1, <1>2

\* Nothing is touched but the state of the process.
LEMMA StillList ==
  ASSUME ListInv, state' \in {"up", "killed", "undefined"},
         UNCHANGED <<listVars, driverVars, looperVars, poolVars, walkVars, clientVars, history>>
  PROVE  ListInv'
<1>1. TypeOK'
  BY DEF ListInv, TypeOK, listVars, driverVars, looperVars, poolVars, walkVars,
     clientVars, history
<1> QED
  BY <1>1, CallersList DEF driverVars, walkVars

\* A process closes a socket.
LEMMA CloseSocketList ==
  ASSUME ListInv, NEW d \in Descs, CloseSocket(d)
  PROVE  ListInv'
<1>1. TypeOK'
  BY DEF CloseSocket, ListInv, TypeOK, listVars, driverVars, looperVars, poolVars,
     walkVars, history
<1> QED
  BY <1>1, CallersList DEF CloseSocket, driverVars, walkVars

\* A listener reads an event.
LEMMA ReadEventList ==
  ASSUME ListInv, NEW d \in Descs, ReadEvent(d)
  PROVE  ListInv'
<1>1. unread' \in [Descs -> Nat]
  <2>1. unread[d] - 1 \in Nat
    BY DEF ReadEvent, ListInv, TypeOK
  <2> QED
    BY <2>1 DEF ReadEvent, ListInv, TypeOK
<1>2. TypeOK'
  BY <1>1 DEF ReadEvent, ListInv, TypeOK, listVars, driverVars, looperVars, poolVars,
     walkVars, history
<1> QED
  BY <1>2, CallersList DEF ReadEvent, driverVars, walkVars

\* An event is read and handed to the pool.
LEMMA ReadOnceList ==
  ASSUME ListInv, NEW e \in Events, ReadOnce(e)
  PROVE  ListInv'
<1>1. /\ taken' = Append(taken, e) /\ m_tasks' = Append(m_tasks, e)
      /\ UNCHANGED <<listVars, driverVars, looperVars, walkVars, clientVars, state,
                     missed, running, dispatched>>
  BY DEF ReadOnce, Dispatch!Accept
<1>2. TypeOK'
  BY <1>1 DEF ListInv, TypeOK, listVars, driverVars, looperVars, walkVars, clientVars
<1> QED
  BY <1>1, <1>2, CallersList DEF driverVars, walkVars

\* What each step of the dispatch thread does to the pool and to the walk.
LEMMA BeginWalkDoes ==
  ASSUME TypeOK, BeginWalk
  PROVE  /\ running = {} /\ m_tasks # <<>>
         /\ m_tasks' = Tail(m_tasks) /\ running' = {Head(m_tasks)}
         /\ Head(m_tasks) \in Events /\ dispatched' = dispatched
         /\ at' = IF mListenerDescList = <<>> THEN NoDesc ELSE mListenerDescList[1]
         /\ dpc' = "test"
         /\ UNCHANGED <<listVars, driverVars, looperVars, sent, clientVars, state, history>>
BY DEF BeginWalk, Dispatch!Begin, TypeOK

\* A walk begins at the head of the list.
LEMMA BeginWalkList ==
  ASSUME ListInv, BeginWalk
  PROVE  ListInv'
<1>1. at' \in Listed \cup {NoDesc}
  <2>1. CASE mListenerDescList = <<>>
    BY <2>1 DEF BeginWalk
  <2>2. CASE mListenerDescList # <<>>
    <3>1. 1 \in DOMAIN mListenerDescList
      BY <2>2 DEF ListInv, TypeOK
    <3> QED
      BY <3>1, <2>2 DEF BeginWalk, Listed
  <2> QED
    BY <2>1, <2>2
<1>2. Listed \subseteq Descs
  BY DEF Listed, ListInv, TypeOK
<1>3. TypeOK'
  <2>1. m_tasks' \in Seq(Events) /\ running' \in SUBSET Events
    <3>1. /\ m_tasks # <<>> /\ m_tasks \in Seq(Events) /\ m_tasks' = Tail(m_tasks)
          /\ running' = {Head(m_tasks)} /\ Head(m_tasks) \in Events
      BY BeginWalkDoes DEF ListInv, TypeOK
    <3> QED
      BY <3>1, TailWithout
  <2> QED
    BY <2>1, <1>1, <1>2, BeginWalkDoes DEF ListInv, TypeOK, listVars, driverVars,
       looperVars, clientVars, history
<1> QED
  BY <1>1, <1>3, BeginWalkDoes, CallersList DEF driverVars, ListInv

\* The walk looks at a listener.
LEMMA TestListenerList ==
  ASSUME ListInv, TestListener
  PROVE  ListInv'
<1>1. CASE Undefined
  BY <1>1, StillList DEF Undefined
<1>2. CASE ~Undefined
  <2>1. /\ dpc' \in {"write", "next"}
        /\ UNCHANGED <<listVars, driverVars, looperVars, poolVars, at, sent, clientVars,
                       state, history>>
    BY <1>2 DEF TestListener
  <2>2. TypeOK'
    BY <2>1 DEF ListInv, TypeOK, listVars, driverVars, looperVars, poolVars, clientVars,
       history
  <2> QED
    BY <2>1, <2>2, CallersList DEF driverVars
<1> QED
  BY <1>1, <1>2

\* An event is written to the listener that the walk is on.
LEMMA WriteEventList ==
  ASSUME ListInv, WriteEvent
  PROVE  ListInv'
<1>1. PICK e \in running : sent' = [sent EXCEPT ![at] = Append(@, e)]
  BY DEF WriteEvent
<1>2. at \in Descs /\ e \in Events
  BY DEF WriteEvent, ListInv, TypeOK
<1>3. Append(sent[at], e) \in Seq(Events) /\ unread[at] + 1 \in Nat
  BY <1>2 DEF ListInv, TypeOK
<1>4. TypeOK'
  BY <1>1, <1>3 DEF WriteEvent, ListInv, TypeOK, listVars, driverVars, looperVars,
     poolVars, history
<1>5. \A d \in Descs : sent'[d] = sent[d] \/ d = at
  BY <1>1 DEF ListInv, TypeOK
<1> QED
  BY <1>4, <1>5, CallersList DEF WriteEvent, driverVars

\* The walk goes on to a listener that is on the list, or to the end.
LEMMA NextListenerList ==
  ASSUME ListInv, NextListener
  PROVE  ListInv'
<1>1. CASE Undefined
  BY <1>1, StillList DEF Undefined
<1>2. CASE ~Undefined
  <2>1. /\ dpc' = "test" /\ at' = After(at) /\ at \in Listed
        /\ UNCHANGED <<listVars, driverVars, looperVars, poolVars, sent, clientVars,
                       state, history>>
    BY <1>2 DEF NextListener
  <2>2. After(at) \in Listed \cup {NoDesc}
    <3>1. Place(at) \in DOMAIN mListenerDescList
      BY <2>1, PlaceIs DEF ListInv
    <3>2. CASE Place(at) = Len(mListenerDescList)
      BY <3>2 DEF After
    <3>3. CASE Place(at) # Len(mListenerDescList)
      <4>1. Place(at) + 1 \in DOMAIN mListenerDescList
        BY <3>1, <3>3 DEF ListInv, TypeOK
      <4> QED
        BY <4>1, <3>3 DEF After, Listed
    <3> QED
      BY <3>2, <3>3
  <2>3. TypeOK'
    <3>1. Listed \subseteq Descs
      BY DEF Listed, ListInv, TypeOK
    <3> QED
      BY <2>1, <2>2, <3>1 DEF ListInv, TypeOK, listVars, driverVars, looperVars, poolVars,
         clientVars, history
  <2> QED
    BY <2>1, <2>2, <2>3, CallersList DEF driverVars
<1> QED
  BY <1>1, <1>2

\* At the end of a walk its event has been dispatched.
LEMMA EndWalkDoes ==
  ASSUME EndWalk
  PROVE  \E e \in running : /\ running' = running \ {e} /\ dispatched' = dispatched \cup {e}
                            /\ m_tasks' = m_tasks
BY DEF EndWalk, Dispatch!Finish

\* A walk ends.
LEMMA EndWalkList ==
  ASSUME ListInv, EndWalk
  PROVE  ListInv'
<1>1. TypeOK'
  BY EndWalkDoes DEF EndWalk, ListInv, TypeOK, listVars, driverVars, looperVars,
     clientVars, history
<1> QED
  BY <1>1, CallersList DEF EndWalk, driverVars
-----------------------------------------------------------------------------
(* The steps of the loopers.                                                 *)

\* One looper goes on, and pushes nothing.
LEMMA LooperList ==
  ASSUME ListInv, TypeOK', NEW l \in Loopers, Kept, Knows(l)', ListedOnce',
         \A k \in Loopers \ {l} : pc'[k] = pc[k] /\ job'[k] = job[k] /\ it'[k] = it[k],
         \A d \in Descs : Made(d)' <=> desc'[d].client \in Clients,
         Listed' \subseteq Listed, UNCHANGED <<at, sent>>,
         Making(l)' => Making(l) /\ it'[l] = it[l],
         \A c \in Clients : death'[c] \in {death[c], NoDesc} \/ Of(death[c], c)',
         \A k \in DOMAIN todo' : todo'[k].kind = "death" =>
           \/ \E n \in DOMAIN todo : todo'[k] = todo[n]
           \/ Of(todo[k].cookie, todo[k].client)'
  PROVE  ListInv'
<1>1. LoopersKnow'
  BY OthersKnow
<1>2. Owned'
  BY OwnedStays
<1>3. \A k \in Loopers : Making(k)' => Making(k) /\ it'[k] = it[k]
  <2> SUFFICES ASSUME NEW k \in Loopers, k # l, Making(k)'
               PROVE  Making(k) /\ it'[k] = it[k]
    OBVIOUS
  <2> QED
    BY DEF Making
<1>4. Fresh'
  BY <1>3, FreshStays
<1> QED
  BY <1>1, <1>2, <1>4 DEF ListInv

\* Memory and list stay as they are.
LEMMA SameMemory ==
  ASSUME ListInv, UNCHANGED listVars
  PROVE  /\ Kept /\ ListedOnce' /\ Listed' = Listed
         /\ \A d \in Descs : (Made(d)' <=> Made(d)) /\ (Made(d)' <=> desc'[d].client \in Clients)
BY DEF listVars, Kept, Made, ListedOnce, Listed, ListInv, Owned

\* A looper that touches neither list nor driver moves from one place to another.
LEMMA MovesList ==
  ASSUME ListInv, NEW l \in Loopers, NEW p \in Places,
         pc' = [pc EXCEPT ![l] = p], UNCHANGED <<job, it, listVars, death, todo>>, strong' \in [Clients -> Nat],
         UNCHANGED <<poolVars, walkVars, clientVars, state, history>>,
         Knows(l)', Making(l)' => Making(l)
  PROVE  ListInv'
<1>1. TypeOK'
  BY DEF ListInv, TypeOK, listVars, poolVars, walkVars, clientVars, history
<1>2. /\ \A k \in Loopers \ {l} : pc'[k] = pc[k] /\ job'[k] = job[k] /\ it'[k] = it[k]
      /\ it'[l] = it[l] /\ UNCHANGED <<at, sent>>
  BY DEF ListInv, TypeOK, walkVars
<1> QED
  BY <1>1, <1>2, SameMemory, LooperList

\* What is taken off the queue was in it.
LEMMA WithoutTodo ==
  ASSUME TypeOK, NEW i, todo' \in Seq(Work), Without(todo', todo, i)
  PROVE  \A k \in DOMAIN todo' : \E n \in DOMAIN todo : todo'[k] = todo[n]
<1>1. todo \in Seq(Work) /\ DOMAIN todo = 1 .. Len(todo) /\ DOMAIN todo' = 1 .. Len(todo')
  BY DEF TypeOK
<1> QED
  BY <1>1 DEF Without

\* Taking a command from the driver keeps the list invariant.
LEMMA TakeList ==
  ASSUME ListInv, NEW l \in Loopers, Take(l)
  PROVE  ListInv'
<1>1. CASE Undefined
  BY <1>1, StillList DEF Undefined
<1>2. CASE ~Undefined
  <2> DEFINE j == Head(todo)
  <2>1. /\ pc[l] = "idle" /\ todo # <<>>
        /\ job' = [job EXCEPT ![l] = j]
        /\ todo' = Tail(todo)
        /\ it' = [it EXCEPT ![l] = j.cookie]
        /\ pc' = [pc EXCEPT ![l] = CASE j.kind = "add" -> "create"
                                     [] j.kind = "del" -> "find"
                                     [] j.kind = "death" -> "remove"]
        /\ UNCHANGED <<listVars, strong, death, poolVars, walkVars, clientVars, state, history>>
    BY <1>2 DEF Take, Goto
  <2>2. /\ todo \in Seq(Work) /\ todo' \in Seq(Work) /\ Without(todo', todo, 1)
        /\ j = todo[1] /\ 1 \in DOMAIN todo /\ j \in Work
    BY <2>1, TailWithout DEF ListInv, TypeOK
  <2>3. j.kind = "death" => Of(j.cookie, j.client)
    BY <2>2 DEF ListInv, Owned
  <2> HIDE DEF j
  <2>4. /\ j.cookie \in Descs \cup {NoDesc} /\ j.kind \in {"add", "del", "death"}
        /\ j.kind = "death" <=> j.cookie # NoDesc
    BY <2>2 DEF Work, JobRec
  <2>5. PICK p \in Places : /\ pc' = [pc EXCEPT ![l] = p]
                            /\ \/ j.kind = "add" /\ p = "create"
                               \/ j.kind = "del" /\ p = "find"
                               \/ j.kind = "death" /\ p = "remove"
    BY <2>1, <2>4 DEF Places
  <2>6. pc'[l] = p /\ job'[l] = j /\ it'[l] = j.cookie
    BY <2>1, <2>5 DEF ListInv, TypeOK
  <2>7. TypeOK'
    BY <2>1, <2>2, <2>4, <2>5 DEF ListInv, TypeOK, listVars, poolVars, walkVars, clientVars,
       history
  <2>8. Knows(l)'
    <3>1. j.cookie \in Descs => desc'[j.cookie].mem # "unused"
      BY <2>1, <2>3, <2>4, NothingIsNothing DEF Of, Made, listVars
    <3> QED
      BY <2>2, <2>4, <2>5, <2>6, <3>1 DEF Knows, Making, Made
  <2>9. ~Making(l)'
    BY <2>5, <2>6 DEF Making
  <2>10. \A k \in Loopers \ {l} : pc'[k] = pc[k] /\ job'[k] = job[k] /\ it'[k] = it[k]
    BY <2>1, <2>5 DEF ListInv, TypeOK
  <2>11. \A k \in DOMAIN todo' : \E n \in DOMAIN todo : todo'[k] = todo[n]
    BY <2>2, WithoutTodo DEF ListInv
  <2>12. UNCHANGED <<at, sent, death, listVars>>
    BY <2>1 DEF walkVars
  <2> QED
    BY <2>7, <2>8, <2>9, <2>10, <2>11, <2>12, SameMemory, LooperList
<1> QED
  BY <1>1, <1>2

\* Refusing an addListener keeps the list invariant.
LEMMA RefuseAddList ==
  ASSUME ListInv, NEW l \in Loopers, RefuseAdd(l)
  PROVE  ListInv'
<1>1. pc' = [pc EXCEPT ![l] = "reply"] /\ UNCHANGED <<job, it, listVars, strong, death, todo>>
  BY DEF RefuseAdd, Goto, driverVars
<1>2. pc'[l] = "reply" /\ "reply" \in Places /\ strong' \in [Clients -> Nat]
  BY <1>1 DEF ListInv, TypeOK, Places
<1>3. Knows(l) /\ pc[l] = "create"
  BY DEF ListInv, LoopersKnow, RefuseAdd
<1>4. Knows(l)' /\ ~Making(l)'
  BY <1>1, <1>2, <1>3 DEF Knows, Making, Made, listVars
<1> QED
  BY <1>1, <1>2, <1>4, MovesList DEF RefuseAdd

\* Acquiring the reference keeps the list invariant.
LEMMA AcquireList ==
  ASSUME ListInv, NEW l \in Loopers, Acquire(l)
  PROVE  ListInv'
<1>1. /\ pc' = [pc EXCEPT ![l] = "link"] /\ UNCHANGED <<job, it, listVars, death, todo>>
      /\ strong' = [strong EXCEPT ![job[l].client] = @ + 1]
  BY DEF Acquire, Goto, BC_ACQUIRE
<1>2. Knows(l) /\ pc[l] = "acquire"
  BY DEF ListInv, LoopersKnow, Acquire
<1>3. pc'[l] = "link" /\ "link" \in Places /\ strong' \in [Clients -> Nat]
  <2>1. job[l].client \in Clients
    BY <1>2 DEF Knows, Work, JobRec
  <2>2. strong[job[l].client] + 1 \in Nat
    BY <2>1 DEF ListInv, TypeOK
  <2> QED
    BY <1>1, <2>2 DEF ListInv, TypeOK, Places
<1>4. Knows(l)' /\ Making(l)
  BY <1>1, <1>2, <1>3 DEF Knows, Making, Made, listVars
<1> QED
  BY <1>1, <1>3, <1>4, MovesList DEF Acquire

\* Looking for the listener to delete keeps the list invariant.
LEMMA FindList ==
  ASSUME ListInv, NEW l \in Loopers, Find(l)
  PROVE  ListInv'
<1>1. Knows(l) /\ pc[l] = "find"
  BY DEF ListInv, LoopersKnow, Find
<1>2. CASE pc' = [pc EXCEPT ![l] = "reply"] /\ UNCHANGED it
  <2>1. pc'[l] = "reply" /\ "reply" \in Places /\ strong' \in [Clients -> Nat]
        /\ UNCHANGED <<job, it, listVars, strong, death, todo>>
    BY <1>2 DEF Find, driverVars, ListInv, TypeOK, Places
  <2>2. Knows(l)' /\ ~Making(l)'
    BY <2>1, <1>1 DEF Knows, Making, Made, listVars
  <2> QED
    BY <1>2, <2>1, <2>2, MovesList DEF Find
<1>3. CASE ~(pc' = [pc EXCEPT ![l] = "reply"] /\ UNCHANGED it)
  <2> DEFINE found == {k \in DOMAIN mListenerDescList :
                        LET d == desc[mListenerDescList[k]] IN
                        d.client = job[l].client /\ d.uid = job[l].uid}
             n == CHOOSE k \in found : \A m \in found : k <= m
  <2>1. found # {} /\ it' = [it EXCEPT ![l] = mListenerDescList[n]]
        /\ pc' = [pc EXCEPT ![l] = "remove"]
    BY <1>3 DEF Find, Goto
  <2>2. n \in found
    <3>1. found \subseteq Nat
      BY DEF ListInv, TypeOK
    <3>2. \E k \in found : \A m \in found : k <= m
      BY <2>1, <3>1, Least
    <3> HIDE DEF found
    <3> QED
      BY <3>2
  <2>3. n \in DOMAIN mListenerDescList
    BY <2>2
  <2> HIDE DEF n, found
  <2> DEFINE d == mListenerDescList[n]
  <2>4. d \in Listed /\ d \in Descs
    BY <2>3 DEF Listed, ListInv, TypeOK
  <2> HIDE DEF d
  <2>5. Made(d)
    BY <2>4 DEF ListInv, Owned
  <2>6. it' = [it EXCEPT ![l] = d] /\ pc' = [pc EXCEPT ![l] = "remove"]
        /\ UNCHANGED <<job, listVars, driverVars, poolVars, walkVars, clientVars, state, history>>
    BY <2>1 DEF d, Find
  <2>7. /\ pc'[l] = "remove" /\ it'[l] = d /\ job'[l] = job[l] /\ desc' = desc
        /\ \A k \in Loopers \ {l} : pc'[k] = pc[k] /\ job'[k] = job[k] /\ it'[k] = it[k]
    BY <2>6 DEF ListInv, TypeOK, listVars
  <2>8. Knows(l)' /\ ~Making(l)'
    BY <2>4, <2>5, <2>7, <1>1 DEF Knows, Making, Made
  <2>9. TypeOK'
    BY <2>6, <2>4 DEF ListInv, TypeOK, Places, listVars, driverVars, poolVars, walkVars, clientVars,
       history
  <2>10. UNCHANGED <<at, sent, death, todo, listVars>>
    BY <2>6 DEF walkVars, driverVars
  <2> QED
    BY <2>7, <2>8, <2>9, <2>10, SameMemory, LooperList
<1> QED
  BY <1>2, <1>3

\* Making a ListenerDesc keeps the list invariant.
LEMMA CreateList ==
  ASSUME ListInv, NEW l \in Loopers, Create(l)
  PROVE  ListInv'
<1>1. PICK d \in Descs :
        /\ desc[d].mem = "unused"
        /\ it' = [it EXCEPT ![l] = d]
        /\ desc' = [desc EXCEPT ![d] = [mem |-> "used", client |-> job[l].client,
                                        uid |-> job[l].uid, types |-> job[l].types]]
        /\ sockets' = IF job[l].client \in alive THEN sockets \cup {d} ELSE sockets
  BY DEF Create
<1>2. /\ pc' = [pc EXCEPT ![l] = "acquire"]
      /\ UNCHANGED <<mListenerDescList, driverVars, job, poolVars, walkVars, unread, alive,
                     adds, state, history>>
  BY DEF Create, Goto
<1>3. Knows(l) /\ pc[l] = "create"
  BY DEF ListInv, LoopersKnow, Create
<1>4. job[l] \in Work /\ job[l].kind = "add" /\ job[l].client \in Clients
      /\ job[l].uid \in Nat /\ job[l].types \in SUBSET Types
  BY <1>3 DEF Knows, Work, JobRec
<1>5. /\ pc'[l] = "acquire" /\ it'[l] = d /\ job'[l] = job[l]
      /\ desc'[d] = [mem |-> "used", client |-> job[l].client, uid |-> job[l].uid,
                     types |-> job[l].types]
      /\ \A f \in Descs \ {d} : desc'[f] = desc[f]
      /\ \A k \in Loopers \ {l} : pc'[k] = pc[k] /\ job'[k] = job[k] /\ it'[k] = it[k]
  BY <1>1, <1>2 DEF ListInv, TypeOK
<1>6. TypeOK'
  <2>1. desc' \in [Descs -> Memory]
    BY <1>1, <1>4 DEF ListInv, TypeOK, Memory
  <2> QED
    BY <1>1, <1>2, <2>1 DEF ListInv, TypeOK, Places, driverVars, poolVars, walkVars, history
<1>7. ~Made(d) /\ \A f \in Descs : Made(f)' <=> Made(f) \/ f = d
  BY <1>1, <1>5 DEF Made
<1>8. Kept /\ \A f \in Descs : Made(f)' <=> desc'[f].client \in Clients
  BY <1>4, <1>5, <1>7 DEF Kept, ListInv, Owned
<1>9. LoopersKnow'
  <2>1. Knows(l)'
    BY <1>4, <1>5 DEF Knows, Making, Made
  <2> QED
    BY <2>1, <1>5, <1>8, OthersKnow
<1>10. Listed' = Listed /\ ListedOnce' /\ UNCHANGED <<at, sent, death, todo>>
  BY <1>2 DEF ListInv, Listed, ListedOnce, walkVars, driverVars
<1>11. Owned'
  BY <1>6, <1>8, <1>10, OwnedStays
<1>12. \A k \in Loopers : Making(k)' <=> Making(k) \/ k = l
  <2> SUFFICES ASSUME NEW k \in Loopers PROVE Making(k)' <=> Making(k) \/ k = l
    OBVIOUS
  <2> QED
    BY <1>5 DEF Making
<1>13. \A k \in Loopers : Making(k) => it[k] \in Descs /\ Made(it[k]) /\ k # l
  BY <1>3 DEF ListInv, LoopersKnow, Knows, Making, Made
<1>14. Fresh'
  <2>1. \A f \in Descs : ToBePushed(f)' => ToBePushed(f)
    <3> SUFFICES ASSUME NEW f \in Descs, ToBePushed(f)', Made(f)
                 PROVE  ToBePushed(f)
      BY DEF ToBePushed
    <3>1. PICK k \in Loopers : Making(k)' /\ it'[k] = f
      BY <1>7 DEF ToBePushed
    <3> QED
      BY <3>1, <1>5, <1>7, <1>12 DEF ToBePushed
  <2>2. \A k, m \in Loopers : Making(k)' /\ Making(m)' /\ it'[k] = it'[m] => k = m
    <3> SUFFICES ASSUME NEW k \in Loopers, NEW m \in Loopers,
                        Making(k)', Making(m)', it'[k] = it'[m]
                 PROVE  k = m
      OBVIOUS
    <3>1. CASE k = l
      BY <3>1, <1>5, <1>7, <1>12, <1>13
    <3>2. CASE m = l
      BY <3>2, <1>5, <1>7, <1>12, <1>13
    <3>3. CASE k # l /\ m # l
      BY <3>3, <1>5, <1>12 DEF ListInv, Fresh
    <3> QED
      BY <3>1, <3>2, <3>3
  <2> QED
    BY <2>1, <2>2, <1>10 DEF ListInv, Fresh
<1> QED
  BY <1>6, <1>9, <1>10, <1>11, <1>14 DEF ListInv

\* Asking to be told of the death keeps the list invariant.
LEMMA LinkToDeathList ==
  ASSUME ListInv, NEW l \in Loopers, LinkToDeath(l)
  PROVE  ListInv'
<1>1. Knows(l) /\ pc[l] = "link"
  BY DEF ListInv, LoopersKnow, LinkToDeath
<1> DEFINE c == job[l].client  d == it[l]  j == DeathJob(c, d)
<1>2. c \in Clients /\ d \in Descs /\ Of(d, c)
  BY <1>1 DEF Knows, Work, JobRec, Making, Of
<1>3. /\ pc' = [pc EXCEPT ![l] = "push"]
      /\ BC_REQUEST_DEATH_NOTIFICATION(c, d)
      /\ UNCHANGED <<listVars, job, it, poolVars, walkVars, clientVars, state, history>>
  BY DEF LinkToDeath, Goto
<1>4. j.cookie = d /\ j.client = c
  BY DEF DeathJob
<1> HIDE DEF c, d
<1>5. /\ death' \in [Clients -> Descs \cup {NoDesc}]
      /\ todo' \in Seq(Work) /\ strong' = strong /\ j \in Work
      /\ \A b \in Clients : death'[b] \in {death[b], NoDesc} \/ (b = c /\ death'[b] = d)
      /\ todo' = todo \/ todo' = <<j>> \o todo
  BY <1>2, <1>3, RequestDoes DEF ListInv, TypeOK
<1> HIDE DEF j
<1>6. \A k \in DOMAIN todo' : (\E n \in DOMAIN todo : todo'[k] = todo[n]) \/ todo'[k] = j
  <2>1. CASE todo' = todo
    BY <2>1
  <2>2. CASE todo' = <<j>> \o todo
    <3>1. todo \in Seq(Work)
      BY DEF ListInv, TypeOK
    <3> QED
      BY <2>2, <3>1, <1>5
  <2> QED
    BY <1>5, <2>1, <2>2
<1>7. desc' = desc /\ Made(d)
  BY <1>2, <1>3 DEF listVars, Of
<1>8. \A b \in Clients : death'[b] \in {death[b], NoDesc} \/ Of(death[b], b)'
  BY <1>2, <1>5, <1>7 DEF Of, Made
<1>9. \A k \in DOMAIN todo' : todo'[k].kind = "death" =>
        \/ \E n \in DOMAIN todo : todo'[k] = todo[n]
        \/ Of(todo[k].cookie, todo[k].client)'
  BY <1>2, <1>4, <1>6, <1>7 DEF Of, Made
<1>10. /\ pc'[l] = "push" /\ job' = job /\ it' = it /\ "push" \in Places
       /\ \A k \in Loopers \ {l} : pc'[k] = pc[k] /\ job'[k] = job[k] /\ it'[k] = it[k]
  BY <1>3 DEF ListInv, TypeOK, Places
<1>11. Knows(l)' /\ Making(l)
  BY <1>1, <1>10, <1>7 DEF Knows, Making, Made
<1>12. TypeOK'
  BY <1>3, <1>5, <1>10 DEF ListInv, TypeOK, listVars, poolVars, walkVars, clientVars, history
<1>13. UNCHANGED <<at, sent, listVars>> /\ it'[l] = it[l]
  BY <1>3 DEF walkVars
<1> QED
  BY <1>8, <1>9, <1>10, <1>11, <1>12, <1>13, SameMemory, LooperList

\* Pushing the listener on the list keeps the list invariant.
LEMMA PushList ==
  ASSUME ListInv, NEW l \in Loopers, Push(l)
  PROVE  ListInv'
<1>1. Knows(l) /\ pc[l] = "push" /\ Making(l)
  BY DEF ListInv, LoopersKnow, Push, Making
<1> DEFINE d == it[l]
<1>2. d \in Descs /\ Made(d) /\ d \notin Listed
  BY <1>1 DEF Knows, ListInv, Fresh, ToBePushed
<1>3. /\ mListenerDescList' = Append(mListenerDescList, d)
      /\ missed' = [missed EXCEPT ![d] = running \cup dispatched]
      /\ pc' = [pc EXCEPT ![l] = "reply"]
      /\ UNCHANGED <<desc, driverVars, job, it, poolVars, walkVars, clientVars, state, taken>>
  BY DEF Push, Goto
<1> HIDE DEF d
<1>4. /\ pc'[l] = "reply" /\ "reply" \in Places /\ job' = job /\ it' = it
      /\ \A k \in Loopers \ {l} : pc'[k] = pc[k] /\ job'[k] = job[k] /\ it'[k] = it[k]
  BY <1>3 DEF ListInv, TypeOK, Places
<1>5. Listed' = Listed \cup {d} /\ ListedOnce' /\ mListenerDescList' \in Seq(Descs)
  BY <1>2, <1>3, PushListed DEF ListInv
<1>6. TypeOK'
  BY <1>3, <1>4, <1>5 DEF ListInv, TypeOK, driverVars, poolVars, walkVars, clientVars
<1>7. Kept /\ \A f \in Descs : (Made(f)' <=> Made(f)) /\ (Made(f)' <=> desc'[f].client \in Clients)
  BY <1>3 DEF Kept, Made, ListInv, Owned
<1>8. LoopersKnow'
  <2>1. Knows(l)'
    BY <1>1, <1>4, <1>3 DEF Knows, Making, Made
  <2> QED
    BY <2>1, <1>4, <1>7, OthersKnow
<1>9. Owned'
  BY <1>2, <1>3, <1>5, <1>6, <1>7, OwnedStays DEF driverVars
<1>10. \A k \in Loopers : Making(k)' <=> Making(k) /\ k # l
  <2> SUFFICES ASSUME NEW k \in Loopers PROVE Making(k)' <=> Making(k) /\ k # l
    OBVIOUS
  <2> QED
    BY <1>4 DEF Making
<1>11. Fresh'
  <2>1. \A f \in Descs : ToBePushed(f)' => ToBePushed(f) /\ f # d
    <3> SUFFICES ASSUME NEW f \in Descs, ToBePushed(f)', Made(f)
                 PROVE  ToBePushed(f) /\ f # d
      BY <1>2, <1>7 DEF ToBePushed
    <3>1. PICK k \in Loopers : Making(k)' /\ it'[k] = f
      BY <1>7 DEF ToBePushed
    <3>2. Making(k) /\ k # l /\ it[k] = f
      BY <3>1, <1>4, <1>10
    <3>3. f # d
      BY <3>2, <1>1 DEF ListInv, Fresh, d
    <3> QED
      BY <3>2, <3>3 DEF ToBePushed
  <2>2. UNCHANGED <<at, sent>>
    BY <1>3 DEF walkVars
  <2> QED
    BY <2>1, <2>2, <1>4, <1>5, <1>10 DEF ListInv, Fresh
<1> QED
  BY <1>5, <1>6, <1>8, <1>9, <1>11 DEF ListInv

\* What leaves the list was on it, at one place.
LEMMA RemoveDoes ==
  ASSUME ListInv, NEW l \in Loopers, RemoveListener(l)
  PROVE  /\ mListenerDescList' \in Seq(Descs) /\ ListedOnce'
         /\ \/ it[l] \notin Listed /\ mListenerDescList' = mListenerDescList
            \/ /\ it[l] \in Listed /\ mListenerDescList[Place(it[l])] = it[l]
               /\ Without(mListenerDescList', mListenerDescList, Place(it[l]))
         /\ Listed' = Listed \ {it[l]}
<1>1. CASE it[l] \notin Listed
  <2>1. mListenerDescList' = mListenerDescList
    BY <1>1 DEF RemoveListener
  <2> QED
    BY <1>1, <2>1 DEF ListInv, TypeOK, ListedOnce, Listed
<1>2. CASE it[l] \in Listed
  <2>1. mListenerDescList' = RemoveAt(mListenerDescList, Place(it[l]))
    BY <1>2 DEF RemoveListener
  <2>2. Place(it[l]) \in DOMAIN mListenerDescList /\ mListenerDescList[Place(it[l])] = it[l]
    BY <1>2, PlaceIs DEF ListInv
  <2> DEFINE i == Place(it[l])
  <2> HIDE DEF i
  <2>3. mListenerDescList' \in Seq(Descs) /\ Without(mListenerDescList', mListenerDescList, i)
    BY <2>1, <2>2, RemoveAtWithout DEF ListInv, TypeOK, i
  <2>4. Listed' = Listed \ {mListenerDescList[i]} /\ ListedOnce'
    BY <2>3, WithoutListed DEF ListInv
  <2> QED
    BY <1>2, <2>2, <2>3, <2>4 DEF i
<1> QED
  BY <1>1, <1>2

\* Removing the listener from the list keeps the list invariant.
LEMMA RemoveListenerList ==
  ASSUME ListInv, NEW l \in Loopers, RemoveListener(l)
  PROVE  ListInv'
<1>1. Knows(l) /\ pc[l] = "remove"
  BY DEF ListInv, LoopersKnow, RemoveListener
<1>2. /\ pc' = [pc EXCEPT ![l] = "release"]
      /\ UNCHANGED <<desc, driverVars, job, it, poolVars, walkVars, clientVars, state, history>>
  BY DEF RemoveListener, Goto
<1>3. /\ pc'[l] = "release" /\ "release" \in Places /\ job' = job /\ it' = it
      /\ \A k \in Loopers \ {l} : pc'[k] = pc[k] /\ job'[k] = job[k] /\ it'[k] = it[k]
  BY <1>2 DEF ListInv, TypeOK, Places
<1>4. mListenerDescList' \in Seq(Descs) /\ ListedOnce' /\ Listed' \subseteq Listed
  BY RemoveDoes
<1>5. TypeOK'
  BY <1>2, <1>3, <1>4 DEF ListInv, TypeOK, driverVars, poolVars, walkVars, clientVars, history
<1>6. Kept /\ \A d \in Descs : Made(d)' <=> desc'[d].client \in Clients
  BY <1>2 DEF Kept, Made, ListInv, Owned
<1>7. Knows(l)' /\ ~Making(l)'
  BY <1>1, <1>2, <1>3 DEF Knows, Making, Made
<1>8. UNCHANGED <<at, sent, death, todo>>
  BY <1>2 DEF walkVars, driverVars
<1> QED
  BY <1>3, <1>4, <1>5, <1>6, <1>7, <1>8, LooperList

\* A looper gives a reference back.
LEMMA ReleasesList ==
  ASSUME ListInv, NEW l \in Loopers, NEW c \in Clients, BC_RELEASE(c), Knows(l)', ~Making(l)',
         pc' \in [Loopers -> Places], job' \in [Loopers -> Work \cup {NoJob}],
         it' \in [Loopers -> Descs \cup {NoDesc}],
         \A k \in Loopers \ {l} : pc'[k] = pc[k] /\ job'[k] = job[k] /\ it'[k] = it[k],
         UNCHANGED <<listVars, poolVars, walkVars, clientVars, state, history>>
  PROVE  ListInv'
<1>1. /\ strong' \in [Clients -> Nat] /\ death' \in [Clients -> Descs \cup {NoDesc}]
      /\ todo' \in Seq(Work)
      /\ \A b \in Clients : death'[b] \in {death[b], NoDesc}
      /\ todo' = todo \/ \E i : Without(todo', todo, i)
  <2>1. TypeOK
    BY DEF ListInv
  <2>2. strong' \in [Clients -> Nat] /\ death' \in [Clients -> Descs \cup {NoDesc}]
        /\ todo' \in Seq(Work)
    BY <2>1, ReleaseDoes
  <2>3. \A b \in Clients \ {c} : death'[b] = death[b]
    BY <2>1, ReleaseDoes
  <2>4. death'[c] = death[c] \/ death'[c] = NoDesc
    BY <2>1, ReleaseDoes
  <2>5. todo' = todo \/ \E i : Without(todo', todo, i)
    BY <2>1, ReleaseDoes
  <2> QED
    BY <2>2, <2>3, <2>4, <2>5
<1>2. TypeOK'
  BY <1>1 DEF ListInv, TypeOK, listVars, poolVars, walkVars, clientVars, history
<1>3. \A k \in DOMAIN todo' : \E n \in DOMAIN todo : todo'[k] = todo[n]
  <2>1. CASE todo' = todo
    BY <2>1
  <2>2. CASE \E i : Without(todo', todo, i)
    BY <2>2, <1>1, WithoutTodo DEF ListInv
  <2> QED
    BY <1>1, <2>1, <2>2
<1>4. UNCHANGED <<at, sent>>
  BY DEF walkVars
<1> QED
  BY <1>1, <1>2, <1>3, <1>4, SameMemory, LooperList

\* Releasing the reference keeps the list invariant.
LEMMA ReleaseList ==
  ASSUME ListInv, NEW l \in Loopers, Release(l)
  PROVE  ListInv'
<1>1. CASE Undefined
  BY <1>1, StillList DEF Undefined
<1>2. CASE ~Undefined
  <2>1. Knows(l) /\ pc[l] = "release"
    BY DEF ListInv, LoopersKnow, Release
  <2>2. it[l] \in Descs /\ desc[it[l]].client \in Clients
    BY <2>1 DEF Knows, ListInv, Owned
  <2>3. /\ BC_RELEASE(desc[it[l]].client) /\ pc' = [pc EXCEPT ![l] = "free"]
        /\ UNCHANGED <<listVars, job, it, poolVars, walkVars, clientVars, state, history>>
    BY <1>2 DEF Release, Goto
  <2>4. /\ pc'[l] = "free" /\ pc' \in [Loopers -> Places]
        /\ \A k \in Loopers \ {l} : pc'[k] = pc[k] /\ job'[k] = job[k] /\ it'[k] = it[k]
    BY <2>3 DEF ListInv, TypeOK, Places
  <2>5. Knows(l)' /\ ~Making(l)'
    BY <2>1, <2>3, <2>4 DEF Knows, Making, Made, listVars
  <2>6. job' \in [Loopers -> Work \cup {NoJob}] /\ it' \in [Loopers -> Descs \cup {NoDesc}]
    BY <2>3 DEF ListInv, TypeOK
  <2> QED
    BY <2>2, <2>3, <2>4, <2>5, <2>6, ReleasesList
<1> QED
  BY <1>1, <1>2

\* A looper that has finished waits for work.
LEMMA FinishKnows ==
  ASSUME ListInv, NEW l \in Loopers, Finish(l)
  PROVE  /\ Knows(l)' /\ ~Making(l)'
         /\ pc' \in [Loopers -> Places] /\ job' \in [Loopers -> Work \cup {NoJob}]
         /\ it' \in [Loopers -> Descs \cup {NoDesc}]
         /\ \A k \in Loopers \ {l} : pc'[k] = pc[k] /\ job'[k] = job[k] /\ it'[k] = it[k]
<1>1. /\ pc' \in [Loopers -> Places] /\ job' \in [Loopers -> Work \cup {NoJob}]
      /\ it' \in [Loopers -> Descs \cup {NoDesc}]
      /\ pc'[l] = "idle" /\ job'[l] = NoJob /\ it'[l] = NoDesc
      /\ \A k \in Loopers \ {l} : pc'[k] = pc[k] /\ job'[k] = job[k] /\ it'[k] = it[k]
  BY DEF Finish, Goto, ListInv, TypeOK, Places
<1> QED
  BY <1>1, NothingIsNothing DEF Knows, Making

\* Freeing the ListenerDesc keeps the list invariant.
LEMMA FreeList ==
  ASSUME ListInv, NEW l \in Loopers, Free(l)
  PROVE  ListInv'
<1>1. CASE Undefined
  BY <1>1, StillList DEF Undefined
<1>2. CASE ~Undefined
  <2>1. Knows(l) /\ pc[l] = "free"
    BY DEF ListInv, LoopersKnow, Free
  <2> DEFINE d == it[l]
  <2>2. d \in Descs /\ Made(d)
    BY <2>1 DEF Knows
  <2>3. /\ desc' = [desc EXCEPT ![d].mem = "freed"]
        /\ Finish(l) \/ (pc' = [pc EXCEPT ![l] = "reply"] /\ UNCHANGED <<job, it>>)
        /\ job[l].kind = "death" => Finish(l)
        /\ UNCHANGED <<mListenerDescList, driverVars, poolVars, walkVars, clientVars, state,
                       history>>
    BY <1>2 DEF Free, Goto
  <2> HIDE DEF d
  <2>4. /\ desc' \in [Descs -> Memory] /\ desc'[d].mem = "freed" /\ desc'[d].client = desc[d].client
        /\ \A f \in Descs \ {d} : desc'[f] = desc[f]
    <3>1. desc[d] \in Memory /\ desc \in [Descs -> Memory]
      BY <2>2 DEF ListInv, TypeOK
    <3> DEFINE r == [desc[d] EXCEPT !.mem = "freed"]
    <3>2. r \in Memory /\ r.mem = "freed" /\ r.client = desc[d].client
      BY <3>1 DEF Memory
    <3>3. desc' = [desc EXCEPT ![d] = r]
      BY <2>3
    <3> HIDE DEF r
    <3> QED
      BY <2>2, <3>1, <3>2, <3>3
  <2>5. Kept /\ \A f \in Descs : Made(f)' <=> desc'[f].client \in Clients
    BY <2>2, <2>4 DEF Kept, Made, ListInv, Owned
  <2>6. /\ Knows(l)' /\ ~Making(l)'
        /\ pc' \in [Loopers -> Places] /\ job' \in [Loopers -> Work \cup {NoJob}]
        /\ it' \in [Loopers -> Descs \cup {NoDesc}]
        /\ \A k \in Loopers \ {l} : pc'[k] = pc[k] /\ job'[k] = job[k] /\ it'[k] = it[k]
    <3>1. CASE Finish(l)
      BY <3>1, FinishKnows
    <3>2. CASE ~Finish(l)
      <4>1. /\ pc'[l] = "reply" /\ job' = job /\ it' = it /\ pc' \in [Loopers -> Places]
            /\ \A k \in Loopers \ {l} : pc'[k] = pc[k] /\ job'[k] = job[k] /\ it'[k] = it[k]
        BY <2>3, <3>2 DEF ListInv, TypeOK, Places
      <4>2. Knows(l)' /\ ~Making(l)'
        BY <2>1, <2>3, <2>4, <3>2, <4>1 DEF Knows, Making, Made, d
      <4> QED
        BY <4>1, <4>2 DEF ListInv, TypeOK
    <3> QED
      BY <3>1, <3>2
  <2>7. TypeOK'
    BY <2>3, <2>4, <2>6 DEF ListInv, TypeOK, driverVars, poolVars, walkVars, clientVars, history
  <2>8. UNCHANGED <<at, sent, death, todo>> /\ Listed' = Listed /\ ListedOnce'
    BY <2>3 DEF walkVars, driverVars, Listed, ListedOnce, ListInv
  <2> QED
    BY <2>5, <2>6, <2>7, <2>8, LooperList
<1> QED
  BY <1>1, <1>2

\* Replying to the caller keeps the list invariant.
LEMMA ReplyList ==
  ASSUME ListInv, NEW l \in Loopers, Reply(l)
  PROVE  ListInv'
<1>1. Knows(l) /\ pc[l] = "reply"
  BY DEF ListInv, LoopersKnow, Reply
<1>2. job[l].client \in Clients
  BY <1>1 DEF Knows, Work, JobRec
<1>3. Finish(l) /\ UNCHANGED <<listVars, poolVars, walkVars, clientVars, state, history>>
  BY DEF Reply
<1>4. CASE BC_RELEASE(job[l].client)
  BY <1>2, <1>3, <1>4, FinishKnows, ReleasesList
<1>5. CASE UNCHANGED driverVars
  <2>1. TypeOK'
    BY <1>3, <1>5, FinishKnows DEF ListInv, TypeOK, listVars, driverVars, poolVars, walkVars,
       clientVars, history
  <2>2. UNCHANGED <<at, sent, death, todo>>
    BY <1>3, <1>5 DEF walkVars, driverVars
  <2> QED
    BY <1>3, <2>1, <2>2, FinishKnows, SameMemory, LooperList
<1> QED
  BY <1>4, <1>5 DEF Reply

\* The list invariant holds at first.
LEMMA ListInit == Init => ListInv
<1> SUFFICES ASSUME Init PROVE ListInv
  OBVIOUS
<1>1. TypeOK
  BY BoundsOK DEF Init, TypeOK, Unused, Memory, Places, Dispatch!TQInit
<1>2. Listed = {} /\ Owned
  BY NothingIsNothing DEF Init, Listed, Owned, Made, Unused
<1>3. \A l \in Loopers : Knows(l) /\ ~Making(l)
  BY NothingIsNothing DEF Init, Knows, Making
<1>4. Fresh /\ ListedOnce
  BY <1>2, <1>3, NothingIsNothing DEF Init, Fresh, ListedOnce
<1> QED
  BY <1>1, <1>2, <1>3, <1>4 DEF ListInv, LoopersKnow

\* Every step keeps the list invariant.
LEMMA ListStep == ListInv /\ [Next]_vars => ListInv'
<1> SUFFICES ASSUME ListInv, [Next]_vars PROVE ListInv'
  OBVIOUS
<1>1. CASE UNCHANGED vars
  BY <1>1, StillList DEF vars, ListInv, TypeOK
<1>2. ASSUME NEW c \in Clients, CallAddListener(c) \/ CallDelListener(c) \/ Die(c)
      PROVE  ListInv'
  BY <1>2, CallAddListenerList, CallDelListenerList, DieList
<1>3. ASSUME NEW d \in Descs, ReadEvent(d) \/ CloseSocket(d)
      PROVE  ListInv'
  BY <1>3, ReadEventList, CloseSocketList
<1>4. ASSUME NEW l \in Loopers, LooperStep(l)
      PROVE  ListInv'
  <2>1. CASE Misbehaves(l)
    BY <2>1, StillList DEF Misbehaves, Undefined
  <2> QED
    BY <1>4, <2>1, TakeList, RefuseAddList, CreateList, AcquireList, LinkToDeathList,
       PushList, FindList, RemoveListenerList, ReleaseList, FreeList, ReplyList DEF LooperStep
<1>5. ASSUME NEW e \in Events, ReadOnce(e)
      PROVE  ListInv'
  BY <1>5, ReadOnceList
<1>6. CASE DispatchStep
  <2>1. CASE WriteKills \/ StaleWrite
    BY <2>1, StillList DEF WriteKills, StaleWrite, Undefined
  <2> QED
    BY <1>6, <2>1, BeginWalkList, TestListenerList, WriteEventList, NextListenerList,
       EndWalkList DEF DispatchStep
<1> QED
  BY <1>1, <1>2, <1>3, <1>4, <1>5, <1>6 DEF Next
-----------------------------------------------------------------------------
(* The walk.                                                                 *)

Undisturbed == Pool' /\ InEventOrder' /\ Walked'

\* The events that have begun are among those read.
LEMMA BegunIs ==
  ASSUME WalkInv
  PROVE  /\ Begun \in Nat /\ Begun <= Len(taken) /\ Len(taken) \in Nat /\ Len(m_tasks) \in Nat
         /\ Len(taken) = Begun + Len(m_tasks)
         /\ DOMAIN taken = 1 .. Len(taken) /\ DOMAIN m_tasks = 1 .. Len(m_tasks)
BY DEF WalkInv, ListInv, TypeOK, Pool, Begun

\* While an event runs it is one, and it has not been dispatched.
LEMMA RunningIs ==
  ASSUME WalkInv, running # {}
  PROVE  \E e \in Events : running = {e} /\ e \notin dispatched
<1>1. running = {taken[Begun]} /\ Begun \in 1 .. Len(taken)
      /\ dispatched = {taken[k] : k \in 1 .. Begun - 1}
  BY BegunIs DEF WalkInv, Pool
<1>2. taken[Begun] \in Events
  BY <1>1 DEF WalkInv, ListInv, TypeOK
<1>3. \A k \in 1 .. Begun - 1 : taken[k] # taken[Begun]
  <2> SUFFICES ASSUME NEW k \in 1 .. Begun - 1, taken[k] = taken[Begun] PROVE FALSE
    OBVIOUS
  <2>1. k \in DOMAIN taken /\ Begun \in DOMAIN taken /\ k # Begun
    BY <1>1, BegunIs
  <2> QED
    BY <2>1 DEF WalkInv, Pool
<1> QED
  BY <1>1, <1>2, <1>3

\* What the walk is on has been made.
LEMMA AtIsMade ==
  ASSUME WalkInv, at # NoDesc
  PROVE  at \in Descs /\ Made(at) /\ ~ToBePushed(at)
BY DEF WalkInv, ListInv, TypeOK, Fresh, ToBePushed

\* Neither list nor walk nor pool changes.
LEMMA EventsUndisturbed ==
  ASSUME WalkInv, UNCHANGED <<mListenerDescList, poolVars, walkVars, history>>,
         \A d \in Descs : Made(d) => desc'[d].types = desc[d].types
  PROVE  Undisturbed
<1>1. Pool' /\ InEventOrder'
  BY DEF WalkInv, Pool, Begun, InEventOrder, Heard, Before, poolVars, walkVars, history
<1>2. Listed' = Listed /\ CurrentTypes' = CurrentTypes
      /\ UNCHANGED <<at, dpc, sent, running, dispatched, missed>>
  BY DEF Listed, CurrentTypes, poolVars, walkVars, history
<1>3. \A d \in Listed : d \in Descs /\ Made(d)
  BY DEF WalkInv, ListInv, Owned, Listed, TypeOK
<1>4. \A d \in Listed, e \in Events : Due(e, d)' <=> Due(e, d)
  BY <1>2, <1>3 DEF Due, Heard
<1>5. \A d : Past(d)' <=> Past(d)
  BY <1>2 DEF Past
<1>6. \A d : Heard(d)' = Heard(d)
  BY <1>2 DEF Heard
<1>7. dpc = "write" => desc'[at].types = desc[at].types
  BY AtIsMade DEF WalkInv, Walked
<1>8. running \subseteq Events /\ dispatched \subseteq Events
  BY DEF WalkInv, ListInv, TypeOK
<1>9. Heard(at)' = Heard(at)
  BY <1>2 DEF Heard
<1>10. Walked'
  <2>1. \A d \in Listed', e \in dispatched' : Due(e, d)'
    BY <1>2, <1>4, <1>8 DEF WalkInv, Walked
  <2>2. /\ dpc' \in {"write", "next"} => at' # NoDesc
        /\ dpc' \in {"test", "write"} /\ at' # NoDesc => running' \cap Heard(at)' = {}
        /\ dpc' = "write" => desc'[at'].types \cap CurrentTypes' # {}
    BY <1>2, <1>7, <1>9 DEF WalkInv, Walked
  <2>3. dpc' # "idle" /\ at' \in Listed' \cup {NoDesc} =>
          \A d \in Listed', e \in running' : IF Past(d)' THEN Due(e, d)' ELSE e \notin Heard(d)'
    BY <1>2, <1>4, <1>5, <1>6, <1>8 DEF WalkInv, Walked
  <2> QED
    BY <2>1, <2>2, <2>3 DEF Walked
<1> QED
  BY <1>1, <1>10 DEF Undisturbed

\* An element at the end.
LEMMA AppendIs ==
  ASSUME NEW S, NEW s \in Seq(S), NEW e \in S
  PROVE  /\ Len(Append(s, e)) = Len(s) + 1 /\ DOMAIN Append(s, e) = 1 .. Len(s) + 1
         /\ \A k \in 1 .. Len(s) : Append(s, e)[k] = s[k]
         /\ Append(s, e)[Len(s) + 1] = e
OBVIOUS

\* An event is read and queued.
LEMMA ReadOnceEvents ==
  ASSUME WalkInv, NEW e \in Events, ReadOnce(e)
  PROVE  Undisturbed
<1>1. /\ taken' = Append(taken, e) /\ m_tasks' = Append(m_tasks, e)
      /\ UNCHANGED <<listVars, walkVars, missed, running, dispatched>>
      /\ e \notin {taken[k] : k \in DOMAIN taken}
  BY DEF ReadOnce, Dispatch!Accept
<1>2. /\ taken \in Seq(Events) /\ m_tasks \in Seq(Events)
      /\ Begun \in Nat /\ Begun <= Len(taken) /\ Len(taken) = Begun + Len(m_tasks)
  BY BegunIs DEF WalkInv, ListInv, TypeOK
<1>3. /\ Len(taken') = Len(taken) + 1 /\ Len(m_tasks') = Len(m_tasks) + 1
      /\ \A k \in 1 .. Len(taken) : taken'[k] = taken[k]
      /\ \A k \in 1 .. Len(m_tasks) : m_tasks'[k] = m_tasks[k]
      /\ taken'[Len(taken) + 1] = e /\ m_tasks'[Len(m_tasks) + 1] = e
      /\ DOMAIN taken' = 1 .. Len(taken) + 1 /\ DOMAIN m_tasks' = 1 .. Len(m_tasks) + 1
  <2>1. /\ Len(taken') = Len(taken) + 1 /\ DOMAIN taken' = 1 .. Len(taken) + 1
        /\ \A k \in 1 .. Len(taken) : taken'[k] = taken[k]
        /\ taken'[Len(taken) + 1] = e
    BY <1>1, <1>2, AppendIs
  <2>2. /\ Len(m_tasks') = Len(m_tasks) + 1 /\ DOMAIN m_tasks' = 1 .. Len(m_tasks) + 1
        /\ \A k \in 1 .. Len(m_tasks) : m_tasks'[k] = m_tasks[k]
        /\ m_tasks'[Len(m_tasks) + 1] = e
    BY <1>1, <1>2, AppendIs
  <2> QED
    BY <2>1, <2>2
<1>4. DOMAIN taken = 1 .. Len(taken) /\ DOMAIN m_tasks = 1 .. Len(m_tasks)
      /\ Len(m_tasks) \in Nat /\ Len(taken) \in Nat
  BY <1>2
<1>5. Begun' = Begun
  BY <1>2, <1>3, <1>4 DEF Begun
<1>6. Pool'
  <2>1. \A m, n \in DOMAIN taken' : taken'[m] = taken'[n] => m = n
    <3>1. \A m, n \in 1 .. Len(taken) : taken[m] = taken[n] => m = n
      BY <1>4 DEF WalkInv, Pool
    <3>2. \A m \in 1 .. Len(taken) : taken[m] # e
      BY <1>1, <1>4
    <3>3. \A m \in 1 .. Len(taken) + 1 : m \in 1 .. Len(taken) \/ m = Len(taken) + 1
      BY <1>4
    <3> QED
      BY <1>3, <3>1, <3>2, <3>3
  <2>2. \A k \in DOMAIN m_tasks' : m_tasks'[k] = taken'[Begun + k]
    <3> SUFFICES ASSUME NEW k \in 1 .. Len(m_tasks) + 1
                 PROVE  m_tasks'[k] = taken'[Begun + k]
      BY <1>3
    <3>1. CASE k \in 1 .. Len(m_tasks)
      <4>1. Begun + k \in 1 .. Len(taken) /\ m_tasks[k] = taken[Begun + k]
        BY <3>1, <1>2, <1>4 DEF WalkInv, Pool
      <4> QED
        BY <4>1, <3>1, <1>3
    <3>2. CASE k = Len(m_tasks) + 1
      <4>1. Begun + k = Len(taken) + 1
        BY <3>2, <1>2, <1>4
      <4> QED
        BY <4>1, <3>2, <1>3
    <3> QED
      BY <3>1, <3>2, <1>4
  <2>3. running # {} => Begun > 0 /\ running = {taken'[Begun]}
    <3>1. Begun > 0 => Begun \in 1 .. Len(taken)
      BY <1>2, <1>4
    <3> QED
      BY <3>1, <1>3 DEF WalkInv, Pool
  <2>4. dispatched = {taken'[k] : k \in 1 .. (IF running = {} THEN Begun ELSE Begun - 1)}
    <3>1. \A k \in 1 .. (IF running = {} THEN Begun ELSE Begun - 1) : taken'[k] = taken[k]
      <4>1. \A k \in 1 .. (IF running = {} THEN Begun ELSE Begun - 1) : k \in 1 .. Len(taken)
        BY <1>2, <1>4
      <4> QED
        BY <4>1, <1>3
    <3>2. dispatched = {taken[k] : k \in 1 .. (IF running = {} THEN Begun ELSE Begun - 1)}
      BY DEF WalkInv, Pool
    <3> QED
      BY <3>1, <3>2
  <2>5. dpc' = dpc /\ running' = running /\ dispatched' = dispatched /\ (dpc = "idle" <=> running = {})
    BY <1>1 DEF walkVars, WalkInv, Pool
  <2> QED
    BY <2>1, <2>2, <2>3, <2>4, <2>5, <1>2, <1>5 DEF Pool
<1>7. \A f, g \in Events : Before(f, g) => Before(f, g)'
  <2> SUFFICES ASSUME NEW f \in Events, NEW g \in Events, NEW m \in DOMAIN taken,
                      NEW n \in DOMAIN taken, m < n, taken[m] = f, taken[n] = g
               PROVE  \E j, k \in DOMAIN taken' : j < k /\ taken'[j] = f /\ taken'[k] = g
    BY DEF Before
  <2> QED
    BY <1>3, <1>4
<1>8. InEventOrder'
  <2>1. /\ sent' = sent /\ missed' = missed /\ running' = running /\ dispatched' = dispatched
        /\ \A d : Heard(d)' = Heard(d)
    BY <1>1 DEF walkVars, Heard
  <2>2. \A d \in Descs : \A k \in DOMAIN sent[d] : sent[d][k] \in Events
    BY DEF WalkInv, ListInv, TypeOK
  <2> QED
    BY <2>1, <2>2, <1>7 DEF WalkInv, InEventOrder
<1>9. Walked'
  <2>1. UNCHANGED <<listVars, walkVars, missed, running, dispatched>>
    BY <1>1
  <2> QED
    BY <2>1 DEF WalkInv, Walked, listVars, walkVars, Listed, Due, Heard, Past, CurrentTypes
<1> QED
  BY <1>6, <1>8, <1>9 DEF Undisturbed

\* The first event that waits begins.
LEMMA BeginWalkEvents ==
  ASSUME WalkInv, BeginWalk
  PROVE  Undisturbed
<1>1. /\ running = {} /\ m_tasks # <<>> /\ m_tasks \in Seq(Events)
      /\ m_tasks' = Tail(m_tasks) /\ running' = {Head(m_tasks)} /\ dispatched' = dispatched
      /\ at' = IF mListenerDescList = <<>> THEN NoDesc ELSE mListenerDescList[1]
      /\ dpc' = "test"
      /\ UNCHANGED <<listVars, sent, history>>
  BY BeginWalkDoes DEF WalkInv, ListInv, TypeOK
<1> DEFINE e == Head(m_tasks)
<1>2. /\ Begun \in Nat /\ Len(taken) = Begun + Len(m_tasks) /\ taken' = taken /\ missed' = missed
      /\ DOMAIN taken = 1 .. Len(taken) /\ DOMAIN m_tasks = 1 .. Len(m_tasks)
      /\ Len(taken) \in Nat /\ Len(m_tasks) \in Nat
  BY <1>1, BegunIs DEF history
<1>3. /\ 1 \in DOMAIN m_tasks /\ e = m_tasks[1] /\ Len(m_tasks') = Len(m_tasks) - 1
      /\ DOMAIN m_tasks' = 1 .. Len(m_tasks) - 1
      /\ \A k \in DOMAIN m_tasks' : m_tasks'[k] = m_tasks[k + 1]
  BY <1>1
<1> HIDE DEF e
<1>4. e = taken[Begun + 1] /\ Begun + 1 \in 1 .. Len(taken) /\ Begun' = Begun + 1
  <2>1. m_tasks[1] = taken[Begun + 1]
    BY <1>3 DEF WalkInv, Pool
  <2> QED
    BY <2>1, <1>2, <1>3 DEF Begun
<1>5. running' = {e} /\ dispatched = {taken[k] : k \in 1 .. Begun}
  BY <1>1 DEF e, WalkInv, Pool
<1>6. e \notin dispatched
  <2> SUFFICES ASSUME NEW k \in 1 .. Begun, taken[k] = e PROVE FALSE
    BY <1>5
  <2>1. k \in DOMAIN taken /\ Begun + 1 \in DOMAIN taken /\ k # Begun + 1
    BY <1>2, <1>4
  <2> QED
    BY <2>1, <1>4 DEF WalkInv, Pool
<1>7. Pool'
  <2>1. \A k \in DOMAIN m_tasks' : m_tasks'[k] = taken[Begun + 1 + k]
    <3> SUFFICES ASSUME NEW k \in 1 .. Len(m_tasks) - 1
                 PROVE  m_tasks'[k] = taken[Begun + 1 + k]
      BY <1>3
    <3>1. k + 1 \in DOMAIN m_tasks /\ Begun + 1 + k = Begun + (k + 1)
      BY <1>2
    <3> QED
      BY <3>1, <1>3 DEF WalkInv, Pool
  <2>2. (Begun + 1) - 1 = Begun /\ Begun + 1 > 0 /\ Begun + 1 >= 0
    BY <1>2
  <2>3. \A m, n \in DOMAIN taken' : taken'[m] = taken'[n] => m = n
    BY <1>2 DEF WalkInv, Pool
  <2>4. running' # {} /\ dpc' # "idle"
    BY <1>1, <1>5
  <2>5. dispatched' = {taken'[k] : k \in 1 .. (IF running' = {} THEN Begun' ELSE Begun' - 1)}
    BY <1>1, <1>2, <1>4, <1>5, <2>2, <2>4
  <2> QED
    BY <1>1, <1>2, <1>4, <1>5, <2>1, <2>2, <2>3, <2>4, <2>5 DEF Pool
<1>8. \A d : Heard(d)' = Heard(d)
  BY <1>1 DEF Heard
<1>9. \A d \in Descs : missed[d] \subseteq dispatched /\ Heard(d) \subseteq dispatched
  BY <1>1 DEF WalkInv, InEventOrder
<1>10. InEventOrder'
  <2>1. \A f, g : Before(f, g)' <=> Before(f, g)
    BY <1>2 DEF Before
  <2>2. sent' = sent
    BY <1>1
  <2> QED
    BY <1>1, <1>2, <1>5, <1>6, <1>8, <1>9, <2>1, <2>2 DEF WalkInv, InEventOrder
<1>11. Walked'
  <2>1. Listed' = Listed /\ Listed \subseteq Descs /\ desc' = desc
        /\ mListenerDescList' = mListenerDescList /\ mListenerDescList \in Seq(Descs)
    BY <1>1 DEF listVars, Listed, WalkInv, ListInv, TypeOK
  <2>2. \A d \in Listed, f \in dispatched : Due(f, d)'
    <3>1. \A d \in Listed, f \in dispatched : Due(f, d)' <=> Due(f, d)
      BY <1>2, <1>8, <2>1 DEF Due
    <3> QED
      BY <3>1 DEF WalkInv, Walked
  <2>3. \A d \in Listed : ~Past(d)'
    <3> SUFFICES ASSUME NEW d \in Listed, Past(d)' PROVE FALSE
      OBVIOUS
    <3>1. mListenerDescList # <<>>
      BY DEF Listed
    <3>2. at' = mListenerDescList[1] /\ 1 \in DOMAIN mListenerDescList
      BY <3>1, <1>1, <2>1
    <3>3. at' # NoDesc
      BY <3>2, <2>1, NothingIsNothing
    <3>4. \E j, k \in DOMAIN mListenerDescList : mListenerDescList[k] = mListenerDescList[1] /\ j < k
      BY <3>2, <3>3, <2>1, <1>1 DEF Past
    <3>5. \A k \in DOMAIN mListenerDescList : mListenerDescList[k] = mListenerDescList[1] => k = 1
      BY <3>2 DEF WalkInv, ListInv, ListedOnce
    <3> QED
      BY <3>4, <3>5, <2>1
  <2>4. \A d \in Descs : e \notin Heard(d)'
    BY <1>6, <1>8, <1>9
  <2>5. at' # NoDesc => at' \in Descs
    <3>1. mListenerDescList # <<>> => mListenerDescList[1] \in Descs
      BY <2>1
    <3> QED
      BY <1>1, <3>1
  <2>6. at' # NoDesc => running' \cap Heard(at)' = {}
    <3>1. Heard(at)' = {sent[at'][k] : k \in DOMAIN sent[at']}
      BY <1>1 DEF Heard
    <3>2. \A d \in Descs : e \notin {sent[d][k] : k \in DOMAIN sent[d]}
      BY <1>6, <1>9 DEF Heard
    <3> QED
      BY <3>1, <3>2, <2>5, <1>5
  <2> QED
    BY <1>1, <1>5, <2>1, <2>2, <2>3, <2>4, <2>6 DEF Walked
<1> QED
  BY <1>7, <1>10, <1>11 DEF Undisturbed

\* The walk looks at a listener, which hears nothing of events it did not ask for.
LEMMA TestListenerEvents ==
  ASSUME WalkInv, TestListener
  PROVE  Undisturbed
<1>1. CASE Undefined
  BY <1>1, EventsUndisturbed DEF Undefined, listVars
<1>2. CASE ~Undefined
  <2>1. /\ dpc = "test" /\ at # NoDesc /\ at \in Listed
        /\ dpc' = IF desc[at].types \cap CurrentTypes # {} THEN "write" ELSE "next"
        /\ UNCHANGED <<listVars, poolVars, at, sent, history>>
    BY <1>2 DEF TestListener
  <2>2. PICK e \in Events : running = {e} /\ e \notin dispatched
    BY <2>1, RunningIs DEF WalkInv, Pool
  <2>3. CurrentTypes = TypeOf[e]
    BY <2>2 DEF CurrentTypes
  <2>4. Pool' /\ InEventOrder'
    <3>1. dpc' # "idle" /\ UNCHANGED <<m_tasks, running, dispatched, taken, sent, missed>>
      BY <2>1 DEF poolVars, history
    <3>2. Pool'
      BY <3>1, <2>2 DEF WalkInv, Pool, Begun
    <3>3. InEventOrder'
      BY <3>1 DEF WalkInv, InEventOrder, Heard, Before
    <3> QED
      BY <3>2, <3>3
  <2>5. /\ Listed' = Listed /\ CurrentTypes' = CurrentTypes
        /\ \A d : Heard(d)' = Heard(d)
        /\ \A d, f : Due(f, d)' <=> Due(f, d)
        /\ UNCHANGED <<running, dispatched, at, mListenerDescList, desc>>
    BY <2>1 DEF Listed, CurrentTypes, Heard, Due, listVars, poolVars, history
  <2>6. Heard(at)' = Heard(at)
    BY <2>1 DEF Heard
  <2>7. e \notin Heard(at)
    BY <2>1, <2>2 DEF WalkInv, Walked
  <2>8. \A d \in Listed : Past(d)' => Past(d) \/ (d = at /\ dpc' = "next")
    BY <2>1, <2>5 DEF Past
  <2>9. \A d : Past(d) => Past(d)'
    BY <2>1, <2>5 DEF Past
  <2>10. dpc' = "next" => Due(e, at)
    BY <2>1, <2>3, <2>7 DEF Due
  <2>11. \A d \in Listed : IF Past(d) THEN Due(e, d) ELSE e \notin Heard(d)
    BY <2>1, <2>2 DEF WalkInv, Walked
  <2>12. \A d \in Listed : IF Past(d)' THEN Due(e, d) ELSE e \notin Heard(d)
    BY <2>8, <2>9, <2>10, <2>11
  <2>13. dpc' = "write" => desc[at].types \cap CurrentTypes # {}
    BY <2>1
  <2>14. Walked'
    BY <2>1, <2>2, <2>5, <2>6, <2>7, <2>12, <2>13 DEF WalkInv, Walked
  <2> QED
    BY <2>4, <2>14 DEF Undisturbed
<1> QED
  BY <1>1, <1>2

\* The listener that the walk is on hears of the event, after all others.
LEMMA WriteEventEvents ==
  ASSUME WalkInv, WriteEvent
  PROVE  Undisturbed
<1>1. PICK e \in running : sent' = [sent EXCEPT ![at] = Append(@, e)]
  BY DEF WriteEvent
<1>2. /\ dpc = "write" /\ dpc' = "next"
      /\ UNCHANGED <<listVars, poolVars, at, history>>
  BY DEF WriteEvent
<1>3. at # NoDesc /\ at \in Descs /\ Made(at)
  BY <1>2, AtIsMade DEF WalkInv, Walked
<1>4. e \in Events /\ running = {e} /\ e \notin dispatched
  BY RunningIs DEF WalkInv
<1>5. CurrentTypes = TypeOf[e] /\ desc[at].types \cap TypeOf[e] # {}
  BY <1>2, <1>4 DEF CurrentTypes, WalkInv, Walked
<1> DEFINE s == sent[at]  n == Len(s) + 1
<1>6. /\ s \in Seq(Events) /\ sent'[at] = Append(s, e)
      /\ \A d \in Descs \ {at} : sent'[d] = sent[d]
  BY <1>1, <1>3 DEF WalkInv, ListInv, TypeOK
<1>7. /\ DOMAIN s = 1 .. Len(s) /\ Len(s) \in Nat
      /\ DOMAIN sent'[at] = 1 .. n /\ sent'[at][n] = e
      /\ \A k \in 1 .. Len(s) : sent'[at][k] = s[k]
  BY <1>4, <1>6, AppendIs
<1>8. Heard(at) = {s[k] : k \in 1 .. Len(s)} /\ e \notin Heard(at)
  <2>1. running \cap Heard(at) = {}
    BY <1>2, <1>3 DEF WalkInv, Walked
  <2> QED
    BY <2>1, <1>7 DEF Heard
<1>9. /\ Heard(at)' = Heard(at) \cup {e}
      /\ \A d \in Descs \ {at} : Heard(d)' = Heard(d)
  <2>1. Heard(at)' = {sent'[at][k] : k \in 1 .. n}
    BY <1>2, <1>7 DEF Heard
  <2>2. \A k \in 1 .. n : k \in 1 .. Len(s) \/ k = n
    BY <1>7
  <2>3. n \in 1 .. n /\ \A k \in 1 .. Len(s) : k \in 1 .. n
    BY <1>7
  <2>4. {sent'[at][k] : k \in 1 .. n} = {s[k] : k \in 1 .. Len(s)} \cup {e}
    <3> HIDE DEF s, n
    <3> QED
      BY <1>7, <2>2, <2>3
  <2>5. \A d \in Descs \ {at} : Heard(d)' = Heard(d)
    BY <1>6 DEF Heard
  <2> QED
    BY <2>1, <2>4, <2>5, <1>8
<1>10. \A d \in Descs : \A f \in Events : f \in {sent'[d][k] : k \in DOMAIN sent'[d]} <=>
          f \in Heard(d) \/ (f = e /\ d = at)
  <2> SUFFICES ASSUME NEW d \in Descs
               PROVE  \A f \in Events : f \in {sent'[d][k] : k \in DOMAIN sent'[d]} <=>
                        f \in Heard(d) \/ (f = e /\ d = at)
    OBVIOUS
  <2>1. CASE d = at
    BY <2>1, <1>2, <1>9 DEF Heard
  <2>2. CASE d # at
    BY <2>2, <1>9 DEF Heard
  <2> QED
    BY <2>1, <2>2
<1>11. \A d \in Descs : Heard(d) \subseteq dispatched \cup {e} /\ missed[d] \subseteq dispatched \cup {e}
  BY <1>4 DEF WalkInv, InEventOrder
<1> HIDE DEF s, n
<1>12. \A f \in dispatched : Before(f, e)
  <2>1. /\ dispatched = {taken[k] : k \in 1 .. Begun - 1} /\ e = taken[Begun] /\ Begun > 0
        /\ Begun \in Nat /\ Begun <= Len(taken) /\ DOMAIN taken = 1 .. Len(taken) /\ Len(taken) \in Nat
    BY <1>4, BegunIs DEF WalkInv, Pool
  <2> SUFFICES ASSUME NEW k \in 1 .. Begun - 1 PROVE Before(taken[k], e)
    BY <2>1
  <2>2. k \in DOMAIN taken /\ Begun \in DOMAIN taken /\ k < Begun
    BY <2>1
  <2> QED
    BY <2>1, <2>2 DEF Before
<1>13. InEventOrder'
  <2>1. /\ missed' = missed /\ running' = running /\ dispatched' = dispatched
        /\ \A f, g : Before(f, g)' <=> Before(f, g)
    BY <1>2 DEF poolVars, history, Before
  <2>2. \A d \in Descs : \A j, k \in DOMAIN sent'[d] : j < k => Before(sent'[d][j], sent'[d][k])
    <3> SUFFICES ASSUME NEW d \in Descs, NEW j \in DOMAIN sent'[d], NEW k \in DOMAIN sent'[d], j < k
                 PROVE  Before(sent'[d][j], sent'[d][k])
      OBVIOUS
    <3>1. CASE d # at
      BY <3>1, <1>6 DEF WalkInv, InEventOrder
    <3>2. CASE d = at /\ k \in 1 .. Len(s)
      <4>1. j \in 1 .. Len(s)
        BY <3>2, <1>7 DEF n
      <4>2. Before(s[j], s[k])
        BY <3>2, <4>1, <1>3, <1>7 DEF WalkInv, InEventOrder, s
      <4> QED
        BY <3>2, <4>1, <4>2, <1>7
    <3>3. CASE d = at /\ k = n
      <4>1. j \in 1 .. Len(s)
        BY <3>3, <1>7 DEF n
      <4>2. s[j] \in dispatched
        BY <4>1, <1>3, <1>8, <1>11
      <4> QED
        BY <3>3, <4>1, <4>2, <1>7, <1>12
    <3>4. d = at => k \in 1 .. Len(s) \/ k = n
      BY <1>7 DEF n
    <3> QED
      BY <3>1, <3>2, <3>3, <3>4
  <2>3. \A d \in Descs : \A f, g \in Heard(d)' \cap missed[d] : f = g
    <3> SUFFICES ASSUME NEW d \in Descs, NEW f \in Heard(d)' \cap missed[d],
                        NEW g \in Heard(d)' \cap missed[d]
                 PROVE  f = g
      OBVIOUS
    <3>1. CASE d # at
      BY <3>1, <1>9 DEF WalkInv, InEventOrder
    <3>2. CASE d = at /\ e \in missed[at]
      <4>1. Heard(at) \subseteq running
        BY <3>2, <1>3, <1>4 DEF WalkInv, InEventOrder
      <4>2. Heard(at)' = {e}
        BY <4>1, <1>4, <1>8, <1>9
      <4>3. Heard(d)' = {e}
        BY <3>2, <4>2, <1>2 DEF Heard
      <4> QED
        BY <4>3
    <3>3. CASE d = at /\ e \notin missed[at]
      <4>1. Heard(d)' = Heard(at) \cup {e}
        BY <3>3, <1>2, <1>9 DEF Heard
      <4>2. f \in Heard(at) \cap missed[at] /\ g \in Heard(at) \cap missed[at]
        BY <3>3, <4>1
      <4> QED
        BY <4>2, <1>3 DEF WalkInv, InEventOrder
    <3> QED
      BY <3>1, <3>2, <3>3
  <2>4. \A d \in Descs : Heard(d)' \subseteq running \cup dispatched
          /\ (running \subseteq missed[d] => Heard(d)' \subseteq running)
    <3> SUFFICES ASSUME NEW d \in Descs
                 PROVE  Heard(d)' \subseteq running \cup dispatched
                          /\ (running \subseteq missed[d] => Heard(d)' \subseteq running)
      OBVIOUS
    <3>1. Heard(d)' \subseteq Heard(d) \cup {e}
      <4>1. CASE d = at
        <5>1. Heard(d)' = Heard(at) \cup {e}
          BY <4>1, <1>2, <1>9 DEF Heard
        <5> QED
          BY <5>1, <4>1
      <4>2. CASE d # at
        BY <4>2, <1>9
      <4> QED
        BY <4>1, <4>2
    <3> QED
      BY <3>1, <1>4, <1>11 DEF WalkInv, InEventOrder
  <2>5. \A d \in Descs : missed[d] \subseteq running \cup dispatched
    BY DEF WalkInv, InEventOrder
  <2> QED
    BY <2>1, <2>2, <2>3, <2>4, <2>5 DEF InEventOrder
<1>14. Pool'
  <2>1. dpc' # "idle" /\ UNCHANGED <<m_tasks, running, dispatched, taken>>
    BY <1>2 DEF poolVars, history
  <2> QED
    BY <2>1, <1>4 DEF WalkInv, Pool, Begun
<1>15. Walked'
  <2>1. /\ Listed' = Listed /\ Listed \subseteq Descs
        /\ UNCHANGED <<running, dispatched, at, mListenerDescList, desc, missed>>
    BY <1>2 DEF Listed, listVars, poolVars, history, WalkInv, ListInv, TypeOK
  <2>2. \A d \in Descs, f \in dispatched : f \in Heard(d)' <=> f \in Heard(d)
    <3>1. \A f \in dispatched : f # e /\ f \in Events
      BY <1>4 DEF WalkInv, ListInv, TypeOK
    <3> QED
      BY <3>1, <1>10 DEF Heard
  <2>3. \A d \in Listed, f \in dispatched : Due(f, d)' <=> Due(f, d)
    BY <2>1, <2>2 DEF Due
  <2>4. \A d : Past(d)' => Past(d) \/ d = at
    BY <1>2, <2>1 DEF Past
  <2>5. \A d : Past(d) => Past(d)'
    BY <1>2, <2>1 DEF Past
  <2>6. ASSUME at \in Listed
        PROVE  \A d \in Listed : IF Past(d)' THEN Due(e, d)' ELSE e \notin Heard(d)'
    <3> SUFFICES ASSUME NEW d \in Listed
                 PROVE  IF Past(d)' THEN Due(e, d)' ELSE e \notin Heard(d)'
      OBVIOUS
    <3>1. IF Past(d) THEN Due(e, d) ELSE e \notin Heard(d)
      BY <2>6, <1>2, <1>4 DEF WalkInv, Walked
    <3>2. CASE d = at
      <4>1. e \in Heard(d)'
        BY <3>2, <1>2, <1>9 DEF Heard
      <4>2. Due(e, d)'
        BY <4>1, <3>2, <1>5, <2>1 DEF Due
      <4>3. Past(d)'
        <5>1. \E k \in DOMAIN mListenerDescList : mListenerDescList[k] = at
          BY <2>6 DEF Listed
        <5> QED
          BY <5>1, <3>2, <1>2, <2>1 DEF Past
      <4> QED
        BY <4>2, <4>3
    <3>3. CASE d # at
      <4>1. Heard(d)' = Heard(d)
        BY <3>3, <1>9, <2>1
      <4>2. Due(e, d)' <=> Due(e, d)
        BY <4>1, <2>1 DEF Due
      <4> QED
        BY <3>1, <3>3, <4>1, <4>2, <2>4, <2>5
    <3> QED
      BY <3>2, <3>3
  <2>7. \A d \in Listed, f \in dispatched : Due(f, d)
    BY DEF WalkInv, Walked
  <2>8. at' = at /\ dpc' = "next" /\ at # NoDesc /\ running' = {e} /\ dispatched' = dispatched
    BY <1>2, <1>3, <1>4, <2>1
  <2> QED
    BY <2>1, <2>3, <2>6, <2>7, <2>8 DEF Walked
<1> QED
  BY <1>13, <1>14, <1>15 DEF Undisturbed

\* The walk goes on behind the listener that it was on.
LEMMA NextListenerEvents ==
  ASSUME WalkInv, NextListener
  PROVE  Undisturbed
<1>1. CASE Undefined
  BY <1>1, EventsUndisturbed DEF Undefined, listVars
<1>2. CASE ~Undefined
  <2>1. /\ dpc = "next" /\ at \in Listed /\ at' = After(at) /\ dpc' = "test"
        /\ UNCHANGED <<listVars, poolVars, sent, history>>
    BY <1>2 DEF NextListener
  <2>2. PICK e \in Events : running = {e} /\ e \notin dispatched
    BY <2>1, RunningIs DEF WalkInv, Pool
  <2> DEFINE s == mListenerDescList  i == Place(at)
  <2>3. /\ i \in 1 .. Len(s) /\ s[i] = at /\ DOMAIN s = 1 .. Len(s) /\ Len(s) \in Nat
        /\ \A k \in DOMAIN s : s[k] = at => k = i
        /\ \A k \in DOMAIN s : s[k] \in Descs
    BY <2>1, PlaceIs DEF WalkInv, ListInv, TypeOK
  <2>4. /\ at' = IF i = Len(s) THEN NoDesc ELSE s[i + 1]
        /\ mListenerDescList' = s
    BY <2>1 DEF After, listVars
  <2>5. \A j, k \in DOMAIN s : s[j] = s[k] => j = k
    BY DEF WalkInv, ListInv, ListedOnce
  <2> HIDE DEF s, i
  <2>18. i \in Nat /\ Len(s) \in Nat /\ 1 <= i /\ i <= Len(s)
    BY <2>3
  <2>19. i # Len(s) => i + 1 \in DOMAIN s
    <3>1. i # Len(s) => i + 1 \in 1 .. Len(s)
      BY <2>18
    <3> QED
      BY <3>1, <2>3
  <2>6. \A d \in Listed : \E j \in DOMAIN s : s[j] = d
    BY DEF Listed, s
  <2>7. at # NoDesc
    BY <2>3, NothingIsNothing
  <2>8. \A j \in DOMAIN s : Past(s[j]) <=> j <= i
    <3> SUFFICES ASSUME NEW j \in DOMAIN s PROVE Past(s[j]) <=> j <= i
      OBVIOUS
    <3>1. Past(s[j]) <=> \E m, k \in DOMAIN s : s[m] = s[j] /\ s[k] = at /\ (m < k \/ m = k)
      BY <2>1, <2>7 DEF Past, s
    <3>2. \A m, k \in DOMAIN s : s[m] = s[j] /\ s[k] = at => m = j /\ k = i
      BY <2>3, <2>5
    <3> QED
      BY <3>1, <3>2, <2>3
  <2>9. \A j \in DOMAIN s : Past(s[j])' <=> j <= i
    <3>1. CASE i = Len(s)
      <4>1. at' = NoDesc
        BY <3>1, <2>4
      <4> QED
        BY <4>1, <3>1, <2>3 DEF Past
    <3>2. CASE i # Len(s)
      <4>1. i + 1 \in DOMAIN s /\ at' = s[i + 1] /\ at' # NoDesc
        <5>1. i + 1 \in DOMAIN s
          BY <3>2, <2>19
        <5>2. at' = s[i + 1]
          BY <3>2, <2>4
        <5> QED
          BY <5>1, <5>2, <2>3, NothingIsNothing
      <4> SUFFICES ASSUME NEW j \in DOMAIN s PROVE Past(s[j])' <=> j <= i
        OBVIOUS
      <4>2. PICK d : d = s[j]
        OBVIOUS
      <4>3. Past(d)' <=> \E m, k \in DOMAIN s : s[m] = d /\ s[k] = at' /\ m < k
        BY <2>1, <2>4, <4>1 DEF Past
      <4>4. \A m, k \in DOMAIN s : s[m] = d /\ s[k] = at' => m = j /\ k = i + 1
        BY <4>1, <4>2, <2>5
      <4>5. Past(d)' <=> j <= i
        BY <4>1, <4>2, <4>3, <4>4, <2>3
      <4>6. s' = s
        BY <2>4 DEF s
      <4> QED
        BY <4>5, <4>2, <4>6
    <3> QED
      BY <3>1, <3>2
  <2>10. /\ Listed' = Listed
         /\ \A d : Heard(d)' = Heard(d)
         /\ \A d, f : Due(f, d)' <=> Due(f, d)
         /\ UNCHANGED <<running, dispatched, desc>>
    BY <2>1 DEF Listed, Heard, Due, listVars, poolVars, history
  <2>11. Pool' /\ InEventOrder'
    <3>1. dpc' # "idle" /\ UNCHANGED <<m_tasks, running, dispatched, taken, sent, missed>>
      BY <2>1 DEF poolVars, history
    <3>2. Pool'
      BY <3>1, <2>2 DEF WalkInv, Pool, Begun
    <3>3. InEventOrder'
      BY <3>1 DEF WalkInv, InEventOrder, Heard, Before
    <3> QED
      BY <3>2, <3>3
  <2>12. \A d \in Listed : Past(d)' <=> Past(d)
    <3> SUFFICES ASSUME NEW d \in Listed PROVE Past(d)' <=> Past(d)
      OBVIOUS
    <3>1. PICK j \in DOMAIN s : s[j] = d
      BY <2>6
    <3>2. Past(s[j])' <=> Past(s[j])
      BY <2>8, <2>9
    <3>3. s' = s
      BY <2>4 DEF s
    <3> QED
      BY <3>1, <3>2, <3>3
  <2>13. \A d \in Listed : IF Past(d) THEN Due(e, d) ELSE e \notin Heard(d)
    BY <2>1, <2>2 DEF WalkInv, Walked
  <2>14. at' # NoDesc => at' \in Listed /\ e \notin {sent[at'][k] : k \in DOMAIN sent[at']}
    <3> SUFFICES ASSUME at' # NoDesc
                 PROVE  at' \in Listed /\ e \notin {sent[at'][k] : k \in DOMAIN sent[at']}
      OBVIOUS
    <3>1. i + 1 \in DOMAIN s /\ at' = s[i + 1]
      <4>1. i # Len(s) /\ at' = s[i + 1]
        BY <2>4
      <4> QED
        BY <4>1, <2>19
    <3>2. s[i + 1] \in Listed /\ ~Past(s[i + 1])
      BY <3>1, <2>3, <2>8 DEF Listed, s
    <3>3. e \notin Heard(s[i + 1])
      BY <3>2, <2>13
    <3> QED
      BY <3>1, <3>2, <3>3 DEF Heard
  <2>15. at' # NoDesc => running' \cap Heard(at)' = {}
    BY <2>14, <2>2, <2>10, <2>1 DEF Heard
  <2>16. \A d \in Listed, f \in dispatched : Due(f, d)
    BY DEF WalkInv, Walked
  <2>17. Walked'
    BY <2>1, <2>2, <2>10, <2>12, <2>13, <2>15, <2>16 DEF Walked
  <2> QED
    BY <2>11, <2>17 DEF Undisturbed
<1> QED
  BY <1>1, <1>2

\* At the end of the list all have heard.
LEMMA EndWalkEvents ==
  ASSUME WalkInv, EndWalk
  PROVE  Undisturbed
<1>1. /\ dpc = "test" /\ at = NoDesc /\ dpc' = "idle"
      /\ UNCHANGED <<listVars, at, sent, history>>
  BY DEF EndWalk
<1>2. PICK e \in Events : running = {e} /\ e \notin dispatched
  BY <1>1, RunningIs DEF WalkInv, Pool
<1>3. running' = {} /\ dispatched' = dispatched \cup {e} /\ m_tasks' = m_tasks
  BY <1>2, EndWalkDoes
<1>4. /\ Listed' = Listed /\ taken' = taken /\ missed' = missed /\ sent' = sent /\ Begun' = Begun
      /\ \A d : Heard(d)' = Heard(d)
      /\ \A d, f : Due(f, d)' <=> Due(f, d)
  BY <1>1, <1>3 DEF Listed, Heard, Due, Begun, listVars, history
<1>5. Pool'
  <2>1. e = taken[Begun] /\ Begun > 0 /\ dispatched = {taken[k] : k \in 1 .. Begun - 1}
    BY <1>2 DEF WalkInv, Pool
  <2>2. Begun \in Nat /\ \A k \in 1 .. Begun : k \in 1 .. Begun - 1 \/ k = Begun
    BY BegunIs
  <2>3. Begun \in 1 .. Begun /\ \A k \in 1 .. Begun - 1 : k \in 1 .. Begun
    BY <2>1, <2>2
  <2>4. dispatched' = {taken[k] : k \in 1 .. Begun}
    BY <1>3, <2>1, <2>2, <2>3
  <2>5. /\ \A m, n \in DOMAIN taken : taken[m] = taken[n] => m = n
        /\ Begun >= 0 /\ \A k \in DOMAIN m_tasks : m_tasks[k] = taken[Begun + k]
    BY DEF WalkInv, Pool
  <2> QED
    BY <1>1, <1>3, <1>4, <2>4, <2>5 DEF Pool
<1>6. InEventOrder'
  <2>1. \A f, g : Before(f, g)' <=> Before(f, g)
    BY <1>4 DEF Before
  <2> QED
    BY <1>2, <1>3, <1>4, <2>1 DEF WalkInv, InEventOrder
<1>7. Walked'
  <2>1. \A d \in Listed : Due(e, d)
    BY <1>1, <1>2 DEF WalkInv, Walked, Past
  <2>2. \A d \in Listed, f \in dispatched : Due(f, d)
    BY DEF WalkInv, Walked
  <2> QED
    BY <1>1, <1>3, <1>4, <2>1, <2>2 DEF Walked
<1> QED
  BY <1>5, <1>6, <1>7 DEF Undisturbed

\* A listener that is pushed has missed all that has begun.
LEMMA PushEvents ==
  ASSUME WalkInv, NEW l \in Loopers, Push(l)
  PROVE  Undisturbed
<1> DEFINE d == it[l]  s == mListenerDescList  n == Len(s) + 1
<1>1. pc[l] = "push" /\ Making(l) /\ d \in Descs
  BY DEF Push, Making, WalkInv, ListInv, LoopersKnow, Knows
<1>2. d \notin Listed /\ d # at /\ sent[d] = <<>>
  BY <1>1 DEF WalkInv, ListInv, Fresh, ToBePushed
<1>3. /\ mListenerDescList' = Append(s, d)
      /\ missed' = [missed EXCEPT ![d] = running \cup dispatched]
      /\ UNCHANGED <<desc, poolVars, walkVars, taken>>
  BY DEF Push
<1>4. s \in Seq(Descs) /\ DOMAIN s = 1 .. Len(s) /\ Len(s) \in Nat
  BY DEF WalkInv, ListInv, TypeOK
<1>5. /\ DOMAIN mListenerDescList' = 1 .. n /\ mListenerDescList'[n] = d
      /\ \A k \in 1 .. Len(s) : mListenerDescList'[k] = s[k]
  BY <1>1, <1>3, <1>4, AppendIs
<1>6. Listed' = Listed \cup {d}
  BY <1>1, <1>2, <1>3, PushListed DEF WalkInv, ListInv
<1>7. /\ missed'[d] = running \cup dispatched
      /\ \A f \in Descs \ {d} : missed'[f] = missed[f]
  BY <1>1, <1>3 DEF WalkInv, ListInv, TypeOK
<1>8. /\ UNCHANGED <<desc, m_tasks, running, dispatched, dpc, at, sent, taken>>
      /\ \A f : Heard(f)' = Heard(f)
      /\ Heard(d) = {} /\ CurrentTypes' = CurrentTypes
      /\ \A f, g : Before(f, g)' <=> Before(f, g)
  BY <1>2, <1>3 DEF poolVars, walkVars, Heard, CurrentTypes, Before
<1>9. \A f \in Listed : f \in Descs /\ f # d
  BY <1>2, <1>4 DEF Listed
<1> HIDE DEF d, s, n
<1>10. Pool'
  BY <1>8 DEF WalkInv, Pool, Begun
<1>11. InEventOrder'
  <2> SUFFICES ASSUME NEW f \in Descs
               PROVE  /\ missed'[f] \subseteq running \cup dispatched
                      /\ Heard(f) \subseteq running \cup dispatched
                      /\ \A j, k \in DOMAIN sent[f] : j < k => Before(sent[f][j], sent[f][k])
                      /\ \A e, g \in Heard(f) \cap missed'[f] : e = g
                      /\ running # {} /\ running \subseteq missed'[f] => Heard(f) \subseteq running
    BY <1>8 DEF InEventOrder
  <2>1. CASE f = d
    BY <2>1, <1>1, <1>2, <1>7, <1>8
  <2>2. CASE f # d
    BY <2>2, <1>7 DEF WalkInv, InEventOrder
  <2> QED
    BY <2>1, <2>2
<1>12. \A f \in Listed : \A e : Due(e, f)' <=> Due(e, f)
  BY <1>7, <1>8, <1>9 DEF Due
<1>13. \A e \in running \cup dispatched : Due(e, d)'
  <2>1. \A f, e : f = d /\ e \in running \cup dispatched => Due(e, f)'
    BY <1>7 DEF Due
  <2>2. d' = d
    BY <1>3 DEF d, Push
  <2> QED
    BY <2>1, <2>2
<1>14. \A f \in Listed : Past(f)' <=> Past(f)
  <2> SUFFICES ASSUME NEW f \in Listed PROVE Past(f)' <=> Past(f)
    OBVIOUS
  <2>1. \A k \in 1 .. n : k \in 1 .. Len(s) \/ k = n
    BY <1>4 DEF n
  <2>2. \A k \in 1 .. Len(s) : k \in 1 .. n
    BY <1>4 DEF n
  <2>3. \A k \in 1 .. n : mListenerDescList'[k] \in {f, at} => k \in 1 .. Len(s)
    BY <2>1, <1>2, <1>5, <1>9
  <2>4. Past(f) <=> \/ at = NoDesc
                    \/ \E j, k \in 1 .. Len(s) : s[j] = f /\ s[k] = at /\ (j < k \/ (j = k /\ dpc = "next"))
    BY <1>4 DEF Past, s
  <2>5. Past(f)' <=> \/ at = NoDesc
                     \/ \E j, k \in 1 .. n : /\ mListenerDescList'[j] = f /\ mListenerDescList'[k] = at
                                             /\ j < k \/ (j = k /\ dpc = "next")
    BY <1>5, <1>8 DEF Past
  <2> QED
    BY <2>2, <2>3, <2>4, <2>5, <1>5
<1>15. Walked'
  <2>1. \A f \in Listed', e \in dispatched' : Due(e, f)'
    <3> SUFFICES ASSUME NEW f \in Listed', NEW e \in dispatched PROVE Due(e, f)'
      BY <1>8
    <3>1. CASE f = d
      <4>1. d' = d
        BY <1>3 DEF d, Push
      <4> QED
        BY <3>1, <4>1, <1>13
    <3>2. CASE f # d
      BY <3>2, <1>6, <1>12 DEF WalkInv, Walked
    <3> QED
      BY <3>1, <3>2
  <2>2. ASSUME dpc # "idle", at \in Listed' \cup {NoDesc}, NEW f \in Listed', NEW e \in running
        PROVE  IF Past(f)' THEN Due(e, f)' ELSE e \notin Heard(f)'
    <3>1. CASE f = d
      <4>1. d' = d
        BY <1>3 DEF d, Push
      <4>2. Due(e, f)' /\ e \notin Heard(f)'
        BY <3>1, <4>1, <1>8, <1>13
      <4> QED
        BY <4>2
    <3>2. CASE f # d
      <4>1. f \in Listed /\ at \in Listed \cup {NoDesc}
        BY <2>2, <3>2, <1>2, <1>6
      <4>2. IF Past(f) THEN Due(e, f) ELSE e \notin Heard(f)
        BY <2>2, <4>1 DEF WalkInv, Walked
      <4> QED
        BY <4>1, <4>2, <1>8, <1>12, <1>14
    <3> QED
      BY <3>1, <3>2
  <2>3. Heard(at)' = Heard(at)
    BY <1>8 DEF Heard
  <2>4. /\ dpc' \in {"write", "next"} => at' # NoDesc
        /\ dpc' \in {"test", "write"} /\ at' # NoDesc => running' \cap Heard(at)' = {}
        /\ dpc' = "write" => desc'[at'].types \cap CurrentTypes' # {}
    BY <2>3, <1>8 DEF WalkInv, Walked
  <2>5. dpc' # "idle" /\ at' \in Listed' \cup {NoDesc} =>
          \A f \in Listed', e \in running' : IF Past(f)' THEN Due(e, f)' ELSE e \notin Heard(f)'
    BY <2>2, <1>8
  <2> QED
    BY <2>1, <2>4, <2>5 DEF Walked
<1> QED
  BY <1>10, <1>11, <1>15 DEF Undisturbed

\* A listener that is removed leaves the walk where it is.
LEMMA RemoveListenerEvents ==
  ASSUME WalkInv, NEW l \in Loopers, RemoveListener(l)
  PROVE  Undisturbed
<1>1. UNCHANGED <<desc, poolVars, walkVars, history>>
  BY DEF RemoveListener
<1>2. CASE mListenerDescList' = mListenerDescList
  BY <1>1, <1>2, EventsUndisturbed
<1>3. CASE mListenerDescList' # mListenerDescList
  <2>1. PICK i, t : /\ t = mListenerDescList' /\ Without(t, mListenerDescList, i)
                    /\ t \in Seq(Descs) /\ mListenerDescList[i] = it[l]
    BY <1>3, RemoveDoes DEF WalkInv
  <2> DEFINE s == mListenerDescList
  <2>2. /\ DOMAIN s = 1 .. Len(s) /\ Len(s) \in Nat /\ DOMAIN t = 1 .. Len(t) /\ Len(t) \in Nat
        /\ \A j, k \in DOMAIN s : s[j] = s[k] => j = k
    BY <2>1 DEF WalkInv, ListInv, TypeOK, ListedOnce
  <2>3. Listed' = Listed \ {s[i]}
    BY <2>1, RemoveDoes DEF WalkInv
  <2> HIDE DEF s
  <2>4. Without(t, s, i)
    BY <2>1 DEF s
  <2>5. /\ UNCHANGED <<desc, m_tasks, running, dispatched, dpc, at, sent, taken, missed>>
        /\ \A f : Heard(f)' = Heard(f)
        /\ CurrentTypes' = CurrentTypes
        /\ \A f, e : Due(e, f)' <=> Due(e, f)
    BY <1>1 DEF poolVars, walkVars, history, Heard, CurrentTypes, Due
  <2>6. Pool'
    BY <2>5 DEF WalkInv, Pool, Begun
  <2>7. InEventOrder'
    BY <2>5 DEF WalkInv, InEventOrder, Heard, Before
  <2>8. ASSUME NEW f \in Listed', at \in Listed' \cup {NoDesc}
        PROVE  Past(f)' <=> Past(f)
    <3> DEFINE shift(k) == IF k < i THEN k ELSE k + 1
    <3>1. Past(f) <=> \/ at = NoDesc
                      \/ \E j, k \in 1 .. Len(s) : s[j] = f /\ s[k] = at /\ (j < k \/ (j = k /\ dpc = "next"))
      BY <2>2 DEF Past, s
    <3>2. Past(f)' <=> \/ at = NoDesc
                       \/ \E j, k \in 1 .. Len(t) : t[j] = f /\ t[k] = at /\ (j < k \/ (j = k /\ dpc = "next"))
      BY <2>1, <2>2, <2>5 DEF Past
    <3>3. i \in 1 .. Len(s) /\ \A k \in 1 .. Len(t) : shift(k) \in 1 .. Len(s) /\ t[k] = s[shift(k)]
      BY <2>4, <2>2 DEF Without
    <3>4. \A j, k \in 1 .. Len(t) : (j < k <=> shift(j) < shift(k)) /\ (j = k <=> shift(j) = shift(k))
      BY <3>3, <2>2
    <3>5. \A k \in 1 .. Len(s) : k # i => \E m \in 1 .. Len(t) : t[m] = s[k] /\ k = shift(m)
      BY <2>2, <2>4, WithoutHas
    <3>6. f # s[i] /\ (at # NoDesc => at # s[i])
      BY <2>3, <2>8
    <3> HIDE DEF shift
    <3>7. ASSUME at # NoDesc, NEW j \in 1 .. Len(s), NEW k \in 1 .. Len(s), s[j] = f, s[k] = at,
                 j < k \/ (j = k /\ dpc = "next")
          PROVE  \E m, n \in 1 .. Len(t) : t[m] = f /\ t[n] = at /\ (m < n \/ (m = n /\ dpc = "next"))
      <4>1. j # i /\ k # i
        BY <3>6, <3>7
      <4>2. PICK m \in 1 .. Len(t) : t[m] = f /\ j = shift(m)
        BY <3>5, <3>7, <4>1
      <4>3. PICK n \in 1 .. Len(t) : t[n] = at /\ k = shift(n)
        BY <3>5, <3>7, <4>1
      <4> QED
        BY <4>2, <4>3, <3>4, <3>7
    <3>8. ASSUME NEW j \in 1 .. Len(t), NEW k \in 1 .. Len(t), t[j] = f, t[k] = at,
                 j < k \/ (j = k /\ dpc = "next")
          PROVE  \E m, n \in 1 .. Len(s) : s[m] = f /\ s[n] = at /\ (m < n \/ (m = n /\ dpc = "next"))
      BY <3>3, <3>4, <3>8
    <3> QED
      BY <3>1, <3>2, <3>7, <3>8
  <2>9. Walked'
    <3>1. Heard(at)' = Heard(at)
      BY <2>5 DEF Heard
    <3>2. /\ dpc' \in {"write", "next"} => at' # NoDesc
          /\ dpc' \in {"test", "write"} /\ at' # NoDesc => running' \cap Heard(at)' = {}
          /\ dpc' = "write" => desc'[at'].types \cap CurrentTypes' # {}
      BY <3>1, <2>5 DEF WalkInv, Walked
    <3>3. \A f \in Listed', e \in dispatched' : Due(e, f)'
      BY <2>3, <2>5 DEF WalkInv, Walked
    <3>4. ASSUME dpc # "idle", at \in Listed' \cup {NoDesc}, NEW f \in Listed', NEW e \in running
          PROVE  IF Past(f)' THEN Due(e, f)' ELSE e \notin Heard(f)'
      <4>1. f \in Listed /\ at \in Listed \cup {NoDesc}
        BY <3>4, <2>3
      <4>2. IF Past(f) THEN Due(e, f) ELSE e \notin Heard(f)
        BY <3>4, <4>1 DEF WalkInv, Walked
      <4> QED
        BY <4>2, <3>4, <2>5, <2>8
    <3>5. dpc' # "idle" /\ at' \in Listed' \cup {NoDesc} =>
            \A f \in Listed', e \in running' : IF Past(f)' THEN Due(e, f)' ELSE e \notin Heard(f)'
      BY <3>4, <2>5
    <3> QED
      BY <3>2, <3>3, <3>5 DEF Walked
  <2> QED
    BY <2>6, <2>7, <2>9 DEF Undisturbed
<1> QED
  BY <1>2, <1>3

\* The other steps of a looper.
LEMMA LooperEvents ==
  ASSUME WalkInv, NEW l \in Loopers, LooperStep(l)
  PROVE  Undisturbed
<1>1. CASE Create(l)
  <2>1. UNCHANGED <<mListenerDescList, poolVars, walkVars, history>>
    BY <1>1 DEF Create
  <2>2. \A d \in Descs : Made(d) => desc'[d].types = desc[d].types
    BY <1>1 DEF Create, Made, WalkInv, ListInv, TypeOK
  <2> QED
    BY <2>1, <2>2, EventsUndisturbed
<1>2. CASE Free(l)
  <2>1. UNCHANGED <<mListenerDescList, poolVars, walkVars, history>>
    BY <1>2 DEF Free, Undefined, listVars
  <2>2. \A d \in Descs : desc'[d].types = desc[d].types
    <3>1. it[l] \in Descs /\ desc[it[l]] \in Memory
      BY <1>2 DEF Free, WalkInv, ListInv, LoopersKnow, Knows, TypeOK
    <3>2. desc' = desc \/ desc' = [desc EXCEPT ![it[l]].mem = "freed"]
      BY <1>2 DEF Free, Undefined, listVars
    <3>3. [desc[it[l]] EXCEPT !.mem = "freed"].types = desc[it[l]].types
      BY <3>1 DEF Memory
    <3> QED
      BY <3>1, <3>2, <3>3 DEF WalkInv, ListInv, TypeOK
  <2> QED
    BY <2>1, <2>2, EventsUndisturbed
<1>3. CASE Take(l) \/ RefuseAdd(l) \/ Acquire(l) \/ LinkToDeath(l) \/ Find(l) \/ Release(l) \/ Reply(l)
  <2>1. UNCHANGED <<listVars, poolVars, walkVars, history>>
    BY <1>3 DEF Take, RefuseAdd, Acquire, LinkToDeath, Find, Release, Reply, Undefined
  <2> QED
    BY <2>1, EventsUndisturbed DEF listVars
<1>4. CASE Misbehaves(l)
  BY <1>4, EventsUndisturbed DEF Misbehaves, Undefined, listVars
<1> QED
  BY <1>1, <1>2, <1>3, <1>4, PushEvents, RemoveListenerEvents DEF LooperStep

\* The walk invariant holds at first.
LEMMA WalkInit == Init => WalkInv
<1> SUFFICES ASSUME Init PROVE WalkInv
  OBVIOUS
<1>1. ListInv
  BY ListInit
<1>2. Pool
  BY DEF Init, Dispatch!TQInit, Pool, Begun
<1>3. InEventOrder
  BY DEF Init, Dispatch!TQInit, InEventOrder, Heard
<1>4. Walked
  BY DEF Init, Dispatch!TQInit, Walked
<1> QED
  BY <1>1, <1>2, <1>3, <1>4 DEF WalkInv

\* Every step keeps the walk invariant.
LEMMA WalkStep == WalkInv /\ [Next]_vars => WalkInv'
<1> SUFFICES ASSUME WalkInv, [Next]_vars PROVE WalkInv'
  OBVIOUS
<1>1. ListInv'
  BY ListStep DEF WalkInv
<1>2. Undisturbed
  <2>1. CASE UNCHANGED vars
    BY <2>1, EventsUndisturbed DEF vars, listVars
  <2>2. ASSUME NEW c \in Clients, CallAddListener(c) \/ CallDelListener(c) \/ Die(c)
        PROVE  Undisturbed
    <3>1. UNCHANGED <<listVars, poolVars, walkVars, history>>
      BY <2>2 DEF CallAddListener, CallDelListener, Die
    <3> QED
      BY <3>1, EventsUndisturbed DEF listVars
  <2>3. ASSUME NEW d \in Descs, ReadEvent(d) \/ CloseSocket(d)
        PROVE  Undisturbed
    <3>1. UNCHANGED <<listVars, poolVars, walkVars, history>>
      BY <2>3 DEF ReadEvent, CloseSocket
    <3> QED
      BY <3>1, EventsUndisturbed DEF listVars
  <2>4. ASSUME NEW l \in Loopers, LooperStep(l)
        PROVE  Undisturbed
    BY <2>4, LooperEvents
  <2>5. ASSUME NEW e \in Events, ReadOnce(e)
        PROVE  Undisturbed
    BY <2>5, ReadOnceEvents
  <2>6. CASE DispatchStep
    <3>1. CASE WriteKills \/ StaleWrite
      BY <3>1, EventsUndisturbed DEF WriteKills, StaleWrite, Undefined, listVars
    <3> QED
      BY <2>6, <3>1, BeginWalkEvents, TestListenerEvents, WriteEventEvents,
         NextListenerEvents, EndWalkEvents DEF DispatchStep
  <2> QED
    BY <2>1, <2>2, <2>3, <2>4, <2>5, <2>6 DEF Next
<1> QED
  BY <1>1, <1>2 DEF Undisturbed, WalkInv

\* Whatever listeners come and go while the dispatch thread walks the list that
\* addListener, delListener and inputBinderDeath change without a lock, a
\* listener hears of every event of its types that begins after it was pushed,
\* once and in the order in which inputReaderThread read them: for any
\* processes, any listeners of each, any events and any loopers.  It holds up
\* to the step, if any, that kills the process or is undefined: a use of freed
\* memory, or a list operation that overlaps another looper's, which may lose
\* an element or break the list.
THEOREM ListenersAreTold == Spec => []ListenersHearAll
<1>1. WalkInv => ListenersHearAll
  <2> SUFFICES ASSUME WalkInv, running = {}, NEW d \in Listed
               PROVE  /\ Heard(d) \ missed[d] =
                           {e \in dispatched \ missed[d] : TypeOf[e] \cap desc[d].types # {}}
                      /\ \A e, f \in Heard(d) \cap missed[d] : e = f
                      /\ \A j, k \in DOMAIN sent[d] : j < k => Before(sent[d][j], sent[d][k])
    BY DEF ListenersHearAll
  <2>1. d \in Descs
    BY DEF WalkInv, ListInv, TypeOK, Listed
  <2>2. Heard(d) \subseteq dispatched /\ \A e \in dispatched : Due(e, d)
    BY <2>1 DEF WalkInv, InEventOrder, Walked
  <2> QED
    BY <2>1, <2>2 DEF WalkInv, InEventOrder, Due
<1>2. Spec => []WalkInv
  BY WalkInit, WalkStep, PTL DEF Spec
<1> QED
  BY <1>1, <1>2, PTL
-----------------------------------------------------------------------------
(* The references, with one looper.                                          *)

OneLooper == \A k, l \in Loopers : k = l

Adding(c) == {j \in Work : j.kind = "add" /\ j.client = c}
Dying(c) == {j \in Work : j.kind = "death" /\ j.client = c}

\* The listeners of a process for which the driver counts a reference: from
\* the acquire on, until the release.
Holds(d) ==
  d \in Listed \/ \E l \in Loopers : pc[l] \in {"link", "push", "release"} /\ it[l] = d
HoldersOf(c) == {d \in Descs : desc[d].client = c /\ Holds(d)}

\* The reference that is in the buffer a looper works on.
Buffer(c) ==
  IF \E l \in Loopers : job[l].kind = "add" /\ job[l].client = c THEN 1 ELSE 0

Queued(c) == Cardinality(Where(todo, Adding(c)))
Deaths(c) == Cardinality(Where(todo, Dying(c)))
Balance ==
  \A c \in Clients : strong[c] = Cardinality(HoldersOf(c)) + Queued(c) + Buffer(c)

\* A ListenerDesc in use is on the list or in the looper's hands, where it is
\* when it comes to the place to be removed, and no more when it is to be freed.
InUse(d) == desc[d].mem = "used"
Handled ==
  /\ \A d \in Listed : InUse(d)
  /\ \A d \in Descs : InUse(d) =>
       \/ d \in Listed
       \/ \E l \in Loopers : /\ Making(l) \/ pc[l] \in {"release", "free"}
                             /\ it[l] = d
  /\ \A l \in Loopers :
       /\ pc[l] = "remove" => it[l] \in Listed
       /\ pc[l] \in {"release", "free"} => it[l] \notin Listed
       /\ Making(l) \/ pc[l] \in {"release", "free"} => InUse(it[l])

RefInv == ListInv /\ Handled /\ Balance
-----------------------------------------------------------------------------
(* Deaths, with one looper and one listener to a process.                    *)

\* A process that runs has the socket of its listener open; it has one, and
\* none while it asks for one, once at a time.
Single ==
  /\ \A d \in Descs : InUse(d) /\ desc[d].client \in alive => d \in sockets
  /\ \A d, f \in Descs : InUse(d) /\ InUse(f) /\ desc[d].client = desc[f].client => d = f
  /\ \A c \in Clients : Queued(c) + Buffer(c) <= 1
  /\ \A d \in Descs : InUse(d) =>
       /\ Queued(desc[d].client) = 0
       /\ \A l \in Loopers : pc[l] = "create" => job[l].client # desc[d].client

\* Who is told of a death is the listener that holds the reference.
Notified ==
  \A c \in Clients :
    /\ death[c] # NoDesc => death[c] \in HoldersOf(c)
    /\ \A d \in HoldersOf(c) : death[c] = d \/ \E l \in Loopers : pc[l] = "link" /\ it[l] = d
    /\ \A l \in Loopers : pc[l] = "link" => death[job[l].client] = NoDesc

\* A death is told once: it is queued, or a looper has it, until its reference
\* is released.
Telling(c) ==
  IF \E l \in Loopers : /\ pc[l] \in {"remove", "release"}
                        /\ job[l].kind = "death" /\ job[l].client = c THEN 1 ELSE 0
Told ==
  \A c \in Clients :
    Deaths(c) + Telling(c) =
      IF c \notin alive /\ death[c] # NoDesc THEN 1 ELSE 0
IsDeath(j) == j.kind = "death" => j = DeathJob(j.client, death[j.client])
DeathsTrue ==
  /\ \A k \in DOMAIN todo : IsDeath(todo[k])
  /\ \A l \in Loopers : pc[l] \in {"remove", "release"} /\ job[l].kind = "death" =>
       desc[it[l]].client = job[l].client

DeathInv == RefInv /\ Single /\ Notified /\ Told /\ DeathsTrue
-----------------------------------------------------------------------------
(* What the references add up to.                                            *)

\* The references to a process are finitely many.
LEMMA Counted ==
  ASSUME TypeOK, NEW c
  PROVE  /\ IsFiniteSet(HoldersOf(c)) /\ Cardinality(HoldersOf(c)) \in Nat
         /\ Queued(c) \in Nat /\ Deaths(c) \in Nat /\ Buffer(c) \in {0, 1}
<1>1. HoldersOf(c) \in SUBSET Descs
  BY DEF HoldersOf
<1>2. IsFiniteSet(HoldersOf(c)) /\ Cardinality(HoldersOf(c)) \in Nat
  BY <1>1, BoundsOK, FS_Subset, FS_CardinalityType
<1>3. Len(todo) \in Nat
  BY DEF TypeOK
<1>4. Queued(c) \in Nat /\ Deaths(c) \in Nat
  BY <1>3, WhereCounted DEF Queued, Deaths
<1> QED
  BY <1>2, <1>4 DEF Buffer

\* Work that comes to the queue is one more of its kind.
LEMMA QueueGets ==
  ASSUME todo \in Seq(Work), todo' \in Seq(Work), NEW c,
         NEW i, Without(todo, todo', i)
  PROVE  /\ todo'[i] \in Adding(c) => Queued(c)' = Queued(c) + 1
         /\ todo'[i] \notin Adding(c) => Queued(c)' = Queued(c)
         /\ todo'[i] \in Dying(c) => Deaths(c)' = Deaths(c) + 1
         /\ todo'[i] \notin Dying(c) => Deaths(c)' = Deaths(c)
         /\ Queued(c)' \in Nat /\ Deaths(c)' \in Nat
<1>1. Len(todo) \in Nat /\ Len(todo') \in Nat
  OBVIOUS
<1>2. PICK t : t = todo'
  OBVIOUS
<1>3. Len(t) \in Nat /\ Without(todo, t, i)
  BY <1>1, <1>2
<1>4. ASSUME NEW W
      PROVE  /\ t[i] \in W => Cardinality(Where(t, W)) = Cardinality(Where(todo, W)) + 1
             /\ t[i] \notin W => Cardinality(Where(t, W)) = Cardinality(Where(todo, W))
             /\ Cardinality(Where(todo, W)) \in Nat /\ Cardinality(Where(t, W)) \in Nat
  <2>1. Cardinality(Where(todo, W)) \in Nat /\ Cardinality(Where(t, W)) \in Nat
    BY <1>1, <1>3, WhereCounted
  <2>2. t[i] \in W => Cardinality(Where(t, W)) = Cardinality(Where(todo, W)) + 1
    BY <1>1, <1>3, WithoutCounts
  <2>3. t[i] \notin W => Cardinality(Where(t, W)) = Cardinality(Where(todo, W)) + 0
    BY <1>1, <1>3, WithoutCounts
  <2> QED
    BY <2>1, <2>2, <2>3
<1> QED
  BY <1>2, <1>4 DEF Queued, Deaths

\* Work that leaves the queue is one less of its kind.
LEMMA QueueLoses ==
  ASSUME todo \in Seq(Work), todo' \in Seq(Work), NEW c,
         NEW i, Without(todo', todo, i)
  PROVE  /\ todo[i] \in Adding(c) => Queued(c) = Queued(c)' + 1
         /\ todo[i] \notin Adding(c) => Queued(c)' = Queued(c)
         /\ todo[i] \in Dying(c) => Deaths(c) = Deaths(c)' + 1
         /\ todo[i] \notin Dying(c) => Deaths(c)' = Deaths(c)
         /\ Queued(c)' \in Nat /\ Deaths(c)' \in Nat
<1>1. Len(todo) \in Nat /\ Len(todo') \in Nat
  OBVIOUS
<1>2. PICK t : t = todo'
  OBVIOUS
<1>3. Len(t) \in Nat /\ Without(t, todo, i)
  BY <1>1, <1>2
<1>4. ASSUME NEW W
      PROVE  /\ todo[i] \in W => Cardinality(Where(todo, W)) = Cardinality(Where(t, W)) + 1
             /\ todo[i] \notin W => Cardinality(Where(t, W)) = Cardinality(Where(todo, W))
             /\ Cardinality(Where(todo, W)) \in Nat /\ Cardinality(Where(t, W)) \in Nat
  <2>1. Cardinality(Where(todo, W)) \in Nat /\ Cardinality(Where(t, W)) \in Nat
    BY <1>1, <1>3, WhereCounted
  <2>2. todo[i] \in W => Cardinality(Where(todo, W)) = Cardinality(Where(t, W)) + 1
    BY <1>1, <1>3, WithoutCounts
  <2>3. todo[i] \notin W => Cardinality(Where(todo, W)) = Cardinality(Where(t, W)) + 0
    BY <1>1, <1>3, WithoutCounts
  <2> QED
    BY <2>1, <2>2, <2>3
<1> QED
  BY <1>2, <1>4 DEF Queued, Deaths

\* A process that has a place in the queue is counted there, and no other.
LEMMA QueueHas ==
  ASSUME TypeOK, NEW c
  PROVE  /\ Queued(c) = 0 <=> \A k \in DOMAIN todo : todo[k] \notin Adding(c)
         /\ Deaths(c) = 0 <=> \A k \in DOMAIN todo : todo[k] \notin Dying(c)
<1>1. Len(todo) \in Nat /\ DOMAIN todo = 1 .. Len(todo)
  BY DEF TypeOK
<1>2. IsFiniteSet(Where(todo, Adding(c))) /\ IsFiniteSet(Where(todo, Dying(c)))
  BY <1>1, WhereCounted
<1>3. /\ Queued(c) = 0 <=> Where(todo, Adding(c)) = {}
      /\ Deaths(c) = 0 <=> Where(todo, Dying(c)) = {}
  BY <1>2, FS_EmptySet DEF Queued, Deaths
<1> QED
  BY <1>1, <1>3 DEF Where

\* Releasing a reference that is counted leaves the calls in the queue; the
\* last takes the cookie and the death with it.
LEMMA ReleaseCounts ==
  ASSUME TypeOK, TypeOK', NEW c \in Clients, BC_RELEASE(c), strong[c] > 0
  PROVE  /\ strong'[c] = strong[c] - 1
         /\ \A b \in Clients \ {c} : strong'[b] = strong[b] /\ death'[b] = death[b]
                                     /\ Deaths(b)' = Deaths(b)
         /\ \A b \in Clients : Queued(b)' = Queued(b)
         /\ strong[c] > 1 => UNCHANGED <<death, todo>>
         /\ strong[c] = 1 => death'[c] = NoDesc /\ (Deaths(c) <= 1 => Deaths(c)' = 0)
         /\ \A k \in DOMAIN todo' : \E n \in DOMAIN todo : todo'[k] = todo[n]
<1>1. /\ \A b \in Clients \ {c} : strong'[b] = strong[b] /\ death'[b] = death[b]
      /\ strong[c] \in Nat
  BY ReleaseDoes DEF TypeOK
<1>2. strong'[c] = strong[c] - 1
  BY <1>1, ReleaseDoes
<1>3. strong[c] > 1 => UNCHANGED <<death, todo>>
  BY <1>1 DEF BC_RELEASE
<1>4. CASE todo' = todo
  <2>1. \A b : Queued(b)' = Queued(b) /\ Deaths(b)' = Deaths(b)
    BY <1>4 DEF Queued, Deaths
  <2>2. ASSUME strong[c] = 1 PROVE death'[c] = NoDesc /\ (Deaths(c) <= 1 => Deaths(c)' = 0)
    <3>1. death'[c] = NoDesc
      BY <2>2 DEF BC_RELEASE, TypeOK
    <3>2. DeathsOf(c) = {}
      <4> SUFFICES ASSUME DeathsOf(c) # {} PROVE FALSE
        OBVIOUS
      <4>1. PICK i \in DeathsOf(c) : todo' = RemoveAt(todo, i)
        BY <2>2 DEF BC_RELEASE
      <4>2. i \in DOMAIN todo /\ todo \in Seq(Work)
        BY DEF DeathsOf, TypeOK
      <4>3. Without(todo', todo, i)
        BY <4>1, <4>2, RemoveAtWithout
      <4> QED
        BY <1>4, <4>2, <4>3 DEF Without
    <3>3. \A k \in DOMAIN todo : todo[k] \notin Dying(c)
      BY <3>2 DEF DeathsOf, Dying
    <3> QED
      BY <2>1, <3>1, <3>3, QueueHas
  <2> QED
    BY <1>1, <1>2, <1>3, <1>4, <2>1, <2>2
<1>5. CASE todo' # todo
  <2>1. PICK i \in DeathsOf(c) : Without(todo', todo, i)
    BY <1>5, ReleaseDoes
  <2>2. /\ i \in DOMAIN todo /\ todo \in Seq(Work) /\ todo' \in Seq(Work)
        /\ todo[i].kind = "death" /\ todo[i].client = c /\ todo[i] \in Work
    BY DEF DeathsOf, TypeOK
  <2>3. /\ \A b : todo[i] \notin Adding(b)
        /\ \A b \in Clients \ {c} : todo[i] \notin Dying(b)
        /\ todo[i] \in Dying(c)
    BY <2>2 DEF Adding, Dying
  <2>4. \A b \in Clients : Queued(b)' = Queued(b)
    BY <2>1, <2>2, <2>3, QueueLoses
  <2>5. \A b \in Clients \ {c} : Deaths(b)' = Deaths(b)
    BY <2>1, <2>2, <2>3, QueueLoses
  <2>6. Deaths(c) = Deaths(c)' + 1 /\ Deaths(c)' \in Nat
    BY <2>1, <2>2, <2>3, QueueLoses
  <2>7. \A k \in DOMAIN todo' : \E n \in DOMAIN todo : todo'[k] = todo[n]
    BY <2>1, <2>2, WithoutTodo
  <2>8. strong[c] = 1 /\ death'[c] = NoDesc
    BY <1>1, <1>3, <1>5, ReleaseDoes
  <2> QED
    BY <1>1, <1>2, <1>3, <2>4, <2>5, <2>6, <2>7, <2>8
<1> QED
  BY <1>4, <1>5

\* A request queues a death at most.
LEMMA RequestCounts ==
  ASSUME TypeOK, NEW c \in Clients, NEW d \in Descs, BC_REQUEST_DEATH_NOTIFICATION(c, d)
  PROVE  /\ strong' = strong
         /\ \A b \in Clients : Queued(b)' = Queued(b)
         /\ \A b \in Clients \ {c} : death'[b] = death[b] /\ Deaths(b)' = Deaths(b)
         /\ death[c] = NoDesc =>
              /\ death'[c] = d
              /\ c \in alive => todo' = todo /\ Deaths(c)' = Deaths(c)
              /\ c \notin alive => Deaths(c)' = Deaths(c) + 1
         /\ \A k \in DOMAIN todo' :
              todo'[k] = DeathJob(c, d) \/ \E n \in DOMAIN todo : todo'[k] = todo[n]
<1>1. /\ strong' = strong /\ DeathJob(c, d) \in Work
      /\ \/ death[c] # NoDesc /\ UNCHANGED <<death, todo>>
         \/ /\ death[c] = NoDesc /\ death' = [death EXCEPT ![c] = d]
            /\ todo' = IF c \in alive THEN todo ELSE <<DeathJob(c, d)>> \o todo
  BY RequestDoes
<1>2. CASE todo' = todo /\ (death[c] = NoDesc => c \in alive)
  <2>1. \A b : Queued(b)' = Queued(b) /\ Deaths(b)' = Deaths(b)
    BY <1>2 DEF Queued, Deaths
  <2> QED
    BY <1>1, <1>2, <2>1 DEF TypeOK
<1>3. CASE ~(todo' = todo /\ (death[c] = NoDesc => c \in alive))
  <2> DEFINE j == DeathJob(c, d)
  <2>1. /\ todo' = <<j>> \o todo /\ j \in Work /\ death[c] = NoDesc /\ c \notin alive
        /\ death' = [death EXCEPT ![c] = d]
    BY <1>1, <1>3
  <2>2. j.kind = "death" /\ j.client = c
    BY DEF DeathJob
  <2> HIDE DEF j
  <2>3. /\ todo \in Seq(Work) /\ todo' \in Seq(Work) /\ Without(todo, todo', 1) /\ todo'[1] = j
    BY <2>1, ConsWithout DEF TypeOK
  <2>4. /\ \A b : j \notin Adding(b)
        /\ \A b \in Clients \ {c} : j \notin Dying(b)
        /\ j \in Dying(c)
    BY <2>1, <2>2 DEF Adding, Dying
  <2>5. \A b \in Clients : Queued(b)' = Queued(b)
    BY <2>3, <2>4, QueueGets
  <2>6. \A b \in Clients \ {c} : Deaths(b)' = Deaths(b)
    BY <2>3, <2>4, QueueGets
  <2>7. Deaths(c)' = Deaths(c) + 1
    BY <2>3, <2>4, QueueGets
  <2>8. \A k \in DOMAIN todo' : todo'[k] = j \/ \E n \in DOMAIN todo : todo'[k] = todo[n]
    BY <2>1, <2>3
  <2>9. \A b \in Clients : death'[b] = IF b = c THEN d ELSE death[b]
    BY <2>1 DEF TypeOK
  <2> QED
    BY <1>1, <2>1, <2>5, <2>6, <2>7, <2>8, <2>9 DEF j
<1> QED
  BY <1>2, <1>3
-----------------------------------------------------------------------------
(* The steps and the references.                                             *)

\* Nothing is on the list or in a looper's hands that was not.
LEMMA NotLoopers ==
  ASSUME RefInv, UNCHANGED <<listVars, looperVars>>
  PROVE  /\ Handled'
         /\ \A c : HoldersOf(c)' = HoldersOf(c) /\ Buffer(c)' = Buffer(c)
<1>1. Listed' = Listed /\ UNCHANGED <<desc, pc, job, it>>
  BY DEF listVars, looperVars, Listed
<1> QED
  BY <1>1 DEF RefInv, Handled, InUse, Making, HoldersOf, Holds, Buffer

\* The references and what they are counted by stay.
LEMMA QuietRefs ==
  ASSUME RefInv, ListInv', Handled', strong' = strong,
         \A c \in Clients :
           /\ HoldersOf(c)' = HoldersOf(c)
           /\ Queued(c)' + Buffer(c)' = Queued(c) + Buffer(c)
  PROVE  RefInv'
<1> SUFFICES ASSUME NEW c \in Clients
             PROVE  strong'[c] = Cardinality(HoldersOf(c)') + Queued(c)' + Buffer(c)'
  BY DEF RefInv, Balance
<1>1. /\ Cardinality(HoldersOf(c)) \in Nat /\ Queued(c) \in Nat /\ Buffer(c) \in {0, 1}
      /\ strong[c] = Cardinality(HoldersOf(c)) + Queued(c) + Buffer(c)
  BY Counted DEF RefInv, ListInv, Balance
<1>2. Queued(c)' \in Nat /\ Buffer(c)' \in {0, 1}
  <2>1. Buffer(c)' \in {0, 1}
    BY DEF Buffer
  <2>2. Len(todo') \in Nat
    BY DEF ListInv, TypeOK
  <2> QED
    BY <2>1, <2>2, WhereCounted DEF Queued
<1>3. /\ HoldersOf(c)' = HoldersOf(c)
      /\ Queued(c)' + Buffer(c)' = Queued(c) + Buffer(c)
  OBVIOUS
<1> QED
  BY <1>1, <1>2, <1>3

\* The loopers, the list and the driver stay.
LEMMA StillRefs ==
  ASSUME RefInv, ListInv', UNCHANGED <<listVars, looperVars, strong, todo>>
  PROVE  RefInv'
<1>1. \A c \in Clients : Queued(c)' = Queued(c)
  BY DEF Queued
<1> QED
  BY <1>1, NotLoopers, QuietRefs

\* A call to be added is a piece of work.
LEMMA AddJobIs ==
  ASSUME TypeOK, NEW c \in Clients, NEW t \in Masks, NEW ok \in BOOLEAN
  PROVE  /\ AddJob(c, adds + 1, t, ok) \in Work
         /\ AddJob(c, adds + 1, t, ok).kind = "add"
         /\ AddJob(c, adds + 1, t, ok).client = c
<1>1. adds + 1 \in Nat
  BY DEF TypeOK
<1>2. t \in SUBSET Types
  BY EventsHaveTypes
<1>3. PICK u \in Nat : u = adds + 1
  BY <1>1
<1>4. AddJob(c, u, t, ok) \in JobRec
  BY <1>2 DEF AddJob, JobRec
<1>5. AddJob(c, u, t, ok).kind = "add" /\ AddJob(c, u, t, ok).cookie = NoDesc
  BY DEF AddJob
<1>6. AddJob(c, u, t, ok).client = c
  BY DEF AddJob
<1> QED
  BY <1>3, <1>4, <1>5, <1>6 DEF Work

\* A call to be added comes with its reference.
LEMMA CallAddListenerRefs ==
  ASSUME RefInv, ListInv', NEW c \in Clients, CallAddListener(c)
  PROVE  RefInv'
<1>1. PICK t \in Masks, ok \in BOOLEAN : todo' = Append(todo, AddJob(c, adds + 1, t, ok))
  BY DEF CallAddListener
<1> DEFINE j == AddJob(c, adds + 1, t, ok)
<1>2. j \in Work /\ j.kind = "add" /\ j.client = c
  BY AddJobIs DEF RefInv, ListInv
<1> HIDE DEF j
<1>3. /\ todo \in Seq(Work) /\ todo' \in Seq(Work)
      /\ Without(todo, todo', Len(todo) + 1) /\ todo'[Len(todo) + 1] = j
  BY <1>1, <1>2, AppendWithout DEF RefInv, ListInv, TypeOK, j
<1>4. j \in Adding(c) /\ \A b \in Clients \ {c} : j \notin Adding(b)
  BY <1>2 DEF Adding
<1>5. Queued(c)' = Queued(c) + 1
  BY <1>3, <1>4, QueueGets
<1>6. \A b \in Clients \ {c} : Queued(b)' = Queued(b)
  BY <1>3, <1>4, QueueGets
<1>7. /\ strong' = [strong EXCEPT ![c] = @ + 1]
      /\ UNCHANGED <<listVars, looperVars>>
  BY DEF CallAddListener
<1>8. Handled' /\ \A b : HoldersOf(b)' = HoldersOf(b) /\ Buffer(b)' = Buffer(b)
  BY <1>7, NotLoopers
<1>9. Balance'
  <2> SUFFICES ASSUME NEW b \in Clients
               PROVE  strong'[b] = Cardinality(HoldersOf(b)') + Queued(b)' + Buffer(b)'
    BY DEF Balance
  <2>1. /\ Cardinality(HoldersOf(b)) \in Nat /\ Queued(b) \in Nat /\ Buffer(b) \in {0, 1}
        /\ strong[b] = Cardinality(HoldersOf(b)) + Queued(b) + Buffer(b)
    BY Counted DEF RefInv, ListInv, Balance
  <2>2. HoldersOf(b)' = HoldersOf(b) /\ Buffer(b)' = Buffer(b)
    BY <1>8
  <2>3. CASE b = c
    <3>1. strong'[b] = strong[b] + 1
      BY <1>7, <2>3 DEF RefInv, ListInv, TypeOK
    <3> QED
      BY <1>5, <2>1, <2>2, <2>3, <3>1
  <2>4. CASE b # c
    <3>1. strong'[b] = strong[b]
      BY <1>7, <2>4 DEF RefInv, ListInv, TypeOK
    <3> QED
      BY <1>6, <2>1, <2>2, <2>4, <3>1
  <2> QED
    BY <2>3, <2>4
<1> QED
  BY <1>8, <1>9 DEF RefInv

\* Work that brings no reference leaves the count.
LEMMA OtherWorkRefs ==
  ASSUME RefInv, ListInv', NEW j \in Work, j.kind # "add", todo' = Append(todo, j),
         UNCHANGED <<listVars, looperVars, strong>>
  PROVE  RefInv'
<1>1. /\ todo \in Seq(Work) /\ todo' \in Seq(Work)
      /\ Without(todo, todo', Len(todo) + 1) /\ todo'[Len(todo) + 1] = j
  BY AppendWithout DEF RefInv, ListInv, TypeOK
<1>2. \A b \in Clients : j \notin Adding(b)
  BY DEF Adding
<1>3. \A b \in Clients : Queued(b)' = Queued(b)
  BY <1>1, <1>2, QueueGets
<1> QED
  BY <1>3, NotLoopers, QuietRefs

\* A call to be deleted.
LEMMA CallDelListenerRefs ==
  ASSUME RefInv, ListInv', NEW c \in Clients, CallDelListener(c)
  PROVE  RefInv'
<1>1. PICK d \in Mine(c) : todo' = Append(todo, DelJob(c, desc[d].uid))
  BY DEF CallDelListener
<1>2. desc[d].uid \in Nat
  BY DEF RefInv, ListInv, TypeOK, Mine, Memory
<1> DEFINE j == DelJob(c, desc[d].uid)
<1>3. j \in Work /\ j.kind # "add"
  BY <1>2, NothingIsNothing DEF DelJob, Work, JobRec
<1>4. todo' = Append(todo, j) /\ UNCHANGED <<listVars, looperVars, strong>>
  BY <1>1 DEF CallDelListener
<1> HIDE DEF j
<1> QED
  BY <1>3, <1>4, OtherWorkRefs

\* A process dies.
LEMMA DieRefs ==
  ASSUME RefInv, ListInv', NEW c \in Clients, Die(c)
  PROVE  RefInv'
<1>1. CASE death[c] = NoDesc
  BY <1>1, StillRefs DEF Die
<1>2. CASE death[c] # NoDesc
  <2> DEFINE j == DeathJob(c, death[c])
  <2>1. death[c] \in Descs
    BY <1>2 DEF RefInv, ListInv, TypeOK
  <2>2. j \in Work /\ j.kind # "add"
    BY <2>1, NothingIsNothing DEF DeathJob, Work, JobRec
  <2>3. todo' = Append(todo, j) /\ UNCHANGED <<listVars, looperVars, strong>>
    BY <1>2 DEF Die
  <2> HIDE DEF j
  <2> QED
    BY <2>2, <2>3, OtherWorkRefs
<1> QED
  BY <1>1, <1>2

\* What is listed, held and in the buffer, where there is one looper.
LEMMA OneHolds ==
  ASSUME OneLooper, NEW l \in Loopers
  PROVE  /\ \A d : Holds(d) <=>
              d \in Listed \/ (pc[l] \in {"link", "push", "release"} /\ it[l] = d)
         /\ \A d : Holds(d)' <=>
              d \in Listed' \/ (pc'[l] \in {"link", "push", "release"} /\ it'[l] = d)
         /\ \A c : Buffer(c) = IF job[l].kind = "add" /\ job[l].client = c THEN 1 ELSE 0
         /\ \A c : Buffer(c)' = IF job'[l].kind = "add" /\ job'[l].client = c THEN 1 ELSE 0
<1>1. \A k \in Loopers : k = l
  BY DEF OneLooper
<1> QED
  BY <1>1 DEF Holds, Buffer

\* What a looper's step keeps in order, where there is one looper.
LEMMA OneHandles ==
  ASSUME OneLooper, NEW l \in Loopers,
         \A d \in Listed' : InUse(d)',
         \A d \in Descs : InUse(d)' =>
           \/ d \in Listed'
           \/ pc'[l] \in {"acquire", "link", "push", "release", "free"} /\ it'[l] = d,
         pc'[l] = "remove" => it'[l] \in Listed',
         pc'[l] \in {"release", "free"} => it'[l] \notin Listed',
         pc'[l] \in {"acquire", "link", "push", "release", "free"} => InUse(it[l])'
  PROVE  Handled'
<1>1. \A k \in Loopers : k = l
  BY DEF OneLooper
<1> QED
  BY <1>1 DEF Handled, Making

\* A step of a looper that keeps memory, list and driver, or has in hand at the
\* end of it what it had.
LEMMA MovesRefs ==
  ASSUME RefInv, OneLooper, NEW l \in Loopers, ListInv', Handled',
         UNCHANGED <<desc, strong>>, job'[l] = job[l], \A c \in Clients : Queued(c)' = Queued(c),
         \A d \in Descs : Holds(d)' <=> Holds(d)
  PROVE  RefInv'
<1>1. \A c \in Clients : HoldersOf(c)' = HoldersOf(c)
  BY DEF HoldersOf
<1>2. \A c \in Clients : Buffer(c)' = Buffer(c)
  BY OneHolds
<1> QED
  BY <1>1, <1>2, QuietRefs

\* A looper takes up work, and with a call to be added its reference.
LEMMA TakeRefs ==
  ASSUME RefInv, OneLooper, NEW l \in Loopers, ListInv', Take(l)
  PROVE  RefInv'
<1>1. CASE Undefined
  BY <1>1, StillRefs DEF Undefined, driverVars
<1>2. CASE ~Undefined
  <2> DEFINE j == Head(todo)
  <2>1. TypeOK /\ Knows(l) /\ pc[l] = "idle" /\ todo # <<>>
    BY DEF Take, RefInv, ListInv, LoopersKnow
  <2>2. /\ job' = [job EXCEPT ![l] = j] /\ todo' = Tail(todo) /\ it' = [it EXCEPT ![l] = j.cookie]
        /\ pc' = [pc EXCEPT ![l] = CASE j.kind = "add" -> "create"
                                     [] j.kind = "del" -> "find"
                                     [] j.kind = "death" -> "remove"]
        /\ UNCHANGED <<listVars, strong>>
        /\ ~(j.kind = "death" /\ desc[j.cookie].mem = "freed")
    BY <1>2 DEF Take, Goto
  <2>3. /\ todo \in Seq(Work) /\ todo' \in Seq(Work) /\ Without(todo', todo, 1) /\ j = todo[1]
        /\ j \in Work /\ 1 \in DOMAIN todo
    BY <2>1, <2>2, TailWithout DEF TypeOK
  <2> HIDE DEF j
  <2>4. /\ job'[l] = j /\ it'[l] = j.cookie
        /\ pc'[l] \in {"create", "find", "remove"}
        /\ pc'[l] = "remove" => j.kind = "death"
        /\ job[l].kind = "none"
    <3>1. j.kind \in {"add", "del", "death"}
      BY <2>3 DEF Work, JobRec
    <3> QED
      BY <2>1, <2>2, <3>1 DEF TypeOK, Knows, NoJob
  <2>5. Listed' = Listed /\ desc' = desc
    BY <2>2 DEF listVars, Listed
  <2>6. \A d \in Descs : InUse(d) => d \in Listed
    BY <2>1 DEF RefInv, Handled, OneLooper, Making
  <2>7. pc'[l] = "remove" => it'[l] \in Listed
    <3> SUFFICES ASSUME pc'[l] = "remove" PROVE j.cookie \in Listed
      BY <2>4
    <3>1. Of(j.cookie, j.client)
      BY <2>3, <2>4 DEF RefInv, ListInv, Owned
    <3>2. desc[j.cookie] \in Memory /\ desc[j.cookie].mem # "unused"
          /\ desc[j.cookie].mem # "freed" /\ j.cookie \in Descs
      BY <2>1, <2>2, <2>4, <3>1 DEF Of, Made, TypeOK
    <3>3. InUse(j.cookie)
      BY <3>2 DEF InUse, Memory
    <3> QED
      BY <2>6, <3>2, <3>3
  <2>8. Handled'
    <3>1. \A d \in Listed' : InUse(d)'
      BY <2>5 DEF RefInv, Handled, InUse
    <3>2. \A d \in Descs : InUse(d)' => d \in Listed'
      BY <2>5, <2>6 DEF InUse
    <3> QED
      BY <2>4, <2>5, <2>7, <3>1, <3>2, OneHandles
  <2>9. \A c \in Clients : HoldersOf(c)' = HoldersOf(c)
    <3>1. \A d : Holds(d)' <=> Holds(d)
      BY <2>1, <2>4, <2>5, OneHolds
    <3> QED
      BY <2>5, <3>1 DEF HoldersOf
  <2>10. \A c \in Clients : Queued(c)' + Buffer(c)' = Queued(c) + Buffer(c)
    <3> SUFFICES ASSUME NEW c \in Clients
                 PROVE  Queued(c)' + Buffer(c)' = Queued(c) + Buffer(c)
      OBVIOUS
    <3>1. Buffer(c) = 0 /\ Buffer(c)' = IF j.kind = "add" /\ j.client = c THEN 1 ELSE 0
      BY <2>4, OneHolds
    <3>2. j \in Adding(c) <=> j.kind = "add" /\ j.client = c
      BY <2>3 DEF Adding
    <3>3. /\ todo[1] \in Adding(c) => Queued(c) = Queued(c)' + 1
          /\ todo[1] \notin Adding(c) => Queued(c)' = Queued(c)
          /\ Queued(c)' \in Nat
      BY <2>3, QueueLoses
    <3> QED
      BY <2>3, <3>1, <3>2, <3>3
  <2> QED
    BY <2>2, <2>8, <2>9, <2>10, QuietRefs
<1> QED
  BY <1>1, <1>2

\* A call is refused.
LEMMA RefuseAddRefs ==
  ASSUME RefInv, OneLooper, NEW l \in Loopers, ListInv', RefuseAdd(l)
  PROVE  RefInv'
<1>1. /\ pc[l] = "create" /\ pc'[l] = "reply"
      /\ UNCHANGED <<listVars, strong, todo, job, it>>
  BY DEF RefuseAdd, Goto, RefInv, ListInv, TypeOK, driverVars
<1>2. Listed' = Listed /\ desc' = desc
  BY <1>1 DEF listVars, Listed
<1>3. \A d \in Descs : InUse(d) => d \in Listed
  BY <1>1 DEF RefInv, Handled, OneLooper, Making
<1>4. \A d \in Listed : InUse(d)
  BY DEF RefInv, Handled
<1>5. Handled'
  <2>1. \A d : InUse(d)' <=> InUse(d)
    BY <1>2 DEF InUse
  <2> QED
    BY <1>1, <1>2, <1>3, <1>4, <2>1, OneHandles
<1>6. \A d : Holds(d)' <=> Holds(d)
  BY <1>1, <1>2, OneHolds
<1>7. \A c \in Clients : Queued(c)' = Queued(c)
  BY <1>1 DEF Queued
<1> QED
  BY <1>1, <1>2, <1>5, <1>6, <1>7, MovesRefs

\* A ListenerDesc is made, for which the driver counts nothing yet.
LEMMA CreateRefs ==
  ASSUME RefInv, OneLooper, NEW l \in Loopers, ListInv', Create(l)
  PROVE  RefInv'
<1>1. PICK d \in Descs :
        /\ desc[d].mem = "unused" /\ it' = [it EXCEPT ![l] = d]
        /\ desc' = [desc EXCEPT ![d] = [mem |-> "used", client |-> job[l].client,
                                        uid |-> job[l].uid, types |-> job[l].types]]
  BY DEF Create
<1>2. /\ pc[l] = "create" /\ pc'[l] = "acquire" /\ it'[l] = d
      /\ UNCHANGED <<mListenerDescList, strong, todo, job>>
  BY <1>1 DEF Create, Goto, RefInv, ListInv, TypeOK, driverVars
<1>3. /\ desc'[d].mem = "used" /\ \A f \in Descs \ {d} : desc'[f] = desc[f]
  BY <1>1 DEF RefInv, ListInv, TypeOK
<1>4. Listed' = Listed /\ Listed \subseteq Descs /\ d \notin Listed
  <2>1. d \notin Listed
    BY <1>1 DEF RefInv, ListInv, Fresh, ToBePushed, Made
  <2> QED
    BY <1>2, <2>1 DEF Listed, RefInv, ListInv, TypeOK
<1>5. \A f \in Descs : InUse(f) => f \in Listed
  BY <1>2 DEF RefInv, Handled, OneLooper, Making
<1>6. \A f \in Listed : InUse(f)
  BY DEF RefInv, Handled
<1>7. \A f \in Descs : InUse(f)' <=> InUse(f) \/ f = d
  BY <1>3 DEF InUse
<1>8. Handled'
  <2>1. \A f \in Listed' : InUse(f)'
    BY <1>4, <1>6, <1>7
  <2>2. \A f \in Descs : InUse(f)' => f \in Listed' \/ f = d
    BY <1>4, <1>5, <1>7
  <2>3. InUse(it[l])'
    BY <1>2, <1>3 DEF InUse
  <2> QED
    BY <1>2, <2>1, <2>2, <2>3, OneHandles
<1>9. \A f \in Descs : Holds(f)' <=> Holds(f)
  BY <1>2, <1>4, OneHolds
<1>10. \A c \in Clients : HoldersOf(c)' = HoldersOf(c)
  <2>1. ~Holds(d)
    BY <1>2, <1>4, OneHolds
  <2> QED
    BY <1>3, <1>9, <2>1 DEF HoldersOf
<1>11. \A c \in Clients : Queued(c)' = Queued(c) /\ Buffer(c)' = Buffer(c)
  BY <1>2, OneHolds DEF Queued
<1> QED
  BY <1>2, <1>8, <1>10, <1>11, QuietRefs

\* The manager takes a reference of its own.
LEMMA AcquireRefs ==
  ASSUME RefInv, OneLooper, NEW l \in Loopers, ListInv', Acquire(l)
  PROVE  RefInv'
<1> DEFINE c == job[l].client  d == it[l]
<1>1. /\ pc[l] = "acquire" /\ pc'[l] = "link" /\ strong' = [strong EXCEPT ![c] = @ + 1]
      /\ UNCHANGED <<listVars, todo, job, it>>
  BY DEF Acquire, BC_ACQUIRE, Goto, RefInv, ListInv, TypeOK
<1>2. d \in Descs /\ desc[d].client = c /\ c \in Clients /\ ToBePushed(d)
  <2>1. Knows(l) /\ Making(l)
    BY <1>1 DEF RefInv, ListInv, LoopersKnow, Making
  <2> QED
    BY <1>1, <2>1 DEF Knows, ToBePushed, Work, JobRec
<1>3. InUse(d) /\ d \notin Listed
  BY <1>1, <1>2 DEF RefInv, Handled, ListInv, Fresh, Making
<1> HIDE DEF c, d
<1>4. Listed' = Listed /\ desc' = desc /\ it'[l] = d
  BY <1>1 DEF listVars, Listed, d
<1>5. \A f : InUse(f)' <=> InUse(f)
  BY <1>4 DEF InUse
<1>6. \A f \in Descs : InUse(f) => f \in Listed \/ f = d
  BY DEF RefInv, Handled, OneLooper, d
<1>7. \A f \in Listed : InUse(f)
  BY DEF RefInv, Handled
<1>8. Handled'
  <2>1. InUse(it[l])'
    BY <1>3, <1>4 DEF InUse
  <2> QED
    BY <1>1, <1>4, <1>5, <1>6, <1>7, <2>1, OneHandles
<1>9. \A f : Holds(f)' <=> Holds(f) \/ f = d
  BY <1>1, <1>4, OneHolds DEF d
<1>10. ~Holds(d)
  BY <1>1, <1>3, OneHolds
<1>11. \A b \in Clients : HoldersOf(b)' = IF b = c THEN HoldersOf(b) \cup {d} ELSE HoldersOf(b)
  BY <1>2, <1>4, <1>9 DEF HoldersOf
<1>12. d \notin HoldersOf(c)
  BY <1>10 DEF HoldersOf
<1>13. \A b \in Clients : Queued(b)' = Queued(b) /\ Buffer(b)' = Buffer(b)
  BY <1>1, OneHolds DEF Queued
<1>14. Balance'
  <2> SUFFICES ASSUME NEW b \in Clients
               PROVE  strong'[b] = Cardinality(HoldersOf(b)') + Queued(b)' + Buffer(b)'
    BY DEF Balance
  <2>1. /\ Cardinality(HoldersOf(b)) \in Nat /\ Queued(b) \in Nat /\ Buffer(b) \in {0, 1}
        /\ strong[b] = Cardinality(HoldersOf(b)) + Queued(b) + Buffer(b)
        /\ IsFiniteSet(HoldersOf(b))
    BY Counted DEF RefInv, ListInv, Balance
  <2>2. CASE b = c
    <3>1. strong'[b] = strong[b] + 1
      BY <1>1, <2>2 DEF RefInv, ListInv, TypeOK
    <3>2. Cardinality(HoldersOf(b)') = Cardinality(HoldersOf(b)) + 1
      BY <1>11, <1>12, <2>1, <2>2, FS_AddElement
    <3> QED
      BY <1>13, <2>1, <3>1, <3>2
  <2>3. CASE b # c
    <3>1. strong'[b] = strong[b] /\ HoldersOf(b)' = HoldersOf(b)
      BY <1>1, <1>11, <2>3 DEF RefInv, ListInv, TypeOK
    <3> QED
      BY <1>13, <2>1, <3>1
  <2> QED
    BY <2>2, <2>3
<1> QED
  BY <1>8, <1>14 DEF RefInv

\* The manager asks to be told of the death.
LEMMA LinkToDeathRefs ==
  ASSUME RefInv, OneLooper, NEW l \in Loopers, ListInv', LinkToDeath(l)
  PROVE  RefInv'
<1>1. /\ pc[l] = "link" /\ pc'[l] = "push" /\ UNCHANGED <<listVars, job, it>>
      /\ BC_REQUEST_DEATH_NOTIFICATION(job[l].client, it[l])
  BY DEF LinkToDeath, Goto, RefInv, ListInv, TypeOK
<1>2. TypeOK /\ it[l] \in Descs /\ job[l].client \in Clients
  <2>1. Knows(l) /\ Making(l)
    BY <1>1 DEF RefInv, ListInv, LoopersKnow, Making
  <2> QED
    BY <1>1, <2>1 DEF Knows, Work, JobRec, RefInv, ListInv
<1>3. strong' = strong /\ \A c \in Clients : Queued(c)' = Queued(c)
  BY <1>1, <1>2, RequestCounts
<1>4. Listed' = Listed /\ desc' = desc
  BY <1>1 DEF listVars, Listed
<1>5. \A f : InUse(f)' <=> InUse(f)
  BY <1>4 DEF InUse
<1>6. /\ \A f \in Descs : InUse(f) => f \in Listed \/ f = it[l]
      /\ \A f \in Listed : InUse(f)
      /\ InUse(it[l])
  BY <1>1 DEF RefInv, Handled, OneLooper, Making
<1>7. Handled'
  <2>1. InUse(it[l])'
    BY <1>1, <1>4, <1>6 DEF InUse
  <2> QED
    BY <1>1, <1>4, <1>5, <1>6, <2>1, OneHandles
<1>8. \A f : Holds(f)' <=> Holds(f)
  BY <1>1, <1>4, OneHolds
<1> QED
  BY <1>1, <1>3, <1>4, <1>7, <1>8, MovesRefs

\* The listener goes from the looper's hands to the list.
LEMMA PushRefs ==
  ASSUME RefInv, OneLooper, NEW l \in Loopers, ListInv', Push(l)
  PROVE  RefInv'
<1>1. /\ pc[l] = "push" /\ pc'[l] = "reply" /\ UNCHANGED <<desc, strong, todo, job, it>>
      /\ mListenerDescList' = Append(mListenerDescList, it[l])
  BY DEF Push, Goto, RefInv, ListInv, TypeOK, driverVars
<1>2. it[l] \in Descs /\ it[l] \notin Listed /\ TypeOK /\ ListedOnce
  <2>1. Knows(l) /\ Making(l)
    BY <1>1 DEF RefInv, ListInv, LoopersKnow, Making
  <2>2. it[l] \in Descs
    BY <1>1, <2>1 DEF Knows
  <2> QED
    BY <2>1, <2>2 DEF RefInv, ListInv, Fresh, ToBePushed
<1>3. Listed' = Listed \cup {it[l]}
  BY <1>1, <1>2, PushListed
<1>4. \A f : InUse(f)' <=> InUse(f)
  BY <1>1 DEF InUse
<1>5. /\ \A f \in Descs : InUse(f) => f \in Listed \/ f = it[l]
      /\ \A f \in Listed : InUse(f)
      /\ InUse(it[l])
  BY <1>1 DEF RefInv, Handled, OneLooper, Making
<1>6. Handled'
  BY <1>1, <1>3, <1>4, <1>5, OneHandles
<1>7. \A f : Holds(f)' <=> Holds(f)
  BY <1>1, <1>3, OneHolds
<1>8. \A c \in Clients : Queued(c)' = Queued(c)
  BY <1>1 DEF Queued
<1> QED
  BY <1>1, <1>6, <1>7, <1>8, MovesRefs

\* What delListener finds is on the list.
LEMMA FindRefs ==
  ASSUME RefInv, OneLooper, NEW l \in Loopers, ListInv', Find(l)
  PROVE  RefInv'
<1>1. pc[l] = "find" /\ UNCHANGED <<listVars, strong, todo, job>>
  BY DEF Find, driverVars
<1>2. pc'[l] = "reply" \/ (pc'[l] = "remove" /\ it'[l] \in Listed)
  <2> DEFINE found == {k \in DOMAIN mListenerDescList :
                         LET d == desc[mListenerDescList[k]] IN
                         d.client = job[l].client /\ d.uid = job[l].uid}
  <2>1. IF found = {} THEN pc' = [pc EXCEPT ![l] = "reply"]
        ELSE /\ it' = [it EXCEPT ![l] = mListenerDescList[CHOOSE k \in found :
                                          \A m \in found : k <= m]]
             /\ pc' = [pc EXCEPT ![l] = "remove"]
    BY DEF Find, Goto
  <2>2. pc \in [Loopers -> Places] /\ it \in [Loopers -> Descs \cup {NoDesc}]
    BY DEF RefInv, ListInv, TypeOK
  <2>3. CASE found = {}
    BY <2>1, <2>2, <2>3
  <2>4. CASE found # {}
    <3>1. found \subseteq Nat
      <4>1. mListenerDescList \in Seq(Descs)
        BY DEF RefInv, ListInv, TypeOK
      <4> QED
        BY <4>1
    <3>2. \E k \in found : \A m \in found : k <= m
      BY <2>4, <3>1, Least
    <3> DEFINE n == CHOOSE k \in found : \A m \in found : k <= m
    <3>3. n \in found
      BY <3>2
    <3>4. it'[l] = mListenerDescList[n] /\ pc'[l] = "remove"
      BY <2>1, <2>2, <2>4
    <3>5. n \in DOMAIN mListenerDescList
      BY <3>3
    <3> QED
      BY <3>4, <3>5 DEF Listed
  <2> QED
    BY <2>3, <2>4
<1>3. Listed' = Listed /\ desc' = desc
  BY <1>1 DEF listVars, Listed
<1>4. \A d \in Descs : InUse(d) => d \in Listed
  BY <1>1 DEF RefInv, Handled, OneLooper, Making
<1>5. \A d \in Listed : InUse(d)
  BY DEF RefInv, Handled
<1>6. Handled'
  <2>1. \A d : InUse(d)' <=> InUse(d)
    BY <1>3 DEF InUse
  <2> QED
    BY <1>1, <1>2, <1>3, <1>4, <1>5, <2>1, OneHandles
<1>7. \A d : Holds(d)' <=> Holds(d)
  BY <1>1, <1>2, <1>3, OneHolds
<1>8. \A c \in Clients : Queued(c)' = Queued(c)
  BY <1>1 DEF Queued
<1> QED
  BY <1>1, <1>3, <1>6, <1>7, <1>8, MovesRefs

\* The listener goes from the list to the looper's hands.
LEMMA RemoveListenerRefs ==
  ASSUME RefInv, OneLooper, NEW l \in Loopers, ListInv', RemoveListener(l)
  PROVE  RefInv'
<1>1. pc[l] = "remove" /\ pc'[l] = "release" /\ UNCHANGED <<desc, strong, todo, job, it>>
  BY DEF RemoveListener, Goto, RefInv, ListInv, TypeOK, driverVars
<1>2. Listed' = Listed \ {it[l]}
  BY RemoveDoes DEF RefInv
<1>3. it[l] \in Listed
  BY <1>1 DEF RefInv, Handled
<1>4. \A f : InUse(f)' <=> InUse(f)
  BY <1>1 DEF InUse
<1>5. /\ \A f \in Descs : InUse(f) => f \in Listed
      /\ \A f \in Listed : InUse(f)
  BY <1>1 DEF RefInv, Handled, OneLooper, Making
<1>6. Handled'
  BY <1>1, <1>2, <1>3, <1>4, <1>5, OneHandles
<1>7. \A f : Holds(f)' <=> Holds(f)
  BY <1>1, <1>2, <1>3, OneHolds
<1>8. \A c \in Clients : Queued(c)' = Queued(c)
  BY <1>1 DEF Queued
<1> QED
  BY <1>1, <1>6, <1>7, <1>8, MovesRefs

\* A release by somebody who has a reference: the count is one less.
LEMMA ReleasesRefs ==
  ASSUME RefInv, ListInv', Handled', NEW c \in Clients, BC_RELEASE(c), strong[c] > 0,
         \A b \in Clients : Cardinality(HoldersOf(b)') \in Nat /\ Buffer(b)' \in {0, 1},
         \A b \in Clients \ {c} : HoldersOf(b)' = HoldersOf(b) /\ Buffer(b)' = Buffer(b),
         Cardinality(HoldersOf(c)') + Buffer(c)' + 1 = Cardinality(HoldersOf(c)) + Buffer(c)
  PROVE  RefInv'
<1>1. /\ strong'[c] = strong[c] - 1
      /\ \A b \in Clients \ {c} : strong'[b] = strong[b]
      /\ \A b \in Clients : Queued(b)' = Queued(b)
  BY ReleaseCounts DEF RefInv, ListInv
<1> SUFFICES ASSUME NEW b \in Clients
             PROVE  strong'[b] = Cardinality(HoldersOf(b)') + Queued(b)' + Buffer(b)'
  BY DEF RefInv, Balance
<1>2. /\ Cardinality(HoldersOf(b)) \in Nat /\ Queued(b) \in Nat /\ Buffer(b) \in {0, 1}
      /\ strong[b] = Cardinality(HoldersOf(b)) + Queued(b) + Buffer(b)
  BY Counted DEF RefInv, ListInv, Balance
<1>3. CASE b = c
  <2>1. Cardinality(HoldersOf(c)') \in Nat /\ Buffer(c)' \in {0, 1}
    OBVIOUS
  <2>2. Queued(c)' = Queued(c)
    BY <1>1
  <2> QED
    BY <1>1, <1>2, <1>3, <2>1, <2>2
<1>4. CASE b # c
  BY <1>1, <1>2, <1>4
<1> QED
  BY <1>3, <1>4

\* The manager gives back its reference of a listener.
LEMMA ReleaseRefs ==
  ASSUME RefInv, OneLooper, NEW l \in Loopers, ListInv', Release(l)
  PROVE  RefInv' /\ BC_RELEASE(desc[it[l]].client) /\ pc'[l] = "free"
<1>0. PICK d, c : d = it[l] /\ c = desc[d].client
  OBVIOUS
<1>1. pc[l] = "release" /\ InUse(d) /\ d \notin Listed /\ d \in Descs /\ c \in Clients
  <2>1. pc[l] = "release" /\ Knows(l)
    BY DEF Release, RefInv, ListInv, LoopersKnow
  <2>2. d \in Descs /\ Made(d)
    BY <1>0, <2>1 DEF Knows
  <2> QED
    BY <1>0, <2>1, <2>2 DEF RefInv, Handled, ListInv, Owned
<1>2. /\ BC_RELEASE(c) /\ pc'[l] = "free" /\ UNCHANGED <<listVars, job, it>>
  <2>1. desc[d].mem # "freed"
    BY <1>1 DEF InUse
  <2> QED
    BY <1>0, <2>1 DEF Release, Goto, RefInv, ListInv, TypeOK
<1>3. Listed' = Listed /\ desc' = desc /\ it' = it /\ job' = job
  BY <1>2 DEF listVars, Listed
<1>4. d \in HoldersOf(c)
  BY <1>0, <1>1, OneHolds DEF HoldersOf
<1>5. /\ IsFiniteSet(HoldersOf(c)) /\ Cardinality(HoldersOf(c)) \in Nat
      /\ Queued(c) \in Nat /\ Buffer(c) \in {0, 1}
      /\ strong[c] = Cardinality(HoldersOf(c)) + Queued(c) + Buffer(c)
  BY <1>1, Counted DEF RefInv, ListInv, Balance
<1>6. Cardinality(HoldersOf(c) \ {d}) = Cardinality(HoldersOf(c)) - 1
      /\ Cardinality(HoldersOf(c) \ {d}) \in Nat
  BY <1>4, <1>5, FS_RemoveElement, FS_CardinalityType
<1>7. strong[c] > 0
  BY <1>5, <1>6
<1>8. \A f : Holds(f)' <=> Holds(f) /\ f # d
  BY <1>1, <1>2, <1>3, <1>0, OneHolds
<1>9. \A b \in Clients : HoldersOf(b)' = IF b = c THEN HoldersOf(b) \ {d} ELSE HoldersOf(b)
  BY <1>0, <1>3, <1>8 DEF HoldersOf
<1>10. \A b : Buffer(b)' = Buffer(b)
  BY <1>3, OneHolds
<1>11. Handled'
  <2>1. /\ \A f \in Descs : InUse(f) => f \in Listed \/ f = d
        /\ \A f \in Listed : InUse(f)
    BY <1>0 DEF RefInv, Handled, OneLooper
  <2>2. \A f : InUse(f)' <=> InUse(f)
    BY <1>3 DEF InUse
  <2>3. InUse(it[l])' /\ it'[l] = d
    BY <1>0, <1>1, <1>3 DEF InUse
  <2> QED
    BY <1>1, <1>2, <1>3, <2>1, <2>2, <2>3, OneHandles
<1>12. /\ \A b \in Clients : Cardinality(HoldersOf(b)') \in Nat /\ Buffer(b)' \in {0, 1}
       /\ \A b \in Clients \ {c} : HoldersOf(b)' = HoldersOf(b) /\ Buffer(b)' = Buffer(b)
  <2>1. \A b \in Clients : Cardinality(HoldersOf(b)) \in Nat /\ Buffer(b) \in {0, 1}
    BY Counted DEF RefInv, ListInv
  <2> QED
    BY <1>6, <1>9, <1>10, <2>1
<1>13. Cardinality(HoldersOf(c)') + Buffer(c)' + 1 = Cardinality(HoldersOf(c)) + Buffer(c)
  <2>1. HoldersOf(c)' = HoldersOf(c) \ {d} /\ Buffer(c)' = Buffer(c)
    BY <1>1, <1>9, <1>10
  <2> QED
    BY <1>5, <1>6, <2>1
<1>14. RefInv'
  BY <1>1, <1>2, <1>7, <1>11, <1>12, <1>13, ReleasesRefs
<1> QED
  BY <1>0, <1>2, <1>14

\* The listener's memory is given back, once.
LEMMA FreeRefs ==
  ASSUME RefInv, OneLooper, NEW l \in Loopers, ListInv', Free(l)
  PROVE  /\ RefInv' /\ desc' = [desc EXCEPT ![it[l]].mem = "freed"]
         /\ \A f \in Descs : InUse(f)' <=> InUse(f) /\ f # it[l]
         /\ \A f \in Descs : desc'[f].client = desc[f].client
         /\ \A f : Holds(f)' <=> Holds(f)
         /\ pc'[l] \in {"idle", "reply"} /\ job[l].kind # "add" /\ job'[l].kind # "add"
         /\ UNCHANGED <<mListenerDescList, driverVars, clientVars>>
<1> DEFINE d == it[l]
<1>1. pc[l] = "free" /\ InUse(d) /\ d \notin Listed /\ d \in Descs /\ job[l].kind # "add"
  <2>1. pc[l] = "free" /\ Knows(l)
    BY DEF Free, RefInv, ListInv, LoopersKnow
  <2> QED
    BY <2>1 DEF Knows, RefInv, Handled
<1>2. /\ desc' = [desc EXCEPT ![d].mem = "freed"]
      /\ Finish(l) \/ (pc' = [pc EXCEPT ![l] = "reply"] /\ UNCHANGED <<job, it>>)
      /\ UNCHANGED <<mListenerDescList, driverVars, clientVars>>
  <2>1. desc[d].mem # "freed"
    BY <1>1 DEF InUse
  <2> QED
    BY <2>1 DEF Free, Goto
<1>3. pc'[l] \in {"idle", "reply"} /\ job'[l].kind # "add"
  BY <1>1, <1>2 DEF Finish, Goto, NoJob, RefInv, ListInv, TypeOK
<1> HIDE DEF d
<1>4. /\ desc'[d].mem = "freed" /\ desc'[d].client = desc[d].client
      /\ \A f \in Descs \ {d} : desc'[f] = desc[f]
  <2>1. desc[d] \in Memory /\ desc \in [Descs -> Memory]
    BY <1>1 DEF RefInv, ListInv, TypeOK
  <2> DEFINE r == [desc[d] EXCEPT !.mem = "freed"]
  <2>2. r.mem = "freed" /\ r.client = desc[d].client
    BY <2>1 DEF Memory
  <2>3. desc' = [desc EXCEPT ![d] = r]
    BY <1>2
  <2> HIDE DEF r
  <2> QED
    BY <1>1, <2>1, <2>2, <2>3
<1>5. Listed' = Listed
  BY <1>2 DEF Listed
<1>6. /\ \A f \in Descs : InUse(f)' <=> InUse(f) /\ f # d
      /\ \A f \in Descs : desc'[f].client = desc[f].client
  BY <1>4 DEF InUse
<1>7. Handled'
  <2>1. /\ \A f \in Descs : InUse(f) => f \in Listed \/ f = d
        /\ \A f \in Listed : InUse(f)
    BY DEF RefInv, Handled, OneLooper, d
  <2>2. Listed \subseteq Descs
    BY DEF Listed, RefInv, ListInv, TypeOK
  <2> QED
    BY <1>1, <1>3, <1>5, <1>6, <2>1, <2>2, OneHandles
<1>8. \A f : Holds(f)' <=> Holds(f)
  BY <1>1, <1>3, <1>5, OneHolds
<1>9. \A b \in Clients : HoldersOf(b)' = HoldersOf(b)
  BY <1>6, <1>8 DEF HoldersOf
<1>10. \A b \in Clients : Queued(b)' = Queued(b) /\ Buffer(b)' = Buffer(b)
  <2>1. todo' = todo
    BY <1>2 DEF driverVars
  <2> QED
    BY <1>1, <1>3, <2>1, OneHolds DEF Queued
<1>11. strong' = strong
  BY <1>2 DEF driverVars
<1>12. RefInv'
  BY <1>7, <1>9, <1>10, <1>11, QuietRefs
<1> QED
  BY <1>1, <1>2, <1>3, <1>6, <1>8, <1>12 DEF d

\* The reply to a call to be added frees its buffer, and the reference in it.
LEMMA ReplyRefs ==
  ASSUME RefInv, OneLooper, NEW l \in Loopers, ListInv', Reply(l)
  PROVE  /\ RefInv' /\ pc[l] = "reply" /\ pc'[l] = "idle" /\ job'[l] = NoJob
         /\ UNCHANGED <<listVars, clientVars>>
         /\ job[l].kind = "add" => strong[job[l].client] > 0
         /\ \A c : HoldersOf(c)' = HoldersOf(c)
<1>0. PICK c : c = job[l].client
  OBVIOUS
<1>1. /\ pc[l] = "reply" /\ pc'[l] = "idle" /\ job'[l] = NoJob
      /\ UNCHANGED <<listVars, clientVars>>
      /\ IF job[l].kind = "add" THEN BC_RELEASE(c) ELSE UNCHANGED driverVars
  BY <1>0 DEF Reply, Finish, Goto, RefInv, ListInv, TypeOK
<1>2. c \in Clients
  <2>1. Knows(l)
    BY DEF RefInv, ListInv, LoopersKnow
  <2> QED
    BY <1>0, <1>1, <2>1 DEF Knows, Work, JobRec
<1>3. Listed' = Listed /\ desc' = desc /\ job'[l].kind # "add"
  BY <1>1 DEF listVars, Listed, NoJob
<1>4. Handled'
  <2>1. /\ \A f \in Descs : InUse(f) => f \in Listed
        /\ \A f \in Listed : InUse(f)
    BY <1>1 DEF RefInv, Handled, OneLooper, Making
  <2>2. \A f : InUse(f)' <=> InUse(f)
    BY <1>3 DEF InUse
  <2> QED
    BY <1>1, <1>3, <2>1, <2>2, OneHandles
<1>5. \A f : Holds(f)' <=> Holds(f)
  BY <1>1, <1>3, OneHolds
<1>6. \A b : HoldersOf(b)' = HoldersOf(b)
  BY <1>3, <1>5 DEF HoldersOf
<1>7. CASE job[l].kind # "add"
  <2>1. strong' = strong /\ \A b : Queued(b)' = Queued(b)
    BY <1>1, <1>7 DEF driverVars, Queued
  <2>2. \A b : Buffer(b)' = Buffer(b)
    BY <1>3, <1>7, OneHolds
  <2>3. RefInv'
    BY <1>4, <1>6, <2>1, <2>2, QuietRefs
  <2> QED
    BY <1>1, <1>6, <1>7, <2>3
<1>8. CASE job[l].kind = "add"
  <2>1. BC_RELEASE(c) /\ Buffer(c) = 1 /\ Buffer(c)' = 0
        /\ \A b \in Clients \ {c} : Buffer(b) = 0 /\ Buffer(b)' = 0
    BY <1>0, <1>1, <1>3, <1>8, OneHolds
  <2>2. \A b \in Clients : Cardinality(HoldersOf(b)) \in Nat
    BY Counted DEF RefInv, ListInv
  <2>3. Cardinality(HoldersOf(c)) \in Nat /\ Queued(c) \in Nat
        /\ strong[c] = Cardinality(HoldersOf(c)) + Queued(c) + Buffer(c)
    BY <1>2, Counted DEF RefInv, ListInv, Balance
  <2>4. strong[c] > 0
    BY <2>1, <2>3
  <2>5. /\ \A b \in Clients : Cardinality(HoldersOf(b)') \in Nat /\ Buffer(b)' \in {0, 1}
        /\ \A b \in Clients \ {c} : HoldersOf(b)' = HoldersOf(b) /\ Buffer(b)' = Buffer(b)
    BY <1>6, <2>1, <2>2
  <2>6. Cardinality(HoldersOf(c)') + Buffer(c)' + 1 = Cardinality(HoldersOf(c)) + Buffer(c)
    BY <1>6, <2>1, <2>3
  <2>7. RefInv'
    BY <1>2, <1>4, <2>1, <2>4, <2>5, <2>6, ReleasesRefs
  <2> QED
    BY <1>0, <1>1, <1>6, <2>4, <2>7
<1> QED
  BY <1>7, <1>8

\* At first nothing is counted.
LEMMA RefInit == Init => RefInv
<1> SUFFICES ASSUME Init PROVE RefInv
  OBVIOUS
<1>1. ListInv /\ Listed = {} /\ todo = <<>>
  BY ListInit DEF Init, Listed
<1>2. \A d \in Descs : ~InUse(d)
  BY DEF Init, InUse, Unused
<1>3. Handled
  BY <1>1, <1>2 DEF Init, Handled, Making
<1>4. \A c \in Clients : HoldersOf(c) = {}
  BY <1>1 DEF Init, HoldersOf, Holds
<1>5. \A c \in Clients : Where(todo, Adding(c)) = {} /\ Buffer(c) = 0
  BY <1>1 DEF Init, Where, Buffer, NoJob
<1>6. Balance
  <2>1. Cardinality({}) = 0
    BY FS_EmptySet
  <2>2. \A c \in Clients : strong[c] = 0 /\ Cardinality(HoldersOf(c)) = 0 /\ Queued(c) = 0
    BY <1>4, <1>5, <2>1 DEF Init, Queued
  <2> QED
    BY <1>5, <2>2 DEF Balance
<1> QED
  BY <1>1, <1>3, <1>6 DEF RefInv

\* One looper keeps the balance.
LEMMA RefStep == RefInv /\ OneLooper /\ [Next]_vars => RefInv'
<1> SUFFICES ASSUME RefInv, OneLooper, [Next]_vars PROVE RefInv'
  OBVIOUS
<1>1. ListInv'
  BY ListStep DEF RefInv
<1>2. CASE UNCHANGED vars
  BY <1>1, <1>2, StillRefs DEF vars, driverVars
<1>3. ASSUME NEW c \in Clients, CallAddListener(c) \/ CallDelListener(c) \/ Die(c)
      PROVE  RefInv'
  BY <1>1, <1>3, CallAddListenerRefs, CallDelListenerRefs, DieRefs
<1>4. ASSUME NEW d \in Descs, ReadEvent(d) \/ CloseSocket(d)
      PROVE  RefInv'
  BY <1>1, <1>4, StillRefs DEF ReadEvent, CloseSocket, driverVars
<1>5. ASSUME NEW l \in Loopers, LooperStep(l)
      PROVE  RefInv'
  <2>1. CASE Misbehaves(l)
    BY <1>1, <2>1, StillRefs DEF Misbehaves, Undefined, driverVars
  <2> QED
    BY <1>1, <1>5, <2>1, TakeRefs, RefuseAddRefs, CreateRefs, AcquireRefs, LinkToDeathRefs,
       PushRefs, FindRefs, RemoveListenerRefs, ReleaseRefs, FreeRefs, ReplyRefs DEF LooperStep
<1>6. ASSUME NEW e \in Events, ReadOnce(e)
      PROVE  RefInv'
  BY <1>1, <1>6, StillRefs DEF ReadOnce, driverVars
<1>7. CASE DispatchStep
  BY <1>1, <1>7, StillRefs DEF DispatchStep, BeginWalk, TestListener, Undefined, WriteEvent,
     WriteKills, StaleWrite, NextListener, EndWalk, driverVars
<1> QED
  BY <1>2, <1>3, <1>4, <1>5, <1>6, <1>7 DEF Next

\* With one looper the driver counts one reference for each listener on the
\* list and one for each addListener call that is queued, however many
\* listeners a process has, deletes or leaves behind when it dies.
THEOREM ReferencesAreBalanced ==
  ASSUME OneLooper
  PROVE  Spec => []ReferencesBalance
<1>1. RefInv => ReferencesBalance
  <2> SUFFICES ASSUME RefInv, AtRest, NEW c \in Clients
               PROVE  strong[c] =
                        Cardinality({d \in Listed : desc[d].client = c})
                        + Cardinality({k \in DOMAIN todo : todo[k].kind = "add"
                                                          /\ todo[k].client = c})
    BY DEF ReferencesBalance
  <2>1. HoldersOf(c) = {d \in Listed : desc[d].client = c}
    BY DEF AtRest, HoldersOf, Holds, RefInv, ListInv, TypeOK, Listed
  <2>2. Where(todo, Adding(c)) = {k \in DOMAIN todo : todo[k].kind = "add" /\ todo[k].client = c}
    <3>1. todo \in Seq(Work) /\ DOMAIN todo = 1 .. Len(todo)
      BY DEF RefInv, ListInv, TypeOK
    <3>2. \A k \in DOMAIN todo : todo[k] \in Work
      BY <3>1
    <3> QED
      BY <3>1, <3>2 DEF Where, Adding
  <2>3. Buffer(c) = 0
    BY DEF AtRest, Buffer, RefInv, ListInv, LoopersKnow, Knows, NoJob
  <2>4. Cardinality(HoldersOf(c)) \in Nat /\ Queued(c) \in Nat
    BY Counted DEF RefInv, ListInv
  <2>5. strong[c] = Cardinality(HoldersOf(c)) + Queued(c) + Buffer(c)
    BY DEF RefInv, Balance
  <2> QED
    BY <2>1, <2>2, <2>3, <2>4, <2>5 DEF Queued
<1>2. RefInv /\ [Next]_vars => RefInv'
  BY RefStep
<1> QED
  BY <1>1, <1>2, RefInit, PTL DEF Spec
-----------------------------------------------------------------------------
(* What keeps the order of deaths.                                           *)

\* Whose death a looper tells, where there is one looper.
LEMMA OneTells ==
  ASSUME OneLooper, NEW l \in Loopers
  PROVE  /\ \A c : Telling(c) = IF /\ pc[l] \in {"remove", "release"}
                                   /\ job[l].kind = "death" /\ job[l].client = c
                                THEN 1 ELSE 0
         /\ \A c : Telling(c)' = IF /\ pc'[l] \in {"remove", "release"}
                                    /\ job'[l].kind = "death" /\ job'[l].client = c
                                 THEN 1 ELSE 0
<1>1. \A k \in Loopers : k = l
  BY DEF OneLooper
<1> QED
  BY <1>1 DEF Telling

\* No listener comes into use, and no more calls wait for one.
LEMMA SingleStays ==
  ASSUME RefInv, RefInv', Single,
         \A d \in Descs : InUse(d)' => InUse(d) /\ desc'[d].client = desc[d].client,
         \A d \in Descs : d \in sockets /\ InUse(d)' /\ desc[d].client \in alive'
           => d \in sockets',
         alive' \subseteq alive,
         \A c \in Clients : Queued(c)' <= Queued(c)
                            /\ Queued(c)' + Buffer(c)' <= Queued(c) + Buffer(c),
         \A l \in Loopers : pc'[l] = "create" =>
           \A d \in Descs : InUse(d)' => job'[l].client # desc[d].client
  PROVE  Single'
<1>1. \A c \in Clients : /\ Queued(c) \in Nat /\ Buffer(c) \in {0, 1}
  BY Counted DEF RefInv, ListInv
<1>2. \A c \in Clients : Queued(c)' \in Nat /\ Buffer(c)' \in {0, 1}
  <2>1. Len(todo') \in Nat
    BY DEF RefInv, ListInv, TypeOK
  <2> QED
    BY <2>1, WhereCounted DEF Queued, Buffer
<1>3. \A c \in Clients : Queued(c)' + Buffer(c)' <= 1
  BY <1>1, <1>2 DEF Single
<1>4. \A d \in Descs : InUse(d)' => desc[d].client \in Clients
  BY DEF RefInv, ListInv, Owned, InUse, Made
<1>5. \A d \in Descs : InUse(d)' => Queued(desc[d].client)' = 0
  <2> SUFFICES ASSUME NEW d \in Descs, InUse(d)', NEW c, c = desc'[d].client
               PROVE  Queued(c)' = 0
    OBVIOUS
  <2>1. c = desc[d].client /\ InUse(d) /\ c \in Clients
    BY <1>4
  <2>2. Queued(c) = 0 /\ Queued(c)' <= Queued(c) /\ Queued(c)' \in Nat
    BY <1>2, <2>1 DEF Single
  <2> QED
    BY <2>2
<1> QED
  BY <1>3, <1>5 DEF Single

\* The driver's cookies and those that hold references stay.
LEMMA NotifiedStays ==
  ASSUME Notified, \A c \in Clients : HoldersOf(c)' = HoldersOf(c) /\ death'[c] = death[c],
         \A l \in Loopers : pc'[l] = "link" <=> pc[l] = "link",
         \A l \in Loopers : pc[l] = "link" => job'[l].client = job[l].client /\ it'[l] = it[l]
                                              /\ job[l].client \in Clients
  PROVE  Notified'
BY DEF Notified

\* A death that is queued goes to a looper, and not away.
LEMMA ToldStays ==
  ASSUME Told, \A c \in Clients : (death'[c] = NoDesc <=> death[c] = NoDesc),
         \A c \in Clients : Deaths(c)' + Telling(c)' = Deaths(c) + Telling(c),
         alive' = alive
  PROVE  Told'
BY DEF Told

\* The deaths that are queued were, and the cookies stay.
LEMMA TrueStays ==
  ASSUME RefInv, DeathsTrue, \A c \in Clients : death'[c] = death[c],
         \A k \in DOMAIN todo' : todo'[k].kind = "death" =>
           \E n \in DOMAIN todo : todo'[k] = todo[n],
         \A l \in Loopers : pc'[l] \in {"remove", "release"} /\ job'[l].kind = "death" =>
           desc'[it'[l]].client = job'[l].client
  PROVE  DeathsTrue'
<1> SUFFICES ASSUME NEW k \in DOMAIN todo', todo'[k].kind = "death"
             PROVE  todo'[k] = DeathJob(todo'[k].client, death'[todo'[k].client])
  BY DEF DeathsTrue, IsDeath
<1>1. PICK n \in DOMAIN todo : todo'[k] = todo[n]
  OBVIOUS
<1>2. todo[n] = DeathJob(todo[n].client, death[todo[n].client])
  BY <1>1 DEF DeathsTrue, IsDeath
<1>3. todo[n].client \in Clients
  BY DEF RefInv, ListInv, TypeOK, Work, JobRec
<1> QED
  BY <1>1, <1>2, <1>3

\* A listener that holds a reference is in use, and is the one of its process.
LEMMA HolderIs ==
  ASSUME RefInv, Single, OneLooper, NEW c \in Clients, NEW d \in HoldersOf(c)
  PROVE  /\ InUse(d) /\ d \in Descs /\ desc[d].client = c
         /\ \A f \in Descs : InUse(f) /\ desc[f].client = c => f = d
<1>1. d \in Descs /\ desc[d].client = c /\ Holds(d)
  BY DEF HoldersOf
<1>2. InUse(d)
  <2>1. CASE d \in Listed
    BY <2>1 DEF RefInv, Handled
  <2>2. CASE \E l \in Loopers : pc[l] \in {"link", "push", "release"} /\ it[l] = d
    BY <2>2 DEF RefInv, Handled, Making
  <2> QED
    BY <1>1, <2>1, <2>2 DEF Holds
<1> QED
  BY <1>1, <1>2 DEF Single
-----------------------------------------------------------------------------
(* The steps and the deaths.                                                 *)

\* The list, the loopers and the driver stay.
LEMMA StillDeaths ==
  ASSUME DeathInv, RefInv', UNCHANGED <<listVars, looperVars, death, todo, alive>>,
         \A d \in Descs : d \in sockets /\ InUse(d) => d \in sockets'
  PROVE  DeathInv'
<1>1. /\ Listed' = Listed /\ UNCHANGED <<desc, pc, job, it>>
      /\ \A c : HoldersOf(c)' = HoldersOf(c) /\ Buffer(c)' = Buffer(c)
      /\ \A c : Queued(c)' = Queued(c) /\ Deaths(c)' = Deaths(c) /\ Telling(c)' = Telling(c)
      /\ \A d : InUse(d)' <=> InUse(d)
  BY NotLoopers DEF DeathInv, listVars, looperVars, Listed, Queued, Deaths, Telling, InUse
<1>2. Single'
  <2>1. \A c \in Clients : Queued(c) \in Nat /\ Buffer(c) \in {0, 1}
    BY Counted DEF DeathInv, RefInv, ListInv
  <2>2. \A l \in Loopers : pc'[l] = "create" =>
          \A d \in Descs : InUse(d)' => job'[l].client # desc[d].client
    BY <1>1 DEF DeathInv, Single
  <2> QED
    BY <1>1, <2>1, <2>2, SingleStays DEF DeathInv
<1>3. Notified'
  BY <1>1 DEF DeathInv, Notified
<1>4. Told'
  BY <1>1 DEF DeathInv, Told
<1>5. DeathsTrue'
  BY <1>1 DEF DeathInv, DeathsTrue, IsDeath
<1> QED
  BY <1>2, <1>3, <1>4, <1>5 DEF DeathInv

\* A process closes the socket of a listener that has been freed.
LEMMA CloseSocketDeaths ==
  ASSUME DeathInv, RefInv', NEW d \in Descs, CloseSocket(d)
  PROVE  DeathInv'
BY StillDeaths DEF CloseSocket, InUse, driverVars

\* Work that is neither a death nor a call to be added.
LEMMA CallDelListenerDeaths ==
  ASSUME DeathInv, RefInv', NEW c \in Clients, CallDelListener(c)
  PROVE  DeathInv'
<1>1. PICK d \in Mine(c) : todo' = Append(todo, DelJob(c, desc[d].uid))
  BY DEF CallDelListener
<1> DEFINE j == DelJob(c, desc[d].uid)
<1>2. desc[d].uid \in Nat
  BY DEF DeathInv, RefInv, ListInv, TypeOK, Mine, Memory
<1>3. j \in Work /\ j.kind = "del"
  BY <1>2, NothingIsNothing DEF DelJob, Work, JobRec
<1>4. /\ todo' = Append(todo, j)
      /\ UNCHANGED <<listVars, looperVars, death, alive, sockets>>
  BY <1>1 DEF CallDelListener, clientVars
<1> HIDE DEF j
<1>5. /\ todo \in Seq(Work) /\ todo' \in Seq(Work)
      /\ Without(todo, todo', Len(todo) + 1) /\ todo'[Len(todo) + 1] = j
  BY <1>3, <1>4, AppendWithout DEF DeathInv, RefInv, ListInv, TypeOK
<1>6. \A b : j \notin Adding(b) /\ j \notin Dying(b)
  BY <1>3 DEF Adding, Dying
<1>7. \A b \in Clients : Queued(b)' = Queued(b) /\ Deaths(b)' = Deaths(b)
  BY <1>5, <1>6, QueueGets
<1>8. /\ Listed' = Listed /\ UNCHANGED <<desc, pc, job, it>>
      /\ \A b : HoldersOf(b)' = HoldersOf(b) /\ Buffer(b)' = Buffer(b)
      /\ \A b : Telling(b)' = Telling(b)
      /\ \A f : InUse(f)' <=> InUse(f)
  BY <1>4, NotLoopers DEF DeathInv, listVars, looperVars, Listed, Telling, InUse
<1>9. Single'
  <2>1. \A b \in Clients : Queued(b) \in Nat /\ Buffer(b) \in {0, 1}
    BY Counted DEF DeathInv, RefInv, ListInv
  <2>2. \A l \in Loopers : pc'[l] = "create" =>
          \A f \in Descs : InUse(f)' => job'[l].client # desc[f].client
    BY <1>8 DEF DeathInv, Single
  <2> QED
    BY <1>4, <1>7, <1>8, <2>1, <2>2, SingleStays DEF DeathInv
<1>10. Notified'
  BY <1>4, <1>8 DEF DeathInv, Notified
<1>11. Told'
  BY <1>4, <1>7, <1>8 DEF DeathInv, Told
<1>12. DeathsTrue'
  <2>1. \A k \in DOMAIN todo' : todo'[k].kind = "death" => \E n \in DOMAIN todo : todo'[k] = todo[n]
    BY <1>3, <1>4, <1>5
  <2>2. \A l \in Loopers : pc'[l] \in {"remove", "release"} /\ job'[l].kind = "death" =>
           desc'[it'[l]].client = job'[l].client
    BY <1>8 DEF DeathInv, DeathsTrue
  <2> QED
    BY <1>4, <2>1, <2>2, TrueStays DEF DeathInv
<1> QED
  BY <1>9, <1>10, <1>11, <1>12 DEF DeathInv

\* A process that runs asks for a listener only while it has none and has
\* asked for none.
LEMMA CallAddListenerDeaths ==
  ASSUME DeathInv, RefInv', MaxListeners = 1, NEW c \in Clients, CallAddListener(c)
  PROVE  DeathInv'
<1>1. PICK t \in Masks, ok \in BOOLEAN : todo' = Append(todo, AddJob(c, adds + 1, t, ok))
  BY DEF CallAddListener
<1> DEFINE j == AddJob(c, adds + 1, t, ok)
<1>2. j \in Work /\ j.kind = "add" /\ j.client = c
  BY AddJobIs DEF DeathInv, RefInv, ListInv
<1>3. /\ todo' = Append(todo, j) /\ c \in alive /\ ~Calling(c) /\ Cardinality(Mine(c)) < 1
      /\ UNCHANGED <<listVars, looperVars, death, alive, sockets>>
  BY <1>1 DEF CallAddListener
<1> HIDE DEF j
<1>4. /\ todo \in Seq(Work) /\ todo' \in Seq(Work)
      /\ Without(todo, todo', Len(todo) + 1) /\ todo'[Len(todo) + 1] = j
  BY <1>2, <1>3, AppendWithout DEF DeathInv, RefInv, ListInv, TypeOK
<1>5. /\ \A b : j \notin Dying(b)
      /\ j \in Adding(c)
      /\ \A b \in Clients \ {c} : j \notin Adding(b)
  BY <1>2 DEF Adding, Dying
<1>6. \A b \in Clients : Deaths(b)' = Deaths(b)
  BY <1>4, <1>5, QueueGets
<1>7. \A b \in Clients \ {c} : Queued(b)' = Queued(b)
  BY <1>4, <1>5, QueueGets
<1>8. Queued(c)' = Queued(c) + 1
  BY <1>4, <1>5, QueueGets
<1>9. /\ Listed' = Listed /\ UNCHANGED <<desc, pc, job, it>>
      /\ \A b : HoldersOf(b)' = HoldersOf(b) /\ Buffer(b)' = Buffer(b)
      /\ \A b : Telling(b)' = Telling(b)
      /\ \A f : InUse(f)' <=> InUse(f)
  BY <1>3, NotLoopers DEF DeathInv, listVars, looperVars, Listed, Telling, InUse
<1>10. Queued(c) = 0 /\ Buffer(c) = 0
  <2>1. \A i \in Jobs : ~(i.kind = "add" /\ i.client = c)
    BY <1>3 DEF Calling
  <2>2. \A k \in DOMAIN todo : todo[k] \notin Adding(c)
    BY <2>1 DEF Jobs, Adding
  <2>3. \A l \in Loopers : ~(job[l].kind = "add" /\ job[l].client = c)
    BY <2>1 DEF Jobs
  <2> QED
    BY <2>2, <2>3, QueueHas DEF Buffer, DeathInv, RefInv, ListInv
<1>11. \A d \in Descs : InUse(d) => desc[d].client # c
  <2>1. Mine(c) = {}
    <3>1. Mine(c) \subseteq Descs
      BY DEF Mine, DeathInv, RefInv, ListInv, TypeOK
    <3>2. IsFiniteSet(Mine(c)) /\ Cardinality(Mine(c)) \in Nat
      BY <3>1, BoundsOK, FS_Subset, FS_CardinalityType
    <3>3. Cardinality(Mine(c)) = 0
      BY <1>3, <3>2
    <3> QED
      BY <3>2, <3>3, FS_EmptySet
  <2> QED
    BY <1>3, <2>1 DEF Mine, DeathInv, Single
<1>12. Single'
  <2>1. \A b \in Clients : Queued(b)' + Buffer(b)' <= 1
    <3> SUFFICES ASSUME NEW b \in Clients PROVE Queued(b)' + Buffer(b)' <= 1
      OBVIOUS
    <3>1. CASE b = c
      BY <1>8, <1>9, <1>10, <3>1
    <3>2. CASE b # c
      BY <1>7, <1>9, <3>2 DEF DeathInv, Single
    <3> QED
      BY <3>1, <3>2
  <2>2. \A d \in Descs : InUse(d) => Queued(desc[d].client)' = 0
    <3> SUFFICES ASSUME NEW d \in Descs, InUse(d), NEW b, b = desc[d].client
                 PROVE  Queued(b)' = 0
      BY <1>9
    <3>1. b \in Clients \ {c}
      BY <1>11 DEF DeathInv, RefInv, ListInv, Owned, InUse, Made
    <3> QED
      BY <1>7, <3>1 DEF DeathInv, Single
  <2>3. \A d \in Descs : InUse(d)' => Queued(desc[d].client)' = 0
    BY <1>9, <2>2
  <2> QED
    BY <1>3, <1>9, <2>1, <2>3 DEF DeathInv, Single
<1>13. Notified'
  BY <1>3, <1>9 DEF DeathInv, Notified
<1>14. Told'
  BY <1>3, <1>6, <1>9 DEF DeathInv, Told
<1>15. DeathsTrue'
  <2>1. \A k \in DOMAIN todo' : todo'[k].kind = "death" => \E n \in DOMAIN todo : todo'[k] = todo[n]
    BY <1>2, <1>3, <1>4
  <2>2. \A l \in Loopers : pc'[l] \in {"remove", "release"} /\ job'[l].kind = "death" =>
           desc'[it'[l]].client = job'[l].client
    BY <1>9 DEF DeathInv, DeathsTrue
  <2> QED
    BY <1>3, <2>1, <2>2, TrueStays DEF DeathInv
<1> QED
  BY <1>12, <1>13, <1>14, <1>15 DEF DeathInv

\* The death of a process that holds a reference is queued at once.
LEMMA DieDeaths ==
  ASSUME DeathInv, RefInv', NEW c \in Clients, Die(c)
  PROVE  DeathInv'
<1>1. /\ c \in alive /\ alive' = alive \ {c} /\ sockets' = sockets \ Mine(c)
      /\ UNCHANGED <<listVars, looperVars, death>>
  BY DEF Die
<1>2. /\ Listed' = Listed /\ UNCHANGED <<desc, pc, job, it>>
      /\ \A b : HoldersOf(b)' = HoldersOf(b) /\ Buffer(b)' = Buffer(b)
      /\ \A b : Telling(b)' = Telling(b)
      /\ \A f : InUse(f)' <=> InUse(f)
  BY <1>1, NotLoopers DEF DeathInv, listVars, looperVars, Listed, Telling, InUse
<1>3. \A b \in Clients : Queued(b) \in Nat /\ Buffer(b) \in {0, 1} /\ Deaths(b) \in Nat
  BY Counted DEF DeathInv, RefInv, ListInv
<1>4. Deaths(c) + Telling(c) = 0 /\ Telling(c) \in {0, 1} /\ Deaths(c) = 0
  <2>1. Telling(c) \in {0, 1} /\ Deaths(c) + Telling(c) = 0
    BY <1>1 DEF DeathInv, Told, Telling
  <2> QED
    BY <1>3, <2>1
<1>5. /\ \A b \in Clients : Queued(b)' = Queued(b)
      /\ \A b \in Clients \ {c} : Deaths(b)' = Deaths(b)
      /\ Deaths(c)' = IF death[c] = NoDesc THEN 0 ELSE 1
      /\ \A k \in DOMAIN todo' :
           todo'[k] = DeathJob(c, death[c]) \/ \E n \in DOMAIN todo : todo'[k] = todo[n]
  <2>1. CASE death[c] = NoDesc
    <3>1. todo' = todo
      BY <2>1 DEF Die
    <3>2. \A b : Queued(b)' = Queued(b) /\ Deaths(b)' = Deaths(b)
      BY <3>1 DEF Queued, Deaths
    <3> QED
      BY <1>4, <2>1, <3>1, <3>2
  <2>2. CASE death[c] # NoDesc
    <3> DEFINE j == DeathJob(c, death[c])
    <3>1. death[c] \in Descs
      BY <2>2 DEF DeathInv, RefInv, ListInv, TypeOK
    <3>2. j \in Work /\ j.kind = "death" /\ j.client = c
      BY <3>1, NothingIsNothing DEF DeathJob, Work, JobRec
    <3>3. todo' = Append(todo, j)
      BY <2>2 DEF Die
    <3> HIDE DEF j
    <3>4. /\ todo \in Seq(Work) /\ todo' \in Seq(Work)
          /\ Without(todo, todo', Len(todo) + 1) /\ todo'[Len(todo) + 1] = j
      BY <3>2, <3>3, AppendWithout DEF DeathInv, RefInv, ListInv, TypeOK
    <3>5. /\ \A b : j \notin Adding(b)
          /\ j \in Dying(c)
          /\ \A b \in Clients \ {c} : j \notin Dying(b)
      BY <3>2 DEF Adding, Dying
    <3>6. \A b \in Clients : Queued(b)' = Queued(b)
      BY <3>4, <3>5, QueueGets
    <3>7. \A b \in Clients \ {c} : Deaths(b)' = Deaths(b)
      BY <3>4, <3>5, QueueGets
    <3>8. Deaths(c)' = Deaths(c) + 1
      BY <3>4, <3>5, QueueGets
    <3>9. \A k \in DOMAIN todo' : todo'[k] = j \/ \E n \in DOMAIN todo : todo'[k] = todo[n]
      BY <3>3, <3>4
    <3> QED
      BY <1>4, <2>2, <3>6, <3>7, <3>8, <3>9 DEF j
  <2> QED
    BY <2>1, <2>2
<1>6. Single'
  <2>1. \A d \in Descs : d \in sockets /\ InUse(d)' /\ desc[d].client \in alive' => d \in sockets'
    BY <1>1 DEF Mine
  <2>2. \A l \in Loopers : pc'[l] = "create" =>
          \A f \in Descs : InUse(f)' => job'[l].client # desc[f].client
    BY <1>2 DEF DeathInv, Single
  <2> QED
    BY <1>1, <1>2, <1>3, <1>5, <2>1, <2>2, SingleStays DEF DeathInv
<1>7. Notified'
  BY <1>1, <1>2 DEF DeathInv, Notified
<1>8. Told'
  <2> SUFFICES ASSUME NEW b \in Clients
               PROVE  Deaths(b)' + Telling(b)' =
                        IF b \notin alive' /\ death'[b] # NoDesc THEN 1 ELSE 0
    BY DEF Told
  <2>1. CASE b = c
    <3>1. Telling(c)' = 0
      BY <1>2, <1>3, <1>4
    <3> QED
      BY <1>1, <1>5, <2>1, <3>1
  <2>2. CASE b # c
    BY <1>1, <1>2, <1>5, <2>2 DEF DeathInv, Told
  <2> QED
    BY <2>1, <2>2
<1>9. DeathsTrue'
  <2>1. \A k \in DOMAIN todo' : IsDeath(todo[k])'
    <3> SUFFICES ASSUME NEW k \in DOMAIN todo', todo'[k].kind = "death"
                 PROVE  todo'[k] = DeathJob(todo'[k].client, death[todo'[k].client])
      BY <1>1 DEF IsDeath
    <3>1. CASE todo'[k] = DeathJob(c, death[c])
      BY <3>1 DEF DeathJob
    <3>2. CASE \E n \in DOMAIN todo : todo'[k] = todo[n]
      BY <3>2 DEF DeathInv, DeathsTrue, IsDeath
    <3> QED
      BY <1>5, <3>1, <3>2
  <2> QED
    BY <1>2, <2>1 DEF DeathInv, DeathsTrue
<1> QED
  BY <1>6, <1>7, <1>8, <1>9 DEF DeathInv

\* A death goes from the queue to the looper, and so does a call.
LEMMA TakeDeaths ==
  ASSUME DeathInv, RefInv', OneLooper, NEW l \in Loopers, Take(l)
  PROVE  DeathInv' /\ ~Undefined
<1> DEFINE j == Head(todo)
<1>1. TypeOK /\ Knows(l) /\ pc[l] = "idle" /\ todo # <<>>
  BY DEF Take, DeathInv, RefInv, ListInv, LoopersKnow
<1>2. /\ todo \in Seq(Work) /\ Without(Tail(todo), todo, 1) /\ Tail(todo) \in Seq(Work)
      /\ j = todo[1] /\ j \in Work /\ 1 \in DOMAIN todo
  BY <1>1, TailWithout DEF TypeOK
<1>3. j.kind = "death" =>
        /\ InUse(j.cookie) /\ desc[j.cookie].client = j.client /\ j.client \in Clients
  <2> SUFFICES ASSUME j.kind = "death"
               PROVE  /\ InUse(j.cookie) /\ desc[j.cookie].client = j.client
                      /\ j.client \in Clients
    OBVIOUS
  <2>1. PICK c \in Clients : c = j.client
    BY <1>2 DEF Work, JobRec
  <2>2. j.cookie = death[c]
    BY <1>2, <2>1 DEF DeathInv, DeathsTrue, IsDeath, DeathJob
  <2>3. j \in Dying(c)
    BY <1>2, <2>1 DEF Dying
  <2>4. Deaths(c) # 0 /\ Deaths(c) \in Nat /\ Telling(c) \in {0, 1}
    BY <1>1, <1>2, <2>3, QueueHas, Counted DEF Telling
  <2>5. death[c] # NoDesc
    BY <2>4 DEF DeathInv, Told
  <2>6. death[c] \in HoldersOf(c)
    BY <2>5 DEF DeathInv, Notified
  <2> QED
    BY <2>1, <2>2, <2>6, HolderIs DEF DeathInv
<1>4. ~(j.kind = "death" /\ desc[j.cookie].mem = "freed")
  BY <1>3 DEF InUse
<1>5. /\ job' = [job EXCEPT ![l] = j] /\ todo' = Tail(todo) /\ it' = [it EXCEPT ![l] = j.cookie]
      /\ pc' = [pc EXCEPT ![l] = CASE j.kind = "add" -> "create"
                                   [] j.kind = "del" -> "find"
                                   [] j.kind = "death" -> "remove"]
      /\ UNCHANGED <<listVars, death, alive, sockets>>
  BY <1>4 DEF Take, Goto, clientVars
<1> HIDE DEF j
<1>6. /\ job'[l] = j /\ it'[l] = j.cookie
      /\ pc'[l] = "create" <=> j.kind = "add"
      /\ pc'[l] = "remove" <=> j.kind = "death"
      /\ pc'[l] \in {"create", "find", "remove"}
      /\ job[l].kind = "none"
  <2>1. j.kind \in {"add", "del", "death"}
    BY <1>2 DEF Work, JobRec
  <2> QED
    BY <1>1, <1>5, <2>1 DEF TypeOK, Knows, NoJob
<1>7. /\ Listed' = Listed /\ desc' = desc /\ \A d : InUse(d)' <=> InUse(d)
  BY <1>5 DEF listVars, Listed, InUse
<1>8. \A c : HoldersOf(c)' = HoldersOf(c)
  <2>1. \A d : Holds(d)' <=> Holds(d)
    BY <1>1, <1>6, <1>7, OneHolds
  <2> QED
    BY <1>7, <2>1 DEF HoldersOf
<1>9. ASSUME NEW c \in Clients
      PROVE  /\ Queued(c) = Queued(c)' + (IF j.kind = "add" /\ j.client = c THEN 1 ELSE 0)
             /\ Deaths(c) = Deaths(c)' + (IF j.kind = "death" /\ j.client = c THEN 1 ELSE 0)
             /\ Queued(c)' \in Nat /\ Deaths(c)' \in Nat
  <2>1. /\ j \in Adding(c) <=> j.kind = "add" /\ j.client = c
        /\ j \in Dying(c) <=> j.kind = "death" /\ j.client = c
    BY <1>2 DEF Adding, Dying
  <2>2. /\ todo[1] \in Adding(c) => Queued(c) = Queued(c)' + 1
        /\ todo[1] \notin Adding(c) => Queued(c)' = Queued(c)
        /\ todo[1] \in Dying(c) => Deaths(c) = Deaths(c)' + 1
        /\ todo[1] \notin Dying(c) => Deaths(c)' = Deaths(c)
        /\ Queued(c)' \in Nat /\ Deaths(c)' \in Nat
    BY <1>2, <1>5, QueueLoses
  <2> QED
    BY <1>2, <2>1, <2>2
<1>10. ASSUME NEW c \in Clients
       PROVE  /\ Buffer(c) = 0 /\ Telling(c) = 0
              /\ Buffer(c)' = IF j.kind = "add" /\ j.client = c THEN 1 ELSE 0
              /\ Telling(c)' = IF j.kind = "death" /\ j.client = c THEN 1 ELSE 0
  <2>1. /\ Buffer(c) = 0 /\ Telling(c) = 0
    BY <1>1, <1>6, OneHolds, OneTells
  <2>2. Buffer(c)' = IF j.kind = "add" /\ j.client = c THEN 1 ELSE 0
    BY <1>6, OneHolds
  <2>3. Telling(c)' = IF j.kind = "death" /\ j.client = c THEN 1 ELSE 0
    BY <1>6, OneTells
  <2> QED
    BY <2>1, <2>2, <2>3
<1>11. \A k \in Loopers : k = l
  BY DEF OneLooper
<1>12. Single'
  <2>1. \A c \in Clients : Queued(c)' <= Queued(c)
                           /\ Queued(c)' + Buffer(c)' <= Queued(c) + Buffer(c)
    BY <1>9, <1>10
  <2>2. ASSUME j.kind = "add", NEW d \in Descs, InUse(d)
        PROVE  j.client # desc[d].client
    <3> SUFFICES ASSUME NEW c, c = j.client, c = desc[d].client PROVE FALSE
      OBVIOUS
    <3>1. c \in Clients
      BY <1>2 DEF Work, JobRec
    <3>2. Queued(c) = Queued(c)' + 1 /\ Queued(c)' \in Nat
      BY <1>9, <2>2, <3>1
    <3>3. Queued(c) = 0
      BY <2>2 DEF DeathInv, Single
    <3> QED
      BY <3>2, <3>3
  <2>3. \A k \in Loopers : pc'[k] = "create" =>
           \A d \in Descs : InUse(d)' => job'[k].client # desc[d].client
    BY <1>6, <1>7, <1>11, <2>2
  <2> QED
    BY <1>5, <1>7, <2>1, <2>3, SingleStays DEF DeathInv
<1>13. Notified'
  BY <1>1, <1>5, <1>6, <1>8, <1>11, NotifiedStays DEF DeathInv
<1>14. Told'
  <2>1. \A c \in Clients : Deaths(c)' + Telling(c)' = Deaths(c) + Telling(c)
    BY <1>9, <1>10
  <2> QED
    BY <1>5, <2>1, ToldStays DEF DeathInv
<1>15. DeathsTrue'
  <2>1. \A k \in DOMAIN todo' : \E n \in DOMAIN todo : todo'[k] = todo[n]
    BY <1>1, <1>2, <1>5, WithoutTodo
  <2>2. \A k \in Loopers : pc'[k] \in {"remove", "release"} /\ job'[k].kind = "death" =>
           desc'[it'[k]].client = job'[k].client
    BY <1>3, <1>6, <1>7, <1>11
  <2> QED
    BY <1>5, <2>1, <2>2, TrueStays DEF DeathInv
<1>16. ~Undefined
  BY <1>1, <1>6 DEF Undefined, looperVars
<1> QED
  BY <1>12, <1>13, <1>14, <1>15, <1>16 DEF DeathInv

\* The queue, the cookies and what holds references stay, and no call goes
\* back to where it waits for its ListenerDesc.
LEMMA MovesDeaths ==
  ASSUME DeathInv, RefInv', OneLooper, NEW l \in Loopers,
         UNCHANGED <<death, todo, alive, sockets>>,
         \A c \in Clients : HoldersOf(c)' = HoldersOf(c),
         \A d \in Descs : InUse(d)' => InUse(d) /\ desc'[d].client = desc[d].client,
         pc[l] # "link", pc'[l] \notin {"create", "link"},
         \A c \in Clients : Telling(c)' = Telling(c) /\ Buffer(c)' = Buffer(c),
         pc'[l] \in {"remove", "release"} /\ job'[l].kind = "death" =>
           desc'[it'[l]].client = job'[l].client
  PROVE  DeathInv'
<1>1. \A k \in Loopers : k = l
  BY DEF OneLooper
<1>2. \A c \in Clients : Queued(c)' = Queued(c) /\ Deaths(c)' = Deaths(c)
  BY DEF Queued, Deaths
<1>3. \A c \in Clients : Queued(c) \in Nat /\ Buffer(c) \in {0, 1}
  BY Counted DEF DeathInv, RefInv, ListInv
<1>4. Single'
  BY <1>1, <1>2, <1>3, SingleStays DEF DeathInv
<1>5. Notified'
  BY <1>1, NotifiedStays DEF DeathInv
<1>6. Told'
  BY <1>2, ToldStays DEF DeathInv
<1>7. DeathsTrue'
  BY <1>1, TrueStays DEF DeathInv
<1> QED
  BY <1>4, <1>5, <1>6, <1>7 DEF DeathInv

\* A call is refused.
LEMMA RefuseAddDeaths ==
  ASSUME DeathInv, RefInv', OneLooper, NEW l \in Loopers, RefuseAdd(l)
  PROVE  DeathInv'
<1>1. /\ pc[l] = "create" /\ pc'[l] = "reply"
      /\ UNCHANGED <<listVars, death, todo, alive, sockets, job, it>>
  BY DEF RefuseAdd, Goto, DeathInv, RefInv, ListInv, TypeOK, driverVars, clientVars
<1>2. Listed' = Listed /\ desc' = desc
  BY <1>1 DEF listVars, Listed
<1>3. \A d : Holds(d)' <=> Holds(d)
  BY <1>1, <1>2, OneHolds
<1>4. /\ \A c : HoldersOf(c)' = HoldersOf(c)
      /\ \A d : InUse(d)' <=> InUse(d)
  BY <1>2, <1>3 DEF HoldersOf, InUse
<1>5. \A c : Telling(c)' = Telling(c) /\ Buffer(c)' = Buffer(c)
  BY <1>1, OneTells, OneHolds
<1> QED
  BY <1>1, <1>2, <1>4, <1>5, MovesDeaths

\* The listener that a process asked for is its only one.
LEMMA CreateDeaths ==
  ASSUME DeathInv, RefInv', OneLooper, NEW l \in Loopers, Create(l)
  PROVE  DeathInv'
<1>1. PICK d \in Descs :
        /\ desc[d].mem = "unused" /\ it' = [it EXCEPT ![l] = d]
        /\ desc' = [desc EXCEPT ![d] = [mem |-> "used", client |-> job[l].client,
                                        uid |-> job[l].uid, types |-> job[l].types]]
        /\ sockets' = IF job[l].client \in alive THEN sockets \cup {d} ELSE sockets
  BY DEF Create
<1>2. PICK c : c = job[l].client
  OBVIOUS
<1>3. /\ pc[l] = "create" /\ pc'[l] = "acquire" /\ it'[l] = d
      /\ UNCHANGED <<mListenerDescList, death, todo, job, alive>>
  BY <1>1 DEF Create, Goto, DeathInv, RefInv, ListInv, TypeOK, driverVars
<1>4. c \in Clients /\ job[l].kind = "add"
  <2>1. Knows(l)
    BY DEF DeathInv, RefInv, ListInv, LoopersKnow
  <2> QED
    BY <1>2, <1>3, <2>1 DEF Knows, Work, JobRec
<1>5. /\ desc'[d].mem = "used" /\ desc'[d].client = c
      /\ \A f \in Descs \ {d} : desc'[f] = desc[f]
  BY <1>1, <1>2 DEF DeathInv, RefInv, ListInv, TypeOK
<1>6. /\ \A f \in Descs : InUse(f)' <=> InUse(f) \/ f = d
      /\ ~InUse(d)
  BY <1>1, <1>5 DEF InUse
<1>7. Listed' = Listed /\ d \notin Listed
  BY <1>1, <1>3 DEF DeathInv, RefInv, ListInv, Fresh, ToBePushed, Made, Listed
<1>8. \A b : HoldersOf(b)' = HoldersOf(b)
  <2>1. \A f \in Descs : (Holds(f)' <=> Holds(f)) /\ ~Holds(d)
    BY <1>3, <1>7, OneHolds
  <2> QED
    BY <1>5, <2>1 DEF HoldersOf
<1>9. \A b : /\ Queued(b)' = Queued(b) /\ Deaths(b)' = Deaths(b)
             /\ Buffer(b)' = Buffer(b) /\ Telling(b)' = Telling(b)
  <2>1. \A b : Queued(b)' = Queued(b) /\ Deaths(b)' = Deaths(b)
    BY <1>3 DEF Queued, Deaths
  <2> QED
    BY <1>3, <2>1, OneHolds, OneTells
<1>10. \A k \in Loopers : k = l
  BY DEF OneLooper
<1>11. \A f \in Descs : InUse(f) => desc[f].client # c
  BY <1>2, <1>3 DEF DeathInv, Single
<1>12. Queued(c) = 0
  <2>1. Buffer(c) = 1 /\ Queued(c) \in Nat /\ Queued(c) + Buffer(c) <= 1
    BY <1>2, <1>4, OneHolds, Counted DEF DeathInv, RefInv, ListInv, Single
  <2> QED
    BY <2>1
<1>13. Single'
  <2>1. \A f \in Descs : InUse(f)' /\ desc'[f].client \in alive' => f \in sockets'
    BY <1>1, <1>2, <1>3, <1>5, <1>6 DEF DeathInv, Single
  <2>2. \A f, g \in Descs : InUse(f)' /\ InUse(g)' /\ desc'[f].client = desc'[g].client => f = g
    BY <1>5, <1>6, <1>11 DEF DeathInv, Single
  <2>3. \A b \in Clients : Queued(b)' + Buffer(b)' <= 1
    BY <1>9 DEF DeathInv, Single
  <2>4. ASSUME NEW f \in Descs, InUse(f)', NEW b, b = desc'[f].client
        PROVE  Queued(b)' = 0
    <3>1. CASE f = d
      BY <1>5, <1>9, <1>12, <2>4, <3>1
    <3>2. CASE f # d
      BY <1>5, <1>6, <1>9, <2>4, <3>2 DEF DeathInv, Single
    <3> QED
      BY <3>1, <3>2
  <2>5. \A f \in Descs : InUse(f)' => Queued(desc[f].client)' = 0
    <3> SUFFICES ASSUME NEW f \in Descs, InUse(f)' PROVE Queued(desc[f].client)' = 0
      OBVIOUS
    <3>1. PICK b : b = desc'[f].client
      OBVIOUS
    <3>2. Queued(b)' = 0
      BY <2>4, <3>1
    <3> QED
      BY <3>1, <3>2 DEF Queued
  <2> QED
    BY <1>3, <1>10, <2>1, <2>2, <2>3, <2>5 DEF Single
<1>14. Notified'
  BY <1>3, <1>8, <1>10, NotifiedStays DEF DeathInv
<1>15. Told'
  BY <1>3, <1>9, ToldStays DEF DeathInv
<1>16. DeathsTrue'
  BY <1>3, <1>10, TrueStays DEF DeathInv
<1> QED
  BY <1>13, <1>14, <1>15, <1>16 DEF DeathInv

\* The reference is counted before the death is asked for: nobody is told of
\* the process's death as yet.
LEMMA AcquireDeaths ==
  ASSUME DeathInv, RefInv', OneLooper, NEW l \in Loopers, Acquire(l)
  PROVE  DeathInv'
<1>0. PICK c, d : c = job[l].client /\ d = it[l]
  OBVIOUS
<1>1. /\ pc[l] = "acquire" /\ pc'[l] = "link"
      /\ UNCHANGED <<listVars, death, todo, alive, sockets, job, it>>
  BY DEF Acquire, BC_ACQUIRE, Goto, DeathInv, RefInv, ListInv, TypeOK, clientVars
<1>2. d \in Descs /\ desc[d].client = c /\ c \in Clients /\ ToBePushed(d)
  <2>1. Knows(l) /\ Making(l)
    BY <1>1 DEF DeathInv, RefInv, ListInv, LoopersKnow, Making
  <2> QED
    BY <1>0, <1>1, <2>1 DEF Knows, ToBePushed, Work, JobRec
<1>3. InUse(d) /\ d \notin Listed
  BY <1>0, <1>1, <1>2 DEF DeathInv, RefInv, Handled, ListInv, Fresh, Making
<1>4. Listed' = Listed /\ desc' = desc
  BY <1>1 DEF listVars, Listed
<1>5. \A f : Holds(f)' <=> Holds(f) \/ f = d
  BY <1>0, <1>1, <1>4, OneHolds
<1>6. ~Holds(d)
  BY <1>1, <1>3, OneHolds
<1>7. \A b : HoldersOf(b)' = IF b = c THEN HoldersOf(b) \cup {d} ELSE HoldersOf(b)
  BY <1>2, <1>4, <1>5 DEF HoldersOf
<1>8. death[c] = NoDesc
  <2> SUFFICES ASSUME death[c] # NoDesc PROVE FALSE
    OBVIOUS
  <2>1. death[c] \in HoldersOf(c)
    BY <1>2 DEF DeathInv, Notified
  <2>2. d = death[c]
    BY <1>2, <1>3, <2>1, HolderIs DEF DeathInv
  <2> QED
    BY <1>6, <2>1, <2>2 DEF HoldersOf
<1>9. /\ \A b : Queued(b)' = Queued(b) /\ Deaths(b)' = Deaths(b)
      /\ \A b : Buffer(b)' = Buffer(b) /\ Telling(b)' = Telling(b)
      /\ \A f : InUse(f)' <=> InUse(f)
  BY <1>1, <1>4, OneHolds, OneTells DEF Queued, Deaths, InUse
<1>10. \A k \in Loopers : k = l
  BY DEF OneLooper
<1>11. Single'
  <2>1. \A b \in Clients : Queued(b) \in Nat /\ Buffer(b) \in {0, 1}
    BY Counted DEF DeathInv, RefInv, ListInv
  <2> QED
    BY <1>1, <1>4, <1>9, <1>10, <2>1, SingleStays DEF DeathInv
<1>12. Notified'
  <2> SUFFICES ASSUME NEW b \in Clients
               PROVE  /\ death'[b] # NoDesc => death'[b] \in HoldersOf(b)'
                      /\ \A f \in HoldersOf(b)' :
                           death'[b] = f \/ \E k \in Loopers : pc'[k] = "link" /\ it'[k] = f
                      /\ \A k \in Loopers : pc'[k] = "link" => death'[job'[k].client] = NoDesc
    BY DEF Notified
  <2>1. death'[b] # NoDesc => death'[b] \in HoldersOf(b)'
    BY <1>1, <1>7 DEF DeathInv, Notified
  <2>2. \A f \in HoldersOf(b) : death'[b] = f
    BY <1>1, <1>10 DEF DeathInv, Notified
  <2>3. pc'[l] = "link" /\ it'[l] = d /\ job'[l].client = c /\ death'[c] = NoDesc
    BY <1>0, <1>1, <1>8
  <2> QED
    BY <1>7, <1>10, <2>1, <2>2, <2>3
<1>13. Told'
  BY <1>1, <1>9, ToldStays DEF DeathInv
<1>14. DeathsTrue'
  BY <1>1, <1>10, TrueStays DEF DeathInv
<1> QED
  BY <1>11, <1>12, <1>13, <1>14 DEF DeathInv

\* The listener is now told of its process's death, at once if it is dead.
LEMMA LinkToDeathDeaths ==
  ASSUME DeathInv, RefInv', OneLooper, NEW l \in Loopers, LinkToDeath(l)
  PROVE  DeathInv'
<1>0. PICK c, d : c = job[l].client /\ d = it[l]
  OBVIOUS
<1>1. /\ pc[l] = "link" /\ pc'[l] = "push" /\ BC_REQUEST_DEATH_NOTIFICATION(c, d)
      /\ UNCHANGED <<listVars, alive, sockets, job, it>>
  BY <1>0 DEF LinkToDeath, Goto, DeathInv, RefInv, ListInv, TypeOK, clientVars
<1>2. d \in Descs /\ desc[d].client = c /\ c \in Clients /\ TypeOK
  <2>1. Knows(l) /\ Making(l)
    BY <1>1 DEF DeathInv, RefInv, ListInv, LoopersKnow, Making
  <2> QED
    BY <1>0, <1>1, <2>1 DEF Knows, Work, JobRec, DeathInv, RefInv, ListInv
<1>3. death[c] = NoDesc
  BY <1>0, <1>1, <1>2 DEF DeathInv, Notified
<1>4. /\ \A b \in Clients : Queued(b)' = Queued(b)
      /\ \A b \in Clients \ {c} : death'[b] = death[b] /\ Deaths(b)' = Deaths(b)
      /\ death'[c] = d
      /\ c \in alive => Deaths(c)' = Deaths(c)
      /\ c \notin alive => Deaths(c)' = Deaths(c) + 1
      /\ \A k \in DOMAIN todo' :
           todo'[k] = DeathJob(c, d) \/ \E n \in DOMAIN todo : todo'[k] = todo[n]
  BY <1>1, <1>2, <1>3, RequestCounts
<1>5. Listed' = Listed /\ desc' = desc
  BY <1>1 DEF listVars, Listed
<1>6. /\ \A f : Holds(f)' <=> Holds(f)
      /\ \A b : Buffer(b)' = Buffer(b) /\ Telling(b)' = Telling(b)
  BY <1>1, <1>5, OneHolds, OneTells
<1>7. /\ \A b : HoldersOf(b)' = HoldersOf(b)
      /\ \A f : InUse(f)' <=> InUse(f)
      /\ d \in HoldersOf(c)
  <2>1. Holds(d)
    BY <1>0, <1>1, OneHolds
  <2> QED
    BY <1>2, <1>5, <1>6, <2>1 DEF HoldersOf, InUse
<1>8. \A k \in Loopers : k = l
  BY DEF OneLooper
<1>9. Telling(c) = 0 /\ Deaths(c) = 0
  <2>1. Telling(c) = 0 /\ Deaths(c) \in Nat
    BY <1>1, <1>2, OneTells, Counted
  <2> QED
    BY <1>2, <1>3, <2>1 DEF DeathInv, Told
<1>10. Single'
  <2>1. \A b \in Clients : Queued(b) \in Nat /\ Buffer(b) \in {0, 1}
    BY Counted DEF DeathInv, RefInv, ListInv
  <2> QED
    BY <1>1, <1>4, <1>5, <1>6, <1>7, <1>8, <2>1, SingleStays DEF DeathInv
<1>11. Notified'
  <2> SUFFICES ASSUME NEW b \in Clients
               PROVE  /\ death'[b] # NoDesc => death'[b] \in HoldersOf(b)'
                      /\ \A f \in HoldersOf(b)' :
                           death'[b] = f \/ \E k \in Loopers : pc'[k] = "link" /\ it'[k] = f
                      /\ \A k \in Loopers : pc'[k] = "link" => death'[job'[k].client] = NoDesc
    BY DEF Notified
  <2>1. \A k \in Loopers : pc'[k] # "link"
    BY <1>1, <1>8
  <2>2. CASE b = c
    <3>1. \A f \in HoldersOf(c) : f = d
      <4> SUFFICES ASSUME NEW f \in HoldersOf(c) PROVE f = d
        OBVIOUS
      <4>1. InUse(f) /\ f \in Descs /\ desc[f].client = c
        BY <1>2, HolderIs DEF DeathInv
      <4> QED
        BY <1>2, <1>7, <4>1, HolderIs DEF DeathInv
    <3> QED
      BY <1>4, <1>7, <2>1, <2>2, <3>1
  <2>3. CASE b # c
    <3>1. \A f \in HoldersOf(b) : f # d
      BY <1>2, <2>3 DEF HoldersOf
    <3>2. \A f \in HoldersOf(b) : death[b] = f
      BY <1>0, <1>8, <3>1 DEF DeathInv, Notified
    <3>3. death'[b] = death[b] /\ HoldersOf(b)' = HoldersOf(b)
      BY <1>4, <1>7, <2>3
    <3> QED
      BY <2>1, <3>2, <3>3 DEF DeathInv, Notified
  <2> QED
    BY <2>2, <2>3
<1>12. Told'
  <2> SUFFICES ASSUME NEW b \in Clients
               PROVE  Deaths(b)' + Telling(b)' =
                        IF b \notin alive' /\ death'[b] # NoDesc THEN 1 ELSE 0
    BY DEF Told
  <2>1. CASE b = c
    <3>1. Telling(c)' = 0
      BY <1>6, <1>9
    <3>2. death'[c] # NoDesc /\ alive' = alive
      BY <1>1, <1>2, <1>4, NothingIsNothing
    <3>3. Deaths(c)' = IF c \in alive THEN 0 ELSE 1
      BY <1>4, <1>9
    <3> QED
      BY <2>1, <3>1, <3>2, <3>3
  <2>2. CASE b # c
    <3>1. /\ Deaths(b)' = Deaths(b) /\ Telling(b)' = Telling(b)
          /\ death'[b] = death[b] /\ alive' = alive
      BY <1>1, <1>4, <1>6, <2>2
    <3> QED
      BY <3>1 DEF DeathInv, Told
  <2> QED
    BY <2>1, <2>2
<1>13. DeathsTrue'
  <2>1. \A k \in DOMAIN todo' : IsDeath(todo[k])'
    <3> SUFFICES ASSUME NEW k \in DOMAIN todo', todo'[k].kind = "death"
                 PROVE  todo'[k] = DeathJob(todo'[k].client, death'[todo'[k].client])
      BY DEF IsDeath
    <3>1. CASE todo'[k] = DeathJob(c, d)
      <4>1. todo'[k].client = c
        BY <3>1 DEF DeathJob
      <4> QED
        BY <1>4, <3>1, <4>1
    <3>2. CASE \E n \in DOMAIN todo : todo'[k] = todo[n]
      <4>1. PICK n \in DOMAIN todo : todo'[k] = todo[n]
        BY <3>2
      <4>2. todo[n] = DeathJob(todo[n].client, death[todo[n].client])
        BY <4>1 DEF DeathInv, DeathsTrue, IsDeath
      <4>3. todo[n] \notin Dying(c)
        BY <1>2, <1>9, QueueHas
      <4>4. todo[n].client \in Clients \ {c}
        BY <1>2, <4>1, <4>3 DEF TypeOK, Work, JobRec, Dying
      <4> QED
        BY <1>4, <4>1, <4>2, <4>4
    <3> QED
      BY <1>4, <3>1, <3>2
  <2> QED
    BY <1>1, <1>8, <2>1 DEF DeathsTrue
<1> QED
  BY <1>10, <1>11, <1>12, <1>13 DEF DeathInv

\* The listener goes to the list.
LEMMA PushDeaths ==
  ASSUME DeathInv, RefInv', OneLooper, NEW l \in Loopers, Push(l)
  PROVE  DeathInv'
<1>1. /\ pc[l] = "push" /\ pc'[l] = "reply"
      /\ UNCHANGED <<desc, death, todo, alive, sockets, job, it>>
      /\ mListenerDescList' = Append(mListenerDescList, it[l])
  BY DEF Push, Goto, DeathInv, RefInv, ListInv, TypeOK, driverVars, clientVars
<1>2. it[l] \in Descs /\ it[l] \notin Listed /\ TypeOK /\ ListedOnce
  <2>1. Knows(l) /\ Making(l)
    BY <1>1 DEF DeathInv, RefInv, ListInv, LoopersKnow, Making
  <2>2. it[l] \in Descs
    BY <1>1, <2>1 DEF Knows
  <2> QED
    BY <2>1, <2>2 DEF DeathInv, RefInv, ListInv, Fresh, ToBePushed
<1>3. Listed' = Listed \cup {it[l]}
  BY <1>1, <1>2, PushListed
<1>4. \A f : Holds(f)' <=> Holds(f)
  BY <1>1, <1>3, OneHolds
<1>5. /\ \A c : HoldersOf(c)' = HoldersOf(c)
      /\ \A d : InUse(d)' <=> InUse(d)
  BY <1>1, <1>4 DEF HoldersOf, InUse
<1>6. \A c : Telling(c)' = Telling(c) /\ Buffer(c)' = Buffer(c)
  BY <1>1, OneTells, OneHolds
<1> QED
  BY <1>1, <1>5, <1>6, MovesDeaths

\* delListener finds its listener or does not.
LEMMA FindDeaths ==
  ASSUME DeathInv, RefInv', OneLooper, NEW l \in Loopers, Find(l)
  PROVE  DeathInv'
<1>1. /\ pc[l] = "find" /\ pc'[l] \in {"remove", "reply"} /\ job[l].kind = "del"
      /\ UNCHANGED <<listVars, death, todo, alive, sockets, job>>
  <2>1. pc[l] = "find" /\ Knows(l)
    BY DEF Find, DeathInv, RefInv, ListInv, LoopersKnow
  <2> QED
    BY <2>1 DEF Find, Goto, Knows, DeathInv, RefInv, ListInv, TypeOK, driverVars, clientVars
<1>2. Listed' = Listed /\ desc' = desc
  BY <1>1 DEF listVars, Listed
<1>3. \A d : Holds(d)' <=> Holds(d)
  BY <1>1, <1>2, OneHolds
<1>4. /\ \A c : HoldersOf(c)' = HoldersOf(c)
      /\ \A d : InUse(d)' <=> InUse(d)
  BY <1>2, <1>3 DEF HoldersOf, InUse
<1>5. \A c : Telling(c)' = Telling(c) /\ Buffer(c)' = Buffer(c)
  BY <1>1, OneTells, OneHolds
<1> QED
  BY <1>1, <1>2, <1>4, <1>5, MovesDeaths

\* The listener leaves the list, its reference still held.
LEMMA RemoveListenerDeaths ==
  ASSUME DeathInv, RefInv', OneLooper, NEW l \in Loopers, RemoveListener(l)
  PROVE  DeathInv'
<1>1. /\ pc[l] = "remove" /\ pc'[l] = "release"
      /\ UNCHANGED <<desc, death, todo, alive, sockets, job, it>>
  BY DEF RemoveListener, Goto, DeathInv, RefInv, ListInv, TypeOK, driverVars, clientVars
<1>2. Listed' = Listed \ {it[l]}
  BY RemoveDoes DEF DeathInv, RefInv
<1>3. it[l] \in Listed
  BY <1>1 DEF DeathInv, RefInv, Handled
<1>4. \A f : Holds(f)' <=> Holds(f)
  BY <1>1, <1>2, <1>3, OneHolds
<1>5. /\ \A c : HoldersOf(c)' = HoldersOf(c)
      /\ \A d : InUse(d)' <=> InUse(d)
  BY <1>1, <1>4 DEF HoldersOf, InUse
<1>6. \A c : Telling(c)' = Telling(c) /\ Buffer(c)' = Buffer(c)
  BY <1>1, OneTells, OneHolds
<1>7. job'[l].kind = "death" => desc'[it'[l]].client = job'[l].client
  BY <1>1 DEF DeathInv, DeathsTrue
<1> QED
  BY <1>1, <1>5, <1>6, <1>7, MovesDeaths

\* A process's one listener holds its one reference, so that its release takes
\* the cookie, and the death that may be queued, with it.
LEMMA ReleaseDeaths ==
  ASSUME DeathInv, RefInv', OneLooper, NEW l \in Loopers, Release(l)
  PROVE  DeathInv'
<1>0. PICK d, c : d = it[l] /\ c = desc[d].client
  OBVIOUS
<1>1. /\ pc[l] = "release" /\ InUse(d) /\ d \notin Listed /\ d \in Descs /\ c \in Clients
      /\ job[l].kind \in {"del", "death"}
  <2>1. pc[l] = "release" /\ Knows(l)
    BY DEF Release, DeathInv, RefInv, ListInv, LoopersKnow
  <2>2. d \in Descs /\ Made(d) /\ job[l].kind \in {"del", "death"}
    BY <1>0, <2>1 DEF Knows
  <2> QED
    BY <1>0, <2>1, <2>2 DEF DeathInv, RefInv, Handled, ListInv, Owned
<1>2. BC_RELEASE(c) /\ pc'[l] = "free" /\ UNCHANGED <<listVars, job, it, alive, sockets>>
  <2>1. desc[d].mem # "freed"
    BY <1>1 DEF InUse
  <2> QED
    BY <1>0, <2>1 DEF Release, Goto, DeathInv, RefInv, ListInv, TypeOK, clientVars
<1>3. Listed' = Listed /\ desc' = desc
  BY <1>2 DEF listVars, Listed
<1>4. d \in HoldersOf(c)
  BY <1>0, <1>1, OneHolds DEF HoldersOf
<1>5. HoldersOf(c) = {d}
  BY <1>1, <1>4, HolderIs DEF DeathInv
<1>6. strong[c] = 1
  <2>1. Queued(c) = 0
    BY <1>0, <1>1 DEF DeathInv, Single
  <2>2. Buffer(c) = 0
    BY <1>1, OneHolds
  <2>3. Cardinality(HoldersOf(c)) = 1
    BY <1>5, FS_Singleton
  <2> QED
    BY <1>1, <2>1, <2>2, <2>3 DEF DeathInv, RefInv, Balance
<1>7. Deaths(c) + Telling(c) <= 1 /\ Deaths(c) \in Nat /\ Telling(c) \in {0, 1} /\ Deaths(c) <= 1
  <2>1. Deaths(c) \in Nat /\ Telling(c) \in {0, 1}
    BY <1>1, Counted DEF DeathInv, RefInv, ListInv, Telling
  <2> QED
    BY <1>1, <2>1 DEF DeathInv, Told
<1>8. /\ death'[c] = NoDesc /\ Deaths(c)' = 0
      /\ \A b \in Clients \ {c} : death'[b] = death[b] /\ Deaths(b)' = Deaths(b)
      /\ \A b \in Clients : Queued(b)' = Queued(b)
      /\ \A k \in DOMAIN todo' : \E n \in DOMAIN todo : todo'[k] = todo[n]
  <2>1. TypeOK /\ TypeOK' /\ strong[c] > 0
    BY <1>6 DEF DeathInv, RefInv, ListInv
  <2> QED
    BY <1>1, <1>2, <1>6, <1>7, <2>1, ReleaseCounts
<1>9. /\ \A f : Holds(f)' <=> Holds(f) /\ f # d
      /\ \A b : Buffer(b)' = Buffer(b)
  BY <1>0, <1>1, <1>2, <1>3, OneHolds
<1>10. \A b : HoldersOf(b)' = IF b = c THEN {} ELSE HoldersOf(b)
  <2>1. \A b : HoldersOf(b)' = IF b = c THEN HoldersOf(b) \ {d} ELSE HoldersOf(b)
    BY <1>0, <1>3, <1>9 DEF HoldersOf
  <2> QED
    BY <1>5, <2>1
<1>11. /\ \A b : Telling(b)' = 0
       /\ \A b \in Clients \ {c} : Telling(b) = 0
  <2>1. job[l].kind = "death" => job[l].client = c
    BY <1>0, <1>1 DEF DeathInv, DeathsTrue
  <2> QED
    BY <1>2, <2>1, OneTells
<1>12. \A k \in Loopers : k = l
  BY DEF OneLooper
<1>13. Single'
  <2>1. \A b \in Clients : Queued(b) \in Nat /\ Buffer(b) \in {0, 1}
    BY Counted DEF DeathInv, RefInv, ListInv
  <2>2. \A f : InUse(f)' <=> InUse(f)
    BY <1>3 DEF InUse
  <2> QED
    BY <1>2, <1>3, <1>8, <1>9, <1>12, <2>1, <2>2, SingleStays DEF DeathInv
<1>14. Notified'
  <2> SUFFICES ASSUME NEW b \in Clients
               PROVE  /\ death'[b] # NoDesc => death'[b] \in HoldersOf(b)'
                      /\ \A f \in HoldersOf(b)' :
                           death'[b] = f \/ \E k \in Loopers : pc'[k] = "link" /\ it'[k] = f
                      /\ \A k \in Loopers : pc'[k] = "link" => death'[job'[k].client] = NoDesc
    BY DEF Notified
  <2>1. \A k \in Loopers : pc'[k] # "link" /\ pc[k] # "link"
    BY <1>1, <1>2, <1>12
  <2>2. CASE b = c
    BY <1>8, <1>10, <2>1, <2>2
  <2>3. CASE b # c
    <3>1. death'[b] = death[b] /\ HoldersOf(b)' = HoldersOf(b)
      BY <1>8, <1>10, <2>3
    <3> QED
      BY <2>1, <3>1 DEF DeathInv, Notified
  <2> QED
    BY <2>2, <2>3
<1>15. Told'
  <2> SUFFICES ASSUME NEW b \in Clients
               PROVE  Deaths(b)' + Telling(b)' =
                        IF b \notin alive' /\ death'[b] # NoDesc THEN 1 ELSE 0
    BY DEF Told
  <2>1. CASE b = c
    BY <1>8, <1>11, <2>1
  <2>2. CASE b # c
    <3>1. /\ Deaths(b)' = Deaths(b) /\ Telling(b)' = 0 /\ Telling(b) = 0
          /\ death'[b] = death[b] /\ alive' = alive
      BY <1>2, <1>8, <1>11, <2>2
    <3> QED
      BY <3>1 DEF DeathInv, Told
  <2> QED
    BY <2>1, <2>2
<1>16. DeathsTrue'
  <2>1. \A k \in DOMAIN todo' : IsDeath(todo[k])'
    <3> SUFFICES ASSUME NEW k \in DOMAIN todo', todo'[k].kind = "death"
                 PROVE  todo'[k] = DeathJob(todo'[k].client, death'[todo'[k].client])
      BY DEF IsDeath
    <3>1. PICK n \in DOMAIN todo : todo'[k] = todo[n]
      BY <1>8
    <3>2. todo[n] = DeathJob(todo[n].client, death[todo[n].client])
      BY <3>1 DEF DeathInv, DeathsTrue, IsDeath
    <3>3. todo'[k].client \in Clients /\ todo' \in Seq(Work) /\ todo'[k] \in Work
      <4>1. todo' \in Seq(Work)
        BY DEF RefInv, ListInv, TypeOK
      <4>2. todo'[k] \in Work
        BY <4>1
      <4> QED
        BY <4>1, <4>2 DEF Work, JobRec
    <3>4. todo'[k].client # c
      <4> SUFFICES ASSUME todo'[k].client = c PROVE FALSE
        OBVIOUS
      <4>1. todo'[k] \in Dying(c)
        BY <3>3 DEF Dying
      <4>2. PICK t : t = todo'
        OBVIOUS
      <4>3. t[k] \in Dying(c) /\ k \in 1 .. Len(t) /\ Len(t) \in Nat
        BY <3>3, <4>1, <4>2
      <4>4. IsFiniteSet(Where(t, Dying(c))) /\ k \in Where(t, Dying(c))
        BY <4>3, WhereCounted DEF Where
      <4>5. Cardinality(Where(t, Dying(c))) = 0
        BY <1>8, <4>2 DEF Deaths
      <4> QED
        BY <4>4, <4>5, FS_EmptySet
    <3> QED
      BY <1>8, <3>1, <3>2, <3>3, <3>4
  <2> QED
    BY <1>2, <1>12, <2>1 DEF DeathsTrue
<1> QED
  BY <1>13, <1>14, <1>15, <1>16 DEF DeathInv

\* What is freed holds no reference any more, and nobody's cookie leads to it.
LEMMA FreeDeaths ==
  ASSUME DeathInv, RefInv', OneLooper, NEW l \in Loopers, Free(l)
  PROVE  DeathInv'
<1>1. /\ \A f \in Descs : InUse(f)' <=> InUse(f) /\ f # it[l]
      /\ \A f \in Descs : desc'[f].client = desc[f].client
      /\ \A f : Holds(f)' <=> Holds(f)
      /\ pc'[l] \in {"idle", "reply"} /\ job[l].kind # "add" /\ job'[l].kind # "add"
      /\ UNCHANGED <<mListenerDescList, driverVars, clientVars>>
  <2>1. RefInv /\ ListInv'
    BY DEF DeathInv, RefInv
  <2> QED
    BY <2>1, FreeRefs
<1>2. pc[l] = "free" /\ UNCHANGED <<death, todo, alive, sockets>>
  BY <1>1 DEF Free, driverVars, clientVars
<1>3. \A c \in Clients : HoldersOf(c)' = HoldersOf(c)
  BY <1>1 DEF HoldersOf
<1>4. \A c \in Clients : Telling(c)' = Telling(c) /\ Buffer(c)' = Buffer(c)
  BY <1>1, <1>2, OneTells, OneHolds
<1> QED
  BY <1>1, <1>2, <1>3, <1>4, MovesDeaths

\* A reply releases the last reference only where no listener came of the call,
\* and then there is no cookie.
LEMMA ReplyDeaths ==
  ASSUME DeathInv, RefInv', OneLooper, NEW l \in Loopers, Reply(l)
  PROVE  DeathInv'
<1>0. PICK c : c = job[l].client
  OBVIOUS
<1>1. /\ pc[l] = "reply" /\ pc'[l] = "idle" /\ job'[l] = NoJob
      /\ UNCHANGED <<listVars, clientVars>>
      /\ job[l].kind = "add" => strong[c] > 0
      /\ \A b : HoldersOf(b)' = HoldersOf(b)
  <2>1. RefInv /\ ListInv'
    BY DEF DeathInv, RefInv
  <2> QED
    BY <1>0, <2>1, ReplyRefs
<1>2. c \in Clients
  <2>1. Knows(l)
    BY DEF DeathInv, RefInv, ListInv, LoopersKnow
  <2> QED
    BY <1>0, <1>1, <2>1 DEF Knows, Work, JobRec
<1>3. desc' = desc /\ alive' = alive /\ sockets' = sockets /\ job'[l].kind = "none"
  BY <1>1 DEF listVars, clientVars, NoJob
<1>4. /\ \A b \in Clients : /\ death'[b] = death[b] /\ Deaths(b)' = Deaths(b)
                            /\ Queued(b)' = Queued(b)
      /\ \A k \in DOMAIN todo' : \E n \in DOMAIN todo : todo'[k] = todo[n]
  <2>1. CASE job[l].kind # "add"
    <3>1. death' = death /\ todo' = todo
      BY <2>1 DEF Reply, driverVars
    <3> QED
      BY <3>1 DEF Deaths, Queued
  <2>2. CASE job[l].kind = "add"
    <3>1. BC_RELEASE(c) /\ strong[c] > 0 /\ TypeOK /\ TypeOK' /\ strong[c] \in Nat
      BY <1>0, <1>1, <1>2, <2>2 DEF Reply, DeathInv, RefInv, ListInv, TypeOK
    <3>2. /\ \A b \in Clients \ {c} : death'[b] = death[b] /\ Deaths(b)' = Deaths(b)
          /\ \A b \in Clients : Queued(b)' = Queued(b)
          /\ strong[c] > 1 => UNCHANGED <<death, todo>>
          /\ strong[c] = 1 => death'[c] = NoDesc /\ (Deaths(c) <= 1 => Deaths(c)' = 0)
          /\ \A k \in DOMAIN todo' : \E n \in DOMAIN todo : todo'[k] = todo[n]
      BY <1>2, <3>1, ReleaseCounts
    <3>3. CASE strong[c] > 1
      <4>1. death' = death /\ todo' = todo
        BY <3>2, <3>3
      <4> QED
        BY <4>1 DEF Deaths, Queued
    <3>4. CASE strong[c] = 1
      <4>1. /\ Cardinality(HoldersOf(c)) \in Nat /\ IsFiniteSet(HoldersOf(c))
            /\ Queued(c) \in Nat /\ Deaths(c) \in Nat
            /\ strong[c] = Cardinality(HoldersOf(c)) + Queued(c) + Buffer(c)
        BY <1>2, Counted DEF DeathInv, RefInv, ListInv, Balance
      <4>2. Buffer(c) = 1
        BY <1>0, <2>2, OneHolds
      <4>3. HoldersOf(c) = {}
        <5>1. Cardinality(HoldersOf(c)) = 0
          BY <3>4, <4>1, <4>2
        <5> QED
          BY <4>1, <5>1, FS_EmptySet
      <4>4. death[c] = NoDesc
        BY <1>2, <4>3 DEF DeathInv, Notified
      <4>5. Telling(c) = 0 /\ Deaths(c) + Telling(c) = 0
        BY <1>1, <1>2, <4>4, OneTells DEF DeathInv, Told
      <4>6. Deaths(c) = 0 /\ Deaths(c)' = 0 /\ death'[c] = NoDesc
        BY <3>2, <3>4, <4>1, <4>5
      <4> QED
        BY <3>2, <4>4, <4>6
    <3> QED
      BY <3>1, <3>3, <3>4
  <2> QED
    BY <2>1, <2>2
<1>5. \A b : Telling(b)' = Telling(b) /\ Buffer(b)' = 0 /\ Buffer(b) \in {0, 1}
  BY <1>1, <1>3, OneTells, OneHolds
<1>6. \A k \in Loopers : k = l
  BY DEF OneLooper
<1>7. Single'
  <2>1. \A b \in Clients : Queued(b) \in Nat
    BY Counted DEF DeathInv, RefInv, ListInv
  <2>2. \A f : InUse(f)' <=> InUse(f)
    BY <1>3 DEF InUse
  <2> QED
    BY <1>1, <1>3, <1>4, <1>5, <1>6, <2>1, <2>2, SingleStays DEF DeathInv
<1>8. Notified'
  BY <1>1, <1>4, <1>6, NotifiedStays DEF DeathInv
<1>9. Told'
  BY <1>3, <1>4, <1>5, ToldStays DEF DeathInv
<1>10. DeathsTrue'
  BY <1>1, <1>4, <1>6, TrueStays DEF DeathInv
<1> QED
  BY <1>7, <1>8, <1>9, <1>10 DEF DeathInv

\* At first nobody listens and nobody has died.
LEMMA DeathInit == Init => DeathInv
<1> SUFFICES ASSUME Init PROVE DeathInv
  OBVIOUS
<1>1. RefInv /\ Listed = {} /\ todo = <<>>
  BY RefInit DEF Init, Listed
<1>2. \A d \in Descs : ~InUse(d)
  BY DEF Init, InUse, Unused
<1>3. \A c \in Clients : HoldersOf(c) = {} /\ Buffer(c) = 0 /\ Telling(c) = 0
  BY <1>1 DEF Init, HoldersOf, Holds, Buffer, Telling, NoJob
<1>4. \A c \in Clients : Queued(c) = 0 /\ Deaths(c) = 0
  BY <1>1, QueueHas DEF RefInv, ListInv
<1>5. Single
  BY <1>2, <1>3, <1>4 DEF Single
<1>6. Notified /\ Told /\ DeathsTrue
  BY <1>1, <1>3, <1>4 DEF Init, Notified, Told, DeathsTrue
<1> QED
  BY <1>1, <1>5, <1>6 DEF DeathInv

\* One looper and one listener to a process keep the deaths in order.
LEMMA DeathStep ==
  DeathInv /\ OneLooper /\ MaxListeners = 1 /\ [Next]_vars => DeathInv'
<1> SUFFICES ASSUME DeathInv, OneLooper, MaxListeners = 1, [Next]_vars PROVE DeathInv'
  OBVIOUS
<1>1. RefInv'
  BY RefStep DEF DeathInv
<1>2. CASE UNCHANGED vars
  BY <1>1, <1>2, StillDeaths DEF vars, driverVars, clientVars
<1>3. ASSUME NEW c \in Clients, CallAddListener(c) \/ CallDelListener(c) \/ Die(c)
      PROVE  DeathInv'
  BY <1>1, <1>3, CallAddListenerDeaths, CallDelListenerDeaths, DieDeaths
<1>4. ASSUME NEW d \in Descs, ReadEvent(d) \/ CloseSocket(d)
      PROVE  DeathInv'
  BY <1>1, <1>4, StillDeaths, CloseSocketDeaths DEF ReadEvent, driverVars
<1>5. ASSUME NEW l \in Loopers, LooperStep(l)
      PROVE  DeathInv'
  <2>1. CASE Misbehaves(l)
    BY <1>1, <2>1, StillDeaths DEF Misbehaves, Undefined, driverVars, clientVars
  <2> QED
    BY <1>1, <1>5, <2>1, TakeDeaths, RefuseAddDeaths, CreateDeaths, AcquireDeaths,
       LinkToDeathDeaths, PushDeaths, FindDeaths, RemoveListenerDeaths, ReleaseDeaths,
       FreeDeaths, ReplyDeaths DEF LooperStep
<1>6. ASSUME NEW e \in Events, ReadOnce(e)
      PROVE  DeathInv'
  BY <1>1, <1>6, StillDeaths DEF ReadOnce, driverVars, clientVars
<1>7. CASE DispatchStep
  BY <1>1, <1>7, StillDeaths DEF DispatchStep, BeginWalk, TestListener, Undefined, WriteEvent,
     WriteKills, StaleWrite, NextListener, EndWalk, driverVars, clientVars
<1> QED
  BY <1>2, <1>3, <1>4, <1>5, <1>6, <1>7 DEF Next

\* With one looper, and one listener to a process, every listener on the list
\* will be removed when its process dies: the death leads back to it and is
\* queued once the process is dead, and no cookie leads to freed memory.
THEOREM DeathsAreArmed ==
  ASSUME OneLooper
  PROVE  Spec => []DeathIsArmed
<1>1. CASE MaxListeners = 1
  <2>1. DeathInv => DeathIsArmed
    <3> SUFFICES ASSUME DeathInv, AtRest
                 PROVE  /\ \A d \in Listed :
                             /\ death[desc[d].client] = d
                             /\ desc[d].client \notin alive =>
                                  DeathJob(desc[d].client, d) \in Jobs
                        /\ \A c \in Clients : death[c] # NoDesc => desc[death[c]].mem = "used"
      BY DEF DeathIsArmed
    <3>1. ASSUME NEW d \in Listed, NEW c, c = desc[d].client
          PROVE  /\ death[c] = d
                 /\ c \notin alive => DeathJob(c, d) \in Jobs
      <4>1. d \in Descs /\ c \in Clients
        BY <3>1 DEF DeathInv, RefInv, ListInv, TypeOK, Listed, Owned, Made
      <4>2. d \in HoldersOf(c)
        BY <3>1, <4>1 DEF HoldersOf, Holds
      <4>3. death[c] = d
        BY <4>1, <4>2 DEF AtRest, DeathInv, Notified
      <4>4. ASSUME c \notin alive PROVE DeathJob(c, d) \in Jobs
        <5>1. death[c] # NoDesc
          BY <4>1, <4>3, NothingIsNothing
        <5>2. Telling(c) = 0 /\ Deaths(c) + Telling(c) = 1
          BY <4>1, <4>4, <5>1 DEF AtRest, Telling, DeathInv, Told
        <5>3. Deaths(c) # 0
          BY <5>2
        <5>4. PICK k \in DOMAIN todo : todo[k] \in Dying(c)
          BY <5>3, QueueHas DEF DeathInv, RefInv, ListInv
        <5>5. todo[k] = DeathJob(c, d)
          BY <4>3, <5>4 DEF Dying, DeathInv, DeathsTrue, IsDeath
        <5> QED
          BY <5>5 DEF Jobs
      <4> QED
        BY <4>3, <4>4
    <3>2. \A c \in Clients : death[c] # NoDesc => desc[death[c]].mem = "used"
      BY HolderIs DEF DeathInv, Notified, InUse
    <3> QED
      BY <3>1, <3>2
  <2>2. DeathInv /\ [Next]_vars => DeathInv'
    BY <1>1, DeathStep
  <2> QED
    BY <2>1, <2>2, DeathInit, PTL DEF Spec
<1>2. CASE MaxListeners # 1
  <2>1. DeathIsArmed
    BY <1>2 DEF DeathIsArmed
  <2> QED
    BY <2>1, PTL
<1> QED
  BY <1>1, <1>2

\* With one looper, and one listener to a process, memory that has been freed is
\* used through an iterator only: that of the walk, or that of delListener, on an
\* element that has left the list.  The order of deletions and deaths leaves no
\* cookie and no listed element that leads to a freed listener.
THEOREM LoopersAreSafe ==
  ASSUME OneLooper
  PROVE  Spec => OnlyIteratorsDangle
<1> DEFINE Dangles == \/ running # {} /\ at \notin Listed
                      \/ \E l \in Loopers : StaleIterator(l)
<1>1. CASE MaxListeners = 1
  <2>1. DeathInv /\ WalkInv /\ [Next]_vars =>
          [(state' = "undefined" /\ MaxListeners = 1) => Dangles]_vars
    <3> SUFFICES ASSUME DeathInv, WalkInv, Next, state' = "undefined",
                        \A l \in Loopers : ~StaleIterator(l)
                 PROVE  running # {} /\ at \notin Listed
      OBVIOUS
    <3>1. state = "up" /\ state' # state
      BY DEF Next
    <3>2. RefInv'
      BY RefStep DEF DeathInv
    <3>3. ~ \E c \in Clients : CallAddListener(c) \/ CallDelListener(c) \/ Die(c)
      BY <3>1 DEF CallAddListener, CallDelListener, Die
    <3>4. ~ \E d \in Descs : ReadEvent(d) \/ CloseSocket(d)
      BY <3>1 DEF ReadEvent, CloseSocket
    <3>5. ~ \E e \in Events : ReadOnce(e)
      BY <3>1 DEF ReadOnce
    <3>6. ASSUME NEW l \in Loopers PROVE ~LooperStep(l)
      <4>1. ~Take(l)
        <5> SUFFICES ASSUME Take(l) PROVE FALSE
          OBVIOUS
        <5>1. ~Undefined
          BY <3>2, TakeDeaths
        <5> QED
          BY <3>1, <5>1 DEF Take
      <4>2. pc[l] \in {"release", "free"} => desc[it[l]].mem # "freed"
        BY DEF DeathInv, RefInv, Handled, InUse
      <4>3. ~Release(l)
        BY <3>1, <4>2 DEF Release
      <4>4. ~Free(l)
        BY <3>1, <4>2 DEF Free
      <4>5. ~(RefuseAdd(l) \/ Create(l) \/ Acquire(l) \/ LinkToDeath(l) \/ Push(l))
        BY <3>1 DEF RefuseAdd, Create, Acquire, LinkToDeath, Push
      <4>6. ~(Find(l) \/ RemoveListener(l) \/ Reply(l))
        BY <3>1 DEF Find, RemoveListener, Reply
      <4>7. ~Misbehaves(l)
        BY DEF Misbehaves, Overlaps, OneLooper
      <4> QED
        BY <4>1, <4>3, <4>4, <4>5, <4>6, <4>7 DEF LooperStep
    <3>7. DispatchStep
      BY <3>3, <3>4, <3>5, <3>6 DEF Next
    <3>8. TestListener \/ StaleWrite \/ NextListener
      BY <3>1, <3>7 DEF DispatchStep, BeginWalk, WriteEvent, WriteKills, EndWalk
    <3>9. dpc # "idle"
      BY <3>8 DEF TestListener, StaleWrite, NextListener
    <3>10. running # {}
      BY <3>9 DEF WalkInv, Pool
    <3>11. \A d \in Listed : desc[d].mem # "freed"
      BY DEF DeathInv, RefInv, Handled, InUse
    <3>12. at \notin Listed
      BY <3>1, <3>8, <3>11 DEF TestListener, StaleWrite, NextListener
    <3> QED
      BY <3>10, <3>12
  <2>2. DeathInv /\ [Next]_vars => DeathInv'
    BY <1>1, DeathStep
  <2>3. WalkInv /\ [Next]_vars => WalkInv'
    BY WalkStep
  <2> QED
    BY <2>1, <2>2, <2>3, DeathInit, WalkInit, PTL DEF Spec, OnlyIteratorsDangle
<1>2. CASE MaxListeners # 1
  <2>1. [Next]_vars => [(state' = "undefined" /\ MaxListeners = 1) => Dangles]_vars
    BY <1>2
  <2> QED
    BY <2>1, PTL DEF Spec, OnlyIteratorsDangle
<1> QED
  BY <1>1, <1>2

\* With one looper, nothing is left to do once no thread has work: every event
\* that was read is dispatched, every process has its answer, and with one
\* listener to a process none is on the list for a process that has died
\* (InputManager.cpp:7-20, 56-98).  That a thread with work goes on is what TLC
\* adds in NobodyIsForgotten.
THEOREM NothingIsLeftWhenIdle ==
  ASSUME OneLooper
  PROVE  Spec => [](Idle => NothingIsLeft)
<1>1. ASSUME WalkInv, DeathIsArmed, Idle
      PROVE  NothingIsLeft
  <2>1. TypeOK /\ LoopersKnow
    BY <1>1 DEF WalkInv, ListInv
  <2>2. \A l \in Loopers : job[l].kind = "none"
    BY <1>1, <2>1 DEF Idle, AtRest, LoopersKnow, Knows, NoJob
  <2>3. DOMAIN todo = {}
    BY <1>1 DEF Idle
  <2>4. \A j \in Jobs : j.kind = "none"
    BY <2>2, <2>3 DEF Jobs
  <2>5. \A c \in Clients : ~Calling(c)
    BY <2>4 DEF Calling
  <2>6. \A k \in DOMAIN taken : taken[k] \in dispatched
    <3>1. DOMAIN taken = 1 .. Len(taken) /\ Len(taken) \in Nat
      BY <2>1 DEF TypeOK
    <3>2. Begun = Len(taken)
      BY <1>1, <3>1 DEF Idle, Begun
    <3>3. dispatched = {taken[k] : k \in 1 .. Begun}
      BY <1>1 DEF Idle, WalkInv, Pool
    <3> QED
      BY <3>1, <3>2, <3>3
  <2>7. ASSUME MaxListeners = 1, NEW d \in Listed
        PROVE  desc[d].client \in alive
    <3>1. DeathJob(desc[d].client, d).kind = "death"
      BY DEF DeathJob
    <3>2. DeathJob(desc[d].client, d) \notin Jobs
      BY <2>4, <3>1
    <3> QED
      BY <1>1, <2>7, <3>2 DEF Idle, DeathIsArmed
  <2> QED
    BY <2>5, <2>6, <2>7 DEF NothingIsLeft
<1>2. Spec => []WalkInv
  BY WalkInit, WalkStep, PTL DEF Spec
<1> QED
  BY <1>1, <1>2, DeathsAreArmed, PTL
=============================================================================
