---------------------------- MODULE ParcelProofs -----------------------------
(***************************************************************************)
(* Proofs about Parcel for buffers, tables and objects of any size.        *)
(***************************************************************************)
EXTENDS Parcel, SequenceTheorems, TLAPS

WordSet == [item : 0 .. MaxPuts, val : 0 .. NullLength]
BIO == [buffer : Seq(WordSet), data : Nat, data_avail : Nat, offs : Seq(Nat),
        offs_avail : Nat, overflow : BOOLEAN]

\* What SpaceAddsUp says of a parcel that is written, and of one that is read.
Writable(b) ==
  /\ b.data = Len(b.buffer)
  /\ b.data + b.data_avail = Capacity
  /\ Len(b.offs) + b.offs_avail = Slots

Readable(b) ==
  /\ b.data + b.data_avail <= Len(b.buffer)
  /\ Len(b.buffer) <= Capacity
  /\ b.offs_avail = Len(b.offs)
-----------------------------------------------------------------------------
(* Writing.                                                                  *)

\* The words of an item are as many as asked for.
LEMMA WordsType ==
  ASSUME NEW k \in 0 .. MaxPuts, NEW n \in Nat
  PROVE  Words(k, n) \in Seq(WordSet) /\ Len(Words(k, n)) = n
<1>1. 0 \in 0 .. NullLength
  BY SizesOK DEF NullLength
<1> QED
  BY <1>1 DEF Words, Word, WordSet

\* bioAlloc takes from the space that is left what it adds to the buffer.
LEMMA AllocKeeps ==
  ASSUME NEW b \in BIO, Writable(b), NEW w \in Seq(WordSet)
  PROVE  /\ bioAlloc(b, w) \in BIO
         /\ Writable(bioAlloc(b, w))
         /\ bioAlloc(b, w).offs = b.offs
         /\ bioAlloc(b, w).offs_avail = b.offs_avail
<1>1. CASE Len(w) > b.data_avail
  BY <1>1 DEF bioAlloc, BIO, Writable
<1>2. CASE ~(Len(w) > b.data_avail)
  <2>1. b.buffer \o w \in Seq(WordSet)
        /\ Len(b.buffer \o w) = Len(b.buffer) + Len(w)
    BY ConcatProperties DEF BIO
  <2>2. Len(w) \in Nat /\ b.data_avail \in Nat /\ b.data \in Nat
    BY LenProperties DEF BIO
  <2>3. b.data_avail - Len(w) \in Nat
    BY <1>2, <2>2
  <2> DEFINE c == [b EXCEPT !.buffer = @ \o w, !.data = @ + Len(w),
                            !.data_avail = @ - Len(w)]
  <2>4. bioAlloc(b, w) = c
    BY <1>2 DEF bioAlloc
  <2>5. c \in BIO
    <3>1. b.data + Len(w) \in Nat
      BY <2>2
    <3> QED
      BY <2>1, <2>3, <3>1 DEF BIO
  <2>6. /\ c.buffer = b.buffer \o w
        /\ c.data = b.data + Len(w)
        /\ c.data_avail = b.data_avail - Len(w)
        /\ c.offs = b.offs
        /\ c.offs_avail = b.offs_avail
    BY DEF BIO
  <2> HIDE DEF c
  <2>7. Writable(c)
    BY <2>1, <2>2, <2>6, SizesOK DEF Writable
  <2> QED
    BY <2>4, <2>5, <2>6, <2>7
<1> QED
  BY <1>1, <1>2

\* bioAllocObj also takes one from the slots that are left, or none.
LEMMA AllocObjKeeps ==
  ASSUME NEW b \in BIO, Writable(b), NEW w \in Seq(WordSet)
  PROVE  bioAllocObj(b, w) \in BIO /\ Writable(bioAllocObj(b, w))
<1> DEFINE c == bioAlloc(b, w)
<1>1. CASE b.offs_avail > 0
  <2>1. c \in BIO /\ Writable(c) /\ c.offs = b.offs
        /\ c.offs_avail = b.offs_avail
    BY AllocKeeps
  <2>2. Append(c.offs, b.data) \in Seq(Nat)
        /\ Len(Append(c.offs, b.data)) = Len(c.offs) + 1
    BY <2>1, AppendProperties DEF BIO
  <2>3. c.offs_avail - 1 \in Nat
    BY <1>1, <2>1 DEF BIO
  <2> DEFINE d == [c EXCEPT !.offs = Append(@, b.data), !.offs_avail = @ - 1]
  <2> HIDE DEF c
  <2>4. d \in BIO
    BY <2>1, <2>2, <2>3 DEF BIO
  <2>5. Len(c.offs) \in Nat /\ c.offs_avail \in Nat
    BY <2>1, LenProperties DEF BIO
  <2>8. /\ d.buffer = c.buffer /\ d.data = c.data /\ d.data_avail = c.data_avail
        /\ d.offs = Append(c.offs, b.data) /\ d.offs_avail = c.offs_avail - 1
    BY <2>1 DEF BIO
  <2> HIDE DEF d
  <2>9. Len(d.offs) + d.offs_avail = Len(c.offs) + c.offs_avail
    BY <2>2, <2>5, <2>8
  <2>6. Writable(d)
    BY <2>1, <2>8, <2>9 DEF Writable
  <2>7. bioAllocObj(b, w) = IF c.data = b.data THEN c ELSE d
    BY <1>1 DEF bioAllocObj, c, d
  <2> QED
    BY <2>1, <2>4, <2>6, <2>7
<1>2. CASE ~(b.offs_avail > 0)
  <2> DEFINE e == bioAlloc(b, Junk(Len(w)))
  <2>1. Junk(Len(w)) \in Seq(WordSet)
    BY WordsType, LenProperties, SizesOK DEF Junk
  <2>2. e \in BIO /\ Writable(e)
    BY <2>1, AllocKeeps
  <2> HIDE DEF e
  <2>3. bioAllocObj(b, w) = [e EXCEPT !.overflow = TRUE]
    BY <1>2 DEF bioAllocObj, e
  <2> QED
    BY <2>2, <2>3 DEF BIO, Writable
<1> QED
  BY <1>1, <1>2

\* A word of an item is a sequence of one word.
LEMMA WordType ==
  ASSUME NEW k \in 0 .. MaxPuts, NEW v \in 0 .. NullLength
  PROVE  <<Word(k, v)>> \in Seq(WordSet)
BY DEF Word, WordSet

\* The words that some bytes take up are a number.
LEMMA WordsForType ==
  ASSUME NEW n \in Nat
  PROVE  WordsFor(n) \in Nat
BY DEF WordsFor, WordBytes

\* An item has a length, of no more than the one that means null.
LEMMA ItemsType ==
  ASSUME NEW x \in Items
  PROVE  x.len \in Nat /\ x.len \in 0 .. NullLength
BY SizesOK DEF Items, NullLength

\* Putting an item keeps a buffer that can be written.
LEMMA WrittenKeeps ==
  ASSUME NEW b \in BIO, Writable(b), NEW k \in 0 .. MaxPuts, NEW x \in Items
  PROVE  Written(b, k, x) \in BIO /\ Writable(Written(b, k, x))
<1>1. 0 \in 0 .. NullLength /\ NullLength \in 0 .. NullLength
  BY SizesOK DEF NullLength
<1>2. ASSUME NEW v \in 0 .. NullLength
      PROVE  putUint32(b, k, v) \in BIO /\ Writable(putUint32(b, k, v))
  BY WordType, AllocKeeps DEF putUint32
<1>3. putObject(b, k) \in BIO /\ Writable(putObject(b, k))
  BY WordsType, AllocObjKeeps, SizesOK DEF putObject
<1>4. putZeroRef(b, k) \in BIO /\ Writable(putZeroRef(b, k))
  BY WordsType, AllocKeeps, SizesOK DEF putZeroRef
<1>5. ASSUME NEW c \in {1, 2}
      PROVE  /\ putString(b, k, x.len, c) \in BIO
             /\ Writable(putString(b, k, x.len, c))
  <2>1. (x.len + 1) * c \in Nat
    BY ItemsType
  <2>2. Words(k, WordsFor((x.len + 1) * c)) \in Seq(WordSet)
    BY <2>1, WordsForType, WordsType
  <2> QED
    BY <1>2, <2>2, ItemsType, AllocKeeps DEF putString
<1>6. x.kind \in {"uint32", "fd", "ref", "zeroref", "null8", "null16",
                  "string8", "string16"}
  BY DEF Items
<1> QED
  BY <1>1, <1>2, <1>3, <1>4, <1>5, <1>6 DEF Written, Objects
-----------------------------------------------------------------------------
(* Reading.                                                                  *)

\* bio_init_from_txn makes a buffer that can be read.
LEMMA InitFromTxnKeeps ==
  ASSUME NEW b \in BIO, Writable(b)
  PROVE  bioInitFromTxn(b) \in BIO /\ Readable(bioInitFromTxn(b))
BY LenProperties, SizesOK DEF bioInitFromTxn, BIO, Readable, Writable

\* What get and getObj leave of a parcel that is read past its end.
LEMMA EmptiedKeeps ==
  ASSUME NEW b \in BIO, Readable(b),
         NEW c, c = [b EXCEPT !.data_avail = 0, !.overflow = TRUE]
  PROVE  c \in BIO /\ Readable(c)
<1>1. Len(b.buffer) \in Nat /\ b.data \in Nat /\ b.data_avail \in Nat
  BY LenProperties DEF BIO
<1>2. c \in BIO
  BY DEF BIO
<1>3. /\ c.buffer = b.buffer /\ c.data = b.data /\ c.data_avail = 0
      /\ c.offs = b.offs /\ c.offs_avail = b.offs_avail
  BY DEF BIO
<1> QED
  BY <1>1, <1>2, <1>3 DEF Readable

\* bio_get keeps a buffer that can be read.
LEMMA GetKeeps ==
  ASSUME NEW b \in BIO, Readable(b), NEW n \in Nat
  PROVE  get(b, n) \in BIO /\ Readable(get(b, n))
<1>1. CASE b.data_avail < n
  BY <1>1, EmptiedKeeps DEF get
<1>2. CASE ~(b.data_avail < n)
  <2>1. b.data + n \in Nat /\ b.data_avail - n \in Nat
        /\ b.data + n + (b.data_avail - n) = b.data + b.data_avail
    BY <1>2 DEF BIO
  <2> DEFINE c == [b EXCEPT !.data = @ + n, !.data_avail = @ - n]
  <2>2. get(b, n) = c
    BY <1>2 DEF get
  <2>3. c \in BIO
    BY <2>1 DEF BIO
  <2> QED
    BY <2>1, <2>2, <2>3 DEF BIO, Readable
<1> QED
  BY <1>1, <1>2

\* _bio_get_obj keeps a buffer that can be read.
LEMMA GetObjKeeps ==
  ASSUME NEW b \in BIO, Readable(b)
  PROVE  getObj(b) \in BIO /\ Readable(getObj(b))
<1>1. CASE IsObject(b)
  BY <1>1, GetKeeps, SizesOK DEF getObj
<1>2. CASE ~IsObject(b)
  BY <1>2, EmptiedKeeps DEF getObj
<1> QED
  BY <1>1, <1>2

\* A length that is read from the parcel is the value of one of its words.
LEMMA GetUint32Type ==
  ASSUME NEW b \in BIO, Readable(b)
  PROVE  getUint32(b) \in Nat
<1>1. CASE b.data_avail < 1
  BY <1>1 DEF getUint32
<1>2. CASE ~(b.data_avail < 1)
  <2>1. Len(b.buffer) \in Nat
    BY LenProperties DEF BIO
  <2>2. b.data + 1 \in 1 .. Len(b.buffer)
    BY <1>2, <2>1 DEF BIO, Readable
  <2>3. b.buffer[b.data + 1] \in WordSet
    BY <2>2, ElementOfSeq DEF BIO
  <2>4. b.buffer[b.data + 1].val \in 0 .. NullLength
    BY <2>3 DEF WordSet
  <2>5. b.buffer[b.data + 1].val \in Nat
    BY <2>4, SizesOK DEF NullLength
  <2> QED
    BY <1>2, <2>5 DEF getUint32, WordAt
<1> QED
  BY <1>1, <1>2

\* The words of a payload are a number.
LEMMA PayloadType ==
  ASSUME NEW n \in Nat, NEW c \in {1, 2}
  PROVE  PayloadWords(n, c) \in Nat
<1>1. (n + 1) % UINT \in Nat
  BY SizesOK
<1>2. ((n + 1) % UINT) * c \in Nat
  BY <1>1
<1>3. (((n + 1) % UINT) * c) % UINT \in Nat
  BY <1>2, SizesOK
<1> QED
  BY <1>3, WordsForType DEF PayloadWords
-----------------------------------------------------------------------------
(* The theorems.                                                             *)

IInv == TypeOK /\ SpaceAddsUp

\* The invariant holds before anything is put.
LEMMA IInvInit == Init => IInv
BY SizesOK DEF Init, IInv, TypeOK, SpaceAddsUp

\* Writable and Readable are what SpaceAddsUp says of mBio.
LEMMA IInvBIO ==
  /\ IInv => mBio \in BIO
  /\ IInv => IF phase = "reading" THEN Readable(mBio) ELSE Writable(mBio)
BY DEF IInv, TypeOK, SpaceAddsUp, BIO, WordSet, Readable, Writable

\* Every put, send and get keeps the invariant.
LEMMA IInvStep ==
  ASSUME IInv, [Next]_vars
  PROVE  IInv'
<1>1. mBio \in BIO
  BY IInvBIO
<1>2. CASE Put
  <2>1. PICK x \in Items :
          /\ puts' = Append(puts, x)
          /\ mBio' = Written(mBio, Len(puts) + 1, x)
    BY <1>2 DEF Put
  <2>2. Len(puts) + 1 \in 0 .. MaxPuts
    BY <1>2, LenProperties, SizesOK DEF Put, IInv, TypeOK
  <2>3. Writable(mBio)
    BY <1>2, IInvBIO DEF Put
  <2>4. mBio' \in BIO /\ Writable(mBio)'
    BY <1>1, <2>1, <2>2, <2>3, WrittenKeeps DEF Writable
  <2>5. puts' \in Seq(Items)
    BY <2>1, AppendProperties DEF IInv, TypeOK
  <2> QED
    BY <1>2, <2>4, <2>5
    DEF Put, IInv, TypeOK, SpaceAddsUp, BIO, WordSet, Writable
<1>3. CASE Send
  <2>1. mBio' \in BIO /\ Readable(mBio)'
    BY <1>1, <1>3, IInvBIO, InitFromTxnKeeps DEF Send, Readable
  <2> QED
    BY <1>3, <2>1 DEF Send, IInv, TypeOK, SpaceAddsUp, BIO, WordSet, Readable
<1>4. CASE CallFails
  BY <1>4 DEF CallFails, IInv, TypeOK, SpaceAddsUp
<1>5. CASE Get
  <2> DEFINE k == Len(got) + 1
             x == puts[k]
  <2>1. Readable(mBio)
    BY <1>5, IInvBIO DEF Get
  <2>2. \A b, p, m : Result(b, p, m) \in {"same", "zero", "other"}
    BY DEF Result
  <2>3. GetItem(k, x)
    BY <1>5 DEF Get
  <2>4. x \in Items
    BY <1>5, LenProperties, ElementOfSeq DEF Get, IInv, TypeOK
  <2> HIDE DEF k, x
  <2>5. mBio' \in BIO /\ Readable(mBio)' /\ got' \in Seq({"same", "zero", "other"})
    <3>1. CASE x.kind = "uint32"
      <4>1. /\ mBio' = get(mBio, 1)
            /\ got' = Append(got, Result(mBio, Pointer(mBio, 1), k))
        BY <2>3, <3>1 DEF GetItem, Objects
      <4> QED
        BY <4>1, <1>1, <2>1, <2>2, GetKeeps, AppendProperties
        DEF IInv, TypeOK, Readable
    <3>2. CASE x.kind \in Objects \cup {"zeroref"}
      <4>1. /\ mBio' = getObj(mBio)
            /\ got' = Append(got, IF IsObject(mBio)
                                  THEN Result(mBio, Pointer(mBio, ObjWords), k)
                                  ELSE "zero")
        BY <2>3, <3>2 DEF GetItem, Objects
      <4> QED
        BY <4>1, <1>1, <2>1, <2>2, GetObjKeeps, AppendProperties
        DEF IInv, TypeOK, Readable
    <3>3. CASE x.kind \in {"string8", "null8", "string16", "null16"}
      <4> DEFINE c == IF x.kind \in {"string8", "null8"} THEN 1 ELSE 2
                 n == PayloadWords(getUint32(mBio), c)
                 b == get(mBio, 1)
      <4>1. /\ mBio' = get(b, n)
            /\ got' = Append(got, Result(b, Pointer(b, n), k))
        BY <2>3, <3>3 DEF GetItem, Objects
      <4>2. n \in Nat
        BY <1>1, <2>1, GetUint32Type, PayloadType
      <4>3. b \in BIO /\ Readable(b)
        BY <1>1, <2>1, GetKeeps
      <4> HIDE DEF b, n
      <4> QED
        BY <4>1, <4>2, <4>3, <2>2, GetKeeps, AppendProperties
        DEF IInv, TypeOK, Readable
    <3> QED
      BY <2>4, <3>1, <3>2, <3>3 DEF Items, Objects
  <2> QED
    BY <1>5, <2>5 DEF Get, IInv, TypeOK, SpaceAddsUp, BIO, WordSet, Readable
<1>6. CASE UNCHANGED vars
  BY <1>6 DEF vars, IInv, TypeOK, SpaceAddsUp
<1> QED
  BY <1>2, <1>3, <1>4, <1>5, <1>6 DEF Next

\* A parcel's buffer holds words of its items, and its counters do not go
\* below zero (bioAlloc, bioAllocObj, get and getObj of Parcel.cpp).
THEOREM TypeCorrect == Spec => []TypeOK
<1>1. IInv => TypeOK
  BY DEF IInv
<1> QED
  BY <1>1, IInvInit, IInvStep, PTL DEF Spec

\* Neither side of a parcel leaves its buffer or its table, and what is used
\* and what is left always add up (the same operators of Parcel.cpp).
THEOREM SpaceAccounted == Spec => []SpaceAddsUp
<1>1. IInv => SpaceAddsUp
  BY DEF IInv
<1> QED
  BY <1>1, IInvInit, IInvStep, PTL DEF Spec
-----------------------------------------------------------------------------
(* Where the items are.  The k-th item begins at pos[k] in the buffer, and   *)
(* the next would begin at pos[Len(puts) + 1].                               *)

TwoPart == {"string8", "string16"}
Places(b) == 1 .. Len(b.buffer)
Table(b) == 1 .. Len(b.offs)

\* All of item k, which is x, is in the buffer between p and q.
Whole(b, p, q, k, x) ==
  /\ q = p + SizeOf(x) /\ q <= Len(b.buffer)
  /\ \A j \in 1 .. SizeOf(x) : b.buffer[p + j].item = k
  /\ x.kind \in TwoPart => b.buffer[p + 1].val = x.len
  /\ x.kind \in NullStrings => b.buffer[p + 1].val = NullLength
  /\ x.kind \in Objects => \E m \in Table(b) : b.offs[m] = p

\* The item did not fit: what is there of it ends the parcel for the receiver.
Lost(b, p, k, x) ==
  /\ x.kind \in Objects => \A m \in Table(b) : b.offs[m] < p
  /\ x.kind \notin Objects => Capacity - p < SizeOf(x)
  /\ x.kind \in TwoPart =>
       Capacity <= p \/ (p < Len(b.buffer) /\ b.buffer[p + 1].val = x.len)

\* No object will ever be stored where one did not fit.
Full(b, p) == b.offs_avail = 0 \/ Capacity - p < ObjWords

Bounds(b, P, pos) ==
  /\ pos \in [Nat -> Nat] /\ pos[1] = 0 /\ pos[Len(P) + 1] = Len(b.buffer)
  /\ \A i, j \in 1 .. Len(P) + 1 : i <= j => pos[i] <= pos[j]

WholeIn(b, P, pos, k) == Whole(b, pos[k], pos[k + 1], k, P[k])

Layout(b, P, pos) ==
  /\ Bounds(b, P, pos)
  /\ \A k \in 1 .. Len(P) : WholeIn(b, P, pos, k) \/ Lost(b, pos[k], k, P[k])
  /\ \A m \in Table(b) : \E k \in 1 .. Len(P) :
       P[k].kind \in Objects /\ b.offs[m] = pos[k] /\ WholeIn(b, P, pos, k)
  /\ \A m, n \in Table(b) : m < n => b.offs[n] >= b.offs[m] + ObjWords

\* While it is written, a parcel that has lost an item says so.
Flagged(b, P, pos) ==
  \A k \in 1 .. Len(P) :
    \/ WholeIn(b, P, pos, k)
    \/ b.overflow /\ (P[k].kind \in Objects => Full(b, pos[k]))

\* What a put does to what is there: nothing.
Grows(b, c) ==
  /\ Len(b.buffer) <= Len(c.buffer)
  /\ \A i \in Places(b) : c.buffer[i] = b.buffer[i]
  /\ b.overflow => c.overflow
  /\ \/ c.offs = b.offs /\ c.offs_avail = b.offs_avail
     \/ /\ ~Full(b, Len(b.buffer)) /\ c.offs_avail = b.offs_avail - 1
        /\ c.offs = Append(b.offs, Len(b.buffer))

\* What a put adds: the item, or a flag.
Added(b, c, k, x) ==
  LET p == Len(b.buffer)
      q == Len(c.buffer) IN
  /\ \/ Whole(c, p, q, k, x)
     \/ c.overflow /\ Lost(c, p, k, x) /\ (x.kind \in Objects => Full(c, p))
  /\ c.offs # b.offs => x.kind \in Objects /\ Whole(c, p, q, k, x)
-----------------------------------------------------------------------------

\* Items have a size, and a string is the word of its length and its payload.
LEMMA SizesAre ==
  ASSUME NEW x \in Items
  PROVE  /\ SizeOf(x) \in Nat \ {0}
         /\ x.kind \in {"uint32", "null8", "null16"} => SizeOf(x) = 1
         /\ x.kind \in Objects \cup {"zeroref"} => SizeOf(x) = ObjWords
         /\ x.kind = "string8" =>
              /\ SizeOf(x) = 1 + WordsFor((x.len + 1) * 1)
              /\ WordsFor((x.len + 1) * 1) \in Nat \ {0}
         /\ x.kind = "string16" =>
              /\ SizeOf(x) = 1 + WordsFor((x.len + 1) * 2)
              /\ WordsFor((x.len + 1) * 2) \in Nat \ {0}
<1>1. x.len \in Nat
  BY ItemsType
<1>2. ASSUME NEW n \in Nat
      PROVE  /\ WordsFor((n + 1) * 1) \in Nat \ {0} /\ WordsFor((n + 1) * 2) \in Nat \ {0}
             /\ WordsFor(n + 1) = WordsFor((n + 1) * 1)
             /\ WordsFor(2 * (n + 1)) = WordsFor((n + 1) * 2)
  BY DEF WordsFor, WordBytes
<1>3. x.kind \in {"uint32", "fd", "ref", "zeroref", "null8", "null16",
                  "string8", "string16"}
  BY DEF Items
<1> QED
  BY <1>1, <1>2, <1>3, SizesOK DEF SizeOf, Objects

\* bioAlloc adds w behind what is there, or sets the flag because it is longer
\* than what is left.
Allocated(b, w, c) ==
  \/ /\ Capacity - Len(b.buffer) < Len(w)
     /\ c.buffer = b.buffer /\ c.overflow
  \/ /\ Capacity - Len(b.buffer) >= Len(w)
     /\ Len(c.buffer) = Len(b.buffer) + Len(w) /\ c.overflow = b.overflow
     /\ \A i \in Places(b) : c.buffer[i] = b.buffer[i]
     /\ \A j \in 1 .. Len(w) : c.buffer[Len(b.buffer) + j] = w[j]

\* bio_alloc writes its words at the end of the data, or overflows.
LEMMA AllocIs ==
  ASSUME NEW b \in BIO, Writable(b), NEW w \in Seq(WordSet)
  PROVE  Allocated(b, w, bioAlloc(b, w))
<1> DEFINE c == bioAlloc(b, w)
<1>1. /\ Len(w) \in Nat /\ b.data_avail \in Nat /\ Len(b.buffer) \in Nat
      /\ b.data_avail = Capacity - Len(b.buffer)
  <2>1. b.buffer \in Seq(WordSet) /\ b.data_avail \in Nat
    BY DEF BIO
  <2> QED
    BY <2>1, LenProperties, SizesOK DEF Writable
<1>2. CASE Len(w) > b.data_avail
  <2>1. c.buffer = b.buffer /\ c.overflow
    BY <1>2 DEF bioAlloc, BIO
  <2> QED
    BY <1>1, <1>2, <2>1 DEF Allocated
<1>3. CASE ~(Len(w) > b.data_avail)
  <2>1. c.buffer = b.buffer \o w /\ c.overflow = b.overflow
    BY <1>3 DEF bioAlloc, BIO
  <2>2. /\ Len(b.buffer \o w) = Len(b.buffer) + Len(w)
        /\ \A i \in Places(b) : (b.buffer \o w)[i] = b.buffer[i]
        /\ \A j \in 1 .. Len(w) : (b.buffer \o w)[Len(b.buffer) + j] = w[j]
    <3>1. b.buffer \in Seq(WordSet)
      BY DEF BIO
    <3> QED
      BY <1>1, <3>1, ConcatProperties DEF Places
  <2>3. Capacity - Len(b.buffer) >= Len(w)
    BY <1>1, <1>3
  <2> QED
    BY <2>1, <2>2, <2>3 DEF Allocated
<1> QED
  BY <1>2, <1>3

\* Putting words of item k: what the buffer gets is the item or nothing.
LEMMA WordsAre ==
  ASSUME NEW k \in 0 .. MaxPuts, NEW n \in Nat
  PROVE  /\ Words(k, n) \in Seq(WordSet) /\ Len(Words(k, n)) = n
         /\ \A j \in 1 .. n : Words(k, n)[j].item = k
BY WordsType DEF Words, Word

\* A word of an item says which item and which value.
LEMMA WordIs ==
  ASSUME NEW k \in 0 .. MaxPuts, NEW v \in 0 .. NullLength
  PROVE  /\ <<Word(k, v)>> \in Seq(WordSet) /\ Len(<<Word(k, v)>>) = 1
         /\ <<Word(k, v)>>[1].item = k /\ <<Word(k, v)>>[1].val = v
BY WordType DEF Word

\* What bioAlloc leaves of the table.
LEMMA AllocLeaves ==
  ASSUME NEW b \in BIO, NEW w
  PROVE  /\ bioAlloc(b, w).offs = b.offs
         /\ bioAlloc(b, w).offs_avail = b.offs_avail
         /\ b.overflow => bioAlloc(b, w).overflow
BY DEF bioAlloc, BIO

\* bio_alloc only adds to what was written.
LEMMA AllocGrows ==
  ASSUME NEW b \in BIO, Writable(b), NEW w \in Seq(WordSet)
  PROVE  Grows(b, bioAlloc(b, w))
<1>1. b.buffer \in Seq(WordSet) /\ Len(b.buffer) \in Nat /\ Len(w) \in Nat
  BY LenProperties DEF BIO
<1> DEFINE c == bioAlloc(b, w)
<1>2. c.offs = b.offs /\ c.offs_avail = b.offs_avail /\ (b.overflow => c.overflow)
  BY AllocLeaves
<1>3. Len(b.buffer) <= Len(c.buffer) /\ \A i \in Places(b) : c.buffer[i] = b.buffer[i]
  BY <1>1, AllocIs DEF Allocated
<1> QED
  BY <1>2, <1>3 DEF Grows

\* A number, the length of a null string or a reference to handle 0.
LEMMA PlainAdded ==
  ASSUME NEW b \in BIO, Writable(b), NEW k \in 0 .. MaxPuts, NEW x \in Items,
         x.kind \notin Objects \cup TwoPart,
         NEW w \in Seq(WordSet), Len(w) = SizeOf(x),
         \A j \in 1 .. Len(w) : w[j].item = k,
         x.kind \in NullStrings => w[1].val = NullLength
  PROVE  Grows(b, bioAlloc(b, w)) /\ Added(b, bioAlloc(b, w), k, x)
<1> DEFINE c == bioAlloc(b, w)
           p == Len(b.buffer)
<1>1. SizeOf(x) \in Nat \ {0} /\ p \in Nat
  <2>1. b.buffer \in Seq(WordSet)
    BY DEF BIO
  <2> QED
    BY <2>1, SizesAre, LenProperties
<1>2. c.offs = b.offs
  BY AllocLeaves
<1>3. \/ Capacity - p < SizeOf(x) /\ c.overflow
      \/ /\ Len(c.buffer) = p + SizeOf(x)
         /\ \A j \in 1 .. SizeOf(x) : c.buffer[p + j] = w[j]
  BY AllocIs DEF Allocated
<1>4. Grows(b, c)
  BY AllocGrows
<1> HIDE DEF c, p
<1>5. CASE Capacity - p < SizeOf(x) /\ c.overflow
  <2>1. Lost(c, p, k, x)
    BY <1>5 DEF Lost
  <2> QED
    BY <1>2, <1>4, <1>5, <2>1 DEF Added, p, c
<1>6. CASE /\ Len(c.buffer) = p + SizeOf(x)
           /\ \A j \in 1 .. SizeOf(x) : c.buffer[p + j] = w[j]
  <2>1. Whole(c, p, p + SizeOf(x), k, x)
    BY <1>1, <1>6 DEF Whole
  <2> QED
    BY <1>2, <1>4, <1>6, <2>1 DEF Added, p, c
<1> QED
  BY <1>3, <1>5, <1>6

\* The length of a string and, behind it, the string.
LEMMA StringAdded ==
  ASSUME NEW b \in BIO, Writable(b), NEW k \in 0 .. MaxPuts, NEW x \in Items,
         x.kind \in TwoPart, NEW c \in {1, 2}, NEW n \in Nat \ {0},
         n = WordsFor((x.len + 1) * c), SizeOf(x) = 1 + n
  PROVE  LET d == putString(b, k, x.len, c) IN Grows(b, d) /\ Added(b, d, k, x)
<1> DEFINE u == <<Word(k, x.len)>>
           w == Words(k, n)
           a == bioAlloc(b, u)
           d == bioAlloc(a, w)
           p == Len(b.buffer)
<1>1. /\ u \in Seq(WordSet) /\ Len(u) = 1 /\ u[1].item = k /\ u[1].val = x.len
      /\ w \in Seq(WordSet) /\ Len(w) = n /\ \A j \in 1 .. n : w[j].item = k
  <2>1. x.len \in 0 .. NullLength /\ n \in Nat
    BY ItemsType
  <2>2. u \in Seq(WordSet) /\ Len(u) = 1 /\ u[1].item = k /\ u[1].val = x.len
    BY <2>1, WordIs
  <2>3. w \in Seq(WordSet) /\ Len(w) = n /\ \A j \in 1 .. n : w[j].item = k
    BY <2>1, WordsAre
  <2> QED
    BY <2>2, <2>3
<1>2. d = putString(b, k, x.len, c)
  BY DEF putString, putUint32
<1> HIDE DEF u, w
<1>a. Allocated(b, u, a)
  BY <1>1, AllocIs
<1>3. a \in BIO /\ Writable(a)
  BY <1>1, AllocKeeps
<1>4. /\ a.offs = b.offs /\ a.offs_avail = b.offs_avail
      /\ d.offs = a.offs /\ d.offs_avail = a.offs_avail
      /\ b.overflow => a.overflow
      /\ a.overflow => d.overflow
  BY <1>3, AllocLeaves
<1>b. Allocated(a, w, d)
  BY <1>1, <1>3, AllocIs
<1>5. p \in Nat /\ Capacity \in Nat
  <2>1. b.buffer \in Seq(WordSet)
    BY DEF BIO
  <2> QED
    BY <2>1, LenProperties, SizesOK
<1> HIDE DEF a, d, p
<1>6. \/ Capacity - p < 1 /\ a.buffer = b.buffer /\ a.overflow
      \/ /\ Capacity - p >= 1 /\ Len(a.buffer) = p + 1
         /\ \A i \in Places(b) : a.buffer[i] = b.buffer[i]
         /\ a.buffer[p + 1] = u[1]
  BY <1>1, <1>5, <1>a DEF Allocated, p
<1>7. \/ Capacity - Len(a.buffer) < n /\ d.buffer = a.buffer /\ d.overflow
      \/ /\ Capacity - Len(a.buffer) >= n /\ Len(d.buffer) = Len(a.buffer) + n
         /\ \A i \in Places(a) : d.buffer[i] = a.buffer[i]
         /\ \A j \in 1 .. n : d.buffer[Len(a.buffer) + j] = w[j]
  BY <1>1, <1>b DEF Allocated
<1>8. x.kind \notin Objects \cup NullStrings
  BY DEF TwoPart, Objects, NullStrings
<1>9. CASE Capacity - p < 1 /\ a.buffer = b.buffer /\ a.overflow
  <2>1. d.buffer = b.buffer /\ d.overflow
    BY <1>4, <1>7, <1>5, <1>9 DEF p
  <2>2. Grows(b, d)
    BY <1>4, <1>5, <2>1 DEF Grows, p
  <2>3. Lost(d, p, k, x)
    BY <1>5, <1>8, <1>9 DEF Lost
  <2> QED
    BY <1>2, <1>4, <1>8, <2>1, <2>2, <2>3 DEF Added, p
<1>10. CASE /\ Capacity - p >= 1 /\ Len(a.buffer) = p + 1
            /\ \A i \in Places(b) : a.buffer[i] = b.buffer[i]
            /\ a.buffer[p + 1] = u[1]
  <2>1. Len(d.buffer) \in {p + 1, p + 1 + n} /\ \A i \in Places(a) : d.buffer[i] = a.buffer[i]
    BY <1>7, <1>5, <1>10
  <2>2. Places(b) \subseteq Places(a) /\ p + 1 \in Places(a)
    BY <1>5, <1>10 DEF Places, p
  <2>3. d.buffer[p + 1] = u[1]
    BY <1>10, <2>1, <2>2
  <2>4. Grows(b, d)
    BY <1>4, <1>5, <1>10, <2>1, <2>2 DEF Grows, p
  <2>5. CASE Capacity - Len(a.buffer) < n /\ d.buffer = a.buffer /\ d.overflow
    <3>1. Lost(d, p, k, x)
      BY <1>1, <1>5, <1>8, <1>10, <2>3, <2>5 DEF Lost
    <3> QED
      BY <1>2, <1>4, <1>8, <2>4, <2>5, <3>1 DEF Added, p
  <2>6. CASE /\ Len(d.buffer) = p + 1 + n
             /\ \A j \in 1 .. n : d.buffer[p + 1 + j] = w[j]
    <3>1. ASSUME NEW j \in 1 .. SizeOf(x)
          PROVE  d.buffer[p + j].item = k
      <4>1. CASE j = 1
        BY <1>1, <2>3, <4>1
      <4>2. CASE j # 1
        <5>1. j - 1 \in 1 .. n /\ p + 1 + (j - 1) = p + j
          BY <1>5, <4>2
        <5> QED
          BY <1>1, <2>6, <5>1
      <4> QED
        BY <4>1, <4>2
    <3>2. p + 1 + n = p + SizeOf(x) /\ p + 1 + n <= Len(d.buffer)
      <4>1. p + 1 + n = p + (1 + n) /\ p + 1 + n \in Nat
        BY <1>5
      <4> QED
        BY <2>6, <4>1
    <3>3. Whole(d, p, p + 1 + n, k, x)
      BY <1>1, <1>8, <2>3, <3>1, <3>2 DEF Whole
    <3> QED
      BY <1>2, <1>4, <1>8, <2>4, <2>6, <3>3 DEF Added, p
  <2> QED
    BY <1>7, <1>10, <2>5, <2>6
<1> QED
  BY <1>6, <1>9, <1>10

\* An object and its entry in the table, or a flag; where the table is full, an
\* object that is not written.
LEMMA ObjectAdded ==
  ASSUME NEW b \in BIO, Writable(b), NEW k \in 0 .. MaxPuts, NEW x \in Items,
         x.kind \in Objects, \A m \in Table(b) : b.offs[m] < Len(b.buffer)
  PROVE  Grows(b, putObject(b, k)) /\ Added(b, putObject(b, k), k, x)
<1> DEFINE w == Words(k, ObjWords)
           c == bioAlloc(b, w)
           d == putObject(b, k)
           p == Len(b.buffer)
<1>1. /\ w \in Seq(WordSet) /\ Len(w) = ObjWords
      /\ \A j \in 1 .. ObjWords : w[j].item = k
  BY WordsAre, SizesOK
<1>2. d = bioAllocObj(b, w)
  BY DEF putObject
<1> HIDE DEF w
<1>3. /\ p \in Nat /\ Capacity \in Nat /\ ObjWords \in Nat \ {0} /\ b.offs_avail \in Nat
      /\ b.offs \in Seq(Nat) /\ b.data = p
  <2>1. b.buffer \in Seq(WordSet) /\ b.offs_avail \in Nat /\ b.offs \in Seq(Nat)
    BY DEF BIO
  <2> QED
    BY <2>1, LenProperties, SizesOK DEF Writable
<1>4. /\ SizeOf(x) = ObjWords
      /\ x.kind \notin TwoPart \cup NullStrings
  BY SizesAre DEF Objects, TwoPart, NullStrings
<1>5. CASE b.offs_avail > 0
  <2>1. /\ c \in BIO /\ Writable(c) /\ c.offs = b.offs /\ c.offs_avail = b.offs_avail
        /\ Grows(b, c) /\ Allocated(b, w, c)
    BY <1>1, AllocKeeps, AllocGrows, AllocIs
  <2>2. d = IF c.data = b.data THEN c
            ELSE [c EXCEPT !.offs = Append(@, b.data), !.offs_avail = @ - 1]
    BY <1>2, <1>5 DEF bioAllocObj
  <2> HIDE DEF c, d, p
  <2>3. CASE Capacity - p < ObjWords /\ c.buffer = b.buffer /\ c.overflow
    <3>1. d = c
      BY <1>3, <2>1, <2>2, <2>3 DEF Writable, p
    <3>2. Lost(d, p, k, x) /\ Full(d, p) /\ d.offs = b.offs
      BY <1>4, <2>1, <2>3, <3>1 DEF Lost, Full, Table, p
    <3> QED
      BY <2>1, <2>3, <3>1, <3>2 DEF Added, p, d
  <2>4. CASE /\ Capacity - p >= ObjWords /\ Len(c.buffer) = p + ObjWords
             /\ \A j \in 1 .. ObjWords : c.buffer[p + j] = w[j]
    <3>1. c.data # b.data
      BY <1>3, <2>1, <2>4 DEF Writable
    <3>2. /\ d.buffer = c.buffer /\ d.overflow = c.overflow
          /\ d.offs = Append(b.offs, p) /\ d.offs_avail = b.offs_avail - 1
      BY <1>3, <2>1, <2>2, <3>1 DEF BIO
    <3>3. ~Full(b, p)
      BY <1>3, <1>5, <2>4 DEF Full
    <3>4. Grows(b, d)
      BY <2>1, <3>2, <3>3 DEF Grows, p
    <3>5. \E m \in Table(d) : d.offs[m] = p
      <4>1. /\ Len(d.offs) = Len(b.offs) + 1 /\ Len(b.offs) \in Nat
            /\ d.offs[Len(b.offs) + 1] = p
        BY <1>3, <3>2, AppendProperties, LenProperties
      <4>2. Len(b.offs) + 1 \in Table(d)
        BY <4>1 DEF Table
      <4> QED
        BY <4>1, <4>2
    <3>6. Whole(d, p, p + ObjWords, k, x)
      <4>1. \A j \in 1 .. ObjWords : d.buffer[p + j].item = k
        BY <1>1, <2>4, <3>2
      <4>2. p + ObjWords <= Len(d.buffer)
        BY <1>3, <2>4, <3>2
      <4> QED
        BY <1>4, <3>5, <4>1, <4>2 DEF Whole
    <3> QED
      BY <2>4, <3>2, <3>4, <3>6 DEF Added, p, d
  <2> QED
    BY <1>1, <2>1, <2>3, <2>4 DEF Allocated, p
<1>6. CASE ~(b.offs_avail > 0)
  <2> DEFINE e == bioAlloc(b, Junk(Len(w)))
  <2>1. Junk(Len(w)) \in Seq(WordSet)
    BY <1>1, WordsType, SizesOK DEF Junk
  <2>2. e \in BIO /\ e.offs = b.offs /\ e.offs_avail = b.offs_avail /\ Grows(b, e)
    BY <2>1, AllocKeeps, AllocGrows
  <2>3. d = [e EXCEPT !.overflow = TRUE]
    BY <1>2, <1>6 DEF bioAllocObj
  <2> HIDE DEF e, d, p
  <2>4. /\ d.buffer = e.buffer /\ d.overflow /\ d.offs = b.offs
        /\ d.offs_avail = b.offs_avail
    BY <2>2, <2>3 DEF BIO
  <2>5. Grows(b, d)
    BY <2>2, <2>4 DEF Grows
  <2>6. Lost(d, p, k, x) /\ Full(d, p)
    BY <1>3, <1>4, <1>6, <2>4 DEF Lost, Full, Table, p
  <2> QED
    BY <2>4, <2>5, <2>6 DEF Added, p, d
<1> QED
  BY <1>5, <1>6

\* Every put adds its item behind what is there, or sets the flag.
LEMMA WrittenAdded ==
  ASSUME NEW b \in BIO, Writable(b), NEW k \in 0 .. MaxPuts, NEW x \in Items,
         \A m \in Table(b) : b.offs[m] < Len(b.buffer)
  PROVE  Grows(b, Written(b, k, x)) /\ Added(b, Written(b, k, x), k, x)
<1>1. x.kind \in {"uint32", "fd", "ref", "zeroref", "null8", "null16",
                  "string8", "string16"}
  BY DEF Items
<1>2. 0 \in 0 .. NullLength /\ NullLength \in 0 .. NullLength
  BY SizesOK DEF NullLength
<1>3. CASE x.kind \in {"uint32", "null8", "null16"}
  <2> DEFINE v == IF x.kind = "uint32" THEN 0 ELSE NullLength
             w == <<Word(k, v)>>
  <2>1. /\ w \in Seq(WordSet) /\ Len(w) = SizeOf(x) /\ w[1].item = k /\ w[1].val = v
    BY <1>2, <1>3, WordIs, SizesAre
  <2>2. Written(b, k, x) = bioAlloc(b, w)
    BY <1>3 DEF Written, Objects, putUint32
  <2>3. x.kind \notin Objects \cup TwoPart /\ (x.kind \in NullStrings => w[1].val = NullLength)
    BY <1>3, <2>1 DEF Objects, TwoPart, NullStrings
  <2>4. \A j \in 1 .. Len(w) : w[j].item = k
    BY <1>3, <2>1, SizesAre
  <2> HIDE DEF w
  <2> QED
    BY <2>1, <2>2, <2>3, <2>4, PlainAdded
<1>4. CASE x.kind = "zeroref"
  <2> DEFINE w == Words(k, ObjWords)
  <2>1. /\ w \in Seq(WordSet) /\ Len(w) = SizeOf(x)
        /\ \A j \in 1 .. Len(w) : w[j].item = k
    <3>1. SizeOf(x) = ObjWords /\ ObjWords \in Nat
      BY <1>4, SizesAre, SizesOK
    <3> QED
      BY <3>1, WordsAre
  <2>2. Written(b, k, x) = bioAlloc(b, w)
    BY <1>4 DEF Written, Objects, putZeroRef
  <2>3. x.kind \notin Objects \cup TwoPart \cup NullStrings
    BY <1>4 DEF Objects, TwoPart, NullStrings
  <2> HIDE DEF w
  <2> QED
    BY <2>1, <2>2, <2>3, PlainAdded
<1>5. CASE x.kind \in Objects
  <2>1. Written(b, k, x) = putObject(b, k)
    BY <1>5 DEF Written, Objects
  <2> QED
    BY <1>5, <2>1, ObjectAdded
<1>6. CASE x.kind = "string8"
  <2>1. Written(b, k, x) = putString(b, k, x.len, 1)
    BY <1>6 DEF Written, Objects
  <2>2. x.kind \in TwoPart
    BY <1>6 DEF TwoPart
  <2> QED
    BY <1>6, <2>1, <2>2, SizesAre, StringAdded
<1>7. CASE x.kind = "string16"
  <2>1. Written(b, k, x) = putString(b, k, x.len, 2)
    BY <1>7 DEF Written, Objects
  <2>2. x.kind \in TwoPart
    BY <1>7 DEF TwoPart
  <2> QED
    BY <1>7, <2>1, <2>2, SizesAre, StringAdded
<1> QED
  BY <1>1, <1>3, <1>4, <1>5, <1>6, <1>7 DEF Objects

\* Sequences of items keep their places when one is put behind them.
LEMMA LayoutPut ==
  ASSUME NEW b \in BIO, NEW c \in BIO, Writable(b), Writable(c),
         NEW P \in Seq(Items), NEW pos, Layout(b, P, pos), Flagged(b, P, pos),
         NEW x \in Items, Grows(b, c), Added(b, c, Len(P) + 1, x)
  PROVE  LET R == Append(P, x)
             next == [pos EXCEPT ![Len(P) + 2] = Len(c.buffer)]
         IN  Layout(c, R, next) /\ Flagged(c, R, next)
<1> DEFINE R == Append(P, x)
           N == Len(P)
           p == Len(b.buffer)
           q == Len(c.buffer)
           next == [pos EXCEPT ![N + 2] = q]
<1>1. /\ N \in Nat /\ p \in Nat /\ q \in Nat /\ p <= q /\ Capacity \in Nat
      /\ b.offs \in Seq(Nat) /\ c.offs \in Seq(Nat) /\ ObjWords \in Nat \ {0}
      /\ Len(b.offs) \in Nat
  <2>1. /\ b.buffer \in Seq(WordSet) /\ c.buffer \in Seq(WordSet)
        /\ b.offs \in Seq(Nat) /\ c.offs \in Seq(Nat)
    BY DEF BIO
  <2> QED
    BY <2>1, LenProperties, SizesOK DEF Grows
<1>2. /\ Len(R) = N + 1 /\ R[N + 1] = x
      /\ \A k \in 1 .. N : R[k] = P[k]
  BY <1>1, AppendProperties
<1>3. /\ pos \in [Nat -> Nat] /\ pos[1] = 0 /\ pos[N + 1] = p
      /\ \A i, j \in 1 .. N + 1 : i <= j => pos[i] <= pos[j]
  BY DEF Layout, Bounds
<1>4. /\ next \in [Nat -> Nat] /\ next[N + 2] = q
      /\ \A i \in 1 .. N + 1 : next[i] = pos[i]
  <2>1. N + 1 \in Nat /\ N + 2 \in Nat /\ q \in Nat /\ N + 2 \notin 1 .. N + 1
        /\ \A i \in 1 .. N + 1 : i \in Nat
    BY <1>1
  <2>2. pos \in [Nat -> Nat]
    BY <1>3
  <2> HIDE DEF q, N
  <2>3. next \in [Nat -> Nat]
    BY <2>1, <2>2
  <2>5. next[N + 2] = q
    BY <2>1, <2>2
  <2>4. ASSUME NEW i \in 1 .. N + 1
        PROVE  next[i] = pos[i]
    BY <2>1, <2>2
  <2> QED
    BY <2>3, <2>4, <2>5
<1>0. p = Len(b.buffer) /\ q = Len(c.buffer) /\ N = Len(P)
  OBVIOUS
<1> HIDE DEF R, next, p, q, N
<1> USE <1>0
<1>5. Bounds(c, R, next)
  <2>1. next[1] = 0 /\ next[Len(R) + 1] = q
    BY <1>1, <1>2, <1>3, <1>4
  <2>2. ASSUME NEW i \in 1 .. N + 2, NEW j \in 1 .. N + 2, i <= j
        PROVE  next[i] <= next[j]
    <3>1. CASE j = N + 2
      <4>1. CASE i = N + 2
        BY <1>1, <1>4, <3>1, <4>1
      <4>2. CASE i # N + 2
        <5>1. i \in 1 .. N + 1 /\ N + 1 \in 1 .. N + 1 /\ i <= N + 1
          BY <1>1, <4>2
        <5>2. pos[i] <= p /\ next[i] = pos[i]
          BY <1>3, <1>4, <5>1
        <5>3. pos[i] \in Nat
          BY <1>1, <1>3, <5>1
        <5>4. next[j] = q /\ p <= q /\ q \in Nat /\ p \in Nat
          BY <1>1, <1>4, <3>1
        <5> QED
          BY <5>2, <5>3, <5>4
      <4> QED
        BY <4>1, <4>2
    <3>2. CASE j # N + 2
      <4>1. i \in 1 .. N + 1 /\ j \in 1 .. N + 1
        <5>1. i \in Nat /\ j \in Nat /\ j < N + 2 /\ i <= j /\ i >= 1 /\ j >= 1
          BY <1>1, <2>2, <3>2
        <5> QED
          BY <1>1, <5>1
      <4>2. pos[i] <= pos[j]
        BY <1>3, <2>2, <4>1
      <4>3. next[i] = pos[i] /\ next[j] = pos[j]
        BY <1>4, <4>1
      <4> QED
        BY <4>2, <4>3
    <3> QED
      BY <3>1, <3>2
  <2>3. Len(R) + 1 = N + 2
    BY <1>1, <1>2
  <2> QED
    BY <1>0, <1>4, <2>1, <2>2, <2>3 DEF Bounds
\* The table has what it had, and perhaps the new object.
<1>6. /\ \A m \in Table(b) : m \in Table(c) /\ c.offs[m] = b.offs[m]
      /\ \A m \in Table(c) : m \in Table(b) \/ (m = Len(b.offs) + 1 /\ c.offs[m] = p)
      /\ \A m \in Table(c) : m \notin Table(b) => c.offs # b.offs /\ ~Full(b, p)
  <2>1. CASE c.offs = b.offs
    BY <2>1 DEF Table
  <2>2. CASE c.offs = Append(b.offs, p) /\ ~Full(b, p)
    <3>1. /\ Len(c.offs) = Len(b.offs) + 1 /\ c.offs[Len(b.offs) + 1] = p
          /\ \A m \in 1 .. Len(b.offs) : c.offs[m] = b.offs[m]
      BY <1>1, <2>2, AppendProperties
    <3>2. c.offs # b.offs
      BY <1>1, <3>1
    <3> QED
      BY <1>1, <2>2, <3>1, <3>2 DEF Table
  <2> QED
    BY <2>1, <2>2 DEF Grows
<1>7. ASSUME NEW k \in 1 .. N
      PROVE  /\ R[k] = P[k] /\ next[k] = pos[k] /\ next[k + 1] = pos[k + 1]
             /\ pos[k] \in Nat /\ pos[k] <= p /\ pos[k + 1] <= p /\ R[k] \in Items
  <2>1. k \in 1 .. N + 1 /\ k + 1 \in 1 .. N + 1 /\ N + 1 \in 1 .. N + 1 /\ k \in Nat
    BY <1>1
  <2>2. pos[k] <= p /\ pos[k + 1] <= p
    <3>1. k <= N + 1 /\ k + 1 <= N + 1
      BY <1>1
    <3> QED
      BY <1>3, <2>1, <3>1
  <2>3. P[k] \in Items
    BY <1>1, ElementOfSeq
  <2> QED
    BY <1>2, <1>3, <1>4, <2>1, <2>2, <2>3
<1>8. ASSUME NEW k \in 1 .. N, WholeIn(b, P, pos, k)
      PROVE  WholeIn(c, R, next, k)
  <2> DEFINE y == P[k]
  <2>1. y \in Items /\ SizeOf(y) \in Nat \ {0}
    BY <1>7, SizesAre
  <2>2. Whole(b, pos[k], pos[k + 1], k, y)
    BY <1>8 DEF WholeIn
  <2> HIDE DEF y
  <2>3. \A j \in 1 .. SizeOf(y) : c.buffer[pos[k] + j] = b.buffer[pos[k] + j]
    <3> SUFFICES ASSUME NEW j \in 1 .. SizeOf(y)
                 PROVE  c.buffer[pos[k] + j] = b.buffer[pos[k] + j]
      OBVIOUS
    <3>1. pos[k] + j \in Places(b)
      BY <1>1, <1>7, <2>1, <2>2 DEF Whole, Places
    <3> QED
      BY <3>1 DEF Grows
  <2>4. 1 \in 1 .. SizeOf(y)
    BY <2>1
  <2>5. y.kind \in Objects => \E m \in Table(c) : c.offs[m] = pos[k]
    BY <1>6, <2>2 DEF Whole
  <2>6. pos[k + 1] <= q
    <3>1. pos[k + 1] \in Nat
      <4>1. k + 1 \in Nat
        BY <1>1
      <4> QED
        BY <1>3, <4>1
    <3>2. pos[k + 1] <= p
      BY <1>7
    <3>3. p <= q /\ p \in Nat /\ q \in Nat
      BY <1>1
    <3> QED
      BY <3>1, <3>2, <3>3
  <2>7. Whole(c, pos[k], pos[k + 1], k, y)
    BY <2>2, <2>3, <2>4, <2>5, <2>6 DEF Whole
  <2> QED
    BY <1>7, <2>7 DEF WholeIn, y
<1>9. ASSUME NEW k \in 1 .. N, ~WholeIn(b, P, pos, k)
      PROVE  /\ Lost(c, next[k], k, R[k]) /\ c.overflow
             /\ R[k].kind \in Objects => Full(c, next[k])
  <2> DEFINE y == P[k]
  <2>1. /\ Lost(b, pos[k], k, y) /\ b.overflow
        /\ y.kind \in Objects => Full(b, pos[k])
    BY <1>9 DEF Layout, Flagged
  <2>2. /\ pos[k] \in Nat /\ pos[k] <= p /\ R[k] = y /\ next[k] = pos[k]
    BY <1>7
  <2> HIDE DEF y
  <2>3. y.kind \in Objects => \A m \in Table(c) : c.offs[m] < pos[k]
    <3> SUFFICES ASSUME y.kind \in Objects, NEW m \in Table(c)
                 PROVE  c.offs[m] < pos[k]
      OBVIOUS
    <3>1. CASE m \in Table(b)
      BY <1>6, <2>1, <3>1 DEF Lost
    <3>2. CASE m \notin Table(b)
      <4>1. Full(b, pos[k]) /\ ~Full(b, p)
        BY <1>6, <2>1, <3>2
      <4> QED
        BY <1>1, <2>2, <4>1 DEF Full
    <3> QED
      BY <3>1, <3>2
  <2>4. y.kind \in Objects => Full(c, pos[k])
    <3>1. c.offs_avail = b.offs_avail \/ (~Full(b, p) /\ c.offs_avail = b.offs_avail - 1)
      BY DEF Grows
    <3> QED
      BY <1>1, <2>1, <2>2, <3>1 DEF Full
  <2>5. y.kind \in TwoPart =>
          Capacity <= pos[k] \/ (pos[k] < q /\ c.buffer[pos[k] + 1].val = y.len)
    <3> SUFFICES ASSUME y.kind \in TwoPart, ~(Capacity <= pos[k])
                 PROVE  pos[k] < q /\ c.buffer[pos[k] + 1].val = y.len
      OBVIOUS
    <3>1. pos[k] < p /\ b.buffer[pos[k] + 1].val = y.len
      BY <2>1 DEF Lost
    <3>2. pos[k] + 1 \in Places(b)
      BY <1>1, <2>2, <3>1 DEF Places
    <3> QED
      BY <1>1, <2>2, <3>1, <3>2 DEF Grows
  <2>6. Lost(c, pos[k], k, y)
    BY <2>1, <2>3, <2>5 DEF Lost
  <2> QED
    BY <2>1, <2>2, <2>4, <2>6 DEF Grows
<1>10. /\ next[N + 1] = p /\ next[N + 2] = q /\ R[N + 1] = x /\ N + 1 + 1 = N + 2
  BY <1>1, <1>2, <1>3, <1>4
<1>11. \/ WholeIn(c, R, next, N + 1)
       \/ /\ c.overflow /\ Lost(c, next[N + 1], N + 1, R[N + 1])
          /\ R[N + 1].kind \in Objects => Full(c, next[N + 1])
  BY <1>10 DEF Added, WholeIn
<1>12. \A k \in 1 .. N + 1 : k \in 1 .. N \/ k = N + 1
  BY <1>1
<1>13. /\ \A k \in 1 .. Len(R) : WholeIn(c, R, next, k) \/ Lost(c, next[k], k, R[k])
       /\ Flagged(c, R, next)
  BY <1>2, <1>8, <1>9, <1>11, <1>12 DEF Flagged
<1>14. ASSUME NEW m \in Table(c)
       PROVE  \E k \in 1 .. N + 1 :
                R[k].kind \in Objects /\ c.offs[m] = next[k] /\ WholeIn(c, R, next, k)
  <2>1. CASE m \in Table(b)
    <3>1. PICK k \in 1 .. N :
            P[k].kind \in Objects /\ b.offs[m] = pos[k] /\ WholeIn(b, P, pos, k)
      BY <2>1 DEF Layout
    <3>2. k \in 1 .. N + 1
      BY <1>1
    <3> QED
      BY <1>6, <1>7, <1>8, <2>1, <3>1, <3>2
  <2>2. CASE m \notin Table(b)
    <3>1. c.offs[m] = p /\ x.kind \in Objects /\ Whole(c, p, q, N + 1, x)
      BY <1>6, <2>2 DEF Added
    <3>2. N + 1 \in 1 .. N + 1
      BY <1>1
    <3> QED
      BY <1>10, <3>1, <3>2 DEF WholeIn
  <2> QED
    BY <2>1, <2>2
<1>15. ASSUME NEW m \in Table(c), NEW n \in Table(c), m < n
       PROVE  c.offs[n] >= c.offs[m] + ObjWords
  <2>1. m \in Nat /\ n \in Nat
    BY DEF Table
  <2>2. m \in Table(b)
    <3>1. CASE m \notin Table(b)
      <4>1. m = Len(b.offs) + 1 /\ n > Len(b.offs) + 1
        BY <1>6, <1>15, <3>1
      <4>2. n \notin Table(b) /\ n # Len(b.offs) + 1
        BY <1>1, <2>1, <4>1 DEF Table
      <4> QED
        BY <1>6, <4>2
    <3> QED
      BY <3>1
  <2>3. CASE n \in Table(b)
    BY <1>6, <1>15, <2>2, <2>3 DEF Layout
  <2>4. CASE n \notin Table(b)
    <3>1. PICK k \in 1 .. N :
            P[k].kind \in Objects /\ b.offs[m] = pos[k] /\ WholeIn(b, P, pos, k)
      BY <2>2 DEF Layout
    <3>2. SizeOf(P[k]) = ObjWords
      BY <1>7, <3>1, SizesAre
    <3>3. pos[k] + ObjWords <= p
      BY <3>1, <3>2 DEF WholeIn, Whole
    <3> QED
      BY <1>1, <1>6, <2>2, <2>4, <3>1, <3>3
  <2> QED
    BY <2>3, <2>4
<1> QED
  BY <1>2, <1>5, <1>13, <1>14, <1>15 DEF Layout, R, next, N, q
-----------------------------------------------------------------------------
(* What the getters give.                                                    *)

\* What get leaves of a parcel, and the pointer that it returns.
LEMMA GetIs ==
  ASSUME NEW b \in BIO, NEW n \in Nat
  PROVE  /\ get(b, n).buffer = b.buffer /\ get(b, n).offs = b.offs
         /\ b.data_avail < n =>
              get(b, n).data_avail = 0 /\ Pointer(b, n) = NoPointer
         /\ b.data_avail >= n =>
              /\ get(b, n).data = b.data + n
              /\ get(b, n).data_avail = b.data_avail - n
              /\ Pointer(b, n) = b.data
<1>1. b.data_avail \in Nat /\ b.data \in Nat
  BY DEF BIO
<1>2. CASE b.data_avail < n
  <2>1. get(b, n) = [b EXCEPT !.data_avail = 0, !.overflow = TRUE]
    BY <1>2 DEF get
  <2>2. Pointer(b, n) = NoPointer
    BY <1>2 DEF Pointer
  <2> QED
    BY <1>1, <1>2, <2>1, <2>2 DEF BIO
<1>3. CASE ~(b.data_avail < n)
  <2>1. get(b, n) = [b EXCEPT !.data = @ + n, !.data_avail = @ - n]
    BY <1>3 DEF get
  <2>2. Pointer(b, n) = b.data
    BY <1>3 DEF Pointer
  <2> QED
    BY <1>1, <1>3, <2>1, <2>2 DEF BIO
<1> QED
  BY <1>2, <1>3

\* The length that was put is the one that is allocated for; that of a null
\* pointer wraps to nothing; and 0, read past the end, is not nothing.
LEMMA PayloadIs ==
  ASSUME NEW c \in {1, 2}
  PROVE  /\ \A n \in Lengths : PayloadWords(n, c) = WordsFor((n + 1) * c)
         /\ PayloadWords(NullLength, c) = 0
         /\ PayloadWords(0, c) = 1
<1>1. ASSUME NEW n \in Lengths
      PROVE  PayloadWords(n, c) = WordsFor((n + 1) * c)
  <2>1. n \in Nat /\ (n + 1) * c \in 0 .. UINT - 1 /\ n + 1 \in 0 .. UINT - 1
    BY SizesOK
  <2>2. (n + 1) % UINT = n + 1 /\ ((n + 1) * c) % UINT = (n + 1) * c
    BY <2>1, SizesOK
  <2> QED
    BY <2>2 DEF PayloadWords
<1>2. PayloadWords(NullLength, c) = 0
  <2>1. (NullLength + 1) % UINT = 0 /\ (0 * c) % UINT = 0
    BY SizesOK DEF NullLength
  <2>2. WordsFor(0) = 0
    BY DEF WordsFor, WordBytes
  <2> QED
    BY <2>1, <2>2 DEF PayloadWords
<1>3. PayloadWords(0, c) = 1
  <2>1. (0 + 1) % UINT = 1 /\ (1 * c) % UINT = c
    BY SizesOK
  <2>2. WordsFor(c) = 1
    BY DEF WordsFor, WordBytes
  <2> QED
    BY <2>1, <2>2 DEF PayloadWords
<1> QED
  BY <1>1, <1>2, <1>3

\* What the receiver has before it, from place p of the buffer on.
At(b, p) == b.data = p /\ b.data_avail = Len(b.buffer) - p

\* A getter, for an item of which all is there, gives it and goes to its end.
GivesItem(q, x) ==
  /\ At(mBio', q)
  /\ \E r \in {"same", "zero", "other"} :
       got' = Append(got, r) /\ (r = "same" \/ x.kind \in NullStrings)

\* A getter finds nothing, and leaves nothing to the next.
GivesNothing == mBio'.data_avail = 0 /\ got' = Append(got, "zero")

\* No getter writes.
LEMMA GetItemLeaves ==
  ASSUME mBio \in BIO, Readable(mBio), NEW k, NEW x \in Items, GetItem(k, x)
  PROVE  mBio'.buffer = mBio.buffer /\ mBio'.offs = mBio.offs
<1>1. CASE x.kind = "uint32"
  <2>1. mBio' = get(mBio, 1)
    BY <1>1 DEF GetItem, Objects
  <2> QED
    BY <2>1, GetIs
<1>2. CASE x.kind \in Objects \cup {"zeroref"}
  <2>1. mBio' = getObj(mBio)
    BY <1>2 DEF GetItem, Objects
  <2>2. CASE IsObject(mBio)
    <3>1. mBio' = get(mBio, ObjWords) /\ ObjWords \in Nat
      BY <2>1, <2>2, SizesOK DEF getObj
    <3> QED
      BY <3>1, GetIs
  <2>3. CASE ~IsObject(mBio)
    BY <2>1, <2>3 DEF getObj, BIO
  <2> QED
    BY <2>2, <2>3
<1>3. CASE x.kind \in {"string8", "null8", "string16", "null16"}
  <2> DEFINE c == IF x.kind \in {"string8", "null8"} THEN 1 ELSE 2
             n == PayloadWords(getUint32(mBio), c)
             b == get(mBio, 1)
  <2>1. mBio' = get(b, n)
    BY <1>3 DEF GetItem, Objects
  <2>2. n \in Nat /\ b \in BIO
    BY GetUint32Type, PayloadType, GetKeeps
  <2>3. b.buffer = mBio.buffer /\ b.offs = mBio.offs
    BY GetIs
  <2> HIDE DEF b, n
  <2> QED
    BY <2>1, <2>2, <2>3, GetIs
<1> QED
  BY <1>1, <1>2, <1>3 DEF Items, Objects

\* A parcel that has been read past its end gives nothing any more.
LEMMA EmptyGives ==
  ASSUME mBio \in BIO, Readable(mBio), NEW k, NEW x \in Items, GetItem(k, x),
         mBio.data_avail = 0
  PROVE  GivesNothing
<1>1. CASE x.kind = "uint32"
  <2>1. mBio' = get(mBio, 1) /\ got' = Append(got, Result(mBio, Pointer(mBio, 1), k))
    BY <1>1 DEF GetItem, Objects
  <2>2. mBio'.data_avail = 0 /\ Pointer(mBio, 1) = NoPointer
    BY <2>1, GetIs
  <2> QED
    BY <2>1, <2>2 DEF GivesNothing, Result
<1>2. CASE x.kind \in Objects \cup {"zeroref"}
  <2>1. /\ mBio' = getObj(mBio)
        /\ got' = Append(got, IF IsObject(mBio)
                              THEN Result(mBio, Pointer(mBio, ObjWords), k)
                              ELSE "zero")
    BY <1>2 DEF GetItem, Objects
  <2>2. CASE IsObject(mBio)
    <3>1. mBio' = get(mBio, ObjWords) /\ ObjWords \in Nat /\ 0 < ObjWords
      BY <2>1, <2>2, SizesOK DEF getObj
    <3>2. mBio'.data_avail = 0 /\ Pointer(mBio, ObjWords) = NoPointer
      BY <3>1, GetIs
    <3> QED
      BY <2>1, <2>2, <3>2 DEF GivesNothing, Result
  <2>3. CASE ~IsObject(mBio)
    BY <2>1, <2>3 DEF getObj, BIO, GivesNothing
  <2> QED
    BY <2>2, <2>3
<1>3. CASE x.kind \in {"string8", "null8", "string16", "null16"}
  <2> DEFINE c == IF x.kind \in {"string8", "null8"} THEN 1 ELSE 2
             n == PayloadWords(getUint32(mBio), c)
             b == get(mBio, 1)
  <2>1. mBio' = get(b, n) /\ got' = Append(got, Result(b, Pointer(b, n), k))
    BY <1>3 DEF GetItem, Objects
  <2>2. n = 1 /\ b \in BIO /\ b.data_avail = 0
    <3>1. getUint32(mBio) = 0
      BY DEF getUint32
    <3>2. c \in {1, 2}
      OBVIOUS
    <3>3. PayloadWords(0, c) = 1
      BY <3>2, PayloadIs
    <3> QED
      BY <3>1, <3>3, GetKeeps, GetIs
  <2> HIDE DEF b, n
  <2>3. mBio'.data_avail = 0 /\ Pointer(b, n) = NoPointer
    BY <2>1, <2>2, GetIs
  <2> QED
    BY <2>1, <2>3 DEF GivesNothing, Result
<1> QED
  BY <1>1, <1>2, <1>3 DEF Items, Objects

\* Of an item that is all there, the getter finds all.
LEMMA WholeGives ==
  ASSUME mBio \in BIO, Readable(mBio), NEW k, NEW x \in Items, GetItem(k, x),
         NEW p \in Nat, NEW q, At(mBio, p), Whole(mBio, p, q, k, x),
         x.kind # "zeroref"
  PROVE  GivesItem(q, x)
<1> DEFINE L == Len(mBio.buffer)
<1>1. /\ L \in Nat /\ SizeOf(x) \in Nat \ {0} /\ q = p + SizeOf(x) /\ q <= L
      /\ \A j \in 1 .. SizeOf(x) : mBio.buffer[p + j].item = k
  <2>1. mBio.buffer \in Seq(WordSet)
    BY DEF BIO
  <2> QED
    BY <2>1, LenProperties, SizesAre DEF Whole
<1>2. mBio.data = p /\ mBio.data_avail = L - p
  BY DEF At
<1>0. L = Len(mBio.buffer)
  OBVIOUS
<1> HIDE DEF L
\* A getter of one part.
<1>3. ASSUME NEW n \in Nat, n = SizeOf(x), mBio' = get(mBio, n),
             got' = Append(got, Result(mBio, Pointer(mBio, n), k))
      PROVE  GivesItem(q, x)
  <2>1. /\ mBio'.buffer = mBio.buffer /\ mBio'.data = p + n /\ Pointer(mBio, n) = p
        /\ mBio'.data_avail = (L - p) - n
    BY <1>1, <1>2, <1>3, GetIs
  <2>2. At(mBio', q)
    BY <1>0, <1>1, <1>3, <2>1 DEF At
  <2>3. p < L /\ p # NoPointer /\ 1 \in 1 .. SizeOf(x)
    BY <1>1 DEF NoPointer
  <2>4. ItemAt(mBio, p) = k
    BY <1>0, <1>1, <2>3 DEF ItemAt, WordAt
  <2>5. Result(mBio, Pointer(mBio, n), k) = "same"
    BY <2>1, <2>3, <2>4 DEF Result
  <2> QED
    BY <1>3, <2>2, <2>5 DEF GivesItem
<1>4. CASE x.kind = "uint32"
  <2>1. mBio' = get(mBio, 1) /\ got' = Append(got, Result(mBio, Pointer(mBio, 1), k))
    BY <1>4 DEF GetItem, Objects
  <2>2. SizeOf(x) = 1
    BY <1>4, SizesAre
  <2> QED
    BY <1>3, <2>1, <2>2
<1>5. CASE x.kind \in Objects
  <2>1. IsObject(mBio)
    BY <1>2, <1>5 DEF IsObject, Whole, Readable, Table
  <2>2. /\ mBio' = get(mBio, ObjWords)
        /\ got' = Append(got, Result(mBio, Pointer(mBio, ObjWords), k))
    BY <1>5, <2>1 DEF GetItem, Objects, getObj
  <2>3. SizeOf(x) = ObjWords /\ ObjWords \in Nat
    BY <1>5, SizesAre, SizesOK
  <2> QED
    BY <1>3, <2>2, <2>3
<1>6. CASE x.kind \in TwoPart \cup NullStrings
  <2> DEFINE c == IF x.kind \in {"string8", "null8"} THEN 1 ELSE 2
             n == PayloadWords(getUint32(mBio), c)
             b == get(mBio, 1)
  <2>1. mBio' = get(b, n) /\ got' = Append(got, Result(b, Pointer(b, n), k))
    BY <1>6 DEF GetItem, Objects, TwoPart, NullStrings
  <2>2. /\ b \in BIO /\ b.buffer = mBio.buffer /\ b.data = p + 1
        /\ b.data_avail = (L - p) - 1
    <3>1. b \in BIO
      BY GetKeeps
    <3>2. mBio.data_avail >= 1
      BY <1>1, <1>2
    <3> QED
      BY <1>2, <3>1, <3>2, GetIs
  <2>3. getUint32(mBio) = mBio.buffer[p + 1].val
    BY <1>1, <1>2 DEF getUint32, WordAt
  <2>4. c \in {1, 2}
    OBVIOUS
  <2>5. CASE x.kind \in NullStrings
    <3>1. n = 0 /\ SizeOf(x) = 1
      BY <2>3, <2>4, <2>5, PayloadIs, SizesAre DEF Whole, NullStrings
    <3> HIDE DEF b, n
    <3>2. /\ mBio'.buffer = b.buffer /\ mBio'.data = p + 1
          /\ mBio'.data_avail = (L - p) - 1
      BY <1>1, <2>1, <2>2, <3>1, GetIs
    <3>3. At(mBio', q)
      BY <1>0, <1>1, <2>2, <3>1, <3>2 DEF At
    <3>4. Result(b, Pointer(b, n), k) \in {"same", "zero", "other"}
      BY DEF Result
    <3> QED
      BY <2>1, <2>5, <3>3, <3>4 DEF GivesItem
  <2>6. CASE x.kind \in TwoPart
    <3>1. x.len \in Lengths /\ mBio.buffer[p + 1].val = x.len
      BY <2>6 DEF Whole, Items, TwoPart
    <3>2. n = WordsFor((x.len + 1) * c)
      BY <2>3, <2>4, <3>1, PayloadIs
    <3>3. SizeOf(x) = 1 + n /\ n \in Nat \ {0}
      <4>1. CASE x.kind = "string8"
        BY <3>2, <4>1, SizesAre
      <4>2. CASE x.kind = "string16"
        BY <3>2, <4>2, SizesAre
      <4> QED
        BY <2>6, <4>1, <4>2 DEF TwoPart
    <3> HIDE DEF b, n
    <3>4. /\ mBio'.buffer = b.buffer /\ mBio'.data = p + 1 + n
          /\ mBio'.data_avail = ((L - p) - 1) - n /\ Pointer(b, n) = p + 1
      BY <1>1, <2>1, <2>2, <3>3, GetIs
    <3>5. At(mBio', q)
      BY <1>0, <1>1, <2>2, <3>3, <3>4 DEF At
    <3>6. p + 1 < L /\ p + 1 # NoPointer /\ 2 \in 1 .. SizeOf(x) /\ p + 1 + 1 = p + 2
      BY <1>1, <3>3 DEF NoPointer
    <3>7. ItemAt(b, p + 1) = k
      BY <1>0, <1>1, <2>2, <3>6 DEF ItemAt, WordAt
    <3>8. Result(b, Pointer(b, n), k) = "same"
      BY <3>4, <3>6, <3>7 DEF Result
    <3> QED
      BY <2>1, <3>5, <3>8 DEF GivesItem
  <2> QED
    BY <1>6, <2>5, <2>6
<1> QED
  BY <1>4, <1>5, <1>6 DEF Items, Objects, TwoPart, NullStrings

\* Of an item that is not all there, and of a reference to handle 0, nothing.
LEMMA LostGives ==
  ASSUME mBio \in BIO, Readable(mBio), NEW k, NEW x \in Items, GetItem(k, x),
         NEW p \in Nat, p <= Len(mBio.buffer), At(mBio, p),
         IF x.kind = "zeroref" THEN \A m \in Table(mBio) : mBio.offs[m] # p
                               ELSE Lost(mBio, p, k, x)
  PROVE  GivesNothing
<1> DEFINE L == Len(mBio.buffer)
<1>1. L \in Nat /\ SizeOf(x) \in Nat \ {0} /\ L <= Capacity /\ Capacity \in Nat
  <2>1. mBio.buffer \in Seq(WordSet)
    BY DEF BIO
  <2> QED
    BY <2>1, LenProperties, SizesAre, SizesOK DEF Readable
<1>2. mBio.data = p /\ mBio.data_avail = L - p /\ p <= L
  BY DEF At
<1> HIDE DEF L
<1>3. CASE x.kind = "uint32"
  <2>1. mBio' = get(mBio, 1) /\ got' = Append(got, Result(mBio, Pointer(mBio, 1), k))
    BY <1>3 DEF GetItem, Objects
  <2>2. Capacity - p < 1
    BY <1>3, SizesAre DEF Lost, Objects
  <2>3. mBio'.data_avail = 0 /\ Pointer(mBio, 1) = NoPointer
    BY <1>1, <1>2, <2>1, <2>2, GetIs
  <2> QED
    BY <2>1, <2>3 DEF GivesNothing, Result
<1>4. CASE x.kind \in Objects \cup {"zeroref"}
  <2>1. \A m \in Table(mBio) : mBio.offs[m] # p
    <3>1. mBio.offs \in Seq(Nat)
      BY DEF BIO
    <3>2. \A m \in Table(mBio) : mBio.offs[m] \in Nat
      BY <3>1, ElementOfSeq DEF Table
    <3> QED
      BY <1>4, <3>2 DEF Lost, Objects
  <2>2. ~IsObject(mBio)
    BY <1>2, <2>1 DEF IsObject, Readable, Table
  <2>3. /\ mBio' = [mBio EXCEPT !.data_avail = 0, !.overflow = TRUE]
        /\ got' = Append(got, "zero")
    BY <1>4, <2>2 DEF GetItem, Objects, getObj
  <2> QED
    BY <2>3 DEF GivesNothing, BIO
<1>5. CASE x.kind \in TwoPart \cup NullStrings
  <2>1. CASE mBio.data_avail = 0
    BY <2>1, EmptyGives
  <2>2. CASE mBio.data_avail # 0
    <3>1. x.kind \in TwoPart /\ mBio.buffer[p + 1].val = x.len /\ Capacity - p < SizeOf(x)
      <4>1. x.kind \notin Objects \cup {"zeroref"}
        BY <1>5 DEF Objects, TwoPart, NullStrings
      <4>2. ~(Capacity <= p)
        BY <1>1, <1>2, <2>2
      <4>3. Capacity - p < SizeOf(x)
        BY <4>1 DEF Lost
      <4>4. x.kind \notin NullStrings
        BY <1>1, <4>2, <4>3, SizesAre DEF NullStrings
      <4> QED
        BY <1>5, <4>1, <4>2, <4>3, <4>4 DEF Lost
    <3> DEFINE c == IF x.kind \in {"string8", "null8"} THEN 1 ELSE 2
               n == PayloadWords(getUint32(mBio), c)
               b == get(mBio, 1)
    <3>2. mBio' = get(b, n) /\ got' = Append(got, Result(b, Pointer(b, n), k))
      BY <1>5 DEF GetItem, Objects, TwoPart, NullStrings
    <3>3. b \in BIO /\ b.data_avail = (L - p) - 1
      <4>1. b \in BIO
        BY GetKeeps
      <4>2. mBio.data_avail >= 1
        BY <1>1, <1>2, <2>2
      <4> QED
        BY <1>2, <4>1, <4>2, GetIs
    <3>4. getUint32(mBio) = x.len
      BY <1>1, <1>2, <2>2, <3>1 DEF getUint32, WordAt
    <3>5. x.len \in Lengths
      BY <3>1 DEF Items, TwoPart
    <3>6. n = WordsFor((x.len + 1) * c)
      BY <3>4, <3>5, PayloadIs
    <3>7. SizeOf(x) = 1 + n /\ n \in Nat \ {0}
      <4>1. CASE x.kind = "string8"
        BY <3>6, <4>1, SizesAre
      <4>2. CASE x.kind = "string16"
        BY <3>6, <4>2, SizesAre
      <4> QED
        BY <3>1, <4>1, <4>2 DEF TwoPart
    <3> HIDE DEF b, n
    <3>8. mBio'.data_avail = 0 /\ Pointer(b, n) = NoPointer
      BY <1>1, <1>2, <3>1, <3>2, <3>3, <3>7, GetIs
    <3> QED
      BY <3>2, <3>8 DEF GivesNothing, Result
  <2> QED
    BY <2>1, <2>2
<1> QED
  BY <1>3, <1>4, <1>5 DEF Items, Objects, TwoPart, NullStrings

-----------------------------------------------------------------------------
(* What arrives.                                                             *)

\* The places are inside of the buffer.
LEMMA PlacesInside ==
  ASSUME NEW b \in BIO, NEW P \in Seq(Items), NEW pos, Bounds(b, P, pos),
         NEW k \in 1 .. Len(P)
  PROVE  /\ P[k] \in Items /\ pos[k] \in Nat /\ pos[k + 1] \in Nat
         /\ pos[k] <= pos[k + 1] /\ pos[k + 1] <= Len(b.buffer)
<1>1. Len(P) \in Nat /\ P[k] \in Items
  BY LenProperties, ElementOfSeq
<1>2. /\ k \in 1 .. Len(P) + 1 /\ k + 1 \in 1 .. Len(P) + 1 /\ k <= k + 1
      /\ Len(P) + 1 \in 1 .. Len(P) + 1 /\ k + 1 <= Len(P) + 1
      /\ k \in Nat /\ k + 1 \in Nat
  BY <1>1
<1>3. pos[k] <= pos[k + 1] /\ pos[k + 1] <= pos[Len(P) + 1]
  BY <1>2 DEF Bounds
<1> QED
  BY <1>1, <1>2, <1>3 DEF Bounds

\* The table points at whole objects, and they are inside of the buffer.
LEMMA ObjectsInside ==
  ASSUME NEW b \in BIO, NEW P \in Seq(Items), NEW pos, Layout(b, P, pos),
         NEW m \in Table(b)
  PROVE  \E k \in 1 .. Len(P) :
           /\ P[k].kind \in Objects /\ P[k] \in Items /\ b.offs[m] = pos[k]
           /\ pos[k] \in Nat /\ pos[k + 1] = pos[k] + ObjWords
           /\ pos[k] + ObjWords <= Len(b.buffer)
           /\ \A j \in 1 .. ObjWords : b.buffer[pos[k] + j].item = k
<1>1. PICK k \in 1 .. Len(P) :
        P[k].kind \in Objects /\ b.offs[m] = pos[k] /\ WholeIn(b, P, pos, k)
  BY DEF Layout
<1>2. P[k] \in Items /\ pos[k] \in Nat
  BY PlacesInside DEF Layout
<1>3. SizeOf(P[k]) = ObjWords
  BY <1>1, <1>2, SizesAre
<1> QED
  BY <1>1, <1>2, <1>3 DEF WholeIn, Whole

\* No object is where a reference to handle 0 is: what is there begins with it
\* or, if the reference did not fit, it would not fit either.
LEMMA ZeroIsNoObject ==
  ASSUME NEW b \in BIO, Len(b.buffer) <= Capacity, NEW P \in Seq(Items), NEW pos,
         Layout(b, P, pos), NEW k \in 1 .. Len(P), P[k].kind = "zeroref",
         NEW m \in Table(b)
  PROVE  b.offs[m] # pos[k]
<1> SUFFICES ASSUME b.offs[m] = pos[k]
             PROVE  FALSE
  OBVIOUS
<1>1. PICK j \in 1 .. Len(P) :
        /\ P[j].kind \in Objects /\ b.offs[m] = pos[j]
        /\ pos[j] \in Nat /\ pos[j + 1] = pos[j] + ObjWords
        /\ pos[j] + ObjWords <= Len(b.buffer)
  BY ObjectsInside
<1>2. j # k /\ pos[k] = pos[j]
  BY <1>1 DEF Objects
<1>3. /\ Len(P) \in Nat /\ Len(b.buffer) \in Nat /\ Capacity \in Nat
      /\ ObjWords \in Nat \ {0}
  <2>1. b.buffer \in Seq(WordSet)
    BY DEF BIO
  <2> QED
    BY <2>1, LenProperties, SizesOK
<1>4. \A i, n \in 1 .. Len(P) + 1 : i <= n => pos[i] <= pos[n]
  BY DEF Layout, Bounds
<1>5. /\ P[k] \in Items /\ pos[k + 1] \in Nat /\ SizeOf(P[k]) = ObjWords
      /\ P[k].kind \notin Objects
  <2>1. P[k] \in Items /\ pos[k + 1] \in Nat
    BY PlacesInside DEF Layout
  <2> QED
    BY <2>1, SizesAre DEF Objects
<1>6. CASE j < k
  <2>1. j + 1 \in 1 .. Len(P) + 1 /\ k \in 1 .. Len(P) + 1 /\ j + 1 <= k
    BY <1>3, <1>6
  <2>2. pos[j + 1] <= pos[k]
    BY <1>4, <2>1
  <2> QED
    BY <1>1, <1>2, <1>3, <2>2
<1>7. CASE k < j
  <2>1. k + 1 \in 1 .. Len(P) + 1 /\ j \in 1 .. Len(P) + 1 /\ k + 1 <= j
    BY <1>3, <1>7
  <2>2. pos[k + 1] <= pos[j]
    BY <1>4, <2>1
  <2>3. ~WholeIn(b, P, pos, k)
    BY <1>1, <1>2, <1>3, <1>5, <2>2 DEF WholeIn, Whole
  <2>4. Capacity - pos[k] < ObjWords
    BY <1>5, <2>3 DEF Layout, Lost
  <2> QED
    BY <1>1, <1>2, <1>3, <2>4
<1>8. j \in Nat /\ k \in Nat
  OBVIOUS
<1> QED
  BY <1>2, <1>6, <1>7, <1>8

\* A layout is one of the words and of the table, not of the counters.
LEMMA LayoutSame ==
  ASSUME NEW b, NEW c, NEW P, NEW pos, Layout(b, P, pos),
         c.buffer = b.buffer, c.offs = b.offs
  PROVE  Layout(c, P, pos)
<1>1. \A k \in 1 .. Len(P) :
        /\ WholeIn(b, P, pos, k) <=> WholeIn(c, P, pos, k)
        /\ Lost(b, pos[k], k, P[k]) <=> Lost(c, pos[k], k, P[k])
  BY DEF WholeIn, Whole, Lost, Table
<1> QED
  BY <1>1 DEF Layout, Bounds, Table

Arrived(k) == got[k] = "same" \/ puts[k].kind \in NullStrings

\* The receiver is where its next item begins, and has been given the others;
\* or there was a gap, and nothing behind it.
Heard(pos) ==
  /\ Len(got) <= Len(puts)
  /\ \/ At(mBio, pos[Len(got) + 1]) /\ \A k \in 1 .. Len(got) : Arrived(k)
     \/ /\ mBio.data_avail = 0
        /\ \E g \in 0 .. Len(got) : \A k \in 1 .. Len(got) :
             IF k <= g THEN Arrived(k) ELSE got[k] = "zero"

Content(pos) ==
  /\ Layout(mBio, puts, pos)
  /\ phase = "writing" => Flagged(mBio, puts, pos)
  /\ IF phase = "reading" THEN Heard(pos) ELSE got = <<>>

\* In a new parcel there is nothing to place.
LEMMA ContentInit == Init => \E pos : Content(pos)
<1> SUFFICES ASSUME Init
             PROVE  \E pos : Content(pos)
  OBVIOUS
<1> DEFINE pos == [i \in Nat |-> 0]
<1>1. /\ puts = <<>> /\ Len(puts) = 0 /\ got = <<>> /\ phase = "writing"
      /\ Len(mBio.buffer) = 0 /\ Len(mBio.offs) = 0
  BY DEF Init
<1>2. /\ pos \in [Nat -> Nat] /\ pos[1] = 0
      /\ \A i \in 1 .. 1 : pos[i] = 0
  OBVIOUS
<1> HIDE DEF pos
<1>3. Layout(mBio, puts, pos) /\ Flagged(mBio, puts, pos)
  BY <1>1, <1>2 DEF Layout, Bounds, Flagged, Table
<1> QED
  BY <1>1, <1>3 DEF Content

\* A getter's result is the next of got.
LEMMA HeardGet ==
  ASSUME IInv, IInv', NEW pos, Layout(mBio, puts, pos), Heard(pos), Get
  PROVE  Heard(pos)'
<1> DEFINE N == Len(got)
           k == N + 1
           x == puts[k]
           p == pos[k]
<1>1. /\ mBio \in BIO /\ Readable(mBio) /\ puts \in Seq(Items)
      /\ got \in Seq({"same", "zero", "other"})
  BY IInvBIO DEF Get, IInv, TypeOK
<1>2. N \in Nat /\ Len(puts) \in Nat /\ N < Len(puts) /\ k \in 1 .. Len(puts) /\ k \in Nat
  BY <1>1, LenProperties DEF Get
<1>3. GetItem(k, x) /\ puts' = puts
  BY DEF Get
<1>4. /\ x \in Items /\ p \in Nat /\ p <= Len(mBio.buffer)
  <2>1. /\ x \in Items /\ p \in Nat /\ pos[k + 1] \in Nat
        /\ p <= pos[k + 1] /\ pos[k + 1] <= Len(mBio.buffer)
    BY <1>1, <1>2, PlacesInside DEF Layout
  <2>2. Len(mBio.buffer) \in Nat
    BY <1>1, LenProperties DEF BIO
  <2> HIDE DEF p, x
  <2> QED
    BY <2>1, <2>2
<1>5. \A r \in {"same", "zero", "other"} : got' = Append(got, r) =>
        /\ Len(got') = N + 1 /\ got'[k] = r
        /\ \A i \in 1 .. N : got'[i] = got[i]
  BY <1>1, AppendProperties
<1>0. N = Len(got) /\ k = N + 1 /\ x = puts[k]
  OBVIOUS
<1>6. \A i \in 1 .. N + 1 : i \in 1 .. N \/ i = k
  BY <1>2
<1> HIDE DEF N, k, x, p
\* A getter that finds nothing.
<1>7. ASSUME GivesNothing, NEW g \in 0 .. N,
             \A i \in 1 .. N : IF i <= g THEN Arrived(i) ELSE got[i] = "zero"
      PROVE  Heard(pos)'
  <2>1. /\ mBio'.data_avail = 0 /\ Len(got') = N + 1 /\ got'[k] = "zero"
        /\ \A i \in 1 .. N : got'[i] = got[i]
    BY <1>5, <1>7 DEF GivesNothing
  <2>2. ASSUME NEW i \in 1 .. N + 1
        PROVE  IF i <= g THEN Arrived(i)' ELSE got'[i] = "zero"
    <3>1. CASE i \in 1 .. N
      BY <1>3, <1>7, <2>1, <3>1 DEF Arrived
    <3>2. CASE i = k
      <4>1. ~(i <= g)
        BY <1>0, <1>2, <3>2
      <4> QED
        BY <2>1, <3>2, <4>1
    <3> QED
      BY <1>6, <3>1, <3>2
  <2>3. g \in 0 .. N + 1 /\ N + 1 <= Len(puts)
    BY <1>2
  <2> QED
    BY <1>3, <2>1, <2>2, <2>3 DEF Heard
<1>8. CASE At(mBio, p) /\ \A i \in 1 .. N : Arrived(i)
  <2>1. CASE x.kind # "zeroref" /\ WholeIn(mBio, puts, pos, k)
    <3>1. GivesItem(pos[k + 1], x)
      BY <1>0, <1>1, <1>3, <1>4, <1>8, <2>1, WholeGives DEF WholeIn, p
    <3>2. PICK r \in {"same", "zero", "other"} :
            got' = Append(got, r) /\ (r = "same" \/ x.kind \in NullStrings)
      BY <3>1 DEF GivesItem
    <3>3. /\ Len(got') = N + 1 /\ got'[k] = r
          /\ \A i \in 1 .. N : got'[i] = got[i]
      BY <1>5, <3>2
    <3>4. \A i \in 1 .. N + 1 : Arrived(i)'
      BY <1>0, <1>3, <1>6, <1>8, <3>2, <3>3 DEF Arrived
    <3>5. N + 1 <= Len(puts) /\ At(mBio', pos[N + 1 + 1])
      BY <1>0, <1>2, <3>1 DEF GivesItem
    <3> QED
      BY <1>3, <3>3, <3>4, <3>5 DEF Heard, At
  <2>2. CASE ~(x.kind # "zeroref" /\ WholeIn(mBio, puts, pos, k))
    <3>1. IF x.kind = "zeroref" THEN \A m \in Table(mBio) : mBio.offs[m] # p
                                ELSE Lost(mBio, p, k, x)
      <4>1. CASE x.kind = "zeroref"
        <5>1. Len(mBio.buffer) <= Capacity
          BY <1>1 DEF Readable
        <5> QED
          BY <1>0, <1>1, <1>2, <4>1, <5>1, ZeroIsNoObject DEF p
      <4>2. CASE x.kind # "zeroref"
        BY <1>0, <1>2, <2>2, <4>2 DEF Layout, p
      <4> QED
        BY <4>1, <4>2
    <3>2. GivesNothing
      BY <1>1, <1>3, <1>4, <1>8, <3>1, LostGives
    <3>3. N \in 0 .. N /\ \A i \in 1 .. N : i <= N
      BY <1>2
    <3> QED
      BY <1>7, <1>8, <3>2, <3>3
  <2> QED
    BY <2>1, <2>2
<1>9. CASE /\ mBio.data_avail = 0
           /\ \E g \in 0 .. N : \A i \in 1 .. N :
                IF i <= g THEN Arrived(i) ELSE got[i] = "zero"
  <2>1. GivesNothing
    BY <1>1, <1>3, <1>4, <1>9, EmptyGives
  <2> QED
    BY <1>7, <1>9, <2>1
<1> QED
  BY <1>0, <1>8, <1>9 DEF Heard, p

\* What is in a parcel stays where it is, and what is given is what is there.
LEMMA ContentStep ==
  ASSUME IInv, IInv', NEW pos, Content(pos), [Next]_vars
  PROVE  \E next : Content(next)'
<1>1. mBio \in BIO /\ mBio' \in BIO /\ puts \in Seq(Items)
  BY IInvBIO DEF IInv, TypeOK, BIO, WordSet
<1>2. CASE Put
  <2>1. PICK x \in Items :
          puts' = Append(puts, x) /\ mBio' = Written(mBio, Len(puts) + 1, x)
    BY <1>2 DEF Put
  <2>2. Len(puts) + 1 \in 0 .. MaxPuts
    BY <1>1, <1>2, LenProperties, SizesOK DEF Put
  <2>3. Writable(mBio)
    BY <1>2, IInvBIO DEF Put
  <2>4. Writable(mBio')
    BY <1>1, <2>1, <2>2, <2>3, WrittenKeeps
  <2>5. Layout(mBio, puts, pos) /\ Flagged(mBio, puts, pos)
    BY <1>2 DEF Content, Put
  <2>6. \A m \in Table(mBio) : mBio.offs[m] < Len(mBio.buffer)
    <3>1. mBio.buffer \in Seq(WordSet)
      BY <1>1 DEF BIO
    <3>2. Len(mBio.buffer) \in Nat /\ ObjWords \in Nat \ {0}
      BY <3>1, LenProperties, SizesOK
    <3> QED
      BY <1>1, <2>5, <3>2, ObjectsInside
  <2>7. Grows(mBio, mBio') /\ Added(mBio, mBio', Len(puts) + 1, x)
    BY <1>1, <2>1, <2>2, <2>3, <2>6, WrittenAdded
  <2> DEFINE next == [pos EXCEPT ![Len(puts) + 2] = Len(mBio'.buffer)]
  <2>8. Layout(mBio', puts', next) /\ Flagged(mBio', puts', next)
    BY <1>1, <2>1, <2>3, <2>4, <2>5, <2>7, LayoutPut
  <2>9. phase' = "writing" /\ got' = <<>>
    BY <1>2 DEF Put, Content
  <2> HIDE DEF next
  <2> QED
    BY <2>8, <2>9 DEF Content
<1>3. CASE Send
  <2>1. /\ mBio' = bioInitFromTxn(mBio) /\ puts' = puts /\ phase' = "reading"
        /\ got' = <<>> /\ Layout(mBio, puts, pos)
    BY <1>3 DEF Send, Content
  <2>2. mBio'.buffer = mBio.buffer /\ mBio'.offs = mBio.offs
    BY <2>1 DEF bioInitFromTxn
  <2>3. Layout(mBio', puts', pos)
    BY <2>1, <2>2, LayoutSame
  <2>4. Heard(pos)'
    <3>1. Len(got') = 0 /\ Len(puts') \in Nat /\ pos[1] = 0
      BY <1>1, <2>1, LenProperties DEF Layout, Bounds
    <3>2. Len(mBio.buffer) \in Nat
      BY <1>1, LenProperties DEF BIO
    <3>3. mBio'.data = 0 /\ mBio'.data_avail = Len(mBio'.buffer)
      BY <2>1 DEF bioInitFromTxn
    <3>4. At(mBio', 0)
      BY <2>2, <3>2, <3>3 DEF At
    <3> QED
      BY <3>1, <3>4 DEF Heard, At
  <2> QED
    BY <2>1, <2>3, <2>4 DEF Content
<1>4. CASE CallFails
  BY <1>4 DEF CallFails, Content
<1>5. CASE Get
  <2>1. /\ phase = "reading" /\ phase' = "reading" /\ puts' = puts
        /\ Layout(mBio, puts, pos) /\ Heard(pos)
    BY <1>5 DEF Get, Content
  <2>2. mBio'.buffer = mBio.buffer /\ mBio'.offs = mBio.offs
    <3>1. GetItem(Len(got) + 1, puts[Len(got) + 1]) /\ Len(got) < Len(puts)
      BY <1>5 DEF Get
    <3>2. Readable(mBio) /\ Len(got) \in Nat /\ Len(puts) \in Nat
      BY <1>1, <2>1, IInvBIO, LenProperties DEF IInv, TypeOK
    <3>3. puts[Len(got) + 1] \in Items
      <4>1. Len(got) + 1 \in 1 .. Len(puts)
        BY <3>1, <3>2
      <4> QED
        BY <1>1, <4>1, ElementOfSeq
    <3> QED
      BY <1>1, <3>1, <3>2, <3>3, GetItemLeaves
  <2>3. Layout(mBio', puts', pos)
    BY <2>1, <2>2, LayoutSame
  <2>4. Heard(pos)'
    BY <1>5, <2>1, HeardGet
  <2> QED
    BY <2>1, <2>3, <2>4 DEF Content
<1>6. CASE UNCHANGED vars
  BY <1>6 DEF vars, Content, Heard, At, Arrived
<1> QED
  BY <1>2, <1>3, <1>4, <1>5, <1>6 DEF Next

CInv == IInv /\ \E pos : Content(pos)

\* The invariant: the types, the space, and the places of the items.
LEMMA CInvAlways == Spec => []CInv
<1>1. Init => CInv
  BY IInvInit, ContentInit DEF CInv
<1>2. CInv /\ [Next]_vars => CInv'
  BY IInvStep, ContentStep DEF CInv
<1> QED
  BY <1>1, <1>2, PTL DEF Spec

\* The driver finds an object, whole and apart from the others, wherever the
\* table of a parcel points (bioAllocObj and the puts that use it).
THEOREM TableIsOfObjects == Spec => []TablePointsAtObjects
<1>1. CInv => TablePointsAtObjects
  <2> SUFFICES ASSUME CInv, NEW m \in DOMAIN mBio.offs
               PROVE  LET p == mBio.offs[m] IN
                 /\ p + ObjWords <= Len(mBio.buffer)
                 /\ \E k \in DOMAIN puts :
                      /\ puts[k].kind \in Objects
                      /\ \A j \in 0 .. ObjWords - 1 : WordAt(mBio, p + j).item = k
                 /\ \A n \in DOMAIN mBio.offs : n > m => mBio.offs[n] >= p + ObjWords
    BY DEF TablePointsAtObjects
  <2>1. PICK pos : Layout(mBio, puts, pos)
    BY DEF CInv, Content
  <2>2. mBio \in BIO /\ mBio.offs \in Seq(Nat) /\ puts \in Seq(Items)
    BY IInvBIO DEF CInv, IInv, TypeOK, BIO
  <2>3. /\ DOMAIN mBio.offs = Table(mBio) /\ DOMAIN puts = 1 .. Len(puts)
        /\ ObjWords \in Nat /\ mBio.offs[m] \in Nat
    BY <2>2, LenProperties, ElementOfSeq, SizesOK DEF Table
  <2>4. PICK k \in 1 .. Len(puts) :
          /\ puts[k].kind \in Objects /\ mBio.offs[m] = pos[k] /\ pos[k] \in Nat
          /\ pos[k] + ObjWords <= Len(mBio.buffer)
          /\ \A j \in 1 .. ObjWords : mBio.buffer[pos[k] + j].item = k
    <3>1. m \in Table(mBio)
      BY <2>3
    <3> QED
      BY <2>1, <2>2, <3>1, ObjectsInside
  <2>5. \A j \in 0 .. ObjWords - 1 : WordAt(mBio, mBio.offs[m] + j).item = k
    <3> SUFFICES ASSUME NEW j \in 0 .. ObjWords - 1
                 PROVE  mBio.buffer[mBio.offs[m] + j + 1].item = k
      BY DEF WordAt
    <3>1. j \in Nat /\ j + 1 \in 1 .. ObjWords /\ mBio.offs[m] = pos[k] /\ pos[k] \in Nat
      BY <2>3, <2>4
    <3>2. mBio.offs[m] + j + 1 = pos[k] + (j + 1)
      BY <3>1
    <3> QED
      BY <2>4, <3>1, <3>2
  <2>6. \A n \in DOMAIN mBio.offs : n > m => mBio.offs[n] >= mBio.offs[m] + ObjWords
    BY <2>1, <2>3 DEF Layout, Table
  <2> QED
    BY <2>3, <2>4, <2>5, <2>6
<1> QED
  BY <1>1, CInvAlways, PTL

\* A parcel that does not hold all of its items says so (every put).
THEOREM NothingLostInSilence == Spec => []LossIsFlagged
<1>1. CInv => LossIsFlagged
  <2> SUFFICES ASSUME CInv, phase = "writing", ~mBio.overflow, NEW k \in DOMAIN puts
               PROVE  \E p \in DOMAIN mBio.buffer :
                        /\ p + SizeOf(puts[k]) - 1 <= Len(mBio.buffer)
                        /\ \A j \in 0 .. SizeOf(puts[k]) - 1 : mBio.buffer[p + j].item = k
                        /\ puts[k].kind \in Objects =>
                             \E m \in DOMAIN mBio.offs : mBio.offs[m] = p - 1
    BY DEF LossIsFlagged
  <2>1. PICK pos : Layout(mBio, puts, pos) /\ Flagged(mBio, puts, pos)
    BY DEF CInv, Content
  <2>2. /\ mBio \in BIO /\ mBio.offs \in Seq(Nat) /\ mBio.buffer \in Seq(WordSet)
        /\ puts \in Seq(Items)
    BY IInvBIO DEF CInv, IInv, TypeOK, BIO
  <2>3. /\ k \in 1 .. Len(puts) /\ DOMAIN mBio.offs = Table(mBio)
        /\ DOMAIN mBio.buffer = 1 .. Len(mBio.buffer) /\ Len(mBio.buffer) \in Nat
    BY <2>2, LenProperties DEF Table
  <2> DEFINE x == puts[k]
             n == SizeOf(x)
             p == pos[k]
  <2>4. x \in Items /\ p \in Nat
    BY <2>1, <2>2, <2>3, PlacesInside DEF Layout
  <2>5. n \in Nat \ {0}
    BY <2>4, SizesAre
  <2>6. /\ p + n <= Len(mBio.buffer)
        /\ \A j \in 1 .. n : mBio.buffer[p + j].item = k
        /\ x.kind \in Objects => \E m \in Table(mBio) : mBio.offs[m] = p
    BY <2>1, <2>3 DEF Flagged, WholeIn, Whole
  <2> HIDE DEF x, n, p
  <2>7. p + 1 \in DOMAIN mBio.buffer /\ p + 1 + n - 1 <= Len(mBio.buffer)
    BY <2>3, <2>4, <2>5, <2>6
  <2>8. \A j \in 0 .. n - 1 : mBio.buffer[p + 1 + j].item = k
    <3> SUFFICES ASSUME NEW j \in 0 .. n - 1
                 PROVE  mBio.buffer[p + 1 + j].item = k
      OBVIOUS
    <3>1. j + 1 \in 1 .. n /\ p + 1 + j = p + (j + 1)
      BY <2>4, <2>5
    <3> QED
      BY <2>6, <3>1
  <2>9. x.kind \in Objects => \E m \in DOMAIN mBio.offs : mBio.offs[m] = p + 1 - 1
    BY <2>3, <2>4, <2>6
  <2> DEFINE Here(r) ==
        /\ r + n - 1 <= Len(mBio.buffer)
        /\ \A j \in 0 .. n - 1 : mBio.buffer[r + j].item = k
        /\ x.kind \in Objects => \E m \in DOMAIN mBio.offs : mBio.offs[m] = r - 1
  <2>10. Here(p + 1)
    BY <2>4, <2>5, <2>7, <2>8, <2>9
  <2> HIDE DEF Here
  <2>11. \E r \in DOMAIN mBio.buffer : Here(r)
    BY <2>7, <2>10
  <2> QED
    BY <2>11 DEF Here, x, n
<1> QED
  BY <1>1, CInvAlways, PTL

\* What the receiver has been given, of what was put.
LEMMA HeardIs ==
  ASSUME CInv
  PROVE  /\ DOMAIN got \subseteq Nat
         /\ \E g \in Nat : \A k \in DOMAIN got :
              IF k <= g THEN Arrived(k) ELSE got[k] = "zero"
<1>1. PICK pos : Content(pos)
  BY DEF CInv
<1>2. got \in Seq({"same", "zero", "other"})
  BY DEF CInv, IInv, TypeOK
<1>3. Len(got) \in Nat /\ DOMAIN got = 1 .. Len(got)
  BY <1>2, LenProperties
<1>4. CASE phase = "reading"
  <2>1. CASE \A k \in 1 .. Len(got) : Arrived(k)
    BY <1>3, <2>1
  <2>2. CASE \E g \in 0 .. Len(got) : \A k \in 1 .. Len(got) :
               IF k <= g THEN Arrived(k) ELSE got[k] = "zero"
    <3>1. PICK g \in 0 .. Len(got) : \A k \in 1 .. Len(got) :
            IF k <= g THEN Arrived(k) ELSE got[k] = "zero"
      BY <2>2
    <3>2. g \in Nat
      BY <1>3
    <3> QED
      BY <1>3, <3>1, <3>2
  <2> QED
    BY <1>1, <1>4, <2>1, <2>2 DEF Content, Heard
<1>5. CASE phase # "reading"
  <2>1. \A k \in DOMAIN got : FALSE
    BY <1>1, <1>5 DEF Content
  <2> QED
    BY <1>3, <2>1
<1> QED
  BY <1>4, <1>5

\* No getter gives an item for another, or half of one, whatever of the parcel
\* was lost (get, getObj and the getters that use them).
THEOREM GivesNoOther == Spec => []NeverAnother
<1>1. CInv => NeverAnother
  BY HeardIs DEF NeverAnother, Arrived
<1> QED
  BY <1>1, CInvAlways, PTL

\* No getter gives anything once an item before it has not arrived (the same).
THEOREM GivesNoneAfterAGap == Spec => []NothingAfterAGap
<1>1. CInv => NothingAfterAGap
  <2> SUFFICES ASSUME CInv, NEW k \in DOMAIN got, got[k] = "same", NEW m \in 1 .. k
               PROVE  Arrived(m)
    BY DEF NothingAfterAGap, Arrived
  <2>1. PICK g \in Nat : \A i \in DOMAIN got :
          IF i <= g THEN Arrived(i) ELSE got[i] = "zero"
    BY HeardIs
  <2>2. k <= g
    BY <2>1
  <2>3. m \in DOMAIN got /\ m <= g
    <3>1. DOMAIN got = 1 .. Len(got) /\ Len(got) \in Nat
      BY LenProperties DEF CInv, IInv, TypeOK
    <3> QED
      BY <2>2, <3>1
  <2> QED
    BY <2>1, <2>3
<1> QED
  BY <1>1, CInvAlways, PTL
=============================================================================
