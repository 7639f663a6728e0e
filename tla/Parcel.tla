------------------------------- MODULE Parcel --------------------------------
(***************************************************************************)
(* The Parcel of system/binder/Parcel.cpp.  A sender puts items into it    *)
(* one after another; the binder driver copies the buffer and the table    *)
(* that says where in it the objects are; the receiver gets the items back *)
(* by calling, in the same order, the getters that fit.  Nothing in the    *)
(* buffer says what an item is.                                            *)
(*                                                                         *)
(* Sizes are in words of 4 bytes, to which every item is rounded up.       *)
(***************************************************************************)
EXTENDS Integers, Sequences

CONSTANTS
  Capacity,     \* words of a new parcel (1024 bytes less the table: 252)
  Slots,        \* iMaxOffs, entries of the table of objects (4)
  ObjWords,     \* sizeof(struct flat_binder_object) (4)
  Lengths,      \* bound: lengths of strings
  UINT,         \* values of an unsigned int (2^32; a TLC integer has 31 bits)
  MaxPuts       \* bound: items of a parcel

ASSUME SizesOK ==
  /\ Capacity \in Nat /\ Slots \in Nat /\ ObjWords \in Nat \ {0}
  /\ UINT \in Nat \ (0 .. 2) /\ MaxPuts \in Nat
  /\ \A n \in Lengths : n \in Nat /\ 2 * (n + 1) < UINT

VARIABLES
  mBio,         \* struct BinderIO, and the buffer that data0 points to
  phase,        \* "writing", "reading", or "failed": not sent
  puts,         \* history: the items that the sender has put
  got           \* history: what the receiver was given for each item

vars == <<mBio, phase, puts, got>>

WordBytes == 4

\* Strings are "string8" and "string16" with a length; a null pointer is sent
\* like a string of more than MAX_BIO_SIZE.  A "ref" of handle 0 is no object.
\* A "obj" is an object of the sender, which the driver makes a handle.
Items ==
  [kind : {"uint32", "fd", "ref", "zeroref", "null8", "null16"}, len : {0}]
    \cup [kind : {"string8", "string16"}, len : Lengths]
Objects == {"fd", "ref"}
NullLength == UINT - 1

WordsFor(bytes) == (bytes + WordBytes - 1) \div WordBytes

\* A word of the k-th item, of which the length of a string is the one value
\* that the reader depends on.
Word(k, v) == [item |-> k, val |-> v]
Words(k, n) == [j \in 1 .. n |-> Word(k, 0)]

\* What the sender allocates and does not fill.
Junk(n) == Words(0, n)

NoPointer == -1

Init ==
  /\ mBio = [buffer |-> <<>>, data |-> 0, data_avail |-> Capacity,
             offs |-> <<>>, offs_avail |-> Slots, overflow |-> FALSE]
  /\ phase = "writing"
  /\ puts = <<>>
  /\ got = <<>>
-----------------------------------------------------------------------------
(* Writing.  The operators take a BinderIO and return what becomes of it.  *)

\* Variant: an item that does not fit is left out, and nobody told.
bioAlloc_Silent(b, w) ==
  IF Len(w) > b.data_avail
  THEN b
  ELSE [b EXCEPT !.buffer = @ \o w, !.data = @ + Len(w),
                 !.data_avail = @ - Len(w)]

bioAlloc(b, w) ==
  IF Len(w) > b.data_avail
  THEN [b EXCEPT !.overflow = TRUE]
  ELSE [b EXCEPT !.buffer = @ \o w, !.data = @ + Len(w),
                 !.data_avail = @ - Len(w)]

\* Variant: the offset of what follows the object.
bioAllocObj_End(b, w) ==
  IF b.offs_avail > 0
  THEN LET c == bioAlloc(b, w) IN
       IF c.data = b.data THEN c
       ELSE [c EXCEPT !.offs = Append(@, c.data), !.offs_avail = @ - 1]
  ELSE [bioAlloc(b, Junk(Len(w))) EXCEPT !.overflow = TRUE]

\* An object without a slot has its space all the same, and is not written.
bioAllocObj(b, w) ==
  IF b.offs_avail > 0
  THEN LET c == bioAlloc(b, w) IN
       IF c.data = b.data THEN c
       ELSE [c EXCEPT !.offs = Append(@, b.data), !.offs_avail = @ - 1]
  ELSE [bioAlloc(b, Junk(Len(w))) EXCEPT !.overflow = TRUE]

putUint32(b, k, v) == bioAlloc(b, <<Word(k, v)>>)

\* putFd, putObj and putRef, and putRef for handle 0.
putObject(b, k) == bioAllocObj(b, Words(k, ObjWords))
putZeroRef(b, k) == bioAlloc(b, Words(k, ObjWords))

\* putString8, putString16 and putString16_X: the length is put without the
\* terminating zero, which is allocated.
putString(b, k, n, charBytes) ==
  bioAlloc(putUint32(b, k, n), Words(k, WordsFor((n + 1) * charBytes)))

Written(b, k, x) ==
  CASE x.kind = "uint32" -> putUint32(b, k, 0)
    [] x.kind \in Objects -> putObject(b, k)
    [] x.kind = "zeroref" -> putZeroRef(b, k)
    [] x.kind = "string8" -> putString(b, k, x.len, 1)
    [] x.kind = "string16" -> putString(b, k, x.len, 2)
    [] x.kind \in {"null8", "null16"} -> putUint32(b, k, NullLength)

Put ==
  /\ phase = "writing"
  /\ Len(puts) < MaxPuts
  /\ \E x \in Items :
       /\ puts' = Append(puts, x)
       /\ mBio' = Written(mBio, Len(puts) + 1, x)
  /\ UNCHANGED <<phase, got>>
-----------------------------------------------------------------------------
(* Sending.                                                                *)

\* Variant: the receiver takes the buffer for a new parcel's.
bioInitFromTxn_Full(b) ==
  [buffer |-> b.buffer, data |-> 0, data_avail |-> Capacity,
   offs |-> b.offs, offs_avail |-> Len(b.offs), overflow |-> FALSE]

\* bioInitFromTxn, on the driver's copy.
bioInitFromTxn(b) ==
  [buffer |-> b.buffer, data |-> 0, data_avail |-> Len(b.buffer),
   offs |-> b.offs, offs_avail |-> Len(b.offs), overflow |-> FALSE]

\* binderCall does not send a parcel that has overflowed; binderSendReply does.
Send ==
  /\ phase = "writing"
  /\ mBio' = bioInitFromTxn(mBio)
  /\ phase' = "reading"
  /\ UNCHANGED <<puts, got>>

CallFails ==
  /\ phase = "writing"
  /\ mBio.overflow
  /\ phase' = "failed"
  /\ UNCHANGED <<mBio, puts, got>>
-----------------------------------------------------------------------------
(* Reading.                                                                *)

\* Variant: a read past the end leaves what there is to the next.
get_Keeps(b, n) ==
  IF b.data_avail < n
  THEN [b EXCEPT !.overflow = TRUE]
  ELSE [b EXCEPT !.data = @ + n, !.data_avail = @ - n]

\* A read past the end empties the parcel.
get(b, n) ==
  IF b.data_avail < n
  THEN [b EXCEPT !.data_avail = 0, !.overflow = TRUE]
  ELSE [b EXCEPT !.data = @ + n, !.data_avail = @ - n]

\* The pointer that get returns.
Pointer(b, n) == IF b.data_avail < n THEN NoPointer ELSE b.data

WordAt(b, p) == b.buffer[p + 1]
ItemAt(b, p) == IF p < Len(b.buffer) THEN WordAt(b, p).item ELSE 0

\* Each getter's result: "same", the item that was put; "zero", 0 or NULL; or
\* "other".
Result(b, p, k) ==
  IF p = NoPointer THEN "zero" ELSE IF ItemAt(b, p) = k THEN "same" ELSE "other"

getUint32(b) == IF b.data_avail < 1 THEN 0 ELSE WordAt(b, b.data).val

\* len + 1 is an unsigned int, and the length of a null pointer wraps to 0.
PayloadWords(len, charBytes) == WordsFor((((len + 1) % UINT) * charBytes) % UINT)

\* Variant: any place will do for an object.
IsObject_Anywhere(b) == TRUE

IsObject(b) == \E m \in 1 .. b.offs_avail : b.offs[m] = b.data

\* getObj, for getFd and getRef.
getObj(b) ==
  IF IsObject(b) THEN get(b, ObjWords)
                 ELSE [b EXCEPT !.data_avail = 0, !.overflow = TRUE]

GetItem(k, x) ==
  CASE x.kind = "uint32" ->
         /\ mBio' = get(mBio, 1)
         /\ got' = Append(got, Result(mBio, Pointer(mBio, 1), k))
    [] x.kind \in Objects \cup {"zeroref"} ->
         /\ mBio' = getObj(mBio)
         /\ got' = Append(got, IF IsObject(mBio)
                               THEN Result(mBio, Pointer(mBio, ObjWords), k)
                               ELSE "zero")
    [] x.kind \in {"string8", "null8", "string16", "null16"} ->
         LET charBytes == IF x.kind \in {"string8", "null8"} THEN 1 ELSE 2
             n == PayloadWords(getUint32(mBio), charBytes)
             b == get(mBio, 1) IN
         /\ mBio' = get(b, n)
         /\ got' = Append(got, Result(b, Pointer(b, n), k))

Get ==
  /\ phase = "reading"
  /\ Len(got) < Len(puts)
  /\ GetItem(Len(got) + 1, puts[Len(got) + 1])
  /\ UNCHANGED <<phase, puts>>

Next == Put \/ Send \/ CallFails \/ Get

Spec == Init /\ [][Next]_vars
-----------------------------------------------------------------------------
(* Properties. *)

TypeOK ==
  /\ mBio \in [buffer : Seq([item : 0 .. MaxPuts, val : 0 .. NullLength]),
               data : Nat, data_avail : Nat, offs : Seq(Nat), offs_avail : Nat,
               overflow : BOOLEAN]
  /\ phase \in {"writing", "reading", "failed"}
  /\ puts \in Seq(Items)
  /\ got \in Seq({"same", "zero", "other"})

\* Neither the sender nor the receiver leaves its buffer, and no space is lost
\* or counted twice: what is used and what is left add up, for the buffer and
\* for the table.
SpaceAddsUp ==
  /\ phase # "reading" =>
       /\ mBio.data = Len(mBio.buffer)
       /\ mBio.data + mBio.data_avail = Capacity
       /\ Len(mBio.offs) + mBio.offs_avail = Slots
  /\ phase = "reading" =>
       /\ mBio.data + mBio.data_avail <= Len(mBio.buffer)
       /\ Len(mBio.buffer) <= Capacity
       /\ mBio.offs_avail = Len(mBio.offs)

\* The driver finds an object wherever the table points, whole and apart from
\* the others: it would take anything else for one and rewrite it.
TablePointsAtObjects ==
  \A m \in DOMAIN mBio.offs :
    LET p == mBio.offs[m] IN
    /\ p + ObjWords <= Len(mBio.buffer)
    /\ \E k \in DOMAIN puts :
         /\ puts[k].kind \in Objects
         /\ \A j \in 0 .. ObjWords - 1 : WordAt(mBio, p + j).item = k
    /\ \A n \in DOMAIN mBio.offs : n > m => mBio.offs[n] >= p + ObjWords

\* Nothing is left out in silence: "ran out of space" (Binder.h) is set on
\* every parcel that does not hold all of its items, whatever fits after.
SizeOf(x) ==
  CASE x.kind \in {"uint32", "null8", "null16"} -> 1
    [] x.kind \in Objects \cup {"zeroref"} -> ObjWords
    [] x.kind = "string8" -> 1 + WordsFor(x.len + 1)
    [] x.kind = "string16" -> 1 + WordsFor(2 * (x.len + 1))
LossIsFlagged ==
  (phase = "writing" /\ ~mBio.overflow) =>
    \A k \in DOMAIN puts :
      /\ \E p \in DOMAIN mBio.buffer :
           /\ p + SizeOf(puts[k]) - 1 <= Len(mBio.buffer)
           /\ \A j \in 0 .. SizeOf(puts[k]) - 1 : mBio.buffer[p + j].item = k
           /\ puts[k].kind \in Objects =>
                \E m \in DOMAIN mBio.offs : mBio.offs[m] = p - 1

\* The receiver is given each item as it was put, or 0, but never another: even
\* of a reply that has overflowed, and whatever was put after the overflow.
\* Only a null string comes back as a pointer, to what follows it.
NullStrings == {"null8", "null16"}
NeverAnother ==
  \A k \in DOMAIN got : got[k] = "other" => puts[k].kind \in NullStrings

\* Whoever is given an item has been given all those before it: an item that
\* does not arrive, and a reference to handle 0, end the parcel.
NothingAfterAGap ==
  \A k \in DOMAIN got :
    got[k] = "same" =>
      \A m \in 1 .. k : got[m] = "same" \/ puts[m].kind \in NullStrings
=============================================================================
