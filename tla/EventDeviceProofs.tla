-------------------------- MODULE EventDeviceProofs --------------------------
(***************************************************************************)
(* Proofs about EventDevice.  What the kernel has of a device and what     *)
(* process has of it in its buffer are one stream of frames, cut at any    *)
(* input event; the invariant says where the next event stands in its      *)
(* frame, what the element of the array under construction holds of that   *)
(* frame, and which event of the stream a pressed touch still waits for.   *)
(***************************************************************************)
EXTENDS EventDevice, TLAPS

Kind == {"press", "release", "key"}
FrameSet == [dev : Devices, kind : Kind, n : Nat]
IevSet == [type : {"EV_ABS", "EV_KEY", "EV_SYN"},
           code : {"ABS_MT_POSITION_X", "ABS_MT_POSITION_Y", "BTN_TOUCH", "KEY_HOME",
                   "SYN_MT_REPORT", "SYN_REPORT"},
           value : Nat, frame : FrameSet]
CookEvents == [iType : {"junk", "TOUCHSCREEN", "KEYEVENT"}, iX : Int, iY : Int,
               iKey : {"none", "BTN_TOUCH", "KEY_HOME"}, iPressure : Int]
PostedSet == [event : CookEvents, frame : FrameSet, whole : BOOLEAN]

\* The place of an input event in its frame.
IsReport(e) == e.code = "SYN_REPORT"
Size(f) == IF f.kind = "press" THEN 4 ELSE 2
ContactOf(f) ==
  IF f.kind = "key" THEN Iev("EV_KEY", "KEY_HOME", f) ELSE Contact(f)
EventAt(f, p) ==
  IF p = Size(f) THEN Iev("EV_SYN", "SYN_REPORT", f)
  ELSE IF p = Size(f) - 1 THEN ContactOf(f)
  ELSE IF p = 1 THEN Iev("EV_ABS", "ABS_MT_POSITION_X", f)
  ELSE Iev("EV_ABS", "ABS_MT_POSITION_Y", f)
Pos(e) ==
  CASE e.code = "SYN_REPORT" -> Size(e.frame)
    [] e.code = "ABS_MT_POSITION_X" -> 1
    [] e.code = "ABS_MT_POSITION_Y" -> 2
    [] e.code \notin {"SYN_REPORT", "ABS_MT_POSITION_X", "ABS_MT_POSITION_Y"} ->
         Size(e.frame) - 1

\* An input event that device d has sent.
SentFrame(f) == f.dev \in Devices /\ f.n \in DOMAIN sent[f.dev] /\ f = sent[f.dev][f.n]
Valid(d, e) ==
  /\ e \in IevSet /\ e.frame.dev = d /\ SentFrame(e.frame)
  /\ Pos(e) \in 1 .. Size(e.frame) /\ e = EventAt(e.frame, Pos(e))
\* Neighbours in a stream, and any two of its events.
Follows(a, b) ==
  IF IsReport(a) THEN b.frame.n = a.frame.n + 1 /\ Pos(b) = 1
                 ELSE b.frame = a.frame /\ Pos(b) = Pos(a) + 1
Before(a, b) == a.frame.n <= b.frame.n /\ (IsReport(a) => a.frame.n < b.frame.n)

\* A piece of what device d sends, two pieces one after the other, and a piece
\* after which the device has sent nothing.
Chain(s) ==
  /\ \A k \in DOMAIN s : k < Len(s) => Follows(s[k], s[k + 1])
  /\ \A k \in DOMAIN s : \A j \in DOMAIN s : j < k => Before(s[j], s[k])
Stream(d, s) == s \in Seq(IevSet) /\ (\A k \in DOMAIN s : Valid(d, s[k])) /\ Chain(s)
Join(s, t) ==
  /\ \A j \in DOMAIN s : \A k \in DOMAIN t : Before(s[j], t[k])
  /\ s # <<>> /\ t # <<>> => Follows(s[Len(s)], t[1])
EndsWell(d, s) == s # <<>> => IsReport(s[Len(s)]) /\ s[Len(s)].frame.n = Len(sent[d])

\* The types, and the streams: the buffer is followed by what is unread.
device == readBuffer[1].frame.dev
SentOK ==
  /\ sent \in [Devices -> Seq(FrameSet)]
  /\ \A d \in Devices : \A n \in DOMAIN sent[d] :
       LET f == sent[d][n] IN
       f.dev = d /\ f.n = n /\ (f.kind = "key" <=> d \in KeyDevices)
UnreadOK ==
  /\ DOMAIN unread = Devices
  /\ \A d \in Devices : Stream(d, unread[d]) /\ EndsWell(d, unread[d])
BufferOK ==
  IF pc = "cook"
  THEN /\ readBuffer # <<>> /\ device \in Devices
       /\ Stream(device, readBuffer) /\ Len(readBuffer) <= capacity
       /\ Join(readBuffer, unread[device])
       /\ unread[device] = <<>> => EndsWell(device, readBuffer)
       /\ i \in 0 .. Len(readBuffer)
  ELSE pc = "wait" /\ readBuffer = <<>> /\ i = 0 /\ iRet = 0 /\ ended = <<>>
CookOK ==
  /\ cookEvent \in [1 .. iSize -> CookEvents]
  /\ iFlagPressure \in Nat
  /\ iRet \in 0 .. iSize
  /\ ended \in Seq([frame : FrameSet, whole : BOOLEAN]) /\ Len(ended) = iRet
  /\ posted \in Seq(PostedSet)

\* Reports are two events apart, so a buffer that fills the array holds one
\* event more at most, and that is no report.
LastRead == i > 0 /\ ~IsReport(readBuffer[i])
CountOK ==
  /\ 2 * iRet <= i + 1
  /\ i = 0 => iRet = 0
  /\ LastRead => 2 * iRet <= i /\ iRet < iSize
StreamInv == SentOK /\ UnreadOK /\ BufferOK /\ CookOK /\ CountOK

\* Frames end in the order in which they were sent, each once: those posted
\* come before all that is buffered or unread, and none is missing.
EndedRead ==
  \A k \in DOMAIN ended : \E j \in 1 .. i :
    IsReport(readBuffer[j]) /\ readBuffer[j].frame = ended[k].frame
EndedInOrder ==
  \A k \in DOMAIN ended : \A j \in DOMAIN ended :
    j < k => ended[j].frame.n < ended[k].frame.n
PostedBefore ==
  \A k \in DOMAIN posted :
    LET f == posted[k].frame IN
    /\ SentFrame(f)
    /\ \A j \in DOMAIN unread[f.dev] : f.n < unread[f.dev][j].frame.n
    /\ \A j \in DOMAIN readBuffer :
         readBuffer[j].frame.dev = f.dev => f.n < readBuffer[j].frame.n
PostedInOrder ==
  \A k \in DOMAIN posted, j \in DOMAIN posted :
    j < k /\ posted[j].frame.dev = posted[k].frame.dev =>
      posted[j].frame.n < posted[k].frame.n
Buffered(f) == \E j \in DOMAIN readBuffer : j > i /\ readBuffer[j] = Iev("EV_SYN", "SYN_REPORT", f)
Ended(f) == \E k \in DOMAIN ended : ended[k].frame = f
Covered ==
  \A d \in Devices : \A n \in DOMAIN sent[d] :
    LET f == sent[d][n] IN Posted(f) \/ Waits(f) \/ Buffered(f) \/ Ended(f)
OrderInv == EndedRead /\ EndedInOrder /\ PostedBefore /\ PostedInOrder /\ Covered

\* The element under construction, after the first p events of frame f, all
\* of them from this buffer.
CookedTo(e, f, p, flag) ==
  /\ f.kind = "press" =>
       /\ e.iType = "TOUCHSCREEN" /\ e.iPressure = 1 /\ e.iX = f.n /\ flag = 0
       /\ p >= 2 => e.iY = f.n
  /\ f.kind = "key" => e.iType = "KEYEVENT" /\ e.iKey = "KEY_HOME"
PartlyCooked ==
  LastRead /\ Begun(readBuffer[i].frame) =>
    CookedTo(cookEvent[iRet + 1], readBuffer[i].frame, Pos(readBuffer[i]), iFlagPressure)
CookedInv ==
  /\ PartlyCooked
  /\ \A k \in 1 .. iRet : WellCooked(Cooked(k))
  /\ WholeFramesAreCooked

\* A touch that was cooked last leaves the flag at 1, unless the device has
\* begun a touch again; the frame that follows it in the stream tells which.
FrontIsPress(d) ==
  IF pc = "cook" /\ device = d /\ i < Len(readBuffer)
  THEN readBuffer[i + 1].frame.kind = "press"
  ELSE unread[d] # <<>> /\ unread[d][1].frame.kind = "press"
Pressed(p) ==
  p.frame.kind = "press" /\ p.whole =>
    iFlagPressure = 1 \/ \E d \in TouchDevices : FrontIsPress(d)
ReleaseInv ==
  /\ \A k \in 2 .. Len(posted) : Released(posted[k - 1], posted[k])
  /\ \A k \in 2 .. iRet : Released(Cooked(k - 1), Cooked(k))
  /\ posted # <<>> /\ iRet > 0 => Released(posted[Len(posted)], Cooked(1))
  /\ iRet > 0 => Pressed(Cooked(iRet))
  /\ posted # <<>> /\ iRet = 0 => Pressed(posted[Len(posted)])
EventInv == StreamInv /\ OrderInv /\ CookedInv /\ (OneTouch => ReleaseInv)

-----------------------------------------------------------------------------
\* A device is a touchscreen or has keys.
LEMMA KindsOfDevices ==
  ASSUME NEW d \in Devices
  PROVE  d \in KeyDevices <=> d \notin TouchDevices
BY DevicesAreOfOneKind DEF Devices

\* The input events of a frame, one by one.
LEMMA EventsOf ==
  ASSUME NEW f \in FrameSet
  PROVE  /\ InputEvents(f) \in Seq(IevSet) /\ Len(InputEvents(f)) = Size(f)
         /\ DOMAIN InputEvents(f) = 1 .. Size(f)
         /\ \A p \in 1 .. Size(f) : InputEvents(f)[p] = EventAt(f, p)
<1>0. f.kind \in Kind /\ f.n \in Nat
  BY DEF FrameSet
<1> DEFINE iev1 == Iev("EV_ABS", "ABS_MT_POSITION_X", f)
           iev2 == Iev("EV_ABS", "ABS_MT_POSITION_Y", f)
           last == Iev("EV_SYN", "SYN_REPORT", f)
           key == Iev("EV_KEY", "KEY_HOME", f)
           c == Contact(f)
<1>1. /\ iev1 \in IevSet /\ iev2 \in IevSet /\ last \in IevSet /\ c \in IevSet
      /\ key \in IevSet
  BY <1>0 DEF Iev, IevSet, Contact
<1>2. CASE f.kind = "press"
  <2>1. InputEvents(f) = <<iev1, iev2, c, last>>
    BY <1>2 DEF InputEvents
  <2>2. Size(f) = 4
    BY <1>2 DEF Size
  <2>3. EventAt(f, 1) = iev1 /\ EventAt(f, 2) = iev2 /\ EventAt(f, 3) = c /\ EventAt(f, 4) = last
    BY <2>2, <1>2 DEF EventAt, ContactOf
  <2> HIDE DEF iev1, iev2, last, key, c
  <2>4. QED
    BY <2>1, <2>2, <2>3, <1>1
<1>3. CASE f.kind = "release"
  <2>1. InputEvents(f) = <<c, last>>
    BY <1>3 DEF InputEvents
  <2>2. Size(f) = 2
    BY <1>3 DEF Size
  <2>3. EventAt(f, 1) = c /\ EventAt(f, 2) = last
    BY <2>2, <1>3 DEF EventAt, ContactOf
  <2> HIDE DEF iev1, iev2, last, key, c
  <2>4. QED
    BY <2>1, <2>2, <2>3, <1>1
<1>4. CASE f.kind = "key"
  <2>1. InputEvents(f) = <<key, last>>
    BY <1>4 DEF InputEvents
  <2>2. Size(f) = 2
    BY <1>4 DEF Size
  <2>3. EventAt(f, 1) = key /\ EventAt(f, 2) = last
    BY <2>2, <1>4 DEF EventAt, ContactOf
  <2> HIDE DEF iev1, iev2, last, key, c
  <2>4. QED
    BY <2>1, <2>2, <2>3, <1>1
<1>5. QED
  BY <1>0, <1>2, <1>3, <1>4 DEF Kind

\* An input event tells its frame and its place in it.
LEMMA EventAtIs ==
  ASSUME NEW f \in FrameSet, NEW p \in 1 .. Size(f)
  PROVE  /\ EventAt(f, p).frame = f /\ EventAt(f, p) \in IevSet
         /\ Pos(EventAt(f, p)) = p
         /\ IsReport(EventAt(f, p)) <=> p = Size(f)
         /\ EventAt(f, p).value = f.n
<1>0. f.kind \in Kind /\ f.n \in Nat
  BY DEF FrameSet
<1>1. Size(f) = 4 \/ (Size(f) = 2 /\ f.kind # "press")
  BY DEF Size
<1>2. CASE p = Size(f)
  BY <1>0, <1>2, <1>1 DEF EventAt, Iev, IevSet, Pos, IsReport
<1>3. CASE p = Size(f) - 1
  <2>1. EventAt(f, p) = ContactOf(f)
    BY <1>1, <1>3 DEF EventAt
  <2>2. /\ ContactOf(f).frame = f /\ ContactOf(f) \in IevSet
        /\ ContactOf(f).code \notin {"SYN_REPORT", "ABS_MT_POSITION_X", "ABS_MT_POSITION_Y"}
        /\ ContactOf(f).value = f.n
    BY <1>0 DEF ContactOf, Contact, Iev, IevSet
  <2>3. QED
    BY <2>1, <2>2, <1>1, <1>3 DEF Pos, IsReport
<1>4. CASE p < Size(f) - 1
  <2>1. Size(f) = 4 /\ p \in {1, 2}
    BY <1>1, <1>4
  <2>2. QED
    BY <1>0, <2>1 DEF EventAt, Iev, IevSet, Pos, IsReport
<1>5. QED
  BY <1>1, <1>2, <1>3, <1>4

\* What the type and code of a valid event tell of it.
LEMMA ValidIs ==
  ASSUME SentOK, NEW d \in Devices, NEW e, Valid(d, e)
  PROVE  /\ e.frame \in FrameSet /\ e.frame.dev = d /\ e.frame.n \in 1 .. Len(sent[d])
         /\ e.frame = sent[d][e.frame.n] /\ e.value = e.frame.n
         /\ e.frame.kind = "key" <=> d \in KeyDevices
         /\ Pos(e) \in 1 .. Size(e.frame) /\ Size(e.frame) \in {2, 4}
         /\ IsReport(e) <=> Pos(e) = Size(e.frame)
         /\ IsReport(e) => e = Iev("EV_SYN", "SYN_REPORT", e.frame)
         /\ e.type = "EV_ABS" => e.frame.kind = "press" /\ Pos(e) <= 2
         /\ e.type = "EV_ABS" => \/ Pos(e) = 1 /\ e.code = "ABS_MT_POSITION_X"
                                 \/ Pos(e) = 2 /\ e.code = "ABS_MT_POSITION_Y"
         /\ e.type # "EV_ABS" => Pos(e) >= Size(e.frame) - 1
         /\ e.type = "EV_KEY" => /\ Pos(e) = Size(e.frame) - 1
                                 /\ e.frame.kind = "key" <=> e.code = "KEY_HOME"
                                 /\ e.frame.kind # "key" <=> e.code = "BTN_TOUCH"
         /\ e.type = "EV_SYN" /\ ~IsReport(e) => e.frame.kind # "key" /\ Pos(e) = Size(e.frame) - 1
         /\ e.frame.kind = "press" <=> Size(e.frame) = 4
         /\ InputEvents(e.frame)[1] = e <=> Pos(e) = 1
<1> DEFINE f == e.frame
           p == Pos(e)
<1>1. /\ f.dev = d /\ f.n \in DOMAIN sent[d] /\ f = sent[d][f.n] /\ p \in 1 .. Size(f)
      /\ e = EventAt(f, p)
  BY DEF Valid, SentFrame
<1>2. sent[d] \in Seq(FrameSet)
  BY DEF SentOK
<1>3. f \in FrameSet /\ f.n \in 1 .. Len(sent[d])
  BY <1>1, <1>2
<1>4. f.kind = "key" <=> d \in KeyDevices
  BY <1>1 DEF SentOK
<1>5. Size(f) \in {2, 4} /\ (f.kind = "press" <=> Size(f) = 4)
  BY DEF Size
<1>6. /\ IsReport(e) <=> p = Size(f)
      /\ e.value = f.n
  <2> HIDE DEF f, p
  <2>1. QED
    BY <1>1, <1>3, EventAtIs
<1>7. InputEvents(f)[1] = e <=> p = 1
  <2>1. 1 \in 1 .. Size(f)
    BY <1>5
  <2>2. InputEvents(f)[1] = EventAt(f, 1) /\ Pos(EventAt(f, 1)) = 1
    <3> HIDE DEF f, p
    <3>1. QED
      BY <2>1, <1>3, EventsOf, EventAtIs
  <2>3. QED
    BY <2>2, <1>1
<1>8. CASE p = Size(f)
  <2>1. e = Iev("EV_SYN", "SYN_REPORT", f)
    BY <1>1, <1>8 DEF EventAt
  <2>2. e.type = "EV_SYN" /\ IsReport(e)
    BY <2>1 DEF Iev, IsReport
  <2>3. QED
    BY <2>1, <2>2, <1>1, <1>3, <1>4, <1>5, <1>6, <1>7, <1>8
<1>9. CASE p = Size(f) - 1
  <2>1. e = ContactOf(f)
    BY <1>1, <1>5, <1>9 DEF EventAt
  <2>2. /\ e.type \in {"EV_KEY", "EV_SYN"}
        /\ e.type = "EV_KEY" => (f.kind = "key" <=> e.code = "KEY_HOME")
        /\ e.type = "EV_KEY" => (f.kind # "key" <=> e.code = "BTN_TOUCH")
        /\ e.type = "EV_SYN" => f.kind # "key"
    <3> HIDE DEF f
    <3>1. QED
      BY <2>1 DEF ContactOf, Contact, Iev
  <2>3. ~IsReport(e)
    BY <1>6, <1>9, <1>5
  <2>4. QED
    BY <2>2, <2>3, <1>1, <1>3, <1>4, <1>5, <1>6, <1>7, <1>9
<1>10. CASE p < Size(f) - 1
  <2>1. Size(f) = 4 /\ p \in {1, 2} /\ f.kind = "press"
    BY <1>1, <1>5, <1>10
  <2>2. /\ p = 1 => e = Iev("EV_ABS", "ABS_MT_POSITION_X", f)
        /\ p = 2 => e = Iev("EV_ABS", "ABS_MT_POSITION_Y", f)
    BY <2>1, <1>1 DEF EventAt
  <2>3. /\ e.type = "EV_ABS"
        /\ p = 1 => e.code = "ABS_MT_POSITION_X"
        /\ p = 2 => e.code = "ABS_MT_POSITION_Y"
    <3> HIDE DEF f, p
    <3>1. QED
      BY <2>2, <2>1 DEF Iev
  <2>4. ~IsReport(e)
    BY <1>6, <1>10, <1>5
  <2>5. QED
    BY <2>1, <2>3, <2>4, <1>1, <1>3, <1>4, <1>5, <1>6, <1>7
<1>11. QED
  BY <1>1, <1>5, <1>8, <1>9, <1>10

\* The input events of a frame are a chain.
LEMMA EventsChain ==
  ASSUME NEW f \in FrameSet
  PROVE  Chain(InputEvents(f))
<1> DEFINE s == InputEvents(f)
<1>1. /\ s \in Seq(IevSet) /\ Len(s) = Size(f) /\ DOMAIN s = 1 .. Size(f)
      /\ \A p \in 1 .. Size(f) : s[p] = EventAt(f, p)
  BY EventsOf
<1>2. \A p \in 1 .. Size(f) :
        s[p].frame = f /\ Pos(s[p]) = p /\ (IsReport(s[p]) <=> p = Size(f))
  BY <1>1, EventAtIs
<1>3. Size(f) \in Nat /\ f.n \in Nat
  BY DEF Size, FrameSet
<1> HIDE DEF s
<1>4. \A k \in DOMAIN s : k < Len(s) => Follows(s[k], s[k + 1])
  BY <1>1, <1>2, <1>3 DEF Follows
<1>5. \A k \in DOMAIN s : \A j \in DOMAIN s : j < k => Before(s[j], s[k])
  BY <1>1, <1>2, <1>3 DEF Before
<1>6. QED
  BY <1>4, <1>5 DEF Chain, s

\* What read takes and what it leaves are chains, one after the other.
LEMMA ChainCut ==
  ASSUME NEW s \in Seq(IevSet), Chain(s), NEW c \in 0 .. Len(s)
  PROVE  /\ Chain(SubSeq(s, 1, c)) /\ Chain(SubSeq(s, c + 1, Len(s)))
         /\ Join(SubSeq(s, 1, c), SubSeq(s, c + 1, Len(s)))
<1>1. PICK a : a = SubSeq(s, 1, c)
  OBVIOUS
<1>2. PICK b : b = SubSeq(s, c + 1, Len(s))
  OBVIOUS
<1>3. /\ a \in Seq(IevSet) /\ Len(a) = c /\ DOMAIN a = 1 .. c
      /\ \A k \in 1 .. c : a[k] = s[k]
  BY <1>1
<1>4. /\ b \in Seq(IevSet) /\ Len(b) = Len(s) - c /\ DOMAIN b = 1 .. Len(s) - c
      /\ \A k \in 1 .. Len(s) - c : b[k] = s[c + k]
  BY <1>2
<1>5. DOMAIN s = 1 .. Len(s) /\ Len(s) \in Nat /\ c \in Nat /\ c <= Len(s)
  OBVIOUS
<1>6. /\ \A k \in 1 .. Len(s) : k < Len(s) => Follows(s[k], s[k + 1])
      /\ \A k \in 1 .. Len(s) : \A j \in 1 .. Len(s) : j < k => Before(s[j], s[k])
  BY <1>5 DEF Chain
<1>7. Chain(a)
  BY <1>3, <1>5, <1>6 DEF Chain
<1>8. Chain(b)
  <2>1. \A k \in DOMAIN b : k < Len(b) => Follows(b[k], b[k + 1])
    <3>1. TAKE k \in DOMAIN b
    <3>2. HAVE k < Len(b)
    <3>3. c + k \in 1 .. Len(s) /\ c + k < Len(s) /\ k + 1 \in 1 .. Len(s) - c /\ k \in 1 .. Len(s) - c
      BY <1>4, <1>5, <3>1, <3>2
    <3>4. PICK q : q = k + 1
      OBVIOUS
    <3>5. b[k] = s[c + k] /\ b[q] = s[c + q]
      BY <1>4, <3>3, <3>4
    <3>6. c + q = (c + k) + 1
      BY <1>5, <3>3, <3>4
    <3>7. QED
      BY <1>6, <3>3, <3>4, <3>5, <3>6
  <2>2. \A k \in DOMAIN b : \A j \in DOMAIN b : j < k => Before(b[j], b[k])
    <3>1. TAKE k \in DOMAIN b
    <3>2. TAKE j \in DOMAIN b
    <3>3. HAVE j < k
    <3>4. c + k \in 1 .. Len(s) /\ c + j \in 1 .. Len(s) /\ c + j < c + k
      BY <1>4, <1>5, <3>1, <3>2, <3>3
    <3>5. b[k] = s[c + k] /\ b[j] = s[c + j]
      BY <1>4, <3>1, <3>2
    <3>6. QED
      BY <1>6, <3>4, <3>5
  <2>3. QED
    BY <2>1, <2>2 DEF Chain
<1>9. Join(a, b)
  <2>1. \A j \in DOMAIN a : \A k \in DOMAIN b : Before(a[j], b[k])
    <3>1. TAKE j \in DOMAIN a
    <3>2. TAKE k \in DOMAIN b
    <3>3. j \in 1 .. Len(s) /\ c + k \in 1 .. Len(s) /\ j < c + k
      BY <1>3, <1>4, <1>5
    <3>4. QED
      BY <1>3, <1>4, <1>6, <3>3
  <2>2. ASSUME a # <<>>, b # <<>>
        PROVE  Follows(a[Len(a)], b[1])
    <3>1. c \in 1 .. Len(s) /\ c < Len(s)
      BY <1>3, <1>4, <1>5, <2>2
    <3>2. a[Len(a)] = s[c] /\ b[1] = s[c + 1]
      BY <1>3, <1>4, <1>5, <3>1
    <3>3. QED
      BY <1>6, <3>1, <3>2
  <2>3. QED
    BY <2>1, <2>2 DEF Join
<1>10. QED
  BY <1>1, <1>2, <1>7, <1>8, <1>9

\* Two chains one after the other are a chain.
LEMMA ChainJoined ==
  ASSUME NEW s \in Seq(IevSet), NEW t \in Seq(IevSet), Chain(s), Chain(t), Join(s, t)
  PROVE  Chain(s \o t)
<1>1. PICK u : u = s \o t
  OBVIOUS
<1>2. PICK m \in Nat : m = Len(s)
  OBVIOUS
<1>3. PICK n \in Nat : n = Len(t)
  OBVIOUS
<1>4. /\ u \in Seq(IevSet) /\ Len(u) = m + n /\ DOMAIN u = 1 .. m + n
      /\ \A k \in 1 .. m : u[k] = s[k]
      /\ \A k \in m + 1 .. m + n : u[k] = t[k - m]
  BY <1>1, <1>2, <1>3
<1>5. DOMAIN s = 1 .. m /\ DOMAIN t = 1 .. n
  BY <1>2, <1>3
<1>6. /\ \A k \in 1 .. m : k < m => Follows(s[k], s[k + 1])
      /\ \A k \in 1 .. m : \A j \in 1 .. m : j < k => Before(s[j], s[k])
      /\ \A k \in 1 .. n : k < n => Follows(t[k], t[k + 1])
      /\ \A k \in 1 .. n : \A j \in 1 .. n : j < k => Before(t[j], t[k])
      /\ \A j \in 1 .. m : \A k \in 1 .. n : Before(s[j], t[k])
  BY <1>5, <1>2, <1>3 DEF Chain, Join
<1>7. m > 0 /\ n > 0 => Follows(s[m], t[1])
  BY <1>2, <1>3 DEF Join
<1>8. ASSUME NEW k \in DOMAIN u, k < Len(u)
      PROVE  Follows(u[k], u[k + 1])
  <2>0. k \in Nat /\ k >= 1 /\ k < m + n
    BY <1>4, <1>8
  <2>1. CASE k < m
    BY <2>0, <2>1, <1>4, <1>6
  <2>2. CASE k = m
    <3>1. u[k] = s[m] /\ k + 1 \in m + 1 .. m + n
      BY <2>0, <2>2, <1>4
    <3>2. u[k + 1] = t[1] /\ n > 0
      BY <2>0, <2>2, <1>4, <3>1
    <3>3. QED
      BY <1>7, <2>0, <2>2, <3>1, <3>2
  <2>3. CASE k > m
    <3>1. k - m \in 1 .. n /\ k - m < n /\ (k + 1) - m = (k - m) + 1
      BY <2>0, <2>3
    <3>2. PICK q : q = k + 1
      OBVIOUS
    <3>3. u[k] = t[k - m] /\ u[q] = t[q - m]
      BY <2>0, <2>3, <1>4, <3>2
    <3>4. QED
      BY <1>6, <3>1, <3>2, <3>3
  <2>4. QED
    BY <2>0, <2>1, <2>2, <2>3
<1>9. ASSUME NEW k \in DOMAIN u, NEW j \in DOMAIN u, j < k
      PROVE  Before(u[j], u[k])
  <2>0. k \in 1 .. m + n /\ j \in 1 .. m + n
    BY <1>4
  <2>1. CASE k <= m
    BY <2>0, <2>1, <1>9, <1>4, <1>6
  <2>2. CASE k > m /\ j <= m
    <3>1. k - m \in 1 .. n /\ j \in 1 .. m
      BY <2>0, <2>2
    <3>2. QED
      BY <2>0, <2>2, <3>1, <1>4, <1>6
  <2>3. CASE j > m
    <3>1. k - m \in 1 .. n /\ j - m \in 1 .. n /\ j - m < k - m
      BY <2>0, <2>3, <1>9
    <3>2. u[k] = t[k - m] /\ u[j] = t[j - m]
      BY <2>0, <2>3, <1>9, <1>4
    <3>3. QED
      BY <1>6, <3>1, <3>2
  <2>4. QED
    BY <2>0, <2>1, <2>2, <2>3
<1>10. QED
  BY <1>1, <1>8, <1>9 DEF Chain

\* What comes after a buffer still does when more is sent.
LEMMA JoinLonger ==
  ASSUME NEW b \in Seq(IevSet), NEW s \in Seq(IevSet), NEW t \in Seq(IevSet),
         Join(b, s), \A j \in DOMAIN b : \A k \in DOMAIN t : Before(b[j], t[k]),
         s = <<>> => Join(b, t)
  PROVE  Join(b, s \o t)
<1>1. PICK u : u = s \o t
  OBVIOUS
<1>2. PICK m \in Nat : m = Len(s)
  OBVIOUS
<1>3. PICK n \in Nat : n = Len(t)
  OBVIOUS
<1>4. /\ DOMAIN u = 1 .. m + n
      /\ \A k \in 1 .. m : u[k] = s[k]
      /\ \A k \in m + 1 .. m + n : u[k] = t[k - m]
  BY <1>1, <1>2, <1>3
<1>5. DOMAIN s = 1 .. m /\ DOMAIN t = 1 .. n
  BY <1>2, <1>3
<1>6. \A j \in DOMAIN b : \A k \in DOMAIN u : Before(b[j], u[k])
  <2>1. TAKE j \in DOMAIN b
  <2>2. TAKE k \in DOMAIN u
  <2>3. CASE k <= m
    BY <2>3, <1>4, <1>5 DEF Join
  <2>4. CASE k > m
    <3>1. k - m \in 1 .. n
      BY <2>4, <1>4
    <3>2. QED
      BY <2>4, <3>1, <1>4, <1>5
  <2>5. QED
    BY <2>3, <2>4, <1>4
<1>7. CASE s # <<>>
  <2>1. m > 0
    BY <1>2, <1>7
  <2>2. u[1] = s[1]
    BY <2>1, <1>4
  <2>3. QED
    BY <1>1, <1>6, <1>7, <2>2 DEF Join
<1>8. CASE s = <<>>
  <2>1. s \o t = t
    BY <1>8
  <2>2. QED
    BY <1>8, <2>1
<1>9. QED
  BY <1>7, <1>8
-----------------------------------------------------------------------------
\* The invariant holds at the start.
LEMMA InitEvents == Init => EventInv
<1> SUFFICES ASSUME Init PROVE EventInv
  OBVIOUS
<1>0. iSize \in Nat \ {0}
  BY ArrayHoldsARead
<1>1. SentOK
  BY DEF Init, SentOK
<1>2. UnreadOK
  <2>1. \A d \in Devices : unread[d] = <<>>
    BY DEF Init
  <2>2. \A d \in Devices : Chain(unread[d])
    BY <2>1 DEF Chain
  <2>3. ASSUME NEW d \in Devices
        PROVE  Stream(d, unread[d]) /\ EndsWell(d, unread[d])
    <3>1. unread[d] = <<>> /\ DOMAIN unread[d] = {}
      BY <2>1
    <3>2. unread[d] \in Seq(IevSet)
      BY <3>1
    <3>3. QED
      BY <3>1, <3>2, <2>2 DEF Stream, EndsWell
  <2>4. QED
    BY <2>3 DEF UnreadOK, Init
<1>3. BufferOK
  BY DEF Init, BufferOK
<1>4. CookOK
  <2>1. JunkEvent \in CookEvents
    BY DEF JunkEvent, CookEvents, Junk
  <2>2. cookEvent \in [1 .. iSize -> CookEvents]
    BY <2>1 DEF Init
  <2>3. ended \in Seq([frame : FrameSet, whole : BOOLEAN]) /\ Len(ended) = 0
    BY DEF Init
  <2>4. posted \in Seq(PostedSet)
    BY DEF Init
  <2>5. QED
    BY <1>0, <2>2, <2>3, <2>4 DEF Init, CookOK
<1>5. CountOK
  BY DEF Init, CountOK, LastRead
<1>6. DOMAIN posted = {} /\ DOMAIN ended = {} /\ (\A d \in Devices : DOMAIN sent[d] = {})
  BY DEF Init
<1>7. OrderInv
  <2>1. EndedRead /\ EndedInOrder
    BY <1>6 DEF EndedRead, EndedInOrder
  <2>2. PostedBefore /\ PostedInOrder
    BY <1>6 DEF PostedBefore, PostedInOrder
  <2>3. Covered
    BY <1>6 DEF Covered
  <2>4. QED
    BY <2>1, <2>2, <2>3 DEF OrderInv
<1>8. CookedInv
  <2>1. i = 0 /\ iRet = 0
    BY DEF Init
  <2>2. PartlyCooked
    BY <2>1 DEF PartlyCooked, LastRead
  <2>3. WholeFramesAreCooked
    BY <1>6 DEF WholeFramesAreCooked
  <2>4. QED
    BY <2>1, <2>2, <2>3 DEF CookedInv
<1>9. ReleaseInv
  <2>1. posted = <<>> /\ Len(posted) = 0 /\ iRet = 0
    BY DEF Init
  <2>2. QED
    BY <2>1 DEF ReleaseInv
<1>10. QED
  BY <1>1, <1>2, <1>3, <1>4, <1>5, <1>7, <1>8, <1>9 DEF EventInv, StreamInv

\* An input event of a frame that stays sent stays valid.
LEMMA StaysValid ==
  ASSUME NEW d \in Devices, NEW e, Valid(d, e), e.frame \in FrameSet,
         SentFrame(e.frame) => SentFrame(e.frame)'
  PROVE  Valid(d, e)'
BY DEF Valid

\* What is unread of a device.
LEMMA UnreadSent ==
  ASSUME SentOK, UnreadOK, NEW d \in Devices
  PROVE  /\ unread[d] \in Seq(IevSet) /\ Chain(unread[d])
         /\ \A k \in DOMAIN unread[d] :
              /\ Valid(d, unread[d][k]) /\ unread[d][k].frame \in FrameSet
              /\ unread[d][k].frame.n \in 1 .. Len(sent[d])
<1>1. Stream(d, unread[d])
  BY DEF UnreadOK
<1>2. QED
  BY <1>1, ValidIs DEF Stream

\* What process has in its buffer.
LEMMA BufferSent ==
  ASSUME StreamInv, pc = "cook"
  PROVE  /\ readBuffer \in Seq(IevSet) /\ Chain(readBuffer) /\ readBuffer # <<>>
         /\ device \in Devices /\ i \in 0 .. Len(readBuffer)
         /\ \A k \in DOMAIN readBuffer :
              /\ Valid(device, readBuffer[k]) /\ readBuffer[k].frame \in FrameSet
              /\ readBuffer[k].frame.n \in 1 .. Len(sent[device])
              /\ readBuffer[k].frame.dev = device
<1>1. Stream(device, readBuffer) /\ device \in Devices /\ SentOK
      /\ readBuffer # <<>> /\ i \in 0 .. Len(readBuffer)
  BY DEF StreamInv, BufferOK
<1>2. PICK D : D = device
  OBVIOUS
<1>3. \A k \in DOMAIN readBuffer : Valid(D, readBuffer[k])
  BY <1>1, <1>2 DEF Stream
<1>4. \A k \in DOMAIN readBuffer :
        /\ readBuffer[k].frame \in FrameSet
        /\ readBuffer[k].frame.n \in 1 .. Len(sent[D])
        /\ readBuffer[k].frame.dev = D
  BY <1>1, <1>2, <1>3, ValidIs
<1>5. QED
  BY <1>1, <1>2, <1>3, <1>4 DEF Stream

-----------------------------------------------------------------------------
\* Send adds one frame, with its input events.
LEMMA SendOne ==
  ASSUME SentOK, UnreadOK, NEW d \in Devices, Send(d)
  PROVE  \E f \in FrameSet :
           /\ f.dev = d /\ f.n = Len(sent[d]) + 1
           /\ f.kind = "key" <=> d \in KeyDevices
           /\ sent' = [sent EXCEPT ![d] = Append(@, f)]
           /\ unread' = [unread EXCEPT ![d] = @ \o InputEvents(f)]
           /\ UNCHANGED <<processVars, cookEvent, iFlagPressure, posted>>
<1>1. PICK kind \in Kinds(d) :
        /\ sent' = [sent EXCEPT ![d] = Append(@, Frame(d, kind))]
        /\ unread' = [unread EXCEPT ![d] = @ \o InputEvents(Frame(d, kind))]
        /\ UNCHANGED <<processVars, cookEvent, iFlagPressure, posted>>
  BY DEF Send
<1>2. kind \in Kind /\ (kind = "key" <=> d \in KeyDevices)
  BY DEF Kinds, Kind
<1>3. sent[d] \in Seq(FrameSet) /\ Len(sent[d]) \in Nat
  BY DEF SentOK
<1>4. /\ Frame(d, kind) \in FrameSet /\ Frame(d, kind).dev = d
      /\ Frame(d, kind).n = Len(sent[d]) + 1 /\ Frame(d, kind).kind = kind
  BY <1>2, <1>3 DEF Frame, FrameSet
<1> HIDE DEF Frame
<1>5. QED
  BY <1>1, <1>2, <1>4

\* Send: the new frame follows the last one, in the unread events or, if there
\* are none, in the buffer, and waits there.
LEMMA SendStreams ==
  ASSUME EventInv, NEW d \in Devices, Send(d)
  PROVE  StreamInv' /\ OrderInv'
<1>0. SentOK /\ UnreadOK /\ BufferOK /\ CookOK /\ CountOK /\ OrderInv
  BY DEF EventInv, StreamInv
<1>1. PICK f \in FrameSet :
        /\ f.dev = d /\ f.n = Len(sent[d]) + 1
        /\ f.kind = "key" <=> d \in KeyDevices
        /\ sent' = [sent EXCEPT ![d] = Append(@, f)]
        /\ unread' = [unread EXCEPT ![d] = @ \o InputEvents(f)]
        /\ UNCHANGED <<processVars, cookEvent, iFlagPressure, posted>>
  BY <1>0, SendOne
<1>2. /\ pc' = pc /\ readBuffer' = readBuffer /\ i' = i /\ iRet' = iRet /\ ended' = ended
      /\ cookEvent' = cookEvent /\ iFlagPressure' = iFlagPressure /\ posted' = posted
  BY <1>1 DEF processVars
<1>3. PICK s : s = InputEvents(f)
  OBVIOUS
<1>4. /\ s \in Seq(IevSet) /\ Len(s) = Size(f) /\ DOMAIN s = 1 .. Size(f)
      /\ \A p \in 1 .. Size(f) : s[p] = EventAt(f, p)
      /\ Chain(s)
  BY <1>3, EventsOf, EventsChain
<1>5. Size(f) \in {2, 4}
  BY DEF Size
<1>6. \A p \in 1 .. Size(f) :
        /\ s[p].frame = f /\ s[p] \in IevSet /\ Pos(s[p]) = p
        /\ IsReport(s[p]) <=> p = Size(f)
  BY <1>4, EventAtIs
<1>7. sent \in [Devices -> Seq(FrameSet)] /\ DOMAIN unread = Devices
  BY <1>0 DEF SentOK, UnreadOK
<1>7a. PICK S, U, B, P : S = sent' /\ U = unread' /\ B = readBuffer /\ P = posted
  OBVIOUS
<1>8. \A c \in Devices : c # d => S[c] = sent[c] /\ U[c] = unread[c]
  BY <1>7a, <1>1, <1>7
<1>9. S[d] = Append(sent[d], f) /\ U[d] = unread[d] \o s
  BY <1>7a, <1>1, <1>3, <1>7
<1>10. PICK n \in Nat : n = Len(sent[d])
  BY <1>7
<1>11. /\ Len(S[d]) = n + 1 /\ DOMAIN S[d] = 1 .. n + 1 /\ S[d][n + 1] = f
       /\ DOMAIN sent[d] = 1 .. n
       /\ \A k \in 1 .. n : S[d][k] = sent[d][k]
  BY <1>7, <1>9, <1>10
<1>12. f.n = n + 1
  BY <1>1, <1>10
<1>13. SentOK'
  <2>1. sent' \in [Devices -> Seq(FrameSet)]
    BY <1>1, <1>7
  <2>2. ASSUME NEW c \in Devices, NEW k \in DOMAIN S[c]
        PROVE  LET g == S[c][k] IN
               g.dev = c /\ g.n = k /\ (g.kind = "key" <=> c \in KeyDevices)
    <3>1. CASE c # d
      BY <1>0, <1>8, <2>2, <3>1 DEF SentOK
    <3>2. CASE c = d /\ k = n + 1
      BY <1>1, <1>11, <1>12, <3>2
    <3>3. CASE c = d /\ k \in 1 .. n
      BY <1>0, <1>11, <3>3 DEF SentOK
    <3>4. QED
      BY <1>11, <2>2, <3>1, <3>2, <3>3
  <2>3. QED
    BY <1>7a, <2>1, <2>2 DEF SentOK
<1>14. \A g : SentFrame(g) => SentFrame(g)'
  <2>1. TAKE g
  <2>2. HAVE SentFrame(g)
  <2>3. CASE g.dev = d
    BY <1>7a, <2>2, <2>3, <1>11 DEF SentFrame
  <2>4. CASE g.dev # d
    BY <1>7a, <2>2, <2>4, <1>8 DEF SentFrame
  <2>5. QED
    BY <2>3, <2>4
<1>15. SentFrame(f)'
  BY <1>7a, <1>1, <1>11, <1>12 DEF SentFrame
<1>16. \A p \in DOMAIN s : Valid(d, s[p])'
  <2>1. TAKE p \in DOMAIN s
  <2>2. /\ s[p] \in IevSet /\ s[p].frame = f /\ Pos(s[p]) = p /\ p \in 1 .. Size(f)
        /\ s[p] = EventAt(f, p)
    BY <1>4, <1>6
  <2>3. QED
    BY <2>2, <1>1, <1>15 DEF Valid
<1>17. PICK m \in Nat : m = Len(unread[d])
  BY <1>0, UnreadSent
<1>18. /\ unread[d] \in Seq(IevSet) /\ Chain(unread[d])
       /\ \A k \in 1 .. m : /\ Valid(d, unread[d][k]) /\ unread[d][k].frame \in FrameSet
                            /\ unread[d][k].frame.n \in 1 .. n
       /\ DOMAIN unread[d] = 1 .. m
  BY <1>0, <1>10, <1>17, UnreadSent
<1>19. /\ U[d] \in Seq(IevSet) /\ Len(U[d]) = m + Size(f)
       /\ DOMAIN U[d] = 1 .. m + Size(f)
       /\ \A k \in 1 .. m : U[d][k] = unread[d][k]
       /\ \A k \in m + 1 .. m + Size(f) : U[d][k] = s[k - m]
  BY <1>4, <1>5, <1>9, <1>17, <1>18
<1>20. Join(unread[d], s)
  <2>1. \A j \in DOMAIN unread[d] : \A k \in DOMAIN s : Before(unread[d][j], s[k])
    <3>1. TAKE j \in DOMAIN unread[d]
    <3>2. TAKE k \in DOMAIN s
    <3>3. unread[d][j].frame.n \in 1 .. n /\ s[k].frame = f
      BY <1>18, <1>4, <1>6
    <3>4. QED
      BY <3>3, <1>12 DEF Before
  <2>2. ASSUME unread[d] # <<>>
        PROVE  Follows(unread[d][Len(unread[d])], s[1])
    <3>1. IsReport(unread[d][m]) /\ unread[d][m].frame.n = n
      BY <2>2, <1>0, <1>10, <1>17 DEF UnreadOK, EndsWell
    <3>2. Pos(s[1]) = 1 /\ s[1].frame = f
      BY <1>5, <1>6
    <3>3. QED
      BY <3>1, <3>2, <1>12, <1>17 DEF Follows
  <2>3. QED
    BY <2>1, <2>2 DEF Join
<1>21. Chain(U[d])
  BY <1>4, <1>9, <1>18, <1>20, ChainJoined
<1>22. Stream(d, U[d])'
  <2>1. ASSUME NEW k \in DOMAIN U[d]
        PROVE  Valid(d, U[d][k])'
    <3>1. CASE k <= m
      <4>1. PICK e : e = U[d][k]
        OBVIOUS
      <4>2. k \in 1 .. m /\ e = unread[d][k]
        BY <1>19, <2>1, <3>1, <4>1
      <4>3. Valid(d, e) /\ e.frame \in FrameSet
        BY <1>18, <4>2
      <4>4. QED
        BY <4>1, <4>3, <1>14, StaysValid
    <3>2. CASE k > m
      <4>1. k - m \in DOMAIN s /\ U[d][k] = s[k - m]
        BY <1>4, <1>5, <1>19, <2>1, <3>2
      <4>2. PICK p : p = k - m
        OBVIOUS
      <4>3. QED
        BY <4>1, <4>2, <1>16
    <3>3. QED
      BY <2>1, <1>19, <1>5, <3>1, <3>2
  <2>2. QED
    BY <2>1, <1>19, <1>21 DEF Stream
<1>23. EndsWell(d, U[d])'
  <2>1. m + Size(f) \in m + 1 .. m + Size(f) /\ (m + Size(f)) - m = Size(f) /\ Size(f) \in 1 .. Size(f)
    BY <1>5
  <2>2. U[d][m + Size(f)] = s[Size(f)]
    BY <1>19, <2>1
  <2>3. IsReport(s[Size(f)]) /\ s[Size(f)].frame = f
    BY <1>6, <2>1
  <2>4. QED
    BY <1>7a, <2>2, <2>3, <1>11, <1>12, <1>19 DEF EndsWell
<1>24. UnreadOK'
  <2>1. ASSUME NEW c \in Devices, c # d
        PROVE  Stream(c, U[c])' /\ EndsWell(c, U[c])'
    <3>1. U[c] = unread[c] /\ S[c] = sent[c]
      BY <1>8, <2>1
    <3>2. Stream(c, unread[c]) /\ EndsWell(c, unread[c])
      BY <1>0 DEF UnreadOK
    <3>3. PICK u : u = U[c]
      OBVIOUS
    <3>4. \A k \in DOMAIN u : Valid(c, u[k]) /\ u[k].frame \in FrameSet
      BY <3>1, <3>3, <1>0, UnreadSent
    <3>5. \A k \in DOMAIN u : Valid(c, u[k])'
      BY <3>4, <1>14, StaysValid
    <3>6. Stream(c, u)'
      BY <3>1, <3>2, <3>3, <3>5 DEF Stream
    <3>7. EndsWell(c, u)'
      BY <1>7a, <3>1, <3>2, <3>3 DEF EndsWell
    <3>8. QED
      BY <3>3, <3>6, <3>7
  <2>2. DOMAIN unread' = Devices
    BY <1>1, <1>7
  <2>3. QED
    BY <1>7a, <1>22, <1>23, <2>1, <2>2 DEF UnreadOK
<1>25. BufferOK'
  <2>1. CASE pc = "wait"
    BY <2>1, <1>0, <1>2 DEF BufferOK
  <2>2. CASE pc = "cook"
    <3>1. PICK D : D = device
      OBVIOUS
    <3>2. device' = D
      BY <1>7a, <1>2, <3>1 DEF device
    <3>3. /\ B \in Seq(IevSet) /\ Chain(B) /\ B # <<>>
          /\ D \in Devices /\ i \in 0 .. Len(B)
          /\ \A k \in DOMAIN B :
               /\ Valid(D, B[k]) /\ B[k].frame \in FrameSet
               /\ B[k].frame.n \in 1 .. Len(sent[D])
      BY <1>7a, <1>0, <2>2, <3>1, BufferSent DEF StreamInv
    <3>4. \A k \in DOMAIN B : Valid(D, B[k])'
      BY <3>3, <1>14, StaysValid
    <3>5. Stream(D, B)'
      BY <3>3, <3>4 DEF Stream
    <3>6. /\ Join(B, unread[D]) /\ Len(B) <= capacity
          /\ unread[D] = <<>> => EndsWell(D, B)
      BY <1>7a, <1>0, <2>2, <3>1 DEF BufferOK
    <3>7. Join(B, U[D]) /\ (U[D] = <<>> => EndsWell(D, B)')
      <4>1. CASE D # d
        <5>1. U[D] = unread[D] /\ S[D] = sent[D]
          BY <1>8, <3>3, <4>1
        <5>2. QED
          BY <1>7a, <5>1, <3>6 DEF EndsWell
      <4>2. CASE D = d
        <5>1. \A j \in DOMAIN B : \A k \in DOMAIN s : Before(B[j], s[k])
          <6>1. TAKE j \in DOMAIN B
          <6>2. TAKE k \in DOMAIN s
          <6>3. B[j].frame.n \in 1 .. n /\ s[k].frame = f
            BY <3>3, <4>2, <1>10, <1>4, <1>6
          <6>4. QED
            BY <6>3, <1>12 DEF Before
        <5>2. ASSUME unread[d] = <<>>
              PROVE  Join(B, s)
          <6>1. IsReport(B[Len(B)])
                /\ B[Len(B)].frame.n = n
            BY <5>2, <3>6, <3>3, <4>2, <1>10 DEF EndsWell
          <6>2. Pos(s[1]) = 1 /\ s[1].frame = f
            BY <1>5, <1>6
          <6>3. Follows(B[Len(B)], s[1])
            BY <6>1, <6>2, <1>12 DEF Follows
          <6>4. QED
            BY <5>1, <6>3 DEF Join
        <5>3. Join(B, U[d])
          BY <1>4, <1>9, <1>18, <3>3, <3>6, <4>2, <5>1, <5>2, JoinLonger
        <5>4. U[d] # <<>>
          <6>1. 1 \in DOMAIN U[d]
            BY <1>5, <1>19
          <6>2. QED
            BY <6>1
        <5>5. QED
          BY <5>3, <5>4, <4>2
      <4>3. QED
        BY <4>1, <4>2
    <3>8. QED
      BY <1>7a, <1>2, <2>2, <3>2, <3>3, <3>5, <3>6, <3>7 DEF BufferOK
  <2>3. QED
    BY <2>1, <2>2, <1>0 DEF BufferOK
<1>26. CookOK' /\ CountOK'
  BY <1>0, <1>2 DEF CookOK, CountOK, LastRead
<1>27. EndedRead' /\ EndedInOrder' /\ PostedInOrder'
  BY <1>0, <1>2 DEF OrderInv, EndedRead, EndedInOrder, PostedInOrder
<1>28. PostedBefore'
  <2>1. ASSUME NEW k \in DOMAIN P
        PROVE  LET g == P[k].frame IN
               /\ SentFrame(g)'
               /\ \A j \in DOMAIN U[g.dev] : g.n < U[g.dev][j].frame.n
               /\ \A j \in DOMAIN B :
                    B[j].frame.dev = g.dev => g.n < B[j].frame.n
    <3>1. PICK g : g = P[k].frame
      OBVIOUS
    <3>2. /\ SentFrame(g)
          /\ \A j \in DOMAIN unread[g.dev] : g.n < unread[g.dev][j].frame.n
          /\ \A j \in DOMAIN B :
               B[j].frame.dev = g.dev => g.n < B[j].frame.n
      BY <1>7a, <1>0, <2>1, <3>1 DEF OrderInv, PostedBefore
    <3>3. \A j \in DOMAIN U[g.dev] : g.n < U[g.dev][j].frame.n
      <4>1. CASE g.dev = d
        <5>1. g.n \in 1 .. n
          BY <3>2, <4>1, <1>11 DEF SentFrame
        <5>2. TAKE j \in DOMAIN U[g.dev]
        <5>3. CASE j <= m
          BY <3>2, <4>1, <5>2, <5>3, <1>18, <1>19
        <5>4. CASE j > m
          <6>1. j - m \in 1 .. Size(f) /\ U[d][j] = s[j - m]
            BY <4>1, <5>2, <5>4, <1>19, <1>5
          <6>2. QED
            BY <6>1, <1>6, <1>12, <5>1, <4>1
        <5>5. QED
          BY <5>3, <5>4, <5>2, <4>1, <1>19, <1>5
      <4>2. CASE g.dev # d
        BY <3>2, <4>2, <1>8 DEF SentFrame
      <4>3. QED
        BY <4>1, <4>2
    <3>4. QED
      BY <3>1, <3>2, <3>3, <1>14
  <2>2. QED
    BY <1>7a, <2>1, <1>2 DEF PostedBefore
<1>29. Covered'
  <2>1. ASSUME NEW c \in Devices, NEW k \in DOMAIN S[c]
        PROVE  LET g == S[c][k] IN Posted(g)' \/ Waits(g)' \/ Buffered(g)' \/ Ended(g)'
    <3>0. PICK g : g = S[c][k]
      OBVIOUS
    <3>1. CASE c = d /\ k = n + 1
      <4>1. m + Size(f) \in m + 1 .. m + Size(f) /\ (m + Size(f)) - m = Size(f) /\ Size(f) \in 1 .. Size(f)
        BY <1>5
      <4>2. U[d][m + Size(f)] = EventAt(f, Size(f)) /\ m + Size(f) \in DOMAIN U[d]
        BY <1>19, <1>4, <4>1
      <4>3. U[d][m + Size(f)] = Iev("EV_SYN", "SYN_REPORT", f)
        BY <4>2 DEF EventAt
      <4>4. Waits(f)'
        BY <1>7a, <4>2, <4>3, <1>1 DEF Waits
      <4>5. QED
        BY <4>4, <3>0, <3>1, <1>11
    <3>2. CASE ~(c = d /\ k = n + 1)
      <4>1. c = d => k \in 1 .. n
        BY <3>2, <2>1, <1>11
      <4>2. k \in DOMAIN sent[c] /\ g = sent[c][k]
        BY <3>0, <4>1, <2>1, <1>8, <1>11
      <4>3. g.dev = c
        BY <4>2, <1>0 DEF SentOK
      <4>4. Posted(g) \/ Waits(g) \/ Buffered(g) \/ Ended(g)
        BY <4>2, <1>0 DEF OrderInv, Covered
      <4>5. Posted(g) => Posted(g)'
        BY <1>2 DEF Posted
      <4>6. Buffered(g) => Buffered(g)'
        BY <1>2 DEF Buffered
      <4>7. Ended(g) => Ended(g)'
        BY <1>2 DEF Ended
      <4>8. Waits(g) => Waits(g)'
        <5>1. ASSUME Waits(g) PROVE Waits(g)'
          <6>1. PICK j \in DOMAIN unread[c] : unread[c][j] = Iev("EV_SYN", "SYN_REPORT", g)
            BY <5>1, <4>3 DEF Waits
          <6>2. j \in DOMAIN U[c] /\ U[c][j] = unread[c][j]
            BY <6>1, <1>8, <1>18, <1>19, <1>5
          <6>3. QED
            BY <1>7a, <6>1, <6>2, <4>3 DEF Waits
        <5>2. QED
          BY <5>1
      <4>9. QED
        BY <3>0, <4>4, <4>5, <4>6, <4>7, <4>8
    <3>3. QED
      BY <3>1, <3>2
  <2>2. QED
    BY <1>7a, <2>1 DEF Covered
<1>30. QED
  BY <1>13, <1>24, <1>25, <1>26, <1>27, <1>28, <1>29 DEF StreamInv, OrderInv

\* ReleaseInv holds after a step that ends no event and posts none.
LEMMA ReleaseKept ==
  ASSUME ReleaseInv, posted' = posted, iRet' = iRet, iRet \in Nat,
         \A k \in 1 .. iRet : Cooked(k)' = Cooked(k),
         \A p : Pressed(p) => Pressed(p)'
  PROVE  ReleaseInv'
<1>1. \A k \in 2 .. Len(posted) : Released(posted[k - 1], posted[k])
  BY DEF ReleaseInv
<1>2. PICK P : P = posted
  OBVIOUS
<1>3. \A k \in 2 .. iRet : Released(Cooked(k - 1)', Cooked(k)')
  <2>1. TAKE k \in 2 .. iRet
  <2>2. PICK j : j = k - 1
    OBVIOUS
  <2>3. j \in 1 .. iRet /\ k \in 1 .. iRet
    BY <2>2
  <2>4. Cooked(j)' = Cooked(j) /\ Cooked(k)' = Cooked(k)
    BY <2>3
  <2>5. Released(Cooked(j), Cooked(k))
    BY <2>2 DEF ReleaseInv
  <2>6. QED
    BY <2>2, <2>4, <2>5
<1>4. P # <<>> /\ iRet > 0 => Released(P[Len(P)], Cooked(1)')
  BY <1>2 DEF ReleaseInv
<1>5. iRet > 0 => Pressed(Cooked(iRet))'
  <2>1. PICK n : n = iRet
    OBVIOUS
  <2>2. ASSUME n > 0
        PROVE  Pressed(Cooked(n))'
    <3>1. n \in 1 .. iRet
      BY <2>1, <2>2
    <3>2. PICK p : p = Cooked(n)
      OBVIOUS
    <3>3. Cooked(n)' = p
      BY <3>1, <3>2
    <3>4. Pressed(p)
      BY <2>1, <2>2, <3>2 DEF ReleaseInv
    <3>5. Pressed(p)'
      BY <3>4
    <3>6. QED
      BY <3>3, <3>5
  <2>3. QED
    BY <2>1, <2>2
<1>6. P # <<>> /\ iRet = 0 => Pressed(P[Len(P)])'
  BY <1>2 DEF ReleaseInv
<1>7. QED
  BY <1>1, <1>2, <1>3, <1>4, <1>5, <1>6 DEF ReleaseInv

\* A touch that was pressed stays so while the flag and the next frame do.
LEMMA PressedKept ==
  ASSUME iFlagPressure' = iFlagPressure,
         \A d \in TouchDevices : FrontIsPress(d) => FrontIsPress(d)'
  PROVE  \A p : Pressed(p) => Pressed(p)'
BY DEF Pressed

\* CookedInv is about the variables of process.
LEMMA CookedKept ==
  ASSUME CookedInv,
         UNCHANGED <<readBuffer, i, iRet, ended, cookEvent, iFlagPressure, posted>>
  PROVE  CookedInv' /\ \A k \in 1 .. iRet : Cooked(k)' = Cooked(k)
<1>1. \A k : Cooked(k)' = Cooked(k)
  BY DEF Cooked
<1>2. PartlyCooked'
  BY DEF CookedInv, PartlyCooked, LastRead, Begun
<1>3. WholeFramesAreCooked'
  BY DEF CookedInv, WholeFramesAreCooked
<1>4. (\A k \in 1 .. iRet : WellCooked(Cooked(k)))'
  BY <1>1 DEF CookedInv
<1>5. QED
  BY <1>1, <1>2, <1>3, <1>4 DEF CookedInv

\* Send: the events so far are untouched, and no first frame changes.
LEMMA SendKeeps ==
  ASSUME EventInv, NEW d \in Devices, Send(d)
  PROVE  CookedInv' /\ (OneTouch => ReleaseInv')
<1>0. SentOK /\ UnreadOK /\ CookOK /\ CookedInv /\ (OneTouch => ReleaseInv)
  BY DEF EventInv, StreamInv
<1>1. PICK f \in FrameSet :
        /\ f.dev = d /\ f.n = Len(sent[d]) + 1
        /\ f.kind = "key" <=> d \in KeyDevices
        /\ sent' = [sent EXCEPT ![d] = Append(@, f)]
        /\ unread' = [unread EXCEPT ![d] = @ \o InputEvents(f)]
        /\ UNCHANGED <<processVars, cookEvent, iFlagPressure, posted>>
  BY <1>0, SendOne
<1>2. /\ pc' = pc /\ readBuffer' = readBuffer /\ i' = i /\ iRet' = iRet /\ ended' = ended
      /\ cookEvent' = cookEvent /\ iFlagPressure' = iFlagPressure /\ posted' = posted
  BY <1>1 DEF processVars
<1>3. CookedInv' /\ \A k \in 1 .. iRet : Cooked(k)' = Cooked(k)
  BY <1>0, <1>2, CookedKept
<1>4. device' = device
  BY <1>2 DEF device
<1>5. ASSUME NEW c \in TouchDevices, FrontIsPress(c)
      PROVE  FrontIsPress(c)'
  <2>1. CASE pc = "cook" /\ device = c /\ i < Len(readBuffer)
    BY <1>2, <1>4, <1>5, <2>1 DEF FrontIsPress
  <2>2. CASE ~(pc = "cook" /\ device = c /\ i < Len(readBuffer))
    <3>1. unread[c] # <<>> /\ unread[c][1].frame.kind = "press"
      BY <1>5, <2>2 DEF FrontIsPress
    <3>2. unread[c] \in Seq(IevSet) /\ InputEvents(f) \in Seq(IevSet) /\ c \in Devices
      BY <1>0, UnreadSent, EventsOf DEF Devices
    <3>3. unread'[c] = unread[c] \/ unread'[c] = unread[c] \o InputEvents(f)
      BY <1>0, <1>1, <3>2 DEF UnreadOK
    <3>4. Len(unread[c]) > 0
      BY <3>1, <3>2
    <3>5. unread'[c] # <<>> /\ unread'[c][1] = unread[c][1]
      BY <3>2, <3>3, <3>4
    <3>6. QED
      BY <1>2, <1>4, <2>2, <3>1, <3>5 DEF FrontIsPress
  <2>3. QED
    BY <2>1, <2>2
<1>6. \A p : Pressed(p) => Pressed(p)'
  BY <1>2, <1>5, PressedKept
<1>7. iRet \in Nat
  BY <1>0, ArrayHoldsARead DEF CookOK
<1>8. QED
  BY <1>0, <1>2, <1>3, <1>6, <1>7, ReleaseKept

-----------------------------------------------------------------------------
\* Read takes from 1 to capacity events, into an empty buffer.
LEMMA ReadOne ==
  ASSUME StreamInv, NEW d \in Devices, Read(d)
  PROVE  \E c \in 1 .. Len(unread[d]) :
           /\ c <= capacity
           /\ readBuffer' = SubSeq(unread[d], 1, c)
           /\ unread' = [unread EXCEPT ![d] = SubSeq(@, c + 1, Len(@))]
           /\ pc = "wait" /\ pc' = "cook" /\ readBuffer = <<>>
           /\ i = 0 /\ i' = 0 /\ iRet = 0 /\ iRet' = 0 /\ ended = <<>> /\ ended' = <<>>
           /\ UNCHANGED <<sent, cookEvent, iFlagPressure, posted>>
<1>1. unread[d] \in Seq(IevSet) /\ unread[d] # <<>>
  BY UnreadSent DEF StreamInv, Read
<1>2. PICK m \in Nat : m = Len(unread[d])
  BY <1>1
<1>3. m > 0
  BY <1>1, <1>2
<1>4. PICK c : c = IF m < capacity THEN m ELSE capacity
  OBVIOUS
<1>5. c \in 1 .. m /\ c <= capacity
  BY <1>3, <1>4, ArrayHoldsARead
<1>6. /\ readBuffer' = SubSeq(unread[d], 1, c)
      /\ unread' = [unread EXCEPT ![d] = SubSeq(@, c + 1, Len(@))]
  BY <1>2, <1>4 DEF Read
<1>7. /\ pc = "wait" /\ pc' = "cook" /\ readBuffer = <<>>
      /\ i = 0 /\ i' = 0 /\ iRet = 0 /\ iRet' = 0 /\ ended = <<>> /\ ended' = <<>>
      /\ UNCHANGED <<sent, cookEvent, iFlagPressure, posted>>
  BY DEF Read, StreamInv, BufferOK
<1>8. QED
  BY <1>2, <1>5, <1>6, <1>7

\* Read: the stream is cut, a waiting report is in one of the two pieces.
LEMMA ReadKeeps ==
  ASSUME EventInv, NEW d \in Devices, Read(d)
  PROVE  EventInv'
<1>0. /\ StreamInv /\ SentOK /\ UnreadOK /\ BufferOK /\ CookOK /\ CountOK /\ OrderInv
      /\ CookedInv /\ (OneTouch => ReleaseInv)
  BY DEF EventInv, StreamInv
<1>1. PICK c \in 1 .. Len(unread[d]) :
        /\ c <= capacity
        /\ readBuffer' = SubSeq(unread[d], 1, c)
        /\ unread' = [unread EXCEPT ![d] = SubSeq(@, c + 1, Len(@))]
        /\ pc = "wait" /\ pc' = "cook" /\ readBuffer = <<>>
        /\ i = 0 /\ i' = 0 /\ iRet = 0 /\ iRet' = 0 /\ ended = <<>> /\ ended' = <<>>
        /\ UNCHANGED <<sent, cookEvent, iFlagPressure, posted>>
  BY <1>0, ReadOne
<1>2. PICK S, U, B, P, s : /\ S = sent /\ U = unread' /\ B = readBuffer' /\ P = posted
                           /\ s = unread[d]
  OBVIOUS
<1>3. PICK m \in Nat : m = Len(s)
  BY <1>0, <1>2, UnreadSent
<1>4. /\ s \in Seq(IevSet) /\ Chain(s) /\ DOMAIN s = 1 .. m
      /\ \A k \in 1 .. m : /\ Valid(d, s[k]) /\ s[k].frame \in FrameSet
                           /\ s[k].frame.n \in 1 .. Len(sent[d])
  BY <1>0, <1>2, <1>3, UnreadSent
<1>5. c \in 1 .. m /\ B = SubSeq(s, 1, c) /\ U[d] = SubSeq(s, c + 1, m)
  BY <1>0, <1>1, <1>2, <1>3 DEF UnreadOK
<1>6. \A e \in Devices : e # d => U[e] = unread[e]
  BY <1>0, <1>1, <1>2 DEF UnreadOK
<1>7. /\ B \in Seq(IevSet) /\ Len(B) = c /\ DOMAIN B = 1 .. c
      /\ \A k \in 1 .. c : B[k] = s[k]
  BY <1>3, <1>4, <1>5
<1>8. /\ U[d] \in Seq(IevSet) /\ Len(U[d]) = m - c /\ DOMAIN U[d] = 1 .. m - c
      /\ \A k \in 1 .. m - c : U[d][k] = s[c + k]
  BY <1>3, <1>4, <1>5
<1>9. Chain(B) /\ Chain(U[d]) /\ Join(B, U[d])
  BY <1>3, <1>4, <1>5, ChainCut
<1>10. \A g : SentFrame(g) <=> SentFrame(g)'
  BY <1>1 DEF SentFrame
<1>11. \A k \in 1 .. m : Valid(d, s[k])'
  BY <1>4, <1>10, StaysValid
<1>12. SentOK'
  BY <1>0, <1>1 DEF SentOK
<1>13. EndsWell(d, s) /\ (EndsWell(d, s))'
  BY <1>0, <1>1, <1>2 DEF UnreadOK, EndsWell
<1>14. UnreadOK'
  <2>1. ASSUME NEW e \in Devices
        PROVE  Stream(e, U[e])' /\ EndsWell(e, U[e])'
    <3>1. CASE e # d
      <4>1. PICK u : u = U[e]
        OBVIOUS
      <4>2. Stream(e, u) /\ EndsWell(e, u)
        BY <1>0, <1>6, <3>1, <4>1 DEF UnreadOK
      <4>3. \A k \in DOMAIN u : Valid(e, u[k]) /\ u[k].frame \in FrameSet
        BY <1>0, <1>6, <3>1, <4>1, UnreadSent
      <4>4. \A k \in DOMAIN u : Valid(e, u[k])'
        BY <4>3, <1>10, StaysValid
      <4>5. Stream(e, u)' /\ EndsWell(e, u)'
        BY <1>1, <4>2, <4>4 DEF Stream, EndsWell
      <4>6. QED
        BY <4>1, <4>5
    <3>2. CASE e = d
      <4>1. ASSUME NEW k \in DOMAIN U[d]
            PROVE  Valid(d, U[d][k])'
        <5>1. PICK p : p = c + k
          OBVIOUS
        <5>2. p \in 1 .. m /\ U[d][k] = s[p]
          BY <1>5, <1>8, <4>1, <5>1
        <5>3. QED
          BY <1>11, <5>2
      <4>2. Stream(d, U[d])'
        BY <4>1, <1>8, <1>9 DEF Stream
      <4>3. ASSUME U[d] # <<>>
            PROVE  IsReport(U[d][m - c]) /\ U[d][m - c].frame.n = Len(S[d])
        <5>1. m - c \in 1 .. m - c /\ c + (m - c) = m
          BY <1>3, <1>5, <1>8, <4>3
        <5>2. U[d][m - c] = s[m] /\ s # <<>>
          BY <1>8, <1>4, <1>5, <5>1
        <5>3. QED
          BY <1>13, <1>2, <1>3, <5>2 DEF EndsWell
      <4>4. EndsWell(d, U[d])'
        BY <4>3, <1>1, <1>2, <1>8 DEF EndsWell
      <4>5. QED
        BY <3>2, <4>2, <4>4
    <3>3. QED
      BY <3>1, <3>2
  <2>2. DOMAIN unread' = Devices
    BY <1>0, <1>1 DEF UnreadOK
  <2>3. QED
    BY <1>2, <2>1, <2>2 DEF UnreadOK
<1>15. device' = d /\ B # <<>>
  <2>1. 1 \in DOMAIN B /\ B[1] = s[1] /\ Valid(d, s[1])
    BY <1>4, <1>5, <1>7
  <2>2. QED
    BY <2>1, <1>2 DEF device, Valid
<1>16. BufferOK'
  <2>1. Stream(d, B)'
    BY <1>5, <1>7, <1>9, <1>11 DEF Stream
  <2>2. ASSUME U[d] = <<>>
        PROVE  EndsWell(d, B)'
    <3>1. m - c = 0
      BY <1>8, <2>2
    <3>2. B[c] = s[m] /\ s # <<>>
      BY <1>3, <1>4, <1>5, <1>7, <3>1
    <3>3. QED
      BY <1>1, <1>3, <1>7, <1>13, <3>2 DEF EndsWell
  <2>3. (unread[device] = <<>> => EndsWell(device, readBuffer))'
    BY <1>2, <1>15, <2>2
  <2>4. Stream(device, readBuffer)' /\ Join(readBuffer, unread[device])'
    BY <1>2, <1>9, <1>15, <2>1
  <2>5. /\ pc' = "cook" /\ readBuffer' # <<>> /\ device' \in Devices
        /\ Len(readBuffer') <= capacity /\ i' \in 0 .. Len(readBuffer')
    <3>1. pc' = "cook" /\ i' = 0 /\ c <= capacity /\ readBuffer' = B
      BY <1>1, <1>2
    <3>2. c \in Nat
      BY <1>5
    <3>3. device' \in Devices
      BY <1>15
    <3>4. QED
      BY <3>1, <3>2, <3>3, <1>7, <1>15
  <2>6. QED
    BY <2>3, <2>4, <2>5 DEF BufferOK
<1>17. CookOK'
  BY <1>0, <1>1 DEF CookOK
<1>18. CountOK' /\ LastRead' = FALSE
  BY <1>1 DEF CountOK, LastRead
<1>19. DOMAIN ended' = {}
  BY <1>1
<1>20. OrderInv'
  <2>1. EndedRead' /\ EndedInOrder'
    BY <1>19 DEF EndedRead, EndedInOrder
  <2>2. PostedInOrder'
    BY <1>0, <1>1 DEF OrderInv, PostedInOrder
  <2>3. ASSUME NEW k \in DOMAIN P
        PROVE  LET f == P[k].frame IN
               /\ SentFrame(f)'
               /\ \A j \in DOMAIN U[f.dev] : f.n < U[f.dev][j].frame.n
               /\ \A j \in DOMAIN B : B[j].frame.dev = f.dev => f.n < B[j].frame.n
    <3>1. PICK f : f = P[k].frame
      OBVIOUS
    <3>2. SentFrame(f) /\ \A j \in DOMAIN unread[f.dev] : f.n < unread[f.dev][j].frame.n
      BY <1>0, <1>2, <2>3, <3>1 DEF OrderInv, PostedBefore
    <3>3. \A j \in DOMAIN U[f.dev] : f.n < U[f.dev][j].frame.n
      <4>1. CASE f.dev # d
        BY <3>2, <4>1, <1>6 DEF SentFrame
      <4>2. CASE f.dev = d
        <5>1. TAKE j \in DOMAIN U[f.dev]
        <5>2. c + j \in 1 .. m /\ U[f.dev][j] = s[c + j]
          BY <1>3, <1>5, <1>8, <4>2
        <5>3. QED
          BY <3>2, <4>2, <5>2, <1>2, <1>4
      <4>3. QED
        BY <4>1, <4>2
    <3>4. \A j \in DOMAIN B : B[j].frame.dev = f.dev => f.n < B[j].frame.n
      <4>1. TAKE j \in DOMAIN B
      <4>2. j \in 1 .. m /\ B[j] = s[j] /\ Valid(d, s[j])
        BY <1>4, <1>5, <1>7
      <4>3. s[j].frame.dev = d
        BY <4>2 DEF Valid
      <4>4. QED
        BY <3>2, <4>2, <4>3, <1>2, <1>4
    <3>5. QED
      BY <3>1, <3>2, <3>3, <3>4, <1>10
  <2>4. PostedBefore'
    BY <2>3, <1>1, <1>2 DEF PostedBefore
  <2>5. ASSUME NEW e \in Devices, NEW n \in DOMAIN S[e]
        PROVE  LET f == S[e][n] IN Posted(f)' \/ Waits(f)' \/ Buffered(f)' \/ Ended(f)'
    <3>1. PICK f : f = S[e][n]
      OBVIOUS
    <3>2. f.dev = e
      BY <1>0, <1>2, <2>5, <3>1 DEF SentOK
    <3>3. Posted(f) \/ Waits(f) \/ Buffered(f) \/ Ended(f)
      BY <1>0, <1>2, <2>5, <3>1 DEF OrderInv, Covered
    <3>4. ~Buffered(f) /\ ~Ended(f)
      <4>1. DOMAIN readBuffer = {} /\ DOMAIN ended = {}
        BY <1>1
      <4>2. QED
        BY <4>1 DEF Buffered, Ended
    <3>5. Posted(f) => Posted(f)'
      BY <1>1 DEF Posted
    <3>6. ASSUME Waits(f) PROVE Waits(f)' \/ Buffered(f)'
      <4>1. PICK j \in DOMAIN unread[e] : unread[e][j] = Iev("EV_SYN", "SYN_REPORT", f)
        BY <3>2, <3>6 DEF Waits
      <4>2. CASE e # d
        <5>1. j \in DOMAIN U[e] /\ U[e][j] = Iev("EV_SYN", "SYN_REPORT", f)
          BY <1>6, <4>1, <4>2
        <5>2. QED
          BY <5>1, <1>2, <3>2 DEF Waits
      <4>3. CASE e = d /\ j <= c
        <5>1. j \in DOMAIN B /\ B[j] = Iev("EV_SYN", "SYN_REPORT", f) /\ j > 0
          BY <1>2, <1>4, <1>5, <1>7, <4>1, <4>3
        <5>2. QED
          BY <5>1, <1>1, <1>2 DEF Buffered
      <4>4. CASE e = d /\ j > c
        <5>1. j - c \in 1 .. m - c /\ c + (j - c) = j
          BY <1>2, <1>3, <1>4, <1>5, <4>1, <4>4
        <5>2. j - c \in DOMAIN U[d] /\ U[d][j - c] = Iev("EV_SYN", "SYN_REPORT", f)
          BY <1>2, <1>8, <4>1, <4>4, <5>1
        <5>3. QED
          BY <5>2, <1>2, <3>2, <4>4 DEF Waits
      <4>5. QED
        BY <4>2, <4>3, <4>4, <4>1, <1>2, <1>4, <1>5
    <3>7. QED
      BY <3>1, <3>3, <3>4, <3>5, <3>6
  <2>6. Covered'
    BY <2>5, <1>1, <1>2 DEF Covered
  <2>7. QED
    BY <2>1, <2>2, <2>4, <2>6 DEF OrderInv
<1>21. CookedInv'
  <2>1. PartlyCooked'
    BY <1>18 DEF PartlyCooked
  <2>2. WholeFramesAreCooked'
    BY <1>0, <1>1 DEF CookedInv, WholeFramesAreCooked
  <2>3. 1 .. iRet' = {}
    BY <1>1
  <2>4. QED
    BY <2>1, <2>2, <2>3 DEF CookedInv
<1>22. ASSUME NEW e \in TouchDevices, FrontIsPress(e)
       PROVE  FrontIsPress(e)'
  <2>1. unread[e] # <<>> /\ unread[e][1].frame.kind = "press" /\ e \in Devices
    BY <1>1, <1>22 DEF FrontIsPress, Devices
  <2>2. CASE e # d
    <3>1. U[e] = unread[e]
      BY <1>6, <2>1, <2>2
    <3>2. QED
      BY <1>2, <1>15, <2>1, <2>2, <3>1 DEF FrontIsPress
  <2>3. CASE e = d
    <3>1. B[0 + 1] = s[1] /\ 0 < Len(B)
      BY <1>5, <1>7
    <3>2. QED
      BY <1>1, <1>2, <1>15, <2>1, <2>3, <3>1 DEF FrontIsPress
  <2>4. QED
    BY <2>2, <2>3
<1>23. OneTouch => ReleaseInv'
  <2>1. \A p : Pressed(p) => Pressed(p)'
    BY <1>1, <1>22, PressedKept
  <2>2. \A k \in 1 .. iRet : Cooked(k)' = Cooked(k)
    BY <1>1
  <2>3. QED
    BY <1>0, <1>1, <2>1, <2>2, ReleaseKept
<1>24. QED
  BY <1>12, <1>14, <1>16, <1>17, <1>18, <1>20, <1>21, <1>23 DEF EventInv, StreamInv
-----------------------------------------------------------------------------
\* The next event to be cooked, the one before it and the one after it.
LEMMA NextEvent ==
  ASSUME StreamInv, pc = "cook", i < Len(readBuffer)
  PROVE  /\ i \in Nat /\ i + 1 \in DOMAIN readBuffer /\ i + 1 <= Len(readBuffer)
         /\ Len(readBuffer) \in Nat
         /\ Valid(device, iev) /\ iev \in IevSet /\ iev.frame \in FrameSet
         /\ device \in Devices
         /\ i > 0 /\ Pos(iev) > 1 =>
              /\ i \in DOMAIN readBuffer
              /\ LastRead /\ readBuffer[i].frame = iev.frame
              /\ Pos(readBuffer[i]) = Pos(iev) - 1
         /\ ~IsReport(iev) /\ i + 1 < Len(readBuffer) =>
              readBuffer[(i + 1) + 1].frame = iev.frame
         /\ ~IsReport(iev) /\ i + 1 = Len(readBuffer) =>
              unread[device] # <<>> /\ unread[device][1].frame = iev.frame
<1>1. PICK B, D : B = readBuffer /\ D = device
  OBVIOUS
<1>2. /\ B \in Seq(IevSet) /\ Chain(B) /\ B # <<>>
      /\ D \in Devices /\ i \in 0 .. Len(B)
      /\ \A k \in DOMAIN B : Valid(D, B[k]) /\ B[k].frame \in FrameSet
  BY <1>1, BufferSent
<1>3. PICK n \in Nat : n = Len(B)
  BY <1>2
<1>4. i \in Nat /\ i < n /\ DOMAIN B = 1 .. n
  BY <1>1, <1>2, <1>3
<1>5. /\ \A k \in 1 .. n : k < n => Follows(B[k], B[k + 1])
      /\ \A k \in 1 .. n : B[k] \in IevSet
  BY <1>2, <1>3, <1>4 DEF Chain
<1>6. PICK e : e = B[i + 1]
  OBVIOUS
<1>7. i + 1 \in 1 .. n /\ e \in IevSet /\ Valid(D, e) /\ e.frame \in FrameSet
  BY <1>2, <1>4, <1>5, <1>6
<1>8. iev = e
  BY <1>1, <1>6 DEF iev
<1>9. ASSUME i > 0, Pos(e) > 1
      PROVE  /\ i \in 1 .. n /\ LastRead /\ B[i].frame = e.frame
             /\ Pos(B[i]) = Pos(e) - 1
  <2>1. i \in 1 .. n /\ Follows(B[i], e)
    BY <1>4, <1>5, <1>6, <1>9
  <2>2. ~IsReport(B[i])
    BY <2>1, <1>9 DEF Follows
  <2>3. e.frame = B[i].frame /\ Pos(e) = Pos(B[i]) + 1
    BY <2>1, <2>2 DEF Follows
  <2>4. Pos(B[i]) \in 1 .. Size(B[i].frame) /\ Size(B[i].frame) \in Nat
    BY <2>1, <1>2, <1>4 DEF Valid, Size
  <2>5. QED
    BY <2>1, <2>2, <2>3, <2>4, <1>1, <1>9 DEF LastRead
<1>10. ASSUME ~IsReport(e), i + 1 < n
       PROVE  B[(i + 1) + 1].frame = e.frame
  BY <1>5, <1>6, <1>7, <1>10 DEF Follows
<1>11. ASSUME ~IsReport(e), i + 1 = n
       PROVE  unread[D] # <<>> /\ unread[D][1].frame = e.frame
  <2>1. Join(B, unread[D]) /\ (unread[D] = <<>> => EndsWell(D, B))
    BY <1>1 DEF StreamInv, BufferOK
  <2>2. unread[D] # <<>>
    BY <2>1, <1>2, <1>3, <1>6, <1>11 DEF EndsWell
  <2>3. Follows(e, unread[D][1])
    BY <2>1, <2>2, <1>2, <1>3, <1>6, <1>11 DEF Join
  <2>4. QED
    BY <2>2, <2>3, <1>11 DEF Follows
<1>12. QED
  BY <1>1, <1>2, <1>3, <1>4, <1>7, <1>8, <1>9, <1>10, <1>11

\* The cooked events have their type.
LEMMA EventsTyped ==
  ASSUME NEW e \in IevSet, NEW ev \in CookEvents
  PROVE  /\ CookTouchEvent(e, ev) \in CookEvents
         /\ e.code \in {"BTN_TOUCH", "KEY_HOME"} => CookKeyEvent(e, ev) \in CookEvents
         /\ \A flag \in Nat :
              [ev EXCEPT !.iPressure = PressureAtReport(flag, @)] \in CookEvents
<1>1. e.value \in Int /\ 1 \in Int /\ 0 \in Int
  BY DEF IevSet
<1>2. CookTouchEvent(e, ev) \in CookEvents
  BY <1>1 DEF CookEvents, CookTouchEvent
<1>3. e.code \in {"BTN_TOUCH", "KEY_HOME"} => CookKeyEvent(e, ev) \in CookEvents
  BY DEF CookEvents, CookKeyEvent
<1>4. \A flag \in Nat : [ev EXCEPT !.iPressure = PressureAtReport(flag, @)] \in CookEvents
  BY <1>1 DEF CookEvents, PressureAtReport
<1>5. QED
  BY <1>2, <1>3, <1>4

\* An event that is not a report.
LEMMA CookStreams ==
  ASSUME EventInv, NEW type, Cook(type), ~IsReport(iev),
         cookEvent' \in [1 .. iSize -> CookEvents], iFlagPressure' \in Nat,
         iRet' = iRet, ended' = ended
  PROVE  StreamInv' /\ OrderInv'
<1>0. StreamInv /\ SentOK /\ UnreadOK /\ BufferOK /\ CookOK /\ CountOK /\ OrderInv
  BY DEF EventInv, StreamInv
<1>1. /\ pc = "cook" /\ i < Len(readBuffer) /\ iRet # iSize /\ i' = i + 1
      /\ unread' = unread /\ sent' = sent /\ pc' = pc /\ readBuffer' = readBuffer
      /\ posted' = posted
  BY DEF Cook, kernelVars, Full
<1>2. /\ i \in Nat /\ i + 1 \in DOMAIN readBuffer /\ i + 1 <= Len(readBuffer)
      /\ Len(readBuffer) \in Nat
  BY <1>0, <1>1, NextEvent
<1>3. SentOK' /\ UnreadOK'
  BY <1>0, <1>1 DEF SentOK, UnreadOK, Stream, EndsWell, Valid, SentFrame
<1>4. BufferOK'
  <2>1. device' = device
    BY <1>1 DEF device
  <2>2. Stream(device, readBuffer)'
    BY <1>0, <1>1, <2>1 DEF BufferOK, Stream, Valid, SentFrame
  <2>3. (unread[device] = <<>> => EndsWell(device, readBuffer))'
    BY <1>0, <1>1, <2>1 DEF BufferOK, EndsWell
  <2>4. i' \in 0 .. Len(readBuffer')
    BY <1>1, <1>2
  <2>5. QED
    BY <1>0, <1>1, <2>1, <2>2, <2>3, <2>4 DEF BufferOK
<1>5. CookOK'
  BY <1>0, <1>1 DEF CookOK
<1>6. CountOK'
  <2>1. iRet \in Nat /\ iSize \in Nat /\ iRet < iSize
    BY <1>0, <1>1, ArrayHoldsARead DEF CookOK
  <2>2. 2 * iRet <= i + 1 /\ (i = 0 => iRet = 0)
    BY <1>0 DEF CountOK
  <2>3. 2 * iRet <= i'
    BY <1>1, <2>2
  <2>4. 2 * iRet <= i' + 1 /\ i' # 0
    BY <1>1, <1>2, <2>1, <2>3
  <2>5. QED
    BY <2>1, <2>3, <2>4 DEF CountOK
<1>7. EndedRead'
  BY <1>0, <1>1, <1>2 DEF OrderInv, EndedRead
<1>8. EndedInOrder' /\ PostedInOrder' /\ PostedBefore'
  BY <1>0, <1>1 DEF OrderInv, EndedInOrder, PostedInOrder, PostedBefore, SentFrame
<1>9. Covered'
  <2>1. ASSUME NEW d \in Devices, NEW n \in DOMAIN sent[d], NEW f, f = sent[d][n]
        PROVE  Posted(f)' \/ Waits(f)' \/ Buffered(f)' \/ Ended(f)'
    <3>1. Posted(f) \/ Waits(f) \/ Buffered(f) \/ Ended(f)
      BY <1>0, <2>1 DEF OrderInv, Covered
    <3>2. Posted(f) => Posted(f)'
      BY <1>1 DEF Posted
    <3>3. Waits(f) => Waits(f)'
      BY <1>1 DEF Waits
    <3>4. Ended(f) => Ended(f)'
      BY <1>1 DEF Ended
    <3>5. ASSUME Buffered(f) PROVE Buffered(f)'
      <4>1. PICK j \in DOMAIN readBuffer :
              j > i /\ readBuffer[j] = Iev("EV_SYN", "SYN_REPORT", f)
        BY <3>5 DEF Buffered
      <4>2. j # i + 1
        BY <4>1 DEF iev, IsReport, Iev
      <4>3. j \in Nat
        BY <4>1, <1>2
      <4>4. j > i + 1
        BY <4>1, <4>2, <4>3, <1>2
      <4>5. QED
        BY <4>1, <4>4, <1>1 DEF Buffered
    <3>6. QED
      BY <3>1, <3>2, <3>3, <3>4, <3>5
  <2>2. QED
    BY <2>1, <1>1 DEF Covered
<1>10. QED
  BY <1>3, <1>4, <1>5, <1>6, <1>7, <1>8, <1>9 DEF StreamInv, OrderInv

\* The frames in front, when an event that is not a report is cooked.
LEMMA FrontKept ==
  ASSUME StreamInv, NEW type, Cook(type), ~IsReport(iev), NEW d \in TouchDevices
  PROVE  /\ FrontIsPress(d) => FrontIsPress(d)'
         /\ iev.frame.kind = "press" /\ device = d => FrontIsPress(d)'
<1>1. /\ pc = "cook" /\ i < Len(readBuffer) /\ i' = i + 1
      /\ unread' = unread /\ pc' = pc /\ readBuffer' = readBuffer
  BY DEF Cook, kernelVars
<1>2. /\ i \in Nat /\ i + 1 <= Len(readBuffer) /\ Len(readBuffer) \in Nat
      /\ i + 1 < Len(readBuffer) => readBuffer[(i + 1) + 1].frame = iev.frame
      /\ i + 1 = Len(readBuffer) => unread[device] # <<>> /\ unread[device][1].frame = iev.frame
  BY <1>1, NextEvent
<1>3. device' = device
  BY <1>1 DEF device
<1>4. ASSUME iev.frame.kind = "press", device = d
      PROVE  FrontIsPress(d)'
  <2>1. CASE i + 1 < Len(readBuffer)
    BY <1>1, <1>2, <1>3, <1>4, <2>1 DEF FrontIsPress
  <2>2. CASE i + 1 = Len(readBuffer)
    BY <1>1, <1>2, <1>3, <1>4, <2>2 DEF FrontIsPress
  <2>3. QED
    BY <1>2, <2>1, <2>2
<1>5. ASSUME FrontIsPress(d)
      PROVE  FrontIsPress(d)'
  <2>1. CASE device = d
    <3>1. iev.frame.kind = "press"
      BY <1>1, <1>5, <2>1 DEF FrontIsPress, iev
    <3>2. QED
      BY <3>1, <1>4, <2>1
  <2>2. CASE device # d
    BY <1>1, <1>3, <1>5, <2>2 DEF FrontIsPress
  <2>3. QED
    BY <2>1, <2>2
<1>6. QED
  BY <1>4, <1>5

\* An event in the middle of a frame that began in this buffer comes right
\* after the one that precedes it in the frame.
LEMMA BegunBefore ==
  ASSUME StreamInv, pc = "cook", i < Len(readBuffer), Pos(iev) > 1,
         \E k \in 1 .. i + 1 : readBuffer[k] = InputEvents(iev.frame)[1]
  PROVE  /\ i \in DOMAIN readBuffer /\ LastRead /\ Begun(readBuffer[i].frame)
         /\ readBuffer[i].frame = iev.frame /\ Pos(readBuffer[i]) = Pos(iev) - 1
<1>1. PICK k \in 1 .. i + 1 : readBuffer[k] = InputEvents(iev.frame)[1]
  OBVIOUS
<1>2. i \in Nat /\ Valid(device, iev) /\ device \in Devices /\ SentOK
  BY NextEvent DEF StreamInv
<1>3. InputEvents(iev.frame)[1] # iev
  BY <1>2, ValidIs
<1>4. k # i + 1
  BY <1>1, <1>3 DEF iev
<1>5. k \in 1 .. i /\ i > 0
  BY <1>2, <1>4
<1>6. /\ i \in DOMAIN readBuffer /\ LastRead /\ readBuffer[i].frame = iev.frame
      /\ Pos(readBuffer[i]) = Pos(iev) - 1
  BY <1>5, NextEvent
<1>7. QED
  BY <1>1, <1>5, <1>6 DEF Begun

\* The element under construction, after one more event of its frame.
LEMMA PartlyKept ==
  ASSUME EventInv, NEW type, Cook(type), ~IsReport(iev), iRet' = iRet,
         NEW f, f = iev.frame, NEW p, p = Pos(iev),
         p = 1 => CookedTo(cookEvent'[iRet + 1], f, 1, iFlagPressure'),
         p > 1 /\ CookedTo(cookEvent[iRet + 1], f, p - 1, iFlagPressure) =>
           CookedTo(cookEvent'[iRet + 1], f, p, iFlagPressure')
  PROVE  PartlyCooked'
<1>1. /\ StreamInv /\ PartlyCooked /\ pc = "cook" /\ i < Len(readBuffer)
      /\ i' = i + 1 /\ readBuffer' = readBuffer
  BY DEF EventInv, CookedInv, Cook
<1>2. SentOK /\ Valid(device, iev) /\ device \in Devices
  BY <1>1, NextEvent DEF StreamInv
<1>3. p \in Nat /\ p >= 1
  BY <1>2, ValidIs
<1>4. readBuffer'[i'] = iev
  BY <1>1 DEF iev
<1>5. SUFFICES ASSUME Begun(f)'
               PROVE  CookedTo(cookEvent'[iRet + 1], f, p, iFlagPressure')
  BY <1>4 DEF PartlyCooked
<1>6. CASE p = 1
  BY <1>6
<1>7. CASE p > 1
  <2>1. \E k \in 1 .. i + 1 : readBuffer[k] = InputEvents(iev.frame)[1]
    BY <1>1, <1>5 DEF Begun
  <2>2. /\ i \in DOMAIN readBuffer /\ LastRead /\ Begun(readBuffer[i].frame)
        /\ readBuffer[i].frame = iev.frame /\ Pos(readBuffer[i]) = Pos(iev) - 1
    BY <2>1, <1>1, <1>7, BegunBefore
  <2>3. CookedTo(cookEvent[iRet + 1], f, p - 1, iFlagPressure)
    BY <1>1, <2>2 DEF PartlyCooked
  <2>4. QED
    BY <2>3, <1>7
<1>8. QED
  BY <1>3, <1>6, <1>7

\* What cooking an event that is not a report does to the events so far.
LEMMA CookedSoFar ==
  ASSUME EventInv, iRet' = iRet, ended' = ended, posted' = posted,
         \A k \in 1 .. iRet : cookEvent'[k] = cookEvent[k],
         PartlyCooked'
  PROVE  CookedInv' /\ \A k \in 1 .. iRet : Cooked(k)' = Cooked(k)
<1>1. \A k \in 1 .. iRet : Cooked(k)' = Cooked(k)
  BY DEF Cooked
<1>2. \A k \in 1 .. iRet : WellCooked(Cooked(k)')
  BY <1>1 DEF EventInv, CookedInv
<1>3. WholeFramesAreCooked'
  BY DEF EventInv, CookedInv, WholeFramesAreCooked
<1>4. QED
  BY <1>1, <1>2, <1>3 DEF CookedInv

\* An assignment to the element under construction.
LEMMA ArrayElement ==
  ASSUME EventInv, ~Full, NEW y \in CookEvents,
         cookEvent' = [cookEvent EXCEPT ![iRet + 1] = y]
  PROVE  /\ iRet \in Nat /\ iRet + 1 \in 1 .. iSize
         /\ cookEvent[iRet + 1] \in CookEvents /\ cookEvent'[iRet + 1] = y
         /\ cookEvent' \in [1 .. iSize -> CookEvents]
         /\ \A k \in 1 .. iRet : cookEvent'[k] = cookEvent[k]
<1>1. /\ cookEvent \in [1 .. iSize -> CookEvents] /\ iRet \in 0 .. iSize /\ iRet # iSize
      /\ iSize \in Nat
  BY ArrayHoldsARead DEF EventInv, StreamInv, CookOK, Full
<1>2. iRet \in Nat /\ iRet + 1 \in 1 .. iSize
  BY <1>1
<1>3. \A k \in 1 .. iRet : k \in 1 .. iSize /\ k # iRet + 1
  BY <1>1
<1>4. QED
  BY <1>1, <1>2, <1>3

\* CookAbs: the flag is reset, and more of the touch is to come.
LEMMA AbsKeeps ==
  ASSUME EventInv, CookAbs
  PROVE  EventInv'
<1>1. /\ Cook("EV_ABS") /\ iev.type = "EV_ABS" /\ pc = "cook" /\ i < Len(readBuffer)
      /\ ~Full /\ posted' = posted /\ iRet' = iRet /\ ended' = ended
      /\ iFlagPressure' = 0
      /\ cookEvent' = [cookEvent EXCEPT ![iRet + 1] = CookTouchEvent(iev, @)]
  BY DEF CookAbs, Cook
<1>2. StreamInv /\ SentOK /\ (OneTouch => ReleaseInv)
  BY DEF EventInv, StreamInv
<1>3. /\ iev \in IevSet /\ Valid(device, iev) /\ device \in Devices
  BY <1>1, <1>2, NextEvent
<1>4. PICK e, f, p : e = iev /\ f = iev.frame /\ p = Pos(iev)
  OBVIOUS
<1>5. /\ f.kind = "press" /\ e.value = f.n
      /\ \/ p = 1 /\ e.code = "ABS_MT_POSITION_X"
         \/ p = 2 /\ e.code = "ABS_MT_POSITION_Y"
      /\ p # Size(f) /\ ~IsReport(e)
      /\ device \in TouchDevices
  BY <1>1, <1>2, <1>3, <1>4, ValidIs, KindsOfDevices
<1>6. PICK x : x = cookEvent[iRet + 1]
  OBVIOUS
<1>7. iRet + 1 \in 1 .. iSize /\ x \in CookEvents
  BY <1>1, <1>2, <1>6, ArrayHoldsARead DEF StreamInv, CookOK, Full
<1>8. PICK y : y = CookTouchEvent(e, x)
  OBVIOUS
<1>9. y \in CookEvents /\ cookEvent' = [cookEvent EXCEPT ![iRet + 1] = y]
  BY <1>1, <1>3, <1>4, <1>6, <1>7, <1>8, EventsTyped
<1>10. /\ iRet \in Nat /\ cookEvent'[iRet + 1] = y
       /\ cookEvent' \in [1 .. iSize -> CookEvents]
       /\ \A k \in 1 .. iRet : cookEvent'[k] = cookEvent[k]
  BY <1>1, <1>9, ArrayElement
<1>11. StreamInv' /\ OrderInv'
  BY <1>1, <1>4, <1>5, <1>10, CookStreams
<1>12. /\ y.iType = "TOUCHSCREEN"
       /\ p = 1 => y.iX = f.n /\ y.iPressure = 1
       /\ p = 2 => y.iX = x.iX /\ y.iPressure = x.iPressure /\ y.iY = f.n
  BY <1>5, <1>7, <1>8 DEF CookTouchEvent, CookEvents
<1>13. /\ p = 1 => CookedTo(y, f, 1, 0)
       /\ p > 1 /\ CookedTo(x, f, p - 1, iFlagPressure) => CookedTo(y, f, p, 0)
  BY <1>5, <1>12 DEF CookedTo
<1>14. PartlyCooked'
  BY <1>1, <1>4, <1>5, <1>6, <1>10, <1>13, PartlyKept
<1>15. CookedInv' /\ \A k \in 1 .. iRet : Cooked(k)' = Cooked(k)
  BY <1>1, <1>10, <1>14, CookedSoFar
<1>16. PICK d \in TouchDevices : d = device
  BY <1>5
<1>17. FrontIsPress(d)'
  BY <1>1, <1>2, <1>4, <1>5, <1>16, FrontKept
<1>18. \A q : Pressed(q)'
  BY <1>17 DEF Pressed
<1>19. OneTouch => ReleaseInv'
  BY <1>1, <1>2, <1>10, <1>15, <1>18, ReleaseKept
<1>20. QED
  BY <1>11, <1>15, <1>19 DEF EventInv

\* CookKey: BTN_TOUCH keeps the touch, KEY_HOME is the whole key.
LEMMA KeyKeeps ==
  ASSUME EventInv, CookKey
  PROVE  EventInv'
<1>1. /\ Cook("EV_KEY") /\ iev.type = "EV_KEY" /\ pc = "cook" /\ i < Len(readBuffer)
      /\ ~Full /\ posted' = posted /\ iRet' = iRet /\ ended' = ended
      /\ iFlagPressure' = iFlagPressure
      /\ cookEvent' = [cookEvent EXCEPT ![iRet + 1] = CookKeyEvent(iev, @)]
  BY DEF CookKey, Cook
<1>2. StreamInv /\ SentOK /\ (OneTouch => ReleaseInv) /\ iFlagPressure \in Nat
  BY DEF EventInv, StreamInv, CookOK
<1>3. /\ iev \in IevSet /\ Valid(device, iev) /\ device \in Devices
  BY <1>1, <1>2, NextEvent
<1>4. PICK e, f, p : e = iev /\ f = iev.frame /\ p = Pos(iev)
  OBVIOUS
<1>5. /\ p = Size(f) - 1 /\ ~IsReport(e)
      /\ f.kind = "key" => e.code = "KEY_HOME"
      /\ f.kind # "key" => e.code = "BTN_TOUCH"
      /\ f.kind = "press" => Size(f) = 4
      /\ Size(f) \in {2, 4}
  BY <1>1, <1>2, <1>3, <1>4, ValidIs
<1>6. PICK x : x = cookEvent[iRet + 1]
  OBVIOUS
<1>7. iRet + 1 \in 1 .. iSize /\ x \in CookEvents
  BY <1>1, <1>2, <1>6, ArrayHoldsARead DEF StreamInv, CookOK, Full
<1>8. PICK y : y = CookKeyEvent(e, x)
  OBVIOUS
<1>9. y \in CookEvents /\ cookEvent' = [cookEvent EXCEPT ![iRet + 1] = y]
  BY <1>1, <1>3, <1>4, <1>5, <1>6, <1>7, <1>8, EventsTyped
<1>10. /\ iRet \in Nat /\ cookEvent'[iRet + 1] = y
       /\ cookEvent' \in [1 .. iSize -> CookEvents]
       /\ \A k \in 1 .. iRet : cookEvent'[k] = cookEvent[k]
  BY <1>1, <1>9, ArrayElement
<1>11. StreamInv' /\ OrderInv'
  BY <1>1, <1>2, <1>4, <1>5, <1>10, CookStreams
<1>12. /\ y.iX = x.iX /\ y.iPressure = x.iPressure /\ y.iY = x.iY
       /\ f.kind = "press" => y.iType = "TOUCHSCREEN"
       /\ f.kind = "key" => y.iType = "KEYEVENT" /\ y.iKey = "KEY_HOME"
  BY <1>5, <1>7, <1>8 DEF CookKeyEvent, CookEvents
<1>13. /\ p = 1 => CookedTo(y, f, 1, iFlagPressure)
       /\ p > 1 /\ CookedTo(x, f, p - 1, iFlagPressure) => CookedTo(y, f, p, iFlagPressure)
  BY <1>5, <1>12 DEF CookedTo
<1>14. PartlyCooked'
  BY <1>1, <1>4, <1>5, <1>6, <1>10, <1>13, PartlyKept
<1>15. CookedInv' /\ \A k \in 1 .. iRet : Cooked(k)' = Cooked(k)
  BY <1>1, <1>10, <1>14, CookedSoFar
<1>16. \A d \in TouchDevices : FrontIsPress(d) => FrontIsPress(d)'
  BY <1>1, <1>2, <1>4, <1>5, FrontKept
<1>17. \A q : Pressed(q) => Pressed(q)'
  BY <1>1, <1>16, PressedKept
<1>18. OneTouch => ReleaseInv'
  BY <1>1, <1>2, <1>10, <1>15, <1>17, ReleaseKept
<1>19. QED
  BY <1>11, <1>15, <1>18 DEF EventInv

\* CookOther: SYN_MT_REPORT changes nothing.
LEMMA OtherKeeps ==
  ASSUME EventInv, CookOther
  PROVE  EventInv'
<1>1. /\ Cook("EV_SYN") /\ iev.type = "EV_SYN" /\ pc = "cook" /\ i < Len(readBuffer)
      /\ ~IsReport(iev) /\ posted' = posted /\ iRet' = iRet /\ ended' = ended
      /\ iFlagPressure' = iFlagPressure /\ cookEvent' = cookEvent
  BY DEF CookOther, Cook, IsReport
<1>2. /\ StreamInv /\ SentOK /\ (OneTouch => ReleaseInv) /\ iFlagPressure \in Nat
      /\ cookEvent \in [1 .. iSize -> CookEvents] /\ iRet \in Nat
  BY ArrayHoldsARead DEF EventInv, StreamInv, CookOK
<1>3. Valid(device, iev) /\ device \in Devices
  BY <1>1, <1>2, NextEvent
<1>4. PICK f, p : f = iev.frame /\ p = Pos(iev)
  OBVIOUS
<1>5. p = Size(f) - 1 /\ f.kind # "key" /\ (f.kind = "press" => Size(f) = 4)
  BY <1>1, <1>2, <1>3, <1>4, ValidIs
<1>6. StreamInv' /\ OrderInv'
  BY <1>1, <1>2, CookStreams
<1>7. PICK x : x = cookEvent[iRet + 1]
  OBVIOUS
<1>8. /\ p = 1 => CookedTo(x, f, 1, iFlagPressure)
      /\ p > 1 /\ CookedTo(x, f, p - 1, iFlagPressure) => CookedTo(x, f, p, iFlagPressure)
  BY <1>5 DEF CookedTo
<1>9. PartlyCooked'
  BY <1>1, <1>4, <1>7, <1>8, PartlyKept
<1>10. CookedInv' /\ \A k \in 1 .. iRet : Cooked(k)' = Cooked(k)
  BY <1>1, <1>9, CookedSoFar
<1>11. \A d \in TouchDevices : FrontIsPress(d) => FrontIsPress(d)'
  BY <1>1, <1>2, FrontKept
<1>12. \A q : Pressed(q) => Pressed(q)'
  BY <1>1, <1>11, PressedKept
<1>13. OneTouch => ReleaseInv'
  BY <1>1, <1>2, <1>10, <1>12, ReleaseKept
<1>14. QED
  BY <1>6, <1>10, <1>13 DEF EventInv
-----------------------------------------------------------------------------
\* Append.
LEMMA Appended ==
  ASSUME NEW S, NEW s \in Seq(S), NEW e \in S, NEW n \in Nat, Len(s) = n
  PROVE  /\ Append(s, e) \in Seq(S) /\ Len(Append(s, e)) = n + 1
         /\ DOMAIN Append(s, e) = 1 .. n + 1
         /\ \A k \in 1 .. n : Append(s, e)[k] = s[k]
         /\ Append(s, e)[n + 1] = e
OBVIOUS

\* What CookReport does, with the cooked event y and the record of its frame.
LEMMA ReportOne ==
  ASSUME EventInv, CookReport
  PROVE  \E f \in FrameSet : \E w \in BOOLEAN : \E x \in CookEvents : \E y \in CookEvents :
           /\ f = iev.frame /\ Valid(device, iev) /\ device \in Devices
           /\ w <=> Begun(f)
           /\ x = cookEvent[iRet + 1]
           /\ y = [x EXCEPT !.iPressure = PressureAtReport(iFlagPressure + 1, @)]
           /\ cookEvent' \in [1 .. iSize -> CookEvents]
           /\ cookEvent'[iRet + 1] = y
           /\ \A k \in 1 .. iRet : cookEvent'[k] = cookEvent[k]
           /\ ended' = Append(ended, [frame |-> f, whole |-> w])
           /\ IsReport(iev) /\ pc = "cook" /\ i < Len(readBuffer) /\ i' = i + 1
           /\ iRet \in Nat /\ iRet + 1 \in 1 .. iSize /\ iRet' = iRet + 1
           /\ iFlagPressure \in Nat /\ iFlagPressure' = iFlagPressure + 1
           /\ UNCHANGED <<unread, sent, pc, readBuffer, posted>>
<1>1. /\ IsReport(iev) /\ pc = "cook" /\ i < Len(readBuffer) /\ i' = i + 1
      /\ ~Full /\ iRet' = iRet + 1 /\ iFlagPressure' = iFlagPressure + 1
      /\ UNCHANGED <<unread, sent, pc, readBuffer, posted>>
  BY DEF CookReport, Cook, IsReport, kernelVars
<1>2. /\ StreamInv /\ iFlagPressure \in Nat /\ cookEvent \in [1 .. iSize -> CookEvents]
      /\ iRet \in Nat /\ iRet + 1 \in 1 .. iSize
  BY <1>1, ArrayHoldsARead DEF EventInv, StreamInv, CookOK, Full
<1>3. /\ iev \in IevSet /\ Valid(device, iev) /\ device \in Devices /\ iev.frame \in FrameSet
  BY <1>1, <1>2, NextEvent
<1>4. PICK f, x : f = iev.frame /\ x = cookEvent[iRet + 1]
  OBVIOUS
<1>5. x \in CookEvents /\ f \in FrameSet
  BY <1>2, <1>3, <1>4
<1>6. PICK w \in BOOLEAN : w <=> Begun(f)
  OBVIOUS
<1>7. ended' = Append(ended, [frame |-> f, whole |-> w])
  <2>1. PICK b : b = Begun(f)
    OBVIOUS
  <2>2. b = w
    BY <2>1, <1>6 DEF Begun
  <2>3. ended' = Append(ended, [frame |-> f, whole |-> b])
    BY <2>1, <1>4 DEF CookReport
  <2>4. QED
    BY <2>2, <2>3
<1>8. PICK n \in Nat : n = iFlagPressure + 1
  BY <1>2
<1>9. PICK y : y = [x EXCEPT !.iPressure = PressureAtReport(n, @)]
  OBVIOUS
<1>10. y \in CookEvents
  BY <1>3, <1>5, <1>8, <1>9, EventsTyped
<1>11. cookEvent' = [cookEvent EXCEPT ![iRet + 1] = y]
  BY <1>4, <1>8, <1>9 DEF CookReport
<1>12. /\ cookEvent' \in [1 .. iSize -> CookEvents] /\ cookEvent'[iRet + 1] = y
       /\ \A k \in 1 .. iRet : cookEvent'[k] = cookEvent[k]
  BY <1>1, <1>10, <1>11, ArrayElement
<1>13. y = [x EXCEPT !.iPressure = PressureAtReport(iFlagPressure + 1, @)]
  BY <1>8, <1>9
<1>14. QED
  BY <1>1, <1>2, <1>3, <1>4, <1>5, <1>6, <1>7, <1>10, <1>12, <1>13

\* CookReport: the frame that waited in the buffer has ended, after those
\* that ended before.
LEMMA ReportStreams ==
  ASSUME EventInv, CookReport
  PROVE  StreamInv' /\ OrderInv'
<1>0. StreamInv /\ SentOK /\ UnreadOK /\ BufferOK /\ CookOK /\ CountOK /\ OrderInv
  BY DEF EventInv, StreamInv
<1>1. PICK f \in FrameSet, w \in BOOLEAN :
           /\ f = iev.frame /\ Valid(device, iev) /\ device \in Devices
           /\ cookEvent' \in [1 .. iSize -> CookEvents]
           /\ ended' = Append(ended, [frame |-> f, whole |-> w])
           /\ IsReport(iev) /\ pc = "cook" /\ i < Len(readBuffer) /\ i' = i + 1
           /\ iRet \in Nat /\ iRet + 1 \in 1 .. iSize /\ iRet' = iRet + 1
           /\ iFlagPressure \in Nat /\ iFlagPressure' = iFlagPressure + 1
           /\ UNCHANGED <<unread, sent, pc, readBuffer, posted>>
  BY ReportOne
<1>2. /\ i \in Nat /\ i + 1 \in DOMAIN readBuffer /\ i + 1 <= Len(readBuffer)
      /\ Len(readBuffer) \in Nat
  BY <1>0, <1>1, NextEvent
<1>3. SentOK' /\ UnreadOK'
  BY <1>0, <1>1 DEF SentOK, UnreadOK, Stream, EndsWell, Valid, SentFrame
<1>4. BufferOK'
  <2>1. device' = device
    BY <1>1 DEF device
  <2>2. Stream(device, readBuffer)'
    BY <1>0, <1>1, <2>1 DEF BufferOK, Stream, Valid, SentFrame
  <2>3. (unread[device] = <<>> => EndsWell(device, readBuffer))'
    BY <1>0, <1>1, <2>1 DEF BufferOK, EndsWell
  <2>4. i' \in 0 .. Len(readBuffer')
    BY <1>1, <1>2
  <2>5. QED
    BY <1>0, <1>1, <2>1, <2>2, <2>3, <2>4 DEF BufferOK
<1>5. PICK S, E, r : /\ S = [frame : FrameSet, whole : BOOLEAN] /\ E = ended
                     /\ r = [frame |-> f, whole |-> w]
  OBVIOUS
<1>6. r \in S /\ r.frame = f
  BY <1>5
<1>6a. iRet \in Nat /\ iRet' = iRet + 1
  BY <1>1
<1>7. /\ E \in Seq(S) /\ Len(E) = iRet /\ DOMAIN E = 1 .. iRet
      /\ ended' = Append(E, r)
  BY <1>0, <1>1, <1>5 DEF CookOK
<1>8. /\ ended' \in Seq(S) /\ Len(ended') = iRet + 1 /\ DOMAIN ended' = 1 .. iRet + 1
      /\ \A k \in 1 .. iRet : ended'[k] = E[k]
      /\ ended'[iRet + 1] = r
  BY <1>6a, <1>6, <1>7, Appended
<1>9. CookOK'
  <2>1. iRet' \in 0 .. iSize /\ iFlagPressure' \in Nat /\ posted' = posted
    BY <1>1, ArrayHoldsARead
  <2>2. ended' \in Seq([frame : FrameSet, whole : BOOLEAN]) /\ Len(ended') = iRet'
    BY <1>1, <1>5, <1>8
  <2>3. QED
    BY <1>0, <1>1, <2>1, <2>2 DEF CookOK
<1>10. CountOK'
  <2>1. 2 * iRet <= i
    <3>1. CASE i = 0
      BY <1>0, <3>1 DEF CountOK
    <3>2. CASE i > 0
      <4>1. Pos(iev) = Size(iev.frame) /\ Size(iev.frame) \in {2, 4}
        BY <1>0, <1>1, ValidIs
      <4>2. LastRead
        BY <1>0, <1>1, <3>2, <4>1, NextEvent
      <4>3. QED
        BY <1>0, <4>2 DEF CountOK
    <3>3. QED
      BY <1>2, <3>1, <3>2
  <2>2. 2 * iRet' <= i' + 1 /\ i' # 0
    BY <1>1, <1>2, <2>1
  <2>3. ~LastRead'
    BY <1>1 DEF LastRead, iev
  <2>4. QED
    BY <2>2, <2>3 DEF CountOK
<1>11. \A k \in 1 .. iRet : \E j \in 1 .. i :
         IsReport(readBuffer[j]) /\ readBuffer[j].frame = E[k].frame
  BY <1>0, <1>5, <1>7 DEF OrderInv, EndedRead
<1>12. EndedRead'
  <2>1. ASSUME NEW k \in 1 .. iRet + 1
        PROVE  \E j \in 1 .. i + 1 :
                 IsReport(readBuffer[j]) /\ readBuffer[j].frame = ended'[k].frame
    <3>1. CASE k = iRet + 1
      <4>1. i + 1 \in 1 .. i + 1
        BY <1>2
      <4>2. QED
        BY <4>1, <3>1, <1>1, <1>6, <1>8 DEF iev
    <3>2. CASE k \in 1 .. iRet
      <4>1. PICK j \in 1 .. i : IsReport(readBuffer[j]) /\ readBuffer[j].frame = E[k].frame
        BY <1>11, <3>2
      <4>2. j \in 1 .. i + 1
        BY <1>2
      <4>3. ended'[k] = E[k]
        BY <3>2, <1>8
      <4>4. QED
        BY <4>1, <4>2, <4>3
    <3>3. QED
      BY <2>1, <3>1, <3>2, <1>6a
  <2>2. QED
    BY <2>1, <1>1, <1>8 DEF EndedRead
<1>13. EndedInOrder'
  <2>1. ASSUME NEW k \in 1 .. iRet
        PROVE  E[k].frame.n < f.n
    <3>1. PICK j \in 1 .. i : IsReport(readBuffer[j]) /\ readBuffer[j].frame = E[k].frame
      BY <1>11
    <3>2. j \in DOMAIN readBuffer /\ j < i + 1
      BY <1>2
    <3>3. Chain(readBuffer)
      BY <1>0, <1>1 DEF BufferOK, Stream
    <3>4. Before(readBuffer[j], readBuffer[i + 1])
      BY <1>2, <3>2, <3>3 DEF Chain
    <3>5. QED
      BY <1>1, <3>1, <3>4 DEF Before, iev
  <2>2. ASSUME NEW k \in 1 .. iRet + 1, NEW j \in 1 .. iRet + 1, j < k
        PROVE  ended'[j].frame.n < ended'[k].frame.n
    <3>1. j \in 1 .. iRet
      BY <2>2, <1>6a
    <3>2. CASE k = iRet + 1
      BY <2>1, <3>1, <3>2, <1>6, <1>8
    <3>3. CASE k \in 1 .. iRet
      <4>1. ended'[j] = E[j] /\ ended'[k] = E[k]
        BY <3>1, <3>3, <1>8
      <4>2. E[j].frame.n < E[k].frame.n
        BY <3>1, <3>3, <2>2, <1>0, <1>5, <1>7 DEF OrderInv, EndedInOrder
      <4>3. QED
        BY <4>1, <4>2
    <3>4. QED
      BY <2>2, <1>6a, <3>2, <3>3
  <2>3. QED
    BY <2>2, <1>8 DEF EndedInOrder
<1>14. PostedInOrder' /\ PostedBefore'
  BY <1>0, <1>1 DEF OrderInv, PostedInOrder, PostedBefore, SentFrame
<1>15. Covered'
  <2>1. ASSUME NEW d \in Devices, NEW n \in DOMAIN sent[d], NEW g, g = sent[d][n]
        PROVE  Posted(g)' \/ Waits(g)' \/ Buffered(g)' \/ Ended(g)'
    <3>1. Posted(g) \/ Waits(g) \/ Buffered(g) \/ Ended(g)
      BY <1>0, <2>1 DEF OrderInv, Covered
    <3>2. Posted(g) => Posted(g)'
      BY <1>1 DEF Posted
    <3>3. Waits(g) => Waits(g)'
      BY <1>1 DEF Waits
    <3>4. ASSUME Ended(g) PROVE Ended(g)'
      <4>1. PICK k \in 1 .. iRet : E[k].frame = g
        BY <3>4, <1>5, <1>7 DEF Ended
      <4>2. k \in 1 .. iRet + 1 /\ ended'[k].frame = g
        BY <4>1, <1>1, <1>8
      <4>3. QED
        BY <4>2, <1>8 DEF Ended
    <3>5. ASSUME Buffered(g) PROVE Buffered(g)' \/ Ended(g)'
      <4>1. PICK j \in DOMAIN readBuffer :
              j > i /\ readBuffer[j] = Iev("EV_SYN", "SYN_REPORT", g)
        BY <3>5 DEF Buffered
      <4>2. CASE j = i + 1
        <5>1. f = g
          BY <4>1, <4>2, <1>1 DEF iev, Iev
        <5>2. iRet + 1 \in DOMAIN ended' /\ ended'[iRet + 1].frame = g
          BY <5>1, <1>1, <1>6, <1>8
        <5>3. QED
          BY <5>2 DEF Ended
      <4>3. CASE j # i + 1
        <5>1. j \in Nat
          BY <4>1, <1>2
        <5>2. j > i + 1
          BY <4>1, <4>3, <5>1, <1>2
        <5>3. QED
          BY <4>1, <5>2, <1>1 DEF Buffered
      <4>4. QED
        BY <4>2, <4>3
    <3>6. QED
      BY <3>1, <3>2, <3>3, <3>4, <3>5
  <2>2. QED
    BY <2>1, <1>1 DEF Covered
<1>16. QED
  BY <1>3, <1>4, <1>9, <1>10, <1>12, <1>13, <1>14, <1>15 DEF StreamInv, OrderInv

\* CookReport: a whole touch finds the flag at 0 and leaves it at 1 with the
\* pressure kept; a release right after it counts it to 2, which clears the
\* pressure.
LEMMA ReportKeeps ==
  ASSUME EventInv, CookReport
  PROVE  EventInv'
<1>0. /\ StreamInv /\ SentOK /\ CookOK /\ CookedInv /\ PartlyCooked /\ (OneTouch => ReleaseInv)
  BY DEF EventInv, StreamInv, CookedInv
<1>1. PICK f \in FrameSet, w \in BOOLEAN, x \in CookEvents, y \in CookEvents :
           /\ f = iev.frame /\ Valid(device, iev) /\ device \in Devices
           /\ w <=> Begun(f)
           /\ x = cookEvent[iRet + 1]
           /\ y = [x EXCEPT !.iPressure = PressureAtReport(iFlagPressure + 1, @)]
           /\ cookEvent'[iRet + 1] = y
           /\ \A k \in 1 .. iRet : cookEvent'[k] = cookEvent[k]
           /\ ended' = Append(ended, [frame |-> f, whole |-> w])
           /\ IsReport(iev) /\ pc = "cook" /\ i < Len(readBuffer) /\ i' = i + 1
           /\ iRet \in Nat /\ iRet' = iRet + 1
           /\ iFlagPressure \in Nat /\ iFlagPressure' = iFlagPressure + 1
           /\ UNCHANGED <<unread, readBuffer, posted>>
  BY ReportOne
<1>2. /\ Pos(iev) = Size(f) /\ Size(f) \in {2, 4} /\ (f.kind = "press" => Size(f) = 4)
      /\ f.kind # "key" => device \in TouchDevices
  BY <1>0, <1>1, ValidIs, KindsOfDevices
<1>3. PICK r, E : r = [frame |-> f, whole |-> w] /\ E = ended
  OBVIOUS
<1>4. /\ \A k \in 1 .. iRet : ended'[k] = ended[k]
      /\ ended'[iRet + 1] = r
  <2>1. E \in Seq([frame : FrameSet, whole : BOOLEAN]) /\ Len(E) = iRet
    BY <1>0, <1>3 DEF CookOK
  <2>2. ended' = Append(E, r)
    BY <1>1, <1>3
  <2>3. r \in [frame : FrameSet, whole : BOOLEAN]
    BY <1>1, <1>3
  <2>4. QED
    BY <1>1, <1>3, <2>1, <2>2, <2>3, Appended
<1>5. PICK q : q = [event |-> y, frame |-> f, whole |-> w]
  OBVIOUS
<1>6. PICK n \in Nat : n = iRet
  BY <1>1
<1>7. /\ \A k \in 1 .. n : Cooked(k)' = Cooked(k)
      /\ Cooked(n + 1)' = q
  <2>1. \A k \in 1 .. n : cookEvent'[k] = cookEvent[k] /\ ended'[k] = ended[k]
    BY <1>1, <1>4, <1>6
  <2>2. cookEvent'[n + 1] = y /\ ended'[n + 1].frame = f /\ ended'[n + 1].whole = w
    <3>1. r.frame = f /\ r.whole = w
      BY <1>3
    <3>2. cookEvent'[n + 1] = y
      BY <1>1, <1>6
    <3>3. QED
      BY <3>1, <3>2, <1>4, <1>6
  <2>3. QED
    BY <2>1, <2>2, <1>5 DEF Cooked
<1>8. ASSUME w
      PROVE  CookedTo(x, f, Pos(iev) - 1, iFlagPressure)
  <2>1. \E k \in 1 .. i + 1 : readBuffer[k] = InputEvents(f)[1]
    <3>1. PICK k \in 1 .. i : readBuffer[k] = InputEvents(f)[1]
      BY <1>1, <1>8 DEF Begun
    <3>2. k \in 1 .. i + 1
      BY <1>0, <1>1, NextEvent
    <3>3. QED
      BY <3>1, <3>2
  <2>2. Pos(iev) > 1
    BY <1>2
  <2>3. /\ i \in DOMAIN readBuffer /\ LastRead /\ Begun(readBuffer[i].frame)
        /\ readBuffer[i].frame = f /\ Pos(readBuffer[i]) = Pos(iev) - 1
    BY <1>0, <1>1, <2>1, <2>2, BegunBefore
  <2>4. QED
    BY <1>0, <1>1, <2>3 DEF PartlyCooked
<1>9. /\ iFlagPressure = 0 => y.iPressure = x.iPressure
      /\ iFlagPressure = 1 => y.iPressure = 0
      /\ y.iType = x.iType /\ y.iX = x.iX /\ y.iY = x.iY /\ y.iKey = x.iKey
  BY <1>1 DEF PressureAtReport, CookEvents
<1>10. WellCooked(q)
  BY <1>2, <1>5, <1>8, <1>9 DEF WellCooked, CookedTo
<1>11. CookedInv'
  <2>1. ~LastRead'
    BY <1>1 DEF LastRead, iev
  <2>2. WholeFramesAreCooked'
    BY <1>0, <1>1 DEF CookedInv, WholeFramesAreCooked
  <2>3. \A k \in 1 .. n + 1 : WellCooked(Cooked(k)')
    <3>1. TAKE k \in 1 .. n + 1
    <3>2. CASE k = n + 1
      BY <1>7, <1>10, <3>2
    <3>3. CASE k \in 1 .. n
      BY <1>0, <1>6, <1>7, <3>3 DEF CookedInv
    <3>4. QED
      BY <3>2, <3>3
  <2>4. QED
    BY <1>1, <1>6, <2>1, <2>2, <2>3 DEF CookedInv, PartlyCooked
<1>12. ASSUME OneTouch
       PROVE  ReleaseInv'
  <2>0. ReleaseInv
    BY <1>0, <1>12
  <2>1. ASSUME NEW p, Pressed(p)
        PROVE  Released(p, q)
    <3>1. SUFFICES ASSUME f.kind = "release", p.frame.kind = "press", p.whole
                   PROVE  y.iPressure = 0
      BY <1>5 DEF Released
    <3>2. iFlagPressure = 1 \/ \E d \in TouchDevices : FrontIsPress(d)
      BY <2>1, <3>1 DEF Pressed
    <3>3. ASSUME NEW d \in TouchDevices PROVE ~FrontIsPress(d)
      <4>1. d = device
        BY <1>2, <1>12, <3>1, <3>3 DEF OneTouch
      <4>2. readBuffer[i + 1].frame.kind = "release"
        BY <1>1, <3>1 DEF iev
      <4>3. QED
        BY <1>1, <4>1, <4>2 DEF FrontIsPress
    <3>4. QED
      BY <3>2, <3>3, <1>9
  <2>2. Pressed(q)'
    <3>1. ASSUME f.kind = "press", w
          PROVE  iFlagPressure' = 1
      BY <3>1, <1>1, <1>8 DEF CookedTo
    <3>2. QED
      BY <3>1, <1>5 DEF Pressed
  <2>3. PICK P : P = posted
    OBVIOUS
  <2>4. \A k \in 2 .. Len(P) : Released(P[k - 1], P[k])
    BY <2>0, <2>3 DEF ReleaseInv
  <2>5. \A k \in 2 .. n + 1 : Released(Cooked(k - 1)', Cooked(k)')
    <3>1. TAKE k \in 2 .. n + 1
    <3>2. PICK j : j = k - 1
      OBVIOUS
    <3>3. j \in 1 .. n /\ Cooked(j)' = Cooked(j)
      BY <1>7, <3>2
    <3>4. CASE k = n + 1
      <4>1. j = n /\ n > 0
        BY <3>2, <3>3, <3>4
      <4>2. Pressed(Cooked(j))
        BY <4>1, <1>6, <2>0 DEF ReleaseInv
      <4>3. PICK p : p = Cooked(j)
        OBVIOUS
      <4>4. Released(p, q)
        BY <2>1, <4>2, <4>3
      <4>5. QED
        BY <1>7, <3>2, <3>3, <3>4, <4>3, <4>4
    <3>5. CASE k \in 2 .. n
      <4>1. Released(Cooked(j), Cooked(k))
        BY <1>6, <2>0, <3>2, <3>5 DEF ReleaseInv
      <4>2. Cooked(k)' = Cooked(k)
        BY <1>7, <3>5
      <4>3. QED
        BY <3>2, <3>3, <4>1, <4>2
    <3>6. QED
      BY <3>4, <3>5
  <2>6. P # <<>> => Released(P[Len(P)], Cooked(1)')
    <3>1. CASE n = 0
      <4>1. ASSUME P # <<>> PROVE Released(P[Len(P)], q)
        <5>1. Pressed(posted[Len(posted)])
          BY <1>6, <2>0, <2>3, <3>1, <4>1 DEF ReleaseInv
        <5>2. QED
          BY <5>1, <2>1, <2>3
      <4>2. Cooked(1)' = q
        BY <1>7, <3>1
      <4>3. QED
        BY <4>1, <4>2
    <3>2. CASE n > 0
      <4>1. Cooked(1)' = Cooked(1)
        BY <1>7, <3>2
      <4>2. QED
        BY <1>6, <2>0, <2>3, <3>2, <4>1 DEF ReleaseInv
    <3>3. QED
      BY <3>1, <3>2
  <2>7. Pressed(Cooked(n + 1))'
    BY <1>7, <2>2
  <2>8. posted' = P /\ iRet' = n + 1 /\ n + 1 > 0 /\ n + 1 # 0
    BY <1>1, <1>6, <2>3
  <2>9. QED
    BY <2>4, <2>5, <2>6, <2>7, <2>8 DEF ReleaseInv
<1>13. QED
  BY <1>11, <1>12, ReportStreams DEF EventInv
-----------------------------------------------------------------------------
\* What process forgets when the array is full is one event, and no report:
\* a read of capacity events ends less than 2 * iSize of them.
LEMMA LastOfBuffer ==
  ASSUME StreamInv, Return, i # Len(readBuffer)
  PROVE  i < Len(readBuffer) /\ i + 1 = Len(readBuffer) /\ ~IsReport(iev)
<1>1. /\ pc = "cook" /\ iRet = iSize /\ SentOK
      /\ iSize \in Nat \ {0} /\ capacity \in Nat /\ capacity <= 2 * iSize
  BY ArrayHoldsARead DEF Return, Full, StreamInv
<1>2. PICK n \in Nat : n = Len(readBuffer)
  BY <1>1, BufferSent
<1>3. i \in 0 .. n /\ n <= capacity
  BY <1>1, <1>2 DEF StreamInv, BufferOK
<1>4. i \in Nat /\ i < n
  BY <1>2, <1>3
<1>5. 2 * iRet <= i + 1 /\ (LastRead => 2 * iRet <= i)
  BY DEF StreamInv, CountOK
<1>6. i + 1 = n /\ i > 0 /\ ~LastRead
  BY <1>1, <1>3, <1>4, <1>5
<1>7. Valid(device, iev) /\ device \in Devices
      /\ (i > 0 /\ Pos(iev) > 1 => LastRead)
  BY <1>1, <1>2, <1>4, NextEvent
<1>8. Pos(iev) \in 1 .. Size(iev.frame) /\ Size(iev.frame) \in {2, 4}
      /\ (IsReport(iev) <=> Pos(iev) = Size(iev.frame))
  BY <1>1, <1>7, ValidIs
<1>9. ~IsReport(iev)
  BY <1>6, <1>7, <1>8
<1>10. QED
  BY <1>2, <1>4, <1>6, <1>9

\* Return posts what was cooked.
LEMMA ReturnOne ==
  ASSUME EventInv, Return
  PROVE  \E n \in Nat : \E T \in Seq(PostedSet) :
           /\ n = iRet /\ Len(T) = n /\ DOMAIN T = 1 .. n
           /\ \A k \in 1 .. n : T[k] = Cooked(k) /\ T[k].frame = ended[k].frame
           /\ posted' = posted \o T
           /\ pc = "cook" /\ pc' = "wait"
           /\ readBuffer' = <<>> /\ i' = 0 /\ iRet' = 0 /\ ended' = <<>>
           /\ UNCHANGED <<unread, sent, cookEvent, iFlagPressure>>
<1>1. /\ pc = "cook" /\ pc' = "wait"
      /\ readBuffer' = <<>> /\ i' = 0 /\ iRet' = 0 /\ ended' = <<>>
      /\ UNCHANGED <<unread, sent, cookEvent, iFlagPressure>>
      /\ posted' = posted \o [k \in 1 .. iRet |-> Cooked(k)]
  BY DEF Return, kernelVars
<1>2. /\ cookEvent \in [1 .. iSize -> CookEvents] /\ iRet \in 0 .. iSize /\ iSize \in Nat
      /\ ended \in Seq([frame : FrameSet, whole : BOOLEAN]) /\ Len(ended) = iRet
  BY ArrayHoldsARead DEF EventInv, StreamInv, CookOK
<1>3. PICK n \in Nat : n = iRet
  BY <1>2
<1>4. PICK T : T = [k \in 1 .. n |-> Cooked(k)]
  OBVIOUS
<1>5. \A k \in 1 .. n : Cooked(k) \in PostedSet /\ Cooked(k).frame = ended[k].frame
  <2>1. TAKE k \in 1 .. n
  <2>2. cookEvent[k] \in CookEvents
    BY <1>2, <1>3
  <2>3. ended[k] \in [frame : FrameSet, whole : BOOLEAN]
    <3>1. PICK R : R = [frame : FrameSet, whole : BOOLEAN]
      OBVIOUS
    <3>2. ended \in Seq(R) /\ Len(ended) = n
      BY <1>2, <1>3, <3>1
    <3>3. ended[k] \in R
      BY <3>2
    <3>4. QED
      BY <3>1, <3>3
  <2>4. ended[k].frame \in FrameSet /\ ended[k].whole \in BOOLEAN
    BY <2>3
  <2>5. QED
    BY <2>2, <2>4 DEF Cooked, PostedSet
<1>6. /\ T \in Seq(PostedSet) /\ Len(T) = n /\ DOMAIN T = 1 .. n
      /\ \A k \in 1 .. n : T[k] = Cooked(k)
  BY <1>4, <1>5
<1>7. posted' = posted \o T
  BY <1>1, <1>3, <1>4
<1>8. QED
  BY <1>1, <1>3, <1>5, <1>6, <1>7

\* Return: the cooked events follow those of earlier turns, none is lost.
LEMMA ReturnKeeps ==
  ASSUME EventInv, Return
  PROVE  EventInv'
<1>0. /\ StreamInv /\ SentOK /\ UnreadOK /\ BufferOK /\ CookOK /\ CountOK /\ OrderInv
      /\ CookedInv /\ (OneTouch => ReleaseInv)
  BY DEF EventInv, StreamInv
<1>1. PICK n \in Nat, T \in Seq(PostedSet) :
           /\ n = iRet /\ Len(T) = n /\ DOMAIN T = 1 .. n
           /\ \A k \in 1 .. n : T[k] = Cooked(k) /\ T[k].frame = ended[k].frame
           /\ posted' = posted \o T
           /\ pc = "cook" /\ pc' = "wait"
           /\ readBuffer' = <<>> /\ i' = 0 /\ iRet' = 0 /\ ended' = <<>>
           /\ UNCHANGED <<unread, sent, cookEvent, iFlagPressure>>
  BY ReturnOne
<1>2. PICK P, Q : P = posted /\ Q = posted'
  OBVIOUS
<1>3. P \in Seq(PostedSet)
  BY <1>0, <1>2 DEF CookOK
<1>4. PICK m \in Nat : m = Len(P)
  BY <1>3
<1>5. /\ Q \in Seq(PostedSet) /\ Len(Q) = m + n /\ DOMAIN Q = 1 .. m + n
      /\ DOMAIN P = 1 .. m
      /\ \A k \in 1 .. m : Q[k] = P[k]
      /\ \A k \in m + 1 .. m + n : Q[k] = T[k - m]
  <2>1. Q = P \o T /\ T \in Seq(PostedSet)
    BY <1>1, <1>2
  <2>2. n \in Nat /\ Len(T) = n
    BY <1>1
  <2>3. DOMAIN P = 1 .. m
    BY <1>3, <1>4
  <2>4. Q \in Seq(PostedSet)
    BY <2>1, <1>3
  <2>5. Len(Q) = m + n /\ DOMAIN Q = 1 .. m + n
    <3>1. Len(Q) = Len(P) + Len(T)
      BY <2>1, <1>3
    <3>2. DOMAIN Q = 1 .. Len(Q)
      BY <2>4
    <3>3. QED
      BY <3>1, <3>2, <2>2, <1>4
  <2>6. \A k \in 1 .. m : Q[k] = P[k]
    BY <2>1, <2>2, <1>3, <1>4
  <2>7. \A k \in m + 1 .. m + n : Q[k] = T[k - m]
    BY <2>1, <2>2, <1>3, <1>4
  <2>8. QED
    BY <2>3, <2>4, <2>5, <2>6, <2>7
<1>6. DOMAIN ended = 1 .. n
  BY <1>0, <1>1 DEF CookOK
<1>7. /\ readBuffer \in Seq(IevSet) /\ device \in Devices /\ i \in 0 .. Len(readBuffer)
      /\ \A k \in DOMAIN readBuffer :
           /\ Valid(device, readBuffer[k]) /\ readBuffer[k].frame.dev = device
           /\ readBuffer[k].frame \in FrameSet
  BY <1>0, <1>1, BufferSent
<1>8. \A k \in 1 .. n : \E j \in DOMAIN readBuffer :
        IsReport(readBuffer[j]) /\ readBuffer[j].frame = T[k].frame
  <2>1. TAKE k \in 1 .. n
  <2>2. PICK j \in 1 .. i : IsReport(readBuffer[j]) /\ readBuffer[j].frame = ended[k].frame
    BY <1>0, <1>6 DEF OrderInv, EndedRead
  <2>3. j \in DOMAIN readBuffer
    BY <1>7
  <2>4. T[k].frame = ended[k].frame
    BY <1>1
  <2>5. QED
    BY <2>2, <2>3, <2>4
<1>9. SentOK' /\ UnreadOK'
  BY <1>0, <1>1 DEF SentOK, UnreadOK, Stream, EndsWell, Valid, SentFrame
<1>10. BufferOK' /\ CountOK'
  BY <1>1 DEF BufferOK, CountOK, LastRead
<1>11. CookOK'
  <2>1. iRet' \in 0 .. iSize
    BY <1>1, ArrayHoldsARead
  <2>2. ended' \in Seq([frame : FrameSet, whole : BOOLEAN]) /\ Len(ended') = iRet'
    BY <1>1
  <2>3. posted' \in Seq(PostedSet)
    BY <1>2, <1>5
  <2>4. QED
    BY <1>0, <1>1, <2>1, <2>2, <2>3 DEF CookOK
<1>12. DOMAIN ended' = {} /\ DOMAIN readBuffer' = {}
  BY <1>1
<1>13. EndedRead' /\ EndedInOrder'
  BY <1>12 DEF EndedRead, EndedInOrder
<1>14. ASSUME NEW k \in 1 .. n
       PROVE  /\ SentFrame(T[k].frame) /\ T[k].frame.dev = device
              /\ \A j \in DOMAIN unread[device] : T[k].frame.n < unread[device][j].frame.n
  <2>1. PICK j \in DOMAIN readBuffer :
          IsReport(readBuffer[j]) /\ readBuffer[j].frame = T[k].frame
    BY <1>8
  <2>2. SentFrame(T[k].frame) /\ T[k].frame.dev = device
    BY <2>1, <1>7 DEF Valid
  <2>3. \A p \in DOMAIN unread[device] : Before(readBuffer[j], unread[device][p])
    BY <1>0, <1>1, <2>1 DEF BufferOK, Join
  <2>4. QED
    BY <2>1, <2>2, <2>3 DEF Before
<1>15. PostedBefore'
  <2>1. ASSUME NEW k \in DOMAIN Q
        PROVE  LET f == Q[k].frame IN
               SentFrame(f) /\ \A j \in DOMAIN unread[f.dev] : f.n < unread[f.dev][j].frame.n
    <3>1. CASE k \in 1 .. m
      BY <3>1, <1>0, <1>2, <1>5 DEF OrderInv, PostedBefore
    <3>2. CASE k \in m + 1 .. m + n
      <4>1. PICK j : j = k - m
        OBVIOUS
      <4>2. j \in 1 .. n /\ Q[k] = T[j]
        BY <3>2, <4>1, <1>5
      <4>3. QED
        BY <4>2, <1>14
    <3>3. QED
      BY <2>1, <1>5, <3>1, <3>2
  <2>2. \A f : SentFrame(f) => SentFrame(f)'
    BY <1>1 DEF SentFrame
  <2>3. QED
    BY <1>1, <1>2, <1>12, <2>1, <2>2 DEF PostedBefore
<1>16. PostedInOrder'
  <2>1. ASSUME NEW k \in 1 .. n, NEW j \in 1 .. n, j < k
        PROVE  T[j].frame.n < T[k].frame.n
    BY <2>1, <1>0, <1>1, <1>6 DEF OrderInv, EndedInOrder
  <2>2. ASSUME NEW k \in 1 .. n, NEW j \in 1 .. m, P[j].frame.dev = T[k].frame.dev
        PROVE  P[j].frame.n < T[k].frame.n
    <3>1. PICK p \in DOMAIN readBuffer : readBuffer[p].frame = T[k].frame
      BY <1>8
    <3>2. QED
      BY <2>2, <3>1, <1>0, <1>2, <1>5 DEF OrderInv, PostedBefore
  <2>3. ASSUME NEW k \in DOMAIN Q, NEW j \in DOMAIN Q, j < k,
               Q[j].frame.dev = Q[k].frame.dev
        PROVE  Q[j].frame.n < Q[k].frame.n
    <3>0. k \in 1 .. m + n /\ j \in 1 .. m + n
      BY <1>5
    <3>1. CASE k <= m
      <4>1. k \in 1 .. m /\ j \in 1 .. m
        BY <2>3, <3>0, <3>1
      <4>2. Q[k] = P[k] /\ Q[j] = P[j]
        BY <4>1, <1>5
      <4>3. QED
        BY <2>3, <4>1, <4>2, <1>0, <1>2, <1>5 DEF OrderInv, PostedInOrder
    <3>2. CASE k > m
      <4>1. PICK p : p = k - m
        OBVIOUS
      <4>2. p \in 1 .. n /\ Q[k] = T[p]
        BY <3>0, <3>2, <4>1, <1>5
      <4>3. CASE j <= m
        <5>1. j \in 1 .. m /\ Q[j] = P[j]
          BY <3>0, <4>3, <1>5
        <5>2. QED
          BY <2>2, <2>3, <4>2, <5>1
      <4>4. CASE j > m
        <5>1. PICK q : q = j - m
          OBVIOUS
        <5>2. q \in 1 .. n /\ Q[j] = T[q] /\ q < p
          <6>1. j \in m + 1 .. m + n
            BY <3>0, <4>4
          <6>2. q \in 1 .. n
            BY <5>1, <6>1
          <6>3. q < p
            BY <2>3, <3>0, <4>1, <5>1
          <6>4. QED
            BY <5>1, <6>1, <6>2, <6>3, <1>5
        <5>3. QED
          BY <2>1, <4>2, <5>2
      <4>5. QED
        BY <3>0, <4>3, <4>4
    <3>3. QED
      BY <3>0, <3>1, <3>2
  <2>4. QED
    BY <1>2, <2>3 DEF PostedInOrder
<1>17. ASSUME i # Len(readBuffer)
       PROVE  i < Len(readBuffer) /\ i + 1 = Len(readBuffer) /\ ~IsReport(iev)
  BY <1>0, <1>17, LastOfBuffer
<1>18. Covered'
  <2>1. ASSUME NEW d \in Devices, NEW k \in DOMAIN sent[d], NEW g, g = sent[d][k]
        PROVE  Posted(g)' \/ Waits(g)'
    <3>1. Posted(g) \/ Waits(g) \/ Buffered(g) \/ Ended(g)
      BY <1>0, <2>1 DEF OrderInv, Covered
    <3>2. ASSUME Posted(g) PROVE Posted(g)'
      <4>1. PICK j \in 1 .. m : P[j].frame = g
        BY <3>2, <1>2, <1>5 DEF Posted
      <4>2. j \in 1 .. m + n /\ Q[j].frame = g
        BY <4>1, <1>5
      <4>3. QED
        BY <4>2, <1>2, <1>5 DEF Posted
    <3>3. Waits(g) => Waits(g)'
      BY <1>1 DEF Waits
    <3>4. ASSUME Ended(g) PROVE Posted(g)'
      <4>1. PICK j \in 1 .. n : ended[j].frame = g
        BY <3>4, <1>6 DEF Ended
      <4>2. T[j].frame = g
        BY <4>1, <1>1
      <4>3. PICK p : p = m + j
        OBVIOUS
      <4>4. p \in m + 1 .. m + n /\ p - m = j /\ p \in 1 .. m + n
        BY <4>3
      <4>5. Q[p] = T[j]
        BY <4>4, <1>5
      <4>6. QED
        BY <4>2, <4>4, <4>5, <1>2, <1>5 DEF Posted
    <3>5. ~Buffered(g)
      <4>1. SUFFICES ASSUME NEW j \in DOMAIN readBuffer, j > i,
                            readBuffer[j] = Iev("EV_SYN", "SYN_REPORT", g)
                     PROVE  FALSE
        BY DEF Buffered
      <4>2. j \in Nat /\ j <= Len(readBuffer) /\ i \in Nat
        BY <1>7, <4>1
      <4>3. i # Len(readBuffer)
        BY <4>1, <4>2
      <4>4. j = i + 1 /\ ~IsReport(iev)
        BY <1>17, <4>1, <4>2, <4>3
      <4>5. QED
        BY <4>1, <4>4 DEF iev, IsReport, Iev
    <3>6. QED
      BY <3>1, <3>2, <3>3, <3>4, <3>5
  <2>2. QED
    BY <2>1, <1>1 DEF Covered
<1>19. CookedInv'
  <2>1. ~LastRead' /\ 1 .. iRet' = {}
    BY <1>1 DEF LastRead
  <2>2. \A k \in DOMAIN Q : WellCooked(Q[k])
    <3>1. TAKE k \in DOMAIN Q
    <3>2. CASE k \in 1 .. m
      <4>1. WellCooked(P[k])
        BY <3>2, <1>0, <1>2, <1>5 DEF CookedInv, WholeFramesAreCooked
      <4>2. QED
        BY <3>2, <4>1, <1>5
    <3>3. CASE k \in m + 1 .. m + n
      <4>1. PICK j : j = k - m
        OBVIOUS
      <4>2. j \in 1 .. n /\ Q[k] = T[j]
        BY <3>3, <4>1, <1>5
      <4>3. T[j] = Cooked(j) /\ WellCooked(Cooked(j))
        BY <4>2, <1>0, <1>1 DEF CookedInv
      <4>4. QED
        BY <4>2, <4>3
    <3>4. QED
      BY <3>1, <3>2, <3>3, <1>5
  <2>3. WholeFramesAreCooked'
    BY <1>2, <2>2 DEF WholeFramesAreCooked
  <2>4. QED
    BY <2>1, <2>3 DEF CookedInv, PartlyCooked
<1>20. ASSUME OneTouch
       PROVE  ReleaseInv'
  <2>0. ReleaseInv
    BY <1>0, <1>20
  <2>1. ASSUME NEW d \in TouchDevices, FrontIsPress(d)
        PROVE  FrontIsPress(d)'
    <3>1. unread[d] # <<>> /\ unread[d][1].frame.kind = "press"
      <4>1. CASE device = d /\ i < Len(readBuffer)
        <5>1. i + 1 = Len(readBuffer) /\ ~IsReport(iev)
          BY <4>1, <1>7, <1>17
        <5>2. unread[device] # <<>> /\ unread[device][1].frame = iev.frame
          BY <4>1, <5>1, <1>0, <1>1, NextEvent
        <5>3. iev.frame.kind = "press"
          BY <2>1, <4>1, <1>1 DEF FrontIsPress, iev
        <5>4. QED
          BY <4>1, <5>2, <5>3
      <4>2. CASE ~(device = d /\ i < Len(readBuffer))
        BY <2>1, <4>2 DEF FrontIsPress
      <4>3. QED
        BY <4>1, <4>2
    <3>2. QED
      BY <3>1, <1>1 DEF FrontIsPress
  <2>2. \A p : Pressed(p) => Pressed(p)'
    BY <1>1, <2>1, PressedKept
  <2>3. \A k \in 2 .. m : Released(P[k - 1], P[k])
    BY <2>0, <1>2, <1>4 DEF ReleaseInv
  <2>4. \A k \in 2 .. n : Released(T[k - 1], T[k])
    <3>1. TAKE k \in 2 .. n
    <3>2. PICK j : j = k - 1
      OBVIOUS
    <3>3. j \in 1 .. n /\ k \in 1 .. n
      BY <3>2
    <3>4. T[j] = Cooked(j) /\ T[k] = Cooked(k)
      BY <3>3, <1>1
    <3>5. Released(Cooked(j), Cooked(k))
      BY <2>0, <1>1, <3>2 DEF ReleaseInv
    <3>6. QED
      BY <3>2, <3>4, <3>5
  <2>5. ASSUME m > 0, n > 0 PROVE Released(P[m], T[1])
    <3>1. P # <<>> /\ T[1] = Cooked(1)
      BY <2>5, <1>1, <1>4
    <3>2. QED
      BY <2>0, <2>5, <3>1, <1>1, <1>2, <1>4 DEF ReleaseInv
  <2>6. \A k \in 2 .. m + n : Released(Q[k - 1], Q[k])
    <3>1. TAKE k \in 2 .. m + n
    <3>2. PICK j : j = k - 1
      OBVIOUS
    <3>3. j \in 1 .. m + n /\ k \in 1 .. m + n
      BY <3>2
    <3>4. CASE k <= m
      <4>1. k \in 2 .. m /\ Q[k] = P[k] /\ Q[j] = P[j]
        BY <3>2, <3>3, <3>4, <1>5
      <4>2. QED
        BY <3>2, <4>1, <2>3
    <3>5. CASE k = m + 1
      <4>1. j \in 1 .. m /\ j = m /\ k \in m + 1 .. m + n /\ k - m = 1 /\ m > 0 /\ n > 0
        BY <3>2, <3>3, <3>5
      <4>2. Q[k] = T[1] /\ Q[j] = P[m]
        BY <4>1, <1>5
      <4>3. QED
        BY <3>2, <4>1, <4>2, <2>5
    <3>6. CASE k > m + 1
      <4>1. PICK p, q : p = k - m /\ q = j - m
        OBVIOUS
      <4>2. p \in 2 .. n /\ q = p - 1 /\ j \in m + 1 .. m + n /\ k \in m + 1 .. m + n
        BY <3>2, <3>3, <3>6, <4>1
      <4>3. Q[k] = T[p] /\ Q[j] = T[q]
        BY <4>1, <4>2, <1>5
      <4>4. QED
        BY <3>2, <4>2, <4>3, <2>4
    <3>7. QED
      BY <3>3, <3>4, <3>5, <3>6
  <2>7. ASSUME Q # <<>> PROVE Pressed(Q[m + n])'
    <3>1. CASE n > 0
      <4>1. m + n \in m + 1 .. m + n /\ (m + n) - m = n /\ n \in 1 .. n
        BY <3>1
      <4>2. Q[m + n] = T[n] /\ T[n] = Cooked(n)
        BY <4>1, <1>1, <1>5
      <4>3. Pressed(Cooked(n))
        BY <2>0, <3>1, <1>1 DEF ReleaseInv
      <4>4. PICK p : p = Q[m + n]
        OBVIOUS
      <4>5. Pressed(p)
        BY <4>2, <4>3, <4>4
      <4>6. QED
        BY <2>2, <4>4, <4>5
    <3>2. CASE n = 0
      <4>1. m > 0
        BY <2>7, <3>2, <1>5
      <4>2. m + n \in 1 .. m /\ P # <<>> /\ m + n = m
        BY <3>2, <4>1, <1>4
      <4>3. Q[m + n] = P[m]
        BY <4>2, <1>5
      <4>4. PICK p : p = P[m]
        OBVIOUS
      <4>5. Pressed(p)
        BY <2>0, <3>2, <4>2, <4>4, <1>1, <1>2, <1>4 DEF ReleaseInv
      <4>6. QED
        BY <2>2, <4>3, <4>4, <4>5
    <3>3. QED
      BY <3>1, <3>2
  <2>8. iRet' = 0 /\ Len(Q) = m + n /\ posted' = Q
    BY <1>1, <1>2, <1>5
  <2>9. (\A k \in 2 .. Len(posted) : Released(posted[k - 1], posted[k]))'
    BY <2>6, <2>8
  <2>10. (posted # <<>> => Pressed(posted[Len(posted)]))'
    BY <2>7, <2>8
  <2>11. ~(iRet' > 0) /\ 2 .. iRet' = {}
    BY <2>8
  <2>12. QED
    BY <2>9, <2>10, <2>11 DEF ReleaseInv
<1>21. QED
  BY <1>9, <1>10, <1>11, <1>13, <1>15, <1>16, <1>18, <1>19, <1>20
  DEF EventInv, StreamInv, OrderInv

-----------------------------------------------------------------------------
\* A step that changes no variable.
LEMMA StutterKeeps ==
  ASSUME EventInv, UNCHANGED vars
  PROVE  EventInv'
<1>1. /\ UNCHANGED <<unread, sent, pc, readBuffer, i, iRet, ended>>
      /\ UNCHANGED <<cookEvent, iFlagPressure, posted>>
  BY DEF vars, kernelVars, processVars
<1>2. StreamInv /\ OrderInv /\ CookedInv /\ (OneTouch => ReleaseInv)
  BY DEF EventInv
<1>3. device' = device
  BY <1>1 DEF device
<1>4. SentOK' /\ UnreadOK'
  BY <1>1, <1>2 DEF StreamInv, SentOK, UnreadOK, Stream, EndsWell, Valid, SentFrame
<1>5. BufferOK'
  BY <1>1, <1>2, <1>3 DEF StreamInv, BufferOK, Stream, EndsWell, Valid, SentFrame
<1>6. CookOK' /\ CountOK'
  BY <1>1, <1>2 DEF StreamInv, CookOK, CountOK, LastRead
<1>7. EndedRead' /\ EndedInOrder' /\ PostedInOrder'
  BY <1>1, <1>2 DEF OrderInv, EndedRead, EndedInOrder, PostedInOrder
<1>8. PostedBefore'
  BY <1>1, <1>2 DEF OrderInv, PostedBefore, SentFrame
<1>9. Covered'
  BY <1>1, <1>2 DEF OrderInv, Covered, Posted, Waits, Buffered, Ended
<1>10. CookedInv' /\ \A k \in 1 .. iRet : Cooked(k)' = Cooked(k)
  BY <1>1, <1>2, CookedKept
<1>11. \A d \in TouchDevices : FrontIsPress(d) => FrontIsPress(d)'
  BY <1>1, <1>3 DEF FrontIsPress
<1>12. \A p : Pressed(p) => Pressed(p)'
  BY <1>1, <1>11, PressedKept
<1>13. iRet \in Nat
  BY <1>2, ArrayHoldsARead DEF StreamInv, CookOK
<1>14. OneTouch => ReleaseInv'
  BY <1>1, <1>2, <1>10, <1>12, <1>13, ReleaseKept
<1>15. QED
  BY <1>4, <1>5, <1>6, <1>7, <1>8, <1>9, <1>10, <1>14 DEF EventInv, StreamInv, OrderInv

\* The inductive invariant of EventDevice.
THEOREM EventsInvariant == Spec => []EventInv
<1>1. ASSUME EventInv, [Next]_vars PROVE EventInv'
  <2>1. ASSUME NEW d \in Devices, Send(d) PROVE EventInv'
    BY <1>1, <2>1, SendStreams, SendKeeps DEF EventInv
  <2>2. ASSUME NEW d \in Devices, Read(d) PROVE EventInv'
    BY <1>1, <2>2, ReadKeeps
  <2>3. CASE CookAbs
    BY <1>1, <2>3, AbsKeeps
  <2>4. CASE CookKey
    BY <1>1, <2>4, KeyKeeps
  <2>5. CASE CookReport
    BY <1>1, <2>5, ReportKeeps
  <2>6. CASE CookOther
    BY <1>1, <2>6, OtherKeeps
  <2>7. CASE Return
    BY <1>1, <2>7, ReturnKeeps
  <2>8. CASE UNCHANGED vars
    BY <1>1, <2>8, StutterKeeps
  <2>9. QED
    BY <1>1, <2>1, <2>2, <2>3, <2>4, <2>5, <2>6, <2>7, <2>8 DEF Next
<1>2. QED
  BY <1>1, InitEvents, PTL DEF Spec

\* Every frame of a device becomes one cooked event and their order is kept,
\* for every size of the read and of the array with capacity <= 2 * iSize
\* (EventDevice.cpp:192, 237-241).
THEOREM FramesAreInOrder == Spec => []FramesInOrder
<1>1. EventInv => FramesInOrder
  <2>1. SUFFICES ASSUME EventInv PROVE FramesInOrder
    OBVIOUS
  <2>2. PostedInOrder /\ PostedBefore /\ Covered /\ SentOK /\ BufferOK
    BY <2>1 DEF EventInv, OrderInv, StreamInv
  <2>3. ASSUME pc = "wait", NEW d \in Devices, NEW n \in DOMAIN sent[d], NEW f, f = sent[d][n]
        PROVE  Posted(f) <=> ~Waits(f)
    <3>1. DOMAIN readBuffer = {} /\ DOMAIN ended = {}
      BY <2>2, <2>3 DEF BufferOK
    <3>2. Posted(f) \/ Waits(f)
      BY <2>2, <2>3, <3>1 DEF Covered, Buffered, Ended
    <3>3. ASSUME Posted(f), Waits(f) PROVE FALSE
      <4>1. PICK j \in DOMAIN unread[f.dev] :
              unread[f.dev][j] = Iev("EV_SYN", "SYN_REPORT", f)
        BY <3>3 DEF Waits
      <4>2. unread[f.dev][j].frame = f
        BY <4>1 DEF Iev
      <4>3. f.n < unread[f.dev][j].frame.n
        BY <2>2, <3>3, <4>1 DEF PostedBefore, Posted
      <4>4. f.n \in Nat
        BY <2>2, <2>3 DEF SentOK, FrameSet
      <4>5. QED
        BY <4>2, <4>3, <4>4
    <3>4. QED
      BY <3>2, <3>3
  <2>4. QED
    BY <2>2, <2>3 DEF FramesInOrder, PostedInOrder
<1>2. QED
  BY <1>1, EventsInvariant, PTL

\* A touch or a key that was read in one piece is cooked to itself, whatever the
\* array and iFlagPressure held before (EventDevice.cpp:81-86, 115-125, 211-236).
THEOREM WholeFramesAreRight == Spec => []WholeFramesAreCooked
<1>1. EventInv => WholeFramesAreCooked
  BY DEF EventInv, CookedInv
<1>2. QED
  BY <1>1, EventsInvariant, PTL

\* With one touchscreen, a release that is cooked right after a touch that was
\* read in one piece ends in an event without pressure, however many reads and
\* calls of process lie between them (EventDevice.cpp:216, 231-234).
THEOREM ReleasesEndPresses == Spec => []ReleaseAfterItsPress
<1>1. EventInv => ReleaseAfterItsPress
  BY DEF EventInv, OneTouch, ReleaseInv, ReleaseAfterItsPress
<1>2. QED
  BY <1>1, EventsInvariant, PTL
=============================================================================
