----------------------------- MODULE EventDevice -----------------------------
(***************************************************************************)
(* EventDevice::process of frameworks/inputmanager/EventDevice.cpp, as     *)
(* inputReaderThread of packages/inputmanager calls it: the input events   *)
(* of all devices are cooked, one device at a time, into one array whose   *)
(* elements are never reset, and the cooked events are handed to the       *)
(* dispatch thread.                                                        *)
(*                                                                         *)
(* The value of an input event is the number of its frame (the events up   *)
(* to a SYN_REPORT), so that a CookEvent shows which frames it is made of. *)
(* Which device has its turn is InputReader's business; the axes that are  *)
(* copied like ABS_MT_POSITION_Y, and the time, are left out.              *)
(***************************************************************************)
EXTENDS Integers, Sequences

FS == INSTANCE FiniteSetsExt

CONSTANTS
  TouchDevices, KeyDevices,
  WithButton,   \* touchscreens that report BTN_TOUCH, the others SYN_MT_REPORT
  capacity,     \* input events that one read takes at most (256)
  iSize,        \* elements of the caller's array (128)
  MaxFrames     \* bound: frames that the devices send

ASSUME DevicesAreOfOneKind ==
  TouchDevices \cap KeyDevices = {} /\ WithButton \subseteq TouchDevices

\* A frame is at least two input events.
ASSUME ArrayHoldsARead ==
  /\ capacity \in Nat \ {0} /\ iSize \in Nat \ {0} /\ MaxFrames \in Nat
  /\ capacity <= 2 * iSize

VARIABLES
  unread,         \* kernel: the input events of each device, oldest first
  sent,           \* history: the frames that each device has sent
  cookEvent,      \* the array of inputReaderThread
  iFlagPressure,  \* the static variable of process, one for all devices
  pc,             \* inputReaderThread: "wait" in readOnce, or "cook" in process
  readBuffer, i, iRet,  \* process: what was read, the events of it that are
                        \* cooked, and the cooked events that are complete
  ended,          \* history: the frame that ended each of these
  posted          \* events given to add_task, with the frame that ended each

kernelVars == <<unread, sent>>
processVars == <<pc, readBuffer, i, iRet, ended>>
vars == <<kernelVars, processVars, cookEvent, iFlagPressure, posted>>

Devices == TouchDevices \cup KeyDevices

Junk == -1        \* a value that no device sends
JunkEvent == [iType |-> "junk", iX |-> Junk, iY |-> Junk, iKey |-> "none",
              iPressure |-> Junk]

\* The array is not initialised.
Init ==
  /\ unread = [d \in Devices |-> <<>>]
  /\ sent = [d \in Devices |-> <<>>]
  /\ cookEvent = [k \in 1 .. iSize |-> JunkEvent]
  /\ iFlagPressure = 0
  /\ pc = "wait"
  /\ readBuffer = <<>> /\ i = 0 /\ iRet = 0 /\ ended = <<>>
  /\ posted = <<>>
-----------------------------------------------------------------------------
(* The devices.  The kernel lets a reader see whole frames only.           *)

Frame(d, kind) == [dev |-> d, kind |-> kind, n |-> Len(sent[d]) + 1]

Iev(type, code, frame) ==
  [type |-> type, code |-> code, value |-> frame.n, frame |-> frame]

Contact(frame) ==
  IF frame.dev \in WithButton THEN Iev("EV_KEY", "BTN_TOUCH", frame)
                              ELSE Iev("EV_SYN", "SYN_MT_REPORT", frame)

InputEvents(frame) ==
  LET report == Iev("EV_SYN", "SYN_REPORT", frame) IN
  CASE frame.kind = "press" ->
         <<Iev("EV_ABS", "ABS_MT_POSITION_X", frame),
           Iev("EV_ABS", "ABS_MT_POSITION_Y", frame), Contact(frame), report>>
    [] frame.kind = "release" -> <<Contact(frame), report>>
    [] frame.kind = "key" -> <<Iev("EV_KEY", "KEY_HOME", frame), report>>

FramesSent == FS!MapThenSumSet(LAMBDA d : Len(sent[d]), Devices)

Touched(d) == sent[d] # <<>> /\ sent[d][Len(sent[d])].kind = "press"

Kinds(d) == IF d \in KeyDevices THEN {"key"}
            ELSE {"press"} \cup (IF Touched(d) THEN {"release"} ELSE {})

Send(d) ==
  /\ FramesSent < MaxFrames
  /\ \E kind \in Kinds(d) :
       /\ sent' = [sent EXCEPT ![d] = Append(@, Frame(d, kind))]
       /\ unread' = [unread EXCEPT ![d] = @ \o InputEvents(Frame(d, kind))]
  /\ UNCHANGED <<processVars, cookEvent, iFlagPressure, posted>>
-----------------------------------------------------------------------------
(* process.                                                                *)

\* read gives as many input events as there are and the buffer holds.
Read(d) ==
  /\ pc = "wait" /\ unread[d] # <<>>
  /\ LET count == IF Len(unread[d]) < capacity THEN Len(unread[d]) ELSE capacity
     IN  /\ readBuffer' = SubSeq(unread[d], 1, count)
         /\ unread' = [unread EXCEPT ![d] = SubSeq(@, count + 1, Len(@))]
  /\ pc' = "cook"
  /\ UNCHANGED <<sent, cookEvent, iFlagPressure, i, iRet, ended, posted>>

\* Variant: the pressure, which the panel does not send, is left as it was.
CookTouchEventWithoutPressure(iev, ev) ==
  [ev EXCEPT !.iType = "TOUCHSCREEN",
             !.iX = IF iev.code = "ABS_MT_POSITION_X" THEN iev.value ELSE @,
             !.iY = IF iev.code = "ABS_MT_POSITION_Y" THEN iev.value ELSE @]

CookTouchEvent(iev, ev) ==
  LET x == iev.code = "ABS_MT_POSITION_X"
      y == iev.code = "ABS_MT_POSITION_Y"
  IN  [ev EXCEPT !.iType = "TOUCHSCREEN",
                 !.iX = IF x THEN iev.value ELSE @,
                 !.iPressure = IF x THEN 1 ELSE @,
                 !.iY = IF y THEN iev.value ELSE @]

CookKeyEvent(iev, ev) ==
  [ev EXCEPT !.iKey = iev.code,
             !.iType = IF iev.code = "BTN_TOUCH" THEN "TOUCHSCREEN" ELSE "KEYEVENT"]

\* Variant: the array is left one short.
FullOneShort == iRet + 1 >= iSize

\* process has filled the array and returns.
Full == iRet = iSize

\* Variant: the flag is tested before it is counted up.
PressureAtNextReport(flag, iPressure) == IF flag = 3 THEN 0 ELSE iPressure

PressureAtReport(flag, iPressure) == IF flag = 2 THEN 0 ELSE iPressure

\* The turn of the loop for one input event of some type.
iev == readBuffer[i + 1]
Cook(type) ==
  /\ pc = "cook" /\ i < Len(readBuffer) /\ ~Full
  /\ iev.type = type
  /\ i' = i + 1
  /\ UNCHANGED <<kernelVars, pc, readBuffer, posted>>

CookAbs ==
  /\ Cook("EV_ABS")
  /\ cookEvent' = [cookEvent EXCEPT ![iRet + 1] = CookTouchEvent(iev, @)]
  /\ iFlagPressure' = 0
  /\ UNCHANGED <<iRet, ended>>

CookKey ==
  /\ Cook("EV_KEY")
  /\ cookEvent' = [cookEvent EXCEPT ![iRet + 1] = CookKeyEvent(iev, @)]
  /\ UNCHANGED <<iFlagPressure, iRet, ended>>

\* The frame was in the buffer from its first input event.
Begun(frame) == \E k \in 1 .. i : readBuffer[k] = InputEvents(frame)[1]

CookReport ==
  /\ Cook("EV_SYN") /\ iev.code = "SYN_REPORT"
  /\ iFlagPressure' = iFlagPressure + 1
  /\ cookEvent' = [cookEvent EXCEPT
       ![iRet + 1].iPressure = PressureAtReport(iFlagPressure + 1, @)]
  /\ iRet' = iRet + 1
  /\ ended' = Append(ended, [frame |-> iev.frame, whole |-> Begun(iev.frame)])

CookOther ==
  /\ Cook("EV_SYN") /\ iev.code # "SYN_REPORT"
  /\ UNCHANGED <<cookEvent, iFlagPressure, iRet, ended>>

Cooked(k) ==
  [event |-> cookEvent[k], frame |-> ended[k].frame, whole |-> ended[k].whole]

\* process returns what it cooked, and the caller posts it.
Return ==
  /\ pc = "cook" /\ (i = Len(readBuffer) \/ Full)
  /\ posted' = posted \o [k \in 1 .. iRet |-> Cooked(k)]
  /\ pc' = "wait"
  /\ readBuffer' = <<>> /\ i' = 0 /\ iRet' = 0 /\ ended' = <<>>
  /\ UNCHANGED <<kernelVars, cookEvent, iFlagPressure>>

Next ==
  \/ \E d \in Devices : Send(d) \/ Read(d)
  \/ CookAbs \/ CookKey \/ CookReport \/ CookOther \/ Return

Spec == Init /\ [][Next]_vars
-----------------------------------------------------------------------------
Posted(frame) == \E k \in DOMAIN posted : posted[k].frame = frame
Waits(frame) ==
  \E k \in DOMAIN unread[frame.dev] :
    unread[frame.dev][k] = Iev("EV_SYN", "SYN_REPORT", frame)

\* However the reads cut up what the devices send, every frame becomes one
\* cooked event and those of a device stay in order: process returns at the
\* size of the array and forgets the rest of its buffer, which no read of 256
\* input events comes to (EventDevice.cpp:192, 237-241).
FramesInOrder ==
  /\ \A k \in DOMAIN posted, j \in DOMAIN posted :
       j < k /\ posted[j].frame.dev = posted[k].frame.dev =>
         posted[j].frame.n < posted[k].frame.n
  /\ pc = "wait" =>
       \A d \in Devices : \A n \in DOMAIN sent[d] :
         Posted(sent[d][n]) <=> ~Waits(sent[d][n])

WellCooked(p) ==
  p.whole =>
    /\ p.frame.kind = "press" =>
         /\ p.event.iType = "TOUCHSCREEN" /\ p.event.iPressure = 1
         /\ p.event.iX = p.frame.n /\ p.event.iY = p.frame.n
    /\ p.frame.kind = "key" =>
         p.event.iType = "KEYEVENT" /\ p.event.iKey = "KEY_HOME"

\* A touch or a key that was read in one piece is cooked to itself, whatever
\* other devices and other reads have left in the array and in iFlagPressure
\* (EventDevice.cpp:81-86, 115-125, 211-236).
WholeFramesAreCooked == \A k \in DOMAIN posted : WellCooked(posted[k])

OneTouch == \A c, d \in TouchDevices : c = d

Released(p, q) ==
  q.frame.kind = "release" /\ p.frame.kind = "press" /\ p.whole => q.event.iPressure = 0

\* A touch that was read in one piece and its release, cooked one after the
\* other, end in an event without pressure, be it in one read, in two or in
\* three; for a board with one touchscreen (EventDevice.cpp:216, 231-234).
ReleaseAfterItsPress ==
  OneTouch =>
    \A k \in 2 .. Len(posted) : Released(posted[k - 1], posted[k])

\* What is handed over at a SYN_REPORT is a complete event, of a release as
\* of a touch: "the event of the single-touch screen is complete"
\* (EventDevice.cpp:235).
TouchIsComplete ==
  \A k \in DOMAIN posted :
    posted[k].frame.kind = "release" /\ posted[k].whole =>
      posted[k].event.iType = "TOUCHSCREEN" /\ posted[k].event.iPressure = 0
=============================================================================
