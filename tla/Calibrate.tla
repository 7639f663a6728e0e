------------------------------ MODULE Calibrate ------------------------------
(***************************************************************************)
(* The touchscreen calibration of frameworks/calibrate/Calibrate.cpp:      *)
(* startCalibrate shows five targets one after the other, waits for a tap  *)
(* on each (showTargetToLCD), computes mtCalibrateInfo from where the      *)
(* panel says the taps were, and saves it; readConfigSetCalibrateInfo      *)
(* finds it again when the system starts.                                  *)
(*                                                                         *)
(* The panel reports kx * X + bx for a touch at column X and ky * Y + by   *)
(* at row Y, each on either of its axes.  The user touches within Aims of  *)
(* the target.  iKx and iKy, doubles in the code, are the exact fractions  *)
(* kxNum / kxDen and kyNum / kyDen.  Drawing is left out.                  *)
(***************************************************************************)
EXTENDS Integers, Sequences

CONSTANTS
  iXres, iYres, iOffset,  \* the screen, and the margin of the targets (50)
  Panels,       \* what the panel may be like: [swap, kx, ky, bx, by]
  Aims,         \* how far from each target the user touches: <<dx, dy>>
  AimError,     \* and at most how far
  Garbage,      \* what the stack holds where a point was never assigned
  Uninitialised,  \* mtCalibrateInfo as the constructor leaves it
  Absent, Empty,  \* no file, and a file of no bytes
  MaxTouches,   \* bound: frames in which the panel is touched, from the beginning
                \* of one calibration to that of the next
  MaxUnread,    \* bound: frames that are not yet read
  MaxRuns       \* bound: starts of the system and calls of startCalibrate

Abs(n) == IF n < 0 THEN -n ELSE n

ASSUME AimsOK ==
  /\ AimError \in Nat
  /\ Aims \in [1 .. 5 -> SUBSET ((-AimError .. AimError) \X (-AimError .. AimError))]

\* The targets of a row are more than half of the screen apart, errors included
\* (a screen of 320 columns allows for 19).
ASSUME ScreenOK ==
  /\ iXres \in Nat /\ iYres \in Nat /\ iOffset \in Nat
  /\ 4 * iOffset + 6 * AimError < iXres /\ 2 * iOffset < iYres

\* A panel that moves more between the first two targets, along a row, than
\* across it by two taps that miss: what startCalibrate takes for granted when
\* it tells the axes apart.
ASSUME PanelsOK ==
  /\ Panels \subseteq [swap : BOOLEAN, kx : Int, ky : Int, bx : Int, by : Int]
  /\ \A p \in Panels :
       2 * AimError * Abs(p.ky) < (iXres - 2 * iOffset - 2 * AimError) * Abs(p.kx)
ASSUME BoundsOK ==
  MaxTouches \in Nat /\ MaxUnread \in Nat /\ MaxRuns \in Nat \ {0}

VARIABLES
  panel,
  pc,           \* "start" (of the system), "target", "remove", "create",
                \* "write", "up"
  target,       \* the target that is shown
  tPoint_L,     \* where the panel says each target was touched
  mInterchangeXY, info, mHasCalibrated,
  file,         \* /etc/calibrateInfo: Absent, Empty or what was written
  touched,      \* the finger is on the panel
  unread,       \* kernel: frames that readOnce has not read, oldest first
  hurried,      \* history: the user touched again before a tap was read, or
                \* before the calibration began
  last,         \* history: what startCalibrate computed when it last returned
  touches, runs

userVars == <<panel, touched, hurried, touches>>
memVars == <<target, tPoint_L, mInterchangeXY, info, mHasCalibrated>>
vars == <<userVars, memVars, pc, file, unread, last, runs>>

tPoint == <<[iX |-> iOffset, iY |-> iOffset],
            [iX |-> iXres - iOffset, iY |-> iOffset],
            [iX |-> iXres - iOffset, iY |-> iYres - iOffset],
            [iX |-> iOffset, iY |-> iYres - iOffset],
            [iX |-> iXres \div 2, iY |-> iYres \div 2]>>
Targets == 1 .. 5

\* What the panel says of a touch.
Raw(x, y) ==
  LET across == panel.kx * x + panel.bx
      down == panel.ky * y + panel.by
  IN  IF panel.swap THEN [iX |-> down, iY |-> across]
                    ELSE [iX |-> across, iY |-> down]

Swapped(p) == [iX |-> p.iY, iY |-> p.iX]

Init ==
  /\ panel \in Panels
  /\ pc = "start"
  /\ target = 1
  /\ tPoint_L \in [Targets -> Garbage]
  /\ mInterchangeXY = FALSE
  /\ info = Uninitialised
  /\ mHasCalibrated = FALSE
  /\ file = Absent
  /\ touched = FALSE
  /\ unread = <<>>
  /\ hurried = FALSE
  /\ last = Uninitialised
  /\ touches = 0
  /\ runs = 1
-----------------------------------------------------------------------------
(* The user, who taps the target that is shown, or the last one that was     *)
(* when the system is up: the kernel keeps what nobody reads.                *)

Touch ==
  /\ pc \in {"target", "up"}
  /\ touches < MaxTouches /\ Len(unread) < MaxUnread
  /\ touches' = touches + 1
  /\ \E a \in Aims[target] :
       unread' = Append(unread, [iPressure |-> 1,
         at |-> Raw(tPoint[target].iX + a[1], tPoint[target].iY + a[2])])
  /\ hurried' = (hurried \/ (~touched /\ unread # <<>>))
  /\ touched' = TRUE
  /\ UNCHANGED <<panel, memVars, pc, file, last, runs>>

\* A process that starts has not opened the panel yet.
Lift ==
  /\ touched /\ Len(unread) < MaxUnread
  /\ touched' = FALSE
  /\ IF pc = "start" THEN UNCHANGED unread
     ELSE \E g \in Garbage : unread' = Append(unread, [iPressure |-> 0, at |-> g])
  /\ UNCHANGED <<panel, hurried, touches, memVars, pc, file, last, runs>>
-----------------------------------------------------------------------------
(* startCalibrate.                                                         *)

Zeroed == [mInterchangeXY |-> FALSE, kxNum |-> 0, kxDen |-> 1, kyNum |-> 0, kyDen |-> 1,
           iXLc |-> 0, iYLc |-> 0, iXc |-> 0, iYc |-> 0]

\* Begins with the system, or when somebody calls it again.  Whatever is still
\* to be read then is read as an answer to the first target.
Begin ==
  /\ pc' = "target"
  /\ target' = 1
  /\ \E g \in Garbage : tPoint_L' = [i \in Targets |-> g]
  /\ mInterchangeXY' = FALSE
  /\ info' = Zeroed
  /\ touches' = 0
  /\ hurried' = (touched \/ unread # <<>>)
  /\ UNCHANGED <<panel, touched, unread, file, last>>

\* After the second target: X and Y are to be swapped if the panel moved more
\* in Y between two points of one row.
Interchanged(L) ==
  Abs(L[2].iX - L[1].iX) < Abs(L[2].iY - L[1].iY)

\* Variant: the first two points are left as they were read.
AfterSecond_AsRead(L) == L
AfterSecond(L) ==
  IF Interchanged(L) THEN [L EXCEPT ![1] = Swapped(@), ![2] = Swapped(@)] ELSE L

\* The four sides, where the panel says they are and on the screen.
Info(L, swap) ==
  LET aS_L == <<L[2].iX - L[1].iX, L[3].iY - L[2].iY,
                L[3].iX - L[4].iX, L[4].iY - L[1].iY>>
  IN  [mInterchangeXY |-> swap,
       kxNum |-> aS_L[1] + aS_L[3], kxDen |-> 2 * (tPoint[2].iX - tPoint[1].iX),
       kyNum |-> aS_L[2] + aS_L[4], kyDen |-> 2 * (tPoint[3].iY - tPoint[2].iY),
       iXLc |-> L[5].iX, iYLc |-> L[5].iX,
       iXc |-> tPoint[5].iX, iYc |-> tPoint[5].iY]

\* showTargetToLCD reads what there is and looks at the first event only: a
\* touch is noted, the end of one leads to the next target.  The last three
\* targets are read with X and Y swapped once mInterchangeXY is set.
ReadTouch ==
  /\ pc = "target" /\ unread # <<>>
  /\ Head(unread).iPressure = 1
  /\ tPoint_L' = [tPoint_L EXCEPT ![target] =
       IF mInterchangeXY THEN Swapped(Head(unread).at) ELSE Head(unread).at]
  /\ unread' = <<>>
  /\ UNCHANGED <<userVars, target, mInterchangeXY, info, mHasCalibrated, pc, file,
                 last, runs>>

ReadRelease ==
  /\ pc = "target" /\ unread # <<>>
  /\ Head(unread).iPressure = 0
  /\ unread' = <<>>
  /\ IF target < 5
     THEN /\ target' = target + 1
          /\ IF target = 2
             THEN /\ mInterchangeXY' = Interchanged(tPoint_L)
                  /\ tPoint_L' = AfterSecond(tPoint_L)
             ELSE UNCHANGED <<mInterchangeXY, tPoint_L>>
          /\ UNCHANGED <<info, mHasCalibrated, pc>>
     ELSE /\ info' = Info(tPoint_L, mInterchangeXY)
          /\ mHasCalibrated' = TRUE
          /\ pc' = IF file = Absent THEN "create" ELSE "remove"
          /\ UNCHANGED <<target, mInterchangeXY, tPoint_L>>
  /\ UNCHANGED <<userVars, file, last, runs>>

RemoveFile ==
  /\ pc = "remove"
  /\ file' = Absent
  /\ pc' = "create"
  /\ UNCHANGED <<userVars, memVars, unread, last, runs>>

\* open may fail, and what was saved before is gone.
CreateFile ==
  /\ pc = "create"
  /\ \/ file' = Empty /\ pc' = "write" /\ UNCHANGED last
     \/ pc' = "up" /\ last' = info /\ UNCHANGED file
  /\ UNCHANGED <<userVars, memVars, unread, runs>>

\* Variant: as many bytes as a pointer has, which leaves off the centre.
Written_PointerSize(f) == [f EXCEPT !.iXLc = 0, !.iYLc = 0, !.iXc = 0, !.iYc = 0]
Written(f) == f

\* Nobody looks at what write returns.
WriteFile ==
  /\ pc = "write"
  /\ file' \in {Empty, Written(info)}
  /\ pc' = "up"
  /\ last' = info
  /\ UNCHANGED <<userVars, memVars, unread, runs>>
-----------------------------------------------------------------------------
(* readConfigSetCalibrateInfo, when the system starts.                     *)

NoFile ==
  /\ pc = "start" /\ file = Absent
  /\ Begin
  /\ UNCHANGED <<mHasCalibrated, runs>>

\* read leaves what the constructor left when the file is empty.
ReadFile ==
  /\ pc = "start" /\ file # Absent
  /\ mHasCalibrated' = TRUE
  /\ info' = IF file = Empty THEN info ELSE file
  /\ pc' = "up"
  /\ UNCHANGED <<userVars, target, tPoint_L, mInterchangeXY, file, unread, last, runs>>

OpenFails ==
  /\ pc = "start" /\ file # Absent
  /\ pc' = "up"
  /\ UNCHANGED <<userVars, memVars, file, unread, last, runs>>

CalibrateAgain ==
  /\ pc = "up" /\ runs < MaxRuns
  /\ runs' = runs + 1
  /\ Begin
  /\ UNCHANGED mHasCalibrated

\* The process ends or is killed, at any point, and starts again.  What its
\* descriptors had to be read is gone; the finger may still be on the panel.
StartAgain ==
  /\ runs < MaxRuns
  /\ runs' = runs + 1
  /\ pc' = "start"
  /\ info' = Uninitialised
  /\ mHasCalibrated' = FALSE
  /\ mInterchangeXY' = FALSE
  /\ target' = 1
  /\ \E g \in Garbage : tPoint_L' = [i \in Targets |-> g]
  /\ unread' = <<>>
  /\ touches' = 0
  /\ hurried' = FALSE
  /\ UNCHANGED <<panel, touched, file, last>>
-----------------------------------------------------------------------------
Next ==
  \/ Touch \/ Lift
  \/ NoFile \/ ReadFile \/ OpenFails
  \/ ReadTouch \/ ReadRelease \/ RemoveFile \/ CreateFile \/ WriteFile
  \/ CalibrateAgain \/ StartAgain

Spec == Init /\ [][Next]_vars
-----------------------------------------------------------------------------
(* Properties.                                                             *)

\* X = ( XL - XLC ) / KX + XC, times kxNum: the column that info makes of a
\* touch at (x, y) differs from x by at most n pixels.
ColumnWithin(f, x, y, n) ==
  LET raw == Raw(x, y)
      XL == IF f.mInterchangeXY THEN raw.iY ELSE raw.iX
  IN  Abs((XL - f.iXLc) * f.kxDen + (f.iXc - x) * f.kxNum) <= n * Abs(f.kxNum)

\* However the panel is mounted and scaled, a calibration in which the user
\* tapped once at a time finds the column of every touch on the screen again,
\* to within three times the error of the taps: the centre is off by one, and
\* the scale, which is off by four over two sides, by almost two at the edges.
ColumnsAreRecovered ==
  pc \in {"remove", "create", "write"} /\ ~hurried =>
    /\ info.mInterchangeXY = panel.swap
    /\ \A x \in 0 .. iXres, y \in 0 .. iYres : ColumnWithin(info, x, y, 3 * AimError)

\* "Y = ( YL - YLC ) / KY + YC" (include/frameworks/Calibrate.h), times kyNum:
\* the same for the row.  The code refutes it: iYLc is the column of the last
\* point, not its row.
RowWithin(f, x, y, n) ==
  LET raw == Raw(x, y)
      YL == IF f.mInterchangeXY THEN raw.iX ELSE raw.iY
  IN  Abs((YL - f.iYLc) * f.kyDen + (f.iYc - y) * f.kyNum) <= n * Abs(f.kyNum)
RowsAreRecovered ==
  pc \in {"remove", "create", "write"} /\ ~hurried =>
    \A x \in 0 .. iXres, y \in 0 .. iYres : RowWithin(info, x, y, 3 * AimError)

\* The system works with the calibration that was finished last, through
\* crashes at any point, or with none at all that a failed or interrupted
\* save has left in the file.
LastCalibrationIsUsed ==
  pc = "up" /\ mHasCalibrated => info = last \/ (info = Uninitialised /\ file = Empty)
=============================================================================
