--------------------------- MODULE CalibrateProofs ---------------------------
(***************************************************************************)
(* The proofs that a calibration in which the user taps once at a time     *)
(* finds the columns of the screen again, on any panel that PanelsOK       *)
(* allows and for any errors of the taps (ColumnsAreRecovered), and that   *)
(* the system works with the last one, wherever it was stopped             *)
(* (LastCalibrationIsUsed).                                                *)
(*                                                                         *)
(* The first rests on an invariant of what was tapped (Tapped) and on the  *)
(* arithmetic of the formula, which is not linear: what is multiplied is   *)
(* taken apart with AbsTimes and TimesLeft.                                *)
(***************************************************************************)
EXTENDS Calibrate, TLAPS

\* What Abs returns is the number or its negation, and not negative.

LEMMA AbsIsNat == \A n \in Int : Abs(n) \in Nat /\ (Abs(n) = n \/ Abs(n) = -n)
BY DEF Abs

\* A factor that is not negative keeps the order.
LEMMA TimesLeft == \A c \in Nat, a, b \in Int : a <= b => c * a <= c * b
<1> SUFFICES ASSUME NEW c \in Nat, NEW a \in Int, NEW b \in Int, a <= b PROVE c * a <= c * b
  OBVIOUS
<1>1. PICK d \in Nat : b = a + d
  <2>1. b - a \in Nat /\ b = a + (b - a)
    OBVIOUS
  <2>2. QED
    BY <2>1
<1>2. c * d \in Nat /\ c * (a + d) = c * a + c * d /\ c * a \in Int
  OBVIOUS
<1>3. QED
  BY <1>1, <1>2

\* The size of a product is the product of the sizes.
LEMMA AbsTimes == \A a, b \in Int : Abs(a * b) = Abs(a) * Abs(b)
<1> SUFFICES ASSUME NEW a \in Int, NEW b \in Int PROVE Abs(a * b) = Abs(a) * Abs(b)
  OBVIOUS
<1>1. \A m, n \in Nat : m * n \in Nat
  OBVIOUS
<1>2. a * b \in Int /\ (-a) * b = -(a * b) /\ a * (-b) = -(a * b) /\ (-a) * (-b) = a * b
  OBVIOUS
<1>3. CASE a \in Nat /\ b \in Nat
  BY <1>1, <1>3 DEF Abs
<1>4. CASE -a \in Nat /\ b \in Nat
  BY <1>1, <1>2, <1>4 DEF Abs
<1>5. CASE a \in Nat /\ -b \in Nat
  BY <1>1, <1>2, <1>5 DEF Abs
<1>6. CASE -a \in Nat /\ -b \in Nat
  BY <1>1, <1>2, <1>6 DEF Abs
<1>7. QED
  BY <1>3, <1>4, <1>5, <1>6

\* A number is at most m in size when it is between -m and m.
LEMMA AbsWithin == \A n \in Int, m \in Nat : Abs(n) <= m <=> n \in -m .. m
BY DEF Abs

\* Interchanged, in numbers: two taps of one row that are w apart and miss by d
\* along the row and e across it move the panel more along the row.
LEMMA AxesAreApart ==
  ASSUME NEW kx \in Int, NEW ky \in Int, NEW w \in Nat, NEW A \in Nat,
         2 * A < w, 2 * A * Abs(ky) < (w - 2 * A) * Abs(kx),
         NEW d \in -(2 * A) .. 2 * A, NEW e \in -(2 * A) .. 2 * A
  PROVE  Abs(ky * e) < Abs(kx * (w + d))
<1>1. Abs(ky) \in Nat /\ Abs(kx) \in Nat /\ Abs(e) \in Nat /\ Abs(w + d) \in Nat
  BY AbsIsNat
<1>2. Abs(ky * e) = Abs(ky) * Abs(e) /\ Abs(kx * (w + d)) = Abs(kx) * Abs(w + d)
  <2>1. ky \in Int /\ e \in Int /\ kx \in Int /\ w + d \in Int
    OBVIOUS
  <2>2. QED
    BY <2>1, AbsTimes
<1>3. Abs(e) <= 2 * A /\ w - 2 * A <= Abs(w + d)
  BY DEF Abs
<1>4. Abs(ky) * Abs(e) <= Abs(ky) * (2 * A)
  BY <1>1, <1>3, TimesLeft, 2 * A \in Int
<1>5. Abs(kx) * (w - 2 * A) <= Abs(kx) * Abs(w + d)
  BY <1>1, <1>3, TimesLeft, w - 2 * A \in Int
<1>6. Abs(ky) * (2 * A) = 2 * A * Abs(ky) /\ Abs(kx) * (w - 2 * A) = (w - 2 * A) * Abs(kx)
  BY <1>1
<1>7. /\ Abs(ky) * Abs(e) \in Int /\ 2 * A * Abs(ky) \in Int
      /\ (w - 2 * A) * Abs(kx) \in Int /\ Abs(kx) * Abs(w + d) \in Int
  BY <1>1
<1>8. QED
  BY <1>2, <1>4, <1>5, <1>6, <1>7

\* ColumnWithin, in numbers: with d the error of the centre, e what the errors
\* of the four corners add up to, w the width between the corners, and m how
\* far from the centre the touch is, on a screen of R columns.
LEMMA CentreIsNear ==
  ASSUME NEW kx \in Int, NEW w \in Nat, NEW A \in Nat, NEW R \in Nat,
         R + 1 <= 2 * w - 6 * A, NEW d \in -A .. A, NEW e \in -(4 * A) .. 4 * A,
         NEW m \in Int, 2 * Abs(m) <= R + 1
  PROVE  Abs(kx * (m * e - 2 * w * d)) <= 3 * A * Abs(kx * (2 * w + e))
<1> DEFINE far == m * e - 2 * w * d
           scale == 2 * w + e
<1>1. far \in Int /\ scale \in Int /\ 2 * w * d \in Int /\ m * e \in Int /\ 2 * w \in Nat
  OBVIOUS
<1>2. /\ Abs(kx) \in Nat /\ Abs(m) \in Nat /\ Abs(e) \in Nat /\ Abs(d) \in Nat
      /\ Abs(far) \in Nat /\ Abs(scale) \in Nat
  BY <1>1, AbsIsNat
<1>3. Abs(m * e) <= Abs(m) * (4 * A)
  <2>1. Abs(m * e) = Abs(m) * Abs(e)
    BY AbsTimes, e \in Int
  <2>2. Abs(e) <= 4 * A
    BY DEF Abs
  <2>3. QED
    BY <2>1, <2>2, <1>2, TimesLeft, 4 * A \in Int
<1>4. Abs(2 * w * d) <= 2 * w * A
  <2>1. Abs(2 * w * d) = 2 * w * Abs(d) /\ Abs(d) <= A
    <3>1. Abs(2 * w * d) = Abs(2 * w) * Abs(d)
      BY AbsTimes, <1>1
    <3>2. Abs(2 * w) = 2 * w
      BY DEF Abs
    <3>3. QED
      BY <3>1, <3>2, AbsWithin
  <2>2. QED
    BY <2>1, <1>1, <1>2, TimesLeft
<1>5. Abs(far) <= Abs(m) * (4 * A) + 2 * w * A
  <2>1. Abs(m) * (4 * A) \in Nat /\ 2 * w * A \in Nat
    BY <1>2
  <2>2. Abs(far) <= Abs(m * e) + Abs(2 * w * d)
    BY <1>1 DEF Abs
  <2>3. Abs(m * e) \in Nat /\ Abs(2 * w * d) \in Nat
    BY <1>1, AbsIsNat
  <2>4. QED
    BY <1>2, <1>3, <1>4, <2>1, <2>2, <2>3
<1>6. Abs(m) * (4 * A) + 2 * w * A <= 3 * A * (2 * w - 4 * A)
  <2>1. A * (4 * Abs(m) + 2 * w) <= A * (3 * (2 * w - 4 * A))
    BY <1>2, TimesLeft, 4 * Abs(m) + 2 * w <= 3 * (2 * w - 4 * A),
       4 * Abs(m) + 2 * w \in Int, 3 * (2 * w - 4 * A) \in Int
  <2>2. A * (4 * Abs(m) + 2 * w) = Abs(m) * (4 * A) + 2 * w * A
    BY <1>2
  <2>3. A * (3 * (2 * w - 4 * A)) = 3 * A * (2 * w - 4 * A)
    OBVIOUS
  <2>4. QED
    BY <2>1, <2>2, <2>3
<1>7. 3 * A * (2 * w - 4 * A) <= 3 * A * Abs(scale)
  <2>1. 2 * w - 4 * A <= Abs(scale)
    BY DEF Abs
  <2>2. QED
    BY <2>1, <1>2, TimesLeft, 3 * A \in Nat, 2 * w - 4 * A \in Int
<1>8. Abs(far) <= 3 * A * Abs(scale)
  <2>1. /\ Abs(m) * (4 * A) + 2 * w * A \in Int /\ 3 * A * (2 * w - 4 * A) \in Int
        /\ 3 * A * Abs(scale) \in Int
    BY <1>2
  <2>2. QED
    BY <1>2, <1>5, <1>6, <1>7, <2>1
<1>9. Abs(kx) * Abs(far) <= Abs(kx) * (3 * A * Abs(scale))
  BY <1>2, <1>8, TimesLeft, 3 * A * Abs(scale) \in Int
<1>10. Abs(kx) * (3 * A * Abs(scale)) = 3 * A * (Abs(kx) * Abs(scale))
  BY <1>2
<1>11. Abs(kx * far) = Abs(kx) * Abs(far) /\ Abs(kx * scale) = Abs(kx) * Abs(scale)
  BY AbsTimes, <1>1
<1>12. QED
  BY <1>9, <1>10, <1>11

-----------------------------------------------------------------------------
(* What was tapped.                                                        *)

\* What the panel may say of a tap on the target i, and what is made of it when
\* the axes are told apart.
TapAt(i) == {Raw(tPoint[i].iX + a[1], tPoint[i].iY + a[2]) : a \in Aims[i]}
Straight(p) == IF panel.swap THEN Swapped(p) ELSE p
Point == [iX : Int, iY : Int]
Frame == [iPressure : {0, 1}, at : Garbage \cup Point]

\* The panel is one of those allowed, and what is read are frames.
TypeOK ==
  /\ panel \in Panels
  /\ target \in Targets
  /\ unread \in Seq(Frame)
  /\ tPoint_L = [i \in Targets |-> tPoint_L[i]]

\* The user tapped on the target i, and this is what was read of it: as it came
\* for the first two, until both are known, and straightened from then on.
Answered(i) ==
  IF target <= 2 THEN tPoint_L[i] \in TapAt(i)
                 ELSE \E p \in TapAt(i) : tPoint_L[i] = Straight(p)

\* While the user taps once at a time: what is not yet read belongs to the target
\* that is shown, a release ends it, and the targets before it are answered; so
\* is this one once its tap was read and nothing of it is left but the release.
Tapped ==
  /\ target <= 2 => mInterchangeXY = FALSE
  /\ target > 2 => mInterchangeXY = panel.swap
  /\ \A k \in DOMAIN unread :
       \/ unread[k].iPressure = 1 /\ unread[k].at \in TapAt(target)
       \/ unread[k].iPressure = 0 /\ k = Len(unread) /\ ~touched
  /\ \A i \in 1 .. target - 1 : Answered(i)
  /\ \/ touched /\ unread = <<>>
     \/ unread # <<>> /\ Head(unread).iPressure = 0
     => Answered(target)

\* The inductive invariant.
CalibrateInv ==
  /\ TypeOK
  /\ pc = "target" /\ ~hurried => Tapped
  /\ ColumnsAreRecovered

\* The targets are on the screen.
LEMMA TargetsOK ==
  \A i \in Targets : tPoint[i] \in [iX : Nat, iY : Nat]
BY ScreenOK, AimsOK DEF tPoint, Targets

\* Nobody misses by more than AimError.
LEMMA AimsAreNear ==
  ASSUME NEW i \in Targets, NEW a \in Aims[i]
  PROVE  a[1] \in -AimError .. AimError /\ a[2] \in -AimError .. AimError
<1>1. Aims[i] \subseteq (-AimError .. AimError) \X (-AimError .. AimError)
  BY AimsOK DEF Targets
<1>2. QED
  BY <1>1

\* What the panel says are two numbers.
LEMMA RawIsPoint ==
  ASSUME panel \in Panels, NEW x \in Int, NEW y \in Int
  PROVE  Raw(x, y) \in Point
<1>1. panel \in [swap : BOOLEAN, kx : Int, ky : Int, bx : Int, by : Int]
  BY PanelsOK
<1>2. panel.kx * x + panel.bx \in Int /\ panel.ky * y + panel.by \in Int
  BY <1>1
<1>3. QED
  BY <1>2 DEF Raw, Point

\* And so it is of every tap.
LEMMA TapsArePoints ==
  ASSUME panel \in Panels, NEW i \in Targets, NEW p \in TapAt(i)
  PROVE  p \in Point
<1>1. PICK a \in Aims[i] : p = Raw(tPoint[i].iX + a[1], tPoint[i].iY + a[2])
  BY DEF TapAt
<1>2. tPoint[i].iX + a[1] \in Int /\ tPoint[i].iY + a[2] \in Int
  BY TargetsOK, AimsAreNear, AimsOK
<1>3. QED
  BY <1>1, <1>2, RawIsPoint

\* What the panel says along its axes, straightened.
LEMMA StraightRaw ==
  ASSUME NEW x, NEW y
  PROVE  Straight(Raw(x, y)) = [iX |-> panel.kx * x + panel.bx, iY |-> panel.ky * y + panel.by]
BY DEF Straight, Raw, Swapped

\* startCalibrate tells from the first two taps whether the axes are swapped.
LEMMA OrientationIsFound ==
  ASSUME panel \in Panels, tPoint_L[1] \in TapAt(1), tPoint_L[2] \in TapAt(2)
  PROVE  Interchanged(tPoint_L) = panel.swap
<1> DEFINE w == tPoint[2].iX - tPoint[1].iX
<1>1. PICK a \in Aims[1] : tPoint_L[1] = Raw(tPoint[1].iX + a[1], tPoint[1].iY + a[2])
  BY DEF TapAt
<1>2. PICK b \in Aims[2] : tPoint_L[2] = Raw(tPoint[2].iX + b[1], tPoint[2].iY + b[2])
  BY DEF TapAt
<1>3. panel \in [swap : BOOLEAN, kx : Int, ky : Int, bx : Int, by : Int]
  BY PanelsOK
<1>4. /\ a[1] \in -AimError .. AimError /\ a[2] \in -AimError .. AimError
      /\ b[1] \in -AimError .. AimError /\ b[2] \in -AimError .. AimError
  BY AimsAreNear DEF Targets
<1>5. /\ tPoint[1].iX = iOffset /\ tPoint[1].iY = iOffset
      /\ tPoint[2].iX = iXres - iOffset /\ tPoint[2].iY = iOffset
  BY DEF tPoint
<1>6. w = iXres - 2 * iOffset /\ w \in Nat /\ 2 * AimError < w
  BY <1>5, ScreenOK, AimsOK
<1>7. 2 * AimError * Abs(panel.ky) < (w - 2 * AimError) * Abs(panel.kx)
  BY <1>6, PanelsOK
<1>8. PICK d \in -(2 * AimError) .. 2 * AimError : d = b[1] - a[1]
  BY <1>4, AimsOK
<1>9. PICK e \in -(2 * AimError) .. 2 * AimError : e = b[2] - a[2]
  BY <1>4, AimsOK
<1> HIDE DEF w
<1>10. Abs(panel.ky * e) < Abs(panel.kx * (w + d))
  BY <1>3, <1>6, <1>7, AimsOK, AxesAreApart
<1> DEFINE across(x) == panel.kx * x + panel.bx
           down(y) == panel.ky * y + panel.by
<1>11. across(tPoint[2].iX + b[1]) - across(tPoint[1].iX + a[1]) = panel.kx * (w + d)
  BY <1>3, <1>4, <1>5, <1>6, <1>8, ScreenOK, AimsOK
<1>12. down(tPoint[2].iY + b[2]) - down(tPoint[1].iY + a[2]) = panel.ky * e
  BY <1>3, <1>4, <1>5, <1>9, ScreenOK, AimsOK
<1>13. Abs(panel.ky * e) \in Nat /\ Abs(panel.kx * (w + d)) \in Nat
  BY <1>3, <1>6, AbsIsNat, panel.ky * e \in Int, panel.kx * (w + d) \in Int
<1>14. CASE panel.swap
  <2>1. /\ tPoint_L[1] = [iX |-> down(tPoint[1].iY + a[2]), iY |-> across(tPoint[1].iX + a[1])]
        /\ tPoint_L[2] = [iX |-> down(tPoint[2].iY + b[2]), iY |-> across(tPoint[2].iX + b[1])]
    BY <1>1, <1>2, <1>14 DEF Raw
  <2>2. Interchanged(tPoint_L)
    BY <2>1, <1>10, <1>11, <1>12, <1>13 DEF Interchanged
  <2>3. QED
    BY <2>2, <1>14, <1>3
<1>15. CASE ~panel.swap
  <2>1. /\ tPoint_L[1] = [iX |-> across(tPoint[1].iX + a[1]), iY |-> down(tPoint[1].iY + a[2])]
        /\ tPoint_L[2] = [iX |-> across(tPoint[2].iX + b[1]), iY |-> down(tPoint[2].iY + b[2])]
    BY <1>1, <1>2, <1>15 DEF Raw
  <2>2. ~Interchanged(tPoint_L)
    BY <2>1, <1>10, <1>11, <1>12, <1>13 DEF Interchanged
  <2>3. QED
    BY <2>2, <1>15, <1>3 DEF Interchanged
<1>16. QED
  BY <1>14, <1>15

\* How far off the column is that the formula gives, times the scale.
LEMMA DifferenceOfColumns ==
  ASSUME NEW k \in Int, NEW m \in Int, NEW d \in Int, NEW w \in Int, NEW e \in Int
  PROVE  k * (-m - d) * (2 * w) + m * (k * (2 * w + e)) = k * (m * e - 2 * w * d)
<1>1. k * (-m - d) * (2 * w) = -(2 * (k * m * w)) - 2 * (k * w * d)
  OBVIOUS
<1>2. m * (k * (2 * w + e)) = 2 * (k * m * w) + k * m * e
  OBVIOUS
<1>3. k * (m * e - 2 * w * d) = k * m * e - 2 * (k * w * d)
  OBVIOUS
<1>4. k * m * w \in Int /\ k * w * d \in Int /\ k * m * e \in Int
  OBVIOUS
<1>5. QED
  BY <1>1, <1>2, <1>3, <1>4

\* What startCalibrate computes from five answered targets finds every column of
\* the screen again, to within three times the error of the taps.
LEMMA ColumnsFollow ==
  ASSUME panel \in Panels, NEW L,
         \A i \in Targets : \E p \in TapAt(i) : L[i] = Straight(p),
         NEW x \in 0 .. iXres, NEW y \in 0 .. iYres
  PROVE  ColumnWithin(Info(L, panel.swap), x, y, 3 * AimError)
<1> DEFINE K == panel.kx
           B == panel.bx
           w == iXres - 2 * iOffset
           f == Info(L, panel.swap)
<1>1. panel \in [swap : BOOLEAN, kx : Int, ky : Int, bx : Int, by : Int]
  BY PanelsOK
<1>2. K \in Int /\ B \in Int /\ x \in Int /\ y \in Int /\ w \in Nat /\ AimError \in Nat
  BY <1>1, ScreenOK, AimsOK
<1>3. \A i \in Targets : \E d \in -AimError .. AimError : L[i].iX = K * (tPoint[i].iX + d) + B
  <2> SUFFICES ASSUME NEW i \in Targets
               PROVE  \E d \in -AimError .. AimError : L[i].iX = K * (tPoint[i].iX + d) + B
    OBVIOUS
  <2>1. PICK a \in Aims[i] :
          L[i] = Straight(Raw(tPoint[i].iX + a[1], tPoint[i].iY + a[2]))
    BY DEF TapAt
  <2>2. L[i].iX = K * (tPoint[i].iX + a[1]) + B
    BY <2>1, StraightRaw
  <2>3. QED
    BY <2>2, AimsAreNear
<1>4. 1 \in Targets /\ 2 \in Targets /\ 3 \in Targets /\ 4 \in Targets /\ 5 \in Targets
  BY DEF Targets
<1>5. PICK c \in Int : c = iXres \div 2 /\ 2 * c <= iXres /\ iXres <= 2 * c + 1
  BY ScreenOK
<1>6. /\ tPoint[1].iX = iOffset /\ tPoint[2].iX = iXres - iOffset
      /\ tPoint[3].iX = iXres - iOffset /\ tPoint[4].iX = iOffset /\ tPoint[5].iX = c
  BY <1>5 DEF tPoint
<1>7. PICK d1 \in -AimError .. AimError : L[1].iX = K * (iOffset + d1) + B
  BY <1>3, <1>4, <1>6
<1>8. PICK d2 \in -AimError .. AimError : L[2].iX = K * (iXres - iOffset + d2) + B
  BY <1>3, <1>4, <1>6
<1>9. PICK d3 \in -AimError .. AimError : L[3].iX = K * (iXres - iOffset + d3) + B
  BY <1>3, <1>4, <1>6
<1>10. PICK d4 \in -AimError .. AimError : L[4].iX = K * (iOffset + d4) + B
  BY <1>3, <1>4, <1>6
<1>11. PICK d5 \in -AimError .. AimError : L[5].iX = K * (c + d5) + B
  BY <1>3, <1>4, <1>6
<1>12. PICK e \in -(4 * AimError) .. 4 * AimError : e = (d2 - d1) + (d3 - d4)
  BY <1>2
<1>13. /\ f.mInterchangeXY = panel.swap /\ f.iXLc = L[5].iX /\ f.iXc = c
       /\ f.kxNum = (L[2].iX - L[1].iX) + (L[3].iX - L[4].iX)
       /\ f.kxDen = 2 * ((iXres - iOffset) - iOffset)
  BY <1>6 DEF Info
<1>14. f.kxDen = 2 * w
  BY <1>13, <1>2, ScreenOK
<1>15. f.kxNum = K * (2 * w + e)
  <2>1. L[2].iX - L[1].iX = K * (w + (d2 - d1))
    BY <1>2, <1>7, <1>8, ScreenOK
  <2>2. L[3].iX - L[4].iX = K * (w + (d3 - d4))
    BY <1>2, <1>9, <1>10, ScreenOK
  <2>3. K * (w + (d2 - d1)) + K * (w + (d3 - d4)) = K * (2 * w + e)
    BY <1>2, <1>12
  <2>4. QED
    BY <1>13, <2>1, <2>2, <2>3
<1>16. PICK XL \in Int : XL = K * x + B /\ XL = Straight(Raw(x, y)).iX
  BY <1>2, StraightRaw
<1>17. PICK m \in Int : m = c - x /\ 2 * Abs(m) <= iXres + 1
  BY <1>2, <1>5, ScreenOK DEF Abs
<1>18. (XL - f.iXLc) * f.kxDen + (f.iXc - x) * f.kxNum = K * (m * e - 2 * w * d5)
  <2>1. XL - f.iXLc = K * (-m - d5)
    BY <1>2, <1>5, <1>11, <1>13, <1>16, <1>17
  <2>2. K * (-m - d5) * (2 * w) + m * (K * (2 * w + e)) = K * (m * e - 2 * w * d5)
    <3> HIDE DEF K, w
    <3>1. d5 \in Int /\ e \in Int
      BY <1>2
    <3>2. QED
      BY <1>2, <1>17, <3>1, DifferenceOfColumns
  <2>3. QED
    BY <2>1, <2>2, <1>13, <1>14, <1>15, <1>17
<1>19. iXres + 1 <= 2 * w - 6 * AimError
  BY <1>2, ScreenOK
<1>20. Abs(K * (m * e - 2 * w * d5)) <= 3 * AimError * Abs(K * (2 * w + e))
  <2> HIDE DEF w, K
  <2>1. QED
    BY <1>2, <1>17, <1>19, CentreIsNear, ScreenOK
<1>21. (IF f.mInterchangeXY THEN Raw(x, y).iY ELSE Raw(x, y).iX) = XL
  BY <1>13, <1>16 DEF Straight, Swapped
<1>22. QED
  BY <1>15, <1>18, <1>20, <1>21 DEF ColumnWithin

-----------------------------------------------------------------------------
(* The steps.                                                              *)

\* A frame that is appended is the last one, and the first of none.
LEMMA FrameAppended ==
  ASSUME NEW s \in Seq(Frame), NEW e \in Frame
  PROVE  /\ Append(s, e) \in Seq(Frame) /\ Len(Append(s, e)) = Len(s) + 1
         /\ DOMAIN Append(s, e) = 1 .. Len(s) + 1
         /\ \A k \in 1 .. Len(s) : Append(s, e)[k] = s[k]
         /\ Append(s, e)[Len(s) + 1] = e
         /\ DOMAIN s = 1 .. Len(s) /\ Len(s) \in Nat
         /\ Append(s, e) # <<>>
         /\ Head(Append(s, e)) = IF s = <<>> THEN e ELSE Head(s)
<1>1. /\ Append(s, e) \in Seq(Frame) /\ Len(Append(s, e)) = Len(s) + 1
      /\ Append(s, e)[Len(s) + 1] = e /\ DOMAIN s = 1 .. Len(s) /\ Len(s) \in Nat
  OBVIOUS
<1>2. DOMAIN Append(s, e) = 1 .. Len(s) + 1
  BY <1>1
<1>3. \A k \in 1 .. Len(s) : Append(s, e)[k] = s[k]
  OBVIOUS
<1>4. Append(s, e) # <<>> /\ Head(Append(s, e)) = Append(s, e)[1]
  BY <1>1
<1>5. s = <<>> => Len(s) = 0
  OBVIOUS
<1>6. s # <<>> => Head(s) = s[1] /\ 1 \in 1 .. Len(s)
  BY <1>1
<1>7. QED
  BY <1>1, <1>2, <1>3, <1>4, <1>5, <1>6

\* Nothing of a calibration moves with the panel, which stays as it is.
LEMMA PanelStays ==
  ASSUME panel' = panel
  PROVE  /\ \A i : TapAt(i)' = TapAt(i)
         /\ \A p : Straight(p)' = Straight(p)
         /\ \A f, x, y, n : ColumnWithin(f, x, y, n)' = ColumnWithin(f, x, y, n)
<1>1. \A x, y : Raw(x, y)' = Raw(x, y)
  BY DEF Raw
<1>2. QED
  BY <1>1 DEF TapAt, Straight, ColumnWithin

\* Steps that leave what was found as it is.
LEMMA ColumnsStay ==
  ASSUME ColumnsAreRecovered, panel' = panel, info' = info, hurried' = hurried,
         pc' \in {"remove", "create", "write"} => pc \in {"remove", "create", "write"}
  PROVE  ColumnsAreRecovered'
<1>1. SUFFICES ASSUME pc' \in {"remove", "create", "write"} /\ ~hurried'
               PROVE  /\ info'.mInterchangeXY = panel'.swap
                      /\ \A x \in 0 .. iXres, y \in 0 .. iYres :
                           ColumnWithin(info, x, y, 3 * AimError)'
  BY DEF ColumnsAreRecovered
<1>2. /\ info.mInterchangeXY = panel.swap
      /\ \A x \in 0 .. iXres, y \in 0 .. iYres : ColumnWithin(info, x, y, 3 * AimError)
  BY <1>1 DEF ColumnsAreRecovered
<1>3. \A x, y, n : ColumnWithin(info, x, y, n)' = ColumnWithin(info, x, y, n)
  BY DEF ColumnWithin, Raw
<1>4. QED
  BY <1>2, <1>3

\* A calibration that begins has nothing to show for, and nothing is to be read
\* yet unless the user was hurried.
LEMMA BeginsUntapped ==
  ASSUME TypeOK, Begin
  PROVE  CalibrateInv'
<1>1. TypeOK'
  <2>1. target' \in Targets
    BY DEF Begin, Targets
  <2>2. panel' \in Panels /\ unread' \in Seq(Frame)
    BY DEF Begin, TypeOK
  <2>3. tPoint_L' = [i \in Targets |-> tPoint_L'[i]]
    BY DEF Begin
  <2>4. QED
    BY <2>1, <2>2, <2>3 DEF TypeOK
<1>2. ASSUME ~hurried' PROVE Tapped'
  <2>1. mInterchangeXY' = FALSE /\ target' = 1 /\ unread' = <<>> /\ ~touched'
    BY <1>2 DEF Begin
  <2>2. DOMAIN unread' = {} /\ 1 .. target' - 1 = {}
    BY <2>1
  <2>3. \A i \in 1 .. target' - 1 : Answered(i)'
    BY <2>2
  <2>4. /\ target' <= 2 => mInterchangeXY' = FALSE
        /\ target' > 2 => mInterchangeXY' = panel'.swap
    BY <2>1
  <2>5. ~(\/ touched' /\ unread' = <<>>
          \/ unread' # <<>> /\ Head(unread').iPressure = 0)
    BY <2>1
  <2>6. QED
    BY <2>2, <2>3, <2>4, <2>5 DEF Tapped
<1>3. ColumnsAreRecovered'
  BY DEF Begin, ColumnsAreRecovered
<1>4. QED
  BY <1>1, <1>2, <1>3 DEF CalibrateInv

\* The invariant holds at first.
LEMMA InitCalibrate == Init => CalibrateInv
<1> SUFFICES ASSUME Init PROVE CalibrateInv
  OBVIOUS
<1>1. TypeOK
  BY DEF Init, TypeOK, Targets
<1>2. QED
  BY <1>1 DEF Init, CalibrateInv, ColumnsAreRecovered

\* The user taps on the target that is shown: when the release before it is not
\* read, or nobody reads yet, the user is hurried, and nothing is claimed.
LEMMA StepTouch == CalibrateInv /\ Touch => CalibrateInv'
<1> SUFFICES ASSUME CalibrateInv, Touch PROVE CalibrateInv'
  OBVIOUS
<1>1. PICK a \in Aims[target] : unread' = Append(unread, [iPressure |-> 1,
        at |-> Raw(tPoint[target].iX + a[1], tPoint[target].iY + a[2])])
  BY DEF Touch
<1> DEFINE p == Raw(tPoint[target].iX + a[1], tPoint[target].iY + a[2])
           e == [iPressure |-> 1, at |-> p]
<1>2. TypeOK /\ p \in TapAt(target)
  BY DEF TapAt, CalibrateInv
<1>3. e \in Frame /\ unread' = Append(unread, e)
  <2>1. p \in Point
    BY <1>2, TapsArePoints DEF TypeOK
  <2>2. QED
    BY <1>1, <2>1 DEF Frame
<1>4. e.iPressure = 1 /\ e.at = p
  OBVIOUS
<1> HIDE DEF e, p
<1>5. /\ unread' \in Seq(Frame) /\ DOMAIN unread' = 1 .. Len(unread) + 1
      /\ \A k \in 1 .. Len(unread) : unread'[k] = unread[k]
      /\ unread'[Len(unread) + 1] = e
      /\ DOMAIN unread = 1 .. Len(unread) /\ Len(unread) \in Nat
      /\ unread' # <<>> /\ Head(unread') = IF unread = <<>> THEN e ELSE Head(unread)
      /\ Len(unread') = Len(unread) + 1
  BY <1>2, <1>3, FrameAppended DEF TypeOK
<1>6. /\ panel' = panel /\ target' = target /\ tPoint_L' = tPoint_L /\ pc' = pc
      /\ mInterchangeXY' = mInterchangeXY /\ info' = info /\ pc \in {"target", "up"}
      /\ touched' /\ hurried' = (hurried \/ (~touched /\ unread # <<>>))
  BY DEF Touch, memVars
<1>7. TypeOK'
  BY <1>2, <1>5, <1>6 DEF TypeOK
<1>8. ASSUME pc' = "target", ~hurried' PROVE Tapped'
  <2>1. Tapped /\ (unread # <<>> => touched)
    BY <1>6, <1>8 DEF CalibrateInv
  <2>2. \A k \in DOMAIN unread : unread[k].iPressure = 1 /\ unread[k].at \in TapAt(target)
    BY <2>1, <1>5 DEF Tapped
  <2>3. \A k \in DOMAIN unread' : unread'[k].iPressure = 1 /\ unread'[k].at \in TapAt(target)
    BY <2>2, <1>2, <1>4, <1>5
  <2>4. Head(unread').iPressure = 1
    <3>1. Head(unread') = unread'[1]
      BY <1>5
    <3>2. QED
      BY <3>1, <2>3, <1>5
  <2>5. \A i \in 1 .. target - 1 : Answered(i) /\ Answered(i)' = Answered(i)
    BY <2>1, <1>6, PanelStays DEF Tapped, Answered
  <2>6. TapAt(target)' = TapAt(target)
    BY <1>6 DEF TapAt, Raw
  <2>7. \A i \in 1 .. target' - 1 : Answered(i)'
    BY <2>5, <1>6
  <2>8. \A k \in DOMAIN unread' : unread'[k].iPressure = 1 /\ unread'[k].at \in TapAt(target)'
    BY <2>3, <2>6
  <2>9. /\ target' <= 2 => mInterchangeXY' = FALSE
        /\ target' > 2 => mInterchangeXY' = panel'.swap
    BY <2>1, <1>6 DEF Tapped
  <2>10. QED
    BY <2>4, <2>7, <2>8, <2>9, <1>5 DEF Tapped
<1>9. ColumnsAreRecovered'
  BY <1>6 DEF ColumnsAreRecovered
<1>10. QED
  BY <1>6, <1>7, <1>8, <1>9 DEF CalibrateInv

\* The user lifts the finger: the release alone is left only when the tap was read.
LEMMA StepLift == CalibrateInv /\ Lift => CalibrateInv'
<1> SUFFICES ASSUME CalibrateInv, Lift PROVE CalibrateInv'
  OBVIOUS
<1>1. /\ panel' = panel /\ target' = target /\ tPoint_L' = tPoint_L /\ pc' = pc
      /\ mInterchangeXY' = mInterchangeXY /\ info' = info
      /\ touched /\ ~touched' /\ hurried' = hurried
  BY DEF Lift, memVars
<1>2. CASE pc = "start"
  <2>1. unread' = unread
    BY <1>2 DEF Lift
  <2>2. TypeOK'
    BY <1>1, <2>1 DEF CalibrateInv, TypeOK
  <2>3. ColumnsAreRecovered'
    BY <1>1, ColumnsStay DEF CalibrateInv
  <2>4. QED
    BY <1>1, <1>2, <2>2, <2>3 DEF CalibrateInv
<1>3. CASE pc # "start"
  <2>1. PICK g \in Garbage : unread' = Append(unread, [iPressure |-> 0, at |-> g])
    BY <1>3 DEF Lift
  <2> DEFINE e == [iPressure |-> 0, at |-> g]
  <2>2. e \in Frame /\ e.iPressure = 0 /\ unread' = Append(unread, e)
    BY <2>1 DEF Frame
  <2> HIDE DEF e
  <2>3. TypeOK
    BY DEF CalibrateInv
  <2>4. /\ unread' \in Seq(Frame) /\ DOMAIN unread' = 1 .. Len(unread) + 1
        /\ \A k \in 1 .. Len(unread) : unread'[k] = unread[k]
        /\ unread'[Len(unread) + 1] = e
        /\ DOMAIN unread = 1 .. Len(unread) /\ Len(unread) \in Nat
        /\ unread' # <<>> /\ Head(unread') = IF unread = <<>> THEN e ELSE Head(unread)
        /\ Len(unread') = Len(unread) + 1
    BY <2>2, <2>3, FrameAppended DEF TypeOK
  <2>6. TypeOK'
    BY <2>3, <2>4, <1>1 DEF TypeOK
  <2>7. ASSUME pc' = "target", ~hurried' PROVE Tapped'
    <3>1. Tapped
      BY <1>1, <2>7 DEF CalibrateInv
    <3>2. TapAt(target)' = TapAt(target)
      BY <1>1 DEF TapAt, Raw
    <3>3. \A k \in DOMAIN unread : unread[k].iPressure = 1 /\ unread[k].at \in TapAt(target)
      BY <3>1, <1>1 DEF Tapped
    <3>4. \A k \in DOMAIN unread' :
            \/ unread'[k].iPressure = 1 /\ unread'[k].at \in TapAt(target)'
            \/ unread'[k].iPressure = 0 /\ k = Len(unread') /\ ~touched'
      BY <3>2, <3>3, <2>2, <2>4, <1>1
    <3>5. \A i \in 1 .. target - 1 : Answered(i)
      BY <3>1 DEF Tapped
    <3>6. \A i \in Targets : Answered(i)' <=> Answered(i)
      BY <1>1, PanelStays DEF Answered
    <3>7. Head(unread').iPressure = 0 => unread = <<>>
      <4>1. ASSUME unread # <<>> PROVE Head(unread) = unread[1] /\ 1 \in DOMAIN unread
        BY <2>3, <4>1, <2>4 DEF TypeOK
      <4>2. QED
        BY <4>1, <3>3, <2>4
    <3>8. Head(unread').iPressure = 0 => Answered(target)
      BY <3>1, <3>7, <1>1 DEF Tapped
    <3>9. /\ target' <= 2 => mInterchangeXY' = FALSE
          /\ target' > 2 => mInterchangeXY' = panel'.swap
      BY <3>1, <1>1 DEF Tapped
    <3>10. (\A i \in 1 .. target' - 1 : Answered(i)') /\ (Answered(target)' <=> Answered(target))
      BY <3>5, <3>6, <2>3, <1>1 DEF TypeOK, Targets
    <3>11. QED
      BY <3>4, <3>8, <3>9, <3>10, <1>1 DEF Tapped, Answered
  <2>8. ColumnsAreRecovered'
    BY <1>1, ColumnsStay DEF CalibrateInv
  <2>9. QED
    BY <1>1, <2>6, <2>7, <2>8 DEF CalibrateInv
<1>4. QED
  BY <1>2, <1>3

\* showTargetToLCD reads a tap of the target that is shown, and takes what comes
\* behind it from the kernel as well.
LEMMA StepReadTouch == CalibrateInv /\ ReadTouch => CalibrateInv'
<1> SUFFICES ASSUME CalibrateInv, ReadTouch PROVE CalibrateInv'
  OBVIOUS
<1>1. /\ panel' = panel /\ target' = target /\ pc' = pc /\ unread' = <<>>
      /\ mInterchangeXY' = mInterchangeXY /\ info' = info /\ pc = "target"
      /\ touched' = touched /\ hurried' = hurried
      /\ unread # <<>> /\ Head(unread).iPressure = 1
  BY DEF ReadTouch, userVars
<1>2. tPoint_L' = [tPoint_L EXCEPT ![target] =
        IF mInterchangeXY THEN Swapped(Head(unread).at) ELSE Head(unread).at]
  BY DEF ReadTouch
<1>3. TypeOK
  BY DEF CalibrateInv
<1>4. /\ tPoint_L'[target] = IF mInterchangeXY THEN Swapped(Head(unread).at)
                                               ELSE Head(unread).at
      /\ \A i \in Targets \ {target} : tPoint_L'[i] = tPoint_L[i]
      /\ tPoint_L' = [i \in Targets |-> tPoint_L'[i]]
  BY <1>2, <1>3 DEF TypeOK
<1>5. TypeOK'
  <2>1. <<>> \in Seq(Frame)
    OBVIOUS
  <2>2. QED
    BY <1>1, <1>3, <1>4, <2>1 DEF TypeOK
<1>6. ASSUME ~hurried PROVE Tapped'
  <2>1. Tapped
    BY <1>1, <1>6 DEF CalibrateInv
  <2>2. Head(unread).at \in TapAt(target)
    <3>1. Head(unread) = unread[1] /\ 1 \in DOMAIN unread
      BY <1>1, <1>3 DEF TypeOK
    <3>2. QED
      BY <3>1, <2>1, <1>1 DEF Tapped
  <2>3. Answered(target)'
    <3>1. CASE target <= 2
      <4>1. mInterchangeXY = FALSE
        BY <3>1, <1>3, <2>1 DEF Tapped, TypeOK, Targets
      <4>2. tPoint_L'[target] \in TapAt(target)'
        BY <4>1, <1>1, <1>4, <2>2, PanelStays
      <4>3. QED
        BY <4>2, <3>1, <1>1 DEF Answered
    <3>2. CASE ~(target <= 2)
      <4>1. mInterchangeXY = panel.swap
        BY <3>2, <1>3, <2>1 DEF Tapped, TypeOK, Targets
      <4>2. tPoint_L'[target] = Straight(Head(unread).at)
        BY <4>1, <1>4 DEF Straight
      <4>3. \E p \in TapAt(target)' : tPoint_L'[target] = Straight(p)'
        BY <4>2, <1>1, <2>2, PanelStays
      <4>4. QED
        BY <4>3, <3>2, <1>1 DEF Answered
    <3>3. QED
      BY <3>1, <3>2
  <2>4. \A i \in 1 .. target - 1 : Answered(i)'
    <3> SUFFICES ASSUME NEW i \in 1 .. target - 1 PROVE Answered(i)'
      OBVIOUS
    <3>1. Answered(i)
      BY <2>1 DEF Tapped
    <3>2. i \in Targets \ {target}
      BY <1>3 DEF TypeOK, Targets
    <3>3. tPoint_L'[i] = tPoint_L[i]
      BY <3>2, <1>4
    <3>4. QED
      BY <3>1, <3>3, <1>1, PanelStays DEF Answered
  <2>5. /\ target' <= 2 => mInterchangeXY' = FALSE
        /\ target' > 2 => mInterchangeXY' = panel'.swap
    BY <2>1, <1>1 DEF Tapped
  <2>6. DOMAIN unread' = {}
    BY <1>1
  <2>7. QED
    BY <1>1, <2>3, <2>4, <2>5, <2>6 DEF Tapped
<1>7. ColumnsAreRecovered'
  BY <1>1, ColumnsStay DEF CalibrateInv
<1>8. QED
  BY <1>1, <1>5, <1>6, <1>7 DEF CalibrateInv

\* showTargetToLCD reads a release: of the second target, which tells the axes
\* apart; of the fifth, after which the calibration is computed; or of another.
LEMMA StepReadRelease == CalibrateInv /\ ReadRelease => CalibrateInv'
<1> SUFFICES ASSUME CalibrateInv, ReadRelease PROVE CalibrateInv'
  OBVIOUS
<1>1. /\ panel' = panel /\ unread' = <<>> /\ pc = "target"
      /\ touched' = touched /\ hurried' = hurried
      /\ unread # <<>> /\ Head(unread).iPressure = 0
  BY DEF ReadRelease, userVars
<1>2. TypeOK
  BY DEF CalibrateInv
<1>3. ASSUME ~hurried PROVE Tapped /\ Answered(target) /\ ~touched
  <2>1. Tapped
    BY <1>1, <1>3 DEF CalibrateInv
  <2>2. Head(unread) = unread[1] /\ 1 \in DOMAIN unread
    BY <1>1, <1>2 DEF TypeOK
  <2>3. unread[1].iPressure = 0 => ~touched
    BY <2>1, <2>2 DEF Tapped
  <2>4. QED
    BY <2>1, <2>2, <2>3, <1>1 DEF Tapped
<1>4. <<>> \in Seq(Frame) /\ DOMAIN <<>> = {}
  OBVIOUS
<1>5. CASE target < 5 /\ target # 2
  <2>1. /\ target' = target + 1 /\ mInterchangeXY' = mInterchangeXY
        /\ tPoint_L' = tPoint_L /\ info' = info /\ pc' = pc
    BY <1>5 DEF ReadRelease
  <2>2. TypeOK'
    BY <1>1, <1>2, <1>4, <1>5, <2>1 DEF TypeOK, Targets
  <2>3. ASSUME ~hurried PROVE Tapped'
    <3>1. Tapped /\ Answered(target) /\ ~touched
      BY <1>3, <2>3
    <3>2. \A i \in 1 .. target : Answered(i)
      BY <3>1, <1>2 DEF Tapped, TypeOK, Targets
    <3>3. target <= 2 <=> target + 1 <= 2
      BY <1>2, <1>5 DEF TypeOK, Targets
    <3>4. \A i \in 1 .. target' - 1 : Answered(i)'
      <4> SUFFICES ASSUME NEW i \in 1 .. target' - 1 PROVE Answered(i)'
        OBVIOUS
      <4>1. Answered(i)
        BY <3>2, <2>1, <1>2 DEF TypeOK, Targets
      <4>2. QED
        BY <4>1, <3>3, <2>1, <1>1, PanelStays DEF Answered
    <3>5. /\ target' <= 2 => mInterchangeXY' = FALSE
          /\ target' > 2 => mInterchangeXY' = panel'.swap
      BY <3>1, <3>3, <2>1, <1>1, <1>2 DEF Tapped, TypeOK, Targets
    <3>6. QED
      BY <1>1, <1>4, <3>1, <3>4, <3>5 DEF Tapped
  <2>4. ColumnsAreRecovered'
    BY <1>1, <2>1, ColumnsStay DEF CalibrateInv
  <2>5. QED
    BY <1>1, <2>1, <2>2, <2>3, <2>4 DEF CalibrateInv
<1>6. CASE target = 2
  <2>1. /\ target' = 3 /\ mInterchangeXY' = Interchanged(tPoint_L)
        /\ tPoint_L' = AfterSecond(tPoint_L) /\ info' = info /\ pc' = pc
    BY <1>6 DEF ReadRelease
  <2>2. tPoint_L' = [i \in Targets |-> tPoint_L'[i]]
    BY <1>2, <2>1 DEF AfterSecond, TypeOK
  <2>3. TypeOK'
    BY <1>1, <1>2, <1>4, <2>1, <2>2 DEF TypeOK, Targets
  <2>4. ASSUME ~hurried PROVE Tapped'
    <3>1. Tapped /\ Answered(2) /\ ~touched
      BY <1>3, <2>4, <1>6
    <3>2. tPoint_L[1] \in TapAt(1) /\ tPoint_L[2] \in TapAt(2)
      BY <3>1, <1>6 DEF Tapped, Answered
    <3>3. Interchanged(tPoint_L) = panel.swap
      BY <3>2, <1>2, OrientationIsFound DEF TypeOK
    <3>4. /\ tPoint_L'[1] = Straight(tPoint_L[1])
          /\ tPoint_L'[2] = Straight(tPoint_L[2])
      <4>1. 1 \in Targets /\ 2 \in Targets
        BY DEF Targets
      <4>2. CASE panel.swap
        <5>1. tPoint_L' = [tPoint_L EXCEPT ![1] = Swapped(tPoint_L[1]), ![2] = Swapped(tPoint_L[2])]
          BY <4>2, <3>3, <2>1 DEF AfterSecond
        <5>2. QED
          BY <5>1, <4>1, <4>2, <1>2 DEF TypeOK, Straight
      <4>3. CASE ~panel.swap
        BY <4>3, <3>3, <2>1 DEF AfterSecond, Straight
      <4>4. QED
        BY <4>2, <4>3
    <3>5. \A i \in 1 .. target' - 1 : Answered(i)'
      <4>1. Answered(1)' /\ Answered(2)'
        <5>1. /\ \E p \in TapAt(1)' : tPoint_L'[1] = Straight(p)'
              /\ \E p \in TapAt(2)' : tPoint_L'[2] = Straight(p)'
          BY <1>1, <3>2, <3>4, PanelStays
        <5>2. ~(target' <= 2)
          BY <2>1
        <5>3. QED
          BY <5>1, <5>2 DEF Answered
      <4>2. \A i \in 1 .. target' - 1 : i = 1 \/ i = 2
        BY <2>1
      <4>3. QED
        BY <4>1, <4>2
    <3>6. /\ target' <= 2 => mInterchangeXY' = FALSE
          /\ target' > 2 => mInterchangeXY' = panel'.swap
      BY <2>1, <3>3, <1>1
    <3>7. QED
      BY <1>1, <1>4, <3>1, <3>5, <3>6 DEF Tapped
  <2>5. ColumnsAreRecovered'
    BY <1>1, <2>1, ColumnsStay DEF CalibrateInv
  <2>6. QED
    BY <1>1, <2>1, <2>3, <2>4, <2>5 DEF CalibrateInv
<1>7. CASE target = 5
  <2>1. /\ info' = Info(tPoint_L, mInterchangeXY) /\ pc' \in {"create", "remove"}
        /\ target' = target /\ mInterchangeXY' = mInterchangeXY /\ tPoint_L' = tPoint_L
    BY <1>7 DEF ReadRelease
  <2>2. TypeOK'
    BY <1>1, <1>2, <1>4, <2>1 DEF TypeOK
  <2>3. ColumnsAreRecovered'
    <3>1. SUFFICES ASSUME ~hurried
                   PROVE  /\ info'.mInterchangeXY = panel'.swap
                          /\ \A x \in 0 .. iXres, y \in 0 .. iYres :
                               ColumnWithin(info, x, y, 3 * AimError)'
      BY <1>1 DEF ColumnsAreRecovered
    <3>2. Tapped /\ Answered(5)
      BY <1>3, <3>1, <1>7
    <3>3. mInterchangeXY = panel.swap
      BY <3>2, <1>7 DEF Tapped
    <3>4. \A i \in Targets : \E p \in TapAt(i) : tPoint_L[i] = Straight(p)
      <4> SUFFICES ASSUME NEW i \in Targets
                   PROVE  \E p \in TapAt(i) : tPoint_L[i] = Straight(p)
        OBVIOUS
      <4>1. Answered(i)
        BY <3>2, <1>7 DEF Tapped, Targets
      <4>2. QED
        BY <4>1, <1>7 DEF Answered
    <3>5. panel \in Panels
      BY <1>2 DEF TypeOK
    <3>6. info' = Info(tPoint_L, panel.swap)
      BY <2>1, <3>3
    <3>7. \A x \in 0 .. iXres, y \in 0 .. iYres :
            ColumnWithin(Info(tPoint_L, panel.swap), x, y, 3 * AimError)
      BY <3>4, <3>5, ColumnsFollow
    <3>8. \A x, y, n : ColumnWithin(info, x, y, n)' <=> ColumnWithin(info', x, y, n)
      BY <1>1 DEF ColumnWithin, Raw
    <3>9. info'.mInterchangeXY = panel'.swap
      BY <3>6, <1>1 DEF Info
    <3>10. QED
      BY <3>6, <3>7, <3>8, <3>9
  <2>4. QED
    BY <2>1, <2>2, <2>3 DEF CalibrateInv
<1>8. QED
  BY <1>2, <1>5, <1>6, <1>7 DEF TypeOK, Targets

\* The invariant is preserved.
LEMMA CalibrateStep == CalibrateInv /\ [Next]_vars => CalibrateInv'
<1> SUFFICES ASSUME CalibrateInv, [Next]_vars PROVE CalibrateInv'
  OBVIOUS
<1>1. CASE Touch
  BY <1>1, StepTouch
<1>2. CASE Lift
  BY <1>2, StepLift
<1>3. CASE NoFile
  BY <1>3, BeginsUntapped DEF NoFile, CalibrateInv
<1>4. CASE ReadTouch
  BY <1>4, StepReadTouch
<1>5. CASE ReadRelease
  BY <1>5, StepReadRelease
<1>6. CASE CalibrateAgain
  BY <1>6, BeginsUntapped DEF CalibrateAgain, CalibrateInv
<1>7. CASE StartAgain
  <2>1. TypeOK'
    <3>1. panel' \in Panels /\ target' \in Targets /\ unread' \in Seq(Frame)
      BY <1>7 DEF StartAgain, CalibrateInv, TypeOK, Targets
    <3>2. tPoint_L' = [i \in Targets |-> tPoint_L'[i]]
      BY <1>7 DEF StartAgain
    <3>3. QED
      BY <3>1, <3>2 DEF TypeOK
  <2>2. QED
    BY <1>7, <2>1 DEF StartAgain, CalibrateInv, ColumnsAreRecovered
<1>8. CASE ReadFile \/ OpenFails \/ RemoveFile \/ CreateFile \/ WriteFile
  <2>1. /\ panel' = panel /\ target' = target /\ unread' = unread
        /\ tPoint_L' = tPoint_L /\ hurried' = hurried
        /\ pc' \in {"create", "write", "up"}
    BY <1>8 DEF ReadFile, OpenFails, RemoveFile, CreateFile, WriteFile, userVars, memVars
  <2>2. TypeOK'
    BY <2>1 DEF CalibrateInv, TypeOK
  <2>3. ColumnsAreRecovered'
    <3>1. CASE pc' = "up"
      BY <3>1 DEF ColumnsAreRecovered
    <3>2. CASE pc' \in {"create", "write"}
      <4>1. info' = info /\ pc \in {"remove", "create"}
        BY <1>8, <3>2 DEF ReadFile, OpenFails, RemoveFile, CreateFile, WriteFile, memVars
      <4>2. QED
        BY <4>1, <2>1, ColumnsStay DEF CalibrateInv
    <3>3. QED
      BY <2>1, <3>1, <3>2
  <2>4. QED
    BY <2>1, <2>2, <2>3 DEF CalibrateInv
<1>9. CASE UNCHANGED vars
  <2>1. /\ panel' = panel /\ target' = target /\ unread' = unread /\ pc' = pc
        /\ tPoint_L' = tPoint_L /\ hurried' = hurried /\ touched' = touched
        /\ mInterchangeXY' = mInterchangeXY /\ info' = info
    BY <1>9 DEF vars, userVars, memVars
  <2>2. TypeOK'
    BY <2>1 DEF CalibrateInv, TypeOK
  <2>3. ColumnsAreRecovered'
    BY <2>1, ColumnsStay DEF CalibrateInv
  <2>4. Tapped => Tapped'
    BY <2>1 DEF Tapped, Answered, TapAt, Straight, Raw
  <2>5. QED
    BY <2>1, <2>2, <2>3, <2>4 DEF CalibrateInv
<1>10. QED
  BY <1>1, <1>2, <1>3, <1>4, <1>5, <1>6, <1>7, <1>8, <1>9 DEF Next

\* However the panel is turned, mirrored or scaled, and wherever within AimError
\* of the targets the user taps, startCalibrate tells the axes apart and computes
\* what finds every column of the screen again to within three times AimError.
THEOREM CalibrationIsRight == Spec => []ColumnsAreRecovered
<1>1. CalibrateInv => ColumnsAreRecovered
  BY DEF CalibrateInv
<1>2. QED
  BY <1>1, InitCalibrate, CalibrateStep, PTL DEF Spec
-----------------------------------------------------------------------------
(* What was saved.                                                         *)

\* The file is as good as none or what was computed last, and a system that starts
\* knows nothing.
SavedInv ==
  /\ file \in {Absent, Empty} \/ file = last
  /\ pc = "start" => info = Uninitialised /\ ~mHasCalibrated
  /\ pc = "create" => file = Absent
  /\ pc = "write" => file = Empty
  /\ LastCalibrationIsUsed

\* Through crashes at any point and saves that fail, the system that is up works
\* with what startCalibrate computed last, or with nothing from an empty file.
THEOREM TheLastIsUsed == Spec => []LastCalibrationIsUsed
<1>1. Init => SavedInv
  BY DEF Init, SavedInv, LastCalibrationIsUsed
<1>2. SavedInv /\ [Next]_vars => SavedInv'
  <2> SUFFICES ASSUME SavedInv, [Next]_vars PROVE SavedInv'
    OBVIOUS
  <2> USE DEF SavedInv, LastCalibrationIsUsed
  <2>1. CASE Touch \/ Lift \/ ReadTouch \/ UNCHANGED vars
    BY <2>1 DEF Touch, Lift, ReadTouch, vars, userVars, memVars
  <2>2. CASE NoFile
    BY <2>2 DEF NoFile, Begin
  <2>3. CASE ReadFile
    BY <2>3 DEF ReadFile
  <2>4. CASE OpenFails
    BY <2>4 DEF OpenFails, memVars
  <2>5. CASE ReadRelease
    <3>1. UNCHANGED <<file, last>> /\ pc = "target"
      BY <2>5 DEF ReadRelease
    <3>2. pc' = pc \/ pc' = (IF file = Absent THEN "create" ELSE "remove")
      BY <2>5 DEF ReadRelease
    <3>3. QED
      BY <3>1, <3>2
  <2>6. CASE RemoveFile
    BY <2>6 DEF RemoveFile
  <2>7. CASE CreateFile
    BY <2>7 DEF CreateFile, memVars
  <2>8. CASE WriteFile
    BY <2>8 DEF WriteFile, Written, memVars
  <2>9. CASE CalibrateAgain
    BY <2>9 DEF CalibrateAgain, Begin
  <2>10. CASE StartAgain
    BY <2>10 DEF StartAgain
  <2>11. QED
    BY <2>1, <2>2, <2>3, <2>4, <2>5, <2>6, <2>7, <2>8, <2>9, <2>10 DEF Next
<1>3. SavedInv => LastCalibrationIsUsed
  BY DEF SavedInv
<1>4. QED
  BY <1>1, <1>2, <1>3, PTL DEF Spec
=============================================================================
