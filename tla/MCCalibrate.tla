---------------------------- MODULE MCCalibrate ------------------------------
(* A finite instance of Calibrate for TLC.  The errors of the corners add up *)
(* to four columns, and with that of the centre make the worst calibration.  *)
EXTENDS Calibrate

MCPanels ==
  [swap : BOOLEAN, kx : {3}, ky : {2, -4}, bx : {5}, by : {40}]
MCAims ==
  << {<<-1, 1>>}, {<<0, 0>>, <<1, -1>>}, {<<1, 1>>}, {<<-1, 0>>}, {<<-1, -1>>} >>
MCGarbage == {[iX |-> 7, iY |-> 90]}
=============================================================================
