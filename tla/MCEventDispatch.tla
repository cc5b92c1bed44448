--------------------------- MODULE MCEventDispatch ---------------------------
(***************************************************************************)
(* A small instance of EventDispatch: a camera whose alarm push reports     *)
(* motion, a press or nothing, and whose YOLO World pushes report types.    *)
(***************************************************************************)
EXTENDS EventDispatch

SmallAlarms ==
  {NoAlarm, [NoAlarm EXCEPT !.motion = TRUE], [NoAlarm EXCEPT !.visitor = TRUE]}
=============================================================================
