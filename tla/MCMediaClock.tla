---------------------------- MODULE MCMediaClock ----------------------------
(* Small clocks: the camera's wraps after 4 seconds. *)
EXTENDS MediaClock

\* No hiccup, small ones, one over half the word.
HiccupSizes == {0, -2, 9}
=============================================================================
