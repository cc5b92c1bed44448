---------------------------- MODULE MCDeviceConn ----------------------------
(***************************************************************************)
(* Small instances of DeviceConn.  The goroutines notifyState starts are   *)
(* interchangeable, so the safety runs may permute them.                   *)
(***************************************************************************)
EXTENDS DeviceConn, TLC

DrainerSymmetry == Permutations(Drainers)
=============================================================================
