---------------------------- MODULE OrderedNotify ----------------------------
(***************************************************************************)
(* What cameraDevice promises of its connection states (the comment on     *)
(* stateMu in pkg/bridge/device.go): every state the device reaches is     *)
(* handed to the callback, once and in the order it was reached.           *)
(***************************************************************************)
EXTENDS Naturals, Sequences

VARIABLES
  hist,  \* the states reached so far
  told   \* the states the callback has seen

vars == <<hist, told>>

Init == hist = <<>> /\ told = <<>>

Reach == /\ \E b \in {"up", "down"} : hist' = Append(hist, b)
         /\ UNCHANGED told

Tell == /\ Len(told) < Len(hist)
        /\ told' = Append(told, hist[Len(told) + 1])
        /\ UNCHANGED hist

Next == Reach \/ Tell

Spec == Init /\ [][Next]_vars /\ WF_vars(Tell)
=============================================================================
