----------------------------- MODULE ByteStream -----------------------------
(***************************************************************************)
(* What the client above a transport relies on: chunks arrive in the order *)
(* they were sent, each once, none skipped, until the stream breaks; and   *)
(* while it does not break, everything sent arrives.                       *)
(***************************************************************************)
EXTENDS Naturals, Sequences

VARIABLES
  put,   \* how many chunks the sender has sent: chunks 0 to put - 1
  got,   \* the chunks the receiver has read, in order
  open   \* the stream has not broken

vars == <<put, got, open>>

Init == put = 0 /\ got = <<>> /\ open = TRUE

Put == put' = put + 1 /\ UNCHANGED <<got, open>>

Get == /\ Len(got) < put
       /\ got' = Append(got, Len(got))
       /\ UNCHANGED <<put, open>>

Break == open /\ open' = FALSE /\ UNCHANGED <<put, got>>

Next == Put \/ Get \/ Break

Spec == Init /\ [][Next]_vars /\ WF_vars(open /\ Get)
=============================================================================
