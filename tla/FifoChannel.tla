---------------------------- MODULE FifoChannel ----------------------------
(***************************************************************************)
(* What the TCP record layer promises the proxy that calls it: the         *)
(* plaintext handed out by the receiving context is, message for message,  *)
(* a prefix of the plaintext handed to the sending context -- nothing      *)
(* lost, altered, duplicated or reordered.  The connection may fail-stop   *)
(* at any point (an authentication error closes it), so the abstract       *)
(* specification has no liveness.                                          *)
(***************************************************************************)
EXTENDS Sequences, SequencesExt

CONSTANT Receivers      \* the receiving ends reading the one stream

VARIABLES sent, delivered

vars == << sent, delivered >>

Init == sent = << >> /\ delivered = [r \in Receivers |-> << >>]

\* The application hands one more message to the sender.
Send ==
    /\ Len(sent') = Len(sent) + 1
    /\ IsPrefix(sent, sent')
    /\ UNCHANGED delivered

\* Receiver r hands out the next one or more messages, in order.
Deliver(r) ==
    /\ Len(delivered'[r]) > Len(delivered[r])
    /\ IsPrefix(delivered'[r], sent)
    /\ IsPrefix(delivered[r], delivered'[r])
    /\ \A q \in Receivers \ {r} : delivered'[q] = delivered[q]
    /\ UNCHANGED sent

Next == Send \/ \E r \in Receivers : Deliver(r)

Spec == Init /\ [][Next]_vars
=============================================================================
