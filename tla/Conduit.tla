------------------------------ MODULE Conduit -------------------------------
(***************************************************************************)
(* What a pipe, a pipeline or a read loop promises, whatever buffers and   *)
(* ticks it is built from: numbered chunks arrive in the order they are    *)
(* sent, none twice and none left out, and the receiver is told of the end *)
(* only when it has them all.  A conduit that is broken by its user or by  *)
(* an error promises nothing more than the order.                          *)
(***************************************************************************)
EXTENDS Integers

VARIABLES
  sent,      \* how many chunks were sent
  received,  \* how many of them, the first ones, have arrived
  told,      \* the receiver was told of the end
  broken     \* it was cut, paused or destroyed

cvars == <<sent, received, told, broken>>

CInit == sent = 0 /\ received = 0 /\ told = FALSE /\ broken = FALSE

Send == ~told /\ sent' = sent + 1 /\ UNCHANGED <<received, told, broken>>
Arrive ==
  /\ ~told /\ received < sent /\ received' \in received + 1..sent
  /\ UNCHANGED <<sent, told, broken>>
\* A sender and a receiver in one call: what is sent arrives at once.
Pass == ~told /\ sent' > sent /\ received' \in received + 1..sent' /\ UNCHANGED <<told, broken>>
Tell == received = sent /\ ~told /\ told' = TRUE /\ UNCHANGED <<sent, received, broken>>
Break ==
  /\ broken' = TRUE
  /\ sent' >= sent /\ received' >= received /\ received' <= sent'
  /\ told' \in BOOLEAN

CNext == Send \/ Arrive \/ Pass \/ Tell \/ Break
ConduitSpec == CInit /\ [][CNext]_cvars
=============================================================================
