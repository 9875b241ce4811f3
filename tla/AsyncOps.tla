------------------------------ MODULE AsyncOps ------------------------------
(***************************************************************************)
(* What a host operation with a callback promises its caller, whatever the *)
(* event loop underneath looks like: an operation that was started is      *)
(* delivered exactly once, and the process leaves only when no started     *)
(* operation is still owed its callback.  HostLoop implements this module. *)
(***************************************************************************)
CONSTANT Jobs

VARIABLES phase,   \* phase[j]: "new", "pending" or "delivered"
          left     \* TRUE once DrainUntilIdle has returned

avars == <<phase, left>>

AInit == /\ phase = [j \in Jobs |-> "new"]
         /\ left = FALSE

AStart(j) == /\ ~left
             /\ phase[j] = "new"
             /\ phase' = [phase EXCEPT ![j] = "pending"]
             /\ UNCHANGED left

ADeliver(j) == /\ ~left
               /\ phase[j] = "pending"
               /\ phase' = [phase EXCEPT ![j] = "delivered"]
               /\ UNCHANGED left

ALeave == /\ \A j \in Jobs : phase[j] # "pending"
          /\ ~left
          /\ left' = TRUE
          /\ UNCHANGED phase

ANext == (\E j \in Jobs : AStart(j) \/ ADeliver(j)) \/ ALeave

ASpec == AInit /\ [][ANext]_avars
=============================================================================
