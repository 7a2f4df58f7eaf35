---------------------------- MODULE FrameChannel ----------------------------
(* What the data exchange promises for the frames that one task sends to    *)
(* another: a first-in first-out channel that may lose frames, but never    *)
(* repeats, reorders or invents one, until it breaks for good.  Frames are  *)
(* numbered in the order in which they are sent, so that the one that was   *)
(* sent first is the one with the smallest number.                          *)
EXTENDS Naturals

CONSTANT MaxFrames

VARIABLES
  latest,  \* the number of the last frame sent
  flight,  \* the frames on their way
  received,\* the frames received
  broken   \* TRUE: nothing is promised any more

vars == <<latest, flight, received, broken>>

Init == latest = 0 /\ flight = {} /\ received = {} /\ broken = FALSE

(* A new frame enters the channel, or is lost at once.                      *)
Send ==
  /\ \E f \in (latest + 1)..MaxFrames :
       latest' = f /\ flight' \in {flight, flight \cup {f}}
  /\ UNCHANGED <<received, broken>>

Lose ==
  /\ \E f \in flight : flight' = flight \ {f}
  /\ UNCHANGED <<latest, received, broken>>

(* The oldest frame leaves the channel.                                     *)
Receive ==
  /\ \E f \in flight :
       /\ \A g \in flight : f <= g
       /\ received' = received \cup {f}
       /\ flight' = flight \ {f}
  /\ UNCHANGED <<latest, broken>>

Break == broken'

Next == Send \/ Lose \/ Receive \/ Break

Spec == Init /\ [][Next]_vars
=============================================================================
