-------------------------- MODULE MCParticipantClock --------------------------
(****************************************************************************)
(* Instances of ParticipantClock for TLC.                                   *)
(****************************************************************************)
EXTENDS ParticipantClock

CONSTANTS p1, p2, p3

TwoParticipants == <<p1, p2>>
ThreeParticipants == <<p1, p2, p3>>

=============================================================================
