---------------------------- MODULE MCParticipant ----------------------------
(* One adventure, asked anything about two exchanges in any order. *)
EXTENDS Participant
==============================================================================
