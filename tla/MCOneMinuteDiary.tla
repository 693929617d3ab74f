-------------------------- MODULE MCOneMinuteDiary --------------------------
(* Instances of OneMinuteDiary for TLC.                                    *)
EXTENDS OneMinuteDiary
=============================================================================
