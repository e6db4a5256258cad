-------------------------- MODULE MCEventScheduler --------------------------
(* Three events, whose fields hold anything at the start: an insertion can  *)
(* find events on both sides of its place, and ties of two events.          *)
EXTENDS EventList

CONSTANTS e1, e2, e3

MCEvent == {e1, e2, e3}
=============================================================================
