----------------------------- MODULE EventList -----------------------------
(***************************************************************************)
(* The queue of module EventQueue and the linked list of EventScheduler    *)
(* that implements it, step by step together: every step is one of the     *)
(* list's, and "queue" is what is then listed.  The properties of the      *)
(* queue are those of what the code does if Refines holds: the list does   *)
(* nothing which the queue would not.                                      *)
(***************************************************************************)
EXTENDS EventQueue, FiniteSets

CONSTANT NULL   \* nullptr, which is no event

ASSUME ListAssumption == NULL \notin Event /\ IsFiniteSet(Event)

VARIABLES firstEvent, next

List == INSTANCE EventScheduler

ListInit == List!Init /\ queue = List!Listed
ListNext == List!Next /\ queue' = List!Listed'
ListSpec == ListInit /\ [][ListNext]_<<vars, firstEvent, next>>

(* The linked list behaves as the queue: whatever the stale next pointers  *)
(* and trigger times of the events that are not on it, no operation loses, *)
(* duplicates or reorders an event.                                        *)
Refines == Spec
=============================================================================
