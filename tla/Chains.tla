------------------------------- MODULE Chains -------------------------------
(***************************************************************************)
(* Events that schedule themselves again.  Whoever starts such a chain     *)
(* keeps the id of the last event it scheduled, 0 for none, and stops that *)
(* one only.  An event that has expired is a task in the dispatcher's      *)
(* queue, for which stopEvent comes too late; when it runs it schedules    *)
(* its successor beside what was scheduled meanwhile.                      *)
(***************************************************************************)
EXTENDS Naturals

Chains == [id : {"zero", "pending", "gone"},  \* the event the id names
           others : Nat,                      \* scheduled ones it does not
           due : Nat]                         \* tasks of expired ones

NoEvents == [id |-> "zero", others |-> 0, due |-> 0]

ByName(c) == IF c.id = "pending" THEN 1 ELSE 0

(* How many events of the chain are to come *)
Coming(c) == ByName(c) + c.others + c.due

ChainAdd(c) ==
    [id |-> "pending", others |-> c.others + ByName(c), due |-> c.due]

(* The owner sets its id to 0. *)
ChainStop(c) == [c EXCEPT !.id = "zero"]

NamedExpires(c) == [id |-> "gone", others |-> c.others, due |-> c.due + 1]

OtherExpires(c) == [id |-> c.id, others |-> c.others - 1, due |-> c.due + 1]

(* One of the events expires. *)
ChainExpirations(c) ==
    {d \in {NamedExpires(c)} : c.id = "pending"}
    \cup {d \in {OtherExpires(c)} : c.others > 0}

(* The task begins to run. *)
ChainRun(c) == [c EXCEPT !.due = @ - 1]
=============================================================================
