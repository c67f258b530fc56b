------------------------------ MODULE UpdateFeed ------------------------------
(***************************************************************************)
(* What the update source promises the dialog service, with no connection, *)
(* requests or answers: updates 1, 2, 3, ... arrive at the bot API and     *)
(* update_handler is called with each in order, once per process.  The API *)
(* forgets updates, but only such as a handler was called with before.     *)
(* After a restart everything the API still has is handed out again.       *)
(***************************************************************************)
EXTENDS Integers

CONSTANT MaxUpdate   \* bound: updates that ever arrive

VARIABLES
  arrived,    \* updates 1..arrived have arrived at the API
  forgotten,  \* updates 1..forgotten will not be handed out any more
  cursor,     \* the last update this process handed out, 0 if none
  seen        \* the last update any process handed out

feedVars == <<arrived, forgotten, cursor, seen>>

Larger(a, b) == IF a >= b THEN a ELSE b

Init == arrived = 0 /\ forgotten = 0 /\ cursor = 0 /\ seen = 0

Arrive ==
  /\ arrived < MaxUpdate
  /\ arrived' = arrived + 1
  /\ UNCHANGED <<forgotten, cursor, seen>>

(* Mutated: the last update is handed out again. *)
LaterOrSame(u) == u >= cursor

Later(u) == u > cursor

(* Mutated: one update may be skipped. *)
NearlyAdjoins(u) == u - 2 <= Larger(cursor, forgotten)

(* Nothing is skipped but what was forgotten. *)
Adjoins(u) == u - 1 <= Larger(cursor, forgotten)

Dispatch ==
  \E u \in 1..arrived :
    /\ Later(u)
    /\ Adjoins(u)
    /\ cursor' = u
    /\ seen' = Larger(seen, u)
    /\ UNCHANGED <<arrived, forgotten>>

Forget ==
  /\ forgotten' \in (forgotten + 1)..seen
  /\ UNCHANGED <<arrived, cursor, seen>>

Restart ==
  /\ cursor' = 0
  /\ UNCHANGED <<arrived, forgotten, seen>>

Next == Arrive \/ Dispatch \/ Forget \/ Restart

Spec == Init /\ [][Next]_feedVars
===============================================================================
