------------------------------- MODULE Inventory -------------------------------
(***************************************************************************)
(* application::inventory: the list of services, filled by                 *)
(* inventory_builder, initialized one service after the other in the order *)
(* they were added (services hold references to those added before them),  *)
(* reloaded, and stopped in the reverse order.  application calls          *)
(* async_init and, from its handler on_init, reload; further calls of      *)
(* reload and async_stop follow the usage notes in inventory.hpp.          *)
(*                                                                         *)
(* Iterators of the std::list are positions 1..Len(services), End is the   *)
(* position of the list's sentinel.                                        *)
(***************************************************************************)
EXTENDS Naturals, Sequences

CONSTANTS
  MaxServices,  \* bound: services in the list
  MaxReloads    \* bound: reloads after the first

ASSUME InventoryAssumption ==
  /\ MaxServices \in Nat \ {0}
  /\ MaxReloads \in Nat

VARIABLES
  services,  \* what each service implements, in the order added
  init,      \* the initializer
  begin,     \* its iterator begin_
  state,     \* what each service is doing
  reloads,   \* calls of reload so far
  left,      \* services 1..left are still in the list
  stop,      \* the stopper
  stopper    \* its iterators: the base of begin_ and of end_

vars == <<services, init, begin, state, reloads, left, stop, stopper>>

Interfaces == {"initializable", "reloadable", "stoppable"}

Services == DOMAIN services

End == Len(services) + 1

Is(s, interface) == interface \in services[s]

TypeOK ==
  /\ services \in Seq(SUBSET Interfaces) /\ Len(services) <= MaxServices
  /\ init \in {"building", "waiting", "posted", "raised", "done", "exited"}
  /\ begin \in 1..End
  /\ state \in [Services -> {"new", "initializing", "ready", "failed", "stopping", "stopped"}]
  /\ reloads \in 0..(MaxReloads + 1)
  /\ left \in 0..Len(services)
  /\ stop \in {"none", "waiting", "stopped", "broken"}
  /\ stopper \in [begin: 0..(MaxServices + 1), end: 0..(MaxServices + 1)]

Init ==
  /\ services = <<>> /\ init = "building" /\ begin = 1
  /\ state = <<>> /\ reloads = 0 /\ left = 0
  /\ stop = "none" /\ stopper = [begin |-> 0, end |-> 0]

-----------------------------------------------------------------------------
AddService(interfaces) ==
  /\ init = "building"
  /\ Len(services) < MaxServices
  /\ services' = Append(services, interfaces)
  /\ state' = Append(state, "new")
  /\ left' = left + 1
  /\ UNCHANGED <<init, begin, reloads, stop, stopper>>

-----------------------------------------------------------------------------
(* The initializer. *)

Initializables == {s \in Services : Is(s, "initializable")}

(* Mutated: begin_ moves past two services. *)
PastTwo(s) == s + 2

Past(s) == s + 1

(* start(nullptr): the next service from position b on that can be         *)
(* initialized is asked to, with start as its handler, and begin_ moves    *)
(* past it; without one the handler of async_init is posted.  A service    *)
(* calls its handler later, from io_context and never inside of its        *)
(* async_init, so begin_ has moved before the handler can look at it.      *)
Start(b, before) ==
  \/ \E s \in Initializables :
       /\ s >= b
       /\ \A t \in Initializables : t >= b => s <= t
       /\ state' = [before EXCEPT ![s] = "initializing"]
       /\ begin' = Past(s)
       /\ init' = "waiting"
  \/ /\ \A t \in Initializables : t < b
     /\ state' = before
     /\ begin' = End
     /\ init' = "posted"

(* make_inventory asserts that the list is not empty. *)
AsyncInit ==
  /\ init = "building"
  /\ services # <<>>
  /\ Start(1, state)
  /\ UNCHANGED <<services, reloads, left, stop, stopper>>

(* A service calls its init handler, which is start. *)
Initialized(s) ==
  /\ init = "waiting"
  /\ state[s] = "initializing"
  /\ Start(begin, [state EXCEPT ![s] = "ready"])
  /\ UNCHANGED <<services, reloads, left, stop, stopper>>

(* Mutated: the error is dropped and the next service started. *)
StartAnyway(before) == Start(begin, before)

(* Mutated: the handler of async_init is not posted. *)
StartSilently(before) == state' = before /\ UNCHANGED <<init, begin>>

(* start(exc): the handler of async_init is posted with the failure. *)
StartFailed(before) ==
  /\ state' = before
  /\ init' = "raised"
  /\ UNCHANGED begin

InitFailed(s) ==
  /\ init = "waiting"
  /\ state[s] = "initializing"
  /\ StartFailed([state EXCEPT ![s] = "failed"])
  /\ UNCHANGED <<services, reloads, left, stop, stopper>>

(* Mutated: reload comes before the look at the error. *)
OnInitReloads ==
  /\ init \in {"raised", "posted"}
  /\ init' = IF init = "raised" THEN "exited" ELSE "done"
  /\ reloads' = reloads + 1
  /\ UNCHANGED <<services, begin, state, left, stop, stopper>>

(* application::on_init *)
OnInit ==
  /\ \/ /\ init = "raised"
        /\ init' = "exited"
        /\ UNCHANGED reloads
     \/ /\ init = "posted"
        /\ init' = "done"
        /\ reloads' = reloads + 1
  /\ UNCHANGED <<services, begin, state, left, stop, stopper>>

(* "You may then call `reload` every time config changes" *)
Reload ==
  /\ init = "done" /\ stop = "none"
  /\ reloads <= MaxReloads
  /\ reloads' = reloads + 1
  /\ UNCHANGED <<services, init, begin, state, left, stop, stopper>>

-----------------------------------------------------------------------------
(* The stopper.  A reverse iterator is kept as its base, the position      *)
(* after the service it refers to: begin_ has the sentinel's, end_ that of *)
(* the first service in the list when the stopper was made.                *)

Stoppables == {s \in Services : Is(s, "stoppable")}

(* Mutated: a service is erased when it is asked to stop. *)
KeptBefore(s) == s - 1

(* A service stays in the list until it reports that it has stopped. *)
Kept(s) == s

(* start() with services 1..k in the list.  rerase takes the last service  *)
(* out and returns an iterator with the same base, so the loop goes on to  *)
(* the last service that can be stopped, or until the list is empty; there *)
(* it ends if the iterators meet and else follows one that is not valid.   *)
StopFrom(k, it, before) ==
  LET live == {s \in Stoppables : s <= k} IN
    \/ \E s \in live :
         /\ \A t \in live : t <= s
         /\ left' = Kept(s)
         /\ state' = [before EXCEPT ![s] = "stopping"]
         /\ stop' = "waiting"
    \/ /\ live = {}
       /\ left' = 0
       /\ state' = before
       /\ stop' = IF it.begin = it.end THEN "stopped" ELSE "broken"

AsyncStop ==
  /\ init = "done" /\ stop = "none"
  /\ stopper' = [begin |-> End, end |-> 1]
  /\ StopFrom(left, stopper', state)
  /\ UNCHANGED <<services, init, begin, reloads>>

(* A service calls its stop handler, which is on_stopped. *)
OnStopped(s) ==
  /\ stop = "waiting"
  /\ state[s] = "stopping"
  /\ StopFrom(s - 1, stopper, [state EXCEPT ![s] = "stopped"])
  /\ UNCHANGED <<services, init, begin, reloads, stopper>>

(* The process ends; the next one begins with an empty builder. *)
Reset ==
  /\ services' = <<>> /\ init' = "building" /\ begin' = 1
  /\ state' = <<>> /\ reloads' = 0 /\ left' = 0
  /\ stop' = "none" /\ stopper' = [begin |-> 0, end |-> 0]

-----------------------------------------------------------------------------
Next ==
  \/ \E interfaces \in SUBSET Interfaces : AddService(interfaces)
  \/ AsyncInit \/ OnInit \/ Reload \/ AsyncStop
  \/ \E s \in Services : Initialized(s) \/ InitFailed(s) \/ OnStopped(s)

Spec == Init /\ [][Next]_vars

(* A service calls the handler it was given, and io_context runs what was  *)
(* posted.                                                                 *)
Fairness ==
  /\ WF_vars(OnInit)
  /\ WF_vars(\E s \in Services : Initialized(s) \/ InitFailed(s))
  /\ WF_vars(\E s \in Services : OnStopped(s))

FairSpec == Spec /\ Fairness

-----------------------------------------------------------------------------
Up == {"ready", "stopping", "stopped"}

(* A service is asked to initialize only after all that can be and were    *)
(* added before it have succeeded: it may use what they set up.            *)
InitInOrder ==
  \A s, t \in Initializables : s < t /\ state[t] # "new" => state[s] \in Up

(* No service is reloaded before every service is initialized, and none    *)
(* after one of them failed.                                               *)
ReloadAfterInit ==
  reloads > 0 => \A s \in Initializables : state[s] \in Up

(* A service that can be stopped leaves the list, and is destroyed, when   *)
(* it has reported that it is stopped and not before or without it.        *)
StoppedThenGone ==
  \A s \in Stoppables : state[s] = "stopped" <=> s > left

Busy(doing) == {s \in Services : state[s] = doing}

(* While async_init or async_stop waits, exactly one service holds the     *)
(* handler, for the stopper the last in the list; otherwise none does.  No *)
(* answer is awaited from nobody, two services never run at once, and none *)
(* calls a handler whose operation is over.                                *)
OneHoldsHandler ==
  /\ IF init = "waiting" THEN \E s \in Initializables : Busy("initializing") = {s}
                         ELSE Busy("initializing") = {}
  /\ IF stop = "waiting" THEN left \in Stoppables /\ Busy("stopping") = {left}
                         ELSE Busy("stopping") = {}

(* async_init calls its handler, with the failure or when all is done. *)
InitAnswered == init = "waiting" ~> init \in {"done", "exited"}

(* "On shutdown call `stop`": async_stop stops what can be stopped and     *)
(* calls its handler.                                                      *)
StopAnswered == stop = "waiting" ~> stop = "stopped"
===============================================================================
