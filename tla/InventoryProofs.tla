---------------------------- MODULE InventoryProofs ----------------------------
(***************************************************************************)
(* The inventory initializes its services in order, reloads them only when *)
(* all are initialized and destroys a service only when it has stopped,    *)
(* for lists of any length of services of any kind.                        *)
(*                                                                         *)
(* The invariant says where the initializer's iterator and the stopper's   *)
(* last service stand with respect to what every service is doing.         *)
(***************************************************************************)
EXTENDS Inventory, TLAPS

(* Before the handler of async_init is called nothing else happens. *)
Quiet ==
  init # "done" => reloads = 0 /\ stop = "none"

Building ==
  init = "building" => begin = 1 /\ \A s \in Services : state[s] = "new"

(* begin_ is one past the service that is initializing. *)
Waiting ==
  /\ init = "waiting" =>
       /\ begin - 1 \in Initializables /\ state[begin - 1] = "initializing"
       /\ \A s \in Initializables : /\ s < begin - 1 => state[s] = "ready"
                                    /\ s >= begin => state[s] = "new"
  /\ \A s \in Services :
       state[s] = "initializing" => init = "waiting" /\ s = begin - 1

AllUp ==
  init \in {"posted", "done"} =>
    \A s \in Initializables : state[s] \in Up

Stopping ==
  /\ stop = "none" =>
       /\ left = Len(services)
       /\ \A s \in Services : state[s] \notin {"stopping", "stopped"}
  /\ stop = "waiting" => left \in Stoppables /\ state[left] = "stopping"
  /\ \A s \in Services : state[s] = "stopping" => stop = "waiting" /\ s = left

IInv ==
  /\ TypeOK /\ Quiet /\ Building /\ Waiting /\ AllUp /\ Stopping
  /\ InitInOrder /\ ReloadAfterInit /\ StoppedThenGone

States == {"new", "initializing", "ready", "failed", "stopping", "stopped"}

-----------------------------------------------------------------------------
(* The list and the positions in it. *)
LEMMA ListType ==
  ASSUME TypeOK
  PROVE  /\ services \in Seq(SUBSET Interfaces) /\ Len(services) \in Nat
         /\ Services = 1..Len(services) /\ End = Len(services) + 1
         /\ Initializables \subseteq Services /\ Stoppables \subseteq Services
<1>1. services \in Seq(SUBSET Interfaces)
  BY DEF TypeOK
<1>2. Len(services) \in Nat /\ Services = 1..Len(services)
  BY <1>1 DEF Services
<1> QED BY <1>1, <1>2 DEF End, Initializables, Stoppables

LEMMA InitInv == Init => IInv
BY InventoryAssumption
DEF Init, IInv, TypeOK, Quiet, Building, Waiting, AllUp, Stopping, InitInOrder,
    ReloadAfterInit, StoppedThenGone, Services, Initializables, Stoppables, End, Is

LEMMA AddServiceInv ==
  ASSUME IInv, NEW interfaces \in SUBSET Interfaces, AddService(interfaces)
  PROVE  IInv'
<1> DEFINE n == Len(services)
<1>1. /\ services \in Seq(SUBSET Interfaces) /\ n \in Nat
      /\ state \in [1..n -> States] /\ Services = 1..n
      /\ n < MaxServices /\ MaxServices \in Nat
  BY InventoryAssumption DEF IInv, TypeOK, Services, AddService, States
<1>2. /\ services' \in Seq(SUBSET Interfaces) /\ Len(services') = n + 1
      /\ Services' = 1..(n + 1)
  BY <1>1 DEF AddService, Services
<1>3. /\ init = "building" /\ init' = "building"
      /\ reloads = 0 /\ stop = "none" /\ left = n /\ begin = 1
      /\ \A s \in 1..n : state[s] = "new"
  BY <1>1 DEF IInv, AddService, Quiet, Building, Stopping
<1>4. /\ state \in Seq(States) /\ Len(state) = n
  BY <1>1
<1>5. /\ state' \in [1..(n + 1) -> States]
      /\ \A s \in 1..(n + 1) : state'[s] = "new"
  <2>1. state' = Append(state, "new") /\ "new" \in States
    BY DEF AddService, States
  <2>2. /\ state' \in Seq(States) /\ Len(state') = n + 1
        /\ state'[n + 1] = "new"
        /\ \A s \in 1..n : state'[s] = state[s]
    BY <1>4, <2>1
  <2> QED BY <1>1, <1>3, <2>2
<1>6. TypeOK'
  <2>1. state' \in [Services' -> States]
    BY <1>2, <1>5
  <2>2. begin' \in 1..End' /\ left' \in 0..Len(services')
    BY <1>1, <1>2, <1>3 DEF AddService, End
  <2>3. services' \in Seq(SUBSET Interfaces) /\ Len(services') <= MaxServices
    BY <1>1, <1>2
  <2> QED BY <1>3, <2>1, <2>2, <2>3 DEF AddService, TypeOK, IInv, States
<1>7. Quiet' /\ Building' /\ Waiting' /\ AllUp' /\ Stopping'
  BY <1>1, <1>2, <1>3, <1>5
  DEF AddService, Quiet, Building, Waiting, AllUp, Stopping
<1>8. InitInOrder' /\ ReloadAfterInit' /\ StoppedThenGone'
  BY <1>1, <1>2, <1>3, <1>5
  DEF AddService, InitInOrder, ReloadAfterInit, StoppedThenGone, Initializables,
      Stoppables
<1> QED BY <1>6, <1>7, <1>8 DEF IInv

(* The list is not changed once it is made. *)
LEMMA SameServices ==
  ASSUME services' = services
  PROVE  /\ Services' = Services /\ Initializables' = Initializables
         /\ Stoppables' = Stoppables /\ End' = End
<1>1. Services' = Services /\ End' = End
  BY DEF Services, End
<1>2. \A s : s \in Initializables' <=> s \in Initializables
  BY <1>1 DEF Initializables, Is
<1>3. \A s : s \in Stoppables' <=> s \in Stoppables
  BY <1>1 DEF Stoppables, Is
<1> QED BY <1>1, <1>2, <1>3

(* Starting at b, with every initializable service before b up and those   *)
(* from b on untouched. *)
LEMMA StartInv ==
  ASSUME IInv, NEW b \in 1..End, NEW before \in [Services -> States],
         \A s \in Services : before[s] \notin {"initializing", "stopping", "stopped"},
         \A s \in Initializables : s < b => before[s] = "ready",
         \A s \in Initializables : s >= b => before[s] = "new",
         init # "done",
         Start(b, before),
         UNCHANGED <<services, reloads, left, stop, stopper>>
  PROVE  IInv'
<1> DEFINE n == Len(services)
<1>1. /\ services \in Seq(SUBSET Interfaces) /\ n \in Nat /\ Services = 1..n
      /\ End = n + 1 /\ Initializables \subseteq 1..n
  BY ListType DEF IInv
<1>2. /\ Services' = Services /\ Initializables' = Initializables
      /\ Stoppables' = Stoppables /\ End' = End
  BY SameServices
<1>3. /\ reloads = 0 /\ reloads' = 0 /\ stop = "none" /\ stop' = "none"
      /\ left' = n /\ Len(services') = n
  BY DEF IInv, Quiet, Stopping
<1>4. CASE \E s \in Initializables :
             /\ s >= b
             /\ \A t \in Initializables : t >= b => s <= t
             /\ state' = [before EXCEPT ![s] = "initializing"]
             /\ begin' = s + 1
             /\ init' = "waiting"
  <2>1. PICK s \in Initializables :
             /\ s >= b
             /\ \A t \in Initializables : t >= b => s <= t
             /\ state' = [before EXCEPT ![s] = "initializing"]
             /\ begin' = s + 1
             /\ init' = "waiting"
    BY <1>4
  <2>2. s \in 1..n /\ begin' - 1 = s /\ begin' \in 1..(n + 1)
    BY <1>1, <2>1
  <2>3. /\ state' \in [Services -> States]
        /\ state'[s] = "initializing"
        /\ \A t \in Services : t # s => state'[t] = before[t]
    BY <1>1, <2>1, <2>2 DEF States
  <2>4. TypeOK'
    BY <1>1, <1>2, <1>3, <2>1, <2>2, <2>3 DEF IInv, TypeOK, States
  <2>5. \A t \in Initializables : /\ t < s => before[t] = "ready"
                                  /\ t > s => before[t] = "new"
    BY <1>1, <2>1, <2>2
  <2>6. Waiting'
    BY <1>1, <1>2, <2>1, <2>2, <2>3, <2>5 DEF Waiting
  <2>7. Quiet' /\ Building' /\ AllUp' /\ Stopping'
    BY <1>1, <1>2, <1>3, <2>1, <2>3 DEF Quiet, Building, AllUp, Stopping
  <2>8. InitInOrder' /\ ReloadAfterInit'
    BY <1>1, <1>2, <1>3, <2>2, <2>3, <2>5 DEF InitInOrder, ReloadAfterInit, Up
  <2>9. StoppedThenGone'
    BY <1>1, <1>2, <1>3, <2>3 DEF StoppedThenGone, Stoppables
  <2> QED BY <2>4, <2>6, <2>7, <2>8, <2>9 DEF IInv
<1>5. CASE /\ \A t \in Initializables : t < b
           /\ state' = before
           /\ begin' = End
           /\ init' = "posted"
  <2>1. TypeOK'
    <3>1. /\ state' \in [Services' -> States] /\ begin' \in 1..End'
          /\ left' \in 0..Len(services')
      <4>1. state' \in [Services' -> States]
        <5>1. state' = before /\ Services' = Services
          BY <1>2, <1>5
        <5>2. before \in [Services -> States]
          OBVIOUS
        <5> QED BY <5>1, <5>2
      <4>2. begin' \in 1..End'
        <5>1. begin' = n + 1 /\ End' = n + 1 /\ n \in Nat
          BY <1>1, <1>2, <1>5
        <5> QED BY <5>1
      <4>3. left' \in 0..Len(services')
        BY <1>1, <1>3
      <4> QED BY <4>1, <4>2, <4>3
    <3>2. services' \in Seq(SUBSET Interfaces) /\ Len(services') <= MaxServices
      BY DEF IInv, TypeOK
    <3>3. UNCHANGED <<reloads, stop, stopper>> /\ init' = "posted"
      BY <1>5
    <3> QED BY <3>1, <3>2, <3>3 DEF IInv, TypeOK, States
  <2>2. \A t \in Initializables : state'[t] = "ready"
    BY <1>5
  <2>3. Quiet' /\ Building' /\ Waiting' /\ AllUp' /\ Stopping'
    BY <1>1, <1>2, <1>3, <1>5, <2>2
    DEF Quiet, Building, Waiting, AllUp, Stopping, Up
  <2>4. InitInOrder' /\ ReloadAfterInit'
    BY <1>2, <1>3, <2>2 DEF InitInOrder, ReloadAfterInit, Up
  <2>5. StoppedThenGone'
    <3>1. \A s \in Stoppables : s \in 1..n /\ state'[s] # "stopped"
      BY <1>1, <1>5 DEF Stoppables
    <3> QED BY <1>1, <1>2, <1>3, <3>1 DEF StoppedThenGone
  <2> QED BY <2>1, <2>3, <2>4, <2>5 DEF IInv
<1> QED BY <1>4, <1>5 DEF Start, Past

-----------------------------------------------------------------------------
LEMMA AsyncInitInv == IInv /\ AsyncInit => IInv'
<1> SUFFICES ASSUME IInv, AsyncInit PROVE IInv'
  OBVIOUS
<1>1. state \in [Services -> States]
  BY DEF IInv, TypeOK, States
<1>2. 1 \in 1..End /\ \A s \in Services : s \in Nat /\ s >= 1
  BY ListType DEF IInv
<1>3. \A s \in Services : state[s] = "new"
  BY DEF IInv, AsyncInit, Building
<1>4. \A s \in Initializables : s \in Services
  BY DEF Initializables
<1> QED BY <1>1, <1>2, <1>3, <1>4, StartInv DEF AsyncInit

LEMMA InitializedInv ==
  ASSUME IInv, NEW s \in Services, Initialized(s)
  PROVE  IInv'
<1> DEFINE before == [state EXCEPT ![s] = "ready"]
<1>1. /\ services \in Seq(SUBSET Interfaces) /\ Len(services) \in Nat
      /\ Services = 1..Len(services)
  BY ListType DEF IInv
<1>2. /\ begin \in 1..End /\ state \in [Services -> States]
      /\ before \in [Services -> States]
  BY DEF IInv, TypeOK, States
<1>3. /\ s = begin - 1 /\ stop = "none"
      /\ \A t \in Initializables : /\ t < begin - 1 => state[t] = "ready"
                                   /\ t >= begin => state[t] = "new"
  BY DEF IInv, Waiting, Initialized, Quiet
<1>4. \A t \in Initializables : t \in Services /\ t \in Nat
  BY <1>1 DEF Initializables
<1>5. \A t \in Initializables : /\ t < begin => before[t] = "ready"
                                /\ t >= begin => before[t] = "new"
  BY <1>1, <1>2, <1>3, <1>4 DEF End
<1>6. \A t \in Services : before[t] \notin {"initializing", "stopping", "stopped"}
  <2>1. \A t \in Services : t # s => state[t] # "initializing"
    BY <1>3 DEF IInv, Waiting, Initialized
  <2>2. \A t \in Services : state[t] \notin {"stopping", "stopped"}
    BY <1>3 DEF IInv, Stopping
  <2> QED BY <1>2, <2>1, <2>2
<1> QED BY <1>2, <1>5, <1>6, StartInv DEF Initialized

LEMMA InitFailedInv ==
  ASSUME IInv, NEW s \in Services, InitFailed(s)
  PROVE  IInv'
<1>1. /\ services' = services /\ init = "waiting" /\ init' = "raised"
      /\ reloads = 0 /\ reloads' = 0 /\ stop = "none" /\ stop' = "none"
      /\ left' = left /\ begin' = begin /\ stopper' = stopper
      /\ state' = [state EXCEPT ![s] = "failed"]
  BY DEF IInv, InitFailed, StartFailed, Quiet
<1>2. /\ Services' = Services /\ Initializables' = Initializables
      /\ Stoppables' = Stoppables /\ End' = End
  BY <1>1, SameServices
<1>3. /\ state \in [Services -> States] /\ state' \in [Services -> States]
      /\ \A t \in Services : t # s => state'[t] = state[t]
      /\ state'[s] = "failed"
  BY <1>1 DEF IInv, TypeOK, States
<1>4. TypeOK'
  BY <1>1, <1>2, <1>3 DEF IInv, TypeOK, States
<1>5. Quiet' /\ Building' /\ Waiting' /\ AllUp'
  BY <1>1, <1>2, <1>3 DEF Quiet, Building, Waiting, AllUp, IInv, InitFailed
<1>6. Stopping'
  BY <1>1, <1>2, <1>3 DEF IInv, Stopping
<1>7. s = begin - 1
  BY <1>1 DEF IInv, Waiting, InitFailed
<1>8. \A t \in Initializables : /\ t \in Nat
                                /\ t < s => state'[t] = "ready"
                                /\ t > s => state'[t] = "new"
  <2>1. \A t \in Initializables : t \in Nat /\ t \in Services
    BY ListType DEF IInv
  <2>2. begin \in Nat
    BY ListType DEF IInv, TypeOK
  <2> QED BY <1>1, <1>3, <1>7, <2>1, <2>2 DEF IInv, Waiting
<1>9. InitInOrder'
  <2>1. s \in Nat
    BY ListType DEF IInv
  <2>2. ASSUME NEW p \in Initializables, NEW q \in Initializables,
               p < q, state'[q] # "new"
        PROVE  state'[p] = "ready"
    BY <1>8, <2>1, <2>2
  <2> QED BY <1>2, <2>2 DEF InitInOrder, Up
<1>10. ReloadAfterInit'
  BY <1>1 DEF ReloadAfterInit
<1>11. StoppedThenGone'
  <2>1. \A t \in Stoppables : t \in Services
    BY ListType DEF IInv
  <2>2. state[s] = "initializing"
    BY DEF InitFailed
  <2> QED BY <1>1, <1>2, <1>3, <2>1, <2>2 DEF IInv, StoppedThenGone
<1> QED BY <1>4, <1>5, <1>6, <1>9, <1>10, <1>11 DEF IInv

(* Steps of application that leave the services alone. *)
LEMMA OnInitInv == IInv /\ OnInit => IInv'
<1> SUFFICES ASSUME IInv, OnInit PROVE IInv'
  OBVIOUS
<1>1. /\ services' = services /\ UNCHANGED <<begin, state, left, stop, stopper>>
      /\ init # "done" /\ reloads = 0 /\ stop = "none"
      /\ \/ init = "raised" /\ init' = "exited" /\ reloads' = 0
         \/ init = "posted" /\ init' = "done" /\ reloads' = 1
  BY DEF IInv, OnInit, Quiet
<1>2. /\ Services' = Services /\ Initializables' = Initializables
      /\ Stoppables' = Stoppables /\ End' = End
  BY <1>1, SameServices
<1>3. TypeOK'
  BY <1>1, <1>2, InventoryAssumption DEF IInv, TypeOK
<1>4. Quiet' /\ Building' /\ Waiting' /\ AllUp' /\ Stopping'
  BY <1>1, <1>2 DEF IInv, Quiet, Building, Waiting, AllUp, Stopping
<1>5. InitInOrder' /\ ReloadAfterInit' /\ StoppedThenGone'
  BY <1>1, <1>2 DEF IInv, InitInOrder, ReloadAfterInit, StoppedThenGone, AllUp
<1> QED BY <1>3, <1>4, <1>5 DEF IInv

LEMMA ReloadInv == IInv /\ Reload => IInv'
<1> SUFFICES ASSUME IInv, Reload PROVE IInv'
  OBVIOUS
<1>1. /\ services' = services /\ UNCHANGED <<init, begin, state, left, stop, stopper>>
      /\ init = "done" /\ reloads' \in 0..(MaxReloads + 1)
  BY InventoryAssumption DEF IInv, TypeOK, Reload
<1>2. /\ Services' = Services /\ Initializables' = Initializables
      /\ Stoppables' = Stoppables /\ End' = End
  BY <1>1, SameServices
<1>3. TypeOK'
  BY <1>1, <1>2 DEF IInv, TypeOK
<1>4. Quiet' /\ Building' /\ Waiting' /\ AllUp' /\ Stopping'
  BY <1>1, <1>2 DEF IInv, Quiet, Building, Waiting, AllUp, Stopping
<1>5. InitInOrder' /\ ReloadAfterInit' /\ StoppedThenGone'
  BY <1>1, <1>2 DEF IInv, InitInOrder, ReloadAfterInit, StoppedThenGone, AllUp
<1> QED BY <1>3, <1>4, <1>5 DEF IInv

-----------------------------------------------------------------------------
(* Stopping from k down, when what can be stopped above k has stopped and  *)
(* nothing at or below k has been asked to. *)
LEMMA StopInv ==
  ASSUME IInv, NEW k \in 0..Len(services), NEW before \in [Services -> States],
         NEW it,
         init = "done",
         \A s \in Initializables : before[s] \in Up,
         \A s \in Services : before[s] \notin {"initializing", "stopping"},
         \A s \in Stoppables : before[s] = "stopped" <=> s > k,
         StopFrom(k, it, before),
         stopper' \in [begin: 0..(MaxServices + 1), end: 0..(MaxServices + 1)],
         UNCHANGED <<services, init, begin, reloads>>
  PROVE  IInv'
<1> DEFINE live == {s \in Stoppables : s <= k}
<1>1. /\ Services' = Services /\ Initializables' = Initializables
      /\ Stoppables' = Stoppables /\ End' = End
  BY SameServices
<1>2. /\ Len(services) \in Nat /\ Services = 1..Len(services)
      /\ Stoppables \subseteq Services /\ Initializables \subseteq Services
  BY ListType DEF IInv
<1>3. /\ left' \in 0..Len(services) /\ state' \in [Services -> States]
      /\ stop' \in {"waiting", "stopped", "broken"}
      /\ stop' = "waiting" => left' \in Stoppables /\ state'[left'] = "stopping"
      /\ \A s \in Services : state'[s] = "stopping" => stop' = "waiting" /\ s = left'
      /\ \A s \in Services : state'[s] # "initializing"
      /\ \A s \in Initializables : state'[s] \in Up
      /\ \A s \in Stoppables : state'[s] = "stopped" <=> s > left'
  <2>1. CASE \E s \in live : /\ \A t \in live : t <= s
                             /\ left' = s
                             /\ state' = [before EXCEPT ![s] = "stopping"]
                             /\ stop' = "waiting"
    <3>1. PICK s \in live : /\ \A t \in live : t <= s
                            /\ left' = s
                            /\ state' = [before EXCEPT ![s] = "stopping"]
                            /\ stop' = "waiting"
      BY <2>1
    <3>2. s \in Stoppables /\ s \in Services /\ s \in 0..Len(services) /\ s <= k
      BY <1>2
    <3>3. /\ state' \in [Services -> States] /\ state'[s] = "stopping"
          /\ \A t \in Services : t # s => state'[t] = before[t]
      BY <3>1, <3>2 DEF States
    <3>4. \A t \in Stoppables : t # s => (before[t] = "stopped" <=> t > s)
      BY <1>2, <3>1, <3>2
    <3> QED BY <1>2, <3>1, <3>2, <3>3, <3>4 DEF Up
  <2>2. CASE /\ live = {} /\ left' = 0 /\ state' = before
             /\ stop' = IF it.begin = it.end THEN "stopped" ELSE "broken"
    <3>1. \A s \in Stoppables : s > k /\ s > 0
      BY <1>2, <2>2
    <3> QED BY <1>2, <2>2, <3>1
  <2> QED BY <2>1, <2>2 DEF StopFrom, Kept
<1>4. TypeOK'
  BY <1>1, <1>3 DEF IInv, TypeOK, States
<1>5. Quiet' /\ Building' /\ Waiting' /\ AllUp'
  BY <1>1, <1>3 DEF Quiet, Building, Waiting, AllUp
<1>6. Stopping'
  BY <1>1, <1>3 DEF Stopping
<1>7. InitInOrder' /\ ReloadAfterInit' /\ StoppedThenGone'
  BY <1>1, <1>3 DEF InitInOrder, ReloadAfterInit, StoppedThenGone
<1> QED BY <1>4, <1>5, <1>6, <1>7 DEF IInv

LEMMA AsyncStopInv == IInv /\ AsyncStop => IInv'
<1> SUFFICES ASSUME IInv, AsyncStop PROVE IInv'
  OBVIOUS
<1>1. /\ Len(services) \in Nat /\ Len(services) <= MaxServices
      /\ End = Len(services) + 1
  BY ListType DEF IInv, TypeOK
<1>2. stopper' \in [begin: 0..(MaxServices + 1), end: 0..(MaxServices + 1)]
  BY <1>1, InventoryAssumption DEF AsyncStop
<1>3. /\ init = "done" /\ stop = "none" /\ left = Len(services)
      /\ left \in 0..Len(services)
  BY <1>1 DEF IInv, AsyncStop, Stopping
<1>4. /\ \A s \in Initializables : state[s] \in Up
      /\ \A s \in Services : state[s] \notin {"initializing", "stopping"}
      /\ \A s \in Stoppables : state[s] = "stopped" <=> s > left
      /\ state \in [Services -> States]
  BY <1>3 DEF IInv, Waiting, AllUp, Stopping, StoppedThenGone, TypeOK, States
<1> QED BY <1>2, <1>3, <1>4, StopInv DEF AsyncStop

LEMMA OnStoppedInv ==
  ASSUME IInv, NEW s \in Services, OnStopped(s)
  PROVE  IInv'
<1> DEFINE before == [state EXCEPT ![s] = "stopped"]
<1>1. /\ Len(services) \in Nat /\ Services = 1..Len(services)
      /\ Stoppables \subseteq Services /\ Initializables \subseteq Services
  BY ListType DEF IInv
<1>2. s = left /\ s - 1 \in 0..Len(services) /\ init = "done"
  BY <1>1 DEF IInv, OnStopped, Stopping, Quiet
<1>3. /\ state \in [Services -> States] /\ before \in [Services -> States]
      /\ before[s] = "stopped"
      /\ \A t \in Services : t # s => before[t] = state[t]
  BY DEF IInv, TypeOK, States
<1>4. \A t \in Initializables : before[t] \in Up
  BY <1>1, <1>2, <1>3 DEF IInv, AllUp, Up
<1>5. \A t \in Services : before[t] \notin {"initializing", "stopping"}
  BY <1>2, <1>3 DEF IInv, Waiting, Stopping
<1>6. \A t \in Stoppables : before[t] = "stopped" <=> t > s - 1
  BY <1>1, <1>2, <1>3 DEF IInv, StoppedThenGone
<1>7. stopper' \in [begin: 0..(MaxServices + 1), end: 0..(MaxServices + 1)]
  BY DEF IInv, TypeOK, OnStopped
<1> QED BY <1>2, <1>3, <1>4, <1>5, <1>6, <1>7, StopInv DEF OnStopped

-----------------------------------------------------------------------------
LEMMA StutterInv == IInv /\ UNCHANGED vars => IInv'
<1> SUFFICES ASSUME IInv, UNCHANGED vars PROVE IInv'
  OBVIOUS
<1>1. /\ Services' = Services /\ Initializables' = Initializables
      /\ Stoppables' = Stoppables /\ End' = End
  BY SameServices DEF vars
<1> QED BY <1>1 DEF vars, IInv, TypeOK, Quiet, Building, Waiting, AllUp, Stopping,
                    InitInOrder, ReloadAfterInit, StoppedThenGone

LEMMA NextInv == IInv /\ [Next]_vars => IInv'
<1> SUFFICES ASSUME IInv, [Next]_vars PROVE IInv'
  OBVIOUS
<1>1. CASE \E interfaces \in SUBSET Interfaces : AddService(interfaces)
  BY <1>1, AddServiceInv
<1>2. CASE AsyncInit \/ OnInit \/ Reload \/ AsyncStop
  BY <1>2, AsyncInitInv, OnInitInv, ReloadInv, AsyncStopInv
<1>3. CASE \E s \in Services : Initialized(s) \/ InitFailed(s) \/ OnStopped(s)
  BY <1>3, InitializedInv, InitFailedInv, OnStoppedInv
<1>4. CASE UNCHANGED vars
  BY <1>4, StutterInv
<1> QED BY <1>1, <1>2, <1>3, <1>4 DEF Next

(* The inductive invariant holds in every behaviour. *)
THEOREM Invariant == Spec => []IInv
<1>1. Init => IInv
  BY InitInv
<1>2. IInv /\ [Next]_vars => IInv'
  BY NextInv
<1> QED BY <1>1, <1>2, PTL DEF Spec

(* The inventory's state and the iterators of its initializer and stopper  *)
(* stay within the list, whatever services it holds.                       *)
THEOREM TypeCorrect == Spec => []TypeOK
<1>1. IInv => TypeOK
  BY DEF IInv
<1> QED BY <1>1, Invariant, PTL

(* Services are initialized in the order they were added, each only after  *)
(* those before it have succeeded.                                         *)
THEOREM InitializedInOrder == Spec => []InitInOrder
<1>1. IInv => InitInOrder
  BY DEF IInv
<1> QED BY <1>1, Invariant, PTL

(* on_init, or anybody, reloads services only when all are initialized. *)
THEOREM ReloadedAfterInit == Spec => []ReloadAfterInit
<1>1. IInv => ReloadAfterInit
  BY DEF IInv
<1> QED BY <1>1, Invariant, PTL

(* rerase destroys a service that can be stopped only after on_stopped was *)
(* called for it, and always then.                                         *)
THEOREM DestroyedAfterStop == Spec => []StoppedThenGone
<1>1. IInv => StoppedThenGone
  BY DEF IInv
<1> QED BY <1>1, Invariant, PTL

(* async_init and async_stop wait for exactly one service, whatever the    *)
(* services implement and whichever of them fails.                         *)
THEOREM HandlerHeldByOne == Spec => []OneHoldsHandler
<1>1. IInv => OneHoldsHandler
  <2> SUFFICES ASSUME IInv PROVE OneHoldsHandler
    OBVIOUS
  <2>1. Initializables \subseteq Services /\ Stoppables \subseteq Services
    BY ListType DEF IInv
  <2>2. init = "waiting" =>
          begin - 1 \in Initializables /\ Busy("initializing") = {begin - 1}
    BY <2>1 DEF IInv, Waiting, Busy
  <2>3. init # "waiting" => Busy("initializing") = {}
    BY DEF IInv, Waiting, Busy
  <2>4. stop = "waiting" => left \in Stoppables /\ Busy("stopping") = {left}
    BY <2>1 DEF IInv, Stopping, Busy
  <2>5. stop # "waiting" => Busy("stopping") = {}
    BY DEF IInv, Stopping, Busy
  <2> QED BY <2>2, <2>3, <2>4, <2>5 DEF OneHoldsHandler
<1> QED BY <1>1, Invariant, PTL

Apart ==
  /\ init # "building" => services # <<>>
  /\ stop # "none" => stopper.begin # stopper.end
  /\ stop # "stopped"

(* The handler of async_stop is never posted: begin_ and end_ differ and   *)
(* nothing brings them together.                                           *)
THEOREM StopNeverAnswered == Spec => [](stop # "stopped")
<1>1. Init => Apart
  BY DEF Init, Apart
<1>2. IInv /\ Apart /\ [Next]_vars => Apart'
  <2> SUFFICES ASSUME IInv, Apart, [Next]_vars PROVE Apart'
    OBVIOUS
  <2> USE DEF Apart
  <2>1. CASE AsyncStop
    <3>1. services # <<>> /\ UNCHANGED <<services, init>>
      BY <2>1 DEF AsyncStop
    <3>2. Len(services) > 0 /\ Len(services) \in Nat
      BY <3>1, ListType DEF IInv
    <3>3. stopper'.begin # stopper'.end
      BY <2>1, <3>2 DEF AsyncStop, End
    <3> QED BY <2>1, <3>1, <3>3 DEF AsyncStop, StopFrom
  <2>2. CASE \E s \in Services : OnStopped(s)
    BY <2>2 DEF OnStopped, StopFrom
  <2>3. CASE \E interfaces \in SUBSET Interfaces : AddService(interfaces)
    BY <2>3 DEF AddService
  <2>4. CASE AsyncInit
    BY <2>4 DEF AsyncInit
  <2>5. CASE UNCHANGED vars
    BY <2>5 DEF vars
  <2>6. CASE OnInit \/ Reload \/ \E s \in Services : Initialized(s) \/ InitFailed(s)
    BY <2>6 DEF OnInit, Reload, Initialized, InitFailed
  <2> QED BY <2>1, <2>2, <2>3, <2>4, <2>5, <2>6 DEF Next
<1>3. Apart => stop # "stopped"
  BY DEF Apart
<1> QED BY <1>1, <1>2, <1>3, Invariant, PTL DEF Spec
===============================================================================
