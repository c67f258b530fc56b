------------------------------ MODULE LongPolling -----------------------------
(***************************************************************************)
(* The long_polling coroutine behind polymorphic_update, the handler       *)
(* user_dialog::on_update that resumes it, and the bot API at the far end  *)
(* of the connection.  Other coroutines of the process (Others, one per    *)
(* dialog) send messages over the same connection at any time and may take *)
(* bytes of the coroutine's answers, so this module is the update source   *)
(* under every possible use of the shared stream.                          *)
(*                                                                         *)
(* An exception in the coroutine is rethrown by on_update out of           *)
(* io_context::run and ends the process.  The offset lives in the          *)
(* coroutine only: a new process starts without one.                       *)
(***************************************************************************)
EXTENDS Integers, Sequences, FiniteSets

CONSTANTS
  Poll,       \* the long polling coroutine
  Others,     \* the coroutines that call sendMessage
  MaxUpdate,  \* bound: updates that ever arrive
  Limit,      \* the limit parameter of getUpdates
  MaxParts,   \* bound: parts a response may travel in
  Surplus,    \* bound: parts a read returns after the end of a response
  MaxFaults,  \* bound: faults of the network, the API and the host
  Sent,       \* result of sendMessage: an object, not an array
  Refused, Malformed, Failed, None

Callers == {Poll} \cup Others

Requests == [by: Callers, offset: 0..(MaxUpdate + 1)]

(* The array in an answer to getUpdates: updates lo..hi, none if lo > hi. *)
Batches == [lo: 1..(MaxUpdate + 1), hi: 0..MaxUpdate]

Values == Batches \cup {Sent}

ASSUME LongPollingAssumption ==
  /\ MaxUpdate \in Nat /\ Limit \in Nat \ {0}
  /\ MaxParts \in Nat \ {0} /\ Surplus \in Nat /\ MaxFaults \in Nat
  /\ Poll \notin Others
  /\ None \notin Requests
  /\ Sent \notin Batches
  /\ Refused \notin Values \cup {Malformed, Failed, None}
  /\ Malformed \notin Values \cup {Failed, None}
  /\ Failed \notin Values \cup {None}
  /\ None \notin Values

VARIABLES
  link, call, wire, inbox, orphans, spilt,   \* the connection
  arrived, forgotten,                        \* the API: see UpdateFeed
  pc,           \* where the coroutine is
  offset,       \* its local variable, 0 for an empty optional
  next, last,   \* the updates of the current batch still to be yielded
  cursor, seen, \* updates on_update was called with: see UpdateFeed
  faults        \* faults so far

Conn == INSTANCE Connection

connVars == <<link, call, wire, inbox, orphans, spilt>>
pollVars == <<pc, offset, next, last, cursor, seen>>
vars == <<connVars, pollVars, arrived, forgotten, faults>>

TypeOK ==
  /\ Conn!TypeOK
  /\ pc \in {"off", "request", "await", "yield", "failed"}
  /\ offset \in 0..(MaxUpdate + 1)
  /\ next \in 0..(MaxUpdate + 1) /\ last \in 0..MaxUpdate
  /\ cursor \in 0..MaxUpdate /\ seen \in 0..MaxUpdate
  /\ arrived \in 0..MaxUpdate /\ forgotten \in 0..MaxUpdate
  /\ faults \in 0..MaxFaults

Init ==
  /\ Conn!Init
  /\ arrived = 0 /\ forgotten = 0 /\ faults = 0
  /\ pc = "off" /\ offset = 0 /\ next = 0 /\ last = 0
  /\ cursor = 0 /\ seen = 0

Fault == faults < MaxFaults /\ faults' = faults + 1

-----------------------------------------------------------------------------
(* The coroutine and its consumer. *)

PollRequest == [by |-> Poll, offset |-> offset]

(* user_dialog::async_init runs after tg::async_init has succeeded. *)
Resume ==
  /\ pc = "off"
  /\ link \in {"open", "silent", "lost"}
  /\ pc' = "request"
  /\ UNCHANGED <<connVars, offset, next, last, cursor, seen, arrived,
                 forgotten, faults>>

GetUpdates ==
  /\ pc = "request"
  /\ pc' = "await"
  /\ Conn!Request(Poll, PollRequest)
  /\ UNCHANGED <<offset, next, last, cursor, seen, arrived, forgotten, faults>>

(* Mutated: the offset goes one too far. *)
NextOffsetPast(res) == res.hi + 2

(* Mutated: the offset is not moved. *)
NextOffsetSame(res) == offset

(* updates.back().at("update_id") + 1 *)
NextOffset(res) == res.hi + 1

(* Mutated: an error code makes the coroutine ask again. *)
AskAgain == pc' = "request"

(* An exception ends the coroutine and waits for its consumer. *)
Throw == pc' = "failed"

(* The body of the loop after co_await: an error code, an answer with "ok" *)
(* = false and a result that is no array all leave by an exception.        *)
GotUpdates ==
  /\ pc = "await"
  /\ Conn!Take(Poll)
  /\ LET res == call[Poll].res IN
       \/ /\ res \notin Batches
          /\ Throw
          /\ UNCHANGED <<offset, next, last>>
       \/ /\ res \in Batches /\ res.lo > res.hi
          /\ pc' = "request"
          /\ UNCHANGED <<offset, next, last>>
       \/ /\ res \in Batches /\ res.lo <= res.hi
          /\ pc' = "yield"
          /\ offset' = NextOffset(res)
          /\ next' = res.lo
          /\ last' = res.hi
  /\ UNCHANGED <<cursor, seen, arrived, forgotten, faults>>

Larger(a, b) == IF a >= b THEN a ELSE b

(* Mutated: the rest of the batch is left out. *)
AfterYieldAsk == "request"

AfterYield == IF next = last THEN "request" ELSE "yield"

(* co_yield hands update `next' to on_update, which spawns its dialog and  *)
(* resumes the coroutine; after the last one the loop comes round.         *)
OnUpdate ==
  /\ pc = "yield"
  /\ cursor' = next
  /\ seen' = Larger(seen, next)
  /\ next' = next + 1
  /\ pc' = AfterYield
  /\ UNCHANGED <<connVars, offset, last, arrived, forgotten, faults>>

(* Everything but the API's own state is gone. *)
ProcessEnds ==
  /\ pc' = "off" /\ offset' = 0 /\ next' = 0 /\ last' = 0 /\ cursor' = 0
  /\ Conn!Reset
  /\ UNCHANGED <<seen, arrived, forgotten>>

(* on_update rethrows the exception, or on_init that of async_connect. *)
Exit ==
  /\ pc = "failed" \/ link = "failed"
  /\ ProcessEnds
  /\ UNCHANGED faults

Kill == Fault /\ ProcessEnds

-----------------------------------------------------------------------------
(* sendMessage by the dialogs; offset 0 stands for its absence. *)

SendMessage(d) ==
  /\ pc # "off"
  /\ Conn!Request(d, [by |-> d, offset |-> 0])
  /\ UNCHANGED <<pollVars, arrived, forgotten, faults>>

MessageSent(d) ==
  /\ Conn!Take(d)
  /\ UNCHANGED <<pollVars, arrived, forgotten, faults>>

(* The steps of the connection itself. *)

Connect ==
  /\ Conn!Resolve \/ Conn!TcpConnect \/ Conn!Handshake
  /\ UNCHANGED <<pollVars, arrived, forgotten, faults>>

Transfer(c) ==
  /\ Conn!Written(c) \/ Conn!StreamFails(c) \/ Conn!ReadSome(c)
  /\ UNCHANGED <<pollVars, arrived, forgotten, faults>>

Disconnect ==
  /\ Conn!ConnectFails \/ Conn!LinkLost \/ Conn!LinkSilent
  /\ Fault
  /\ UNCHANGED <<pollVars, arrived, forgotten>>

Notice ==
  /\ Conn!Noticed
  /\ UNCHANGED <<pollVars, arrived, forgotten, faults>>

-----------------------------------------------------------------------------
(* The bot API.  An offset confirms every update below it. *)

Confirmed(o) == IF o > forgotten + 1 THEN o - 1 ELSE forgotten

Smaller(a, b) == IF a <= b THEN a ELSE b

Arrive ==
  /\ arrived < MaxUpdate
  /\ arrived' = arrived + 1
  /\ UNCHANGED <<connVars, pollVars, forgotten, faults>>

(* With nothing to hand out the API waits for the timeout the request      *)
(* carries, then answers with an empty array.                              *)
ServeUpdates ==
  /\ wire # <<>> /\ Head(wire).by = Poll
  /\ LET f == Confirmed(Head(wire).offset) IN
       /\ forgotten' = f
       /\ Conn!Answer([lo |-> f + 1, hi |-> Smaller(arrived, f + Limit)])
  /\ UNCHANGED <<pollVars, arrived, faults>>

ServeMessage ==
  /\ wire # <<>> /\ Head(wire).by # Poll
  /\ Conn!Answer(Sent)
  /\ UNCHANGED <<pollVars, arrived, forgotten, faults>>

(* An error answer, before or after the offset took effect. *)
ServeError ==
  /\ Fault
  /\ wire # <<>>
  /\ forgotten' \in {forgotten, Confirmed(Head(wire).offset)}
  /\ \E a \in {Refused, Malformed} : Conn!Answer(a)
  /\ UNCHANGED <<pollVars, arrived>>

(* A request of a process that is gone reaches the API late. *)
ServeLate(r) ==
  /\ Conn!ServeOrphan(r)
  /\ forgotten' = Confirmed(r.offset)
  /\ UNCHANGED <<pollVars, arrived, faults>>

Next ==
  \/ Resume \/ GetUpdates \/ GotUpdates \/ OnUpdate \/ Exit \/ Kill
  \/ \E d \in Others : SendMessage(d) \/ MessageSent(d)
  \/ Connect \/ Disconnect \/ Notice \/ \E c \in Callers : Transfer(c)
  \/ Arrive \/ ServeUpdates \/ ServeMessage \/ ServeError
  \/ \E r \in orphans : ServeLate(r)

Spec == Init /\ [][Next]_vars

(* io_context runs what is ready, the API answers, and whoever runs the    *)
(* program starts it again after it ended (a new process is Connect).      *)
(* Nobody owes a notice of a link that went silent.                        *)
Fairness ==
  /\ WF_vars(Resume) /\ WF_vars(GetUpdates) /\ WF_vars(GotUpdates)
  /\ WF_vars(OnUpdate) /\ WF_vars(Exit) /\ WF_vars(Connect)
  /\ \A c \in Callers : WF_vars(Transfer(c))
  /\ WF_vars(ServeUpdates) /\ WF_vars(ServeMessage)

FairSpec == Spec /\ Fairness

-----------------------------------------------------------------------------
(* The API never forgets an update no process was called with: an offset   *)
(* goes out only after every update below it went to on_update, whatever   *)
(* answers are lost, stolen or late and whenever the process ends.         *)
ForgetOnlySeen == forgotten <= seen

(* At most one getUpdates is unanswered or unread on the stream, and none  *)
(* when the next one is about to be written.                               *)
OneGetUpdates ==
  /\ Cardinality({i \in DOMAIN wire : wire[i].by = Poll}) <= 1
  /\ pc \in {"request", "yield"} =>
       /\ call[Poll].pc = "idle"
       /\ \A i \in DOMAIN wire : wire[i].by # Poll
       /\ \A i \in DOMAIN inbox : inbox[i].of.by # Poll

(* As long as only the coroutine uses the connection, the answer it takes  *)
(* is the one to its own request: neither a fault nor a restart leaves     *)
(* something on the stream that the next operation mistakes for it.        *)
OwnAnswer == Others = {} => Conn!OwnAnswer

(* No operation on the stream, of the coroutine or of a dialog, waits for  *)
(* a response nobody sends, through any restarts, unless the end of one    *)
(* was thrown away with another's buffer; the coroutine alone never does   *)
(* that to itself.                                                         *)
NoneStranded ==
  /\ Conn!NoReaderStranded
  /\ Others = {} => ~spilt

(* The coroutine, the shared connection and the API implement UpdateFeed:  *)
(* updates reach on_update in order, once per process, none skipped.       *)
Feed == INSTANCE UpdateFeed

ImplementsFeed == Feed!Spec

(* Every update that arrives is handed to on_update in the end, through    *)
(* any number of empty answers and a bounded number of faults, unless the  *)
(* link dies in silence and stays so: the long poll has no deadline of its *)
(* own and would wait for good.                                            *)
EveryUpdateSeen ==
  []<>~Conn!Deaf => \A u \in 1..MaxUpdate : arrived >= u ~> seen >= u
===============================================================================
