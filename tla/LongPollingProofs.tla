--------------------------- MODULE LongPollingProofs ---------------------------
(***************************************************************************)
(* LongPolling is type correct and the API never forgets an update that    *)
(* was not handed out, for any number of dialogs sharing the connection,   *)
(* any number of updates, parts and faults.                                *)
(*                                                                         *)
(* ForgetOnlySeen is not inductive: an offset confirms updates when the    *)
(* API reads it, which may be long after the coroutine wrote it and even   *)
(* after its process is gone.  IInv therefore bounds every offset that is  *)
(* still on its way by what has been handed out, and the coroutine's own   *)
(* variable whenever no batch is being yielded.                            *)
(***************************************************************************)
EXTENDS LongPolling, TLAPS

CP == INSTANCE ConnectionProofs

(* Operations that have been issued carry a request. *)
Asked == \A c \in Callers : call[c].pc # "idle" => call[c].req \in Requests

OffsetsSeen ==
  /\ \A i \in DOMAIN wire : wire[i].offset <= seen + 1
  /\ \A r \in orphans : r.offset <= seen + 1
  /\ \A c \in Callers : call[c].pc # "idle" => call[c].req.offset <= seen + 1

OwnOffset ==
  /\ pc = "yield" => next \in 1..last /\ offset = last + 1
  /\ pc # "yield" => offset <= seen + 1

CursorSeen == cursor <= seen

IInv == TypeOK /\ Asked /\ OffsetsSeen /\ OwnOffset /\ CursorSeen /\ ForgetOnlySeen

-----------------------------------------------------------------------------
(* What the connection's proofs need of its constants. *)
LEMMA Constants == CP!ConnectionAssumption
BY LongPollingAssumption DEF CP!ConnectionAssumption

(* The two instances of Connection define the same steps. *)
LEMMA SameType == CP!TypeOK <=> Conn!TypeOK
BY DEF CP!TypeOK, Conn!TypeOK, CP!Links, Conn!Links, CP!Call, Conn!Call,
       CP!Part, Conn!Part

LEMMA SameTypePrime == CP!TypeOK' <=> Conn!TypeOK'
BY DEF CP!TypeOK, Conn!TypeOK, CP!Links, Conn!Links, CP!Call, Conn!Call,
       CP!Part, Conn!Part

LEMMA SameFinish ==
  ASSUME NEW c, NEW of, NEW res
  PROVE  CP!Finish(c, of, res) <=> Conn!Finish(c, of, res)
BY DEF CP!Finish, Conn!Finish

LEMMA SameReadSome ==
  ASSUME NEW c
  PROVE  CP!ReadSome(c) <=> Conn!ReadSome(c)
BY DEF CP!ReadSome, Conn!ReadSome, CP!Rest, Conn!Rest, CP!BadPart,
       Conn!BadPart, CP!Finish, Conn!Finish, CP!Continues,
       Conn!Continues, CP!ProcessResponse, Conn!ProcessResponse

LEMMA SameAnswer ==
  ASSUME NEW a
  PROVE  CP!Answer(a) <=> Conn!Answer(a)
BY DEF CP!Answer, Conn!Answer, CP!Parts, Conn!Parts

-----------------------------------------------------------------------------
(* A caller's operation is a function value; its request when it has one. *)
LEMMA CallType ==
  ASSUME Conn!TypeOK, NEW c \in Callers
  PROVE  /\ call[c] \in Conn!Call
         /\ call[c].req \in Requests \cup {None}
         /\ call[c].res \in Values \cup {Refused, Failed, None}
BY DEF Conn!TypeOK, Conn!Call

LEMMA InitInv == Init => IInv
<1> SUFFICES ASSUME Init PROVE IInv
  OBVIOUS
<1> USE DEF Init, Conn!Init
<1>1. CP!TypeOK
  BY Constants, CP!InitType DEF CP!Init, CP!Idle, Conn!Idle
<1>2. TypeOK
  BY <1>1, SameType, LongPollingAssumption DEF TypeOK
<1>3. \A c \in Callers : call[c].pc = "idle"
  BY DEF Conn!Idle
<1> QED BY <1>2, <1>3 DEF IInv, Asked, OffsetsSeen, OwnOffset, CursorSeen,
                          ForgetOnlySeen

-----------------------------------------------------------------------------
(* What each step of the connection leaves of the invariant's parts about  *)
(* it.  The update source only adds steps of its own to these.             *)
Carried == Conn!TypeOK /\ Asked /\ OffsetsSeen

LEMMA RequestCarried ==
  ASSUME Carried, seen' = seen,
         NEW c \in Callers, NEW r \in Requests, r.offset <= seen + 1,
         Conn!Request(c, r)
  PROVE  Carried'
<1> USE DEF Carried
<1>1. Conn!TypeOK'
  <2>1. CP!Request(c, r)
    BY DEF CP!Request, Conn!Request, CP!OnStream, Conn!OnStream, CP!Writing,
           Conn!Writing
  <2> QED BY <2>1, Constants, CP!RequestType, SameType, SameTypePrime
<1>2. call' = [call EXCEPT ![c] = Conn!Writing(r)] /\ UNCHANGED <<wire, orphans>>
  BY DEF Conn!Request
<1>3. call'[c].req = r /\ \A d \in Callers \ {c} : call'[d] = call[d]
  BY <1>2 DEF Conn!TypeOK, Conn!Writing
<1> QED BY <1>1, <1>2, <1>3 DEF Asked, OffsetsSeen

LEMMA WrittenCarried ==
  ASSUME Carried, seen' = seen, NEW c \in Callers, Conn!Written(c)
  PROVE  Carried'
<1> USE DEF Carried
<1>1. call[c].req \in Requests /\ call[c].req.offset <= seen + 1
  BY DEF Asked, OffsetsSeen, Conn!Written
<1>2. Conn!TypeOK'
  <2>1. CP!Written(c)
    BY DEF CP!Written, Conn!Written
  <2>2. call[c].req # None
    BY <1>1, LongPollingAssumption
  <2> QED BY <2>1, <2>2, Constants, CP!WrittenType, SameType, SameTypePrime
<1>3. \A d \in Callers : call'[d].req = call[d].req
                         /\ (call'[d].pc # "idle" => call[d].pc # "idle")
  BY DEF Conn!Written, Conn!TypeOK, Conn!Call
<1>4. \A i \in DOMAIN wire' : wire'[i].offset <= seen + 1
  <2>1. CASE wire' = wire
    BY <2>1 DEF OffsetsSeen
  <2>2. CASE wire' = Append(wire, call[c].req)
    BY <1>1, <2>2 DEF Conn!TypeOK, OffsetsSeen
  <2> QED BY <2>1, <2>2 DEF Conn!Written
<1>5. orphans' = orphans
  BY DEF Conn!Written
<1> QED BY <1>2, <1>3, <1>4, <1>5 DEF Asked, OffsetsSeen

(* Completing an operation keeps its request. *)
LEMMA FinishCarried ==
  ASSUME Conn!TypeOK, NEW c \in Callers, NEW of, NEW res,
         call[c].pc # "idle", Conn!Finish(c, of, res)
  PROVE  \A d \in Callers : call'[d].req = call[d].req
                            /\ (call'[d].pc # "idle" => call[d].pc # "idle")
BY DEF Conn!Finish, Conn!TypeOK, Conn!Call

LEMMA StreamFailsCarried ==
  ASSUME Carried, seen' = seen, NEW c \in Callers, Conn!StreamFails(c)
  PROVE  Carried'
<1> USE DEF Carried
<1>1. Conn!TypeOK'
  <2>1. CP!StreamFails(c)
    BY SameFinish DEF CP!StreamFails, Conn!StreamFails, CP!Outstanding,
                      Conn!Outstanding, CP!Deaf, Conn!Deaf
  <2> QED BY <2>1, Constants, CP!StreamFailsType, SameType, SameTypePrime
<1>2. call[c].pc # "idle" /\ Conn!Finish(c, None, Failed)
  BY DEF Conn!StreamFails, Conn!Outstanding
<1>3. \A d \in Callers : call'[d].req = call[d].req
                         /\ (call'[d].pc # "idle" => call[d].pc # "idle")
  BY <1>2, FinishCarried
<1> QED BY <1>1, <1>3 DEF Asked, OffsetsSeen, Conn!StreamFails

LEMMA ReadSomeCarried ==
  ASSUME Carried, seen' = seen, NEW c \in Callers, Conn!ReadSome(c)
  PROVE  Carried'
<1> USE DEF Carried
<1>1. Conn!TypeOK'
  <2>1. CP!ReadSome(c)
    BY SameReadSome
  <2> QED BY <2>1, Constants, CP!ReadSomeType, SameType, SameTypePrime
<1>2. call[c].pc # "idle"
  BY DEF Conn!ReadSome
<1>3. \A d \in Callers : call'[d].req = call[d].req
                         /\ (call'[d].pc # "idle" => call[d].pc # "idle")
  <2> DEFINE seg == Head(inbox)
  <2>1. CASE ~Conn!Continues(c, seg)
    <3>1. Conn!Finish(c, None, Failed)
      BY <2>1 DEF Conn!ReadSome, Conn!BadPart
    <3> QED BY <1>2, <3>1, FinishCarried
  <2>2. CASE Conn!Continues(c, seg) /\ seg.last
    <3>1. Conn!Finish(c, seg.of, Conn!ProcessResponse(seg.answer))
      BY <2>2 DEF Conn!ReadSome
    <3> QED BY <1>2, <3>1, FinishCarried
  <2>3. CASE Conn!Continues(c, seg) /\ ~seg.last
    <3>1. call' = [call EXCEPT ![c] = [@ EXCEPT !.of = seg.of,
                                               !.got = seg.part]]
      BY <2>3 DEF Conn!ReadSome
    <3> QED BY <3>1 DEF Conn!TypeOK, Conn!Call
  <2> QED BY <2>1, <2>2, <2>3
<1> QED BY <1>1, <1>3 DEF Asked, OffsetsSeen, Conn!ReadSome

LEMMA TakeCarried ==
  ASSUME Carried, seen' = seen, NEW c \in Callers, Conn!Take(c)
  PROVE  Carried'
<1> USE DEF Carried
<1>1. Conn!TypeOK'
  <2>1. CP!Take(c)
    BY DEF CP!Take, Conn!Take, CP!Idle, Conn!Idle
  <2> QED BY <2>1, Constants, CP!TakeType, SameType, SameTypePrime
<1>2. \A d \in Callers : call'[d].pc # "idle" => call'[d] = call[d]
  BY DEF Conn!Take, Conn!TypeOK, Conn!Idle
<1> QED BY <1>1, <1>2 DEF Asked, OffsetsSeen, Conn!Take

LEMMA AnswerCarried ==
  ASSUME Carried, seen' = seen, NEW a \in Values \cup {Refused, Malformed},
         Conn!Answer(a)
  PROVE  Carried'
<1> USE DEF Carried
<1>1. Conn!TypeOK'
  <2>1. CP!Answer(a)
    BY SameAnswer
  <2> QED BY <2>1, Constants, CP!AnswerType, SameType, SameTypePrime
<1>2. wire # <<>> /\ wire' = Tail(wire) /\ UNCHANGED <<call, orphans>>
  BY DEF Conn!Answer
<1>3. \A i \in DOMAIN wire' : wire'[i].offset <= seen + 1
  BY <1>2 DEF Conn!TypeOK, OffsetsSeen
<1> QED BY <1>1, <1>2, <1>3 DEF Asked, OffsetsSeen

LEMMA LinkCarried ==
  ASSUME Carried, seen' = seen,
         \/ Conn!Resolve \/ Conn!TcpConnect \/ Conn!Handshake
         \/ Conn!ConnectFails \/ Conn!LinkLost \/ Conn!LinkSilent \/ Conn!Noticed
  PROVE  Carried'
<1> USE DEF Carried
<1> USE DEF Conn!Resolve, Conn!TcpConnect, Conn!Handshake, Conn!ConnectFails,
            Conn!LinkLost, Conn!LinkSilent, Conn!Noticed
<1>1. Conn!TypeOK'
  BY DEF Conn!TypeOK, Conn!Links
<1> QED BY <1>1 DEF Asked, OffsetsSeen

LEMMA ResetCarried ==
  ASSUME Carried, seen' = seen, Conn!Reset
  PROVE  Carried'
<1> USE DEF Carried
<1>1. Conn!TypeOK'
  <2>1. CP!Reset
    BY DEF CP!Reset, Conn!Reset, CP!Idle, Conn!Idle
  <2> QED BY <2>1, Constants, CP!ResetType, SameType, SameTypePrime
<1>2. /\ \A c \in Callers : call'[c].pc = "idle"
      /\ wire' = <<>>
      /\ \A r \in orphans' : r \in orphans \/ \E i \in DOMAIN wire : r = wire[i]
  BY DEF Conn!Reset, Conn!Idle
<1> QED BY <1>1, <1>2 DEF Asked, OffsetsSeen

LEMMA ServeOrphanCarried ==
  ASSUME Carried, seen' = seen, NEW r, Conn!ServeOrphan(r)
  PROVE  Carried'
BY DEF Carried, Conn!ServeOrphan, Conn!TypeOK, Asked, OffsetsSeen

-----------------------------------------------------------------------------
(* The coroutine's own steps. *)

LEMMA ResumeInv == IInv /\ Resume => IInv'
<1> SUFFICES ASSUME IInv, Resume PROVE IInv'
  OBVIOUS
<1> USE DEF IInv, Resume, connVars
<1>1. TypeOK'
  BY DEF TypeOK, Conn!TypeOK
<1> QED BY <1>1 DEF Asked, OffsetsSeen, OwnOffset, CursorSeen, ForgetOnlySeen

LEMMA GetUpdatesInv == IInv /\ GetUpdates => IInv'
<1> SUFFICES ASSUME IInv, GetUpdates PROVE IInv'
  OBVIOUS
<1> USE DEF IInv, GetUpdates
<1>1. PollRequest \in Requests /\ PollRequest.offset <= seen + 1
  BY DEF PollRequest, Requests, TypeOK, Callers, OwnOffset
<1>2. Carried'
  BY <1>1, RequestCarried DEF Carried, TypeOK, Callers
<1>3. TypeOK'
  BY <1>2 DEF Carried, TypeOK
<1> QED BY <1>2, <1>3 DEF Carried, OwnOffset, CursorSeen, ForgetOnlySeen

LEMMA GotUpdatesInv == IInv /\ GotUpdates => IInv'
<1> SUFFICES ASSUME IInv, GotUpdates PROVE IInv'
  OBVIOUS
<1> USE DEF IInv, GotUpdates, NextOffset, Throw
<1>1. Carried'
  BY TakeCarried DEF Carried, TypeOK, Callers
<1>2. TypeOK' /\ OwnOffset'
  <2> DEFINE res == call[Poll].res
  <2>1. CASE \/ res \notin Batches /\ pc' = "failed"
             \/ res \in Batches /\ res.lo > res.hi /\ pc' = "request"
    <3>1. UNCHANGED <<offset, next, last>>
      BY <2>1, LongPollingAssumption DEF Batches
    <3> QED BY <1>1, <2>1, <3>1 DEF Carried, TypeOK, OwnOffset
  <2>2. CASE res \in Batches /\ res.lo <= res.hi
    <3>1. /\ res.lo \in 1..(MaxUpdate + 1) /\ res.hi \in 0..MaxUpdate
          /\ res.lo <= res.hi
      BY <2>2 DEF Batches
    <3>2. /\ pc' = "yield" /\ offset' = res.hi + 1
          /\ next' = res.lo /\ last' = res.hi
      BY <2>2, <3>1
    <3>3. next' \in 1..last' /\ offset' = last' + 1
      BY <3>1, <3>2, LongPollingAssumption
    <3>4. offset' \in 0..(MaxUpdate + 1) /\ next' \in 0..(MaxUpdate + 1)
      BY <3>1, <3>2, LongPollingAssumption
    <3> QED BY <1>1, <3>1, <3>2, <3>3, <3>4 DEF Carried, TypeOK, OwnOffset
  <2> QED BY <2>1, <2>2
<1> QED BY <1>1, <1>2 DEF Carried, CursorSeen, ForgetOnlySeen

LEMMA OnUpdateInv == IInv /\ OnUpdate => IInv'
<1> SUFFICES ASSUME IInv, OnUpdate PROVE IInv'
  OBVIOUS
<1> USE DEF IInv, OnUpdate, AfterYield, connVars
<1>1. /\ next \in 1..last /\ last \in 0..MaxUpdate /\ offset = last + 1
      /\ seen \in 0..MaxUpdate /\ MaxUpdate \in Nat
  BY LongPollingAssumption DEF OwnOffset, TypeOK
<1>2. seen' \in 0..MaxUpdate /\ seen' >= seen /\ seen' >= next
  BY <1>1 DEF Larger
<1>3. TypeOK'
  BY <1>1, <1>2 DEF TypeOK, Conn!TypeOK
<1>4. OffsetsSeen'
  <2>1. \A o : o \in 0..(MaxUpdate + 1) /\ o <= seen + 1 => o <= seen' + 1
    BY <1>1, <1>2
  <2>2. \A r \in Requests : r.offset \in 0..(MaxUpdate + 1)
    BY DEF Requests
  <2>3. \A i \in DOMAIN wire : wire[i] \in Requests
    BY DEF TypeOK, Conn!TypeOK
  <2>4. \A r \in orphans : r \in Requests
    BY DEF TypeOK, Conn!TypeOK
  <2> QED BY <2>1, <2>2, <2>3, <2>4 DEF OffsetsSeen, Asked
<1>5. OwnOffset'
  BY <1>1, <1>2 DEF OwnOffset
<1>6. CursorSeen' /\ ForgetOnlySeen'
  BY <1>1, <1>2 DEF CursorSeen, ForgetOnlySeen, TypeOK
<1> QED BY <1>3, <1>4, <1>5, <1>6 DEF Asked

(* A new process starts with nothing; what the old one wrote is bounded.   *)
LEMMA ProcessEndsInv ==
  ASSUME IInv, ProcessEnds, faults' \in 0..MaxFaults
  PROVE  IInv'
<1> USE DEF IInv, ProcessEnds
<1>1. Carried'
  BY ResetCarried DEF Carried, TypeOK
<1>2. TypeOK'
  BY <1>1, LongPollingAssumption DEF Carried, TypeOK
<1> QED BY <1>1, <1>2 DEF Carried, OwnOffset, CursorSeen, ForgetOnlySeen, TypeOK

-----------------------------------------------------------------------------
(* The other users of the stream, and the stream. *)

(* A step that moves the connection and nothing else of the update source. *)
LEMMA OtherStepInv ==
  ASSUME IInv, Carried', UNCHANGED <<pollVars, arrived, forgotten>>,
         faults' \in 0..MaxFaults
  PROVE  IInv'
<1>1. TypeOK'
  BY DEF IInv, Carried, TypeOK, pollVars
<1> QED BY <1>1 DEF IInv, Carried, OwnOffset, CursorSeen, ForgetOnlySeen, pollVars

LEMMA FaultType == TypeOK /\ Fault => faults' \in 0..MaxFaults
BY LongPollingAssumption DEF TypeOK, Fault

LEMMA SendMessageInv ==
  ASSUME IInv, NEW d \in Others, SendMessage(d)
  PROVE  IInv'
<1> DEFINE r == [by |-> d, offset |-> 0]
<1>1. r \in Requests /\ r.offset <= seen + 1
  BY LongPollingAssumption DEF Requests, Callers, IInv, TypeOK
<1>2. Carried'
  BY <1>1, RequestCarried DEF SendMessage, IInv, Carried, TypeOK, Callers, pollVars
<1> QED BY <1>2, OtherStepInv DEF SendMessage, IInv, TypeOK

LEMMA MessageSentInv ==
  ASSUME IInv, NEW d \in Others, MessageSent(d)
  PROVE  IInv'
<1>1. Carried'
  BY TakeCarried DEF MessageSent, IInv, Carried, TypeOK, Callers, pollVars
<1> QED BY <1>1, OtherStepInv DEF MessageSent, IInv, TypeOK

LEMMA ConnectInv == IInv /\ Connect => IInv'
<1> SUFFICES ASSUME IInv, Connect PROVE IInv'
  OBVIOUS
<1>1. Carried'
  BY LinkCarried DEF Connect, IInv, Carried, TypeOK, pollVars
<1> QED BY <1>1, OtherStepInv DEF Connect, IInv, TypeOK

LEMMA TransferInv ==
  ASSUME IInv, NEW c \in Callers, Transfer(c)
  PROVE  IInv'
<1>1. Carried /\ seen' = seen
  BY DEF Transfer, IInv, Carried, TypeOK, pollVars
<1>2. Carried'
  BY <1>1, WrittenCarried, StreamFailsCarried, ReadSomeCarried DEF Transfer
<1> QED BY <1>2, OtherStepInv DEF Transfer, IInv, TypeOK

LEMMA NoticeInv == IInv /\ Notice => IInv'
<1> SUFFICES ASSUME IInv, Notice PROVE IInv'
  OBVIOUS
<1>1. Carried'
  BY LinkCarried DEF Notice, IInv, Carried, TypeOK, pollVars
<1> QED BY <1>1, OtherStepInv DEF Notice, IInv, TypeOK

LEMMA DisconnectInv == IInv /\ Disconnect => IInv'
<1> SUFFICES ASSUME IInv, Disconnect PROVE IInv'
  OBVIOUS
<1>1. Carried'
  BY LinkCarried DEF Disconnect, IInv, Carried, TypeOK, pollVars
<1> QED BY <1>1, OtherStepInv, FaultType DEF Disconnect, IInv

-----------------------------------------------------------------------------
(* The API. *)

(* Confirming an offset that is bounded by `seen' forgets nothing unseen.  *)
LEMMA ConfirmedSeen ==
  ASSUME TypeOK, ForgetOnlySeen, NEW o \in 0..(MaxUpdate + 1), o <= seen + 1
  PROVE  Confirmed(o) \in 0..MaxUpdate /\ Confirmed(o) <= seen
BY LongPollingAssumption DEF Confirmed, TypeOK, ForgetOnlySeen

(* A step of the API: the connection moves and updates may be forgotten.   *)
LEMMA ApiStepInv ==
  ASSUME IInv, Carried', UNCHANGED <<pollVars, arrived>>,
         forgotten' \in 0..MaxUpdate, forgotten' <= seen,
         faults' \in 0..MaxFaults
  PROVE  IInv'
<1>1. TypeOK'
  BY DEF IInv, Carried, TypeOK, pollVars
<1> QED BY <1>1 DEF IInv, Carried, OwnOffset, CursorSeen, ForgetOnlySeen, pollVars

(* The request the API reads next carries a bounded offset. *)
LEMMA HeadOffset ==
  ASSUME IInv, wire # <<>>
  PROVE  Head(wire).offset \in 0..(MaxUpdate + 1) /\ Head(wire).offset <= seen + 1
<1>1. wire \in Seq(Requests) /\ 1 \in DOMAIN wire /\ Head(wire) = wire[1]
  BY DEF IInv, TypeOK, Conn!TypeOK
<1>2. Head(wire) \in Requests
  BY <1>1
<1> QED BY <1>1, <1>2 DEF IInv, OffsetsSeen, Requests

LEMMA ArriveInv == IInv /\ Arrive => IInv'
<1> SUFFICES ASSUME IInv, Arrive PROVE IInv'
  OBVIOUS
<1>1. TypeOK'
  BY LongPollingAssumption DEF IInv, Arrive, TypeOK, Conn!TypeOK, connVars, pollVars
<1> QED BY <1>1 DEF IInv, Arrive, Asked, OffsetsSeen, OwnOffset, CursorSeen,
                    ForgetOnlySeen, connVars, pollVars

LEMMA ServeUpdatesInv == IInv /\ ServeUpdates => IInv'
<1> SUFFICES ASSUME IInv, ServeUpdates PROVE IInv'
  OBVIOUS
<1> DEFINE f == Confirmed(Head(wire).offset)
           b == [lo |-> f + 1, hi |-> Smaller(arrived, f + Limit)]
<1>1. f \in 0..MaxUpdate /\ f <= seen
  BY HeadOffset, ConfirmedSeen DEF ServeUpdates, IInv
<1>2. b \in Values
  BY <1>1, LongPollingAssumption DEF Values, Batches, Smaller, IInv, TypeOK
<1>3. Carried'
  BY <1>2, AnswerCarried DEF ServeUpdates, IInv, Carried, TypeOK, pollVars
<1> HIDE DEF f
<1> QED BY <1>1, <1>3, ApiStepInv DEF ServeUpdates, IInv, TypeOK, f

LEMMA ServeMessageInv == IInv /\ ServeMessage => IInv'
<1> SUFFICES ASSUME IInv, ServeMessage PROVE IInv'
  OBVIOUS
<1>1. Carried'
  BY AnswerCarried DEF ServeMessage, IInv, Carried, TypeOK, pollVars, Values
<1> QED BY <1>1, OtherStepInv DEF ServeMessage, IInv, TypeOK

LEMMA ServeErrorInv == IInv /\ ServeError => IInv'
<1> SUFFICES ASSUME IInv, ServeError PROVE IInv'
  OBVIOUS
<1>1. forgotten' \in 0..MaxUpdate /\ forgotten' <= seen
  <2>1. forgotten \in 0..MaxUpdate /\ forgotten <= seen
    BY DEF IInv, TypeOK, ForgetOnlySeen
  <2> QED BY <2>1, HeadOffset, ConfirmedSeen DEF ServeError, IInv
<1>2. Carried'
  BY AnswerCarried DEF ServeError, IInv, Carried, TypeOK, pollVars
<1> QED BY <1>1, <1>2, ApiStepInv, FaultType DEF ServeError, IInv

LEMMA ServeLateInv ==
  ASSUME IInv, NEW r \in orphans, ServeLate(r)
  PROVE  IInv'
<1>1. r.offset \in 0..(MaxUpdate + 1) /\ r.offset <= seen + 1
  BY DEF IInv, TypeOK, Conn!TypeOK, Requests, OffsetsSeen
<1>2. forgotten' \in 0..MaxUpdate /\ forgotten' <= seen
  BY <1>1, ConfirmedSeen DEF ServeLate, IInv
<1>3. Carried'
  BY ServeOrphanCarried DEF ServeLate, IInv, Carried, TypeOK, pollVars
<1> QED BY <1>2, <1>3, ApiStepInv DEF ServeLate, IInv, TypeOK

-----------------------------------------------------------------------------
LEMMA StutterInv == IInv /\ UNCHANGED vars => IInv'
<1> SUFFICES ASSUME IInv, UNCHANGED vars PROVE IInv'
  OBVIOUS
<1>1. Conn!TypeOK'
  BY DEF IInv, vars, connVars, TypeOK, Conn!TypeOK
<1> QED BY <1>1 DEF IInv, vars, connVars, pollVars, TypeOK, Asked, OffsetsSeen,
                    OwnOffset, CursorSeen, ForgetOnlySeen

LEMMA NextInv == IInv /\ [Next]_vars => IInv'
<1> SUFFICES ASSUME IInv, [Next]_vars PROVE IInv'
  OBVIOUS
<1>1. CASE Resume \/ GetUpdates \/ GotUpdates \/ OnUpdate
  BY <1>1, ResumeInv, GetUpdatesInv, GotUpdatesInv, OnUpdateInv
<1>2. CASE Exit
  BY <1>2, ProcessEndsInv DEF Exit, IInv, TypeOK
<1>3. CASE Kill
  BY <1>3, ProcessEndsInv, FaultType DEF Kill, IInv
<1>4. CASE \E d \in Others : SendMessage(d) \/ MessageSent(d)
  BY <1>4, SendMessageInv, MessageSentInv
<1>5. CASE Connect \/ Disconnect \/ Notice \/ \E c \in Callers : Transfer(c)
  BY <1>5, ConnectInv, DisconnectInv, NoticeInv, TransferInv
<1>6. CASE Arrive \/ ServeUpdates \/ ServeMessage \/ ServeError
  BY <1>6, ArriveInv, ServeUpdatesInv, ServeMessageInv, ServeErrorInv
<1>7. CASE \E r \in orphans : ServeLate(r)
  BY <1>7, ServeLateInv
<1>8. CASE UNCHANGED vars
  BY <1>8, StutterInv
<1> QED BY <1>1, <1>2, <1>3, <1>4, <1>5, <1>6, <1>7, <1>8 DEF Next

(* The inductive invariant holds in every behaviour. *)
THEOREM Invariant == Spec => []IInv
<1>1. Init => IInv
  BY InitInv
<1>2. IInv /\ [Next]_vars => IInv'
  BY NextInv
<1> QED BY <1>1, <1>2, PTL DEF Spec

(* Every variable of the update source keeps its type, whatever the        *)
(* dialogs do to the answers of the long poll on the stream they share.    *)
THEOREM TypeCorrect == Spec => []TypeOK
<1>1. IInv => TypeOK
  BY DEF IInv
<1> QED BY <1>1, Invariant, PTL

(* The API forgets only updates that on_update has been called with, for   *)
(* any number of dialogs, updates and faults, however answers are stolen,  *)
(* spoilt or late and however often the process restarts.                  *)
THEOREM NothingUnseenForgotten == Spec => []ForgetOnlySeen
<1>1. IInv => ForgetOnlySeen
  BY DEF IInv
<1> QED BY <1>1, Invariant, PTL
===============================================================================
