------------------------------ MODULE FeedProofs ------------------------------
(***************************************************************************)
(* LongPolling implements UpdateFeed, and never has two getUpdates on the  *)
(* stream, for any number of dialogs, updates, parts, faults and restarts. *)
(*                                                                         *)
(* That updates come in order and none is skipped depends on what is still *)
(* on the stream: a batch the coroutine takes must be the answer to its    *)
(* latest offset.  FeedInv therefore follows the traces of the one request *)
(* of the coroutine from the wire to the inbox, and says of every offset   *)
(* and batch on the way that it goes on where the last update ended.       *)
(***************************************************************************)
EXTENDS LongPollingProofs, FiniteSetTheorems

NoTrace ==
  /\ \A i \in DOMAIN wire : wire[i].by # Poll
  /\ \A i \in DOMAIN inbox : inbox[i].of.by # Poll

(* One request, or the parts of its answer, the last of them at the end. *)
OneTrace ==
  /\ \A i, j \in DOMAIN wire : wire[i].by = Poll /\ wire[j].by = Poll => i = j
  /\ \A i \in DOMAIN wire, j \in DOMAIN inbox :
       wire[i].by = Poll => inbox[j].of.by # Poll
  /\ \A i, j \in DOMAIN inbox :
       inbox[i].of.by = Poll /\ inbox[i].last /\ inbox[j].of.by = Poll => j <= i

Signed == \A c \in Callers : call[c].pc # "idle" => call[c].req.by = c

GotBatch == call[Poll].pc = "done" /\ call[Poll].res \in Batches

Untraced ==
  /\ pc # "await" => call[Poll].pc = "idle"
  /\ pc \in {"off", "request", "yield"} \/ call[Poll].pc = "writing" \/ GotBatch
       => NoTrace

(* The API's answer to offset o starts after the cursor. *)
AsksOn(o) == cursor = 0 \/ o > cursor

RequestsAskOn ==
  /\ call[Poll].pc # "idle" => AsksOn(call[Poll].req.offset)
  /\ \A i \in DOMAIN wire : wire[i].by = Poll => AsksOn(wire[i].offset)

GoesOn(b) == b.lo > cursor /\ b.lo <= forgotten + 1 /\ b.hi <= arrived

BatchesGoOn ==
  /\ \A i \in DOMAIN inbox :
       inbox[i].answer \in Batches =>
         inbox[i].of.by = Poll /\ GoesOn(inbox[i].answer)
  /\ GotBatch => GoesOn(call[Poll].res)

InBatch ==
  /\ pc # "yield" => (offset = 0 /\ cursor = 0) \/ offset = cursor + 1
  /\ pc = "yield" => /\ cursor < next /\ last <= arrived
                     /\ next - 1 = cursor \/ next - 1 <= forgotten

FeedInv ==
  OneTrace /\ Signed /\ Untraced /\ RequestsAskOn /\ BatchesGoOn /\ InBatch

-----------------------------------------------------------------------------
(* Everything that is on the stream has its type. *)
LEMMA StreamTypes ==
  ASSUME IInv
  PROVE  /\ wire \in Seq(Requests) /\ inbox \in Seq(Conn!Part)
         /\ \A i \in DOMAIN wire : wire[i].offset \in 0..(MaxUpdate + 1)
         /\ Poll \in Callers
<1>1. wire \in Seq(Requests) /\ inbox \in Seq(Conn!Part) /\ Poll \in Callers
  BY DEF IInv, TypeOK, Conn!TypeOK, Callers
<1>2. \A i \in DOMAIN wire : wire[i] \in Requests
  BY <1>1
<1> QED BY <1>1, <1>2 DEF Requests

LEMMA NumberTypes ==
  ASSUME IInv
  PROVE  /\ offset \in Nat /\ next \in Nat /\ last \in Nat /\ cursor \in Nat
         /\ seen \in Nat /\ arrived \in Nat /\ forgotten \in Nat
         /\ MaxUpdate \in Nat
         /\ \A b \in Batches : b.lo \in Nat /\ b.hi \in Nat /\ b.lo # 0
BY LongPollingAssumption DEF IInv, TypeOK, Batches

(* What replaces one operation leaves the others alone. *)
LEMMA OneCall ==
  ASSUME IInv, NEW c \in Callers, NEW v, call' = [call EXCEPT ![c] = v]
  PROVE  call'[c] = v /\ \A d \in Callers : d # c => call'[d] = call[d]
BY DEF IInv, TypeOK, Conn!TypeOK

(* An operation that ends keeps its request. *)
LEMMA FinishCall ==
  ASSUME IInv, NEW c \in Callers, NEW of, NEW res, Conn!Finish(c, of, res)
  PROVE  /\ call'[c].pc = "done" /\ call'[c].res = res
         /\ call'[c].req = call[c].req
         /\ \A d \in Callers : d # c => call'[d] = call[d]
BY DEF IInv, TypeOK, Conn!TypeOK, Conn!Call, Conn!Finish

(* Only updates arrive or are forgotten: all that goes on still does. *)
LEMMA GoesOnLater ==
  ASSUME IInv, arrived' \in Nat, arrived <= arrived', forgotten' \in Nat,
         forgotten <= forgotten', cursor' = cursor, NEW b \in Batches, GoesOn(b)
  PROVE  GoesOn(b)'
BY NumberTypes DEF GoesOn

-----------------------------------------------------------------------------
(* Steps of others that leave the traces where they are. *)

LEMMA ElsewhereFeed ==
  ASSUME IInv, FeedInv, UNCHANGED <<wire, inbox, pollVars>>,
         arrived' \in Nat, arrived <= arrived',
         forgotten' \in Nat, forgotten <= forgotten',
         call'[Poll] = call[Poll], Signed'
  PROVE  FeedInv'
<1> USE DEF FeedInv, pollVars
<1>1. OneTrace' /\ Untraced' /\ RequestsAskOn'
  BY DEF OneTrace, Untraced, NoTrace, GotBatch, RequestsAskOn, AsksOn
<1>2. BatchesGoOn'
  <2>1. ASSUME NEW i \in DOMAIN inbox, inbox[i].answer \in Batches
        PROVE  inbox[i].of.by = Poll /\ GoesOn(inbox[i].answer)'
    BY <2>1, GoesOnLater DEF BatchesGoOn
  <2>2. GotBatch => GoesOn(call[Poll].res)'
    BY GoesOnLater DEF BatchesGoOn, GotBatch
  <2> QED BY <2>1, <2>2 DEF BatchesGoOn, GotBatch, GoesOn
<1>3. InBatch'
  BY NumberTypes DEF InBatch
<1> QED BY <1>1, <1>2, <1>3

LEMMA SendMessageFeed ==
  ASSUME IInv, FeedInv, NEW d \in Others, SendMessage(d)
  PROVE  FeedInv'
<1> DEFINE r == [by |-> d, offset |-> 0]
<1>1. d \in Callers /\ d # Poll /\ Poll \in Callers
  BY LongPollingAssumption DEF Callers
<1>2. /\ call'[d] = Conn!Writing(r)
      /\ \A c \in Callers : c # d => call'[c] = call[c]
  BY <1>1, OneCall DEF SendMessage, Conn!Request
<1>3. Signed'
  BY <1>2 DEF FeedInv, Signed, Conn!Writing
<1> QED BY <1>1, <1>2, <1>3, ElsewhereFeed, NumberTypes
        DEF SendMessage, Conn!Request

LEMMA MessageSentFeed ==
  ASSUME IInv, FeedInv, NEW d \in Others, MessageSent(d)
  PROVE  FeedInv'
<1>1. d \in Callers /\ d # Poll /\ Poll \in Callers
  BY LongPollingAssumption DEF Callers
<1>2. /\ call'[d] = Conn!Idle
      /\ \A c \in Callers : c # d => call'[c] = call[c]
  BY <1>1, OneCall DEF MessageSent, Conn!Take
<1>3. Signed'
  BY <1>2 DEF FeedInv, Signed, Conn!Idle
<1> QED BY <1>1, <1>2, <1>3, ElsewhereFeed, NumberTypes
        DEF MessageSent, Conn!Take

LEMMA LinkFeed ==
  ASSUME IInv, FeedInv, Connect \/ Disconnect \/ Notice
  PROVE  FeedInv'
<1>1. /\ UNCHANGED <<call, wire, inbox, pollVars, arrived, forgotten>>
  BY DEF Connect, Disconnect, Notice, Conn!Resolve, Conn!TcpConnect, Conn!Handshake,
         Conn!ConnectFails, Conn!LinkLost, Conn!LinkSilent, Conn!Noticed
<1> QED BY <1>1, ElsewhereFeed, NumberTypes DEF FeedInv, Signed

LEMMA ArriveFeed ==
  ASSUME IInv, FeedInv, Arrive
  PROVE  FeedInv'
BY ElsewhereFeed, NumberTypes DEF Arrive, connVars, FeedInv, Signed

(* What the API confirms is never taken back. *)
LEMMA ConfirmedLater ==
  ASSUME IInv, NEW o \in 0..(MaxUpdate + 1)
  PROVE  Confirmed(o) \in Nat /\ forgotten <= Confirmed(o)
BY NumberTypes DEF Confirmed

LEMMA ServeLateFeed ==
  ASSUME IInv, FeedInv, NEW r \in orphans, ServeLate(r)
  PROVE  FeedInv'
<1>1. r.offset \in 0..(MaxUpdate + 1)
  BY DEF IInv, TypeOK, Conn!TypeOK, Requests
<1> QED BY <1>1, ConfirmedLater, ElsewhereFeed, NumberTypes
        DEF ServeLate, Conn!ServeOrphan, FeedInv, Signed

-----------------------------------------------------------------------------
(* The coroutine. *)

LEMMA ResumeFeed ==
  ASSUME IInv, FeedInv, Resume
  PROVE  FeedInv'
<1> USE DEF FeedInv, Resume, connVars
<1>1. OneTrace' /\ Signed' /\ RequestsAskOn'
  BY DEF OneTrace, Signed, RequestsAskOn, AsksOn
<1>2. Untraced' /\ BatchesGoOn'
  BY DEF Untraced, NoTrace, GotBatch, BatchesGoOn, GoesOn
<1>3. InBatch'
  BY DEF InBatch
<1> QED BY <1>1, <1>2, <1>3

LEMMA GetUpdatesFeed ==
  ASSUME IInv, FeedInv, GetUpdates
  PROVE  FeedInv'
<1> USE DEF FeedInv
<1>1. /\ pc = "request" /\ pc' = "await"
      /\ UNCHANGED <<wire, inbox, offset, cursor, arrived, forgotten>>
  BY DEF GetUpdates, Conn!Request
<1>2. /\ call'[Poll] = Conn!Writing(PollRequest)
      /\ \A d \in Callers : d # Poll => call'[d] = call[d]
  BY StreamTypes, OneCall DEF GetUpdates, Conn!Request
<1>3. /\ call'[Poll].pc = "writing" /\ call'[Poll].req.by = Poll
      /\ call'[Poll].req.offset = offset
  BY <1>2 DEF Conn!Writing, PollRequest
<1>4. NoTrace
  BY <1>1 DEF Untraced
<1>5. OneTrace' /\ Signed' /\ Untraced'
  BY <1>1, <1>2, <1>3, <1>4 DEF OneTrace, Signed, Untraced, NoTrace
<1>6. AsksOn(offset)
  BY <1>1, NumberTypes DEF InBatch, AsksOn
<1>7. RequestsAskOn' /\ BatchesGoOn' /\ InBatch'
  <2>1. RequestsAskOn'
    BY <1>1, <1>3, <1>6 DEF RequestsAskOn, AsksOn
  <2>2. BatchesGoOn'
    BY <1>1, <1>3 DEF BatchesGoOn, GotBatch, GoesOn
  <2> QED BY <1>1, <2>1, <2>2 DEF InBatch
<1> QED BY <1>5, <1>7

LEMMA GotUpdatesFeed ==
  ASSUME IInv, FeedInv, GotUpdates
  PROVE  FeedInv'
<1> USE DEF FeedInv
<1> DEFINE res == call[Poll].res
<1>1. /\ pc = "await" /\ call[Poll].pc = "done"
      /\ UNCHANGED <<wire, inbox, cursor, arrived, forgotten>>
  BY DEF GotUpdates, Conn!Take
<1>2. /\ call'[Poll].pc = "idle"
      /\ \A d \in Callers : d # Poll => call'[d] = call[d]
  <2>1. call' = [call EXCEPT ![Poll] = Conn!Idle]
    BY DEF GotUpdates, Conn!Take
  <2>2. /\ call'[Poll] = Conn!Idle
        /\ \A d \in Callers : d # Poll => call'[d] = call[d]
    BY <2>1, StreamTypes, OneCall
  <2> QED BY <2>2 DEF Conn!Idle
<1>3. OneTrace' /\ Signed' /\ RequestsAskOn' /\ BatchesGoOn'
  BY <1>1, <1>2 DEF OneTrace, Signed, RequestsAskOn, AsksOn, BatchesGoOn,
                    GotBatch, GoesOn
<1>4. CASE res \notin Batches
  <2>1. pc' = "failed" /\ UNCHANGED <<offset, next, last>>
    BY <1>4 DEF GotUpdates, Throw
  <2> QED BY <1>1, <1>2, <1>3, <2>1 DEF Untraced, GotBatch, InBatch
<1>5. CASE res \in Batches
  <2>1. NoTrace' /\ GoesOn(res)
    BY <1>1, <1>5 DEF Untraced, NoTrace, GotBatch, BatchesGoOn
  <2>2. Untraced'
    BY <1>2, <2>1 DEF Untraced
  <2>3. CASE res.lo > res.hi
    BY <1>1, <1>3, <2>2, <2>3, <1>5, NumberTypes DEF GotUpdates, InBatch
  <2>4. CASE res.lo <= res.hi
    <3>1. pc' = "yield" /\ next' = res.lo /\ last' = res.hi
      BY <1>5, <2>4, NumberTypes DEF GotUpdates
    <3>2. /\ cursor < res.lo /\ res.hi <= arrived /\ res.lo - 1 <= forgotten
      BY <1>5, <2>1, NumberTypes DEF GoesOn
    <3> HIDE DEF res
    <3> QED BY <1>1, <1>3, <2>2, <3>1, <3>2 DEF InBatch
  <2> QED BY <1>5, <2>3, <2>4, NumberTypes
<1> QED BY <1>4, <1>5

LEMMA OnUpdateFeed ==
  ASSUME IInv, FeedInv, OnUpdate
  PROVE  FeedInv'
<1> USE DEF FeedInv
<1>1. /\ pc = "yield" /\ cursor' = next /\ next' = next + 1 /\ pc' = AfterYield
      /\ UNCHANGED <<call, wire, inbox, offset, last, arrived, forgotten>>
  BY DEF OnUpdate, connVars
<1>2. NoTrace /\ call[Poll].pc = "idle"
  BY <1>1 DEF Untraced
<1>3. pc' \in {"request", "yield"}
  BY <1>1 DEF AfterYield
<1>4. OneTrace' /\ Signed' /\ Untraced'
  BY <1>1, <1>2, <1>3 DEF OneTrace, Signed, Untraced, NoTrace, GotBatch
<1>5. RequestsAskOn' /\ BatchesGoOn'
  BY <1>1, <1>2 DEF RequestsAskOn, BatchesGoOn, NoTrace, GotBatch
<1>6. InBatch'
  <2>1. next \in 1..last /\ offset = last + 1
    BY <1>1 DEF IInv, OwnOffset
  <2>2. CASE next = last
    BY <1>1, <2>1, <2>2, NumberTypes DEF InBatch, AfterYield
  <2>3. CASE next # last
    BY <1>1, <2>1, <2>3, NumberTypes DEF InBatch, AfterYield
  <2> QED BY <2>2, <2>3
<1> QED BY <1>4, <1>5, <1>6

LEMMA ProcessEndsFeed ==
  ASSUME IInv, FeedInv, ProcessEnds
  PROVE  FeedInv'
<1>1. /\ pc' = "off" /\ offset' = 0 /\ cursor' = 0
      /\ DOMAIN wire' = {} /\ DOMAIN inbox' = {}
      /\ \A c \in Callers : call'[c].pc = "idle"
  BY DEF ProcessEnds, Conn!Reset, Conn!Idle
<1>2. call'[Poll].pc = "idle"
  BY <1>1, StreamTypes
<1>3. OneTrace' /\ Signed' /\ Untraced'
  BY <1>1, <1>2 DEF OneTrace, Signed, Untraced, NoTrace, GotBatch
<1>4. RequestsAskOn' /\ BatchesGoOn' /\ InBatch'
  BY <1>1, <1>2 DEF RequestsAskOn, BatchesGoOn, GotBatch, InBatch
<1> QED BY <1>3, <1>4 DEF FeedInv

-----------------------------------------------------------------------------
(* The stream. *)

(* A trace goes onto the wire only when its writer has left none behind. *)
LEMMA WrittenFeed ==
  ASSUME IInv, FeedInv, NEW c \in Callers, Conn!Written(c),
         UNCHANGED <<pollVars, arrived, forgotten>>
  PROVE  FeedInv'
<1> USE DEF FeedInv, pollVars
<1> DEFINE r == call[c].req
           n == Len(wire)
<1>1. /\ call[c].pc = "writing" /\ inbox' = inbox
      /\ wire' = Append(wire, r) \/ wire' = wire
      /\ \A d \in Callers : call'[d].req = call[d].req
      /\ call'[c].pc = "reading"
      /\ \A d \in Callers : d # c => call'[d] = call[d]
  BY DEF Conn!Written, IInv, TypeOK, Conn!TypeOK, Conn!Call
<1>2. r \in Requests /\ r.by = c
  BY <1>1 DEF IInv, Asked, Signed
<1>3. \/ wire' = wire
      \/ /\ n \in Nat /\ DOMAIN wire = 1..n /\ DOMAIN wire' = 1..(n + 1)
         /\ wire'[n + 1] = r /\ \A i \in 1..n : wire'[i] = wire[i]
  BY <1>1, <1>2, StreamTypes
<1>4. c = Poll => NoTrace /\ AsksOn(r.offset)
  BY <1>1 DEF Untraced, RequestsAskOn
<1> HIDE DEF r, n
<1>5. \A i \in DOMAIN wire' :
        \/ i \in DOMAIN wire /\ wire'[i] = wire[i]
        \/ i = n + 1 /\ wire'[i] = r
  <2> TAKE i \in DOMAIN wire'
  <2>1. wire' = wire \/ i \in 1..n \/ i = n + 1
    BY <1>3
  <2>2. CASE wire' = wire \/ i \in 1..n
    BY <1>3, <2>2
  <2>3. CASE wire' # wire /\ i = n + 1
    BY <1>3, <2>3
  <2> QED BY <2>1, <2>2, <2>3
<1>6. OneTrace'
  BY <1>1, <1>2, <1>4, <1>5 DEF OneTrace, NoTrace
<1>7. Signed'
  BY <1>1 DEF Signed
<1>8. Untraced'
  <2>1. c = Poll => pc = "await" /\ call'[Poll].pc = "reading"
    BY <1>1 DEF Untraced
  <2>2. c # Poll => call'[Poll] = call[Poll]
    BY <1>1, StreamTypes
  <2> QED BY <1>1, <1>2, <1>5, <2>1, <2>2 DEF Untraced, NoTrace, GotBatch
<1>9. RequestsAskOn'
  <2>1. call'[Poll].req = call[Poll].req
        /\ (call'[Poll].pc # "idle" => call[Poll].pc # "idle")
    BY <1>1, StreamTypes
  <2> QED BY <1>2, <1>4, <1>5, <2>1 DEF RequestsAskOn, AsksOn
<1>10. BatchesGoOn' /\ InBatch'
  <2>1. GotBatch' => GotBatch /\ call'[Poll] = call[Poll]
    BY <1>1, StreamTypes DEF GotBatch
  <2> QED BY <1>1, <2>1 DEF BatchesGoOn, GoesOn, InBatch
<1> QED BY <1>6, <1>7, <1>8, <1>9, <1>10

(* An operation that ends without a batch disturbs no trace, nor does what *)
(* goes from the head of the inbox.                                        *)
LEMMA EndsFeed ==
  ASSUME IInv, FeedInv, NEW c \in Callers, call[c].pc # "idle",
         UNCHANGED <<wire, pollVars, arrived, forgotten>>,
         \A d \in Callers : call'[d].req = call[d].req,
         \A d \in Callers : d # c => call'[d] = call[d],
         call'[c].pc \in {"reading", "done"},
         inbox' = inbox \/ \E k \in Nat : inbox' = SubSeq(inbox, k + 2, Len(inbox)),
         c = Poll /\ GotBatch' => NoTrace' /\ GoesOn(call'[Poll].res)
  PROVE  FeedInv'
<1> USE DEF FeedInv, pollVars
<1>1. PICK k \in Nat : \A j \in DOMAIN inbox' :
        /\ j \in Nat /\ j + k \in DOMAIN inbox /\ inbox'[j] = inbox[j + k]
  <2>1. CASE inbox' = inbox
    <3>1. \A j \in DOMAIN inbox : j \in Nat /\ j + 0 \in DOMAIN inbox
                                  /\ inbox[j] = inbox[j + 0]
      BY StreamTypes
    <3> QED BY <2>1, <3>1
  <2>2. CASE \E k \in Nat : inbox' = SubSeq(inbox, k + 2, Len(inbox))
    <3>1. PICK k \in Nat : inbox' = SubSeq(inbox, k + 2, Len(inbox))
      BY <2>2
    <3>2. \A j \in DOMAIN inbox' : /\ j \in Nat /\ j + (k + 1) \in DOMAIN inbox
                                   /\ inbox'[j] = inbox[j + (k + 1)]
      BY <3>1, StreamTypes, Constants, CP!RestElements
    <3> QED BY <3>2
  <2> QED BY <2>1, <2>2
<1>2. OneTrace'
  <2>1. ASSUME NEW i \in DOMAIN inbox', NEW j \in DOMAIN inbox',
               inbox'[i].of.by = Poll, inbox'[i].last, inbox'[j].of.by = Poll
        PROVE  j <= i
    <3>1. j + k <= i + k
      BY <1>1, <2>1 DEF OneTrace
    <3> QED BY <1>1, <3>1
  <2>2. ASSUME NEW i \in DOMAIN wire, NEW j \in DOMAIN inbox', wire[i].by = Poll
        PROVE  inbox'[j].of.by # Poll
    BY <1>1, <2>2 DEF OneTrace
  <2> QED BY <2>1, <2>2 DEF OneTrace
<1>3. Signed'
  BY DEF Signed
<1>4. NoTrace => NoTrace'
  BY <1>1 DEF NoTrace
<1>5. c # Poll => call'[Poll] = call[Poll]
  BY StreamTypes
<1>6. Untraced'
  <2>1. c = Poll => pc = "await" /\ call'[Poll].pc # "writing"
    BY DEF Untraced
  <2> QED BY <1>4, <1>5, <2>1 DEF Untraced, GotBatch
<1>7. RequestsAskOn'
  BY <1>5, StreamTypes DEF RequestsAskOn, AsksOn
<1>8. BatchesGoOn'
  <2>1. GotBatch' => GoesOn(call'[Poll].res)
    BY <1>5 DEF BatchesGoOn, GotBatch
  <2> QED BY <1>1, <2>1 DEF BatchesGoOn, GoesOn
<1>9. InBatch'
  BY DEF InBatch
<1> QED BY <1>2, <1>3, <1>6, <1>7, <1>8, <1>9

LEMMA NoBatches ==
  /\ Failed \notin Batches /\ Refused \notin Batches /\ Malformed \notin Batches
  /\ Sent \notin Batches
BY LongPollingAssumption DEF Values

LEMMA StreamFailsFeed ==
  ASSUME IInv, FeedInv, NEW c \in Callers, Conn!StreamFails(c),
         UNCHANGED <<pollVars, arrived, forgotten>>
  PROVE  FeedInv'
<1>1. /\ call[c].pc # "idle" /\ UNCHANGED <<wire, inbox>>
      /\ Conn!Finish(c, None, Failed)
  BY DEF Conn!StreamFails, Conn!Outstanding
<1>2. /\ call'[c].pc = "done" /\ call'[c].res = Failed
      /\ \A d \in Callers : d # c => call'[d] = call[d]
      /\ \A d \in Callers : call'[d].req = call[d].req
  BY <1>1, FinishCall
<1>3. c = Poll => ~GotBatch'
  BY <1>2, NoBatches DEF GotBatch
<1> QED BY <1>1, <1>2, <1>3, EndsFeed

LEMMA ReadSomeFeed ==
  ASSUME IInv, FeedInv, NEW c \in Callers, Conn!ReadSome(c),
         UNCHANGED <<pollVars, arrived, forgotten>>
  PROVE  FeedInv'
<1> DEFINE seg == Head(inbox)
<1>1. /\ call[c].pc = "reading" /\ inbox # <<>> /\ wire' = wire
  BY DEF Conn!ReadSome
<1>2. PICK k \in Nat : inbox' = SubSeq(inbox, k + 2, Len(inbox))
  <2>1. 0..Surplus \subseteq Nat
    BY LongPollingAssumption
  <2>2. PICK k \in 0..Surplus : inbox' = SubSeq(inbox, k + 2, Len(inbox))
    BY DEF Conn!ReadSome, Conn!Rest
  <2> QED BY <2>1, <2>2
<1>3. 1 \in DOMAIN inbox /\ seg = inbox[1]
  BY <1>1, StreamTypes, Constants, CP!TailElements
<1>4. CASE ~Conn!Continues(c, seg)
  <2>1. Conn!Finish(c, None, Failed)
    BY <1>4 DEF Conn!ReadSome, Conn!BadPart
  <2>2. /\ call'[c].pc = "done" /\ call'[c].res = Failed
        /\ \A d \in Callers : d # c => call'[d] = call[d]
        /\ \A d \in Callers : call'[d].req = call[d].req
    BY <2>1, FinishCall
  <2>3. c = Poll => ~GotBatch'
    BY <2>2, NoBatches DEF GotBatch
  <2> QED BY <1>1, <1>2, <2>2, <2>3, EndsFeed
<1>5. CASE Conn!Continues(c, seg) /\ seg.last
  <2> DEFINE res == Conn!ProcessResponse(seg.answer)
  <2>1. Conn!Finish(c, seg.of, res)
    BY <1>5 DEF Conn!ReadSome
  <2>2. /\ call'[c].pc = "done" /\ call'[c].res = res
        /\ \A d \in Callers : d # c => call'[d] = call[d]
        /\ \A d \in Callers : call'[d].req = call[d].req
    BY <2>1, FinishCall
  <2>3. res \in Batches => res = seg.answer
    BY NoBatches DEF Conn!ProcessResponse
  <2>4. res \in Batches => seg.of.by = Poll /\ GoesOn(res)
    BY <1>3, <2>3 DEF FeedInv, BatchesGoOn
  <2>5. res \in Batches => NoTrace'
    <3>1. SUFFICES ASSUME res \in Batches PROVE NoTrace'
      OBVIOUS
    <3>2. inbox[1].of.by = Poll /\ inbox[1].last
      BY <1>3, <1>5, <2>4, <3>1
    <3>3. \A i \in DOMAIN wire' : wire'[i].by # Poll
      BY <1>1, <1>3, <3>2 DEF FeedInv, OneTrace
    <3>4. \A j \in DOMAIN inbox' : /\ j \in Nat /\ j # 0
                                   /\ j + k + 1 \in DOMAIN inbox
                                   /\ inbox'[j] = inbox[j + k + 1]
      BY <1>2, StreamTypes, Constants, CP!RestElements
    <3>5. \A j \in DOMAIN inbox : inbox[j].of.by = Poll => j <= 1
      BY <1>3, <3>2 DEF FeedInv, OneTrace
    <3>6. \A j \in DOMAIN inbox' : inbox'[j].of.by # Poll
      BY <3>4, <3>5
    <3> QED BY <3>3, <3>6 DEF NoTrace
  <2> HIDE DEF res
  <2>6. c = Poll /\ GotBatch' => NoTrace' /\ GoesOn(call'[Poll].res)
    BY <2>2, <2>4, <2>5 DEF GotBatch
  <2> QED BY <1>1, <1>2, <2>2, <2>6, EndsFeed
<1>6. CASE Conn!Continues(c, seg) /\ ~seg.last
  <2>1. call' = [call EXCEPT ![c] = [@ EXCEPT !.of = seg.of, !.got = seg.part]]
    BY <1>6 DEF Conn!ReadSome
  <2>2. /\ call'[c].pc = "reading"
        /\ \A d \in Callers : d # c => call'[d] = call[d]
        /\ \A d \in Callers : call'[d].req = call[d].req
    BY <1>1, <2>1 DEF IInv, TypeOK, Conn!TypeOK, Conn!Call
  <2>3. c = Poll => ~GotBatch'
    BY <2>2 DEF GotBatch
  <2> QED BY <1>1, <1>2, <2>2, <2>3, EndsFeed
<1> QED BY <1>4, <1>5, <1>6

-----------------------------------------------------------------------------
(* The API. *)

(* The inbox after an answer holds the old parts, and new ones of the      *)
(* request, the last of them at the end.                                   *)
LEMMA AnswerElements ==
  ASSUME IInv, NEW a \in Values \cup {Refused, Malformed}, Conn!Answer(a)
  PROVE  \A j \in DOMAIN inbox' :
           /\ j \in Nat
           /\ \/ j \in DOMAIN inbox /\ inbox'[j] = inbox[j]
              \/ /\ j \notin DOMAIN inbox
                 /\ inbox'[j].of = wire[1] /\ inbox'[j].answer = a
                 /\ inbox'[j].last => \A i \in DOMAIN inbox' : i <= j
<1> DEFINE h == Head(wire)
           m == Len(inbox)
<1>0. /\ wire # <<>> /\ 1 \in DOMAIN wire /\ h = wire[1] /\ h \in Requests
  <2>1. wire # <<>>
    BY DEF Conn!Answer
  <2> QED BY <2>1, StreamTypes, Constants, CP!TailElements
<1>1. PICK n \in 1..MaxParts :
        inbox' = IF link = "open" THEN inbox \o Conn!Parts(h, a, n) ELSE inbox
  BY DEF Conn!Answer
<1>2. CASE inbox' = inbox
  BY <1>2, StreamTypes
<1>3. CASE inbox' = inbox \o Conn!Parts(h, a, n)
  <2> DEFINE t == Conn!Parts(h, a, n)
  <2>1. CP!Parts(h, a, n) = t
    BY DEF CP!Parts, Conn!Parts
  <2>2. t \in Seq(Conn!Part)
    <3>1. CP!Parts(h, a, n) \in Seq(CP!Part)
      BY <1>0, Constants, CP!PartsType
    <3>2. CP!Part = Conn!Part
      BY DEF CP!Part, Conn!Part
    <3> QED BY <2>1, <3>1, <3>2
  <2>3. n \in Nat
    BY LongPollingAssumption
  <2>4. /\ Len(t) = n
        /\ \A i \in 1..n : t[i].of = h /\ t[i].answer = a /\ t[i].last = (i = n)
    BY <2>3 DEF Conn!Parts
  <2> HIDE DEF t
  <2>5. /\ m \in Nat /\ DOMAIN inbox = 1..m
        /\ DOMAIN (inbox \o t) = 1..(m + Len(t))
        /\ \A j \in 1..m : (inbox \o t)[j] = inbox[j]
        /\ \A j \in 1..(m + Len(t)) : j \notin 1..m =>
              j - m \in 1..Len(t) /\ (inbox \o t)[j] = t[j - m]
    BY <2>2, StreamTypes, Constants, CP!JoinedElements
  <2> HIDE DEF m
  <2>6. inbox' = inbox \o t
    BY <1>3 DEF t
  <2>7. TAKE j \in DOMAIN inbox'
  <2>8. j \in Nat
    BY <2>5, <2>6, <2>3, <2>4
  <2>9. CASE j \in 1..m
    BY <1>0, <2>5, <2>6, <2>8, <2>9
  <2>10. CASE j \notin 1..m
    <3>1. j - m \in 1..n /\ inbox'[j] = t[j - m]
      BY <2>4, <2>5, <2>6, <2>10
    <3>2. /\ inbox'[j].of = h /\ inbox'[j].answer = a
          /\ inbox'[j].last = (j - m = n)
      BY <2>4, <3>1
    <3>3. j - m = n => \A i \in DOMAIN inbox' : i <= j
      BY <2>3, <2>4, <2>5, <2>6, <2>8
    <3> QED BY <1>0, <2>5, <2>8, <2>10, <3>2, <3>3
  <2> QED BY <2>9, <2>10
<1> QED BY <1>1, <1>2, <1>3

(* The parts of an answer take the place of the request's trace. *)
LEMMA AnswerFeed ==
  ASSUME IInv, FeedInv, NEW a \in Values \cup {Refused, Malformed},
         Conn!Answer(a), UNCHANGED <<pollVars, arrived>>,
         forgotten' \in Nat, forgotten <= forgotten',
         a \in Batches => Head(wire).by = Poll /\ GoesOn(a)'
  PROVE  FeedInv'
<1> USE DEF FeedInv, pollVars
<1> DEFINE h == Head(wire)
<1>1. /\ wire # <<>> /\ wire' = Tail(wire) /\ call' = call
      /\ arrived' = arrived /\ cursor' = cursor
  BY DEF Conn!Answer
<1>2. /\ 1 \in DOMAIN wire /\ h = wire[1] /\ h \in Requests
      /\ \A j \in DOMAIN wire' : /\ j \in Nat /\ j # 0 /\ j + 1 \in DOMAIN wire
                                 /\ wire'[j] = wire[j + 1]
  BY <1>1, StreamTypes, Constants, CP!TailElements
<1>3. h.by = Poll => \A j \in DOMAIN wire' : wire'[j].by # Poll
  BY <1>2 DEF OneTrace
<1>4. \A j \in DOMAIN inbox' :
        /\ j \in Nat
        /\ \/ j \in DOMAIN inbox /\ inbox'[j] = inbox[j]
           \/ /\ j \notin DOMAIN inbox
              /\ inbox'[j].of = h /\ inbox'[j].answer = a
              /\ inbox'[j].last => \A i \in DOMAIN inbox' : i <= j
  BY <1>2, AnswerElements
<1>5. OneTrace'
  <2>1. ASSUME NEW i \in DOMAIN wire', NEW j \in DOMAIN wire',
               wire'[i].by = Poll, wire'[j].by = Poll
        PROVE  i = j
    BY <1>2, <2>1 DEF OneTrace
  <2>2. ASSUME NEW i \in DOMAIN wire', NEW j \in DOMAIN inbox',
               wire'[i].by = Poll
        PROVE  inbox'[j].of.by # Poll
    BY <1>2, <1>3, <1>4, <2>2 DEF OneTrace
  <2>3. ASSUME NEW i \in DOMAIN inbox', NEW j \in DOMAIN inbox',
               inbox'[i].of.by = Poll, inbox'[i].last, inbox'[j].of.by = Poll
        PROVE  j <= i
    <3>1. CASE i \in DOMAIN inbox /\ inbox'[i] = inbox[i]
      <4>1. h.by # Poll
        BY <1>2, <2>3, <3>1 DEF OneTrace
      <4>2. j \in DOMAIN inbox /\ inbox'[j] = inbox[j]
        BY <1>4, <2>3, <4>1
      <4> QED BY <2>3, <3>1, <4>2 DEF OneTrace
    <3>2. CASE \A l \in DOMAIN inbox' : l <= i
      BY <3>2
    <3> QED BY <1>4, <2>3, <3>1, <3>2
  <2> QED BY <2>1, <2>2, <2>3 DEF OneTrace
<1>6. Signed' /\ RequestsAskOn' /\ InBatch'
  <2>1. Signed' /\ InBatch'
    BY <1>1, NumberTypes DEF Signed, InBatch
  <2>2. RequestsAskOn'
    BY <1>1, <1>2 DEF RequestsAskOn, AsksOn
  <2> QED BY <2>1, <2>2
<1>7. Untraced'
  <2>1. NoTrace => NoTrace'
    BY <1>2, <1>4 DEF NoTrace
  <2> QED BY <1>1, <2>1 DEF Untraced, GotBatch
<1>8. BatchesGoOn'
  <2>1. ASSUME NEW j \in DOMAIN inbox', inbox'[j].answer \in Batches
        PROVE  inbox'[j].of.by = Poll /\ GoesOn(inbox[j].answer)'
    <3>1. CASE j \in DOMAIN inbox /\ inbox'[j] = inbox[j]
      <4> DEFINE b == inbox[j].answer
      <4>1. inbox[j].of.by = Poll /\ GoesOn(b) /\ b \in Batches
        BY <2>1, <3>1 DEF BatchesGoOn
      <4>2. b.lo > cursor /\ b.lo <= forgotten' + 1 /\ b.hi <= arrived
        BY <4>1, NumberTypes DEF GoesOn
      <4> QED BY <1>1, <3>1, <4>1, <4>2 DEF GoesOn
    <3>2. CASE inbox'[j].of = h /\ inbox'[j].answer = a
      BY <2>1, <3>2 DEF GoesOn
    <3> QED BY <1>4, <3>1, <3>2
  <2>2. GotBatch' => GoesOn(call[Poll].res)'
    <3> SUFFICES ASSUME GotBatch' PROVE GoesOn(call[Poll].res)'
      OBVIOUS
    <3> DEFINE b == call[Poll].res
    <3>1. b \in Batches /\ GoesOn(b)
      BY <1>1 DEF BatchesGoOn, GotBatch
    <3>2. b.lo > cursor /\ b.lo <= forgotten' + 1 /\ b.hi <= arrived
      BY <3>1, NumberTypes DEF GoesOn
    <3> QED BY <1>1, <3>2 DEF GoesOn
  <2> QED BY <2>1, <2>2 DEF BatchesGoOn, GotBatch, GoesOn
<1> QED BY <1>5, <1>6, <1>7, <1>8

(* The offset the API reads next. *)
LEMMA HeadRequest ==
  ASSUME IInv, wire # <<>>
  PROVE  /\ Head(wire) = wire[1] /\ 1 \in DOMAIN wire
         /\ Head(wire).offset \in 0..(MaxUpdate + 1)
BY StreamTypes, Constants, CP!TailElements

LEMMA ServeUpdatesFeed ==
  ASSUME IInv, FeedInv, ServeUpdates
  PROVE  FeedInv' /\ forgotten' \in Nat /\ forgotten <= forgotten'
<1> DEFINE o == Head(wire).offset
           f == Confirmed(o)
           b == [lo |-> f + 1, hi |-> Smaller(arrived, f + Limit)]
<1>1. /\ wire # <<>> /\ Head(wire).by = Poll
      /\ o \in 0..(MaxUpdate + 1) /\ AsksOn(o)
  BY HeadRequest DEF ServeUpdates, FeedInv, RequestsAskOn
<1>2. f \in Nat /\ forgotten <= f /\ cursor <= f
  BY <1>1, NumberTypes DEF Confirmed, AsksOn
<1>3. f \in 0..MaxUpdate
  BY HeadOffset, ConfirmedSeen DEF ServeUpdates, IInv
<1>4. b \in Batches /\ b.lo = f + 1 /\ b.hi <= arrived
  BY <1>3, LongPollingAssumption DEF Batches, Smaller, IInv, TypeOK
<1>5. /\ forgotten' = f /\ Conn!Answer(b)
      /\ UNCHANGED <<pollVars, arrived, faults>>
  BY DEF ServeUpdates
<1> HIDE DEF f, o, b
<1>6. PICK a \in Batches : Conn!Answer(a) /\ a.lo = f + 1 /\ a.hi <= arrived
  BY <1>4, <1>5
<1>7. GoesOn(a)'
  BY <1>2, <1>5, <1>6, NumberTypes DEF GoesOn, pollVars
<1>8. a \in Values \cup {Refused, Malformed}
  BY DEF Values
<1> QED BY <1>1, <1>2, <1>5, <1>6, <1>7, <1>8, AnswerFeed

LEMMA ServeMessageFeed ==
  ASSUME IInv, FeedInv, ServeMessage
  PROVE  FeedInv'
<1>1. Sent \in Values \cup {Refused, Malformed} /\ Sent \notin Batches
  BY NoBatches DEF Values
<1> QED BY <1>1, AnswerFeed, NumberTypes DEF ServeMessage

LEMMA ServeErrorFeed ==
  ASSUME IInv, FeedInv, ServeError
  PROVE  FeedInv' /\ forgotten' \in Nat /\ forgotten <= forgotten'
<1>1. PICK a \in {Refused, Malformed} : Conn!Answer(a)
  BY DEF ServeError
<1>2. forgotten' \in Nat /\ forgotten <= forgotten'
  BY HeadRequest, ConfirmedLater, NumberTypes DEF ServeError
<1>3. a \notin Batches
  BY NoBatches
<1> QED BY <1>1, <1>2, <1>3, AnswerFeed DEF ServeError

-----------------------------------------------------------------------------
LEMMA InitFeed == Init => FeedInv
<1> SUFFICES ASSUME Init PROVE FeedInv
  OBVIOUS
<1>1. /\ DOMAIN wire = {} /\ DOMAIN inbox = {} /\ pc = "off"
      /\ offset = 0 /\ cursor = 0
  BY DEF Init, Conn!Init
<1>2. \A c \in Callers : call[c].pc = "idle"
  BY DEF Init, Conn!Init, Conn!Idle
<1>3. call[Poll].pc = "idle"
  BY <1>2 DEF Callers
<1> QED BY <1>1, <1>2, <1>3 DEF FeedInv, OneTrace, Signed, Untraced, NoTrace,
           GotBatch, RequestsAskOn, BatchesGoOn, InBatch

LEMMA TransferFeed ==
  ASSUME IInv, FeedInv, NEW c \in Callers, Transfer(c)
  PROVE  FeedInv'
<1>1. UNCHANGED <<pollVars, arrived, forgotten>>
  BY DEF Transfer
<1> QED BY <1>1, WrittenFeed, StreamFailsFeed, ReadSomeFeed DEF Transfer

LEMMA StutterFeed ==
  ASSUME IInv, FeedInv, UNCHANGED vars
  PROVE  FeedInv'
<1>1. UNCHANGED <<call, wire, inbox, pollVars, arrived, forgotten>>
  BY DEF vars, connVars
<1> QED BY <1>1, ElsewhereFeed, NumberTypes DEF FeedInv, Signed

LEMMA NextFeed ==
  ASSUME IInv, FeedInv, [Next]_vars
  PROVE  FeedInv'
<1>1. CASE Resume \/ GetUpdates \/ GotUpdates \/ OnUpdate
  BY <1>1, ResumeFeed, GetUpdatesFeed, GotUpdatesFeed, OnUpdateFeed
<1>2. CASE Exit \/ Kill
  BY <1>2, ProcessEndsFeed DEF Exit, Kill
<1>3. CASE \E d \in Others : SendMessage(d) \/ MessageSent(d)
  BY <1>3, SendMessageFeed, MessageSentFeed
<1>4. CASE Connect \/ Disconnect \/ Notice
  BY <1>4, LinkFeed
<1>5. CASE \E c \in Callers : Transfer(c)
  BY <1>5, TransferFeed
<1>6. CASE Arrive \/ ServeUpdates \/ ServeMessage \/ ServeError
  BY <1>6, ArriveFeed, ServeUpdatesFeed, ServeMessageFeed, ServeErrorFeed
<1>7. CASE \E r \in orphans : ServeLate(r)
  BY <1>7, ServeLateFeed
<1>8. CASE UNCHANGED vars
  BY <1>8, StutterFeed
<1> QED BY <1>1, <1>2, <1>3, <1>4, <1>5, <1>6, <1>7, <1>8 DEF Next

THEOREM FeedInvariant == Spec => [](IInv /\ FeedInv)
<1>1. Init => IInv /\ FeedInv
  BY InitInv, InitFeed
<1>2. (IInv /\ FeedInv) /\ [Next]_vars => (IInv /\ FeedInv)'
  BY NextInv, NextFeed
<1> QED BY <1>1, <1>2, PTL DEF Spec

(* There is never a second getUpdates on the stream, and no trace of the   *)
(* one before when the coroutine writes the next: whatever the dialogs do  *)
(* to its answers, the coroutine does not mistake an old one for a new.    *)
THEOREM OneAtATime == Spec => []OneGetUpdates
<1>1. IInv /\ FeedInv => OneGetUpdates
  <2> SUFFICES ASSUME IInv, FeedInv PROVE OneGetUpdates
    OBVIOUS
  <2> DEFINE S == {i \in DOMAIN wire : wire[i].by = Poll}
  <2>1. Cardinality(S) <= 1
    <3>1. CASE S = {}
      BY <3>1, FS_EmptySet
    <3>2. CASE S # {}
      <4>1. PICK i \in S : TRUE
        BY <3>2
      <4>2. S = {i}
        BY <4>1 DEF FeedInv, OneTrace
      <4>3. Cardinality({i}) = 1
        BY FS_Singleton
      <4> HIDE DEF S
      <4> QED BY <4>2, <4>3
    <3> QED BY <3>1, <3>2
  <2> QED BY <2>1 DEF OneGetUpdates, FeedInv, Untraced, NoTrace
<1> QED BY <1>1, FeedInvariant, PTL

-----------------------------------------------------------------------------
(* Every step of LongPolling is one of the feed, or the feed stands still. *)

LEMMA DispatchStep ==
  ASSUME IInv, FeedInv, OnUpdate
  PROVE  Feed!Dispatch
<1>1. /\ pc = "yield" /\ cursor' = next /\ seen' = Larger(seen, next)
      /\ UNCHANGED <<arrived, forgotten>>
  BY DEF OnUpdate
<1>2. /\ next \in 1..last /\ cursor < next /\ last <= arrived
      /\ next - 1 = cursor \/ next - 1 <= forgotten
  BY <1>1 DEF IInv, OwnOffset, FeedInv, InBatch
<1>3. next \in 1..arrived /\ next - 1 <= Feed!Larger(cursor, forgotten)
  BY <1>2, NumberTypes DEF Feed!Larger
<1> QED BY <1>1, <1>2, <1>3, NumberTypes
        DEF Feed!Dispatch, Feed!Later, Feed!Adjoins, Feed!Larger, Larger

LEMMA ForgetStep ==
  ASSUME IInv, IInv', forgotten <= forgotten', UNCHANGED <<pollVars, arrived>>
  PROVE  Feed!Forget \/ UNCHANGED Feed!feedVars
<1>1. /\ forgotten \in Nat /\ forgotten' \in Nat /\ seen \in Nat
      /\ forgotten' <= seen
  BY NumberTypes DEF IInv, ForgetOnlySeen, pollVars, TypeOK
<1> QED BY <1>1 DEF Feed!Forget, Feed!feedVars, pollVars

LEMMA FeedStep ==
  ASSUME IInv, IInv', FeedInv, [Next]_vars
  PROVE  [Feed!Next]_(Feed!feedVars)
<1> USE DEF Feed!Next
<1>1. CASE OnUpdate
  BY <1>1, DispatchStep
<1>2. CASE Arrive
  BY <1>2 DEF Arrive, Feed!Arrive, pollVars
<1>3. CASE Exit \/ Kill
  BY <1>3 DEF Exit, Kill, ProcessEnds, Feed!Restart
<1>4. CASE ServeUpdates \/ ServeError
  BY <1>4, ServeUpdatesFeed, ServeErrorFeed, ForgetStep
     DEF ServeUpdates, ServeError
<1>5. CASE \E r \in orphans : ServeLate(r)
  <2>1. PICK r \in orphans : ServeLate(r)
    BY <1>5
  <2>2. r.offset \in 0..(MaxUpdate + 1)
    BY DEF IInv, TypeOK, Conn!TypeOK, Requests
  <2> QED BY <2>1, <2>2, ConfirmedLater, ForgetStep DEF ServeLate
<1>6. CASE \/ Resume \/ GetUpdates \/ GotUpdates \/ Connect \/ Disconnect
           \/ Notice \/ ServeMessage \/ UNCHANGED vars
           \/ \E d \in Others : SendMessage(d) \/ MessageSent(d)
           \/ \E c \in Callers : Transfer(c)
  BY <1>6 DEF Feed!feedVars, Resume, GetUpdates, GotUpdates, Connect,
              Disconnect, Notice, ServeMessage, SendMessage, MessageSent,
              Transfer, vars, pollVars
<1> QED BY <1>1, <1>2, <1>3, <1>4, <1>5, <1>6 DEF Next

(* The coroutine, the stream it shares with the dialogs and the API        *)
(* implement the feed: on_update is called with every update that was not  *)
(* forgotten, in order, once per process, and only what it was called with *)
(* is forgotten.                                                           *)
THEOREM FeedImplemented == Spec => ImplementsFeed
<1>1. Init => Feed!Init
  BY DEF Init, Feed!Init
<1>2. [](IInv /\ FeedInv) /\ [][Next]_vars => [][Feed!Next]_(Feed!feedVars)
  <2>1. (IInv /\ FeedInv) /\ (IInv /\ FeedInv)' /\ [Next]_vars
          => [Feed!Next]_(Feed!feedVars)
    BY FeedStep
  <2> QED BY <2>1, PTL
<1> QED BY <1>1, <1>2, FeedInvariant, PTL DEF Spec, ImplementsFeed, Feed!Spec

-----------------------------------------------------------------------------
(* Without dialogs, all that is on the stream belongs to the operation the *)
(* coroutine waits for.                                                    *)
Alone ==
  call[Poll].pc # "idle" =>
    /\ \A i \in DOMAIN wire : wire[i] = call[Poll].req
    /\ \A i \in DOMAIN inbox : inbox[i].of = call[Poll].req
    /\ call[Poll].pc = "done" /\ call[Poll].res # Failed =>
         call[Poll].of = call[Poll].req

LEMMA NextAlone ==
  ASSUME Others = {}, IInv, FeedInv, Alone, [Next]_vars
  PROVE  Alone'
<1>0. Callers = {Poll} /\ Poll \in Callers
  BY DEF Callers
(* A step that begins or ends an operation. *)
<1>1. CASE GetUpdates
  <2>1. /\ pc = "request" /\ UNCHANGED <<wire, inbox>>
        /\ call'[Poll] = Conn!Writing(PollRequest)
    BY <1>0, <1>1, OneCall DEF GetUpdates, Conn!Request
  <2>2. NoTrace
    BY <2>1 DEF FeedInv, Untraced
  <2>3. \A i \in DOMAIN wire : wire[i].by = Poll
    <3>1. \A i \in DOMAIN wire : wire[i] \in Requests
      BY StreamTypes
    <3> QED BY <1>0, <3>1 DEF Requests
  <2>4. \A i \in DOMAIN inbox : inbox[i].of.by = Poll
    <3>1. \A i \in DOMAIN inbox : inbox[i] \in Conn!Part
      BY StreamTypes
    <3> QED BY <1>0, <3>1 DEF Requests, Conn!Part
  <2>5. DOMAIN wire' = {} /\ DOMAIN inbox' = {}
    BY <2>1, <2>2, <2>3, <2>4 DEF NoTrace
  <2>6. call'[Poll].pc = "writing"
    BY <2>1 DEF Conn!Writing
  <2> QED BY <2>5, <2>6 DEF Alone
<1>2. CASE GotUpdates
  <2>1. call' = [call EXCEPT ![Poll] = Conn!Idle]
    BY <1>2 DEF GotUpdates, Conn!Take
  <2>2. call'[Poll] = Conn!Idle
    BY <1>0, <2>1, OneCall
  <2> QED BY <2>2 DEF Alone, Conn!Idle
<1>3. CASE Exit \/ Kill
  <2>1. call'[Poll].pc = "idle"
    BY <1>0, <1>3 DEF Exit, Kill, ProcessEnds, Conn!Reset, Conn!Idle
  <2> QED BY <2>1 DEF Alone
(* A step of the operation. *)
<1>4. CASE Conn!Written(Poll)
  <2>1. /\ call[Poll].pc = "writing" /\ inbox' = inbox
        /\ wire' = Append(wire, call[Poll].req) \/ wire' = wire
        /\ call'[Poll].req = call[Poll].req /\ call'[Poll].pc = "reading"
    BY <1>0, <1>4 DEF Conn!Written, IInv, TypeOK, Conn!TypeOK, Conn!Call
  <2>2. call[Poll].req \in Requests
    BY <1>0, <2>1 DEF IInv, Asked
  <2>3. \A i \in DOMAIN wire' : wire'[i] = call[Poll].req
    <3>1. \A i \in DOMAIN wire : wire[i] = call[Poll].req
      BY <2>1 DEF Alone
    <3>2. CASE wire' = Append(wire, call[Poll].req)
      BY <2>2, <3>1, <3>2, StreamTypes
    <3> QED BY <2>1, <3>1, <3>2
  <2> QED BY <2>1, <2>3 DEF Alone
<1>5. CASE Conn!StreamFails(Poll)
  <2>1. /\ call[Poll].pc # "idle" /\ UNCHANGED <<wire, inbox>>
        /\ Conn!Finish(Poll, None, Failed)
    BY <1>5 DEF Conn!StreamFails, Conn!Outstanding
  <2>2. call'[Poll].res = Failed /\ call'[Poll].req = call[Poll].req
    BY <1>0, <2>1, FinishCall
  <2> QED BY <2>1, <2>2 DEF Alone
<1>6. CASE Conn!ReadSome(Poll)
  <2> DEFINE seg == Head(inbox)
  <2>1. call[Poll].pc = "reading" /\ inbox # <<>> /\ wire' = wire
    BY <1>6 DEF Conn!ReadSome
  <2>2. \A j \in DOMAIN inbox' : \E i \in DOMAIN inbox : inbox'[j] = inbox[i]
    <3>1. PICK k \in 0..Surplus : inbox' = SubSeq(inbox, k + 2, Len(inbox))
      BY <1>6 DEF Conn!ReadSome, Conn!Rest
    <3>2. k \in Nat
      BY LongPollingAssumption
    <3> QED BY <3>1, <3>2, StreamTypes, Constants, CP!RestElements
  <2>3. seg.of = call[Poll].req
    BY <2>1, StreamTypes, Constants, CP!TailElements DEF Alone
  <2>4. /\ call'[Poll].req = call[Poll].req
        /\ call'[Poll].pc = "done" /\ call'[Poll].res # Failed
             => call'[Poll].of = seg.of
    <3>1. CASE ~Conn!Continues(Poll, seg)
      BY <1>0, <1>6, <3>1, FinishCall DEF Conn!ReadSome, Conn!BadPart
    <3>2. CASE Conn!Continues(Poll, seg) /\ seg.last
      BY <1>0, <1>6, <3>2 DEF Conn!ReadSome, Conn!Finish, IInv, TypeOK,
                              Conn!TypeOK, Conn!Call
    <3>3. CASE Conn!Continues(Poll, seg) /\ ~seg.last
      BY <1>0, <1>6, <2>1, <3>3 DEF Conn!ReadSome, IInv, TypeOK, Conn!TypeOK,
                                    Conn!Call
    <3> QED BY <3>1, <3>2, <3>3
  <2> QED BY <2>1, <2>2, <2>3, <2>4 DEF Alone
(* A step of the API. *)
<1>7. CASE ServeUpdates \/ ServeMessage \/ ServeError
  <2>1. PICK a \in Values \cup {Refused, Malformed} : Conn!Answer(a)
    <3>1. Sent \in Values
      BY DEF Values
    <3>2. ServeUpdates => \E a \in Values : Conn!Answer(a)
      <4> SUFFICES ASSUME ServeUpdates PROVE \E a \in Values : Conn!Answer(a)
        OBVIOUS
      <4> DEFINE f == Confirmed(Head(wire).offset)
                 b == [lo |-> f + 1, hi |-> Smaller(arrived, f + Limit)]
      <4>1. f \in 0..MaxUpdate
        BY HeadOffset, ConfirmedSeen DEF ServeUpdates, IInv
      <4>2. b \in Values
        BY <4>1, LongPollingAssumption DEF Values, Batches, Smaller, IInv, TypeOK
      <4> QED BY <4>2 DEF ServeUpdates
    <3> QED BY <1>7, <3>1, <3>2 DEF ServeMessage, ServeError
  <2>2. /\ call' = call /\ wire # <<>> /\ wire' = Tail(wire)
    BY <2>1 DEF Conn!Answer
  <2>3. \A j \in DOMAIN wire' : \E i \in DOMAIN wire : wire'[j] = wire[i]
    BY <2>2, StreamTypes, Constants, CP!TailElements
  <2>4. \A j \in DOMAIN inbox' :
          \/ \E i \in DOMAIN inbox : inbox'[j] = inbox[i]
          \/ \E i \in DOMAIN wire : inbox'[j].of = wire[i]
    BY <2>1, <2>2, HeadRequest, AnswerElements
  <2> QED BY <2>2, <2>3, <2>4 DEF Alone
(* A step that leaves call, wire and inbox alone. *)
<1>8. CASE UNCHANGED <<call, wire, inbox>>
  BY <1>8 DEF Alone
<1>9. \/ Resume \/ OnUpdate \/ Connect \/ Disconnect \/ Notice \/ Arrive
      \/ (\E r \in orphans : ServeLate(r)) \/ UNCHANGED vars
      => UNCHANGED <<call, wire, inbox>>
  BY DEF Resume, OnUpdate, Connect, Disconnect, Notice, Arrive, ServeLate, vars,
         connVars, Conn!Resolve, Conn!TcpConnect, Conn!Handshake, Conn!ConnectFails,
         Conn!LinkLost, Conn!LinkSilent, Conn!Noticed, Conn!ServeOrphan
<1>10. \A c \in Callers : Transfer(c) =>
         Conn!Written(Poll) \/ Conn!StreamFails(Poll) \/ Conn!ReadSome(Poll)
  BY <1>0 DEF Transfer
<1> QED BY <1>1, <1>2, <1>3, <1>4, <1>5, <1>6, <1>7, <1>8, <1>9, <1>10 DEF Next

(* As long as nobody else uses the connection, the coroutine gets the      *)
(* answers to its own requests, whatever fails and however often the       *)
(* process restarts.                                                       *)
THEOREM AloneGetsOwn == Spec => []OwnAnswer
<1>1. CASE Others = {}
  <2>1. Init => Alone
    BY DEF Init, Conn!Init, Conn!Idle, Alone, Callers
  <2>2. IInv /\ FeedInv /\ Alone /\ [Next]_vars => Alone'
    BY <1>1, NextAlone
  <2>3. IInv /\ Alone => OwnAnswer
    BY <1>1 DEF OwnAnswer, Conn!OwnAnswer, Alone, Callers
  <2> QED BY <2>1, <2>2, <2>3, FeedInvariant, PTL DEF Spec
<1>2. CASE Others # {}
  <2>1. OwnAnswer
    BY <1>2 DEF OwnAnswer
  <2> QED BY <2>1, PTL
<1> QED BY <1>1, <1>2

-----------------------------------------------------------------------------
(* No reader is stranded: the balance of ConnectionProofs, kept by callers *)
(* that write what they like and end with their process.                   *)

LEMMA SameRequest ==
  ASSUME NEW c, NEW r
  PROVE  Conn!Request(c, r) <=> CP!Request(c, r)
BY DEF CP!Request, Conn!Request, CP!OnStream, Conn!OnStream, CP!Writing, Conn!Writing

LEMMA SameCaller ==
  ASSUME NEW c
  PROVE  /\ Conn!Take(c) <=> CP!Take(c)
         /\ Conn!Written(c) <=> CP!Written(c)
         /\ Conn!StreamFails(c) <=> CP!StreamFails(c)
BY SameFinish
DEF CP!Take, Conn!Take, CP!Idle, Conn!Idle, CP!Written, Conn!Written,
    CP!StreamFails, Conn!StreamFails, CP!Outstanding, Conn!Outstanding, CP!Deaf,
    Conn!Deaf

LEMMA SameLink ==
  /\ Conn!Resolve <=> CP!Resolve
  /\ Conn!TcpConnect <=> CP!TcpConnect
  /\ Conn!Handshake <=> CP!Handshake
  /\ Conn!ConnectFails <=> CP!ConnectFails
  /\ Conn!LinkLost <=> CP!LinkLost
  /\ Conn!LinkSilent <=> CP!LinkSilent
  /\ Conn!Noticed <=> CP!Noticed
BY DEF CP!Resolve, Conn!Resolve, CP!TcpConnect, Conn!TcpConnect, CP!Handshake,
       Conn!Handshake, CP!ConnectFails, Conn!ConnectFails, CP!LinkLost,
       Conn!LinkLost, CP!LinkSilent, Conn!LinkSilent, CP!Noticed, Conn!Noticed

LEMMA SameFinite == ASSUME NEW S PROVE IsFiniteSet(S) <=> CP!IsFiniteSet(S)
BY DEF IsFiniteSet, CP!IsFiniteSet

LEMMA SameCardinality ==
  ASSUME NEW S PROVE Conn!Cardinality(S) = CP!Cardinality(S)
BY Zenon DEF Conn!Cardinality, CP!Cardinality

LEMMA SameReaders == Conn!NoReaderStranded <=> CP!NoReaderStranded
<1>1. CP!ReadersWaiting = Conn!ReadersWaiting
  BY DEF CP!ReadersWaiting, Conn!ReadersWaiting
<1>2. CP!EndsToCome = Conn!EndsToCome
  BY SameCardinality DEF CP!EndsToCome, Conn!EndsToCome
<1> QED BY <1>1, <1>2, SameCardinality DEF CP!NoReaderStranded, Conn!NoReaderStranded

(* The steps of the connection, by whomever they are taken. *)
LEMMA CallerStep ==
  ASSUME IInv, CP!Balance, NEW c \in Callers,
         \/ \E r \in Requests : Conn!Request(c, r)
         \/ Conn!Take(c) \/ Conn!Written(c) \/ Conn!StreamFails(c) \/ Conn!ReadSome(c)
  PROVE  CP!Balance'
<1>1. \/ \E r \in Requests : CP!Request(c, r)
      \/ CP!Written(c) \/ CP!StreamFails(c) \/ CP!ReadSome(c) \/ CP!Take(c)
  BY SameRequest, SameCaller, SameReadSome
<1> QED BY <1>1, Constants, CP!CallerBalance

LEMMA ApiAnswers ==
  ASSUME IInv, ServeUpdates \/ ServeMessage \/ ServeError
  PROVE  \E a \in Values \cup {Refused, Malformed} : Conn!Answer(a)
<1>1. ASSUME ServeUpdates PROVE \E a \in Values : Conn!Answer(a)
  <2> DEFINE f == Confirmed(Head(wire).offset)
             b == [lo |-> f + 1, hi |-> Smaller(arrived, f + Limit)]
  <2>1. f \in 0..MaxUpdate
    BY <1>1, HeadOffset, ConfirmedSeen DEF ServeUpdates, IInv
  <2>2. b \in Values
    BY <2>1, LongPollingAssumption DEF Values, Batches, Smaller, IInv, TypeOK
  <2> QED BY <1>1, <2>2 DEF ServeUpdates
<1>2. Sent \in Values
  BY DEF Values
<1> QED BY <1>1, <1>2 DEF ServeMessage, ServeError

(* Steps that leave every operation and the stream as they are. *)
LEMMA StreamStays ==
  ASSUME IInv', CP!Balance, UNCHANGED <<link, call, wire, inbox, spilt>>
  PROVE  CP!Balance'
<1>1. CP!TypeOK' /\ CP!Asked'
  BY SameTypePrime DEF IInv, TypeOK, Asked, CP!Asked
<1> QED BY <1>1 DEF CP!Balance, CP!ReadersWaiting, CP!NoReaderStranded, CP!EndsToCome,
                    CP!Unopened

LEMMA ProcessEndsBalance ==
  ASSUME IInv', ProcessEnds
  PROVE  CP!Balance' /\ ~spilt'
<1>1. CP!TypeOK' /\ CP!Asked'
  BY SameTypePrime DEF IInv, TypeOK, Asked, CP!Asked
<1>2. /\ link' = "closed" /\ ~spilt'
      /\ \A c \in Callers : call'[c].pc = "idle"
  BY DEF ProcessEnds, Conn!Reset, Conn!Idle
<1>3. CP!ReadersWaiting' = {}
  BY <1>2 DEF CP!ReadersWaiting
<1>4. CP!IsFiniteSet(CP!ReadersWaiting')
  BY <1>3, FS_EmptySet, SameFinite
<1>5. CP!NoReaderStranded'
  BY <1>2 DEF CP!NoReaderStranded
<1> QED BY <1>1, <1>2, <1>3, <1>4, <1>5 DEF CP!Balance

LEMMA NextBalance ==
  ASSUME IInv, IInv', CP!Balance, [Next]_vars
  PROVE  CP!Balance'
<1>1. CASE GetUpdates
  <2>1. PollRequest \in Requests /\ Poll \in Callers
    BY DEF PollRequest, Requests, Callers, IInv, TypeOK
  <2> QED BY <1>1, <2>1, CallerStep DEF GetUpdates
<1>2. CASE GotUpdates
  BY <1>2, StreamTypes, CallerStep DEF GotUpdates
<1>3. CASE \E d \in Others : SendMessage(d) \/ MessageSent(d)
  <2>1. PICK d \in Others : SendMessage(d) \/ MessageSent(d)
    BY <1>3
  <2>2. d \in Callers /\ [by |-> d, offset |-> 0] \in Requests
    BY NumberTypes DEF Callers, Requests
  <2> QED BY <2>1, <2>2, CallerStep DEF SendMessage, MessageSent
<1>4. CASE \E c \in Callers : Transfer(c)
  BY <1>4, CallerStep DEF Transfer
<1>5. CASE Connect \/ Disconnect \/ Notice
  <2>1. CP!LinkStep
    BY <1>5, SameLink DEF Connect, Disconnect, Notice, CP!LinkStep
  <2> QED BY <2>1, Constants, CP!LinkBalance
<1>6. CASE ServeUpdates \/ ServeMessage \/ ServeError
  BY <1>6, ApiAnswers, SameAnswer, Constants, CP!AnswerBalance
<1>7. CASE Exit \/ Kill
  BY <1>7, ProcessEndsBalance DEF Exit, Kill
<1>8. CASE Resume \/ OnUpdate \/ Arrive \/ (\E r \in orphans : ServeLate(r)) \/ UNCHANGED vars
  BY <1>8, StreamStays
     DEF Resume, OnUpdate, Arrive, ServeLate, Conn!ServeOrphan, connVars, vars
<1> QED BY <1>1, <1>2, <1>3, <1>4, <1>5, <1>6, <1>7, <1>8 DEF Next

(* A coroutine that is alone finds the end of its answer last in the inbox *)
(* (OneTrace), so there is nothing behind it to throw away.                *)
LEMMA AloneSpillsNothing ==
  ASSUME Others = {}, IInv, IInv', FeedInv, ~spilt, [Next]_vars
  PROVE  ~spilt'
<1>1. Callers = {Poll}
  BY DEF Callers
<1>2. CASE Conn!ReadSome(Poll)
  <2>1. /\ inbox # <<>> /\ inbox \in Seq(Conn!Part)
    BY <1>2, StreamTypes DEF Conn!ReadSome
  <2>2. PICK k \in 0..Surplus :
          /\ k > 0 => Head(inbox).last /\ k < Len(inbox)
          /\ spilt' = (spilt \/ \E i \in 1..k : inbox[i + 1].last)
    BY <1>2 DEF Conn!ReadSome
  <2>3. k \in Nat
    BY LongPollingAssumption
  <2>4. CASE k = 0
    <3>1. 1..k = {}
      BY <2>4
    <3> QED BY <2>2, <3>1
  <2>5. CASE k > 0
    <3>1. /\ 1 \in DOMAIN inbox /\ 2 \in DOMAIN inbox /\ Head(inbox) = inbox[1]
      BY <2>1, <2>2, <2>3, <2>5
    <3>2. inbox[1].of.by = Poll /\ inbox[2].of.by = Poll
      <4>1. \A i \in DOMAIN inbox : inbox[i] \in Conn!Part
        BY <2>1
      <4> QED BY <1>1, <3>1, <4>1 DEF Conn!Part, Requests
    <3>3. inbox[1].last
      BY <2>2, <2>5, <3>1
    <3>4. 2 <= 1
      BY <3>1, <3>2, <3>3 DEF FeedInv, OneTrace
    <3> QED BY <3>4
  <2> QED BY <2>3, <2>4, <2>5
<1>3. CASE Exit \/ Kill
  BY <1>3, ProcessEndsBalance DEF Exit, Kill
<1>4. CASE UNCHANGED spilt
  BY <1>4
<1>5. \A c \in Callers : Transfer(c) => Conn!ReadSome(Poll) \/ UNCHANGED spilt
  BY <1>1 DEF Transfer, Conn!Written, Conn!StreamFails
<1>6. ServeUpdates \/ ServeMessage \/ ServeError => UNCHANGED spilt
  BY ApiAnswers DEF Conn!Answer
<1>7. \/ Resume \/ GetUpdates \/ GotUpdates \/ OnUpdate \/ Connect \/ Disconnect
      \/ Notice \/ Arrive \/ (\E d \in Others : SendMessage(d) \/ MessageSent(d))
      \/ (\E r \in orphans : ServeLate(r)) \/ UNCHANGED vars
      => UNCHANGED spilt
  BY DEF Resume, GetUpdates, GotUpdates, OnUpdate, Connect, Disconnect, Arrive,
         SendMessage, MessageSent, ServeLate, connVars, vars, Conn!Request, Conn!Take,
         Conn!Resolve, Conn!TcpConnect, Conn!Handshake, Conn!ConnectFails,
         Conn!LinkLost, Conn!LinkSilent, Conn!Noticed, Conn!ServeOrphan, Notice
<1> QED BY <1>2, <1>3, <1>4, <1>5, <1>6, <1>7 DEF Next

(* In the whole of coroutine, dialogs and API, through any restarts, no    *)
(* operation waits for a response nobody sends, unless the end of one was  *)
(* thrown away; and without dialogs none ever is.                          *)
THEOREM NobodyStranded == Spec => []NoneStranded
<1>1. Spec => []CP!Balance
  <2>1. Init => CP!Balance
    <3> SUFFICES ASSUME Init PROVE CP!Balance
      OBVIOUS
    <3>1. CP!TypeOK /\ CP!Asked
      BY InitInv, SameType DEF IInv, TypeOK, Asked, CP!Asked
    <3>2. CP!ReadersWaiting = {} /\ link = "closed"
      BY DEF Init, Conn!Init, Conn!Idle, CP!ReadersWaiting
    <3>3. CP!IsFiniteSet(CP!ReadersWaiting)
      BY <3>2, FS_EmptySet, SameFinite
    <3>4. CP!NoReaderStranded
      BY <3>2 DEF CP!NoReaderStranded
    <3> QED BY <3>1, <3>2, <3>3, <3>4 DEF CP!Balance
  <2>2. IInv /\ IInv' /\ CP!Balance /\ [Next]_vars => CP!Balance'
    BY NextBalance
  <2> QED BY <2>1, <2>2, Invariant, PTL DEF Spec
<1>2. Spec => [](Others = {} => ~spilt)
  <2>1. Init => (Others = {} => ~spilt)
    BY DEF Init, Conn!Init
  <2>2. /\ IInv /\ IInv' /\ FeedInv /\ (Others = {} => ~spilt) /\ [Next]_vars
        => (Others = {} => ~spilt)'
    BY AloneSpillsNothing
  <2> QED BY <2>1, <2>2, Invariant, FeedInvariant, PTL DEF Spec
<1>3. CP!Balance /\ (Others = {} => ~spilt) => NoneStranded
  BY SameReaders DEF CP!Balance, NoneStranded
<1> QED BY <1>1, <1>2, <1>3, PTL
===============================================================================
