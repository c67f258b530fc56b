--------------------------- MODULE ConnectionProofs ---------------------------
(***************************************************************************)
(* Proofs about Connection.  The lemmas are stated per action, so that the *)
(* modules which use the connection as a component can cite them.          *)
(***************************************************************************)
EXTENDS Connection, FiniteSetTheorems, TLAPS

(* A response is a sequence of parts, however many it travels in. *)
LEMMA PartsType ==
  ASSUME NEW r \in Requests, NEW a \in Values \cup {Refused, Malformed},
         NEW n \in 1..MaxParts
  PROVE  Parts(r, a, n) \in Seq(Part)
<1>1. n \in Nat /\ 1..n \subseteq 1..MaxParts
  BY ConnectionAssumption
<1>2. \A i \in 1..n : [of |-> r, part |-> i, last |-> (i = n), answer |-> a]
                        \in Part
  <2> TAKE i \in 1..n
  <2>1. i \in 1..MaxParts
    BY <1>1
  <2>2. (i = n) \in BOOLEAN
    OBVIOUS
  <2> QED BY <2>1, <2>2 DEF Part
<1>3. Parts(r, a, n) \in [1..n -> Part]
  BY <1>2 DEF Parts
<1> QED BY <1>1, <1>3

LEMMA InitType == Init => TypeOK
<1> SUFFICES ASSUME Init PROVE TypeOK
  OBVIOUS
<1>1. spilt \in BOOLEAN
  BY DEF Init
<1>2. /\ link \in Links /\ call \in [Callers -> Call] /\ wire \in Seq(Requests)
      /\ inbox \in Seq(Part) /\ orphans \subseteq Requests
  BY ConnectionAssumption DEF Init, Links, Idle, Call
<1> QED BY <1>1, <1>2 DEF TypeOK

(* The steps that touch nothing but the link. *)
LinkStep ==
  \/ Resolve \/ TcpConnect \/ Handshake \/ ConnectFails
  \/ LinkLost \/ LinkSilent \/ Noticed

LEMMA LinkStays ==
  ASSUME LinkStep
  PROVE  UNCHANGED <<call, wire, inbox, orphans, spilt>>
BY DEF LinkStep, Resolve, TcpConnect, Handshake, ConnectFails, LinkLost, LinkSilent,
       Noticed

LEMMA LinkType ==
  ASSUME TypeOK, LinkStep
  PROVE  TypeOK'
<1>1. link' \in Links
  BY DEF TypeOK, Links, LinkStep, Resolve, TcpConnect, Handshake, ConnectFails,
         LinkLost, LinkSilent, Noticed
<1> QED BY <1>1, LinkStays DEF TypeOK

LEMMA RequestType ==
  ASSUME TypeOK, NEW c \in Callers, NEW r \in Requests, Request(c, r)
  PROVE  TypeOK'
<1>1. Writing(r) \in Call
  BY ConnectionAssumption DEF Writing, Call
<1> QED BY <1>1 DEF TypeOK, Request

LEMMA WrittenType ==
  ASSUME TypeOK, NEW c \in Callers, Written(c), call[c].req # None
  PROVE  TypeOK'
<1>1. call[c] \in Call
  BY DEF TypeOK
<1>2. call[c].req \in Requests
  BY <1>1 DEF Call
<1>3. [call[c] EXCEPT !.pc = "reading"] \in Call
  BY <1>1 DEF Call
<1>4. call' \in [Callers -> Call]
  BY <1>3 DEF TypeOK, Written
<1>5. wire' \in Seq(Requests)
  BY <1>2 DEF TypeOK, Written
<1> QED BY <1>4, <1>5 DEF TypeOK, Written

LEMMA FinishType ==
  ASSUME TypeOK, NEW c \in Callers,
         NEW of \in Requests \cup {None},
         NEW res \in Values \cup {Refused, Failed, None},
         Finish(c, of, res)
  PROVE  call' \in [Callers -> Call]
<1>1. call[c] \in Call
  BY DEF TypeOK
<1>2. 0 \in 0..MaxParts
  BY ConnectionAssumption
<1>3. [call[c] EXCEPT !.pc = "done", !.of = of, !.got = 0, !.res = res]
        \in Call
  BY <1>1, <1>2 DEF Call
<1> QED BY <1>3 DEF Finish, TypeOK

LEMMA StreamFailsType ==
  ASSUME TypeOK, NEW c \in Callers, StreamFails(c)
  PROVE  TypeOK'
<1>1. call' \in [Callers -> Call]
  BY FinishType DEF StreamFails
<1> QED BY <1>1 DEF StreamFails, TypeOK

LEMMA ReadSomeType ==
  ASSUME TypeOK, NEW c \in Callers, ReadSome(c)
  PROVE  TypeOK'
<1> DEFINE seg == Head(inbox)
<1>1. seg \in Part /\ inbox' \in Seq(Part) /\ spilt' \in BOOLEAN
  BY DEF TypeOK, ReadSome, Rest
<1>2. call[c] \in Call
  BY DEF TypeOK
<1>3. call' \in [Callers -> Call]
  <2>1. CASE ~Continues(c, seg)
    <3>1. Finish(c, None, Failed)
      BY <2>1 DEF ReadSome, BadPart
    <3> QED BY <3>1, FinishType
  <2>2. CASE Continues(c, seg) /\ seg.last
    <3>1. Finish(c, seg.of, ProcessResponse(seg.answer))
      BY <2>2 DEF ReadSome
    <3>2. seg.of \in Requests
      BY <1>1 DEF Part
    <3>3. ProcessResponse(seg.answer) \in Values \cup {Refused, Failed, None}
      BY <1>1 DEF Part, ProcessResponse
    <3> QED BY <3>1, <3>2, <3>3, FinishType
  <2>3. CASE Continues(c, seg) /\ ~seg.last
    <3>1. call' = [call EXCEPT ![c] = [@ EXCEPT !.of = seg.of,
                                               !.got = seg.part]]
      BY <2>3 DEF ReadSome
    <3>2. seg.of \in Requests /\ seg.part \in 0..MaxParts
      BY <1>1, ConnectionAssumption DEF Part
    <3>3. [call[c] EXCEPT !.of = seg.of, !.got = seg.part] \in Call
      BY <1>2, <3>2 DEF Call
    <3> QED BY <3>1, <3>3 DEF TypeOK
  <2>4. QED BY <2>1, <2>2, <2>3 DEF ReadSome
<1> QED BY <1>1, <1>3 DEF TypeOK, ReadSome

LEMMA TakeType ==
  ASSUME TypeOK, NEW c \in Callers, Take(c)
  PROVE  TypeOK'
<1>1. Idle \in Call
  BY ConnectionAssumption DEF Idle, Call
<1> QED BY <1>1 DEF TypeOK, Take

LEMMA AnswerType ==
  ASSUME TypeOK, NEW a \in Values \cup {Refused, Malformed}, Answer(a)
  PROVE  TypeOK'
<1>1. Head(wire) \in Requests /\ wire' \in Seq(Requests)
  BY DEF TypeOK, Answer
<1>2. PICK n \in 1..MaxParts :
        inbox' = IF link = "open" THEN inbox \o Parts(Head(wire), a, n)
                                  ELSE inbox
  BY DEF Answer
<1>3. Parts(Head(wire), a, n) \in Seq(Part)
  BY <1>1, PartsType
<1>4. inbox' \in Seq(Part)
  BY <1>2, <1>3 DEF TypeOK
<1> QED BY <1>1, <1>4 DEF TypeOK, Answer

LEMMA ResetType == TypeOK /\ Reset => TypeOK'
<1> SUFFICES ASSUME TypeOK, Reset PROVE TypeOK'
  OBVIOUS
<1>1. Idle \in Call
  BY ConnectionAssumption DEF Idle, Call
<1>2. {wire[i] : i \in DOMAIN wire} \subseteq Requests
  BY DEF TypeOK
<1>3. spilt' \in BOOLEAN
  BY DEF Reset
<1>4. /\ link' \in Links /\ call' \in [Callers -> Call] /\ wire' \in Seq(Requests)
      /\ inbox' \in Seq(Part) /\ orphans' \subseteq Requests
  BY <1>1, <1>2 DEF TypeOK, Reset, Links
<1> QED BY <1>3, <1>4 DEF TypeOK

LEMMA ServeOrphanType ==
  ASSUME TypeOK, NEW r, ServeOrphan(r)
  PROVE  TypeOK'
BY DEF TypeOK, ServeOrphan

-----------------------------------------------------------------------------
(* An operation that was begun has a request to write. *)
Asked == \A c \in Callers : call[c].pc # "idle" => call[c].req \in Requests

LEMMA FinishAsked ==
  ASSUME TypeOK, Asked, NEW c \in Callers, NEW of, NEW res,
         call[c].pc # "idle", Finish(c, of, res)
  PROVE  Asked'
BY DEF Asked, Finish, TypeOK, Call

LEMMA ReadSomeAsked ==
  ASSUME TypeOK, Asked, NEW c \in Callers, ReadSome(c)
  PROVE  Asked'
<1> DEFINE seg == Head(inbox)
<1>1. call[c].pc # "idle"
  BY DEF ReadSome
<1>2. CASE ~Continues(c, seg)
  BY <1>1, <1>2, FinishAsked DEF ReadSome, BadPart
<1>3. CASE Continues(c, seg) /\ seg.last
  BY <1>1, <1>3, FinishAsked DEF ReadSome
<1>4. CASE Continues(c, seg) /\ ~seg.last
  <2>1. call' = [call EXCEPT ![c] = [@ EXCEPT !.of = seg.of, !.got = seg.part]]
    BY <1>4 DEF ReadSome
  <2> QED BY <2>1 DEF Asked, TypeOK, Call
<1> QED BY <1>2, <1>3, <1>4

LEMMA CallerStep ==
  ASSUME TypeOK, Asked, NEW c \in Callers,
         \/ \E r \in Requests : Request(c, r)
         \/ Written(c) \/ StreamFails(c) \/ ReadSome(c) \/ Take(c)
  PROVE  TypeOK' /\ Asked'
<1>1. CASE \E r \in Requests : Request(c, r)
  <2>1. PICK r \in Requests : Request(c, r)
    BY <1>1
  <2>2. TypeOK'
    BY <2>1, RequestType
  <2>3. Asked'
    BY <2>1 DEF Request, Writing, Asked, TypeOK
  <2> QED BY <2>2, <2>3
<1>2. CASE Written(c)
  <2>1. call[c].req # None
    BY <1>2, ConnectionAssumption DEF Written, Asked
  <2>2. Asked'
    BY <1>2 DEF Written, Asked, TypeOK, Call
  <2> QED BY <1>2, <2>1, <2>2, WrittenType
<1>3. CASE StreamFails(c)
  <2>1. call[c].pc # "idle" /\ Finish(c, None, Failed)
    BY <1>3 DEF StreamFails, Outstanding
  <2> QED BY <1>3, <2>1, FinishAsked, StreamFailsType
<1>4. CASE ReadSome(c)
  BY <1>4, ReadSomeType, ReadSomeAsked
<1>5. CASE Take(c)
  <2>1. Asked'
    BY <1>5 DEF Take, Idle, Asked, TypeOK
  <2> QED BY <1>5, <2>1, TakeType
<1> QED BY <1>1, <1>2, <1>3, <1>4, <1>5

(* The connection's state keeps its type, however many callers overlap and *)
(* in however many parts responses arrive: a response that is read in the  *)
(* middle of another, or by the wrong caller, leaves every operation with  *)
(* a result async_request can deliver.                                     *)
THEOREM TypeCorrect == Spec => []TypeOK
<1>1. Init => TypeOK /\ Asked
  BY InitType DEF Init, Asked, Idle
<1>2. TypeOK /\ Asked /\ [Next]_connVars => TypeOK' /\ Asked'
  <2> SUFFICES ASSUME TypeOK, Asked, [Next]_connVars PROVE TypeOK' /\ Asked'
    OBVIOUS
  <2>1. CASE LinkStep
    <3>1. UNCHANGED call
      BY <2>1, LinkStays
    <3> QED BY <2>1, <3>1, LinkType DEF Asked
  <2>2. CASE \E c \in Callers : \/ \E r \in Requests : Request(c, r)
                                \/ Written(c) \/ StreamFails(c)
                                \/ ReadSome(c) \/ Take(c)
    BY <2>2, CallerStep
  <2>3. CASE \E a \in Values \cup {Refused, Malformed} : Answer(a)
    <3>1. UNCHANGED call
      BY <2>3 DEF Answer
    <3> QED BY <2>3, <3>1, AnswerType DEF Asked
  <2>4. CASE UNCHANGED connVars
    BY <2>4 DEF connVars, TypeOK, Asked
  <2> QED BY <2>1, <2>2, <2>3, <2>4 DEF Next, LinkStep
<1> QED BY <1>1, <1>2, PTL DEF Spec

-----------------------------------------------------------------------------
(* AnswerTakenOnce needs to know where the traces of a request can be: a   *)
(* request about to be written has none, a written one has no response     *)
(* yet, and the part that ends a response is in the inbox once or was read *)
(* by one operation.                                                       *)
Untraced(c) ==
  /\ \A i \in DOMAIN wire : wire[i] # call[c].req
  /\ \A j \in DOMAIN inbox : inbox[j].of # call[c].req
  /\ \A d \in Callers : call[d].of # call[c].req
  /\ \A d \in Callers : d # c => call[d].req # call[c].req

WrittenOnce ==
  /\ \A c \in Callers : call[c].pc = "writing" => Untraced(c)
  /\ \A i, j \in DOMAIN wire : i # j => wire[i] # wire[j]
  /\ \A i \in DOMAIN wire, j \in DOMAIN inbox : inbox[j].of # wire[i]
  /\ \A i \in DOMAIN wire, c \in Callers : call[c].of # wire[i]

EndedOnce ==
  /\ \A i, j \in DOMAIN inbox :
       i # j /\ inbox[i].last /\ inbox[j].last => inbox[i].of # inbox[j].of
  /\ \A j \in DOMAIN inbox, c \in Callers :
       inbox[j].last /\ call[c].pc = "done" => call[c].of # inbox[j].of

OnceInv == TypeOK /\ Asked /\ WrittenOnce /\ EndedOnce /\ AnswerTakenOnce

(* The elements of a queue after its head is taken are those after it. *)
LEMMA TailElements ==
  ASSUME NEW S, NEW s \in Seq(S), s # <<>>
  PROVE  /\ 1 \in DOMAIN s /\ Head(s) = s[1]
         /\ \A j \in DOMAIN Tail(s) :
              j \in Nat /\ j # 0 /\ j + 1 \in DOMAIN s /\ Tail(s)[j] = s[j + 1]
OBVIOUS

(* So are those of a queue that loses k + 1 elements at its head. *)
LEMMA RestElements ==
  ASSUME NEW S, NEW s \in Seq(S), NEW k \in Nat
  PROVE  \A j \in DOMAIN SubSeq(s, k + 2, Len(s)) :
           /\ j \in Nat /\ j # 0 /\ j + k + 1 \in DOMAIN s
           /\ SubSeq(s, k + 2, Len(s))[j] = s[j + k + 1]
OBVIOUS

(* A joined queue holds the elements of the first, then of the second. *)
LEMMA JoinedElements ==
  ASSUME NEW S, NEW s \in Seq(S), NEW t \in Seq(S)
  PROVE  /\ Len(s) \in Nat /\ DOMAIN s = 1..Len(s)
         /\ DOMAIN (s \o t) = 1..(Len(s) + Len(t))
         /\ \A j \in 1..Len(s) : (s \o t)[j] = s[j]
         /\ \A j \in 1..(Len(s) + Len(t)) : j \notin 1..Len(s) =>
               j - Len(s) \in 1..Len(t) /\ (s \o t)[j] = t[j - Len(s)]
<1>1. /\ Len(s) \in Nat /\ DOMAIN s = 1..Len(s) /\ Len(t) \in Nat
      /\ s \o t \in Seq(S) /\ Len(s \o t) = Len(s) + Len(t)
  OBVIOUS
<1>2. DOMAIN (s \o t) = 1..(Len(s) + Len(t))
  BY <1>1
<1>3. \A j \in 1..Len(s) : (s \o t)[j] = s[j]
  OBVIOUS
<1>4. \A j \in 1..(Len(s) + Len(t)) : j \notin 1..Len(s) =>
        j - Len(s) \in 1..Len(t) /\ (s \o t)[j] = t[j - Len(s)]
  OBVIOUS
<1> QED BY <1>1, <1>2, <1>3, <1>4

(* Steps of one caller leave the others alone. *)
LEMMA Others ==
  ASSUME TypeOK, NEW c \in Callers, NEW v, call' = [call EXCEPT ![c] = v]
  PROVE  call'[c] = v /\ \A d \in Callers : d # c => call'[d] = call[d]
BY DEF TypeOK

LEMMA RequestOnce ==
  ASSUME OnceInv, NEW c \in Callers, NEW r \in Requests, Request(c, r)
  PROVE  WrittenOnce' /\ EndedOnce' /\ AnswerTakenOnce'
<1>1. /\ call'[c] = Writing(r) /\ \A d \in Callers : d # c => call'[d] = call[d]
      /\ wire' = wire /\ inbox' = inbox
  BY Others DEF Request, OnceInv
<1>2. /\ \A i \in DOMAIN wire : wire[i] # r
      /\ \A j \in DOMAIN inbox : inbox[j].of # r
      /\ \A d \in Callers : call[d].req # r /\ call[d].of # r
  BY DEF Request, OnStream
<1>3. /\ call'[c].pc = "writing" /\ call'[c].req = r /\ call'[c].of = None
      /\ r # None
  BY <1>1, ConnectionAssumption DEF Writing
<1>4. \A i \in DOMAIN wire : wire[i] # None
  BY ConnectionAssumption DEF OnceInv, TypeOK
<1>5. \A d \in Callers : call'[d].pc = "writing" => Untraced(d)'
  <2> TAKE d \in Callers
  <2> HAVE call'[d].pc = "writing"
  <2>1. CASE d = c
    BY <2>1, <1>1, <1>2, <1>3 DEF Untraced
  <2>2. CASE d # c
    <3>1. Untraced(d) /\ call[d].req \in Requests /\ call[d].req # None
      BY <2>2, <1>1, ConnectionAssumption DEF OnceInv, WrittenOnce, Asked
    <3> QED BY <3>1, <2>2, <1>1, <1>2, <1>3 DEF Untraced
  <2> QED BY <2>1, <2>2
<1>6. WrittenOnce'
  BY <1>1, <1>3, <1>4, <1>5 DEF OnceInv, WrittenOnce
<1>7. EndedOnce' /\ AnswerTakenOnce'
  BY <1>1, <1>3 DEF OnceInv, EndedOnce, AnswerTakenOnce
<1> QED BY <1>6, <1>7

LEMMA WrittenStepOnce ==
  ASSUME OnceInv, NEW c \in Callers, Written(c)
  PROVE  WrittenOnce' /\ EndedOnce' /\ AnswerTakenOnce'
<1> DEFINE n == Len(wire)
<1>1. /\ call' = [call EXCEPT ![c] = [@ EXCEPT !.pc = "reading"]]
      /\ wire' = Append(wire, call[c].req) \/ wire' = wire
      /\ inbox' = inbox /\ call[c].pc = "writing"
  BY DEF Written
<1>2. /\ \A d \in Callers : call'[d].req = call[d].req /\ call'[d].of = call[d].of
      /\ \A d \in Callers : d # c => call'[d].pc = call[d].pc
      /\ call'[c].pc = "reading"
  BY <1>1 DEF OnceInv, TypeOK, Call
<1>3. wire' = wire \/ /\ n \in Nat /\ DOMAIN wire = 1..n
                       /\ DOMAIN wire' = 1..(n + 1) /\ wire'[n + 1] = call[c].req
                       /\ \A i \in 1..n : wire'[i] = wire[i]
  <2>1. wire \in Seq(Requests) /\ call[c].req \in Requests
    BY <1>1 DEF OnceInv, TypeOK, Asked
  <2> QED BY <1>1, <2>1
<1>4. Untraced(c)
  BY <1>1 DEF OnceInv, WrittenOnce
<1>5. /\ \A i \in DOMAIN wire' :
           \/ i \in DOMAIN wire /\ wire'[i] = wire[i]
           \/ i = n + 1 /\ i \notin DOMAIN wire /\ wire'[i] = call[c].req
  BY <1>3
<1>6. \A d \in Callers : call'[d].pc = "writing" => Untraced(d)'
  <2> TAKE d \in Callers
  <2> HAVE call'[d].pc = "writing"
  <2>1. d # c /\ Untraced(d)
    BY <1>2 DEF OnceInv, WrittenOnce
  <2>2. call[c].req # call[d].req
    BY <2>1 DEF Untraced
  <2>3. \A i \in DOMAIN wire' : wire'[i] # call'[d].req
    BY <2>1, <2>2, <1>2, <1>5 DEF Untraced
  <2>4. \A j \in DOMAIN inbox' : inbox'[j].of # call'[d].req
    BY <2>1, <1>1, <1>2 DEF Untraced
  <2>5. \A e \in Callers : /\ call'[e].of # call'[d].req
                           /\ e # d => call'[e].req # call'[d].req
    BY <2>1, <1>2 DEF Untraced
  <2> QED BY <2>3, <2>4, <2>5 DEF Untraced
<1>7. WrittenOnce'
  <2>1. \A i, j \in DOMAIN wire' : i # j => wire'[i] # wire'[j]
    BY <1>4, <1>5 DEF OnceInv, WrittenOnce, Untraced
  <2>2. \A i \in DOMAIN wire', j \in DOMAIN inbox' : inbox'[j].of # wire'[i]
    BY <1>1, <1>4, <1>5 DEF OnceInv, WrittenOnce, Untraced
  <2>3. \A i \in DOMAIN wire', d \in Callers : call'[d].of # wire'[i]
    BY <1>2, <1>4, <1>5 DEF OnceInv, WrittenOnce, Untraced
  <2> QED BY <1>6, <2>1, <2>2, <2>3 DEF WrittenOnce
<1>8. EndedOnce' /\ AnswerTakenOnce'
  BY <1>1, <1>2 DEF OnceInv, EndedOnce, AnswerTakenOnce
<1> QED BY <1>7, <1>8

(* An operation that completes without the end of a response takes nothing *)
(* from another.  The inbox is what it was or has lost its first parts.    *)
LEMMA FailOnce ==
  ASSUME OnceInv, NEW c \in Callers, call[c].pc # "idle",
         Finish(c, None, Failed), UNCHANGED wire,
         \/ UNCHANGED inbox
         \/ \E k \in Nat : inbox' = SubSeq(inbox, k + 2, Len(inbox))
  PROVE  WrittenOnce' /\ EndedOnce' /\ AnswerTakenOnce'
<1>1. /\ call'[c].of = None /\ call'[c].pc = "done" /\ call'[c].req = call[c].req
      /\ \A d \in Callers : d # c => call'[d] = call[d]
  BY DEF Finish, OnceInv, TypeOK, Call
<1>2. \A j \in DOMAIN inbox' : \E k \in DOMAIN inbox : inbox'[j] = inbox[k]
  <2>1. CASE UNCHANGED inbox
    BY <2>1
  <2>2. CASE \E k \in Nat : inbox' = SubSeq(inbox, k + 2, Len(inbox))
    <3>1. inbox \in Seq(Part)
      BY DEF OnceInv, TypeOK
    <3>2. PICK k \in Nat : inbox' = SubSeq(inbox, k + 2, Len(inbox))
      BY <2>2
    <3>3. \A j \in DOMAIN inbox' :
            j + k + 1 \in DOMAIN inbox /\ inbox'[j] = inbox[j + k + 1]
      BY <3>1, <3>2, RestElements
    <3> QED BY <3>3
  <2> QED BY <2>1, <2>2
<1>3. \A i, j \in DOMAIN inbox' : i # j =>
         \E k, l \in DOMAIN inbox : k # l /\ inbox'[i] = inbox[k] /\ inbox'[j] = inbox[l]
  <2>1. CASE UNCHANGED inbox
    BY <2>1
  <2>2. CASE \E k \in Nat : inbox' = SubSeq(inbox, k + 2, Len(inbox))
    <3> TAKE i, j \in DOMAIN inbox'
    <3> HAVE i # j
    <3>1. inbox \in Seq(Part)
      BY DEF OnceInv, TypeOK
    <3>2. PICK k \in Nat : inbox' = SubSeq(inbox, k + 2, Len(inbox))
      BY <2>2
    <3>3. /\ i \in Nat /\ j \in Nat
          /\ i + k + 1 \in DOMAIN inbox /\ j + k + 1 \in DOMAIN inbox
          /\ inbox'[i] = inbox[i + k + 1] /\ inbox'[j] = inbox[j + k + 1]
      BY <3>1, <3>2, RestElements
    <3>4. i + k + 1 # j + k + 1
      BY <3>3
    <3> QED BY <3>3, <3>4
  <2> QED BY <2>1, <2>2
<1>4. /\ \A i \in DOMAIN wire : wire[i] # None
      /\ \A j \in DOMAIN inbox : inbox[j].of # None
      /\ \A d \in Callers : call[d].pc # "idle" => call[d].req # None
  <2>1. \A i \in DOMAIN wire : wire[i] \in Requests
    BY DEF OnceInv, TypeOK
  <2>2. \A j \in DOMAIN inbox : inbox[j] \in Part
    BY DEF OnceInv, TypeOK
  <2> QED BY <2>1, <2>2, ConnectionAssumption DEF OnceInv, Part, Asked
<1>5. \A d \in Callers : call'[d].pc = "writing" => Untraced(d)'
  <2> TAKE d \in Callers
  <2> HAVE call'[d].pc = "writing"
  <2>1. d # c /\ Untraced(d) /\ call'[d] = call[d] /\ call[d].req # None
    BY <1>1, <1>4 DEF OnceInv, WrittenOnce
  <2>2. \A j \in DOMAIN inbox' : inbox'[j].of # call'[d].req
    BY <2>1, <1>2 DEF Untraced
  <2>3. \A e \in Callers : /\ call'[e].of # call'[d].req
                           /\ e # d => call'[e].req # call'[d].req
    BY <2>1, <1>1 DEF Untraced
  <2> QED BY <2>1, <2>2, <2>3 DEF Untraced
<1>6. WrittenOnce'
  BY <1>1, <1>2, <1>4, <1>5 DEF OnceInv, WrittenOnce
<1>7. EndedOnce'
  <2>1. \A i, j \in DOMAIN inbox' :
          i # j /\ inbox'[i].last /\ inbox'[j].last => inbox'[i].of # inbox'[j].of
    BY <1>3 DEF OnceInv, EndedOnce
  <2>2. \A j \in DOMAIN inbox', d \in Callers :
          inbox'[j].last /\ call'[d].pc = "done" => call'[d].of # inbox'[j].of
    BY <1>1, <1>2, <1>4 DEF OnceInv, EndedOnce
  <2> QED BY <2>1, <2>2 DEF EndedOnce
<1>8. AnswerTakenOnce'
  BY <1>1 DEF OnceInv, AnswerTakenOnce
<1> QED BY <1>6, <1>7, <1>8

LEMMA ReadSomeDrops ==
  ASSUME NEW c \in Callers, ReadSome(c)
  PROVE  \E k \in Nat : inbox' = SubSeq(inbox, k + 2, Len(inbox))
<1>1. 0..Surplus \subseteq Nat
  BY ConnectionAssumption
<1>2. \E k \in 0..Surplus : inbox' = SubSeq(inbox, k + 2, Len(inbox))
  BY DEF ReadSome, Rest
<1> QED BY <1>1, <1>2

(* A read that continues a response.  The part read names a request that   *)
(* is no longer on the wire and that nobody is about to write.             *)
LEMMA ContinueOnce ==
  ASSUME OnceInv, NEW c \in Callers, ReadSome(c), Continues(c, Head(inbox))
  PROVE  WrittenOnce' /\ EndedOnce' /\ AnswerTakenOnce'
<1> DEFINE seg == Head(inbox)
<1>1. /\ inbox \in Seq(Part) /\ inbox # <<>>
      /\ wire' = wire /\ call[c].pc = "reading"
  BY DEF OnceInv, TypeOK, ReadSome
<1>2. 1 \in DOMAIN inbox /\ seg = inbox[1]
  BY <1>1, TailElements
<1>3. PICK k \in Nat : inbox' = SubSeq(inbox, k + 2, Len(inbox))
  BY ReadSomeDrops
<1>4. \A j \in DOMAIN inbox' :
        /\ j \in Nat /\ j # 0 /\ j + k + 1 \in DOMAIN inbox /\ j + k + 1 # 1
        /\ inbox'[j] = inbox[j + k + 1]
  BY <1>1, <1>3, RestElements
<1>5. \A i, j \in DOMAIN inbox' : i # j =>
         \E l, m \in DOMAIN inbox : l # m /\ inbox'[i] = inbox[l] /\ inbox'[j] = inbox[m]
  <2> TAKE i, j \in DOMAIN inbox'
  <2> HAVE i # j
  <2>1. i + k + 1 # j + k + 1
    BY <1>4
  <2> QED BY <2>1, <1>4
<1>6. /\ \A d \in Callers : d # c => call'[d] = call[d]
      /\ call'[c].of = seg.of /\ call'[c].req = call[c].req
      /\ call'[c].pc # "writing"
      /\ call'[c].pc = "done" => seg.last
  <2>1. CASE seg.last
    <3>1. Finish(c, seg.of, ProcessResponse(seg.answer))
      BY <2>1 DEF ReadSome
    <3> QED BY <2>1, <3>1 DEF Finish, OnceInv, TypeOK, Call
  <2>2. CASE ~seg.last
    <3>1. call' = [call EXCEPT ![c] = [@ EXCEPT !.of = seg.of,
                                               !.got = seg.part]]
      BY <2>2 DEF ReadSome
    <3> QED BY <3>1, <1>1 DEF OnceInv, TypeOK, Call
  <2> QED BY <2>1, <2>2
<1>7. \A i \in DOMAIN wire : seg.of # wire[i]
  BY <1>2 DEF OnceInv, WrittenOnce
<1>8. \A d \in Callers : call'[d].pc = "writing" => Untraced(d)'
  <2> TAKE d \in Callers
  <2> HAVE call'[d].pc = "writing"
  <2>1. d # c /\ Untraced(d) /\ call'[d] = call[d]
    BY <1>6 DEF OnceInv, WrittenOnce
  <2>2. seg.of # call[d].req
    BY <2>1, <1>2 DEF Untraced
  <2>3. \A j \in DOMAIN inbox' : inbox'[j].of # call'[d].req
    BY <2>1, <1>4 DEF Untraced
  <2>4. \A e \in Callers : call'[e].of # call'[d].req
    BY <2>1, <2>2, <1>6 DEF Untraced
  <2>5. \A e \in Callers : e # d => call'[e].req # call'[d].req
    BY <2>1, <1>6 DEF Untraced
  <2> QED BY <2>1, <2>3, <2>4, <2>5, <1>1 DEF Untraced
<1>9. WrittenOnce'
  BY <1>1, <1>4, <1>6, <1>7, <1>8 DEF OnceInv, WrittenOnce
<1>10. EndedOnce'
  <2>1. \A i, j \in DOMAIN inbox' :
          i # j /\ inbox'[i].last /\ inbox'[j].last => inbox'[i].of # inbox'[j].of
    BY <1>5 DEF OnceInv, EndedOnce
  <2>2. \A j \in DOMAIN inbox', d \in Callers :
          inbox'[j].last /\ call'[d].pc = "done" => call'[d].of # inbox'[j].of
    BY <1>2, <1>4, <1>6 DEF OnceInv, EndedOnce
  <2> QED BY <2>1, <2>2 DEF EndedOnce
<1>11. AnswerTakenOnce'
  BY <1>2, <1>6 DEF OnceInv, EndedOnce, AnswerTakenOnce
<1> QED BY <1>9, <1>10, <1>11

LEMMA TakeOnce ==
  ASSUME OnceInv, NEW c \in Callers, Take(c)
  PROVE  WrittenOnce' /\ EndedOnce' /\ AnswerTakenOnce'
<1>1. /\ call'[c] = Idle /\ \A d \in Callers : d # c => call'[d] = call[d]
      /\ wire' = wire /\ inbox' = inbox
  BY Others DEF Take, OnceInv
<1>2. /\ call'[c].pc = "idle" /\ call'[c].req = None /\ call'[c].of = None
  BY <1>1 DEF Idle
<1>3. /\ \A i \in DOMAIN wire : wire[i] # None
      /\ \A d \in Callers : call[d].pc # "idle" => call[d].req # None
  <2>1. \A i \in DOMAIN wire : wire[i] \in Requests
    BY DEF OnceInv, TypeOK
  <2> QED BY <2>1, ConnectionAssumption DEF OnceInv, Asked
<1>4. \A d \in Callers : call'[d].pc = "writing" => Untraced(d)'
  <2> TAKE d \in Callers
  <2> HAVE call'[d].pc = "writing"
  <2>1. d # c /\ Untraced(d) /\ call'[d] = call[d] /\ call[d].req # None
    BY <1>1, <1>2, <1>3 DEF OnceInv, WrittenOnce
  <2> QED BY <2>1, <1>1, <1>2 DEF Untraced
<1>5. WrittenOnce'
  BY <1>1, <1>2, <1>3, <1>4 DEF OnceInv, WrittenOnce
<1>6. EndedOnce' /\ AnswerTakenOnce'
  BY <1>1, <1>2 DEF OnceInv, EndedOnce, AnswerTakenOnce
<1> QED BY <1>5, <1>6

(* A response put on the stream is told from those before it by its        *)
(* request, and only one of its parts ends it.                             *)
LEMMA AnswerOnce ==
  ASSUME OnceInv, NEW a \in Values \cup {Refused, Malformed}, Answer(a)
  PROVE  WrittenOnce' /\ EndedOnce' /\ AnswerTakenOnce'
<1> DEFINE h == Head(wire)
<1>1. /\ wire \in Seq(Requests) /\ wire # <<>> /\ wire' = Tail(wire)
      /\ inbox \in Seq(Part) /\ call' = call
  BY DEF OnceInv, TypeOK, Answer
<1>2. 1 \in DOMAIN wire /\ h = wire[1] /\ h \in Requests
  BY <1>1, TailElements
<1>3. \A i \in DOMAIN wire' : i \in Nat /\ i # 0 /\ i + 1 \in DOMAIN wire
                            /\ wire'[i] = wire[i + 1]
  BY <1>1, TailElements
<1>4. \A i \in DOMAIN wire' : \E k \in DOMAIN wire : k # 1 /\ wire'[i] = wire[k]
  BY <1>3
<1>5. \A i, j \in DOMAIN wire' : i # j => wire'[i] # wire'[j]
  <2> TAKE i, j \in DOMAIN wire'
  <2> HAVE i # j
  <2>1. i + 1 \in DOMAIN wire /\ j + 1 \in DOMAIN wire /\ i + 1 # j + 1
    BY <1>3
  <2> QED BY <2>1, <1>3 DEF OnceInv, WrittenOnce
<1>6. /\ \A j \in DOMAIN inbox' : \/ j \in DOMAIN inbox /\ inbox'[j] = inbox[j]
                                  \/ j \notin DOMAIN inbox /\ inbox'[j].of = h
      /\ \A i, j \in DOMAIN inbox' :
           /\ i \notin DOMAIN inbox /\ j \notin DOMAIN inbox
           /\ inbox'[i].last /\ inbox'[j].last
           => i = j
  <2>1. CASE link # "open"
    BY <2>1 DEF Answer
  <2>2. CASE link = "open"
    <3>1. PICK n \in 1..MaxParts : inbox' = inbox \o Parts(h, a, n)
      BY <2>2 DEF Answer
    <3>2. n \in Nat
      BY ConnectionAssumption
    <3> DEFINE m == Len(inbox)
               P == Parts(h, a, n)
    <3>3. P \in Seq(Part) /\ Len(P) = n
      BY <1>2, <3>2, PartsType DEF Parts
    <3>4. \A k \in 1..n : P[k].of = h /\ P[k].last = (k = n)
      BY DEF Parts
    <3> HIDE DEF P
    <3>5. /\ m \in Nat /\ DOMAIN inbox = 1..m /\ DOMAIN inbox' = 1..(m + n)
          /\ \A j \in 1..m : inbox'[j] = inbox[j]
          /\ \A j \in 1..(m + n) : j \notin 1..m =>
                j - m \in 1..n /\ inbox'[j] = P[j - m]
      <4>1. inbox' = inbox \o P
        BY <3>1 DEF P
      <4>2. /\ Len(inbox) \in Nat /\ DOMAIN inbox = 1..Len(inbox)
            /\ DOMAIN (inbox \o P) = 1..(Len(inbox) + Len(P))
            /\ \A j \in 1..Len(inbox) : (inbox \o P)[j] = inbox[j]
            /\ \A j \in 1..(Len(inbox) + Len(P)) : j \notin 1..Len(inbox) =>
                  /\ j - Len(inbox) \in 1..Len(P)
                  /\ (inbox \o P)[j] = P[j - Len(inbox)]
        BY <1>1, <3>3, JoinedElements
      <4> QED BY <3>3, <4>1, <4>2
    <3> HIDE DEF m
    <3>6. \A j \in DOMAIN inbox' : \/ j \in DOMAIN inbox /\ inbox'[j] = inbox[j]
                                   \/ j \notin DOMAIN inbox /\ inbox'[j].of = h
      BY <3>4, <3>5
    <3>7. \A j \in DOMAIN inbox' :
            j \notin DOMAIN inbox /\ inbox'[j].last => j = m + n
      <4> TAKE j \in DOMAIN inbox'
      <4> HAVE j \notin DOMAIN inbox /\ inbox'[j].last
      <4>1. j \in 1..(m + n) /\ j - m \in 1..n /\ P[j - m].last
        BY <3>5
      <4>2. j - m = n
        BY <4>1, <3>4
      <4> QED BY <3>2, <3>5, <4>1, <4>2
    <3> QED BY <3>6, <3>7
  <2> QED BY <2>1, <2>2
<1>7. /\ \A j \in DOMAIN inbox : inbox[j].of # h
      /\ \A d \in Callers : call[d].of # h
      /\ \A i \in DOMAIN wire' : wire'[i] # h
  BY <1>2, <1>4 DEF OnceInv, WrittenOnce
<1>8. \A d \in Callers : call'[d].pc = "writing" => Untraced(d)'
  <2> TAKE d \in Callers
  <2> HAVE call'[d].pc = "writing"
  <2>1. Untraced(d)
    BY <1>1 DEF OnceInv, WrittenOnce
  <2>2. h # call[d].req
    BY <2>1, <1>2 DEF Untraced
  <2> QED BY <2>1, <2>2, <1>1, <1>4, <1>6 DEF Untraced
<1>9. WrittenOnce'
  <2>1. \A i \in DOMAIN wire', j \in DOMAIN inbox' : inbox'[j].of # wire'[i]
    BY <1>4, <1>6, <1>7 DEF OnceInv, WrittenOnce
  <2>2. \A i \in DOMAIN wire', d \in Callers : call'[d].of # wire'[i]
    BY <1>1, <1>4 DEF OnceInv, WrittenOnce
  <2> QED BY <1>5, <1>8, <2>1, <2>2 DEF WrittenOnce
<1>10. EndedOnce'
  <2>1. \A i, j \in DOMAIN inbox' :
          i # j /\ inbox'[i].last /\ inbox'[j].last => inbox'[i].of # inbox'[j].of
    BY <1>6, <1>7 DEF OnceInv, EndedOnce
  <2>2. \A j \in DOMAIN inbox', d \in Callers :
          inbox'[j].last /\ call'[d].pc = "done" => call'[d].of # inbox'[j].of
    BY <1>1, <1>6, <1>7 DEF OnceInv, EndedOnce
  <2> QED BY <2>1, <2>2 DEF EndedOnce
<1>11. AnswerTakenOnce'
  BY <1>1 DEF OnceInv, AnswerTakenOnce
<1> QED BY <1>9, <1>10, <1>11

LEMMA CallerOnce ==
  ASSUME OnceInv, NEW c \in Callers,
         \/ \E r \in Requests : Request(c, r)
         \/ Written(c) \/ StreamFails(c) \/ ReadSome(c) \/ Take(c)
  PROVE  WrittenOnce' /\ EndedOnce' /\ AnswerTakenOnce'
<1>1. CASE \E r \in Requests : Request(c, r)
  BY <1>1, RequestOnce
<1>2. CASE Written(c)
  BY <1>2, WrittenStepOnce
<1>3. CASE StreamFails(c)
  <2>1. /\ call[c].pc # "idle" /\ Finish(c, None, Failed)
        /\ UNCHANGED wire /\ UNCHANGED inbox
    BY <1>3 DEF StreamFails, Outstanding
  <2> QED BY <2>1, FailOnce
<1>4. CASE ReadSome(c)
  <2>1. CASE Continues(c, Head(inbox))
    BY <1>4, <2>1, ContinueOnce
  <2>2. CASE ~Continues(c, Head(inbox))
    <3>1. /\ call[c].pc # "idle" /\ Finish(c, None, Failed) /\ UNCHANGED wire
      BY <1>4, <2>2 DEF ReadSome, BadPart
    <3>2. \E k \in Nat : inbox' = SubSeq(inbox, k + 2, Len(inbox))
      BY <1>4, ReadSomeDrops
    <3> QED BY <3>1, <3>2, FailOnce
  <2> QED BY <2>1, <2>2
<1>5. CASE Take(c)
  BY <1>5, TakeOnce
<1> QED BY <1>1, <1>2, <1>3, <1>4, <1>5

(* async_request consumes what it reads: whatever the callers, however     *)
(* their reads interleave and in however many parts responses travel, no   *)
(* response completes two operations.                                      *)
THEOREM ResponsesTakenOnce == Spec => []AnswerTakenOnce
<1>1. Init => OnceInv
  <2> SUFFICES ASSUME Init PROVE OnceInv
    OBVIOUS
  <2>1. TypeOK /\ Asked
    BY InitType DEF Init, Asked, Idle
  <2>2. /\ DOMAIN wire = {} /\ DOMAIN inbox = {}
        /\ \A c \in Callers : call[c].pc = "idle" /\ call[c].of = None
    BY DEF Init, Idle
  <2> QED BY <2>1, <2>2 DEF OnceInv, WrittenOnce, EndedOnce, AnswerTakenOnce
<1>2. OnceInv /\ [Next]_connVars => OnceInv'
  <2> SUFFICES ASSUME OnceInv, [Next]_connVars PROVE OnceInv'
    OBVIOUS
  <2>1. CASE LinkStep
    <3>1. UNCHANGED <<call, wire, inbox>>
      BY <2>1, LinkStays
    <3>2. TypeOK'
      BY <2>1, LinkType DEF OnceInv
    <3> QED BY <3>1, <3>2 DEF OnceInv, Asked, WrittenOnce, EndedOnce, Untraced,
                              AnswerTakenOnce
  <2>2. CASE \E c \in Callers : \/ \E r \in Requests : Request(c, r)
                                \/ Written(c) \/ StreamFails(c)
                                \/ ReadSome(c) \/ Take(c)
    <3>1. TypeOK' /\ Asked'
      BY <2>2, CallerStep DEF OnceInv
    <3>2. WrittenOnce' /\ EndedOnce' /\ AnswerTakenOnce'
      BY <2>2, CallerOnce
    <3> QED BY <3>1, <3>2 DEF OnceInv
  <2>3. CASE \E a \in Values \cup {Refused, Malformed} : Answer(a)
    <3>1. TypeOK'
      BY <2>3, AnswerType DEF OnceInv
    <3>2. Asked'
      BY <2>3 DEF Answer, OnceInv, Asked
    <3>3. WrittenOnce' /\ EndedOnce' /\ AnswerTakenOnce'
      BY <2>3, AnswerOnce
    <3> QED BY <3>1, <3>2, <3>3 DEF OnceInv
  <2>4. CASE UNCHANGED connVars
    <3>1. TypeOK'
      BY <2>4 DEF OnceInv, connVars, TypeOK
    <3> QED BY <2>4, <3>1 DEF OnceInv, connVars, Asked, WrittenOnce, EndedOnce,
                              Untraced, AnswerTakenOnce
  <2> QED BY <2>1, <2>2, <2>3, <2>4 DEF Next, LinkStep
<1>3. OnceInv => AnswerTakenOnce
  BY DEF OnceInv
<1> QED BY <1>1, <1>2, <1>3, PTL DEF Spec

-----------------------------------------------------------------------------
(* No reader is left waiting for nothing, as long as no end of a response  *)
(* was thrown away: there are at least as many ends to come as operations  *)
(* reading.                                                                *)
(*                                                                         *)
(* A reader ends with every end of a response that goes from the inbox, by *)
(* success or by a failure to parse it, and a failure in the middle ends a *)
(* reader and no response; so the balance can only improve.  The proof is  *)
(* the arithmetic of that: what each step does to the number of readers    *)
(* and of ends.  Before the stream is open there are neither.              *)

Ends(s) == {i \in DOMAIN s : s[i].last}

Unopened == {"closed", "resolved", "connected"}

Balance ==
  /\ TypeOK /\ Asked
  /\ IsFiniteSet(ReadersWaiting)
  /\ link \in Unopened => ReadersWaiting = {}
  /\ NoReaderStranded

-----------------------------------------------------------------------------
(* How many ends a queue holds. *)

LEMMA EndsFinite ==
  ASSUME NEW s \in Seq(Part)
  PROVE  IsFiniteSet(Ends(s)) /\ Cardinality(Ends(s)) \in Nat
<1>1. Len(s) \in Nat /\ DOMAIN s = 1..Len(s)
  OBVIOUS
<1>2. IsFiniteSet(1..Len(s))
  BY <1>1, FS_Interval
<1>3. Ends(s) \in SUBSET (1..Len(s))
  BY <1>1 DEF Ends
<1> QED BY <1>2, <1>3, FS_Subset, FS_CardinalityType

(* A response adds an end. *)
LEMMA EndsJoined ==
  ASSUME NEW s \in Seq(Part), NEW r \in Requests, NEW n \in 1..MaxParts,
         NEW a \in Values \cup {Refused, Malformed}
  PROVE  Cardinality(Ends(s \o Parts(r, a, n))) >= Cardinality(Ends(s)) + 1
<1> DEFINE t == Parts(r, a, n)
           u == s \o t
           e == Len(s) + n
<1>1. t \in Seq(Part) /\ n \in Nat /\ n >= 1
  BY PartsType, ConnectionAssumption
<1>2. Len(t) = n /\ t[n].last
  <2>1. n \in 1..n /\ Len(t) = n
    BY <1>1 DEF Parts
  <2>2. t[n] = [of |-> r, part |-> n, last |-> (n = n), answer |-> a]
    BY <2>1 DEF Parts
  <2> HIDE DEF t
  <2>3. t[n].last = (n = n)
    BY <2>2
  <2> QED BY <2>1, <2>3
<1> HIDE DEF t
<1>3. /\ Len(s) \in Nat /\ DOMAIN s = 1..Len(s)
      /\ DOMAIN u = 1..e
      /\ \A j \in 1..Len(s) : u[j] = s[j]
      /\ \A j \in 1..e : j \notin 1..Len(s) => u[j] = t[j - Len(s)]
  BY <1>1, <1>2, JoinedElements
<1>4. u \in Seq(Part)
  BY <1>1
<1>5. e \in DOMAIN u /\ e \notin DOMAIN s
  BY <1>1, <1>3
<1>6. u[e] = t[n]
  BY <1>1, <1>3
<1>7. Ends(s) \cup {e} \in SUBSET Ends(u)
  <2>1. e \in Ends(u)
    BY <1>2, <1>5, <1>6 DEF Ends
  <2>2. \A i \in Ends(s) : i \in DOMAIN u /\ u[i] = s[i]
    BY <1>1, <1>3 DEF Ends
  <2>3. \A i \in Ends(s) : i \in Ends(u)
    BY <2>2 DEF Ends
  <2> QED BY <2>1, <2>3
<1>8. e \notin Ends(s)
  BY <1>5 DEF Ends
<1> HIDE DEF u, e
<1>9. Cardinality(Ends(s) \cup {e}) = Cardinality(Ends(s)) + 1
  BY <1>8, EndsFinite, FS_AddElement
<1>10. Cardinality(Ends(s) \cup {e}) <= Cardinality(Ends(u))
  BY <1>4, <1>7, EndsFinite, FS_Subset
<1> QED BY <1>9, <1>10, EndsFinite, <1>4 DEF u, t

LEMMA RestLength ==
  ASSUME NEW S, NEW s \in Seq(S), NEW k \in Nat, k + 2 <= Len(s)
  PROVE  /\ Len(SubSeq(s, k + 2, Len(s))) = Len(s) - (k + 1)
         /\ DOMAIN SubSeq(s, k + 2, Len(s)) = 1..(Len(s) - (k + 1))
OBVIOUS

(* A read that throws no end away takes at most the one at the head. *)
LEMMA EndsDropped ==
  ASSUME NEW s \in Seq(Part), s # <<>>, NEW k \in Nat,
         \A i \in 1..k : ~s[i + 1].last
  PROVE  /\ Cardinality(Ends(s)) <= Cardinality(Ends(SubSeq(s, k + 2, Len(s)))) + 1
         /\ ~s[1].last =>
              Cardinality(Ends(s)) <= Cardinality(Ends(SubSeq(s, k + 2, Len(s))))
<1> DEFINE t == SubSeq(s, k + 2, Len(s))
           A == Ends(s) \ {1}
           f == [i \in A |-> i - (k + 1)]
<1>1. t \in Seq(Part) /\ Len(s) \in Nat /\ DOMAIN s = 1..Len(s)
  OBVIOUS
<1>2. \A i \in A : /\ i \in Nat /\ i - (k + 1) \in DOMAIN t
                   /\ t[i - (k + 1)] = s[i]
  <2> TAKE i \in A
  <2>1. i \in 1..Len(s) /\ i # 1 /\ s[i].last
    BY <1>1 DEF Ends
  <2>2. i > k + 1
    <3> SUFFICES ASSUME i <= k + 1 PROVE FALSE
      BY <2>1
    <3>1. i - 1 \in 1..k /\ (i - 1) + 1 = i
      BY <2>1
    <3> QED BY <2>1, <3>1
  <2>3. DOMAIN t = 1..(Len(s) - (k + 1))
    BY <2>1, <2>2, <1>1, RestLength
  <2> DEFINE j == i - (k + 1)
  <2>4. j \in DOMAIN t /\ j + k + 1 = i
    BY <2>1, <2>2, <2>3, <1>1
  <2>5. t[j] = s[j + k + 1]
    BY <2>4, RestElements
  <2> HIDE DEF t
  <2> QED BY <2>1, <2>4, <2>5
<1> HIDE DEF t
<1>3. f \in Injection(A, Ends(t))
  <2>1. \A i \in A : i - (k + 1) \in Ends(t)
    BY <1>2 DEF Ends
  <2>2. f \in [A -> Ends(t)]
    BY <2>1
  <2>3. \A i, j \in A : f[i] = f[j] => i = j
    BY <1>2
  <2> QED BY <2>2, <2>3 DEF Injection, IsInjective
<1>4. Cardinality(A) <= Cardinality(Ends(t))
  BY <1>1, <1>3, EndsFinite, FS_Injection
<1>5. Cardinality(A) = IF 1 \in Ends(s) THEN Cardinality(Ends(s)) - 1
                                        ELSE Cardinality(Ends(s))
  BY EndsFinite, FS_RemoveElement
<1>6. 1 \in Ends(s) => s[1].last
  BY DEF Ends
<1> HIDE DEF A
<1>7. Cardinality(Ends(s)) <= Cardinality(Ends(t)) + 1
  BY <1>1, <1>4, <1>5, EndsFinite
<1>8. 1 \notin Ends(s) => Cardinality(Ends(s)) <= Cardinality(Ends(t))
  BY <1>4, <1>5
<1> QED BY <1>6, <1>7, <1>8 DEF t

-----------------------------------------------------------------------------
(* What a step does to the readers. *)

LEMMA CallsStay ==
  ASSUME TypeOK, NEW c \in Callers, NEW v, call' = [call EXCEPT ![c] = v]
  PROVE  call'[c] = v /\ \A d \in Callers : d # c => call'[d] = call[d]
BY DEF TypeOK

LEMMA ReadersStay ==
  ASSUME NEW c \in Callers, \A d \in Callers : d # c => call'[d] = call[d],
         call[c].pc # "reading", call'[c].pc # "reading"
  PROVE  ReadersWaiting' = ReadersWaiting
BY DEF ReadersWaiting

LEMMA FinishEnds ==
  ASSUME TypeOK, NEW c \in Callers, NEW of, NEW res, Finish(c, of, res)
  PROVE  call'[c].pc = "done" /\ \A d \in Callers : d # c => call'[d] = call[d]
BY DEF TypeOK, Finish, Call

(* A caller that stops reading. *)
LEMMA ReaderLeaves ==
  ASSUME NEW c \in Callers, \A d \in Callers : d # c => call'[d] = call[d],
         IsFiniteSet(ReadersWaiting), call'[c].pc # "reading"
  PROVE  /\ ReadersWaiting' \subseteq ReadersWaiting
         /\ IsFiniteSet(ReadersWaiting')
         /\ call[c].pc = "reading" =>
              Cardinality(ReadersWaiting') = Cardinality(ReadersWaiting) - 1
<1>1. ReadersWaiting' = ReadersWaiting \ {c}
  BY DEF ReadersWaiting
<1>2. call[c].pc = "reading" => c \in ReadersWaiting
  BY DEF ReadersWaiting
<1> QED BY <1>1, <1>2, FS_RemoveElement

(* EndsToCome is the length of the wire and the ends in the inbox. *)
LEMMA EndsToComeIs ==
  ASSUME TypeOK
  PROVE  /\ EndsToCome = Len(wire) + Cardinality(Ends(inbox))
         /\ Len(wire) \in Nat /\ Cardinality(Ends(inbox)) \in Nat
<1>1. inbox \in Seq(Part) /\ wire \in Seq(Requests)
  BY DEF TypeOK
<1>2. EndsToCome = Len(wire) + Cardinality(Ends(inbox))
  BY DEF EndsToCome, Ends
<1>3. Len(wire) \in Nat
  BY <1>1
<1> QED BY <1>1, <1>2, <1>3, EndsFinite

-----------------------------------------------------------------------------
LEMMA LinkBalance ==
  ASSUME Balance, LinkStep
  PROVE  Balance'
<1>1. UNCHANGED <<call, wire, inbox, spilt>>
  BY LinkStays
<1>2. TypeOK' /\ Asked'
  BY <1>1, LinkType DEF Balance, Asked
<1>3. ReadersWaiting' = ReadersWaiting /\ EndsToCome' = EndsToCome
  BY <1>1 DEF ReadersWaiting, EndsToCome
<1>4. link' \in Unopened => ReadersWaiting' = {}
  BY <1>3 DEF Balance, Unopened, LinkStep, Resolve, TcpConnect, Handshake, ConnectFails,
              LinkLost, LinkSilent, Noticed
<1>5. NoReaderStranded'
  <2>1. CASE Handshake
    <3>1. Cardinality(ReadersWaiting) = 0
      BY <2>1, FS_EmptySet DEF Balance, Handshake, Unopened
    <3> QED BY <1>3, <3>1, EndsToComeIs DEF NoReaderStranded, Balance
  <2>2. CASE ~Handshake
    BY <2>2 DEF NoReaderStranded, LinkStep, Resolve, TcpConnect, ConnectFails, LinkLost,
                LinkSilent, Noticed
  <2> QED BY <2>1, <2>2
<1> QED BY <1>2, <1>3, <1>4, <1>5 DEF Balance

(* Steps of an operation before it reads and after it has ended. *)
LEMMA OutsideBalance ==
  ASSUME Balance, TypeOK', Asked', NEW c \in Callers,
         \A d \in Callers : d # c => call'[d] = call[d],
         call[c].pc # "reading", call'[c].pc # "reading",
         UNCHANGED <<link, wire, inbox, spilt>>
  PROVE  Balance'
<1>1. ReadersWaiting' = ReadersWaiting
  BY ReadersStay
<1> QED BY <1>1 DEF Balance, NoReaderStranded, EndsToCome

LEMMA WrittenBalance ==
  ASSUME Balance, TypeOK', Asked', NEW c \in Callers, Written(c)
  PROVE  Balance'
<1>1. /\ call[c].pc = "writing" /\ link \in {"open", "silent"}
      /\ UNCHANGED <<link, inbox, spilt>>
      /\ wire' = Append(wire, call[c].req) \/ link = "silent"
      /\ \A d \in Callers : d # c => call'[d] = call[d]
      /\ call'[c].pc = "reading"
  BY DEF Written, Balance, TypeOK, Call
<1>2. ReadersWaiting' = ReadersWaiting \cup {c} /\ c \notin ReadersWaiting
  BY <1>1 DEF ReadersWaiting
<1>3. /\ IsFiniteSet(ReadersWaiting')
      /\ Cardinality(ReadersWaiting') = Cardinality(ReadersWaiting) + 1
      /\ Cardinality(ReadersWaiting) \in Nat
  BY <1>2, FS_AddElement, FS_CardinalityType DEF Balance
<1>4. CASE link = "open"
  <2>1. Len(wire') = Len(wire) + 1
    BY <1>1, <1>4 DEF Balance, TypeOK
  <2>2. EndsToCome' = Len(wire') + Cardinality(Ends(inbox))
    BY <1>1 DEF EndsToCome, Ends
  <2>3. /\ EndsToCome = Len(wire) + Cardinality(Ends(inbox))
        /\ Len(wire) \in Nat /\ Cardinality(Ends(inbox)) \in Nat
    BY EndsToComeIs DEF Balance
  <2>4. EndsToCome' = EndsToCome + 1 /\ EndsToCome \in Nat
    BY <2>1, <2>2, <2>3
  <2>5. NoReaderStranded'
    BY <1>1, <1>3, <1>4, <2>4 DEF Balance, NoReaderStranded
  <2> QED BY <1>1, <1>3, <2>5 DEF Balance, Unopened
<1>5. CASE link = "silent"
  <2>1. NoReaderStranded'
    BY <1>1, <1>5 DEF NoReaderStranded
  <2> QED BY <1>1, <1>3, <1>5, <2>1 DEF Balance, Unopened
<1> QED BY <1>1, <1>4, <1>5

LEMMA StreamFailsBalance ==
  ASSUME Balance, TypeOK', Asked', NEW c \in Callers, StreamFails(c)
  PROVE  Balance'
<1>1. /\ link # "open" /\ link' = link /\ call'[c].pc = "done"
      /\ \A d \in Callers : d # c => call'[d] = call[d]
  BY DEF StreamFails, Finish, Balance, TypeOK, Call
<1>2. ReadersWaiting' \subseteq ReadersWaiting /\ IsFiniteSet(ReadersWaiting')
  BY <1>1, ReaderLeaves DEF Balance
<1> QED BY <1>1, <1>2 DEF Balance, NoReaderStranded

LEMMA ReadSomeBalance ==
  ASSUME Balance, TypeOK', Asked', NEW c \in Callers, ReadSome(c)
  PROVE  Balance'
<1> DEFINE seg == Head(inbox)
<1>1. /\ call[c].pc = "reading" /\ UNCHANGED <<link, wire>>
      /\ inbox \in Seq(Part) /\ inbox # <<>>
  BY DEF ReadSome, Balance, TypeOK
<1>2. c \in ReadersWaiting /\ link \notin Unopened
  BY <1>1 DEF ReadersWaiting, Balance
<1>3. seg = inbox[1]
  BY <1>1, TailElements
(* The reader stays only if it took no end. *)
<1>4. /\ \A d \in Callers : d # c => call'[d] = call[d]
      /\ call'[c].pc = "done" \/ (call'[c].pc = "reading" /\ ~seg.last)
  <2>1. CASE ~Continues(c, seg)
    BY <2>1, FinishEnds DEF ReadSome, BadPart, Balance
  <2>2. CASE Continues(c, seg) /\ seg.last
    <3>1. Finish(c, seg.of, ProcessResponse(seg.answer))
      BY <2>2 DEF ReadSome
    <3> QED BY <3>1, FinishEnds DEF Balance
  <2>3. CASE Continues(c, seg) /\ ~seg.last
    BY <1>1, <2>3 DEF ReadSome, Balance, TypeOK, Call
  <2> QED BY <2>1, <2>2, <2>3
<1>5. IsFiniteSet(ReadersWaiting')
  <2>1. ReadersWaiting' \in SUBSET ReadersWaiting
    BY <1>2, <1>4 DEF ReadersWaiting
  <2> QED BY <2>1, FS_Subset DEF Balance
<1>6. NoReaderStranded'
  <2> SUFFICES ASSUME link = "open", ~spilt'
               PROVE  Cardinality(ReadersWaiting') <= EndsToCome'
    BY <1>1 DEF NoReaderStranded
  <2>1. PICK k \in Nat : /\ inbox' = SubSeq(inbox, k + 2, Len(inbox))
                         /\ \A i \in 1..k : ~inbox[i + 1].last
    <3>1. 0..Surplus \subseteq Nat
      BY ConnectionAssumption
    <3>2. \E k \in 0..Surplus : /\ inbox' = SubSeq(inbox, k + 2, Len(inbox))
                                /\ \A i \in 1..k : ~inbox[i + 1].last
      BY DEF ReadSome, Rest
    <3> QED BY <3>1, <3>2
  <2>2. ~spilt
    BY DEF ReadSome
  <2>3. /\ Cardinality(ReadersWaiting) <= EndsToCome
        /\ Cardinality(ReadersWaiting) \in Nat
    BY <2>2, FS_CardinalityType DEF Balance, NoReaderStranded
  <2>4. /\ EndsToCome = Len(wire) + Cardinality(Ends(inbox))
        /\ Len(wire) \in Nat /\ Cardinality(Ends(inbox)) \in Nat
    BY EndsToComeIs DEF Balance
  <2>5. /\ EndsToCome' = Len(wire) + Cardinality(Ends(inbox'))
        /\ Cardinality(Ends(inbox')) \in Nat
    <3>1. inbox' \in Seq(Part)
      BY DEF TypeOK
    <3> QED BY <1>1, <3>1, EndsFinite DEF EndsToCome, Ends
  <2>6. /\ Cardinality(Ends(inbox)) <= Cardinality(Ends(inbox')) + 1
        /\ ~seg.last => Cardinality(Ends(inbox)) <= Cardinality(Ends(inbox'))
    BY <1>1, <1>3, <2>1, EndsDropped
  <2>7. CASE call'[c].pc = "done"
    <3>1. Cardinality(ReadersWaiting') = Cardinality(ReadersWaiting) - 1
      BY <1>1, <1>4, <2>7, ReaderLeaves DEF Balance
    <3> QED BY <2>3, <2>4, <2>5, <2>6, <3>1
  <2>8. CASE call'[c].pc = "reading" /\ ~seg.last
    <3>1. ReadersWaiting' = ReadersWaiting
      BY <1>1, <1>4, <2>8 DEF ReadersWaiting
    <3> QED BY <2>3, <2>4, <2>5, <2>6, <2>8, <3>1
  <2> QED BY <1>4, <2>7, <2>8
<1> QED BY <1>1, <1>2, <1>5, <1>6 DEF Balance

LEMMA CallerBalance ==
  ASSUME Balance, NEW c \in Callers,
         \/ \E r \in Requests : Request(c, r)
         \/ Written(c) \/ StreamFails(c) \/ ReadSome(c) \/ Take(c)
  PROVE  Balance'
<1>1. TypeOK' /\ Asked'
  BY CallerStep DEF Balance
<1>2. CASE \E r \in Requests : Request(c, r)
  <2>1. PICK r \in Requests : Request(c, r)
    BY <1>2
  <2>2. /\ call[c].pc = "idle" /\ call'[c] = Writing(r)
        /\ \A d \in Callers : d # c => call'[d] = call[d]
        /\ UNCHANGED <<link, wire, inbox, spilt>>
    BY <2>1, CallsStay DEF Request, Balance
  <2>3. call'[c].pc = "writing"
    BY <2>2 DEF Writing
  <2> QED BY <1>1, <2>2, <2>3, OutsideBalance
<1>3. CASE Take(c)
  <2>1. /\ call[c].pc = "done" /\ call'[c] = Idle
        /\ \A d \in Callers : d # c => call'[d] = call[d]
        /\ UNCHANGED <<link, wire, inbox, spilt>>
    BY <1>3, CallsStay DEF Take, Balance
  <2>2. call'[c].pc = "idle"
    BY <2>1 DEF Idle
  <2> QED BY <1>1, <2>1, <2>2, OutsideBalance
<1>4. CASE Written(c) \/ StreamFails(c) \/ ReadSome(c)
  BY <1>1, <1>4, WrittenBalance, StreamFailsBalance, ReadSomeBalance
<1> QED BY <1>2, <1>3, <1>4

LEMMA AnswerBalance ==
  ASSUME Balance, NEW a \in Values \cup {Refused, Malformed}, Answer(a)
  PROVE  Balance'
<1>1. /\ wire # <<>> /\ wire' = Tail(wire) /\ UNCHANGED <<link, call, spilt>>
  BY DEF Answer
<1>2. TypeOK' /\ Asked'
  BY <1>1, AnswerType DEF Balance, Asked
<1>3. ReadersWaiting' = ReadersWaiting
  BY <1>1 DEF ReadersWaiting
<1>4. ASSUME link = "open" PROVE EndsToCome' >= EndsToCome
  <2>1. PICK n \in 1..MaxParts : inbox' = inbox \o Parts(Head(wire), a, n)
    BY <1>4 DEF Answer
  <2>2. /\ wire \in Seq(Requests) /\ inbox \in Seq(Part)
        /\ inbox' \in Seq(Part)
    BY <1>2 DEF Balance, TypeOK
  <2>3. Head(wire) \in Requests /\ Len(wire') = Len(wire) - 1
    BY <1>1, <2>2
  <2>4. Cardinality(Ends(inbox')) >= Cardinality(Ends(inbox)) + 1
    BY <2>1, <2>2, <2>3, EndsJoined
  <2>5. EndsToCome' = Len(wire') + Cardinality(Ends(inbox'))
    BY DEF EndsToCome, Ends
  <2>6. /\ EndsToCome = Len(wire) + Cardinality(Ends(inbox))
        /\ Len(wire) \in Nat /\ Cardinality(Ends(inbox)) \in Nat
    BY EndsToComeIs DEF Balance
  <2>7. Cardinality(Ends(inbox')) \in Nat
    BY <2>2, EndsFinite
  <2> QED BY <2>3, <2>4, <2>5, <2>6, <2>7
<1>5. NoReaderStranded'
  <2> SUFFICES ASSUME link = "open", ~spilt
               PROVE  Cardinality(ReadersWaiting') <= EndsToCome'
    BY <1>1 DEF NoReaderStranded
  <2>1. Cardinality(ReadersWaiting) <= EndsToCome
    BY DEF Balance, NoReaderStranded
  <2>2. Cardinality(ReadersWaiting) \in Nat
    BY FS_CardinalityType DEF Balance
  <2>3. EndsToCome \in Nat
    BY EndsToComeIs DEF Balance
  <2>4. EndsToCome' \in Nat
    <3>1. wire' \in Seq(Requests) /\ inbox' \in Seq(Part)
      BY <1>2 DEF TypeOK
    <3>2. EndsToCome' = Len(wire') + Cardinality(Ends(inbox'))
      BY DEF EndsToCome, Ends
    <3>3. Len(wire') \in Nat /\ Cardinality(Ends(inbox')) \in Nat
      BY <3>1, EndsFinite
    <3> QED BY <3>2, <3>3
  <2> QED BY <1>3, <1>4, <2>1, <2>2, <2>3, <2>4
<1> QED BY <1>1, <1>2, <1>3, <1>5 DEF Balance

(* While the stream is open and no end of a response was thrown away with  *)
(* another operation's buffer, every operation still reading has the end   *)
(* of a response to wait for, however responses are stolen and spoilt.     *)
THEOREM NoneStranded == Spec => []NoReaderStranded
<1>1. Init => Balance
  <2> SUFFICES ASSUME Init PROVE Balance
    OBVIOUS
  <2>1. TypeOK /\ Asked
    BY InitType DEF Init, Asked, Idle
  <2>2. ReadersWaiting = {} /\ link = "closed"
    BY DEF Init, Idle, ReadersWaiting
  <2> QED BY <2>1, <2>2, FS_EmptySet DEF Balance, NoReaderStranded
<1>2. Balance /\ [Next]_connVars => Balance'
  <2> SUFFICES ASSUME Balance, [Next]_connVars PROVE Balance'
    OBVIOUS
  <2>1. CASE LinkStep
    BY <2>1, LinkBalance
  <2>2. CASE \E c \in Callers : \/ \E r \in Requests : Request(c, r)
                                \/ Written(c) \/ StreamFails(c)
                                \/ ReadSome(c) \/ Take(c)
    BY <2>2, CallerBalance
  <2>3. CASE \E a \in Values \cup {Refused, Malformed} : Answer(a)
    BY <2>3, AnswerBalance
  <2>4. CASE UNCHANGED connVars
    <3>1. TypeOK' /\ Asked'
      BY <2>4 DEF Balance, connVars, TypeOK, Asked
    <3> QED BY <2>4, <3>1 DEF Balance, connVars, ReadersWaiting,
                              NoReaderStranded, EndsToCome
  <2> QED BY <2>1, <2>2, <2>3, <2>4 DEF Next, LinkStep
<1>3. Balance => NoReaderStranded
  BY DEF Balance
<1> QED BY <1>1, <1>2, <1>3, PTL DEF Spec
===============================================================================
