------------------------------ MODULE Connection ------------------------------
(***************************************************************************)
(* telegram::connection: one TLS stream to the bot API on which any number *)
(* of async_request operations may be outstanding at the same time.  The   *)
(* class has no queue and no lock: an operation writes its request and     *)
(* then reads from the stream until it has parsed one whole response.      *)
(*                                                                         *)
(* The far end answers requests in the order they were written (HTTP/1.1). *)
(* A response travels in one or more parts, and one part is what a single  *)
(* read of the stream returns; the read that gets the last part may return *)
(* what follows with it.  The buffer belongs to the operation, so what is  *)
(* left in it when a response is complete is lost.  The stream supports    *)
(* one outstanding read; with several it is left open which reader gets    *)
(* the next part.  A reader whose parser meets a part that does not        *)
(* continue what it has so far fails with an error code.                   *)
(*                                                                         *)
(* Nothing has a deadline: neither an expiry time nor a keepalive is ever  *)
(* set, so on a link that dies without a word a write still goes into the  *)
(* buffers of the kernel and a read waits.                                 *)
(***************************************************************************)
EXTENDS Naturals, Sequences, FiniteSets

CONSTANTS
  Callers,    \* the coroutines that may issue an async_request
  Requests,   \* request bodies; a request also names the operation asking it
  Values,     \* what the "result" member of an answer may hold
  Refused,    \* an answer with "ok" = false
  Malformed,  \* an answer process_response cannot take apart
  Failed,     \* completion with an error code
  None,
  MaxParts,   \* bound: parts a response may travel in
  Surplus     \* bound: parts a read returns after the end of a response

ASSUME ConnectionAssumption ==
  /\ None \notin Requests
  /\ Refused \notin Values \cup {Malformed, Failed, None}
  /\ Malformed \notin Values \cup {Failed, None}
  /\ Failed \notin Values \cup {None}
  /\ None \notin Values
  /\ MaxParts \in Nat \ {0} /\ Surplus \in Nat

VARIABLES
  link,    \* progress of async_connect, then the state of the stream
  call,    \* the operation each caller has outstanding
  wire,    \* requests written and not yet answered, oldest first
  inbox,   \* response parts sent and not yet read, oldest first
  orphans, \* requests written to the streams of earlier processes
  spilt    \* history: the end of a response was lost on this stream

connVars == <<link, call, wire, inbox, orphans, spilt>>

Links == {"closed", "resolved", "connected", "stalled", "open", "silent", "failed", "lost"}

(* The link has died without a word, in the handshake or after it. *)
Deaf == link \in {"stalled", "silent"}

Part == [of: Requests, part: 1..MaxParts, last: BOOLEAN,
         answer: Values \cup {Refused, Malformed}]

Call == [pc: {"idle", "writing", "reading", "done"}, req: Requests \cup {None},
         of: Requests \cup {None}, got: 0..MaxParts,
         res: Values \cup {Refused, Failed, None}]

TypeOK ==
  /\ link \in Links
  /\ call \in [Callers -> Call]
  /\ wire \in Seq(Requests)
  /\ inbox \in Seq(Part)
  /\ orphans \subseteq Requests
  /\ spilt \in BOOLEAN

Idle == [pc |-> "idle", req |-> None, of |-> None, got |-> 0, res |-> None]

Writing(r) ==
  [pc |-> "writing", req |-> r, of |-> None, got |-> 0, res |-> None]

Init ==
  /\ link = "closed"
  /\ call = [c \in Callers |-> Idle]
  /\ wire = <<>>
  /\ inbox = <<>>
  /\ orphans = {}
  /\ spilt = FALSE

(* Mutated: an error code is looked at after the write only. *)
OutstandingWrites == {c \in Callers : call[c].pc = "writing"}

Outstanding == {c \in Callers : call[c].pc \in {"writing", "reading"}}

-----------------------------------------------------------------------------
(* async_connect: resolve, connect, handshake; the first failure ends it.  *)

Resolve ==
  /\ link = "closed"
  /\ link' = "resolved"
  /\ UNCHANGED <<call, wire, inbox, orphans, spilt>>

TcpConnect ==
  /\ link = "resolved"
  /\ link' = "connected"
  /\ UNCHANGED <<call, wire, inbox, orphans, spilt>>

Handshake ==
  /\ link = "connected"
  /\ link' = "open"
  /\ UNCHANGED <<call, wire, inbox, orphans, spilt>>

ConnectFails ==
  /\ link \in {"closed", "resolved", "connected"}
  /\ link' = "failed"
  /\ UNCHANGED <<call, wire, inbox, orphans, spilt>>

(* The peer ends or resets the stream; nothing reconnects it. *)
LinkLost ==
  /\ link = "open"
  /\ link' = "lost"
  /\ UNCHANGED <<call, wire, inbox, orphans, spilt>>

(* The network stops carrying what is sent, and no end is told. *)
LinkSilent ==
  /\ \/ link = "connected" /\ link' = "stalled"
     \/ link = "open" /\ link' = "silent"
  /\ UNCHANGED <<call, wire, inbox, orphans, spilt>>

(* The kernel may give up on what is not acknowledged; where nothing was   *)
(* sent it has nothing to give up on.                                      *)
Noticed ==
  /\ \/ link = "stalled" /\ link' = "failed"
     \/ link = "silent" /\ link' = "lost"
  /\ UNCHANGED <<call, wire, inbox, orphans, spilt>>

-----------------------------------------------------------------------------
(* async_request. *)

OnStream(r) ==
  \/ \E i \in DOMAIN wire : wire[i] = r
  \/ \E i \in DOMAIN inbox : inbox[i].of = r
  \/ \E c \in Callers : r \in {call[c].req, call[c].of}

(* A request names its operation, so it is not used again while a trace of *)
(* its earlier use is left on the stream.                                  *)
Request(c, r) ==
  /\ call[c].pc = "idle"
  /\ ~OnStream(r)
  /\ call' = [call EXCEPT ![c] = Writing(r)]
  /\ UNCHANGED <<link, wire, inbox, orphans, spilt>>

(* A write that went well may have reached the far end of a silent link. *)
Written(c) ==
  /\ call[c].pc = "writing"
  /\ link \in {"open", "silent"}
  /\ call' = [call EXCEPT ![c] = [@ EXCEPT !.pc = "reading"]]
  /\ \/ wire' = Append(wire, call[c].req)
     \/ link = "silent" /\ wire' = wire
  /\ UNCHANGED <<link, inbox, orphans, spilt>>

Finish(c, of, res) ==
  call' = [call EXCEPT ![c] = [@ EXCEPT !.pc = "done", !.of = of, !.got = 0,
                                        !.res = res]]

(* The write, or the read that follows it, reports an error code. *)
StreamFails(c) ==
  /\ c \in Outstanding
  /\ link # "open" /\ ~Deaf
  /\ Finish(c, None, Failed)
  /\ UNCHANGED <<link, wire, inbox, orphans, spilt>>

(* Mutated: the exception is not turned into an error code. *)
ResponseUncaught(answer) == answer

(* process_response: the value, the error the API reports, or an exception *)
(* that async_request turns into an error code.                            *)
ProcessResponse(answer) == IF answer = Malformed THEN Failed ELSE answer

Continues(c, seg) ==
  IF call[c].got = 0 THEN seg.part = 1
                     ELSE seg.of = call[c].of /\ seg.part = call[c].got + 1

(* Mutated: the bytes of a response stay in the stream. *)
RestKept(k) == inbox

(* Mutated: the buffer is cleared after every read. *)
RestDropped(k) == <<>>

(* What is left of the stream when a read has taken k parts after the one  *)
(* it was after.                                                           *)
Rest(k) == SubSeq(inbox, k + 2, Len(inbox))

(* Mutated: the reader skips what it cannot parse and reads on. *)
SkipPart(c) == UNCHANGED call

(* The parser gives up. *)
BadPart(c) == Finish(c, None, Failed)

(* One read of the stream, and what the parser makes of the part it gets. *)
ReadSome(c) ==
  /\ call[c].pc = "reading"
  /\ inbox # <<>>
  /\ \E k \in 0..Surplus :
       /\ k > 0 => Head(inbox).last /\ k < Len(inbox)
       /\ inbox' = Rest(k)
       /\ spilt' = (spilt \/ \E i \in 1..k : inbox[i + 1].last)
  /\ LET seg == Head(inbox) IN
       \/ /\ ~Continues(c, seg)
          /\ BadPart(c)
       \/ /\ Continues(c, seg) /\ seg.last
          /\ Finish(c, seg.of, ProcessResponse(seg.answer))
       \/ /\ Continues(c, seg) /\ ~seg.last
          /\ call' = [call EXCEPT ![c] = [@ EXCEPT !.of = seg.of,
                                                  !.got = seg.part]]
  /\ UNCHANGED <<link, wire, orphans>>

(* The completion handler takes the result and the operation is gone. *)
Take(c) ==
  /\ call[c].pc = "done"
  /\ call' = [call EXCEPT ![c] = Idle]
  /\ UNCHANGED <<link, wire, inbox, orphans, spilt>>

-----------------------------------------------------------------------------
(* The far end. *)

Parts(r, answer, n) ==
  [i \in 1..n |-> [of |-> r, part |-> i, last |-> (i = n), answer |-> answer]]

(* The oldest request is answered; an answer to a lost stream goes nowhere. *)
Answer(answer) ==
  /\ wire # <<>>
  /\ wire' = Tail(wire)
  /\ \E n \in 1..MaxParts :
       inbox' = IF link = "open" THEN inbox \o Parts(Head(wire), answer, n)
                                 ELSE inbox
  /\ UNCHANGED <<link, call, orphans, spilt>>

(* The process ends and its stream with it: every operation is destroyed,  *)
(* while what was written may still reach the far end.                     *)
Reset ==
  /\ link' = "closed"
  /\ call' = [c \in Callers |-> Idle]
  /\ wire' = <<>>
  /\ inbox' = <<>>
  /\ orphans' = orphans \cup {wire[i] : i \in DOMAIN wire}
  /\ spilt' = FALSE

ServeOrphan(r) ==
  /\ r \in orphans
  /\ orphans' = orphans \ {r}
  /\ UNCHANGED <<link, call, wire, inbox, spilt>>

-----------------------------------------------------------------------------
(* The connection by itself: callers ask anything, at any time. *)

Next ==
  \/ Resolve \/ TcpConnect \/ Handshake \/ ConnectFails
  \/ LinkLost \/ LinkSilent \/ Noticed
  \/ \E c \in Callers : \/ \E r \in Requests : Request(c, r)
                        \/ Written(c) \/ StreamFails(c)
                        \/ ReadSome(c) \/ Take(c)
  \/ \E a \in Values \cup {Refused, Malformed} : Answer(a)

(* io_context runs every handler that is ready; the far end answers every  *)
(* request and delivers what it sent.  That a silent link is noticed is up *)
(* to the kernel.                                                          *)
Fairness ==
  /\ WF_connVars(\E a \in Values \cup {Refused, Malformed} : Answer(a))
  /\ \A c \in Callers : SF_connVars(ReadSome(c))
  /\ \A c \in Callers : WF_connVars(Written(c) \/ StreamFails(c))

Spec == Init /\ [][Next]_connVars

FairSpec == Spec /\ Fairness

-----------------------------------------------------------------------------
(* No two operations complete with the same response, however their reads  *)
(* interleave: the bytes of a response are consumed once.                  *)
AnswerTakenOnce ==
  \A c, d \in Callers :
    /\ c # d
    /\ call[c].pc = "done" /\ call[d].pc = "done"
    /\ call[c].of # None
    => call[c].of # call[d].of

(* What an operation gets is the answer to its own request.  Nothing in    *)
(* the class sees to that: it holds for a stream with a single caller.     *)
OwnAnswer ==
  \A c \in Callers :
    call[c].pc = "done" /\ call[c].res # Failed => call[c].of = call[c].req

ReadersWaiting == {c \in Callers : call[c].pc = "reading"}

(* Every operation still reading has the end of some response still to     *)
(* come: stolen and spoilt responses never leave a reader with nothing to  *)
(* wait for, unless the end of a response was thrown away with the buffer  *)
(* of another operation.                                                   *)
EndsToCome == Len(wire) + Cardinality({i \in DOMAIN inbox : inbox[i].last})

NoReaderStranded ==
  link = "open" /\ ~spilt => Cardinality(ReadersWaiting) <= EndsToCome

(* Every async_request completes, with whatever result, unless the link    *)
(* dies in silence and stays so, which nothing in the class puts an end    *)
(* to, or the end of a response is thrown away.                            *)
RequestCompletes ==
  []<>~Deaf =>
    \A c \in Callers : []<>(call[c].pc \notin {"writing", "reading"} \/ spilt)
===============================================================================
