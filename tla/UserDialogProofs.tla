---------------------------- MODULE UserDialogProofs ---------------------------
(***************************************************************************)
(* What dialogs that overlap on one database connection cannot do to each  *)
(* other, for any number of dialogs, users, rows and faults.               *)
(***************************************************************************)
EXTENDS UserDialog, TLAPS

(* Two operations are the same but for how far they are. *)
Alike(p, q) ==
  /\ p.pc # "none" <=> q.pc # "none"
  /\ p.op = q.op /\ p.id = q.id /\ p.val = q.val

(* An operation on the database is the one its dialog waits for. *)
Linked(d) ==
  /\ frame[d].pc # "none" => frame[d].user \in Users
  /\ query[d].pc # "none" <=> frame[d].pc \in {"get", "set"}
  /\ query[d].pc # "none" =>
       /\ query[d].op = frame[d].pc /\ query[d].id = frame[d].user
       /\ frame[d].pc = "set" => query[d].val = initial

IInv == TypeOK /\ \A d \in Dialogs : Linked(d)

-----------------------------------------------------------------------------
(* Markers, numbers and records. *)

LEMMA Basics ==
  /\ Ids \subseteq Nat /\ ColumnMax \in Nat /\ Stored \subseteq 0..ColumnMax \cup {Unfit}
  /\ Absent \notin Nat /\ Unfit \notin Nat /\ Unfit # Absent
  /\ Users \subseteq Ids /\ 0 \notin Users
  /\ MaxFaults \in Nat
BY UserDialogAssumption DEF Db!DatabaseAssumption

LEMMA DbConstants == Db!Ready = 9 /\ Db!Broken = 10 /\ DOMAIN Db!Statements = 1..8
BY DEF Db!Ready, Db!Broken, Db!Statements

Byte == 0..255

LEMMA QueryIs ==
  Db!Query = [pc: {"none", "sent", "done"}, op: {"get", "set", Absent},
              id: Ids \cup {Absent}, val: Byte \cup {Absent},
              spoilt: BOOLEAN, ec: BOOLEAN, res: Db!Values \cup {Absent}]
BY DEF Db!Query, Byte

LEMMA NoQueryType == Db!NoQuery \in Db!Query
BY DEF Db!NoQuery, Db!Query

LEMMA GetIssued ==
  ASSUME NEW u \in Users
  PROVE  /\ Db!Issued("get", u, Absent) \in Db!Query
         /\ Db!Issued("get", u, Absent).pc = "sent"
         /\ Db!Issued("get", u, Absent).op = "get"
         /\ Db!Issued("get", u, Absent).id = u
         /\ ~Db!Issued("get", u, Absent).spoilt
BY Basics DEF Db!Issued, Db!NoQuery, Db!Query

LEMMA SetIssued ==
  ASSUME NEW u \in Users
  PROVE  /\ Db!Issued("set", u, initial) \in Db!Query
         /\ Db!Issued("set", u, initial).pc = "sent"
         /\ Db!Issued("set", u, initial).op = "set"
         /\ Db!Issued("set", u, initial).id = u
         /\ Db!Issued("set", u, initial).val = initial
         /\ ~Db!Issued("set", u, initial).spoilt
<1>1. initial \in Byte
  BY DEF initial, Byte
<1>2. u \in Ids
  BY Basics
<1> QED BY <1>1, <1>2, QueryIs DEF Db!Issued, Db!NoQuery

LEMMA FinishedType ==
  ASSUME NEW q \in Db!Query, q.pc # "none",
         NEW ec \in BOOLEAN, NEW res \in Db!Values \cup {Absent}
  PROVE  /\ Db!Finished(q, ec, res) \in Db!Query
         /\ Alike(Db!Finished(q, ec, res), q)
         /\ Db!Finished(q, ec, res).pc = "done"
         /\ Db!Finished(q, ec, res).res = res
         /\ Db!Finished(q, ec, res).ec = ec
         /\ Db!Finished(q, ec, res).spoilt = q.spoilt
<1>1. Db!Finished(q, ec, res) \in Db!Query
  BY QueryIs DEF Db!Finished
<1>2. /\ Db!Finished(q, ec, res).pc = "done"
      /\ Db!Finished(q, ec, res).op = q.op /\ Db!Finished(q, ec, res).id = q.id
      /\ Db!Finished(q, ec, res).val = q.val
      /\ Db!Finished(q, ec, res).res = res
  BY QueryIs DEF Db!Finished
<1>3. Db!Finished(q, ec, res).ec = ec /\ Db!Finished(q, ec, res).spoilt = q.spoilt
  BY QueryIs DEF Db!Finished
<1> QED BY <1>1, <1>2, <1>3 DEF Alike

LEMMA SpoiltType ==
  ASSUME NEW q \in Db!Query
  PROVE  /\ [q EXCEPT !.spoilt = TRUE] \in Db!Query
         /\ Alike([q EXCEPT !.spoilt = TRUE], q)
<1>1. [q EXCEPT !.spoilt = TRUE] \in Db!Query
  BY QueryIs
<1>2. LET p == [q EXCEPT !.spoilt = TRUE] IN
        p.pc = q.pc /\ p.op = q.op /\ p.id = q.id /\ p.val = q.val
  BY QueryIs
<1> QED BY <1>1, <1>2 DEF Alike

-----------------------------------------------------------------------------
(* The operations of the database. *)

(* The operation of one dialog is put in place, those of the others are    *)
(* at most spoilt.                                                         *)
LEMMA Executed ==
  ASSUME query \in [Dialogs -> Db!Query],
         NEW c \in Dialogs, NEW q \in Db!Query, q.pc # "none", Db!Execute(c, q)
  PROVE  /\ query' \in [Dialogs -> Db!Query]
         /\ Alike(query'[c], q)
         /\ \A d \in Dialogs \ {c} : Alike(query'[d], query[d])
<1> DEFINE rejected == Db!Finished(q, TRUE, Absent)
<1> DEFINE wet(p) == [p EXCEPT !.spoilt = TRUE]
<1>1. rejected \in Db!Query /\ Alike(rejected, q)
  BY FinishedType
<1>2. \A p \in Db!Query : wet(p) \in Db!Query /\ Alike(wet(p), p)
  BY SpoiltType
<1>3. \A p \in Db!Query : Alike(p, p)
  BY DEF Alike
<1>4. \/ query' = [query EXCEPT ![c] = q]
      \/ query' = [query EXCEPT ![c] = rejected]
      \/ query' = [d \in Dialogs |-> IF d = c THEN wet(q)
                                     ELSE IF d \in Db!Outstanding THEN wet(query[d])
                                     ELSE query[d]]
  BY DEF Db!Execute
<1> HIDE DEF rejected, wet
<1> QED BY <1>1, <1>2, <1>3, <1>4

LEMMA ResultTaken ==
  ASSUME query \in [Dialogs -> Db!Query], NEW c \in Dialogs, Db!TakeResult(c)
  PROVE  /\ query' \in [Dialogs -> Db!Query]
         /\ query'[c].pc = "none" /\ ~query'[c].spoilt
         /\ \A d \in Dialogs \ {c} : query'[d] = query[d]
<1>1. Db!NoQuery.pc = "none" /\ ~Db!NoQuery.spoilt
  BY DEF Db!NoQuery
<1> QED BY <1>1, NoQueryType DEF Db!TakeResult

(* An answer changes how far its operation is; the row it may write is the *)
(* one of a user whose id is state::initial, for the two are bound in the  *)
(* wrong order.                                                            *)
LEMMA Answered ==
  ASSUME IInv, NEW c \in Dialogs, Query(c)
  PROVE  /\ query' \in [Dialogs -> Db!Query]
         /\ \A d \in Dialogs : Alike(query'[d], query[d])
         /\ query[c].pc = "sent" /\ query'[c].pc = "done"
         /\ \A d \in Dialogs \ {c} : query'[d] = query[d]
         /\ rows' \in [Ids -> Db!Values \cup {Absent}]
         /\ \A u \in Users : rows'[u] = rows[u]
         /\ \A i \in Ids : rows[i] # Absent => rows'[i] # Absent
         /\ UNCHANGED <<schema, session, step, frame, serving, exitCode, faults, clashed>>
<1> DEFINE q == query[c]
<1> DEFINE V == Db!Values \cup {Absent}
<1>1. /\ query \in [Dialogs -> Db!Query] /\ rows \in [Ids -> V]
      /\ Linked(c) /\ q \in Db!Query
  BY DEF IInv, TypeOK, Db!TypeOK
<1>2. q.pc = "sent"
  BY DEF Query, Db!Answer, Db!AnswerSpoilt, Db!AnswerLost
<1>3. q.id \in Users /\ (q.op = "set" => q.val = 0)
  BY <1>1, <1>2 DEF Linked, initial
<1>4. \A u \in Ids : Db!StateOf(u) \in V
  BY <1>1, Basics DEF Db!StateOf, Db!Values
<1>5. \E ec \in BOOLEAN, res \in V : query' = [query EXCEPT ![c] = Db!Finished(q, ec, res)]
  <2>1. Absent \in V /\ Db!Values \subseteq V /\ Db!StateOf(q.id) \in V
    BY <1>3, <1>4, Basics
  <2>2. CASE Db!Answer(c)
    <3>1. CASE query' = [query EXCEPT ![c] = Db!Finished(q, FALSE, Db!StateOf(q.id))]
      BY <2>1, <3>1
    <3>2. CASE query' = [query EXCEPT ![c] =
                           Db!Finished(q, Db!SetStateRefused(q.id, q.val), Absent)]
      <4>1. Db!SetStateRefused(q.id, q.val) \in BOOLEAN
        BY DEF Db!SetStateRefused, Db!UpdateRefused
      <4> QED BY <2>1, <3>2, <4>1
    <3> QED BY <2>2, <3>1, <3>2 DEF Db!Answer
  <2>3. CASE Db!AnswerSpoilt(c)
    BY <2>1, <2>3 DEF Db!AnswerSpoilt
  <2>4. CASE Db!AnswerLost(c)
    BY <2>1, <2>4 DEF Db!AnswerLost
  <2> QED BY <2>2, <2>3, <2>4 DEF Query
<1>6. /\ query' \in [Dialogs -> Db!Query]
      /\ \A d \in Dialogs : Alike(query'[d], query[d])
      /\ query'[c].pc = "done"
      /\ \A d \in Dialogs \ {c} : query'[d] = query[d]
  <2>1. PICK ec \in BOOLEAN, res \in V : query' = [query EXCEPT ![c] = Db!Finished(q, ec, res)]
    BY <1>5
  <2>2. /\ Db!Finished(q, ec, res) \in Db!Query /\ Alike(Db!Finished(q, ec, res), q)
        /\ Db!Finished(q, ec, res).pc = "done"
    BY <1>1, <1>2, FinishedType
  <2>3. \A p \in Db!Query : Alike(p, p)
    BY DEF Alike
  <2> QED BY <1>1, <2>1, <2>2, <2>3
<1>7. rows' = rows \/ (q.op = "set" /\ rows' \in Db!Update(q.id, q.val))
  BY DEF Query, Db!Answer, Db!AnswerSpoilt, Db!AnswerLost, Db!SetStateBound
<1>8. /\ rows' \in [Ids -> V]
      /\ \A u \in Users : rows'[u] = rows[u]
      /\ \A i \in Ids : rows[i] # Absent => rows'[i] # Absent
  <2>1. CASE rows' = rows
    BY <1>1, <2>1
  <2>2. CASE rows' = [rows EXCEPT ![0] = q.id] /\ q.id <= ColumnMax
    <3> HIDE DEF q
    <3>1. q.id \in Db!Values
      <4>1. q.id \in Ids /\ q.id \in Nat
        BY <1>3, Basics
      <4>2. q.id \in 0..ColumnMax
        BY <2>2, <4>1, Basics
      <4> QED BY <4>1, <4>2 DEF Db!Values
    <3>2. q.id \in V /\ q.id # Absent
      BY <1>3, <3>1, Basics
    <3>3. \A u \in Users : u # 0 /\ u \in Ids
      BY Basics
    <3> HIDE DEF V
    <3> QED BY <1>1, <2>2, <3>2, <3>3
  <2> QED BY <1>3, <1>7, <2>1, <2>2 DEF Db!Update
<1>9. UNCHANGED <<schema, session, step, frame, serving, exitCode, faults, clashed>>
  BY DEF Query, Db!Answer, Db!AnswerSpoilt, Db!AnswerLost
<1> QED BY <1>2, <1>6, <1>8, <1>9

-----------------------------------------------------------------------------
(* The inductive invariant. *)

LEMMA Initially ==
  ASSUME Init
  PROVE  IInv
<1>1. Db!TypeOK
  <2>1. rows \in [Ids -> Db!Values \cup {Absent}]
    BY DEF Init, Db!Init, Db!Values
  <2>2. step \in 0..Db!Broken
    BY DbConstants DEF Init, Db!Init
  <2> QED BY <2>1, <2>2, NoQueryType DEF Init, Db!Init, Db!TypeOK
<1>2. NoFrame \in Frame
  BY DEF NoFrame, Frame
<1>3. TypeOK
  <2>1. faults \in 0..MaxFaults
    BY Basics DEF Init
  <2>2. /\ serving \in BOOLEAN /\ exitCode \in Codes /\ frame \in [Dialogs -> Frame]
        /\ clashed \subseteq Dialogs
    BY <1>2 DEF Init, Codes
  <2> QED BY <1>1, <2>1, <2>2 DEF TypeOK
<1>4. \A d \in Dialogs : Linked(d)
  BY DEF Init, Db!Init, Linked, NoFrame, Db!NoQuery
<1> QED BY <1>3, <1>4 DEF IInv

(* The steps of dialogs in a process that others start and end as they     *)
(* like: more than Next allows, and all that Bot does.                     *)
Around ==
  /\ serving' \in BOOLEAN /\ (UNCHANGED faults \/ Fault)
  /\ UNCHANGED <<dbVars, frame, exitCode, clashed>>

Ends(code) == Exit(code) /\ (UNCHANGED faults \/ Fault)

Sends(d) ==
  /\ \E outcome \in {"lost", "taken"} : Message(d, outcome)
  /\ UNCHANGED faults \/ Fault

DialogStep(d) ==
  \/ \E u \in Users, kind \in Kinds : OnUpdate(d, u, kind)
  \/ ProcessUpdate(d) \/ GotState(d) \/ StateSet(d) \/ Sends(d) \/ Query(d)

Step ==
  \/ Boot \/ Around \/ LoseDatabase
  \/ \E code \in Codes : Ends(code)
  \/ \E d \in Dialogs : DialogStep(d)

LEMMA NextIsStep ==
  ASSUME TypeOK, [Next]_vars
  PROVE  Step
<1>1. serving \in BOOLEAN
  BY DEF TypeOK
<1>2. BootFails \/ Kill \/ (\E d \in Dialogs : StateUnusable(d))
        => \E code \in Codes : Ends(code)
  BY DEF BootFails, Kill, StateUnusable, UnusableCode, Ends, Codes
<1>3. Serve \/ UNCHANGED vars => Around
  BY <1>1 DEF Serve, Around, vars
<1>4. \A d \in Dialogs : MessageSent(d) \/ MessageLost(d) => Sends(d)
  BY DEF MessageSent, MessageLost, Sends
<1> QED BY <1>2, <1>3, <1>4 DEF Next, Step, DialogStep

(* Nothing the process does as a whole is about one dialog. *)
LEMMA ProcessSteps ==
  ASSUME IInv, \/ Boot \/ Around \/ LoseDatabase
  PROVE  /\ IInv'
         /\ UNCHANGED <<rows, query, frame, clashed>>
<1>1. UNCHANGED <<rows, query, frame, exitCode, clashed>>
  BY DEF Boot, Around, LoseDatabase, Db!DbConnect, Db!InitStatement, Db!DbLost, dbVars
<1>2. serving' \in BOOLEAN
  BY DEF Boot, Around, LoseDatabase, IInv, TypeOK
<1>3. faults' \in 0..MaxFaults
  BY Basics DEF Boot, Around, LoseDatabase, Fault, IInv, TypeOK
<1>4. /\ schema' \subseteq {"learnwords_tg"} \cup Db!Tables
      /\ session' \subseteq Db!SessionThings
      /\ step' \in 0..Db!Broken
  <2>1. /\ schema \subseteq {"learnwords_tg"} \cup Db!Tables
        /\ session \subseteq Db!SessionThings
        /\ step \in 0..10
    BY DbConstants DEF IInv, TypeOK, Db!TypeOK
  <2>2. CASE Around \/ Db!DbConnect \/ Db!DbLost
    <3>1. UNCHANGED schema /\ session' \in {session, {}}
      BY <2>2 DEF Around, Db!DbConnect, Db!DbLost, dbVars
    <3>2. step' = step \/ step' = 1 \/ step' = Db!Broken
      BY <2>2 DEF Around, Db!DbConnect, Db!DbLost, dbVars
    <3> QED BY <2>1, <3>1, <3>2, DbConstants
  <2>3. CASE Db!InitStatement
    <3>1. step \in 1..8
      BY <2>3, DbConstants DEF Db!InitStatement
    <3>2. \A k \in 1..8 : Db!Statements[k].makes \in {"learnwords_tg"} \cup Db!Tables
                                                        \cup Db!SessionThings
      BY DEF Db!Statements, Db!Statement, Db!CreateTables, Db!Tables, Db!SessionThings
    <3>3. step' \in 0..Db!Broken
      BY <2>3, <3>1, DbConstants DEF Db!InitStatement
    <3> QED BY <2>1, <2>3, <3>1, <3>2, <3>3 DEF Db!InitStatement
  <2> QED BY <2>2, <2>3 DEF Boot, LoseDatabase
<1>5. TypeOK'
  BY <1>1, <1>2, <1>3, <1>4 DEF IInv, TypeOK, Db!TypeOK
<1>6. \A d \in Dialogs : Linked(d)'
  BY <1>1 DEF IInv, Linked
<1> QED BY <1>1, <1>5, <1>6 DEF IInv

LEMMA ExitSteps ==
  ASSUME IInv, NEW code \in Codes, Ends(code)
  PROVE  /\ IInv'
         /\ frame' = [d \in Dialogs |-> NoFrame]
         /\ query' = [d \in Dialogs |-> Db!NoQuery]
         /\ UNCHANGED rows
<1>1. Exit(code)
  BY DEF Ends
<1>2. /\ frame' = [d \in Dialogs |-> NoFrame]
      /\ query' = [d \in Dialogs |-> Db!NoQuery]
      /\ UNCHANGED rows
  BY <1>1 DEF Exit, Db!DbReset
<1>3. faults' \in 0..MaxFaults
  BY Basics DEF Ends, Fault, IInv, TypeOK
<1>4. NoFrame \in Frame /\ NoFrame.pc = "none" /\ Db!NoQuery.pc = "none"
  BY DEF NoFrame, Frame, Db!NoQuery
<1>5. step' \in 0..Db!Broken
  BY <1>1, DbConstants DEF Exit, Db!DbReset
<1>6. TypeOK'
  BY <1>1, <1>2, <1>3, <1>4, <1>5, NoQueryType DEF IInv, TypeOK, Db!TypeOK, Exit, Db!DbReset
<1>7. \A d \in Dialogs : Linked(d)'
  BY <1>2, <1>4 DEF Linked
<1> QED BY <1>2, <1>6, <1>7 DEF IInv

-----------------------------------------------------------------------------
(* The steps of a dialog. *)

LEMMA TypeKept ==
  ASSUME TypeOK,
         frame' \in [Dialogs -> Frame], query' \in [Dialogs -> Db!Query],
         rows' \in [Ids -> Db!Values \cup {Absent}],
         clashed' \subseteq Dialogs,
         UNCHANGED <<schema, session, step, serving, exitCode>>,
         UNCHANGED faults \/ Fault
  PROVE  TypeOK'
<1>1. faults' \in 0..MaxFaults
  BY Basics DEF TypeOK, Fault
<1>2. Db!TypeOK'
  BY DEF TypeOK, Db!TypeOK
<1> QED BY <1>1, <1>2 DEF TypeOK

(* A dialog that waits for nothing has no operation on the database. *)
LEMMA Quiet ==
  ASSUME NEW d \in Dialogs, Linked(d), frame[d].pc \notin {"get", "set"}
  PROVE  query[d].pc = "none"
BY DEF Linked

LEMMA OnUpdateStep ==
  ASSUME IInv, NEW d \in Dialogs, NEW u \in Users, NEW kind \in Kinds, OnUpdate(d, u, kind)
  PROVE  IInv'
<1> DEFINE f == [NoFrame EXCEPT !.pc = "start", !.user = u, !.kind = kind]
<1>1. frame \in [Dialogs -> Frame] /\ TypeOK
  BY DEF IInv, TypeOK
<1>2. f \in Frame /\ f.user = u
  BY DEF NoFrame, Frame
<1>3. /\ frame' = [frame EXCEPT ![d] = f] /\ UNCHANGED <<dbVars, serving, exitCode, faults>>
      /\ clashed' \subseteq Dialogs
  BY <1>1 DEF OnUpdate, TypeOK
<1>4. query[d].pc = "none"
  BY Quiet DEF OnUpdate, IInv
<1>5. TypeOK'
  BY <1>1, <1>2, <1>3, TypeKept DEF dbVars, TypeOK, Db!TypeOK
<1>6. \A e \in Dialogs : Linked(e)'
  <2>1. f.pc = "start"
    BY DEF NoFrame
  <2> HIDE DEF f
  <2> QED BY <1>1, <1>2, <1>3, <1>4, <2>1 DEF Linked, IInv, dbVars
<1> QED BY <1>5, <1>6 DEF IInv

LEMMA ClashType ==
  ASSUME NEW d \in Dialogs
  PROVE  Clash(d) \subseteq Dialogs
BY DEF Clash, Db!Outstanding

(* A dialog goes on: what is left is its frame and its operation. *)
LEMMA Goes ==
  ASSUME IInv, NEW d \in Dialogs, NEW f \in Frame,
         frame' = [frame EXCEPT ![d] = f], frame[d].pc # "none", f.user = frame[d].user,
         query' \in [Dialogs -> Db!Query],
         \A e \in Dialogs \ {d} : Alike(query'[e], query[e]),
         query'[d].pc # "none" <=> f.pc \in {"get", "set"},
         query'[d].pc # "none" =>
           /\ query'[d].op = f.pc /\ query'[d].id = f.user
           /\ f.pc = "set" => query'[d].val = initial,
         clashed' \subseteq Dialogs,
         UNCHANGED <<rows, schema, session, step, serving, exitCode>>,
         UNCHANGED faults \/ Fault
  PROVE  IInv'
<1>1. frame \in [Dialogs -> Frame] /\ TypeOK /\ \A e \in Dialogs : Linked(e)
  BY DEF IInv, TypeOK
<1>2. frame' \in [Dialogs -> Frame]
  BY <1>1
<1>3. TypeOK'
  BY <1>1, <1>2, TypeKept DEF TypeOK, Db!TypeOK
<1>4. ASSUME NEW e \in Dialogs PROVE Linked(e)'
  <2>1. CASE e = d
    BY <1>1, <2>1 DEF Linked
  <2>2. CASE e # d
    <3>1. frame'[e] = frame[e] /\ Alike(query'[e], query[e])
      BY <1>1, <2>2
    <3> QED BY <1>1, <3>1 DEF Linked, Alike
  <2> QED BY <2>1, <2>2
<1> QED BY <1>3, <1>4 DEF IInv

LEMMA Itself ==
  ASSUME NEW q
  PROVE  Alike(q, q)
BY DEF Alike

LEMMA ProcessUpdateStep ==
  ASSUME IInv, NEW d \in Dialogs, ProcessUpdate(d)
  PROVE  IInv'
<1>1. /\ frame \in [Dialogs -> Frame] /\ query \in [Dialogs -> Db!Query]
      /\ frame[d].pc = "start" /\ frame[d].user \in Users /\ query[d].pc = "none"
  BY Quiet DEF IInv, TypeOK, Db!TypeOK, ProcessUpdate, Linked
<1>2. UNCHANGED <<serving, exitCode, faults>> /\ clashed' \subseteq Dialogs
  BY ClashType DEF ProcessUpdate, IInv, TypeOK
<1>3. CASE At(d, "ended") /\ UNCHANGED dbVars
  <2> DEFINE f == [frame[d] EXCEPT !.pc = "ended"]
  <2>1. f \in Frame /\ f.user = frame[d].user /\ f.pc = "ended"
    BY <1>1 DEF Frame
  <2>2. frame' = [frame EXCEPT ![d] = f]
    BY <1>3 DEF At
  <2> HIDE DEF f
  <2> QED BY <1>1, <1>2, <1>3, <2>1, <2>2, Goes, Itself DEF dbVars
<1>4. CASE At(d, "get") /\ Db!GetState(d, frame[d].user)
  <2> DEFINE f == [frame[d] EXCEPT !.pc = "get"]
  <2> DEFINE q == Db!Issued("get", frame[d].user, Absent)
  <2>1. f \in Frame /\ f.user = frame[d].user /\ f.pc = "get"
    BY <1>1 DEF Frame
  <2>2. frame' = [frame EXCEPT ![d] = f]
    BY <1>4 DEF At
  <2>3. q \in Db!Query /\ q.pc = "sent" /\ q.op = "get" /\ q.id = frame[d].user
    BY <1>1, GetIssued
  <2>4. Db!Execute(d, q)
    BY <1>4 DEF Db!GetState
  <2>5. UNCHANGED <<rows, schema, session, step>>
    BY <2>4 DEF Db!Execute
  <2> HIDE DEF f, q
  <2>6. /\ query' \in [Dialogs -> Db!Query] /\ Alike(query'[d], q)
        /\ \A e \in Dialogs \ {d} : Alike(query'[e], query[e])
    BY <1>1, <2>3, <2>4, Executed
  <2> QED BY <1>1, <1>2, <2>1, <2>2, <2>3, <2>5, <2>6, Goes DEF Alike
<1> QED BY <1>3, <1>4 DEF ProcessUpdate

LEMMA GotStateStep ==
  ASSUME IInv, NEW d \in Dialogs, GotState(d)
  PROVE  IInv'
<1>1. /\ frame \in [Dialogs -> Frame] /\ query \in [Dialogs -> Db!Query]
      /\ frame[d].pc = "get" /\ frame[d].user \in Users
  BY DEF IInv, TypeOK, Db!TypeOK, GotState, Linked
<1>2. UNCHANGED <<serving, exitCode, faults>> /\ clashed' \subseteq Dialogs
  BY ClashType DEF GotState, IInv, TypeOK
<1>3. ASSUME NEW f \in Frame, frame' = [frame EXCEPT ![d] = f], f.user = frame[d].user,
             f.pc \notin {"get", "set"}, Db!TakeResult(d)
      PROVE  IInv'
  <2>1. UNCHANGED <<rows, schema, session, step>>
    BY <1>3 DEF Db!TakeResult
  <2>2. /\ query' \in [Dialogs -> Db!Query] /\ query'[d].pc = "none"
        /\ \A e \in Dialogs \ {d} : query'[e] = query[e]
    BY <1>1, <1>3, ResultTaken
  <2>3. \A e \in Dialogs \ {d} : Alike(query'[e], query[e])
    BY <2>2, Itself
  <2> QED BY <1>1, <1>2, <1>3, <2>1, <2>2, <2>3, Goes
<1>4. CASE At(d, "ended") /\ Db!TakeResult(d)
  <2> DEFINE f == [frame[d] EXCEPT !.pc = "ended"]
  <2>1. f \in Frame /\ f.user = frame[d].user /\ f.pc = "ended"
    BY <1>1 DEF Frame
  <2>2. frame' = [frame EXCEPT ![d] = f]
    BY <1>4 DEF At
  <2> HIDE DEF f
  <2> QED BY <1>3, <1>4, <2>1, <2>2
<1>5. CASE ~At(d, "ended") \/ ~Db!TakeResult(d)
  <2> DEFINE reply == ReplyTo(Decode(ToUint8(query[d].res)))
  <2> DEFINE pc == IF reply = "recover" THEN "set" ELSE "send"
  <2> DEFINE f == [frame[d] EXCEPT !.pc = pc, !.reply = reply]
  <2>1. reply \in Replies
    BY DEF ReplyTo, Decode, Replies
  <2>2. f \in Frame /\ f.user = frame[d].user /\ f.pc = pc
    <3> HIDE DEF reply
    <3> QED BY <1>1, <2>1 DEF Frame
  <2>3. frame' = [frame EXCEPT ![d] = f]
    BY <1>5 DEF GotState
  <2>4. IF pc = "set" THEN Db!SetState(d, frame[d].user, initial) ELSE Db!TakeResult(d)
    BY <1>5 DEF GotState
  <2>5. CASE pc # "set"
    <3>1. pc = "send"
      BY <2>5
    <3> HIDE DEF f, pc
    <3> QED BY <1>3, <2>2, <2>3, <2>4, <2>5, <3>1
  <2>6. CASE pc = "set"
    <3> DEFINE q == Db!Issued("set", frame[d].user, initial)
    <3>1. /\ q \in Db!Query /\ q.pc = "sent" /\ q.op = "set"
          /\ q.id = frame[d].user /\ q.val = initial
      BY <1>1, SetIssued
    <3> HIDE DEF f, pc
    <3>2. Db!Execute(d, q)
      BY <2>4, <2>6 DEF Db!SetState
    <3>3. UNCHANGED <<rows, schema, session, step>>
      BY <3>2 DEF Db!Execute
    <3> HIDE DEF q
    <3>4. /\ query' \in [Dialogs -> Db!Query] /\ Alike(query'[d], q)
          /\ \A e \in Dialogs \ {d} : Alike(query'[e], query[e])
      BY <1>1, <3>1, <3>2, Executed
    <3> QED BY <1>1, <1>2, <2>2, <2>3, <2>6, <3>1, <3>3, <3>4, Goes DEF Alike
  <2> QED BY <2>5, <2>6
<1> QED BY <1>4, <1>5

LEMMA StateSetStep ==
  ASSUME IInv, NEW d \in Dialogs, StateSet(d)
  PROVE  IInv'
<1> DEFINE f == [frame[d] EXCEPT !.pc = AfterSet(d)]
<1>1. /\ frame \in [Dialogs -> Frame] /\ query \in [Dialogs -> Db!Query]
      /\ frame[d].pc = "set"
  BY DEF IInv, TypeOK, Db!TypeOK, StateSet
<1>2. f \in Frame /\ f.user = frame[d].user /\ f.pc \notin {"get", "set"}
  BY <1>1 DEF Frame, AfterSet
<1>3. frame' = [frame EXCEPT ![d] = f] /\ Db!TakeResult(d)
  BY DEF StateSet, At
<1>4. /\ UNCHANGED <<rows, schema, session, step, serving, exitCode, faults>>
      /\ clashed' \subseteq Dialogs
  BY DEF StateSet, Db!TakeResult, IInv, TypeOK
<1>5. /\ query' \in [Dialogs -> Db!Query] /\ query'[d].pc = "none"
      /\ \A e \in Dialogs \ {d} : query'[e] = query[e]
  BY <1>1, <1>3, ResultTaken
<1>6. \A e \in Dialogs \ {d} : Alike(query'[e], query[e])
  BY <1>5, Itself
<1> HIDE DEF f
<1> QED BY <1>1, <1>2, <1>3, <1>4, <1>5, <1>6, Goes

LEMMA SendsStep ==
  ASSUME IInv, NEW d \in Dialogs, Sends(d)
  PROVE  /\ IInv'
         /\ frame \in [Dialogs -> Frame]
         /\ \E f \in Frame : /\ f.pc = "ended" /\ f.user = frame[d].user
                             /\ f.message # "none"
                             /\ frame' = [frame EXCEPT ![d] = f]
         /\ UNCHANGED <<dbVars, clashed>>
<1>1. /\ frame \in [Dialogs -> Frame] /\ query \in [Dialogs -> Db!Query]
      /\ frame[d].pc = "send" /\ clashed \subseteq Dialogs
  BY DEF IInv, TypeOK, Db!TypeOK, Sends, Message
<1>2. \E f \in Frame : /\ f.pc = "ended" /\ f.user = frame[d].user
                       /\ f.message # "none"
                       /\ frame' = [frame EXCEPT ![d] = f]
  <2>1. \A outcome \in {"lost", "taken"} :
          LET f == [frame[d] EXCEPT !.pc = "ended", !.message = outcome] IN
            /\ f \in Frame /\ f.pc = "ended" /\ f.user = frame[d].user
            /\ f.message # "none"
    BY <1>1 DEF Frame
  <2>2. \E outcome \in {"lost", "taken"} : Message(d, outcome)
    BY DEF Sends
  <2> QED BY <2>1, <2>2 DEF Message
<1>3. /\ UNCHANGED <<serving, exitCode, clashed>> /\ (UNCHANGED faults \/ Fault)
      /\ UNCHANGED dbVars
  BY DEF Sends, Message
<1>4. query[d].pc = "none"
  BY <1>1, Quiet DEF IInv
<1>5. PICK f \in Frame : /\ f.pc = "ended" /\ f.user = frame[d].user
                         /\ f.message # "none"
                         /\ frame' = [frame EXCEPT ![d] = f]
  BY <1>2
<1>6. IInv'
  BY <1>1, <1>3, <1>4, <1>5, Goes, Itself DEF dbVars
<1> QED BY <1>1, <1>3, <1>5, <1>6

LEMMA QueryStep ==
  ASSUME IInv, NEW d \in Dialogs, Query(d)
  PROVE  IInv'
<1>1. /\ query' \in [Dialogs -> Db!Query]
      /\ \A e \in Dialogs : Alike(query'[e], query[e])
      /\ rows' \in [Ids -> Db!Values \cup {Absent}]
      /\ UNCHANGED <<schema, session, step, frame, serving, exitCode, faults>>
      /\ clashed' \subseteq Dialogs
  BY Answered DEF IInv, TypeOK
<1>2. TypeOK'
  BY <1>1, TypeKept DEF IInv, TypeOK
<1>3. \A e \in Dialogs : Linked(e)'
  BY <1>1 DEF IInv, Linked, Alike
<1> QED BY <1>2, <1>3 DEF IInv

(* A dialog that has begun stays that of its user. *)
LEMMA UsersStay ==
  ASSUME IInv, NEW d \in Dialogs,
         ProcessUpdate(d) \/ GotState(d) \/ StateSet(d) \/ Sends(d) \/ Query(d)
  PROVE  /\ frame' \in [Dialogs -> Frame]
         /\ \A e \in Dialogs : /\ frame'[e].user = frame[e].user
                               /\ frame'[e].pc # "none" <=> frame[e].pc # "none"
<1>1. frame \in [Dialogs -> Frame] /\ TypeOK'
  BY ProcessUpdateStep, GotStateStep, StateSetStep, SendsStep, QueryStep
     DEF IInv, TypeOK
<1>2. frame' \in [Dialogs -> Frame]
  BY <1>1 DEF TypeOK
<1>3. frame[d].pc # "none" \/ frame' = frame
  BY DEF ProcessUpdate, GotState, StateSet, Sends, Message, Query
<1>4. /\ \A e \in Dialogs \ {d} : frame'[e] = frame[e]
      /\ frame'[d].user = frame[d].user
      /\ frame'[d].pc # "none" \/ frame' = frame
  <2>1. CASE ProcessUpdate(d) \/ StateSet(d)
    BY <1>1, <2>1 DEF ProcessUpdate, StateSet, AfterSet, At, Frame
  <2>2. CASE GotState(d)
    <3>1. At(d, "ended") =>
            /\ \A e \in Dialogs \ {d} : frame'[e] = frame[e]
            /\ frame'[d].user = frame[d].user /\ frame'[d].pc = "ended"
      BY <1>1 DEF At, Frame
    <3>2. ASSUME NEW pc, NEW reply,
                 frame' = [frame EXCEPT ![d] = [@ EXCEPT !.pc = pc, !.reply = reply]]
          PROVE  /\ \A e \in Dialogs \ {d} : frame'[e] = frame[e]
                 /\ frame'[d].user = frame[d].user /\ frame'[d].pc = pc
      BY <1>1, <3>2 DEF Frame
    <3> DEFINE reply == ReplyTo(Decode(ToUint8(query[d].res)))
    <3> DEFINE pc == IF reply = "recover" THEN "set" ELSE "send"
    <3>3. \/ At(d, "ended")
          \/ frame' = [frame EXCEPT ![d] = [@ EXCEPT !.pc = pc, !.reply = reply]]
      BY <2>2 DEF GotState
    <3>4. pc # "none"
      OBVIOUS
    <3> HIDE DEF reply, pc
    <3> QED BY <1>1, <3>1, <3>2, <3>3, <3>4
  <2>3. CASE Sends(d)
    BY <1>1, <2>3, SendsStep
  <2>4. CASE Query(d)
    BY <2>4 DEF Query
  <2> QED BY <2>1, <2>2, <2>3, <2>4
<1> QED BY <1>2, <1>3, <1>4

LEMMA Inductive ==
  ASSUME IInv, Step
  PROVE  IInv'
<1>1. CASE Boot \/ Around \/ LoseDatabase
  BY <1>1, ProcessSteps
<1>2. CASE \E code \in Codes : Ends(code)
  BY <1>2, ExitSteps
<1>3. ASSUME NEW d \in Dialogs, NEW u \in Users, NEW kind \in Kinds, OnUpdate(d, u, kind)
      PROVE  IInv'
  BY <1>3, OnUpdateStep
<1>4. ASSUME NEW d \in Dialogs,
             ProcessUpdate(d) \/ GotState(d) \/ StateSet(d) \/ Sends(d) \/ Query(d)
      PROVE  IInv'
  BY <1>4, ProcessUpdateStep, GotStateStep, StateSetStep, SendsStep, QueryStep
<1> QED BY <1>1, <1>2, <1>3, <1>4 DEF Step, DialogStep

LEMMA Invariance == Spec => []IInv
<1>1. Init => IInv
  BY Initially
<1>2. IInv /\ [Next]_vars => IInv'
  BY NextIsStep, Inductive DEF IInv
<1> QED BY <1>1, <1>2, PTL DEF Spec

(* No step of the program writes the row of a user. *)
LEMMA RowsOfUsersKept ==
  ASSUME IInv, Step
  PROVE  \A u \in Users : rows'[u] = rows[u]
<1>1. CASE Boot \/ Around \/ LoseDatabase
  BY <1>1, ProcessSteps
<1>2. CASE \E code \in Codes : Ends(code)
  BY <1>2, ExitSteps
<1>3. ASSUME NEW d \in Dialogs, Query(d)
      PROVE  \A u \in Users : rows'[u] = rows[u]
  BY <1>3, Answered
<1>4. CASE \E d \in Dialogs : \/ \E u \in Users, kind \in Kinds : OnUpdate(d, u, kind)
                              \/ ProcessUpdate(d) \/ GotState(d)
                              \/ StateSet(d) \/ Sends(d)
  BY <1>4 DEF OnUpdate, ProcessUpdate, GotState, StateSet, Sends, Message, dbVars, Db!GetState, Db!SetState, Db!Execute, Db!TakeResult
<1> QED BY <1>1, <1>2, <1>3, <1>4 DEF Step, DialogStep

(* The repair of an erroneous state repairs nobody: async_set_state binds  *)
(* the user to the place of the state, and no user has the id the row of   *)
(* which is written instead.                                               *)
THEOREM NoUserRepaired == Spec => [][\A u \in Users : rows'[u] = rows[u]]_vars
<1>1. IInv /\ [Next]_vars => [\A u \in Users : rows'[u] = rows[u]]_vars
  BY NextIsStep, RowsOfUsersKept DEF IInv
<1> QED BY <1>1, Invariance, PTL DEF Spec

-----------------------------------------------------------------------------
(* No reply is lost without a cause. *)

Caused(d) ==
  \/ d \in clashed \/ step = Db!Broken
  \/ Db!SetStateRefused(frame[d].user, initial)

(* What fails an operation is a cause for its dialog to end. *)
Accounted(d) ==
  /\ query[d].pc # "none" /\ query[d].spoilt => d \in clashed
  /\ query[d].pc = "done" /\ query[d].ec => Caused(d)
  /\ frame[d].pc = "ended" /\ frame[d].kind = "command" /\ frame[d].message = "none"
       => Caused(d)

LEMMA AccountedInit ==
  ASSUME Init
  PROVE  \A d \in Dialogs : Accounted(d)
<1>1. NoFrame.pc = "none" /\ Db!NoQuery.pc = "none"
  BY DEF NoFrame, Db!NoQuery
<1> QED BY <1>1 DEF Init, Db!Init, Accounted

(* An operation that is begun is alone, or those it meets are noted. *)
LEMMA ClashNoted ==
  ASSUME query \in [Dialogs -> Db!Query],
         NEW c \in Dialogs, NEW q \in Db!Query, q.pc = "sent", ~q.spoilt, Db!Execute(c, q)
  PROVE  \A d \in Dialogs :
           \/ d \in Clash(c)
           \/ d = c /\ query'[d] = q
           \/ d # c /\ query'[d] = query[d]
<1>1. CASE Db!Outstanding = {} \/ Overlap = "rejected"
  BY <1>1 DEF Db!Execute, Clash
<1>2. CASE Db!Outstanding # {} /\ Overlap = "undefined"
  BY <1>2 DEF Db!Execute, Clash
<1>3. Overlap \in {"rejected", "undefined"}
  BY UserDialogAssumption DEF Db!DatabaseAssumption
<1> QED BY <1>1, <1>2, <1>3

(* A cause stays until the process ends or the dialog is another. *)
LEMMA CauseStays ==
  ASSUME NEW d \in Dialogs, Caused(d), frame'[d].user = frame[d].user,
         \A i \in Ids : rows[i] # Absent => rows'[i] # Absent,
         d \in clashed => d \in clashed', step = Db!Broken => step' = Db!Broken
  PROVE  Caused(d)'
<1>1. CASE d \in clashed \/ step = Db!Broken
  BY <1>1 DEF Caused
<1>2. CASE Db!SetStateRefused(frame[d].user, initial)
  BY <1>2 DEF Caused, Db!SetStateRefused, Db!UpdateRefused
<1> QED BY <1>1, <1>2 DEF Caused

LEMMA AccountStays ==
  ASSUME NEW d \in Dialogs, Accounted(d), frame'[d] = frame[d], query'[d] = query[d],
         \A i \in Ids : rows[i] # Absent => rows'[i] # Absent,
         d \in clashed => d \in clashed', step = Db!Broken => step' = Db!Broken
  PROVE  Accounted(d)'
BY CauseStays DEF Accounted

LEMMA AccountedAnswer ==
  ASSUME IInv, \A d \in Dialogs : Accounted(d), NEW c \in Dialogs, Query(c)
  PROVE  \A d \in Dialogs : Accounted(d)'
<1>1. /\ query \in [Dialogs -> Db!Query] /\ query[c].pc = "sent"
      /\ Linked(c) /\ Accounted(c)
  BY Answered DEF IInv, TypeOK, Db!TypeOK
<1>2. /\ \A i \in Ids : rows[i] # Absent => rows'[i] # Absent
      /\ UNCHANGED <<frame, clashed, step>>
      /\ \A d \in Dialogs \ {c} : query'[d] = query[d]
  BY Answered
<1>3. \A d \in Dialogs \ {c} : Accounted(d)'
  BY <1>2, AccountStays
<1>4. Accounted(c)'
  <2>1. frame[c].pc \in {"get", "set"}
    BY <1>1 DEF Linked
  <2>2. \A ec \in BOOLEAN, res \in Db!Values \cup {Absent} :
          /\ Db!Finished(query[c], ec, res).spoilt = query[c].spoilt
          /\ Db!Finished(query[c], ec, res).ec = ec
    BY <1>1, FinishedType
  <2>3. PICK ec \in BOOLEAN, res \in Db!Values \cup {Absent} :
          /\ query' = [query EXCEPT ![c] = Db!Finished(@, ec, res)]
          /\ ec => Caused(c)
    <3>1. Absent \in Db!Values \cup {Absent}
      OBVIOUS
    <3>2. query[c].id \in Users /\ Users \subseteq Ids
      BY <1>1, Basics DEF Linked
    <3>3. Db!StateOf(query[c].id) \in Db!Values \cup {Absent}
      BY <3>2 DEF Db!StateOf, Db!Values, IInv, TypeOK, Db!TypeOK
    <3>4. CASE Db!Answer(c)
      <4>1. CASE query' = [query EXCEPT ![c] =
                             Db!Finished(@, FALSE, Db!StateOf(query[c].id))]
        BY <3>3, <4>1
      <4>2. CASE /\ query[c].op = "set"
                 /\ query' = [query EXCEPT ![c] =
                      Db!Finished(@, Db!SetStateRefused(query[c].id, query[c].val), Absent)]
        <5>1. Db!SetStateRefused(query[c].id, query[c].val) \in BOOLEAN
          BY DEF Db!SetStateRefused, Db!UpdateRefused
        <5>2. query[c].id = frame[c].user /\ query[c].val = initial
          BY <1>1, <4>2 DEF Linked
        <5>3. Db!SetStateRefused(query[c].id, query[c].val) => Caused(c)
          BY <5>2 DEF Caused
        <5> QED BY <3>1, <4>2, <5>1, <5>3
      <4> QED BY <3>4, <4>1, <4>2 DEF Db!Answer
    <3>5. CASE Db!AnswerSpoilt(c)
      <4>1. Caused(c)
        BY <1>1, <3>5 DEF Db!AnswerSpoilt, Accounted, Caused
      <4> QED BY <3>1, <3>5, <4>1 DEF Db!AnswerSpoilt
    <3>6. CASE Db!AnswerLost(c)
      <4>1. Caused(c)
        BY <3>6 DEF Db!AnswerLost, Caused
      <4> QED BY <3>1, <3>6, <4>1 DEF Db!AnswerLost
    <3> QED BY <3>4, <3>5, <3>6 DEF Query
  <2>4. query'[c].ec = ec /\ query'[c].spoilt = query[c].spoilt
    BY <1>1, <2>2, <2>3
  <2>5. Caused(c) => Caused(c)'
    BY <1>2, CauseStays
  <2> QED BY <1>1, <1>2, <2>1, <2>3, <2>4, <2>5 DEF Accounted
<1> QED BY <1>3, <1>4

LEMMA AccountedGoes ==
  ASSUME IInv, \A d \in Dialogs : Accounted(d), NEW c \in Dialogs,
         ProcessUpdate(c) \/ GotState(c)
  PROVE  \A d \in Dialogs : Accounted(d)'
<1>1. /\ frame \in [Dialogs -> Frame] /\ query \in [Dialogs -> Db!Query]
      /\ Linked(c) /\ frame[c].user \in Users /\ Accounted(c)
  BY DEF IInv, TypeOK, Db!TypeOK, ProcessUpdate, GotState, Linked
<1>2. /\ \A d \in Dialogs \ {c} : frame'[d] = frame[d]
      /\ frame'[c].user = frame[c].user /\ frame'[c].kind = frame[c].kind
      /\ UNCHANGED <<rows, step>>
      /\ clashed \subseteq clashed'
  <2>1. UNCHANGED <<rows, step>> /\ clashed \subseteq clashed'
    BY DEF ProcessUpdate, GotState, dbVars, Db!GetState, Db!SetState, Db!Execute,
           Db!TakeResult
  <2>2. \A pc : At(c, pc) =>
          /\ \A d \in Dialogs \ {c} : frame'[d] = frame[d]
          /\ frame'[c].user = frame[c].user /\ frame'[c].kind = frame[c].kind
    BY <1>1 DEF At, Frame
  <2>3. \A pc, reply : frame' = [frame EXCEPT ![c] = [@ EXCEPT !.pc = pc, !.reply = reply]] =>
          /\ \A d \in Dialogs \ {c} : frame'[d] = frame[d]
          /\ frame'[c].user = frame[c].user /\ frame'[c].kind = frame[c].kind
    BY <1>1 DEF Frame
  <2>4. CASE ProcessUpdate(c)
    BY <2>1, <2>2, <2>4 DEF ProcessUpdate
  <2>5. CASE GotState(c)
    <3> DEFINE reply == ReplyTo(Decode(ToUint8(query[c].res)))
    <3> DEFINE pc == IF reply = "recover" THEN "set" ELSE "send"
    <3>1. \/ At(c, "ended")
          \/ frame' = [frame EXCEPT ![c] = [@ EXCEPT !.pc = pc, !.reply = reply]]
      BY <2>5 DEF GotState
    <3> HIDE DEF reply, pc
    <3> QED BY <2>1, <2>2, <2>3, <3>1
  <2> QED BY <2>4, <2>5
<1>3. ASSUME NEW q \in Db!Query, q.pc = "sent", ~q.spoilt, Db!Execute(c, q),
             clashed' = clashed \cup Clash(c), frame'[c].pc # "ended"
      PROVE  \A d \in Dialogs : Accounted(d)'
  <2>1. ASSUME NEW d \in Dialogs, d \in Clash(c)
        PROVE  Accounted(d)'
    BY <1>3, <2>1 DEF Accounted, Caused
  <2>2. \A d \in Dialogs \ {c} : query'[d] = query[d] => Accounted(d)'
    BY <1>2, AccountStays
  <2>3. query'[c] = q => Accounted(c)'
    BY <1>3 DEF Accounted
  <2> QED BY <1>1, <1>3, <2>1, <2>2, <2>3, ClashNoted
<1>4. ASSUME UNCHANGED query \/ Db!TakeResult(c), query'[c].pc = "none",
             frame'[c].pc = "ended" => frame[c].kind # "command" \/ Caused(c)
      PROVE  \A d \in Dialogs : Accounted(d)'
  <2>1. \A d \in Dialogs \ {c} : query'[d] = query[d]
    BY <1>1, <1>4, ResultTaken
  <2>2. \A d \in Dialogs \ {c} : Accounted(d)'
    BY <1>2, <2>1, AccountStays
  <2>3. Caused(c) => Caused(c)'
    BY <1>2, CauseStays
  <2>4. Accounted(c)'
    BY <1>2, <1>4, <2>3 DEF Accounted
  <2> QED BY <2>2, <2>4
<1>5. CASE ProcessUpdate(c)
  <2>1. query[c].pc = "none"
    BY <1>1, <1>5, Quiet DEF ProcessUpdate
  <2>2. CASE frame[c].kind = "other" /\ UNCHANGED query
    BY <1>4, <2>1, <2>2
  <2>3. CASE At(c, "get") /\ Db!GetState(c, frame[c].user) /\ clashed' = clashed \cup Clash(c)
    <3>1. frame'[c].pc = "get"
      BY <1>1, <2>3 DEF At, Frame
    <3>2. LET q == Db!Issued("get", frame[c].user, Absent) IN
            q \in Db!Query /\ q.pc = "sent" /\ ~q.spoilt /\ Db!Execute(c, q)
      BY <1>1, <2>3, GetIssued DEF Db!GetState
    <3> QED BY <1>3, <2>3, <3>1, <3>2
  <2> QED BY <1>5, <2>2, <2>3 DEF ProcessUpdate, dbVars
<1>6. CASE GotState(c)
  <2> DEFINE reply == ReplyTo(Decode(ToUint8(query[c].res)))
  <2> DEFINE pc == IF reply = "recover" THEN "set" ELSE "send"
  <2> DEFINE f == [frame[c] EXCEPT !.pc = pc, !.reply = reply]
  <2>1. CASE At(c, "ended") /\ Db!TakeResult(c) /\ (query[c].ec \/ frame[c].kind = "text")
    <3>1. query'[c].pc = "none"
      BY <1>1, <2>1, ResultTaken
    <3>2. query[c].ec => Caused(c)
      BY <1>1, <1>6 DEF GotState, Accounted
    <3> QED BY <1>4, <2>1, <3>1, <3>2
  <2>2. CASE /\ frame' = [frame EXCEPT ![c] = f]
             /\ IF pc = "set" THEN Db!SetState(c, frame[c].user, initial)
                              ELSE Db!TakeResult(c)
             /\ clashed' = clashed \cup (IF pc = "set" THEN Clash(c) ELSE {})
    <3>1. frame'[c].pc = pc /\ pc # "ended"
      BY <1>1, <2>2 DEF Frame
    <3> HIDE DEF f, pc
    <3>2. CASE pc = "set"
      <4>1. LET q == Db!Issued("set", frame[c].user, initial) IN
              q \in Db!Query /\ q.pc = "sent" /\ ~q.spoilt /\ Db!Execute(c, q)
        BY <1>1, <2>2, <3>2, SetIssued DEF Db!SetState
      <4> QED BY <1>3, <2>2, <3>1, <3>2, <4>1
    <3>3. CASE pc # "set"
      <4>1. Db!TakeResult(c) /\ query'[c].pc = "none"
        BY <1>1, <2>2, <3>3, ResultTaken
      <4> QED BY <1>4, <3>1, <4>1
    <3> QED BY <3>2, <3>3
  <2> QED BY <1>6, <2>1, <2>2 DEF GotState
<1> QED BY <1>5, <1>6

LEMMA AccountedSteps ==
  ASSUME IInv, \A d \in Dialogs : Accounted(d), Step
  PROVE  \A d \in Dialogs : Accounted(d)'
<1>1. /\ frame \in [Dialogs -> Frame] /\ query \in [Dialogs -> Db!Query]
      /\ \A d \in Dialogs : Linked(d)
  BY DEF IInv, TypeOK, Db!TypeOK
<1>2. CASE Boot \/ Around \/ LoseDatabase
  <2>1. UNCHANGED <<rows, query, frame, clashed>>
    BY <1>2, ProcessSteps
  <2>2. step = Db!Broken => step' = Db!Broken
    BY <1>2, DbConstants DEF Boot, Around, LoseDatabase, dbVars, Db!DbConnect,
                             Db!InitStatement, Db!DbLost
  <2> QED BY <2>1, <2>2, AccountStays
<1>3. CASE \E code \in Codes : Ends(code)
  <2>1. /\ frame' = [d \in Dialogs |-> NoFrame]
        /\ query' = [d \in Dialogs |-> Db!NoQuery]
    BY <1>3, ExitSteps
  <2>2. NoFrame.pc = "none" /\ Db!NoQuery.pc = "none"
    BY DEF NoFrame, Db!NoQuery
  <2> QED BY <2>1, <2>2 DEF Accounted
<1>4. ASSUME NEW c \in Dialogs, NEW u \in Users, NEW kind \in Kinds, OnUpdate(c, u, kind)
      PROVE  \A d \in Dialogs : Accounted(d)'
  <2> DEFINE f == [NoFrame EXCEPT !.pc = "start", !.user = u, !.kind = kind]
  <2>1. /\ frame' = [frame EXCEPT ![c] = f] /\ f.pc = "start" /\ query[c].pc = "none"
        /\ clashed' = clashed \ {c} /\ UNCHANGED <<rows, step, query>>
    BY <1>1, <1>4, Quiet DEF OnUpdate, dbVars, NoFrame
  <2> HIDE DEF f
  <2>2. \A d \in Dialogs \ {c} : frame'[d] = frame[d] /\ (d \in clashed => d \in clashed')
    BY <1>1, <2>1
  <2>3. \A d \in Dialogs \ {c} : Accounted(d)'
    BY <2>1, <2>2, AccountStays
  <2>4. Accounted(c)'
    BY <1>1, <2>1 DEF Accounted
  <2> QED BY <2>3, <2>4
<1>5. ASSUME NEW c \in Dialogs, NEW f \in Frame, frame' = [frame EXCEPT ![c] = f],
             query'[c].pc = "none", \A d \in Dialogs \ {c} : query'[d] = query[d],
             f.pc = "ended" /\ f.message = "none" => Caused(c)',
             UNCHANGED <<rows, step, clashed>>
      PROVE  \A d \in Dialogs : Accounted(d)'
  <2>1. \A d \in Dialogs \ {c} : Accounted(d)'
    BY <1>1, <1>5, AccountStays
  <2>2. Accounted(c)'
    BY <1>1, <1>5 DEF Accounted
  <2> QED BY <2>1, <2>2
<1>6. ASSUME NEW c \in Dialogs, Sends(c)
      PROVE  \A d \in Dialogs : Accounted(d)'
  <2>1. PICK f \in Frame : f.message # "none" /\ frame' = [frame EXCEPT ![c] = f]
    BY <1>6, SendsStep
  <2>2. UNCHANGED <<rows, step, query, clashed>> /\ query[c].pc = "none"
    BY <1>1, <1>6, SendsStep, Quiet DEF dbVars, Sends, Message
  <2> QED BY <1>5, <2>1, <2>2
<1>7. ASSUME NEW c \in Dialogs, StateSet(c)
      PROVE  \A d \in Dialogs : Accounted(d)'
  <2> DEFINE f == [frame[c] EXCEPT !.pc = AfterSet(c)]
  <2>1. /\ query'[c].pc = "none" /\ \A d \in Dialogs \ {c} : query'[d] = query[d]
        /\ UNCHANGED <<rows, step, clashed>>
    BY <1>1, <1>7, ResultTaken DEF StateSet, Db!TakeResult
  <2>2. /\ f \in Frame /\ f.pc = AfterSet(c) /\ f.user = frame[c].user
        /\ frame' = [frame EXCEPT ![c] = f]
    BY <1>1, <1>7 DEF StateSet, At, AfterSet, Frame
  <2>3. f.pc = "ended" => Caused(c)
    BY <1>7, <2>2 DEF AfterSet, StateSet, Accounted
  <2> HIDE DEF f
  <2>4. frame'[c].user = frame[c].user
    BY <1>1, <2>2
  <2>5. Caused(c) => Caused(c)'
    BY <2>1, <2>4, CauseStays
  <2> QED BY <1>5, <2>1, <2>2, <2>3, <2>5
<1>8. CASE \E d \in Dialogs : ProcessUpdate(d) \/ GotState(d) \/ Query(d)
  BY <1>8, AccountedGoes, AccountedAnswer
<1> QED BY <1>2, <1>3, <1>4, <1>6, <1>7, <1>8 DEF Step, DialogStep

(* process_command: a command without a reply met another operation on the *)
(* connection, a database that is lost, or a repair that is refused.       *)
THEOREM RepliesOwed == Spec => []UnansweredHasCause
<1>1. Init => \A d \in Dialogs : Accounted(d)
  BY AccountedInit
<1>2. IInv /\ (\A d \in Dialogs : Accounted(d)) /\ [Next]_vars
        => (\A d \in Dialogs : Accounted(d))'
  BY NextIsStep, AccountedSteps DEF IInv
<1>3. (\A d \in Dialogs : Accounted(d)) => UnansweredHasCause
  BY DEF Accounted, Caused, UnansweredHasCause
<1> QED BY <1>1, <1>2, <1>3, Invariance, PTL DEF Spec

-----------------------------------------------------------------------------
(* The statements of async_init. *)

Ordered ==
  /\ step \in 2..9 => "learnwords_tg" \in schema
  /\ step \in 3..9 => "use" \in session
  /\ step \in 4..9 => "sentences" \in schema
  /\ step \in 5..9 => "settings" \in schema

LEMMA OrderedSteps ==
  ASSUME Ordered, Step
  PROVE  Ordered'
<1>1. CASE UNCHANGED <<schema, session, step>>
  BY <1>1 DEF Ordered
<1>2. CASE Db!DbConnect
  BY <1>2 DEF Db!DbConnect, Ordered
<1>3. CASE Db!DbLost
  BY <1>3, DbConstants DEF Db!DbLost, Ordered
<1>4. CASE step' = 0
  BY <1>4 DEF Ordered
<1>5. CASE Db!InitStatement
  <2>1. step \in 1..8
    BY <1>5, DbConstants DEF Db!InitStatement
  <2>2. schema \subseteq schema' /\ session \subseteq session'
    BY <1>5 DEF Db!InitStatement
  <2>3. step' = step + 1 \/ step' = 10
    BY <1>5, DbConstants DEF Db!InitStatement
  <2>4. step' = step + 1 =>
          /\ step = 1 => "learnwords_tg" \in schema'
          /\ step = 2 => "use" \in session'
          /\ step = 3 => "sentences" \in schema'
          /\ step = 4 => "settings" \in schema'
    <3>1. /\ Db!Statements[1].makes = "learnwords_tg" /\ Db!Statements[2].makes = "use"
          /\ Db!Statements[3].makes = "sentences" /\ Db!Statements[4].makes = "settings"
      BY DEF Db!Statements, Db!Statement, Db!CreateTables
    <3>2. step' = step + 1 => Db!NeedsMet(step)
      BY <1>5, <2>1, DbConstants DEF Db!InitStatement
    <3>3. step' = step + 1 =>
            /\ schema' = schema \cup ({Db!Statements[step].makes} \ Db!SessionThings)
            /\ session' = session \cup ({Db!Statements[step].makes} \cap Db!SessionThings)
      BY <1>5, <3>2 DEF Db!InitStatement
    <3> QED BY <3>1, <3>3 DEF Db!SessionThings
  <2> QED BY <2>1, <2>2, <2>3, <2>4 DEF Ordered
<1>6. \/ UNCHANGED <<schema, session, step>> \/ Db!DbConnect \/ Db!DbLost
      \/ Db!InitStatement \/ step' = 0
  BY DEF Step, DialogStep, Around, dbVars, Boot, LoseDatabase, Ends, Exit, Db!DbReset, OnUpdate, ProcessUpdate, GotState,
         StateSet, Sends, Message, Query,
         Db!GetState, Db!SetState, Db!Execute, Db!TakeResult, Db!Answer, Db!AnswerSpoilt,
         Db!AnswerLost
<1> QED BY <1>1, <1>2, <1>3, <1>4, <1>5, <1>6

LEMMA OrderedInOrder ==
  ASSUME Ordered
  PROVE  StatementsInOrder
<1> SUFFICES ASSUME step \in 1..8 PROVE Db!NeedsMet(step)
  BY DbConstants DEF StatementsInOrder
<1>1. /\ Db!Statements[1].needs = {} /\ Db!Statements[2].needs = {"learnwords_tg"}
      /\ Db!Statements[3].needs = {"use"} /\ Db!Statements[4].needs = {"use"}
      /\ Db!Statements[5].needs = {"use", "settings", "sentences"}
      /\ Db!Statements[6].needs = {"use", "settings"}
      /\ Db!Statements[7].needs = {"use", "settings"}
      /\ Db!Statements[8].needs = {"use", "sentences"}
  BY DEF Db!Statements, Db!Statement, Db!CreateTables
<1>2. step = 1 \/ step = 2 \/ step = 3 \/ step = 4 \/ step = 5 \/ step = 6
        \/ step = 7 \/ step = 8
  OBVIOUS
<1> QED BY <1>1, <1>2 DEF Ordered, Db!NeedsMet

(* No statement that is sent is one the server refuses. *)
LEMMA NeverRefused ==
  ASSUME TypeOK, Ordered, Boot
  PROVE  step' # Db!Broken
<1>1. CASE Db!DbConnect
  BY <1>1, DbConstants DEF Db!DbConnect
<1>2. CASE Db!InitStatement
  <2>1. step \in 1..8 /\ Db!NeedsMet(step)
    BY <1>2, OrderedInOrder, DbConstants DEF Db!InitStatement, StatementsInOrder
  <2>2. step' = step + 1
    BY <1>2, <2>1 DEF Db!InitStatement
  <2> QED BY <2>1, <2>2, DbConstants
<1> QED BY <1>1, <1>2 DEF Boot

(* database::async_init: whatever earlier processes left behind, no        *)
(* statement refers to something the server does not have.                 *)
THEOREM StatementsOrdered == Spec => []StatementsInOrder
<1>1. Init => Ordered
  BY DEF Init, Db!Init, Ordered
<1>2. Ordered => StatementsInOrder
  BY OrderedInOrder
<1>3. IInv /\ Ordered /\ [Next]_vars => Ordered'
  BY NextIsStep, OrderedSteps DEF IInv
<1> QED BY <1>1, <1>2, <1>3, Invariance, PTL DEF Spec

(* Every variable keeps its type. *)
THEOREM TypeCorrect == Spec => []TypeOK
<1>1. IInv => TypeOK
  BY DEF IInv
<1> QED BY <1>1, Invariance, PTL

-----------------------------------------------------------------------------
(* Replies, where an operation that overlaps another is rejected. *)

Told(d) ==
  /\ ~query[d].spoilt
  /\ query[d].pc = "done" /\ ~query[d].ec /\ query[d].op = "get"
       => query[d].res = Db!StateOf(query[d].id)
  /\ frame[d].pc = "set" => frame[d].reply = "recover"
  /\ frame[d].pc = "send" /\ frame[d].reply # "recover"
       => frame[d].reply = ReplyTo(Decode(Db!StateOf(frame[d].user)))

LEMMA ToldKept ==
  ASSUME NEW d \in Dialogs, Linked(d), Told(d),
         \A u \in Users : rows'[u] = rows[u],
         query'[d] = query[d], frame'[d] = frame[d]
  PROVE  Told(d)'
<1>1. \A u \in Users : Db!StateOf(u)' = Db!StateOf(u)
  BY DEF Db!StateOf
<1>2. query[d].pc = "done" => query[d].id \in Users
  BY DEF Linked
<1>3. frame[d].pc = "send" => frame[d].user \in Users
  BY DEF Linked
<1> QED BY <1>1, <1>2, <1>3 DEF Told

(* The operation is alone or has failed. *)
LEMMA ExecutedAlone ==
  ASSUME Overlap = "rejected", query \in [Dialogs -> Db!Query],
         NEW c \in Dialogs, NEW q \in Db!Query, q.pc = "sent", ~q.spoilt, Db!Execute(c, q)
  PROVE  /\ ~query'[c].spoilt /\ (query'[c].pc = "done" => query'[c].ec)
         /\ \A d \in Dialogs \ {c} : query'[d] = query[d]
<1> DEFINE rejected == Db!Finished(q, TRUE, Absent)
<1>1. query' = [query EXCEPT ![c] = q] \/ query' = [query EXCEPT ![c] = rejected]
  BY DEF Db!Execute
<1>2. ~rejected.spoilt /\ rejected.ec
  <2>1. \A ec \in BOOLEAN, res \in Db!Values \cup {Absent} :
          ~Db!Finished(q, ec, res).spoilt /\ Db!Finished(q, ec, res).ec = ec
    BY FinishedType
  <2> QED BY <2>1
<1> HIDE DEF rejected
<1> QED BY <1>1, <1>2

LEMMA ToldAnswer ==
  ASSUME IInv, \A d \in Dialogs : Told(d), NEW c \in Dialogs, Query(c)
  PROVE  \A d \in Dialogs : Told(d)'
<1>1. /\ query \in [Dialogs -> Db!Query] /\ \A d \in Dialogs : Linked(d)
      /\ query[c].pc = "sent" /\ ~query[c].spoilt
  BY Answered DEF IInv, TypeOK, Db!TypeOK, Told
<1>2. /\ \A u \in Users : rows'[u] = rows[u]
      /\ UNCHANGED frame
      /\ \A d \in Dialogs \ {c} : query'[d] = query[d]
      /\ Alike(query'[c], query[c])
  BY Answered
<1>3. \A d \in Dialogs \ {c} : Told(d)'
  BY <1>1, <1>2, ToldKept
<1>4. Told(c)'
  <2>1. frame[c].pc \in {"get", "set"} /\ query[c].id \in Users
    BY <1>1 DEF Linked
  <2>2. Db!StateOf(query[c].id)' = Db!StateOf(query[c].id) /\ query'[c].id = query[c].id
    BY <1>2, <2>1 DEF Db!StateOf, Alike
  <2>3. \A ec \in BOOLEAN, res \in Db!Values \cup {Absent} :
          /\ ~Db!Finished(query[c], ec, res).spoilt
          /\ Db!Finished(query[c], ec, res).ec = ec
          /\ Db!Finished(query[c], ec, res).res = res
    BY <1>1, FinishedType
  <2>4. Absent \in Db!Values \cup {Absent}
    OBVIOUS
  <2>5. Db!StateOf(query[c].id) \in Db!Values \cup {Absent}
    <3>1. rows[query[c].id] \in Db!Values \cup {Absent}
      BY <2>1, Basics DEF IInv, TypeOK, Db!TypeOK
    <3> QED BY <3>1 DEF Db!StateOf, Db!Values
  <2>6. CASE query[c].op = "get"
    <3>1. query' = [query EXCEPT ![c] = Db!Finished(@, FALSE, Db!StateOf(query[c].id))]
            \/ query' = [query EXCEPT ![c] = Db!Finished(@, TRUE, Absent)]
      BY <1>1, <2>6 DEF Query, Db!Answer, Db!AnswerSpoilt, Db!AnswerLost
    <3>2. CASE query'[c] = Db!Finished(query[c], FALSE, Db!StateOf(query[c].id))
      BY <1>2, <2>1, <2>2, <2>3, <2>5, <3>2 DEF Told
    <3>3. CASE query'[c] = Db!Finished(query[c], TRUE, Absent)
      BY <1>2, <2>1, <2>3, <2>4, <3>3 DEF Told
    <3> QED BY <1>1, <3>1, <3>2, <3>3
  <2>7. CASE query[c].op # "get"
    <3>1. \E ec \in BOOLEAN : query' = [query EXCEPT ![c] = Db!Finished(@, ec, Absent)]
      <4>1. Db!SetStateRefused(query[c].id, query[c].val) \in BOOLEAN
        BY DEF Db!SetStateRefused, Db!UpdateRefused
      <4> QED BY <1>1, <2>7, <4>1 DEF Query, Db!Answer, Db!AnswerSpoilt, Db!AnswerLost
    <3>2. ~query'[c].spoilt
      BY <1>1, <2>3, <2>4, <3>1
    <3>3. query'[c].op # "get"
      BY <1>2, <2>7 DEF Alike
    <3> QED BY <1>2, <2>1, <3>2, <3>3 DEF Told
  <2> QED BY <2>6, <2>7
<1> QED BY <1>3, <1>4

LEMMA ToldGotState ==
  ASSUME Overlap = "rejected", IInv, \A d \in Dialogs : Told(d),
         NEW c \in Dialogs, GotState(c)
  PROVE  \A d \in Dialogs : Told(d)'
<1>1. /\ frame \in [Dialogs -> Frame] /\ query \in [Dialogs -> Db!Query]
      /\ \A d \in Dialogs : Linked(d)
      /\ frame[c].pc = "get" /\ query[c].pc = "done" /\ frame[c].user \in Users
      /\ query[c].op = "get" /\ query[c].id = frame[c].user
  BY DEF IInv, TypeOK, Db!TypeOK, GotState, Linked
<1> DEFINE reply == ReplyTo(Decode(ToUint8(query[c].res)))
<1> DEFINE pc == IF reply = "recover" THEN "set" ELSE "send"
<1> DEFINE f == [frame[c] EXCEPT !.pc = pc, !.reply = reply]
<1> DEFINE q == Db!Issued("set", frame[c].user, initial)
<1>2. UNCHANGED rows
  BY DEF GotState, Db!TakeResult, Db!SetState, Db!Execute
<1>3. /\ ~query'[c].spoilt /\ (query'[c].pc = "done" => query'[c].ec)
      /\ \A d \in Dialogs \ {c} : query'[d] = query[d]
  <2>1. CASE Db!TakeResult(c)
    BY <1>1, <2>1, ResultTaken
  <2>2. CASE Db!SetState(c, frame[c].user, initial)
    <3>1. q \in Db!Query /\ q.pc = "sent" /\ ~q.spoilt
      BY <1>1, SetIssued
    <3>2. Db!Execute(c, q)
      BY <2>2 DEF Db!SetState
    <3> HIDE DEF q
    <3> QED BY <1>1, <3>1, <3>2, ExecutedAlone
  <2> QED BY <2>1, <2>2 DEF GotState
<1>4. \A d \in Dialogs \ {c} : frame'[d] = frame[d]
  BY <1>1 DEF GotState, At
<1>5. \A d \in Dialogs \ {c} : Told(d)'
  BY <1>1, <1>2, <1>3, <1>4, ToldKept
<1>6. Told(c)'
  <2>1. CASE frame'[c].pc # "send"
    <3>1. frame'[c].pc = "set" => frame'[c].reply = "recover"
      <4>1. CASE frame' = [frame EXCEPT ![c] = f]
        BY <1>1, <4>1 DEF Frame
      <4>2. CASE At(c, "ended")
        BY <1>1, <4>2 DEF At, Frame
      <4> QED BY <4>1, <4>2 DEF GotState
    <3> QED BY <1>3, <2>1, <3>1 DEF Told
  <2>2. CASE frame'[c].pc = "send"
    <3>1. frame' = [frame EXCEPT ![c] = f] /\ ~query[c].ec
      BY <1>1, <2>2 DEF GotState, At, Frame
    <3>2. frame'[c].reply = reply /\ frame'[c].user = frame[c].user
      BY <1>1, <3>1 DEF Frame
    <3>3. query[c].res = Db!StateOf(frame[c].user)
      BY <1>1, <3>1 DEF Told
    <3>4. query[c].res \in 0..255
      BY <1>1, <3>1 DEF GotState, Unusable
    <3>5. ToUint8(query[c].res) = query[c].res
      BY <3>4 DEF ToUint8
    <3>6. frame'[c].reply = ReplyTo(Decode(Db!StateOf(frame[c].user)))
      BY <3>2, <3>3, <3>5
    <3> QED BY <1>2, <1>3, <2>2, <3>2, <3>6 DEF Told, Db!StateOf
  <2> QED BY <2>1, <2>2
<1> QED BY <1>5, <1>6

LEMMA ToldSteps ==
  ASSUME Overlap = "rejected", IInv, \A d \in Dialogs : Told(d), Step
  PROVE  \A d \in Dialogs : Told(d)'
<1>1. \A u \in Users : rows'[u] = rows[u]
  BY RowsOfUsersKept
<1>2. /\ frame \in [Dialogs -> Frame] /\ query \in [Dialogs -> Db!Query]
      /\ \A d \in Dialogs : Linked(d)
  BY DEF IInv, TypeOK, Db!TypeOK
<1>3. CASE UNCHANGED <<frame, query>>
  BY <1>1, <1>2, <1>3, ToldKept
<1>4. CASE \E code \in Codes : Ends(code)
  <2>1. /\ frame' = [d \in Dialogs |-> NoFrame]
        /\ query' = [d \in Dialogs |-> Db!NoQuery]
    BY <1>4, ExitSteps
  <2>2. NoFrame.pc = "none" /\ Db!NoQuery.pc = "none" /\ ~Db!NoQuery.spoilt
    BY DEF NoFrame, Db!NoQuery
  <2> QED BY <2>1, <2>2 DEF Told
<1>5. ASSUME NEW c \in Dialogs, NEW f \in Frame, f.pc \notin {"set", "send"},
             frame' = [frame EXCEPT ![c] = f],
             ~query'[c].spoilt, query'[c].pc = "done" => query'[c].ec,
             \A d \in Dialogs \ {c} : query'[d] = query[d]
      PROVE  \A d \in Dialogs : Told(d)'
  <2>1. \A d \in Dialogs \ {c} : Told(d)'
    BY <1>1, <1>2, <1>5, ToldKept
  <2>2. Told(c)'
    BY <1>2, <1>5 DEF Told
  <2> QED BY <2>1, <2>2
<1>6. ASSUME NEW c \in Dialogs, NEW u \in Users, NEW kind \in Kinds, OnUpdate(c, u, kind)
      PROVE  \A d \in Dialogs : Told(d)'
  <2> DEFINE f == [NoFrame EXCEPT !.pc = "start", !.user = u, !.kind = kind]
  <2>1. f \in Frame /\ f.pc \notin {"set", "send"} /\ frame' = [frame EXCEPT ![c] = f] /\ UNCHANGED query
    BY <1>6 DEF OnUpdate, dbVars, NoFrame, Frame
  <2>2. query[c].pc = "none" /\ ~query[c].spoilt
    BY <1>2, <1>6, Quiet DEF OnUpdate, Told
  <2> HIDE DEF f
  <2> QED BY <1>5, <2>1, <2>2
<1>7. ASSUME NEW c \in Dialogs, ProcessUpdate(c)
      PROVE  \A d \in Dialogs : Told(d)'
  <2>1. frame[c].pc = "start" /\ frame[c].user \in Users /\ query[c].pc = "none"
    BY <1>2, <1>7, Quiet DEF ProcessUpdate, Linked
  <2>2. CASE At(c, "ended") /\ UNCHANGED query
    <3> DEFINE f == [frame[c] EXCEPT !.pc = "ended"]
    <3>1. f \in Frame /\ f.pc \notin {"set", "send"} /\ frame' = [frame EXCEPT ![c] = f]
      BY <1>2, <2>2 DEF At, Frame
    <3>2. ~query[c].spoilt
      BY DEF Told
    <3> HIDE DEF f
    <3> QED BY <1>5, <2>1, <2>2, <3>1, <3>2
  <2>3. CASE At(c, "get") /\ Db!GetState(c, frame[c].user)
    <3> DEFINE f == [frame[c] EXCEPT !.pc = "get"]
    <3> DEFINE q == Db!Issued("get", frame[c].user, Absent)
    <3>1. f \in Frame /\ f.pc \notin {"set", "send"} /\ frame' = [frame EXCEPT ![c] = f]
      BY <1>2, <2>1, <2>3 DEF At, Frame
    <3>2. q \in Db!Query /\ q.pc = "sent" /\ ~q.spoilt /\ Db!Execute(c, q)
      BY <2>1, <2>3, GetIssued DEF Db!GetState
    <3> HIDE DEF f, q
    <3>3. /\ ~query'[c].spoilt /\ (query'[c].pc = "done" => query'[c].ec)
          /\ \A d \in Dialogs \ {c} : query'[d] = query[d]
      BY <1>2, <3>2, ExecutedAlone
    <3> QED BY <1>5, <3>1, <3>3
  <2> QED BY <1>7, <2>2, <2>3 DEF ProcessUpdate, dbVars
<1>8. ASSUME NEW c \in Dialogs, Sends(c)
      PROVE  \A d \in Dialogs : Told(d)'
  <2>1. PICK f \in Frame : f.pc = "ended" /\ frame' = [frame EXCEPT ![c] = f]
    BY <1>8, SendsStep
  <2>2. UNCHANGED query
    BY <1>8, SendsStep DEF dbVars
  <2>3. query[c].pc = "none" /\ ~query[c].spoilt
    BY <1>2, <1>8, Quiet DEF Sends, Message, Told
  <2> QED BY <1>5, <2>1, <2>2, <2>3
<1>9. ASSUME NEW c \in Dialogs, StateSet(c)
      PROVE  \A d \in Dialogs : Told(d)'
  <2>1. /\ query'[c].pc = "none" /\ ~query'[c].spoilt
        /\ \A d \in Dialogs \ {c} : query'[d] = query[d]
    BY <1>2, <1>9, ResultTaken DEF StateSet
  <2>2. \A d \in Dialogs \ {c} : frame'[d] = frame[d]
    BY <1>2, <1>9 DEF StateSet, At
  <2>3. \A d \in Dialogs \ {c} : Told(d)'
    BY <1>1, <1>2, <2>1, <2>2, ToldKept
  <2>4. Told(c)'
    <3>1. /\ frame'[c].user = frame[c].user /\ frame'[c].reply = frame[c].reply
      BY <1>2, <1>9 DEF StateSet, At, Frame
    <3>2. frame[c].reply = "recover"
      BY <1>9 DEF StateSet, Told
    <3> QED BY <2>1, <3>1, <3>2 DEF Told
  <2> QED BY <2>3, <2>4
<1>10. CASE \E d \in Dialogs : GotState(d) \/ Query(d)
  BY <1>10, ToldGotState, ToldAnswer
<1>11. Boot \/ Around \/ LoseDatabase => UNCHANGED <<frame, query>>
  BY ProcessSteps
<1> QED BY <1>3, <1>4, <1>6, <1>7, <1>8, <1>9, <1>10, <1>11 DEF Step, DialogStep

LEMMA ToldInit ==
  ASSUME Init
  PROVE  \A d \in Dialogs : Told(d)
<1>1. NoFrame.pc = "none" /\ Db!NoQuery.pc = "none" /\ ~Db!NoQuery.spoilt
  BY DEF NoFrame, Db!NoQuery
<1> QED BY <1>1 DEF Init, Db!Init, Told

(* The state that ends the process is that of the dialog's own user. *)
LEMMA ToldUnusable ==
  ASSUME NEW d \in Dialogs, Linked(d), Told(d), StateUnusable(d)
  PROVE  /\ frame[d].user \in Users
         /\ Db!StateOf(frame[d].user) \notin 0..255
         /\ exitCode' = UnusableCode(Db!StateOf(frame[d].user))
<1>1. /\ query[d].op = "get" /\ query[d].id = frame[d].user /\ frame[d].user \in Users
      /\ query[d].pc = "done" /\ ~query[d].ec /\ query[d].res \notin 0..255
      /\ exitCode' = UnusableCode(query[d].res)
  BY DEF StateUnusable, Unusable, Linked, Exit
<1> QED BY <1>1 DEF Told

(* process_command: where overlapping operations are rejected, a reply     *)
(* other than that of a repair tells of a state the user is in.            *)
THEOREM RepliesMatchRows ==
  ASSUME Overlap = "rejected"
  PROVE  Spec => []ReplyMatchesRow
<1>1. Init => \A d \in Dialogs : Told(d)
  BY ToldInit
<1>2. (\A d \in Dialogs : Told(d)) => ReplyMatchesRow
  BY DEF Told, ReplyMatchesRow
<1>3. IInv /\ (\A d \in Dialogs : Told(d)) /\ [Next]_vars => (\A d \in Dialogs : Told(d))'
  BY NextIsStep, ToldSteps DEF IInv
<1> QED BY <1>1, <1>2, <1>3, Invariance, PTL DEF Spec
===============================================================================
