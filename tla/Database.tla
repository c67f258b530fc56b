------------------------------- MODULE Database --------------------------------
(***************************************************************************)
(* database::database over its one MySQL connection: the statements        *)
(* async_init runs one after the other, and async_get_state and            *)
(* async_set_state, which any number of coroutines may call while others   *)
(* wait for theirs.  The server keeps tables and rows when the process or  *)
(* the connection goes away; the selected database and the prepared        *)
(* statements belong to the session and are lost with it.                  *)
(*                                                                         *)
(* any_connection allows one operation at a time.  From Boost 1.88 on a    *)
(* second one completes with an error (Overlap = "rejected"); before, the  *)
(* two share the protocol's buffers and either may end in any way          *)
(* (Overlap = "undefined").  The build does not choose a version.          *)
(***************************************************************************)
EXTENDS Naturals, Sequences

CONSTANTS
  Clients,    \* the coroutines that call the database
  Ids,        \* values of tg_user_id
  Stored,     \* values found in the column `state'
  ColumnMax,  \* the largest the column holds: 255 in a table of ours
  Absent,     \* no row, no argument, no result
  Unfit,      \* a `state' that is no unsigned number: NULL or signed
  Overlap     \* "rejected" or "undefined"

(* Assumed by the modules that use this one. *)
DatabaseAssumption ==
  /\ Ids \subseteq Nat /\ ColumnMax \in Nat
  /\ Stored \subseteq 0..ColumnMax \cup {Unfit}
  /\ Absent \notin Nat /\ Unfit \notin Nat /\ Unfit # Absent
  /\ Overlap \in {"rejected", "undefined"}

VARIABLES
  schema,   \* what the server has created
  rows,     \* the table `settings': state by tg_user_id
  session,  \* what the session has selected and prepared
  step,     \* 0 not connected, k before statement k of async_init
  query     \* the operation of each client

dbVars == <<schema, rows, session, step, query>>

Tables == {"sentences", "settings", "user_data"}

SessionThings == {"use", "get_state", "set_state", "add_sentence"}

(* The statements of async_init in order: what each makes and what the     *)
(* server needs to have for it (CREATE ... IF NOT EXISTS never objects to  *)
(* what it makes being there).                                             *)
Statement(makes, needs) == [makes |-> makes, needs |-> needs]

(* Mutated: user_data is created before the tables it refers to. *)
CreateTablesShuffled ==
  << Statement("user_data", {"use", "settings", "sentences"}),
     Statement("sentences", {"use"}), Statement("settings", {"use"}) >>

CreateTables ==
  << Statement("sentences", {"use"}), Statement("settings", {"use"}),
     Statement("user_data", {"use", "settings", "sentences"}) >>

Statements ==
  << Statement("learnwords_tg", {}), Statement("use", {"learnwords_tg"}),
     CreateTables[1], CreateTables[2], CreateTables[3],
     Statement("get_state", {"use", "settings"}),
     Statement("set_state", {"use", "settings"}),
     Statement("add_sentence", {"use", "sentences"}) >>

Ready == Len(Statements) + 1
Broken == Ready + 1

NoQuery == [pc |-> "none", op |-> Absent, id |-> Absent, val |-> Absent,
            spoilt |-> FALSE, ec |-> FALSE, res |-> Absent]

Values == Stored \cup (Ids \cap 0..ColumnMax) \cup {0}

Query == [pc: {"none", "sent", "done"}, op: {"get", "set", Absent},
          id: Ids \cup {Absent}, val: 0..255 \cup {Absent},
          spoilt: BOOLEAN, ec: BOOLEAN, res: Values \cup {Absent}]

TypeOK ==
  /\ schema \subseteq {"learnwords_tg"} \cup Tables
  /\ rows \in [Ids -> Values \cup {Absent}]
  /\ session \subseteq SessionThings
  /\ step \in 0..Broken
  /\ query \in [Clients -> Query]

(* Nothing in the program inserts a row: either the tables are to be made, *)
(* or they are there with whatever rows somebody put into them.            *)
Init ==
  /\ \/ schema = {} /\ rows = [i \in Ids |-> Absent]
     \/ /\ schema = {"learnwords_tg"} \cup Tables
        /\ rows \in [Ids -> Stored \cup {Absent}]
  /\ session = {} /\ step = 0
  /\ query = [c \in Clients |-> NoQuery]

-----------------------------------------------------------------------------
(* initialize_db: async_connect, then async_init. *)

DbConnect ==
  /\ step = 0
  /\ step' = 1
  /\ UNCHANGED <<schema, rows, session, query>>

NeedsMet(k) == Statements[k].needs \subseteq schema \cup session

(* The server runs the statement; an error it reports ends async_init. *)
InitStatement ==
  /\ step \in DOMAIN Statements
  /\ LET made == IF NeedsMet(step) THEN {Statements[step].makes} ELSE {} IN
       /\ schema' = schema \cup (made \ SessionThings)
       /\ session' = session \cup (made \cap SessionThings)
       /\ step' = IF made = {} THEN Broken ELSE step + 1
  /\ UNCHANGED <<rows, query>>

(* The server cannot be reached or drops the connection; nothing connects  *)
(* again.                                                                  *)
DbLost ==
  /\ step < Broken
  /\ step' = Broken
  /\ session' = {}
  /\ UNCHANGED <<schema, rows, query>>

(* The process ends. *)
DbReset ==
  /\ step' = 0
  /\ session' = {}
  /\ query' = [c \in Clients |-> NoQuery]
  /\ UNCHANGED <<schema, rows>>

-----------------------------------------------------------------------------
Outstanding == {c \in Clients : query[c].pc = "sent"}

(* Mutated: the arguments trade places on their way in. *)
IssuedSwapped(op, id, val) ==
  [NoQuery EXCEPT !.pc = "sent", !.op = op, !.id = val, !.val = id]

Issued(op, id, val) ==
  [NoQuery EXCEPT !.pc = "sent", !.op = op, !.id = id, !.val = val]

Finished(q, ec, res) == [q EXCEPT !.pc = "done", !.ec = ec, !.res = res]

(* async_execute while no other operation is under way, or while one is.   *)
(* A caller that goes on from one operation to the next takes the result   *)
(* of the first on the way.                                                *)
Execute(c, q) ==
  /\ query[c].pc # "sent"
  /\ \/ /\ Outstanding = {}
        /\ query' = [query EXCEPT ![c] = q]
     \/ /\ Outstanding # {} /\ Overlap = "rejected"
        /\ query' = [query EXCEPT ![c] = Finished(q, TRUE, Absent)]
     \/ /\ Outstanding # {} /\ Overlap = "undefined"
        /\ query' = [d \in Clients |->
             IF d = c THEN [q EXCEPT !.spoilt = TRUE]
             ELSE IF d \in Outstanding THEN [query[d] EXCEPT !.spoilt = TRUE]
             ELSE query[d]]
  /\ UNCHANGED <<schema, rows, session, step>>

GetState(c, id) == Execute(c, Issued("get", id, Absent))

SetState(c, id, val) == Execute(c, Issued("set", id, val))

(* UPDATE settings SET state = ? WHERE tg_user_id = ?: the tables it may   *)
(* leave.  NULL gives way to the number, a signed column stays signed.     *)
Update(state, id) ==
  IF id \in Ids /\ rows[id] # Absent /\ state <= ColumnMax
  THEN {[rows EXCEPT ![id] = state]} \cup {r \in {rows} : r[id] = Unfit}
  ELSE {rows}

UpdateRefused(state, id) ==
  id \in Ids /\ rows[id] # Absent /\ state > ColumnMax

(* async_set_state binds the user to the first place and the state to the  *)
(* second.                                                                 *)
SetStateBound(id, val) == Update(id, val)

SetStateRefused(id, val) == UpdateRefused(id, val)

(* An absent row reads as 0. *)
StateOf(id) == IF rows[id] = Absent THEN 0 ELSE rows[id]

(* The server answers the one operation under way. *)
Answer(c) ==
  /\ step = Ready
  /\ query[c].pc = "sent" /\ ~query[c].spoilt
  /\ LET q == query[c] IN
       \/ /\ q.op = "get"
          /\ query' = [query EXCEPT ![c] = Finished(q, FALSE, StateOf(q.id))]
          /\ UNCHANGED rows
       \/ /\ q.op = "set"
          /\ query' = [query EXCEPT ![c] =
                         Finished(q, SetStateRefused(q.id, q.val), Absent)]
          /\ rows' \in SetStateBound(q.id, q.val)
  /\ UNCHANGED <<schema, session, step>>

(* An operation that shared the connection with another ends somehow, its  *)
(* statement executed or not; or it never ends.                            *)
AnswerSpoilt(c) ==
  /\ step = Ready
  /\ query[c].pc = "sent" /\ query[c].spoilt
  /\ LET q == query[c] IN
       /\ \/ query' = [query EXCEPT ![c] = Finished(q, TRUE, Absent)]
          \/ q.op = "set" /\ query' = [query EXCEPT ![c] = Finished(q, FALSE, Absent)]
          \/ /\ q.op = "get"
             /\ \E v \in Values : query' = [query EXCEPT ![c] = Finished(q, FALSE, v)]
       /\ rows' \in {rows} \cup
            (IF q.op = "set" THEN SetStateBound(q.id, q.val) ELSE {})
  /\ UNCHANGED <<schema, session, step>>

(* Without a connection every operation ends in an error; the statement of *)
(* one that was under way may have been executed.                          *)
AnswerLost(c) ==
  /\ step = Broken
  /\ query[c].pc = "sent"
  /\ query' = [query EXCEPT ![c] = Finished(@, TRUE, Absent)]
  /\ rows' \in {rows} \cup
       (IF query[c].op = "set" THEN SetStateBound(query[c].id, query[c].val)
                               ELSE {})
  /\ UNCHANGED <<schema, session, step>>

(* The caller's coroutine goes on with the result. *)
TakeResult(c) ==
  /\ query[c].pc = "done"
  /\ query' = [query EXCEPT ![c] = NoQuery]
  /\ UNCHANGED <<schema, rows, session, step>>
===============================================================================
