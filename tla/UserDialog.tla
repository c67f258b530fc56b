------------------------------ MODULE UserDialog -------------------------------
(***************************************************************************)
(* service::user_dialog: on_update starts a detached coroutine for every   *)
(* update, so dialogs of one user and of several run side by side over one *)
(* database connection.  Exceptions of a dialog end that dialog and nobody *)
(* hears of them, but for one: async_get_state throws out of io_context    *)
(* when a state is no unsigned number or does not fit into a byte, and     *)
(* that ends the process.                                                  *)
(*                                                                         *)
(* sendMessage is one step here: the API takes it or it is lost, and the   *)
(* answer, which nobody looks at, is not modelled.  What can happen to it  *)
(* on the shared stream is the subject of Connection.                      *)
(***************************************************************************)
EXTENDS Naturals, Sequences

CONSTANTS
  Dialogs,    \* the coroutines alive at the same time
  Users,      \* tg_user_id of those who write to the bot
  MaxFaults,  \* bound: faults of database, API and host
  Ids, Stored, ColumnMax, Absent, Unfit, Overlap   \* see Database

VARIABLES
  schema, rows, session, step, query,   \* the database
  frame,     \* the coroutine of each dialog
  serving,   \* user_dialog::async_init has resumed the update source
  exitCode,  \* how the process last ended
  faults,    \* faults so far
  clashed    \* history: the dialogs whose operations met others of the database

Db == INSTANCE Database WITH Clients <- Dialogs

ASSUME UserDialogAssumption ==
  /\ Db!DatabaseAssumption
  /\ Users \subseteq Ids \ {0}
  /\ MaxFaults \in Nat

dbVars == <<schema, rows, session, step, query>>
vars == <<dbVars, frame, serving, exitCode, faults, clashed>>

(* An update: a text without a command, a command, or one that no          *)
(* operation follows: no text message of a user, or a command whose offset *)
(* or length is missing or out of the text.                                *)
Kinds == {"text", "command", "other"}

Replies == {"Greetings!", "TODO", "recover"}

Frame == [pc: {"none", "start", "get", "set", "send", "ended"},
          user: Users \cup {Absent}, kind: Kinds \cup {Absent},
          reply: Replies \cup {Absent}, message: {"none", "lost", "taken"}]

NoFrame == [pc |-> "none", user |-> Absent, kind |-> Absent, reply |-> Absent,
            message |-> "none"]

Codes == {"none", "caught_exception", "inconsistent_db", "killed"}

TypeOK ==
  /\ Db!TypeOK
  /\ frame \in [Dialogs -> Frame]
  /\ serving \in BOOLEAN
  /\ exitCode \in Codes
  /\ faults \in 0..MaxFaults
  /\ clashed \subseteq Dialogs

Init ==
  /\ Db!Init
  /\ frame = [d \in Dialogs |-> NoFrame]
  /\ serving = FALSE /\ exitCode = "none" /\ faults = 0 /\ clashed = {}

Fault == faults < MaxFaults /\ faults' = faults + 1

-----------------------------------------------------------------------------
(* The process. *)

(* The services before user_dialog are up. *)
Serve ==
  /\ step = Db!Ready /\ ~serving
  /\ serving' = TRUE
  /\ UNCHANGED <<dbVars, frame, exitCode, faults, clashed>>

Boot ==
  /\ Db!DbConnect \/ Db!InitStatement
  /\ UNCHANGED <<frame, serving, exitCode, faults, clashed>>

LoseDatabase ==
  /\ Fault
  /\ Db!DbLost
  /\ UNCHANGED <<frame, serving, exitCode, clashed>>

Exit(code) ==
  /\ exitCode' = code
  /\ frame' = [d \in Dialogs |-> NoFrame]
  /\ serving' = FALSE /\ clashed' = {}
  /\ Db!DbReset

(* db::async_init reports an error and on_init rethrows it. *)
BootFails ==
  /\ step = Db!Broken /\ ~serving
  /\ Exit("caught_exception")
  /\ UNCHANGED faults

Kill == Fault /\ Exit("killed")

-----------------------------------------------------------------------------
(* The dialogs. *)

At(d, pc) == frame' = [frame EXCEPT ![d] = [@ EXCEPT !.pc = pc]]

OnUpdate(d, u, kind) ==
  /\ serving
  /\ frame[d].pc \in {"none", "ended"}
  /\ frame' = [frame EXCEPT ![d] =
       [NoFrame EXCEPT !.pc = "start", !.user = u, !.kind = kind]]
  /\ clashed' = clashed \ {d}
  /\ UNCHANGED <<dbVars, serving, exitCode, faults>>

(* What an operation of d meets that it begins now. *)
Clash(d) ==
  IF Db!Outstanding = {} THEN {}
  ELSE {d} \cup (IF Overlap = "undefined" THEN Db!Outstanding ELSE {})

(* process_update up to its first co_await. *)
ProcessUpdate(d) ==
  /\ frame[d].pc = "start"
  /\ \/ /\ frame[d].kind = "other"
        /\ At(d, "ended")
        /\ UNCHANGED <<dbVars, clashed>>
     \/ /\ frame[d].kind \in {"text", "command"}
        /\ At(d, "get")
        /\ Db!GetState(d, frame[d].user)
        /\ clashed' = clashed \cup Clash(d)
  /\ UNCHANGED <<serving, exitCode, faults>>

initial == 0

(* magic_enum::enum_cast<state>(raw_state).value_or(state::error) *)
Decode(raw) ==
  IF raw \in 0..2 THEN <<"initial", "set_remind_time", "add_sentence">>[raw + 1]
                  ELSE "error"

ReplyTo(state) ==
  CASE state = "initial" -> "Greetings!"
    [] state \in {"set_remind_time", "add_sentence"} -> "TODO"
    [] state = "error" -> "recover"

(* Mutated: the limit is one too far. *)
UnusableBeyond(q) == ~q.ec /\ q.res \notin 0..256

Unusable(q) == ~q.ec /\ q.res \notin 0..255

(* static_cast<std::uint8_t> *)
ToUint8(n) == n % 256

(* What follows async_get_state in process_text and process_command; the   *)
(* repair of an erroneous state comes before the reply.                    *)
GotState(d) ==
  /\ frame[d].pc = "get"
  /\ query[d].pc = "done"
  /\ ~Unusable(query[d])
  /\ \/ /\ query[d].ec \/ frame[d].kind = "text"
        /\ At(d, "ended")
        /\ Db!TakeResult(d)
        /\ UNCHANGED clashed
     \/ /\ ~query[d].ec /\ frame[d].kind = "command"
        /\ LET reply == ReplyTo(Decode(ToUint8(query[d].res)))
               pc == IF reply = "recover" THEN "set" ELSE "send" IN
             /\ frame' = [frame EXCEPT ![d] =
                            [@ EXCEPT !.pc = pc, !.reply = reply]]
             /\ IF pc = "set" THEN Db!SetState(d, frame[d].user, initial)
                              ELSE Db!TakeResult(d)
             /\ clashed' = clashed \cup (IF pc = "set" THEN Clash(d) ELSE {})
  /\ UNCHANGED <<serving, exitCode, faults>>

(* What leaves io_context::run: an exception of as_uint64, or the          *)
(* error::exception of a state that does not fit.                          *)
UnusableCode(res) == IF res = Unfit THEN "caught_exception" ELSE "inconsistent_db"

StateUnusable(d) ==
  /\ frame[d].pc = "get"
  /\ query[d].pc = "done"
  /\ Unusable(query[d])
  /\ Exit(UnusableCode(query[d].res))
  /\ UNCHANGED faults

(* Mutated: the error of the UPDATE is not looked at. *)
AfterSetStuck(d) == IF query[d].ec THEN "set" ELSE "send"

(* Mutated: nothing is sent after a repair. *)
AfterSetSilent(d) == "ended"

AfterSet(d) == IF query[d].ec THEN "ended" ELSE "send"

(* What follows async_set_state. *)
StateSet(d) ==
  /\ frame[d].pc = "set"
  /\ query[d].pc = "done"
  /\ At(d, AfterSet(d))
  /\ Db!TakeResult(d)
  /\ UNCHANGED <<serving, exitCode, faults, clashed>>

(* The rest of process_command: sendMessage, the result of which is not    *)
(* looked at.                                                              *)
Message(d, outcome) ==
  /\ frame[d].pc = "send"
  /\ frame' = [frame EXCEPT ![d] = [@ EXCEPT !.pc = "ended", !.message = outcome]]
  /\ UNCHANGED <<dbVars, serving, exitCode, clashed>>

MessageSent(d) == Message(d, "taken") /\ UNCHANGED faults

MessageLost(d) == Message(d, "lost") /\ Fault

Query(d) ==
  /\ Db!Answer(d) \/ Db!AnswerSpoilt(d) \/ Db!AnswerLost(d)
  /\ UNCHANGED <<frame, serving, exitCode, faults, clashed>>

Next ==
  \/ Boot \/ Serve \/ LoseDatabase \/ BootFails \/ Kill
  \/ \E d \in Dialogs :
       \/ \E u \in Users, kind \in Kinds : OnUpdate(d, u, kind)
       \/ ProcessUpdate(d) \/ GotState(d) \/ StateUnusable(d) \/ StateSet(d)
       \/ MessageSent(d) \/ MessageLost(d) \/ Query(d)

Spec == Init /\ [][Next]_vars

-----------------------------------------------------------------------------
(* A dialog that greets its user, or tells of what is to be done, has read *)
(* a state that the user is still in when the reply goes out: nothing that *)
(* other dialogs or earlier processes do to the table comes in between.    *)
ReplyMatchesRow ==
  \A d \in Dialogs :
    frame[d].pc = "send" /\ frame[d].reply # "recover"
      => frame[d].reply = ReplyTo(Decode(Db!StateOf(frame[d].user)))

(* async_init runs its statements in an order in which the server has what *)
(* each of them refers to, whatever an earlier process that was killed, or *)
(* lost the server, half way left behind.                                  *)
StatementsInOrder == step \in DOMAIN Db!Statements => Db!NeedsMet(step)

(* A command whose dialog ended without a reply ran into something: an     *)
(* operation of its own met another on the connection, the database is     *)
(* lost, or the server refused the repair.  No other dialog, and nothing   *)
(* an earlier process did, takes a reply away.                             *)
UnansweredHasCause ==
  \A d \in Dialogs :
    frame[d].pc = "ended" /\ frame[d].kind = "command" /\ frame[d].message = "none"
      => d \in clashed \/ step = Db!Broken \/ Db!SetStateRefused(frame[d].user, initial)

(* Told that the bot recovers, the user is out of the erroneous state: the *)
(* row was set to state::initial before the message is sent.               *)
RecoveryRepairs ==
  \A d \in Dialogs :
    frame[d].pc = "send" /\ frame[d].reply = "recover"
      => Decode(Db!StateOf(frame[d].user)) = "initial"
===============================================================================
