---------------------------------- MODULE Bot ----------------------------------
(***************************************************************************)
(* The whole process: application::run builds the inventory of the three   *)
(* services, initializes them one after the other and lets io_context run. *)
(* user_dialog is the last; its async_init already resumes the update      *)
(* source, so updates are handled while on_init has still to come.         *)
(*                                                                         *)
(* The update source is what LongPolling implements, UpdateFeed, with what *)
(* can become of it: it works, it waits for good for an answer that the    *)
(* read of a dialog threw away, or its link is silent or lost.  A dialog   *)
(* is named by the update it handles.  The process may end at any moment   *)
(* and is started again by whoever runs it, with nothing but what the API  *)
(* and the database server kept.                                           *)
(***************************************************************************)
EXTENDS Naturals, Sequences

CONSTANTS
  MaxUpdate,  \* bound: updates that ever arrive
  Users,      \* tg_user_id of those who write to the bot
  MaxFaults,  \* bound: faults of network, database, API and host
  Ids, Stored, ColumnMax, Absent, Unfit, Overlap   \* see Database

VARIABLES
  services, init, begin, state, reloads, left, stop, stopper,  \* see Inventory
  arrived, forgotten, cursor, seen,                            \* see UpdateFeed
  schema, rows, session, step, query,                          \* see Database
  frame, serving, exitCode, faults, clashed,                   \* see UserDialog
  content,   \* who each update that arrived is from and of what kind it is
  source,    \* what became of the update source of this process
  troubled   \* history: a fault outside of this process has reached it

Updates == 1..MaxUpdate

Inv == INSTANCE Inventory WITH MaxServices <- 3, MaxReloads <- 0
Feed == INSTANCE UpdateFeed
Dlg == INSTANCE UserDialog WITH Dialogs <- Updates

ASSUME BotAssumption ==
  /\ Dlg!Db!DatabaseAssumption
  /\ Users \subseteq Ids \ {0}
  /\ MaxFaults \in Nat /\ MaxUpdate \in Nat

invVars == <<services, init, begin, state, reloads, left, stop, stopper>>
feedVars == <<arrived, forgotten, cursor, seen>>
dlgVars == <<schema, rows, session, step, query, frame, serving, exitCode, faults, clashed>>
botVars == <<content, source, troubled>>
vars == <<invVars, feedVars, dlgVars, botVars>>

Init ==
  /\ Inv!Init /\ Feed!Init /\ Dlg!Init
  /\ content = <<>>
  /\ source = "up" /\ troubled = FALSE

-----------------------------------------------------------------------------
(* Start-up.  async_init of a service is called when the initializer       *)
(* reaches it; that of user_dialog starts the handling of updates.         *)

tg == 1
db == 2
user_dialog == 3

Called(s) == state'[s] # "new"

KeepsDialogs ==
  UNCHANGED <<schema, rows, session, step, query, frame, exitCode, faults, clashed>>

MakeInventory ==
  /\ Inv!AddService({"initializable"})
  /\ UNCHANGED <<feedVars, dlgVars, botVars>>

AsyncInit ==
  /\ Len(services) = 3
  /\ Inv!AsyncInit
  /\ serving' = Called(user_dialog)
  /\ KeepsDialogs
  /\ UNCHANGED <<feedVars, botVars>>

(* tg::async_init has connected to the API. *)
TgUp ==
  /\ init = "waiting" /\ Inv!Initialized(tg)
  /\ serving' = Called(user_dialog)
  /\ KeepsDialogs
  /\ UNCHANGED <<feedVars, botVars>>

TgFails ==
  /\ init = "waiting" /\ Inv!InitFailed(tg)
  /\ Dlg!Fault /\ troubled' = TRUE
  /\ UNCHANGED <<schema, rows, session, step, query, frame, serving, exitCode, clashed>>
  /\ UNCHANGED <<feedVars, content, source>>

(* initialize_db: the connection, then database::async_init. *)
DbBoot ==
  /\ init = "waiting" /\ state[db] = "initializing"
  /\ Dlg!Boot
  /\ UNCHANGED <<invVars, feedVars, botVars>>

DbUp ==
  /\ init = "waiting" /\ step = Dlg!Db!Ready
  /\ Inv!Initialized(db)
  /\ serving' = Called(user_dialog)
  /\ KeepsDialogs
  /\ UNCHANGED <<feedVars, botVars>>

DbFails ==
  /\ init = "waiting" /\ step = Dlg!Db!Broken
  /\ Inv!InitFailed(db)
  /\ UNCHANGED <<feedVars, dlgVars, botVars>>

(* The handler that user_dialog::async_init has posted. *)
DialogsUp ==
  /\ init = "waiting" /\ Inv!Initialized(user_dialog)
  /\ UNCHANGED <<feedVars, dlgVars, botVars>>

OnInit ==
  /\ init = "posted" /\ Inv!OnInit
  /\ UNCHANGED <<feedVars, dlgVars, botVars>>

-----------------------------------------------------------------------------
(* The end of the process. *)

Gone ==
  /\ Inv!Reset /\ Feed!Restart
  /\ source' = "up" /\ troubled' = FALSE
  /\ UNCHANGED content

(* on_init rethrows what a service reported. *)
InitRaised ==
  /\ init = "raised"
  /\ Dlg!Exit("caught_exception") /\ UNCHANGED faults
  /\ Gone

(* A dialog of this process shares, or has shared, the stream with the     *)
(* update source: its request is being sent or its answer is to come.      *)
Shared == \E u \in Updates : frame[u].pc = "send" \/ frame[u].message # "none"

(* on_update rethrows what ended the update source: the end of the link,   *)
(* an answer that belongs to a dialog, or one the API should not give; see *)
(* LongPolling.                                                            *)
PollRaised ==
  /\ serving
  /\ \/ (source = "down" \/ Shared) /\ UNCHANGED faults
     \/ Dlg!Fault
  /\ Dlg!Exit("caught_exception")
  /\ Gone

StateUnusable(u) == Dlg!StateUnusable(u) /\ Gone

Kill == Dlg!Kill /\ Gone

-----------------------------------------------------------------------------
(* Updates and dialogs. *)

Arrive ==
  /\ Feed!Arrive
  /\ \E u \in Users, kind \in Dlg!Kinds :
       content' = Append(content, [user |-> u, kind |-> kind])
  /\ UNCHANGED <<invVars, dlgVars, source, troubled>>

(* The API reads an offset, perhaps of a process that is gone. *)
Forget ==
  /\ Feed!Forget
  /\ UNCHANGED <<invVars, dlgVars, botVars>>

(* The read of a dialog throws away an answer of the source. *)
Strand ==
  /\ serving /\ Shared
  /\ source = "up" /\ source' = "stranded"
  /\ UNCHANGED <<invVars, feedVars, dlgVars, content, troubled>>

(* The link of the stream falls silent or is lost. *)
LoseLink ==
  /\ Len(services) = 3 /\ state[tg] = "ready"
  /\ Dlg!Fault
  /\ source # "down" /\ source' = "down" /\ troubled' = TRUE
  /\ UNCHANGED <<schema, rows, session, step, query, frame, serving, exitCode, clashed>>
  /\ UNCHANGED <<invVars, feedVars, content>>

(* What was received before the link was lost is still handed out. *)
Dispatch ==
  /\ serving /\ source # "stranded"
  /\ Feed!Dispatch
  /\ Dlg!OnUpdate(cursor', content[cursor'].user, content[cursor'].kind)
  /\ UNCHANGED <<invVars, botVars>>

(* sendMessage on the shared stream. *)
Send(u) ==
  \/ source # "down" /\ Dlg!MessageSent(u)
  \/ source = "down" /\ Dlg!Message(u, "lost") /\ UNCHANGED faults
  \/ Dlg!MessageLost(u)

DialogStep(u) ==
  /\ \/ Dlg!ProcessUpdate(u) \/ Dlg!GotState(u) \/ Dlg!StateSet(u)
     \/ Send(u) \/ Dlg!Query(u)
  /\ UNCHANGED <<invVars, feedVars, botVars>>

LoseDatabase ==
  /\ init # "building" /\ Dlg!LoseDatabase
  /\ troubled' = TRUE
  /\ UNCHANGED <<invVars, feedVars, content, source>>

StartUp ==
  \/ MakeInventory \/ AsyncInit \/ TgUp \/ DbBoot \/ DbUp
  \/ DialogsUp \/ OnInit \/ InitRaised

Next ==
  \/ StartUp \/ TgFails \/ DbFails \/ PollRaised \/ Kill
  \/ Arrive \/ Forget \/ Dispatch \/ Strand \/ LoseLink \/ LoseDatabase
  \/ \E u \in Updates : DialogStep(u) \/ StateUnusable(u)

Spec == Init /\ [][Next]_vars

(* io_context runs what is ready, the process is started again, the update *)
(* source goes on while it works (see LongPolling), and the database       *)
(* server answers while it is there.  Nothing has a deadline: that a link  *)
(* or the database is lost need not be noticed.                            *)
Fairness ==
  /\ WF_vars(StartUp) /\ WF_vars(source = "up" /\ Dispatch)
  /\ \A u \in Updates :
       WF_vars(step = Dlg!Db!Ready /\ (DialogStep(u) \/ StateUnusable(u)))

FairSpec == Spec /\ Fairness

-----------------------------------------------------------------------------
(* Although updates are handled before on_init has run, and by dialogs     *)
(* that keep references to the other services, no dialog begins before the *)
(* connection is up and the statements of this session are prepared.       *)
DialogsPrepared ==
  \A u \in Updates :
    frame[u].pc # "none" =>
      /\ state[tg] = "ready" /\ state[db] = "ready"
      /\ step >= Dlg!Db!Ready

(* A process that has begun to initialize only ends for a reason of its    *)
(* own life: a fault that reaches it from outside, a stream that a dialog  *)
(* shared with the update source, or a state that cannot be read, in the   *)
(* row of somebody whose update it has handled, with the exit code of      *)
(* that.  Nothing that an earlier process did or left half done makes a    *)
(* later one give up.                                                      *)
ExitHasCause ==
  [][init # "building" /\ init' = "building" =>
       \/ exitCode' # "inconsistent_db" /\ (faults' > faults \/ troubled \/ Shared)
       \/ \E u \in 1..cursor :
            /\ Dlg!Db!StateOf(content[u].user) \notin 0..255
            /\ exitCode' = Dlg!UnusableCode(Dlg!Db!StateOf(content[u].user))]_vars

(* See UserDialog: here with the commands that really overlap, those of    *)
(* one feed.                                                               *)
ReplyMatchesRow == Dlg!ReplyMatchesRow

(* One process handles an update once: only a restart repeats a reply. *)
OncePerProcess ==
  [][\A u \in Updates : frame[u].pc # "none" => frame'[u].pc # "start" \/ UNCHANGED frame[u]]_vars

(* Of the updates up to the last one handed out, each has a dialog in this *)
(* process, or the API has forgotten it: then an earlier dialog had begun. *)
(* Whatever restarts, late offsets and faults do, none falls in between.   *)
NoneSkipped ==
  \A u \in 1..cursor : frame[u].pc # "none" \/ u <= forgotten

(* Nothing failed in this process, the first one, and no operation of the *)
(* dialog of u met another; the server takes the repair of its user's row. *)
Undisturbed(u) ==
  /\ faults = 0 /\ exitCode = "none" /\ source = "up"
  /\ u \notin clashed /\ ~Dlg!Db!SetStateRefused(content[u].user, Dlg!initial)

(* A command that arrives is answered, whenever it arrives, whatever is in *)
(* the table and whatever else the bot handles meanwhile, if nothing fails *)
(* and no operation of its dialog meets another or is refused.             *)
CommandAnswered ==
  \A u \in Updates :
    <>[](u <= arrived /\ content[u].kind = "command" /\ Undisturbed(u))
      => <>[](frame[u].message = "taken")
===============================================================================
