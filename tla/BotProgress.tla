------------------------------ MODULE BotProgress ------------------------------
(***************************************************************************)
(* Bot with a record, across processes, of what became of each update, for *)
(* the question whether one can be forgotten for good.                     *)
(***************************************************************************)
EXTENDS Bot

VARIABLE fate  \* history: the best that processes have done with each update

(* A dialog that came to its end, or was under way when its process ended. *)
Became(u) ==
  IF frame'[u].pc = "ended" THEN "handled"
  ELSE IF fate[u] = "none" /\ frame[u].pc \notin {"none", "ended"} /\ frame'[u].pc = "none"
       THEN "cut"
       ELSE fate[u]

RecordedSpec ==
  /\ Init /\ fate = [u \in Updates |-> "none"]
  /\ [][Next /\ fate' = [u \in Updates |-> Became(u)]]_<<vars, fate>>
  /\ Fairness

-----------------------------------------------------------------------------
(* A process that stays up, with its source and its database. *)
Settles == <>[](init # "building" /\ source = "up" /\ step # Dlg!Db!Broken)

(* If some process stays up in the end, every update that arrives is       *)
(* handled to the end, by it or by an earlier one; but for an update whose *)
(* dialog was cut off by the end of its process while its confirmation was *)
(* given or on its way to the API.  No dialog is under way for good in a   *)
(* process that lives, whether its update is confirmed or not.             *)
UpdateHandled ==
  Settles => \A u \in Updates :
    <>[](arrived >= u =>
           \/ fate[u] = "handled"
           \/ fate[u] = "cut" /\ u <= forgotten /\ frame[u].pc = "none")
===============================================================================
