------------------------------- MODULE BotProofs -------------------------------
(***************************************************************************)
(* The whole process with its restarts, for any number of updates, users   *)
(* and faults and whatever the table holds.                                *)
(*                                                                         *)
(* DialogsPrepared is about the services and the session of a dialog that  *)
(* has begun; what makes it inductive is the chain that leads there: a     *)
(* dialog has begun only in a process that serves, a process serves only   *)
(* once user_dialog was asked to initialize, which the inventory does only *)
(* after the services before it have succeeded (InventoryProofs), and db   *)
(* succeeds only at the end of its statements.  OncePerProcess needs that  *)
(* dialogs are for updates up to the feed's cursor.  For replies and exits *)
(* the dialogs are shown to take the steps of UserDialogProofs.            *)
(***************************************************************************)
EXTENDS Bot, TLAPS

IP == INSTANCE InventoryProofs WITH MaxServices <- 3, MaxReloads <- 0

(* Three services that can be initialized, and nobody stops them. *)
Three ==
  /\ \A s \in DOMAIN services : services[s] = {"initializable"}
  /\ init # "building" => Len(services) = 3
  /\ stop = "none"

Connected ==
  /\ step \in Nat
  /\ db \in DOMAIN services /\ state[db] = "ready" => step >= Dlg!Db!Ready

Serving ==
  serving => Len(services) = 3 /\ state[user_dialog] # "new"

Begun ==
  /\ DOMAIN frame = Updates
  /\ \A u \in Updates : frame[u].pc # "none" => serving

IInv == IP!IInv /\ Three /\ Connected /\ Serving /\ Begun

-----------------------------------------------------------------------------
LEMMA Constants == IP!InventoryAssumption
BY DEF IP!InventoryAssumption

LEMMA ReadyNat == Dlg!Db!Ready = 9 /\ Dlg!Db!Broken = 10
BY DEF Dlg!Db!Ready, Dlg!Db!Broken, Dlg!Db!Statements

(* What the inventory's invariant says of the three services. *)
LEMMA Services ==
  ASSUME IInv, serving
  PROVE  state[tg] = "ready" /\ state[db] = "ready" /\ step >= Dlg!Db!Ready
<1>1. DOMAIN services = 1..3
  BY DEF IInv, IP!IInv, IP!TypeOK, Serving
<1>2. {1, 2, 3} \subseteq IP!Initializables
  BY <1>1 DEF IInv, Three, IP!Initializables, IP!Services, IP!Is
<1>3. state[1] \in IP!Up /\ state[2] \in IP!Up
  BY <1>2 DEF IInv, IP!IInv, IP!InitInOrder, Serving, user_dialog
<1>4. \A s \in {1, 2} : state[s] \notin {"stopping", "stopped"}
  BY <1>1 DEF IInv, IP!IInv, IP!Stopping, IP!Services, Three
<1>5. state[1] = "ready" /\ state[2] = "ready"
  BY <1>3, <1>4 DEF IP!Up
<1> QED BY <1>1, <1>5 DEF IInv, Connected, tg, db

LEMMA InvPrepared == IInv => DialogsPrepared
BY Services DEF IInv, Begun, DialogsPrepared

LEMMA InitInv == Init => IInv
<1> SUFFICES ASSUME Init PROVE IInv
  OBVIOUS
<1>1. IP!IInv
  BY Constants, IP!InitInv DEF Init, Inv!Init, IP!Init
<1>2. Three /\ Connected /\ Serving
  BY DEF Init, Inv!Init, Dlg!Init, Dlg!Db!Init, Three, Connected, Serving
<1>3. Begun
  BY DEF Init, Dlg!Init, Dlg!NoFrame, Begun
<1> QED BY <1>1, <1>2, <1>3 DEF IInv

-----------------------------------------------------------------------------
(* The steps of the inventory, as this module and its proofs define them. *)
Kept == IP!IInv /\ Three

LEMMA KeptType ==
  ASSUME Kept
  PROVE  /\ DOMAIN services = 1..Len(services) /\ Len(services) \in Nat
         /\ Inv!Services = DOMAIN services /\ IP!Services = DOMAIN services
         /\ DOMAIN state = DOMAIN services
BY DEF Kept, IP!IInv, IP!TypeOK, Inv!Services, IP!Services

LEMMA SameStart ==
  ASSUME NEW b, NEW before
  PROVE  Inv!Start(b, before) <=> IP!Start(b, before)
BY DEF Inv!Start, IP!Start, Inv!Initializables, IP!Initializables, Inv!Services,
       IP!Services, Inv!Is, IP!Is, Inv!Past, IP!Past, Inv!End, IP!End

LEMMA MakeKept ==
  ASSUME Kept, Inv!AddService({"initializable"})
  PROVE  Kept' /\ Len(services') <= 3
<1>1. IP!AddService({"initializable"})
  BY DEF Inv!AddService, IP!AddService
<1>2. IP!IInv'
  BY <1>1, Constants, IP!AddServiceInv DEF Kept, IP!Interfaces
<1>3. services \in Seq(SUBSET IP!Interfaces) /\ {"initializable"} \in SUBSET IP!Interfaces
  BY DEF Kept, IP!IInv, IP!TypeOK, IP!Interfaces
<1>4. \A s \in DOMAIN services' : services'[s] = {"initializable"}
  BY <1>3 DEF Kept, Three, Inv!AddService
<1>5. init' = "building" /\ stop' = "none"
  BY DEF Kept, Three, Inv!AddService
<1>6. Len(services') <= 3
  BY <1>2 DEF IP!IInv, IP!TypeOK
<1> QED BY <1>2, <1>4, <1>5, <1>6 DEF Kept, Three

LEMMA AsyncInitKept ==
  ASSUME Kept, Len(services) = 3, Inv!AsyncInit
  PROVE  Kept' /\ services' = services
<1>1. IP!AsyncInit
  BY SameStart DEF Inv!AsyncInit, IP!AsyncInit
<1>2. IP!IInv'
  BY <1>1, Constants, IP!AsyncInitInv DEF Kept
<1> QED BY <1>2 DEF Kept, Three, Inv!AsyncInit

LEMMA InitializedKept ==
  ASSUME Kept, init = "waiting", NEW s \in 1..3, Inv!Initialized(s)
  PROVE  Kept' /\ services' = services
<1>1. IP!Initialized(s)
  BY SameStart DEF Inv!Initialized, IP!Initialized
<1>2. s \in IP!Services
  BY KeptType DEF Kept, Three
<1>3. IP!IInv'
  BY <1>1, <1>2, Constants, IP!InitializedInv DEF Kept
<1>4. UNCHANGED <<services, stop>> /\ Len(services) = 3
  BY DEF Inv!Initialized, Kept, Three
<1> QED BY <1>3, <1>4 DEF Kept, Three

LEMMA InitFailedKept ==
  ASSUME Kept, init = "waiting", NEW s \in 1..3, Inv!InitFailed(s)
  PROVE  Kept' /\ services' = services
<1>1. IP!InitFailed(s)
  BY DEF Inv!InitFailed, IP!InitFailed, Inv!StartFailed, IP!StartFailed
<1>2. s \in IP!Services
  BY KeptType DEF Kept, Three
<1>3. IP!IInv'
  BY <1>1, <1>2, Constants, IP!InitFailedInv DEF Kept
<1>4. UNCHANGED <<services, stop>> /\ Len(services) = 3
  BY DEF Inv!InitFailed, Kept, Three
<1> QED BY <1>3, <1>4 DEF Kept, Three

LEMMA OnInitKept ==
  ASSUME Kept, init = "posted", Inv!OnInit
  PROVE  Kept' /\ UNCHANGED <<services, state>>
<1>1. IP!OnInit
  BY DEF Inv!OnInit, IP!OnInit
<1>2. IP!IInv'
  BY <1>1, Constants, IP!OnInitInv DEF Kept
<1> QED BY <1>2 DEF Kept, Three, Inv!OnInit

LEMMA StutterKept ==
  ASSUME Kept, UNCHANGED invVars
  PROVE  Kept'
<1>1. IP!IInv'
  BY Constants, IP!StutterInv DEF Kept, invVars, IP!vars
<1> QED BY <1>1 DEF Kept, Three, invVars

LEMMA ResetKept ==
  ASSUME Inv!Reset
  PROVE  Kept' /\ services' = <<>>
<1>1. IP!Init'
  BY DEF Inv!Reset, IP!Init
<1>2. IP!Init' => IP!IInv'
  BY Constants, IP!InitInv, PTL
<1> QED BY <1>1, <1>2 DEF Kept, Three, Inv!Reset

-----------------------------------------------------------------------------
(* Starting up.  A step of the inventory after which user_dialog is new    *)
(* exactly if the process does not serve. *)
LEMMA StartingInv ==
  ASSUME IInv, Kept', services' = services, Len(services) = 3,
         serving' = Called(user_dialog), UNCHANGED <<step, frame>>,
         state'[db] = "ready" => state[db] = "ready" \/ step >= Dlg!Db!Ready,
         serving => serving'
  PROVE  IInv'
<1>1. Connected' /\ Serving'
  BY DEF IInv, Connected, Serving, Called
<1>2. Begun'
  BY DEF IInv, Begun
<1> QED BY <1>1, <1>2 DEF IInv, Kept

LEMMA MakeInventoryInv == IInv /\ MakeInventory => IInv'
<1> SUFFICES ASSUME IInv, MakeInventory PROVE IInv'
  OBVIOUS
<1>1. Inv!AddService({"initializable"}) /\ UNCHANGED <<step, frame, serving>>
  BY DEF MakeInventory, dlgVars
<1>2. Kept'
  BY <1>1, MakeKept DEF IInv, Kept
<1>3. ~serving
  <2>1. Len(services) # 3
    BY <1>1, KeptType DEF Inv!AddService, IInv, Kept
  <2> QED BY <2>1 DEF IInv, Serving
<1>4. \A s \in DOMAIN services' : state'[s] = "new"
  <2>1. init' = "building"
    BY <1>1 DEF Inv!AddService
  <2>2. IP!Building' /\ DOMAIN services' = IP!Services'
    BY <1>2 DEF Kept, IP!IInv, IP!Services
  <2> QED BY <2>1, <2>2 DEF IP!Building
<1>5. Connected' /\ Serving' /\ Begun'
  BY <1>1, <1>3, <1>4 DEF IInv, Connected, Serving, Begun
<1> QED BY <1>2, <1>5 DEF IInv, Kept

LEMMA AsyncInitInv == IInv /\ AsyncInit => IInv'
<1> SUFFICES ASSUME IInv, AsyncInit PROVE IInv'
  OBVIOUS
<1>1. Inv!AsyncInit /\ Len(services) = 3 /\ serving' = Called(user_dialog)
      /\ UNCHANGED <<step, frame>>
  BY DEF AsyncInit, KeepsDialogs
<1>2. Kept' /\ services' = services
  BY <1>1, AsyncInitKept DEF IInv, Kept
<1>3. \A s \in 1..3 : state[s] = "new"
  BY <1>1, KeptType DEF IInv, Kept, IP!IInv, IP!Building, Inv!AsyncInit
<1>4. ~serving
  BY <1>3 DEF IInv, Serving, user_dialog
<1>5. state'[db] # "ready"
  BY <1>1, <1>3, KeptType DEF Inv!AsyncInit, Inv!Start, IInv, Kept, db
<1> QED BY <1>1, <1>2, <1>4, <1>5, StartingInv

(* A service that is up or failing: what the others do does not change,    *)
(* but for the one that is asked to initialize next. *)
LEMMA OthersKeep ==
  ASSUME Kept, Len(services) = 3, NEW s \in 1..3, Inv!Initialized(s)
  PROVE  \A t \in 1..3 : /\ t # s /\ state'[t] = "ready" => state[t] = "ready"
                         /\ state[t] # "new" => state'[t] # "new"
<1>1. DOMAIN state = 1..3 /\ Inv!Initializables \subseteq 1..3
  BY KeptType DEF Kept, Inv!Initializables
<1> DEFINE before == [state EXCEPT ![s] = "ready"]
<1>2. Inv!Start(begin, before)
  BY DEF Inv!Initialized
<1> HIDE DEF before
<1>3. \/ state' = before
      \/ \E t \in 1..3 : state' = [before EXCEPT ![t] = "initializing"]
  BY <1>1, <1>2 DEF Inv!Start
<1>4. DOMAIN before = 1..3 /\ before[s] = "ready"
      /\ \A t \in 1..3 : t # s => before[t] = state[t]
  BY <1>1 DEF before
<1> QED BY <1>3, <1>4

LEMMA InitializedInv ==
  ASSUME IInv, init = "waiting", NEW s \in 1..3, Inv!Initialized(s),
         s = db => step = Dlg!Db!Ready,
         serving' = Called(user_dialog), UNCHANGED <<step, frame>>
  PROVE  IInv'
<1>1. Kept' /\ services' = services
  BY InitializedKept DEF IInv, Kept
<1>2. Len(services) = 3
  BY DEF IInv, Three
<1>3. \A t \in 1..3 : /\ t # s /\ state'[t] = "ready" => state[t] = "ready"
                      /\ state[t] # "new" => state'[t] # "new"
  BY <1>2, OthersKeep DEF IInv, Kept
<1>4. state'[db] = "ready" => state[db] = "ready" \/ step >= Dlg!Db!Ready
  BY <1>3, ReadyNat DEF db
<1>5. serving => serving'
  <2>1. serving => state[3] # "new"
    BY DEF IInv, Serving, user_dialog
  <2>2. state[3] # "new" => state'[3] # "new"
    BY <1>3
  <2> QED BY <2>1, <2>2 DEF Called, user_dialog
<1> QED BY <1>1, <1>2, <1>4, <1>5, StartingInv

LEMMA InitFailedInv ==
  ASSUME IInv, init = "waiting", NEW s \in 1..3, Inv!InitFailed(s),
         UNCHANGED <<step, frame, serving>>
  PROVE  IInv'
<1>1. Kept' /\ services' = services
  BY InitFailedKept DEF IInv, Kept
<1>2. Len(services) = 3 /\ DOMAIN state = 1..3
  BY KeptType DEF IInv, Kept, Three
<1>3. state' = [state EXCEPT ![s] = "failed"]
  BY DEF Inv!InitFailed, Inv!StartFailed
<1>4. Connected' /\ Serving'
  BY <1>1, <1>2, <1>3 DEF IInv, Connected, Serving, db, user_dialog
<1>5. Begun'
  BY DEF IInv, Begun
<1> QED BY <1>1, <1>4, <1>5 DEF IInv, Kept

-----------------------------------------------------------------------------
(* Everything else leaves the services alone, or ends the process. *)
LEMMA QuietInv ==
  ASSUME IInv, UNCHANGED <<invVars, serving>>,
         step' \in Nat,
         state[db] = "ready" => step' = step \/ step' >= Dlg!Db!Ready,
         DOMAIN frame' = Updates,
         \A u \in Updates : frame'[u].pc # "none" => frame[u].pc # "none" \/ serving
  PROVE  IInv'
<1>1. Kept' /\ UNCHANGED <<services, state>>
  BY StutterKept DEF IInv, Kept, invVars
<1>2. Connected'
  BY <1>1 DEF IInv, Connected
<1>3. Serving' /\ Begun'
  BY <1>1 DEF IInv, Serving, Begun
<1> QED BY <1>1, <1>2, <1>3 DEF IInv, Kept

LEMMA GoneInv ==
  ASSUME IInv, Gone, NEW code, Dlg!Exit(code)
  PROVE  IInv'
<1>1. Kept' /\ services' = <<>>
  BY ResetKept DEF Gone
<1>2. step' = 0 /\ serving' = FALSE /\ DOMAIN frame' = Updates
      /\ \A u \in Updates : frame'[u].pc = "none"
  BY DEF Dlg!Exit, Dlg!Db!DbReset, Dlg!NoFrame
<1>3. Connected'
  BY <1>1, <1>2 DEF Connected
<1>4. Serving' /\ Begun'
  BY <1>2 DEF Serving, Begun
<1> QED BY <1>1, <1>3, <1>4 DEF IInv, Kept

(* However sendMessage ends, it is one step of the dialog. *)
Sending(u) ==
  /\ \E outcome \in {"lost", "taken"} : Dlg!Message(u, outcome)
  /\ UNCHANGED faults \/ Dlg!Fault

LEMMA SendIs ==
  ASSUME NEW u
  PROVE  Send(u) => Sending(u)
BY DEF Send, Sending, Dlg!MessageSent, Dlg!MessageLost

(* A dialog's step begins no other dialog and does not touch the session. *)
LEMMA DialogStepInv ==
  ASSUME IInv, NEW u \in Updates, DialogStep(u)
  PROVE  IInv'
<1>1. step' = step
  BY SendIs DEF DialogStep, Sending, Dlg!ProcessUpdate, Dlg!GotState, Dlg!StateSet,
         Dlg!Message, Dlg!Query, Dlg!dbVars, Dlg!Db!GetState, Dlg!Db!SetState, Dlg!Db!Execute,
         Dlg!Db!TakeResult, Dlg!Db!Answer, Dlg!Db!AnswerSpoilt, Dlg!Db!AnswerLost
<1>2. UNCHANGED <<invVars, serving>>
  BY SendIs DEF DialogStep, Sending, Dlg!ProcessUpdate, Dlg!GotState, Dlg!StateSet,
         Dlg!Message, Dlg!Query
<1>3. DOMAIN frame' = Updates
      /\ \A v \in Updates : frame'[v].pc # "none" => frame[v].pc # "none"
  <2>1. \/ frame' = frame
        \/ frame[u].pc # "none" /\ \E f : frame' = [frame EXCEPT ![u] = f]
    BY SendIs DEF DialogStep, Sending, Dlg!ProcessUpdate, Dlg!GotState, Dlg!StateSet,
           Dlg!Message, Dlg!Query, Dlg!At
  <2>2. CASE frame[u].pc # "none" /\ \E f : frame' = [frame EXCEPT ![u] = f]
    BY <2>2 DEF IInv, Begun
  <2> QED BY <2>1, <2>2 DEF IInv, Begun
<1> QED BY <1>1, <1>2, <1>3, QuietInv DEF IInv, Connected

LEMMA DispatchInv == IInv /\ Dispatch => IInv'
<1> SUFFICES ASSUME IInv, Dispatch PROVE IInv'
  OBVIOUS
<1>1. UNCHANGED <<invVars, serving, step>> /\ serving /\ DOMAIN frame' = DOMAIN frame
  BY DEF Dispatch, Dlg!OnUpdate, Dlg!dbVars
<1> QED BY <1>1, QuietInv DEF IInv, Connected, Begun

LEMMA LoseDatabaseInv == IInv /\ LoseDatabase => IInv'
<1> SUFFICES ASSUME IInv, LoseDatabase PROVE IInv'
  OBVIOUS
<1>1. UNCHANGED <<invVars, serving, frame>> /\ step' = Dlg!Db!Broken
  BY DEF LoseDatabase, Dlg!LoseDatabase, Dlg!Db!DbLost
<1> QED BY <1>1, ReadyNat, QuietInv DEF IInv, Begun

(* The statements of async_init run while db is initializing. *)
LEMMA DbBootInv == IInv /\ DbBoot => IInv'
<1> SUFFICES ASSUME IInv, DbBoot PROVE IInv'
  OBVIOUS
<1>1. UNCHANGED <<invVars, serving, frame>> /\ state[db] # "ready"
  BY DEF DbBoot, Dlg!Boot
<1>2. step' \in Nat
  BY ReadyNat DEF DbBoot, Dlg!Boot, Dlg!Db!DbConnect, Dlg!Db!InitStatement, IInv, Connected
<1> QED BY <1>1, <1>2, QuietInv DEF IInv, Begun

(* Arrivals, what the API forgets and what becomes of the source. *)
LEMMA OutsideInv == IInv /\ (Arrive \/ Forget \/ Strand \/ LoseLink) => IInv'
<1> SUFFICES ASSUME IInv, Arrive \/ Forget \/ Strand \/ LoseLink PROVE IInv'
  OBVIOUS
<1>1. UNCHANGED <<invVars, serving, frame, step>>
  BY DEF Arrive, Forget, Strand, LoseLink, dlgVars
<1> QED BY <1>1, QuietInv DEF IInv, Connected, Begun

LEMMA StartUpInv == IInv /\ StartUp => IInv'
<1> SUFFICES ASSUME IInv, StartUp PROVE IInv'
  OBVIOUS
<1> USE DEF tg, db, user_dialog
<1>1. CASE MakeInventory
  BY <1>1, MakeInventoryInv
<1>2. CASE AsyncInit
  BY <1>2, AsyncInitInv
<1>3. CASE TgUp
  BY <1>3, InitializedInv DEF TgUp, KeepsDialogs
<1>4. CASE DbBoot
  BY <1>4, DbBootInv
<1>5. CASE DbUp
  BY <1>5, InitializedInv DEF DbUp, KeepsDialogs
<1>7. CASE DialogsUp
  <2>1. Inv!Initialized(3) /\ init = "waiting" /\ UNCHANGED <<step, frame, serving>>
    BY <1>7 DEF DialogsUp, dlgVars
  <2>2. Len(services) = 3
    BY <2>1 DEF IInv, Three
  <2>3. Kept' /\ services' = services
    BY <2>1, InitializedKept DEF IInv, Kept
  <2>4. \A t \in 1..3 : /\ t # 3 /\ state'[t] = "ready" => state[t] = "ready"
                        /\ state[t] # "new" => state'[t] # "new"
    BY <2>1, <2>2, OthersKeep DEF IInv, Kept
  <2>5. Connected'
    BY <2>1, <2>3, <2>4 DEF IInv, Connected
  <2>6. Serving' /\ Begun'
    BY <2>1, <2>3, <2>4 DEF IInv, Serving, Begun
  <2> QED BY <2>3, <2>5, <2>6 DEF IInv, Kept
<1>8. CASE OnInit
  <2>1. Kept' /\ UNCHANGED <<services, state>> /\ UNCHANGED <<step, frame, serving>>
    BY <1>8, OnInitKept DEF OnInit, dlgVars, IInv, Kept
  <2>2. Connected'
    BY <2>1 DEF IInv, Connected
  <2>3. Serving' /\ Begun'
    BY <2>1 DEF IInv, Serving, Begun
  <2> QED BY <2>1, <2>2, <2>3 DEF IInv, Kept
<1>9. CASE InitRaised
  BY <1>9, GoneInv DEF InitRaised
<1> QED BY <1>1, <1>2, <1>3, <1>4, <1>5, <1>7, <1>8, <1>9 DEF StartUp

LEMMA NextInv == IInv /\ [Next]_vars => IInv'
<1> SUFFICES ASSUME IInv, [Next]_vars PROVE IInv'
  OBVIOUS
<1>1. CASE StartUp
  BY <1>1, StartUpInv
<1>2. CASE TgFails \/ DbFails
  BY <1>2, InitFailedInv DEF TgFails, DbFails, tg, db, dlgVars
<1>3. CASE PollRaised
  BY <1>3, GoneInv DEF PollRaised
<1>4. CASE Kill
  BY <1>4, GoneInv DEF Kill, Dlg!Kill
<1>5. CASE Arrive \/ Forget \/ Strand \/ LoseLink
  BY <1>5, OutsideInv
<1>6. CASE Dispatch
  BY <1>6, DispatchInv
<1>7. CASE LoseDatabase
  BY <1>7, LoseDatabaseInv
<1>8. CASE \E u \in Updates : DialogStep(u)
  BY <1>8, DialogStepInv
<1>9. CASE \E u \in Updates : StateUnusable(u)
  BY <1>9, GoneInv DEF StateUnusable, Dlg!StateUnusable
<1>10. CASE UNCHANGED vars
  BY <1>10, QuietInv DEF vars, dlgVars, IInv, Connected, Begun
<1> QED BY <1>1, <1>2, <1>3, <1>4, <1>5, <1>6, <1>7, <1>8, <1>9, <1>10 DEF Next

(* Whatever overlaps, fails or is started again, a dialog only runs on top *)
(* of a connection that is up and a session whose statements are prepared. *)
THEOREM NoDialogUnprepared == Spec => []DialogsPrepared
<1>1. Init => IInv
  BY InitInv
<1>2. IInv /\ [Next]_vars => IInv'
  BY NextInv
<1>3. IInv => DialogsPrepared
  BY InvPrepared
<1> QED BY <1>1, <1>2, <1>3, PTL DEF Spec

-----------------------------------------------------------------------------
(* A process has dialogs only for updates up to the last one it was called *)
(* with; the feed goes on after that one.                                  *)
UpToCursor ==
  /\ cursor \in Nat /\ arrived \in Nat
  /\ DOMAIN frame = Updates
  /\ \A u \in Updates : /\ "pc" \in DOMAIN frame[u]
                        /\ frame[u].pc # "none" => u <= cursor

OnceStep ==
  \A u \in Updates :
    frame[u].pc # "none" => frame'[u].pc # "start" \/ UNCHANGED frame[u]

LEMMA FrameStaysOnce ==
  ASSUME UpToCursor, UNCHANGED <<cursor, frame>>, arrived' \in Nat
  PROVE  UpToCursor' /\ OnceStep
BY DEF UpToCursor, OnceStep

LEMMA GoneOnce ==
  ASSUME UpToCursor, Gone, NEW code, Dlg!Exit(code)
  PROVE  UpToCursor' /\ OnceStep
<1>1. cursor' = 0 /\ arrived' = arrived
  BY DEF Gone, Feed!Restart
<1>2. DOMAIN frame' = Updates /\ \A u \in Updates : frame'[u] = Dlg!NoFrame
  BY DEF Dlg!Exit
<1>3. \A u \in Updates : frame'[u].pc = "none" /\ "pc" \in DOMAIN frame'[u]
  BY <1>2 DEF Dlg!NoFrame
<1> QED BY <1>1, <1>2, <1>3 DEF UpToCursor, OnceStep

LEMMA DispatchOnce ==
  ASSUME UpToCursor, Dispatch
  PROVE  UpToCursor' /\ OnceStep
<1>1. cursor' \in 1..arrived /\ cursor' > cursor /\ arrived' = arrived
  BY DEF Dispatch, Feed!Dispatch, Feed!Later
<1>2. PICK f : frame' = [frame EXCEPT ![cursor'] = f] /\ "pc" \in DOMAIN f
  <2> DEFINE f == [Dlg!NoFrame EXCEPT !.pc = "start",
                     !.user = content[cursor'].user, !.kind = content[cursor'].kind]
  <2>1. frame' = [frame EXCEPT ![cursor'] = f]
    BY DEF Dispatch, Dlg!OnUpdate
  <2>2. "pc" \in DOMAIN f
    BY DEF Dlg!NoFrame
  <2> HIDE DEF f
  <2> QED BY <2>1, <2>2
<1>3. /\ DOMAIN frame' = Updates
      /\ \A u \in Updates : \/ u = cursor' /\ frame'[u] = f
                            \/ u # cursor' /\ frame'[u] = frame[u]
  BY <1>2 DEF UpToCursor
<1>4. \A u \in Updates : frame[u].pc # "none" => u # cursor'
  BY <1>1 DEF UpToCursor, Updates
<1>5. UpToCursor'
  BY <1>1, <1>2, <1>3 DEF UpToCursor, Updates
<1>6. OnceStep
  BY <1>3, <1>4 DEF OnceStep
<1> QED BY <1>5, <1>6

LEMMA DialogStepOnce ==
  ASSUME UpToCursor, NEW v \in Updates, DialogStep(v)
  PROVE  UpToCursor' /\ OnceStep
<1>1. UNCHANGED <<cursor, arrived>>
  BY DEF DialogStep, feedVars
<1>2. \/ frame' = frame
      \/ /\ frame[v].pc # "none"
         /\ \E f : /\ frame' = [frame EXCEPT ![v] = f]
                   /\ "pc" \in DOMAIN f /\ f.pc # "start"
  <2> USE DEF UpToCursor
  <2>1. CASE Dlg!ProcessUpdate(v)
    BY <2>1 DEF Dlg!ProcessUpdate, Dlg!At
  <2>2. CASE Dlg!GotState(v)
    <3>1. CASE Dlg!At(v, "ended")
      BY <2>2, <3>1 DEF Dlg!GotState, Dlg!At
    <3>2. CASE \E pc \in {"set", "send"} : \E reply :
                 frame' = [frame EXCEPT ![v] =
                             [@ EXCEPT !.pc = pc, !.reply = reply]]
      BY <2>2, <3>2 DEF Dlg!GotState
    <3> QED BY <2>2, <3>1, <3>2 DEF Dlg!GotState
  <2>3. CASE Dlg!StateSet(v)
    <3>1. Dlg!AfterSet(v) # "start"
      BY DEF Dlg!AfterSet
    <3> QED BY <2>3, <3>1 DEF Dlg!StateSet, Dlg!At
  <2>4. CASE Send(v)
    <3>1. PICK outcome \in {"lost", "taken"} : Dlg!Message(v, outcome)
      BY <2>4, SendIs DEF Sending
    <3> DEFINE f == [frame[v] EXCEPT !.pc = "ended", !.message = outcome]
    <3>2. frame' = [frame EXCEPT ![v] = f] /\ frame[v].pc # "none"
      BY <3>1 DEF Dlg!Message
    <3>3. "pc" \in DOMAIN f /\ f.pc # "start"
      OBVIOUS
    <3> HIDE DEF f
    <3> QED BY <3>2, <3>3
  <2>5. CASE Dlg!Query(v)
    BY <2>5 DEF Dlg!Query
  <2> QED BY <2>1, <2>2, <2>3, <2>4, <2>5 DEF DialogStep
<1>3. CASE frame' = frame
  BY <1>1, <1>3, FrameStaysOnce DEF UpToCursor
<1>4. CASE /\ frame[v].pc # "none"
           /\ \E f : /\ frame' = [frame EXCEPT ![v] = f]
                     /\ "pc" \in DOMAIN f /\ f.pc # "start"
  <2>1. PICK f : /\ frame' = [frame EXCEPT ![v] = f]
                 /\ "pc" \in DOMAIN f /\ f.pc # "start"
    BY <1>4
  <2>2. /\ DOMAIN frame' = Updates
        /\ \A u \in Updates : \/ u = v /\ frame'[u] = f
                              \/ u # v /\ frame'[u] = frame[u]
    BY <2>1 DEF UpToCursor
  <2> QED BY <1>1, <1>4, <2>1, <2>2 DEF UpToCursor, OnceStep
<1> QED BY <1>2, <1>3, <1>4

LEMMA NextOnce ==
  ASSUME UpToCursor, [Next]_vars
  PROVE  UpToCursor' /\ OnceStep
<1>1. CASE /\ StartUp \/ TgFails \/ DbFails \/ Arrive \/ Forget \/ Strand \/ LoseLink
                     \/ LoseDatabase \/ UNCHANGED vars
           /\ ~InitRaised
  <2>1. UNCHANGED <<cursor, frame>>
    BY <1>1 DEF StartUp, MakeInventory, AsyncInit, TgUp, DbBoot, DbUp, DbFails,
           DialogsUp, OnInit, TgFails, Arrive, Forget, Strand, LoseLink, LoseDatabase,
           feedVars, dlgVars, vars, KeepsDialogs, Dlg!Boot, Dlg!LoseDatabase,
           Feed!Arrive, Feed!Forget
  <2>2. arrived' = arrived \/ arrived' = arrived + 1
    BY <1>1 DEF StartUp, MakeInventory, AsyncInit, TgUp, DbBoot, DbUp, DbFails,
           DialogsUp, OnInit, TgFails, Arrive, Forget, Strand, LoseLink, LoseDatabase,
           feedVars, vars, Feed!Arrive, Feed!Forget
  <2> QED BY <2>1, <2>2, FrameStaysOnce DEF UpToCursor
<1>2. CASE InitRaised
  BY <1>2, GoneOnce DEF InitRaised
<1>3. CASE PollRaised
  BY <1>3, GoneOnce DEF PollRaised
<1>4. CASE Kill
  BY <1>4, GoneOnce DEF Kill, Dlg!Kill
<1>5. CASE \E u \in Updates : StateUnusable(u)
  BY <1>5, GoneOnce DEF StateUnusable, Dlg!StateUnusable
<1>6. CASE Dispatch
  BY <1>6, DispatchOnce
<1>7. CASE \E u \in Updates : DialogStep(u)
  BY <1>7, DialogStepOnce
<1> QED BY <1>1, <1>2, <1>3, <1>4, <1>5, <1>6, <1>7 DEF Next

(* One process begins with an update once, so a reply is repeated only     *)
(* after a restart, for any number of updates, users and faults.           *)
THEOREM HandledOnce == Spec => OncePerProcess
<1>1. Init => UpToCursor
  BY DEF Init, Feed!Init, Dlg!Init, Dlg!NoFrame, UpToCursor
<1>2. UpToCursor /\ [Next]_vars => UpToCursor' /\ OnceStep
  BY NextOnce
<1>3. UpToCursor /\ [Next]_vars
        => [\A u \in Updates :
              frame[u].pc # "none" =>
                frame'[u].pc # "start" \/ UNCHANGED frame[u]]_vars
  BY <1>2 DEF OnceStep
<1>4. UpToCursor /\ [Next]_vars => UpToCursor'
  BY <1>2
<1> QED BY <1>1, <1>3, <1>4, PTL DEF Spec, OncePerProcess
-----------------------------------------------------------------------------
(* The dialogs of the whole process take the steps that UserDialogProofs   *)
(* is about, so what it proves of rows, statements and replies holds here. *)
UP == INSTANCE UserDialogProofs WITH Dialogs <- Updates

LEMMA DialogConstants == UP!UserDialogAssumption
BY BotAssumption DEF UP!UserDialogAssumption, Dlg!Db!DatabaseAssumption,
                     UP!Db!DatabaseAssumption

LEMMA SameProcess ==
  /\ Dlg!Fault <=> UP!Fault
  /\ \A code : Dlg!Exit(code) <=> UP!Exit(code)
  /\ Dlg!Boot => UP!Boot
  /\ Dlg!LoseDatabase => UP!LoseDatabase
<1>1. Dlg!Fault <=> UP!Fault
  BY DEF Dlg!Fault, UP!Fault
<1>2. \A code : Dlg!Exit(code) <=> UP!Exit(code)
  BY DEF Dlg!Exit, UP!Exit, Dlg!Db!DbReset, UP!Db!DbReset, Dlg!NoFrame, UP!NoFrame,
         Dlg!Db!NoQuery, UP!Db!NoQuery
<1>3. Dlg!Db!Statements = UP!Db!Statements
  BY DEF Dlg!Db!Statements, UP!Db!Statements, Dlg!Db!Statement, UP!Db!Statement,
         Dlg!Db!CreateTables, UP!Db!CreateTables
<1>4. Dlg!Db!Broken = UP!Db!Broken
  BY <1>3 DEF Dlg!Db!Broken, UP!Db!Broken, Dlg!Db!Ready, UP!Db!Ready
<1>5. Dlg!Db!DbConnect => UP!Db!DbConnect
  BY DEF Dlg!Db!DbConnect, UP!Db!DbConnect
<1>6. Dlg!Db!InitStatement => UP!Db!InitStatement
  BY <1>3, <1>4 DEF Dlg!Db!InitStatement, UP!Db!InitStatement, Dlg!Db!NeedsMet,
         UP!Db!NeedsMet, Dlg!Db!SessionThings, UP!Db!SessionThings
<1>7. Dlg!Db!DbLost => UP!Db!DbLost
  BY <1>4 DEF Dlg!Db!DbLost, UP!Db!DbLost
<1> QED BY <1>1, <1>2, <1>5, <1>6, <1>7 DEF Dlg!Boot, UP!Boot, Dlg!LoseDatabase,
           UP!LoseDatabase

LEMMA SameDatabase ==
  ASSUME NEW d \in Updates
  PROVE  /\ \A u : Dlg!Db!GetState(d, u) => UP!Db!GetState(d, u)
         /\ \A u, val : Dlg!Db!SetState(d, u, val) => UP!Db!SetState(d, u, val)
         /\ Dlg!Db!TakeResult(d) => UP!Db!TakeResult(d)
         /\ Dlg!Db!Answer(d) => UP!Db!Answer(d)
         /\ Dlg!Db!AnswerSpoilt(d) => UP!Db!AnswerSpoilt(d)
         /\ Dlg!Db!AnswerLost(d) => UP!Db!AnswerLost(d)
<1>1. Dlg!Db!NoQuery = UP!Db!NoQuery
  BY DEF Dlg!Db!NoQuery, UP!Db!NoQuery
<1>2. \A op, u, val : Dlg!Db!Issued(op, u, val) = UP!Db!Issued(op, u, val)
  BY <1>1 DEF Dlg!Db!Issued, UP!Db!Issued
<1>3. \A q, ec, res : Dlg!Db!Finished(q, ec, res) = UP!Db!Finished(q, ec, res)
  BY DEF Dlg!Db!Finished, UP!Db!Finished
<1>4. Dlg!Db!Outstanding = UP!Db!Outstanding
  BY DEF Dlg!Db!Outstanding, UP!Db!Outstanding
<1>5. \A q : Dlg!Db!Execute(d, q) => UP!Db!Execute(d, q)
  BY <1>3, <1>4 DEF Dlg!Db!Execute, UP!Db!Execute
<1>6. \A u, val : /\ Dlg!Db!SetStateBound(u, val) = UP!Db!SetStateBound(u, val)
                  /\ Dlg!Db!SetStateRefused(u, val) = UP!Db!SetStateRefused(u, val)
  BY DEF Dlg!Db!SetStateBound, UP!Db!SetStateBound, Dlg!Db!Update, UP!Db!Update,
         Dlg!Db!SetStateRefused, UP!Db!SetStateRefused, Dlg!Db!UpdateRefused,
         UP!Db!UpdateRefused
<1>7. \A u : Dlg!Db!StateOf(u) = UP!Db!StateOf(u)
  BY DEF Dlg!Db!StateOf, UP!Db!StateOf
<1>8. Dlg!Db!Ready = UP!Db!Ready /\ Dlg!Db!Broken = UP!Db!Broken
  BY ReadyNat DEF UP!Db!Ready, UP!Db!Broken, UP!Db!Statements
<1>9. Dlg!Db!Values = UP!Db!Values
  BY DEF Dlg!Db!Values, UP!Db!Values
<1>10. /\ \A u : Dlg!Db!GetState(d, u) => UP!Db!GetState(d, u)
       /\ \A u, val : Dlg!Db!SetState(d, u, val) => UP!Db!SetState(d, u, val)
  BY <1>2, <1>5 DEF Dlg!Db!GetState, UP!Db!GetState, Dlg!Db!SetState, UP!Db!SetState
<1>11. Dlg!Db!TakeResult(d) => UP!Db!TakeResult(d)
  BY <1>1 DEF Dlg!Db!TakeResult, UP!Db!TakeResult
<1>12. Dlg!Db!Answer(d) => UP!Db!Answer(d)
  BY <1>3, <1>6, <1>7, <1>8 DEF Dlg!Db!Answer, UP!Db!Answer
<1>13. Dlg!Db!AnswerSpoilt(d) => UP!Db!AnswerSpoilt(d)
  BY <1>3, <1>6, <1>8, <1>9 DEF Dlg!Db!AnswerSpoilt, UP!Db!AnswerSpoilt
<1>14. Dlg!Db!AnswerLost(d) => UP!Db!AnswerLost(d)
  BY <1>3, <1>6, <1>8 DEF Dlg!Db!AnswerLost, UP!Db!AnswerLost
<1> QED BY <1>10, <1>11, <1>12, <1>13, <1>14

LEMMA SameSteps ==
  ASSUME NEW d \in Updates
  PROVE  /\ \A u, kind : Dlg!OnUpdate(d, u, kind) => UP!OnUpdate(d, u, kind)
         /\ Dlg!ProcessUpdate(d) => UP!ProcessUpdate(d)
         /\ Dlg!GotState(d) => UP!GotState(d)
         /\ Dlg!StateSet(d) => UP!StateSet(d)
         /\ Sending(d) => UP!Sends(d)
         /\ Dlg!Query(d) => UP!Query(d)
         /\ Dlg!StateUnusable(d) => UP!StateUnusable(d)
<1>1. \A pc : Dlg!At(d, pc) <=> UP!At(d, pc)
  BY DEF Dlg!At, UP!At
<1>2. \A n : Dlg!ReplyTo(Dlg!Decode(Dlg!ToUint8(n))) = UP!ReplyTo(UP!Decode(UP!ToUint8(n)))
  <2>1. \A n : Dlg!ToUint8(n) = UP!ToUint8(n)
    BY DEF Dlg!ToUint8, UP!ToUint8
  <2>2. \A raw : Dlg!ReplyTo(Dlg!Decode(raw)) = UP!ReplyTo(UP!Decode(raw))
    BY DEF Dlg!ReplyTo, UP!ReplyTo, Dlg!Decode, UP!Decode
  <2> QED BY <2>1, <2>2
<1>3. /\ \A q : Dlg!Unusable(q) <=> UP!Unusable(q)
      /\ \A res : Dlg!UnusableCode(res) = UP!UnusableCode(res)
      /\ Dlg!initial = UP!initial
      /\ Dlg!AfterSet(d) = UP!AfterSet(d)
      /\ Dlg!NoFrame = UP!NoFrame
  BY DEF Dlg!Unusable, UP!Unusable, Dlg!UnusableCode, UP!UnusableCode, Dlg!initial, UP!initial, Dlg!AfterSet, UP!AfterSet,
         Dlg!NoFrame, UP!NoFrame
<1>11. Dlg!Clash(d) = UP!Clash(d)
  BY DEF Dlg!Clash, UP!Clash, Dlg!Db!Outstanding, UP!Db!Outstanding
<1>4. \A u, kind : Dlg!OnUpdate(d, u, kind) => UP!OnUpdate(d, u, kind)
  BY <1>3 DEF Dlg!OnUpdate, UP!OnUpdate, Dlg!dbVars, UP!dbVars
<1>5. Dlg!ProcessUpdate(d) => UP!ProcessUpdate(d)
  BY <1>1, <1>11, SameDatabase DEF Dlg!ProcessUpdate, UP!ProcessUpdate, Dlg!dbVars, UP!dbVars
<1>6. Dlg!GotState(d) => UP!GotState(d)
  BY <1>1, <1>2, <1>3, <1>11, SameDatabase DEF Dlg!GotState, UP!GotState
<1>7. Dlg!StateSet(d) => UP!StateSet(d)
  BY <1>1, <1>3, SameDatabase DEF Dlg!StateSet, UP!StateSet
<1>8. Sending(d) => UP!Sends(d)
  BY SameProcess DEF Sending, UP!Sends, Dlg!Message, UP!Message, Dlg!dbVars, UP!dbVars
<1>9. Dlg!Query(d) => UP!Query(d)
  BY SameDatabase DEF Dlg!Query, UP!Query
<1>10. Dlg!StateUnusable(d) => UP!StateUnusable(d)
  BY <1>3, SameProcess DEF Dlg!StateUnusable, UP!StateUnusable
<1> QED BY <1>4, <1>5, <1>6, <1>7, <1>8, <1>9, <1>10

(* A dialog belongs to an update that was handed out and to its user. *)
Owned ==
  /\ arrived \in 0..MaxUpdate /\ seen \in 0..arrived /\ cursor \in 0..seen
  /\ content \in Seq([user: Users, kind: Dlg!Kinds]) /\ Len(content) = arrived
  /\ \A u \in Updates :
       frame[u].pc # "none" => u <= cursor /\ frame[u].user = content[u].user

DialogsKept == Owned /\ UP!IInv /\ UP!Ordered

DialogInv == DialogsKept /\ \A u \in Updates : UP!Told(u)

LEMMA DialogType ==
  ASSUME DialogsKept
  PROVE  /\ frame \in [Updates -> UP!Frame] /\ faults \in Nat
         /\ UP!TypeOK /\ \A u \in Updates : UP!Linked(u)
<1>1. UP!TypeOK /\ \A u \in Updates : UP!Linked(u)
  BY DEF DialogsKept, UP!IInv
<1> QED BY <1>1, BotAssumption DEF UP!TypeOK

LEMMA Element ==
  ASSUME NEW R, NEW s \in Seq(R), NEW k \in 1..Len(s)
  PROVE  s[k] \in R
OBVIOUS

LEMMA HandedOut ==
  ASSUME Owned, Dispatch
  PROVE  /\ cursor' \in Updates /\ cursor' \in 1..arrived
         /\ content[cursor'] \in [user: Users, kind: Dlg!Kinds]
<1>1. PICK k \in 1..arrived : k = cursor'
  BY DEF Dispatch, Feed!Dispatch
<1>2. k \in Updates
  BY <1>1, BotAssumption DEF Owned, Updates
<1>3. content[k] \in [user: Users, kind: Dlg!Kinds]
  BY <1>1, Element DEF Owned
<1> QED BY <1>1, <1>2, <1>3

LEMMA NextIsDialogStep ==
  ASSUME DialogsKept, [Next]_vars
  PROVE  UP!Step
<1> USE SameProcess
<1>1. CASE UNCHANGED dlgVars
  BY <1>1, DialogType DEF dlgVars, UP!Step, UP!Around, UP!dbVars, UP!TypeOK
<1>2. CASE KeepsDialogs /\ serving' = Called(user_dialog)
  BY <1>2 DEF KeepsDialogs, Called, UP!Step, UP!Around, UP!dbVars
<1>3. CASE TgFails \/ LoseLink
  BY <1>3, DialogType DEF TgFails, LoseLink, UP!Step, UP!Around, UP!dbVars, UP!TypeOK
<1>4. CASE DbBoot
  BY <1>4 DEF DbBoot, UP!Step
<1>5. CASE LoseDatabase
  BY <1>5 DEF LoseDatabase, UP!Step
<1>6. CASE InitRaised \/ PollRaised \/ Kill
  <2>1. \E code \in UP!Codes : UP!Exit(code) /\ (UNCHANGED faults \/ UP!Fault)
    BY <1>6 DEF InitRaised, PollRaised, Kill, Dlg!Kill, UP!Codes
  <2> QED BY <2>1 DEF UP!Step, UP!Ends
<1>7. ASSUME NEW u \in Updates, StateUnusable(u)
      PROVE  UP!Step
  <2>1. \E code \in UP!Codes : UP!Exit(code) /\ UNCHANGED faults
    BY <1>7 DEF StateUnusable, Dlg!StateUnusable, Dlg!UnusableCode, UP!Codes
  <2> QED BY <2>1 DEF UP!Step, UP!Ends
<1>8. CASE Dispatch
  <2>1. /\ content[cursor'].user \in Users /\ content[cursor'].kind \in UP!Kinds
        /\ cursor' \in Updates
    BY <1>8, HandedOut DEF DialogsKept, Dlg!Kinds, UP!Kinds
  <2>2. UP!OnUpdate(cursor', content[cursor'].user, content[cursor'].kind)
    BY <1>8, <2>1, SameSteps DEF Dispatch
  <2> QED BY <2>1, <2>2 DEF UP!Step, UP!DialogStep
<1>9. ASSUME NEW u \in Updates, DialogStep(u)
      PROVE  UP!Step
  BY <1>9, SameSteps, SendIs DEF DialogStep, UP!Step, UP!DialogStep
<1> QED BY <1>1, <1>2, <1>3, <1>4, <1>5, <1>6, <1>7, <1>8, <1>9
        DEF Next, StartUp, MakeInventory, AsyncInit, TgUp, DbUp, DbFails, DialogsUp,
            OnInit, Arrive, Forget, Strand, vars

LEMMA GoneOwned ==
  ASSUME Owned, Gone, NEW code, Dlg!Exit(code)
  PROVE  Owned'
<1>1. cursor' = 0 /\ UNCHANGED <<arrived, seen, content>>
  BY DEF Gone, Feed!Restart
<1>2. \A u \in Updates : frame'[u].pc = "none"
  BY DEF Dlg!Exit, Dlg!NoFrame
<1> QED BY <1>1, <1>2 DEF Owned

LEMMA DispatchOwned ==
  ASSUME Owned, frame \in [Updates -> UP!Frame], Dispatch
  PROVE  Owned'
<1>1. PICK k \in Updates : k = cursor' /\ k \in 1..arrived
  BY HandedOut
<1> DEFINE f == [Dlg!NoFrame EXCEPT !.pc = "start", !.user = content[k].user,
                                    !.kind = content[k].kind]
<1>2. frame' = [frame EXCEPT ![k] = f] /\ UNCHANGED <<content, arrived>>
  BY <1>1 DEF Dispatch, Dlg!OnUpdate, Feed!Dispatch, botVars
<1>3. f.user = content[k].user
  BY DEF Dlg!NoFrame
<1>4. k > cursor /\ seen' \in {seen, k} /\ seen' >= k /\ seen' >= seen
  BY <1>1 DEF Dispatch, Feed!Dispatch, Feed!Later, Feed!Adjoins, Feed!Larger, Owned
<1>5. \A u \in Updates : frame'[u].pc # "none" => u <= k /\ frame'[u].user = content[u].user
  <2> HIDE DEF f
  <2>1. \A u \in Updates : u # k => frame'[u] = frame[u]
    BY <1>2
  <2>2. frame'[k].user = content[k].user
    BY <1>2, <1>3
  <2>3. \A u \in Updates : u <= cursor => u <= k
    BY <1>1, <1>4 DEF Owned, Updates
  <2> QED BY <2>1, <2>2, <2>3 DEF Owned, Updates
<1>6. seen' \in 0..arrived /\ k \in 0..seen'
  BY <1>1, <1>4 DEF Owned
<1> QED BY <1>1, <1>2, <1>5, <1>6 DEF Owned

LEMMA ArriveOwned ==
  ASSUME Owned, Arrive
  PROVE  Owned'
<1> DEFINE R == [user: Users, kind: Dlg!Kinds]
<1>1. PICK e \in R : content' = Append(content, e)
  BY DEF Arrive
<1>2. arrived' = arrived + 1 /\ arrived < MaxUpdate /\ UNCHANGED <<cursor, seen, frame>>
  BY DEF Arrive, Feed!Arrive, dlgVars
<1>3. content \in Seq(R) /\ Len(content) = arrived /\ arrived \in 0..MaxUpdate
  BY DEF Owned
<1> HIDE DEF R
<1>4. /\ content' \in Seq(R) /\ Len(content') = arrived'
      /\ \A k \in 1..arrived : content'[k] = content[k]
  BY <1>1, <1>2, <1>3
<1>5. \A u \in Updates : u <= cursor => content'[u] = content[u]
  BY <1>4 DEF Owned, Updates
<1>6. arrived' \in 0..MaxUpdate /\ seen' \in 0..arrived' /\ cursor' \in 0..seen'
  BY <1>2, BotAssumption DEF Owned
<1>7. \A u \in Updates :
        frame'[u].pc # "none" => u <= cursor' /\ frame'[u].user = content'[u].user
  BY <1>2, <1>5 DEF Owned
<1> QED BY <1>4, <1>6, <1>7 DEF Owned, R

LEMMA NextOwned ==
  ASSUME DialogsKept, [Next]_vars
  PROVE  Owned'
<1> USE DialogConstants
<1>1. CASE UNCHANGED <<arrived, seen, cursor, content, frame>>
  BY <1>1 DEF DialogsKept, Owned
<1>2. CASE InitRaised \/ PollRaised \/ Kill \/ \E u \in Updates : StateUnusable(u)
  <2>1. Gone /\ \E code : Dlg!Exit(code)
    BY <1>2 DEF InitRaised, PollRaised, Kill, Dlg!Kill, StateUnusable, Dlg!StateUnusable
  <2> QED BY <2>1, GoneOwned DEF DialogsKept
<1>3. CASE Dispatch
  BY <1>3, DispatchOwned, DialogType DEF DialogsKept
<1>4. CASE Arrive
  BY <1>4, ArriveOwned DEF DialogsKept
<1>5. ASSUME NEW u \in Updates, DialogStep(u)
      PROVE  Owned'
  <2>1. \A v \in Updates : /\ frame'[v].user = frame[v].user
                           /\ frame'[v].pc # "none" => frame[v].pc # "none"
    <3>1. \/ UP!ProcessUpdate(u) \/ UP!GotState(u) \/ UP!StateSet(u) \/ UP!Sends(u)
          \/ UP!Query(u)
      BY <1>5, SameSteps, SendIs DEF DialogStep
    <3> QED BY <3>1, UP!UsersStay DEF DialogsKept
  <2>2. UNCHANGED <<arrived, seen, cursor, content>>
    BY <1>5 DEF DialogStep, feedVars, botVars
  <2> QED BY <2>1, <2>2 DEF DialogsKept, Owned
<1> QED BY <1>1, <1>2, <1>3, <1>4, <1>5
        DEF Next, StartUp, MakeInventory, AsyncInit, TgUp, TgFails, DbBoot, Dlg!Boot, DbUp,
            DbFails, DialogsUp, OnInit, Forget, Feed!Forget, Strand, LoseLink, LoseDatabase,
            Dlg!LoseDatabase, KeepsDialogs, feedVars, dlgVars, botVars, vars

LEMMA NextDialogsKept ==
  ASSUME DialogsKept, [Next]_vars
  PROVE  DialogsKept'
<1>1. UP!Step
  BY NextIsDialogStep
<1>2. UP!IInv' /\ UP!Ordered'
  BY <1>1, DialogConstants, UP!Inductive, UP!OrderedSteps DEF DialogsKept
<1> QED BY <1>2, NextOwned DEF DialogsKept

LEMMA NextDialogInv ==
  ASSUME Overlap = "rejected", DialogInv, [Next]_vars
  PROVE  DialogInv'
<1>1. UP!Step
  BY NextIsDialogStep DEF DialogInv
<1>2. (\A u \in Updates : UP!Told(u))'
  BY <1>1, DialogConstants, UP!ToldSteps DEF DialogInv, DialogsKept
<1> QED BY <1>2, NextDialogsKept DEF DialogInv

LEMMA InitDialogInv ==
  ASSUME Init
  PROVE  DialogInv
<1>1. UP!Init
  BY DEF Init, Dlg!Init, UP!Init, Dlg!Db!Init, UP!Db!Init, Dlg!NoFrame, UP!NoFrame,
         Dlg!Db!NoQuery, UP!Db!NoQuery, Dlg!Db!Tables, UP!Db!Tables
<1>2. UP!IInv /\ \A u \in Updates : UP!Told(u)
  BY <1>1, DialogConstants, UP!Initially, UP!ToldInit
<1>3. UP!Ordered
  BY <1>1 DEF UP!Init, UP!Db!Init, UP!Ordered
<1>4. Owned
  BY BotAssumption DEF Init, Feed!Init, Dlg!Init, Dlg!NoFrame, Owned
<1> QED BY <1>2, <1>3, <1>4 DEF DialogInv, DialogsKept

(* With every update handled by a dialog of its own, through crashes and   *)
(* restarts, a greeting agrees with the row of the user it goes to.        *)
THEOREM RepliesMatchRows ==
  ASSUME Overlap = "rejected"
  PROVE  Spec => []ReplyMatchesRow
<1>1. Init => DialogInv
  BY InitDialogInv
<1>2. DialogInv /\ [Next]_vars => DialogInv'
  BY NextDialogInv
<1>3. DialogInv => ReplyMatchesRow
  BY DEF DialogInv, UP!Told, ReplyMatchesRow, Dlg!ReplyMatchesRow, UP!ReplyTo, Dlg!ReplyTo,
         UP!Decode, Dlg!Decode, UP!Db!StateOf, Dlg!Db!StateOf
<1> QED BY <1>1, <1>2, <1>3, PTL DEF Spec

-----------------------------------------------------------------------------
(* No update falls between dialogs and the API's memory. *)

Accounted == forgotten \in Nat /\ NoneSkipped

LEMMA DispatchAccounted ==
  ASSUME DialogsKept, Accounted, Dispatch
  PROVE  Accounted'
<1>1. PICK k \in Updates : k = cursor' /\ k \in 1..arrived
  BY HandedOut DEF DialogsKept
<1> DEFINE f == [Dlg!NoFrame EXCEPT !.pc = "start", !.user = content[k].user,
                                    !.kind = content[k].kind]
<1>2. frame' = [frame EXCEPT ![k] = f] /\ f.pc = "start" /\ forgotten' = forgotten
  BY <1>1 DEF Dispatch, Dlg!OnUpdate, Dlg!NoFrame, Feed!Dispatch
<1>3. k - 1 <= cursor \/ k - 1 <= forgotten
  BY <1>1 DEF Dispatch, Feed!Dispatch, Feed!Adjoins, Feed!Larger
<1>4. /\ cursor \in Nat /\ forgotten \in Nat /\ k \in Nat /\ 1..k \subseteq Updates
      /\ frame \in [Updates -> UP!Frame]
  BY <1>1, DialogType, BotAssumption DEF DialogsKept, Owned, Accounted, Updates
<1> HIDE DEF f
<1>5. ASSUME NEW u \in 1..k PROVE frame'[u].pc # "none" \/ u <= forgotten
  <2>1. u \in Updates
    BY <1>4
  <2>2. CASE u = k
    BY <1>2, <1>4, <2>1, <2>2
  <2>3. CASE u # k
    <3>1. u \in Nat /\ u >= 1 /\ u <= k - 1
      BY <1>4, <2>3
    <3>2. u <= cursor \/ u <= forgotten
      BY <1>3, <1>4, <3>1
    <3>3. frame'[u] = frame[u]
      BY <1>2, <1>4, <2>1, <2>3
    <3> QED BY <1>4, <3>1, <3>2, <3>3 DEF Accounted, NoneSkipped
  <2> QED BY <2>2, <2>3
<1> QED BY <1>1, <1>2, <1>4, <1>5 DEF Accounted, NoneSkipped

LEMMA NextAccounted ==
  ASSUME DialogsKept, Accounted, [Next]_vars
  PROVE  Accounted'
<1>1. CASE Dispatch
  BY <1>1, DispatchAccounted
<1>2. CASE Gone
  BY <1>2 DEF Gone, Feed!Restart, Accounted, NoneSkipped
<1>3. CASE Forget
  <2>1. forgotten' \in Nat /\ forgotten' >= forgotten
    BY <1>3 DEF Forget, Feed!Forget, Accounted, DialogsKept, Owned
  <2>2. cursor \in Nat /\ UNCHANGED <<cursor, frame>>
    BY <1>3 DEF Forget, Feed!Forget, dlgVars, DialogsKept, Owned
  <2> QED BY <2>1, <2>2 DEF Accounted, NoneSkipped
<1>4. ASSUME NEW u \in Updates, DialogStep(u)
      PROVE  Accounted'
  <2>1. \A v \in Updates : frame'[v].pc # "none" <=> frame[v].pc # "none"
    BY <1>4, SameSteps, SendIs, UP!UsersStay, DialogConstants DEF DialogStep, DialogsKept
  <2>2. UNCHANGED <<cursor, forgotten>>
    BY <1>4 DEF DialogStep, feedVars
  <2>3. 1..cursor \subseteq Updates
    BY BotAssumption DEF DialogsKept, Owned, Updates
  <2> QED BY <2>1, <2>2, <2>3 DEF Accounted, NoneSkipped
<1>5. CASE UNCHANGED <<cursor, forgotten, frame>>
  BY <1>5 DEF Accounted, NoneSkipped
<1>6. InitRaised \/ PollRaised \/ Kill \/ (\E u \in Updates : StateUnusable(u)) => Gone
  BY DEF InitRaised, PollRaised, Kill, StateUnusable
<1>7. \/ MakeInventory \/ AsyncInit \/ TgUp \/ TgFails \/ DbBoot \/ DbUp \/ DbFails
      \/ DialogsUp \/ OnInit \/ Arrive \/ Strand \/ LoseLink \/ LoseDatabase \/ UNCHANGED vars
      => UNCHANGED <<cursor, forgotten, frame>>
  BY DEF MakeInventory, AsyncInit, TgUp, TgFails, DbBoot, Dlg!Boot, DbUp, DbFails,
         DialogsUp, OnInit, Arrive, Feed!Arrive, Strand, LoseLink, LoseDatabase,
         Dlg!LoseDatabase,
         KeepsDialogs, feedVars, dlgVars, vars
<1> QED BY <1>1, <1>2, <1>3, <1>4, <1>5, <1>6, <1>7 DEF Next, StartUp

(* The offset the API is sent, that of a late request of an earlier        *)
(* process too, only makes it forget what a dialog has begun with: every   *)
(* update up to the last is with a dialog of this process or forgotten.    *)
THEOREM UpdatesAccounted == Spec => []NoneSkipped
<1>1. Init => DialogsKept /\ Accounted
  <2>1. Init => cursor = 0 /\ forgotten = 0
    BY DEF Init, Feed!Init
  <2>2. Init => Accounted
    BY <2>1 DEF Accounted, NoneSkipped
  <2> QED BY <2>2, InitDialogInv DEF DialogInv
<1>2. DialogsKept /\ Accounted /\ [Next]_vars => DialogsKept' /\ Accounted'
  BY NextDialogsKept, NextAccounted
<1>3. Accounted => NoneSkipped
  BY DEF Accounted
<1> QED BY <1>1, <1>2, <1>3, PTL DEF Spec

-----------------------------------------------------------------------------
(* Why processes end.  A service only reports a failure, and the session   *)
(* only breaks, by a fault that reaches this process, for no statement of  *)
(* async_init is refused; and a state that ends the process is that of a   *)
(* user whose update it has handled.                                       *)

Caused == init = "raised" \/ step = Dlg!Db!Broken \/ source = "down" => troubled

Ends ==
  \/ exitCode' # "inconsistent_db" /\ (faults' > faults \/ troubled \/ Shared)
  \/ \E u \in 1..cursor :
       /\ Dlg!Db!StateOf(content[u].user) \notin 0..255
       /\ exitCode' = Dlg!UnusableCode(Dlg!Db!StateOf(content[u].user))

LEMMA RaisedByFault ==
  ASSUME [Next]_vars, init # "raised"
  PROVE  init' = "raised" => TgFails \/ DbFails
<1>1. \A b, before : Inv!Start(b, before) => init' # "raised"
  BY DEF Inv!Start
<1>2. AsyncInit \/ TgUp \/ DbUp \/ DialogsUp => init' # "raised"
  BY <1>1 DEF AsyncInit, TgUp, DbUp, DialogsUp, Inv!AsyncInit, Inv!Initialized
<1>3. MakeInventory \/ OnInit => init' # "raised"
  BY DEF MakeInventory, OnInit, Inv!AddService, Inv!OnInit
<1>4. Gone => init' # "raised"
  BY DEF Gone, Inv!Reset
<1>5. InitRaised \/ PollRaised \/ Kill \/ (\E u \in Updates : StateUnusable(u))
        => init' # "raised"
  BY <1>4 DEF InitRaised, PollRaised, Kill, StateUnusable
<1>6. DbBoot \/ Arrive \/ Forget \/ Dispatch \/ Strand \/ LoseLink \/ LoseDatabase
        \/ (\E u \in Updates : DialogStep(u)) \/ UNCHANGED vars => init' = init
  BY DEF DbBoot, Arrive, Forget, Dispatch, Strand, LoseLink, LoseDatabase, DialogStep,
         invVars, vars
<1> QED BY <1>2, <1>3, <1>5, <1>6 DEF Next, StartUp

LEMMA BrokenByFault ==
  ASSUME DialogsKept, [Next]_vars, step # Dlg!Db!Broken
  PROVE  step' = Dlg!Db!Broken => LoseDatabase
<1> USE DialogConstants
<1>1. DbBoot => step' # Dlg!Db!Broken
  <2>1. UP!Db!Broken = Dlg!Db!Broken
    BY ReadyNat, UP!DbConstants
  <2> QED BY <2>1, SameProcess, DialogType, UP!NeverRefused DEF DbBoot, DialogsKept
<1>2. \A code : Dlg!Exit(code) => step' # Dlg!Db!Broken
  BY ReadyNat DEF Dlg!Exit, Dlg!Db!DbReset
<1>3. InitRaised \/ PollRaised \/ Kill \/ (\E u \in Updates : StateUnusable(u))
        => step' # Dlg!Db!Broken
  BY <1>2 DEF InitRaised, PollRaised, Kill, Dlg!Kill, StateUnusable, Dlg!StateUnusable
<1>4. ASSUME NEW u \in Updates, DialogStep(u)
      PROVE  step' = step
  BY <1>4, SendIs DEF DialogStep, Sending, Dlg!ProcessUpdate, Dlg!GotState, Dlg!StateSet,
         Dlg!Message, Dlg!Query, Dlg!dbVars, Dlg!Db!GetState, Dlg!Db!SetState,
         Dlg!Db!Execute, Dlg!Db!TakeResult, Dlg!Db!Answer, Dlg!Db!AnswerSpoilt,
         Dlg!Db!AnswerLost
<1>5. MakeInventory \/ AsyncInit \/ TgUp \/ TgFails \/ DbUp \/ DbFails \/ DialogsUp \/ OnInit
        \/ Arrive \/ Forget \/ Dispatch \/ Strand \/ LoseLink \/ UNCHANGED vars => step' = step
  BY DEF MakeInventory, AsyncInit, TgUp, TgFails, DbUp, DbFails, DialogsUp, OnInit, Arrive,
         Forget, Dispatch, Strand, LoseLink, Dlg!OnUpdate, Dlg!dbVars, KeepsDialogs,
         dlgVars, vars
<1> QED BY <1>1, <1>3, <1>4, <1>5 DEF Next, StartUp

(* The trouble of a process stays with it. *)
LEMMA NextCaused ==
  ASSUME DialogsKept, Caused, [Next]_vars
  PROVE  Caused'
<1>1. CASE Gone /\ \E code : Dlg!Exit(code)
  <2>1. init' # "raised" /\ source' # "down"
    BY <1>1 DEF Gone, Inv!Reset
  <2>2. step' # Dlg!Db!Broken
    BY <1>1, ReadyNat DEF Dlg!Exit, Dlg!Db!DbReset
  <2> QED BY <2>1, <2>2 DEF Caused
<1>2. CASE troubled' = TRUE
  BY <1>2 DEF Caused
<1>3. CASE UNCHANGED <<source, troubled>>
  <2>1. step' = Dlg!Db!Broken => step = Dlg!Db!Broken \/ LoseDatabase
    BY BrokenByFault
  <2>2. init' = "raised" => init = "raised" \/ TgFails \/ DbFails
    BY RaisedByFault
  <2>3. TgFails \/ LoseDatabase => troubled' = TRUE
    BY DEF TgFails, LoseDatabase
  <2>4. DbFails => step = Dlg!Db!Broken
    BY DEF DbFails
  <2> QED BY <1>3, <2>1, <2>2, <2>3, <2>4 DEF Caused
<1>4. CASE Strand
  <2>1. UNCHANGED <<init, step, troubled>> /\ source' # "down"
    BY <1>4 DEF Strand, invVars, dlgVars
  <2> QED BY <2>1 DEF Caused
<1>5. InitRaised \/ PollRaised \/ Kill \/ (\E u \in Updates : StateUnusable(u))
        => Gone /\ \E code : Dlg!Exit(code)
  BY DEF InitRaised, PollRaised, Kill, Dlg!Kill, StateUnusable, Dlg!StateUnusable
<1>6. TgFails \/ LoseLink \/ LoseDatabase => troubled' = TRUE
  BY DEF TgFails, LoseLink, LoseDatabase
<1>7. MakeInventory \/ AsyncInit \/ TgUp \/ DbBoot \/ DbUp \/ DbFails \/ DialogsUp \/ OnInit
        \/ Arrive \/ Forget \/ Dispatch \/ (\E u \in Updates : DialogStep(u)) \/ UNCHANGED vars
        => UNCHANGED <<source, troubled>>
  BY DEF MakeInventory, AsyncInit, TgUp, DbBoot, DbUp, DbFails, DialogsUp, OnInit, Arrive,
         Forget, Dispatch, DialogStep, botVars, vars
<1> QED BY <1>1, <1>2, <1>3, <1>4, <1>5, <1>6, <1>7 DEF Next, StartUp

LEMMA UnusableCaused ==
  ASSUME DialogInv, NEW u \in Updates, StateUnusable(u)
  PROVE  Ends
<1>1. UP!StateUnusable(u)
  BY SameSteps DEF StateUnusable
<1>2. /\ UP!Db!StateOf(frame[u].user) \notin 0..255
      /\ exitCode' = UP!UnusableCode(UP!Db!StateOf(frame[u].user))
  BY <1>1, DialogConstants, DialogType, UP!ToldUnusable DEF DialogInv, DialogsKept, UP!IInv
<1>3. u <= cursor /\ frame[u].user = content[u].user
  BY <1>1 DEF UP!StateUnusable, DialogInv, DialogsKept, Owned
<1>4. u \in 1..cursor
  BY <1>3, BotAssumption DEF DialogInv, DialogsKept, Owned, Updates
<1> QED BY <1>2, <1>3, <1>4
        DEF Ends, UP!Db!StateOf, Dlg!Db!StateOf, UP!UnusableCode, Dlg!UnusableCode

(* The inventory is emptied where the process ends, and nowhere else. *)
LEMMA EndsCaused ==
  ASSUME DialogInv, Caused, [Next]_vars, init # "building", init' = "building"
  PROVE  Ends
<1>1. faults \in Nat
  BY DialogType DEF DialogInv
<1>2. CASE InitRaised
  <2>1. exitCode' = "caught_exception" /\ troubled
    BY <1>2 DEF InitRaised, Dlg!Exit, Caused
  <2> QED BY <2>1 DEF Ends
<1>3. CASE PollRaised
  <2>1. exitCode' = "caught_exception" /\ (source = "down" \/ Shared \/ faults' = faults + 1)
    BY <1>3 DEF PollRaised, Dlg!Exit, Dlg!Fault
  <2> QED BY <1>1, <2>1 DEF Ends, Caused
<1>4. CASE Kill
  <2>1. exitCode' = "killed" /\ faults' = faults + 1
    BY <1>4 DEF Kill, Dlg!Kill, Dlg!Exit, Dlg!Fault
  <2> QED BY <1>1, <2>1 DEF Ends
<1>5. CASE \E u \in Updates : StateUnusable(u)
  BY <1>5, UnusableCaused
<1>6. MakeInventory \/ AsyncInit => init = "building"
  BY DEF MakeInventory, AsyncInit, Inv!AddService, Inv!AsyncInit
<1>7. TgUp \/ TgFails \/ DbUp \/ DbFails \/ DialogsUp \/ OnInit => init' # "building"
  <2>1. \A b, before : Inv!Start(b, before) => init' # "building"
    BY DEF Inv!Start
  <2> QED BY <2>1 DEF TgUp, TgFails, DbUp, DbFails, DialogsUp, OnInit, Inv!Initialized,
             Inv!InitFailed, Inv!StartFailed, Inv!OnInit
<1>8. DbBoot \/ Arrive \/ Forget \/ Dispatch \/ Strand \/ LoseLink \/ LoseDatabase
        \/ (\E u \in Updates : DialogStep(u)) \/ UNCHANGED vars => init' = init
  BY DEF DbBoot, Arrive, Forget, Dispatch, Strand, LoseLink, LoseDatabase, DialogStep,
         invVars, vars
<1> QED BY <1>2, <1>3, <1>4, <1>5, <1>6, <1>7, <1>8 DEF Next, StartUp

(* However many processes follow each other, none ends but for a fault     *)
(* that reaches it, for a stream it shared with its own dialogs, or for a  *)
(* state that cannot be read of somebody whose update it has handled.      *)
THEOREM ExitsHaveCause ==
  ASSUME Overlap = "rejected"
  PROVE  Spec => ExitHasCause
<1>1. Init => DialogInv /\ Caused
  <2>1. Init => init = "building" /\ step = 0 /\ source = "up"
    BY DEF Init, Inv!Init, Dlg!Init, Dlg!Db!Init
  <2> QED BY <2>1, InitDialogInv, ReadyNat DEF Caused
<1>2. DialogInv /\ Caused /\ [Next]_vars => DialogInv' /\ Caused'
  BY NextDialogInv, NextCaused DEF DialogInv
<1>3. DialogInv /\ Caused /\ [Next]_vars
        => [init # "building" /\ init' = "building" =>
              \/ exitCode' # "inconsistent_db" /\ (faults' > faults \/ troubled \/ Shared)
              \/ \E u \in 1..cursor :
                   /\ Dlg!Db!StateOf(content[u].user) \notin 0..255
                   /\ exitCode' = Dlg!UnusableCode(Dlg!Db!StateOf(content[u].user))]_vars
  BY EndsCaused DEF Ends
<1> QED BY <1>1, <1>2, <1>3, PTL DEF Spec, ExitHasCause
===============================================================================
