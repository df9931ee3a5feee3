--------------------------- MODULE ReplicaProofs ---------------------------
(***************************************************************************)
(* Proofs about Replica and the shutdown in it, for any number of requests *)
(* and connections and any way to configure a replica.                     *)
(***************************************************************************)
EXTENDS Replica, ProviderConfigProofs, FiniteSetTheorems, TLAPS

InHandler == {r \in Requests : conn[r] = "handling"}

(* The wait group counts the handlers.                                     *)
Counted == Alive => IsFiniteSet(InHandler) /\ wg = Cardinality(InHandler)

(* Nothing is cut off before the end.                                      *)
CutAtTheEnd ==
  /\ Alive <=> exit = "none"
  /\ Alive => \A r \in Requests : conn[r] # "cut"

(* What the result of Shutdown says.                                       *)
Drained ==
  /\ shutdown = "ok" => Active = {}
  /\ shutdown = "error" => shutCtx = "done"
  /\ shutdown # "idle" => main # "serving"

(* What Start has checked when it comes to a stage.                        *)
Checked ==
  /\ boot # "load" => Loads
  /\ boot \notin {"load", "connect"} => setting.database = "up"
  /\ boot \notin {"load", "connect", "google"} => Loaded("google").issuer # Empty
  /\ boot \notin {"load", "connect", "google", "gitlab"} => Loaded("gitlab").issuer # Empty
  /\ boot \in {"token", "listen", "listening", "serving"} =>
       Override(setting.secret, setting.secretEnv) \in Secrets
  /\ boot \in {"listen", "listening", "serving"} => setting.tokens

(* Nobody is accepted before the server listens.                           *)
AcceptedLate ==
  (\E r \in Requests : conn[r] # "none") => boot \in {"listening", "serving"}

IInv ==
  /\ ReplicaTypeOK
  /\ Counted
  /\ CutAtTheEnd
  /\ Drained
  /\ CutOnlyByTimeout
  /\ Checked
  /\ AcceptedLate

LEMMA InitInvariant == ReplicaInit => IInv
<1> SUFFICES ASSUME ReplicaInit
             PROVE  IInv
  OBVIOUS
<1> USE DEF ReplicaInit, Init
<1>1. ReplicaTypeOK
  BY DEF ReplicaTypeOK, TypeOK, ConnStates, Stages, Alive
<1>2. Counted
  <2>1. InHandler = {}
    BY DEF InHandler
  <2> QED
    BY <2>1, FS_EmptySet DEF Counted
<1>3. CutAtTheEnd /\ Drained /\ CutOnlyByTimeout /\ AcceptedLate
  BY DEF CutAtTheEnd, Alive, Drained, CutOnlyByTimeout, AcceptedLate
<1>4. Checked
  BY DEF Checked
<1> QED
  BY <1>1, <1>2, <1>3, <1>4 DEF IInv

(* What a replica starts from does not change, nor what follows from it.   *)
LEMMA SettingKept ==
  ASSUME setting' = setting
  PROVE  /\ Loads' <=> Loads
         /\ Loaded("google")' = Loaded("google")
         /\ Loaded("gitlab")' = Loaded("gitlab")
         /\ Override(setting.secret, setting.secretEnv)' =
              Override(setting.secret, setting.secretEnv)
BY DEF Loads, Loaded, Override

(* One handler starts, or ends: the wait group follows.                    *)
LEMMA HandlerStarts ==
  ASSUME Counted, Alive, conn \in [Requests -> ConnStates], wg \in Nat,
         NEW r \in Requests, Track(r)
  PROVE  Counted'
<1>1. InHandler' = InHandler \cup {r} /\ r \notin InHandler
  BY DEF Track, InHandler, ConnStates
<1>2. IsFiniteSet(InHandler) /\ wg = Cardinality(InHandler)
  BY DEF Counted
<1>3. IsFiniteSet(InHandler') /\ Cardinality(InHandler') = Cardinality(InHandler) + 1
  BY <1>1, <1>2, FS_AddElement
<1> QED
  BY <1>2, <1>3 DEF Track, Counted

LEMMA HandlerEnds ==
  ASSUME Counted, Alive, conn \in [Requests -> ConnStates], wg \in Nat,
         NEW r \in Requests, Respond(r)
  PROVE  Counted' /\ wg' \in Nat
<1>1. InHandler' = InHandler \ {r} /\ r \in InHandler
  BY DEF Respond, InHandler, ConnStates
<1>2. IsFiniteSet(InHandler) /\ wg = Cardinality(InHandler)
  BY DEF Counted
<1>3. IsFiniteSet(InHandler') /\ Cardinality(InHandler') = Cardinality(InHandler) - 1
  BY <1>1, <1>2, FS_RemoveElement
<1>4. Cardinality(InHandler') \in Nat
  BY <1>3, FS_CardinalityType
<1>5. wg' = Cardinality(InHandler')
  BY <1>2, <1>3 DEF Respond
<1> QED
  BY <1>3, <1>4, <1>5 DEF Counted

(* The process ends; cleanly or by force only when nothing is left or the  *)
(* time is over.                                                           *)
LEMMA ExitStep ==
  ASSUME IInv, Alive,
         NEW how \in {"clean", "forced", "killed", "fatal"},
         Exit(how),
         how \in {"clean", "forced"} => Active = {} \/ shutCtx = "done",
         UNCHANGED <<setting, boot, work, task>>
  PROVE  IInv'
<1> USE DEF IInv, Exit
<1>1. ReplicaTypeOK'
  BY DEF ReplicaTypeOK, TypeOK, ConnStates, Alive
<1>2. Counted'
  BY DEF Counted, Alive
<1>3. CutAtTheEnd'
  BY DEF CutAtTheEnd, Alive
<1>4. Drained'
  BY DEF Drained, Active
<1>5. CutOnlyByTimeout'
  BY DEF CutOnlyByTimeout, CutAtTheEnd, Active
<1>6. Checked'
  BY SettingKept DEF Checked
<1>7. AcceptedLate'
  BY DEF AcceptedLate, Active
<1> QED
  BY <1>1, <1>2, <1>3, <1>4, <1>5, <1>6, <1>7

(* Start comes to its next stage.                                          *)
LEMMA ReachStep ==
  ASSUME IInv, Alive,
         NEW stage \in Stages,
         Reach(stage),
         UNCHANGED <<setting, work, task>>,
         Checked',
         boot \in {"listening", "serving"} => stage = "serving"
  PROVE  IInv'
<1> USE DEF IInv, Reach, vars
<1>1. ReplicaTypeOK'
  BY DEF ReplicaTypeOK, TypeOK, Alive
<1>2. Counted'
  BY DEF Counted, Alive, InHandler
<1>3. CutAtTheEnd' /\ Drained' /\ CutOnlyByTimeout'
  BY DEF CutAtTheEnd, Alive, Drained, Active, CutOnlyByTimeout
<1>4. AcceptedLate'
  BY DEF AcceptedLate
<1> QED
  BY <1>1, <1>2, <1>3, <1>4

LEMMA BootStep ==
  ASSUME IInv, Starting(Boot) \/ Starting(Discovery) \/ Starting(KilledEarly)
  PROVE  IInv'
<1> USE DEF Starting
<1>1. Alive /\ UNCHANGED <<setting, work, task>>
  OBVIOUS
<1>2. ASSUME Fatal \/ KilledEarly
      PROVE  IInv'
  BY <1>1, <1>2, ExitStep DEF Fatal, KilledEarly
<1>3. ASSUME NEW stage \in Stages, Reach(stage), Checked',
             boot \in {"listening", "serving"} => stage = "serving"
      PROVE  IInv'
  BY <1>1, <1>3, ReachStep
<1> HIDE DEF Starting
<1>4. Boot \/ Discovery \/ KilledEarly
  BY DEF Starting
<1> USE SettingKept, <1>1 DEF IInv, Checked, Reach, Stages
<1>5. CASE Load
  BY <1>2, <1>3, <1>5 DEF Load
<1>6. CASE Connect
  BY <1>2, <1>3, <1>6 DEF Connect
<1>7. CASE Discover("google", "gitlab")
  BY <1>2, <1>3, <1>7 DEF Discover
<1>8. CASE Discover("gitlab", "cookie")
  BY <1>2, <1>3, <1>8 DEF Discover
<1>9. CASE MakeCookieService
  BY <1>2, <1>3, <1>9 DEF MakeCookieService
<1>10. CASE LoadAccessToken
  BY <1>2, <1>3, <1>10 DEF LoadAccessToken
<1>11. CASE Listen
  BY <1>2, <1>3, <1>11 DEF Listen
<1>12. CASE Notify
  BY <1>2, <1>3, <1>12 DEF Notify
<1> QED
  BY <1>2, <1>4, <1>5, <1>6, <1>7, <1>8, <1>9, <1>10, <1>11, <1>12 DEF Boot, Discovery

(* A request is accepted.                                                  *)
LEMMA AcceptStep ==
  ASSUME IInv, NEW r \in Requests, boot \in {"listening", "serving"}, Serving(Accept(r))
  PROVE  IInv'
<1> USE DEF IInv, Serving, Accept
<1>1. ReplicaTypeOK'
  BY DEF ReplicaTypeOK, TypeOK, ConnStates, Alive
<1>2. Counted'
  <2>1. InHandler' = InHandler
    BY DEF InHandler, ReplicaTypeOK, TypeOK
  <2> QED
    BY <2>1 DEF Counted, Alive
<1>3. CutAtTheEnd' /\ Drained' /\ CutOnlyByTimeout'
  BY DEF ReplicaTypeOK, TypeOK, CutAtTheEnd, Alive, Drained, CutOnlyByTimeout
<1>4. Checked' /\ AcceptedLate'
  BY SettingKept DEF Checked, AcceptedLate
<1> QED
  BY <1>1, <1>2, <1>3, <1>4

(* Its handler begins.                                                     *)
LEMMA TrackStep ==
  ASSUME IInv, NEW r \in Requests, Handling(Track(r) /\ Enter(r) /\ UNCHANGED task)
  PROVE  IInv'
<1> USE DEF IInv, Handling
<1>1. TypeOK'
  BY DEF ReplicaTypeOK, TypeOK, ConnStates, Track
<1>2. PICK way \in Waits : work' = [work EXCEPT ![r] = way]
  BY DEF Enter, Go, Waits, Kinds
<1>3. way # NoWork
  BY <1>2 DEF Waits, Kinds, NoWork
<1>4. ReplicaTypeOK'
  BY <1>1, <1>2, <1>3 DEF ReplicaTypeOK, TypeOK, Track, Alive
<1>5. Counted'
  BY HandlerStarts DEF ReplicaTypeOK, TypeOK
<1>6. CutAtTheEnd' /\ Drained' /\ CutOnlyByTimeout'
  BY DEF ReplicaTypeOK, TypeOK, CutAtTheEnd, Alive, Drained, Active, CutOnlyByTimeout, Track
<1>7. Checked' /\ AcceptedLate'
  BY SettingKept DEF Checked, AcceptedLate, Track
<1> QED
  BY <1>4, <1>5, <1>6, <1>7

(* A handler, or the goroutine it left, goes on.                           *)
LEMMA WorkStep ==
  ASSUME IInv, NEW r \in Requests,
         Handling(Arrive(r) /\ UNCHANGED vars) \/ Handling(UseDatabase(r) /\ UNCHANGED vars)
  PROVE  IInv'
<1> USE DEF IInv, Handling, vars
<1>1. work \in [Requests -> Waits \cup {NoWork}] /\ work[r] \in Waits \cup {NoWork}
  BY DEF ReplicaTypeOK
<1>2. \/ /\ work[r] # NoWork
         /\ \E way \in Waits : work' = [work EXCEPT ![r] = way]
         /\ task' = task
      \/ /\ work' = work
         /\ task' \in [Requests -> {"none", "begin", "inTx", "mail"}]
  BY <1>1 DEF ReplicaTypeOK, Arrive, UseDatabase, Begin, EndTx, Ping, TaskBegin, TaskCommit,
              At, Go, Waits, Kinds, NoWork
<1>3. NoWork \notin Waits
  BY DEF Waits, Kinds, NoWork
<1>4. ReplicaTypeOK'
  BY <1>1, <1>2, <1>3 DEF ReplicaTypeOK, TypeOK, Alive
<1>5. Counted'
  BY DEF Counted, Alive, InHandler
<1>6. CutAtTheEnd' /\ Drained' /\ CutOnlyByTimeout'
  BY DEF CutAtTheEnd, Alive, Drained, Active, CutOnlyByTimeout
<1>7. Checked' /\ AcceptedLate'
  BY SettingKept DEF Checked, AcceptedLate
<1> QED
  BY <1>4, <1>5, <1>6, <1>7

(* A handler answers.                                                      *)
LEMMA AnswerStep ==
  ASSUME IInv, NEW r \in Requests, Handling(Answer(r))
  PROVE  IInv'
<1> USE DEF IInv, Handling
<1>1. Respond(r) /\ work' = [work EXCEPT ![r] = NoWork]
  BY DEF Answer, Go
<1>2. task' \in [Requests -> {"none", "begin", "inTx", "mail"}]
  BY DEF Answer, ReplicaTypeOK
<1>3. Counted' /\ wg' \in Nat
  BY <1>1, HandlerEnds DEF ReplicaTypeOK, TypeOK
<1>4. ReplicaTypeOK'
  BY <1>1, <1>2, <1>3 DEF ReplicaTypeOK, TypeOK, ConnStates, Respond, Alive
<1>5. CutAtTheEnd' /\ Drained' /\ CutOnlyByTimeout'
  BY <1>1 DEF ReplicaTypeOK, TypeOK, CutAtTheEnd, Alive, Drained, Active, CutOnlyByTimeout,
              Respond
<1>6. Checked' /\ AcceptedLate'
  BY <1>1, SettingKept DEF Checked, AcceptedLate, Respond, ReplicaTypeOK, TypeOK
<1> QED
  BY <1>3, <1>4, <1>5, <1>6

(* A goroutine that was left behind ends.                                  *)
LEMMA TaskEndsStep ==
  ASSUME IInv, NEW r \in Requests, Handling(TaskEnds(r))
  PROVE  IInv'
<1> USE DEF IInv, Handling, TaskEnds, MailOver
<1>1. ReplicaTypeOK'
  BY DEF ReplicaTypeOK, TypeOK, Alive
<1>2. Counted'
  BY DEF Counted, Alive, InHandler
<1>3. CutAtTheEnd' /\ Drained' /\ CutOnlyByTimeout'
  BY DEF CutAtTheEnd, Alive, Drained, Active, CutOnlyByTimeout
<1>4. Checked' /\ AcceptedLate'
  BY SettingKept DEF Checked, AcceptedLate
<1> QED
  BY <1>1, <1>2, <1>3, <1>4

(* The shutdown, until the process ends.  What Shutdown returns it returns *)
(* with no request under way or after the time; later no request is added. *)
LEMMA ShutdownStep ==
  ASSUME IInv,
         \/ Serving(ServerFails) \/ Serving(Signal) \/ Serving(SecondSignal)
         \/ Serving(Process)
  PROVE  IInv'
<1>1. UNCHANGED <<setting, boot, work, task>>
  BY DEF Serving
<1>2. CASE ServerFails \/ SecondSignal
  BY <1>1, <1>2, ExitStep DEF ServerFails, SecondSignal, Alive
<1>3. CASE ReportClean \/ SelectTimeout
  BY <1>1, <1>3, ExitStep DEF ReportClean, SelectTimeout, Alive, IInv, Drained
<1>4. CASE \/ Signal \/ CloseListener \/ ShutdownReturns
           \/ WaitReturns \/ Timeout \/ SelectWaitDone
  <2> USE <1>1, <1>4
          DEF IInv, Signal, CloseListener, ShutdownReturns, WaitReturns, Timeout,
              SelectWaitDone
  <2>1. ReplicaTypeOK'
    BY DEF ReplicaTypeOK, TypeOK, Alive
  <2>2. Counted'
    BY DEF Counted, Alive, InHandler
  <2>3. CutAtTheEnd' /\ Drained'
    BY DEF CutAtTheEnd, Alive, Drained, Active
  <2>4. CutOnlyByTimeout'
    BY DEF CutAtTheEnd, Alive, CutOnlyByTimeout
  <2>5. Checked' /\ AcceptedLate'
    BY SettingKept DEF Checked, AcceptedLate
  <2> QED
    BY <2>1, <2>2, <2>3, <2>4, <2>5
<1> QED
  BY <1>2, <1>3, <1>4 DEF Serving, Process

LEMMA StutterStep == IInv /\ UNCHANGED replicaVars => IInv'
<1> SUFFICES ASSUME IInv, UNCHANGED replicaVars
             PROVE  IInv'
  OBVIOUS
<1>1. Checked'
  BY SettingKept DEF IInv, Checked, replicaVars
<1> QED
  BY <1>1 DEF replicaVars, vars, IInv, ReplicaTypeOK, TypeOK, Counted, InHandler, Alive,
              CutAtTheEnd, Drained, Active, CutOnlyByTimeout, AcceptedLate

LEMMA StepInvariant == IInv /\ [ReplicaNext]_replicaVars => IInv'
<1> SUFFICES ASSUME IInv, [ReplicaNext]_replicaVars
             PROVE  IInv'
  OBVIOUS
<1>1. CASE Starting(Boot) \/ Starting(Discovery) \/ Starting(KilledEarly)
  BY <1>1, BootStep
<1>2. ASSUME NEW r \in Requests, boot \in {"listening", "serving"}, Serving(Accept(r))
      PROVE  IInv'
  BY <1>2, AcceptStep
<1>3. CASE \/ Serving(ServerFails) \/ Serving(Signal) \/ Serving(SecondSignal)
           \/ Serving(Process)
  BY <1>3, ShutdownStep
<1>4. ASSUME NEW r \in Requests, Handling(Track(r) /\ Enter(r) /\ UNCHANGED task)
      PROVE  IInv'
  BY <1>4, TrackStep
<1>5. ASSUME NEW r \in Requests,
             \/ Handling(Arrive(r) /\ UNCHANGED vars)
             \/ Handling(UseDatabase(r) /\ UNCHANGED vars)
      PROVE  IInv'
  BY <1>5, WorkStep
<1>6. ASSUME NEW r \in Requests, Handling(Answer(r))
      PROVE  IInv'
  BY <1>6, AnswerStep
<1>7. ASSUME NEW r \in Requests, Handling(TaskEnds(r))
      PROVE  IInv'
  BY <1>7, TaskEndsStep
<1>8. CASE UNCHANGED replicaVars
  BY <1>8, StutterStep
<1> QED
  BY <1>1, <1>2, <1>3, <1>4, <1>5, <1>6, <1>7, <1>8 DEF ReplicaNext

(* The invariant holds in every reachable state.                           *)
THEOREM ReplicaInvariance == ReplicaSpec => []IInv
<1>1. ReplicaInit => IInv
  BY InitInvariant
<1>2. IInv /\ [ReplicaNext]_replicaVars => IInv'
  BY StepInvariant
<1> QED
  BY <1>1, <1>2, PTL DEF ReplicaSpec

(* Every variable keeps its type, and a handler is at work as long as its  *)
(* request is under way.                                                   *)
THEOREM TypeCorrect == ReplicaSpec => []ReplicaTypeOK
<1>1. IInv => ReplicaTypeOK
  BY DEF IInv
<1> QED
  BY <1>1, ReplicaInvariance, PTL

(* After one signal, only the 25 seconds cut a request off.                *)
THEOREM ShutdownWaits == ReplicaSpec => []CutOnlyByTimeout
<1>1. IInv => CutOnlyByTimeout
  BY DEF IInv
<1> QED
  BY <1>1, ReplicaInvariance, PTL

(* Nobody is served by a replica that is half configured.                  *)
THEOREM ConfiguredServes == ReplicaSpec => []ServesOnlyConfigured
<1>1. IInv => ServesOnlyConfigured
  BY DEF IInv, Checked, AcceptedLate, ServesOnlyConfigured
<1> QED
  BY <1>1, ReplicaInvariance, PTL

-----------------------------------------------------------------------------
(* For all texts and names: the environment changes the fields it has a    *)
(* value for, and no other.                                                *)
THEOREM FieldsAreMerged == ReplicaSpec => []FileSurvivesEnvironment
<1>1. FileSurvivesEnvironment
  BY FieldsSurvive, SmallEnvironmentsAreEnvironments DEF FileSurvivesEnvironment
<1> QED
  BY <1>1, PTL

=============================================================================
