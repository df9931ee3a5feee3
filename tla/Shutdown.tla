------------------------------ MODULE Shutdown ------------------------------
(***************************************************************************)
(* The end of a replica: api_facade.Start from the signal on, with the     *)
(* requests that the tracking middleware counts, and the goroutines of     *)
(* Register and Resend that nobody counts.  Module Replica composes these  *)
(* actions with the start-up and with what requests do in their handlers.  *)
(***************************************************************************)
EXTENDS Integers

CONSTANT Requests   \* requests the listener may accept

VARIABLES
  main,      \* Start: "serving", "waiting" in its select, "reporting", "exited"
  exit,      \* how it ended: "none", "clean", "forced", "killed" or "fatal"
  shutdown,  \* srv.Shutdown: "idle", "draining", "ok" or "error"
  waitDone,  \* wg.Wait has returned and its channel is closed
  shutCtx,   \* the 25 seconds: "open" or "done"
  conn,      \* a request on its way
  wg,        \* the counter of the wait group
  mail       \* goroutines a handler left: "none", "sending", "over" or "cut"

vars == <<main, exit, shutdown, waitDone, shutCtx, conn, wg, mail>>

(* Not yet accepted; accepted and not yet at wg.Add; in its handler;       *)
(* answered; cut off by the end of the process.                            *)
ConnStates == {"none", "accepted", "handling", "over", "cut"}

Active == {r \in Requests : conn[r] \in {"accepted", "handling"}}

-----------------------------------------------------------------------------
(* The listener accepts until Shutdown closes it.                          *)
Accept(r) ==
  /\ conn[r] = "none"
  /\ main # "exited" /\ shutdown = "idle"
  /\ conn' = [conn EXCEPT ![r] = "accepted"]
  /\ UNCHANGED <<main, exit, shutdown, waitDone, shutCtx, wg, mail>>

(* Mutant of Track: the handler starts without wg.Add(1).                  *)
TrackWithoutAdd(r) ==
  /\ main # "exited"
  /\ conn[r] = "accepted"
  /\ conn' = [conn EXCEPT ![r] = "handling"]
  /\ UNCHANGED <<main, exit, shutdown, waitDone, shutCtx, wg, mail>>

(* HTTPRequestTracker: wg.Add(1), and the handler starts.                  *)
Track(r) ==
  /\ main # "exited"
  /\ conn[r] = "accepted"
  /\ conn' = [conn EXCEPT ![r] = "handling"]
  /\ wg' = wg + 1
  /\ UNCHANGED <<main, exit, shutdown, waitDone, shutCtx, mail>>

(* The handler returns and the deferred wg.Done() runs; Register and       *)
(* Resend leave a goroutine behind that the wait group does not count.     *)
Respond(r) ==
  /\ main # "exited"
  /\ conn[r] = "handling"
  /\ conn' = [conn EXCEPT ![r] = "over"]
  /\ wg' = wg - 1
  /\ \/ UNCHANGED mail
     \/ mail' = [mail EXCEPT ![r] = "sending"]
  /\ UNCHANGED <<main, exit, shutdown, waitDone, shutCtx>>

(* The goroutine is done (after thirty seconds at most).                   *)
MailOver(r) ==
  /\ main # "exited"
  /\ mail[r] = "sending"
  /\ mail' = [mail EXCEPT ![r] = "over"]
  /\ UNCHANGED <<main, exit, shutdown, waitDone, shutCtx, conn, wg>>

-----------------------------------------------------------------------------
(* The process ends and everything in it.                                  *)
Exit(how) ==
  /\ main' = "exited"
  /\ exit' = how
  /\ conn' = [r \in Requests |-> IF r \in Active THEN "cut" ELSE conn[r]]
  /\ mail' = [r \in Requests |-> IF mail[r] = "sending" THEN "cut" ELSE mail[r]]
  /\ UNCHANGED <<shutdown, waitDone, shutCtx, wg>>

(* ListenAndServe fails: log.Fatalf.                                       *)
ServerFails ==
  /\ main = "serving"
  /\ Exit("fatal")

(* SIGINT or SIGTERM: the context of the 25 seconds, the goroutine that    *)
(* shuts the server down and the one that waits for the handlers.          *)
Signal ==
  /\ main = "serving"
  /\ main' = "waiting"
  /\ UNCHANGED <<exit, shutdown, waitDone, shutCtx, conn, wg, mail>>

(* srv.Shutdown closes the listener ...                                    *)
CloseListener ==
  /\ main \in {"waiting", "reporting"}
  /\ shutdown = "idle"
  /\ shutdown' = "draining"
  /\ UNCHANGED <<main, exit, waitDone, shutCtx, conn, wg, mail>>

(* ... and returns when every connection is idle or its context is done.   *)
ShutdownReturns ==
  /\ main # "exited"
  /\ shutdown = "draining"
  /\ \/ Active = {} /\ shutdown' = "ok"
     \/ shutCtx = "done" /\ shutdown' = "error"
  /\ UNCHANGED <<main, exit, waitDone, shutCtx, conn, wg, mail>>

(* wg.Wait returns when the counter is zero, be it for a moment only.      *)
WaitReturns ==
  /\ main = "waiting"
  /\ ~waitDone
  /\ wg = 0
  /\ waitDone' = TRUE
  /\ UNCHANGED <<main, exit, shutdown, shutCtx, conn, wg, mail>>

(* context.WithTimeout(..., shutdownTimeout).                              *)
Timeout ==
  /\ main \in {"waiting", "reporting"}
  /\ shutCtx = "open"
  /\ shutCtx' = "done"
  /\ UNCHANGED <<main, exit, shutdown, waitDone, conn, wg, mail>>

(* case <-waitDone: Start goes on to wait for Shutdown's result.           *)
SelectWaitDone ==
  /\ main = "waiting"
  /\ waitDone
  /\ main' = "reporting"
  /\ UNCHANGED <<exit, shutdown, waitDone, shutCtx, conn, wg, mail>>

(* Mutant of ReportClean: the result of Shutdown is not waited for.        *)
ReportCleanUnwaited ==
  /\ main = "reporting"
  /\ Exit("clean")

(* "all requests done, clean exit"                                         *)
ReportClean ==
  /\ main = "reporting"
  /\ shutdown \in {"ok", "error"}
  /\ Exit("clean")

(* Mutant of SelectTimeout: the select has no second case.                 *)
SelectTimeoutMissing == FALSE /\ UNCHANGED vars

(* case <-shutCtx.Done(): "shutdown timeout after 25s, forcing exit".      *)
SelectTimeout ==
  /\ main = "waiting"
  /\ shutCtx = "done"
  /\ Exit("forced")

(* "Ctrl+C again to force": stop() gave the signals their default effect.  *)
SecondSignal ==
  /\ main \in {"waiting", "reporting"}
  /\ Exit("killed")

Init ==
  /\ main = "serving"
  /\ exit = "none"
  /\ shutdown = "idle"
  /\ waitDone = FALSE
  /\ shutCtx = "open"
  /\ conn = [r \in Requests |-> "none"]
  /\ wg = 0
  /\ mail = [r \in Requests |-> "none"]

(* What the process does without anybody's help.                           *)
Process ==
  \/ CloseListener
  \/ ShutdownReturns
  \/ WaitReturns
  \/ Timeout
  \/ SelectWaitDone
  \/ ReportClean
  \/ SelectTimeout

-----------------------------------------------------------------------------
TypeOK ==
  /\ main \in {"serving", "waiting", "reporting", "exited"}
  /\ exit \in {"none", "clean", "forced", "killed", "fatal"}
  /\ shutdown \in {"idle", "draining", "ok", "error"}
  /\ waitDone \in BOOLEAN
  /\ shutCtx \in {"open", "done"}
  /\ conn \in [Requests -> ConnStates]
  /\ wg \in Nat
  /\ mail \in [Requests -> {"none", "sending", "over", "cut"}]

(* After one signal a request is cut off only by the 25 seconds: until     *)
(* then Start waits for Shutdown as well as for the handlers, and one that *)
(* slips in after wg.Wait has returned is waited for by Shutdown.          *)
CutOnlyByTimeout ==
  (\E r \in Requests : conn[r] = "cut") /\ exit \in {"clean", "forced"} => shutCtx = "done"

(* A signal ends the process, whatever the handlers do: neither the select *)
(* nor the wait for Shutdown's result behind it can hang.                  *)
SignalEndsProcess == main = "waiting" ~> main = "exited"

=============================================================================
