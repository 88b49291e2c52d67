----------------------------- MODULE MCServices -----------------------------
(***************************************************************************)
(* What runs beside an application in goroutines of its own, one at a time *)
(* as part says: the configuration "watch"er, the "observer" dispatcher    *)
(* and the "health" checks of dix, the HTTP server that is started and     *)
(* stopped ("serve"), and a "websocket" connection.  None of them touches  *)
(* the state of another.                                                   *)
(***************************************************************************)
EXTENDS ConfigWatch, DixObserver, HttpServing

VARIABLE part

Init ==
  /\ part \in {"watch", "observer", "health", "serve", "websocket"}
  /\ WatchInit /\ ObserverInit /\ HealthInit /\ WsInit
  /\ ServeInit /\ (part = "serve" \/ kind = "context")

Next ==
  /\ UNCHANGED part
  /\ IF part = "watch" THEN WatchNext ELSE UNCHANGED watchVars
  /\ IF part = "observer" THEN ObserverNext ELSE UNCHANGED observerVars
  /\ IF part = "health" THEN HealthNext ELSE UNCHANGED healthVars
  /\ IF part = "serve" THEN ServeNext ELSE UNCHANGED serveVars
  /\ IF part = "websocket" THEN WsNext ELSE UNCHANGED wsVars

vars == <<part, watchVars, observerVars, healthVars, serveVars, wsVars>>

\* fsnotify delivers, the loop and the reloads are scheduled, handlers return, and the
\* timer fires once the files are left alone.  Emitters send the token after the event,
\* and the dispatcher goes on.  The caller and the listener of a server go on and
\* requests are answered.  gws calls back, and a Read takes what is there.
Fairness ==
  /\ WF_watchVars(part = "watch" /\ Trigger) /\ WF_watchVars(part = "watch" /\ ResetTimer)
  /\ WF_watchVars(part = "watch" /\ Stop) /\ WF_watchVars(part = "watch" /\ Fire)
  /\ \A r \in Reloads : WF_watchVars(part = "watch" /\ ReloadStep(r))
  /\ \A e \in Emitters : WF_observerVars(part = "observer" /\ Notify(e))
  /\ WF_observerVars(part = "observer" /\ WakeUp) /\ WF_observerVars(part = "observer" /\ Deliver)
  /\ WF_serveVars(part = "serve" /\ CallerStep) /\ WF_serveVars(part = "serve" /\ ListenStep)
  /\ WF_serveVars(part = "serve" /\ Respond)
  /\ WF_wsVars(part = "websocket" /\ SendMessage) /\ WF_wsVars(part = "websocket" /\ OnClose)
  /\ WF_wsVars(part = "websocket" /\ Read)

Spec == Init /\ [][Next]_vars /\ Fairness

-----------------------------------------------------------------------------
\* A reload neither takes the configuration back, unless reloads overlap, nor starts
\* after Start has returned.
ReloadsExact == NoRollbackUnlessOverlap /\ NoReloadAfterStop

\* What observers and health endpoints are told.
TellsExact == NoEventStranded /\ HealthFaithful

\* Requests are served while the server runs and not after, and what comes over a
\* websocket is read as it came.
ServingExact == ServeExact /\ WsExact

\* Every event reaches its observer; stopping a server and closing a connection come to
\* their end, except in the situations named in StopReturns and LoopEnds.
ServicesProgress == EventsObserved /\ StopReturns /\ ReadReturns /\ LoopEnds
=============================================================================
