--------------------------- MODULE HttpServing -----------------------------
(***************************************************************************)
(* httpx at run time: a server that is started and stopped, and a          *)
(* websocket connection it has accepted.                                   *)
(***************************************************************************)
EXTENDS Integers, Sequences

(***************************************************************************)
(* httpx: how a server is started and stopped, by                          *)
(*   "context"     ListenContext of the std, gin and echo adapters,        *)
(*   "fiber"       ListenContext of the fiber adapter,                     *)
(*   "fallback"    ListenAndServeContext over Listen and Shutdown,         *)
(*   "background"  the start and stop hooks of httpx/dix.                  *)
(* A goroutine runs the listener while the caller waits for it or for its  *)
(* context; the net/http server refuses to serve once it was shut down.    *)
(***************************************************************************)

VARIABLES
  kind,      \* which of the four
  listener,  \* the goroutine: "none", "new", "tracked", "serving", "ended"
  listened,  \* what Listen returned: "" not yet, "closed", "failed"
  shut,      \* http.Server.Shutdown was called on the tracked server
  busy,      \* a connection is being served
  caller,    \* "new", "waiting", "shutting", "draining", "returned"
  done,      \* the context is canceled, or the application stops
  missed,    \* Shutdown was called when there was no server to shut down
  cut        \* the caller returned after a cancellation while a connection was served

serveVars == <<kind, listener, listened, shut, busy, caller, done, missed, cut>>

ServeInit ==
  /\ kind \in {"context", "fiber", "fallback", "background"}
  /\ listener = "none" /\ listened = "" /\ shut = FALSE /\ busy = FALSE
  /\ caller = "new" /\ done = FALSE /\ missed = FALSE /\ cut = FALSE

-----------------------------------------------------------------------------
\* Fault: the goroutine is started first and the server tracked by it.
BeginUntracked ==
  /\ caller = "new"
  /\ listener' = "new" /\ caller' = "waiting"
  /\ UNCHANGED <<kind, listened, shut, busy, done, missed, cut>>

\* ListenContext of the net/http adapters tracks its server before it starts the
\* goroutine; listenAsync and startBackground start one that calls Listen.
Begin ==
  /\ caller = "new"
  /\ listener' = IF kind = "context" THEN "tracked" ELSE "new"
  /\ caller' = "waiting"
  /\ UNCHANGED <<kind, listened, shut, busy, done, missed, cut>>

\* Listen: trackServer.
trackServer ==
  /\ listener = "new" /\ kind # "fiber"
  /\ listener' = "tracked"
  /\ UNCHANGED <<kind, listened, shut, busy, caller, done, missed, cut>>

\* ListenAndServe: ErrServerClosed after a Shutdown, an error of the address, or serving.
Serve ==
  /\ listener = IF kind = "fiber" THEN "new" ELSE "tracked"
  /\ \/ shut /\ listener' = "ended" /\ listened' = "closed"
     \/ ~shut /\ listener' = "ended" /\ listened' = "failed"
     \/ ~shut /\ listener' = "serving" /\ UNCHANGED listened
  /\ UNCHANGED <<kind, shut, busy, caller, done, missed, cut>>

Accept ==
  /\ listener = "serving" /\ ~shut /\ ~busy
  /\ busy' = TRUE
  /\ UNCHANGED <<kind, listener, listened, shut, caller, done, missed, cut>>

ServeEnds ==
  /\ listener = "serving" /\ shut
  /\ listener' = "ended" /\ listened' = "closed"
  /\ UNCHANGED <<kind, shut, busy, caller, done, missed, cut>>

Respond ==
  /\ busy /\ busy' = FALSE
  /\ UNCHANGED <<kind, listener, listened, shut, caller, done, missed, cut>>

-----------------------------------------------------------------------------
\* The listener ended by itself; nobody waits for the one of httpx/dix.
ListenReturned ==
  /\ caller = "waiting" /\ listened # "" /\ kind # "background"
  /\ caller' = "returned"
  /\ UNCHANGED <<kind, listener, listened, shut, busy, done, missed, cut>>

CancelContext ==
  /\ ~done /\ done' = TRUE
  /\ UNCHANGED <<kind, listener, listened, shut, busy, caller, missed, cut>>

\* Fault: a server counts as active only once it serves.
activeIfServing == listener = "serving"

\* activeServer: the tracked one; fiber's application knows its listener only.
activeServer == IF kind = "fiber" THEN listener = "serving" ELSE listener \in {"tracked", "serving"}

NoServer == IF kind = "fiber" THEN listener # "serving" ELSE listener \in {"none", "new"}

\* Shutdown with the context that is done already returns at once when a connection is
\* open; with the background context it waits.
Shutdown ==
  /\ caller = "waiting" /\ done
  /\ shut' = (shut \/ activeServer) /\ missed' = NoServer
  /\ IF kind = "context" /\ busy
       THEN caller' = "returned" /\ cut' = TRUE
       ELSE caller' = "shutting" /\ UNCHANGED cut
  /\ UNCHANGED <<kind, listener, listened, busy, done>>

\* Shutdown returns; the adapters' ListenContext waits for the goroutine, the fallback
\* only looks whether it has ended, and the stop hook does not even that.
ShutdownReturns ==
  /\ caller = "shutting" /\ (shut => ~busy)
  /\ caller' = IF kind \in {"context", "fiber"} THEN "draining" ELSE "returned"
  /\ cut' = (caller' = "returned" /\ busy)
  /\ UNCHANGED <<kind, listener, listened, shut, busy, done, missed>>

Drained ==
  /\ caller = "draining" /\ listened # ""
  /\ caller' = "returned"
  /\ UNCHANGED <<kind, listener, listened, shut, busy, done, missed, cut>>

CallerStep == Begin \/ ListenReturned \/ Shutdown \/ ShutdownReturns \/ Drained
ListenStep == trackServer \/ Serve \/ ServeEnds

ServeNext == CallerStep \/ ListenStep \/ Accept \/ Respond \/ CancelContext

-----------------------------------------------------------------------------
(* Properties. *)

\* When the caller has returned after a cancellation, no listener takes connections any
\* more or will, unless Shutdown came before there was a server to shut down.
NothingServedAfterStop ==
  caller = "returned" /\ done /\ ~missed => listener \in {"none", "ended"} \/ shut \/ listened # ""

\* Connections are waited for, except by ListenContext, which shuts down with the context
\* that has just ended, and by a Shutdown that found no server.
DrainsUnlessCanceled == cut => kind = "context" \/ missed

ServeExact == NothingServedAfterStop /\ DrainsUnlessCanceled

\* A canceled ListenAndServeContext and a stopping application get on: the listener ends
\* once it is shut down; but fiber, shut down before it listens, listens for ever.
StopReturns == (done /\ caller = "waiting") ~> (caller = "returned" \/ (kind = "fiber" /\ missed))

-----------------------------------------------------------------------------
(***************************************************************************)
(* httpx/websocket: gwsConn.  The read loop of gws calls OnMessage, OnPing *)
(* and OnClose in one goroutine; the handler of the request reads from the *)
(* channels they fill.                                                     *)
(***************************************************************************)

CONSTANTS
  RecvSize,    \* capacity of recv, 32 in the code
  MaxMessages, \* bound: messages of the peer
  MaxPings     \* bound: pings whose pong cannot be written

VARIABLES
  arrived,   \* messages that came in
  pings,     \* pongs that failed
  readLoop,  \* the read loop: "reading", "message" (in OnMessage), "closing" (in OnClose), "done"
  why,       \* whether OnClose was given an error
  recv,      \* gwsConn.recv
  errs,      \* gwsConn.errCh, of capacity 1
  closed,    \* both channels are closed
  handler,   \* "idle", "reading" (in Read), "returned"
  read,      \* the messages Read has returned
  outcome    \* what the last Read returned: "", "message", "error", "closed", "canceled"

wsVars == <<arrived, pings, readLoop, why, recv, errs, closed, handler, read, outcome>>

WsInit ==
  /\ arrived = 0 /\ pings = 0 /\ readLoop = "reading" /\ why = FALSE
  /\ recv = <<>> /\ errs = <<>> /\ closed = FALSE
  /\ handler = "idle" /\ read = <<>> /\ outcome = ""

-----------------------------------------------------------------------------
(* The read loop. *)

OnMessage ==
  /\ readLoop = "reading" /\ arrived < MaxMessages
  /\ arrived' = arrived + 1 /\ readLoop' = "message"
  /\ UNCHANGED <<pings, why, recv, errs, closed, handler, read, outcome>>

\* Fault: a full channel drops the message.
SendDropsWhenFull ==
  /\ readLoop = "message"
  /\ recv' = IF Len(recv) < RecvSize THEN Append(recv, arrived) ELSE recv
  /\ readLoop' = "reading"
  /\ UNCHANGED <<arrived, pings, why, errs, closed, handler, read, outcome>>

\* OnMessage sends to recv and waits for room.
SendMessage ==
  /\ readLoop = "message" /\ Len(recv) < RecvSize
  /\ recv' = Append(recv, arrived) /\ readLoop' = "reading"
  /\ UNCHANGED <<arrived, pings, why, errs, closed, handler, read, outcome>>

\* reportError: a full channel drops the error, a closed one is recovered from.
reportError == errs' = IF ~closed /\ errs = <<>> THEN <<"pong">> ELSE errs

OnPing ==
  /\ readLoop = "reading" /\ pings < MaxPings
  /\ pings' = pings + 1 /\ reportError
  /\ UNCHANGED <<arrived, readLoop, why, recv, closed, handler, read, outcome>>

\* The connection ends: closed by the peer, by the handler or by a deadline.
ConnectionEnds ==
  /\ readLoop = "reading"
  /\ readLoop' = "closing" /\ why' \in BOOLEAN
  /\ UNCHANGED <<arrived, pings, recv, errs, closed, handler, read, outcome>>

\* Fault: the channels are closed only when there is an error to report.
OnCloseSilent ==
  /\ readLoop = "closing" /\ (why => errs = <<>>)
  /\ errs' = IF why THEN <<"close">> ELSE errs
  /\ closed' = why /\ readLoop' = "done"
  /\ UNCHANGED <<arrived, pings, why, recv, handler, read, outcome>>

\* OnClose, once: the error waits for room in errCh, then both channels are closed.
OnClose ==
  /\ readLoop = "closing" /\ (why => errs = <<>>)
  /\ errs' = IF why THEN <<"close">> ELSE errs
  /\ closed' = TRUE /\ readLoop' = "done"
  /\ UNCHANGED <<arrived, pings, why, recv, handler, read, outcome>>

-----------------------------------------------------------------------------
(* The handler. *)

BeginRead ==
  /\ handler = "idle" /\ handler' = "reading"
  /\ UNCHANGED <<arrived, pings, readLoop, why, recv, errs, closed, read, outcome>>

\* Read selects among the channels that are ready, closed ones included.
Read ==
  /\ handler = "reading" /\ handler' = "idle"
  /\ \/ recv # <<>> /\ read' = Append(read, Head(recv)) /\ recv' = Tail(recv)
        /\ outcome' = "message" /\ UNCHANGED errs
     \/ recv = <<>> /\ closed /\ outcome' = "closed" /\ UNCHANGED <<recv, read, errs>>
     \/ errs # <<>> /\ errs' = <<>> /\ outcome' = "error" /\ UNCHANGED <<recv, read>>
     \/ errs = <<>> /\ closed /\ outcome' = "closed" /\ UNCHANGED <<recv, read, errs>>
  /\ UNCHANGED <<arrived, pings, readLoop, why, closed>>

\* Read returns because its context is done.
ReadCanceled ==
  /\ handler = "reading" /\ handler' = "idle" /\ outcome' = "canceled"
  /\ UNCHANGED <<arrived, pings, readLoop, why, recv, errs, closed, read>>

\* The handler returns; with an error, Upgrade sends a close frame and the read loop
\* comes to its end like after any other close.
HandlerReturns ==
  /\ handler = "idle" /\ handler' = "returned"
  /\ UNCHANGED <<arrived, pings, readLoop, why, recv, errs, closed, read, outcome>>

WsNext ==
  \/ OnMessage \/ SendMessage \/ OnPing \/ ConnectionEnds \/ OnClose
  \/ BeginRead \/ Read \/ ReadCanceled \/ HandlerReturns

-----------------------------------------------------------------------------
(* Properties. *)

\* Messages are read in the order in which they came, without a gap: closing and errors
\* may cost the last ones, never one in between.
ReadInOrder ==
  /\ read = [i \in 1..Len(read) |-> i]
  /\ recv = [i \in 1..Len(recv) |-> Len(read) + i]
  /\ Len(read) + Len(recv) + (IF readLoop = "message" THEN 1 ELSE 0) = arrived

\* Nothing is sent on a closed channel: what sends and what closes is one goroutine.
NoSendAfterClose == closed => readLoop = "done"

WsExact == ReadInOrder /\ NoSendAfterClose

\* A Read that waits when the connection has ended returns, also behind an error that
\* fills errCh.
ReadReturns == (handler = "reading" /\ readLoop \in {"closing", "done"}) ~> handler # "reading"

\* The read loop ends unless failed pongs have filled errCh and the handler has left.
LoopEnds == readLoop = "closing" ~> readLoop = "done" \/ (errs # <<>> /\ handler # "reading")
=============================================================================
