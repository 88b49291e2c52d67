---------------------------- MODULE DixObserver -----------------------------
(***************************************************************************)
(* dix: events for observers, and health reports.                          *)
(*                                                                         *)
(* Every observer has a dispatcher: an unbounded deque, a channel of one   *)
(* token, and one goroutine started with the first event.  Start, Stop and *)
(* health checks of several goroutines emit events to it.                  *)
(***************************************************************************)
EXTENDS Integers, Sequences, FiniteSets

CONSTANTS
  Emitters,  \* goroutines that emit events
  MaxEvents  \* bound: events each of them emits

ASSUME ObserverAssumption == IsFiniteSet(Emitters) /\ MaxEvents \in Nat

VARIABLES
  pending,   \* observerDispatcher.queue
  token,     \* observerDispatcher.notify holds a token
  running,   \* startOnce: the goroutine was started
  draining,  \* it is in its inner loop
  sent,      \* events each emitter has put in the queue
  telling,   \* emitters between PushBack and the send to notify
  received   \* the events the observer was called with

observerVars == <<pending, token, running, draining, sent, telling, received>>

ObserverInit ==
  /\ pending = <<>> /\ token = FALSE /\ running = FALSE /\ draining = FALSE
  /\ sent = [e \in Emitters |-> 0] /\ telling = {} /\ received = <<>>

\* Fault: the goroutine is started with the second event of an emitter only.
EnqueueStartsLate(e) ==
  /\ e \notin telling /\ sent[e] < MaxEvents
  /\ running' = (running \/ sent[e] > 0)
  /\ pending' = Append(pending, [from |-> e, nr |-> sent[e] + 1])
  /\ sent' = [sent EXCEPT ![e] = @ + 1]
  /\ telling' = telling \cup {e}
  /\ UNCHANGED <<token, draining, received>>

\* enqueue: start the goroutine once, then PushBack.
Enqueue(e) ==
  /\ e \notin telling /\ sent[e] < MaxEvents
  /\ running' = TRUE
  /\ pending' = Append(pending, [from |-> e, nr |-> sent[e] + 1])
  /\ sent' = [sent EXCEPT ![e] = @ + 1]
  /\ telling' = telling \cup {e}
  /\ UNCHANGED <<token, draining, received>>

\* Fault: only the emitter that finds its event alone in the queue sends the token.
NotifyIfAlone(e) ==
  /\ e \in telling
  /\ token' = (token \/ Len(pending) = 1) /\ telling' = telling \ {e}
  /\ UNCHANGED <<pending, running, draining, sent, received>>

\* The send to notify, which a full channel ignores.
Notify(e) ==
  /\ e \in telling
  /\ token' = TRUE /\ telling' = telling \ {e}
  /\ UNCHANGED <<pending, running, draining, sent, received>>

\* run: take the token.
WakeUp ==
  /\ running /\ ~draining /\ token
  /\ token' = FALSE /\ draining' = TRUE
  /\ UNCHANGED <<pending, running, sent, telling, received>>

\* Fault: the newest event first.
DeliverNewest ==
  /\ draining
  /\ IF pending = <<>> THEN draining' = FALSE /\ UNCHANGED <<pending, received>>
     ELSE /\ received' = Append(received, pending[Len(pending)])
          /\ pending' = SubSeq(pending, 1, Len(pending) - 1) /\ UNCHANGED draining
  /\ UNCHANGED <<token, running, sent, telling>>

\* PopFront and the call of the observer, whose panic is recovered; an empty queue ends
\* the inner loop.
Deliver ==
  /\ draining
  /\ IF pending = <<>> THEN draining' = FALSE /\ UNCHANGED <<pending, received>>
     ELSE received' = Append(received, Head(pending)) /\ pending' = Tail(pending) /\ UNCHANGED draining
  /\ UNCHANGED <<token, running, sent, telling>>

ObserverNext ==
  \/ \E e \in Emitters : Enqueue(e) \/ Notify(e)
  \/ WakeUp \/ Deliver

\* No event is lost to a wake-up: one that waits has the goroutine at it, a token
\* in the channel, or an emitter about to send one.  And the observer sees the
\* events of one emitter in the order they were emitted, each once.
NoEventStranded ==
  /\ pending # <<>> => draining \/ token \/ telling # {}
  /\ \A i, j \in DOMAIN received :
       i < j /\ received[i].from = received[j].from => received[i].nr < received[j].nr
  /\ Len(received) + Len(pending) =
       Cardinality({ x \in Emitters \X (1..MaxEvents) : x[2] <= sent[x[1]] })

\* Every event emitted reaches the observer.
EventsObserved == \A e \in Emitters : \A n \in 1..MaxEvents :
  (sent[e] >= n) ~> \E i \in DOMAIN received : received[i] = [from |-> e, nr |-> n]

-----------------------------------------------------------------------------
(* Container.RegisterHealthCheckOfKind and Runtime.checkHealthByKind. *)

CONSTANT MaxChecks \* bound: registered health checks

Kinds == {"general", "liveness"}
CheckNames == {"db", "mq"}

VARIABLES
  checks,  \* Container.healthChecks, with what each check would return
  report,  \* the last HealthReport: the result under each name
  asked    \* the kind the report is about

healthVars == <<checks, report, asked>>

HealthInit == checks = <<>> /\ report = <<>> /\ asked = "none"

\* A kind of "" is registered as "general".
RegisterHealthCheckOfKind(k, n, ok) ==
  /\ Len(checks) < MaxChecks
  /\ checks' = Append(checks, [kind |-> IF k = "" THEN "general" ELSE k, name |-> n, ok |-> ok])
  /\ report' = <<>> /\ asked' = "none"

\* Fault: the checks of every kind are run.
OfAnyKind(k) == DOMAIN checks

Of(k) == { i \in DOMAIN checks : checks[i].kind = k }
LastNamed(k, n) == CHOOSE i \in Of(k) : checks[i].name = n /\ \A j \in Of(k) : checks[j].name = n => j <= i

\* Every check of the kind is run in turn; its result is stored under its name.
checkHealthByKind(k) ==
  /\ report' = [ n \in { checks[i].name : i \in Of(k) } |-> checks[LastNamed(k, n)].ok ]
  /\ asked' = k /\ UNCHANGED checks

HealthNext ==
  \/ \E k \in Kinds \cup {""}, n \in CheckNames, ok \in BOOLEAN : RegisterHealthCheckOfKind(k, n, ok)
  \/ \E k \in Kinds : checkHealthByKind(k)

Healthy == \A n \in DOMAIN report : report[n]

\* A report is healthy exactly when all checks of its kind pass, unless two of them
\* share a name: then a failure may be hidden by a later success, never the reverse.
HealthFaithful ==
  asked # "none" =>
    LET all == { checks[i] : i \in { j \in DOMAIN checks : checks[j].kind = asked } }
        same == \E i, j \in DOMAIN checks : i # j /\ checks[i].kind = asked /\ checks[j].kind = asked
                                            /\ checks[i].name = checks[j].name
    IN /\ (\A c \in all : c.ok) => Healthy
       /\ Healthy => (\A c \in all : c.ok) \/ same
=============================================================================
