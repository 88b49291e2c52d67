--------------------------- MODULE KvMessaging -----------------------------
(***************************************************************************)
(* kvx/module/stream and kvx/module/pubsub: messages through the server.   *)
(***************************************************************************)
EXTENDS Integers, Sequences, FiniteSets, SequencesExt

(***************************************************************************)
(* kvx/module/stream: a Consumer, a BatchConsumer and a Claimer of one     *)
(* consumer group. Entries of the stream are numbered from 1; the server   *)
(* keeps how far the group has read and its pending entries with owner and *)
(* idleness. Calls may fail, with or without effect, handlers may fail,    *)
(* and a process may die between any two steps and be started again under  *)
(* the same consumer name.                                                 *)
(***************************************************************************)

CONSTANTS
  BatchSize,    \* ConsumerOptions.BatchSize, also the claimer's
  AutoAck,      \* ConsumerOptions.AutoAck
  MaxEntries,   \* bound: entries added to the stream
  MaxFailures   \* bound: failing calls, failing handlers and crashes

ASSUME StreamAssumption == BatchSize \in Nat \ {0} /\ AutoAck \in BOOLEAN /\ MaxEntries \in Nat /\ MaxFailures \in Nat

VARIABLES
  added,     \* number of entries in the stream
  group,     \* the group: last delivered id, pending entries, acknowledged ids
  worker,    \* each process: place, entries it works on, ids it will acknowledge
  handled,   \* history: how often the handler succeeded for each entry, up to 2
  failures,  \* history: failures so far
  again      \* history: entries claimed while pending, or whose Ack reported an error

streamVars == <<added, group, worker, handled, failures, again>>

Procs == {"consumer", "batch", "claimer"}
Ids == 1..MaxEntries
Start(p) == IF p = "claimer" THEN "claim" ELSE "run"
Fresh(p) == [at |-> Start(p), todo |-> <<>>, ok |-> <<>>]
Pending == DOMAIN group.pel
Between(a, b) == [i \in 1..(b - a) |-> a + i]
SmallerOf(a, b) == IF a < b THEN a ELSE b

StreamInit ==
  /\ added = 0 /\ failures = 0 /\ again = {}
  /\ group = [last |-> 0, pel |-> [i \in {} |-> 0], acked |-> {}, dropped |-> {}]
  /\ worker = [p \in Procs |-> Fresh(p)]
  /\ handled = [i \in Ids |-> 0]

Set(p, w) == worker' = [worker EXCEPT ![p] = w]
Fails == failures < MaxFailures /\ failures' = failures + 1

\* Stream.Add: XADD.
XAdd == added < MaxEntries /\ added' = added + 1 /\ UNCHANGED <<group, worker, handled, failures, again>>

\* The pending entries once those in ids are p's and fresh.
Owned(p, ids) ==
  [i \in Pending \cup ids |-> IF i \in ids THEN [owner |-> p, idle |-> FALSE] ELSE group.pel[i]]

\* XREADGROUP with ">": the next entries, now pending for p.
Delivered(p, n) == Between(group.last, SmallerOf(added, group.last + n))
XReadGroup(p, n) ==
  /\ group' = [group EXCEPT !.last = @ + Len(Delivered(p, n)),
                            !.pel = Owned(p, Range(Delivered(p, n)))]
  /\ UNCHANGED <<added, handled, failures, again>>

\* Consumer.Run: an empty read goes round again.
ConsumerRead ==
  /\ worker["consumer"].at = "run" /\ added > group.last
  /\ XReadGroup("consumer", BatchSize)
  /\ Set("consumer", [at |-> "handle", todo |-> Delivered("consumer", BatchSize), ok |-> <<>>])

remainingCapacity(buffer) == IF BatchSize - Len(buffer) > 0 THEN BatchSize - Len(buffer) ELSE BatchSize

\* BatchConsumer.Run reads what the buffer has room for, then flushIfReady.
BatchRead ==
  LET w == worker["batch"]
      room == remainingCapacity(w.todo)
      buffer == w.todo \o Delivered("batch", room)
  IN /\ w.at = "run" /\ added > group.last
     /\ XReadGroup("batch", room)
     /\ Set("batch", [w EXCEPT !.todo = buffer, !.at = IF Len(buffer) < BatchSize THEN "run" ELSE "flush"])

\* flushOnTimer; an empty buffer is not handed over.
flushOnTimer ==
  /\ worker["batch"].at = "run" /\ worker["batch"].todo # <<>>
  /\ Set("batch", [worker["batch"] EXCEPT !.at = "flush"])
  /\ UNCHANGED <<added, group, handled, failures, again>>

\* XAUTOCLAIM from "0": the first idle entries, whoever's they are, now p's and fresh.
Idle == { i \in Pending : group.pel[i].idle }
FirstIdle ==
  { e \in UNION { [1..n -> Idle] : n \in 0..BatchSize } :
      /\ \A j, k \in DOMAIN e : j < k => e[j] < e[k]
      /\ \A i \in Idle \ Range(e) : Len(e) = BatchSize /\ \A k \in DOMAIN e : e[k] < i }
AutoClaim ==
  \E entries \in FirstIdle :
    /\ worker["claimer"].at = "claim"
    /\ group' = [group EXCEPT !.pel = Owned("claimer", Range(entries))]
    /\ again' = again \cup Range(entries)
    /\ Set("claimer", [at |-> IF entries = <<>> THEN "wait" ELSE "handle", todo |-> entries, ok |-> <<>>])
    /\ UNCHANGED <<added, handled, failures>>

\* Claimer.Run: the ticker.
Tick ==
  /\ worker["claimer"].at = "wait" /\ Set("claimer", Fresh("claimer"))
  /\ UNCHANGED <<added, group, handled, failures, again>>

\* minIdleTime passes for a pending entry.
GoesIdle(i) ==
  /\ i \in Pending /\ ~group.pel[i].idle
  /\ group' = [group EXCEPT !.pel[i].idle = TRUE] /\ UNCHANGED <<added, worker, handled, failures, again>>

\* Where processEntries and processClaimedEntries go when the handler has seen all
\* entries: to the Ack if there is something to acknowledge.
AfterHandling(p, w) ==
  CASE w.todo # <<>> -> w
    [] w.todo = <<>> /\ w.ok # <<>> -> [w EXCEPT !.at = "ack"]
    [] OTHER -> Fresh(p)

\* Fault: what the claimer handled is not acknowledged.
KeepsOwn(p) == p # "claimer" /\ AutoAck

\* Whether the id of a handled entry is kept for the Ack.
Keeps(p) == p = "claimer" \/ AutoAck

\* Fault: an entry is acknowledged although its handler failed.
handlerFailedAcked(p, w) == [w EXCEPT !.todo = Tail(@), !.ok = IF Keeps(p) THEN Append(@, Head(w.todo)) ELSE @]

\* The handler failed for the first entry: it stays pending.
handlerFailed(p, w) == [w EXCEPT !.todo = Tail(@)]

\* processEntries, processClaimedEntries: the handler for one entry.
HandleEntry(p) ==
  LET w == worker[p]
      i == Head(w.todo)
  IN /\ p \in {"consumer", "claimer"} /\ w.at = "handle"
     /\ \/ /\ handled' = [handled EXCEPT ![i] = SmallerOf(@ + 1, 2)] /\ UNCHANGED failures
           /\ Set(p, AfterHandling(p, [w EXCEPT !.todo = Tail(@), !.ok = IF Keeps(p) THEN Append(@, i) ELSE @]))
        \/ /\ Fails /\ UNCHANGED handled
           /\ Set(p, AfterHandling(p, handlerFailed(p, w)))
     /\ UNCHANGED <<added, group, again>>

\* Run returned an error, or the process died: what it had in hand is forgotten.
Ended(p) == [Fresh(p) EXCEPT !.at = "ended"]

\* processBatch: the handler for the whole buffer; its error ends Run.
processBatch ==
  LET w == worker["batch"] IN
  /\ w.at = "flush"
  /\ \/ /\ handled' = [i \in Ids |-> IF i \in Range(w.todo) THEN SmallerOf(handled[i] + 1, 2) ELSE handled[i]]
        /\ Set("batch", IF AutoAck THEN [w EXCEPT !.at = "ack", !.ok = w.todo] ELSE Fresh("batch"))
        /\ UNCHANGED failures
     \/ Fails /\ Set("batch", Ended("batch")) /\ UNCHANGED handled
  /\ UNCHANGED <<added, group, again>>

\* XACK of an id that is not pending does nothing.
Acked(ids) ==
  group' = [group EXCEPT !.pel = [i \in Pending \ ids |-> @[i]], !.acked = @ \cup (ids \cap Pending)]

\* ConsumerGroup.Ack; an error, with or without effect, ends Run.
Ack(p) ==
  LET ids == Range(worker[p].ok) IN
  /\ worker[p].at = "ack"
  /\ \/ Acked(ids) /\ Set(p, Fresh(p)) /\ UNCHANGED <<failures, again>>
     \/ Fails /\ again' = again \cup ids /\ (Acked(ids) \/ UNCHANGED group) /\ Set(p, Ended(p))
  /\ UNCHANGED <<added, handled>>

\* A read or claim fails, the context ends, or the process dies.
Crash(p) ==
  /\ worker[p].at # "ended" /\ Fails /\ Set(p, Ended(p))
  /\ UNCHANGED <<added, group, handled, again>>
Run(p) ==
  /\ worker[p].at = "ended" /\ Set(p, Fresh(p))
  /\ UNCHANGED <<added, group, handled, failures, again>>

\* DeleteConsumer: XGROUP DELCONSUMER forgets the consumer's pending entries.
DeleteConsumer(p) ==
  LET gone == { i \in Pending : group.pel[i].owner = p } IN
  /\ worker[p].at = "ended" /\ Fails
  /\ group' = [group EXCEPT !.pel = [i \in Pending \ gone |-> @[i]], !.dropped = @ \cup gone]
  /\ UNCHANGED <<added, worker, handled, again>>

StreamStep(p) == HandleEntry(p) \/ Ack(p) \/ Run(p)

StreamNext ==
  \/ XAdd \/ ConsumerRead \/ BatchRead \/ flushOnTimer \/ AutoClaim \/ Tick \/ processBatch
  \/ (\E i \in Ids : GoesIdle(i))
  \/ \E p \in Procs : StreamStep(p) \/ Crash(p) \/ DeleteConsumer(p)

-----------------------------------------------------------------------------
\* No entry is acknowledged before its handler succeeded, and one that has been
\* delivered stays pending until then: whichever process dies or is claimed from in
\* between, only DeleteConsumer loses an entry.
NothingLost ==
  \A i \in 1..group.last :
    /\ i \in group.acked => handled[i] > 0
    /\ i \in Pending \cup group.acked \cup group.dropped

\* The handler runs again for an entry it succeeded for only if the entry was
\* claimed while pending or its Ack reported an error.
AgainOnlyIfClaimedOrUnacked == \A i \in Ids : handled[i] > 1 => i \in again

\* Once failures stop, every entry is acknowledged: a Consumer does not come back to
\* an entry it left pending, but the claimer does as long as its Run goes on.
EveryEntryAcked == \A i \in Ids : (i <= added) ~> (i \in group.acked \cup group.dropped)

-----------------------------------------------------------------------------
(***************************************************************************)
(* kvx/module/pubsub.PubSub: one subscription per channel, shared by its   *)
(* callers, over the redis adapter, whose Channel starts a goroutine that  *)
(* forwards into a buffered Go channel. One channel name; goroutines call  *)
(* Subscribe, Unsubscribe and Close, and subscribers may stop reading.     *)
(***************************************************************************)

CONSTANTS
  Users,     \* goroutines that use one PubSub
  MaxSubscriptions, \* bound: subscriptions made at the server
  BufferSize, \* capacity of the forwarding channel (100 in the code)
  NoSub      \* no subscription

ASSUME PubSubAssumption == MaxSubscriptions \in Nat /\ BufferSize \in Nat /\ NoSub \notin Nat

VARIABLES
  registry,  \* PubSub.subscriptions
  subs,      \* subscriptions made: open at the server, forwarder, buffered messages
  user,      \* each goroutine: place, and the subscription it works on
  got        \* the subscription whose channel the user reads

pubsubVars == <<registry, subs, user, got>>

PubSubInit ==
  /\ registry = NoSub /\ subs = << >> /\ got = [u \in Users |-> NoSub]
  /\ user = [u \in Users |-> [at |-> "idle", sub |-> NoSub]]

UserAt(u, at, sub) == user' = [user EXCEPT ![u] = [at |-> at, sub |-> sub]]
SubIds == DOMAIN subs

\* redisSubscription.Channel: the first call makes the channel and its forwarder.
Started(s) == [subs EXCEPT ![s].fwd = IF @ = "none" THEN "run" ELSE @]

\* Subscribe finds the channel in the registry.
SubscribeShared(u) ==
  /\ user[u].at = "idle" /\ registry # NoSub
  /\ got' = [got EXCEPT ![u] = registry] /\ subs' = Started(registry)
  /\ UNCHANGED <<registry, user>>

\* Subscribe does not, and makes a subscription at the server.
ClientSubscribe(u) ==
  /\ user[u].at = "idle" /\ registry = NoSub /\ Cardinality(SubIds) < MaxSubscriptions
  /\ subs' = [s \in 1..(Cardinality(SubIds) + 1) |->
                IF s \in SubIds THEN subs[s] ELSE [open |-> TRUE, fwd |-> "none", buf |-> 0]]
  /\ UserAt(u, "store", Cardinality(SubIds) + 1) /\ UNCHANGED <<registry, got>>

\* Fault: the subscription that came second is dropped without being closed.
GetOrStoreLeaks(u) ==
  LET actual == IF registry = NoSub THEN user[u].sub ELSE registry IN
  /\ user[u].at = "store"
  /\ registry' = actual /\ subs' = Started(actual)
  /\ got' = [got EXCEPT ![u] = actual] /\ UserAt(u, "idle", NoSub)

\* GetOrStore: the first one stays; a later one closes its own and takes the first.
\* If that close fails the caller gets the error and no channel.
GetOrStoreSub(u) ==
  /\ user[u].at = "store"
  /\ \/ /\ registry = NoSub /\ registry' = user[u].sub /\ subs' = Started(user[u].sub)
        /\ got' = [got EXCEPT ![u] = user[u].sub] /\ UserAt(u, "idle", NoSub)
     \/ /\ registry # NoSub /\ UNCHANGED registry
        /\ subs' = [Started(registry) EXCEPT ![user[u].sub].open = FALSE]
        /\ got' = [got EXCEPT ![u] = registry] /\ UserAt(u, "idle", NoSub)

\* Unsubscribe and Close take the subscription out of the registry and close it.
LoadAndDeleteSub(u) ==
  /\ user[u].at = "idle" /\ registry # NoSub
  /\ UserAt(u, "close", registry) /\ registry' = NoSub /\ UNCHANGED <<subs, got>>
CloseSub(u) ==
  /\ user[u].at = "close" /\ subs' = [subs EXCEPT ![user[u].sub].open = FALSE]
  /\ UserAt(u, "idle", NoSub) /\ UNCHANGED <<registry, got>>

\* Fault: the forwarder does not notice that the subscription is closed.
ForwardIgnoresClose(s) ==
  /\ subs[s].fwd = "run" /\ subs[s].buf < BufferSize
  /\ subs' = [subs EXCEPT ![s].buf = @ + 1] /\ UNCHANGED <<registry, user, got>>

\* The forwarder: a message into the buffer (waiting when it is full), or the end.
Forward(s) ==
  /\ subs[s].fwd = "run"
  /\ \/ subs[s].open /\ subs[s].buf < BufferSize /\ subs' = [subs EXCEPT ![s].buf = @ + 1]
     \/ subs[s].open /\ subs[s].buf = BufferSize /\ subs' = [subs EXCEPT ![s].fwd = "sending"]
     \/ ~subs[s].open /\ subs' = [subs EXCEPT ![s].fwd = "done"]
  /\ UNCHANGED <<registry, user, got>>
SentOn(s) ==
  /\ subs[s].fwd = "sending" /\ subs[s].buf < BufferSize
  /\ subs' = [subs EXCEPT ![s].buf = @ + 1, ![s].fwd = "run"] /\ UNCHANGED <<registry, user, got>>

\* A reader of the channel takes a message.
Receive(u) ==
  /\ got[u] # NoSub /\ subs[got[u]].buf > 0
  /\ subs' = [subs EXCEPT ![got[u]].buf = @ - 1] /\ UNCHANGED <<registry, user, got>>

PubSubNext ==
  \/ \E u \in Users : SubscribeShared(u) \/ ClientSubscribe(u) \/ GetOrStoreSub(u) \/ LoadAndDeleteSub(u)
                      \/ CloseSub(u) \/ Receive(u)
  \/ \E s \in SubIds : Forward(s) \/ SentOn(s)

\* No subscription is left open at the server with nobody able to close it: an open
\* one is in the registry or in the hands of the call that will store or close it,
\* however Subscribe, Unsubscribe and Close overlap.
OpenIsOwned ==
  \A s \in SubIds : subs[s].open => registry = s \/ \E u \in Users : user[u].sub = s

\* While subscribers go on reading, the forwarder of a closed subscription ends. It
\* is left behind, waiting for room, only if its channel is full and everyone who
\* had it reads another subscription's channel by now.
ForwarderEnds ==
  \A s \in 1..MaxSubscriptions :
    (s \in SubIds /\ ~subs[s].open)
      ~> s \in SubIds /\ (subs[s].fwd \in {"none", "done"} \/ (subs[s].fwd = "sending" /\ \A u \in Users : got[u] # s))
=============================================================================
