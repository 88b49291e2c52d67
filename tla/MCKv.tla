-------------------------------- MODULE MCKv --------------------------------
(***************************************************************************)
(* The users of the key-value store of kvx in one model, except the lock   *)
(* with time (KvLock): part says which of them the behaviour is about, the *)
(* others keep their initial state. They share no keys, so each is checked *)
(* as if alone.                                                            *)
(***************************************************************************)
EXTENDS KvPermits, KvMessaging, KvRepository, KvDocuments

VARIABLE part

Parts == {"semaphore", "rwlock", "stream", "manager", "pubsub", "repository", "json", "mapping"}

EmptyMapping ==
  /\ tags = [f \in FieldSet |-> [name |-> "", index |-> FALSE, alias |-> "", ignored |-> FALSE]]
  /\ value = 0 /\ stored = 0 /\ loaded = NoField

Init ==
  /\ part \in Parts
  /\ SemInit /\ RWInit /\ StreamInit /\ ManagerInit /\ PubSubInit
  /\ RepoInit /\ (part = "repository" \/ repo = [kind |-> "hash", script |-> TRUE])
  /\ JsonInit /\ (part = "json" \/ doc = NoDoc)
  /\ IF part = "mapping" THEN MappingInit ELSE EmptyMapping

Next ==
  /\ UNCHANGED part
  /\ IF part = "semaphore" THEN SemNext ELSE UNCHANGED semVars
  /\ IF part = "rwlock" THEN RWNext ELSE UNCHANGED rwVars
  /\ IF part = "stream" THEN StreamNext ELSE UNCHANGED streamVars
  /\ IF part = "manager" THEN ManagerNext ELSE UNCHANGED managerVars
  /\ IF part = "pubsub" THEN PubSubNext ELSE UNCHANGED pubsubVars
  /\ IF part = "repository" THEN RepoNext ELSE UNCHANGED repoVars
  /\ IF part = "json" THEN JsonNext ELSE UNCHANGED jsonVars
  /\ IF part = "mapping" THEN MappingNext ELSE UNCHANGED mapVars

vars == <<part, semVars, rwVars, streamVars, managerVars, pubsubVars, repoVars, jsonVars, mapVars>>

\* The fairness of the stream processes and of the subscribers, each in its own part: every
\* process goes on, the claimer's ticker ticks and idle time passes.
Fairness ==
  /\ WF_streamVars(part = "stream" /\ ConsumerRead) /\ WF_streamVars(part = "stream" /\ BatchRead)
  /\ WF_streamVars(part = "stream" /\ flushOnTimer) /\ WF_streamVars(part = "stream" /\ processBatch)
  /\ WF_streamVars(part = "stream" /\ AutoClaim) /\ WF_streamVars(part = "stream" /\ Tick)
  /\ \A i \in Ids : WF_streamVars(part = "stream" /\ GoesIdle(i))
  /\ \A p \in Procs : WF_streamVars(part = "stream" /\ StreamStep(p))
  /\ \A s \in 1..MaxSubscriptions : WF_pubsubVars(part = "pubsub" /\ s \in SubIds /\ (Forward(s) \/ SentOn(s)))
  /\ \A u \in Users : WF_pubsubVars(part = "pubsub" /\ Receive(u))

Spec == Init /\ [][Next]_vars /\ Fairness

-----------------------------------------------------------------------------
\* Semaphore, RWLock and lock manager: the count stays within the limit and is exact
\* unless updates overlap, a writer that came alone excludes readers, and what the
\* manager's callers hold can be released through it.
LocksExact == CountWithinLimit /\ ExactUnlessRaced /\ ExclusiveIfLockedAlone /\ HeldIsManaged

\* At-least-once delivery: nothing is lost, and nothing handled again without cause.
DeliveryExact == NothingLost /\ AgainOnlyIfClaimedOrUnacked

\* What is written to a document or a hash is what is read: elements are popped once,
\* merged fields stay, fields are decoded into the field they were encoded from and
\* found by each of their names.
DocumentsExact == PopsOnce /\ MergesKept /\ CodecRoundTrip /\ ResolvesOwn
=============================================================================
