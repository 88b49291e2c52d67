------------------------------ MODULE DbRuntime ------------------------------
(***************************************************************************)
(* dbx: DB, Tx, Row, cursors and hooks over a pool of connections.  Each   *)
(* caller runs operations one after the other, inside or outside of a      *)
(* transaction; database/sql is external: a query holds a connection until *)
(* its rows are closed, a transaction until it is committed or rolled back. *)
(***************************************************************************)
EXTENDS Integers, FiniteSets, Sequences

CONSTANTS
  DbCallers,     \* goroutines
  HookCount,     \* hooks of the DB
  ResultRows,    \* rows a query finds
  PoolSize,      \* connections
  MaxOperations  \* bound: operations per caller

ASSUME RuntimeConstants == IsFiniteSet(DbCallers) /\ {HookCount, ResultRows, PoolSize, MaxOperations} \subseteq Nat

VARIABLES
  pool,          \* free connections
  tx,            \* caller -> "none", "open"; a Tx is used by its caller alone
  call           \* caller -> the operation it is in

runtimeVars == <<pool, tx, call>>

\* befores, afters count the calls of each hook; finished counts observed operations
\* that have come to an end; yields, stopped and overrun are the consumer of QueryEach;
\* rowErr, peeked are Row.resultErr and what a second Scan got.
NewCall == [kind |-> "none", pc |-> "idle", n |-> 0, conn |-> FALSE, row |-> 0, err |-> FALSE, stopped |-> FALSE, overrun |-> FALSE,
            closeFailed |-> FALSE, consumed |-> FALSE, peeked |-> "none", afters |-> 0, finished |-> 0]

RuntimeInit ==
  /\ pool = PoolSize
  /\ tx = [c \in DbCallers |-> "none"]
  /\ call = [c \in DbCallers |-> NewCall]

Kinds == {"exec", "all", "each", "row", "scalar"}
\* A statement in a transaction runs on the connection of the transaction.
NeedsConnection(c) == tx[c] = "none"
Acquire(c) == IF NeedsConnection(c) THEN pool > 0 /\ pool' = pool - 1 ELSE pool' = pool
Give(c) == pool' = IF call[c].conn THEN pool + 1 ELSE pool

StartedAs(c, kind) == [NewCall EXCEPT !.kind = kind, !.pc = "before", !.n = call[c].n + 1, !.afters = call[c].afters, !.finished = call[c].finished]
Start(c, kind) ==
  /\ call[c].pc = "idle" /\ call[c].n < MaxOperations
  /\ CASE kind = "begin" -> tx[c] = "none"
       [] kind \in {"commit", "rollback"} -> tx[c] = "open"
       [] OTHER -> TRUE
  /\ call' = [call EXCEPT ![c] = StartedAs(c, kind)]
  /\ UNCHANGED <<pool, tx>>

-----------------------------------------------------------------------------
(* Hooks. *)

\* after: every hook sees the end of the operation, also one whose Before, or an
\* earlier one's, failed.
after(s) == [s EXCEPT !.afters = @ + HookCount, !.finished = @ + 1]

\* applyBeforeHooks: the first failing Before ends the operation with its error.
before(c) ==
  /\ call[c].pc = "before"
  /\ \E ran \in 0..HookCount :
       call' = [call EXCEPT ![c] = IF ran < HookCount THEN [after(@) EXCEPT !.pc = "idle", !.err = TRUE] ELSE [@ EXCEPT !.pc = "run"]]
  /\ UNCHANGED <<pool, tx>>

-----------------------------------------------------------------------------
(* Statements. *)

\* Exec gives its connection back at once; the observation ends with the call.
observedExecContext(c) ==
  /\ call[c].pc = "run" /\ call[c].kind = "exec" /\ (NeedsConnection(c) => pool > 0)
  /\ \E ok \in BOOLEAN : call' = [call EXCEPT ![c] = [after(@) EXCEPT !.pc = "idle", !.err = ~ok]]
  /\ UNCHANGED <<pool, tx>>

\* A query holds a connection from here on; its observation ends before the rows are read.
observedQueryContext(c) ==
  /\ call[c].pc = "run" /\ call[c].kind \in {"all", "each", "scalar"}
  /\ \/ /\ Acquire(c)
        /\ call' = [call EXCEPT ![c] = [after(@) EXCEPT !.pc = "rows", !.conn = NeedsConnection(c)]]
     \/ /\ call' = [call EXCEPT ![c] = [after(@) EXCEPT !.pc = "idle", !.err = TRUE]]
        /\ UNCHANGED pool
  /\ UNCHANGED tx

\* QueryRowContext: the observation ends in Scan, unless there are no rows to scan.
QueryRowContext(c) ==
  /\ call[c].pc = "run" /\ call[c].kind = "row"
  /\ \/ /\ Acquire(c)
        /\ call' = [call EXCEPT ![c].pc = "rows", ![c].conn = NeedsConnection(c)]
     \/ /\ call' = [call EXCEPT ![c] = [after(@) EXCEPT !.pc = "idle", !.err = TRUE]]
        /\ UNCHANGED pool
  /\ UNCHANGED tx

\* scanRows, scanAllBoundWithCapacity, scalar: whatever goes wrong, the rows are closed.
scanRows(c) ==
  /\ call[c].pc = "rows" /\ call[c].kind \in {"all", "scalar"}
  /\ \E ok \in BOOLEAN : call' = [call EXCEPT ![c].pc = "idle", ![c].conn = FALSE,
       ![c].err = ~ok \/ (call[c].kind = "scalar" /\ ResultRows # 1)]
  /\ Give(c) /\ UNCHANGED tx

\* Row.Scan marks the row consumed, then reads it outside of the lock.
RowScan(c) ==
  /\ call[c].pc = "rows" /\ call[c].kind = "row" /\ ~call[c].consumed
  /\ call' = [call EXCEPT ![c].consumed = TRUE]
  /\ UNCHANGED <<pool, tx>>
scanSingleRow(c) ==
  /\ call[c].pc = "rows" /\ call[c].kind = "row" /\ call[c].consumed
  /\ \E ok \in BOOLEAN : call' = [call EXCEPT ![c] = [after(@) EXCEPT !.pc = "scanned", !.conn = FALSE, !.err = ~ok \/ ResultRows = 0]]
  /\ Give(c) /\ UNCHANGED tx
\* Another goroutine's Scan of the same Row gets the result so far, which is nil
\* until the first Scan is through.
ScanAgain(c) ==
  /\ call[c].kind = "row" /\ call[c].consumed /\ call[c].pc \in {"rows", "scanned"} /\ call[c].peeked = "none"
  /\ call' = [call EXCEPT ![c].peeked = IF call[c].pc = "scanned" /\ call[c].err THEN "error" ELSE "nil"]
  /\ UNCHANGED <<pool, tx>>
RowDone(c) ==
  /\ call[c].pc = "scanned" /\ call' = [call EXCEPT ![c].pc = "idle"] /\ UNCHANGED <<pool, tx>>

-----------------------------------------------------------------------------
(* QueryEach: iterateCursor yields items to a loop that may stop. *)

\* Fault: after a stop the loop goes on with the next row.
drainCursorOn(c) == call[c].row < ResultRows
drainCursor(c) == call[c].row < ResultRows /\ ~call[c].stopped /\ ~call[c].err

\* One call of yield; whoever yields after the loop has stopped overruns it (Go panics).
Yield(s, stop) == [s EXCEPT !.overrun = @ \/ s.stopped, !.stopped = @ \/ stop]

yieldCursorItem(c) ==
  /\ call[c].pc = "rows" /\ call[c].kind = "each" /\ drainCursor(c)
  /\ \E stop, bad \in BOOLEAN : call' = [call EXCEPT ![c] = [Yield(@, stop) EXCEPT !.row = call[c].row + 1, !.err = bad]]
  /\ UNCHANGED <<pool, tx>>

\* The end of the rows, with the error of the iteration, if any.
yieldCursorErr(c) ==
  /\ call[c].pc = "rows" /\ call[c].kind = "each" /\ ~drainCursor(c)
  /\ \E bad, stop \in BOOLEAN :
       call' = [call EXCEPT ![c] = [IF ~@.stopped /\ ~@.err /\ bad THEN Yield(@, stop) ELSE @ EXCEPT !.pc = "closing"]]
  /\ UNCHANGED <<pool, tx>>

\* The deferred Close; its error is yielded, too.
yieldCursorCloseError(c) ==
  /\ call[c].pc = "closing"
  /\ \E bad, stop \in BOOLEAN :
       call' = [call EXCEPT ![c] = [IF bad THEN Yield(@, stop) ELSE @ EXCEPT !.pc = "idle", !.conn = FALSE, !.closeFailed = bad]]
  /\ Give(c) /\ UNCHANGED tx

-----------------------------------------------------------------------------
(* Transactions. *)

BeginTx(c) ==
  /\ call[c].pc = "run" /\ call[c].kind = "begin"
  /\ \/ /\ pool > 0 /\ pool' = pool - 1 /\ tx' = [tx EXCEPT ![c] = "open"]
        /\ call' = [call EXCEPT ![c] = [after(@) EXCEPT !.pc = "idle"]]
     \/ /\ UNCHANGED <<pool, tx>>
        /\ call' = [call EXCEPT ![c] = [after(@) EXCEPT !.pc = "idle", !.err = TRUE]]

\* Commit and Rollback end the transaction, also when they report an error; a hook
\* that refuses them leaves it open.
CommitContext(c) ==
  /\ call[c].pc = "run" /\ call[c].kind \in {"commit", "rollback"}
  /\ \E ok \in BOOLEAN : call' = [call EXCEPT ![c] = [after(@) EXCEPT !.pc = "idle", !.err = ~ok]]
  /\ tx' = [tx EXCEPT ![c] = "none"] /\ pool' = pool + 1

RuntimeNext ==
  \E c \in DbCallers :
    \/ \E kind \in Kinds \cup {"begin", "commit", "rollback"} : Start(c, kind)
    \/ before(c) \/ observedExecContext(c) \/ observedQueryContext(c) \/ QueryRowContext(c) \/ scanRows(c)
    \/ RowScan(c) \/ scanSingleRow(c) \/ ScanAgain(c) \/ RowDone(c)
    \/ yieldCursorItem(c) \/ yieldCursorErr(c) \/ yieldCursorCloseError(c)
    \/ BeginTx(c) \/ CommitContext(c)

-----------------------------------------------------------------------------
(* Properties. *)

\* Connections in use are those of open transactions and of rows not yet closed: none
\* is lost by a failing scan, an early stop or a refused hook.
ConnectionsAccounted ==
  pool = PoolSize - Cardinality({ c \in DbCallers : tx[c] = "open" }) - Cardinality({ c \in DbCallers : call[c].conn })

\* Between operations every hook has seen the end of every operation, once, whichever
\* Before refused it.
HooksSeeEveryEnd ==
  \A c \in DbCallers :
    /\ call[c].afters = HookCount * call[c].finished
    /\ call[c].pc = "idle" => call[c].finished = call[c].n

\* A loop over QueryEach that has stopped is called again only to report that closing
\* the cursor failed.
NoOverrunUnlessCloseFails == \A c \in DbCallers : call[c].overrun => call[c].closeFailed

\* Connections, hooks and cursors of concurrent calls, together.
RuntimeExact == ConnectionsAccounted /\ HooksSeeEveryEnd /\ NoOverrunUnlessCloseFails

-----------------------------------------------------------------------------
(***************************************************************************)
(* dbx/idgen: ids made of the millisecond, the node and a sequence number. *)
(* A generator has a mutex around nextID; when the sequence of one         *)
(* millisecond is used up it spins, with the mutex held, until the clock   *)
(* has moved on.  The system clock may be set back.  The node of a process *)
(* is a hash of its host's name.                                           *)
(***************************************************************************)
CONSTANTS
  Hosts,        \* processes, each with one generator
  SequenceSize, \* 2^12 in the code
  MaxNodeID,    \* 1023 in the code
  MaxClock,     \* bound on time
  MaxIssued     \* bound on ids

ASSUME IdsConstants == {SequenceSize, MaxNodeID, MaxClock, MaxIssued} \subseteq Nat \ {0}

VARIABLES
  nowMs,        \* the clock all hosts read
  setBack,      \* ghost: the clock was set back
  nodeOf,       \* the node id of each host
  gen,          \* lastUnixMs, snowflakeSeq of each generator, and whether its caller spins
  issued        \* the ids handed out: sequence of [host, id]

idsVars == <<nowMs, setBack, nodeOf, gen, issued>>

\* The remainder may be 0, which is no node id.
ResolveNodeIDFromHostName(hash) == IF hash % (MaxNodeID + 1) < 1 THEN 1 ELSE hash % (MaxNodeID + 1)
NewSnowflakeAccepts(node) == node \in 1..MaxNodeID

IdsInit ==
  /\ nowMs = 1 /\ setBack = FALSE
  /\ nodeOf \in { f \in [Hosts -> { ResolveNodeIDFromHostName(h) : h \in 0..2 * MaxNodeID }] :
                    \A h \in Hosts : NewSnowflakeAccepts(f[h]) }
  /\ gen = [h \in Hosts |-> [last |-> 0, seq |-> 0, spinning |-> FALSE]]
  /\ issued = <<>>

Tick == nowMs < MaxClock /\ nowMs' = nowMs + 1 /\ UNCHANGED <<setBack, nodeOf, gen, issued>>
ClockSetBack == nowMs > 1 /\ nowMs' = nowMs - 1 /\ setBack' = TRUE /\ UNCHANGED <<nodeOf, gen, issued>>

Issue(h, seq) ==
  /\ gen' = [gen EXCEPT ![h] = [last |-> nowMs, seq |-> seq, spinning |-> FALSE]]
  /\ issued' = Append(issued, [host |-> h, id |-> <<nowMs, nodeOf[h], seq>>])

\* Fault: the sequence goes on although it is used up for this millisecond.
nextIDWithoutWaiting(h) ==
  /\ Len(issued) < MaxIssued /\ ~gen[h].spinning
  /\ IF nowMs = gen[h].last THEN Issue(h, (gen[h].seq + 1) % SequenceSize) ELSE Issue(h, 0)
  /\ UNCHANGED <<nowMs, setBack, nodeOf>>

nextID(h) ==
  LET seq == (gen[h].seq + 1) % SequenceSize IN
  /\ Len(issued) < MaxIssued /\ ~gen[h].spinning
  /\ IF nowMs # gen[h].last THEN Issue(h, 0)
     ELSE IF seq # 0 THEN Issue(h, seq)
     ELSE gen' = [gen EXCEPT ![h].seq = 0, ![h].spinning = TRUE] /\ UNCHANGED issued
  /\ UNCHANGED <<nowMs, setBack, nodeOf>>

\* The loop in nextID ends when the clock is past the last millisecond used.
SpinEnds(h) ==
  /\ gen[h].spinning /\ nowMs > gen[h].last
  /\ Issue(h, 0)
  /\ UNCHANGED <<nowMs, setBack, nodeOf>>

IdsNext == Tick \/ ClockSetBack \/ \E h \in Hosts : nextID(h) \/ SpinEnds(h)

-----------------------------------------------------------------------------
Later(a, b) == a[1] < b[1] \/ (a[1] = b[1] /\ a[3] < b[3])

\* As long as the clock is not set back, the ids of a host grow, and no two hosts
\* with different nodes share one: hosts whose names hash to one node may.
IdsUnique ==
  ~setBack => \A i, j \in DOMAIN issued : i < j =>
    /\ issued[i].host = issued[j].host => Later(issued[i].id, issued[j].id)
    /\ nodeOf[issued[i].host] # nodeOf[issued[j].host] => issued[i].id # issued[j].id

-----------------------------------------------------------------------------
(* Sessions and generators share no state and run side by side. *)

DbRuntimeSpec ==
  /\ RuntimeInit /\ IdsInit
  /\ [][[RuntimeNext]_runtimeVars /\ [IdsNext]_idsVars]_<<runtimeVars, idsVars>>

\* Connections, transactions and hooks are accounted for whatever fails, a loop over a
\* query is called after its end only to report that closing failed, and ids are unique
\* while the clock goes forward.
DbRuntimeExact == RuntimeExact /\ IdsUnique
=============================================================================
