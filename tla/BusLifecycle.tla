---------------------------- MODULE BusLifecycle ----------------------------
(***************************************************************************)
(* What eventx.Bus promises about its shutdown, with everything about      *)
(* handlers, snapshots and workers left out: work is admitted only while   *)
(* the bus is open, admitted work is carried through, and the Close that   *)
(* shut the bus returns only when no admitted work is left.                *)
(***************************************************************************)
CONSTANTS Calls, Closers
VARIABLES open, work, closing

vars == <<open, work, closing>>

Init ==
  /\ open = TRUE
  /\ work = [c \in Calls |-> "outside"]
  /\ closing = [k \in Closers |-> "idle"]

Admit(c) ==
  /\ open /\ work[c] = "outside"
  /\ work' = [work EXCEPT ![c] = "admitted"]
  /\ UNCHANGED <<open, closing>>

Refuse(c) ==
  /\ work[c] = "outside"
  /\ work' = [work EXCEPT ![c] = "over"]
  /\ UNCHANGED <<open, closing>>

Finish(c) ==
  /\ work[c] = "admitted"
  /\ work' = [work EXCEPT ![c] = "over"]
  /\ UNCHANGED <<open, closing>>

Shut(k) ==
  /\ open /\ closing[k] = "idle"
  /\ open' = FALSE
  /\ closing' = [closing EXCEPT ![k] = "draining"]
  /\ UNCHANGED work

Drained(k) ==
  /\ closing[k] = "draining"
  /\ \A c \in Calls : work[c] # "admitted"
  /\ closing' = [closing EXCEPT ![k] = "drained"]
  /\ UNCHANGED <<open, work>>

ShutAlready(k) ==
  /\ ~open /\ closing[k] = "idle"
  /\ closing' = [closing EXCEPT ![k] = "ignored"]
  /\ UNCHANGED <<open, work>>

Next ==
  \/ \E c \in Calls : Admit(c) \/ Refuse(c) \/ Finish(c)
  \/ \E k \in Closers : Shut(k) \/ Drained(k) \/ ShutAlready(k)

Spec == Init /\ [][Next]_vars
=============================================================================
