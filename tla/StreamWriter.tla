----------------------------- MODULE StreamWriter -----------------------------
(***************************************************************************)
(* The writers of agentctl's agent stream.  Each WebSocket connection has  *)
(* one; it pages the journal from its own cursor until it has caught up,   *)
(* then waits for a wake.  A producer commits an event to the journal and  *)
(* then signals, twice for most events, on one channel of capacity one     *)
(* that all writers share.                                                 *)
(***************************************************************************)
EXTENDS Naturals

CONSTANTS
  Writers,
  PageSize,        \* agentStreamReplayPageSize
  Signals,         \* bound: how often the producer signals one commit
  MaxEvents,       \* bound: events committed
  MaxLosses        \* bound: connections that die

VARIABLES
  high,            \* the stream's HighWater
  owed,            \* signals the producer has still to send
  wake,            \* the token in the wake channel
  writer,          \* the writers
  delivered,       \* the events up to it were written to a live connection
  losses

vars == <<high, owed, wake, writer, delivered, losses>>

WriterType ==
  [phase : {"off", "draining", "checking", "waiting"},
   after : Nat,    \* the cursor
   live : BOOLEAN] \* the connection still has a reader

(* Every variable has its type.                                            *)
TypeOK ==
  /\ high \in Nat /\ owed \in Nat /\ wake \in BOOLEAN
  /\ writer \in [Writers -> WriterType]
  /\ delivered \in Nat /\ losses \in Nat

Off == [phase |-> "off", after |-> 0, live |-> FALSE]

Init ==
  /\ high = 0 /\ owed = 0 /\ wake = FALSE
  /\ writer = [w \in Writers |-> Off]
  /\ delivered = 0 /\ losses = 0

-----------------------------------------------------------------------------
Commit ==
  /\ high < MaxEvents /\ owed = 0
  /\ high' = high + 1
  /\ owed' = Signals
  /\ UNCHANGED <<wake, writer, delivered, losses>>

(* A signal that finds the channel full is dropped.                        *)
SignalDeliveryWakeup ==
  /\ owed > 0
  /\ owed' = owed - 1
  /\ wake' = TRUE
  /\ UNCHANGED <<high, writer, delivered, losses>>

(* The backend attaches with its replay cursor; the writer drains first.   *)
Attach(w) ==
  /\ writer[w].phase = "off"
  /\ \A v \in Writers : ~writer[v].live
  /\ \E after \in 0..delivered :
       writer' = [writer EXCEPT ![w] =
                    [phase |-> "draining", after |-> after, live |-> TRUE]]
  /\ UNCHANGED <<high, owed, wake, delivered, losses>>

Least(a, b) == IF a < b THEN a ELSE b

(* A page is written; if it reaches the high water it was read with, the   *)
(* high water is read again.                                               *)
DrainPage(w) ==
  LET next == Least(writer[w].after + PageSize, high)
  IN  /\ writer[w].phase = "draining"
      /\ writer' = [writer EXCEPT ![w].after = next,
                      ![w].phase = IF next < high THEN "draining" ELSE "checking"]
      /\ delivered' = IF writer[w].live /\ writer[w].after <= delivered /\ next > delivered
                      THEN next ELSE delivered
      /\ UNCHANGED <<high, owed, wake, losses>>

RefreshHighWater(w) ==
  /\ writer[w].phase = "checking"
  /\ writer' = [writer EXCEPT ![w].phase =
                  IF high <= writer[w].after THEN "waiting" ELSE "draining"]
  /\ UNCHANGED <<high, owed, wake, delivered, losses>>

TakeWake(w) ==
  /\ writer[w].phase = "waiting" /\ wake
  /\ wake' = FALSE
  /\ writer' = [writer EXCEPT ![w].phase = "draining"]
  /\ UNCHANGED <<high, owed, delivered, losses>>

(* The reader of a connection is gone; its writer learns of it later.      *)
LoseConnection(w) ==
  /\ writer[w].live /\ losses < MaxLosses
  /\ losses' = losses + 1
  /\ writer' = [writer EXCEPT ![w].live = FALSE]
  /\ UNCHANGED <<high, owed, wake, delivered>>

Detach(w) ==
  /\ writer[w].phase # "off" /\ ~writer[w].live
  /\ writer' = [writer EXCEPT ![w] = Off]
  /\ UNCHANGED <<high, owed, wake, delivered, losses>>

Serve(w) == DrainPage(w) \/ RefreshHighWater(w) \/ TakeWake(w)

Next ==
  \/ Commit \/ SignalDeliveryWakeup
  \/ \E w \in Writers : Attach(w) \/ Serve(w) \/ LoseConnection(w) \/ Detach(w)

Spec == Init /\ [][Next]_vars

-----------------------------------------------------------------------------
(***************************************************************************)
(* What the comment of durableAgentStreamWriter.run says: "a racing commit *)
(* cannot be lost between drain and wait".  A writer with a reader that    *)
(* waits behind the high water of the journal has a wake coming.           *)
(***************************************************************************)
CommitNotLost ==
  \A w \in Writers :
    writer[w].live /\ writer[w].phase = "waiting" /\ writer[w].after < high
      => wake \/ owed > 0
=============================================================================
