---------------------------- MODULE PluginDelivery ----------------------------
(***************************************************************************)
(* Events for one plugin: the memory bus calls the plugin's handler among  *)
(* others, the handler queues them, the worker delivers them one by one    *)
(* or, while it believes the plugin is in error, holds them in a ring      *)
(* buffer, and a recovery flushes the buffer.  Refreshes come from the     *)
(* plugin's supervisor and from operations on any plugin.                  *)
(***************************************************************************)
EXTENDS Naturals, Sequences

CONSTANTS
  MaxEvents,     \* bound: events published, numbered in that order
  QueueSize, BufferCap,
  Attempts,      \* one and the retries
  MaxReports,    \* bound: status reports of the supervisor
  MaxRefreshes,  \* bound: refreshes for operations on other plugins
  MaxEnables     \* bound: an operator enables the plugin while it is in error

ASSUME DeliveryAssumption ==
  /\ {MaxEvents, MaxReports, MaxRefreshes, MaxEnables} \subseteq Nat
  /\ {QueueSize, BufferCap, Attempts} \subseteq Nat \ {0}

VARIABLES
  published,   \* how many publications have begun
  calls,       \* events in whose publication the handler's turn is still to come
  before,      \* <<e, f>>: the handler was through with e when f was published
  status,      \* the plugin's status in the registry
  known,       \* pluginWorker.status
  subscribed,  \* the worker's bus subscription is in place
  queue,       \* pluginWorker.queue
  buffer,      \* pluginWorker.buffer
  current,     \* what the worker's run loop does
  refresh,     \* the refreshes under way
  flushing,    \* drained from the buffer, not yet queued again
  delivered,   \* what the plugin has received
  held,        \* the events that were ever in the buffer
  retried,     \* the events some attempt of which failed
  spent        \* the bounds used up

vars == <<published, calls, before, status, known, subscribed, queue, buffer, current, refresh, flushing,
          delivered, held, retried, spent>>

Events == 1..MaxEvents
Statuses == {"active", "error"}
Refreshers == {"supervisor", "operator"}
NoEvent == 0

NoRefresh == [stage |-> "none", saw |-> "active", flush |-> FALSE]
Idle == [stage |-> "idle", event |-> NoEvent, attempt |-> 0]

(* Every variable has its type.                                            *)
TypeOK ==
  /\ published \in 0..MaxEvents /\ calls \subseteq Events /\ before \subseteq Events \X Events
  /\ status \in Statuses /\ known \in Statuses /\ subscribed \in BOOLEAN
  /\ {queue, buffer, flushing, delivered} \subseteq Seq(Events)
  /\ Len(queue) <= QueueSize /\ Len(buffer) <= BufferCap
  /\ current \in [stage : {"idle", "taken", "buffering", "delivering"},
                  event : Events \cup {NoEvent}, attempt : 0..Attempts]
  /\ refresh \in [Refreshers -> [stage : {"none", "list", "apply", "resubscribe", "drain", "enqueue"},
                                 saw : Statuses, flush : BOOLEAN]]
  /\ held \subseteq Events /\ retried \subseteq Events
  /\ spent \in [reports : 0..MaxReports, refreshes : 0..MaxRefreshes, enables : 0..MaxEnables]

Init ==
  /\ published = 0 /\ calls = {} /\ before = {} /\ status = "active" /\ known = "active" /\ subscribed = TRUE
  /\ queue = <<>> /\ buffer = <<>> /\ flushing = <<>> /\ delivered = <<>>
  /\ current = Idle /\ refresh = [r \in Refreshers |-> NoRefresh]
  /\ held = {} /\ retried = {}
  /\ spent = [reports |-> 0, refreshes |-> 0, enables |-> 0]

-----------------------------------------------------------------------------
(* The queue drops what does not fit.                                      *)
enqueue(e) == queue' = IF Len(queue) < QueueSize THEN Append(queue, e) ELSE queue

(***************************************************************************)
(* The bus lists the subscriptions and then calls their handlers one after *)
(* another, in no particular order and without its lock: other publishers, *)
(* and the handlers themselves, publish meanwhile.  A handler that was not *)
(* subscribed misses the event.                                            *)
(***************************************************************************)
Publish ==
  /\ published < MaxEvents
  /\ published' = published + 1
  /\ calls' = IF subscribed THEN calls \cup {published'} ELSE calls
  /\ before' = before \cup {<<e, published'>> : e \in (1..published) \ calls}
  /\ UNCHANGED <<status, known, subscribed, queue, buffer, current, refresh, flushing, delivered,
                 held, retried, spent>>

invokeHandler(e) ==
  /\ e \in calls
  /\ calls' = calls \ {e}
  /\ enqueue(e)
  /\ UNCHANGED <<published, before, status, known, subscribed, buffer, current, refresh, flushing,
                 delivered, held, retried, spent>>

announced == <<published, calls, before>>

-----------------------------------------------------------------------------
(* The worker.                                                             *)
bus == <<announced, status, subscribed, refresh, flushing, spent>>

Take ==
  /\ current.stage = "idle" /\ queue # <<>>
  /\ current' = [stage |-> "taken", event |-> Head(queue), attempt |-> 0]
  /\ queue' = Tail(queue)
  /\ UNCHANGED <<bus, known, buffer, delivered, held, retried>>

process ==
  /\ current.stage = "taken"
  /\ current' = [current EXCEPT !.stage = IF known = "error" THEN "buffering" ELSE "delivering"]
  /\ UNCHANGED <<bus, known, queue, buffer, delivered, held, retried>>

(* What purgeExpiredLocked leaves: entries expire from the oldest on.      *)
Unexpired(b) == {SubSeq(b, i, Len(b)) : i \in 1..(Len(b) + 1)}

(* The ring buffer drops its oldest entry when it is full.                 *)
BufferAdd ==
  /\ current.stage = "buffering"
  /\ \E b \in Unexpired(buffer) :
       buffer' = Append(IF Len(b) >= BufferCap THEN Tail(b) ELSE b, current.event)
  /\ held' = held \cup {current.event}
  /\ current' = Idle
  /\ UNCHANGED <<bus, known, queue, delivered, retried>>

attemptDeliver ==
  /\ current.stage = "delivering"
  /\ delivered' = Append(delivered, current.event)
  /\ current' = Idle
  /\ UNCHANGED <<bus, known, queue, buffer, held, retried>>

(* A failed event goes to the end of the queue for its next attempt.       *)
RequeueFailed ==
  /\ current.stage = "delivering"
  /\ retried' = retried \cup {current.event}
  /\ enqueue(current.event)
  /\ current' = Idle
  /\ UNCHANGED <<bus, known, buffer, delivered, held>>

(* A failed attempt may have reached the plugin; the last one gives up.    *)
deliverWithRetry ==
  /\ current.stage = "delivering"
  /\ retried' = retried \cup {current.event}
  /\ delivered' \in {delivered, Append(delivered, current.event)}
  /\ current' = IF current.attempt + 1 < Attempts THEN [current EXCEPT !.attempt = @ + 1] ELSE Idle
  /\ UNCHANGED <<bus, known, queue, buffer, held>>

-----------------------------------------------------------------------------
(* Refresh and Flush.                                                      *)
worker == <<queue, current, delivered, held, retried>>

Refresher(r, stage) == refresh[r].stage = stage
Starts(r, flush) == refresh' = [refresh EXCEPT ![r] = [NoRefresh EXCEPT !.stage = "list", !.flush = flush]]
Goes(r, stage) == refresh' = [refresh EXCEPT ![r].stage = stage]
Spends(what, limit) == spent[what] < limit /\ spent' = [spent EXCEPT ![what] = @ + 1]

(* Unhealthy may be reported again; healthy counts only in the error state.*)
(* No refresh follows an error whose automations could not be cancelled.   *)
handleStatusChange(healthy) ==
  /\ Refresher("supervisor", "none") /\ Spends("reports", MaxReports)
  /\ healthy => status = "error"
  /\ status' = IF healthy THEN "active" ELSE "error"
  /\ \/ Starts("supervisor", healthy)
     \/ ~healthy /\ UNCHANGED refresh
  /\ UNCHANGED <<announced, known, subscribed, buffer, flushing, worker>>

OtherPluginChanges ==
  /\ Refresher("operator", "none") /\ Spends("refreshes", MaxRefreshes)
  /\ Starts("operator", FALSE)
  /\ UNCHANGED <<announced, status, known, subscribed, buffer, flushing, worker>>

Enable ==
  /\ Refresher("operator", "none") /\ Spends("enables", MaxEnables)
  /\ status = "error" /\ status' = "active"
  /\ Starts("operator", FALSE)
  /\ UNCHANGED <<announced, known, subscribed, buffer, flushing, worker>>

(* The records are read before the deliverer's lock is taken.              *)
ActivePlugins(r) ==
  /\ Refresher(r, "list")
  /\ refresh' = [refresh EXCEPT ![r].stage = "apply", ![r].saw = status]
  /\ UNCHANGED <<announced, status, known, subscribed, buffer, flushing, worker, spent>>

(* A call whose subscription is gone is left out, unless it has passed the *)
(* bus's check already.                                                    *)
updateRecord(r) ==
  /\ Refresher(r, "apply") /\ \A q \in Refreshers : ~Refresher(q, "resubscribe")
  /\ known' = refresh[r].saw /\ subscribed' = FALSE /\ calls' \in SUBSET calls
  /\ Goes(r, "resubscribe")
  /\ UNCHANGED <<published, before, status, buffer, flushing, worker, spent>>

resubscribe(r) ==
  /\ Refresher(r, "resubscribe")
  /\ subscribed' = TRUE
  /\ Goes(r, IF refresh[r].flush THEN "drain" ELSE "none")
  /\ UNCHANGED <<announced, status, known, buffer, flushing, worker, spent>>

(* The entries are copied and stay in the buffer.                          *)
CopyBuffer(r) ==
  /\ Refresher(r, "drain")
  /\ flushing' \in Unexpired(buffer)
  /\ Goes(r, "enqueue")
  /\ UNCHANGED <<announced, status, known, subscribed, buffer, worker, spent>>

Drain(r) ==
  /\ Refresher(r, "drain")
  /\ flushing' \in Unexpired(buffer)
  /\ buffer' = <<>>
  /\ Goes(r, "enqueue")
  /\ UNCHANGED <<announced, status, known, subscribed, worker, spent>>

Flush(r) ==
  /\ Refresher(r, "enqueue")
  /\ \/ /\ flushing # <<>>
        /\ enqueue(Head(flushing)) /\ flushing' = Tail(flushing)
        /\ UNCHANGED refresh
     \/ /\ flushing = <<>> /\ Goes(r, "none") /\ UNCHANGED <<queue, flushing>>
  /\ UNCHANGED <<announced, status, known, subscribed, buffer, current, delivered, held, retried, spent>>

-----------------------------------------------------------------------------
Next ==
  \/ Publish \/ (\E e \in calls : invokeHandler(e))
  \/ Take \/ process \/ BufferAdd \/ attemptDeliver \/ deliverWithRetry
  \/ \E healthy \in BOOLEAN : handleStatusChange(healthy)
  \/ OtherPluginChanges \/ Enable
  \/ \E r \in Refreshers :
       ActivePlugins(r) \/ updateRecord(r) \/ resubscribe(r) \/ Drain(r) \/ Flush(r)

Spec == Init /\ [][Next]_vars

-----------------------------------------------------------------------------
Precedes(e, f) == \E i, j \in DOMAIN delivered : i < j /\ delivered[i] = e /\ delivered[j] = f

(***************************************************************************)
(* Delivery is sequential: of two events that were never in the ring       *)
(* buffer, and of which the bus was through with the plugin's handler for  *)
(* the first when the second was published, the second never reaches the   *)
(* plugin before the first, whatever fails, is retried or is dropped, and  *)
(* whoever refreshes.                                                      *)
(***************************************************************************)
LiveEventsInOrder ==
  \A e, f \in Events \ held : <<e, f>> \in before => ~Precedes(f, e)

(***************************************************************************)
(* What the comment in the bus's Publish says: regular subscriptions are   *)
(* called synchronously, which preserves ordering.  So two events that     *)
(* were never in the ring buffer arrive in the order of their publication. *)
(***************************************************************************)
BusPreservesOrdering == \A e, f \in Events \ held : Precedes(e, f) => e <= f

(***************************************************************************)
(* Buffering, draining and queueing again make no copies: an event that    *)
(* the plugin receives twice is one whose delivery attempt had failed.     *)
(***************************************************************************)
ReplayedOnce == \A e \in Events : Precedes(e, e) => e \in retried

(***************************************************************************)
(* What the comment on Flush says: the buffered events are delivered, in   *)
(* order, and then normal queue processing continues.  So an event that    *)
(* was held reaches the plugin before every event published after it.      *)
(***************************************************************************)
FlushedInOrder == \A e \in held : \A f \in Events : <<e, f>> \in before => ~Precedes(f, e)

(***************************************************************************)
(* What the design says of recovery: the buffered events are flushed.  So  *)
(* when the worker knows the plugin is active, has nothing to do, and no   *)
(* refresh or flush is under way, the buffer is empty.                     *)
(***************************************************************************)
RecoveryEmptiesBuffer ==
  /\ \A r \in Refreshers : Refresher(r, "none")
  /\ known = "active" /\ status = "active" /\ current = Idle /\ queue = <<>>
  => buffer = <<>>
=============================================================================
