------------------------- MODULE PluginDeliveryProofs -------------------------
(***************************************************************************)
(* Proofs about PluginDelivery, for any number of events, reports,         *)
(* refreshes and attempts and any size of queue and buffer: events that    *)
(* were never buffered are delivered in order, and buffering makes no      *)
(* copies.                                                                 *)
(***************************************************************************)
EXTENDS PluginDelivery, TLAPS

Elements(s) == {s[i] : i \in DOMAIN s}

Distinct(s) == \A i, j \in DOMAIN s : s[i] = s[j] => i = j

(* Of the elements of s that are not in H, no later one is R-before an     *)
(* earlier one.                                                            *)
InOrder(s, H, R) ==
  \A i, j \in DOMAIN s : i < j /\ s[i] \notin H /\ s[j] \notin H => <<s[j], s[i]>> \notin R

Busy == current.stage # "idle"

(* The publications under way, the worker's event, the queue, the buffer   *)
(* and the events being flushed are five places, and an event is in one of *)
(* them at most once.                                                      *)
Apart ==
  /\ \A e \in calls : /\ e \notin Elements(queue) /\ e \notin Elements(buffer)
                      /\ e \notin Elements(flushing) /\ e \notin Elements(delivered)
                      /\ Busy => current.event # e
  /\ Distinct(queue) /\ Distinct(buffer) /\ Distinct(flushing)
  /\ \A e \in Elements(queue) : e \notin Elements(buffer) /\ e \notin Elements(flushing)
  /\ \A e \in Elements(buffer) : e \notin Elements(flushing)
  /\ Busy => /\ current.event \in Events
             /\ current.event \notin Elements(queue)
             /\ current.event \notin Elements(buffer)
             /\ current.event \notin Elements(flushing)

(* Only events that were published are anywhere.                           *)
Past ==
  /\ \A e \in Elements(queue) \cup Elements(buffer) \cup Elements(flushing)
             \cup Elements(delivered) \cup calls : e <= published
  /\ Busy => current.event <= published
  /\ \A e, f \in Events : <<e, f>> \in before => e < f /\ f <= published

(* Only the supervisor's refresh flushes, from a drained buffer.           *)
OneFlush ==
  /\ refresh["operator"].flush = FALSE
  /\ refresh["operator"].stage \notin {"drain", "enqueue"}
  /\ refresh["supervisor"].stage # "enqueue" => flushing = <<>>

(* What was delivered is in no place, but for the worker's event, and that *)
(* only if an attempt of it failed.                                        *)
OnceDelivered ==
  /\ \A e \in Elements(delivered) :
       e \notin Elements(queue) /\ e \notin Elements(buffer) /\ e \notin Elements(flushing)
  /\ Busy /\ current.event \in Elements(delivered) =>
       current.stage = "delivering" /\ current.event \in retried
  /\ \A i, j \in DOMAIN delivered :
       i < j /\ delivered[i] = delivered[j] => delivered[i] \in retried

(* Delivered, in the worker's hands, queued, about to be queued: no event  *)
(* that was never held was published after the handler was through with    *)
(* one behind it.                                                          *)
Ordered ==
  /\ Elements(buffer) \subseteq held /\ Elements(flushing) \subseteq held
  /\ InOrder(queue, held, before)
  /\ \A e \in calls : \A f \in Events : <<e, f>> \notin before
  /\ \A e \in Elements(queue) \ held :
       /\ Busy /\ current.event \notin held => <<e, current.event>> \notin before
       /\ \A d \in Elements(delivered) \ held : <<e, d>> \notin before
  /\ Busy /\ current.event \notin held =>
       \A d \in Elements(delivered) \ held : <<current.event, d>> \notin before
  /\ \A i, j \in DOMAIN delivered :
       i < j /\ delivered[i] \notin held /\ delivered[j] \notin held =>
         <<delivered[j], delivered[i]>> \notin before

Inv == TypeOK /\ Apart /\ Past /\ OneFlush /\ OnceDelivered /\ Ordered


-----------------------------------------------------------------------------
(* Sequences of events.                                                    *)

(* What the operators on sequences do to each element.                     *)
LEMMA AppendElements ==
  ASSUME NEW s \in Seq(Events), NEW e \in Events
  PROVE  /\ Append(s, e) \in Seq(Events)
         /\ DOMAIN s = 1..Len(s) /\ Len(s) \in Nat
         /\ DOMAIN Append(s, e) = 1..(Len(s) + 1) /\ Len(Append(s, e)) = Len(s) + 1
         /\ \A i \in 1..Len(s) : Append(s, e)[i] = s[i]
         /\ Append(s, e)[Len(s) + 1] = e
         /\ Elements(Append(s, e)) = Elements(s) \cup {e}
<1>1. /\ Append(s, e) \in Seq(Events)
      /\ DOMAIN s = 1..Len(s) /\ Len(s) \in Nat
      /\ DOMAIN Append(s, e) = 1..(Len(s) + 1) /\ Len(Append(s, e)) = Len(s) + 1
      /\ \A i \in 1..Len(s) : Append(s, e)[i] = s[i]
      /\ Append(s, e)[Len(s) + 1] = e
  OBVIOUS
<1>2. \A x : x \in Elements(Append(s, e)) <=> \E i \in 1..(Len(s) + 1) : x = Append(s, e)[i]
  BY <1>1 DEF Elements
<1>3. \A x : x \in Elements(s) <=> \E i \in 1..Len(s) : x = s[i]
  BY <1>1 DEF Elements
<1>4. \A i \in 1..(Len(s) + 1) : i \in 1..Len(s) \/ i = Len(s) + 1
  BY <1>1
<1>5. \A x : x \in Elements(Append(s, e)) => x \in Elements(s) \cup {e}
  BY <1>1, <1>2, <1>3, <1>4
<1>6. \A i \in 1..Len(s) : i \in 1..(Len(s) + 1)
  BY <1>1
<1>7. Len(s) + 1 \in 1..(Len(s) + 1)
  BY <1>1
<1>8. \A x : x \in Elements(s) \cup {e} => x \in Elements(Append(s, e))
  BY <1>1, <1>2, <1>3, <1>6, <1>7
<1> QED
  BY <1>1, <1>5, <1>8

(* A new last element keeps a sequence distinct and in order.              *)
LEMMA AppendKeeps ==
  ASSUME NEW s \in Seq(Events), NEW e \in Events, NEW H, NEW R
  PROVE  /\ Distinct(s) /\ e \notin Elements(s) => Distinct(Append(s, e))
         /\ InOrder(s, H, R) /\ (e \notin H => \A x \in Elements(s) \ H : <<e, x>> \notin R)
              => InOrder(Append(s, e), H, R)
<1>1. \A i \in 1..Len(s) : s[i] \in Elements(s) /\ i \in DOMAIN s
  BY AppendElements DEF Elements
<1>2. \A i \in DOMAIN Append(s, e) :
        /\ \/ i \in 1..Len(s) /\ Append(s, e)[i] = s[i]
           \/ i = Len(s) + 1 /\ Append(s, e)[i] = e
        /\ i \in Nat /\ i <= Len(s) + 1
  BY AppendElements
<1>3. ASSUME Distinct(s), e \notin Elements(s) PROVE Distinct(Append(s, e))
  <2> SUFFICES ASSUME NEW i \in DOMAIN Append(s, e), NEW j \in DOMAIN Append(s, e),
                      Append(s, e)[i] = Append(s, e)[j]
               PROVE  i = j
    BY DEF Distinct
  <2>1. CASE i = Len(s) + 1 \/ j = Len(s) + 1
    BY <1>1, <1>2, <1>3, <2>1, AppendElements
  <2>2. CASE i \in 1..Len(s) /\ j \in 1..Len(s)
    BY <1>1, <1>3, <2>2, AppendElements DEF Distinct
  <2> QED
    BY <1>2, <2>1, <2>2
<1>4. ASSUME InOrder(s, H, R), e \notin H => \A x \in Elements(s) \ H : <<e, x>> \notin R
      PROVE  InOrder(Append(s, e), H, R)
  <2> SUFFICES ASSUME NEW i \in DOMAIN Append(s, e), NEW j \in DOMAIN Append(s, e), i < j,
                      Append(s, e)[i] \notin H, Append(s, e)[j] \notin H
               PROVE  <<Append(s, e)[j], Append(s, e)[i]>> \notin R
    BY DEF InOrder
  <2>1. i \in 1..Len(s) /\ Append(s, e)[i] = s[i]
    BY <1>2, AppendElements
  <2>2. CASE j \in 1..Len(s) /\ Append(s, e)[j] = s[j]
    BY <1>1, <1>4, <2>1, <2>2 DEF InOrder
  <2>3. CASE Append(s, e)[j] = e
    BY <1>1, <1>4, <2>1, <2>3
  <2> QED
    BY <1>2, <2>2, <2>3
<1> QED
  BY <1>3, <1>4

(* A suffix has elements of the whole, and distinct ones if that has.      *)
LEMMA SuffixKeeps ==
  ASSUME NEW s \in Seq(Events), NEW t \in Unexpired(s)
  PROVE  /\ t \in Seq(Events) /\ Len(t) <= Len(s) /\ Len(t) \in Nat
         /\ Elements(t) \subseteq Elements(s)
         /\ Distinct(s) => Distinct(t)
<1>1. PICK k \in 1..(Len(s) + 1) : t = SubSeq(s, k, Len(s))
  BY DEF Unexpired
<1>2. /\ t \in Seq(Events) /\ Len(t) = Len(s) - k + 1 /\ Len(s) \in Nat /\ k \in Nat /\ k >= 1
      /\ DOMAIN t = 1..Len(t) /\ DOMAIN s = 1..Len(s) /\ Len(t) \in Nat
      /\ \A i \in 1..Len(t) : t[i] = s[i + k - 1]
  BY <1>1
<1>3. \A i \in DOMAIN t : i + k - 1 \in DOMAIN s /\ t[i] = s[i + k - 1] /\ i \in Nat
  BY <1>2
<1>4. Elements(t) \subseteq Elements(s)
  BY <1>3 DEF Elements
<1>5. ASSUME Distinct(s) PROVE Distinct(t)
  BY <1>2, <1>3, <1>5 DEF Distinct
<1> QED
  BY <1>2, <1>4, <1>5

(* Taking the first element.                                               *)
LEMMA TailKeeps ==
  ASSUME NEW s \in Seq(Events), s # <<>>, NEW H, NEW R
  PROVE  /\ Head(s) \in Elements(s) /\ Head(s) \in Events
         /\ Tail(s) \in Seq(Events) /\ Len(Tail(s)) = Len(s) - 1 /\ Len(s) \in Nat \ {0}
         /\ Elements(Tail(s)) \subseteq Elements(s)
         /\ Distinct(s) => Distinct(Tail(s)) /\ Head(s) \notin Elements(Tail(s))
         /\ InOrder(s, H, R) =>
              /\ InOrder(Tail(s), H, R)
              /\ Head(s) \notin H => \A x \in Elements(Tail(s)) \ H : <<x, Head(s)>> \notin R
<1> DEFINE t == Tail(s)
<1>1. /\ t \in Seq(Events) /\ Len(t) = Len(s) - 1 /\ Len(s) \in Nat \ {0}
      /\ DOMAIN t = 1..(Len(s) - 1) /\ DOMAIN s = 1..Len(s)
      /\ \A i \in 1..(Len(s) - 1) : t[i] = s[i + 1]
      /\ Head(s) = s[1] /\ 1 \in DOMAIN s /\ s[1] \in Events
  OBVIOUS
<1>2. \A i \in DOMAIN t : i + 1 \in DOMAIN s /\ t[i] = s[i + 1] /\ i \in Nat /\ 1 < i + 1
  BY <1>1
<1> HIDE DEF t
<1>3. Elements(t) \subseteq Elements(s) /\ Head(s) \in Elements(s)
  BY <1>1, <1>2 DEF Elements
<1>4. \A x \in Elements(t) : \E i \in DOMAIN t : x = t[i]
  BY DEF Elements
<1>5. ASSUME Distinct(s) PROVE Distinct(t) /\ Head(s) \notin Elements(t)
  <2>1. Distinct(t)
    BY <1>2, <1>5 DEF Distinct
  <2>2. \A i \in DOMAIN t : t[i] # s[1]
    BY <1>1, <1>2, <1>5 DEF Distinct
  <2> QED
    BY <1>1, <1>4, <2>1, <2>2
<1>6. ASSUME InOrder(s, H, R)
      PROVE  /\ InOrder(t, H, R)
             /\ Head(s) \notin H => \A x \in Elements(t) \ H : <<x, Head(s)>> \notin R
  <2>1. InOrder(t, H, R)
    BY <1>2, <1>6 DEF InOrder
  <2>2. \A i \in DOMAIN t : s[1] \notin H /\ t[i] \notin H => <<t[i], s[1]>> \notin R
    BY <1>1, <1>2, <1>6 DEF InOrder
  <2> QED
    BY <1>1, <1>4, <2>1, <2>2
<1> QED
  BY <1>1, <1>3, <1>5, <1>6 DEF t

(* An event more in the queue, if it fits.                                 *)
LEMMA Enqueued ==
  ASSUME TypeOK, Distinct(queue), InOrder(queue, held, before),
         NEW e \in Events, e \notin Elements(queue), enqueue(e),
         e \notin held => \A x \in Elements(queue) \ held : <<e, x>> \notin before
  PROVE  /\ queue' \in Seq(Events) /\ Len(queue') <= QueueSize
         /\ Distinct(queue') /\ InOrder(queue', held, before)
         /\ Elements(queue') \subseteq Elements(queue) \cup {e}
<1>1. queue \in Seq(Events) /\ Len(queue) \in Nat /\ QueueSize \in Nat /\ Len(queue) <= QueueSize
  BY DeliveryAssumption DEF TypeOK
<1>2. CASE queue' = queue
  BY <1>1, <1>2
<1>3. CASE Len(queue) < QueueSize /\ queue' = Append(queue, e)
  BY <1>1, <1>3, AppendElements, AppendKeeps
<1> QED
  BY <1>2, <1>3 DEF enqueue


-----------------------------------------------------------------------------
(* The steps.                                                              *)

(* The parts of the state, for the steps below.                            *)
LEMMA Types ==
  ASSUME Inv
  PROVE  /\ queue \in Seq(Events) /\ buffer \in Seq(Events)
         /\ flushing \in Seq(Events) /\ delivered \in Seq(Events)
         /\ Len(queue) \in Nat /\ Len(buffer) \in Nat /\ Len(delivered) \in Nat
         /\ published \in Nat /\ published <= MaxEvents /\ MaxEvents \in Nat
         /\ \A e \in Elements(queue) \cup Elements(buffer) \cup Elements(flushing)
                    \cup Elements(delivered) \cup calls : e \in Events /\ e \in Nat
<1>1. /\ queue \in Seq(Events) /\ buffer \in Seq(Events)
      /\ flushing \in Seq(Events) /\ delivered \in Seq(Events)
      /\ published \in Nat /\ published <= MaxEvents /\ MaxEvents \in Nat /\ calls \subseteq Events
  BY DeliveryAssumption DEF Inv, TypeOK
<1>2. ASSUME NEW s \in Seq(Events) PROVE Len(s) \in Nat /\ \A e \in Elements(s) : e \in Events
  BY DEF Elements
<1>3. \A e \in Events : e \in Nat
  BY <1>1 DEF Events
<1> QED
  BY <1>1, <1>2, <1>3

(***************************************************************************)
(* A publication begins of an event that is nowhere yet, and is before     *)
(* none.                                                                   *)
(***************************************************************************)
LEMMA PublishStep ==
  ASSUME Inv, Publish
  PROVE  Inv'
<1> USE DeliveryAssumption
<1> DEFINE n == published + 1
<1>1. /\ TypeOK /\ Apart /\ Past /\ OneFlush /\ OnceDelivered /\ Ordered
  BY DEF Inv
<1>2. /\ published' = n /\ n \in Events /\ published \in Nat /\ published < MaxEvents
      /\ calls' \subseteq calls \cup {n}
      /\ before' = before \cup {<<e, n>> : e \in (1..published) \ calls}
      /\ UNCHANGED <<status, known, subscribed, queue, buffer, current, refresh, flushing,
                     delivered, held, retried, spent>>
  BY Types DEF Publish, Events
<1>3. /\ \A x \in Elements(queue) \cup Elements(buffer) \cup Elements(flushing)
                \cup Elements(delivered) \cup calls : x \in Nat /\ x < n
      /\ Busy => current.event \in Nat /\ current.event < n
  BY <1>1, <1>2, Types DEF Past, Apart, Events
<1>4. /\ \A e, f \in Events : <<e, f>> \in before' =>
           <<e, f>> \in before \/ (f = n /\ e \in 1..published /\ e \notin calls)
      /\ before' \subseteq Events \X Events
  <2>1. \A e \in 1..published : e \in Events
    BY <1>2 DEF Events
  <2> HIDE DEF n
  <2> QED
    BY SMTT(30), <1>1, <1>2, <2>1 DEF TypeOK
<1> HIDE DEF n
<1>5. TypeOK'
  <2>1. n \in 0..MaxEvents
    BY <1>2 DEF Events
  <2>2. calls' \subseteq Events
    BY <1>1, <1>2 DEF TypeOK
  <2> QED
    BY <1>1, <1>2, <1>4, <2>1, <2>2 DEF TypeOK
<1>6. Apart'
  <2>1. \A e \in calls' : /\ e \notin Elements(queue) /\ e \notin Elements(buffer)
                          /\ e \notin Elements(flushing) /\ e \notin Elements(delivered)
                          /\ Busy => current.event # e
    <3>1. \A e \in calls' : e \in calls \/ e = n
      BY <1>2
    <3>2. \A x \in Elements(queue) \cup Elements(buffer) \cup Elements(flushing)
                   \cup Elements(delivered) : x # n
      BY <1>2, <1>3 DEF Events
    <3>3. Busy => current.event # n
      BY <1>2, <1>3 DEF Events
    <3> QED
      BY <1>1, <3>1, <3>2, <3>3 DEF Apart
  <2> QED
    BY <1>1, <1>2, <2>1 DEF Apart, Busy
<1>7. Past'
  <2>1. \A e, f \in Events : <<e, f>> \in before' => e < f /\ f <= n
    <3> SUFFICES ASSUME NEW e \in Events, NEW f \in Events, <<e, f>> \in before'
                 PROVE  e < f /\ f <= n
      OBVIOUS
    <3>1. e \in Nat /\ f \in Nat /\ n = published + 1
      BY <1>2 DEF Events, n
    <3>2. CASE <<e, f>> \in before
      BY <1>1, <1>2, <3>1, <3>2 DEF Past
    <3>3. CASE f = n /\ e \in 1..published
      BY <1>2, <3>1, <3>3
    <3> QED
      BY <1>4, <3>2, <3>3
  <2>2. \A x \in Elements(queue) \cup Elements(buffer) \cup Elements(flushing)
                 \cup Elements(delivered) \cup calls' : x <= n
    BY <1>2, <1>3 DEF Events
  <2>3. Busy => current.event <= n
    BY <1>2, <1>3 DEF Events
  <2> QED
    BY <1>2, <2>1, <2>2, <2>3 DEF Past, Busy
<1>8. OneFlush'
  BY <1>1, <1>2 DEF OneFlush
<1>9. OnceDelivered'
  BY <1>1, <1>2 DEF OnceDelivered, Busy
<1>10. Ordered'
  <2>1. ASSUME NEW x \in Elements(queue) \cup Elements(delivered), NEW e \in Events,
               <<e, x>> \notin before
        PROVE  <<e, x>> \notin before'
    BY <1>2, <1>3, <1>4, <2>1, Types DEF Events
  <2>2. ASSUME Busy, NEW e \in Events, <<e, current.event>> \notin before
        PROVE  <<e, current.event>> \notin before'
    <3>1. current.event \in Events /\ current.event # n
      BY <1>1, <1>2, <1>3, <2>2 DEF Apart, Events
    <3> QED
      BY <1>4, <2>2, <3>1
  <2>3. \A i \in DOMAIN queue : queue[i] \in Elements(queue) /\ queue[i] \in Events
    BY Types DEF Elements
  <2>4. \A i \in DOMAIN delivered : delivered[i] \in Elements(delivered) /\ delivered[i] \in Events
    BY Types DEF Elements
  <2>5. InOrder(queue, held, before')
    BY <1>1, <2>1, <2>3 DEF Ordered, InOrder
  <2>6. \A i, j \in DOMAIN delivered :
          i < j /\ delivered[i] \notin held /\ delivered[j] \notin held =>
            <<delivered[j], delivered[i]>> \notin before'
    BY <1>1, <2>1, <2>4 DEF Ordered
  <2>7. ASSUME NEW e \in calls', NEW f \in Events PROVE <<e, f>> \notin before'
    <3>1. CASE e \in calls
      <4>1. e \in Events /\ <<e, f>> \notin before
        BY <1>1, <3>1, Types DEF Ordered
      <4> QED
        BY <1>4, <3>1, <4>1
    <3>2. CASE e = n
      <4>1. ~(n < f /\ f <= published) /\ n \notin 1..published
        BY <1>2 DEF Events, n
      <4>2. <<n, f>> \notin before
        BY <1>1, <1>2, <4>1 DEF Past
      <4> QED
        BY <1>2, <1>4, <3>2, <4>1, <4>2
    <3> QED
      BY <1>2, <3>1, <3>2
  <2>8. \A e \in Elements(queue) \ held :
          /\ Busy /\ current.event \notin held => <<e, current.event>> \notin before'
          /\ \A d \in Elements(delivered) \ held : <<e, d>> \notin before'
    BY <1>1, <2>1, <2>2, Types DEF Ordered
  <2>9. Busy /\ current.event \notin held =>
          \A d \in Elements(delivered) \ held : <<current.event, d>> \notin before'
    BY <1>1, <2>1 DEF Ordered, Apart
  <2> QED
    BY <1>1, <1>2, <2>5, <2>6, <2>7, <2>8, <2>9 DEF Ordered, Busy
<1> QED
  BY <1>5, <1>6, <1>7, <1>8, <1>9, <1>10 DEF Inv

(* The handler's turn: the event is queued, and is before none so far.     *)
LEMMA HandlerStep ==
  ASSUME Inv, NEW e \in calls, invokeHandler(e)
  PROVE  Inv'
<1> USE DeliveryAssumption
<1>1. /\ TypeOK /\ Apart /\ Past /\ OneFlush /\ OnceDelivered /\ Ordered
  BY DEF Inv
<1>2. /\ calls' = calls \ {e} /\ enqueue(e)
      /\ UNCHANGED <<published, before, status, known, subscribed, buffer, current, refresh,
                     flushing, delivered, held, retried, spent>>
  BY DEF invokeHandler
<1>3. /\ e \in Events /\ e \notin Elements(queue) /\ e \notin Elements(buffer)
      /\ e \notin Elements(flushing) /\ e \notin Elements(delivered)
      /\ (Busy => current.event # e) /\ e <= published
      /\ \A f \in Events : <<e, f>> \notin before
  BY <1>1, Types DEF Apart, Past, Ordered
<1>4. /\ queue' \in Seq(Events) /\ Len(queue') <= QueueSize
      /\ Distinct(queue') /\ InOrder(queue', held, before)
      /\ Elements(queue') \subseteq Elements(queue) \cup {e}
  BY <1>1, <1>2, <1>3, Types, Enqueued DEF Apart, Ordered
<1>5. TypeOK'
  BY <1>1, <1>2, <1>4 DEF TypeOK
<1>6. Apart'
  BY <1>1, <1>2, <1>3, <1>4 DEF Apart, Busy
<1>7. Past'
  BY <1>1, <1>2, <1>3, <1>4 DEF Past, Busy
<1>8. OneFlush' /\ OnceDelivered'
  BY <1>1, <1>2, <1>3, <1>4 DEF OneFlush, OnceDelivered, Busy
<1>9. Ordered'
  <2>1. InOrder(queue', held', before')
    BY <1>2, <1>4
  <2>2. Busy => current.event \in Events
    BY <1>1 DEF Apart
  <2> QED
    BY <1>1, <1>2, <1>3, <1>4, <2>1, <2>2, Types DEF Ordered, Busy
<1> QED
  BY <1>5, <1>6, <1>7, <1>8, <1>9 DEF Inv

(* The worker takes the first event of the queue.                          *)
LEMMA TakeStep ==
  ASSUME Inv, Take
  PROVE  Inv'
<1> USE DeliveryAssumption
<1> DEFINE e == Head(queue)
<1>1. /\ TypeOK /\ Apart /\ Past /\ OneFlush /\ OnceDelivered /\ Ordered
  BY DEF Inv
<1>2. /\ current.stage = "idle" /\ queue # <<>> /\ queue' = Tail(queue)
      /\ current' = [stage |-> "taken", event |-> e, attempt |-> 0]
      /\ UNCHANGED <<published, calls, before, status, subscribed, refresh, flushing, spent, known, buffer,
                     delivered, held, retried>>
  BY DEF Take, bus, announced
<1>3. /\ e \in Elements(queue) /\ e \in Events
      /\ queue' \in Seq(Events) /\ Len(queue') <= QueueSize
      /\ Elements(queue') \subseteq Elements(queue)
      /\ Distinct(queue') /\ e \notin Elements(queue')
      /\ InOrder(queue', held, before)
      /\ e \notin held => \A x \in Elements(queue') \ held : <<x, e>> \notin before
  <2>1. queue \in Seq(Events) /\ Len(queue) <= QueueSize /\ Distinct(queue) /\ InOrder(queue, held, before)
    BY <1>1 DEF Apart, Ordered, TypeOK
  <2> QED
    BY SMTT(30), <1>2, <2>1, Types, TailKeeps
<1>4. /\ current'.stage = "taken" /\ current'.event = e
  BY <1>2
<1> HIDE DEF e
<1>5. TypeOK'
  BY SMTT(30), <1>1, <1>2, <1>3 DEF TypeOK
<1>6. Apart'
  BY <1>1, <1>2, <1>3, <1>4 DEF Apart
<1>7. Past'
  BY <1>1, <1>2, <1>3, <1>4 DEF Past
<1>8. OneFlush'
  BY <1>1, <1>2 DEF OneFlush
<1>9. OnceDelivered'
  BY <1>1, <1>2, <1>3, <1>4 DEF OnceDelivered
<1>10. Ordered'
  <2>1. \A d \in Elements(delivered) \ held : e \notin held => <<e, d>> \notin before
    BY <1>1, <1>3, Types DEF Ordered
  <2>2. InOrder(queue', held', before')
    BY <1>2, <1>3
  <2> QED
    BY <1>1, <1>2, <1>3, <1>4, <2>1, <2>2 DEF Ordered
<1> QED
  BY <1>5, <1>6, <1>7, <1>8, <1>9, <1>10 DEF Inv

(* It decides what to do with it.                                          *)
LEMMA ProcessStep ==
  ASSUME Inv, process
  PROVE  Inv'
<1>1. /\ TypeOK /\ Apart /\ Past /\ OneFlush /\ OnceDelivered /\ Ordered
  BY DEF Inv
<1>2. /\ current.stage = "taken" /\ current'.stage \in {"buffering", "delivering"}
      /\ current'.event = current.event /\ current'.attempt = current.attempt
      /\ current' \in [stage : {"idle", "taken", "buffering", "delivering"},
                       event : Events \cup {NoEvent}, attempt : 0..Attempts]
      /\ UNCHANGED <<published, calls, before, status, subscribed, refresh, flushing, spent, known, queue, buffer,
                     delivered, held, retried>>
  BY <1>1 DEF process, bus, announced, TypeOK
<1>3. TypeOK'
  BY <1>1, <1>2 DEF TypeOK
<1>4. Apart' /\ Past' /\ OneFlush' /\ OnceDelivered'
  BY <1>1, <1>2 DEF Apart, Past, OneFlush, OnceDelivered, Busy
<1>5. Ordered'
  BY <1>1, <1>2 DEF Ordered, Busy
<1> QED
  BY <1>3, <1>4, <1>5 DEF Inv

(* An event joins the buffer, which may drop others.                       *)
LEMMA BufferStep ==
  ASSUME Inv, BufferAdd
  PROVE  Inv'
<1> USE DeliveryAssumption
<1> DEFINE e == current.event
<1>1. /\ TypeOK /\ Apart /\ Past /\ OneFlush /\ OnceDelivered /\ Ordered
  BY DEF Inv
<1>2. PICK b \in Unexpired(buffer) :
        buffer' = Append(IF Len(b) >= BufferCap THEN Tail(b) ELSE b, e)
  BY DEF BufferAdd
<1>3. /\ current.stage = "buffering" /\ current' = Idle /\ held' = held \cup {e}
      /\ UNCHANGED <<published, calls, before, status, subscribed, refresh, flushing, spent, known, queue,
                     delivered, retried>>
  BY DEF BufferAdd, bus, announced
<1>4. Busy /\ e \in Events /\ e \notin Elements(delivered)
  BY <1>1, <1>3 DEF Apart, Busy, OnceDelivered
<1>5. b \in Seq(Events) /\ Len(b) <= BufferCap /\ Elements(b) \subseteq Elements(buffer) /\ Distinct(b)
      /\ Len(b) \in Nat
  BY SMTT(30), <1>1, Types, SuffixKeeps DEF Apart, TypeOK
<1>6. PICK c \in Seq(Events) :
        /\ buffer' = Append(c, e) /\ Len(c) \in Nat /\ Len(c) < BufferCap
        /\ Elements(c) \subseteq Elements(buffer) /\ Distinct(c)
  <2>1. CASE Len(b) >= BufferCap
    <3>1. b # <<>>
      BY <1>5, <2>1
    <3>2. /\ Tail(b) \in Seq(Events) /\ Len(Tail(b)) \in Nat /\ Len(Tail(b)) < BufferCap
          /\ Elements(Tail(b)) \subseteq Elements(b) /\ Distinct(Tail(b))
      BY <1>5, <2>1, <3>1, TailKeeps
    <3> QED
      BY <1>2, <1>5, <2>1, <3>2
  <2>2. CASE ~(Len(b) >= BufferCap)
    BY <1>2, <1>5, <2>2
  <2> QED
    BY <2>1, <2>2
<1>7. /\ buffer' \in Seq(Events) /\ Len(buffer') <= BufferCap
      /\ Elements(buffer') \subseteq Elements(buffer) \cup {e} /\ Distinct(buffer')
  <2>1. e \notin Elements(c)
    BY <1>1, <1>4, <1>6 DEF Apart
  <2> HIDE DEF e
  <2>2. /\ Append(c, e) \in Seq(Events) /\ Len(Append(c, e)) = Len(c) + 1
        /\ Elements(Append(c, e)) = Elements(c) \cup {e}
    BY <1>4, AppendElements
  <2>3. Distinct(Append(c, e))
    BY <1>4, <1>6, <2>1, AppendKeeps
  <2>4. Len(c) + 1 <= BufferCap
    BY <1>6
  <2> QED
    BY <1>6, <2>2, <2>3, <2>4
<1>8. ~Busy'
  BY <1>3 DEF Busy, Idle
<1>9. TypeOK'
  <2>1. current' \in [stage : {"idle", "taken", "buffering", "delivering"},
                      event : Events \cup {NoEvent}, attempt : 0..Attempts]
    BY <1>3 DEF Idle
  <2> QED
    BY <1>1, <1>3, <1>4, <1>7, <2>1 DEF TypeOK
<1>10. Apart'
  BY <1>1, <1>3, <1>4, <1>7, <1>8 DEF Apart
<1>11. Past'
  BY <1>1, <1>3, <1>4, <1>7, <1>8 DEF Past
<1>12. OneFlush'
  BY <1>1, <1>3 DEF OneFlush
<1>13. OnceDelivered'
  BY <1>1, <1>3, <1>4, <1>7, <1>8 DEF OnceDelivered
<1>14. Ordered'
  <2>1. InOrder(queue', held', before')
    BY <1>1, <1>3 DEF Ordered, InOrder
  <2> QED
    BY <1>1, <1>3, <1>7, <1>8, <2>1 DEF Ordered
<1> QED
  BY <1>9, <1>10, <1>11, <1>12, <1>13, <1>14 DEF Inv


(***************************************************************************)
(* An attempt to deliver the worker's event: it may reach the plugin, it   *)
(* may have failed, and either the worker is done with it or tries again.  *)
(***************************************************************************)
LEMMA DeliveryStep ==
  ASSUME Inv, attemptDeliver \/ deliverWithRetry
  PROVE  Inv'
<1> USE DeliveryAssumption
<1> DEFINE e == current.event
<1>1. /\ TypeOK /\ Apart /\ Past /\ OneFlush /\ OnceDelivered /\ Ordered
  BY DEF Inv
<1>2. /\ current.stage = "delivering" /\ delivered' \in {delivered, Append(delivered, e)}
      /\ UNCHANGED <<published, calls, before, status, subscribed, refresh, flushing, spent, known, queue, buffer,
                     held>>
  BY DEF attemptDeliver, deliverWithRetry, bus, announced
<1>3. /\ Busy /\ e \in Events /\ e <= published
      /\ e \notin Elements(queue) /\ e \notin Elements(buffer) /\ e \notin Elements(flushing)
      /\ e \notin calls
  BY <1>1, <1>2 DEF Apart, Past, Busy
<1>4. \/ current' = Idle /\ retried' \in {retried, retried \cup {e}}
      \/ /\ current' = [current EXCEPT !.attempt = @ + 1] /\ current.attempt + 1 < Attempts
         /\ retried' = retried \cup {e}
  BY DEF attemptDeliver, deliverWithRetry
<1>5. /\ retried \subseteq retried' /\ retried' \subseteq Events
      /\ Busy' => current'.stage = "delivering" /\ current'.event = e /\ e \in retried'
      /\ current' \in [stage : {"idle", "taken", "buffering", "delivering"},
                       event : Events \cup {NoEvent}, attempt : 0..Attempts]
  <2>1. CASE current' = Idle /\ retried' \in {retried, retried \cup {e}}
    BY <1>1, <1>3, <2>1 DEF TypeOK, Busy, Idle
  <2>2. CASE /\ current' = [current EXCEPT !.attempt = @ + 1] /\ current.attempt + 1 < Attempts
             /\ retried' = retried \cup {e}
    <3>1. /\ current \in [stage : {"idle", "taken", "buffering", "delivering"},
                           event : Events \cup {NoEvent}, attempt : 0..Attempts]
          /\ retried \subseteq Events
      BY <1>1 DEF TypeOK
    <3>2. current.attempt + 1 \in 0..Attempts
      BY <2>2, <3>1
    <3>3. /\ current'.stage = current.stage /\ current'.event = e
          /\ current' \in [stage : {"idle", "taken", "buffering", "delivering"},
                           event : Events \cup {NoEvent}, attempt : 0..Attempts]
      BY <2>2, <3>1, <3>2
    <3> HIDE DEF e
    <3> QED
      BY <1>2, <1>3, <2>2, <3>1, <3>3
  <2> QED
    BY <1>4, <2>1, <2>2
<1> HIDE DEF e
<1>6. /\ delivered' \in Seq(Events)
      /\ Elements(delivered') \subseteq Elements(delivered) \cup {e}
  <2>1. CASE delivered' = delivered
    BY <2>1, Types
  <2>2. CASE delivered' = Append(delivered, e)
    BY <1>3, <2>2, Types, AppendElements
  <2> QED
    BY <1>2, <2>1, <2>2
<1>7. TypeOK'
  BY <1>1, <1>2, <1>5, <1>6 DEF TypeOK
<1>8. Apart' /\ Past' /\ OneFlush'
  <2>1. Apart'
    BY <1>1, <1>2, <1>3, <1>5, <1>6 DEF Apart
  <2>2. Past'
    BY <1>1, <1>2, <1>3, <1>5, <1>6 DEF Past
  <2>3. OneFlush'
    BY <1>1, <1>2 DEF OneFlush
  <2> QED
    BY <2>1, <2>2, <2>3
<1>9. \/ delivered' = delivered
      \/ /\ DOMAIN delivered' = 1..(Len(delivered) + 1) /\ DOMAIN delivered = 1..Len(delivered)
         /\ \A i \in 1..Len(delivered) : delivered'[i] = delivered[i] /\ delivered[i] \in Elements(delivered)
         /\ delivered'[Len(delivered) + 1] = e
  <2>1. delivered \in Seq(Events)
    BY Types
  <2>2. \A i \in DOMAIN delivered : delivered[i] \in Elements(delivered)
    BY DEF Elements
  <2> QED
    BY <1>2, <1>3, <2>1, <2>2, AppendElements
<1>10. ASSUME NEW i \in DOMAIN delivered', NEW j \in DOMAIN delivered', i < j
       PROVE  \/ /\ i \in DOMAIN delivered /\ j \in DOMAIN delivered
                 /\ delivered'[i] = delivered[i] /\ delivered'[j] = delivered[j]
              \/ /\ delivered'[i] = delivered[i] /\ delivered[i] \in Elements(delivered)
                 /\ delivered'[j] = e
  <2>1. CASE delivered' = delivered
    BY <1>10, <2>1
  <2>2. CASE /\ DOMAIN delivered' = 1..(Len(delivered) + 1) /\ DOMAIN delivered = 1..Len(delivered)
             /\ \A k \in 1..Len(delivered) :
                  delivered'[k] = delivered[k] /\ delivered[k] \in Elements(delivered)
             /\ delivered'[Len(delivered) + 1] = e
    <3>1. i \in 1..Len(delivered) /\ (j \in 1..Len(delivered) \/ j = Len(delivered) + 1)
      BY <1>10, <2>2, Types
    <3> QED
      BY <2>2, <3>1
  <2> QED
    BY <1>9, <2>1, <2>2
<1>11. OnceDelivered'
  <2>1. \A x \in Elements(delivered') :
          x \notin Elements(queue') /\ x \notin Elements(buffer') /\ x \notin Elements(flushing')
    BY <1>1, <1>2, <1>3, <1>6 DEF OnceDelivered
  <2>2. e \in Elements(delivered) => e \in retried
    BY <1>1, <1>3 DEF OnceDelivered, e
  <2>3. \A i, j \in DOMAIN delivered' :
          i < j /\ delivered'[i] = delivered'[j] => delivered'[i] \in retried'
    BY <1>1, <1>5, <1>10, <2>2 DEF OnceDelivered
  <2> QED
    BY <1>5, <2>1, <2>3 DEF OnceDelivered
<1>12. Ordered'
  <2>1. e \notin held => \A d \in Elements(delivered) \ held : <<e, d>> \notin before
    BY <1>1, <1>3 DEF Ordered, e
  <2>2. \A x \in Elements(queue) \ held : e \notin held => <<x, e>> \notin before
    BY <1>1, <1>3 DEF Ordered, e
  <2>3. \A i, j \in DOMAIN delivered' :
          i < j /\ delivered'[i] \notin held /\ delivered'[j] \notin held =>
            <<delivered'[j], delivered'[i]>> \notin before
    BY <1>1, <1>10, <2>1 DEF Ordered
  <2>4. e \notin held => \A d \in Elements(delivered') \ held : <<e, d>> \notin before
    <3>1. <<e, e>> \notin before
      <4>1. e \in Nat
        BY <1>3 DEF Events
      <4> QED
        BY <1>1, <1>3, <4>1 DEF Past
    <3> QED
      BY <1>6, <2>1, <3>1
  <2>5. InOrder(queue', held', before')
    BY <1>1, <1>2 DEF Ordered
  <2>6. \A x \in Elements(queue) \ held : \A d \in Elements(delivered') \ held : <<x, d>> \notin before
    BY <1>1, <1>6, <2>2 DEF Ordered
  <2> QED
    BY <1>1, <1>2, <1>5, <2>2, <2>3, <2>4, <2>5, <2>6 DEF Ordered
<1> QED
  BY <1>7, <1>8, <1>11, <1>12 DEF Inv

-----------------------------------------------------------------------------
(* Refreshes.                                                              *)

(* A refresh that leaves queue, buffer and flush alone.                    *)
LEMMA RefreshKeeps ==
  ASSUME Inv, UNCHANGED <<published, before, buffer, flushing, worker>>, calls' \subseteq calls,
         status' \in Statuses, known' \in Statuses, subscribed' \in BOOLEAN,
         spent' \in [reports : 0..MaxReports, refreshes : 0..MaxRefreshes, enables : 0..MaxEnables],
         refresh' \in [Refreshers ->
           [stage : {"none", "list", "apply", "resubscribe", "drain", "enqueue"},
            saw : Statuses, flush : BOOLEAN]],
         OneFlush'
  PROVE  Inv'
<1>1. /\ UNCHANGED <<published, before, buffer, flushing, queue, current, delivered, held, retried>>
      /\ calls' \subseteq calls
  BY DEF worker
<1>2. TypeOK'
  BY <1>1 DEF Inv, TypeOK
<1>3. Apart' /\ Past' /\ OnceDelivered'
  BY <1>1 DEF Inv, Apart, Past, OnceDelivered, Busy
<1>4. Ordered'
  <2>1. InOrder(queue', held', before')
    BY <1>1 DEF Inv, Ordered
  <2> QED
    BY <1>1, <2>1 DEF Inv, Ordered, Busy
<1> QED
  BY <1>2, <1>3, <1>4 DEF Inv

(* The stages of a refresh before a flush.                                 *)
LEMMA RefreshSteps ==
  ASSUME Inv,
         \/ \E healthy \in BOOLEAN : handleStatusChange(healthy)
         \/ OtherPluginChanges \/ Enable
         \/ \E r \in Refreshers : ActivePlugins(r) \/ updateRecord(r) \/ resubscribe(r)
  PROVE  Inv'
<1> USE DeliveryAssumption
<1> DEFINE Type == [stage : {"none", "list", "apply", "resubscribe", "drain", "enqueue"},
                    saw : Statuses, flush : BOOLEAN]
           Spent == [reports : 0..MaxReports, refreshes : 0..MaxRefreshes, enables : 0..MaxEnables]
<1>1. /\ status \in Statuses /\ known \in Statuses /\ subscribed \in BOOLEAN
      /\ refresh \in [Refreshers -> Type] /\ spent \in Spent /\ OneFlush
  BY DEF Inv, TypeOK
<1>2. ASSUME NEW r \in Refreshers, NEW f \in BOOLEAN, Starts(r, f),
             refresh[r].stage = "none", r = "operator" => f = FALSE, flushing' = flushing
      PROVE  refresh' \in [Refreshers -> Type] /\ OneFlush'
  <2> DEFINE n == [NoRefresh EXCEPT !.stage = "list", !.flush = f]
  <2>1. n \in Type /\ n.stage = "list" /\ n.flush = f
    BY DEF NoRefresh, Statuses
  <2>2. refresh' = [refresh EXCEPT ![r] = n]
    BY <1>2 DEF Starts
  <2> HIDE DEF n
  <2>3. refresh' \in [Refreshers -> Type] /\ refresh'[r] = n
        /\ \A q \in Refreshers \ {r} : refresh'[q] = refresh[q]
    BY <1>1, <2>1, <2>2
  <2> QED
    BY <1>1, <1>2, <2>1, <2>3 DEF OneFlush, Refreshers
<1>3. ASSUME NEW r \in Refreshers, NEW g \in {"none", "apply", "resubscribe", "drain"}, NEW w \in Statuses,
             refresh' = [refresh EXCEPT ![r].stage = g, ![r].saw = w] \/ Goes(r, g),
             refresh[r].stage # "enqueue", r = "operator" => g # "drain", flushing' = flushing
      PROVE  refresh' \in [Refreshers -> Type] /\ OneFlush'
  <2>1. PICK n \in Type :
          /\ refresh' = [refresh EXCEPT ![r] = n] /\ n.stage = g /\ n.flush = refresh[r].flush
    <3>1. CASE refresh' = [refresh EXCEPT ![r].stage = g, ![r].saw = w]
      <4> DEFINE n == [refresh[r] EXCEPT !.stage = g, !.saw = w]
      <4>1. n \in Type /\ n.stage = g /\ n.flush = refresh[r].flush
        BY <1>1
      <4> QED
        BY <1>1, <3>1, <4>1
    <3>2. CASE Goes(r, g)
      <4> DEFINE n == [refresh[r] EXCEPT !.stage = g]
      <4>1. n \in Type /\ n.stage = g /\ n.flush = refresh[r].flush
        BY <1>1
      <4> QED
        BY <1>1, <3>2, <4>1 DEF Goes
    <3> QED
      BY <1>3, <3>1, <3>2
  <2>2. refresh' \in [Refreshers -> Type] /\ refresh'[r] = n
        /\ \A q \in Refreshers \ {r} : refresh'[q] = refresh[q]
    BY <1>1, <2>1
  <2> QED
    BY <1>1, <1>3, <2>1, <2>2 DEF OneFlush, Refreshers
<1>4. /\ Spends("reports", MaxReports) => spent' \in Spent
      /\ Spends("refreshes", MaxRefreshes) => spent' \in Spent
      /\ Spends("enables", MaxEnables) => spent' \in Spent
  BY <1>1 DEF Spends
<1>5. ASSUME NEW healthy \in BOOLEAN, handleStatusChange(healthy) PROVE Inv'
  <2>1. "supervisor" \in Refreshers /\ status' \in Statuses
    BY <1>5 DEF Refreshers, Statuses, handleStatusChange
  <2>2. refresh' \in [Refreshers -> Type] /\ OneFlush'
    <3>1. CASE Starts("supervisor", healthy)
      BY <1>2, <1>5, <2>1, <3>1 DEF handleStatusChange, Refresher
    <3>2. CASE refresh' = refresh
      BY <1>1, <1>5, <3>2 DEF handleStatusChange, OneFlush
    <3> QED
      BY <1>5, <3>1, <3>2 DEF handleStatusChange
  <2> QED
    BY <1>1, <1>4, <1>5, <2>1, <2>2, RefreshKeeps DEF handleStatusChange, announced
<1>6. CASE OtherPluginChanges \/ Enable
  <2>1. "operator" \in Refreshers /\ status' \in Statuses
    BY <1>1, <1>6 DEF Refreshers, Statuses, OtherPluginChanges, Enable
  <2>2. refresh' \in [Refreshers -> Type] /\ OneFlush'
    BY <1>2, <1>6, <2>1 DEF OtherPluginChanges, Enable, Refresher
  <2> QED
    BY <1>1, <1>4, <1>6, <2>1, <2>2, RefreshKeeps DEF OtherPluginChanges, Enable, announced
<1>7. ASSUME NEW r \in Refreshers, ActivePlugins(r) PROVE Inv'
  <2>1. refresh' \in [Refreshers -> Type] /\ OneFlush'
    BY <1>1, <1>3, <1>7 DEF ActivePlugins, Refresher
  <2> QED
    BY <1>1, <1>7, <2>1, RefreshKeeps DEF ActivePlugins, announced
<1>8. ASSUME NEW r \in Refreshers, updateRecord(r) PROVE Inv'
  <2>1. refresh' \in [Refreshers -> Type] /\ OneFlush' /\ known' \in Statuses
    BY <1>1, <1>3, <1>8 DEF updateRecord, Refresher
  <2> QED
    BY <1>1, <1>8, <2>1, RefreshKeeps DEF updateRecord, announced
<1>9. ASSUME NEW r \in Refreshers, resubscribe(r) PROVE Inv'
  <2>1. refresh[r].flush => r # "operator"
    BY <1>1 DEF OneFlush
  <2>2. refresh' \in [Refreshers -> Type] /\ OneFlush'
    BY <1>1, <1>3, <1>9, <2>1 DEF resubscribe, Refresher
  <2> QED
    BY <1>1, <1>9, <2>2, RefreshKeeps DEF resubscribe, announced
<1> QED
  BY <1>5, <1>6, <1>7, <1>8, <1>9


(* The buffer is emptied into the flush, and its events queued again.      *)
LEMMA FlushSteps ==
  ASSUME Inv, NEW r \in Refreshers, Drain(r) \/ Flush(r)
  PROVE  Inv'
<1> USE DeliveryAssumption
<1>1. /\ TypeOK /\ Apart /\ Past /\ OneFlush /\ OnceDelivered /\ Ordered
  BY DEF Inv
<1>2. r = "supervisor" /\ refresh[r].stage \in {"drain", "enqueue"}
  BY <1>1 DEF Drain, Flush, Refresher, OneFlush, Refreshers
<1>3. ASSUME NEW g \in {"none", "enqueue"}, Goes(r, g), g = "none" => flushing' = <<>>
      PROVE  /\ refresh' \in [Refreshers ->
                  [stage : {"none", "list", "apply", "resubscribe", "drain", "enqueue"},
                   saw : Statuses, flush : BOOLEAN]]
             /\ OneFlush'
  <2> DEFINE n == [refresh[r] EXCEPT !.stage = g]
  <2>1. /\ refresh \in [Refreshers ->
             [stage : {"none", "list", "apply", "resubscribe", "drain", "enqueue"},
              saw : Statuses, flush : BOOLEAN]]
        /\ refresh' = [refresh EXCEPT ![r] = n]
    BY <1>1, <1>3 DEF TypeOK, Goes
  <2>2. /\ n \in [stage : {"none", "list", "apply", "resubscribe", "drain", "enqueue"},
                  saw : Statuses, flush : BOOLEAN]
        /\ n.stage = g
    BY <2>1
  <2> HIDE DEF n
  <2>3. refresh'["supervisor"].stage = g /\ refresh'["operator"] = refresh["operator"]
    BY <1>2, <2>1, <2>2 DEF Refreshers
  <2> QED
    BY <1>1, <1>3, <2>1, <2>2, <2>3 DEF OneFlush
<1>4. CASE Drain(r)
  <2>1. /\ flushing' \in Unexpired(buffer) /\ buffer' = <<>> /\ Goes(r, "enqueue")
        /\ refresh[r].stage = "drain"
        /\ UNCHANGED <<published, calls, before, status, known, subscribed, queue, current, delivered, held,
                       retried, spent>>
    BY <1>4 DEF Drain, worker, Refresher, announced
  <2>2. /\ flushing' \in Seq(Events) /\ Elements(flushing') \subseteq Elements(buffer)
        /\ Distinct(flushing')
    BY <1>1, <2>1, Types, SuffixKeeps DEF Apart
  <2>3. buffer' \in Seq(Events) /\ Len(buffer') = 0 /\ Elements(buffer') = {} /\ Distinct(buffer')
    BY <2>1 DEF Elements, Distinct
  <2>4. /\ refresh' \in [Refreshers ->
             [stage : {"none", "list", "apply", "resubscribe", "drain", "enqueue"},
              saw : Statuses, flush : BOOLEAN]]
        /\ OneFlush'
    BY <1>3, <2>1
  <2>5. TypeOK'
    BY SMTT(30), <1>1, <2>1, <2>2, <2>3, <2>4 DEF TypeOK
  <2>6. Apart'
    BY SMTT(30), <1>1, <2>1, <2>2, <2>3 DEF Apart, Busy
  <2>7. Past' /\ OnceDelivered'
    BY <1>1, <2>1, <2>2, <2>3 DEF Past, OnceDelivered, Busy
  <2>8. InOrder(queue', held', before')
    BY <1>1, <2>1 DEF Ordered
  <2>9. Ordered'
    BY <1>1, <2>1, <2>2, <2>3, <2>8 DEF Ordered, Busy
  <2> QED
    BY <2>4, <2>5, <2>6, <2>7, <2>9 DEF Inv
<1>5. CASE Flush(r) /\ flushing # <<>>
  <2> DEFINE e == Head(flushing)
  <2>1. /\ enqueue(e) /\ flushing' = Tail(flushing) /\ refresh[r].stage = "enqueue"
        /\ UNCHANGED <<refresh, published, calls, before, status, known, subscribed, buffer, current, delivered,
                       held, retried, spent>>
    BY <1>5 DEF Flush, Refresher, announced
  <2>2. /\ e \in Elements(flushing) /\ e \in Events /\ flushing' \in Seq(Events)
        /\ Elements(flushing') \subseteq Elements(flushing) /\ Distinct(flushing')
        /\ e \notin Elements(flushing')
    BY <1>1, <1>5, <2>1, Types, TailKeeps DEF Apart
  <2> HIDE DEF e
  <2>3. e \in held /\ e \notin Elements(queue) /\ e \notin Elements(buffer)
        /\ e \notin Elements(delivered) /\ (Busy => current.event # e)
    BY <1>1, <2>2 DEF Ordered, Apart, OnceDelivered
  <2>4. /\ queue' \in Seq(Events) /\ Len(queue') <= QueueSize
        /\ Distinct(queue') /\ InOrder(queue', held, before)
        /\ Elements(queue') \subseteq Elements(queue) \cup {e}
    BY <1>1, <2>1, <2>2, <2>3, Enqueued DEF Apart, Ordered
  <2>5. TypeOK' /\ OneFlush'
    BY <1>1, <1>2, <2>1, <2>2, <2>4 DEF TypeOK, OneFlush
  <2>6. Apart'
    BY <1>1, <2>1, <2>2, <2>3, <2>4 DEF Apart, Busy
  <2>7. Past' /\ OnceDelivered'
    BY <1>1, <2>1, <2>2, <2>3, <2>4 DEF Past, OnceDelivered, Busy
  <2>8. InOrder(queue', held', before')
    BY <2>1, <2>4
  <2>9. Ordered'
    BY <1>1, <2>1, <2>2, <2>3, <2>4, <2>8 DEF Ordered, Busy
  <2> QED
    BY <2>5, <2>6, <2>7, <2>9 DEF Inv
<1>6. CASE Flush(r) /\ flushing = <<>>
  <2>1. /\ Goes(r, "none")
        /\ UNCHANGED <<queue, flushing, published, calls, before, status, known, subscribed, buffer, current,
                       delivered, held, retried, spent>>
    BY <1>6 DEF Flush, announced
  <2>2. /\ refresh' \in [Refreshers ->
             [stage : {"none", "list", "apply", "resubscribe", "drain", "enqueue"},
              saw : Statuses, flush : BOOLEAN]]
        /\ OneFlush'
    BY <1>3, <1>6, <2>1
  <2> QED
    BY <1>1, <2>1, <2>2, RefreshKeeps DEF TypeOK, worker
<1> QED
  BY <1>4, <1>5, <1>6

-----------------------------------------------------------------------------
(* The invariant.                                                          *)

(* Nothing is anywhere at first.                                           *)
LEMMA InitInv == Init => Inv
<1> SUFFICES ASSUME Init PROVE Inv
  OBVIOUS
<1> USE DeliveryAssumption
<1>1. NoRefresh \in [stage : {"none", "list", "apply", "resubscribe", "drain", "enqueue"},
                     saw : Statuses, flush : BOOLEAN]
  BY DEF NoRefresh, Statuses
<1>2. Idle \in [stage : {"idle", "taken", "buffering", "delivering"},
                event : Events \cup {NoEvent}, attempt : 0..Attempts]
  BY DEF Idle
<1>3. /\ <<>> \in Seq(Events) /\ Len(<<>>) = 0
      /\ Elements(<<>>) = {} /\ Distinct(<<>>) /\ \A H, R : InOrder(<<>>, H, R)
  BY DEF Elements, Distinct, InOrder
<1>4. TypeOK
  BY <1>1, <1>2, <1>3 DEF Init, TypeOK, Statuses
<1>5. ~Busy
  BY DEF Init, Busy, Idle
<1>6. Apart /\ Past
  BY <1>3, <1>5 DEF Init, Apart, Past
<1>7. OneFlush
  BY DEF Init, OneFlush, NoRefresh, Refreshers
<1>8. OnceDelivered /\ Ordered
  BY <1>3, <1>5 DEF Init, OnceDelivered, Ordered
<1> QED
  BY <1>4, <1>6, <1>7, <1>8 DEF Inv

(* Every step keeps it.                                                    *)
LEMMA StepInv == Inv /\ [Next]_vars => Inv'
<1> SUFFICES ASSUME Inv, [Next]_vars PROVE Inv'
  OBVIOUS
<1>1. CASE UNCHANGED vars
  <2>1. UNCHANGED <<published, calls, before, status, known, subscribed, queue, buffer, current, refresh,
                    flushing, delivered, held, retried, spent>>
    BY <1>1 DEF vars
  <2>2. OneFlush'
    BY <2>1 DEF Inv, OneFlush
  <2> QED
    BY <2>1, <2>2, RefreshKeeps DEF Inv, TypeOK, worker
<1> QED
  BY <1>1, PublishStep, HandlerStep, TakeStep, ProcessStep, BufferStep, DeliveryStep, RefreshSteps,
     FlushSteps DEF Next

(* The inductive invariant holds.                                          *)
LEMMA PluginInvariant == Spec => []Inv
BY InitInv, StepInv, PTL DEF Spec

-----------------------------------------------------------------------------
(***************************************************************************)
(* Of two events that were never buffered, the second published when the   *)
(* handler was through with the first, the second never reaches the plugin *)
(* before the first, whatever other publications nest or interleave and    *)
(* whatever fails, is dropped or is refreshed.                             *)
(***************************************************************************)
THEOREM LiveOrder == Spec => [](TypeOK /\ LiveEventsInOrder)
<1>1. Inv => TypeOK /\ LiveEventsInOrder
  BY DEF Inv, Ordered, LiveEventsInOrder, Precedes
<1> QED
  BY <1>1, PluginInvariant, PTL

(***************************************************************************)
(* An event that the plugin receives twice is one of which an attempt had  *)
(* failed: the publications, the worker, the queue, the buffer and the     *)
(* flush hold each event at most once between them.                        *)
(***************************************************************************)
THEOREM NoCopies == Spec => []ReplayedOnce
<1>1. Inv => ReplayedOnce
  BY DEF Inv, OnceDelivered, ReplayedOnce, Precedes
<1> QED
  BY <1>1, PluginInvariant, PTL

=============================================================================
