----------------------------- MODULE EventQueue -----------------------------
(***************************************************************************)
(* The event system (lib/event.c): a table of handlers, each with a ring   *)
(* buffer of events.  event_post puts an event into the ring of every      *)
(* handler whose mask has it; a listener polls its ring, a callback is     *)
(* called by events_dispatch.                                              *)
(*                                                                         *)
(*   registered      event_handler_count; handlers 0..registered-1 exist   *)
(*   enabled, event_mask, callback, ring                                   *)
(*                   the fields of struct event_handler; event_mask is the *)
(*                   set of the bits that are set                          *)
(*   seen            what event_poll last returned, or the callback got    *)
(***************************************************************************)
EXTENDS Integers, Sequences

CONSTANTS MAX_EVENT_HANDLERS,
          MAX_EVENTS_PER_QUEUE,
          Event,     \* the numbers of the events
          Requests   \* what is registered: records [mask, enable, func]

Ids == 0..MAX_EVENT_HANDLERS - 1
Index == 0..MAX_EVENTS_PER_QUEUE - 1

Ring == [data : [Index -> Event \cup {0}], head : Index, tail : Index,
         count : 0..MAX_EVENTS_PER_QUEUE]

ASSUME EventAssumption ==
  /\ MAX_EVENT_HANDLERS \in Nat
  /\ MAX_EVENTS_PER_QUEUE \in Nat \ {0}
  /\ Event \subseteq Nat \ {0}
  /\ Requests \subseteq [mask : SUBSET Event, enable : BOOLEAN, func : BOOLEAN]

VARIABLES registered, enabled, event_mask, callback, ring, seen
EqVars == <<registered, enabled, event_mask, callback, ring, seen>>

-----------------------------------------------------------------------------
(***************************************************************************)
(* The ring buffer                                                         *)
(***************************************************************************)
Advance(i) == IF i + 1 >= MAX_EVENTS_PER_QUEUE THEN 0 ELSE i + 1

\* A slip of queue_put: a full queue overwrites its oldest event.
queue_put_overwrite(q, c) ==
  [data |-> [q.data EXCEPT ![q.head] = c], head |-> Advance(q.head), tail |-> q.tail,
   count |-> IF q.count >= MAX_EVENTS_PER_QUEUE THEN q.count ELSE q.count + 1]

queue_put(q, c) ==
  IF q.count >= MAX_EVENTS_PER_QUEUE THEN q
  ELSE [data |-> [q.data EXCEPT ![q.head] = c], head |-> Advance(q.head),
        tail |-> q.tail, count |-> q.count + 1]

queue_front(q) == q.data[q.tail]

queue_get(q) ==
  [data |-> q.data, head |-> q.head, tail |-> Advance(q.tail), count |-> q.count - 1]

\* The data of a queue that was never used are zero; registering keeps them.
queue_init(data) == [data |-> data, head |-> 0, tail |-> 0, count |-> 0]

-----------------------------------------------------------------------------
(***************************************************************************)
(* The functions of event.h                                                *)
(***************************************************************************)
EqInit ==
  /\ registered = 0
  /\ enabled = [h \in Ids |-> FALSE]
  /\ event_mask = [h \in Ids |-> {}]
  /\ callback = [h \in Ids |-> FALSE]
  /\ ring = [h \in Ids |-> queue_init([i \in Index |-> 0])]
  /\ seen = [h \in Ids |-> 0]

event_handler_register(mask, enable, func) ==
  /\ registered < MAX_EVENT_HANDLERS
  /\ registered' = registered + 1
  /\ enabled' = [enabled EXCEPT ![registered] = enable]
  /\ event_mask' = [event_mask EXCEPT ![registered] = mask]
  /\ callback' = [callback EXCEPT ![registered] = func]
  /\ ring' = [ring EXCEPT ![registered] = queue_init(ring[registered].data)]
  /\ UNCHANGED seen

Known(h) == h \in Ids /\ h < registered

event_handler_enable(h, enable) ==
  /\ Known(h)
  /\ enabled' = [enabled EXCEPT ![h] = enable]
  /\ UNCHANGED <<registered, event_mask, callback, ring, seen>>

event_post(e) ==
  /\ ring' = [h \in Ids |-> IF Known(h) /\ enabled[h] /\ e \in event_mask[h]
                            THEN queue_put(ring[h], e) ELSE ring[h]]
  /\ UNCHANGED <<registered, enabled, event_mask, callback, seen>>

Due(h) == Known(h) /\ enabled[h] /\ ring[h].count # 0

\* Each due handler of H gets its oldest event.
Deliver(H) ==
  /\ seen' = [h \in Ids |-> IF h \in H /\ Due(h) THEN queue_front(ring[h]) ELSE seen[h]]
  /\ ring' = [h \in Ids |-> IF h \in H /\ Due(h) THEN queue_get(ring[h]) ELSE ring[h]]
  /\ UNCHANGED <<registered, enabled, event_mask, callback>>

event_poll(h) == Known(h) /\ ~ callback[h] /\ Deliver({h})

events_dispatch == Deliver({h \in Ids : callback[h]})

EqNext ==
  \/ \E r \in Requests : event_handler_register(r.mask, r.enable, r.func)
  \/ \E h \in Ids, b \in BOOLEAN : event_handler_enable(h, b)
  \/ \E e \in Event : event_post(e)
  \/ \E h \in Ids : event_poll(h)
  \/ events_dispatch

EqSpec == EqInit /\ [][EqNext]_EqVars

-----------------------------------------------------------------------------
(***************************************************************************)
(* The queues promise what EventFifo says.                                 *)
(***************************************************************************)
\* k places after the tail, k at most the size.
Place(t, k) == IF t + k >= MAX_EVENTS_PER_QUEUE THEN t + k - MAX_EVENTS_PER_QUEUE
               ELSE t + k

\* The events in a ring, oldest first.
Contents(q) == [i \in 1..q.count |-> q.data[Place(q.tail, i - 1)]]

On == {h \in Ids : Known(h) /\ enabled[h]}

Fifo == INSTANCE EventFifo WITH
          Handler <- Ids, Capacity <- MAX_EVENTS_PER_QUEUE,
          on <- On, wants <- event_mask,
          fifo <- [h \in Ids |-> Contents(ring[h])]

\* The table of handlers and its rings implement first-in first-out queues:
\* whatever the order of registering, enabling, posting, polling and
\* dispatching, and wherever the rings wrap, an event is lost only when it finds
\* its queue full, and every other event is delivered once and in order
\* (queue_put, queue_get, event_post, event_poll, events_dispatch).
EventsAreFifo == Fifo!FifoSpec

\* What keeps the three indices of a ring consistent.
RingOK(q) ==
  /\ q.data \in [Index -> Event \cup {0}]
  /\ q.head \in Index /\ q.tail \in Index /\ q.count \in 0..MAX_EVENTS_PER_QUEUE
  /\ q.head = Place(q.tail, q.count)
  /\ \A i \in 0..q.count - 1 : q.data[Place(q.tail, i)] \in Event

EqInv ==
  /\ registered \in 0..MAX_EVENT_HANDLERS
  /\ enabled \in [Ids -> BOOLEAN] /\ callback \in [Ids -> BOOLEAN]
  /\ event_mask \in [Ids -> SUBSET Event]
  /\ seen \in [Ids -> Event \cup {0}]
  /\ ring \in [Ids -> Ring]
  /\ \A h \in Ids : RingOK(ring[h])
=============================================================================
