------------------------------ MODULE EventFifo -----------------------------
(***************************************************************************)
(* What the event system promises (include/event.h): every handler that is *)
(* switched on has a first-in first-out queue of the events it asked for,  *)
(* of at most Capacity events; an event that finds the queue full is lost, *)
(* and no other event ever is.                                             *)
(*                                                                         *)
(*   on      the handlers that are registered and enabled                  *)
(*   wants   the events each handler asked for                             *)
(*   fifo    the events each handler has not seen yet, oldest first        *)
(*   seen    the last event each handler was given, 0 for none             *)
(***************************************************************************)
EXTENDS Naturals, Sequences

CONSTANTS Handler, Event, Capacity

VARIABLES on, wants, fifo, seen

FifoInit ==
  /\ on = {}
  /\ wants = [h \in Handler |-> {}]
  /\ fifo = [h \in Handler |-> << >>]
  /\ seen = [h \in Handler |-> 0]

Register(h, mask, enable) ==
  /\ on' = IF enable THEN on \cup {h} ELSE on \ {h}
  /\ wants' = [wants EXCEPT ![h] = mask]
  /\ fifo' = [fifo EXCEPT ![h] = << >>]
  /\ UNCHANGED seen

Switch(h, enable) ==
  /\ on' = IF enable THEN on \cup {h} ELSE on \ {h}
  /\ UNCHANGED <<wants, fifo, seen>>

Takes(h, e) == h \in on /\ e \in wants[h] /\ Len(fifo[h]) < Capacity

Post(e) ==
  /\ fifo' = [h \in Handler |-> IF Takes(h, e) THEN Append(fifo[h], e) ELSE fifo[h]]
  /\ UNCHANGED <<on, wants, seen>>

\* The handlers of H that have something to be given are given the oldest.
Give(H) ==
  LET due == {h \in H \cap on : fifo[h] # << >>}
  IN  /\ seen' = [h \in Handler |->
                    IF h \in due THEN Head(fifo[h]) ELSE seen[h]]
      /\ fifo' = [h \in Handler |-> IF h \in due THEN Tail(fifo[h]) ELSE fifo[h]]
      /\ UNCHANGED <<on, wants>>

FifoNext ==
  \/ \E h \in Handler, mask \in SUBSET Event, b \in BOOLEAN : Register(h, mask, b)
  \/ \E h \in Handler, b \in BOOLEAN : Switch(h, b)
  \/ \E e \in Event : Post(e)
  \/ \E H \in SUBSET Handler : Give(H)

FifoSpec == FifoInit /\ [][FifoNext]_<<on, wants, fifo, seen>>
=============================================================================
