---------------------------- MODULE QueueProofs -----------------------------
(***************************************************************************)
(* Proofs about the two ring buffers of the node, whatever their sizes.    *)
(*                                                                         *)
(* The queues of the sockets (module SocketQueue) hold the frames stored in *)
(* them, for readers whose buffer takes every frame that the queue takes.  *)
(*                                                                         *)
(* The event queues of lib/event.c (module EventQueue) are first-in        *)
(* first-out.                                                              *)
(***************************************************************************)
EXTENDS SocketQueue, EventQueue, SequenceTheorems, TLAPS

(***************************************************************************)
(* The queues of the sockets (SocketQueue)                                 *)
(***************************************************************************)
Cell == [f : Frames, k : Nat]
Entry == [f : Frames, pos : Nat]
QueueType(size) ==
  [head : Nat, tail : Nat, avail : Nat, size : {size}, n : Nat,
   buff : [0..size - 1 -> Cell]]

\* Every reader asks for at least the payload of any frame that its socket is
\* bound to and that its queue can take.
BuffersFit ==
  \A s \in Sockets, f \in Frames :
    Bind[s] = f.bind /\ Room(f) <= QSize[s] => f.len <= Buffers[s]

\* The inductive invariant: types, the frames of a socket are those it is bound
\* to, and every queue holds its frames.
SqInv ==
  /\ socks \in [Slots -> Sockets \cup {None}]
  /\ queue \in [Sockets -> UNION {QueueType(n) : n \in Nat}]
  /\ stored \in [Sockets -> Seq(Entry)]
  /\ \A s \in Sockets : queue[s] \in QueueType(QSize[s])
  /\ \A s \in Sockets : \A j \in 1..Len(stored[s]) : Bind[s] = stored[s][j].f.bind
  /\ QueuesHoldFrames

-----------------------------------------------------------------------------
\* Two moves around the buffer add up, as long as they go around at most once.
LEMMA ForwardAdds ==
  ASSUME NEW size \in Nat, NEW t \in Nat, t < size,
         NEW a \in Nat, NEW b \in Nat, a + b <= size
  PROVE  /\ Forward(size, t, a) \in 0..size - 1
         /\ Forward(size, Forward(size, t, a), b) = Forward(size, t, a + b)
BY DEF Forward

\* Where a byte at distance p from the tail lies, seen from the head at distance
\* u: right of it if p >= u, and a whole turn less u - p otherwise.
LEMMA OffsetFromHead ==
  ASSUME NEW size \in Nat, NEW t \in Nat, t < size,
         NEW u \in Nat, u <= size, NEW p \in Nat, p < size
  PROVE  /\ p >= u => Offset(size, Forward(size, t, u), Forward(size, t, p)) = p - u
         /\ p < u => Offset(size, Forward(size, t, u), Forward(size, t, p)) = p - u + size
BY DEF Forward, Offset

\* Every offset is a natural number.
LEMMA OffsetNat ==
  ASSUME NEW size \in Nat, NEW h \in 0..size - 1, NEW i \in 0..size - 1
  PROVE  Offset(size, h, i) \in Nat
BY DEF Offset

\* What is known of a queue that holds frames.
LEMMA HoldsFacts ==
  ASSUME NEW size \in Nat, NEW q \in QueueType(size), NEW fs \in Seq(Entry),
         Holds(q, fs)
  PROVE  /\ q.size = size /\ q.tail \in Nat /\ q.avail \in Nat /\ q.avail <= size
         /\ q.head = Forward(size, q.tail, Used(q))
         /\ Used(q) \in Nat /\ Used(q) = size - q.avail
         /\ size > 0 => q.tail < size
         /\ q.n = Len(fs) /\ q.buff \in [0..size - 1 -> Cell]
         /\ \A j \in 1..Len(fs) :
              /\ fs[j].f \in Frames /\ fs[j].f.len \in Nat
              /\ Room(fs[j].f) \in Nat \ {0}
              /\ fs[j].pos \in Nat /\ fs[j].pos + Room(fs[j].f) <= Used(q)
<1>1. \A j \in 1..Len(fs) : fs[j] \in Entry
  OBVIOUS
<1>2. \A j \in 1..Len(fs) : fs[j].f \in Frames /\ fs[j].pos \in Nat
  BY <1>1 DEF Entry
<1>3. \A j \in 1..Len(fs) : fs[j].f.len \in Nat /\ Room(fs[j].f) \in Nat \ {0}
  BY <1>2, SocketAssumption DEF Room
<1>4. \A j \in 1..Len(fs) : fs[j].pos + Room(fs[j].f) <= Used(q)
  BY DEF Holds
<1>5. /\ q.size = size /\ q.tail \in Nat /\ q.avail \in Nat
      /\ q.buff \in [0..size - 1 -> Cell]
  BY DEF QueueType
<1>6. /\ q.n = Len(fs) /\ q.avail <= size /\ (size > 0 => q.tail < size)
      /\ q.head = Forward(size, q.tail, Used(q))
  BY <1>5 DEF Holds
<1>7. Used(q) \in Nat /\ Used(q) = size - q.avail
  BY <1>5, <1>6 DEF Used
<1> QED  BY <1>2, <1>3, <1>4, <1>5, <1>6, <1>7

\* Storing a frame that fits appends it to what the queue holds: its bytes lie
\* in the free part, so no byte of an older frame is touched.
LEMMA StoreHolds ==
  ASSUME NEW size \in Nat, NEW q \in QueueType(size), NEW fs \in Seq(Entry),
         NEW f \in Frames, Holds(q, fs), Fits(q, f)
  PROVE  /\ Store(q, f) \in QueueType(size)
         /\ Append(fs, [f |-> f, pos |-> Used(q)]) \in Seq(Entry)
         /\ Holds(Store(q, f), Append(fs, [f |-> f, pos |-> Used(q)]))
<1> DEFINE e == [f |-> f, pos |-> Used(q)]
           r == Store(q, f)
           gs == Append(fs, e)
           u == Used(q)
           room == Room(f)
           t == q.tail
           h == q.head
           Buff == [i \in 0..size - 1 |->
                      LET k == Offset(size, h, i)
                      IN  IF k < Room(f) THEN [f |-> f, k |-> k] ELSE q.buff[i]]
<1>1. /\ q.size = size /\ q.tail \in Nat /\ q.avail \in Nat /\ q.avail <= size
      /\ q.head = Forward(size, q.tail, u) /\ u \in Nat /\ u = size - q.avail
      /\ size > 0 => q.tail < size
      /\ q.n = Len(fs) /\ q.buff \in [0..size - 1 -> Cell]
  BY HoldsFacts
<1>2. room \in Nat \ {0} /\ room <= q.avail
  BY SMTT(30), SocketAssumption, <1>1 DEF Room, Fits
<1>3. size > 0 /\ q.tail < size /\ u + room <= size
  BY SMTT(30), <1>1, <1>2
<1>4. \A j \in 1..Len(fs) :
        /\ fs[j].f \in Frames /\ Room(fs[j].f) \in Nat \ {0}
        /\ fs[j].pos \in Nat /\ fs[j].pos + Room(fs[j].f) <= u
  BY HoldsFacts
<1>5. r = [q EXCEPT !.buff = Buff, !.head = Forward(size, h, room),
                    !.avail = q.avail - room, !.n = q.n + 1]
  BY <1>1 DEF Store
<1> HIDE DEF r, Buff, u, room, t, h
<1>B. /\ q.avail \in Nat /\ q.avail <= size /\ u = size - q.avail /\ q.size = size
      /\ q.n \in Nat /\ q.n = Len(fs)
  BY <1>1
<1>A. /\ t \in Nat /\ t < size /\ u \in Nat /\ room \in Nat \ {0} /\ u + room <= size
      /\ h = Forward(size, t, u) /\ u <= size
  BY <1>1, <1>2, <1>3 DEF t, h
<1>6. /\ r.head = Forward(size, h, room) /\ r.tail = t /\ r.size = size
      /\ r.avail = q.avail - room /\ r.n = q.n + 1 /\ r.buff = Buff
  BY <1>1, <1>5 DEF QueueType, t
<1>7. /\ h \in 0..size - 1
      /\ Forward(size, h, room) = Forward(size, t, u + room)
      /\ Forward(size, h, room) \in 0..size - 1
  <2>1. h \in 0..size - 1 /\ Forward(size, h, room) = Forward(size, t, u + room)
    BY <1>A, ForwardAdds
  <2>2. Forward(size, h, room) \in 0..size - 1
    BY <2>1, <1>A DEF Forward
  <2> QED  BY <2>1, <2>2
<1>8. Buff \in [0..size - 1 -> Cell]
  <2> SUFFICES ASSUME NEW i \in 0..size - 1
               PROVE  LET k == Offset(size, h, i)
                      IN  (IF k < Room(f) THEN [f |-> f, k |-> k] ELSE q.buff[i]) \in Cell
    BY DEF Buff
  <2>1. Offset(size, h, i) \in Nat
    BY Zenon, <1>7, OffsetNat
  <2>2. [f |-> f, k |-> Offset(size, h, i)] \in Cell
    BY <2>1 DEF Cell
  <2>3. q.buff[i] \in Cell
    BY <1>1
  <2> QED  BY <2>2, <2>3
<1>9. /\ q.avail - room \in 0..size /\ q.n + 1 \in Nat
      /\ Used(r) = u + room /\ r.avail \in 0..r.size
  <2> DEFINE a == q.avail
  <2>0. a \in Nat /\ u = size - a /\ u \in Nat /\ room \in Nat /\ u + room <= size
    BY <1>A, <1>B
  <2> HIDE DEF a
  <2>5. a - room \in 0..size /\ size - (a - room) = u + room
    BY <2>0
  <2>6. q.n + 1 \in Nat
    BY <1>B
  <2>1. q.avail - room \in 0..size /\ q.n + 1 \in Nat
    BY <2>5, <2>6 DEF a
  <2>2. Used(r) = size - (q.avail - room)
    BY <1>6 DEF Used
  <2>3. size - (q.avail - room) = u + room
    BY <2>5 DEF a
  <2>4. r.avail \in 0..r.size
    BY <2>1, <1>6
  <2> QED  BY <2>1, <2>2, <2>3, <2>4
<1>10. r \in QueueType(size)
  <2>1. Forward(size, h, room) \in Nat /\ q.avail - room \in Nat
    BY <1>7, <1>9
  <2> QED  BY Zenon, <2>1, <1>5, <1>8, <1>9 DEF QueueType
<1>11. /\ e \in Entry /\ e.f = f /\ e.pos = u
  BY <1>1 DEF Entry, u
<1>12. /\ gs \in Seq(Entry) /\ Len(gs) = Len(fs) + 1 /\ gs[Len(fs) + 1] = e
       /\ Len(fs) \in Nat /\ \A j \in 1..Len(fs) : gs[j] = fs[j]
  BY <1>11
<1> HIDE DEF e, gs
<1>13. \A j \in 1..Len(gs) : \A k \in 0..Room(gs[j].f) - 1 :
         Buff[Forward(size, t, gs[j].pos + k)] = [f |-> gs[j].f, k |-> k]
  <2> SUFFICES ASSUME NEW j \in 1..Len(gs), NEW k \in 0..Room(gs[j].f) - 1
               PROVE  Buff[Forward(size, t, gs[j].pos + k)] = [f |-> gs[j].f, k |-> k]
    OBVIOUS
  <2> DEFINE p == gs[j].pos + k
             i == Forward(size, t, p)
  <2>1. CASE j = Len(fs) + 1
    <3>1. gs[j].f = f /\ p = u + k /\ k \in 0..room - 1
      BY <1>11, <1>12, <2>1 DEF room
    <3>2. p \in Nat /\ p < size /\ p >= u
      BY SMTT(30), <3>1, <1>A
    <3> HIDE DEF p
    <3>3. i \in 0..size - 1
      BY <3>2, <1>A DEF Forward
    <3>4. Offset(size, h, i) = p - u
      BY <3>2, <1>A, OffsetFromHead
    <3>5. p - u = k /\ k < room
      BY <3>1, <1>A
    <3> HIDE DEF i
    <3> QED  BY <3>1, <3>3, <3>4, <3>5 DEF Buff, room, i, p
  <2>2. CASE j \in 1..Len(fs)
    <3>1. gs[j] = fs[j] /\ k \in 0..Room(fs[j].f) - 1
      BY <1>12, <2>2
    <3>2. q.buff[i] = [f |-> gs[j].f, k |-> k]
      BY SMTT(30), <3>1, <2>2, <1>1 DEF Holds, t
    <3>3a. /\ fs[j].pos \in Nat /\ Room(fs[j].f) \in Nat \ {0}
           /\ fs[j].pos + Room(fs[j].f) <= u
      BY <2>2, <1>4 DEF u
    <3>3. p \in Nat /\ p < u /\ p < size
      <4> DEFINE P == fs[j].pos
                 R == Room(fs[j].f)
      <4>1. P \in Nat /\ R \in Nat /\ P + R <= u /\ k \in 0..R - 1 /\ p = P + k
        BY <3>1, <3>3a
      <4>2. u \in Nat /\ u <= size
        BY <1>A
      <4> HIDE DEF P, R, p
      <4> QED  BY <4>1, <4>2
    <3> HIDE DEF p
    <3>4. i \in 0..size - 1
      BY <3>3, <1>A DEF Forward
    <3>5. Offset(size, h, i) = p - u + size
      BY <3>3, <1>A, OffsetFromHead
    <3>6. ~(p - u + size < room)
      BY <3>3, <1>A
    <3> HIDE DEF i
    <3> QED  BY SMTT(30), <3>2, <3>4, <3>5, <3>6 DEF Buff, room, i, p
  <2> QED  BY <1>12, <2>1, <2>2
<1>14. gs # <<>> /\ gs[1].pos = 0
  <2>1. CASE fs = <<>>
    <3>1. u = 0
      BY <2>1 DEF Holds, u
    <3>2. Len(fs) = 0
      BY <2>1
    <3>3. gs[1] = e /\ Len(gs) = 1
      BY <3>2, <1>12
    <3>4. gs # <<>>
      BY <3>3, <1>12
    <3> QED  BY <3>1, <3>3, <3>4, <1>11
  <2>2. CASE fs # <<>>
    <3>1. fs[1].pos = 0
      BY <2>2 DEF Holds
    <3>2. 1 \in 1..Len(fs) /\ Len(gs) > 0
      BY <2>2, <1>12
    <3> QED  BY <3>1, <3>2, <1>12
  <2> QED  BY <2>1, <2>2
<1>15. gs[Len(gs)].pos + Room(gs[Len(gs)].f) = Used(r)
  BY <1>9, <1>11, <1>12 DEF room
<1>16. \A j \in 1..Len(gs) - 1 : gs[j + 1].pos = gs[j].pos + Room(gs[j].f)
  <2> SUFFICES ASSUME NEW j \in 1..Len(gs) - 1
               PROVE  gs[j + 1].pos = gs[j].pos + Room(gs[j].f)
    OBVIOUS
  <2>1. j \in 1..Len(fs) /\ gs[j] = fs[j] /\ fs # <<>>
    BY <1>12
  <2>2. CASE j = Len(fs)
    BY <2>1, <2>2, <1>11, <1>12 DEF Holds, u
  <2>3. CASE j \in 1..Len(fs) - 1
    BY <2>1, <2>3, <1>12 DEF Holds
  <2> QED  BY <2>1, <2>2, <2>3, <1>12
<1>17. \A j \in 1..Len(gs) : gs[j].pos \in Nat /\ gs[j].pos + Room(gs[j].f) <= Used(r)
  <2> SUFFICES ASSUME NEW j \in 1..Len(gs)
               PROVE  gs[j].pos \in Nat /\ gs[j].pos + Room(gs[j].f) <= Used(r)
    OBVIOUS
  <2>1. CASE j = Len(fs) + 1
    <3>1. gs[j].pos = u /\ Room(gs[j].f) = room
      BY <2>1, <1>11, <1>12 DEF room
    <3> QED  BY <3>1, <1>A, <1>9
  <2>2. CASE j \in 1..Len(fs)
    <3>1. /\ gs[j].pos \in Nat /\ Room(gs[j].f) \in Nat
          /\ gs[j].pos + Room(gs[j].f) <= u
      BY Zenon, <2>2, <1>4, <1>12 DEF u
    <3> DEFINE P == gs[j].pos
               R == Room(gs[j].f)
    <3>2. P \in Nat /\ R \in Nat /\ P + R <= u
      BY <3>1
    <3>3. u \in Nat /\ room \in Nat
      BY <1>A
    <3> HIDE DEF P, R
    <3>4. P + R <= u + room
      BY <3>2, <3>3
    <3> QED  BY <3>2, <3>4, <1>9 DEF P, R
  <2> QED  BY <2>1, <2>2, <1>12
<1>18. /\ r.n = Len(gs) /\ r.tail \in 0..r.size /\ r.tail < r.size
       /\ r.head = Forward(r.size, r.tail, Used(r))
  <2>1. r.n = Len(gs)
    BY <1>B, <1>6, <1>12
  <2>2. r.tail \in 0..r.size /\ r.tail < r.size
    BY <1>A, <1>6
  <2>3. r.head = Forward(r.size, r.tail, Used(r))
    BY <1>6, <1>7, <1>9
  <2> QED  BY <2>1, <2>2, <2>3
<1>19. \A j \in 1..Len(gs) : \A k \in 0..Room(gs[j].f) - 1 :
         r.buff[Forward(r.size, r.tail, gs[j].pos + k)] = [f |-> gs[j].f, k |-> k]
  BY <1>6, <1>13
<1>21. \A i, j \in 1..Len(gs) : i < j => gs[i].pos + Room(gs[i].f) <= gs[j].pos
  <2> SUFFICES ASSUME NEW i \in 1..Len(gs), NEW j \in 1..Len(gs), i < j
               PROVE  gs[i].pos + Room(gs[i].f) <= gs[j].pos
    OBVIOUS
  <2>1. i \in 1..Len(fs) /\ gs[i] = fs[i]
    BY <1>12
  <2>2. CASE j = Len(fs) + 1
    <3>1. gs[j].pos = u
      BY <2>2, <1>11, <1>12
    <3> QED  BY <3>1, <2>1, <1>4 DEF u
  <2>3. CASE j \in 1..Len(fs)
    BY SMTT(30), <2>1, <2>3, <1>12 DEF Holds
  <2> QED  BY <2>2, <2>3, <1>12
<1>20. Holds(r, gs)
  BY SMTT(30), <1>21, <1>9, <1>14, <1>15, <1>16, <1>17, <1>18, <1>19 DEF Holds
<1> QED  BY <1>10, <1>12, <1>20 DEF e, r, gs

\* Reading with a buffer that takes the oldest frame returns its payload and
\* leaves a queue that holds the others.
LEMMA FetchHolds ==
  ASSUME NEW size \in Nat, NEW q \in QueueType(size), NEW fs \in Seq(Entry),
         NEW b \in Nat, Holds(q, fs), q.n > 0, fs[1].f.len <= b
  PROVE  /\ Fetch(q, b) \in QueueType(size)
         /\ Shifted(fs) \in Seq(Entry)
         /\ Len(Shifted(fs)) = Len(fs) - 1
         /\ \A j \in 1..Len(fs) - 1 : Shifted(fs)[j].f = fs[j + 1].f
         /\ Holds(Fetch(q, b), Shifted(fs))
         /\ Copied(q, b) = Cut(fs[1].f, b)
<1> DEFINE f == fs[1].f
           r == Fetch(q, b)
           gs == Shifted(fs)
           u == Used(q)
           room == Room(f)
           len == f.len
           t == q.tail
           L == Len(fs)
<1>1. /\ q.size = size /\ q.tail \in Nat /\ q.avail \in Nat /\ q.avail <= size
      /\ q.head = Forward(size, q.tail, u) /\ u \in Nat /\ u = size - q.avail
      /\ size > 0 => q.tail < size
      /\ q.n = L /\ q.buff \in [0..size - 1 -> Cell]
  BY HoldsFacts
<1>2. L \in Nat /\ L > 0 /\ 1 \in 1..L /\ fs # <<>>
  BY <1>1
<1>3. \A j \in 1..L :
        /\ fs[j].f \in Frames /\ fs[j].f.len \in Nat /\ Room(fs[j].f) \in Nat \ {0}
        /\ fs[j].pos \in Nat /\ fs[j].pos + Room(fs[j].f) <= u
  BY SMTT(30), HoldsFacts
<1>4. fs[1].pos = 0 /\ f \in Frames /\ len \in Nat /\ room = Header + len /\ len <= b
  BY <1>2, <1>3 DEF Holds, Room
<1>5. \A k \in 0..room - 1 : q.buff[Forward(size, t, 0 + k)] = [f |-> f, k |-> k]
  BY SMTT(30), <1>1, <1>2, <1>4 DEF Holds
<1>6. fs[1].pos + room <= u /\ room \in Nat \ {0}
  BY <1>2, <1>3
<1> HIDE DEF f, u, room, len, t, gs, r, L
<1>7. /\ t \in Nat /\ t < size /\ u \in Nat /\ room \in Nat \ {0} /\ room <= u
      /\ u <= size /\ u = size - q.avail /\ q.avail \in Nat
      /\ Header \in Nat \ {0} /\ len \in Nat /\ room = Header + len
  <2>1. t \in Nat /\ u \in Nat /\ u <= size /\ u = size - q.avail /\ q.avail \in Nat
    BY <1>1 DEF t
  <2>2. room \in Nat \ {0} /\ room <= u
    BY <1>4, <1>6, <2>1
  <2>3. size > 0
    BY <2>1, <2>2
  <2> QED  BY <2>1, <2>2, <2>3, <1>1, <1>4, SocketAssumption DEF t
<1>8. q.buff[t] = [f |-> f, k |-> 0]
  <2>1. Forward(size, t, 0 + 0) = t /\ 0 \in 0..room - 1
    BY <1>7 DEF Forward
  <2> QED  BY <2>1, <1>5
<1>9. StoredLen(q) = len /\ q.buff[q.tail].f = f
  BY <1>8 DEF StoredLen, t, len
<1>10. Copied(q, b) = Cut(f, b)
  <2> DEFINE m == IF len < b THEN len ELSE b
  <2>1. m = len
    BY <1>4, <1>7
  <2>2. \A i \in 1..len :
          q.buff[Forward(size, t, Header + i - 1)] = [f |-> f, k |-> Header + i - 1]
    <3> TAKE i \in 1..len
    <3>1. Header + i - 1 \in 0..room - 1 /\ 0 + (Header + i - 1) = Header + i - 1
      BY SMTT(30), <1>7
    <3> QED  BY <3>1, <1>5
  <2>3. Copied(q, b) = [i \in 1..m |-> q.buff[Forward(size, t, Header + i - 1)]]
    BY <1>1, <1>9 DEF Copied, t
  <2>4. Cut(f, b) = [i \in 1..m |-> [f |-> f, k |-> Header + i - 1]]
    BY DEF Cut, len
  <2> HIDE DEF m
  <2> QED  BY <2>1, <2>2, <2>3, <2>4
<1>11. r = [q EXCEPT !.n = q.n - 1, !.avail = q.avail + room,
                     !.tail = Forward(size, t, room)]
  <2>1. ~(len > b)
    BY <1>4, <1>7
  <2> QED  BY Zenon, <2>1, <1>1, <1>4, <1>9 DEF Fetch, r, room, t
<1>12. /\ r.head = q.head /\ r.tail = Forward(size, t, room) /\ r.size = size
       /\ r.avail = q.avail + room /\ r.n = q.n - 1 /\ r.buff = q.buff
  BY <1>1, <1>11 DEF QueueType
<1>13. /\ Forward(size, t, room) \in 0..size - 1 /\ q.avail + room \in 0..size
       /\ size - (q.avail + room) = u - room /\ u - room \in Nat
  <2>1. Forward(size, t, room) \in 0..size - 1
    BY <1>7 DEF Forward
  <2> DEFINE a == q.avail
  <2>2. a \in Nat /\ u = size - a /\ u \in Nat /\ room \in Nat /\ room <= u
    BY <1>7
  <2> HIDE DEF a
  <2>3. a + room \in 0..size /\ size - (a + room) = u - room /\ u - room \in Nat
    BY <2>2
  <2> QED  BY <2>1, <2>3 DEF a
<1>14. Used(r) = u - room /\ r.avail \in 0..r.size
  BY <1>12, <1>13 DEF Used
<1>15. q.n - 1 \in Nat /\ q.n = L
  BY <1>1, <1>2
<1>16. r \in QueueType(size)
  <2>1. Forward(size, t, room) \in Nat /\ q.avail + room \in Nat
    BY <1>13
  <2> QED  BY Zenon, <2>1, <1>11, <1>15 DEF QueueType
<1>17. \A p \in Nat : room + p <= size =>
         Forward(size, Forward(size, t, room), p) = Forward(size, t, room + p)
  BY <1>7, ForwardAdds
<1>18. r.head = Forward(r.size, r.tail, Used(r))
  <2>1. room + (u - room) = u
    BY <1>7
  <2>2. Forward(size, Forward(size, t, room), u - room) = Forward(size, t, u)
    BY <2>1, <1>7, <1>13, <1>17
  <2> QED  BY <2>2, <1>1, <1>12, <1>14 DEF t
<1>19. /\ gs = [i \in 1..L - 1 |-> [f |-> fs[i + 1].f, pos |-> fs[i + 1].pos - room]]
       /\ L - 1 \in Nat
  BY <1>2 DEF gs, Shifted, room, f, L
<1>20. \A j \in 1..L - 1 :
         /\ j + 1 \in 1..L /\ fs[j + 1].f \in Frames /\ Room(fs[j + 1].f) \in Nat \ {0}
         /\ fs[j + 1].pos \in Nat /\ room <= fs[j + 1].pos
         /\ fs[j + 1].pos + Room(fs[j + 1].f) <= u
  <2> TAKE j \in 1..L - 1
  <2>1. j + 1 \in 1..L /\ 1 < j + 1
    BY <1>2
  <2>2. /\ fs[j + 1].f \in Frames /\ Room(fs[j + 1].f) \in Nat \ {0}
        /\ fs[j + 1].pos \in Nat /\ fs[j + 1].pos + Room(fs[j + 1].f) <= u
    BY <2>1, <1>3
  <2>3. fs[1].pos + Room(fs[1].f) <= fs[j + 1].pos
    BY <2>1, <1>2 DEF Holds, L
  <2>4. room <= fs[j + 1].pos
    BY <2>2, <2>3, <1>4, <1>7 DEF room, f
  <2> QED  BY <2>1, <2>2, <2>4
<1>21. \A j \in 1..L - 1 : fs[j + 1].pos - room \in Nat
  BY SMTT(30), <1>7, <1>20
<1>22. /\ gs \in Seq(Entry) /\ Len(gs) = L - 1
       /\ \A j \in 1..L - 1 : gs[j].f = fs[j + 1].f /\ gs[j].pos = fs[j + 1].pos - room
  <2>1. \A j \in 1..L - 1 : [f |-> fs[j + 1].f, pos |-> fs[j + 1].pos - room] \in Entry
    BY SMTT(30), <1>20, <1>21 DEF Entry
  <2> QED  BY SMTT(30), <2>1, <1>19
<1>23. \A j \in 1..Len(gs) : gs[j].pos \in Nat /\ gs[j].pos + Room(gs[j].f) <= Used(r)
  <2> SUFFICES ASSUME NEW j \in 1..L - 1
               PROVE  gs[j].pos \in Nat /\ gs[j].pos + Room(gs[j].f) <= Used(r)
    BY <1>22
  <2> DEFINE P == fs[j + 1].pos
             R == Room(fs[j + 1].f)
  <2>1. P \in Nat /\ R \in Nat /\ room <= P /\ P + R <= u
    BY <1>20
  <2>2. gs[j].pos = P - room /\ Room(gs[j].f) = R
    BY <1>22
  <2> HIDE DEF P, R
  <2> QED  BY SMTT(30), <2>1, <2>2, <1>7, <1>14
<1>24. \A i, j \in 1..Len(gs) : i < j => gs[i].pos + Room(gs[i].f) <= gs[j].pos
  <2> SUFFICES ASSUME NEW i \in 1..L - 1, NEW j \in 1..L - 1, i < j
               PROVE  gs[i].pos + Room(gs[i].f) <= gs[j].pos
    BY <1>22
  <2>1. i + 1 \in 1..L /\ j + 1 \in 1..L /\ i + 1 < j + 1
    BY <1>2
  <2>2. fs[i + 1].pos + Room(fs[i + 1].f) <= fs[j + 1].pos
    BY SMTT(30), <2>1 DEF Holds, L
  <2> DEFINE P == fs[i + 1].pos
             R == Room(fs[i + 1].f)
             S == fs[j + 1].pos
  <2>3. P \in Nat /\ R \in Nat /\ S \in Nat /\ P + R <= S
    BY Zenon, <2>2, <1>20
  <2>4. gs[i].pos = P - room /\ Room(gs[i].f) = R /\ gs[j].pos = S - room
    BY Zenon, <1>22
  <2> HIDE DEF P, R, S
  <2> QED  BY <2>3, <2>4, <1>7
<1>25. \A j \in 1..Len(gs) - 1 : gs[j + 1].pos = gs[j].pos + Room(gs[j].f)
  <2>0. 1..Len(gs) - 1 = 1..L - 2
    <3>1. (L - 1) - 1 = L - 2
      BY <1>2
    <3> QED  BY <3>1, <1>22
  <2> SUFFICES ASSUME NEW j \in 1..L - 2
               PROVE  gs[j + 1].pos = gs[j].pos + Room(gs[j].f)
    BY <2>0, Zenon
  <2>1. j \in 1..L - 1 /\ j + 1 \in 1..L - 1 /\ (j + 1) + 1 \in 1..L
    BY <1>2
  <2> DEFINE P == fs[j + 1].pos
             R == Room(fs[j + 1].f)
             S == fs[(j + 1) + 1].pos
  <2>2. S = P + R
    BY <2>1 DEF Holds, L
  <2>3. P \in Nat /\ R \in Nat /\ S \in Nat
    BY SMTT(30), <2>1, <1>20
  <2>4. gs[j].pos = P - room /\ Room(gs[j].f) = R /\ gs[j + 1].pos = S - room
    BY <2>1, <1>22
  <2> HIDE DEF P, R, S
  <2> QED  BY <2>2, <2>3, <2>4, <1>7
<1>26. IF gs = <<>> THEN Used(r) = 0
       ELSE gs[1].pos = 0 /\ gs[Len(gs)].pos + Room(gs[Len(gs)].f) = Used(r)
  <2>1. fs[L].pos + Room(fs[L].f) = u
    BY <1>2 DEF Holds, L, u
  <2>2. CASE L = 1
    <3>1. gs = <<>>
      BY <2>2, <1>22
    <3>2. u = room
      BY <2>1, <2>2, <1>4, <1>7 DEF room, f
    <3>3. u - room = 0
      BY <3>2, <1>7
    <3>4. Used(r) = 0
      BY <3>3, <1>14
    <3> QED  BY <3>1, <3>4, Zenon
  <2>3. CASE L > 1
    <3>1. 1 \in 1..L - 1 /\ L - 1 \in 1..L - 1 /\ (L - 1) + 1 = L /\ 1 + 1 = 2 /\ L - 1 > 0
      BY <2>3, <1>2
    <3>9. gs # <<>>
      <4>1. Len(gs) > 0
        BY <3>1, <1>22
      <4> QED  BY <4>1, <1>22
    <3>2. fs[1 + 1].pos = fs[1].pos + Room(fs[1].f)
      BY <3>1 DEF Holds, L
    <3>3. fs[2].pos = room
      BY <3>1, <3>2, <1>4, <1>7 DEF room, f
    <3>4. gs[1].pos = fs[2].pos - room
      BY SMTT(30), <3>1, <1>22
    <3>5. gs[1].pos = 0
      BY <3>3, <3>4, <1>7
    <3>6. gs[L - 1].pos = fs[L].pos - room /\ Room(gs[L - 1].f) = Room(fs[L].f)
      BY <3>1, <1>22
    <3>7. fs[L].pos \in Nat /\ Room(fs[L].f) \in Nat
      BY Zenon, <3>1, <1>20
    <3>8. gs[L - 1].pos + Room(gs[L - 1].f) = u - room
      <4> DEFINE P == fs[L].pos
                 R == Room(fs[L].f)
      <4>1. P \in Nat /\ R \in Nat /\ P + R = u /\ room \in Nat
        BY <3>7, <2>1, <1>7
      <4>2. gs[L - 1].pos = P - room /\ Room(gs[L - 1].f) = R
        BY <3>6
      <4> HIDE DEF P, R
      <4>3. (P - room) + R = u - room
        BY <4>1
      <4> QED  BY <4>2, <4>3
    <3> QED  BY <3>9, <3>5, <3>8, <1>14, <1>22
  <2> QED  BY <2>2, <2>3, <1>2
<1>27. \A j \in 1..Len(gs) : \A k \in 0..Room(gs[j].f) - 1 :
         r.buff[Forward(r.size, r.tail, gs[j].pos + k)] = [f |-> gs[j].f, k |-> k]
  <2> SUFFICES ASSUME NEW j \in 1..L - 1, NEW k \in 0..Room(gs[j].f) - 1
               PROVE  q.buff[Forward(size, Forward(size, t, room), gs[j].pos + k)]
                        = [f |-> gs[j].f, k |-> k]
    BY <1>12, <1>22, SMTT(30)
  <2> DEFINE P == fs[j + 1].pos
             R == Room(fs[j + 1].f)
  <2>1. P \in Nat /\ R \in Nat /\ room <= P /\ P + R <= u /\ j + 1 \in 1..L
    BY <1>20
  <2>2. gs[j].pos = P - room /\ gs[j].f = fs[j + 1].f /\ k \in 0..R - 1
    BY <1>22
  <2>3. q.buff[Forward(size, t, P + k)] = [f |-> fs[j + 1].f, k |-> k]
    BY Zenon, <2>1, <2>2, <1>1 DEF Holds, L, t
  <2> HIDE DEF P, R
  <2> DEFINE D == (P - room) + k
  <2>5. D \in Nat /\ room + D = P + k /\ room + D <= size
    <3>1. /\ P \in Nat /\ R \in Nat /\ room <= P /\ P + R <= u /\ k \in 0..R - 1
          /\ room \in Nat /\ u \in Nat /\ u <= size
      BY <2>1, <2>2, <1>7
    <3> QED  BY <3>1
  <2>4. gs[j].pos + k = D
    BY <2>2
  <2> HIDE DEF D
  <2> QED  BY <2>2, <2>3, <2>4, <2>5, <1>17
<1>28. /\ r.n = Len(gs) /\ r.tail \in 0..r.size /\ r.tail < r.size
  <2>1. r.n = Len(gs)
    BY <1>12, <1>15, <1>22
  <2>2. r.tail \in 0..r.size /\ r.tail < r.size
    <3>1. \A x \in 0..size - 1 : x \in 0..size /\ x < size
      OBVIOUS
    <3>2. Forward(size, t, room) \in 0..size /\ Forward(size, t, room) < size
      BY SMTT(30), <3>1, <1>13
    <3> QED  BY <3>2, <1>12
  <2> QED  BY <2>1, <2>2
<1>29. Holds(r, gs)
  BY SMTT(30), <1>14, <1>18, <1>23, <1>24, <1>25, <1>26, <1>27, <1>28 DEF Holds
<1> QED  BY <1>10, <1>16, <1>22, <1>29 DEF f, r, gs, L

\* A new socket starts with an empty queue, whatever its buffer contains.
LEMMA EmptyHolds ==
  ASSUME NEW size \in Nat, NEW buff \in [0..size - 1 -> Cell]
  PROVE  /\ EmptyQueue(size, buff) \in QueueType(size)
         /\ Holds(EmptyQueue(size, buff), <<>>)
<1> DEFINE q == EmptyQueue(size, buff)
<1>1. q.head = 0 /\ q.tail = 0 /\ q.avail = size /\ q.size = size /\ q.n = 0
  BY DEF EmptyQueue
<1>2. q \in QueueType(size)
  BY DEF EmptyQueue, QueueType
<1> HIDE DEF q
<1>3. Used(q) = 0
  BY <1>1 DEF Used
<1>4. q.head = Forward(q.size, q.tail, Used(q))
  BY <1>1, <1>3 DEF Forward
<1>5. Holds(q, <<>>)
  BY <1>1, <1>3, <1>4 DEF Holds
<1> QED  BY <1>2, <1>5 DEF q

-----------------------------------------------------------------------------
\* At boot no socket is open and every queue is empty.
LEMMA SqInitInv == SqInit => SqInv
<1> SUFFICES ASSUME SqInit PROVE SqInv
  OBVIOUS
<1>0. Blank \in Cell
  BY SocketAssumption DEF Blank, Cell
<1>1. \A s \in Sockets : queue[s] \in QueueType(QSize[s]) /\ Holds(queue[s], <<>>)
  <2> TAKE s \in Sockets
  <2>1. QSize[s] \in Nat
    BY SocketAssumption
  <2>2. [i \in 0..QSize[s] - 1 |-> Blank] \in [0..QSize[s] - 1 -> Cell]
    BY <1>0
  <2>3. /\ EmptyQueue(QSize[s], [i \in 0..QSize[s] - 1 |-> Blank]) \in QueueType(QSize[s])
        /\ Holds(EmptyQueue(QSize[s], [i \in 0..QSize[s] - 1 |-> Blank]), <<>>)
    BY <2>1, <2>2, EmptyHolds
  <2> QED  BY <2>3 DEF SqInit
<1>2. \A s \in Sockets : stored[s] = <<>>
  BY Zenon DEF SqInit
<1>3. socks \in [Slots -> Sockets \cup {None}] /\ stored \in [Sockets -> Seq(Entry)]
  BY DEF SqInit
<1>4. queue \in [Sockets -> UNION {QueueType(n) : n \in Nat}]
  BY <1>1, SocketAssumption DEF SqInit
<1>5. \A s \in Sockets : \A j \in 1..Len(stored[s]) : Bind[s] = stored[s][j].f.bind
  BY <1>2
<1>6. QueuesHoldFrames
  BY Zenon, <1>1, <1>2 DEF QueuesHoldFrames
<1> QED  BY <1>1, <1>3, <1>4, <1>5, <1>6 DEF SqInv

\* Replacing the queue and the frames of one socket by a queue that holds them
\* keeps the invariant.
LEMMA SqUpdate ==
  ASSUME SqInv, NEW s \in Sockets, NEW q \in QueueType(QSize[s]), NEW fs \in Seq(Entry),
         \A j \in 1..Len(fs) : Bind[s] = fs[j].f.bind, Holds(q, fs),
         queue' = [queue EXCEPT ![s] = q], stored' = [stored EXCEPT ![s] = fs],
         socks' \in [Slots -> Sockets \cup {None}]
  PROVE  SqInv'
<1>1. \A x \in Sockets : /\ queue'[x] = IF x = s THEN q ELSE queue[x]
                         /\ stored'[x] = IF x = s THEN fs ELSE stored[x]
  BY DEF SqInv
<1>2. q \in UNION {QueueType(n) : n \in Nat}
  BY SocketAssumption
<1>3. queue' \in [Sockets -> UNION {QueueType(n) : n \in Nat}]
  BY <1>2 DEF SqInv
<1>4. stored' \in [Sockets -> Seq(Entry)]
  BY DEF SqInv
<1>5. \A x \in Sockets : queue'[x] \in QueueType(QSize[x])
  BY <1>1 DEF SqInv
<1>6. \A x \in Sockets : \A j \in 1..Len(stored'[x]) : Bind[x] = stored'[x][j].f.bind
  BY <1>1 DEF SqInv
<1>7. QueuesHoldFrames'
  BY SMTT(30), <1>1 DEF SqInv, QueuesHoldFrames
<1> QED  BY <1>3, <1>4, <1>5, <1>6, <1>7 DEF SqInv

\* What a reader gets in a state that satisfies the invariant.
LEMMA RecvStep ==
  ASSUME BuffersFit, SqInv, NEW s \in Sockets, ptpd_netif_recvfrom(s)
  PROVE  SqInv' /\ got' = Cut(stored[s][1].f, Buffers[s])
<1> DEFINE q == queue[s]
           fs == stored[s]
           b == Buffers[s]
<1>1. /\ QSize[s] \in Nat /\ q \in QueueType(QSize[s]) /\ fs \in Seq(Entry)
      /\ b \in Nat /\ Holds(q, fs) /\ q.n > 0
  BY Zenon, SocketAssumption DEF SqInv, QueuesHoldFrames, ptpd_netif_recvfrom
<1>2. Len(fs) \in Nat /\ Len(fs) > 0 /\ 1 \in 1..Len(fs)
  <2>1. q.n = Len(fs)
    BY <1>1, Zenon DEF Holds
  <2>2. Len(fs) \in Nat
    BY <1>1
  <2> HIDE DEF q, fs
  <2> QED  BY <2>1, <2>2, <1>1
<1>3. fs[1].f \in Frames /\ Bind[s] = fs[1].f.bind
  <2>1. fs[1] \in Entry
    BY <1>1, <1>2
  <2>2. fs[1].f \in Frames
    BY <2>1 DEF Entry
  <2>3. Bind[s] = fs[1].f.bind
    BY <1>2 DEF SqInv
  <2> QED  BY <2>2, <2>3
<1>4. fs[1].f.len <= b
  <2> DEFINE P == fs[1].pos
             R == Room(fs[1].f)
  <2>1. /\ P \in Nat /\ R \in Nat /\ P + R <= Used(q)
        /\ Used(q) \in Nat /\ q.avail \in Nat /\ Used(q) = QSize[s] - q.avail
    BY Zenon, <1>1, <1>2, HoldsFacts
  <2> HIDE DEF P, R
  <2>2. R <= QSize[s]
    BY <2>1, <1>1
  <2> QED  BY <2>2, <1>3 DEF BuffersFit, R
<1> HIDE DEF q, fs, b
<1>5. /\ Fetch(q, b) \in QueueType(QSize[s]) /\ Shifted(fs) \in Seq(Entry)
      /\ Len(Shifted(fs)) = Len(fs) - 1
      /\ \A j \in 1..Len(fs) - 1 : Shifted(fs)[j].f = fs[j + 1].f
      /\ Holds(Fetch(q, b), Shifted(fs))
      /\ Copied(q, b) = Cut(fs[1].f, b)
  BY <1>1, <1>4, FetchHolds, SMTT(30)
<1>6. \A j \in 1..Len(fs) : Bind[s] = fs[j].f.bind
  BY DEF SqInv, fs
<1>7. \A j \in 1..Len(Shifted(fs)) : Bind[s] = Shifted(fs)[j].f.bind
  <2> SUFFICES ASSUME NEW j \in 1..Len(fs) - 1 PROVE Bind[s] = Shifted(fs)[j].f.bind
    BY <1>5
  <2>1. j + 1 \in 1..Len(fs)
    BY <1>2
  <2>2. Bind[s] = fs[j + 1].f.bind
    BY <2>1, <1>6
  <2>3. Shifted(fs)[j].f = fs[j + 1].f
    BY <1>5
  <2> QED  BY <2>2, <2>3
<1>8. /\ queue' = [queue EXCEPT ![s] = Fetch(q, b)]
      /\ stored' = [stored EXCEPT ![s] = Shifted(fs)]
      /\ got' = Copied(q, b)
      /\ socks' \in [Slots -> Sockets \cup {None}]
  BY DEF ptpd_netif_recvfrom, q, fs, b, SqInv
<1>9. SqInv'
  BY Zenon, <1>5, <1>7, <1>8, SqUpdate
<1> QED  BY <1>5, <1>8, <1>9 DEF fs, b

\* Every call of the socket layer keeps the invariant.
LEMMA SqNextInv == ASSUME BuffersFit, SqInv, [SqNext]_SqVars PROVE SqInv'
<1>1. CASE UNCHANGED SqVars
  BY <1>1 DEF SqVars, SqInv, QueuesHoldFrames
<1>2. ASSUME NEW s \in Sockets, ptpd_netif_create_socket(s) PROVE SqInv'
  <2>1. QSize[s] \in Nat /\ queue[s].buff \in [0..QSize[s] - 1 -> Cell]
    BY SocketAssumption DEF SqInv, QueueType
  <2>2. /\ EmptyQueue(QSize[s], queue[s].buff) \in QueueType(QSize[s])
        /\ Holds(EmptyQueue(QSize[s], queue[s].buff), <<>>)
    BY <2>1, EmptyHolds
  <2>3. <<>> \in Seq(Entry) /\ \A j \in 1..Len(<<>>) : Bind[s] = <<>>[j].f.bind
    OBVIOUS
  <2>4. socks' \in [Slots -> Sockets \cup {None}]
    BY <1>2 DEF ptpd_netif_create_socket, SqInv
  <2>5. /\ queue' = [queue EXCEPT ![s] = EmptyQueue(QSize[s], queue[s].buff)]
        /\ stored' = [stored EXCEPT ![s] = <<>>]
    BY <1>2 DEF ptpd_netif_create_socket
  <2> QED  BY Zenon, <2>2, <2>3, <2>4, <2>5, SqUpdate
<1>3. ASSUME NEW s \in Sockets, ptpd_netif_close_socket(s) PROVE SqInv'
  BY <1>3 DEF ptpd_netif_close_socket, SqInv, QueuesHoldFrames
<1>4. ASSUME NEW s \in Sockets, NEW f \in Frames, netif_poll(s, f) PROVE SqInv'
  <2> DEFINE q == queue[s]
             fs == stored[s]
             gs == Append(fs, [f |-> f, pos |-> Used(q)])
  <2>1. /\ QSize[s] \in Nat /\ q \in QueueType(QSize[s]) /\ fs \in Seq(Entry)
        /\ Holds(q, fs) /\ Fits(q, f) /\ Bind[s] = f.bind
    BY Zenon, <1>4, SocketAssumption
       DEF SqInv, QueuesHoldFrames, netif_poll, Receiver, Matches
  <2>2. /\ \A j \in 1..Len(fs) : Bind[s] = fs[j].f.bind
        /\ socks' \in [Slots -> Sockets \cup {None}]
        /\ queue' = [queue EXCEPT ![s] = Store(q, f)]
        /\ stored' = [stored EXCEPT ![s] = gs]
    BY <1>4 DEF SqInv, netif_poll
  <2> HIDE DEF q, fs
  <2>3. Store(q, f) \in QueueType(QSize[s]) /\ gs \in Seq(Entry) /\ Holds(Store(q, f), gs)
    BY <2>1, StoreHolds
  <2>4. \A j \in 1..Len(gs) : Bind[s] = gs[j].f.bind
    <3> SUFFICES ASSUME NEW j \in 1..Len(gs) PROVE Bind[s] = gs[j].f.bind
      OBVIOUS
    <3>1. CASE j = Len(fs) + 1
      BY <3>1, <2>1
    <3>2. CASE j \in 1..Len(fs)
      <4>1. gs[j] = fs[j]
        BY <3>2, <2>1
      <4> QED  BY <4>1, <3>2, <2>2
    <3> QED  BY <3>1, <3>2, <2>1
  <2> HIDE DEF gs
  <2> QED  BY Zenon, <2>2, <2>3, <2>4, SqUpdate
<1>5. ASSUME NEW s \in Sockets, ptpd_netif_recvfrom(s) PROVE SqInv'
  BY <1>5, RecvStep
<1> QED  BY <1>1, <1>2, <1>3, <1>4, <1>5 DEF SqNext

\* For any sizes, sockets and frames, and any order of netif_poll, recvfrom,
\* open and close, every queue holds exactly the frames stored in it and not yet
\* read, provided each reader's buffer takes the frames its socket is bound to.
THEOREM SocketQueuesHoldFrames ==
  ASSUME BuffersFit PROVE SqSpec => []QueuesHoldFrames
<1>1. SqInv => QueuesHoldFrames
  BY DEF SqInv
<1> QED  BY <1>1, SqInitInv, SqNextInv, PTL DEF SqSpec

\* Under the same condition ptpd_netif_recvfrom always returns the payload of the
\* oldest frame of its socket, byte for byte.
THEOREM SocketReadsOldest ==
  ASSUME BuffersFit PROVE SqSpec => OldestFirst
<1>1. ASSUME SqInv, [SqNext]_SqVars
      PROVE  [\A s \in Sockets : ptpd_netif_recvfrom(s) =>
                got' = Cut(stored[s][1].f, Buffers[s])]_SqVars
  BY <1>1, RecvStep
<1> QED  BY <1>1, SqInitInv, SqNextInv, PTL DEF SqSpec, OldestFirst

-----------------------------------------------------------------------------
(***************************************************************************)
(* The event queue (EventQueue): the rings of lib/event.c stay consistent  *)
(* and implement the first-in first-out queues of EventFifo, for any       *)
(* number of handlers and any size of the rings.                           *)
(***************************************************************************)
\* Places after the tail are indices of the ring, and different ones are
\* different places; the place after one is what Advance gives.
LEMMA Places ==
  ASSUME NEW t \in Index
  PROVE  /\ \A k \in 0..MAX_EVENTS_PER_QUEUE : Place(t, k) \in Index
         /\ \A j, k \in 0..MAX_EVENTS_PER_QUEUE - 1 : Place(t, j) = Place(t, k) => j = k
         /\ \A k \in 0..MAX_EVENTS_PER_QUEUE - 1 : Advance(Place(t, k)) = Place(t, k + 1)
         /\ \A k \in 0..MAX_EVENTS_PER_QUEUE - 1 : Place(Advance(t), k) = Place(t, k + 1)
         /\ Place(t, 0) = t
         /\ Advance(t) \in Index
  BY EventAssumption DEF Place, Advance, Index

\* The contents of a ring are a sequence of as many events as it counts.
LEMMA ContentsSeq ==
  ASSUME NEW q \in Ring, RingOK(q)
  PROVE  /\ Contents(q) \in Seq(Event)
         /\ Len(Contents(q)) = q.count
         /\ \A i \in 1..q.count : Contents(q)[i] = q.data[Place(q.tail, i - 1)]
<1> DEFINE n == q.count
<1>1. n \in Nat
  BY EventAssumption DEF Ring
<1>2. \A i \in 1..n : q.data[Place(q.tail, i - 1)] \in Event
  <2> SUFFICES ASSUME NEW i \in 1..n PROVE q.data[Place(q.tail, i - 1)] \in Event
    OBVIOUS
  <2>1. i - 1 \in 0..n - 1
    BY <1>1
  <2> QED BY <2>1 DEF RingOK
<1>3. Contents(q) = [i \in 1..n |-> q.data[Place(q.tail, i - 1)]]
  BY DEF Contents
<1> HIDE DEF n
<1>4. Contents(q) \in [1..n -> Event]
  BY <1>2, <1>3
<1>5. Contents(q) \in Seq(Event)
  BY <1>1, <1>4
<1>6. Len(Contents(q)) = n
  BY <1>1, <1>4, <1>5
<1> QED BY Zenon, <1>3, <1>5, <1>6 DEF n

\* queue_put keeps the ring consistent and appends the event unless it is full.
LEMMA PutAppends ==
  ASSUME NEW q \in Ring, RingOK(q), NEW e \in Event
  PROVE  /\ queue_put(q, e) \in Ring
         /\ RingOK(queue_put(q, e))
         /\ Contents(queue_put(q, e)) =
              IF q.count < MAX_EVENTS_PER_QUEUE THEN Append(Contents(q), e)
              ELSE Contents(q)
<1> DEFINE N == MAX_EVENTS_PER_QUEUE
           p == queue_put(q, e)
<1>0. N \in Nat \ {0} /\ q.count \in 0..N /\ q.head \in Index /\ q.tail \in Index
      /\ q.data \in [Index -> Event \cup {0}]
  BY EventAssumption DEF Ring
<1>1. CASE q.count >= N
  BY <1>0, <1>1 DEF queue_put
<1>2. CASE q.count < N
  <2>1. p = [data |-> [q.data EXCEPT ![q.head] = e], head |-> Advance(q.head),
             tail |-> q.tail, count |-> q.count + 1]
    BY <1>0, <1>2 DEF queue_put
  <2>2. p.tail = q.tail /\ p.count = q.count + 1 /\ p.head = Advance(q.head)
        /\ p.data = [q.data EXCEPT ![q.head] = e]
    BY <2>1
  <2> HIDE DEF p
  <2>3. p.count \in 1..N /\ q.count \in 0..N - 1
    BY <1>0, <1>2, <2>2
  <2>4. q.head = Place(q.tail, q.count)
    BY DEF RingOK
  <2>5. p.head = Place(p.tail, p.count) /\ p.head \in Index
    <3>1. Advance(Place(q.tail, q.count)) = Place(q.tail, q.count + 1)
      BY <1>0, <2>3, Places
    <3>2. Advance(q.head) \in Index
      BY <1>0, Places
    <3> QED BY <2>2, <2>4, <3>1, <3>2
  <2>6. p.data \in [Index -> Event \cup {0}]
    BY <1>0, <2>2
  <2>7. p \in Ring
    <3>1. p.count \in 0..N
      BY <1>0, <2>3
    <3>2. p = [data |-> p.data, head |-> p.head, tail |-> p.tail, count |-> p.count]
      BY <2>1, <2>2
    <3>3. p.tail \in Index
      BY <1>0, <2>2
    <3> QED BY <2>5, <2>6, <3>1, <3>2, <3>3 DEF Ring
  <2>8. \A i \in 0..q.count - 1 : p.data[Place(q.tail, i)] = q.data[Place(q.tail, i)]
    <3> SUFFICES ASSUME NEW i \in 0..q.count - 1
                 PROVE  p.data[Place(q.tail, i)] = q.data[Place(q.tail, i)]
      OBVIOUS
    <3>1. i \in 0..N - 1 /\ i # q.count
      BY <1>0, <2>3
    <3>2. Place(q.tail, i) = Place(q.tail, q.count) => i = q.count
      BY Zenon, <1>0, <2>3, <3>1, Places
    <3>3. Place(q.tail, i) \in Index
      <4>1. i \in 0..N
        BY <1>0, <3>1
      <4> QED BY Zenon, <1>0, <4>1, Places
    <3>4. Place(q.tail, i) # q.head
      BY <2>4, <3>1, <3>2
    <3> QED BY <1>0, <2>2, <3>3, <3>4
  <2>9. p.data[Place(q.tail, q.count)] = e
    BY <1>0, <2>2, <2>4
  <2>10. \A i \in 0..p.count - 1 : p.data[Place(p.tail, i)] \in Event
    <3> SUFFICES ASSUME NEW i \in 0..p.count - 1
                 PROVE  p.data[Place(p.tail, i)] \in Event
      OBVIOUS
    <3>1. i \in 0..q.count - 1 \/ i = q.count
      BY <2>2, <2>3
    <3>2. \A j \in 0..q.count - 1 : q.data[Place(q.tail, j)] \in Event
      BY DEF RingOK
    <3> QED BY <2>2, <2>8, <2>9, <3>1, <3>2
  <2>11. RingOK(p)
    BY <1>0, <2>2, <2>3, <2>5, <2>6, <2>10 DEF RingOK
  <2>12. Contents(p) = Append(Contents(q), e)
    <3> DEFINE c == Contents(q)
               d == Contents(p)
               a == Append(c, e)
    <3>1. c \in Seq(Event) /\ Len(c) = q.count
          /\ \A i \in 1..q.count : c[i] = q.data[Place(q.tail, i - 1)]
      BY ContentsSeq
    <3>2. d \in Seq(Event) /\ Len(d) = q.count + 1
          /\ \A i \in 1..q.count + 1 : d[i] = p.data[Place(q.tail, i - 1)]
      <4>1. /\ d \in Seq(Event)
            /\ Len(d) = p.count
            /\ \A i \in 1..p.count : d[i] = p.data[Place(p.tail, i - 1)]
        <5> HIDE DEF d
        <5> QED BY <2>7, <2>11, ContentsSeq, Zenon DEF d
      <4>2. p.count = q.count + 1 /\ p.tail = q.tail
        BY <2>2
      <4> HIDE DEF d
      <4> QED BY <4>1, <4>2, Zenon
    <3> HIDE DEF c, d
    <3>3. a \in Seq(Event) /\ Len(a) = q.count + 1
      BY <3>1
    <3>4. ASSUME NEW i \in 1..q.count + 1 PROVE d[i] = a[i]
      <4>1. CASE i \in 1..q.count
        <5>1. i - 1 \in 0..q.count - 1
          BY <1>0, <4>1
        <5>2. d[i] = q.data[Place(q.tail, i - 1)]
          BY <2>8, <3>2, <5>1
        <5>3. a[i] = c[i]
          BY <3>1, <4>1
        <5> QED BY <3>1, <4>1, <5>2, <5>3
      <4>2. CASE i = q.count + 1
        <5>1. i - 1 = q.count
          BY <1>0, <4>2
        <5>2. d[i] = e
          BY <2>9, <3>2, <5>1
        <5>3. a[i] = e
          BY <3>1, <4>2
        <5> QED BY <5>2, <5>3
      <4>3. i \in 1..q.count \/ i = q.count + 1
        BY <1>0
      <4> QED BY Zenon, <4>1, <4>2, <4>3
    <3>5. d = a
      <4> HIDE DEF a
      <4> DEFINE m == q.count + 1
      <4>1. m \in Nat
        BY <1>0
      <4>2. d = [i \in 1..m |-> d[i]] /\ a = [i \in 1..m |-> a[i]]
        <5> HIDE DEF m
        <5>1. d \in Seq(Event) /\ Len(d) = m /\ a \in Seq(Event) /\ Len(a) = m
          BY <3>2, <3>3 DEF m
        <5> QED BY <4>1, <5>1
      <4> QED BY <3>4, <4>2
    <3> QED BY <3>5 DEF c, d
  <2> QED BY <1>2, <2>7, <2>11, <2>12 DEF p
<1> QED BY <1>0, <1>1, <1>2

\* queue_get keeps the ring consistent; it takes the oldest event.
LEMMA GetTakesHead ==
  ASSUME NEW q \in Ring, RingOK(q), q.count # 0
  PROVE  /\ queue_get(q) \in Ring
         /\ RingOK(queue_get(q))
         /\ Contents(q) # << >>
         /\ queue_front(q) = Head(Contents(q))
         /\ queue_front(q) \in Event
         /\ Contents(queue_get(q)) = Tail(Contents(q))
<1> DEFINE N == MAX_EVENTS_PER_QUEUE
           p == queue_get(q)
<1>0. N \in Nat \ {0} /\ q.count \in 1..N /\ q.head \in Index /\ q.tail \in Index
      /\ q.data \in [Index -> Event \cup {0}]
  BY EventAssumption DEF Ring
<1>1. p = [data |-> q.data, head |-> q.head, tail |-> Advance(q.tail),
           count |-> q.count - 1]
  BY DEF queue_get
<1>2. p.tail = Advance(q.tail) /\ p.count = q.count - 1 /\ p.head = q.head
      /\ p.data = q.data
  BY <1>1
<1> HIDE DEF p
<1>3. p.count \in 0..N /\ p.count \in 0..N - 1 /\ q.count = p.count + 1
  BY <1>0, <1>2
<1>4. p.tail \in Index
  BY <1>0, <1>2, Places
<1>5. p \in Ring
  <2>1. p = [data |-> p.data, head |-> p.head, tail |-> p.tail, count |-> p.count]
    BY <1>1, <1>2
  <2> QED BY <1>0, <1>2, <1>3, <1>4, <2>1 DEF Ring
<1>6. \A k \in 0..N - 1 : Place(p.tail, k) = Place(q.tail, k + 1)
  BY SMTT(30), <1>0, <1>2, Places
<1>7. p.head = Place(p.tail, p.count)
  <2>1. q.head = Place(q.tail, q.count)
    BY DEF RingOK
  <2> QED BY <1>2, <1>3, <1>6, <2>1
<1>8. \A i \in 0..p.count - 1 : p.data[Place(p.tail, i)] \in Event
  <2> SUFFICES ASSUME NEW i \in 0..p.count - 1 PROVE p.data[Place(p.tail, i)] \in Event
    OBVIOUS
  <2>1. i \in 0..N - 1 /\ i + 1 \in 0..q.count - 1
    BY <1>0, <1>2, <1>3
  <2>2. q.data[Place(q.tail, i + 1)] \in Event
    BY <2>1 DEF RingOK
  <2> QED BY <1>2, <1>6, <2>1, <2>2
<1>9. RingOK(p)
  BY <1>0, <1>2, <1>3, <1>4, <1>7, <1>8 DEF RingOK
<1> DEFINE c == Contents(q)
           d == Contents(p)
<1>10. c \in Seq(Event) /\ Len(c) = q.count
       /\ \A i \in 1..q.count : c[i] = q.data[Place(q.tail, i - 1)]
  BY ContentsSeq
<1>11. d \in Seq(Event) /\ Len(d) = p.count
       /\ \A i \in 1..p.count : d[i] = q.data[Place(p.tail, i - 1)]
  BY ContentsSeq, <1>2, <1>5, <1>9
<1> HIDE DEF c, d
<1>12. c # << >> /\ Head(c) = c[1]
  BY <1>0, <1>10
<1>13. queue_front(q) = c[1] /\ c[1] \in Event
  <2>1. Place(q.tail, 1 - 1) = q.tail
    BY <1>0, Places
  <2>2. 1 \in 1..q.count
    BY <1>0
  <2>3. c[1] = q.data[q.tail]
    BY <1>10, <2>1, <2>2
  <2> QED BY <1>10, <2>2, <2>3 DEF queue_front
<1>14. d = Tail(c)
  <2> DEFINE t == Tail(c)
             m == p.count
  <2>1. t \in Seq(Event) /\ Len(t) = m
    BY <1>3, <1>10, <1>12
  <2>2. m \in Nat
    BY <1>0, <1>3
  <2>3. ASSUME NEW i \in 1..m PROVE d[i] = t[i]
    <3>1. i - 1 \in 0..N - 1 /\ i + 1 \in 1..q.count /\ (i - 1) + 1 = (i + 1) - 1
      BY <1>0, <1>3
    <3>2. d[i] = q.data[Place(q.tail, (i - 1) + 1)]
      BY SMTT(30), <1>6, <1>11, <3>1
    <3>3. c[i + 1] = q.data[Place(q.tail, (i + 1) - 1)]
      BY <1>10, <3>1
    <3>4. t[i] = c[i + 1]
      BY <1>3, <1>10, <1>12, <2>2
    <3> QED BY Zenon, <3>1, <3>2, <3>3, <3>4
  <2>4. d = [i \in 1..m |-> d[i]] /\ t = [i \in 1..m |-> t[i]]
    <3> HIDE DEF m, t
    <3>1. d \in Seq(Event) /\ Len(d) = m
      BY <1>11 DEF m
    <3> QED BY <2>1, <2>2, <3>1
  <2> HIDE DEF t, m
  <2>5. d = t
    BY <2>3, <2>4
  <2> QED BY <2>5 DEF t
<1> QED BY <1>5, <1>9, <1>12, <1>13, <1>14 DEF c, d, p

\* A ring that has just been initialised is consistent and empty.
LEMMA InitEmpty ==
  ASSUME NEW data \in [Index -> Event \cup {0}]
  PROVE  /\ queue_init(data) \in Ring
         /\ RingOK(queue_init(data))
         /\ Contents(queue_init(data)) = << >>
<1> DEFINE q == queue_init(data)
<1>1. q = [data |-> data, head |-> 0, tail |-> 0, count |-> 0]
  BY DEF queue_init
<1>2. q.data = data /\ q.head = 0 /\ q.tail = 0 /\ q.count = 0
  BY <1>1
<1>3. 0 \in Index /\ 0 \in 0..MAX_EVENTS_PER_QUEUE /\ Place(0, 0) = 0
  BY EventAssumption DEF Index, Place
<1>4. q \in Ring
  BY <1>1, <1>3 DEF Ring
<1> HIDE DEF q
<1>5. RingOK(q)
  BY <1>2, <1>3 DEF RingOK
<1>6. Contents(q) = << >>
  <2>1. Contents(q) \in Seq(Event) /\ Len(Contents(q)) = 0
    BY <1>2, <1>4, <1>5, ContentsSeq
  <2> QED BY <2>1
<1> QED BY <1>4, <1>5, <1>6 DEF q

\* The initial state is consistent.
LEMMA InitInv == EqInit => EqInv
<1> SUFFICES ASSUME EqInit PROVE EqInv
  OBVIOUS
<1>1. [i \in Index |-> 0] \in [Index -> Event \cup {0}]
  OBVIOUS
<1>2. \A h \in Ids : ring[h] \in Ring /\ RingOK(ring[h])
  BY <1>1, InitEmpty DEF EqInit
<1>3. ring \in [Ids -> Ring]
  BY <1>2 DEF EqInit
<1>4. registered \in 0..MAX_EVENT_HANDLERS
  BY EventAssumption DEF EqInit
<1>5. enabled \in [Ids -> BOOLEAN] /\ callback \in [Ids -> BOOLEAN]
  BY Zenon DEF EqInit
<1>6. event_mask \in [Ids -> SUBSET Event] /\ seen \in [Ids -> Event \cup {0}]
  BY DEF EqInit
<1> QED BY <1>2, <1>3, <1>4, <1>5, <1>6 DEF EqInv

\* What each handler's ring becomes when an event is posted.
LEMMA PostKeeps ==
  ASSUME EqInv, NEW e \in Event, event_post(e), NEW h \in Ids
  PROVE  ring'[h] \in Ring /\ RingOK(ring'[h])
<1>1. ring[h] \in Ring /\ RingOK(ring[h])
  BY DEF EqInv
<1>2. ring'[h] = ring[h] \/ ring'[h] = queue_put(ring[h], e)
  BY DEF event_post
<1> QED BY <1>1, <1>2, PutAppends

\* What a delivery leaves of each ring, and what it delivers.
LEMMA DeliverKeeps ==
  ASSUME EqInv, NEW H, Deliver(H), NEW h \in Ids
  PROVE  ring'[h] \in Ring /\ RingOK(ring'[h]) /\ seen'[h] \in Event \cup {0}
<1>1. ring[h] \in Ring /\ RingOK(ring[h]) /\ seen[h] \in Event \cup {0}
  BY DEF EqInv
<1>2. CASE h \in H /\ Due(h)
  <2>1. ring'[h] = queue_get(ring[h]) /\ seen'[h] = queue_front(ring[h])
    BY <1>2 DEF Deliver
  <2>2. ring[h].count # 0
    BY <1>2 DEF Due
  <2> QED BY <1>1, <2>1, <2>2, GetTakesHead
<1>3. CASE ~ (h \in H /\ Due(h))
  <2>1. ring'[h] = ring[h] /\ seen'[h] = seen[h]
    BY <1>3 DEF Deliver
  <2> QED BY <1>1, <2>1
<1> QED BY <1>2, <1>3

\* Every step keeps the table and its rings consistent.
LEMMA StepInv == EqInv /\ [EqNext]_EqVars => EqInv'
<1> SUFFICES ASSUME EqInv, [EqNext]_EqVars PROVE EqInv'
  OBVIOUS
<1>1. ASSUME NEW r \in Requests, event_handler_register(r.mask, r.enable, r.func)
      PROVE  EqInv'
  <2>1. r.mask \in SUBSET Event /\ r.enable \in BOOLEAN /\ r.func \in BOOLEAN
    BY EventAssumption
  <2>2. registered \in Ids /\ registered' \in 0..MAX_EVENT_HANDLERS
    BY <1>1, EventAssumption DEF event_handler_register, EqInv, Ids
  <2>3. enabled' \in [Ids -> BOOLEAN] /\ callback' \in [Ids -> BOOLEAN]
    BY <1>1, <2>1, Zenon DEF event_handler_register, EqInv
  <2>4. event_mask' \in [Ids -> SUBSET Event] /\ seen' \in [Ids -> Event \cup {0}]
    BY Zenon, <1>1, <2>1 DEF event_handler_register, EqInv
  <2>5. ring[registered].data \in [Index -> Event \cup {0}]
    BY <2>2 DEF EqInv, Ring
  <2> DEFINE q == queue_init(ring[registered].data)
  <2>6. q \in Ring /\ RingOK(q)
    BY <2>5, InitEmpty
  <2>7. ring' = [ring EXCEPT ![registered] = q]
    BY <1>1 DEF event_handler_register
  <2> HIDE DEF q
  <2>8. ring' \in [Ids -> Ring] /\ \A h \in Ids : ring'[h] = ring[h] \/ ring'[h] = q
    BY Zenon, <2>6, <2>7 DEF EqInv
  <2>9. \A h \in Ids : RingOK(ring'[h])
    BY <2>6, <2>8 DEF EqInv
  <2> QED BY <2>2, <2>3, <2>4, <2>8, <2>9 DEF EqInv
<1>2. ASSUME NEW h \in Ids, NEW b \in BOOLEAN, event_handler_enable(h, b)
      PROVE  EqInv'
  <2>1. enabled' \in [Ids -> BOOLEAN]
    BY <1>2, Zenon DEF event_handler_enable, EqInv
  <2> QED BY <1>2, <2>1 DEF event_handler_enable, EqInv
<1>3. ASSUME NEW e \in Event, event_post(e)
      PROVE  EqInv'
  <2>1. \A h \in Ids : ring'[h] \in Ring /\ RingOK(ring'[h])
    BY <1>3, PostKeeps
  <2>2. ring' \in [Ids -> Ring]
    BY <1>3, <2>1 DEF event_post
  <2> QED BY <1>3, <2>1, <2>2 DEF event_post, EqInv
<1>4. ASSUME NEW H, Deliver(H)
      PROVE  EqInv'
  <2>1. \A h \in Ids : ring'[h] \in Ring /\ RingOK(ring'[h]) /\ seen'[h] \in Event \cup {0}
    BY SMTT(30), <1>4, DeliverKeeps
  <2>2. ring' \in [Ids -> Ring] /\ seen' \in [Ids -> Event \cup {0}]
    BY <1>4, <2>1 DEF Deliver
  <2> QED BY <1>4, <2>1, <2>2 DEF Deliver, EqInv
<1>5. ASSUME NEW h \in Ids, event_poll(h)
      PROVE  EqInv'
  BY <1>4, <1>5 DEF event_poll
<1>6. ASSUME events_dispatch
      PROVE  EqInv'
  BY <1>4, <1>6 DEF events_dispatch
<1>7. CASE UNCHANGED EqVars
  BY <1>7 DEF EqVars, EqInv
<1> QED BY <1>1, <1>2, <1>3, <1>5, <1>6, <1>7 DEF EqNext

\* The rings of lib/event.c stay consistent: head, tail and count agree wherever
\* the ring wraps, and every counted entry is an event somebody posted.
THEOREM RingsConsistent == EqSpec => []EqInv
  BY InitInv, StepInv, PTL DEF EqSpec

-----------------------------------------------------------------------------
(***************************************************************************)
(* The refinement                                                          *)
(***************************************************************************)
Queues == [h \in Ids |-> Contents(ring[h])]

\* Initially nothing is registered and every queue is empty.
LEMMA InitRefines == EqInit => Fifo!FifoInit
<1> SUFFICES ASSUME EqInit PROVE Fifo!FifoInit
  OBVIOUS
<1>1. On = {}
  BY EventAssumption DEF On, Known, EqInit, Ids
<1>2. [i \in Index |-> 0] \in [Index -> Event \cup {0}]
  OBVIOUS
<1>3. \A h \in Ids : Contents(ring[h]) = << >>
  BY <1>2, InitEmpty DEF EqInit
<1>4. Queues = [h \in Ids |-> << >>]
  BY <1>3 DEF Queues
<1>5. event_mask = [h \in Ids |-> {}] /\ seen = [h \in Ids |-> 0]
  BY DEF EqInit
<1> QED BY <1>1, <1>4, <1>5 DEF Fifo!FifoInit, Queues

\* A handler has something to be given exactly when its count is not zero.
LEMMA DueIsPending ==
  ASSUME EqInv, NEW h \in Ids
  PROVE  Due(h) <=> (h \in On /\ Queues[h] # << >>)
<1>1. ring[h] \in Ring /\ RingOK(ring[h])
  BY DEF EqInv
<1>2. Contents(ring[h]) \in Seq(Event) /\ Len(Contents(ring[h])) = ring[h].count
  BY <1>1, ContentsSeq
<1>3. Contents(ring[h]) # << >> <=> ring[h].count # 0
  BY <1>2
<1>4. Queues[h] = Contents(ring[h])
  BY DEF Queues
<1>5. h \in On <=> Known(h) /\ enabled[h]
  BY SMTT(30) DEF On
<1> QED BY <1>3, <1>4, <1>5 DEF Due

\* Delivering to the handlers of H is Give(H).
LEMMA DeliverRefines ==
  ASSUME EqInv, NEW H \in SUBSET Ids, Deliver(H)
  PROVE  Fifo!Give(H)
<1> DEFINE due == {h \in H \cap On : Queues[h] # << >>}
<1>1. \A h \in Ids : h \in due <=> h \in H /\ Due(h)
  BY SMTT(30), DueIsPending
<1>2. ASSUME NEW h \in Ids, h \in due
      PROVE  /\ seen'[h] = Head(Queues[h])
             /\ Contents(ring'[h]) = Tail(Queues[h])
  <2>1. Due(h) /\ h \in H
    BY SMTT(30), <1>1, <1>2
  <2>2. seen'[h] = queue_front(ring[h]) /\ ring'[h] = queue_get(ring[h])
    BY <2>1 DEF Deliver
  <2>3. ring[h] \in Ring /\ RingOK(ring[h]) /\ ring[h].count # 0
    BY <2>1 DEF Due, EqInv
  <2>4. Queues[h] = Contents(ring[h])
    BY DEF Queues
  <2> QED BY <2>2, <2>3, <2>4, GetTakesHead
<1>3. ASSUME NEW h \in Ids, h \notin due
      PROVE  seen'[h] = seen[h] /\ Contents(ring'[h]) = Queues[h]
  <2>1. ~ (h \in H /\ Due(h))
    BY <1>1, <1>3
  <2> QED BY <2>1 DEF Deliver, Queues
<1> HIDE DEF due
<1>4. seen' = [h \in Ids |-> IF h \in due THEN Head(Queues[h]) ELSE seen[h]]
  <2>1. seen' = [h \in Ids |-> seen'[h]]
    BY DEF Deliver
  <2> QED BY <1>2, <1>3, <2>1
<1>5. Queues' = [h \in Ids |-> IF h \in due THEN Tail(Queues[h]) ELSE Queues[h]]
  BY Zenon, <1>2, <1>3 DEF Queues
<1>6. On' = On /\ event_mask' = event_mask
  BY DEF Deliver, On, Known
<1> QED BY <1>4, <1>5, <1>6 DEF Fifo!Give, Queues, due

\* Every step of the event system is a step of the queues, or none.
LEMMA StepRefines ==
  EqInv /\ [EqNext]_EqVars => [Fifo!FifoNext]_<<On, event_mask, Queues, seen>>
<1> SUFFICES ASSUME EqInv, [EqNext]_EqVars
             PROVE  [Fifo!FifoNext]_<<On, event_mask, Queues, seen>>
  OBVIOUS
<1>1. ASSUME NEW r \in Requests, event_handler_register(r.mask, r.enable, r.func)
      PROVE  Fifo!FifoNext
  <2>1. r.mask \in SUBSET Event /\ r.enable \in BOOLEAN
    BY EventAssumption
  <2>2. registered \in Ids /\ registered \in Nat /\ registered' = registered + 1
    BY <1>1, EventAssumption DEF event_handler_register, EqInv, Ids
  <2>3. On' = IF r.enable THEN On \cup {registered} ELSE On \ {registered}
    <3>1. \A h \in Ids : Known(h)' <=> Known(h) \/ h = registered
      BY <2>2 DEF Known, Ids
    <3>2. \A h \in Ids : enabled'[h] = IF h = registered THEN r.enable ELSE enabled[h]
      BY <1>1, Zenon DEF event_handler_register, EqInv
    <3>3. \A h \in Ids : h \in On' <=> IF h = registered THEN r.enable ELSE h \in On
      BY <3>1, <3>2, Zenon DEF On
    <3> QED BY Zenon, <2>2, <3>3 DEF On
  <2>4. ring[registered].data \in [Index -> Event \cup {0}]
    BY <2>2 DEF EqInv, Ring
  <2>5. Queues' = [Queues EXCEPT ![registered] = << >>]
    <3>1. \A h \in Ids : Contents(ring'[h]) =
                           IF h = registered THEN << >> ELSE Contents(ring[h])
      BY <1>1, <2>4, InitEmpty DEF event_handler_register, EqInv
    <3> QED BY Zenon, <2>2, <3>1 DEF Queues
  <2>6. event_mask' = [event_mask EXCEPT ![registered] = r.mask] /\ seen' = seen
    BY SMTT(30), <1>1 DEF event_handler_register
  <2>7. Fifo!Register(registered, r.mask, r.enable)
    BY <2>3, <2>5, <2>6 DEF Fifo!Register, Queues
  <2> QED BY <2>1, <2>2, <2>7 DEF Fifo!FifoNext
<1>2. ASSUME NEW h \in Ids, NEW b \in BOOLEAN, event_handler_enable(h, b)
      PROVE  Fifo!FifoNext
  <2>1. registered' = registered /\ Known(h)
    BY <1>2 DEF event_handler_enable
  <2>2. \A g \in Ids : enabled'[g] = IF g = h THEN b ELSE enabled[g]
    BY <1>2, Zenon DEF event_handler_enable, EqInv
  <2>3. \A g \in Ids : Known(g)' <=> Known(g)
    BY <2>1 DEF Known
  <2>4. \A g \in Ids : g \in On' <=> IF g = h THEN b ELSE g \in On
    BY <2>1, <2>2, <2>3, ZenonT(60) DEF On
  <2>5. On' = IF b THEN On \cup {h} ELSE On \ {h}
    BY <2>4 DEF On
  <2>6. Queues' = Queues /\ event_mask' = event_mask /\ seen' = seen
    BY <1>2 DEF event_handler_enable, Queues
  <2>7. Fifo!Switch(h, b)
    BY <2>5, <2>6 DEF Fifo!Switch, Queues
  <2> QED BY <2>7 DEF Fifo!FifoNext
<1>3. ASSUME NEW e \in Event, event_post(e)
      PROVE  Fifo!FifoNext
  <2>1. On' = On /\ event_mask' = event_mask /\ seen' = seen
    BY SMTT(30), <1>3 DEF event_post, On, Known
  <2>2. ASSUME NEW h \in Ids
        PROVE  Contents(ring'[h]) =
                 IF h \in On /\ e \in event_mask[h] /\ Len(Queues[h]) < MAX_EVENTS_PER_QUEUE
                 THEN Append(Queues[h], e) ELSE Queues[h]
    <3>1. ring[h] \in Ring /\ RingOK(ring[h])
      BY DEF EqInv
    <3>2. Queues[h] = Contents(ring[h]) /\ Len(Queues[h]) = ring[h].count
      BY SMTT(30), <3>1, ContentsSeq DEF Queues
    <3>3. ring'[h] = IF h \in On /\ e \in event_mask[h] THEN queue_put(ring[h], e)
                     ELSE ring[h]
      BY <1>3 DEF event_post, On
    <3>4. Contents(queue_put(ring[h], e)) =
            IF ring[h].count < MAX_EVENTS_PER_QUEUE THEN Append(Contents(ring[h]), e)
            ELSE Contents(ring[h])
      BY Zenon, <3>1, PutAppends
    <3> QED BY <3>2, <3>3, <3>4
  <2>3. Queues' = [h \in Ids |->
                     IF h \in On /\ e \in event_mask[h]
                        /\ Len(Queues[h]) < MAX_EVENTS_PER_QUEUE
                     THEN Append(Queues[h], e) ELSE Queues[h]]
    BY SMTT(30), <2>2 DEF Queues
  <2>4. Fifo!Post(e)
    BY <2>1, <2>3 DEF Fifo!Post, Fifo!Takes, Queues
  <2> QED BY <2>4 DEF Fifo!FifoNext
<1>4. ASSUME NEW H \in SUBSET Ids, Deliver(H)
      PROVE  Fifo!FifoNext
  BY <1>4, DeliverRefines DEF Fifo!FifoNext
<1>5. ASSUME NEW h \in Ids, event_poll(h)
      PROVE  Fifo!FifoNext
  <2>1. {h} \in SUBSET Ids
    OBVIOUS
  <2> QED BY <1>4, <1>5, <2>1 DEF event_poll
<1>6. ASSUME events_dispatch
      PROVE  Fifo!FifoNext
  <2>1. {h \in Ids : callback[h]} \in SUBSET Ids
    OBVIOUS
  <2> QED BY <1>4, <1>6, <2>1 DEF events_dispatch
<1>7. CASE UNCHANGED EqVars
  BY <1>7 DEF EqVars, On, Known, Queues
<1> QED BY <1>1, <1>2, <1>3, <1>5, <1>6, <1>7 DEF EqNext

\* The event system implements first-in first-out queues, for any number of
\* handlers, any masks and any size of the rings: an event is lost only when it
\* finds its queue full, every other one is delivered once and in order.
THEOREM EventsImplementFifo == EqSpec => EventsAreFifo
<1>1. Fifo!FifoSpec <=> (Fifo!FifoInit /\ [][Fifo!FifoNext]_<<On, event_mask, Queues, seen>>)
  BY DEF Fifo!FifoSpec, Queues
<1> QED BY <1>1, InitRefines, StepRefines, RingsConsistent, PTL DEF EqSpec, EventsAreFifo
=============================================================================
