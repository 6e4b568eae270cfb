----------------------------- MODULE SocketQueue ----------------------------
(***************************************************************************)
(* The sockets of the network stack (lib/net.c): each has a circular       *)
(* buffer in which net-bh stores the frames that match it, header, time    *)
(* stamp and all, and from which the task that owns the socket reads them. *)
(*                                                                         *)
(* A frame is a record [bind, len, id]: what it is matched by, the length  *)
(* of its payload and what tells it from others.  A byte of it in a buffer *)
(* is [f, k], byte k of what is stored for frame f; Header bytes (size,    *)
(* struct hw_timestamp, struct wr_ethhdr) come before the payload.         *)
(*                                                                         *)
(*   socks    the table of open sockets, by slot                           *)
(*   queue    struct sockq of each socket                                  *)
(*   got      what the last ptpd_netif_recvfrom returned                   *)
(*   stored   history: the frames stored and not yet read, oldest first,   *)
(*            with their distance from the tail                            *)
(***************************************************************************)
EXTENDS Integers, Sequences

CONSTANTS Sockets,   \* the sockets that tasks declare
          Slots,     \* NET_MAX_SOCKETS slots, as 1..n
          QSize,     \* QSize[s]: bytes of the buffer of socket s, 0 if it only sends
          Bind,      \* Bind[s]: ethertype and UDP port, as one value
          Frames,    \* the frames that arrive
          Header,    \* bytes stored before the payload
          Buffers    \* Buffers[s]: the data_length its owner calls recvfrom with

None == "none"

ASSUME SocketAssumption ==
  /\ None \notin Sockets
  /\ Slots \subseteq Nat
  /\ QSize \in [Sockets -> Nat]
  /\ Header \in Nat \ {0}
  /\ Frames # {} /\ \A f \in Frames : f.len \in Nat
  /\ Buffers \in [Sockets -> Nat \ {0}]

VARIABLES socks, queue, got, stored
SqVars == <<socks, queue, got, stored>>

-----------------------------------------------------------------------------
(***************************************************************************)
(* The circular buffer                                                     *)
(***************************************************************************)
\* Bytes a frame takes.
Room(f) == Header + f.len

\* k bytes after index t, wrapping whenever the index reaches the size.
Forward(size, t, k) == IF t + k >= size THEN t + k - size ELSE t + k

\* How far index i is after index h.
Offset(size, h, i) == IF i >= h THEN i - h ELSE i - h + size

\* What is skipped of a frame that does not fit the caller's buffer.  Note that
\* the loop of the code stops at an index equal to the size.
Skip(size, t, k) == IF t + k > size THEN t + k - size ELSE t + k

\* ptpd_netif_create_socket empties the queue.
EmptyQueue(size, buff) ==
  [head |-> 0, tail |-> 0, avail |-> size, size |-> size, n |-> 0, buff |-> buff]

\* The four calls of wrap_copy_out for one frame.
Store(q, f) ==
  [q EXCEPT !.buff = [i \in 0..q.size - 1 |->
                        LET k == Offset(q.size, q.head, i)
                        IN  IF k < Room(f) THEN [f |-> f, k |-> k] ELSE q.buff[i]],
            !.head = Forward(q.size, q.head, Room(f)),
            !.avail = q.avail - Room(f),
            !.n = q.n + 1]

\* The length comes back from the buffer too.
StoredLen(q) == q.buff[q.tail].f.len

\* The payload that ends up in the caller's buffer.
Copied(q, buflen) ==
  LET len == IF StoredLen(q) < buflen THEN StoredLen(q) ELSE buflen
  IN  [i \in 1..len |-> q.buff[Forward(q.size, q.tail, Header + i - 1)]]

\* A slip of Fetch: the tail does not move over the header.
Fetch_payload(q, buflen) ==
  LET len == StoredLen(q)
  IN  [q EXCEPT !.n = @ - 1, !.avail = @ + Header + len, !.tail = Forward(q.size, @, len)]

\* The four calls of wrap_copy_in for one frame.
Fetch(q, buflen) ==
  LET len == StoredLen(q)
  IN  [q EXCEPT !.n = q.n - 1,
                !.avail = q.avail + Room(q.buff[q.tail].f),
                !.tail = IF len > buflen
                         THEN Skip(q.size, Forward(q.size, q.tail, Header + buflen), len - buflen)
                         ELSE Forward(q.size, q.tail, Header + len)]

-----------------------------------------------------------------------------
Opened == {socks[i] : i \in Slots} \ {None}

\* The first free slot; without one the call fails.
ptpd_netif_create_socket(s) ==
  /\ s \notin Opened      \* every caller opens its socket once
  /\ \E i \in Slots :
       /\ socks[i] = None /\ \A j \in Slots : j < i => socks[j] # None
       /\ socks' = [socks EXCEPT ![i] = s]
  /\ queue' = [queue EXCEPT ![s] = EmptyQueue(QSize[s], queue[s].buff)]
  /\ stored' = [stored EXCEPT ![s] = <<>>]
  /\ UNCHANGED got

ptpd_netif_close_socket(s) ==
  /\ s \in Opened
  /\ socks' = [i \in Slots |-> IF socks[i] = s THEN None ELSE socks[i]]
  /\ UNCHANGED <<queue, got, stored>>

Used(q) == q.size - q.avail

\* A slip of Fits: the header is forgotten.
Fits_payload(q, f) == f.len <= q.avail
Fits(q, f) == Room(f) <= q.avail

\* The socket in the last slot that matches the frame.
Matches(i, f) == socks[i] # None /\ Bind[socks[i]] = f.bind
Receiver(s, f) ==
  \E i \in Slots : /\ socks[i] = s /\ Matches(i, f)
                   /\ \A j \in Slots : j > i => ~Matches(j, f)

\* netif_poll for a frame that fits the queue of its socket; a frame of another
\* VLAN, without a socket or without room is dropped and changes nothing.
netif_poll(s, f) ==
  /\ Receiver(s, f)
  /\ Fits(queue[s], f)
  /\ queue' = [queue EXCEPT ![s] = Store(queue[s], f)]
  /\ stored' = [stored EXCEPT ![s] = Append(stored[s], [f |-> f, pos |-> Used(queue[s])])]
  /\ UNCHANGED <<socks, got>>

\* The history without its oldest frame, from which the distances now count.
Shifted(fs) ==
  [i \in 1..Len(fs) - 1 |->
     [f |-> fs[i + 1].f, pos |-> fs[i + 1].pos - Room(fs[1].f)]]

\* The owner of an open socket polls it; with an empty queue the call returns 0.
ptpd_netif_recvfrom(s) ==
  /\ s \in Opened /\ queue[s].n > 0
  /\ got' = Copied(queue[s], Buffers[s])
  /\ queue' = [queue EXCEPT ![s] = Fetch(queue[s], Buffers[s])]
  /\ stored' = [stored EXCEPT ![s] = Shifted(stored[s])]
  /\ UNCHANGED socks

\* A byte of a buffer that nothing was stored in yet.
Blank == [f |-> CHOOSE f \in Frames : TRUE, k |-> 0]

SqInit ==
  /\ socks = [i \in Slots |-> None]
  /\ got = <<>>
  /\ queue = [s \in Sockets |-> EmptyQueue(QSize[s], [i \in 0..QSize[s] - 1 |-> Blank])]
  /\ stored = [s \in Sockets |-> <<>>]

SqNext ==
  \E s \in Sockets :
    \/ ptpd_netif_create_socket(s)
    \/ ptpd_netif_close_socket(s)
    \/ \E f \in Frames : netif_poll(s, f)
    \/ ptpd_netif_recvfrom(s)

SqSpec == SqInit /\ [][SqNext]_SqVars

-----------------------------------------------------------------------------
(***************************************************************************)
(* A queue q holds the frames fs: head, tail, avail and n agree with them, *)
(* and every byte of every one of them is where the reader will look.      *)
(***************************************************************************)
Holds(q, fs) ==
  /\ q.n = Len(fs)
  /\ q.avail \in 0..q.size
  /\ q.tail \in 0..q.size /\ (q.size > 0 => q.tail < q.size)
  /\ q.head = Forward(q.size, q.tail, Used(q))
  /\ IF fs = <<>> THEN Used(q) = 0
     ELSE /\ fs[1].pos = 0
          /\ fs[Len(fs)].pos + Room(fs[Len(fs)].f) = Used(q)
  /\ \A j \in 1..Len(fs) - 1 : fs[j + 1].pos = fs[j].pos + Room(fs[j].f)
  /\ \A i, j \in 1..Len(fs) : i < j => fs[i].pos + Room(fs[i].f) <= fs[j].pos
  /\ \A j \in 1..Len(fs) : fs[j].pos \in Nat /\ fs[j].pos + Room(fs[j].f) <= Used(q)
  /\ \A j \in 1..Len(fs) : \A k \in 0..Room(fs[j].f) - 1 :
       q.buff[Forward(q.size, q.tail, fs[j].pos + k)] = [f |-> fs[j].f, k |-> k]

\* netif_poll and ptpd_netif_recvfrom agree on every queue: no frame is
\* overwritten, none is left half read, and no room is lost, over any number of
\* trips around the buffer.
QueuesHoldFrames == \A s \in Sockets : Holds(queue[s], stored[s])

\* A reader gets the payload of the oldest frame that is stored in its socket,
\* cut to what it asked for: frames are neither mixed nor reordered.
Cut(f, len) == [i \in 1..IF f.len < len THEN f.len ELSE len |-> [f |-> f, k |-> Header + i - 1]]
OldestFirst ==
  [][\A s \in Sockets :
       ptpd_netif_recvfrom(s) => got' = Cut(stored[s][1].f, Buffers[s])]_SqVars
=============================================================================
