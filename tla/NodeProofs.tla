----------------------------- MODULE NodeProofs -----------------------------
(***************************************************************************)
(* Proofs about the services of a node, for every value of the constants:  *)
(* an address from BOOTP is asked for again with every link (IpAddress),   *)
(* averages of the phase are true (PhaseTracker), receive timestamps are   *)
(* those of the frames (RxTimestamp), and the SFP database yields what was *)
(* recorded last (SfpDatabase).  Those about sockets are in                *)
(* QueueProofs.                                                            *)
(***************************************************************************)
EXTENDS PhaseTracker, RxTimestamp, IpAddress, SfpDatabase, SequenceTheorems,
        WellFoundedInduction, TLAPS

-----------------------------------------------------------------------------
(***************************************************************************)
(* The IP address (IpAddress)                                              *)
(***************************************************************************)
\* The node starts without a link and without an address.
LEMMA IpInitInv == IpInit => IpInv
<1> SUFFICES ASSUME IpInit PROVE IpInv
  OBVIOUS
<1>1. fifo \in Seq(Addresses) /\ sock \in Seq(Addresses)
  BY DEF IpInit
<1>2. IpTypeOK
  BY Zenon, <1>1 DEF IpInit, IpTypeOK
<1> QED BY <1>2 DEF IpInit, IpInv

\* A reply taken from the socket is an address, and none is lost sight of.
LEMMA PollTypes ==
  ASSUME IpTypeOK, net_bh_poll
  PROVE  fifo' \in Seq(Addresses) /\ sock' \in Seq(Addresses)
<1>1. fifo \in Seq(Addresses) /\ sock \in Seq(Addresses)
  BY DEF IpTypeOK
<1>2. CASE is_link_up /\ fifo # << >>
  <2>1. fifo' = Tail(fifo) /\ Tail(fifo) \in Seq(Addresses) /\ Head(fifo) \in Addresses
    BY <1>1, <1>2, HeadTailProperties DEF net_bh_poll
  <2>2. <<Head(fifo)>> \in Seq(Addresses)
    BY <2>1
  <2> QED BY Zenon, <1>1, <1>2, <2>1, <2>2 DEF net_bh_poll
<1>3. CASE ~ (is_link_up /\ fifo # << >>)
  BY <1>1, <1>3 DEF net_bh_poll
<1> QED BY <1>2, <1>3

\* Every task and everything outside the node keeps the invariant.
LEMMA IpStepInv == IpInv /\ [IpNext]_IpVars => IpInv'
<1> SUFFICES ASSUME IpInv, [IpNext]_IpVars PROVE IpInv'
  OBVIOUS
<1> USE DEF IpInv
<1>0. IpTypeOK
  OBVIOUS
<1>1. CASE wrc_check_link
  <2>1. /\ task = "checkLink" /\ task' = "shell"
        /\ UNCHANGED <<cable, ip, fifo, sock>>
    BY <1>1 DEF wrc_check_link, NextTask, Net
  <2> DEFINE st == CASE cable /\ ~ lnk.prev -> "WENT_UP"
                     [] ~ cable /\ lnk.prev -> "WENT_DOWN"
                     [] OTHER -> IF cable THEN "UP" ELSE "DOWN"
  <2>2. lnk' = [prev |-> cable, status |-> st] /\ fresh' = (fresh /\ lnk'.status # "WENT_UP")
    BY <1>1 DEF wrc_check_link
  <2> QED BY <1>0, <2>1, <2>2 DEF IpTypeOK
<1>2. ASSUME NEW a \in ByHand, cmd_ip(a) PROVE IpInv'
  BY Zenon, <1>0, <1>2 DEF cmd_ip, NextTask, setIP, Link, Net, IpTypeOK
<1>3. CASE NoCommand
  BY <1>0, <1>3 DEF NoCommand, NextTask, Link, Net, IpTypeOK
<1>4. CASE net_bh_poll
  BY <1>0, <1>4, PollTypes DEF net_bh_poll, NextTask, Link, IpTypeOK
<1>5. ASSUME NEW send \in BOOLEAN, ipv4_poll(send) PROVE IpInv'
  <2>1. /\ task = "ipv4" /\ task' = "checkLink" /\ sock' = << >>
        /\ UNCHANGED <<cable, lnk, fifo>>
    BY <1>5 DEF ipv4_poll, bootp_poll, NextTask, Link
  <2>2. CASE Training /\ sock # << >>
    <3>1. ip' = [status |-> IF Head(sock) = 0 THEN "TRAINING" ELSE "OK_BOOTP",
                 addr |-> Head(sock)] /\ fresh'
      BY <1>5, <2>2 DEF ipv4_poll, bootp_poll, setIP
    <3>2. Head(sock) \in Addresses
      BY <1>0, <2>2, HeadTailProperties DEF IpTypeOK
    <3> QED BY <1>0, <2>1, <3>1, <3>2 DEF IpTypeOK
  <2>3. CASE ~ (Training /\ sock # << >>)
    <3>1. ip' = (IF Relearn THEN [ip EXCEPT !.status = "TRAINING"] ELSE ip) /\ fresh' = fresh
      BY <1>5, <2>3 DEF ipv4_poll, bootp_poll
    <3> QED BY SMTT(30), <1>0, <2>1, <3>1 DEF IpTypeOK, Relearn
  <2> QED BY <2>2, <2>3
<1>6. CASE Plug
  BY <1>0, <1>6 DEF Plug, IpTypeOK
<1>7. ASSUME NEW a \in Addresses, Reply(a) PROVE IpInv'
  BY <1>0, <1>7 DEF Reply, Link, IpTypeOK
<1>8. CASE UNCHANGED IpVars
  BY <1>0, <1>8 DEF IpVars, IpTypeOK
<1> QED BY <1>1, <1>2, <1>3, <1>4, <1>5, <1>6, <1>7, <1>8 DEF IpNext, Turn

\* With the link up an address from BOOTP is from a reply processed since the
\* link came up, for any addresses and any number of cable changes, commands and
\* replies (ipv4_poll, wrc_check_link).
THEOREM BootpIsRepeated == IpSpec => []BootpAfterLinkUp
<1>1. IpInv => BootpAfterLinkUp
  BY DEF IpInv, IpTypeOK, BootpAfterLinkUp, is_link_up
<1> QED BY <1>1, IpInitInv, IpStepInv, PTL DEF IpSpec
-----------------------------------------------------------------------------
(***************************************************************************)
(* The average of the phase (PhaseTracker): arithmetic                     *)
(***************************************************************************)
\* Flooring division and its remainder.
LEMMA DivMod ==
  ASSUME NEW a \in Int, NEW b \in Nat \ {0}
  PROVE  /\ a \div b \in Int /\ a % b \in 0..b - 1
         /\ a = b * (a \div b) + (a % b)
  OBVIOUS

\* A remainder is known by its range.
LEMMA ModIs ==
  ASSUME NEW b \in Nat \ {0}, NEW r \in 0..b - 1
  PROVE  /\ r % b = r
         /\ (r + b) % b = r
         /\ (r - b) % b = r
  OBVIOUS

\* A positive factor can be cancelled.
LEMMA Cancel ==
  ASSUME NEW n \in Nat \ {0}, NEW a \in Int, NEW b \in Int, n * a < n * b + n
  PROVE  a <= b
<1>1. ASSUME b + 1 <= a PROVE FALSE
  <2>1. n * (b + 1) <= n * a
    BY <1>1
  <2>2. n * (b + 1) = n * b + n
    OBVIOUS
  <2> QED BY <2>1, <2>2
<1> QED BY <1>1

\* adj_tab looks at the first and at the last quarter of the circle.
LEMMA QuarterFacts ==
  ASSUME NEW x \in 0..PtScale - 1
  PROVE  /\ Quarter(x) \in 0..3
         /\ Quarter(x) = 0 <=> 4 * x < PtScale
         /\ Quarter(x) = 3 <=> 4 * x >= 3 * PtScale
<1> DEFINE k == (4 * x) \div PtScale
<1>1. PtScale \in Nat \ {0} /\ x \in Nat /\ x < PtScale
  BY PtAssumption
<1>2. k \in Int /\ PtScale * k <= 4 * x /\ 4 * x < PtScale * k + PtScale
  <2>1. 4 * x \in Int
    BY <1>1
  <2> QED BY <1>1, <2>1, DivMod
<1> HIDE DEF k
<1>3. 0 <= k
  <2>1. PtScale * 0 < PtScale * k + PtScale
    BY <1>1, <1>2
  <2> QED BY <1>1, <1>2, <2>1, Cancel
<1>4. k <= 3
  <2>1. PtScale * k < PtScale * 3 + PtScale
    BY <1>1, <1>2
  <2> QED BY <1>1, <1>2, <2>1, Cancel
<1>5. k = 0 \/ k = 1 \/ k = 2 \/ k = 3
  BY <1>2, <1>3, <1>4
<1>6. k \in 0..3 /\ (k = 0 <=> 4 * x < PtScale) /\ (k = 3 <=> 4 * x >= 3 * PtScale)
  BY <1>1, <1>2, <1>5
<1> QED BY <1>6 DEF Quarter, k

\* A sample no further than a quarter away is the first one plus its distance,
\* once adj_tab has unwrapped it.
LEMMA Unwraps ==
  ASSUME NEW f \in 0..PtScale - 1, NEW d \in 0..PtScale - 1, NEW a \in Int,
         a = ((d - f + PtScale \div 2) % PtScale) - PtScale \div 2,
         4 * a \in -PtScale..PtScale
  PROVE  d + adj_tab(Quarter(f), Quarter(d)) = f + a
<1> DEFINE h == PtScale \div 2
           t == d - f + h
<1>1. /\ PtScale \in Nat \ {0} /\ h \in Nat /\ PtScale = 2 * h
      /\ f \in Nat /\ f < PtScale /\ d \in Nat /\ d < PtScale
  BY PtAssumption
<1>2. /\ Quarter(f) = 0 <=> 4 * f < PtScale
      /\ Quarter(f) = 3 <=> 4 * f >= 3 * PtScale
      /\ Quarter(d) = 0 <=> 4 * d < PtScale
      /\ Quarter(d) = 3 <=> 4 * d >= 3 * PtScale
  BY QuarterFacts
<1>3. a = (t % PtScale) - h
  OBVIOUS
<1>0. t = d - f + h
  OBVIOUS
<1> HIDE DEF h, t
<1>4. t \in Int /\ -PtScale <= t /\ t < 2 * PtScale /\ -PtScale <= 4 * a /\ 4 * a <= PtScale
  BY <1>0, <1>1
<1>5. CASE t < 0
  <2>1. t % PtScale = t + PtScale
    <3>1. t + PtScale \in 0..PtScale - 1 /\ (t + PtScale) - PtScale = t
      BY <1>1, <1>4, <1>5
    <3> QED BY <1>1, <3>1, ModIs
  <2>2. 4 * d < PtScale /\ 4 * f >= 3 * PtScale /\ a = d - f + PtScale
    BY <1>0, <1>1, <1>3, <1>4, <1>5, <2>1
  <2>3. adj_tab(Quarter(f), Quarter(d)) = PtScale
    BY <1>2, <2>2 DEF adj_tab
  <2> QED BY <1>1, <2>2, <2>3
<1>6. CASE t >= PtScale
  <2>1. t % PtScale = t - PtScale
    <3>1. t - PtScale \in 0..PtScale - 1 /\ (t - PtScale) + PtScale = t
      BY <1>1, <1>4, <1>6
    <3> QED BY SMTT(30), <1>1, <3>1, ModIs
  <2>2. 4 * d >= 3 * PtScale /\ 4 * f < PtScale /\ a = d - f - PtScale
    BY <1>0, <1>1, <1>3, <1>4, <1>6, <2>1
  <2>3. adj_tab(Quarter(f), Quarter(d)) = -PtScale
    BY <1>2, <2>2 DEF adj_tab
  <2> QED BY <1>1, <2>2, <2>3
<1>7. CASE t >= 0 /\ t < PtScale
  <2>1. t % PtScale = t
    <3>1. t \in 0..PtScale - 1
      BY <1>1, <1>4, <1>7
    <3> QED BY SMTT(30), <1>1, <3>1, ModIs
  <2>2. a = d - f
    BY <1>0, <1>1, <1>3, <2>1
  <2>3. /\ ~ (4 * f < PtScale /\ 4 * d >= 3 * PtScale)
        /\ ~ (4 * f >= 3 * PtScale /\ 4 * d < PtScale)
    BY <1>1, <1>4, <2>2
  <2>4. adj_tab(Quarter(f), Quarter(d)) = 0
    BY <1>2, <2>3 DEF adj_tab
  <2> QED BY <1>1, <2>2, <2>4
<1> QED BY <1>4, <1>5, <1>6, <1>7, <1>1

\* C's division rounds towards zero and is off by less than one.
LEMMA DivFacts ==
  ASSUME NEW a \in Int, NEW n \in Nat \ {0}
  PROVE  /\ Div(a, n) \in Int
         /\ a >= 0 => n * Div(a, n) <= a /\ a < n * Div(a, n) + n
         /\ a < 0 => a <= n * Div(a, n) /\ n * Div(a, n) < a + n
<1>1. CASE a >= 0
  <2>1. PICK q \in Int, m \in 0..n - 1 : q = a \div n /\ a = n * q + m
    BY DivMod
  <2>2. Div(a, n) = q
    BY <1>1, <2>1 DEF Div
  <2>3. PICK v \in Int : v = n * q
    BY <2>1
  <2> QED BY <1>1, <2>1, <2>2, <2>3
<1>2. CASE a < 0
  <2>0. -a \in Int
    OBVIOUS
  <2>1. PICK q \in Int, m \in 0..n - 1 : q = (-a) \div n /\ -a = n * q + m
    BY Zenon, <2>0, DivMod
  <2>2. Div(a, n) = -q /\ -q \in Int
    BY <1>2, <2>1 DEF Div
  <2>3. PICK v \in Int : v = n * q
    BY <2>1
  <2>4. n * (-q) = -v
    BY <2>3
  <2> QED BY <1>2, <2>1, <2>2, <2>3, <2>4
<1> QED BY <1>1, <1>2

\* The mean of n samples that lie within a quarter of the first one.
LEMMA MeanFacts ==
  ASSUME NEW n \in Nat \ {0}, NEW f \in 0..PtScale - 1, NEW s \in Int,
         4 * s <= (n - 1) * PtScale, -4 * s <= (n - 1) * PtScale
  PROVE  LET total == n * f + s
             mean == Div(total, n)
         IN  /\ total \in Int /\ mean \in Int
             /\ -PtScale < mean /\ mean < 2 * PtScale
             /\ -n < n * mean - total /\ n * mean - total < n
<1> DEFINE total == n * f + s
           mean == Div(total, n)
<1>1. PtScale \in Nat \ {0} /\ f \in Nat /\ f <= PtScale - 1
  BY PtAssumption
<1>2. total \in Int /\ total = n * f + s
  BY <1>1
<1>p. PICK p \in Int : p = n * PtScale
  BY <1>1
<1>3. (n - 1) * PtScale = p - PtScale
  BY <1>1, <1>p
<1>4. n * f >= 0 /\ n * f <= p - n /\ n * f \in Int
  <2>1. n * f <= n * (PtScale - 1)
    BY <1>1
  <2>2. n * (PtScale - 1) = p - n
    BY <1>1, <1>p
  <2> QED BY <1>1, <2>1, <2>2
<1>5. 4 * s <= p - PtScale /\ -4 * s <= p - PtScale
  BY <1>3
<1>a. PtScale <= p
  BY <1>1, <1>p
<1>6. -p < total /\ total < 2 * p
  BY <1>1, <1>2, <1>4, <1>5, <1>a, <1>p
<1> HIDE DEF total
<1>7. /\ mean \in Int
      /\ total >= 0 => n * mean <= total /\ total < n * mean + n
      /\ total < 0 => total <= n * mean /\ n * mean < total + n
  BY Zenon, <1>2, DivFacts
<1> HIDE DEF mean
<1>r. PICK r \in Int : r = n * mean
  BY <1>7
<1>8. mean < 2 * PtScale
  <2>1. 2 * PtScale - 1 \in Int /\ n * (2 * PtScale - 1) = 2 * p - n
    BY <1>1, <1>p
  <2>2. n * mean < n * (2 * PtScale - 1) + n
    BY <1>1, <1>2, <1>6, <1>7, <1>a, <1>p, <1>r, <2>1
  <2>3. mean <= 2 * PtScale - 1
    BY <1>7, <2>1, <2>2, Cancel
  <2> QED BY <1>1, <1>7, <2>3
<1>9. -PtScale < mean
  <2>1. 1 - PtScale \in Int /\ n * (1 - PtScale) = n - p
    BY <1>1, <1>p
  <2>2. n * (1 - PtScale) < n * mean + n
    BY <1>1, <1>2, <1>6, <1>7, <1>a, <1>p, <1>r, <2>1
  <2>3. 1 - PtScale <= mean
    BY <1>7, <2>1, <2>2, Cancel
  <2> QED BY <1>1, <1>7, <2>3
<1>b. -n < n * mean - total /\ n * mean - total < n
  BY <1>2, <1>7, <1>r
<1> QED BY <1>2, <1>7, <1>8, <1>9, <1>b DEF total, mean
-----------------------------------------------------------------------------
(***************************************************************************)
(* The average of the phase: the tracker                                   *)
(***************************************************************************)
\* The fields of the tracker, one at a time.
LEMMA TrackerSet ==
  ASSUME NEW r \in Tracker
  PROVE  /\ \A x \in Int : [r EXCEPT !.acc = x] \in Tracker
         /\ \A x \in Nat : [r EXCEPT !.avg_count = x] \in Tracker
         /\ \A x \in NumAvgs : [r EXCEPT !.n_avg = x] \in Tracker
         /\ \A x \in 0..3 : [r EXCEPT !.preserve_sign = x] \in Tracker
         /\ \A x \in BOOLEAN : [r EXCEPT !.ready = x] \in Tracker
  BY DEF Tracker

\* The record of the tracker after each of its updates.
LEMMA FirstShape ==
  ASSUME tr \in Tracker, NEW d \in Int, Quarter(d) \in 0..3
  PROVE  /\ FirstSample(d) \in Tracker /\ FirstSample(d).avg_count = 1
         /\ FirstSample(d).acc = d /\ FirstSample(d).preserve_sign = Quarter(d)
         /\ FirstSample(d).phase_val = tr.phase_val
  BY Zenon DEF FirstSample, Tracker

\* The fields after a further sample, with or without the end of the average.
LEMMA NextShape ==
  ASSUME tr \in Tracker, NEW d \in Int, NEW adj \in Int,
         adj = adj_tab(tr.preserve_sign, Quarter(d))
  PROVE  LET r == NextSample(d)
             acc == tr.acc + d + adj
         IN  /\ r \in Tracker
             /\ tr.avg_count + 1 # tr.n_avg =>
                  /\ r.acc = acc /\ r.avg_count = tr.avg_count + 1
                  /\ r.preserve_sign = tr.preserve_sign /\ r.phase_val = tr.phase_val
             /\ tr.avg_count + 1 = tr.n_avg =>
                  r.avg_count = 0 /\ r.phase_val = Div(acc, tr.n_avg)
<1> DEFINE acc == tr.acc + d + adj
           p == Div(acc, tr.n_avg)
<1>a. tr.acc \in Int /\ tr.n_avg \in NumAvgs /\ tr.avg_count \in Nat
  BY DEF Tracker
<1>b. \A n \in NumAvgs : n \in Nat \ {0}
  BY PtAssumption
<1>c. acc \in Int /\ tr.avg_count + 1 \in Nat
  BY <1>a
<1>1. acc \in Int /\ tr.n_avg \in Nat \ {0} /\ tr.avg_count + 1 \in Nat
  BY <1>a, <1>b, <1>c, Zenon
<1>2. p \in Int
  BY Zenon, <1>1, DivFacts
<1>0. NextSample(d) = IF tr.avg_count + 1 = tr.n_avg
                      THEN [tr EXCEPT !.phase_val = p, !.ready = TRUE, !.acc = 0, !.avg_count = 0]
                      ELSE [tr EXCEPT !.acc = acc, !.avg_count = @ + 1]
  BY DEF NextSample
<1> HIDE DEF p, acc
<1>3. CASE tr.avg_count + 1 = tr.n_avg
  <2> DEFINE one == [tr EXCEPT !.phase_val = p, !.ready = TRUE]
             two == [one EXCEPT !.acc = 0, !.avg_count = 0]
  <2>1. one \in Tracker /\ one.phase_val = p
    BY Zenon, <1>2 DEF Tracker
  <2>2. NextSample(d) = two
    BY <1>0, <1>3
  <2> HIDE DEF one
  <2>3. two \in Tracker
    <3>0. 0 \in Int
      OBVIOUS
    <3>1. [one EXCEPT !.acc = 0] \in Tracker
      BY <2>1, <3>0, TrackerSet, Zenon
    <3> QED BY Zenon, <3>1, TrackerSet
  <2>4. two.avg_count = 0 /\ two.phase_val = p
    BY <2>1, Zenon DEF Tracker
  <2> QED BY <1>3, <2>2, <2>3, <2>4 DEF p, acc
<1>4. CASE tr.avg_count + 1 # tr.n_avg
  <2> DEFINE two == [tr EXCEPT !.acc = acc, !.avg_count = @ + 1]
  <2>1. NextSample(d) = two
    BY <1>0, <1>4
  <2>2. two \in Tracker /\ two.acc = acc /\ two.avg_count = tr.avg_count + 1
        /\ two.preserve_sign = tr.preserve_sign /\ two.phase_val = tr.phase_val
    BY Zenon, <1>1 DEF Tracker
  <2> QED BY <1>4, <2>1, <2>2 DEF acc
<1> QED BY <1>3, <1>4

\* A phase between two tags lies on the circle.
LEMMA DeltaRange ==
  ASSUME PtTypeOK, NEW tag \in Int
  PROVE  Delta(tag) \in 0..PtScale - 1
<1>1. \A x \in Int : x % PtScale \in 0..PtScale - 1
  BY PtAssumption, DivMod
<1>2. tag - tag_ref \in Int /\ tag_ref - tag \in Int
  BY DEF PtTypeOK
<1> QED BY <1>1, <1>2 DEF Delta

\* The next sample of an average that is not spoilt is added unwrapped.
LEMMA SampleAdds ==
  ASSUME PtInv, NEW d \in 0..PtScale - 1, tr.avg_count > 0, WithSample(d) # Spoilt,
         NEW adj \in Int, adj = adj_tab(tr.preserve_sign, Quarter(d))
  PROVE  LET c == tr.avg_count + 1
             f == avg.first
             s == WithSample(d).sum
         IN  /\ WithSample(d) \in [first : 0..PtScale - 1, sum : Int]
             /\ WithSample(d).first = f
             /\ tr.acc + d + adj = c * f + s
             /\ tr.preserve_sign = Quarter(f)
             /\ 4 * s <= (c - 1) * PtScale /\ -4 * s <= (c - 1) * PtScale
<1>1. /\ pt_pc = 0 /\ avg # Spoilt /\ 4 * Away(d) \in -PtScale..PtScale
      /\ WithSample(d) = [avg EXCEPT !.sum = @ + Away(d)]
  <2>0. tr.avg_count # 0
    BY DEF PtInv, PtTypeOK, Tracker
  <2> QED BY <2>0 DEF WithSample
<1>2. /\ PtScale \in Nat \ {0} /\ avg \in [first : 0..PtScale - 1, sum : Int]
      /\ tr.avg_count \in Nat /\ tr.acc \in Int /\ d \in Int
  BY <1>1, PtAssumption DEF PtInv, PtTypeOK, Tracker
<1>3. /\ tr.acc = tr.avg_count * avg.first + avg.sum
      /\ tr.preserve_sign = Quarter(avg.first)
      /\ 4 * avg.sum <= (tr.avg_count - 1) * PtScale
      /\ -4 * avg.sum <= (tr.avg_count - 1) * PtScale
  BY <1>1 DEF PtInv, AccIsSum
<1>4. PICK f \in 0..PtScale - 1, s \in Int, c \in Nat : f = avg.first /\ s = avg.sum /\ c = tr.avg_count
  BY <1>2
<1>5. PICK a \in Int : a = Away(d)
  <2>1. d - f + PtScale \div 2 \in Int /\ PtScale \div 2 \in Int
    BY <1>2
  <2>2. (d - f + PtScale \div 2) % PtScale \in Int
    BY <1>2, <2>1, DivMod
  <2> QED BY <1>4, <2>1, <2>2 DEF Away
<1>6. WithSample(d).first = f /\ WithSample(d).sum = s + a
      /\ WithSample(d) \in [first : 0..PtScale - 1, sum : Int]
  BY <1>1, <1>2, <1>4, <1>5
<1>7. d + adj = f + a
  <2>1. a = ((d - f + PtScale \div 2) % PtScale) - PtScale \div 2
    BY <1>4, <1>5 DEF Away
  <2>2. adj = adj_tab(Quarter(f), Quarter(d))
    BY <1>3, <1>4
  <2> QED BY <1>1, <1>5, <2>1, <2>2, Unwraps
<1>8. PICK v \in Int, w \in Int : v = c * f /\ w = c * PtScale
  BY <1>2
<1>9. (c + 1) * f = v + f /\ (c - 1) * PtScale = w - PtScale /\ ((c + 1) - 1) * PtScale = w
  BY <1>2, <1>8
<1>10. tr.acc = v + s /\ 4 * s <= w - PtScale /\ -4 * s <= w - PtScale
  BY <1>3, <1>4, <1>8, <1>9
<1>11. -PtScale <= 4 * a /\ 4 * a <= PtScale
  BY <1>1, <1>2, <1>5
<1>12. tr.acc + d + adj = (c + 1) * f + (s + a)
  BY <1>2, <1>7, <1>9, <1>10
<1>13. 4 * (s + a) <= ((c + 1) - 1) * PtScale /\ -4 * (s + a) <= ((c + 1) - 1) * PtScale
  BY <1>2, <1>9, <1>10, <1>11
<1> QED BY <1>3, <1>4, <1>6, <1>12, <1>13

\* The tag interrupt: a sample.
LEMMA UpdateKeeps ==
  ASSUME PtInv, NEW tag \in 0..PtScale - 1, ptrackers_update(tag)
  PROVE  PtInv'
<1> DEFINE d == Delta(tag)
           now == WithSample(d)
<1>1. PtTypeOK /\ tr \in Tracker /\ tag_ref' = tag_ref /\ pt_pc' = pt_pc /\ PtScale \in Nat \ {0}
  BY PtAssumption DEF PtInv, PtTypeOK, ptrackers_update
<1>2. d \in 0..PtScale - 1 /\ d \in Int /\ Quarter(d) \in 0..3
  <2>1. d \in 0..PtScale - 1
    BY SMTT(30), <1>1, DeltaRange
  <2> QED BY <1>1, <2>1, QuarterFacts
<1>3. /\ tr' = IF tr.avg_count = 0 THEN FirstSample(d) ELSE NextSample(d)
      /\ tr'.avg_count > 0 => avg' = now /\ done' = done
      /\ ~ (tr'.avg_count > 0) =>
           /\ avg' = Spoilt
           /\ done' = IF now = Spoilt THEN Spoilt
                      ELSE [n |-> tr.n_avg, total |-> tr.n_avg * now.first + now.sum]
  BY DEF ptrackers_update
<1> HIDE DEF d, now
<1>4. CASE tr.avg_count = 0
  <2>1. /\ tr' \in Tracker /\ tr'.avg_count = 1 /\ tr'.acc = d
        /\ tr'.preserve_sign = Quarter(d) /\ tr'.phase_val = tr.phase_val
    BY <1>1, <1>2, <1>3, <1>4, FirstShape
  <2>2. avg' = now /\ done' = done
    BY <1>3, <2>1
  <2>3. now = IF pt_pc # 0 THEN Spoilt ELSE [first |-> d, sum |-> 0]
    BY <1>4 DEF now, WithSample
  <2>4. PtTypeOK'
    BY <1>1, <1>2, <2>1, <2>2, <2>3 DEF PtTypeOK
  <2>5. AccIsSum'
    <3> SUFFICES ASSUME pt_pc' = 0, avg' # Spoilt
                 PROVE  /\ tr'.acc = tr'.avg_count * avg'.first + avg'.sum
                        /\ tr'.preserve_sign = Quarter(avg'.first)
                        /\ 4 * avg'.sum <= (tr'.avg_count - 1) * PtScale
                        /\ -4 * avg'.sum <= (tr'.avg_count - 1) * PtScale
      BY DEF AccIsSum, Spoilt, Quarter
    <3>1. avg'.first = d /\ avg'.sum = 0
      BY SMTT(30), <1>1, <2>2, <2>3
    <3> QED BY <1>1, <1>2, <2>1, <3>1
  <2>6. PhaseIsMean'
    BY <2>1, <2>2 DEF PtInv, PhaseIsMean, Spoilt
  <2> QED BY <2>4, <2>5, <2>6 DEF PtInv
<1>5. CASE tr.avg_count # 0
  <2>0. tr.avg_count > 0 /\ tr.avg_count \in Nat
    BY <1>1, <1>5 DEF Tracker
  <2>1. PICK adj \in Int : adj = adj_tab(tr.preserve_sign, Quarter(d))
    BY SMTT(30), <1>1 DEF adj_tab
  <2>2. /\ tr' \in Tracker
        /\ tr.avg_count + 1 # tr.n_avg =>
             /\ tr'.acc = tr.acc + d + adj /\ tr'.avg_count = tr.avg_count + 1
             /\ tr'.preserve_sign = tr.preserve_sign /\ tr'.phase_val = tr.phase_val
        /\ tr.avg_count + 1 = tr.n_avg =>
             tr'.avg_count = 0 /\ tr'.phase_val = Div(tr.acc + d + adj, tr.n_avg)
    BY SMTT(30), <1>1, <1>2, <1>3, <1>5, <2>1, NextShape
  <2>3. ASSUME now # Spoilt
        PROVE  /\ now \in [first : 0..PtScale - 1, sum : Int] /\ now.first = avg.first
               /\ tr.acc + d + adj = (tr.avg_count + 1) * now.first + now.sum
               /\ tr.preserve_sign = Quarter(now.first)
               /\ 4 * now.sum <= ((tr.avg_count + 1) - 1) * PtScale
               /\ -4 * now.sum <= ((tr.avg_count + 1) - 1) * PtScale
    BY <1>2, <2>0, <2>1, <2>3, SampleAdds DEF now
  <2>4. CASE tr.avg_count + 1 # tr.n_avg
    <3>1. avg' = now /\ done' = done
      BY SMTT(30), <1>3, <2>0, <2>2, <2>4
    <3>2. PtTypeOK'
      BY SMTT(30), <1>1, <2>2, <2>3, <3>1 DEF PtTypeOK, Spoilt
    <3>3. AccIsSum'
      BY SMTT(30), <2>2, <2>3, <2>4, <3>1 DEF AccIsSum, Spoilt, Quarter
    <3>4. PhaseIsMean'
      BY <2>2, <2>4, <3>1 DEF PtInv, PhaseIsMean, Spoilt
    <3> QED BY SMTT(30), <3>2, <3>3, <3>4 DEF PtInv
  <2>5. CASE tr.avg_count + 1 = tr.n_avg
    <3>0. tr'.avg_count = 0 /\ tr'.phase_val = Div(tr.acc + d + adj, tr.n_avg)
      BY SMTT(30), <2>2, <2>5
    <3>1. avg' = Spoilt /\ done' = IF now = Spoilt THEN Spoilt
                      ELSE [n |-> tr.n_avg, total |-> tr.n_avg * now.first + now.sum]
      BY <1>3, <3>0
    <3>2. AccIsSum'
      BY SMTT(30), <3>0 DEF AccIsSum
    <3>3. CASE now = Spoilt
      BY <1>1, <2>2, <3>1, <3>2, <3>3 DEF PtInv, PtTypeOK, PhaseIsMean, Spoilt
    <3>4. CASE now # Spoilt
      <4>1. PICK n \in NumAvgs, f \in 0..PtScale - 1, s \in Int :
              n = tr.n_avg /\ f = now.first /\ s = now.sum
        BY <1>1, <2>3, <3>4 DEF Tracker
      <4>2. n \in Nat \ {0}
        BY PtAssumption
      <4>3. /\ tr.acc + d + adj = n * f + s
            /\ 4 * s <= (n - 1) * PtScale /\ -4 * s <= (n - 1) * PtScale
        BY SMTT(30), <2>3, <2>5, <3>4, <4>1
      <4>4. /\ n * f + s \in Int /\ Div(n * f + s, n) \in Int
            /\ -PtScale < Div(n * f + s, n) /\ Div(n * f + s, n) < 2 * PtScale
            /\ -n < n * Div(n * f + s, n) - (n * f + s)
            /\ n * Div(n * f + s, n) - (n * f + s) < n
        BY SMTT(30), <4>2, <4>3, MeanFacts
      <4>5. done'.n = n /\ done'.total = n * f + s /\ tr'.phase_val = Div(n * f + s, n)
            /\ done' \in [n : NumAvgs, total : Int]
        BY SMTT(30), <3>0, <3>1, <3>4, <4>1, <4>3, <4>4
      <4>6. PtTypeOK'
        BY SMTT(30), <1>1, <2>2, <3>1, <4>5 DEF PtTypeOK, Spoilt
      <4>7. PhaseIsMean'
        BY <4>4, <4>5 DEF PhaseIsMean
      <4> QED BY <3>2, <4>6, <4>7 DEF PtInv
    <3> QED BY <3>3, <3>4
  <2> QED BY <2>4, <2>5
<1> QED BY SMTT(30), <1>4, <1>5

\* A restart, store by store: the average is not looked at before it is over.
LEMMA StartKeeps ==
  ASSUME PtInv, ptracker_start
  PROVE  PtInv'
<1>1. PtTypeOK /\ tr \in Tracker /\ pt_pc \in 0..4 /\ UNCHANGED <<tag_ref, avg, done>>
  BY DEF PtInv, PtTypeOK, ptracker_start
<1>2. /\ pt_pc' \in 0..4 /\ (pt_pc' = 0 <=> pt_pc = 4)
  BY <1>1 DEF ptracker_start
<1>3. /\ tr' \in Tracker /\ tr'.phase_val = tr.phase_val
      /\ pt_pc = 4 => tr'.avg_count = 0
  <2>1. /\ [tr EXCEPT !.preserve_sign = 0] \in Tracker
        /\ [tr EXCEPT !.preserve_sign = 0].phase_val = tr.phase_val
    BY <1>1 DEF Tracker
  <2>2. /\ [tr EXCEPT !.enabled = TRUE] \in Tracker
        /\ [tr EXCEPT !.enabled = TRUE].phase_val = tr.phase_val
    BY Zenon, <1>1 DEF Tracker
  <2>3. /\ [tr EXCEPT !.ready = FALSE] \in Tracker
        /\ [tr EXCEPT !.ready = FALSE].phase_val = tr.phase_val
    BY Zenon, <1>1 DEF Tracker
  <2>4. /\ [tr EXCEPT !.acc = 0] \in Tracker
        /\ [tr EXCEPT !.acc = 0].phase_val = tr.phase_val
    BY <1>1 DEF Tracker
  <2>5. /\ [tr EXCEPT !.avg_count = 0] \in Tracker
        /\ [tr EXCEPT !.avg_count = 0].phase_val = tr.phase_val
        /\ [tr EXCEPT !.avg_count = 0].avg_count = 0
    BY <1>1 DEF Tracker
  <2>6. tr' = CASE pt_pc = 0 -> [tr EXCEPT !.preserve_sign = 0]
                [] pt_pc = 1 -> [tr EXCEPT !.enabled = TRUE]
                [] pt_pc = 2 -> [tr EXCEPT !.ready = FALSE]
                [] pt_pc = 3 -> [tr EXCEPT !.acc = 0]
                [] OTHER -> [tr EXCEPT !.avg_count = 0]
    BY DEF ptracker_start
  <2> QED BY <1>1, <2>1, <2>2, <2>3, <2>4, <2>5, <2>6
<1>4. PtTypeOK'
  BY <1>1, <1>2, <1>3 DEF PtTypeOK, Spoilt
<1>5. AccIsSum'
  BY SMTT(30), <1>2, <1>3 DEF AccIsSum
<1>6. PhaseIsMean'
  BY <1>1, <1>3 DEF PtInv, PhaseIsMean, Spoilt
<1> QED BY <1>4, <1>5, <1>6 DEF PtInv

\* A change of the length drops the average under way.
LEMMA LengthKeeps ==
  ASSUME PtInv, NEW n \in NumAvgs, spll_set_ptracker_average_samples(n)
  PROVE  PtInv'
<1>1. PtTypeOK /\ tr \in Tracker /\ UNCHANGED <<tag_ref, pt_pc, avg, done>>
  BY DEF PtInv, PtTypeOK, spll_set_ptracker_average_samples
<1>2. /\ tr' \in Tracker /\ tr'.phase_val = tr.phase_val /\ tr'.avg_count = 0
  <2> DEFINE one == [tr EXCEPT !.preserve_sign = 0, !.ready = FALSE]
             two == [one EXCEPT !.acc = 0, !.avg_count = 0, !.n_avg = n]
  <2>1. one \in Tracker
    <3>0. 0 \in 0..3
      OBVIOUS
    <3>1. [tr EXCEPT !.preserve_sign = 0] \in Tracker
      BY <1>1, <3>0, TrackerSet, Zenon
    <3> QED BY Zenon, <3>1, TrackerSet
  <2>4. one.phase_val = tr.phase_val
    BY <1>1, Zenon DEF Tracker
  <2>2. tr' = two
    BY DEF spll_set_ptracker_average_samples
  <2> HIDE DEF one
  <2>3. two \in Tracker
    <3>0. 0 \in Int
      OBVIOUS
    <3>1. [one EXCEPT !.acc = 0] \in Tracker
      BY <2>1, <3>0, TrackerSet, Zenon
    <3>2. [[one EXCEPT !.acc = 0] EXCEPT !.avg_count = 0] \in Tracker
      BY Zenon, <3>1, TrackerSet
    <3> QED BY Zenon, <3>2, TrackerSet
  <2>5. two.phase_val = one.phase_val /\ two.avg_count = 0
    BY <2>1, Zenon DEF Tracker
  <2> QED BY <2>2, <2>3, <2>4, <2>5
<1>3. PtTypeOK'
  BY <1>1, <1>2 DEF PtTypeOK, Spoilt
<1>4. AccIsSum'
  BY SMTT(30), <1>2 DEF AccIsSum
<1>5. PhaseIsMean'
  BY <1>1, <1>2 DEF PtInv, PhaseIsMean, Spoilt
<1> QED BY <1>3, <1>4, <1>5 DEF PtInv

\* A tracker that has no sample.
LEMMA PtInitInv == PtInit => PtInv
<1> SUFFICES ASSUME PtInit PROVE PtInv
  OBVIOUS
<1>1. PICK n \in NumAvgs : tr = ptracker_init(n)
  BY DEF PtInit
<1>2. tr \in Tracker
  BY <1>1 DEF ptracker_init, Tracker
<1> QED BY <1>2 DEF PtInit, PtInv, PtTypeOK, AccIsSum, PhaseIsMean

\* Every step, the interrupt between any two stores of ptracker_start included.
LEMMA PtStepInv == PtInv /\ [PtNext]_PtVars => PtInv'
<1> SUFFICES ASSUME PtInv, [PtNext]_PtVars PROVE PtInv'
  OBVIOUS
<1>1. ASSUME NEW tag \in MainTagsSeen, MainTag(tag) PROVE PtInv'
  <2>1. tag \in Int /\ tag_ref' = tag /\ UNCHANGED <<tr, pt_pc, avg, done>>
    BY SMTT(30), <1>1, PtAssumption DEF MainTag
  <2>2. PtTypeOK'
    BY <2>1 DEF PtInv, PtTypeOK, Spoilt
  <2> QED BY <2>1, <2>2 DEF PtInv, AccIsSum, PhaseIsMean, Spoilt, Quarter
<1>2. ASSUME NEW tag \in 0..PtScale - 1, ptrackers_update(tag) PROVE PtInv'
  BY <1>2, UpdateKeeps
<1>3. CASE ptracker_start
  BY <1>3, StartKeeps
<1>4. ASSUME NEW n \in NumAvgs, spll_set_ptracker_average_samples(n) PROVE PtInv'
  BY SMTT(30), <1>4, LengthKeeps
<1>5. CASE UNCHANGED PtVars
  BY <1>5 DEF PtVars, PtInv, PtTypeOK, AccIsSum, PhaseIsMean, Spoilt, Quarter
<1> QED BY SMTT(30), <1>1, <1>2, <1>3, <1>4, <1>5 DEF PtNext

\* A phase that is ready is the mean of its samples, for any scale that is a
\* multiple of four, any lengths of the average, any tags, and restarts and
\* changes of the length at any time (ptrackers_update, spll_read_ptracker).
THEOREM PhaseIsTrue == PtSpec => []AverageIsTrue
<1>1. PtInv => AverageIsTrue
  <2> SUFFICES ASSUME PtInv, done # Spoilt
               PROVE  /\ spll_read_ptracker \in 0..PtScale - 1
                      /\ \E k \in -1..1 :
                           LET error == done.n * (spll_read_ptracker + k * PtScale) - done.total
                           IN  -done.n < error /\ error < done.n
    BY DEF AverageIsTrue
  <2>1. /\ PtScale \in Nat \ {0} /\ tr.phase_val \in Int
        /\ -PtScale < tr.phase_val /\ tr.phase_val < 2 * PtScale
        /\ -done.n < done.n * tr.phase_val - done.total
        /\ done.n * tr.phase_val - done.total < done.n
    BY PtAssumption DEF PtInv, PtTypeOK, Tracker, PhaseIsMean
  <2>2. spll_read_ptracker \in 0..PtScale - 1
    BY <2>1 DEF spll_read_ptracker
  <2>3. \E k \in -1..1 : spll_read_ptracker + k * PtScale = tr.phase_val
    <3>1. CASE tr.phase_val < 0
      <4>1. spll_read_ptracker + (-1) * PtScale = tr.phase_val
        BY <2>1, <3>1 DEF spll_read_ptracker
      <4> QED BY <4>1
    <3>2. CASE tr.phase_val >= PtScale
      <4>1. spll_read_ptracker + 1 * PtScale = tr.phase_val
        BY <2>1, <3>2 DEF spll_read_ptracker
      <4> QED BY <4>1
    <3>3. CASE tr.phase_val >= 0 /\ tr.phase_val < PtScale
      <4>1. spll_read_ptracker + 0 * PtScale = tr.phase_val
        BY <2>1, <3>3 DEF spll_read_ptracker
      <4> QED BY <4>1
    <3> QED BY <2>1, <3>1, <3>2, <3>3
  <2> QED BY <2>1, <2>2, <2>3
<1> QED BY <1>1, PtInitInv, PtStepInv, PTL DEF PtSpec
-----------------------------------------------------------------------------
(***************************************************************************)
(* The receive timestamp (RxTimestamp): arithmetic                         *)
(***************************************************************************)
\* Quotient and remainder, named.
LEMMA DivNames ==
  ASSUME NEW a \in Int, NEW b \in Nat \ {0}
  PROVE  \E q \in Int, m \in 0..b - 1 : q = a \div b /\ m = a % b /\ a = b * q + m
  BY DivMod

\* Quotient and remainder are unique.
LEMMA DivIs ==
  ASSUME NEW b \in Nat \ {0}, NEW k \in Int, NEW r \in 0..b - 1
  PROVE  (b * k + r) \div b = k /\ (b * k + r) % b = r
<1>1. b * k + r \in Int
  OBVIOUS
<1>2. PICK q \in Int, m \in 0..b - 1 :
        q = (b * k + r) \div b /\ m = (b * k + r) % b /\ b * k + r = b * q + m
  BY <1>1, DivMod
<1>3. PICK v \in Int, w \in Int : v = b * k /\ w = b * q
  OBVIOUS
<1>4. b * k < b * q + b /\ b * q < b * k + b
  BY <1>2, <1>3
<1>5. k <= q /\ q <= k
  BY <1>4, Cancel
<1>6. k = q
  BY <1>5
<1>7. m = r
  BY SMTT(30), <1>2, <1>3, <1>6
<1> QED BY <1>2, <1>6, <1>7

\* Next to x a count may be one more or one less, by the place in the tick.
LEMMA FloorNear ==
  ASSUME NEW x \in Int, NEW m \in Int, NEW y \in 0..Period - 1, x = Period * m + y, NEW s \in Int
  PROVE  /\ 0 <= y + s /\ y + s < Period => (x + s) \div Period = m
         /\ -Period <= y + s /\ y + s < 0 => (x + s) \div Period = m - 1
         /\ Period <= y + s /\ y + s < 2 * Period => (x + s) \div Period = m + 1
<1>0. Period \in Nat \ {0}
  BY RxAssumption
<1>1. PICK v \in Int : v = Period * m
  BY <1>0
<1>2. ASSUME 0 <= y + s, y + s < Period PROVE (x + s) \div Period = m
  <2>1. y + s \in 0..Period - 1 /\ x + s = Period * m + (y + s)
    BY <1>0, <1>1, <1>2
  <2> QED BY <1>0, <2>1, DivIs
<1>3. ASSUME -Period <= y + s, y + s < 0 PROVE (x + s) \div Period = m - 1
  <2>0. Period * (m - 1) = v - Period /\ m - 1 \in Int
    BY <1>0, <1>1
  <2>1. y + s + Period \in 0..Period - 1 /\ x + s = Period * (m - 1) + (y + s + Period)
    BY <1>0, <1>1, <1>3, <2>0
  <2> QED BY <1>0, <2>0, <2>1, DivIs
<1>4. ASSUME Period <= y + s, y + s < 2 * Period PROVE (x + s) \div Period = m + 1
  <2>0. Period * (m + 1) = v + Period /\ m + 1 \in Int
    BY <1>0, <1>1
  <2>1. y + s - Period \in 0..Period - 1 /\ x + s = Period * (m + 1) + (y + s - Period)
    BY <1>0, <1>1, <1>4, <2>0
  <2> QED BY <1>0, <2>0, <2>1, DivIs
<1> QED BY <1>2, <1>3, <1>4

\* The second of the PPS generator is a quotient of its ticks.
LEMMA SecondOfTicks ==
  ASSUME NEW t \in Int
  PROVE  PpsSec(t) = (t \div Period) \div Freq
<1>0. Period \in Nat \ {0} /\ Freq \in Nat \ {0}
  BY RxAssumption
<1>1. PICK d \in Int, z \in 0..Period - 1 : d = t \div Period /\ t = Period * d + z
  BY <1>0, DivMod
<1>2. PICK s \in Int, u \in 0..Freq - 1 : s = d \div Freq /\ d = Freq * s + u
  BY <1>0, DivMod
<1>3. PICK n \in Nat \ {0} : n = Period * Freq
  BY <1>0
<1>4. Period * d = n * s + Period * u
  <2>1. Period * (Freq * s + u) = (Period * Freq) * s + Period * u
    BY <1>0
  <2> QED BY <1>2, <1>3, <2>1
<1>5. Period * u \in Nat /\ Period * u <= n - Period
  <2>1. Period * u <= Period * (Freq - 1)
    BY <1>0
  <2>2. Period * (Freq - 1) = n - Period
    BY <1>0, <1>3
  <2> QED BY <1>0, <2>1, <2>2
<1>6. PICK v \in Nat, w \in Int : v = Period * u /\ w = n * s
  BY <1>3, <1>5
<1>7. v + z \in 0..n - 1 /\ t = n * s + (v + z)
  BY SMTT(30), <1>0, <1>1, <1>3, <1>4, <1>5, <1>6
<1>8. t \div n = s
  BY SMTT(30), <1>3, <1>7, DivIs
<1> QED BY Zenon, <1>1, <1>2, <1>3, <1>8 DEF PpsSec

\* The second that minic_rx_frame takes belongs to the rising count, although it
\* is read later: together they give the tick of the frame.
LEMMA FrameTicks ==
  ASSUME NEW t \in Int, NEW j \in Jitter, NEW d \in Delays
  PROVE  LET r == Rising(t + j)
         IN  /\ r \in 0..Freq - 1 /\ FrameSec(r, t + d) \in Int
             /\ FrameSec(r, t + d) * Freq + r = (t + j) \div Period
<1>0. /\ Period \in Nat \ {0} /\ Freq \in Nat \ {0} /\ j \in Int /\ d \in Int
      /\ j <= d /\ d - j <= (Freq \div 4 - 1) * Period
  BY RxAssumption
<1> DEFINE f4 == Freq \div 4
           f34 == (3 * Freq) \div 4
<1>4. f4 \in Nat /\ f34 \in Nat /\ f4 <= f34 /\ f4 <= Freq /\ Freq - f4 + 1 > f34
  BY <1>0
<1>d. d - j <= (f4 - 1) * Period
  BY <1>0
<1>f. \A r, read : FrameSec(r, read) = IF r > f34 /\ PpsTicks(read) < f4
                                       THEN PpsSec(read) - 1 ELSE PpsSec(read)
  BY DEF FrameSec
<1> HIDE DEF f4, f34
<1>1. PICK tr1 \in Int, x \in 0..Period - 1 : tr1 = (t + j) \div Period /\ t + j = Period * tr1 + x
  BY <1>0, DivMod
<1>2. PICK td \in Int, z \in 0..Period - 1 : td = (t + d) \div Period /\ t + d = Period * td + z
  BY <1>0, DivMod
<1>3. 0 <= td - tr1 /\ td - tr1 <= f4 - 1
  <2>1. PICK a \in Int, b \in Int, c \in Int :
          a = Period * tr1 /\ b = Period * td /\ c = (f4 - 1) * Period
    BY <1>0, <1>4
  <2>2. Period * tr1 < Period * td + Period
    BY <1>0, <1>1, <1>2, <2>1
  <2>3. Period * (tr1 + (f4 - 1)) = a + c
    BY SMTT(30), <1>0, <1>4, <2>1
  <2>4. Period * td < Period * (tr1 + (f4 - 1)) + Period
    BY SMTT(30), <1>0, <1>1, <1>2, <1>d, <2>1, <2>3
  <2>5. tr1 + (f4 - 1) \in Int
    BY <1>4
  <2>6. tr1 <= td /\ td <= tr1 + (f4 - 1)
    BY <1>0, <2>2, <2>4, <2>5, Cancel
  <2> QED BY <1>4, <2>6
<1>5. PICK s1 \in Int, r \in 0..Freq - 1 : r = tr1 % Freq /\ tr1 = Freq * s1 + r
  BY ZenonT(60), <1>0, DivMod
<1>6. PICK s2 \in Int, u \in 0..Freq - 1 : s2 = td \div Freq /\ u = td % Freq /\ td = Freq * s2 + u
  BY ZenonT(60), <1>0, DivMod
<1>7. Rising(t + j) = r /\ PpsTicks(t + d) = u /\ PpsSec(t + d) = s2
  <2>1. PpsSec(t + d) = s2
    BY <1>0, <1>2, <1>6, SecondOfTicks
  <2> QED BY SMTT(30), <1>1, <1>2, <1>5, <1>6, <2>1 DEF Rising, PpsTicks
<1>8. PICK a \in Int, b \in Int : a = Freq * s1 /\ b = Freq * s2
  BY <1>0
<1>9. s2 = s1 \/ s2 = s1 + 1
  <2>1. Freq * s1 < Freq * s2 + Freq
    BY SMTT(30), <1>0, <1>3, <1>4, <1>5, <1>6, <1>8
  <2>2. Freq * (s1 + 1) = a + Freq /\ s1 + 1 \in Int
    BY SMTT(30), <1>0, <1>8
  <2>3. Freq * s2 < Freq * (s1 + 1) + Freq
    BY SMTT(30), <1>0, <1>3, <1>4, <1>5, <1>6, <1>8, <2>2
  <2>4. s1 <= s2 /\ s2 <= s1 + 1
    BY SMTT(30), <1>0, <2>1, <2>2, <2>3, Cancel
  <2> QED BY SMTT(30), <2>4
<1>10. FrameSec(r, t + d) = s1
  <2>1. CASE s2 = s1
    <3>1. r <= u
      BY <1>3, <1>5, <1>6, <1>8, <2>1
    <3>2. ~ (r > f34 /\ u < f4)
      BY <1>4, <3>1
    <3> QED BY SMTT(30), <1>7, <1>f, <2>1, <3>2
  <2>2. CASE s2 = s1 + 1
    <3>1. b = a + Freq
      BY SMTT(30), <1>0, <1>8, <2>2
    <3>2. Freq + u - r <= f4 - 1
      BY SMTT(30), <1>0, <1>3, <1>4, <1>5, <1>6, <1>8, <3>1
    <3>3. r > f34 /\ u < f4
      BY <1>0, <1>4, <3>2
    <3> QED BY SMTT(30), <1>7, <1>f, <2>2, <3>3
  <2> QED BY SMTT(30), <1>9, <2>1, <2>2
<1>11. s1 * Freq + r = tr1
  BY <1>0, <1>5
<1> QED BY <1>1, <1>7, <1>10, <1>11

\* A divisor of the modulus sees the same remainder.
LEMMA LowBits ==
  ASSUME NEW n \in Int, NEW c \in Nat \ {0}, NEW k \in Nat \ {0}, c % k = 0
  PROVE  (n % c) % k = n % k
<1>1. PICK m \in Int : c = k * m
  <2>1. c \in Int
    OBVIOUS
  <2>2. PICK q \in Int, z \in 0..k - 1 : q = c \div k /\ z = c % k /\ c = k * q + z
    BY <2>1, DivNames
  <2>3. PICK p \in Int : p = k * q
    OBVIOUS
  <2>4. c = p
    BY <2>2, <2>3
  <2> QED BY <2>3, <2>4
<1>2. PICK s \in Int, r \in 0..c - 1 : s = n \div c /\ r = n % c /\ n = c * s + r
  BY DivNames
<1>3. PICK w \in Int, v \in 0..k - 1 : w = r \div k /\ v = r % k /\ r = k * w + v
  <2>1. r \in Int
    OBVIOUS
  <2> QED BY <2>1, DivNames
<1>4. m * s + w \in Int /\ n = k * (m * s + w) + v
  <2>1. (k * m) * s = k * (m * s)
    OBVIOUS
  <2>2. k * (m * s + w) = k * (m * s) + k * w
    OBVIOUS
  <2>3. PICK a \in Int, b \in Int : a = k * (m * s) /\ b = k * w
    OBVIOUS
  <2>4. c * s = a
    BY <1>1, <2>1, <2>3, Zenon
  <2>5. n = a + r /\ r = b + v
    BY <1>2, <1>3, <2>3, <2>4, Zenon
  <2>6. n = a + b + v
    BY <2>5
  <2> QED BY <2>2, <2>3, <2>6
<1>5. (k * (m * s + w) + v) % k = v
  BY <1>4, DivIs
<1> QED BY Zenon, <1>2, <1>3, <1>4, <1>5

\* The remainder of the next number.
LEMMA NextMod ==
  ASSUME NEW f \in Int, NEW k \in Nat \ {0}
  PROVE  /\ f % k \in 0..k - 1
         /\ (f + 1) % k = IF f % k = k - 1 THEN 0 ELSE (f % k) + 1
<1>1. PICK q \in Int, g \in 0..k - 1 : q = f \div k /\ g = f % k /\ f = k * q + g
  BY DivNames
<1>2. PICK a \in Int : a = k * q
  OBVIOUS
<1>3. CASE g = k - 1
  <2>1. k * (q + 1) = a + k /\ q + 1 \in Int
    BY <1>2
  <2>2. f + 1 = k * (q + 1) + 0
    BY <1>1, <1>2, <1>3, <2>1
  <2>3. (k * (q + 1) + 0) % k = 0
    BY SMTT(30), <2>1, DivIs
  <2> QED BY <1>1, <1>3, <2>2, <2>3
<1>4. CASE g # k - 1
  <2>1. g + 1 \in 0..k - 1
    BY <1>4
  <2>2. f + 1 = k * q + (g + 1)
    BY <1>1, <1>2
  <2>3. (k * q + (g + 1)) % k = g + 1
    BY Zenon, <2>1, DivIs
  <2> QED BY <1>1, <1>4, <2>2, <2>3
<1> QED BY <1>3, <1>4

\* The low bits tell whether the rising count is one ahead of the falling one.
LEMMA AheadIs ==
  ASSUME NEW n \in Int, NEW f \in Int, n = f \/ n = f + 1
  PROVE  Ahead(n % Freq, f % (FMask + 1)) <=> n = f + 1
<1>0. /\ Freq \in Nat \ {0} /\ FMask \in Nat \ {0}
      /\ FMask + 1 \in Nat \ {0} /\ Freq % (FMask + 1) = 0
  BY RxAssumption
<1>1. (n % Freq) % (FMask + 1) = n % (FMask + 1)
  BY Zenon, <1>0, LowBits
<1>2. PICK g \in 0..FMask : g = f % (FMask + 1)
  <2>1. f % (FMask + 1) \in 0..(FMask + 1) - 1
    BY <1>0, NextMod
  <2> QED BY <1>0, <2>1
<1>3. (f + 1) % (FMask + 1) = IF g = FMask THEN 0 ELSE g + 1
  <2>1. (f + 1) % (FMask + 1) = IF g = (FMask + 1) - 1 THEN 0 ELSE g + 1
    BY Zenon, <1>0, <1>2, NextMod
  <2> QED BY <1>0, <2>1
<1>4. Ahead(n % Freq, f % (FMask + 1)) <=> (n % (FMask + 1)) - g \in {1, -FMask}
  BY <1>1, <1>2 DEF Ahead
<1>5. CASE n = f
  <2>1. (n % (FMask + 1)) - g = 0
    BY <1>0, <1>2, <1>5
  <2> QED BY <1>0, <1>4, <1>5, <2>1
<1>6. CASE n = f + 1
  <2>1. (n % (FMask + 1)) - g \in {1, -FMask}
    <3>1. n % (FMask + 1) = IF g = FMask THEN 0 ELSE g + 1
      BY <1>3, <1>6
    <3> QED BY <1>0, <3>1
  <2> QED BY <1>4, <1>6, <2>1
<1> QED BY <1>5, <1>6

\* The phase that is measured, seen from each of the two transitions.
LEMMA PhasesAre ==
  ASSUME trans \in Transitions, NEW x \in Int, NEW m \in Int, NEW y \in 0..Period - 1,
         x = Period * m + y
  PROVE  LET raw == (x + trans) % Period
             h == Period \div 2
         IN  /\ PhaseR(raw) = y
             /\ PhaseF(raw) = IF y < h THEN y + h ELSE y - h
<1> DEFINE raw == (x + trans) % Period
           h == Period \div 2
<1>0. Period \in Nat \ {0} /\ trans \in 0..Period - 1 /\ h \in Nat /\ Period = 2 * h
  BY RxAssumption
<1>1. raw = IF y + trans < Period THEN y + trans ELSE y + trans - Period
  <2>0. PICK a \in Int : a = Period * m
    BY <1>0
  <2>1. CASE y + trans < Period
    <3>1. y + trans \in 0..Period - 1 /\ x + trans = Period * m + (y + trans)
      BY <1>0, <2>0, <2>1
    <3>3. (Period * m + (y + trans)) % Period = y + trans
      BY Zenon, <1>0, <3>1, DivIs
    <3>2. raw = y + trans
      BY <3>1, <3>3
    <3> QED BY <2>1, <3>2
  <2>2. CASE ~ (y + trans < Period)
    <3>0. Period * (m + 1) = a + Period
      BY <1>0, <2>0
    <3>1. /\ y + trans - Period \in 0..Period - 1 /\ m + 1 \in Int
          /\ x + trans = Period * (m + 1) + (y + trans - Period)
      BY <1>0, <2>0, <2>2, <3>0
    <3>3. (Period * (m + 1) + (y + trans - Period)) % Period = y + trans - Period
      BY Zenon, <1>0, <3>1, DivIs
    <3>2. raw = y + trans - Period
      BY <3>1, <3>3
    <3> QED BY <2>2, <3>2
  <2> QED BY <2>1, <2>2
<1> HIDE DEF raw, h
<1>2. raw - trans = y \/ raw - trans = y - Period
  BY <1>0, <1>1
<1>3. PhaseR(raw) = y
  BY <1>0, <1>2 DEF PhaseR
<1>4. PhaseF(raw) = Wrap(raw - trans + h)
  BY DEF PhaseF, h
<1>5. PhaseF(raw) = IF y < h THEN y + h ELSE y - h
  BY SMTT(30), <1>0, <1>1, <1>4 DEF Wrap
<1> QED BY SMTT(30), <1>3, <1>5 DEF raw, h
-----------------------------------------------------------------------------
(***************************************************************************)
(* The receive timestamp: the stamp                                        *)
(***************************************************************************)
\* Linearising gives the tick and the phase of the moment that the DDMTD saw,
\* whichever way the counters went next to an edge.
LEMMA LinearizedIs ==
  ASSUME trans \in Transitions, NEW t \in Int, NEW e \in Noise, NEW jr \in Jitter, NEW jf \in Jitter
  PROVE  LET r == Rising(t + jr)
             l == Linearized(r, Ahead(r, Falling(t + jf)), Measured(t, e))
         IN  /\ l.nsec \in Int
             /\ l.nsec + (((t + jr) \div Period) - r) = (t + e) \div Period
             /\ l.phase = (t + e) % Period
<1>i. /\ Period \in Nat \ {0} /\ Freq \in Nat \ {0} /\ t + e \in Int /\ t + jr \in Int
  BY RxAssumption
<1>m. PICK m \in Int, y \in 0..Period - 1 :
        m = (t + e) \div Period /\ y = (t + e) % Period /\ t + e = Period * m + y
  BY <1>i, DivNames, Zenon
<1>n. PICK n \in Int : n = (t + jr) \div Period
  BY <1>i, DivNames, Zenon
<1>r. PICK r \in Int : r = n % Freq /\ r = Rising(t + jr)
  <2>1. n % Freq \in Int
    BY SMTT(30), <1>i
  <2> QED BY <1>n, <2>1, Zenon DEF Rising
<1> SUFFICES LET l == Linearized(r, Ahead(r, Falling(t + jf)), Measured(t, e))
             IN  l.nsec \in Int /\ l.nsec + (n - r) = m /\ l.phase = y
  BY SMTT(30), <1>m, <1>n, <1>r
<1>0. /\ Period \in Nat \ {0} /\ Period % 4 = 0
      /\ e \in Int /\ jr \in Int /\ jf \in Int
      /\ 4 * (jr - e) < Period /\ 4 * (e - jr) < Period
      /\ 4 * (jf - e) < Period /\ 4 * (e - jf) < Period
  BY RxAssumption
<1>h. PICK h \in Nat : h = Period \div 2 /\ Period = 2 * h
  BY <1>0
<1>q. PICK q \in Nat : q = Period \div 4 /\ (3 * Period) \div 4 = 3 * q /\ Period = 4 * q
  BY <1>0
<1>x. PICK x \in Int : x = t + e
  BY <1>0
<1>1. PICK raw : raw = Measured(t, e) /\ raw = (x + trans) % Period
  <2>1. trans \in Int
    BY SMTT(30), <1>0, RxAssumption
  <2>2. t + trans + e = x + trans
    BY SMTT(30), <1>0, <1>x, <2>1
  <2> QED BY SMTT(30), <2>2 DEF Measured
<1>2. PhaseR(raw) = y /\ PhaseF(raw) = IF y < h THEN y + h ELSE y - h
  <2>1. x = Period * m + y
    BY <1>x, <1>m
  <2>2. /\ PhaseR((x + trans) % Period) = y
        /\ PhaseF((x + trans) % Period) = IF y < Period \div 2 THEN y + Period \div 2 ELSE y - Period \div 2
    BY <2>1, PhasesAre, ZenonT(60)
  <2> QED BY SMTT(30), <1>1, <1>h, <2>2
<1>3. PICK sr \in Int, sf \in Int : sr = jr - e /\ sf = jf - e
  BY <1>0
<1>s. PICK s \in Int : s = sf - h
  BY <1>h, <1>3
<1>4. n = (x + sr) \div Period /\ (t + jf) - (Period \div 2) = x + s
  <2>1. t + jr = x + sr /\ (t + jf) - h = x + s
    BY SMTT(30), <1>0, <1>x, <1>3, <1>h, <1>s
  <2> QED BY <1>h, <1>n, <2>1
<1>5. /\ 0 <= y + sr /\ y + sr < Period => n = m
      /\ -Period <= y + sr /\ y + sr < 0 => n = m - 1
      /\ Period <= y + sr /\ y + sr < 2 * Period => n = m + 1
  BY SMTT(30), <1>4, <1>x, <1>m, FloorNear
<1>f. PICK f : f = (x + s) \div Period
  BY SMTT(30)
<1>6. /\ 0 <= y + s /\ y + s < Period => f = m
      /\ -Period <= y + s /\ y + s < 0 => f = m - 1
  BY SMTT(30), <1>4, <1>x, <1>m, <1>f, FloorNear
<1>7. Falling(t + jf) = f % (FMask + 1)
  BY <1>4, <1>f, Zenon DEF Falling
<1>8. -q < sr /\ sr < q /\ -q < sf /\ sf < q
  BY SMTT(30), <1>0, <1>3, <1>q
<1>9. NearTransition(PhaseR(raw)) <=> y > 3 * q \/ y < q
  BY SMTT(30), <1>2, <1>q DEF NearTransition
<1>a. h = 2 * q
  BY SMTT(30), <1>h, <1>q
<1>10. CASE ~ (y > 3 * q \/ y < q)
  <2>1. n = m
    BY SMTT(30), <1>5, <1>8, <1>10, <1>q
  <2>2. Linearized(r, Ahead(r, Falling(t + jf)), Measured(t, e)) = [nsec |-> r, phase |-> y]
    BY SMTT(30), <1>1, <1>2, <1>9, <1>10 DEF Linearized
  <2> QED BY SMTT(30), <2>1, <2>2
<1>11. CASE y > 3 * q \/ y < q
  <2> DEFINE ahead == Ahead(r, Falling(t + jf))
             a == IF ahead THEN r - 1 ELSE r
             p == PhaseF(raw) + Period \div 2
  <2>1. Linearized(r, ahead, Measured(t, e)) =
          IF p >= Period THEN [nsec |-> a + 1, phase |-> p - Period]
          ELSE [nsec |-> a, phase |-> p]
    BY SMTT(30), <1>1, <1>9, <1>11 DEF Linearized, ByFalling
  <2>2. ASSUME f \in Int, n = f \/ n = f + 1 PROVE a + (n - r) = f
    <3>1. ahead <=> n = f + 1
      BY SMTT(30), <1>7, <1>r, <2>2, AheadIs
    <3> HIDE DEF ahead
    <3> QED BY SMTT(30), <2>2, <3>1
  <2>3. a \in Int
    OBVIOUS
  <2>p. p = PhaseF(raw) + h
    BY SMTT(30), <1>h
  <2> HIDE DEF a, p, ahead
  <2>4. CASE y > 3 * q
    <3>1. f = m /\ (n = f \/ n = f + 1)
      <4>1. f = m
        BY SMTT(30), <1>6, <1>8, <1>s, <1>a, <1>q, <2>4
      <4>2. n = m \/ n = m + 1
        BY SMTT(30), <1>5, <1>8, <1>q, <2>4
      <4> QED BY SMTT(30), <4>1, <4>2
    <3>2. p = y
      BY SMTT(30), <1>2, <1>a, <1>q, <2>4, <2>p
    <3>3. Linearized(r, ahead, Measured(t, e)) = [nsec |-> a, phase |-> y]
      BY SMTT(30), <1>0, <2>1, <3>2
    <3>4. a + (n - r) = m
      BY SMTT(30), <2>2, <3>1
    <3> QED BY SMTT(30), <2>3, <3>3, <3>4 DEF ahead
  <2>5. CASE y < q
    <3>1. f = m - 1 /\ (n = f \/ n = f + 1)
      <4>1. f = m - 1
        BY SMTT(30), <1>6, <1>8, <1>s, <1>a, <1>q, <2>5
      <4>2. n = m \/ n = m - 1
        BY SMTT(30), <1>5, <1>8, <1>q, <2>5
      <4> QED BY SMTT(30), <4>1, <4>2
    <3>2. p = y + Period
      BY SMTT(30), <1>2, <1>a, <1>q, <2>5, <2>p
    <3>3. Linearized(r, ahead, Measured(t, e)) = [nsec |-> a + 1, phase |-> y]
      <4>1. p >= Period /\ p - Period = y
        BY SMTT(30), <1>0, <3>2
      <4> QED BY SMTT(30), <2>1, <4>1
    <3>4. a + (n - r) = m - 1
      BY SMTT(30), <2>2, <3>1
    <3>5. a + 1 + (n - r) = m /\ a + 1 \in Int
      BY SMTT(30), <2>3, <3>4
    <3> QED BY SMTT(30), <3>3, <3>5 DEF ahead
  <2> QED BY SMTT(30), <1>11, <2>4, <2>5
<1> QED BY SMTT(30), <1>10, <1>11

\* The stamp of a frame in the queue, with an idle shifter.
LEMMA StampIs ==
  ASSUME RxInv, NEW e \in Noise, frame = "queued", NEW correct
  PROVE  LET st == ptpd_netif_linearize_rx_timestamp(hwts, Measured(truth, e), correct)
         IN  (st.sec * Freq + st.nsec) * Period + st.phase - truth = e
<1>0. Period \in Nat \ {0} /\ Freq \in Nat \ {0} /\ e \in Int /\ truth \in Int /\ trans \in Transitions
  BY RxAssumption DEF RxInv
<1>1. PICK jr \in Jitter, jf \in Jitter, d \in Delays :
        /\ hwts.sec = FrameSec(Rising(truth + jr), truth + d) /\ hwts.nsec = Rising(truth + jr)
        /\ hwts.ahead = Ahead(Rising(truth + jr), Falling(truth + jf))
  BY DEF RxInv
<1>2. PICK m \in Int, y \in 0..Period - 1 :
        m = (truth + e) \div Period /\ y = (truth + e) % Period /\ truth + e = Period * m + y
  <2>1. truth + e \in Int
    BY <1>0
  <2> QED BY <1>0, <2>1, DivNames, Zenon
<1>3. PICK n \in Int : n = (truth + jr) \div Period
  <2>1. truth + jr \in Int
    BY SMTT(30), <1>0, RxAssumption
  <2> QED BY SMTT(30), <1>0, <2>1, DivNames
<1>4. PICK r \in 0..Freq - 1, s \in Int :
        /\ r = Rising(truth + jr) /\ r = n % Freq /\ s = FrameSec(r, truth + d)
        /\ s * Freq + r = n
  <2>1. Rising(truth + jr) = n % Freq
    BY SMTT(30), <1>3 DEF Rising
  <2> QED BY SMTT(30), <1>0, <1>3, <2>1, FrameTicks
<1>5. hwts.sec = s /\ hwts.nsec = r /\ hwts.ahead = Ahead(r, Falling(truth + jf))
  BY SMTT(30), <1>1, <1>4
<1> DEFINE l == Linearized(hwts.nsec, hwts.ahead, Measured(truth, e))
<1>6. l.nsec \in Int /\ l.nsec + (n - r) = m /\ l.phase = y
  <2>1. LET k == Linearized(Rising(truth + jr), Ahead(Rising(truth + jr), Falling(truth + jf)),
                            Measured(truth, e))
        IN  /\ k.nsec \in Int
            /\ k.nsec + (((truth + jr) \div Period) - Rising(truth + jr)) = (truth + e) \div Period
            /\ k.phase = (truth + e) % Period
    BY <1>0, LinearizedIs
  <2> QED BY SMTT(30), <1>2, <1>3, <1>4, <1>5, <2>1
<1> DEFINE st == ptpd_netif_linearize_rx_timestamp(hwts, Measured(truth, e), correct)
<1>7. /\ st.sec = IF l.nsec >= Freq THEN s + 1 ELSE s
      /\ st.nsec = IF l.nsec >= Freq THEN l.nsec - Freq ELSE l.nsec
      /\ st.phase = y
  BY ZenonT(60), <1>5, <1>6 DEF ptpd_netif_linearize_rx_timestamp
<1> HIDE DEF st
<1>8. PICK c \in Int : c = l.nsec
  BY <1>6
<1> HIDE DEF l
<1>9. st.sec * Freq + st.nsec = m
  <2>1. PICK v \in Int : v = s * Freq /\ (s + 1) * Freq = v + Freq
    BY SMTT(30), <1>0
  <2>2. CASE c >= Freq
    BY SMTT(30), <1>0, <1>4, <1>6, <1>7, <1>8, <2>1, <2>2
  <2>3. CASE ~ (c >= Freq)
    BY SMTT(30), <1>0, <1>4, <1>6, <1>7, <1>8, <2>1, <2>3
  <2> QED BY SMTT(30), <2>2, <2>3
<1>10. (st.sec * Freq + st.nsec) * Period + st.phase - truth = e
  <2>1. PICK v \in Int : v = m * Period /\ v + y = truth + e
    BY SMTT(30), <1>0, <1>2
  <2>2. v + y - truth = e
    BY <1>0, <2>1
  <2> QED BY SMTT(30), <1>7, <1>9, <2>1, <2>2
<1> QED BY SMTT(30), <1>10 DEF st

\* Every step of the MAC driver and of the socket's reader keeps the invariant.
LEMMA RxStepInv == RxInv /\ [RxNext]_RxVars => RxInv'
<1> SUFFICES ASSUME RxInv, [RxNext]_RxVars PROVE RxInv'
  OBVIOUS
<1>1. ASSUME NEW t \in Times, NEW jr \in Jitter, NEW jf \in Jitter, NEW d \in Delays,
             NEW v \in BOOLEAN, frame = "none", minic_rx_frame(t, jr, jf, d, v)
      PROVE  RxInv'
  <2>1. /\ frame' = "queued" /\ truth' = t /\ stamp' = stamp /\ trans' = trans /\ ~ stamp.correct
        /\ t \in Int
    BY SMTT(30), <1>1, RxAssumption DEF minic_rx_frame, RxInv
  <2>2. /\ hwts'.sec = FrameSec(Rising(t + jr), t + d) /\ hwts'.nsec = Rising(t + jr)
        /\ hwts'.ahead = Ahead(Rising(t + jr), Falling(t + jf))
    BY SMTT(30), <1>1 DEF minic_rx_frame
  <2>3. \E jr2 \in Jitter, jf2 \in Jitter, d2 \in Delays :
          /\ hwts'.sec = FrameSec(Rising(truth' + jr2), truth' + d2)
          /\ hwts'.nsec = Rising(truth' + jr2)
          /\ hwts'.ahead = Ahead(Rising(truth' + jr2), Falling(truth' + jf2))
    BY <2>1, <2>2
  <2> QED BY SMTT(30), <2>1, <2>3 DEF RxInv, StampIsTrue, FrameSec, Rising, Falling, Ahead, PpsSec, PpsTicks
<1>2. ASSUME NEW e \in Noise, StampFrame(Measured(truth, e), FALSE) PROVE RxInv'
  <2>1. /\ frame = "queued" /\ frame' = "stamped" /\ truth' = truth /\ trans' = trans
        /\ stamp' = ptpd_netif_linearize_rx_timestamp(hwts, Measured(truth, e), hwts.valid /\ ~ FALSE)
    BY SMTT(30), <1>2 DEF StampFrame
  <2>2. (stamp'.sec * Freq + stamp'.nsec) * Period + stamp'.phase - truth' = e
    BY SMTT(30), <2>1, StampIs
  <2> QED BY Zenon, <2>1, <2>2 DEF RxInv, StampIsTrue
<1>3. ASSUME NEW raw, StampFrame(raw, TRUE) PROVE RxInv'
  <2>1. frame' = "stamped" /\ truth' = truth /\ trans' = trans /\ stamp'.correct = FALSE
    BY ZenonT(60), <1>3 DEF StampFrame, ptpd_netif_linearize_rx_timestamp
  <2> QED BY <2>1 DEF RxInv, StampIsTrue
<1>4. CASE Consumed
  <2>1. frame' = "none" /\ truth' = 0 /\ trans' = trans /\ stamp'.correct = FALSE
    BY SMTT(30), <1>4 DEF Consumed, NoStamp
  <2> QED BY SMTT(30), <2>1 DEF RxInv, StampIsTrue
<1>5. CASE UNCHANGED RxVars
  BY <1>5 DEF RxVars, RxInv, StampIsTrue, FrameSec, Rising, Falling, Ahead, PpsSec, PpsTicks
<1> QED BY ZenonT(60), <1>1, <1>2, <1>3, <1>4, <1>5 DEF RxNext

\* A stamp marked correct is the time of the frame, for any clock whose period is
\* a multiple of four units and whose frequency is a multiple of the falling
\* counter's range, any transition point, and counters and phases that disagree by
\* less than a quarter of a tick (minic_rx_frame,
\* ptpd_netif_linearize_rx_timestamp).
THEOREM StampsAreTrue == RxSpec => []StampIsTrue
<1>1. RxInit => RxInv
  BY DEF RxInit, RxInv, StampIsTrue, NoStamp
<1>2. RxInv => StampIsTrue
  BY DEF RxInv
<1> QED BY <1>1, <1>2, RxStepInv, PTL DEF RxSpec
-----------------------------------------------------------------------------
(***************************************************************************)
(* The database of SFP parameters                                          *)
(***************************************************************************)
\* A set of naturals that is not empty has a least element.
LEMMA Least ==
  ASSUME NEW S \in SUBSET Nat, NEW n \in S
  PROVE  \E m \in S : \A k \in S : m <= k
<1> DEFINE R == OpToRel(<, Nat)
<1>1. IsWellFoundedOn(R, Nat)
  BY Zenon, NatLessThanWellFounded
<1>2. \A x, y \in Nat : x < y => <<x, y>> \in R
  BY DEF OpToRel
<1> HIDE DEF R
<1>3. S \subseteq Nat /\ S # {}
  OBVIOUS
<1>4. PICK m \in S : \A y \in S : ~ (<<y, m>> \in R)
  BY <1>1, <1>3, WFMin, Zenon
<1>5. \A k \in S : ~ (k < m)
  BY <1>2, <1>3, <1>4, Zenon
<1> QED BY <1>5

\* There is room for an entry.
LEMMA MaxIs == SFPS_MAX \in Nat \ {0}
BY SfpAssumption, Zenon

\* Erased memory reads as a blank entry.
LEMMA ErasedIs == Erased.kind = "blank" /\ Erased \in SfpSlots
BY Zenon DEF Erased, SfpSlots, NoPar

\* What sfp_entry counts: the entries up to the first that is not valid.
LEMMA CountIs ==
  /\ sfpcount \in 0..SFPS_MAX
  /\ \A i \in 1..sfpcount : sfp_valid(slots[i])
  /\ sfpcount < SFPS_MAX => ~ sfp_valid(slots[sfpcount + 1])
<1>0. SFPS_MAX \in Nat
  BY MaxIs
<1> DEFINE Ends == {i \in 1..SFPS_MAX : ~ sfp_valid(slots[i])}
<1>1. \E n \in 0..SFPS_MAX : /\ \A i \in 1..n : sfp_valid(slots[i])
                             /\ n < SFPS_MAX => ~ sfp_valid(slots[n + 1])
  <2>1. CASE Ends = {}
    <3>1. \A i \in 1..SFPS_MAX : sfp_valid(slots[i])
      BY <2>1
    <3>2. ~ (SFPS_MAX < SFPS_MAX) /\ SFPS_MAX \in 0..SFPS_MAX
      BY <1>0
    <3> QED BY <3>1, <3>2
  <2>2. CASE Ends # {}
    <3>1. Ends \in SUBSET Nat
      BY <1>0
    <3>2. PICK e \in Ends : \A k \in Ends : e <= k
      BY Zenon, <2>2, <3>1, Least
    <3>3. e \in 1..SFPS_MAX /\ ~ sfp_valid(slots[e])
      OBVIOUS
    <3>4. PICK n \in 0..SFPS_MAX : e = n + 1
      BY <1>0, <3>3
    <3>5. \A i \in 1..n : sfp_valid(slots[i])
      <4> SUFFICES ASSUME NEW i \in 1..n, ~ sfp_valid(slots[i]) PROVE FALSE
        OBVIOUS
      <4>1. i \in 1..SFPS_MAX
        BY <1>0, <3>4
      <4>2. e <= i
        BY <3>2, <4>1
      <4> QED BY <1>0, <3>4, <4>2
    <3> QED BY <3>3, <3>4, <3>5
  <2> QED BY <2>1, <2>2
<1> HIDE DEF Ends
<1> QED BY <1>1 DEF sfpcount

\* What sfpcount is, for use without its definition.
LEMMA CountNamed ==
  /\ SFPS_MAX \in Nat \ {0}
  /\ \E c \in 0..SFPS_MAX :
       /\ c = sfpcount /\ \A i \in 1..c : sfp_valid(slots[i])
       /\ c < SFPS_MAX => ~ sfp_valid(slots[c + 1])
BY CountIs, SfpAssumption, Zenon

\* The entry that storage_match_sfp stops at.
LEMMA FirstIs ==
  ASSUME NEW pn, \E i \in 1..sfpcount : Stops(pn, i)
  PROVE  First(pn) \in 1..sfpcount /\ Stops(pn, First(pn))
<1>0. PICK c \in 0..SFPS_MAX : c = sfpcount
  BY CountNamed, Zenon
<1>n. c \in Nat
  BY MaxIs
<1> DEFINE Hits == {i \in 1..c : Stops(pn, i)}
<1>1. Hits \in SUBSET Nat /\ Hits # {}
  BY <1>0, <1>n
<1>2. PICK f \in Hits : \A k \in Hits : f <= k
  BY Zenon, <1>1, Least
<1>3. f \in 1..c /\ Stops(pn, f)
  OBVIOUS
<1>4. \A k \in 1..f - 1 : ~ Stops(pn, k)
  <2> SUFFICES ASSUME NEW k \in 1..f - 1, Stops(pn, k) PROVE FALSE
    OBVIOUS
  <2>1. k \in 1..c
    BY <1>n, <1>3
  <2>2. f <= k
    BY <1>2, <2>1
  <2> QED BY <1>n, <1>3, <2>2
<1> HIDE DEF Hits
<1>5. \E i \in 1..sfpcount : Stops(pn, i) /\ \A k \in 1..i - 1 : ~ Stops(pn, k)
  BY <1>0, <1>3, <1>4, Zenon
<1> QED BY <1>5, Zenon DEF First

\* An entry that was recorded.
LEMMA RecordedIs ==
  ASSUME NEW e \in Recorded
  PROVE  /\ e.kind = "good" /\ e.pn \in Parts /\ e.par \in Params(e.pn) /\ e.par # NoPar
         /\ e \in SfpSlots /\ e = Entry(e.pn, e.par)
<1>1. PICK pn \in Parts, v \in Versions : e = [kind |-> "good", pn |-> pn, par |-> <<pn, v>>]
  BY DEF Recorded, Params, Entry
<1>2. pn # ""
  BY ZenonT(60), SfpAssumption
<1> QED BY ZenonT(60), <1>1, <1>2 DEF Params, NoPar, SfpSlots, Entry

\* An entry that is about to be written.
LEMMA EntryIsRecorded ==
  ASSUME NEW pn \in Parts, NEW par \in Params(pn)
  PROVE  Entry(pn, par) \in Recorded /\ Entry(pn, par).pn = pn /\ Entry(pn, par).par = par
BY DEF Recorded, Entry

\* What storage_match_sfp finds: parameters recorded for the part and, if no
\* entry is torn, those of an entry of the part unless there is none.
LEMMA MatchIs ==
  ASSUME SfpTypeOK, NEW pn \in Parts
  PROVE  LET r == storage_match_sfp(pn)
         IN  /\ r.ret = 1 => r.par \in Params(pn)
             /\ (\A i \in 1..sfpcount : slots[i].kind = "good") =>
                  \/ r.ret = 0 /\ r.par = NoPar /\ \A i \in 1..sfpcount : slots[i].pn # pn
                  \/ r.ret = 1 /\ \E i \in 1..sfpcount : slots[i].pn = pn /\ r.par = slots[i].par
<1>1. CASE \A i \in 1..sfpcount : ~ Stops(pn, i)
  <2>1. storage_match_sfp(pn) = [ret |-> 0, par |-> NoPar]
    BY SMTT(30), <1>1 DEF storage_match_sfp
  <2>2. \A i \in 1..sfpcount : slots[i].pn # pn
    BY <1>1 DEF Stops
  <2> QED BY SMTT(30), <2>1, <2>2
<1>2. CASE \E i \in 1..sfpcount : Stops(pn, i)
  <2>1. PICK f : f = First(pn) /\ f \in 1..sfpcount /\ Stops(pn, f)
    BY <1>2, FirstIs
  <2>2. f \in 1..SFPS_MAX /\ sfp_valid(slots[f])
    <3>1. PICK c \in 0..SFPS_MAX : c = sfpcount /\ \A i \in 1..c : sfp_valid(slots[i])
      BY CountNamed, Zenon
    <3>2. f \in 1..c
      BY <2>1, <3>1, Zenon
    <3>3. f \in 1..SFPS_MAX
      BY SMTT(30), <3>2, MaxIs
    <3> QED BY <3>1, <3>2, <3>3, Zenon
  <2>3. CASE slots[f].kind = "torn"
    <3>1. storage_match_sfp(pn) = [ret |-> -1, par |-> NoPar]
      BY SMTT(30), <1>2, <2>1, <2>3 DEF storage_match_sfp
    <3>2. ~ (\A i \in 1..sfpcount : slots[i].kind = "good")
      BY SMTT(30), <2>1, <2>3
    <3> QED BY SMTT(30), <3>1, <3>2
  <2>4. CASE slots[f].kind # "torn"
    <3>1. storage_match_sfp(pn) = [ret |-> 1, par |-> slots[f].par]
      BY SMTT(30), <1>2, <2>1, <2>4 DEF storage_match_sfp
    <3>2. slots[f].kind = "good" /\ slots[f].pn = pn
      BY SMTT(30), <2>1, <2>2, <2>4 DEF Stops, sfp_valid
    <3>3. slots[f].par \in Params(pn)
      BY SMTT(30), <2>2, <3>2, RecordedIs DEF SfpTypeOK
    <3> QED BY SMTT(30), <2>1, <3>1, <3>2, <3>3
  <2> QED BY Zenon, <2>3, <2>4
<1> QED BY ZenonT(60), <1>1, <1>2

\* The entries of a prefix are those counted.
LEMMA PrefixCount ==
  ASSUME NEW n \in 0..SFPS_MAX, Prefix(n)
  PROVE  sfpcount = n /\ (\A i \in 1..n : slots[i].kind = "good") /\ \A i \in 1..SFPS_MAX : slots[i].kind = "good" => i <= n
<1>0. SFPS_MAX \in Nat
  BY MaxIs
<1>1. PICK c \in 0..SFPS_MAX :
        /\ c = sfpcount /\ \A i \in 1..c : sfp_valid(slots[i])
        /\ c < SFPS_MAX => ~ sfp_valid(slots[c + 1])
  BY CountNamed, Zenon
<1>a. \A i \in 1..SFPS_MAX : IF i <= n THEN slots[i].kind = "good" ELSE slots[i].kind = "blank"
  BY SMTT(30), ErasedIs DEF Prefix
<1>2. \A i \in 1..SFPS_MAX : (sfp_valid(slots[i]) <=> i <= n) /\ (slots[i].kind = "good" => i <= n)
  BY SMTT(30), <1>a DEF sfp_valid
<1>3. ~ (c < n)
  <2> SUFFICES ASSUME c < n PROVE FALSE
    OBVIOUS
  <2>1. c + 1 \in 1..SFPS_MAX /\ c + 1 <= n /\ c < SFPS_MAX
    BY SMTT(30), <1>0, <1>1
  <2> QED BY <1>1, <1>2, <2>1
<1>4. ~ (n < c)
  <2> SUFFICES ASSUME n < c PROVE FALSE
    OBVIOUS
  <2>1. n + 1 \in 1..SFPS_MAX /\ ~ (n + 1 <= n) /\ n + 1 \in 1..c
    BY <1>0, <1>1
  <2> QED BY <1>1, <1>2, <2>1
<1>5. c = n
  BY <1>0, <1>3, <1>4
<1>6. \A i \in 1..n : i \in 1..SFPS_MAX /\ i <= n
  BY <1>0
<1> QED BY <1>1, <1>2, <1>5, <1>6, <1>a
\* Nothing is left to do between commands.
LEMMA IdleIs == Idle => job.erase = 0 /\ job.todo = <<>> /\ Len(job.todo) = 0
BY SMTT(30) DEF Idle, NoJob

\* The look-ups of an idle node.
LEMMA InvLooksUp == SfpInv => LookupIsLatest
<1> SUFFICES ASSUME SfpInv, Idle, NEW pn \in Parts
             PROVE  LET r == storage_match_sfp(pn)
                    IN /\ r.ret = 1 => r.par \in Params(pn)
                       /\ ~ failed => r.par = latest[pn] /\ r.ret = (IF latest[pn] = NoPar THEN 0 ELSE 1)
  BY DEF LookupIsLatest
<1>1. PICK r : r = storage_match_sfp(pn)
  OBVIOUS
<1>2. r.ret = 1 => r.par \in Params(pn)
  BY ZenonT(60), <1>1, MatchIs DEF SfpInv
<1>3. ASSUME ~ failed PROVE r.par = latest[pn] /\ r.ret = (IF latest[pn] = NoPar THEN 0 ELSE 1)
  <2>1. PICK n \in 0..SFPS_MAX : Prefix(n)
    BY <1>3, IdleIs DEF SfpInv
  <2>2. /\ sfpcount = n /\ \A i \in 1..n : slots[i].kind = "good" /\ i \in 1..SFPS_MAX
        /\ \A i \in 1..SFPS_MAX : slots[i].kind = "good" => i \in 1..n
    <3>1. (\A i \in 1..n : i \in 1..SFPS_MAX) /\ \A i \in 1..SFPS_MAX : i <= n => i \in 1..n
      BY MaxIs
    <3> QED BY <2>1, <3>1, PrefixCount, Zenon
  <2>3. \/ r.ret = 0 /\ r.par = NoPar /\ \A i \in 1..n : slots[i].pn # pn
        \/ r.ret = 1 /\ \E i \in 1..n : slots[i].pn = pn /\ r.par = slots[i].par
    BY <1>1, <2>2, MatchIs, ZenonT(60) DEF SfpInv
  <2>4. /\ \A i \in 1..SFPS_MAX : slots[i].kind = "good" => latest[slots[i].pn] = slots[i].par
        /\ latest[pn] # NoPar => \E i \in 1..SFPS_MAX : slots[i].kind = "good" /\ slots[i].pn = pn
    <3>1. \A k : k \notin 1..Len(job.todo)
      BY SMTT(30), IdleIs
    <3> QED BY SMTT(30), <1>3, <3>1, IdleIs DEF SfpInv, KeptIsLatest
  <2>5. \A i \in 1..n : slots[i].par # NoPar
    BY <2>2, RecordedIs DEF SfpInv, SfpTypeOK
  <2> QED BY SMTT(30), <2>2, <2>3, <2>4, <2>5
<1> QED BY SMTT(30), <1>1, <1>2, <1>3

\* The invariant speaks of the memory, the job, latest and failed.
LEMMA SfpSame ==
  ASSUME SfpInv, UNCHANGED <<slots, job, latest, failed>>
  PROVE  SfpInv'
BY Zenon DEF SfpInv, SfpTypeOK, KeptIsLatest, Prefix

\* The list that storage_update_sfp makes of the entries it has read.
LEMMA UpdatedIs ==
  ASSUME SfpTypeOK, Readable, NEW pn \in Parts, NEW par \in Params(pn)
  PROVE  /\ Updated(pn, par) \in Seq(Recorded) /\ Len(Updated(pn, par)) = sfpcount
         /\ \A k \in 1..sfpcount : Updated(pn, par)[k] = IF slots[k].pn = pn THEN Entry(pn, par) ELSE slots[k]
<1>1. PICK c \in 0..SFPS_MAX : c = sfpcount
  BY CountNamed, Zenon
<1>2. c \in Nat /\ \A i \in 1..c : i \in 1..SFPS_MAX
  BY SMTT(30), MaxIs
<1>3. \A i \in 1..c : slots[i] \in Recorded
  BY <1>1, <1>2 DEF SfpTypeOK, Readable
<1>4. Updated(pn, par) = [i \in 1..c |-> IF slots[i].pn = pn THEN Entry(pn, par) ELSE slots[i]]
  BY <1>1, Zenon DEF Updated
<1>5. \A i \in 1..c : (IF slots[i].pn = pn THEN Entry(pn, par) ELSE slots[i]) \in Recorded
  BY SMTT(30), <1>3, EntryIsRecorded
<1>6. /\ Updated(pn, par) \in [1..c -> Recorded]
      /\ \A k \in 1..c : Updated(pn, par)[k] = IF slots[k].pn = pn THEN Entry(pn, par) ELSE slots[k]
  BY <1>4, <1>5
<1>7. Updated(pn, par) \in Seq(Recorded) /\ Len(Updated(pn, par)) = c
  <2>1. Updated(pn, par) \in Seq(Recorded)
    BY <1>2, <1>6, SeqDef, Zenon
  <2>2. DOMAIN Updated(pn, par) = 1..c
    BY <1>6, Zenon
  <2> QED BY <1>2, <2>1, <2>2, LenProperties
<1> QED BY <1>1, <1>6, <1>7, Zenon

\* An idle memory that nothing was cut off from.
LEMMA IdlePrefix ==
  ASSUME SfpInv, Idle, ~ failed
  PROVE  \E n \in 0..SFPS_MAX :
           /\ n = sfpcount /\ Prefix(n)
           /\ \A i \in 1..n : i \in 1..SFPS_MAX /\ slots[i].kind = "good"
           /\ \A i \in 1..SFPS_MAX : slots[i].kind = "good" => i \in 1..n
           /\ \A i \in 1..SFPS_MAX : slots[i].kind = "good" => latest[slots[i].pn] = slots[i].par
           /\ \A q \in Parts : latest[q] # NoPar => \E i \in 1..n : slots[i].pn = q
<1>1. PICK n \in 0..SFPS_MAX : Prefix(n)
  BY IdleIs DEF SfpInv
<1>2. (\A i \in 1..n : i \in 1..SFPS_MAX) /\ \A i \in 1..SFPS_MAX : i <= n => i \in 1..n
  BY MaxIs
<1>3. /\ n = sfpcount /\ \A i \in 1..n : i \in 1..SFPS_MAX /\ slots[i].kind = "good"
      /\ \A i \in 1..SFPS_MAX : slots[i].kind = "good" => i \in 1..n
  BY <1>1, <1>2, PrefixCount, Zenon
<1>4. \A k : k \notin 1..Len(job.todo)
  BY SMTT(30), IdleIs
<1>5. /\ \A i \in 1..SFPS_MAX : slots[i].kind = "good" => latest[slots[i].pn] = slots[i].par
      /\ \A q \in Parts : latest[q] # NoPar => \E i \in 1..n : slots[i].pn = q
  BY <1>3, <1>4, IdleIs DEF SfpInv, KeptIsLatest
<1> QED BY <1>1, <1>3, <1>5, ZenonT(60)

\* A command on a part that leaves work to do.
Starts(pn, par, first, todo) ==
  /\ job' = [erase |-> first, todo |-> todo]
  /\ latest' = IF failed \/ job' = NoJob THEN latest ELSE [latest EXCEPT ![pn] = par]

\* The fields of the job that it leaves, and what is recorded.
LEMMA StartsIs ==
  ASSUME NEW pn, NEW par, NEW first, NEW todo, Starts(pn, par, first, todo),
         first # 0 \/ todo # <<>>
  PROVE  /\ job'.erase = first /\ job'.todo = todo
         /\ job' = [erase |-> job'.erase, todo |-> job'.todo]
         /\ latest' = IF failed THEN latest ELSE [latest EXCEPT ![pn] = par]
<1>1. /\ job'.erase = first /\ job'.todo = todo
      /\ job' = [erase |-> job'.erase, todo |-> job'.todo]
  BY DEF Starts
<1>2. job' # NoJob
  BY <1>1 DEF NoJob
<1> QED BY <1>1, <1>2, Zenon DEF Starts

\* What is recorded after that.
LEMMA LatestIs ==
  ASSUME DOMAIN latest = Parts, NEW pn \in Parts, NEW par, latest' = [latest EXCEPT ![pn] = par]
  PROVE  latest'[pn] = par /\ \A q \in Parts : q # pn => latest'[q] = latest[q]
  OBVIOUS

\* A command that rewrites the memory with the parameters of a part replaced.
LEMMA UpdateKeepsDb ==
  ASSUME SfpInv, Idle, NEW pn \in Parts, NEW par \in Params(pn), Readable,
         storage_match_sfp(pn).ret # 0,
         Starts(pn, par, 1, Updated(pn, par)), UNCHANGED <<slots, failed>>
  PROVE  SfpInv'
<1>0. SFPS_MAX \in Nat \ {0} /\ DOMAIN latest = Parts
  BY MaxIs DEF SfpInv, SfpTypeOK
<1>n. 1 # 0
  OBVIOUS
<1>1. job'.erase = 1 /\ job'.todo = Updated(pn, par)
  BY <1>n, StartsIs, Zenon
<1>r. job' = [erase |-> job'.erase, todo |-> job'.todo]
  BY <1>n, StartsIs, Zenon
<1>l. latest' = IF failed THEN latest ELSE [latest EXCEPT ![pn] = par]
  BY <1>n, StartsIs, Zenon
<1>2. /\ job'.todo \in Seq(Recorded) /\ Len(job'.todo) = sfpcount
      /\ \A k \in 1..sfpcount : job'.todo[k] = IF slots[k].pn = pn THEN Entry(pn, par) ELSE slots[k]
  <2>1. SfpTypeOK
    BY Zenon DEF SfpInv
  <2>2. Updated(pn, par) \in Seq(Recorded) /\ Len(Updated(pn, par)) = sfpcount
    BY <2>1, UpdatedIs, Zenon
  <2>3. \A k \in 1..sfpcount : Updated(pn, par)[k] = IF slots[k].pn = pn THEN Entry(pn, par) ELSE slots[k]
    BY <2>1, UpdatedIs, Zenon
  <2> QED BY <1>1, <2>2, <2>3, Zenon
<1>3. SfpTypeOK'
  <2>1. job'.erase \in 0..SFPS_MAX
    BY SMTT(30), <1>0, <1>1
  <2>2. DOMAIN latest' = Parts
    BY SMTT(30), <1>0, <1>l
  <2> QED BY <1>r, <1>2, <2>1, <2>2, ZenonT(60) DEF SfpInv, SfpTypeOK
<1>4. ASSUME ~ failed' PROVE KeptIsLatest' /\ Len(job'.todo) <= SFPS_MAX
                             /\ \A i \in 1..SFPS_MAX : slots'[i] = Erased \/ (i >= job'.erase /\ slots'[i].kind = "good")
  <2>0. ~ failed
    BY <1>4
  <2>1. PICK n \in 0..SFPS_MAX :
           /\ n = sfpcount /\ Prefix(n)
           /\ \A i \in 1..n : i \in 1..SFPS_MAX /\ slots[i].kind = "good"
           /\ \A i \in 1..SFPS_MAX : slots[i].kind = "good" => i \in 1..n
           /\ \A i \in 1..SFPS_MAX : slots[i].kind = "good" => latest[slots[i].pn] = slots[i].par
           /\ \A q \in Parts : latest[q] # NoPar => \E i \in 1..n : slots[i].pn = q
    BY <2>0, IdlePrefix, Zenon
  <2>2. /\ Len(job'.todo) = n /\ 1..Len(job'.todo) = 1..n
        /\ \A k \in 1..n : job'.todo[k] = IF slots[k].pn = pn THEN Entry(pn, par) ELSE slots[k]
    BY <1>2, <2>1, Zenon
  <2>3. latest' = [latest EXCEPT ![pn] = par]
    BY <1>l, <2>0, ZenonT(60)
  <2>l. latest'[pn] = par /\ \A q \in Parts : q # pn => latest'[q] = latest[q]
    BY <1>0, <2>3, LatestIs, Zenon
  <2>4. Entry(pn, par).pn = pn /\ Entry(pn, par).par = par
    BY SMTT(30), EntryIsRecorded
  <2>5. \A k \in 1..n : slots[k].pn \in Parts
    BY <2>1, RecordedIs DEF SfpInv, SfpTypeOK
  <2>6. \A k \in 1..n : latest'[job'.todo[k].pn] = job'.todo[k].par /\ job'.todo[k].pn = slots[k].pn
    <3> SUFFICES ASSUME NEW k \in 1..n
                 PROVE  latest'[job'.todo[k].pn] = job'.todo[k].par /\ job'.todo[k].pn = slots[k].pn
      BY Zenon
    <3>1. CASE slots[k].pn = pn
      BY <2>2, <2>l, <2>4, <3>1, Zenon
    <3>2. CASE slots[k].pn # pn
      <4>1. job'.todo[k] = slots[k]
        BY <2>2, <3>2, Zenon
      <4>2. slots[k].pn \in Parts /\ latest[slots[k].pn] = slots[k].par
        BY <2>1, <2>5, Zenon
      <4> QED BY <2>l, <3>2, <4>1, <4>2, Zenon
    <3> QED BY ZenonT(60), <3>1, <3>2
  <2>7. \E i \in 1..n : slots[i].pn = pn
    BY Zenon, <2>1, MatchIs DEF SfpInv
  <2>8. \A q \in Parts : latest'[q] # NoPar => \E k \in 1..n : job'.todo[k].pn = q
    <3> SUFFICES ASSUME NEW q \in Parts, latest'[q] # NoPar PROVE \E k \in 1..n : slots[k].pn = q
      BY <2>6, Zenon
    <3>1. CASE q = pn
      BY <2>7, <3>1, Zenon
    <3>2. CASE q # pn
      BY <2>1, <2>l, <3>2, Zenon
    <3> QED BY ZenonT(60), <3>1, <3>2
  <2>9. KeptIsLatest'
    BY <1>n, <1>1, <2>2, <2>6, <2>8, Zenon DEF KeptIsLatest
  <2>10. Len(job'.todo) <= SFPS_MAX
    <3>1. n <= SFPS_MAX
      BY MaxIs
    <3> QED BY <2>2, <3>1, Zenon
  <2>11. \A i \in 1..SFPS_MAX : slots'[i] = Erased \/ (i >= job'.erase /\ slots'[i].kind = "good")
    <3>1. \A i \in 1..SFPS_MAX : i >= 1
      BY MaxIs
    <3>2. \A i \in 1..SFPS_MAX : slots[i] = Erased \/ slots[i].kind = "good"
      BY <2>1, Zenon DEF Prefix
    <3> QED BY <1>1, <3>1, <3>2, Zenon
  <2> QED BY SMTT(30), <2>9, <2>10, <2>11
<1> QED BY <1>n, <1>1, <1>3, <1>4, ZenonT(60) DEF SfpInv

\* A list with one write has the place 1 only.
LEMMA OnePlace ==
  ASSUME NEW x, Len(x) = 1
  PROVE  1 \in 1..Len(x) /\ \A k \in 1..Len(x) : k = 1
  OBVIOUS

\* A command that adds the first entry of a part.
LEMMA AddKeepsDb ==
  ASSUME SfpInv, Idle, NEW pn \in Parts, NEW par \in Params(pn),
         storage_match_sfp(pn).ret = 0, sfpcount # SFPS_MAX,
         Starts(pn, par, 0, <<Entry(pn, par)>>), UNCHANGED <<slots, failed>>
  PROVE  SfpInv'
<1>0. SFPS_MAX \in Nat \ {0} /\ DOMAIN latest = Parts
  BY SMTT(30), MaxIs DEF SfpInv, SfpTypeOK
<1>e. Entry(pn, par) \in Recorded /\ Entry(pn, par).pn = pn /\ Entry(pn, par).par = par
  BY EntryIsRecorded
<1>n. <<Entry(pn, par)>> # <<>>
  OBVIOUS
<1>1. job'.erase = 0 /\ job'.todo = <<Entry(pn, par)>>
  BY <1>n, StartsIs, Zenon
<1>r. job' = [erase |-> job'.erase, todo |-> job'.todo]
  BY <1>n, StartsIs, Zenon
<1>l. latest' = IF failed THEN latest ELSE [latest EXCEPT ![pn] = par]
  BY <1>n, StartsIs, ZenonT(60)
<1>2. job'.todo \in Seq(Recorded) /\ Len(job'.todo) = 1 /\ job'.todo[1] = Entry(pn, par)
  BY <1>1, <1>e
<1>3. SfpTypeOK'
  <2>1. job'.erase \in 0..SFPS_MAX
    BY <1>0, <1>1
  <2>2. DOMAIN latest' = Parts
    BY <1>0, <1>l
  <2> QED BY <1>r, <1>2, <2>1, <2>2, ZenonT(60) DEF SfpInv, SfpTypeOK
<1>4. ASSUME ~ failed' PROVE KeptIsLatest' /\ \E n \in 0..SFPS_MAX : Prefix(n)'
  <2>0. ~ failed
    BY <1>4
  <2>1. PICK n \in 0..SFPS_MAX :
           /\ n = sfpcount /\ Prefix(n)
           /\ \A i \in 1..n : i \in 1..SFPS_MAX /\ slots[i].kind = "good"
           /\ \A i \in 1..SFPS_MAX : slots[i].kind = "good" => i \in 1..n
           /\ \A i \in 1..SFPS_MAX : slots[i].kind = "good" => latest[slots[i].pn] = slots[i].par
           /\ \A q \in Parts : latest[q] # NoPar => \E i \in 1..n : slots[i].pn = q
    BY <2>0, IdlePrefix, Zenon
  <2>2. latest' = [latest EXCEPT ![pn] = par]
    BY <1>l, <2>0, Zenon
  <2>l. latest'[pn] = par /\ \A q \in Parts : q # pn => latest'[q] = latest[q]
    BY <1>0, <2>2, LatestIs, Zenon
  <2>3. \A i \in 1..n : slots[i].pn # pn
    <3>1. 0 # 1
      BY SMTT(30)
    <3> QED BY <2>1, <3>1, MatchIs, Zenon DEF SfpInv
  <2>4. \A i \in 1..n : slots[i].pn \in Parts
    BY <2>1, RecordedIs DEF SfpInv, SfpTypeOK
  <2>5. \A k \in 1..Len(job'.todo) : latest'[job'.todo[k].pn] = job'.todo[k].par
    <3>1. \A k \in 1..Len(job'.todo) : k = 1
      BY <1>2, OnePlace, Zenon
    <3> QED BY <1>2, <1>e, <2>l, <3>1, Zenon
  <2>6. \A i \in 1..SFPS_MAX : slots'[i].kind = "good" => latest'[slots'[i].pn] = slots'[i].par
    BY <2>1, <2>l, <2>3, <2>4, ZenonT(60)
  <2>7. \A q \in Parts : latest'[q] # NoPar =>
          \/ \E k \in 1..Len(job'.todo) : job'.todo[k].pn = q
          \/ \E i \in 1..SFPS_MAX : slots'[i].kind = "good" /\ slots'[i].pn = q
    <3> SUFFICES ASSUME NEW q \in Parts, latest'[q] # NoPar
                 PROVE  \/ \E k \in 1..Len(job'.todo) : job'.todo[k].pn = q
                        \/ \E i \in 1..SFPS_MAX : slots'[i].kind = "good" /\ slots'[i].pn = q
      BY Zenon
    <3>1. CASE q = pn
      <4>1. 1 \in 1..Len(job'.todo)
        BY <1>2, OnePlace, Zenon
      <4>2. job'.todo[1].pn = q
        BY <1>2, <1>e, <3>1, Zenon
      <4> QED BY <4>1, <4>2, Zenon
    <3>2. CASE q # pn
      BY <2>1, <2>l, <3>2, Zenon
    <3> QED BY ZenonT(60), <3>1, <3>2
  <2>8. KeptIsLatest'
    BY Zenon, <1>1, <2>5, <2>6, <2>7 DEF KeptIsLatest
  <2>9. n + 1 <= SFPS_MAX
    <3>1. n # SFPS_MAX
      BY <2>1, Zenon
    <3> QED BY <1>0, <3>1
  <2>10. Prefix(n)'
    BY Zenon, <1>2, <2>1, <2>9 DEF Prefix
  <2> QED BY <2>8, <2>10
<1> QED BY ZenonT(60), <1>1, <1>3, <1>4 DEF SfpInv

\* storage_get_sfp when it adds: a new part or another set of parameters.
LEMMA GetKeepsDb ==
  ASSUME SfpInv, NEW pn \in Parts, NEW par \in Params(pn), storage_get_sfp(pn, par)
  PROVE  SfpInv'
<1>0. /\ Idle /\ UNCHANGED <<slots, failed>>
      /\ latest' = IF failed \/ job' = NoJob THEN latest ELSE [latest EXCEPT ![pn] = par]
  BY Zenon DEF storage_get_sfp
<1>1. CASE job' = NoJob
  BY <1>0, <1>1, SfpSame DEF Idle
<1>2. CASE job' # NoJob /\ storage_match_sfp(pn).ret # 0
  <2>1. Readable /\ job' = [erase |-> 1, todo |-> Updated(pn, par)]
    BY <1>2, Zenon DEF storage_get_sfp, storage_update_sfp
  <2>2. Starts(pn, par, 1, Updated(pn, par))
    BY <1>0, <2>1, Zenon DEF Starts
  <2> QED BY <1>0, <1>2, <2>1, <2>2, UpdateKeepsDb, Zenon
<1>3. CASE job' # NoJob /\ storage_match_sfp(pn).ret = 0
  <2>1. sfpcount # SFPS_MAX /\ job' = [erase |-> 0, todo |-> <<Entry(pn, par)>>]
    BY <1>3, Zenon DEF storage_get_sfp
  <2>2. Starts(pn, par, 0, <<Entry(pn, par)>>)
    BY <1>0, <2>1, ZenonT(60) DEF Starts
  <2> QED BY <1>0, <1>3, <2>1, <2>2, AddKeepsDb, Zenon
<1> QED BY <1>1, <1>2, <1>3

\* storage_sfpdb_erase, which forgets every part.
LEMMA ForgetKeepsDb == ASSUME SfpInv, storage_sfpdb_erase PROVE SfpInv'
<1>0. SFPS_MAX \in Nat \ {0}
  BY MaxIs
<1>1. /\ job'.erase = 1 /\ job'.todo = <<>> /\ job' = [erase |-> job'.erase, todo |-> job'.todo]
      /\ latest' = [q \in Parts |-> NoPar] /\ slots' = slots /\ failed' = failed /\ Idle
  BY DEF storage_sfpdb_erase
<1>2. job'.todo \in Seq(Recorded) /\ Len(job'.todo) = 0 /\ job'.erase \in 0..SFPS_MAX
  BY SMTT(30), <1>0, <1>1
<1>3. SfpTypeOK'
  <2>1. DOMAIN latest' = Parts
    BY SMTT(30), <1>1
  <2> QED BY SMTT(30), <1>1, <1>2, <2>1 DEF SfpInv, SfpTypeOK
<1>4. KeptIsLatest'
  <2>1. \A k : k \notin 1..Len(job'.todo)
    BY <1>2
  <2>2. \A q \in Parts : latest'[q] = NoPar
    BY SMTT(30), <1>1
  <2> QED BY <1>1, <2>1, <2>2 DEF KeptIsLatest
<1>5. ASSUME ~ failed'
      PROVE  \A i \in 1..SFPS_MAX : slots'[i] = Erased \/ (i >= job'.erase /\ slots'[i].kind = "good")
  <2>1. PICK n \in 0..SFPS_MAX : Prefix(n)
    BY <1>1, <1>5, IdlePrefix
  <2> QED BY SMTT(30), <1>0, <1>1, <2>1 DEF Prefix
<1>6. Len(job'.todo) <= SFPS_MAX
  BY SMTT(30), <1>0, <1>2
<1> QED BY <1>1, <1>3, <1>4, <1>5, <1>6 DEF SfpInv

\* One slot is erased.
LEMMA EraseKeepsDb == ASSUME SfpInv, EraseSlot PROVE SfpInv'
<1>0. SFPS_MAX \in Nat \ {0} /\ Erased.kind = "blank" /\ Erased \in SfpSlots
  BY MaxIs, ErasedIs
<1>1. PICK e \in 1..SFPS_MAX : e = job.erase
  BY <1>0 DEF SfpInv, SfpTypeOK, EraseSlot
<1>2. /\ job'.erase = (IF e = SFPS_MAX THEN 0 ELSE e + 1) /\ job'.todo = job.todo
      /\ job' = [erase |-> job'.erase, todo |-> job'.todo]
  BY <1>1 DEF EraseSlot, SfpInv, SfpTypeOK
<1>3. slots' = [slots EXCEPT ![e] = Erased] /\ latest' = latest /\ failed' = failed
  BY SMTT(30), <1>1 DEF EraseSlot
<1>4. /\ slots' \in [1..SFPS_MAX -> SfpSlots]
      /\ \A i \in 1..SFPS_MAX : slots'[i] = IF i = e THEN Erased ELSE slots[i]
  BY SMTT(30), <1>0, <1>3 DEF SfpInv, SfpTypeOK
<1>5. SfpTypeOK'
  <2>1. job'.erase \in 0..SFPS_MAX
    BY SMTT(30), <1>0, <1>2
  <2>2. \A i \in 1..SFPS_MAX : slots'[i].kind = "good" => slots'[i] \in Recorded
    BY SMTT(30), <1>0, <1>4 DEF SfpInv, SfpTypeOK
  <2> QED BY SMTT(30), <1>2, <1>3, <1>4, <2>1, <2>2 DEF SfpInv, SfpTypeOK
<1>6. ASSUME ~ failed'
      PROVE  /\ KeptIsLatest'
             /\ IF job'.erase = 0 THEN \E n \in 0..SFPS_MAX : Prefix(n)'
                ELSE /\ Len(job'.todo) <= SFPS_MAX
                     /\ \A i \in 1..SFPS_MAX : slots'[i] = Erased \/ (i >= job'.erase /\ slots'[i].kind = "good")
  <2>1. /\ KeptIsLatest /\ Len(job.todo) <= SFPS_MAX
        /\ \A i \in 1..SFPS_MAX : slots[i] = Erased \/ (i >= e /\ slots[i].kind = "good")
    BY <1>0, <1>1, <1>3, <1>6 DEF SfpInv
  <2>2. CASE e = SFPS_MAX
    <3>1. \A i \in 1..SFPS_MAX : slots'[i] = Erased
      BY SMTT(30), <1>0, <1>4, <2>1, <2>2
    <3>2. job'.erase = 0
      BY SMTT(30), <1>2, <2>2
    <3>3. KeptIsLatest'
      BY SMTT(30), <1>0, <1>1, <1>2, <1>3, <2>1, <3>1 DEF KeptIsLatest
    <3>4. Prefix(0)'
      <4>1. Len(job'.todo) \in Nat /\ 0 + Len(job'.todo) <= SFPS_MAX
        BY <1>0, <1>2, <2>1 DEF SfpInv, SfpTypeOK
      <4> QED BY SMTT(30), <1>0, <3>1, <4>1 DEF Prefix
    <3>5. 0 \in 0..SFPS_MAX
      BY SMTT(30), <1>0
    <3> QED BY <3>2, <3>3, <3>4, <3>5, ZenonT(60)
  <2>3. CASE e # SFPS_MAX
    <3>1. job'.erase = e + 1 /\ job'.erase # 0
      BY SMTT(30), <1>0, <1>2, <2>3
    <3>2. \A i \in 1..SFPS_MAX : slots'[i] = Erased \/ (i >= job'.erase /\ slots'[i].kind = "good")
      BY SMTT(30), <1>0, <1>4, <2>1, <3>1
    <3>3. KeptIsLatest'
      BY <1>0, <1>1, <1>2, <1>3, <2>1, <3>1 DEF KeptIsLatest
    <3> QED BY SMTT(30), <1>2, <2>1, <3>1, <3>2, <3>3
  <2> QED BY SMTT(30), <2>2, <2>3
<1> QED BY <1>5, <1>6 DEF SfpInv

\* An entry marked torn or partial by a power failure.
LEMMA SpoiltIs ==
  ASSUME NEW e \in SfpSlots, NEW k \in {"blank", "partial", "torn"}
  PROVE  [e EXCEPT !.kind = k] \in SfpSlots /\ [e EXCEPT !.kind = k].kind = k
BY Zenon DEF SfpSlots

\* Another slot keeps the types, unless it reads well and was never recorded.
LEMMA SlotKeepsTypes ==
  ASSUME SfpTypeOK, NEW i \in 1..SFPS_MAX, NEW e \in SfpSlots, e.kind = "good" => e \in Recorded,
         slots' = [slots EXCEPT ![i] = e]
  PROVE  /\ slots' \in [1..SFPS_MAX -> SfpSlots]
         /\ \A k \in 1..SFPS_MAX : slots'[k] = IF k = i THEN e ELSE slots[k]
         /\ \A k \in 1..SFPS_MAX : slots'[k].kind = "good" => slots'[k] \in Recorded
<1>1. slots \in [1..SFPS_MAX -> SfpSlots] /\ \A k \in 1..SFPS_MAX : slots[k].kind = "good" => slots[k] \in Recorded
  BY SMTT(30) DEF SfpTypeOK
<1> QED BY SMTT(30), <1>1
\* What is left of the list once its first entry has been added.
LEMMA RestOfTodo ==
  ASSUME SfpTypeOK, job.todo # <<>>
  PROVE  /\ Head(job.todo) \in Recorded /\ Head(job.todo) = job.todo[1]
         /\ Tail(job.todo) \in Seq(Recorded) /\ Len(job.todo) \in Nat /\ Len(job.todo) >= 1
         /\ Len(Tail(job.todo)) = Len(job.todo) - 1
         /\ \A k \in 1..Len(Tail(job.todo)) : Tail(job.todo)[k] = job.todo[k + 1]
<1>1. job.todo \in Seq(Recorded)
  BY DEF SfpTypeOK
<1>2. Len(job.todo) \in Nat \ {0}
  BY <1>1, EmptySeq
<1>3. 1 \in 1..Len(job.todo)
  BY SMTT(30), <1>2
<1>4. Head(job.todo) = job.todo[1] /\ job.todo[1] \in Recorded
  BY <1>1, <1>3, ElementOfSeq DEF Head
<1> QED BY SMTT(30), <1>1, <1>2, <1>4, HeadTailProperties

\* An entry is written whole.
LEMMA AddingKeepsDb ==
  ASSUME SfpInv, job.erase = 0, job.todo # <<>>, NEW e \in Over(slots[sfpcount + 1], Head(job.todo)),
         sfpcount # SFPS_MAX, slots' = [slots EXCEPT ![sfpcount + 1] = e],
         job' = [job EXCEPT !.todo = Tail(@)], UNCHANGED <<latest, failed>>
  PROVE  SfpInv'
<1>0. SFPS_MAX \in Nat \ {0} /\ Erased.kind = "blank"
  BY MaxIs, ErasedIs
<1>1. PICK c \in 0..SFPS_MAX : c = sfpcount
  BY CountNamed, Zenon
<1>2. PICK h \in Recorded : h = Head(job.todo) /\ h = job.todo[1]
  BY RestOfTodo DEF SfpInv
<1>3. h.kind = "good" /\ h \in SfpSlots
  BY <1>2, RecordedIs
<1>4. /\ e = h \/ e = [h EXCEPT !.kind = "torn"]
      /\ slots[c + 1].kind # "partial" => e = h
  BY <1>1, <1>2, Zenon DEF Over
<1>5. e \in SfpSlots /\ (e.kind = "good" => e \in Recorded)
  <2>1. [h EXCEPT !.kind = "torn"] \in SfpSlots /\ [h EXCEPT !.kind = "torn"].kind = "torn"
    BY Zenon, <1>3, SpoiltIs
  <2> QED BY Zenon, <1>2, <1>3, <1>4, <2>1
<1>6. c + 1 \in 1..SFPS_MAX
  <2>1. c # SFPS_MAX
    BY <1>1, Zenon
  <2> QED BY <1>0, <2>1
<1>7. slots' = [slots EXCEPT ![c + 1] = e]
  BY <1>1, Zenon
<1>8. /\ slots' \in [1..SFPS_MAX -> SfpSlots]
      /\ \A k \in 1..SFPS_MAX : slots'[k] = IF k = c + 1 THEN e ELSE slots[k]
      /\ \A k \in 1..SFPS_MAX : slots'[k].kind = "good" => slots'[k] \in Recorded
  <2>1. SfpTypeOK
    BY DEF SfpInv
  <2> HIDE DEF SfpTypeOK
  <2> QED BY Zenon, <1>5, <1>6, <1>7, <2>1, SlotKeepsTypes
<1>9. /\ job'.erase = 0 /\ job'.todo = Tail(job.todo)
      /\ job' = [erase |-> job'.erase, todo |-> job'.todo]
  BY Zenon DEF SfpInv, SfpTypeOK
<1>10. /\ job'.todo \in Seq(Recorded) /\ Len(job.todo) \in Nat /\ Len(job.todo) >= 1
       /\ Len(job'.todo) = Len(job.todo) - 1
       /\ \A k \in 1..Len(job'.todo) : job'.todo[k] = job.todo[k + 1]
  BY <1>9, RestOfTodo DEF SfpInv
<1>11. SfpTypeOK'
  <2>1. job'.erase \in 0..SFPS_MAX
    BY <1>0, <1>9
  <2> QED BY SMTT(30), <1>8, <1>9, <1>10, <2>1 DEF SfpInv, SfpTypeOK
<1>12. ASSUME ~ failed' PROVE KeptIsLatest' /\ \E n \in 0..SFPS_MAX : Prefix(n)'
  <2>1. KeptIsLatest /\ \E n \in 0..SFPS_MAX : Prefix(n)
    BY <1>12 DEF SfpInv
  <2>2. PICK n \in 0..SFPS_MAX : Prefix(n)
    BY <2>1
  <2>3. n = c
    BY <1>1, <2>2, PrefixCount, Zenon
  <2>4. slots[c + 1] = Erased
    <3>1. ~ (c + 1 <= c)
      BY <1>0
    <3> QED BY <1>6, <2>2, <2>3, <3>1 DEF Prefix
  <2>5. e = h
    BY <1>0, <1>4, <2>4
  <2>6. 1 \in 1..Len(job.todo) /\ \A k \in 1..Len(job'.todo) : k + 1 \in 1..Len(job.todo)
    BY <1>10
  <2>7. latest[h.pn] = h.par
    BY SMTT(30), <1>2, <2>1, <2>6 DEF KeptIsLatest
  <2>8. \A k \in 1..Len(job'.todo) : latest'[job'.todo[k].pn] = job'.todo[k].par
    BY SMTT(30), <1>10, <2>1, <2>6 DEF KeptIsLatest
  <2>9. \A i \in 1..SFPS_MAX : slots'[i].kind = "good" => latest'[slots'[i].pn] = slots'[i].par
    BY SMTT(30), <1>8, <2>1, <2>5, <2>7 DEF KeptIsLatest
  <2>10. \A q \in Parts : latest'[q] # NoPar =>
           \/ \E k \in 1..Len(job'.todo) : job'.todo[k].pn = q
           \/ \E i \in 1..SFPS_MAX : slots'[i].kind = "good" /\ slots'[i].pn = q
    <3> SUFFICES ASSUME NEW q \in Parts, latest[q] # NoPar
                 PROVE  \/ \E k \in 1..Len(job'.todo) : job'.todo[k].pn = q
                        \/ \E i \in 1..SFPS_MAX : slots'[i].kind = "good" /\ slots'[i].pn = q
      OBVIOUS
    <3>1. CASE \E k \in 1..Len(job.todo) : job.todo[k].pn = q
      <4>1. PICK k \in 1..Len(job.todo) : job.todo[k].pn = q
        BY <3>1
      <4>2. CASE k = 1
        BY SMTT(30), <1>2, <1>3, <1>6, <1>8, <2>5, <4>1, <4>2
      <4>3. CASE k # 1
        <5>1. PICK j \in 1..Len(job'.todo) : k = j + 1
          <6>1. k - 1 \in 1..Len(job'.todo) /\ k = (k - 1) + 1
            BY <1>10, <4>3
          <6> QED BY <6>1
        <5> QED BY <1>10, <4>1, <5>1
      <4> QED BY <4>2, <4>3
    <3>2. CASE \E i \in 1..SFPS_MAX : slots[i].kind = "good" /\ slots[i].pn = q
      <4>1. PICK i \in 1..SFPS_MAX : slots[i].kind = "good" /\ slots[i].pn = q
        BY <3>2
      <4>2. i # c + 1
        BY SMTT(30), <1>0, <2>4, <4>1
      <4> QED BY SMTT(30), <1>8, <4>1, <4>2
    <3> QED BY SMTT(30), <2>1, <3>1, <3>2 DEF KeptIsLatest
  <2>11. KeptIsLatest'
    BY SMTT(30), <1>9, <2>8, <2>9, <2>10 DEF KeptIsLatest
  <2>12. Prefix(c + 1)'
    <3>1. c + 1 + Len(job'.todo) <= SFPS_MAX
      BY SMTT(30), <1>0, <1>10, <2>2, <2>3 DEF Prefix
    <3>2. \A i \in 1..SFPS_MAX : IF i <= c + 1 THEN slots'[i].kind = "good" ELSE slots'[i] = Erased
      <4> SUFFICES ASSUME NEW i \in 1..SFPS_MAX
                   PROVE  IF i <= c + 1 THEN slots'[i].kind = "good" ELSE slots'[i] = Erased
        OBVIOUS
      <4>1. IF i <= c THEN slots[i].kind = "good" ELSE slots[i] = Erased
        BY <2>2, <2>3 DEF Prefix
      <4>2. i <= c + 1 <=> (i <= c \/ i = c + 1)
        BY <1>0
      <4> QED BY <1>3, <1>8, <2>5, <4>1, <4>2
    <3> QED BY <3>1, <3>2 DEF Prefix
  <2>13. c + 1 \in 0..SFPS_MAX
    BY <1>0, <1>6
  <2> QED BY <2>11, <2>12, <2>13
<1> QED BY <1>9, <1>11, <1>12 DEF SfpInv

\* sfp_entry with SFP_ADD; a list never runs into a full memory unless a power
\* failure left more in it than was counted.
LEMMA AddEntryKeepsDb == ASSUME SfpInv, AddEntry PROVE SfpInv'
<1>1. CASE sfpcount # SFPS_MAX
  BY <1>1, AddingKeepsDb, ZenonT(60) DEF AddEntry
<1>2. CASE sfpcount = SFPS_MAX
  <2>0. SFPS_MAX \in Nat \ {0}
    BY MaxIs
  <2>1. job' = NoJob /\ UNCHANGED <<slots, latest, failed>>
    BY <1>2, Zenon DEF AddEntry
  <2>2. failed
    <3> SUFFICES ASSUME ~ failed PROVE FALSE
      OBVIOUS
    <3>1. PICK n \in 0..SFPS_MAX : Prefix(n)
      BY DEF AddEntry, SfpInv
    <3>2. n = SFPS_MAX
      BY <1>2, <3>1, PrefixCount, Zenon
    <3>3. Len(job.todo) \in Nat /\ Len(job.todo) >= 1
      BY SMTT(30), RestOfTodo DEF AddEntry, SfpInv
    <3> QED BY <2>0, <3>1, <3>2, <3>3 DEF Prefix
  <2>3. /\ job'.erase = 0 /\ job'.todo = <<>> /\ job' = [erase |-> job'.erase, todo |-> job'.todo]
        /\ job'.todo \in Seq(Recorded) /\ job'.erase \in 0..SFPS_MAX
    BY SMTT(30), <2>0, <2>1 DEF NoJob
  <2> QED BY SMTT(30), <2>1, <2>2, <2>3 DEF SfpInv, SfpTypeOK
<1> QED BY <1>1, <1>2

\* The power fails in the middle of a job.
LEMMA CutKeepsDb == ASSUME SfpInv, CutErasing \/ CutAdding PROVE SfpInv'
<1>0. SFPS_MAX \in Nat \ {0}
  BY SMTT(30), MaxIs
<1>t. SfpTypeOK
  BY DEF SfpInv
<1>1. failed' = TRUE /\ job' = NoJob /\ latest' = [pn \in Parts |-> NoPar]
  BY Zenon DEF CutErasing, CutAdding, Restart
<1>2. /\ job'.erase = 0 /\ job'.todo = <<>> /\ job' = [erase |-> job'.erase, todo |-> job'.todo]
      /\ job'.todo \in Seq(Recorded) /\ job'.erase \in 0..SFPS_MAX /\ DOMAIN latest' = Parts
  BY SMTT(30), <1>0, <1>1 DEF NoJob
<1>3. slots' = slots \/ \E i \in 1..SFPS_MAX, e \in SfpSlots : e.kind # "good" /\ slots' = [slots EXCEPT ![i] = e]
  <2>1. CASE CutErasing
    <3>1. PICK i \in 1..SFPS_MAX : i = job.erase
      BY <1>0, <1>t, <2>1 DEF CutErasing, SfpTypeOK
    <3>2. PICK k \in {"blank", "partial", "torn"} : k = IF slots[i].kind = "blank" THEN "blank" ELSE "partial"
      BY Zenon
    <3>3. slots[i] \in SfpSlots
      BY <1>t, <3>1 DEF SfpTypeOK
    <3>4. [slots[i] EXCEPT !.kind = k] \in SfpSlots /\ [slots[i] EXCEPT !.kind = k].kind # "good"
      BY Zenon, <3>3, SpoiltIs
    <3>5. slots' = slots \/ slots' = [slots EXCEPT ![i] = [slots[i] EXCEPT !.kind = k]]
      <4>1. slots' = slots \/ slots' = [slots EXCEPT ![i].kind = IF @ = "blank" THEN @ ELSE "partial"]
        BY <2>1, <3>1, Zenon DEF CutErasing
      <4> QED BY <4>1, <3>2
    <3> QED BY Zenon, <3>4, <3>5
  <2>2. CASE CutAdding
    <3>1. PICK c \in 0..SFPS_MAX : c = sfpcount /\ c < SFPS_MAX
      BY <2>2, CountNamed, Zenon DEF CutAdding
    <3>2. c + 1 \in 1..SFPS_MAX
      BY <1>0, <3>1
    <3>3. Head(job.todo) \in SfpSlots
      BY <1>t, <2>2, RestOfTodo, RecordedIs DEF CutAdding
    <3>4. PICK k \in {"partial", "torn"} :
            slots' = slots \/ slots' = [slots EXCEPT ![c + 1] = [Head(job.todo) EXCEPT !.kind = k]]
      BY <2>2, <3>1, Zenon DEF CutAdding
    <3>5. [Head(job.todo) EXCEPT !.kind = k] \in SfpSlots /\ [Head(job.todo) EXCEPT !.kind = k].kind # "good"
      BY Zenon, <3>3, SpoiltIs
    <3> QED BY Zenon, <3>2, <3>4, <3>5
  <2> QED BY <2>1, <2>2
<1>4. /\ slots' \in [1..SFPS_MAX -> SfpSlots]
      /\ \A k \in 1..SFPS_MAX : slots'[k].kind = "good" => slots'[k] \in Recorded
  <2>1. CASE slots' = slots
    BY SMTT(30), <1>t, <2>1 DEF SfpTypeOK
  <2>2. CASE slots' # slots
    BY SMTT(30), <1>3, <1>t, <2>2, SlotKeepsTypes
  <2> QED BY SMTT(30), <2>1, <2>2
<1> QED BY SMTT(30), <1>1, <1>2, <1>4 DEF SfpInv, SfpTypeOK

\* An empty memory.
LEMMA SfpInitInv == SfpInit => SfpInv
<1> SUFFICES ASSUME SfpInit PROVE SfpInv
  OBVIOUS
<1>0. SFPS_MAX \in Nat \ {0} /\ Erased.kind = "blank" /\ Erased \in SfpSlots
  BY MaxIs, ErasedIs
<1>1. /\ slots = [i \in 1..SFPS_MAX |-> Erased] /\ latest = [pn \in Parts |-> NoPar] /\ failed = FALSE
      /\ job = [erase |-> 0, todo |-> <<>>]
  BY Zenon DEF SfpInit, NoJob
<1>2. /\ job.erase = 0 /\ job.todo = <<>> /\ job = [erase |-> job.erase, todo |-> job.todo]
      /\ job.todo \in Seq(Recorded) /\ job.erase \in 0..SFPS_MAX /\ Len(job.todo) = 0
  BY SMTT(30), <1>0, <1>1
<1>3. (\A i \in 1..SFPS_MAX : slots[i] = Erased) /\ \A pn \in Parts : latest[pn] = NoPar
  BY <1>1
<1>4. SfpTypeOK
  BY ZenonT(60), <1>0, <1>1, <1>2, <1>3 DEF SfpTypeOK
<1>5. KeptIsLatest
  <2>1. \A k : k \notin 1..Len(job.todo)
    BY SMTT(30), <1>2
  <2> QED BY SMTT(30), <1>0, <1>3, <2>1 DEF KeptIsLatest
<1>6. Prefix(0) /\ 0 \in 0..SFPS_MAX
  BY SMTT(30), <1>0, <1>2, <1>3 DEF Prefix
<1> QED BY <1>2, <1>4, <1>5, <1>6 DEF SfpInv

\* Every step of the commands, of the look-up and of the power keeps the invariant.
LEMMA SfpStepInv == SfpInv /\ [SfpNext]_SfpVars => SfpInv'
<1> SUFFICES ASSUME SfpInv, [SfpNext]_SfpVars PROVE SfpInv'
  OBVIOUS
<1>1. ASSUME NEW pn \in Parts, sfp_match(pn) PROVE SfpInv'
  <2>1. UNCHANGED <<slots, job, latest, failed>>
    BY <1>1, Zenon DEF sfp_match
  <2> QED BY <2>1, SfpSame
<1>2. CASE CutIdle
  <2>1. UNCHANGED <<slots, job, latest, failed>>
    BY <1>2, Zenon DEF CutIdle, Idle, Restart
  <2> QED BY <2>1, SfpSame
<1>3. CASE UNCHANGED SfpVars
  BY <1>3, SfpSame DEF SfpVars
<1> QED BY SMTT(30), <1>1, <1>2, <1>3, GetKeepsDb, ForgetKeepsDb, EraseKeepsDb, AddEntryKeepsDb, CutKeepsDb DEF SfpNext

\* A look-up between commands finds the parameters last recorded and, whenever the
\* power failed in the middle of an update, none but those of the part, for any
\* size of the memory, parts, versions and number of failures (storage_match_sfp,
\* storage_update_sfp, sfp_entry).
THEOREM LookupsAreLatest == SfpSpec => []LookupIsLatest
BY SfpInitInv, SfpStepInv, InvLooksUp, PTL DEF SfpSpec
=============================================================================
