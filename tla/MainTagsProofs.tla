--------------------------- MODULE MainTagsProofs ---------------------------
(***************************************************************************)
(* Proofs about the tags of the main PLL (module MainTags), for any        *)
(* counter width, periods and jitter that meet the bounds of the clocks.   *)
(***************************************************************************)
EXTENDS MainTags, TLAPS

(***************************************************************************)
(* The tags (MainTags): arithmetic                                         *)
(***************************************************************************)

\* The constants, as the proofs below use them.
LEMMA TagConstants ==
  /\ MainTagMod \in Nat \ {0} /\ MainPeriod \in Nat \ {0} /\ MainWraparound \in Nat
  /\ MainJitter \in Nat /\ MaxLead \in Nat /\ MaxTagShift \in Nat
  /\ MainJitter < MainPeriod /\ MainPeriod + MainJitter < MainTagMod
  /\ MainWraparound > 2 * MainTagMod /\ MaxTagShift <= MainWraparound
BY MainTagsAssumption

\* Quotient and remainder, named.
LEMMA DivideIs ==
  ASSUME NEW a \in Int, NEW b \in Nat \ {0}
  PROVE  \E q \in Int, r \in 0..b - 1 : q = a \div b /\ r = a % b /\ a = b * q + r
<1>1. a \div b \in Int /\ a % b \in 0..b - 1 /\ a = b * (a \div b) + (a % b)
  OBVIOUS
<1> QED BY <1>1

\* Products of a positive factor compare as their other factors.
LEMMA FactorCancels ==
  ASSUME NEW b \in Nat \ {0}, NEW k \in Int, NEW q \in Int, b * k < b * q + b
  PROVE  k <= q
<1> SUFFICES ASSUME k > q PROVE FALSE
  OBVIOUS
<1>1. PICK d \in Nat : k = q + 1 + d
  <2>1. k - q - 1 \in Nat /\ k = q + 1 + (k - q - 1)
    OBVIOUS
  <2> QED BY <2>1
<1>2. b * k = b * q + b + b * d
  BY <1>1
<1>3. b * d \in Nat /\ b * q \in Int
  OBVIOUS
<1> QED BY <1>2, <1>3

\* A multiple leaves no remainder.
LEMMA MultipleIs ==
  ASSUME NEW b \in Nat \ {0}, NEW k \in Int
  PROVE  (b * k) % b = 0
<1>1. b * k \in Int
  OBVIOUS
<1>2. PICK q \in Int, r \in 0..b - 1 : r = (b * k) % b /\ b * k = b * q + r
  BY <1>1, DivideIs
<1>3. PICK v \in Int, y \in Int : v = b * k /\ y = b * q
  OBVIOUS
<1>4. b * k < b * q + b /\ b * q < b * k + b
  BY <1>2, <1>3
<1>5. k <= q /\ q <= k
  BY <1>4, FactorCancels
<1>6. k = q
  BY <1>5
<1> QED BY <1>2, <1>3, <1>6

\* A wrap of the counter is a whole number of periods.
LEMMA WrapIs == \E q \in Int : MainTagMod = MainPeriod * q
<1>1. PICK q \in Int, r \in 0..MainPeriod - 1 : r = MainTagMod % MainPeriod /\ MainTagMod = MainPeriod * q + r
  <2>1. MainTagMod \in Int /\ MainPeriod \in Nat \ {0}
    BY TagConstants
  <2> QED BY ZenonT(60), <2>1, DivideIs
<1>2. r = 0
  BY <1>1, MainTagsAssumption
<1>3. PICK v \in Int : v = MainPeriod * q
  BY TagConstants
<1> QED BY <1>1, <1>2, <1>3

\* The next tag of a channel, one period on: it wraps at most once.
LEMMA NextTagIs ==
  ASSUME NEW a \in 0..MainTagMod - 1, NEW j \in -MainJitter..MainJitter,
         NEW tag, tag = (a + MainPeriod + j + MainTagMod) % MainTagMod
  PROVE  /\ tag \in 0..MainTagMod - 1
         /\ a > tag => tag = a + MainPeriod + j - MainTagMod
         /\ ~ (a > tag) => tag = a + MainPeriod + j
         /\ tag # a
<1>0. PICK n \in Nat \ {0}, d \in Int : n = MainTagMod /\ d = MainPeriod + j /\ 1 <= d /\ d <= n - 1
  BY TagConstants
<1>1. tag = (a + d + n) % n /\ a \in 0..n - 1
  <2>1. a + MainPeriod + j + MainTagMod = a + d + n
    BY <1>0, TagConstants
  <2> QED BY <1>0, <2>1
<1>2. PICK q \in Int, r \in 0..n - 1 : r = (a + d + n) % n /\ a + d + n = n * q + r
  <2>1. a + d + n \in Int
    BY <1>1
  <2> QED BY Zenon, <2>1, DivideIs
<1>3. q = 1 \/ q = 2
  <2>0. PICK v \in Int : v = n * q
    OBVIOUS
  <2>1. n * q < n * 2 + n /\ n * 1 < n * q + n
    BY <1>0, <1>1, <1>2, <2>0
  <2>2. 1 <= q /\ q <= 2
    BY <2>1, FactorCancels
  <2> QED BY <2>2
<1>4. CASE q = 1
  BY <1>0, <1>1, <1>2, <1>4, TagConstants
<1>5. CASE q = 2
  BY <1>0, <1>1, <1>2, <1>5, TagConstants
<1> QED BY <1>3, <1>4, <1>5

\* The first tag of a channel, next to one of the other: off by a wrap at most.
LEMMA FirstTagIs ==
  ASSUME NEW a \in 0..MainTagMod - 1, NEW j \in -MainJitter..MainJitter,
         NEW tag, tag = (a + j + MainTagMod) % MainTagMod
  PROVE  /\ tag \in 0..MainTagMod - 1
         /\ tag - (a + j) <= MainTagMod /\ -MainTagMod <= tag - (a + j)
<1>0. PICK n \in Nat \ {0} : n = MainTagMod
  BY TagConstants
<1>1. PICK q \in Int, r \in 0..n - 1 : r = (a + j + n) % n /\ a + j + n = n * q + r
  <2>1. a + j + n \in Int
    BY <1>0, TagConstants
  <2> QED BY Zenon, <2>1, DivideIs
<1>2. 0 <= q /\ q <= 2
  <2>1. n * 0 < n * q + n /\ n * q < n * 2 + n
    BY <1>0, <1>1, TagConstants
  <2> QED BY <2>1, FactorCancels
<1>3. q = 0 \/ q = 1 \/ q = 2
  BY <1>2
<1>4. CASE q = 0
  BY <1>0, <1>1, <1>4, TagConstants
<1>5. CASE q = 1
  BY <1>0, <1>1, <1>5, TagConstants
<1>6. CASE q = 2
  BY <1>0, <1>1, <1>6, TagConstants
<1> QED BY <1>3, <1>4, <1>5, <1>6

\* The masked error is the error up to whole periods, and at most half of one.
LEMMA MaskIs ==
  ASSUME NEW t \in Int, NEW k \in Int, NEW e \in Int, e = t + MainPeriod * k
  PROVE  /\ MaskError(e) \in Int /\ (MaskError(e) - t) % MainPeriod = 0
         /\ MaskError(e) >= -(MainPeriod \div 2) /\ MaskError(e) < MainPeriod \div 2
<1>0. PICK n \in Nat \ {0} : n = MainPeriod
  BY TagConstants
<1>1. PICK h \in Int : h = n \div 2 /\ n = 2 * h
  BY <1>0, MainTagsAssumption
<1>2. PICK q \in Int, r \in 0..n - 1 : r = e % n /\ e = n * q + r
  BY ZenonT(60), DivideIs
<1>3. PICK u \in Int, v \in Int : u = n * k /\ v = n * q
  OBVIOUS
<1>m. MaskError(e) = IF r >= h THEN r - n ELSE r
  BY <1>0, <1>1, <1>2, Zenon DEF MaskError
<1>e. e = t + u /\ e = v + r
  BY <1>0, <1>2, <1>3
<1>4. CASE r >= h
  <2>1. MaskError(e) = r - n
    BY <1>4, <1>m
  <2>2. n * (k - q - 1) = u - v - n
    BY <1>3
  <2>3. MaskError(e) - t = n * (k - q - 1) /\ k - q - 1 \in Int
    BY <1>e, <2>1, <2>2
  <2>4. (n * (k - q - 1)) % n = 0
    BY <2>3, MultipleIs
  <2> QED BY <1>0, <1>1, <1>4, <2>1, <2>3, <2>4
<1>5. CASE r < h
  <2>1. MaskError(e) = r
    BY <1>1, <1>5, <1>m
  <2>2. n * (k - q) = u - v
    BY <1>3
  <2>3. MaskError(e) - t = n * (k - q) /\ k - q \in Int
    BY <1>e, <2>1, <2>2
  <2>4. (n * (k - q)) % n = 0
    BY <2>3, MultipleIs
  <2> QED BY <1>0, <1>1, <1>5, <2>1, <2>3, <2>4
<1> QED BY <1>4, <1>5

\* Whole periods, up to less than one.
LEMMA WholeIs ==
  ASSUME NEW d \in Nat
  PROVE  \E k \in Nat : /\ WholePeriods(d) = MainPeriod * k
                        /\ MainPeriod * k \in Nat /\ MainPeriod * k <= d /\ d < MainPeriod * k + MainPeriod
<1>0. PICK n \in Nat \ {0} : n = MainPeriod
  BY TagConstants
<1>1. PICK q \in Int, r \in 0..n - 1 : q = d \div n /\ d = n * q + r
  BY DivideIs
<1>2. PICK v \in Int : v = n * q
  OBVIOUS
<1>3. n * 0 < n * q + n
  BY <1>1, <1>2
<1>4. q \in Nat
  BY <1>3, FactorCancels
<1>5. v \in Nat /\ v <= d /\ d < v + n
  BY <1>1, <1>2, <1>4
<1> QED BY Zenon, <1>0, <1>1, <1>2, <1>4, <1>5 DEF WholePeriods

\* The alignment of the adders R and O under the tags a and b.
AlignedTo(R, O, a, b, r, o) ==
  LET d  == (a + R) - (b + O)
      r1 == IF d > 0 THEN R - WholePeriods(d) ELSE R
      o1 == IF d > 0 THEN O ELSE O - WholePeriods(-d)
      l  == IF r1 < 0 \/ o1 < 0 THEN MainWraparound ELSE 0
  IN  r = r1 + l /\ o = o1 + l

\* Aligning moves the adders by whole periods and brings the two tags within a wrap.
LEMMA AlignIs ==
  ASSUME NEW R \in Nat, NEW O \in Nat, NEW a \in 0..MainTagMod - 1, NEW b \in 0..MainTagMod - 1,
         NEW r, NEW o, AlignedTo(R, O, a, b, r, o)
  PROVE  /\ r \in Nat /\ o \in Nat
         /\ \E k \in Int : r - o = R - O + MainPeriod * k
         /\ (r + a) - (o + b) <= MainTagMod /\ -MainTagMod <= (r + a) - (o + b)
         /\ (r <= R /\ o <= O) \/ r < MainWraparound \/ o < MainWraparound
<1> DEFINE d == (a + R) - (b + O)
<1>0. PICK n \in Nat \ {0}, M \in Nat, W \in Nat :
        n = MainPeriod /\ M = MainTagMod /\ W = MainWraparound /\ n < M /\ 2 * M < W
  BY TagConstants
<1>1. CASE d > 0
  <2>0. d \in Nat
    BY <1>0, <1>1
  <2>1. PICK k \in Nat : /\ WholePeriods(d) = MainPeriod * k
                         /\ MainPeriod * k \in Nat /\ MainPeriod * k <= d /\ d < MainPeriod * k + MainPeriod
    BY <2>0, WholeIs
  <2>2. PICK v \in Nat : v = MainPeriod * k
    BY <2>1
  <2>3. /\ r = (R - v) + (IF R - v < 0 \/ O < 0 THEN W ELSE 0)
        /\ o = O + (IF R - v < 0 \/ O < 0 THEN W ELSE 0)
    BY <1>0, <1>1, <2>1, <2>2 DEF AlignedTo
  <2>4. v <= d /\ d < v + n /\ d \in Int
    BY <1>0, <1>1, <2>1, <2>2
  <2>5. r - o = R - O - v
    BY <2>3
  <2>6. \E z \in Int : r - o = R - O + MainPeriod * z
    <3>1. MainPeriod * (-k) = -v /\ -k \in Int
      BY <1>0, <2>2
    <3>2. r \in Int /\ o \in Int
      BY <1>0, <2>3
    <3>3. r - o = R - O + MainPeriod * (-k)
      BY <2>5, <3>1, <3>2
    <3> QED BY <3>1, <3>3
  <2>7. r \in Nat /\ o \in Nat /\ ((r <= R /\ o <= O) \/ r < W)
    BY <1>0, <2>3, <2>4
  <2>8. (r + a) - (o + b) <= M /\ -M <= (r + a) - (o + b)
    BY <1>0, <2>4, <2>5, <2>7
  <2> QED BY <1>0, <2>6, <2>7, <2>8
<1>2. CASE ~ (d > 0)
  <2>0. -d \in Nat
    BY <1>0, <1>2
  <2>1. PICK k \in Nat : /\ WholePeriods(-d) = MainPeriod * k
                         /\ MainPeriod * k \in Nat /\ MainPeriod * k <= -d /\ -d < MainPeriod * k + MainPeriod
    BY <2>0, WholeIs
  <2>2. PICK v \in Nat : v = MainPeriod * k
    BY <2>1
  <2>3. /\ r = R + (IF R < 0 \/ O - v < 0 THEN W ELSE 0)
        /\ o = (O - v) + (IF R < 0 \/ O - v < 0 THEN W ELSE 0)
    BY <1>0, <1>2, <2>1, <2>2 DEF AlignedTo
  <2>4. v <= -d /\ -d < v + n /\ d \in Int
    BY <1>0, <2>0, <2>1, <2>2
  <2>5. r - o = R - O + v
    BY <2>3
  <2>6. \E z \in Int : r - o = R - O + MainPeriod * z
    BY <2>2, <2>5
  <2>7. r \in Nat /\ o \in Nat /\ ((r <= R /\ o <= O) \/ o < W)
    BY <1>0, <2>3, <2>4
  <2>8. (r + a) - (o + b) <= M /\ -M <= (r + a) - (o + b)
    BY <1>0, <2>4, <2>5, <2>7
  <2> QED BY Zenon, <1>0, <2>6, <2>7, <2>8
<1> QED BY <1>1, <1>2

-----------------------------------------------------------------------------
(***************************************************************************)
(* The tags (MainTags): the records                                        *)
(***************************************************************************)
ChannelIs(c, t, d, a, g) ==
  /\ DOMAIN c = {"tag", "tag_d", "adder", "dt"}
  /\ c.tag = t /\ c.tag_d = d /\ c.adder = a /\ c.dt = g
StateIs(x, cnt, shift, cur, err, fe, pairs) ==
  /\ DOMAIN x = {"ref", "out", "discard_early_cnt", "shift", "phase_shift_current",
                 "err", "freq_error", "pairs"}
  /\ x.discard_early_cnt = cnt /\ x.shift = shift /\ x.phase_shift_current = cur
  /\ x.err = err /\ x.freq_error = fe /\ x.pairs = pairs

Adjusted(cnt, R, O, a, b, r, o) == IF cnt = 1 THEN AlignedTo(R, O, a, b, r, o) ELSE r = R /\ o = O
Rebased(r, o, v) == IF r > 2 * MainWraparound /\ o > 2 * MainWraparound THEN v - MainWraparound ELSE v
Stepped(v, step) == IF Reverse THEN v - step ELSE v + step

\* What a pair leaves: the adders R2 and O2, the error e, the count c2 of pairs
\* to discard, the shift p and the frequency error f.
Measured(a, R, g, b, O, h, cnt, cur, step, R2, O2, e, c2, p, f) ==
  /\ \E r, o : /\ Adjusted(cnt, R, O, a, b, r, o)
               /\ R2 = Stepped(Rebased(r, o, r), step) /\ O2 = Rebased(r, o, o)
               /\ e = MaskError(r + a - o - b)
  /\ c2 = (IF cnt > 0 THEN cnt - 1 ELSE 0) /\ p = cur + step /\ f = h - g

\* All the numbers of a state.
Holds(x, t, a, R, g, u, b, O, h, cnt, sh, cur, er, fe, pr) ==
  ChannelIs(x.ref, t, a, R, g) /\ ChannelIs(x.out, u, b, O, h) /\ StateIs(x, cnt, sh, cur, er, fe, pr)

\* AlignAdders writes two adders, and only on the last discarded pair.
LEMMA AlignRecord ==
  ASSUME NEW x, NEW a, NEW b, NEW R, NEW O, NEW g, NEW h, NEW cnt, NEW sh, NEW cur, NEW er, NEW fe, NEW pr,
         ChannelIs(x.ref, a, a, R, g), ChannelIs(x.out, b, b, O, h), StateIs(x, cnt, sh, cur, er, fe, pr)
  PROVE  \E r, o : /\ Adjusted(cnt, R, O, a, b, r, o)
                   /\ ChannelIs(AlignAdders(x).ref, a, a, r, g) /\ ChannelIs(AlignAdders(x).out, b, b, o, h)
                   /\ StateIs(AlignAdders(x), cnt, sh, cur, er, fe, pr)
<1> DEFINE d  == (a + R) - (b + O)
           r1 == IF d > 0 THEN R - WholePeriods(d) ELSE R
           o1 == IF d > 0 THEN O ELSE O - WholePeriods(-d)
           l  == IF r1 < 0 \/ o1 < 0 THEN MainWraparound ELSE 0
           y  == [x EXCEPT !.ref.adder = r1 + l, !.out.adder = o1 + l]
<1>1. x.ref.tag = a /\ x.ref.adder = R /\ x.out.tag = b /\ x.out.adder = O /\ x.discard_early_cnt = cnt
  BY Zenon DEF ChannelIs, StateIs
<1>2. AlignAdders(x) = IF cnt = 1 THEN y ELSE x
  BY <1>1, Zenon DEF AlignAdders
<1>3. AlignedTo(R, O, a, b, r1 + l, o1 + l)
  BY Zenon DEF AlignedTo
<1>4. PICK r, o : r = r1 + l /\ o = o1 + l
  OBVIOUS
<1>5. AlignedTo(R, O, a, b, r, o) /\ y = [x EXCEPT !.ref.adder = r, !.out.adder = o]
  BY <1>3, <1>4, Zenon
<1> HIDE DEF y, l, r1, o1, d
<1>6. CASE cnt = 1
  <2>1. AlignAdders(x) = y
    BY <1>2, <1>6, Zenon
  <2>2. ChannelIs(y.ref, a, a, r, g) /\ ChannelIs(y.out, b, b, o, h) /\ StateIs(y, cnt, sh, cur, er, fe, pr)
    BY <1>5, Zenon DEF ChannelIs, StateIs
  <2> QED BY <1>5, <1>6, <2>1, <2>2, Zenon DEF Adjusted
<1>7. CASE cnt # 1
  <2>1. AlignAdders(x) = x
    BY <1>2, <1>7, Zenon
  <2>2. Adjusted(cnt, R, O, a, b, R, O)
    BY <1>7, Zenon DEF Adjusted
  <2> QED BY <2>1, <2>2, Zenon
<1> QED BY <1>6, <1>7, Zenon

\* RebaseAdders writes both adders or none.
LEMMA RebaseRecord ==
  ASSUME NEW x, NEW t, NEW u, NEW a, NEW b, NEW r, NEW o, NEW g, NEW h,
         NEW cnt, NEW sh, NEW cur, NEW er, NEW fe, NEW pr,
         ChannelIs(x.ref, t, a, r, g), ChannelIs(x.out, u, b, o, h), StateIs(x, cnt, sh, cur, er, fe, pr)
  PROVE  /\ ChannelIs(RebaseAdders(x).ref, t, a, Rebased(r, o, r), g)
         /\ ChannelIs(RebaseAdders(x).out, u, b, Rebased(r, o, o), h)
         /\ StateIs(RebaseAdders(x), cnt, sh, cur, er, fe, pr)
<1>1. x.ref.adder = r /\ x.out.adder = o
  BY Zenon DEF ChannelIs
<1>2. CASE r > 2 * MainWraparound /\ o > 2 * MainWraparound
  <2>1. RebaseAdders(x) = [x EXCEPT !.ref.adder = @ - MainWraparound, !.out.adder = @ - MainWraparound]
    BY <1>1, <1>2, Zenon DEF RebaseAdders
  <2>2. Rebased(r, o, r) = r - MainWraparound /\ Rebased(r, o, o) = o - MainWraparound
    BY <1>2, Zenon DEF Rebased
  <2>3. PICK v, z : v = r - MainWraparound /\ z = o - MainWraparound
    OBVIOUS
  <2>4. RebaseAdders(x) = [x EXCEPT !.ref.adder = v, !.out.adder = z]
    BY <1>1, <2>1, <2>3, Zenon
  <2>5. PICK y : y = RebaseAdders(x)
    BY SMTT(30)
  <2>6. ChannelIs(y.ref, t, a, v, g) /\ ChannelIs(y.out, u, b, z, h) /\ StateIs(y, cnt, sh, cur, er, fe, pr)
    <3>1. y.ref = [x.ref EXCEPT !.adder = v] /\ y.out = [x.out EXCEPT !.adder = z]
      BY <2>4, <2>5, Zenon DEF StateIs
    <3>2. ChannelIs(y.ref, t, a, v, g)
      BY <3>1, Zenon DEF ChannelIs
    <3>3. ChannelIs(y.out, u, b, z, h)
      BY <3>1, Zenon DEF ChannelIs
    <3>4. StateIs(y, cnt, sh, cur, er, fe, pr)
      BY <2>4, <2>5, Zenon DEF StateIs
    <3> QED BY <3>2, <3>3, <3>4
  <2> QED BY <2>2, <2>3, <2>5, <2>6, Zenon
<1>3. CASE ~ (r > 2 * MainWraparound /\ o > 2 * MainWraparound)
  <2>1. RebaseAdders(x) = x
    BY <1>1, <1>3, Zenon DEF RebaseAdders
  <2>2. Rebased(r, o, r) = r /\ Rebased(r, o, o) = o
    BY <1>3, Zenon DEF Rebased
  <2> QED BY <2>1, <2>2, Zenon
<1> QED BY <1>2, <1>3, Zenon

\* mpll_update with both tags there.
LEMMA PairRecord ==
  ASSUME NEW x, NEW step, NEW a, NEW b, NEW R, NEW O, NEW g, NEW h,
         NEW cnt, NEW sh, NEW cur, NEW er, NEW fe, NEW pr,
         Holds(x, a, a, R, g, b, b, O, h, cnt, sh, cur, er, fe, pr),
         NEW n, n = mpll_pair_tags(x, step)
  PROVE  \E R2, O2, e, c2, p, f : /\ Measured(a, R, g, b, O, h, cnt, cur, step, R2, O2, e, c2, p, f)
                                 /\ Holds(n, -1, a, R2, g, -1, b, O2, h, c2, cur, p, e, f, TRUE)
<1>0. ChannelIs(x.ref, a, a, R, g) /\ ChannelIs(x.out, b, b, O, h) /\ StateIs(x, cnt, sh, cur, er, fe, pr)
  BY Zenon DEF Holds
<1>1. PICK x1 : x1 = AlignAdders(x)
  OBVIOUS
<1>2. PICK r, o : /\ Adjusted(cnt, R, O, a, b, r, o)
                  /\ ChannelIs(x1.ref, a, a, r, g) /\ ChannelIs(x1.out, b, b, o, h)
                  /\ StateIs(x1, cnt, sh, cur, er, fe, pr)
  BY <1>0, <1>1, AlignRecord, Zenon
<1>3. PICK c2, e, f : c2 = (IF cnt > 0 THEN cnt - 1 ELSE 0) /\ e = MaskError(r + a - o - b) /\ f = h - g
  OBVIOUS
<1>4. PICK x2 : x2 = MeasurePair(x1)
  OBVIOUS
<1>5. PICK x3 : x3 = RebaseAdders(x2)
  OBVIOUS
<1>6. n = MoveShifter(x3, step)
  BY <1>1, <1>4, <1>5, Zenon DEF mpll_pair_tags
<1>7. /\ x1.ref.tag = a /\ x1.ref.adder = r /\ x1.ref.dt = g /\ x1.phase_shift_current = cur
      /\ x1.out.tag = b /\ x1.out.adder = o /\ x1.out.dt = h /\ x1.discard_early_cnt = cnt
  BY <1>2, Zenon DEF ChannelIs, StateIs
<1>8. x2 = [x1 EXCEPT !.discard_early_cnt = c2, !.freq_error = f, !.err = e, !.shift = cur,
                      !.pairs = TRUE, !.ref.tag = -1, !.out.tag = -1]
  BY <1>3, <1>4, <1>7, Zenon DEF MeasurePair
<1>9. ChannelIs(x2.ref, -1, a, r, g) /\ ChannelIs(x2.out, -1, b, o, h)
  BY <1>2, <1>8, Zenon DEF ChannelIs, StateIs
<1>10. StateIs(x2, c2, cur, cur, e, f, TRUE)
  BY <1>2, <1>8, Zenon DEF ChannelIs, StateIs
<1>11. PICK r2, o2 : r2 = Rebased(r, o, r) /\ o2 = Rebased(r, o, o)
  OBVIOUS
<1>12. /\ ChannelIs(x3.ref, -1, a, r2, g) /\ ChannelIs(x3.out, -1, b, o2, h)
       /\ StateIs(x3, c2, cur, cur, e, f, TRUE)
  BY <1>5, <1>9, <1>10, <1>11, RebaseRecord, Zenon
<1>13. PICK r3, p3 : r3 = Stepped(r2, step) /\ p3 = cur + step
  OBVIOUS
<1>14. x3.ref.adder = r2 /\ x3.phase_shift_current = cur
  BY <1>12, Zenon DEF ChannelIs, StateIs
<1>15. n = [x3 EXCEPT !.phase_shift_current = p3, !.ref.adder = r3]
  BY <1>6, <1>13, <1>14, Zenon DEF Stepped, MoveShifter
<1>16. ChannelIs(n.ref, -1, a, r3, g) /\ ChannelIs(n.out, -1, b, o2, h) /\ StateIs(n, c2, cur, p3, e, f, TRUE)
  <2>1. ChannelIs(n.ref, -1, a, r3, g)
    <3>1. n.ref = [x3.ref EXCEPT !.adder = r3]
      BY <1>12, <1>15, Zenon DEF StateIs
    <3> QED BY <1>12, <3>1, Zenon DEF ChannelIs
  <2>2. ChannelIs(n.out, -1, b, o2, h)
    BY <1>12, <1>15, Zenon DEF ChannelIs, StateIs
  <2>3. StateIs(n, c2, cur, p3, e, f, TRUE)
    BY <1>12, <1>15, Zenon DEF StateIs
  <2> QED BY <2>1, <2>2, <2>3, Zenon
<1>17. Measured(a, R, g, b, O, h, cnt, cur, step, r3, o2, e, c2, p3, f)
  BY <1>2, <1>3, <1>11, <1>13, Zenon DEF Measured
<1>18. Holds(n, -1, a, r3, g, -1, b, o2, h, c2, cur, p3, e, f, TRUE)
  BY <1>16, Zenon DEF Holds
<1> QED BY <1>17, <1>18, Zenon

\* A tag that finds the other channel without one.
LEMMA LoneRecord ==
  ASSUME NEW y, NEW t, NEW u, NEW a, NEW b, NEW R, NEW O, NEW g, NEW h,
         NEW cnt, NEW sh, NEW cur, NEW er, NEW fe, NEW pr,
         Holds(y, t, a, R, g, u, b, O, h, cnt, sh, cur, er, fe, pr), NEW n,
         n = [y EXCEPT !.err = 0, !.freq_error = 0, !.shift = 0, !.pairs = FALSE]
  PROVE  Holds(n, t, a, R, g, u, b, O, h, cnt, 0, cur, 0, 0, FALSE)
BY Zenon DEF Holds, ChannelIs, StateIs

\* What capturing a tag does to a channel.
CapturedAdder(d, tag, a) == IF d >= 0 /\ d > tag THEN a + MainTagMod ELSE a
CapturedDt(d, tag, g) ==
  IF tag = d THEN g ELSE IF tag - d < 0 THEN tag - d + MainTagMod ELSE tag - d

\* The fields after a tag.
LEMMA CaptureRecord ==
  ASSUME NEW c, NEW t, NEW d, NEW a, NEW g, NEW tag, ChannelIs(c, t, d, a, g)
  PROVE  ChannelIs(CaptureTag(c, tag), tag, tag, CapturedAdder(d, tag, a), CapturedDt(d, tag, g))
<1>1. c.tag_d = d /\ c.adder = a /\ c.dt = g
  BY Zenon DEF ChannelIs
<1>2. PICK v, z : v = CapturedAdder(d, tag, a) /\ z = CapturedDt(d, tag, g)
  OBVIOUS
<1>3. CaptureTag(c, tag) = [tag |-> tag, tag_d |-> tag, adder |-> v, dt |-> z]
  BY <1>1, <1>2, Zenon DEF CaptureTag, CapturedAdder, CapturedDt
<1>4. ChannelIs([tag |-> tag, tag_d |-> tag, adder |-> v, dt |-> z], tag, tag, v, z)
  BY DEF ChannelIs
<1> QED BY <1>2, <1>3, <1>4, Zenon

-----------------------------------------------------------------------------
(***************************************************************************)
(* The tags (MainTags): what is kept                                       *)
(***************************************************************************)
\* Two channels with adders R, O and last tags a, b, at lead l and moved by mv.
Apart(R, O, a, b, l, mv) ==
  /\ R \in Int /\ O \in Int /\ a \in 0..MainTagMod - 1 /\ b \in 0..MainTagMod - 1 /\ l \in Int /\ mv \in Int
  /\ (R + a) - (O + b) - l - mv <= MainTagMod + MaxLead
  /\ -(MainTagMod + MaxLead) <= (R + a) - (O + b) - l - mv
  /\ \E k \in Int : R - O - mv = MainPeriod * k
  /\ O >= 0 /\ R - mv >= 0

\* Capturing the next tag of a channel advances its unwrapped position.
LEMMA CaptureIs ==
  ASSUME NEW a \in 0..MainTagMod - 1, NEW j \in -MainJitter..MainJitter, NEW R \in Int,
         NEW tag, tag = (a + MainPeriod + j + MainTagMod) % MainTagMod,
         NEW R2, R2 = CapturedAdder(a, tag, R), NEW g
  PROVE  /\ tag \in 0..MainTagMod - 1 /\ R2 \in Int /\ R2 + tag = R + a + MainPeriod + j
         /\ R <= R2 /\ R2 <= R + MainTagMod /\ CapturedDt(a, tag, g) = MainPeriod + j
         /\ \E q \in Int : R2 = R + MainPeriod * q
<1>0. PICK n \in Nat \ {0}, M \in Nat : n = MainPeriod /\ M = MainTagMod
  BY TagConstants
<1>1. /\ tag \in 0..M - 1 /\ (a > tag => tag = a + n + j - M)
      /\ (~ (a > tag) => tag = a + n + j) /\ tag # a /\ j \in Int /\ a \in Int /\ a >= 0
  BY <1>0, NextTagIs, TagConstants
<1>2. CASE a > tag
  <2>1. R2 = R + M /\ CapturedDt(a, tag, g) = tag - a + M
    BY <1>0, <1>1, <1>2 DEF CapturedAdder, CapturedDt
  <2>2. PICK q \in Int : M = MainPeriod * q
    BY <1>0, WrapIs
  <2>3. /\ tag \in 0..M - 1 /\ R2 \in Int /\ R2 + tag = R + a + n + j
        /\ R <= R2 /\ R2 <= R + M /\ CapturedDt(a, tag, g) = n + j
    BY <1>1, <1>2, <2>1
  <2>4. \E z \in Int : R2 = R + MainPeriod * z
    BY <2>1, <2>2
  <2> QED BY <1>0, <2>3, <2>4, Zenon
<1>3. CASE ~ (a > tag)
  <2>1. R2 = R /\ CapturedDt(a, tag, g) = tag - a
    BY <1>0, <1>1, <1>3 DEF CapturedAdder, CapturedDt
  <2>2. R2 = R + MainPeriod * 0
    BY <1>0, <2>1
  <2>3. \E q \in Int : R2 = R + MainPeriod * q
    BY <2>2
  <2>4. /\ tag \in 0..M - 1 /\ R2 \in Int /\ R2 + tag = R + a + n + j
        /\ R <= R2 /\ R2 <= R + M /\ CapturedDt(a, tag, g) = n + j
    BY <1>1, <1>3, <2>1
  <2> QED BY <1>0, <2>3, <2>4, Zenon
<1> QED BY <1>2, <1>3

\* A tag of the reference, and one of the output, keep the two apart as before.
LEMMA RefKeeps ==
  ASSUME NEW R, NEW O, NEW a, NEW b, NEW l, NEW mv, Apart(R, O, a, b, l, mv),
         NEW j \in -MainJitter..MainJitter,
         NEW tag, tag = (a + MainPeriod + j + MainTagMod) % MainTagMod,
         NEW R2, R2 = CapturedAdder(a, tag, R)
  PROVE  Apart(R2, O, tag, b, l + (MainPeriod + j), mv) /\ R <= R2 /\ R2 <= R + MainTagMod
<1>0. PICK n \in Nat \ {0}, M \in Nat, L \in Nat : n = MainPeriod /\ M = MainTagMod /\ L = MaxLead /\ j \in Int
  BY TagConstants
<1>1. /\ R \in Int /\ O \in Int /\ a \in 0..M - 1 /\ b \in 0..M - 1 /\ l \in Int /\ mv \in Int
      /\ (R + a) - (O + b) - l - mv <= M + L /\ -(M + L) <= (R + a) - (O + b) - l - mv
      /\ O >= 0 /\ R - mv >= 0
  BY <1>0 DEF Apart
<1>2. PICK k \in Int : R - O - mv = n * k
  BY <1>0 DEF Apart
<1>c. /\ tag \in 0..MainTagMod - 1 /\ R2 \in Int /\ R2 + tag = R + a + MainPeriod + j
      /\ R <= R2 /\ R2 <= R + MainTagMod
      /\ \E q \in Int : R2 = R + MainPeriod * q
  <2>1. a \in 0..MainTagMod - 1
    BY <1>0, <1>1
  <2> QED BY <1>1, <2>1, CaptureIs
<1>3. /\ tag \in 0..M - 1 /\ R2 \in Int /\ R2 + tag = R + a + n + j
      /\ R <= R2 /\ R2 <= R + M
      /\ \E q \in Int : R2 = R + n * q
  BY Zenon, <1>0, <1>c
<1>4. PICK q \in Int : R2 = R + n * q
  BY Zenon, <1>3
<1>5. PICK u \in Int, v \in Int : u = n * k /\ v = n * q
  OBVIOUS
<1>6. n * (k + q) = u + v
  BY <1>5
<1>7. R2 - O - mv = n * (k + q) /\ k + q \in Int
  <2>1. R - O - mv = u /\ R2 = R + v
    BY <1>2, <1>4, <1>5
  <2>2. R2 - O - mv = u + v
    BY <1>1, <2>1
  <2> QED BY <1>6, <2>2
<1>8. (R2 + tag) - (O + b) - (l + (n + j)) - mv = (R + a) - (O + b) - l - mv
  BY <1>0, <1>1, <1>3
<1>9. R2 - mv >= 0 /\ l + (n + j) \in Int
  BY <1>0, <1>1, <1>3
<1> QED BY Zenon, <1>0, <1>1, <1>3, <1>7, <1>8, <1>9 DEF Apart

\* The same for a tag of the output.
LEMMA OutKeeps ==
  ASSUME NEW R, NEW O, NEW a, NEW b, NEW l, NEW mv, Apart(R, O, a, b, l, mv),
         NEW j \in -MainJitter..MainJitter,
         NEW tag, tag = (b + MainPeriod + j + MainTagMod) % MainTagMod,
         NEW O2, O2 = CapturedAdder(b, tag, O)
  PROVE  Apart(R, O2, a, tag, l - (MainPeriod + j), mv) /\ O <= O2 /\ O2 <= O + MainTagMod
<1>0. PICK n \in Nat \ {0}, M \in Nat, L \in Nat : n = MainPeriod /\ M = MainTagMod /\ L = MaxLead /\ j \in Int
  BY TagConstants
<1>1. /\ R \in Int /\ O \in Int /\ a \in 0..M - 1 /\ b \in 0..M - 1 /\ l \in Int /\ mv \in Int
      /\ (R + a) - (O + b) - l - mv <= M + L /\ -(M + L) <= (R + a) - (O + b) - l - mv
      /\ O >= 0 /\ R - mv >= 0
  BY <1>0 DEF Apart
<1>2. PICK k \in Int : R - O - mv = n * k
  BY <1>0 DEF Apart
<1>c. /\ tag \in 0..MainTagMod - 1 /\ O2 \in Int /\ O2 + tag = O + b + MainPeriod + j
      /\ O <= O2 /\ O2 <= O + MainTagMod
      /\ \E q \in Int : O2 = O + MainPeriod * q
  <2>1. b \in 0..MainTagMod - 1
    BY <1>0, <1>1
  <2> QED BY <1>1, <2>1, CaptureIs
<1>3. /\ tag \in 0..M - 1 /\ O2 \in Int /\ O2 + tag = O + b + n + j
      /\ O <= O2 /\ O2 <= O + M
      /\ \E q \in Int : O2 = O + n * q
  BY Zenon, <1>0, <1>c
<1>4. PICK q \in Int : O2 = O + n * q
  BY Zenon, <1>3
<1>5. PICK u \in Int, v \in Int : u = n * k /\ v = n * q
  OBVIOUS
<1>6. n * (k - q) = u - v
  BY <1>5
<1>7. R - O2 - mv = n * (k - q) /\ k - q \in Int
  <2>1. R - O - mv = u /\ O2 = O + v
    BY <1>2, <1>4, <1>5
  <2>2. R - O2 - mv = u - v
    BY <1>1, <2>1
  <2> QED BY <1>6, <2>2
<1>8. (R + a) - (O2 + tag) - (l - (n + j)) - mv = (R + a) - (O + b) - l - mv
  BY <1>0, <1>1, <1>3
<1>9. O2 >= 0 /\ l - (n + j) \in Int
  BY <1>0, <1>1, <1>3
<1> QED BY Zenon, <1>0, <1>1, <1>3, <1>7, <1>8, <1>9 DEF Apart

\* Alignment, rebase and a step of the shifter keep them apart as before, and leave
\* one of the adders low.
LEMMA PairKeeps ==
  ASSUME NEW R, NEW O, NEW a, NEW b, NEW l, NEW mv, Apart(R, O, a, b, l, mv),
         l \in -MaxLead..MaxLead, mv \in -MaxTagShift..MaxTagShift,
         NEW cnt \in Nat, NEW step \in -1..1, cnt > 0 => mv = 0 /\ step = 0,
         R <= Low + 2 * MainTagMod \/ O <= Low + 2 * MainTagMod,
         NEW r, NEW o, Adjusted(cnt, R, O, a, b, r, o),
         NEW R2, R2 = Stepped(Rebased(r, o, r), step), NEW O2, O2 = Rebased(r, o, o)
  PROVE  /\ r \in Int /\ o \in Int /\ \E k \in Int : r - o - mv = MainPeriod * k
         /\ Apart(R2, O2, a, b, l, Stepped(mv, step))
         /\ R2 <= Low \/ O2 <= Low
<1>0. PICK n \in Nat \ {0}, M \in Nat, W \in Nat, L \in Nat, S \in Nat :
        /\ n = MainPeriod /\ M = MainTagMod /\ W = MainWraparound /\ L = MaxLead /\ S = MaxTagShift
        /\ 2 * M < W /\ S <= W /\ Low = 2 * W + 1
  BY TagConstants DEF Low
<1>1. /\ R \in Int /\ O \in Int /\ a \in 0..M - 1 /\ b \in 0..M - 1 /\ l \in Int /\ mv \in Int
      /\ (R + a) - (O + b) - l - mv <= M + L /\ -(M + L) <= (R + a) - (O + b) - l - mv
      /\ O >= 0 /\ R - mv >= 0
  BY <1>0 DEF Apart
<1>2. PICK k \in Int : R - O - mv = n * k
  BY SMTT(30), <1>0 DEF Apart
\* after the alignment
<1>3. /\ r \in Int /\ o \in Int /\ o >= 0 /\ r - mv >= 0
      /\ (r + a) - (o + b) - l - mv <= M + L /\ -(M + L) <= (r + a) - (o + b) - l - mv
      /\ r <= 2 * W + 1 + 2 * M \/ o <= 2 * W + 1 + 2 * M
      /\ \E z \in Int : r - o = R - O + n * z
  <2>1. CASE cnt = 1
    <3>1. mv = 0 /\ R \in Nat /\ O \in Nat
      BY <1>1, <2>1
    <3>2. AlignedTo(R, O, a, b, r, o) /\ a \in 0..MainTagMod - 1 /\ b \in 0..MainTagMod - 1
      BY <1>0, <1>1, <2>1 DEF Adjusted
    <3>3. /\ r \in Nat /\ o \in Nat
          /\ \E z \in Int : r - o = R - O + MainPeriod * z
          /\ (r + a) - (o + b) <= MainTagMod /\ -MainTagMod <= (r + a) - (o + b)
          /\ (r <= R /\ o <= O) \/ r < MainWraparound \/ o < MainWraparound
      BY <3>1, <3>2, AlignIs
    <3>4. \E z \in Int : r - o = R - O + n * z
      BY SMTT(30), <1>0, <3>3
    <3>5. r <= 2 * W + 1 + 2 * M \/ o <= 2 * W + 1 + 2 * M
      BY SMTT(30), <1>0, <1>1, <3>3
    <3>6. (r + a) - (o + b) - l - mv <= M + L /\ -(M + L) <= (r + a) - (o + b) - l - mv
      BY SMTT(30), <1>0, <1>1, <3>1, <3>3
    <3>7. r \in Int /\ o \in Int /\ o >= 0 /\ r - mv >= 0
      BY SMTT(30), <3>1, <3>3
    <3> QED BY Zenon, <3>4, <3>5, <3>6, <3>7
  <2>2. CASE cnt # 1
    <3>1. r = R /\ o = O
      BY <2>2 DEF Adjusted
    <3>2. r - o = R - O + n * 0
      BY <1>1, <3>1
    <3>3. \E z \in Int : r - o = R - O + n * z
      BY <3>2
    <3> QED BY <1>0, <1>1, <3>1, <3>3
  <2> QED BY <2>1, <2>2
<1>4. PICK y \in Int : r - o - mv = n * y
  <2>1. PICK z \in Int : r - o = R - O + n * z
    BY Zenon, <1>3
  <2>2. PICK u \in Int, v \in Int : u = n * k /\ v = n * z
    OBVIOUS
  <2>3. n * (k + z) = u + v
    BY <2>2
  <2>4. R - O - mv = u /\ r - o = R - O + v
    BY SMTT(30), <1>2, <2>1, <2>2
  <2>5. r - o - mv = u + v
    BY SMTT(30), <1>1, <1>3, <2>4
  <2>6. r - o - mv = n * (k + z) /\ k + z \in Int
    BY SMTT(30), <2>3, <2>5
  <2> QED BY <2>6
\* the rebase moves both by the same amount
<1>5. PICK w \in Int : /\ Rebased(r, o, r) = r - w /\ Rebased(r, o, o) = o - w
                       /\ (w = 0 \/ w = W) /\ (w = W => r > 2 * W /\ o > 2 * W)
                       /\ (w # W => ~ (r > 2 * W /\ o > 2 * W))
  <2>1. CASE r > 2 * W /\ o > 2 * W
    <3>1. Rebased(r, o, r) = r - W /\ Rebased(r, o, o) = o - W
      BY SMTT(30), <1>0, <2>1 DEF Rebased
    <3> QED BY SMTT(30), <2>1, <3>1
  <2>2. CASE ~ (r > 2 * W /\ o > 2 * W)
    <3>1. Rebased(r, o, r) = r - 0 /\ Rebased(r, o, o) = o - 0 /\ W # 0
      BY SMTT(30), <1>0, <1>3, <2>2 DEF Rebased
    <3> QED BY SMTT(30), <2>2, <3>1
  <2> QED BY <2>1, <2>2
<1>6. PICK d \in -1..1 : R2 = (r - w) + d /\ Stepped(mv, step) = mv + d
  <2>1. CASE Reverse
    <3>1. R2 = (r - w) - step /\ Stepped(mv, step) = mv - step
      BY SMTT(30), <1>5, <2>1 DEF Stepped
    <3>2. -step \in -1..1 /\ (r - w) - step = (r - w) + (-step) /\ mv - step = mv + (-step)
      BY SMTT(30), <1>1, <1>3
    <3> QED BY SMTT(30), <3>1, <3>2
  <2>2. CASE ~ Reverse
    BY <1>5, <2>2 DEF Stepped
  <2> QED BY SMTT(30), <2>1, <2>2
<1>7. O2 = o - w
  BY SMTT(30), <1>5
<1>8. PICK m2 \in Int : m2 = Stepped(mv, step) /\ m2 = mv + d
  BY SMTT(30), <1>1, <1>6
<1>9. R2 \in Int /\ O2 \in Int /\ O2 >= 0 /\ R2 - m2 >= 0 /\ R2 - O2 - m2 = r - o - mv
      /\ (R2 + a) - (O2 + b) - l - m2 = (r + a) - (o + b) - l - mv
  <2>1. R2 \in Int /\ O2 \in Int /\ R2 = (r - w) + d /\ m2 = mv + d /\ O2 = o - w
    BY <1>0, <1>3, <1>5, <1>6, <1>7, <1>8
  <2>2. R2 - O2 - m2 = r - o - mv /\ (R2 + a) - (O2 + b) - l - m2 = (r + a) - (o + b) - l - mv
    BY SMTT(30), <1>0, <1>1, <1>3, <2>1
  <2>3. O2 >= 0 /\ R2 - m2 >= 0
    <3>1. CASE w = 0
      BY SMTT(30), <1>0, <1>1, <1>3, <2>1, <3>1
    <3>2. CASE w = W
      BY SMTT(30), <1>0, <1>1, <1>3, <1>5, <2>1, <3>2
    <3> QED BY <1>5, <3>1, <3>2
  <2> QED BY <2>1, <2>2, <2>3
<1>10. R2 <= 2 * W + 1 \/ O2 <= 2 * W + 1
  BY <1>0, <1>3, <1>5, <1>6, <1>7
<1>11. Apart(R2, O2, a, b, l, m2)
  BY Zenon, <1>0, <1>1, <1>3, <1>4, <1>9 DEF Apart
<1> QED BY <1>0, <1>3, <1>4, <1>8, <1>10, <1>11

-----------------------------------------------------------------------------
(***************************************************************************)
(* The tags (MainTags): the invariant, as a relation between numbers.  The *)
(* reference has the tag t, the last tag a, the adder R and the spacing g; *)
(* the output u, b, O and h.                                               *)
(***************************************************************************)
MovedBy(cur) == IF Reverse THEN -cur ELSE cur
Typed(t, a, R, g, u, b, O, h, cnt, cur, gr, go, l, ah) ==
  /\ t \in -1..MainTagMod - 1 /\ a \in -1..MainTagMod - 1 /\ R \in Int /\ g \in Int
  /\ u \in -1..MainTagMod - 1 /\ b \in -1..MainTagMod - 1 /\ O \in Int /\ h \in Int
  /\ cnt \in Nat /\ cur \in -MaxTagShift..MaxTagShift /\ gr \in Nat /\ go \in Nat
  /\ l \in -MaxLead..MaxLead /\ ah \in -1..1
WaitAt(t, a, R, u, b, O, cur, gr, go, l, ah) ==
  /\ R = 0 /\ O = 0 /\ cur = 0 /\ l = 0 /\ gr = 0 /\ go = 0
  /\ \/ t = -1 /\ a = -1 /\ u = -1 /\ b = -1 /\ ah = 0
     \/ t = a /\ t >= 0 /\ u = -1 /\ b = -1 /\ ah = 1
     \/ u = b /\ u >= 0 /\ t = -1 /\ a = -1 /\ ah = -1
PairAt(t, a, R, u, b, O, cur, l, ah) ==
  /\ a >= 0 /\ b >= 0 /\ Apart(R, O, a, b, l, MovedBy(cur))
  /\ \/ t = -1 /\ u = -1 /\ (R <= Low \/ O <= Low)
     \/ t = a /\ u = -1 /\ ah >= 0 /\ (O <= Low \/ R <= Low + (1 + ah) * MainTagMod)
     \/ u = b /\ t = -1 /\ ah <= 0 /\ (R <= Low \/ O <= Low + (1 - ah) * MainTagMod)
Kept(t, a, R, g, u, b, O, h, cnt, cur, gr, go, l, ah) ==
  /\ Typed(t, a, R, g, u, b, O, h, cnt, cur, gr, go, l, ah)
  /\ cnt > 0 => cur = 0
  /\ gr > 0 => g = gr
  /\ go > 0 => h = go
  /\ WaitAt(t, a, R, u, b, O, cur, gr, go, l, ah) \/ PairAt(t, a, R, u, b, O, cur, l, ah)

\* A step of the shifter and what it has moved by.
LEMMA MovedIs ==
  ASSUME NEW cur \in Int, NEW step \in Int
  PROVE  MovedBy(cur) \in Int /\ MovedBy(0) = 0 /\ MovedBy(cur + step) = Stepped(MovedBy(cur), step)
<1>1. CASE Reverse
  <2>1. /\ MovedBy(cur) = -cur /\ MovedBy(0) = -0 /\ MovedBy(cur + step) = -(cur + step)
        /\ Stepped(MovedBy(cur), step) = -cur - step
    BY <1>1, Zenon DEF MovedBy, Stepped
  <2> QED BY <2>1
<1>2. CASE ~ Reverse
  BY SMTT(30), <1>2 DEF MovedBy, Stepped
<1> QED BY <1>1, <1>2

\* An edge: where it falls, and how it moves lead; d is the last tag of the
\* channel, f that of the other one.
Falls(d, f, j) == IF d >= 0 THEN d + MainPeriod + j ELSE IF f >= 0 THEN f + j ELSE MainPeriod + j
Shifts(d, f, j) == IF d >= 0 THEN MainPeriod + j ELSE IF f >= 0 THEN j ELSE 0
Spaced(d, j) == IF d >= 0 THEN MainPeriod + j ELSE 0

\* What capturing the edge leaves, and an edge of either channel.
Captured(d, f, R, g, j, tag, R2, g2, gap2) ==
  /\ j \in -MainJitter..MainJitter /\ tag = (Falls(d, f, j) + MainTagMod) % MainTagMod
  /\ R2 = CapturedAdder(d, tag, R) /\ g2 = CapturedDt(d, tag, g) /\ gap2 = Spaced(d, j)
RefEdge(a, R, g, b, j, l, ah, tag, R2, g2, gr2, l2, ah2) ==
  /\ Captured(a, b, R, g, j, tag, R2, g2, gr2)
  /\ l2 = l + Shifts(a, b, j) /\ l2 \in -MaxLead..MaxLead /\ ah2 = ah + 1 /\ ah2 \in -1..1
OutEdge(a, b, O, h, j, l, ah, tag, O2, h2, go2, l2, ah2) ==
  /\ Captured(b, a, O, h, j, tag, O2, h2, go2)
  /\ l2 = l - Shifts(b, a, j) /\ l2 \in -MaxLead..MaxLead /\ ah2 = ah - 1 /\ ah2 \in -1..1

\* A captured tag is a tag, and its spacing an integer and the true one.
LEMMA TagIs ==
  ASSUME NEW d, NEW f, NEW R, NEW g, NEW j, NEW tag, NEW R2, NEW g2, NEW gap2,
         Captured(d, f, R, g, j, tag, R2, g2, gap2),
         d \in -1..MainTagMod - 1, f \in -1..MainTagMod - 1, R \in Int, g \in Int
  PROVE  /\ tag \in 0..MainTagMod - 1 /\ gap2 \in Nat /\ g2 \in Int /\ R2 \in Int
         /\ gap2 > 0 => g2 = gap2
<1> /\ j \in -MainJitter..MainJitter /\ tag = (Falls(d, f, j) + MainTagMod) % MainTagMod
    /\ R2 = CapturedAdder(d, tag, R) /\ g2 = CapturedDt(d, tag, g) /\ gap2 = Spaced(d, j)
  BY Zenon DEF Captured
<1>0. PICK n \in Nat \ {0}, M \in Nat \ {0} : n = MainPeriod /\ M = MainTagMod /\ n + j \in Nat
  BY TagConstants
<1>1. Falls(d, f, j) \in Int
  BY <1>0 DEF Falls
<1>2. tag \in 0..M - 1
  <2>1. PICK x \in Int : x = Falls(d, f, j) + M
    BY <1>0, <1>1
  <2>2. tag = x % M
    BY <1>0, <2>1
  <2> QED BY <2>2
<1>3. Spaced(d, j) \in Nat
  BY <1>0 DEF Spaced
<1>4. CapturedDt(d, tag, g) \in Int /\ CapturedAdder(d, tag, R) \in Int
  BY <1>0, <1>2 DEF CapturedDt, CapturedAdder
<1>5. ASSUME Spaced(d, j) > 0 PROVE CapturedDt(d, tag, g) = Spaced(d, j)
  <2>1. d >= 0
    BY <1>5 DEF Spaced
  <2>2. d \in 0..MainTagMod - 1 /\ tag = (d + MainPeriod + j + MainTagMod) % MainTagMod
    BY SMTT(30), <1>0, <2>1 DEF Falls
  <2>3. CapturedDt(d, tag, g) = MainPeriod + j
    BY SMTT(30), <2>2, CaptureIs
  <2> QED BY <2>1, <2>3 DEF Spaced
<1> QED BY <1>0, <1>2, <1>3, <1>4, <1>5

\* A tag of the reference that finds no tag of the output.
LEMMA RefLone ==
  ASSUME NEW t, NEW a, NEW R, NEW g, NEW u, NEW b, NEW O, NEW h, NEW cnt, NEW cur, NEW gr, NEW go, NEW l, NEW ah,
         Kept(t, a, R, g, u, b, O, h, cnt, cur, gr, go, l, ah), ~ (u >= 0),
         NEW j, NEW tag, NEW R2, NEW g2, NEW gr2, NEW l2, NEW ah2,
         RefEdge(a, R, g, b, j, l, ah, tag, R2, g2, gr2, l2, ah2)
  PROVE  Kept(tag, tag, R2, g2, u, b, O, h, cnt, cur, gr2, go, l2, ah2)
<1>a. /\ j \in -MainJitter..MainJitter /\ tag = (Falls(a, b, j) + MainTagMod) % MainTagMod
      /\ R2 = CapturedAdder(a, tag, R)
  BY Zenon DEF RefEdge, Captured
<1>b. gr2 = Spaced(a, j) /\ l2 = l + Shifts(a, b, j)
  BY Zenon DEF RefEdge, Captured
<1>c. l2 \in -MaxLead..MaxLead /\ ah2 = ah + 1 /\ ah2 \in -1..1
  BY Zenon DEF RefEdge
<1>0. PICK M \in Nat \ {0}, W \in Nat : M = MainTagMod /\ W = MainWraparound /\ Low = 2 * W + 1
  BY SMTT(30), TagConstants DEF Low
<1>1. Typed(t, a, R, g, u, b, O, h, cnt, cur, gr, go, l, ah)
  BY DEF Kept
<1>2. /\ tag \in 0..M - 1 /\ gr2 \in Nat /\ g2 \in Int /\ R2 \in Int
      /\ (gr2 > 0 => g2 = gr2)
  <2>1. a \in -1..MainTagMod - 1 /\ b \in -1..MainTagMod - 1 /\ R \in Int /\ g \in Int
    BY <1>1 DEF Typed
  <2>2. Captured(a, b, R, g, j, tag, R2, g2, gr2)
    BY Zenon DEF RefEdge
  <2>3. tag \in 0..MainTagMod - 1 /\ gr2 \in Nat /\ g2 \in Int /\ R2 \in Int /\ (gr2 > 0 => g2 = gr2)
    BY SMTT(30), <2>1, <2>2, TagIs
  <2> QED BY <1>0, <2>3, Zenon
<1>3. u = -1 /\ ah \in -1..1 /\ tag \in -1..M - 1
  BY SMTT(30), <1>0, <1>1, <1>2 DEF Typed
<1>4. Typed(tag, tag, R2, g2, u, b, O, h, cnt, cur, gr2, go, l2, ah2)
  BY SMTT(30), <1>c, <1>0, <1>1, <1>2, <1>3 DEF Typed
<1>5. CASE WaitAt(t, a, R, u, b, O, cur, gr, go, l, ah)
  <2>0. ah # 1
    BY <1>3, <1>c
  <2>1. R = 0 /\ O = 0 /\ cur = 0 /\ l = 0 /\ go = 0 /\ a = -1 /\ b = -1 /\ ah = 0
    BY <1>5, <2>0, Zenon DEF WaitAt
  <2>2. R2 = 0 /\ l2 = 0 /\ gr2 = 0
    BY SMTT(30), <1>a, <1>b, <2>1 DEF CapturedAdder, Shifts, Spaced
  <2>3. WaitAt(tag, tag, R2, u, b, O, cur, gr2, go, l2, ah2)
    BY SMTT(30), <1>c, <1>2, <1>3, <2>1, <2>2 DEF WaitAt
  <2> QED BY SMTT(30), <1>2, <1>4, <2>3 DEF Kept
<1>6. CASE PairAt(t, a, R, u, b, O, cur, l, ah)
  <2>1. a >= 0 /\ b >= 0 /\ Apart(R, O, a, b, l, MovedBy(cur)) /\ R \in Int /\ O \in Int
    BY SMTT(30), <1>1, <1>6 DEF PairAt, Typed
  <2>2. tag = (a + MainPeriod + j + MainTagMod) % MainTagMod /\ l2 = l + (MainPeriod + j)
    BY SMTT(30), <1>a, <1>b, <2>1 DEF Falls, Shifts
  <2>3. Apart(R2, O, tag, b, l2, MovedBy(cur)) /\ R2 <= R + M
    BY SMTT(30), <1>a, <1>0, <2>1, <2>2, RefKeeps
  <2>4. \/ R <= 2 * W + 1 \/ O <= 2 * W + 1
        \/ ah = 0 /\ R <= 2 * W + 1 + M
    <3>1. CASE ah >= 0 /\ (O <= Low \/ R <= Low + (1 + ah) * MainTagMod)
      <4>1. ah = 0
        BY SMTT(30), <1>c, <1>3, <3>1
      <4>2. (1 + ah) * MainTagMod = M
        BY SMTT(30), <1>0, <4>1
      <4> QED BY SMTT(30), <1>0, <3>1, <4>1, <4>2
    <3>2. CASE R <= Low \/ O <= Low
      BY SMTT(30), <1>0, <3>2
    <3> QED BY SMTT(30), <1>3, <1>6, <2>1, <3>1, <3>2 DEF PairAt
  <2>5. ah2 >= 0 /\ (O <= Low \/ R2 <= Low + (1 + ah2) * MainTagMod)
    <3>1. CASE ah = 0
      <4>1. (1 + ah2) * MainTagMod = M + M
        BY SMTT(30), <1>c, <1>0, <3>1
      <4> QED BY SMTT(30), <1>c, <1>0, <1>2, <2>1, <2>3, <2>4, <3>1, <4>1
    <3>2. CASE ah = -1
      <4>1. (1 + ah2) * MainTagMod = M
        BY SMTT(30), <1>c, <1>0, <3>2
      <4> QED BY SMTT(30), <1>c, <1>0, <1>2, <2>1, <2>3, <2>4, <3>2, <4>1
    <3> QED BY SMTT(30), <1>c, <1>3, <3>1, <3>2
  <2>6. PairAt(tag, tag, R2, u, b, O, cur, l2, ah2)
    BY SMTT(30), <1>2, <1>3, <2>1, <2>3, <2>5 DEF PairAt
  <2> QED BY SMTT(30), <1>2, <1>4, <2>6 DEF Kept
<1> QED BY <1>5, <1>6 DEF Kept

\* The same for a tag of the output.
LEMMA OutLone ==
  ASSUME NEW t, NEW a, NEW R, NEW g, NEW u, NEW b, NEW O, NEW h, NEW cnt, NEW cur, NEW gr, NEW go, NEW l, NEW ah,
         Kept(t, a, R, g, u, b, O, h, cnt, cur, gr, go, l, ah), ~ (t >= 0),
         NEW j, NEW tag, NEW O2, NEW h2, NEW go2, NEW l2, NEW ah2,
         OutEdge(a, b, O, h, j, l, ah, tag, O2, h2, go2, l2, ah2)
  PROVE  Kept(t, a, R, g, tag, tag, O2, h2, cnt, cur, gr, go2, l2, ah2)
<1>a. /\ j \in -MainJitter..MainJitter /\ tag = (Falls(b, a, j) + MainTagMod) % MainTagMod
      /\ O2 = CapturedAdder(b, tag, O)
  BY Zenon DEF OutEdge, Captured
<1>b. go2 = Spaced(b, j) /\ l2 = l - Shifts(b, a, j)
  BY Zenon DEF OutEdge, Captured
<1>c. l2 \in -MaxLead..MaxLead /\ ah2 = ah - 1 /\ ah2 \in -1..1
  BY Zenon DEF OutEdge
<1>0. PICK M \in Nat \ {0}, W \in Nat : M = MainTagMod /\ W = MainWraparound /\ Low = 2 * W + 1
  BY TagConstants DEF Low
<1>1. Typed(t, a, R, g, u, b, O, h, cnt, cur, gr, go, l, ah)
  BY DEF Kept
<1>2. /\ tag \in 0..M - 1 /\ go2 \in Nat /\ h2 \in Int /\ O2 \in Int
      /\ (go2 > 0 => h2 = go2)
  <2>1. a \in -1..MainTagMod - 1 /\ b \in -1..MainTagMod - 1 /\ O \in Int /\ h \in Int
    BY <1>1 DEF Typed
  <2>2. Captured(b, a, O, h, j, tag, O2, h2, go2)
    BY Zenon DEF OutEdge
  <2>3. tag \in 0..MainTagMod - 1 /\ go2 \in Nat /\ h2 \in Int /\ O2 \in Int /\ (go2 > 0 => h2 = go2)
    BY SMTT(30), <2>1, <2>2, TagIs
  <2> QED BY <1>0, <2>3, Zenon
<1>3. t = -1 /\ ah \in -1..1 /\ tag \in -1..M - 1
  BY SMTT(30), <1>0, <1>1, <1>2 DEF Typed
<1>4. Typed(t, a, R, g, tag, tag, O2, h2, cnt, cur, gr, go2, l2, ah2)
  BY SMTT(30), <1>c, <1>0, <1>1, <1>2, <1>3 DEF Typed
<1>5. CASE WaitAt(t, a, R, u, b, O, cur, gr, go, l, ah)
  <2>0. ah # -1
    BY <1>3, <1>c
  <2>1. R = 0 /\ O = 0 /\ cur = 0 /\ l = 0 /\ gr = 0 /\ a = -1 /\ b = -1 /\ ah = 0
    BY <1>5, <2>0, Zenon DEF WaitAt
  <2>2. O2 = 0 /\ l2 = 0 /\ go2 = 0
    BY SMTT(30), <1>a, <1>b, <2>1 DEF CapturedAdder, Shifts, Spaced
  <2>3. WaitAt(t, a, R, tag, tag, O2, cur, gr, go2, l2, ah2)
    BY SMTT(30), <1>c, <1>2, <1>3, <2>1, <2>2 DEF WaitAt
  <2> QED BY SMTT(30), <1>2, <1>4, <2>3 DEF Kept
<1>6. CASE PairAt(t, a, R, u, b, O, cur, l, ah)
  <2>1. a >= 0 /\ b >= 0 /\ Apart(R, O, a, b, l, MovedBy(cur)) /\ R \in Int /\ O \in Int
    BY SMTT(30), <1>1, <1>6 DEF PairAt, Typed
  <2>2. tag = (b + MainPeriod + j + MainTagMod) % MainTagMod /\ l2 = l - (MainPeriod + j)
    BY SMTT(30), <1>a, <1>b, <2>1 DEF Falls, Shifts
  <2>3. Apart(R, O2, a, tag, l2, MovedBy(cur)) /\ O2 <= O + M
    BY SMTT(30), <1>a, <1>0, <2>1, <2>2, OutKeeps
  <2>4. \/ R <= 2 * W + 1 \/ O <= 2 * W + 1
        \/ ah = 0 /\ O <= 2 * W + 1 + M
    <3>1. CASE ah <= 0 /\ (R <= Low \/ O <= Low + (1 - ah) * MainTagMod)
      <4>1. ah = 0
        BY <1>c, <1>3, <3>1
      <4>2. (1 - ah) * MainTagMod = M
        BY <1>0, <4>1
      <4> QED BY SMTT(30), <1>0, <3>1, <4>1, <4>2
    <3>2. CASE R <= Low \/ O <= Low
      BY SMTT(30), <1>0, <3>2
    <3> QED BY SMTT(30), <1>3, <1>6, <2>1, <3>1, <3>2 DEF PairAt
  <2>5. ah2 <= 0 /\ (R <= Low \/ O2 <= Low + (1 - ah2) * MainTagMod)
    <3>1. CASE ah = 0
      <4>1. (1 - ah2) * MainTagMod = M + M
        BY SMTT(30), <1>c, <1>0, <3>1
      <4> QED BY SMTT(30), <1>c, <1>0, <1>2, <2>1, <2>3, <2>4, <3>1, <4>1
    <3>2. CASE ah = 1
      <4>1. (1 - ah2) * MainTagMod = M
        BY SMTT(30), <1>c, <1>0, <3>2
      <4> QED BY SMTT(30), <1>c, <1>0, <1>2, <2>1, <2>3, <2>4, <3>2, <4>1
    <3> QED BY SMTT(30), <1>c, <1>3, <3>1, <3>2
  <2>6. PairAt(t, a, R, tag, tag, O2, cur, l2, ah2)
    BY SMTT(30), <1>2, <1>3, <2>1, <2>3, <2>5 DEF PairAt
  <2> QED BY SMTT(30), <1>2, <1>4, <2>6 DEF Kept
<1> QED BY <1>5, <1>6 DEF Kept

\* Both channels have a tag, captured with adders R, O: what a pair needs.
Ready(a, R, g, b, O, h, cnt, cur, gr, go, l, ah) ==
  /\ Typed(a, a, R, g, b, b, O, h, cnt, cur, gr, go, l, ah)
  /\ Apart(R, O, a, b, l, MovedBy(cur))
  /\ R <= Low + 2 * MainTagMod \/ O <= Low + 2 * MainTagMod
  /\ cnt > 0 => cur = 0
  /\ gr > 0 => g = gr
  /\ go > 0 => h = go

\* A tag that waits is the last one captured.
LEMMA PendingIs ==
  ASSUME NEW t, NEW a, NEW R, NEW g, NEW u, NEW b, NEW O, NEW h, NEW cnt, NEW cur, NEW gr, NEW go, NEW l, NEW ah,
         Kept(t, a, R, g, u, b, O, h, cnt, cur, gr, go, l, ah)
  PROVE  (t >= 0 => t = a) /\ (u >= 0 => u = b)
BY SMTT(30) DEF Kept, WaitAt, PairAt

\* A tag of the reference that finds a tag of the output.
LEMMA RefReady ==
  ASSUME NEW t, NEW a, NEW R, NEW g, NEW u, NEW b, NEW O, NEW h, NEW cnt, NEW cur, NEW gr, NEW go, NEW l, NEW ah,
         Kept(t, a, R, g, u, b, O, h, cnt, cur, gr, go, l, ah), u >= 0,
         NEW j, NEW tag, NEW R2, NEW g2, NEW gr2, NEW l2, NEW ah2,
         RefEdge(a, R, g, b, j, l, ah, tag, R2, g2, gr2, l2, ah2)
  PROVE  Ready(tag, R2, g2, b, O, h, cnt, cur, gr2, go, l2, ah2)
<1>a. /\ j \in -MainJitter..MainJitter /\ tag = (Falls(a, b, j) + MainTagMod) % MainTagMod
      /\ R2 = CapturedAdder(a, tag, R)
  BY Zenon DEF RefEdge, Captured
<1>b. gr2 = Spaced(a, j) /\ l2 = l + Shifts(a, b, j)
  BY Zenon DEF RefEdge, Captured
<1>c. l2 \in -MaxLead..MaxLead /\ ah2 = ah + 1 /\ ah2 \in -1..1
  BY Zenon DEF RefEdge
<1>0. PICK M \in Nat \ {0}, W \in Nat, L \in Nat :
        M = MainTagMod /\ W = MainWraparound /\ L = MaxLead /\ Low = 2 * W + 1
  BY SMTT(30), TagConstants DEF Low
<1>1. Typed(t, a, R, g, u, b, O, h, cnt, cur, gr, go, l, ah)
  BY DEF Kept
<1>2. /\ tag \in 0..M - 1 /\ gr2 \in Nat /\ g2 \in Int /\ R2 \in Int
      /\ (gr2 > 0 => g2 = gr2)
  <2>1. a \in -1..MainTagMod - 1 /\ b \in -1..MainTagMod - 1 /\ R \in Int /\ g \in Int
    BY <1>1 DEF Typed
  <2>2. Captured(a, b, R, g, j, tag, R2, g2, gr2)
    BY Zenon DEF RefEdge
  <2>3. tag \in 0..MainTagMod - 1 /\ gr2 \in Nat /\ g2 \in Int /\ R2 \in Int /\ (gr2 > 0 => g2 = gr2)
    BY SMTT(30), <2>1, <2>2, TagIs
  <2> QED BY <1>0, <2>3, Zenon
<1>3. ah \in -1..1 /\ tag \in -1..M - 1 /\ u # -1 /\ b \in -1..M - 1
  BY SMTT(30), <1>0, <1>1, <1>2 DEF Typed
<1>4. Typed(tag, tag, R2, g2, b, b, O, h, cnt, cur, gr2, go, l2, ah2)
  BY SMTT(30), <1>c, <1>0, <1>1, <1>2, <1>3 DEF Typed
<1>5. CASE WaitAt(t, a, R, u, b, O, cur, gr, go, l, ah)
  <2>1. R = 0 /\ O = 0 /\ cur = 0 /\ l = 0 /\ go = 0 /\ a = -1 /\ u = b /\ b >= 0
    BY SMTT(30), <1>3, <1>5 DEF WaitAt
  <2>2. R2 = 0 /\ l2 = j /\ tag = (b + j + MainTagMod) % MainTagMod /\ b \in 0..MainTagMod - 1
    BY SMTT(30), <1>a, <1>b, <1>0, <1>3, <2>1, TagConstants DEF CapturedAdder, Shifts, Falls
  <2>3. tag - (b + j) <= M /\ -M <= tag - (b + j) /\ j \in Int
    BY SMTT(30), <1>a, <1>0, <2>2, FirstTagIs, TagConstants
  <2>4. MovedBy(cur) = 0
    BY SMTT(30), <2>1, MovedIs
  <2>5. R2 - O - MovedBy(cur) = MainPeriod * 0
    BY SMTT(30), <2>1, <2>2, <2>4, TagConstants
  <2>6. Apart(R2, O, tag, b, l2, MovedBy(cur))
    <3>1. \E k \in Int : R2 - O - MovedBy(cur) = MainPeriod * k
      BY SMTT(30), <2>5
    <3>2. /\ (R2 + tag) - (O + b) - l2 - MovedBy(cur) <= M + L
          /\ -(M + L) <= (R2 + tag) - (O + b) - l2 - MovedBy(cur)
      BY SMTT(30), <1>0, <1>2, <2>1, <2>2, <2>3, <2>4
    <3>3. O >= 0 /\ R2 - MovedBy(cur) >= 0
      BY SMTT(30), <2>1, <2>2, <2>4
    <3> QED BY SMTT(30), <1>0, <1>2, <2>1, <2>2, <2>3, <2>4, <3>1, <3>2, <3>3 DEF Apart
  <2>7. R2 <= Low + 2 * MainTagMod
    BY SMTT(30), <1>0, <2>2
  <2> QED BY SMTT(30), <1>2, <1>4, <2>1, <2>6, <2>7 DEF Kept, Ready
<1>6. CASE PairAt(t, a, R, u, b, O, cur, l, ah)
  <2>1. /\ a >= 0 /\ b >= 0 /\ Apart(R, O, a, b, l, MovedBy(cur)) /\ R \in Int /\ O \in Int
        /\ ah <= 0 /\ u = b /\ (R <= Low \/ O <= Low + (1 - ah) * MainTagMod)
    BY SMTT(30), <1>1, <1>3, <1>6 DEF PairAt, Typed
  <2>2. tag = (a + MainPeriod + j + MainTagMod) % MainTagMod /\ l2 = l + (MainPeriod + j)
    BY SMTT(30), <1>a, <1>b, <2>1 DEF Falls, Shifts
  <2>3. Apart(R2, O, tag, b, l2, MovedBy(cur)) /\ R2 <= R + M
    BY SMTT(30), <1>a, <1>0, <2>1, <2>2, RefKeeps
  <2>4. (1 - ah) * MainTagMod <= 2 * M /\ (1 - ah) * MainTagMod \in Int
    <3>1. CASE ah = 0
      BY SMTT(30), <1>0, <3>1
    <3>2. CASE ah = -1
      BY SMTT(30), <1>0, <3>2
    <3> QED BY SMTT(30), <1>3, <2>1, <3>1, <3>2
  <2>5. R2 <= Low + 2 * MainTagMod \/ O <= Low + 2 * MainTagMod
    BY SMTT(30), <1>0, <1>2, <2>1, <2>3, <2>4
  <2> QED BY SMTT(30), <1>2, <1>4, <2>1, <2>3, <2>5 DEF Kept, Ready
<1> QED BY <1>5, <1>6 DEF Kept

\* A tag of the output that finds a tag of the reference.
LEMMA OutReady ==
  ASSUME NEW t, NEW a, NEW R, NEW g, NEW u, NEW b, NEW O, NEW h, NEW cnt, NEW cur, NEW gr, NEW go, NEW l, NEW ah,
         Kept(t, a, R, g, u, b, O, h, cnt, cur, gr, go, l, ah), t >= 0,
         NEW j, NEW tag, NEW O2, NEW h2, NEW go2, NEW l2, NEW ah2,
         OutEdge(a, b, O, h, j, l, ah, tag, O2, h2, go2, l2, ah2)
  PROVE  Ready(a, R, g, tag, O2, h2, cnt, cur, gr, go2, l2, ah2)
<1>a. /\ j \in -MainJitter..MainJitter /\ tag = (Falls(b, a, j) + MainTagMod) % MainTagMod
      /\ O2 = CapturedAdder(b, tag, O)
  BY Zenon DEF OutEdge, Captured
<1>b. go2 = Spaced(b, j) /\ l2 = l - Shifts(b, a, j)
  BY Zenon DEF OutEdge, Captured
<1>c. l2 \in -MaxLead..MaxLead /\ ah2 = ah - 1 /\ ah2 \in -1..1
  BY Zenon DEF OutEdge
<1>0. PICK M \in Nat \ {0}, W \in Nat, L \in Nat :
        M = MainTagMod /\ W = MainWraparound /\ L = MaxLead /\ Low = 2 * W + 1
  BY SMTT(30), TagConstants DEF Low
<1>1. Typed(t, a, R, g, u, b, O, h, cnt, cur, gr, go, l, ah)
  BY DEF Kept
<1>2. /\ tag \in 0..M - 1 /\ go2 \in Nat /\ h2 \in Int /\ O2 \in Int
      /\ (go2 > 0 => h2 = go2)
  <2>1. a \in -1..MainTagMod - 1 /\ b \in -1..MainTagMod - 1 /\ O \in Int /\ h \in Int
    BY <1>1 DEF Typed
  <2>2. Captured(b, a, O, h, j, tag, O2, h2, go2)
    BY Zenon DEF OutEdge
  <2>3. tag \in 0..MainTagMod - 1 /\ go2 \in Nat /\ h2 \in Int /\ O2 \in Int /\ (go2 > 0 => h2 = go2)
    BY SMTT(30), <2>1, <2>2, TagIs
  <2> QED BY <1>0, <2>3, Zenon
<1>3. ah \in -1..1 /\ tag \in -1..M - 1 /\ t # -1 /\ a \in -1..M - 1
  BY SMTT(30), <1>0, <1>1, <1>2 DEF Typed
<1>4. Typed(a, a, R, g, tag, tag, O2, h2, cnt, cur, gr, go2, l2, ah2)
  BY SMTT(30), <1>c, <1>0, <1>1, <1>2, <1>3 DEF Typed
<1>5. CASE WaitAt(t, a, R, u, b, O, cur, gr, go, l, ah)
  <2>1. R = 0 /\ O = 0 /\ cur = 0 /\ l = 0 /\ gr = 0 /\ b = -1 /\ t = a /\ a >= 0
    BY SMTT(30), <1>3, <1>5 DEF WaitAt
  <2>2. O2 = 0 /\ l2 = -j /\ tag = (a + j + MainTagMod) % MainTagMod /\ a \in 0..MainTagMod - 1
    BY SMTT(30), <1>a, <1>b, <1>0, <1>3, <2>1, TagConstants DEF CapturedAdder, Shifts, Falls
  <2>3. tag - (a + j) <= M /\ -M <= tag - (a + j) /\ j \in Int
    BY SMTT(30), <1>a, <1>0, <2>2, FirstTagIs, TagConstants
  <2>4. MovedBy(cur) = 0
    BY SMTT(30), <2>1, MovedIs
  <2>5. R - O2 - MovedBy(cur) = MainPeriod * 0
    BY SMTT(30), <2>1, <2>2, <2>4, TagConstants
  <2>6. Apart(R, O2, a, tag, l2, MovedBy(cur))
    <3>1. \E k \in Int : R - O2 - MovedBy(cur) = MainPeriod * k
      BY SMTT(30), <2>5
    <3>2. /\ (R + a) - (O2 + tag) - l2 - MovedBy(cur) <= M + L
          /\ -(M + L) <= (R + a) - (O2 + tag) - l2 - MovedBy(cur)
      BY SMTT(30), <1>0, <1>2, <2>1, <2>2, <2>3, <2>4
    <3>3. O2 >= 0 /\ R - MovedBy(cur) >= 0
      BY SMTT(30), <2>1, <2>2, <2>4
    <3> QED BY SMTT(30), <1>0, <1>2, <2>1, <2>2, <2>3, <2>4, <3>1, <3>2, <3>3 DEF Apart
  <2>7. O2 <= Low + 2 * MainTagMod
    BY SMTT(30), <1>0, <2>2
  <2> QED BY SMTT(30), <1>2, <1>4, <2>1, <2>6, <2>7 DEF Kept, Ready
<1>6. CASE PairAt(t, a, R, u, b, O, cur, l, ah)
  <2>1. /\ a >= 0 /\ b >= 0 /\ Apart(R, O, a, b, l, MovedBy(cur)) /\ R \in Int /\ O \in Int
        /\ ah >= 0 /\ t = a /\ (O <= Low \/ R <= Low + (1 + ah) * MainTagMod)
    BY SMTT(30), <1>1, <1>3, <1>6 DEF PairAt, Typed
  <2>2. tag = (b + MainPeriod + j + MainTagMod) % MainTagMod /\ l2 = l - (MainPeriod + j)
    BY SMTT(30), <1>a, <1>b, <2>1 DEF Falls, Shifts
  <2>3. Apart(R, O2, a, tag, l2, MovedBy(cur)) /\ O2 <= O + M
    BY SMTT(30), <1>a, <1>0, <2>1, <2>2, OutKeeps
  <2>4. (1 + ah) * MainTagMod <= 2 * M /\ (1 + ah) * MainTagMod \in Int
    <3>1. CASE ah = 0
      BY SMTT(30), <1>0, <3>1
    <3>2. CASE ah = 1
      BY SMTT(30), <1>0, <3>2
    <3> QED BY SMTT(30), <1>3, <2>1, <3>1, <3>2
  <2>5. R <= Low + 2 * MainTagMod \/ O2 <= Low + 2 * MainTagMod
    BY SMTT(30), <1>0, <1>2, <2>1, <2>3, <2>4
  <2> QED BY SMTT(30), <1>2, <1>4, <2>1, <2>3, <2>5 DEF Kept, Ready
<1> QED BY <1>5, <1>6 DEF Kept

\* The phase error of a pair: true modulo the period, and at most half of it.
ErrorIsTrue(e, a, b, mv) ==
  /\ (e - (a - b + mv)) % MainPeriod = 0
  /\ e >= -(MainPeriod \div 2) /\ e < MainPeriod \div 2

\* The moves of the shifter that a pair allows.
Shifting(cnt, cur, step) ==
  step \in -1..1 /\ (cnt > 0 => step = 0) /\ cur + step \in -MaxTagShift..MaxTagShift

\* A pair, measured: its errors are true and the invariant holds again.
LEMMA PairMeasured ==
  ASSUME NEW a, NEW R, NEW g, NEW b, NEW O, NEW h, NEW cnt, NEW cur, NEW gr, NEW go, NEW l, NEW ah,
         Ready(a, R, g, b, O, h, cnt, cur, gr, go, l, ah),
         NEW step, Shifting(cnt, cur, step), NEW R2, NEW O2, NEW e, NEW c2, NEW p, NEW f,
         Measured(a, R, g, b, O, h, cnt, cur, step, R2, O2, e, c2, p, f)
  PROVE  /\ Kept(-1, a, R2, g, -1, b, O2, h, c2, p, gr, go, l, ah)
         /\ ErrorIsTrue(e, a, b, MovedBy(cur))
         /\ gr > 0 /\ go > 0 => f = go - gr
<1>a. PICK r, o : /\ Adjusted(cnt, R, O, a, b, r, o)
                  /\ R2 = Stepped(Rebased(r, o, r), step) /\ O2 = Rebased(r, o, o)
                  /\ e = MaskError(r + a - o - b)
  BY Zenon DEF Measured
<1>b. c2 = (IF cnt > 0 THEN cnt - 1 ELSE 0) /\ p = cur + step /\ f = h - g
  BY Zenon DEF Measured
<1>c. step \in -1..1 /\ (cnt > 0 => step = 0) /\ cur + step \in -MaxTagShift..MaxTagShift
  BY Zenon DEF Shifting
<1>1. Typed(a, a, R, g, b, b, O, h, cnt, cur, gr, go, l, ah) /\ Apart(R, O, a, b, l, MovedBy(cur))
  BY Zenon DEF Ready
<1>2. cur \in -MaxTagShift..MaxTagShift /\ cnt \in Nat /\ l \in -MaxLead..MaxLead
  BY <1>1, Zenon DEF Typed
<1>3. cur \in Int /\ step \in Int
  BY SMTT(30), <1>2, <1>c, TagConstants
<1>4. PICK mv \in Int : mv = MovedBy(cur)
  BY SMTT(30), <1>3, MovedIs
<1>5. mv \in -MaxTagShift..MaxTagShift /\ (cnt > 0 => mv = 0 /\ step = 0)
  <2>0. PICK S \in Nat : S = MaxTagShift
    BY TagConstants
  <2>1. mv = cur \/ mv = -cur
    BY <1>4, Zenon DEF MovedBy
  <2>2. cnt > 0 => cur = 0
    BY Zenon DEF Ready
  <2>3. cur \in -S..S
    BY SMTT(30), <1>2, <2>0
  <2>4. mv \in -S..S /\ (cur = 0 => mv = 0)
    BY SMTT(30), <2>1, <2>3
  <2> QED BY SMTT(30), <1>c, <2>0, <2>2, <2>4
<1>6. /\ r \in Int /\ o \in Int /\ (\E k \in Int : r - o - mv = MainPeriod * k)
      /\ Apart(R2, O2, a, b, l, Stepped(mv, step))
      /\ R2 <= Low \/ O2 <= Low
  <2>1. Apart(R, O, a, b, l, mv)
    BY <1>1, <1>4, Zenon
  <2>2. R <= Low + 2 * MainTagMod \/ O <= Low + 2 * MainTagMod
    BY Zenon DEF Ready
  <2> QED BY SMTT(30), <1>2, <1>5, <1>a, <1>c, <2>1, <2>2, PairKeeps
<1>7. Apart(R2, O2, a, b, l, MovedBy(p))
  <2>1. MovedBy(cur + step) = Stepped(MovedBy(cur), step)
    BY <1>3, MovedIs
  <2> QED BY <1>4, <1>6, <1>b, <2>1, ZenonT(60)
<1>8. a \in 0..MainTagMod - 1 /\ b \in 0..MainTagMod - 1 /\ R2 \in Int /\ O2 \in Int
  BY <1>6, Zenon DEF Apart
<1>9. PairAt(-1, a, R2, -1, b, O2, p, l, ah)
  <2>1. a >= 0 /\ b >= 0
    BY <1>8, TagConstants
  <2> QED BY <1>6, <1>7, <2>1, Zenon DEF PairAt
<1>10. Typed(-1, a, R2, g, -1, b, O2, h, c2, p, gr, go, l, ah)
  <2>1. c2 \in Nat
    BY SMTT(30), <1>2, <1>b
  <2>2. -1 \in -1..MainTagMod - 1
    BY TagConstants
  <2> QED BY <1>1, <1>8, <1>b, <1>c, <2>1, <2>2, ZenonT(60) DEF Typed
<1>11. c2 > 0 => p = 0
  <2>1. cnt > 0 => cur = 0
    BY Zenon DEF Ready
  <2> QED BY <1>2, <1>b, <1>c, <2>1
<1>12. (gr > 0 => g = gr) /\ (go > 0 => h = go)
  BY Zenon DEF Ready
<1>13. Kept(-1, a, R2, g, -1, b, O2, h, c2, p, gr, go, l, ah)
  BY <1>9, <1>10, <1>11, <1>12, Zenon DEF Kept
<1>14. ErrorIsTrue(e, a, b, mv)
  <2>0. PICK n \in Nat \ {0}, M \in Nat : n = MainPeriod /\ M = MainTagMod
    BY SMTT(30), TagConstants
  <2>1. PICK k \in Int : r - o - mv = n * k
    BY SMTT(30), <1>6, <2>0
  <2>2. PICK v \in Int : v = n * k
    BY SMTT(30)
  <2>3. a \in Int /\ b \in Int /\ r \in Int /\ o \in Int
    BY SMTT(30), <1>6, <1>8, <2>0
  <2>4. PICK x \in Int, w \in Int : x = a - b + mv /\ w = r + a - o - b
    BY SMTT(30), <2>3
  <2>5. w = x + MainPeriod * k
    <3>1. w = x + v
      BY SMTT(30), <2>1, <2>2, <2>3, <2>4
    <3> QED BY SMTT(30), <2>0, <2>2, <3>1
  <2>6. /\ MaskError(w) \in Int /\ (MaskError(w) - x) % MainPeriod = 0
        /\ MaskError(w) >= -(MainPeriod \div 2) /\ MaskError(w) < MainPeriod \div 2
    BY Zenon, <2>4, <2>5, MaskIs
  <2> QED BY <1>a, <2>4, <2>6, ZenonT(60) DEF ErrorIsTrue
<1>15. gr > 0 /\ go > 0 => f = go - gr
  BY <1>12, <1>b, ZenonT(60)
<1> QED BY <1>4, <1>13, <1>14, <1>15, Zenon
-----------------------------------------------------------------------------
(***************************************************************************)
(* The tags (MainTags): the steps                                          *)
(***************************************************************************)
\* What PairErrorsAreTrue says of a step.
PairIsTrue ==
  s'.pairs /\ s'.ref.tag < 0 /\ s'.out.tag < 0 =>
    /\ PhaseIsTrue(s')
    /\ gap'["ref"] > 0 /\ gap'["out"] > 0 => s'.freq_error = gap'["out"] - gap'["ref"]

\* The numbers of a state of the invariant.
LEMMA NumbersOf ==
  ASSUME MtInv
  PROVE  \E t, a, R, g, u, b, O, h, cnt, sh, cur, er, fe, pr :
           /\ Holds(s, t, a, R, g, u, b, O, h, cnt, sh, cur, er, fe, pr)
           /\ Kept(t, a, R, g, u, b, O, h, cnt, cur, gap["ref"], gap["out"], lead, ahead)
<1>1. PICK t, a, R, g : t = s.ref.tag /\ a = s.ref.tag_d /\ R = s.ref.adder /\ g = s.ref.dt
  BY Zenon
<1>2. PICK u, b, O, h : u = s.out.tag /\ b = s.out.tag_d /\ O = s.out.adder /\ h = s.out.dt
  BY Zenon
<1>3. PICK cnt, sh, cur, er, fe, pr :
        /\ cnt = s.discard_early_cnt /\ sh = s.shift /\ cur = s.phase_shift_current
        /\ er = s.err /\ fe = s.freq_error /\ pr = s.pairs
  OBVIOUS
<1>4. MtTypeOK /\ (Waiting \/ Pairing)
  BY DEF MtInv
<1>5. Holds(s, t, a, R, g, u, b, O, h, cnt, sh, cur, er, fe, pr)
  BY <1>1, <1>2, <1>3, <1>4, Zenon DEF MtTypeOK, ChannelOK, ChannelIs, StateIs, Holds
<1>6. PICK gr, go : gr = gap["ref"] /\ go = gap["out"]
  OBVIOUS
<1>7. Typed(t, a, R, g, u, b, O, h, cnt, cur, gr, go, lead, ahead)
  <2>1. gr \in Nat /\ go \in Nat
    BY <1>4, <1>6 DEF MtTypeOK, Channels
  <2> QED BY <1>1, <1>2, <1>3, <1>4, <2>1, ZenonT(60) DEF MtTypeOK, ChannelOK, Typed
<1>8. /\ cnt > 0 => cur = 0
      /\ gr > 0 => g = gr
      /\ go > 0 => h = go
  <2>1. s.discard_early_cnt > 0 => s.phase_shift_current = 0
    BY DEF MtInv
  <2>2. (gap["ref"] > 0 => s["ref"].dt = gap["ref"]) /\ (gap["out"] > 0 => s["out"].dt = gap["out"])
    BY Zenon DEF MtInv, Channels
  <2> QED BY <1>1, <1>2, <1>3, <1>6, <2>1, <2>2, Zenon
<1>9. CASE Waiting
  <2>1. WaitAt(t, a, R, u, b, O, cur, gr, go, lead, ahead)
    BY <1>1, <1>2, <1>3, <1>6, <1>9, Zenon DEF Waiting, WaitAt
  <2>2. Kept(t, a, R, g, u, b, O, h, cnt, cur, gr, go, lead, ahead)
    BY <1>7, <1>8, <2>1, Zenon DEF Kept
  <2> QED BY <1>5, <1>6, <2>2, Zenon
<1>10. CASE Pairing
  <2>1. PICK mv : mv = MovedBy(cur) /\ mv = Moved(s)
    BY <1>3, Zenon DEF MovedBy, Moved
  <2>2. Offset(s, lead) = (R + a) - (O + b) - lead - mv
    BY <1>1, <1>2, <2>1, Zenon DEF Offset
  <2>3. /\ R \in Int /\ O \in Int /\ a \in -1..MainTagMod - 1 /\ b \in -1..MainTagMod - 1
        /\ lead \in Int /\ cur \in Int /\ a >= 0 /\ b >= 0 /\ mv \in Int
    <3>1. a >= 0 /\ b >= 0
      BY <1>1, <1>2, <1>10, Zenon DEF Pairing
    <3>2. R \in Int /\ O \in Int /\ a \in -1..MainTagMod - 1 /\ b \in -1..MainTagMod - 1 /\ lead \in Int /\ cur \in Int
      BY <1>7, TagConstants DEF Typed
    <3> QED BY Zenon, <2>1, <3>1, <3>2, MovedIs
  <2>4. /\ (R + a) - (O + b) - lead - mv <= MainTagMod + MaxLead
        /\ -(MainTagMod + MaxLead) <= (R + a) - (O + b) - lead - mv
        /\ \E k \in Int : R - O - mv = MainPeriod * k
        /\ O >= 0 /\ R - mv >= 0
    BY <1>1, <1>2, <1>10, <2>1, <2>2, Zenon DEF Pairing
  <2>5. Apart(R, O, a, b, lead, mv)
    <3>1. a \in 0..MainTagMod - 1 /\ b \in 0..MainTagMod - 1
      BY <2>3, TagConstants
    <3> QED BY <2>3, <2>4, <3>1, Zenon DEF Apart
  <2>6. PairAt(t, a, R, u, b, O, cur, lead, ahead)
    BY <1>1, <1>2, <1>10, <2>1, <2>3, <2>5, Zenon DEF Pairing, PairAt
  <2>7. Kept(t, a, R, g, u, b, O, h, cnt, cur, gr, go, lead, ahead)
    BY <1>7, <1>8, <2>6, Zenon DEF Kept
  <2> QED BY <1>5, <1>6, <2>7, Zenon
<1> QED BY <1>4, <1>9, <1>10

\* The invariant of a state with such numbers.
LEMMA NumbersNext ==
  ASSUME NEW t, NEW a, NEW R, NEW g, NEW u, NEW b, NEW O, NEW h,
         NEW cnt, NEW sh, NEW cur, NEW er, NEW fe, NEW pr,
         Holds(s', t, a, R, g, u, b, O, h, cnt, sh, cur, er, fe, pr), gap' \in [Channels -> Nat],
         Kept(t, a, R, g, u, b, O, h, cnt, cur, gap'["ref"], gap'["out"], lead', ahead')
  PROVE  MtInv'
<1> /\ ChannelIs(s'.ref, t, a, R, g) /\ ChannelIs(s'.out, u, b, O, h)
    /\ StateIs(s', cnt, sh, cur, er, fe, pr)
  BY Zenon DEF Holds
<1>1. t = s'.ref.tag /\ a = s'.ref.tag_d /\ R = s'.ref.adder /\ g = s'.ref.dt
  BY Zenon DEF ChannelIs
<1>2. u = s'.out.tag /\ b = s'.out.tag_d /\ O = s'.out.adder /\ h = s'.out.dt
  BY Zenon DEF ChannelIs
<1>3. cnt = s'.discard_early_cnt /\ cur = s'.phase_shift_current
  BY Zenon DEF StateIs
<1>4. PICK gr, go : gr = gap'["ref"] /\ go = gap'["out"]
  BY Zenon
<1>5. /\ Typed(t, a, R, g, u, b, O, h, cnt, cur, gr, go, lead', ahead')
      /\ (cnt > 0 => cur = 0) /\ (gr > 0 => g = gr) /\ (go > 0 => h = go)
  BY <1>4, Zenon DEF Kept
<1>6. MtTypeOK'
  BY <1>1, <1>2, <1>3, <1>5, Zenon DEF MtTypeOK, ChannelOK, ChannelIs, StateIs, Typed
<1>7. \A c \in Channels : gap'[c] > 0 => s'[c].dt = gap'[c]
  <2>1. (gap'["ref"] > 0 => s'["ref"].dt = gap'["ref"]) /\ (gap'["out"] > 0 => s'["out"].dt = gap'["out"])
    BY <1>1, <1>2, <1>4, <1>5, Zenon
  <2> QED BY <2>1, Zenon DEF Channels
<1>8. CASE WaitAt(t, a, R, u, b, O, cur, gr, go, lead', ahead')
  <2>1. Waiting'
    BY <1>1, <1>2, <1>3, <1>4, <1>8, Zenon DEF Waiting, WaitAt
  <2> QED BY <1>3, <1>5, <1>6, <1>7, <2>1, Zenon DEF MtInv
<1>9. CASE PairAt(t, a, R, u, b, O, cur, lead', ahead')
  <2>1. PICK mv : mv = MovedBy(cur) /\ mv = Moved(s')
    BY <1>3, Zenon DEF MovedBy, Moved
  <2>2. Offset(s', lead') = (R + a) - (O + b) - lead' - mv
    BY <1>1, <1>2, <2>1, Zenon DEF Offset
  <2>3. Apart(R, O, a, b, lead', mv)
    BY <1>9, <2>1, Zenon DEF PairAt
  <2>4. Pairing'
    BY <1>1, <1>2, <1>9, <2>1, <2>2, <2>3, Zenon DEF Pairing, PairAt, Apart
  <2> QED BY <1>3, <1>5, <1>6, <1>7, <2>4, Zenon DEF MtInv
<1> QED BY <1>4, <1>8, <1>9, Zenon DEF Kept

\* A step that completes a pair.
LEMMA PairStep ==
  ASSUME NEW x, NEW a, NEW R, NEW g, NEW b, NEW O, NEW h,
         NEW cnt, NEW sh, NEW cur, NEW er, NEW fe, NEW pr,
         Holds(x, a, a, R, g, b, b, O, h, cnt, sh, cur, er, fe, pr),
         NEW step, Shifting(cnt, cur, step), s' = mpll_pair_tags(x, step), gap' \in [Channels -> Nat],
         Ready(a, R, g, b, O, h, cnt, cur, gap'["ref"], gap'["out"], lead', ahead')
  PROVE  MtInv' /\ PairIsTrue
<1>1. PICK n : n = s'
  OBVIOUS
<1>2. PICK gr, go, l, ah : gr = gap'["ref"] /\ go = gap'["out"] /\ l = lead' /\ ah = ahead'
  OBVIOUS
<1>3. n = mpll_pair_tags(x, step) /\ Ready(a, R, g, b, O, h, cnt, cur, gr, go, l, ah)
  BY <1>1, <1>2, Zenon
<1>4. PICK R2, O2, e, c2, p, f : /\ Measured(a, R, g, b, O, h, cnt, cur, step, R2, O2, e, c2, p, f)
                                 /\ Holds(n, -1, a, R2, g, -1, b, O2, h, c2, cur, p, e, f, TRUE)
  BY <1>3, PairRecord, ZenonT(60)
<1>5. /\ Kept(-1, a, R2, g, -1, b, O2, h, c2, p, gr, go, l, ah)
      /\ ErrorIsTrue(e, a, b, MovedBy(cur))
      /\ gr > 0 /\ go > 0 => f = go - gr
  BY Zenon, <1>3, <1>4, PairMeasured
<1>6. MtInv'
  BY <1>1, <1>2, <1>4, <1>5, NumbersNext, Zenon
<1>7. n.err = e /\ n.shift = cur /\ n.ref.tag_d = a /\ n.out.tag_d = b /\ n.freq_error = f
  BY <1>4, Zenon DEF Holds, StateIs, ChannelIs
<1>8. PhaseIsTrue(n)
  BY <1>5, <1>7, Zenon DEF PhaseIsTrue, ErrorIsTrue, MovedBy
<1> QED BY <1>1, <1>2, <1>5, <1>6, <1>7, <1>8, Zenon DEF PairIsTrue

\* A step that does not.
LEMMA LoneStep ==
  ASSUME NEW y, NEW t, NEW a, NEW R, NEW g, NEW u, NEW b, NEW O, NEW h,
         NEW cnt, NEW sh, NEW cur, NEW er, NEW fe, NEW pr,
         Holds(y, t, a, R, g, u, b, O, h, cnt, sh, cur, er, fe, pr),
         s' = [y EXCEPT !.err = 0, !.freq_error = 0, !.shift = 0, !.pairs = FALSE],
         gap' \in [Channels -> Nat],
         Kept(t, a, R, g, u, b, O, h, cnt, cur, gap'["ref"], gap'["out"], lead', ahead')
  PROVE  MtInv' /\ PairIsTrue
<1>1. PICK n : n = s'
  OBVIOUS
<1>2. Holds(n, t, a, R, g, u, b, O, h, cnt, 0, cur, 0, 0, FALSE)
  BY <1>1, LoneRecord, Zenon
<1>3. MtInv'
  BY <1>1, <1>2, NumbersNext, Zenon
<1>4. ~ s'.pairs
  BY <1>1, <1>2, Zenon DEF Holds, StateIs
<1> QED BY <1>3, <1>4, Zenon DEF PairIsTrue

\* An edge of the reference.
LEMMA RefStep ==
  ASSUME MtInv, NEW j \in -MainJitter..MainJitter, NEW step \in -1..1, Edge("ref", j, step)
  PROVE  MtInv' /\ PairIsTrue
<1>1. PICK t, a, R, g, u, b, O, h, cnt, sh, cur, er, fe, pr :
           /\ Holds(s, t, a, R, g, u, b, O, h, cnt, sh, cur, er, fe, pr)
           /\ Kept(t, a, R, g, u, b, O, h, cnt, cur, gap["ref"], gap["out"], lead, ahead)
  BY NumbersOf
<1>2. s.ref.tag_d = a /\ s.out.tag_d = b /\ s.phase_shift_current = cur /\ s.discard_early_cnt = cnt
  BY <1>1, Zenon DEF Holds, ChannelIs, StateIs
<1>3. PICK gr, go, l, ah, l2, ah2 : /\ gr = gap["ref"] /\ go = gap["out"] /\ l = lead /\ ah = ahead
                                    /\ l2 = lead' /\ ah2 = ahead'
  OBVIOUS
<1>4. PICK tag, R2, g2, gr2 :
        /\ tag = (Falls(a, b, j) + MainTagMod) % MainTagMod /\ R2 = CapturedAdder(a, tag, R)
        /\ g2 = CapturedDt(a, tag, g) /\ gr2 = Spaced(a, j)
  OBVIOUS
<1>5. /\ ah + 1 \in -1..1 /\ ah2 = ah + 1
      /\ cur + step \in -MaxTagShift..MaxTagShift /\ (cnt > 0 => step = 0)
      /\ s' = mpll_update_tags(s, "ref", tag, step)
      /\ gap' = [gap EXCEPT !["ref"] = gr2]
  BY <1>2, <1>3, <1>4, Zenon DEF Edge, Falls, Spaced
<1>6. Typed(t, a, R, g, u, b, O, h, cnt, cur, gr, go, l, ah)
  BY <1>1, <1>3, ZenonT(60) DEF Kept
<1>7. l2 = l + Shifts(a, b, j) /\ l2 \in -MaxLead..MaxLead
  <2>1. \/ a >= 0 /\ l2 = l + 1 * (MainPeriod + j) /\ l + 1 * (MainPeriod + j) \in -MaxLead..MaxLead
        \/ ~ (a >= 0) /\ b >= 0 /\ l2 = l + 1 * j /\ l + 1 * j \in -MaxLead..MaxLead
        \/ ~ (a >= 0) /\ ~ (b >= 0) /\ l2 = l + 0 /\ l + 0 \in -MaxLead..MaxLead
    BY <1>2, <1>3, ZenonT(60) DEF Edge
  <2>2. l + 1 * (MainPeriod + j) = l + (MainPeriod + j) /\ l + 1 * j = l + j /\ l + 0 = l + 0
    BY <1>6, TagConstants DEF Typed
  <2> QED BY <2>1, <2>2 DEF Shifts
<1>8. RefEdge(a, R, g, b, j, l, ah, tag, R2, g2, gr2, l2, ah2)
  <2>1. j \in -MainJitter..MainJitter
    OBVIOUS
  <2>2. ah2 = ah + 1 /\ ah2 \in -1..1
    BY <1>5, <1>6 DEF Typed
  <2> QED BY <1>4, <1>7, <2>1, <2>2, Zenon DEF RefEdge, Captured
<1>9. PICK y : y = [s EXCEPT !["ref"] = CaptureTag(@, tag)]
  BY Zenon
<1>10. Holds(y, tag, tag, R2, g2, u, b, O, h, cnt, sh, cur, er, fe, pr)
  <2>1. PICK c : c = CaptureTag(s.ref, tag)
    OBVIOUS
  <2>2. ChannelIs(c, tag, tag, R2, g2)
    <3>1. ChannelIs(s.ref, t, a, R, g)
      BY <1>1, Zenon DEF Holds
    <3> QED BY <1>4, <2>1, <3>1, CaptureRecord, Zenon
  <2>3. y = [s EXCEPT !.ref = c]
    BY <1>9, <2>1, Zenon
  <2>4. y.ref = c /\ y.out = s.out /\ StateIs(y, cnt, sh, cur, er, fe, pr)
    BY <1>1, <2>3, Zenon DEF Holds, StateIs
  <2> QED BY <1>1, <2>2, <2>4, Zenon DEF Holds
<1>11. y.ref.tag = tag /\ y.out.tag = u
  BY <1>10, Zenon DEF Holds, ChannelIs
<1>12. gr2 \in Nat /\ tag >= 0
  <2>1. a \in -1..MainTagMod - 1 /\ b \in -1..MainTagMod - 1 /\ R \in Int /\ g \in Int
    BY <1>6, Zenon DEF Typed
  <2>2. Captured(a, b, R, g, j, tag, R2, g2, gr2)
    BY <1>8, Zenon DEF RefEdge
  <2>3. tag \in 0..MainTagMod - 1 /\ gr2 \in Nat
    BY SMTT(30), <2>1, <2>2, TagIs
  <2> QED BY <2>3, TagConstants
<1>13. gap' \in [Channels -> Nat] /\ gap'["ref"] = gr2 /\ gap'["out"] = go
  <2>1. gap \in [Channels -> Nat]
    BY DEF MtInv, MtTypeOK
  <2> QED BY SMTT(30), <1>3, <1>5, <1>12, <2>1 DEF Channels
<1>14. Kept(t, a, R, g, u, b, O, h, cnt, cur, gr, go, l, ah)
  BY <1>1, <1>3, Zenon
<1>15. CASE u >= 0
  <2>0. u = b
    BY <1>14, <1>15, PendingIs
  <2>1. Ready(tag, R2, g2, b, O, h, cnt, cur, gr2, go, l2, ah2)
    BY <1>8, <1>14, <1>15, RefReady, Zenon
  <2>2. s' = mpll_pair_tags(y, step)
    BY <1>5, <1>9, <1>11, <1>12, <1>15, Zenon DEF mpll_update_tags
  <2>3. Holds(y, tag, tag, R2, g2, b, b, O, h, cnt, sh, cur, er, fe, pr)
    BY <1>10, <2>0, Zenon
  <2>4. Ready(tag, R2, g2, b, O, h, cnt, cur, gap'["ref"], gap'["out"], lead', ahead')
    BY <1>3, <1>13, <2>1, Zenon
  <2>5. Shifting(cnt, cur, step)
    BY <1>5, Zenon DEF Shifting
  <2> QED BY <1>13, <2>2, <2>3, <2>4, <2>5, PairStep, ZenonT(60)
<1>16. CASE ~ (u >= 0)
  <2>1. Kept(tag, tag, R2, g2, u, b, O, h, cnt, cur, gr2, go, l2, ah2)
    BY <1>8, <1>14, <1>16, RefLone, Zenon
  <2>2. s' = [y EXCEPT !.err = 0, !.freq_error = 0, !.shift = 0, !.pairs = FALSE]
    BY <1>5, <1>9, <1>11, <1>16, Zenon DEF mpll_update_tags
  <2>3. Kept(tag, tag, R2, g2, u, b, O, h, cnt, cur, gap'["ref"], gap'["out"], lead', ahead')
    BY <1>3, <1>13, <2>1, Zenon
  <2> QED BY <1>10, <1>13, <2>2, <2>3, LoneStep, Zenon
<1> QED BY SMTT(30), <1>15, <1>16

\* An edge of the output.
LEMMA OutStep ==
  ASSUME MtInv, NEW j \in -MainJitter..MainJitter, NEW step \in -1..1, Edge("out", j, step)
  PROVE  MtInv' /\ PairIsTrue
<1>1. PICK t, a, R, g, u, b, O, h, cnt, sh, cur, er, fe, pr :
           /\ Holds(s, t, a, R, g, u, b, O, h, cnt, sh, cur, er, fe, pr)
           /\ Kept(t, a, R, g, u, b, O, h, cnt, cur, gap["ref"], gap["out"], lead, ahead)
  BY NumbersOf
<1>2. s.ref.tag_d = a /\ s.out.tag_d = b /\ s.phase_shift_current = cur /\ s.discard_early_cnt = cnt
  BY <1>1, Zenon DEF Holds, ChannelIs, StateIs
<1>3. PICK gr, go, l, ah, l2, ah2 : /\ gr = gap["ref"] /\ go = gap["out"] /\ l = lead /\ ah = ahead
                                    /\ l2 = lead' /\ ah2 = ahead'
  OBVIOUS
<1>4. PICK tag, O2, h2, go2 :
        /\ tag = (Falls(b, a, j) + MainTagMod) % MainTagMod /\ O2 = CapturedAdder(b, tag, O)
        /\ h2 = CapturedDt(b, tag, h) /\ go2 = Spaced(b, j)
  OBVIOUS
<1>5. /\ ah + (-1) \in -1..1 /\ ah2 = ah + (-1)
      /\ cur + step \in -MaxTagShift..MaxTagShift /\ (cnt > 0 => step = 0)
      /\ s' = mpll_update_tags(s, "out", tag, step)
      /\ gap' = [gap EXCEPT !["out"] = go2]
  BY <1>2, <1>3, <1>4, Zenon DEF Edge, Falls, Spaced
<1>6. Typed(t, a, R, g, u, b, O, h, cnt, cur, gr, go, l, ah)
  BY <1>1, <1>3, Zenon DEF Kept
<1>7. l2 = l - Shifts(b, a, j) /\ l2 \in -MaxLead..MaxLead
  <2>1. \/ b >= 0 /\ l2 = l + (-1) * (MainPeriod + j) /\ l + (-1) * (MainPeriod + j) \in -MaxLead..MaxLead
        \/ ~ (b >= 0) /\ a >= 0 /\ l2 = l + (-1) * j /\ l + (-1) * j \in -MaxLead..MaxLead
        \/ ~ (b >= 0) /\ ~ (a >= 0) /\ l2 = l + 0 /\ l + 0 \in -MaxLead..MaxLead
    BY <1>2, <1>3, ZenonT(60) DEF Edge
  <2>2. l + (-1) * (MainPeriod + j) = l - (MainPeriod + j) /\ l + (-1) * j = l - j /\ l + 0 = l - 0
    BY <1>6, TagConstants DEF Typed
  <2> QED BY <2>1, <2>2 DEF Shifts
<1>8. OutEdge(a, b, O, h, j, l, ah, tag, O2, h2, go2, l2, ah2)
  <2>1. j \in -MainJitter..MainJitter
    BY SMTT(30)
  <2>2. ah2 = ah - 1 /\ ah2 \in -1..1
    BY <1>5, <1>6 DEF Typed
  <2> QED BY <1>4, <1>7, <2>1, <2>2, Zenon DEF OutEdge, Captured
<1>9. PICK y : y = [s EXCEPT !["out"] = CaptureTag(@, tag)]
  BY Zenon
<1>10. Holds(y, t, a, R, g, tag, tag, O2, h2, cnt, sh, cur, er, fe, pr)
  <2>1. PICK c : c = CaptureTag(s.out, tag)
    OBVIOUS
  <2>2. ChannelIs(c, tag, tag, O2, h2)
    <3>1. ChannelIs(s.out, u, b, O, h)
      BY <1>1, Zenon DEF Holds
    <3> QED BY <1>4, <2>1, <3>1, CaptureRecord, Zenon
  <2>3. y = [s EXCEPT !.out = c]
    BY <1>9, <2>1, Zenon
  <2>4. y.out = c /\ y.ref = s.ref /\ StateIs(y, cnt, sh, cur, er, fe, pr)
    BY <1>1, <2>3, Zenon DEF Holds, StateIs
  <2> QED BY <1>1, <2>2, <2>4, Zenon DEF Holds
<1>11. y.ref.tag = t /\ y.out.tag = tag
  BY <1>10, Zenon DEF Holds, ChannelIs
<1>12. go2 \in Nat /\ tag >= 0
  <2>1. a \in -1..MainTagMod - 1 /\ b \in -1..MainTagMod - 1 /\ O \in Int /\ h \in Int
    BY <1>6, Zenon DEF Typed
  <2>2. Captured(b, a, O, h, j, tag, O2, h2, go2)
    BY <1>8, Zenon DEF OutEdge
  <2>3. tag \in 0..MainTagMod - 1 /\ go2 \in Nat
    BY SMTT(30), <2>1, <2>2, TagIs
  <2> QED BY <2>3, TagConstants
<1>13. gap' \in [Channels -> Nat] /\ gap'["out"] = go2 /\ gap'["ref"] = gr
  <2>1. gap \in [Channels -> Nat]
    BY DEF MtInv, MtTypeOK
  <2> QED BY SMTT(30), <1>3, <1>5, <1>12, <2>1 DEF Channels
<1>14. Kept(t, a, R, g, u, b, O, h, cnt, cur, gr, go, l, ah)
  BY <1>1, <1>3, Zenon
<1>15. CASE t >= 0
  <2>0. t = a
    BY <1>14, <1>15, PendingIs
  <2>1. Ready(a, R, g, tag, O2, h2, cnt, cur, gr, go2, l2, ah2)
    BY <1>8, <1>14, <1>15, OutReady, Zenon
  <2>2. s' = mpll_pair_tags(y, step)
    BY <1>5, <1>9, <1>11, <1>12, <1>15, Zenon DEF mpll_update_tags
  <2>3. Holds(y, a, a, R, g, tag, tag, O2, h2, cnt, sh, cur, er, fe, pr)
    BY <1>10, <2>0, Zenon
  <2>4. Ready(a, R, g, tag, O2, h2, cnt, cur, gap'["ref"], gap'["out"], lead', ahead')
    BY <1>3, <1>13, <2>1, Zenon
  <2>5. Shifting(cnt, cur, step)
    BY <1>5, Zenon DEF Shifting
  <2> QED BY <1>13, <2>2, <2>3, <2>4, <2>5, PairStep, ZenonT(60)
<1>16. CASE ~ (t >= 0)
  <2>1. Kept(t, a, R, g, tag, tag, O2, h2, cnt, cur, gr, go2, l2, ah2)
    BY <1>8, <1>14, <1>16, OutLone, Zenon
  <2>2. s' = [y EXCEPT !.err = 0, !.freq_error = 0, !.shift = 0, !.pairs = FALSE]
    BY <1>5, <1>9, <1>11, <1>16, Zenon DEF mpll_update_tags
  <2>3. Kept(t, a, R, g, tag, tag, O2, h2, cnt, cur, gap'["ref"], gap'["out"], lead', ahead')
    BY <1>3, <1>13, <2>1, Zenon
  <2> QED BY <1>10, <1>13, <2>2, <2>3, LoneStep, Zenon
<1> QED BY SMTT(30), <1>15, <1>16

\* mpll_start.
LEMMA RestartedIs ==
  ASSUME NEW x, NEW g, NEW h, g = x.ref.dt, h = x.out.dt, NEW n, n = mpll_start_tags(x)
  PROVE  Holds(n, -1, -1, 0, g, -1, -1, 0, h, DiscardEarly, 0, 0, 0, 0, FALSE)
<1>1. n = [ref |-> NewChannel(g), out |-> NewChannel(h),
           discard_early_cnt |-> DiscardEarly, shift |-> 0, phase_shift_current |-> 0,
           err |-> 0, freq_error |-> 0, pairs |-> FALSE]
  BY ZenonT(60) DEF mpll_start_tags
<1>2. ChannelIs(NewChannel(g), -1, -1, 0, g) /\ ChannelIs(NewChannel(h), -1, -1, 0, h)
  BY DEF ChannelIs, NewChannel
<1>3. n.ref = NewChannel(g) /\ n.out = NewChannel(h)
  <2>1. PICK c, d : c = NewChannel(g) /\ d = NewChannel(h)
    BY Zenon
  <2>2. n = [ref |-> c, out |-> d,
             discard_early_cnt |-> DiscardEarly, shift |-> 0, phase_shift_current |-> 0,
             err |-> 0, freq_error |-> 0, pairs |-> FALSE]
    BY <1>1, <2>1, Zenon
  <2>3. n.ref = c /\ n.out = d
    BY SMTT(30), <2>2
  <2> QED BY <2>1, <2>3, Zenon
<1>4. StateIs(n, DiscardEarly, 0, 0, 0, 0, FALSE)
  <2>1. PICK c, d, D : c = NewChannel(g) /\ d = NewChannel(h) /\ D = DiscardEarly
    BY Zenon
  <2>2. n = [ref |-> c, out |-> d, discard_early_cnt |-> D, shift |-> 0,
             phase_shift_current |-> 0, err |-> 0, freq_error |-> 0, pairs |-> FALSE]
    BY <1>1, <2>1, Zenon
  <2>3. DOMAIN n = {"ref", "out", "discard_early_cnt", "shift", "phase_shift_current",
                    "err", "freq_error", "pairs"}
    BY <2>2
  <2>4. n.discard_early_cnt = D /\ n.shift = 0 /\ n.phase_shift_current = 0
        /\ n.err = 0 /\ n.freq_error = 0 /\ n.pairs = FALSE
    BY SMTT(30), <2>2
  <2> QED BY <2>1, <2>3, <2>4, Zenon DEF StateIs
<1> QED BY <1>2, <1>3, <1>4, Zenon DEF Holds

\* A PLL that was just started waits for its first tags.
LEMMA StartKept ==
  ASSUME NEW g \in Int, NEW h \in Int
  PROVE  Kept(-1, -1, 0, g, -1, -1, 0, h, DiscardEarly, 0, 0, 0, 0, 0)
<1>1. Typed(-1, -1, 0, g, -1, -1, 0, h, DiscardEarly, 0, 0, 0, 0, 0)
  BY MainTagsAssumption DEF Typed
<1>2. WaitAt(-1, -1, 0, -1, -1, 0, 0, 0, 0, 0, 0)
  BY DEF WaitAt
<1> QED BY <1>1, <1>2 DEF Kept

\* mpll_start between any two tags.
LEMMA RestartStep ==
  ASSUME MtInv, MtRestart
  PROVE  MtInv' /\ PairIsTrue
<1>1. PICK n, x : n = s' /\ x = s
  OBVIOUS
<1>2. PICK g, h : g = x.ref.dt /\ h = x.out.dt
  OBVIOUS
<1>3. g \in Int /\ h \in Int
  BY <1>1, <1>2, Zenon DEF MtInv, MtTypeOK, ChannelOK
<1>4. n = mpll_start_tags(x)
  BY <1>1, Zenon DEF MtRestart
<1>5. Holds(n, -1, -1, 0, g, -1, -1, 0, h, DiscardEarly, 0, 0, 0, 0, FALSE)
  BY <1>2, <1>4, RestartedIs, Zenon
<1>6. gap' \in [Channels -> Nat] /\ gap'["ref"] = 0 /\ gap'["out"] = 0 /\ lead' = 0 /\ ahead' = 0
  BY DEF MtRestart, Channels
<1>7. Kept(-1, -1, 0, g, -1, -1, 0, h, DiscardEarly, 0, gap'["ref"], gap'["out"], lead', ahead')
  <2>1. Kept(-1, -1, 0, g, -1, -1, 0, h, DiscardEarly, 0, 0, 0, 0, 0)
    BY <1>3, StartKept
  <2> QED BY <1>6, <2>1, Zenon
<1>8. MtInv'
  BY <1>1, <1>5, <1>6, <1>7, NumbersNext, Zenon
<1>9. ~ s'.pairs
  BY <1>1, <1>5, Zenon DEF Holds, StateIs
<1> QED BY <1>8, <1>9, Zenon DEF PairIsTrue

\* The state after MtInit is the one mpll_start leaves.
LEMMA MtInitInv == MtInit => MtInv
<1> SUFFICES ASSUME MtInit PROVE MtInv
  OBVIOUS
<1>1. PICK x : x = [ref |-> NewChannel(0), out |-> NewChannel(0)]
  BY ZenonT(60)
<1>2. 0 = x.ref.dt /\ 0 = x.out.dt /\ s = mpll_start_tags(x)
  BY <1>1 DEF NewChannel, MtInit
<1>3. PICK n : n = s
  OBVIOUS
<1>4. Holds(n, -1, -1, 0, 0, -1, -1, 0, 0, DiscardEarly, 0, 0, 0, 0, FALSE)
  BY <1>2, <1>3, RestartedIs, Zenon
<1>5. gap \in [Channels -> Nat] /\ gap["ref"] = 0 /\ gap["out"] = 0 /\ lead = 0 /\ ahead = 0
  BY DEF MtInit, Channels
<1>6. /\ s.ref.tag = -1 /\ s.ref.tag_d = -1 /\ s.ref.adder = 0 /\ s.ref.dt = 0
      /\ s.out.tag = -1 /\ s.out.tag_d = -1 /\ s.out.adder = 0 /\ s.out.dt = 0
      /\ s.discard_early_cnt = DiscardEarly /\ s.phase_shift_current = 0
  BY <1>3, <1>4, Zenon DEF Holds, ChannelIs, StateIs
<1>7. MtTypeOK
  <2>1. -1 \in -1..MainTagMod - 1 /\ 0 \in -MaxTagShift..MaxTagShift /\ 0 \in -MaxLead..MaxLead /\ 0 \in -1..1
        /\ 0 \in Int /\ DiscardEarly \in Nat
    BY MainTagsAssumption
  <2>2. ChannelOK(s.ref) /\ ChannelOK(s.out)
    BY <1>3, <1>4, <1>6, <2>1, Zenon DEF ChannelOK, Holds, ChannelIs
  <2>3. DOMAIN s = {"ref", "out", "discard_early_cnt", "shift", "phase_shift_current",
                    "err", "freq_error", "pairs"}
    BY <1>3, <1>4, Zenon DEF Holds, StateIs
  <2> QED BY <1>5, <1>6, <2>1, <2>2, <2>3, Zenon DEF MtTypeOK
<1>8. Waiting
  BY <1>5, <1>6, ZenonT(60) DEF Waiting
<1>9. \A c \in Channels : gap[c] > 0 => s[c].dt = gap[c]
  BY <1>5 DEF Channels
<1> QED BY <1>6, <1>7, <1>8, <1>9, Zenon DEF MtInv

\* Every step keeps the invariant, and a pair has true errors.
LEMMA MtStepInv == MtInv /\ [MtNext]_MtVars => MtInv' /\ [PairIsTrue]_MtVars
<1> SUFFICES ASSUME MtInv, [MtNext]_MtVars PROVE MtInv' /\ [PairIsTrue]_MtVars
  OBVIOUS
<1>1. CASE \E source \in Channels, j \in -MainJitter..MainJitter, step \in -1..1 : Edge(source, j, step)
  <2>1. PICK source \in Channels, j \in -MainJitter..MainJitter, step \in -1..1 : Edge(source, j, step)
    BY <1>1
  <2>2. CASE source = "ref"
    BY <2>1, <2>2, RefStep
  <2>3. CASE source = "out"
    BY <2>1, <2>3, OutStep
  <2> QED BY <2>2, <2>3 DEF Channels
<1>2. CASE MtRestart
  BY <1>2, RestartStep
<1>3. CASE UNCHANGED MtVars
  BY Zenon, <1>3 DEF MtVars, MtInv, MtTypeOK, Waiting, Pairing
<1> QED BY <1>1, <1>2, <1>3 DEF MtNext

\* The invariant of the tags: the unwrapped distance between the two channels is
\* known up to whole periods, and one of the adders is low after every pair.
THEOREM TagsAreKept == MtSpec => []MtInv
BY MtInitInv, MtStepInv, PTL DEF MtSpec

\* The adders of both channels stay within a fixed range however long the PLL
\* runs: the rebase of mpll_update comes in time.
THEOREM AddersAreBounded == MtSpec => []AddersBounded
<1>1. MtInv => AddersBounded
  <2> SUFFICES ASSUME MtInv PROVE AddersBounded
    BY SMTT(30)
  <2>1. PICK t, a, R, g, u, b, O, h, cnt, sh, cur, er, fe, pr :
           /\ Holds(s, t, a, R, g, u, b, O, h, cnt, sh, cur, er, fe, pr)
           /\ Kept(t, a, R, g, u, b, O, h, cnt, cur, gap["ref"], gap["out"], lead, ahead)
    BY NumbersOf
  <2>2. PICK M \in Nat, W \in Nat, L \in Nat, S \in Nat :
          /\ M = MainTagMod /\ W = MainWraparound /\ L = MaxLead /\ S = MaxTagShift
          /\ Low = 2 * W + 1 /\ AdderMax = 2 * W + 4 * M + 2 * L + S
    BY SMTT(30), TagConstants DEF Low, AdderMax
  <2>3. /\ R \in Int /\ O \in Int /\ lead \in -L..L /\ cur \in -S..S /\ ahead \in -1..1
        /\ cur \in Int
    BY SMTT(30), <2>1, <2>2 DEF Kept, Typed
  <2>4. R \in -S..AdderMax /\ O \in -S..AdderMax
    <3>1. CASE R = 0 /\ O = 0
      BY SMTT(30), <2>2, <3>1
    <3>2. CASE PairAt(t, a, R, u, b, O, cur, lead, ahead)
      <4>1. PICK mv \in -S..S : mv = MovedBy(cur)
        <5>1. CASE Reverse
          BY <2>3, <5>1 DEF MovedBy
        <5>2. CASE ~ Reverse
          BY SMTT(30), <2>3, <5>2 DEF MovedBy
        <5> QED BY <5>1, <5>2
      <4>2. /\ a \in 0..M - 1 /\ b \in 0..M - 1 /\ O >= 0 /\ R - mv >= 0
            /\ (R + a) - (O + b) - lead - mv <= M + L /\ -(M + L) <= (R + a) - (O + b) - lead - mv
        BY SMTT(30), <2>2, <3>2, <4>1 DEF PairAt, Apart
      <4>3. R <= Low + 2 * M \/ O <= Low + 2 * M
        <5>1. (1 + ahead) * M <= 2 * M /\ (1 - ahead) * M <= 2 * M
              /\ (1 + ahead) * M \in Int /\ (1 - ahead) * M \in Int
          <6>1. CASE ahead = 0
            BY <6>1
          <6>2. CASE ahead = 1
            BY <6>2
          <6>3. CASE ahead = -1
            BY SMTT(30), <6>3
          <6> QED BY SMTT(30), <2>3, <6>1, <6>2, <6>3
        <5>2. PICK c \in Int, d \in Int : c = (1 + ahead) * MainTagMod /\ d = (1 - ahead) * MainTagMod
                                          /\ c <= 2 * M /\ d <= 2 * M
          BY SMTT(30), <2>2, <5>1
        <5>3. R <= Low \/ O <= Low \/ R <= Low + c \/ O <= Low + d
          BY <3>2, <5>2 DEF PairAt
        <5> QED BY SMTT(30), <2>2, <2>3, <5>2, <5>3
      <4> QED BY SMTT(30), <2>2, <2>3, <4>1, <4>2, <4>3
    <3> QED BY SMTT(30), <2>1, <3>1, <3>2 DEF Kept, WaitAt
  <2>5. s["ref"].adder = R /\ s["out"].adder = O
    BY <2>1, Zenon DEF Holds, ChannelIs
  <2> QED BY <2>2, <2>4, <2>5, Zenon DEF AddersBounded, Channels
<1> QED BY <1>1, TagsAreKept, PTL

\* Both errors that a pair is measured by are the true ones: no wraparound of the
\* tags, alignment or rebase of the adders disturbs them.
THEOREM PairErrorsHold == MtSpec => PairErrorsAreTrue
<1>1. MtInv /\ [MtNext]_MtVars => [PairIsTrue]_MtVars
  BY MtStepInv
<1> QED BY <1>1, TagsAreKept, PTL DEF MtSpec, PairErrorsAreTrue, PairIsTrue
=============================================================================
