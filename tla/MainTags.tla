------------------------------ MODULE MainTags ------------------------------
(***************************************************************************)
(* How the main PLL turns the tags of its two channels into a frequency    *)
(* and a phase error (mpll_start, update_dtag_dt and mpll_update of        *)
(* softpll/spll_main.c, without CONFIG_FRAC_SPLL).                         *)
(*                                                                         *)
(* Both channels are stamped by a counter that wraps at MainTagMod, with   *)
(* edges one MainPeriod, give or take, apart; MainTagMod is a multiple of  *)
(* MainPeriod.  A tag of -1 means none captured.  err and freq_error are   *)
(* the two errors of the pair that the last tag completed, shift the phase *)
(* shift it was measured with.  gap is the truth about the two last        *)
(* spacings and lead the unwrapped distance between the two channels; both *)
(* are history variables, and ahead says how many more edges the reference *)
(* has delivered.                                                          *)
(***************************************************************************)
EXTENDS Integers

CONSTANTS MainTagMod, MainPeriod,
          MainWraparound, \* MPLL_TAG_WRAPAROUND
          DiscardEarly,   \* MPLL_DISCARD_EARLY_TAGS
          Reverse,        \* reverse_spll
          MainJitter,     \* largest deviation of a spacing from MainPeriod
          MaxLead,        \* largest distance between the channels
          MaxTagShift     \* largest phase shift

ASSUME MainTagsAssumption ==
  /\ MainTagMod \in Nat /\ MainPeriod \in Nat \ {0} /\ MainWraparound \in Nat /\ DiscardEarly \in Nat
  /\ MainJitter \in Nat /\ MaxLead \in Nat /\ MaxTagShift \in Nat /\ Reverse \in BOOLEAN
  /\ MainTagMod % MainPeriod = 0 /\ MainPeriod % 2 = 0
  /\ MainJitter < MainPeriod /\ MainPeriod + MainJitter < MainTagMod
  /\ MainWraparound > 2 * MainTagMod /\ MaxTagShift <= MainWraparound

VARIABLES s, gap, lead, ahead

MtVars == <<s, gap, lead, ahead>>

Channels == {"ref", "out"}

\* One channel of the state: the captured tag, the last tag for the wraparound
\* test (tag_ref_d and tag_ref_raw_d, which are always written together), the
\* anti-wraparound adder and the last spacing.
NewChannel(dt) == [tag |-> -1, tag_d |-> -1, adder |-> 0, dt |-> dt]

mpll_start_tags(old) ==
  [ref |-> NewChannel(old.ref.dt), out |-> NewChannel(old.out.dt),
   discard_early_cnt |-> DiscardEarly, shift |-> 0, phase_shift_current |-> 0,
   err |-> 0, freq_error |-> 0, pairs |-> FALSE]

\* Capture a tag: update_dtag_dt, then the wraparound test.
CaptureTag(c, tag) ==
  LET dt == tag - c.tag_d
  IN  [tag   |-> tag, tag_d |-> tag,
       adder |-> IF c.tag_d >= 0 /\ c.tag_d > tag THEN c.adder + MainTagMod ELSE c.adder,
       dt    |-> IF tag = c.tag_d THEN c.dt ELSE IF dt < 0 THEN dt + MainTagMod ELSE dt]

\* On the last of the discarded pairs, take whole periods out of the distance.
WholePeriods(delta) == MainPeriod * (delta \div MainPeriod)

AlignAdders(x) ==
  LET d    == (x.ref.tag + x.ref.adder) - (x.out.tag + x.out.adder)
      ref  == IF d > 0 THEN x.ref.adder - WholePeriods(d) ELSE x.ref.adder
      out  == IF d > 0 THEN x.out.adder ELSE x.out.adder - WholePeriods(-d)
      lift == IF ref < 0 \/ out < 0 THEN MainWraparound ELSE 0
  IN  IF x.discard_early_cnt = 1
      THEN [x EXCEPT !.ref.adder = ref + lift, !.out.adder = out + lift]
      ELSE x

\* err &= (1 << HPLL_N) - 1, sign extended.
MaskError(e) == LET r == e % MainPeriod IN IF r >= MainPeriod \div 2 THEN r - MainPeriod ELSE r

\* A slip of RebaseAdders: only the reference is rebased.
RebaseAdders_ref(x) ==
  IF x.ref.adder > 2 * MainWraparound /\ x.out.adder > 2 * MainWraparound
  THEN [x EXCEPT !.ref.adder = @ - MainWraparound] ELSE x

\* A slip of RebaseAdders: one test instead of two.
RebaseAdders_equal(x) ==
  IF x.ref.adder = 2 * MainWraparound /\ x.out.adder = 2 * MainWraparound
  THEN [x EXCEPT !.ref.adder = @ - MainWraparound, !.out.adder = @ - MainWraparound] ELSE x

RebaseAdders(x) ==
  IF x.ref.adder > 2 * MainWraparound /\ x.out.adder > 2 * MainWraparound
  THEN [x EXCEPT !.ref.adder = @ - MainWraparound, !.out.adder = @ - MainWraparound] ELSE x

\* The two errors of a pair; then both channels wait for their next tag.
MeasurePair(x) ==
  LET e == x.ref.adder + x.ref.tag - x.out.adder - x.out.tag
  IN  [x EXCEPT !.discard_early_cnt = IF @ > 0 THEN @ - 1 ELSE 0,
                !.freq_error = x.out.dt - x.ref.dt,
                !.err = MaskError(e), !.shift = x.phase_shift_current, !.pairs = TRUE,
                !.ref.tag = -1, !.out.tag = -1]

\* The move of the phase shifter, in -1..1.
MoveShifter(x, step) ==
  [x EXCEPT !.phase_shift_current = @ + step,
            !.ref.adder = IF Reverse THEN @ - step ELSE @ + step]

\* Both tags are there.
mpll_pair_tags(x, step) == MoveShifter(RebaseAdders(MeasurePair(AlignAdders(x))), step)

mpll_update_tags(x, source, tag, step) ==
  LET y == [x EXCEPT ![source] = CaptureTag(@, tag)]
  IN  IF y.ref.tag >= 0 /\ y.out.tag >= 0 THEN mpll_pair_tags(y, step)
      ELSE [y EXCEPT !.err = 0, !.freq_error = 0, !.shift = 0, !.pairs = FALSE]

-----------------------------------------------------------------------------
MtInit ==
  /\ s = mpll_start_tags([ref |-> NewChannel(0), out |-> NewChannel(0)])
  /\ gap = [c \in Channels |-> 0]
  /\ lead = 0
  /\ ahead = 0

\* The next edge on a channel: anywhere for the first edge of the reference;
\* later ones, and the first of the output, keep their distance.  The shifter
\* moves under lock only, which takes more pairs (50, for the frequency alone)
\* than are discarded (10).
Edge(source, j, step) ==
  LET other == IF source = "ref" THEN "out" ELSE "ref"
      sign  == IF source = "ref" THEN 1 ELSE -1
      now   == IF s[source].tag_d >= 0 THEN s[source].tag_d + MainPeriod + j
               ELSE IF s[other].tag_d >= 0 THEN s[other].tag_d + j
               ELSE MainPeriod + j
      move  == IF s[source].tag_d >= 0 THEN sign * (MainPeriod + j)
               ELSE IF s[other].tag_d >= 0 THEN sign * j ELSE 0
  IN  /\ ahead + sign \in -1..1
      /\ lead + move \in -MaxLead..MaxLead
      /\ s.phase_shift_current + step \in -MaxTagShift..MaxTagShift
      /\ s.discard_early_cnt > 0 => step = 0
      /\ s' = mpll_update_tags(s, source, (now + MainTagMod) % MainTagMod, step)
      /\ gap' = [gap EXCEPT ![source] = IF s[source].tag_d >= 0 THEN MainPeriod + j ELSE 0]
      /\ lead' = lead + move
      /\ ahead' = ahead + sign

MtRestart ==
  /\ s' = mpll_start_tags(s)
  /\ gap' = [c \in Channels |-> 0] /\ lead' = 0 /\ ahead' = 0

MtNext ==
  \/ \E source \in Channels, j \in -MainJitter..MainJitter, step \in -1..1 : Edge(source, j, step)
  \/ MtRestart

MtSpec == MtInit /\ [][MtNext]_MtVars

-----------------------------------------------------------------------------
\* The adders stay within 32 bits: as long as both channels deliver, the rebase
\* keeps both of them below twice MPLL_TAG_WRAPAROUND and a margin for the
\* distance between them, and neither goes below the phase shift (mpll_update).
AdderMax == 2 * MainWraparound + 4 * MainTagMod + 2 * MaxLead + MaxTagShift
AddersBounded == \A c \in Channels : s[c].adder \in -MaxTagShift..AdderMax

\* The errors of a pair are the true ones.  Modulo MainPeriod the phase error is
\* the distance between the two edges plus the phase shift applied so far; the
\* frequency error is the difference of the last two spacings, once both
\* channels have delivered two edges.  No wraparound of the tags, alignment or
\* rebase of the adders disturbs them ("a sudden 2**HPLL_N jump in the error" is
\* masked out; mpll_update, update_dtag_dt).
PhaseIsTrue(x) ==
  LET moved == IF Reverse THEN -x.shift ELSE x.shift
  IN  /\ (x.err - (x.ref.tag_d - x.out.tag_d + moved)) % MainPeriod = 0
      /\ x.err >= -(MainPeriod \div 2) /\ x.err < MainPeriod \div 2
PairErrorsAreTrue ==
  [][s'.pairs /\ s'.ref.tag < 0 /\ s'.out.tag < 0 =>
       /\ PhaseIsTrue(s')
       /\ gap'["ref"] > 0 /\ gap'["out"] > 0 =>
            s'.freq_error = gap'["out"] - gap'["ref"]]_MtVars

\* The inductive invariant.  Once both channels have delivered, the unwrapped
\* distance between them follows lead and the phase shift, up to a constant that
\* is a multiple of the period and that only the alignment changes.  After a pair
\* one adder is low, and until the next pair only the channel that waits for the
\* other can grow, by as many wraps as ahead allows.
Moved(x) == IF Reverse THEN -x.phase_shift_current ELSE x.phase_shift_current
Offset(x, l) == (x.ref.adder + x.ref.tag_d) - (x.out.adder + x.out.tag_d) - l - Moved(x)
ChannelOK(c) ==
  /\ DOMAIN c = {"tag", "tag_d", "adder", "dt"}
  /\ c.tag \in -1..MainTagMod-1 /\ c.tag_d \in -1..MainTagMod-1 /\ c.adder \in Int /\ c.dt \in Int
MtTypeOK ==
  /\ DOMAIN s = {"ref", "out", "discard_early_cnt", "shift", "phase_shift_current",
                 "err", "freq_error", "pairs"}
  /\ ChannelOK(s.ref) /\ ChannelOK(s.out)
  /\ s.discard_early_cnt \in Nat /\ s.phase_shift_current \in -MaxTagShift..MaxTagShift
  /\ gap \in [Channels -> Nat] /\ lead \in -MaxLead..MaxLead /\ ahead \in -1..1

\* Before the first pair.
Waiting ==
  /\ s.ref.adder = 0 /\ s.out.adder = 0 /\ s.phase_shift_current = 0 /\ lead = 0
  /\ gap["ref"] = 0 /\ gap["out"] = 0
  /\ \/ s.ref.tag = -1 /\ s.ref.tag_d = -1 /\ s.out.tag = -1 /\ s.out.tag_d = -1 /\ ahead = 0
     \/ s.ref.tag = s.ref.tag_d /\ s.ref.tag >= 0 /\ s.out.tag = -1 /\ s.out.tag_d = -1 /\ ahead = 1
     \/ s.out.tag = s.out.tag_d /\ s.out.tag >= 0 /\ s.ref.tag = -1 /\ s.ref.tag_d = -1 /\ ahead = -1

Low == 2 * MainWraparound + 1
Pairing ==
  /\ s.ref.tag_d >= 0 /\ s.out.tag_d >= 0
  /\ Offset(s, lead) <= MainTagMod + MaxLead /\ -(MainTagMod + MaxLead) <= Offset(s, lead)
  /\ \E k \in Int : s.ref.adder - s.out.adder - Moved(s) = MainPeriod * k
  /\ s.out.adder >= 0 /\ s.ref.adder - Moved(s) >= 0
  /\ \/ s.ref.tag = -1 /\ s.out.tag = -1 /\ (s.ref.adder <= Low \/ s.out.adder <= Low)
     \/ /\ s.ref.tag = s.ref.tag_d /\ s.out.tag = -1 /\ ahead >= 0
        /\ s.out.adder <= Low \/ s.ref.adder <= Low + (1 + ahead) * MainTagMod
     \/ /\ s.out.tag = s.out.tag_d /\ s.ref.tag = -1 /\ ahead <= 0
        /\ s.ref.adder <= Low \/ s.out.adder <= Low + (1 - ahead) * MainTagMod

MtInv ==
  /\ MtTypeOK
  /\ s.discard_early_cnt > 0 => s.phase_shift_current = 0
  /\ \A c \in Channels : gap[c] > 0 => s[c].dt = gap[c]
  /\ Waiting \/ Pairing
=============================================================================
