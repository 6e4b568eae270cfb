-------------------------- MODULE SoftPllAuxProofs --------------------------
(***************************************************************************)
(* Proofs about the auxiliary outputs of a slave (module SoftPllAux),      *)
(* which the spll_update task drives beside the interrupt.                 *)
(*                                                                         *)
(* A pass is a list of writes with interrupts between them.  The           *)
(* invariant says, for each list that can be left of a pass, what the      *)
(* state is at that point; SoftPllProofs says what an interrupt leaves of  *)
(* it (IrqFrame).                                                          *)
(***************************************************************************)
EXTENDS SoftPllAux, SoftPllProofs

\* The lock flag of the main PLL, which the interrupt writes, is selected by the
\* number of its reference; the output of that number has the same flag.
NoClash == SlaveRefs \cap AuxIds = {}

Locking == {"LOCK_PLL", "ALIGN_PHASE", "SLAVE_READY"}

Own(x, i) == {x.aux[i].dmtd.id_ref, x.aux[i].dmtd.id_out}
Served(x, i) == x.aux[i].dmtd.enabled /\ Own(x, i) \subseteq x.taggers
Raised(x, i) == NoClash => i \in x.occr
Lowered(x, i) == NoClash => i \notin x.occr

\* What holds of an output between two passes over it.
Settled(x, i) ==
  /\ NoClash => (i \in x.occr <=> x.aux[i].seq_state \in AuxReady)
  /\ x.aux[i].seq_state \in Locking => Served(x, i)

Others(x, i) == \A j \in AuxIds \ {i} : Settled(x, j)

\* The value g read from OCCR, or from a tagger register, is as good as the
\* register, although the interrupt may have written to it since.
FlagsRead(x, g) == NoClash => \A j \in AuxIds : j \in g <=> j \in x.occr
OthersRead(x, g, i, ch) ==
  \A j \in AuxIds \ {i} : x.aux[j].seq_state \in Locking => Own(x, j) \cap Register(ch) \subseteq g

\* The writes of a pass over output i.
ToLoad(ch, on) == [op |-> "load_cer", ch |-> ch, on |-> on]
ToStore(ch, on) == [op |-> "store_cer", ch |-> ch, on |-> on]
ToSet(i, what) == [op |-> what, ch |-> i]
ToRead(i) == [op |-> "load_occr", ch |-> i]
ToFlag(i, on) == [op |-> "store_occr", ch |-> i, on |-> on]
ToState(i, q) == [op |-> "aux", ch |-> i, to |-> q]

\* What can be left of a pass that releases the output, and what holds then.
Leaving(x, g, w, i) ==
  LET o == MAIN_CHANNEL + i
      d == ToState(i, "DISABLED")
      f == ToFlag(i, FALSE)
  IN  \/ w = <<ToLoad(o, FALSE), ToStore(o, FALSE), ToSet(i, "disable"), ToRead(i), f, d>>
      \/ /\ w = <<ToStore(o, FALSE), ToSet(i, "disable"), ToRead(i), f, d>>
         /\ OthersRead(x, g, i, o)
      \/ w = <<ToSet(i, "disable"), ToRead(i), f, d>>
      \/ w = <<ToRead(i), f, d>>
      \/ w = <<f, d>> /\ FlagsRead(x, g)
      \/ w = <<d>> /\ Lowered(x, i)

\* The same for the pass that starts the output's PLL.
Starting(x, g, w, i, r) ==
  LET o == MAIN_CHANNEL + i
      k == ToState(i, "LOCK_PLL")
      m == x.aux[i].dmtd
  IN  /\ Lowered(x, i) /\ x.aux[i].seq_state = "DISABLED" /\ m.id_ref = r
      /\ \/ w = <<ToSet(i, "reset"), ToSet(i, "init_phase_ld"), ToSet(i, "init_freq_ld"),
                  ToLoad(r, TRUE), ToStore(r, TRUE), ToLoad(o, TRUE), ToStore(o, TRUE), k>>
         \/ /\ m.enabled
            /\ w = <<ToSet(i, "init_phase_ld"), ToSet(i, "init_freq_ld"),
                     ToLoad(r, TRUE), ToStore(r, TRUE), ToLoad(o, TRUE), ToStore(o, TRUE), k>>
         \/ /\ m.enabled
            /\ w = <<ToSet(i, "init_freq_ld"),
                     ToLoad(r, TRUE), ToStore(r, TRUE), ToLoad(o, TRUE), ToStore(o, TRUE), k>>
         \/ /\ m.enabled
            /\ w = <<ToLoad(r, TRUE), ToStore(r, TRUE), ToLoad(o, TRUE), ToStore(o, TRUE), k>>
         \/ /\ m.enabled /\ OthersRead(x, g, i, r)
            /\ w = <<ToStore(r, TRUE), ToLoad(o, TRUE), ToStore(o, TRUE), k>>
         \/ /\ m.enabled /\ r \in x.taggers
            /\ w = <<ToLoad(o, TRUE), ToStore(o, TRUE), k>>
         \/ /\ m.enabled /\ r \in x.taggers /\ OthersRead(x, g, i, o)
            /\ w = <<ToStore(o, TRUE), k>>
         \/ Served(x, i) /\ w = <<k>>

\* The pass that starts a phase tracker instead.
Monitoring(x, g, w, i) ==
  LET o == MAIN_CHANNEL + i
      c == MAIN_CHANNEL
  IN  /\ Lowered(x, i)
      /\ \/ w = <<ToState(i, "WAIT_MONITOR_LOCK"), ToLoad(o, TRUE), ToStore(o, TRUE),
                  ToLoad(c, TRUE), ToStore(c, TRUE)>>
         \/ /\ x.aux[i].seq_state = "WAIT_MONITOR_LOCK"
            /\ \/ w = <<ToLoad(o, TRUE), ToStore(o, TRUE), ToLoad(c, TRUE), ToStore(c, TRUE)>>
               \/ /\ w = <<ToStore(o, TRUE), ToLoad(c, TRUE), ToStore(c, TRUE)>>
                  /\ OthersRead(x, g, i, o)
               \/ w = <<ToLoad(c, TRUE), ToStore(c, TRUE)>>
               \/ w = <<ToStore(c, TRUE)>> /\ OthersRead(x, g, i, c)

\* The pass that reports the phase of a monitored output.
Reporting(x, g, w, i) ==
  \/ w = <<ToState(i, "MONITOR_READY"), ToRead(i), ToFlag(i, TRUE)>>
  \/ /\ x.aux[i].seq_state = "MONITOR_READY"
     /\ \/ w = <<ToRead(i), ToFlag(i, TRUE)>>
        \/ w = <<ToFlag(i, TRUE)>> /\ FlagsRead(x, g)

\* The passes of an output that has locked.
Aligning(x, g, w, i) ==
  /\ Served(x, i)
  /\ \/ w = <<ToState(i, "ALIGN_PHASE")>> /\ Lowered(x, i)
     \/ w = <<ToRead(i), ToFlag(i, TRUE), ToState(i, "SLAVE_READY")>>
     \/ w = <<ToFlag(i, TRUE), ToState(i, "SLAVE_READY")>> /\ FlagsRead(x, g)
     \/ w = <<ToState(i, "SLAVE_READY")>> /\ Raised(x, i)

Left(x, g, w, i) ==
  \/ Leaving(x, g, w, i) \/ Starting(x, g, w, i, x.aux[i].dmtd.id_ref)
  \/ Monitoring(x, g, w, i) \/ Reporting(x, g, w, i) \/ Aligning(x, g, w, i)

AuxWork(x, g, w) ==
  \/ w = <<>> /\ \A i \in AuxIds : Settled(x, i)
  \/ w # <<>> /\ \E i \in AuxIds : Others(x, i) /\ Left(x, g, w, i)

\* spll_init has assigned the channels; or it has not been called, and no output
\* is in use.
Wired(x) == \A i \in AuxIds : /\ x.aux[i].dmtd.id_out = MAIN_CHANNEL + i
                              /\ x.aux[i].dmtd.id_ref \in Refs
Unused(x) == ~x.eic /\ ~x.mpll.locked /\ \A i \in AuxIds : x.aux[i].seq_state = "DISABLED"

AuxInv ==
  /\ Plain(s) /\ s.mpll.id_ref \in {0, EXT_CHANNEL} \cup SlaveRefs
  /\ Wired(s) \/ (Unused(s) /\ task = <<>>)
  /\ AuxWork(s, reg, task)

\* After spll_very_init.
LEMMA AuxInitInv == AuxInit => AuxInv
  <1> SUFFICES ASSUME AuxInit PROVE AuxInv
    OBVIOUS
  <1>1. Plain(s)
    BY InitIInv DEF AuxInit, IInv
  <1>2. s.mpll.id_ref = 0 /\ s.mpll.locked = FALSE
    BY Zenon DEF AuxInit, Init, spll_very_init, main_zero
  <1>3. s.eic = FALSE /\ s.occr = {} /\ task = <<>>
    BY Zenon DEF AuxInit, Init, spll_very_init
  <1>4. \A i \in AuxIds : s.aux[i].seq_state = "DISABLED"
    <2> DEFINE u == [i \in AuxIds |-> [seq_state |-> "DISABLED", dmtd |-> main_zero(NoSchedule)]]
    <2>1. s.aux = u
      BY Zenon DEF AuxInit, Init, spll_very_init
    <2>2. QED BY <2>1
  <1>5. \A i \in AuxIds : Settled(s, i)
    BY <1>3, <1>4 DEF Settled, AuxReady, Locking
  <1>6. QED BY <1>1, <1>2, <1>3, <1>4, <1>5 DEF AuxInv, AuxWork, Unused

\* What the invariant sees of the outputs.
SameOutputs(x, z) ==
  /\ \A i \in AuxIds : /\ z.aux[i].seq_state = x.aux[i].seq_state
                       /\ z.aux[i].dmtd.enabled = x.aux[i].dmtd.enabled
                       /\ z.aux[i].dmtd.id_ref = x.aux[i].dmtd.id_ref
                       /\ z.aux[i].dmtd.id_out = x.aux[i].dmtd.id_out
                       /\ Own(x, i) \cap x.taggers \subseteq z.taggers
  /\ NoClash => \A i \in AuxIds : i \in z.occr <=> i \in x.occr

\* Steps that change no more keep what the rest of a pass counts on.
LEMMA OutputsFrame ==
  ASSUME NEW x, NEW z, NEW g, NEW w, AuxWork(x, g, w), SameOutputs(x, z)
  PROVE  AuxWork(z, g, w)
  <1>1. \A i \in AuxIds : Own(z, i) = Own(x, i)
    BY DEF SameOutputs, Own
  <1>2. \A i \in AuxIds : Served(x, i) => Served(z, i)
    BY <1>1 DEF SameOutputs, Served
  <1>3. \A i \in AuxIds : (Raised(x, i) => Raised(z, i)) /\ (Lowered(x, i) => Lowered(z, i))
    BY DEF SameOutputs, Raised, Lowered
  <1>4. \A i \in AuxIds : Settled(x, i) => Settled(z, i)
    BY <1>2 DEF SameOutputs, Settled
  <1>5. FlagsRead(x, g) => FlagsRead(z, g)
    BY DEF SameOutputs, FlagsRead
  <1>6. \A i \in AuxIds : \A ch : OthersRead(x, g, i, ch) => OthersRead(z, g, i, ch)
    BY <1>1 DEF SameOutputs, OthersRead
  <1>7. ASSUME NEW i \in AuxIds, Left(x, g, w, i)
        PROVE  Left(z, g, w, i)
    <2> DEFINE r == x.aux[i].dmtd.id_ref
    <2>1. /\ z.aux[i].seq_state = x.aux[i].seq_state
          /\ z.aux[i].dmtd.enabled = x.aux[i].dmtd.enabled /\ z.aux[i].dmtd.id_ref = r
          /\ r \in x.taggers => r \in z.taggers
      BY DEF SameOutputs, Own
    <2>2. CASE Leaving(x, g, w, i)
      <3>1. Leaving(z, g, w, i)
        BY <1>3, <1>5, <1>6, <2>2, Zenon DEF Leaving
      <3>2. QED BY <3>1, Zenon DEF Left
    <2>3. CASE Starting(x, g, w, i, r)
      <3>1. Starting(z, g, w, i, r)
        BY <1>2, <1>3, <1>6, <2>1, <2>3, Zenon DEF Starting
      <3>2. QED BY <2>1, <3>1, Zenon DEF Left
    <2>4. CASE Monitoring(x, g, w, i)
      <3>1. Monitoring(z, g, w, i)
        BY <1>3, <1>6, <2>1, <2>4, Zenon DEF Monitoring
      <3>2. QED BY <3>1, Zenon DEF Left
    <2>5. CASE Reporting(x, g, w, i)
      <3>1. Reporting(z, g, w, i)
        BY <1>5, <2>1, <2>5, Zenon DEF Reporting
      <3>2. QED BY <3>1, Zenon DEF Left
    <2>6. CASE Aligning(x, g, w, i)
      <3>1. Aligning(z, g, w, i)
        BY <1>2, <1>3, <1>5, <2>6, Zenon DEF Aligning
      <3>2. QED BY <3>1, Zenon DEF Left
    <2>7. QED BY <1>7, <2>2, <2>3, <2>4, <2>5, <2>6, Zenon DEF Left
  <1>8. \A i \in AuxIds : Others(x, i) => Others(z, i)
    BY <1>4, Zenon DEF Others
  <1>9. QED BY <1>4, <1>7, <1>8, Zenon DEF AuxWork
\* A step of the pass over output i, as the other outputs see it.
Write == AuxSet \/ AuxGoto \/ LoadOccr \/ StoreOccr \/ LoadCer \/ StoreCer

Fit(x, i) == Plain(x) /\ Wired(x) /\ Others(x, i)

Went(i) == Fit(s', i) /\ s'.mpll = s.mpll /\ task' = Tail(task)

\* A step that leaves the other outputs, their flags and their channels alone.
LEMMA OthersFrame ==
  ASSUME NEW x, NEW z, NEW i \in AuxIds, Others(x, i),
         \A j \in AuxIds \ {i} : z.aux[j] = x.aux[j],
         NoClash => \A j \in AuxIds \ {i} : j \in z.occr <=> j \in x.occr,
         \A j \in AuxIds \ {i} : x.aux[j].seq_state \in Locking => Own(x, j) \subseteq z.taggers
  PROVE  Others(z, i)
  <1>1. \A j \in AuxIds \ {i} : Own(z, j) = Own(x, j)
    BY DEF Own
  <1>2. ASSUME NEW j \in AuxIds \ {i}
        PROVE  Settled(z, j)
    BY <1>1 DEF Others, Settled, Served
  <1>3. QED BY <1>2 DEF Others

\* The operation at the head of the list tells which action it is.
LEMMA Which ==
  ASSUME Write
  PROVE  /\ Head(task).op \in {"reset", "init_phase_ld", "init_freq_ld", "disable"} => AuxSet
         /\ Head(task).op = "aux" => AuxGoto
         /\ Head(task).op = "load_occr" => LoadOccr
         /\ Head(task).op = "store_occr" => StoreOccr
         /\ Head(task).op = "load_cer" => LoadCer
         /\ Head(task).op = "store_cer" => StoreCer
  <1> DEFINE op == Head(task).op
  <1>1. /\ AuxSet => op \in {"reset", "init_phase_ld", "init_freq_ld", "disable"}
        /\ AuxGoto => op = "aux"
        /\ LoadOccr => op = "load_occr"
        /\ StoreOccr => op = "store_occr"
        /\ LoadCer => op = "load_cer"
        /\ StoreCer => op = "store_cer"
    BY Zenon DEF AuxSet, AuxGoto, LoadOccr, StoreOccr, LoadCer, StoreCer
  <1> HIDE DEF op
  <1>2. QED BY <1>1 DEF Write, op

\* Reading a tagger register.
LEMMA WentLoad ==
  ASSUME NEW i \in AuxIds, Fit(s, i), Write, NEW c, NEW on, Head(task) = ToLoad(c, on)
  PROVE  Went(i) /\ s' = s /\ OthersRead(s', reg', i, c)
  <1>1. Head(task).op = "load_cer" /\ Head(task).ch = c
    BY DEF ToLoad
  <1>2. s' = s /\ reg' = s.taggers \cap Register(c) /\ task' = Tail(task)
    BY <1>1, Which DEF LoadCer
  <1>3. OthersRead(s, reg', i, c)
    BY <1>2 DEF Fit, Others, Settled, Served, OthersRead
  <1>4. QED BY <1>2, <1>3 DEF Went

\* Writing it back, with a bit changed.
LEMMA WentStore ==
  ASSUME NEW i \in AuxIds, Fit(s, i), Write, NEW c \in Int, NEW on \in BOOLEAN,
         on \/ c = MAIN_CHANNEL + i,
         Head(task) = ToStore(c, on), OthersRead(s, reg, i, c)
  PROVE  /\ Went(i) /\ s'.aux = s.aux /\ s'.occr = s.occr
         /\ on => c \in s'.taggers
         /\ s.taggers \ Register(c) \subseteq s'.taggers
  <1>1. Head(task).op = "store_cer" /\ Head(task).ch = c /\ Head(task).on = on
    BY DEF ToStore
  <1> DEFINE new == IF on THEN reg \cup {c} ELSE reg \ {c}
             t == (s.taggers \ Register(c)) \cup new
  <1>2. s' = [s EXCEPT !.taggers = t] /\ task' = Tail(task)
    <2>1. StoreCer
      BY <1>1, Which
    <2>2. QED BY Zenon, <1>1, <2>1 DEF StoreCer
  <1>3. DOMAIN s = Fields
    BY DEF Fit, Plain
  <1> HIDE DEF t
  <1>4. /\ DOMAIN s' = Fields /\ s'.seq_state = s.seq_state /\ s'.helper = s.helper
        /\ s'.mpll = s.mpll /\ s'.aux = s.aux /\ s'.occr = s.occr /\ s'.taggers = t
    BY <1>2, <1>3, Zenon DEF Fields
  <1>5. Plain(s') /\ Wired(s')
    BY <1>4, Zenon DEF Fit, Plain, Wired
  <1>6. (on => c \in t) /\ s.taggers \ Register(c) \subseteq t
    BY DEF t
  <1>7. ASSUME NEW j \in AuxIds \ {i}, s.aux[j].seq_state \in Locking
        PROVE  Own(s, j) \subseteq t
    <2>1. Own(s, j) \subseteq s.taggers /\ Own(s, j) \cap Register(c) \subseteq reg
      BY <1>7 DEF Fit, Others, Settled, Served, OthersRead
    <2>2. on \/ c \notin Own(s, j)
      BY SoftPllAssumption DEF Fit, Wired, Own, Refs, AuxIds, MAIN_CHANNEL
    <2>3. QED BY <2>1, <2>2 DEF t
  <1>8. Others(s', i)
    BY SMTT(30), <1>4, <1>7, OthersFrame DEF Fit
  <1>9. QED BY SMTT(30), <1>2, <1>4, <1>5, <1>6, <1>8 DEF Went, Fit

\* Reading OCCR.
LEMMA WentRead ==
  ASSUME NEW i \in AuxIds, Fit(s, i), Write, Head(task) = ToRead(i)
  PROVE  Went(i) /\ s' = s /\ FlagsRead(s', reg')
  <1>1. Head(task).op = "load_occr"
    BY DEF ToRead
  <1>2. s' = s /\ reg' = s.occr /\ task' = Tail(task)
    BY <1>1, Which DEF LoadOccr
  <1>3. QED BY <1>2 DEF Went, FlagsRead

\* Writing it back, with the flag of the output changed.
LEMMA WentFlag ==
  ASSUME NEW i \in AuxIds, Fit(s, i), Write, NEW on \in BOOLEAN,
         Head(task) = ToFlag(i, on), FlagsRead(s, reg)
  PROVE  /\ Went(i) /\ s'.aux = s.aux /\ s'.taggers = s.taggers
         /\ on => Raised(s', i)
         /\ ~on => Lowered(s', i)
  <1>1. Head(task).op = "store_occr" /\ Head(task).ch = i /\ Head(task).on = on
    BY DEF ToFlag
  <1> DEFINE f == IF on THEN reg \cup ({i} \cap OutLock) ELSE reg \ {i}
  <1>2. s' = [s EXCEPT !.occr = f] /\ task' = Tail(task)
    <2>1. StoreOccr
      BY <1>1, Which
    <2>2. QED BY Zenon, <1>1, <2>1 DEF StoreOccr
  <1>3. DOMAIN s = Fields
    BY DEF Fit, Plain
  <1> HIDE DEF f
  <1>4. /\ DOMAIN s' = Fields /\ s'.seq_state = s.seq_state /\ s'.helper = s.helper
        /\ s'.mpll = s.mpll /\ s'.aux = s.aux /\ s'.taggers = s.taggers /\ s'.occr = f
    BY <1>2, <1>3, Zenon DEF Fields
  <1>5. Plain(s') /\ Wired(s')
    BY <1>4, Zenon DEF Fit, Plain, Wired
  <1>6. i \in OutLock
    BY SoftPllAssumption DEF AuxIds, OutLock
  <1>7. (on => i \in f) /\ (~on => i \notin f)
    BY <1>6 DEF f
  <1>8. NoClash => \A j \in AuxIds \ {i} : j \in f <=> j \in s.occr
    BY DEF f, FlagsRead
  <1>9. \A j \in AuxIds \ {i} : s.aux[j].seq_state \in Locking => Own(s, j) \subseteq s.taggers
    BY DEF Fit, Others, Settled, Served
  <1>10. Others(s', i)
    BY SMTT(30), <1>4, <1>8, <1>9, OthersFrame DEF Fit
  <1>11. QED BY SMTT(30), <1>2, <1>4, <1>5, <1>7, <1>10 DEF Went, Fit, Raised, Lowered
\* An assignment to the state of the output.
LEMMA WentState ==
  ASSUME NEW i \in AuxIds, Fit(s, i), Write, NEW q, Head(task) = ToState(i, q)
  PROVE  /\ Went(i) /\ s'.occr = s.occr /\ s'.taggers = s.taggers
         /\ s'.aux[i].seq_state = q /\ s'.aux[i].dmtd = s.aux[i].dmtd
  <1>1. Head(task).op = "aux" /\ Head(task).ch = i /\ Head(task).to = q
    BY DEF ToState
  <1>2. s' = [s EXCEPT !.aux[i].seq_state = q] /\ task' = Tail(task)
    BY <1>1, Which DEF AuxGoto
  <1>3. DOMAIN s = Fields /\ DOMAIN s.aux = AuxIds /\ DOMAIN s.aux[i] = {"seq_state", "dmtd"}
    BY DEF Fit, Plain
  <1> DEFINE b == [s.aux[i] EXCEPT !.seq_state = q]
             a == [s.aux EXCEPT ![i] = b]
  <1>4. s' = [s EXCEPT !.aux = a]
    BY <1>2, Zenon
  <1>5. DOMAIN b = {"seq_state", "dmtd"} /\ b.seq_state = q /\ b.dmtd = s.aux[i].dmtd
    BY <1>3, Zenon
  <1> HIDE DEF b
  <1>6. DOMAIN a = AuxIds /\ a[i] = b /\ \A j \in AuxIds \ {i} : a[j] = s.aux[j]
    BY <1>3
  <1> HIDE DEF a
  <1>7. /\ DOMAIN s' = Fields /\ s'.seq_state = s.seq_state /\ s'.helper = s.helper
        /\ s'.mpll = s.mpll /\ s'.occr = s.occr /\ s'.taggers = s.taggers /\ s'.aux = a
    BY <1>3, <1>4, Zenon DEF Fields
  <1>8. Plain(s')
    BY SMTT(30), <1>5, <1>6, <1>7 DEF Fit, Plain
  <1>9. Wired(s')
    BY SMTT(30), <1>5, <1>6, <1>7 DEF Fit, Wired
  <1>10. \A j \in AuxIds \ {i} : s.aux[j].seq_state \in Locking => Own(s, j) \subseteq s.taggers
    BY DEF Fit, Others, Settled, Served
  <1>11. Others(s', i)
    BY SMTT(30), <1>6, <1>7, <1>10, OthersFrame DEF Fit
  <1>12. QED BY SMTT(30), <1>2, <1>5, <1>6, <1>7, <1>8, <1>9, <1>11 DEF Went, Fit

\* What the writes to the PLL of an output leave alone.
Linked(m, n) == DOMAIN n = MainFields /\ n.id_ref = m.id_ref /\ n.id_out = m.id_out

\* A new value of the PLL of output i.
LEMMA OutputSet ==
  ASSUME NEW i \in AuxIds, Fit(s, i), NEW n, Linked(s.aux[i].dmtd, n),
         s' = [s EXCEPT !.aux[i].dmtd = n]
  PROVE  /\ Fit(s', i) /\ s'.mpll = s.mpll /\ s'.occr = s.occr /\ s'.taggers = s.taggers
         /\ s'.aux[i].seq_state = s.aux[i].seq_state /\ s'.aux[i].dmtd = n
  <1>1. DOMAIN s = Fields /\ DOMAIN s.aux = AuxIds /\ DOMAIN s.aux[i] = {"seq_state", "dmtd"}
    BY DEF Fit, Plain
  <1> DEFINE b == [s.aux[i] EXCEPT !.dmtd = n]
             a == [s.aux EXCEPT ![i] = b]
  <1>2. s' = [s EXCEPT !.aux = a]
    BY Zenon
  <1>3. DOMAIN b = {"seq_state", "dmtd"} /\ b.seq_state = s.aux[i].seq_state /\ b.dmtd = n
    BY <1>1, Zenon
  <1> HIDE DEF b
  <1>4. DOMAIN a = AuxIds /\ a[i] = b /\ \A j \in AuxIds \ {i} : a[j] = s.aux[j]
    BY <1>1
  <1> HIDE DEF a
  <1>5. /\ DOMAIN s' = Fields /\ s'.seq_state = s.seq_state /\ s'.helper = s.helper
        /\ s'.mpll = s.mpll /\ s'.occr = s.occr /\ s'.taggers = s.taggers /\ s'.aux = a
    BY <1>1, <1>2, Zenon DEF Fields
  <1>6. Plain(s')
    BY SMTT(30), <1>3, <1>4, <1>5 DEF Fit, Plain, Linked
  <1>7. Wired(s')
    BY <1>3, <1>4, <1>5 DEF Fit, Wired, Linked
  <1>8. \A j \in AuxIds \ {i} : s.aux[j].seq_state \in Locking => Own(s, j) \subseteq s.taggers
    BY DEF Fit, Others, Settled, Served
  <1>9. Others(s', i)
    <2>1. /\ \A j \in AuxIds \ {i} : s'.aux[j] = s.aux[j]
          /\ \A j \in AuxIds \ {i} :
               s.aux[j].seq_state \in Locking => Own(s, j) \subseteq s'.taggers
      BY <1>4, <1>5, <1>8
    <2>2. QED BY Zenon, <1>5, <2>1, OthersFrame DEF Fit
  <1>10. QED BY SMTT(30), <1>3, <1>4, <1>5, <1>6, <1>7, <1>9 DEF Fit

\* mpll_start up to the lock detectors enables the PLL.
LEMMA ResetEnables ==
  ASSUME NEW m, DOMAIN m = MainFields
  PROVE  Linked(m, mpll_reset(m)) /\ mpll_reset(m).enabled
  <1> DEFINE n == mpll_start(m)
             k == [n EXCEPT !.freq_ld = m.freq_ld, !.phase_ld = m.phase_ld]
  <1>1. DOMAIN n = MainFields /\ n.id_ref = m.id_ref /\ n.id_out = m.id_out /\ n.enabled = TRUE
    BY Zenon DEF mpll_start, MainFields
  <1>2. mpll_reset(m) = k
    BY Zenon DEF mpll_reset
  <1> HIDE DEF n
  <1>3. DOMAIN k = MainFields /\ k.id_ref = n.id_ref /\ k.id_out = n.id_out /\ k.enabled = n.enabled
    BY <1>1, ZenonT(60) DEF MainFields
  <1> HIDE DEF k
  <1>4. QED BY <1>1, <1>2, <1>3 DEF Linked

\* A write to the PLL of the output.
LEMMA WentSet ==
  ASSUME NEW i \in AuxIds, Fit(s, i), Write,
         NEW what \in {"reset", "init_phase_ld", "init_freq_ld", "disable"},
         Head(task) = ToSet(i, what)
  PROVE  /\ Went(i) /\ s'.occr = s.occr /\ s'.taggers = s.taggers
         /\ s'.aux[i].seq_state = s.aux[i].seq_state
         /\ s'.aux[i].dmtd.id_ref = s.aux[i].dmtd.id_ref
         /\ what = "reset" => s'.aux[i].dmtd.enabled
         /\ what \in {"init_phase_ld", "init_freq_ld"} /\ s.aux[i].dmtd.enabled =>
              s'.aux[i].dmtd.enabled
  <1> DEFINE m == s.aux[i].dmtd
  <1>1. Head(task).op = what /\ Head(task).ch = i
    BY DEF ToSet
  <1>2. AuxSet
    BY <1>1, Which
  <1>3. task' = Tail(task)
    BY Zenon, <1>2 DEF AuxSet
  <1>4. DOMAIN m = MainFields
    BY SMTT(30) DEF Fit, Plain
  <1>5. CASE what = "reset"
    <2>1. s' = [s EXCEPT !.aux[i].dmtd = mpll_reset(m)]
      BY <1>1, <1>2, <1>5, Zenon DEF AuxSet
    <2>2. Linked(m, mpll_reset(m)) /\ mpll_reset(m).enabled
      BY SMTT(30), <1>4, ResetEnables
    <2>3. QED BY SMTT(30), <1>3, <1>5, <2>1, <2>2, OutputSet DEF Went, Linked
  <1>6. CASE what = "init_phase_ld"
    <2> DEFINE n == [m EXCEPT !.phase_ld = ld_init(@)]
    <2>1. s' = [s EXCEPT !.aux[i].dmtd = n]
      BY <1>1, <1>2, <1>6, Zenon DEF AuxSet
    <2>2. /\ DOMAIN n = MainFields /\ n.id_ref = m.id_ref /\ n.id_out = m.id_out
          /\ n.enabled = m.enabled
      BY <1>4, Zenon DEF MainFields
    <2> HIDE DEF n
    <2>3. QED BY SMTT(30), <1>3, <1>6, <2>1, <2>2, OutputSet DEF Went, Linked
  <1>7. CASE what = "init_freq_ld"
    <2> DEFINE n == [m EXCEPT !.freq_ld = ld_init(@)]
    <2>1. s' = [s EXCEPT !.aux[i].dmtd = n]
      BY <1>1, <1>2, <1>7, Zenon DEF AuxSet
    <2>2. /\ DOMAIN n = MainFields /\ n.id_ref = m.id_ref /\ n.id_out = m.id_out
          /\ n.enabled = m.enabled
      BY <1>4, Zenon DEF MainFields
    <2> HIDE DEF n
    <2>3. QED BY SMTT(30), <1>3, <1>7, <2>1, <2>2, OutputSet DEF Went, Linked
  <1>8. CASE what = "disable"
    <2> DEFINE n == [m EXCEPT !.enabled = FALSE]
    <2>1. s' = [s EXCEPT !.aux[i].dmtd = n]
      BY <1>1, <1>2, <1>8, Zenon DEF AuxSet
    <2>2. DOMAIN n = MainFields /\ n.id_ref = m.id_ref /\ n.id_out = m.id_out
      BY <1>4, Zenon DEF MainFields
    <2> HIDE DEF n
    <2>3. QED BY SMTT(30), <1>3, <1>8, <2>1, <2>2, OutputSet DEF Went, Linked
  <1>9. QED BY SMTT(30), <1>5, <1>6, <1>7, <1>8
\* After the last write of a pass.
LEMMA Finished ==
  ASSUME NEW i \in AuxIds, Went(i), Settled(s', i), task' = <<>>
  PROVE  AuxWork(s', reg', task')
  BY DEF Went, Fit, Others, AuxWork

\* After any other.
LEMMA More ==
  ASSUME NEW i \in AuxIds, Went(i), Left(s', reg', task', i), task' # <<>>
  PROVE  AuxWork(s', reg', task')
  BY Zenon DEF Went, Fit, AuxWork

\* The six writes that release an output.
LEMMA LeavingStep ==
  ASSUME NEW i \in AuxIds, Fit(s, i), Write, Leaving(s, reg, task, i)
  PROVE  Went(i) /\ AuxWork(s', reg', task')
  <1> DEFINE o == MAIN_CHANNEL + i
             d == ToState(i, "DISABLED")
             f == ToFlag(i, FALSE)
             u == ToSet(i, "disable")
             t == ToStore(o, FALSE)
             l == ToLoad(o, FALSE)
             p == ToRead(i)
  <1>1. o \in Int
    BY SoftPllAssumption DEF MAIN_CHANNEL, AuxIds
  <1>2. CASE task = <<l, t, u, p, f, d>>
    <2>1. Head(task) = l /\ Tail(task) = <<t, u, p, f, d>>
      <3> HIDE DEF d, f, u, t, l, p
      <3>1. QED BY <1>2
    <2>2. Went(i) /\ OthersRead(s', reg', i, o)
      BY <2>1, WentLoad, Zenon
    <2>3. task' = <<t, u, p, f, d>>
      BY <2>1, <2>2, Zenon DEF Went
    <2>4. Leaving(s', reg', task', i)
      BY <2>2, <2>3, Zenon DEF Leaving
    <2>5. task' # <<>>
      BY <2>3
    <2>6. QED BY <2>2, <2>4, <2>5, More, Zenon DEF Left
  <1>3. CASE task = <<t, u, p, f, d>> /\ OthersRead(s, reg, i, o)
    <2>1. Head(task) = t /\ Tail(task) = <<u, p, f, d>>
      <3> HIDE DEF d, f, u, t, l, p
      <3>1. QED BY <1>3
    <2>2. Went(i)
      BY Zenon, <1>1, <1>3, <2>1, WentStore
    <2>3. task' = <<u, p, f, d>>
      BY <2>1, <2>2, Zenon DEF Went
    <2>4. Leaving(s', reg', task', i)
      BY <2>3, Zenon DEF Leaving
    <2>5. task' # <<>>
      BY SMTT(30), <2>3
    <2>6. QED BY <2>2, <2>4, <2>5, More, Zenon DEF Left
  <1>4. CASE task = <<u, p, f, d>>
    <2>1. Head(task) = u /\ Tail(task) = <<p, f, d>>
      <3> HIDE DEF d, f, u, t, l, p
      <3>1. QED BY SMTT(30), <1>4
    <2>2. Went(i)
      BY <2>1, WentSet
    <2>3. task' = <<p, f, d>>
      BY <2>1, <2>2, Zenon DEF Went
    <2>4. Leaving(s', reg', task', i)
      BY <2>3, Zenon DEF Leaving
    <2>5. task' # <<>>
      BY <2>3
    <2>6. QED BY <2>2, <2>4, <2>5, More, Zenon DEF Left
  <1>5. CASE task = <<p, f, d>>
    <2>1. Head(task) = p /\ Tail(task) = <<f, d>>
      <3> HIDE DEF d, f, u, t, l, p
      <3>1. QED BY <1>5
    <2>2. Went(i) /\ FlagsRead(s', reg')
      BY <2>1, WentRead
    <2>3. task' = <<f, d>>
      BY <2>1, <2>2, Zenon DEF Went
    <2>4. Leaving(s', reg', task', i)
      BY <2>2, <2>3, Zenon DEF Leaving
    <2>5. task' # <<>>
      BY <2>3
    <2>6. QED BY <2>2, <2>4, <2>5, More, Zenon DEF Left
  <1>6. CASE task = <<f, d>> /\ FlagsRead(s, reg)
    <2>1. Head(task) = f /\ Tail(task) = <<d>>
      BY <1>6
    <2>2. Went(i) /\ Lowered(s', i)
      BY Zenon, <1>6, <2>1, WentFlag
    <2>3. task' = <<d>>
      BY <2>1, <2>2, Zenon DEF Went
    <2>4. Leaving(s', reg', task', i)
      BY <2>2, <2>3, Zenon DEF Leaving
    <2>5. task' # <<>>
      BY <2>3
    <2>6. QED BY <2>2, <2>4, <2>5, More, Zenon DEF Left
  <1>7. CASE task = <<d>> /\ Lowered(s, i)
    <2>1. Head(task) = d /\ Tail(task) = <<>>
      BY <1>7
    <2>2. Went(i) /\ s'.occr = s.occr /\ s'.aux[i].seq_state = "DISABLED"
      BY SMTT(30), <2>1, WentState
    <2>3. Settled(s', i)
      BY <1>7, <2>2 DEF Settled, Lowered, AuxReady, Locking
    <2>4. QED BY SMTT(30), <2>1, <2>2, <2>3, Finished DEF Went
  <1>8. QED BY <1>2, <1>3, <1>4, <1>5, <1>6, <1>7, Zenon DEF Leaving

\* The eight writes that start the PLL of an output.
LEMMA StartingStep ==
  ASSUME NEW i \in AuxIds, Fit(s, i), Write, Starting(s, reg, task, i, s.aux[i].dmtd.id_ref)
  PROVE  Went(i) /\ AuxWork(s', reg', task')
  <1> DEFINE r == s.aux[i].dmtd.id_ref
             o == MAIN_CHANNEL + i
             k == ToState(i, "LOCK_PLL")
             z == ToSet(i, "reset")
             a == ToSet(i, "init_phase_ld")
             b == ToSet(i, "init_freq_ld")
             c == ToLoad(r, TRUE)
             d == ToStore(r, TRUE)
             e == ToLoad(o, TRUE)
             f == ToStore(o, TRUE)
             m == s.aux[i].dmtd
             Still == /\ Lowered(s', i) /\ s'.aux[i].seq_state = "DISABLED"
                      /\ s'.aux[i].dmtd.id_ref = r
  <1>1. o \in Int /\ r \in Int /\ r \in Refs /\ m.id_out = o
    BY SoftPllAssumption DEF MAIN_CHANNEL, AuxIds, Refs, Fit, Wired
  <1>2. Lowered(s, i) /\ s.aux[i].seq_state = "DISABLED"
    BY Zenon DEF Starting
  <1>3. ASSUME Went(i), task' # <<>>, Starting(s', reg', task', i, r), Still
        PROVE  Went(i) /\ AuxWork(s', reg', task')
    BY <1>3, More, ZenonT(60) DEF Left
  <1>4. CASE task = <<z, a, b, c, d, e, f, k>>
    <2>1. Head(task) = z /\ Tail(task) = <<a, b, c, d, e, f, k>>
      <3> HIDE DEF k, z, a, b, c, d, e, f
      <3>1. QED BY SMTT(30), <1>4
    <2>2. /\ Went(i) /\ s'.occr = s.occr /\ s'.aux[i].seq_state = s.aux[i].seq_state
          /\ s'.aux[i].dmtd.id_ref = r /\ s'.aux[i].dmtd.enabled
      BY <2>1, WentSet
    <2>3. task' = <<a, b, c, d, e, f, k>>
      BY <2>1, <2>2, Zenon DEF Went
    <2>4. Still
      BY <1>2, <2>2 DEF Lowered
    <2>5. Starting(s', reg', task', i, r)
      BY <2>2, <2>3, <2>4, ZenonT(60) DEF Starting
    <2>6. task' # <<>>
      BY SMTT(30), <2>3
    <2>7. QED BY SMTT(30), <1>3, <2>2, <2>4, <2>5, <2>6
  <1>5. CASE m.enabled /\ task = <<a, b, c, d, e, f, k>>
    <2>1. Head(task) = a /\ Tail(task) = <<b, c, d, e, f, k>>
      <3> HIDE DEF k, z, a, b, c, d, e, f
      <3>1. QED BY <1>5
    <2>2. /\ Went(i) /\ s'.occr = s.occr /\ s'.aux[i].seq_state = s.aux[i].seq_state
          /\ s'.aux[i].dmtd.id_ref = r /\ s'.aux[i].dmtd.enabled
      BY Zenon, <1>5, <2>1, WentSet
    <2>3. task' = <<b, c, d, e, f, k>>
      BY <2>1, <2>2, Zenon DEF Went
    <2>4. Still
      BY <1>2, <2>2 DEF Lowered
    <2>5. Starting(s', reg', task', i, r)
      BY <2>2, <2>3, <2>4, ZenonT(60) DEF Starting
    <2>6. task' # <<>>
      BY SMTT(30), <2>3
    <2>7. QED BY <1>3, <2>2, <2>4, <2>5, <2>6
  <1>6. CASE m.enabled /\ task = <<b, c, d, e, f, k>>
    <2>1. Head(task) = b /\ Tail(task) = <<c, d, e, f, k>>
      <3> HIDE DEF k, z, a, b, c, d, e, f
      <3>1. QED BY <1>6
    <2>2. /\ Went(i) /\ s'.occr = s.occr /\ s'.aux[i].seq_state = s.aux[i].seq_state
          /\ s'.aux[i].dmtd.id_ref = r /\ s'.aux[i].dmtd.enabled
      BY Zenon, <1>6, <2>1, WentSet
    <2>3. task' = <<c, d, e, f, k>>
      BY <2>1, <2>2, Zenon DEF Went
    <2>4. Still
      BY <1>2, <2>2 DEF Lowered
    <2>5. Starting(s', reg', task', i, r)
      BY <2>2, <2>3, <2>4, Zenon DEF Starting
    <2>6. task' # <<>>
      BY SMTT(30), <2>3
    <2>7. QED BY <1>3, <2>2, <2>4, <2>5, <2>6
  <1>7. CASE m.enabled /\ task = <<c, d, e, f, k>>
    <2>1. Head(task) = c /\ Tail(task) = <<d, e, f, k>>
      <3> HIDE DEF k, z, a, b, c, d, e, f
      <3>1. QED BY <1>7
    <2>2. Went(i) /\ s' = s /\ OthersRead(s', reg', i, r)
      BY Zenon, <2>1, WentLoad
    <2>3. task' = <<d, e, f, k>>
      BY <2>1, <2>2, Zenon DEF Went
    <2>4. Still
      BY <1>2, <2>2
    <2>5. Starting(s', reg', task', i, r)
      BY <1>7, <2>2, <2>3, <2>4, Zenon DEF Starting
    <2>6. task' # <<>>
      BY SMTT(30), <2>3
    <2>7. QED BY SMTT(30), <1>3, <2>2, <2>4, <2>5, <2>6
  <1>8. CASE m.enabled /\ OthersRead(s, reg, i, r) /\ task = <<d, e, f, k>>
    <2>1. Head(task) = d /\ Tail(task) = <<e, f, k>>
      <3> HIDE DEF k, z, a, b, c, d, e, f
      <3>1. QED BY <1>8
    <2>2. Went(i) /\ s'.aux = s.aux /\ s'.occr = s.occr /\ r \in s'.taggers
      BY Zenon, <1>1, <1>8, <2>1, WentStore
    <2>3. task' = <<e, f, k>>
      BY <2>1, <2>2, Zenon DEF Went
    <2>4. Still
      BY <1>2, <2>2 DEF Lowered
    <2>5. Starting(s', reg', task', i, r)
      BY <1>8, <2>2, <2>3, <2>4, Zenon DEF Starting
    <2>6. task' # <<>>
      BY SMTT(30), <2>3
    <2>7. QED BY SMTT(30), <1>3, <2>2, <2>4, <2>5, <2>6
  <1>9. CASE m.enabled /\ r \in s.taggers /\ task = <<e, f, k>>
    <2>1. Head(task) = e /\ Tail(task) = <<f, k>>
      <3> HIDE DEF k, z, a, b, c, d, e, f
      <3>1. QED BY <1>9
    <2>2. Went(i) /\ s' = s /\ OthersRead(s', reg', i, o)
      BY Zenon, <2>1, WentLoad
    <2>3. task' = <<f, k>>
      BY <2>1, <2>2, Zenon DEF Went
    <2>4. Still
      BY <1>2, <2>2
    <2>5. Starting(s', reg', task', i, r)
      BY <1>9, <2>2, <2>3, <2>4, Zenon DEF Starting
    <2>6. task' # <<>>
      BY <2>3
    <2>7. QED BY SMTT(30), <1>3, <2>2, <2>4, <2>5, <2>6
  <1>10. CASE m.enabled /\ r \in s.taggers /\ OthersRead(s, reg, i, o) /\ task = <<f, k>>
    <2>1. Head(task) = f /\ Tail(task) = <<k>>
      BY <1>10
    <2>2. /\ Went(i) /\ s'.aux = s.aux /\ s'.occr = s.occr /\ o \in s'.taggers
          /\ s.taggers \ Register(o) \subseteq s'.taggers
      BY Zenon, <1>1, <1>10, <2>1, WentStore
    <2>3. task' = <<k>>
      BY <2>1, <2>2, Zenon DEF Went
    <2>4. Still
      BY SMTT(30), <1>2, <2>2 DEF Lowered
    <2>5. r \notin Register(o)
      BY SMTT(30), <1>1, SoftPllAssumption DEF Register, Refs, MAIN_CHANNEL, EXT_CHANNEL, AuxIds
    <2>6. Served(s', i)
      BY SMTT(30), <1>1, <1>10, <2>2, <2>5 DEF Served, Own
    <2>7. Starting(s', reg', task', i, r)
      BY <2>3, <2>4, <2>6, Zenon DEF Starting
    <2>8. task' # <<>>
      BY <2>3
    <2>9. QED BY SMTT(30), <1>3, <2>2, <2>4, <2>7, <2>8
  <1>11. CASE Served(s, i) /\ task = <<k>>
    <2>1. Head(task) = k /\ Tail(task) = <<>>
      BY <1>11
    <2>2. /\ Went(i) /\ s'.occr = s.occr /\ s'.taggers = s.taggers
          /\ s'.aux[i].seq_state = "LOCK_PLL" /\ s'.aux[i].dmtd = s.aux[i].dmtd
      BY SMTT(30), <2>1, WentState
    <2>3. Settled(s', i)
      BY SMTT(30), <1>2, <1>11, <2>2 DEF Settled, Lowered, AuxReady, Locking, Served, Own
    <2>4. QED BY SMTT(30), <2>1, <2>2, <2>3, Finished DEF Went
  <1>12. QED BY <1>4, <1>5, <1>6, <1>7, <1>8, <1>9, <1>10, <1>11, Zenon DEF Starting
\* The five writes that start a phase tracker.
LEMMA MonitoringStep ==
  ASSUME NEW i \in AuxIds, Fit(s, i), Write, Monitoring(s, reg, task, i)
  PROVE  Went(i) /\ AuxWork(s', reg', task')
  <1> DEFINE o == MAIN_CHANNEL + i
             c == MAIN_CHANNEL
             k == ToState(i, "WAIT_MONITOR_LOCK")
             a == ToLoad(o, TRUE)
             b == ToStore(o, TRUE)
             d == ToLoad(c, TRUE)
             e == ToStore(c, TRUE)
             Still == Lowered(s', i) /\ s'.aux[i].seq_state = "WAIT_MONITOR_LOCK"
  <1>1. o \in Int /\ c \in Int
    BY SoftPllAssumption DEF MAIN_CHANNEL, AuxIds
  <1>2. Lowered(s, i)
    BY Zenon DEF Monitoring
  <1>3. ASSUME Went(i), task' # <<>>, Monitoring(s', reg', task', i)
        PROVE  Went(i) /\ AuxWork(s', reg', task')
    BY <1>3, More, Zenon DEF Left
  <1>4. CASE task = <<k, a, b, d, e>>
    <2>1. Head(task) = k /\ Tail(task) = <<a, b, d, e>>
      <3> HIDE DEF k, a, b, d, e
      <3>1. QED BY <1>4
    <2>2. Went(i) /\ s'.occr = s.occr /\ s'.aux[i].seq_state = "WAIT_MONITOR_LOCK"
      BY <2>1, WentState
    <2>3. task' = <<a, b, d, e>>
      BY <2>1, <2>2, Zenon DEF Went
    <2>4. Still
      BY <1>2, <2>2 DEF Lowered
    <2>5. Monitoring(s', reg', task', i)
      BY <2>3, <2>4, Zenon DEF Monitoring
    <2>6. task' # <<>>
      BY <2>3
    <2>7. QED BY SMTT(30), <1>3, <2>2, <2>5, <2>6
  <1> DEFINE Here == s.aux[i].seq_state = "WAIT_MONITOR_LOCK"
  <1>5. CASE Here /\ task = <<a, b, d, e>>
    <2>1. Head(task) = a /\ Tail(task) = <<b, d, e>>
      <3> HIDE DEF k, a, b, d, e
      <3>1. QED BY <1>5
    <2>2. Went(i) /\ s' = s /\ OthersRead(s', reg', i, o)
      BY Zenon, <2>1, WentLoad
    <2>3. task' = <<b, d, e>>
      BY <2>1, <2>2, Zenon DEF Went
    <2>4. Still
      BY SMTT(30), <1>2, <1>5, <2>2
    <2>5. Monitoring(s', reg', task', i)
      BY <2>2, <2>3, <2>4, Zenon DEF Monitoring
    <2>6. task' # <<>>
      BY <2>3
    <2>7. QED BY SMTT(30), <1>3, <2>2, <2>5, <2>6
  <1>6. CASE Here /\ task = <<b, d, e>> /\ OthersRead(s, reg, i, o)
    <2>1. Head(task) = b /\ Tail(task) = <<d, e>>
      <3> HIDE DEF k, a, b, d, e
      <3>1. QED BY <1>6
    <2>2. Went(i) /\ s'.aux = s.aux /\ s'.occr = s.occr
      BY Zenon, <1>1, <1>6, <2>1, WentStore
    <2>3. task' = <<d, e>>
      BY <2>1, <2>2, Zenon DEF Went
    <2>4. Still
      BY SMTT(30), <1>2, <1>6, <2>2 DEF Lowered
    <2>5. Monitoring(s', reg', task', i)
      BY <2>3, <2>4, Zenon DEF Monitoring
    <2>6. task' # <<>>
      BY <2>3
    <2>7. QED BY SMTT(30), <1>3, <2>2, <2>5, <2>6
  <1>7. CASE Here /\ task = <<d, e>>
    <2>1. Head(task) = d /\ Tail(task) = <<e>>
      <3> HIDE DEF k, a, b, d, e
      <3>1. QED BY <1>7
    <2>2. Went(i) /\ s' = s /\ OthersRead(s', reg', i, c)
      BY Zenon, <2>1, WentLoad
    <2>3. task' = <<e>>
      BY <2>1, <2>2, Zenon DEF Went
    <2>4. Still
      BY SMTT(30), <1>2, <1>7, <2>2
    <2>5. Monitoring(s', reg', task', i)
      BY <2>2, <2>3, <2>4, Zenon DEF Monitoring
    <2>6. task' # <<>>
      BY <2>3
    <2>7. QED BY SMTT(30), <1>3, <2>2, <2>5, <2>6
  <1>8. CASE Here /\ task = <<e>> /\ OthersRead(s, reg, i, c)
    <2>1. Head(task) = e /\ Tail(task) = <<>>
      <3> HIDE DEF k, a, b, d, e
      <3>1. QED BY <1>8
    <2>2. Went(i) /\ s'.aux = s.aux /\ s'.occr = s.occr
      BY Zenon, <1>1, <1>8, <2>1, WentStore
    <2>3. Settled(s', i)
      BY SMTT(30), <1>2, <1>8, <2>2 DEF Settled, Lowered, AuxReady, Locking
    <2>4. QED BY SMTT(30), <2>1, <2>2, <2>3, Finished DEF Went
  <1>9. QED BY <1>4, <1>5, <1>6, <1>7, <1>8, Zenon DEF Monitoring

\* The three writes that report a monitored output.
LEMMA ReportingStep ==
  ASSUME NEW i \in AuxIds, Fit(s, i), Write, Reporting(s, reg, task, i)
  PROVE  Went(i) /\ AuxWork(s', reg', task')
  <1> DEFINE k == ToState(i, "MONITOR_READY")
             a == ToRead(i)
             b == ToFlag(i, TRUE)
             Here == s.aux[i].seq_state = "MONITOR_READY"
  <1>1. ASSUME Went(i), task' # <<>>, Reporting(s', reg', task', i)
        PROVE  Went(i) /\ AuxWork(s', reg', task')
    BY <1>1, More, Zenon DEF Left
  <1>2. CASE task = <<k, a, b>>
    <2>1. Head(task) = k /\ Tail(task) = <<a, b>>
      <3> HIDE DEF k, a, b
      <3>1. QED BY <1>2
    <2>2. Went(i) /\ s'.aux[i].seq_state = "MONITOR_READY"
      BY <2>1, WentState
    <2>3. task' = <<a, b>>
      BY <2>1, <2>2, Zenon DEF Went
    <2>4. Reporting(s', reg', task', i)
      BY <2>2, <2>3, Zenon DEF Reporting
    <2>5. task' # <<>>
      BY <2>3
    <2>6. QED BY SMTT(30), <1>1, <2>2, <2>4, <2>5
  <1>3. CASE Here /\ task = <<a, b>>
    <2>1. Head(task) = a /\ Tail(task) = <<b>>
      <3> HIDE DEF k, a, b
      <3>1. QED BY <1>3
    <2>2. Went(i) /\ s' = s /\ FlagsRead(s', reg')
      BY <2>1, WentRead
    <2>3. task' = <<b>>
      BY <2>1, <2>2, Zenon DEF Went
    <2>4. Reporting(s', reg', task', i)
      BY <1>3, <2>2, <2>3, Zenon DEF Reporting
    <2>5. task' # <<>>
      BY <2>3
    <2>6. QED BY SMTT(30), <1>1, <2>2, <2>4, <2>5
  <1>4. CASE Here /\ task = <<b>> /\ FlagsRead(s, reg)
    <2>1. Head(task) = b /\ Tail(task) = <<>>
      <3> HIDE DEF k, a, b
      <3>1. QED BY <1>4
    <2>2. Went(i) /\ s'.aux = s.aux /\ Raised(s', i)
      BY ZenonT(60), <1>4, <2>1, WentFlag
    <2>3. Settled(s', i)
      BY <1>4, <2>2 DEF Settled, Raised, AuxReady, Locking
    <2>4. QED BY SMTT(30), <2>1, <2>2, <2>3, Finished DEF Went
  <1>5. QED BY <1>2, <1>3, <1>4, Zenon DEF Reporting

\* The writes of an output that has locked.
LEMMA AligningStep ==
  ASSUME NEW i \in AuxIds, Fit(s, i), Write, Aligning(s, reg, task, i)
  PROVE  Went(i) /\ AuxWork(s', reg', task')
  <1> DEFINE k == ToState(i, "SLAVE_READY")
             a == ToRead(i)
             b == ToFlag(i, TRUE)
  <1>1. Served(s, i)
    BY Zenon DEF Aligning
  <1>2. ASSUME Went(i), task' # <<>>, Aligning(s', reg', task', i)
        PROVE  Went(i) /\ AuxWork(s', reg', task')
    BY <1>2, More, Zenon DEF Left
  <1>3. CASE task = <<ToState(i, "ALIGN_PHASE")>> /\ Lowered(s, i)
    <2>1. Head(task) = ToState(i, "ALIGN_PHASE") /\ Tail(task) = <<>>
      BY SMTT(30), <1>3
    <2>2. /\ Went(i) /\ s'.occr = s.occr /\ s'.taggers = s.taggers
          /\ s'.aux[i].seq_state = "ALIGN_PHASE" /\ s'.aux[i].dmtd = s.aux[i].dmtd
      BY SMTT(30), <2>1, WentState
    <2>3. Settled(s', i)
      BY SMTT(30), <1>1, <1>3, <2>2 DEF Settled, Lowered, AuxReady, Locking, Served, Own
    <2>4. QED BY SMTT(30), <2>1, <2>2, <2>3, Finished DEF Went
  <1>4. CASE task = <<a, b, k>>
    <2>1. Head(task) = a /\ Tail(task) = <<b, k>>
      <3> HIDE DEF k, a, b
      <3>1. QED BY <1>4
    <2>2. Went(i) /\ s' = s /\ FlagsRead(s', reg')
      BY <2>1, WentRead
    <2>3. task' = <<b, k>>
      BY <2>1, <2>2, Zenon DEF Went
    <2>4. Aligning(s', reg', task', i)
      BY <1>1, <2>2, <2>3, Zenon DEF Aligning
    <2>5. task' # <<>>
      BY <2>3
    <2>6. QED BY <1>2, <2>2, <2>4, <2>5
  <1>5. CASE task = <<b, k>> /\ FlagsRead(s, reg)
    <2>1. Head(task) = b /\ Tail(task) = <<k>>
      <3> HIDE DEF k, a, b
      <3>1. QED BY <1>5
    <2>2. Went(i) /\ s'.aux = s.aux /\ s'.taggers = s.taggers /\ Raised(s', i)
      BY Zenon, <1>5, <2>1, WentFlag
    <2>3. task' = <<k>>
      BY <2>1, <2>2, ZenonT(60) DEF Went
    <2>4. Served(s', i)
      BY <1>1, <2>2 DEF Served, Own
    <2>5. Aligning(s', reg', task', i)
      BY <2>2, <2>3, <2>4, Zenon DEF Aligning
    <2>6. task' # <<>>
      BY SMTT(30), <2>3
    <2>7. QED BY SMTT(30), <1>2, <2>2, <2>5, <2>6
  <1>6. CASE task = <<k>> /\ Raised(s, i)
    <2>1. Head(task) = k /\ Tail(task) = <<>>
      BY <1>6
    <2>2. /\ Went(i) /\ s'.occr = s.occr /\ s'.taggers = s.taggers
          /\ s'.aux[i].seq_state = "SLAVE_READY" /\ s'.aux[i].dmtd = s.aux[i].dmtd
      BY SMTT(30), <2>1, WentState
    <2>3. Settled(s', i)
      BY SMTT(30), <1>1, <1>6, <2>2 DEF Settled, Raised, AuxReady, Locking, Served, Own
    <2>4. QED BY SMTT(30), <2>1, <2>2, <2>3, Finished DEF Went
  <1>7. QED BY <1>3, <1>4, <1>5, <1>6, Zenon DEF Aligning

\* Every write of a pass.
LEMMA WriteStep ==
  ASSUME AuxInv, Write
  PROVE  AuxInv'
  <1>1. task # <<>>
    BY Zenon DEF Write, AuxSet, AuxGoto, LoadOccr, StoreOccr, LoadCer, StoreCer
  <1>2. Wired(s) /\ Plain(s)
    BY <1>1, Zenon DEF AuxInv
  <1>3. PICK i \in AuxIds : Others(s, i) /\ Left(s, reg, task, i)
    BY <1>1, Zenon DEF AuxInv, AuxWork
  <1>4. Fit(s, i)
    BY <1>2, <1>3, Zenon DEF Fit
  <1>5. Went(i) /\ AuxWork(s', reg', task')
    BY <1>3, <1>4, LeavingStep, StartingStep, MonitoringStep, ReportingStep, AligningStep,
       Zenon DEF Left
  <1>6. QED BY <1>5 DEF AuxInv, Went, Fit
\* The writes of each pass, one by one.
LEMMA SwitchOffList ==
  ASSUME NEW i
  PROVE  StopSteps(i) \o StatusSteps(i, FALSE) \o Goto(i, "DISABLED")
         = <<ToLoad(MAIN_CHANNEL + i, FALSE), ToStore(MAIN_CHANNEL + i, FALSE),
             ToSet(i, "disable"), ToRead(i), ToFlag(i, FALSE), ToState(i, "DISABLED")>>
  <1> DEFINE a == ToLoad(MAIN_CHANNEL + i, FALSE)
             b == ToStore(MAIN_CHANNEL + i, FALSE)
             c == ToSet(i, "disable")
             d == ToRead(i)
             e == ToFlag(i, FALSE)
             f == ToState(i, "DISABLED")
  <1>1. /\ StopSteps(i) = <<a, b>> \o <<c>>
        /\ StatusSteps(i, FALSE) = <<d, e>> /\ Goto(i, "DISABLED") = <<f>>
    BY Zenon DEF StopSteps, TaggerSteps, Set, StatusSteps, Goto, ToLoad, ToStore, ToSet, ToRead,
       ToFlag, ToState
  <1> HIDE DEF a, b, c, d, e, f
  <1>2. <<a, b>> \o <<c>> = <<a, b, c>>
    BY Cat21, Zenon
  <1>3. <<a, b, c>> \o <<d, e>> = <<a, b, c, d, e>>
    BY Cat32, Zenon
  <1>4. <<a, b, c, d, e>> \o <<f>> = <<a, b, c, d, e, f>>
    BY Cat51, Zenon
  <1>5. StopSteps(i) \o StatusSteps(i, FALSE) \o Goto(i, "DISABLED") = <<a, b, c, d, e, f>>
    BY <1>1, <1>2, <1>3, <1>4, Zenon
  <1>6. QED BY <1>5, Zenon DEF a, b, c, d, e, f

\* Of the pass that starts a PLL.
LEMMA StartList ==
  ASSUME NEW i, NEW r, r = s.aux[i].dmtd.id_ref
  PROVE  StartSteps(i) \o Goto(i, "LOCK_PLL")
         = <<ToSet(i, "reset"), ToSet(i, "init_phase_ld"), ToSet(i, "init_freq_ld"),
             ToLoad(r, TRUE), ToStore(r, TRUE), ToLoad(MAIN_CHANNEL + i, TRUE),
             ToStore(MAIN_CHANNEL + i, TRUE), ToState(i, "LOCK_PLL")>>
  <1> DEFINE a == ToSet(i, "reset")
             b == ToSet(i, "init_phase_ld")
             c == ToSet(i, "init_freq_ld")
             d == ToLoad(r, TRUE)
             e == ToStore(r, TRUE)
             f == ToLoad(MAIN_CHANNEL + i, TRUE)
             g == ToStore(MAIN_CHANNEL + i, TRUE)
             h == ToState(i, "LOCK_PLL")
  <1>1. /\ Set(i, "reset") = <<a>> /\ Set(i, "init_phase_ld") = <<b>>
        /\ Set(i, "init_freq_ld") = <<c>>
        /\ TaggerSteps(s.aux[i].dmtd.id_ref, TRUE) = <<d, e>>
        /\ TaggerSteps(MAIN_CHANNEL + i, TRUE) = <<f, g>> /\ Goto(i, "LOCK_PLL") = <<h>>
    BY Zenon DEF TaggerSteps, Set, Goto, ToLoad, ToStore, ToSet, ToState
  <1>2. StartSteps(i) = <<a>> \o <<b>> \o <<c>> \o <<d, e>> \o <<f, g>>
    BY <1>1, Zenon DEF StartSteps
  <1> HIDE DEF a, b, c, d, e, f, g, h
  <1>3. <<a>> \o <<b>> = <<a, b>>
    BY Cat11, Zenon
  <1>4. <<a, b>> \o <<c>> = <<a, b, c>>
    BY Cat21, Zenon
  <1>5. <<a, b, c>> \o <<d, e>> = <<a, b, c, d, e>>
    BY Cat32, Zenon
  <1>6. <<a, b, c, d, e>> \o <<f, g>> = <<a, b, c, d, e, f, g>>
    BY Cat52, SMTT(30)
  <1>7. <<a, b, c, d, e, f, g>> \o <<h>> = <<a, b, c, d, e, f, g, h>>
    BY Cat71, SMTT(30)
  <1>8. StartSteps(i) \o Goto(i, "LOCK_PLL") = <<a, b, c, d, e, f, g, h>>
    BY <1>1, <1>2, <1>3, <1>4, <1>5, <1>6, <1>7, Zenon
  <1>9. QED BY <1>8, Zenon DEF a, b, c, d, e, f, g, h

\* Of the pass that starts a tracker.
LEMMA MonitorList ==
  ASSUME NEW i
  PROVE  Goto(i, "WAIT_MONITOR_LOCK") \o TaggerSteps(MAIN_CHANNEL + i, TRUE)
           \o TaggerSteps(MAIN_CHANNEL, TRUE)
         = <<ToState(i, "WAIT_MONITOR_LOCK"), ToLoad(MAIN_CHANNEL + i, TRUE),
             ToStore(MAIN_CHANNEL + i, TRUE), ToLoad(MAIN_CHANNEL, TRUE),
             ToStore(MAIN_CHANNEL, TRUE)>>
  <1> DEFINE a == ToState(i, "WAIT_MONITOR_LOCK")
             b == ToLoad(MAIN_CHANNEL + i, TRUE)
             c == ToStore(MAIN_CHANNEL + i, TRUE)
             d == ToLoad(MAIN_CHANNEL, TRUE)
             e == ToStore(MAIN_CHANNEL, TRUE)
             l == Goto(i, "WAIT_MONITOR_LOCK") \o TaggerSteps(MAIN_CHANNEL + i, TRUE)
                    \o TaggerSteps(MAIN_CHANNEL, TRUE)
  <1>1. l = <<a>> \o <<b, c>> \o <<d, e>>
    BY Zenon DEF TaggerSteps, Goto, ToLoad, ToStore, ToState
  <1> HIDE DEF a, b, c, d, e, l
  <1>2. <<a>> \o <<b, c>> = <<a, b, c>>
    BY Cat12, Zenon
  <1>3. <<a, b, c>> \o <<d, e>> = <<a, b, c, d, e>>
    BY Cat32, Zenon
  <1>4. l = <<a, b, c, d, e>>
    BY <1>1, <1>2, <1>3, Zenon
  <1>5. QED BY <1>4, Zenon DEF a, b, c, d, e, l

\* Of the passes that write a flag, before or after the state.
LEMMA FlagLists ==
  ASSUME NEW i, NEW on, NEW q
  PROVE  /\ StatusSteps(i, on) \o Goto(i, q) = <<ToRead(i), ToFlag(i, on), ToState(i, q)>>
         /\ Goto(i, q) \o StatusSteps(i, on) = <<ToState(i, q), ToRead(i), ToFlag(i, on)>>
  <1> DEFINE a == ToRead(i)
             b == ToFlag(i, on)
             c == ToState(i, q)
  <1>1. StatusSteps(i, on) = <<a, b>> /\ Goto(i, q) = <<c>>
    BY Zenon DEF StatusSteps, Goto, ToRead, ToFlag, ToState
  <1> HIDE DEF a, b, c
  <1>2. <<a, b>> \o <<c>> = <<a, b, c>>
    BY Cat21, Zenon
  <1>3. <<c>> \o <<a, b>> = <<c, a, b>>
    BY Cat12, Zenon
  <1>4. /\ StatusSteps(i, on) \o Goto(i, q) = <<a, b, c>>
        /\ Goto(i, q) \o StatusSteps(i, on) = <<c, a, b>>
    BY <1>1, <1>2, <1>3, Zenon
  <1>5. QED BY <1>4, Zenon DEF a, b, c

\* A pass that decides, and has yet to write.
LEMMA PassDecides ==
  ASSUME AuxInv, Wired(s), NEW i \in AuxIds, NEW w, Pass(i, w), Left(s, reg, w, i)
  PROVE  AuxInv'
  <1>1. task = <<>> /\ task' = w /\ w # <<>> /\ s' = s /\ reg' = reg
    BY DEF Pass
  <1>2. Others(s, i)
    BY <1>1 DEF AuxInv, AuxWork, Others
  <1>3. AuxWork(s, reg, w)
    BY <1>1, <1>2, Zenon DEF AuxWork
  <1>4. QED BY <1>1, <1>3, Zenon DEF AuxInv
\* Every pass of spll_update_aux_clock.
LEMMA AuxPassStep ==
  ASSUME AuxInv, NEW i \in AuxIds, AuxPass(i)
  PROVE  AuxInv'
  <1> DEFINE r == s.aux[i].dmtd.id_ref
             q == s.aux[i].seq_state
  <1>1. task = <<>>
    BY Zenon DEF AuxPass, AuxSwitchedOff, AuxDisabled, AuxMonitor, AuxLockPll, AuxAlignPhase,
       AuxSlaveReady, Pass
  <1>2. Wired(s)
    <2>1. CASE q = "DISABLED" /\ s.mpll.locked
      BY <2>1 DEF AuxInv, Unused
    <2>2. CASE q # "DISABLED"
      BY <2>2 DEF AuxInv, Unused
    <2>3. QED BY Zenon, <2>1, <2>2 DEF AuxPass, AuxSwitchedOff, AuxDisabled, AuxMonitor, AuxLockPll,
            AuxAlignPhase, AuxSlaveReady
  <1>3. Settled(s, i)
    BY <1>1 DEF AuxInv, AuxWork
  <1>4. CASE AuxSwitchedOff(i)
    <2> DEFINE w == StopSteps(i) \o StatusSteps(i, FALSE) \o Goto(i, "DISABLED")
    <2>1. Pass(i, w)
      BY <1>4, Zenon DEF AuxSwitchedOff
    <2>2. w = <<ToLoad(MAIN_CHANNEL + i, FALSE), ToStore(MAIN_CHANNEL + i, FALSE),
                ToSet(i, "disable"), ToRead(i), ToFlag(i, FALSE), ToState(i, "DISABLED")>>
      BY SwitchOffList, Zenon
    <2> HIDE DEF w
    <2>3. Left(s, reg, w, i)
      BY <2>2, Zenon DEF Left, Leaving
    <2>4. QED BY SMTT(30), <1>2, <2>1, <2>3, PassDecides
  <1>5. CASE AuxDisabled(i)
    <2>1. q = "DISABLED"
      BY <1>5 DEF AuxDisabled
    <2>2. Lowered(s, i)
      BY <1>3, <2>1 DEF Settled, Lowered, AuxReady
    <2> DEFINE v == StartSteps(i) \o Goto(i, "LOCK_PLL")
               w == Goto(i, "WAIT_MONITOR_LOCK") \o TaggerSteps(MAIN_CHANNEL + i, TRUE)
                      \o TaggerSteps(MAIN_CHANNEL, TRUE)
    <2>3. Pass(i, v) \/ Pass(i, w)
      BY <1>5, Zenon DEF AuxDisabled
    <2>4. v = <<ToSet(i, "reset"), ToSet(i, "init_phase_ld"), ToSet(i, "init_freq_ld"),
                ToLoad(r, TRUE), ToStore(r, TRUE), ToLoad(MAIN_CHANNEL + i, TRUE),
                ToStore(MAIN_CHANNEL + i, TRUE), ToState(i, "LOCK_PLL")>>
      BY StartList, Zenon
    <2>5. w = <<ToState(i, "WAIT_MONITOR_LOCK"), ToLoad(MAIN_CHANNEL + i, TRUE),
                ToStore(MAIN_CHANNEL + i, TRUE), ToLoad(MAIN_CHANNEL, TRUE),
                ToStore(MAIN_CHANNEL, TRUE)>>
      BY MonitorList, Zenon
    <2> HIDE DEF v, w
    <2>6. Left(s, reg, v, i)
      BY <2>1, <2>2, <2>4, Zenon DEF Left, Starting
    <2>7. Left(s, reg, w, i)
      BY <2>2, <2>5, Zenon DEF Left, Monitoring
    <2>8. QED BY SMTT(30), <1>2, <2>3, <2>6, <2>7, PassDecides
  <1>6. ASSUME Pass(i, StatusSteps(i, FALSE) \o Goto(i, "DISABLED"))
        PROVE  AuxInv'
    <2> DEFINE w == StatusSteps(i, FALSE) \o Goto(i, "DISABLED")
    <2>1. w = <<ToRead(i), ToFlag(i, FALSE), ToState(i, "DISABLED")>>
      BY FlagLists, Zenon
    <2>2. Pass(i, w)
      BY Zenon, <1>6
    <2> HIDE DEF w
    <2>3. Left(s, reg, w, i)
      BY <2>1, Zenon DEF Left, Leaving
    <2>4. QED BY <1>2, <2>2, <2>3, PassDecides
  <1>7. CASE AuxMonitor(i)
    <2> DEFINE w == Goto(i, "MONITOR_READY") \o StatusSteps(i, TRUE)
    <2>1. Pass(i, w) \/ Pass(i, StatusSteps(i, FALSE) \o Goto(i, "DISABLED"))
      BY <1>7, Zenon DEF AuxMonitor
    <2>2. w = <<ToState(i, "MONITOR_READY"), ToRead(i), ToFlag(i, TRUE)>>
      BY FlagLists, Zenon
    <2> HIDE DEF w
    <2>3. Left(s, reg, w, i)
      BY <2>2, Zenon DEF Left, Reporting
    <2>4. QED BY Zenon, <1>2, <1>6, <2>1, <2>3, PassDecides
  <1>8. CASE AuxLockPll(i)
    <2> DEFINE m == s.aux[i].dmtd
               n == mpll_set_phase_shift(m, shift_ps)
    <2>1. q = "LOCK_PLL" /\ s' = [s EXCEPT !.aux[i].dmtd = n] /\ task' = Goto(i, "ALIGN_PHASE")
      BY <1>8, Zenon DEF AuxLockPll
    <2>2. Fit(s, i)
      BY <1>1, <1>2 DEF AuxInv, AuxWork, Fit, Others
    <2>3. /\ DOMAIN n = MainFields /\ n.id_ref = m.id_ref /\ n.id_out = m.id_out
          /\ n.enabled = m.enabled
      <3>1. DOMAIN m = MainFields
        BY SMTT(30), <2>2 DEF Fit, Plain
      <3>2. QED BY <3>1, Zenon DEF mpll_set_phase_shift, MainFields
    <2> HIDE DEF n
    <2>4. /\ Fit(s', i) /\ s'.mpll = s.mpll /\ s'.occr = s.occr /\ s'.taggers = s.taggers
          /\ s'.aux[i].seq_state = s.aux[i].seq_state /\ s'.aux[i].dmtd = n
      BY SMTT(30), <2>1, <2>2, <2>3, OutputSet DEF Linked
    <2>5. Served(s', i)
      BY SMTT(30), <1>3, <2>1, <2>3, <2>4 DEF Settled, Locking, Served, Own
    <2>6. Lowered(s', i)
      BY SMTT(30), <1>3, <2>1, <2>4 DEF Settled, Lowered, AuxReady
    <2>7. task' = <<ToState(i, "ALIGN_PHASE")>>
      BY <2>1, Zenon DEF Goto, ToState
    <2>8. Left(s', reg', task', i)
      BY <2>5, <2>6, <2>7, Zenon DEF Left, Aligning
    <2>9. task' # <<>>
      BY <2>7
    <2>10. AuxWork(s', reg', task')
      BY <2>4, <2>8, <2>9, Zenon DEF AuxWork, Fit
    <2>11. QED BY SMTT(30), <2>4, <2>10 DEF AuxInv, Fit
  <1>9. CASE AuxAlignPhase(i)
    <2> DEFINE w == StatusSteps(i, TRUE) \o Goto(i, "SLAVE_READY")
    <2>1. Pass(i, w) /\ q = "ALIGN_PHASE"
      BY <1>9, Zenon DEF AuxAlignPhase
    <2>2. w = <<ToRead(i), ToFlag(i, TRUE), ToState(i, "SLAVE_READY")>>
      BY FlagLists, Zenon
    <2> HIDE DEF w
    <2>3. Served(s, i)
      BY <1>3, <2>1 DEF Settled, Locking
    <2>4. Left(s, reg, w, i)
      BY <2>2, <2>3, Zenon DEF Left, Aligning
    <2>5. QED BY SMTT(30), <1>2, <2>1, <2>4, PassDecides
  <1>10. CASE AuxSlaveReady(i)
    BY <1>6, <1>10, Zenon DEF AuxSlaveReady
  <1>11. QED BY <1>4, <1>5, <1>7, <1>8, <1>9, <1>10, Zenon DEF AuxPass

\* Steps that keep the main PLL's reference and what the outputs are.
LEMMA AuxFrameStep ==
  ASSUME AuxInv, Plain(s'), s'.mpll.id_ref = s.mpll.id_ref, SameOutputs(s, s'),
         Unused(s) => Unused(s'), task' = task, reg' = reg
  PROVE  AuxInv'
  <1>1. AuxWork(s', reg', task')
    BY OutputsFrame, Zenon DEF AuxInv
  <1>2. Wired(s) => Wired(s')
    BY DEF Wired, SameOutputs
  <1>3. QED BY <1>1, <1>2 DEF AuxInv

\* The interrupt.
LEMMA AuxIrqStep ==
  ASSUME AuxInv, NEW ch, NEW ok, Irq(ch, ok)
  PROVE  AuxInv'
  <1>1. task' = task /\ reg' = reg /\ s.eic
    BY DEF Irq
  <1>2. Wired(s) /\ Plain(s)
    BY <1>1 DEF AuxInv, Unused
  <1>3. IrqLeaves(s, s')
    BY SMTT(30), <1>2, IrqFrame
  <1>4. Plain(s') /\ s'.mpll.id_ref = s.mpll.id_ref
    BY <1>3 DEF IrqLeaves, Kept, Restarted
  <1>5. ASSUME NEW i \in AuxIds
        PROVE  /\ s'.aux[i].seq_state = s.aux[i].seq_state
               /\ s'.aux[i].dmtd.enabled = s.aux[i].dmtd.enabled
               /\ s'.aux[i].dmtd.id_ref = s.aux[i].dmtd.id_ref
               /\ s'.aux[i].dmtd.id_out = s.aux[i].dmtd.id_out
    BY <1>3, Zenon DEF IrqLeaves, Kept
  <1>6. ASSUME NEW i \in AuxIds
        PROVE  Own(s, i) \cap s.taggers \subseteq s'.taggers
    <2>1. MAIN_CHANNEL \notin Own(s, i)
      BY SMTT(30), <1>2, SoftPllAssumption DEF Wired, Own, Refs, AuxIds, MAIN_CHANNEL
    <2>2. s.taggers \ {MAIN_CHANNEL} \subseteq s'.taggers
      BY SMTT(30), <1>3 DEF IrqLeaves
    <2>3. QED BY SMTT(30), <2>1, <2>2
  <1>7. NoClash => \A i \in AuxIds : i \in s'.occr <=> i \in s.occr
    <2>1. NoClash => s.mpll.id_ref \notin AuxIds
      BY SMTT(30), SoftPllAssumption DEF NoClash, AuxInv, AuxIds, EXT_CHANNEL
    <2>2. s'.occr \ {s.mpll.id_ref} = s.occr \ {s.mpll.id_ref}
      BY SMTT(30), <1>3 DEF IrqLeaves
    <2>3. QED BY SMTT(30), <2>1, <2>2
  <1>8. SameOutputs(s, s')
    BY SMTT(30), <1>5, <1>6, <1>7 DEF SameOutputs
  <1>9. ~Unused(s)
    BY <1>1 DEF Unused
  <1>10. QED BY SMTT(30), <1>1, <1>4, <1>8, <1>9, AuxFrameStep
\* spll_set_phase_shift.
LEMMA SetPhaseShiftStep ==
  ASSUME AuxInv, NEW v, SetPhaseShift(v)
  PROVE  AuxInv'
  <1> DEFINE m == mpll_set_phase_shift(s.mpll, v)
             n(i) == mpll_set_phase_shift(s.aux[i].dmtd, v)
             b(i) == [s.aux[i] EXCEPT !.dmtd = n(i)]
             a == [i \in AuxIds |-> IF s.aux[i].seq_state = "SLAVE_READY" THEN b(i) ELSE s.aux[i]]
  <1>1. s' = [s EXCEPT !.mpll = m, !.aux = a] /\ task' = task /\ reg' = reg
    BY Zenon DEF SetPhaseShift
  <1>2. Plain(s)
    BY DEF AuxInv
  <1>3. /\ DOMAIN m = MainFields /\ m.id_ref = s.mpll.id_ref /\ m.locked = s.mpll.locked
    <2>1. DOMAIN s.mpll = MainFields
      BY <1>2 DEF Plain
    <2>2. QED BY <2>1, Zenon DEF mpll_set_phase_shift, MainFields
  <1>4. ASSUME NEW i \in AuxIds
        PROVE  /\ DOMAIN b(i) = {"seq_state", "dmtd"} /\ b(i).seq_state = s.aux[i].seq_state
               /\ DOMAIN b(i).dmtd = MainFields /\ b(i).dmtd.enabled = s.aux[i].dmtd.enabled
               /\ b(i).dmtd.id_ref = s.aux[i].dmtd.id_ref
               /\ b(i).dmtd.id_out = s.aux[i].dmtd.id_out
    <2>1. DOMAIN s.aux[i] = {"seq_state", "dmtd"} /\ DOMAIN s.aux[i].dmtd = MainFields
      BY <1>2 DEF Plain
    <2>2. /\ DOMAIN n(i) = MainFields /\ n(i).enabled = s.aux[i].dmtd.enabled
          /\ n(i).id_ref = s.aux[i].dmtd.id_ref /\ n(i).id_out = s.aux[i].dmtd.id_out
      BY <2>1, Zenon DEF mpll_set_phase_shift, MainFields
    <2> HIDE DEF n
    <2>3. b(i).dmtd = n(i) /\ DOMAIN b(i) = DOMAIN s.aux[i] /\ b(i).seq_state = s.aux[i].seq_state
      BY <2>1, Zenon
    <2> HIDE DEF b
    <2>4. QED BY <2>1, <2>2, <2>3, Zenon
  <1> HIDE DEF b, m
  <1>5. DOMAIN a = AuxIds /\ \A i \in AuxIds : a[i] \in {b(i), s.aux[i]}
    OBVIOUS
  <1> HIDE DEF a
  <1>6. /\ DOMAIN s' = Fields /\ s'.seq_state = s.seq_state /\ s'.helper = s.helper
        /\ s'.mpll = m /\ s'.aux = a /\ s'.occr = s.occr /\ s'.taggers = s.taggers /\ s'.eic = s.eic
    BY <1>1, <1>2, ZenonT(60) DEF Plain, Fields
  <1>7. ASSUME NEW i \in AuxIds
        PROVE  /\ DOMAIN a[i] = {"seq_state", "dmtd"} /\ a[i].seq_state = s.aux[i].seq_state
               /\ DOMAIN a[i].dmtd = MainFields /\ a[i].dmtd.enabled = s.aux[i].dmtd.enabled
               /\ a[i].dmtd.id_ref = s.aux[i].dmtd.id_ref
               /\ a[i].dmtd.id_out = s.aux[i].dmtd.id_out
    <2>1. DOMAIN s.aux[i] = {"seq_state", "dmtd"} /\ DOMAIN s.aux[i].dmtd = MainFields
      BY <1>2 DEF Plain
    <2>2. CASE a[i] = b(i)
      BY <1>4, <2>2, Zenon
    <2>3. CASE a[i] = s.aux[i]
      BY <2>1, <2>3, Zenon
    <2>4. QED BY SMTT(30), <1>5, <2>2, <2>3
  <1>8. Plain(s')
    <2>1. DOMAIN s'.helper = HelperFields /\ s'.seq_state \in SeqStates
      BY <1>2, <1>6, Zenon DEF Plain
    <2>2. \A i \in AuxIds : /\ DOMAIN s'.aux[i] = {"seq_state", "dmtd"}
                            /\ DOMAIN s'.aux[i].dmtd = MainFields
      BY <1>6, <1>7, ZenonT(60)
    <2>3. QED BY <1>3, <1>5, <1>6, <2>1, <2>2, Zenon DEF Plain
  <1>9. SameOutputs(s, s')
    BY <1>6, <1>7 DEF SameOutputs
  <1>10. Unused(s) => Unused(s')
    BY <1>3, <1>6, <1>7, ZenonT(60) DEF Unused
  <1>11. QED BY SMTT(30), <1>1, <1>3, <1>6, <1>8, <1>9, <1>10, AuxFrameStep

\* spll_init.
LEMMA AuxSpllInitStep ==
  ASSUME AuxInv, NEW mode \in Modes, NEW ref \in SlaveRefs, SpllInit(mode, ref)
  PROVE  AuxInv'
  <1>1. s' = spll_init(s, mode, ref) /\ task = <<>> /\ task' = task /\ reg' = reg
    BY DEF SpllInit
  <1>2. Plain(s)
    BY DEF AuxInv
  <1>3. InitLeaves(s, s', mode, ref)
    BY <1>1, <1>2, SpllInitPlain, ZenonT(60)
  <1>4. Plain(s') /\ s'.mpll.id_ref \in {0, EXT_CHANNEL} \cup SlaveRefs
    BY SMTT(30), <1>3 DEF InitLeaves
  <1>5. Wired(s')
    BY SMTT(30), <1>3, SoftPllAssumption DEF InitLeaves, Wired, Refs
  <1>6. \A i \in AuxIds : Settled(s', i)
    BY <1>3 DEF InitLeaves, Settled, AuxReady, Locking
  <1>7. QED BY SMTT(30), <1>1, <1>4, <1>5, <1>6 DEF AuxInv, AuxWork

\* Each step of the system keeps the invariant.
LEMMA AuxStep == AuxInv /\ [AuxNext]_auxvars => AuxInv'
  <1> SUFFICES ASSUME AuxInv, [AuxNext]_auxvars PROVE AuxInv'
    OBVIOUS
  <1>1. CASE \E i \in AuxIds : AuxPass(i)
    BY <1>1, AuxPassStep
  <1>2. CASE \/ AuxSet \/ AuxGoto \/ LoadOccr \/ StoreOccr
             \/ (LoadCer \/ StoreCer) /\ UNCHANGED auxonly
    BY <1>2, WriteStep, Zenon DEF Write
  <1>3. CASE \E v \in Shifts : SetPhaseShift(v)
    BY <1>3, SetPhaseShiftStep
  <1>4. CASE \E ch \in Channels, ok \in Errors : AuxIrq(ch, ok)
    BY <1>4, AuxIrqStep DEF AuxIrq
  <1>5. CASE Elapse
    <2>1. s' = [s EXCEPT !.dac_timeout = TRUE] /\ task' = task /\ reg' = reg
      BY <1>5, Zenon DEF Elapse
    <2>2. Plain(s)
      BY DEF AuxInv
    <2>3. /\ DOMAIN s' = Fields /\ s'.seq_state = s.seq_state /\ s'.helper = s.helper
          /\ s'.mpll = s.mpll /\ s'.aux = s.aux /\ s'.occr = s.occr
          /\ s'.taggers = s.taggers /\ s'.eic = s.eic
      BY <2>1, <2>2, Zenon DEF Plain, Fields
    <2>4. Plain(s')
      BY <2>2, <2>3, Zenon DEF Plain
    <2>5. SameOutputs(s, s') /\ (Unused(s) => Unused(s'))
      BY <2>3 DEF SameOutputs, Unused
    <2>6. QED BY SMTT(30), <2>1, <2>3, <2>4, <2>5, AuxFrameStep
  <1>6. CASE \E mode \in Modes, ref \in SlaveRefs : SpllInit(mode, ref) /\ UNCHANGED auxonly
    BY SMTT(30), <1>6, AuxSpllInitStep
  <1>7. CASE \/ \E en \in SUBSET AuxIds : SetOutEn(en)
             \/ Settle
             \/ UNCHANGED auxvars
    <2>1. s' = s /\ task' = task /\ reg' = reg
      BY <1>7 DEF SetOutEn, Settle, auxvars, vars
    <2>2. QED BY <2>1 DEF AuxInv
  <1>8. QED BY <1>1, <1>2, <1>3, <1>4, <1>5, <1>6, <1>7, Zenon DEF AuxNext

\* The inductive invariant holds throughout.
LEMMA AuxInvHolds == AuxSpec => []AuxInv
  BY AuxInitInv, AuxStep, PTL DEF AuxSpec

(***************************************************************************)
(* Between two passes an output that is locking, aligning or locked has    *)
(* its PLL enabled and its two channels delivering tags, whatever the      *)
(* interrupt did to the tagger registers between the load and the store of *)
(* a pass.                                                                 *)
(***************************************************************************)
THEOREM AuxFedTheorem == AuxSpec => []AuxFed
  <1>1. AuxInv => AuxFed
    BY DEF AuxInv, AuxWork, AuxFed, Settled, Locking, Served, Own
  <1>2. QED BY <1>1, AuxInvHolds, PTL

(***************************************************************************)
(* Between two passes the flag of an output in OCCR tells its state, if no *)
(* reference that a slave may be given has the number of an output.        *)
(***************************************************************************)
THEOREM AuxFlagTheorem ==
  ASSUME SlaveRefs \cap AuxIds = {}
  PROVE  AuxSpec => []AuxFlagMeansReady
  <1>1. AuxInv => AuxFlagMeansReady
    BY DEF AuxInv, AuxWork, AuxFlagMeansReady, Settled, NoClash
  <1>2. QED BY <1>1, AuxInvHolds, PTL
=============================================================================
