---------------------------- MODULE SfpDatabase -----------------------------
(***************************************************************************)
(* The database of calibration parameters of SFP modules, kept in EEPROM   *)
(* or flash, and the look-up that installs the parameters of the module    *)
(* plugged in (dev/storage-sfp.c, dev/sfp.c, shell/cmd_sfp.c).  The power  *)
(* may fail at any point of an update.                                     *)
(*                                                                         *)
(*   slots    the entries of the memory.  "blank": erased, "partial": some *)
(*            byte of the part number is still 0xff, "torn": the part      *)
(*            number is whole and the checksum wrong, "good"               *)
(*   job      what the running command has still to do: erase from a slot  *)
(*            on (0: nothing), then add entries                            *)
(*   info     sfp_info: part number, parameters, sfp_in_db                 *)
(*   latest   history: the parameters last recorded for a part, or none;   *)
(*            kept until the power fails in the middle of a job            *)
(*   failed   history: the power failed in the middle of a job             *)
(*   cuts     power failures still to come                                 *)
(***************************************************************************)
EXTENDS Integers, Sequences

CONSTANTS Parts,           \* part numbers
          Versions,        \* of the parameters of a part
          SFPS_MAX, MaxCuts

ASSUME SfpAssumption == SFPS_MAX \in Nat \ {0} /\ "" \notin Parts

VARIABLES slots, job, info, latest, failed, cuts
SfpVars == <<slots, job, info, latest, failed, cuts>>

\* Parameters carry (history) the part they were recorded for.
NoPar == <<"", 0>>
Params(pn) == {pn} \X Versions

Erased == [kind |-> "blank", pn |-> "", par |-> NoPar]
Entry(pn, par) == [kind |-> "good", pn |-> pn, par |-> par]
NoJob == [erase |-> 0, todo |-> <<>>]
Idle == job = NoJob

-----------------------------------------------------------------------------
\* The counting loop of sfp_entry stops at the first part number with 0xff.
sfp_valid(e) == e.kind \in {"torn", "good"}
sfpcount == CHOOSE n \in 0..SFPS_MAX :
              /\ \A i \in 1..n : sfp_valid(slots[i])
              /\ n < SFPS_MAX => ~ sfp_valid(slots[n + 1])

\* The first entry that storage_match_sfp would stop at: the part's or a torn
\* one, whose checksum is refused.
Stops(pn, i) == slots[i].kind = "torn" \/ slots[i].pn = pn
First(pn) == CHOOSE i \in 1..sfpcount :
               Stops(pn, i) /\ \A k \in 1..i - 1 : ~ Stops(pn, k)

\* Its result: 1 and the parameters, 0 for no such part, -1 for an error.
storage_match_sfp(pn) ==
  IF \A i \in 1..sfpcount : ~ Stops(pn, i) THEN [ret |-> 0, par |-> NoPar]
  ELSE IF slots[First(pn)].kind = "torn" THEN [ret |-> -1, par |-> NoPar]
  ELSE [ret |-> 1, par |-> slots[First(pn)].par]

\* storage_update_sfp: all entries are read first; one that cannot be read ends
\* the command with nothing changed.
Readable == \A i \in 1..sfpcount : slots[i].kind = "good"
Updated(pn, par) ==
  [i \in 1..sfpcount |-> IF slots[i].pn = pn THEN Entry(pn, par) ELSE slots[i]]

\* A slip of storage_update_sfp: the new entry is added, the old ones kept.
storage_update_sfp_appends(pn, par) == job' = [erase |-> 0, todo |-> <<Entry(pn, par)>>]

storage_update_sfp(pn, par) ==
  job' = IF Readable /\ sfpcount > 0
         THEN [erase |-> 1, todo |-> Updated(pn, par)]
         ELSE NoJob

\* storage_get_sfp with SFP_ADD.  A full database refuses a new part.
storage_get_sfp(pn, par) ==
  /\ Idle
  /\ IF storage_match_sfp(pn).ret # 0 THEN storage_update_sfp(pn, par)
     ELSE job' = IF sfpcount = SFPS_MAX THEN NoJob
                 ELSE [erase |-> 0, todo |-> <<Entry(pn, par)>>]
  /\ latest' = IF failed \/ job' = NoJob THEN latest ELSE [latest EXCEPT ![pn] = par]
  /\ UNCHANGED <<slots, info, failed, cuts>>

storage_sfpdb_erase ==
  /\ Idle
  /\ job' = [erase |-> 1, todo |-> <<>>]
  /\ latest' = [pn \in Parts |-> NoPar]
  /\ UNCHANGED <<slots, info, failed, cuts>>

\* sdbfs_ferase, slot after slot.
EraseSlot ==
  /\ job.erase > 0
  /\ slots' = [slots EXCEPT ![job.erase] = Erased]
  /\ job' = [job EXCEPT !.erase = IF @ = SFPS_MAX THEN 0 ELSE @ + 1]
  /\ UNCHANGED <<info, latest, failed, cuts>>

\* What a slot may hold when e has been written over it: flash can only clear
\* bits, so a slot that was not erased may be spoilt.
Over(old, e) ==
  {e} \cup IF old.kind = "partial" /\ old.pn # e.pn THEN {[e EXCEPT !.kind = "torn"]} ELSE {}

\* sfp_entry with SFP_ADD, which counts the entries again.
AddEntry ==
  /\ job.erase = 0 /\ job.todo # <<>>
  /\ IF sfpcount = SFPS_MAX
     THEN job' = NoJob /\ UNCHANGED slots
     ELSE /\ \E e \in Over(slots[sfpcount + 1], Head(job.todo)) :
               slots' = [slots EXCEPT ![sfpcount + 1] = e]
          /\ job' = [job EXCEPT !.todo = Tail(@)]
  /\ UNCHANGED <<info, latest, failed, cuts>>

-----------------------------------------------------------------------------
\* sfp_match: the module plugged in has part number pn.  Any result but 0 is a
\* match.
sfp_match(pn) ==
  LET r == storage_match_sfp(pn)
  IN /\ Idle
     /\ info' = [pn |-> pn, par |-> IF r.ret = 1 THEN r.par ELSE info.par,
                 in_db |-> IF r.ret = 0 THEN "NOT_MATCHED" ELSE "MATCHED"]
     /\ UNCHANGED <<slots, job, latest, failed, cuts>>

\* The power fails and the node boots.  A slot being erased or written is left
\* in any intermediate state.
Restart ==
  /\ job' = NoJob
  /\ info' = [pn |-> "", par |-> NoPar, in_db |-> "na"]
  /\ cuts > 0 /\ cuts' = cuts - 1

CutIdle == Idle /\ Restart /\ UNCHANGED <<slots, latest, failed>>

CutErasing ==
  /\ job.erase > 0 /\ Restart
  /\ failed' = TRUE /\ latest' = [pn \in Parts |-> NoPar]
  /\ slots' \in {slots, [slots EXCEPT ![job.erase].kind = IF @ = "blank" THEN @ ELSE "partial"]}

CutAdding ==
  /\ job.erase = 0 /\ job.todo # <<>> /\ sfpcount < SFPS_MAX /\ Restart
  /\ failed' = TRUE /\ latest' = [pn \in Parts |-> NoPar]
  /\ \E k \in {"partial", "torn"} :
       slots' \in {slots, [slots EXCEPT ![sfpcount + 1] = [Head(job.todo) EXCEPT !.kind = k]]}

SfpInit ==
  /\ slots = [i \in 1..SFPS_MAX |-> Erased]
  /\ job = NoJob
  /\ info = [pn |-> "", par |-> NoPar, in_db |-> "na"]
  /\ latest = [pn \in Parts |-> NoPar]
  /\ failed = FALSE /\ cuts = MaxCuts

SfpNext ==
  \/ \E pn \in Parts : \E par \in Params(pn) : storage_get_sfp(pn, par)
  \/ storage_sfpdb_erase
  \/ EraseSlot \/ AddEntry
  \/ \E pn \in Parts : sfp_match(pn)
  \/ CutIdle \/ CutErasing \/ CutAdding

SfpSpec == SfpInit /\ [][SfpNext]_SfpVars

-----------------------------------------------------------------------------
\* Between commands a look-up yields the parameters last recorded for the part
\* and nothing for a part that has none, although an update erases and rewrites
\* everything; after a power failure it yields at worst older parameters of the
\* same part, never a mixture or another part's (storage_update_sfp, sfp_entry).
LookupIsLatest ==
  Idle => \A pn \in Parts :
    LET r == storage_match_sfp(pn)
    IN /\ r.ret = 1 => r.par \in Params(pn)
       /\ ~ failed => r.par = latest[pn] /\ r.ret = (IF latest[pn] = NoPar THEN 0 ELSE 1)

\* The inductive invariant.  Whatever was cut off, an entry that reads well is one
\* that was recorded.  As long as nothing was cut off, the entries form a prefix
\* of the memory with room for those still to be added, and the entries that
\* outlast the running command, those to be added and, unless the memory is
\* being erased, those in it, are the ones last recorded.
Recorded == UNION {{Entry(pn, par) : par \in Params(pn)} : pn \in Parts}

SfpSlots == [kind : {"blank", "partial", "torn", "good"}, pn : Parts \cup {""},
             par : (Parts \cup {""}) \X (Versions \cup {0})]

SfpTypeOK ==
  /\ slots \in [1..SFPS_MAX -> SfpSlots]
  /\ \A i \in 1..SFPS_MAX : slots[i].kind = "good" => slots[i] \in Recorded
  /\ job.erase \in 0..SFPS_MAX /\ job = [erase |-> job.erase, todo |-> job.todo]
  /\ job.todo \in Seq(Recorded)
  /\ DOMAIN latest = Parts /\ failed \in BOOLEAN

Prefix(n) ==
  /\ n + Len(job.todo) <= SFPS_MAX
  /\ \A i \in 1..SFPS_MAX : IF i <= n THEN slots[i].kind = "good" ELSE slots[i] = Erased

KeptIsLatest ==
  /\ \A k \in 1..Len(job.todo) : latest[job.todo[k].pn] = job.todo[k].par
  /\ job.erase = 0 => \A i \in 1..SFPS_MAX : slots[i].kind = "good" => latest[slots[i].pn] = slots[i].par
  /\ \A pn \in Parts : latest[pn] # NoPar =>
       \/ \E k \in 1..Len(job.todo) : job.todo[k].pn = pn
       \/ job.erase = 0 /\ \E i \in 1..SFPS_MAX : slots[i].kind = "good" /\ slots[i].pn = pn

SfpInv ==
  /\ SfpTypeOK
  /\ ~ failed =>
       /\ KeptIsLatest
       /\ IF job.erase = 0 THEN \E n \in 0..SFPS_MAX : Prefix(n)
          ELSE /\ Len(job.todo) <= SFPS_MAX
               /\ \A i \in 1..SFPS_MAX : slots[i] = Erased \/ (i >= job.erase /\ slots[i].kind = "good")

\* sfp_in_db tells "Whether the SFP is in data base or not" (lib/WR-WRPC-MIB.txt,
\* wrpcPortSfpInDB): when it says so, the parameters in use were recorded for
\* this part (sfp_match).
InDbIsTrue == info.in_db = "MATCHED" => info.par \in Params(info.pn)
=============================================================================
