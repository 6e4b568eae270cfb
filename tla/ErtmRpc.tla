------------------------------- MODULE ErtmRpc ------------------------------
(***************************************************************************)
(* Host programs that configure and read one eRTM14 board over its serial  *)
(* port.  A change takes two exchanges, set_board_config and               *)
(* commit_board_config, which libertm puts in one critical section; the    *)
(* board keeps a single next state for all of them (libertm/libertm.c,     *)
(* libertm/flock.c, boards/ertm14/board.c, boards/ertm14/board-aux.h).     *)
(*                                                                         *)
(*   pc          what each program waits for                               *)
(*   lock        who holds the lock file                                   *)
(*   requests, answers   packets in flight, in order; a commit carries     *)
(*               (history) the change its program wants                    *)
(*   current, next_state   ertm14_current_state, ertm14_next_state         *)
(*   hardware    what apply_config has written to the chips                *)
(*   faults      exchanges abandoned, by a timeout or with their program,  *)
(*               and commands of the board's own shell                     *)
(***************************************************************************)
EXTENDS Integers, Sequences

CONSTANTS Programs, Fields,
          Values,                          \* 0 is what clean_config leaves
          MaxAbandoned, MaxShell

ASSUME RpcAssumption == "no one" \notin Programs

VARIABLES pc, lock, requests, answers, current, next_state, hardware, faults
RpcVars == <<pc, lock, requests, answers, current, next_state, hardware, faults>>

Clean == [f \in Fields |-> 0]
NoOne == "no one"

\* One call of the library changes one field.
Changes == [field : Fields, value : Values]
Next1(ch) == [Clean EXCEPT ![ch.field] = ch.value]
Initial == [f \in Fields |-> 1]

update_config(dst, src, mask) ==
  [f \in Fields |-> IF f \in mask THEN src[f] ELSE dst[f]]

\* Only a masked field that differs from the current state is written.
ertm14_apply_config(cfg, mask) ==
  [f \in Fields |-> IF f \in mask /\ cfg[f] # current[f] THEN cfg[f] ELSE hardware[f]]

\* A slip of the lock: LOCK_NB, with the result ignored as it is here.
ertm_mutex_acquire_nb(p) == lock' = p

ertm_mutex_acquire(p) == lock = NoOne /\ lock' = p
ertm_mutex_release == lock' = NoOne

SendRequest(pkt) == requests' = Append(requests, pkt)

-----------------------------------------------------------------------------
\* ertm_get_board_config: ertm_proto_cycle up to the wait for the answer.
ertm_get_board_config(p) ==
  /\ pc[p] = <<"idle">>
  /\ ertm_mutex_acquire(p)
  /\ SendRequest([op |-> "get"])
  /\ pc' = [pc EXCEPT ![p] = <<"get">>]
  /\ UNCHANGED <<answers, current, next_state, hardware, faults>>

\* commit_config in IMMEDIATE mode, up to the wait for set's answer.
commit_config(p, ch) ==
  /\ pc[p] = <<"idle">>
  /\ ertm_mutex_acquire(p)
  /\ SendRequest([op |-> "set", cfg |-> Next1(ch)])
  /\ pc' = [pc EXCEPT ![p] = <<"set", ch>>]
  /\ UNCHANGED <<answers, current, next_state, hardware, faults>>

Setting(p) == pc[p][1] = "set"

\* set_board_config has returned, whatever it returned; commit_board_config.
GoOnToCommit(p) ==
  /\ Setting(p)
  /\ SendRequest([op |-> "commit", mask |-> {pc[p][2].field}, want |-> Next1(pc[p][2])])
  /\ pc' = [pc EXCEPT ![p] = <<"commit">>]
  /\ UNCHANGED <<lock>>

\* The other exchanges end with the release of the lock.  The packet type of an
\* answer is looked at, its opcode is not.
Finish(p) ==
  /\ pc[p][1] \in {"get", "commit"}
  /\ ertm_mutex_release
  /\ pc' = [pc EXCEPT ![p] = <<"idle">>]
  /\ UNCHANGED requests

Receive(p) ==
  /\ answers # <<>>
  /\ answers' = Tail(answers)
  /\ GoOnToCommit(p) \/ Finish(p)
  /\ UNCHANGED <<current, next_state, hardware, faults>>

Abandon ==
  /\ faults.abandoned < MaxAbandoned
  /\ faults' = [faults EXCEPT !.abandoned = @ + 1]

\* One second without an answer.
TimeOut(p) ==
  /\ answers = <<>>
  /\ Abandon
  /\ GoOnToCommit(p) \/ Finish(p)
  /\ UNCHANGED <<answers, current, next_state, hardware>>

\* A program dies and the kernel releases its lock.
Killed(p) ==
  /\ pc[p][1] \notin {"idle", "dead"}
  /\ Abandon
  /\ pc' = [pc EXCEPT ![p] = <<"dead">>]
  /\ ertm_mutex_release
  /\ UNCHANGED <<requests, answers, current, next_state, hardware>>

-----------------------------------------------------------------------------
set_board_config(cfg) ==
  /\ next_state' = cfg
  /\ UNCHANGED <<current, hardware>>

commit_board_config(mask) ==
  /\ hardware' = ertm14_apply_config(next_state, mask)
  /\ current' = update_config(current, next_state, mask)
  /\ next_state' = Clean

\* control_uart_poll answers every request it receives (ertm_process_psnmp).
control_uart_poll ==
  /\ requests # <<>>
  /\ requests' = Tail(requests)
  /\ LET r == Head(requests) IN
     \/ /\ r.op = "get"
        /\ answers' = Append(answers, [op |-> "get"])
        /\ UNCHANGED <<current, next_state, hardware>>
     \/ /\ r.op = "set" /\ set_board_config(r.cfg)
        /\ answers' = Append(answers, [op |-> "set"])
     \/ /\ r.op = "commit" /\ commit_board_config(r.mask)
        /\ answers' = Append(answers, [op |-> "commit"])
  /\ UNCHANGED <<pc, lock, faults>>

\* The board's own shell changes a field without the shared next state.
cmd_ertm(ch) ==
  /\ faults.shell < MaxShell
  /\ faults' = [faults EXCEPT !.shell = @ + 1]
  /\ hardware' = ertm14_apply_config(Next1(ch), {ch.field})
  /\ current' = update_config(current, Next1(ch), {ch.field})
  /\ UNCHANGED <<pc, lock, requests, answers, next_state>>

-----------------------------------------------------------------------------
RpcInit ==
  /\ pc = [p \in Programs |-> <<"idle">>]
  /\ lock = NoOne
  /\ requests = <<>> /\ answers = <<>>
  /\ current = Initial /\ hardware = Initial /\ next_state = Clean
  /\ faults = [abandoned |-> 0, shell |-> 0]

RpcNext ==
  \/ \E p \in Programs :
       \/ ertm_get_board_config(p) \/ Receive(p) \/ TimeOut(p) \/ Killed(p)
       \/ \E ch \in Changes : commit_config(p, ch)
  \/ control_uart_poll
  \/ \E ch \in Changes : cmd_ertm(ch)

RpcSpec == RpcInit /\ [][RpcNext]_RpcVars

-----------------------------------------------------------------------------
\* Setting and committing are atomic: when the board commits, the configuration
\* and the hardware change exactly as the program that asked for the commit
\* wants, although another program's set, a late answer or a program that died
\* between the two may have come in between (commit_config,
\* commit_board_config).
CommitsWhole ==
  [][ LET r == Head(requests)
      IN requests # <<>> /\ requests' = Tail(requests) /\ r.op = "commit"
        => /\ current' = update_config(current, r.want, r.mask)
           /\ hardware' = current' ]_RpcVars

Configs == [Fields -> Values \cup {0}]
RpcPackets == [op : {"get"}] \cup [op : {"set"}, cfg : Configs]
             \cup [op : {"commit"}, mask : SUBSET Fields, want : Configs]

\* What comes before the request at position i has the board's next state be cfg.
Prepared(i, cfg) ==
  IF i = 1 THEN next_state = cfg
  ELSE requests[i - 1].op = "set" /\ requests[i - 1].cfg = cfg

\* Why commits are whole: only the holder of the lock is between its requests, so
\* what it has set is the last word on the next state until its commit follows,
\* and every commit on its way stands right behind its own set.
RpcInv ==
  /\ pc \in [Programs -> {<<"idle">>, <<"dead">>, <<"get">>, <<"commit">>}
                           \cup ({"set"} \X Changes)]
  /\ requests \in Seq(RpcPackets)
  /\ \A p \in Programs : pc[p][1] \notin {"idle", "dead"} => lock = p
  /\ \A p \in Programs : Setting(p) => Prepared(Len(requests) + 1, Next1(pc[p][2]))
  /\ \A i \in 1..Len(requests) :
       requests[i].op = "commit" => Prepared(i, requests[i].want)
  /\ hardware = current
=============================================================================
