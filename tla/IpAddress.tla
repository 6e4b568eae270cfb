----------------------------- MODULE IpAddress ------------------------------
(***************************************************************************)
(* How a node gets its IP address: the link is sampled once per turn of    *)
(* the scheduler, BOOTP is repeated while the node has no address and      *)
(* starts again when the link comes up, and the shell may set an address   *)
(* (wrc_main.c, lib/wrc-tasks.c, lib/ipv4.c, lib/bootp.c, shell/cmd_ip.c). *)
(*                                                                         *)
(*   task         the task whose turn it is                                *)
(*   cable        what ep_link_up reads                                    *)
(*   lnk          [prev, status]: prev_state and link_status               *)
(*   ip           [status, addr]: ip_status and myIP                       *)
(*   asked        a request is with the server                             *)
(*   fifo, sock   replies in the MAC's FIFO and in the BOOTP socket, which *)
(*                has room for one                                         *)
(*   fresh        history: the address is from a reply processed since     *)
(*                the link was last seen to come up                        *)
(*   plugs, sets  cable changes and "ip set" commands still to come        *)
(***************************************************************************)
EXTENDS Integers, Sequences

CONSTANTS Addresses,      \* that the server gives; 0 is no address
          ByHand,         \* that the shell may set
          FifoSize, MaxPlugs, MaxSets

VARIABLES task, cable, lnk, ip, asked, fifo, sock, fresh, plugs, sets
IpVars == <<task, cable, lnk, ip, asked, fifo, sock, fresh, plugs, sets>>

Link == <<cable, lnk, plugs>>
Net == <<asked, fifo, sock>>

\* wrc_poll_all_tasks, for the tasks that matter here.
NextTask ==
  task' = [checkLink |-> "shell", shell |-> "netBh", netBh |-> "ipv4", ipv4 |-> "checkLink"][task]

is_link_up == lnk.status = "UP"

wrc_check_link ==
  /\ task = "checkLink" /\ NextTask
  /\ lnk' = [prev |-> cable,
             status |-> CASE cable /\ ~ lnk.prev -> "WENT_UP"
                          [] ~ cable /\ lnk.prev -> "WENT_DOWN"
                          [] OTHER -> IF cable THEN "UP" ELSE "DOWN"]
  /\ fresh' = (fresh /\ lnk'.status # "WENT_UP")
  /\ UNCHANGED <<cable, ip, plugs, sets>> /\ UNCHANGED Net

-----------------------------------------------------------------------------
setIP(status, addr) == ip' = [status |-> IF addr = 0 THEN "TRAINING" ELSE status,
                              addr |-> addr]

\* cmd_ip, "ip set".
cmd_ip(addr) ==
  /\ task = "shell" /\ NextTask
  /\ sets > 0 /\ sets' = sets - 1
  /\ setIP("OK_STATIC", addr)
  /\ fresh' = FALSE
  /\ UNCHANGED Link /\ UNCHANGED Net

NoCommand ==
  /\ task = "shell" /\ NextTask
  /\ UNCHANGED <<ip, fresh, sets>> /\ UNCHANGED Link /\ UNCHANGED Net

\* net_bh_poll takes a frame only while the link is up, and drops it if the
\* socket has no room.
net_bh_poll ==
  /\ task = "netBh" /\ NextTask
  /\ IF is_link_up /\ fifo # <<>>
     THEN /\ fifo' = Tail(fifo)
          /\ sock' = IF sock = <<>> THEN <<Head(fifo)>> ELSE sock
     ELSE UNCHANGED <<fifo, sock>>
  /\ UNCHANGED <<ip, asked, fresh, sets>> /\ UNCHANGED Link

-----------------------------------------------------------------------------
\* ipv4_poll puts the node in training when the link has just come up.
Relearn == lnk.status = "WENT_UP" /\ ip.status = "OK_BOOTP"
Training == Relearn \/ ip.status = "TRAINING"

\* bootp_poll reads the socket whatever the status, processes the reply and
\* sends a request if a second has gone by.
bootp_poll(send) ==
  /\ sock' = <<>>
  /\ IF Training /\ sock # <<>>
     THEN setIP("OK_BOOTP", Head(sock)) /\ fresh' = TRUE
     ELSE /\ ip' = IF Relearn THEN [ip EXCEPT !.status = "TRAINING"] ELSE ip
          /\ UNCHANGED fresh
  /\ asked' = (asked \/ (Training /\ send /\ cable))

\* A slip of create_tasks: ipv4 is enabled by is_link_up, as arp is.
ipv4_poll_enabled(send) ==
  /\ task = "ipv4" /\ NextTask
  /\ IF is_link_up THEN bootp_poll(send) ELSE UNCHANGED <<sock, ip, fresh, asked>>
  /\ UNCHANGED <<fifo, sets>> /\ UNCHANGED Link

\* A slip of bootp_poll: a request is sent once, when the link comes up.
ipv4_poll_once(send) ==
  /\ task = "ipv4" /\ NextTask
  /\ bootp_poll(send /\ lnk.status = "WENT_UP")
  /\ UNCHANGED <<fifo, sets>> /\ UNCHANGED Link

ipv4_poll(send) ==
  /\ task = "ipv4" /\ NextTask
  /\ bootp_poll(send)
  /\ UNCHANGED <<fifo, sets>> /\ UNCHANGED Link

-----------------------------------------------------------------------------
\* The cable and the server are external.
Plug ==
  /\ plugs > 0 /\ plugs' = plugs - 1
  /\ cable' = ~ cable
  /\ asked' = FALSE
  /\ UNCHANGED <<task, lnk, ip, fifo, sock, fresh, sets>>

Reply(addr) ==
  /\ asked /\ Len(fifo) < FifoSize
  /\ asked' = FALSE
  /\ fifo' = Append(fifo, addr)
  /\ UNCHANGED <<task, ip, sock, fresh, sets>> /\ UNCHANGED Link

IpInit ==
  /\ task = "checkLink"
  /\ cable = FALSE /\ lnk = [prev |-> FALSE, status |-> "DOWN"]
  /\ ip = [status |-> "TRAINING", addr |-> 0]
  /\ asked = FALSE /\ fifo = <<>> /\ sock = <<>>
  /\ fresh = FALSE
  /\ plugs = MaxPlugs /\ sets = MaxSets

Turn ==
  \/ wrc_check_link
  \/ NoCommand
  \/ \E a \in ByHand : cmd_ip(a)
  \/ net_bh_poll
  \/ \E send \in BOOLEAN : ipv4_poll(send)

IpNext == Turn \/ Plug \/ \E a \in Addresses : Reply(a)

\* The scheduler never stops, a second goes by again and again, and the server
\* answers.
IpFairness ==
  /\ WF_IpVars(Turn)
  /\ SF_IpVars(ipv4_poll(TRUE))
  /\ WF_IpVars(\E a \in Addresses : Reply(a))

IpSpec == IpInit /\ [][IpNext]_IpVars /\ IpFairness

-----------------------------------------------------------------------------
\* An address from BOOTP is used with the link up only if a reply has been
\* processed since the link came up: "ipv4_poll has to be executed even on link
\* down to trigger the bootp request when the link is up" (create_tasks,
\* ipv4_poll).
BootpAfterLinkUp == is_link_up /\ ip.status = "OK_BOOTP" => fresh

\* When the cable stays in, the node ends up with an address, by hand or from
\* the server, whatever was lost on the way (bootp_poll, net_bh_poll).
AddressObtained == <>[]cable => <>[](ip.addr # 0 /\ ip.status # "TRAINING")

IpTypeOK ==
  /\ task \in {"checkLink", "shell", "netBh", "ipv4"}
  /\ lnk \in [prev : BOOLEAN, status : {"UP", "DOWN", "WENT_UP", "WENT_DOWN"}]
  /\ ip \in [status : {"TRAINING", "OK_BOOTP", "OK_STATIC"},
             addr : Addresses \cup ByHand \cup {0}]
  /\ fifo \in Seq(Addresses) /\ sock \in Seq(Addresses)
  /\ cable \in BOOLEAN /\ fresh \in BOOLEAN

\* Why the property holds: the scheduler runs ipv4_poll before it checks the link
\* again, so a stale address is seen while the link counts as just up.
IpInv ==
  /\ IpTypeOK
  /\ lnk.prev <=> lnk.status \in {"UP", "WENT_UP"}
  /\ lnk.prev /\ ip.status = "OK_BOOTP" /\ ~ fresh =>
       lnk.status = "WENT_UP" /\ task # "checkLink"
=============================================================================
