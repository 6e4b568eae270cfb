----------------------------- MODULE SerialLink -----------------------------
(***************************************************************************)
(* The serial line from the host to the eRTM14: the host frames packets    *)
(* and doubles the escape byte, the board's console takes escape sequences *)
(* out and hands the rest to the shell or to the packet receiver           *)
(* (libertm/linux-uart-link.c, boards/ertm14/common-uart-link.c,           *)
(* dev/console-uart.c).  Bytes and checksums are the real ones.            *)
(*                                                                         *)
(*   line        bytes on their way                                        *)
(*   con         [state, prev, mode] of the console                        *)
(*   rx          the receiver: state, packet, rx_count and checksums       *)
(*   sent        how many of Packets the host has sent                     *)
(*   got         the packets received                                      *)
(*   intact      history: the last packet went to a receiver between two   *)
(*               packets, and nothing has disturbed the line since         *)
(*   noise, opens    disturbances and new host programs so far             *)
(***************************************************************************)
EXTENDS Integers, Sequences, SequencesExt, Bitwise

CONSTANTS Packets,                  \* [ptype, payload], in sending order
          UART_LINK_MAX_PAYLOAD,
          NoiseBytes, MaxNoise, MaxOpens

VARIABLES line, con, rx, sent, got, intact, noise, opens
SerialVars == <<line, con, rx, sent, got, intact, noise, opens>>

ESC == 27
SWITCH_BINARY == 66
SWITCH_TEXT == 84
NoByte == -1

-----------------------------------------------------------------------------
\* One bit of the CRC, of eight for each byte.
CrcShift(crc) == IF crc >= 32768 THEN ((2 * crc) % 65536) ^^ 4129 ELSE 2 * crc

CrcBits[n \in 0..8, crc \in 0..65535] ==
  IF n = 0 THEN crc ELSE CrcBits[n - 1, CrcShift(crc)]

crc_xmodem_update(crc, data) == CrcBits[8, crc ^^ (256 * data)]

crc16(buf) ==
  LET cksum[i \in 0..Len(buf)] == IF i = 0 THEN 0 ELSE crc_xmodem_update(cksum[i - 1], buf[i])
  IN  cksum[Len(buf)]

uart_link_send(pkt) ==
  LET n == Len(pkt.payload)
      buf == <<85, 170, pkt.ptype, n \div 256, n % 256>> \o pkt.payload
      crc == crc16(buf)
  IN  buf \o <<crc \div 256, crc % 256>>

uart_link_send_byte(b) == IF b = ESC THEN <<ESC, ESC>> ELSE <<b>>

Escaped(buf) == FoldLeft(LAMBDA s, b : s \o uart_link_send_byte(b), <<>>, buf)

uart_link_set_binary == <<ESC, SWITCH_BINARY, ESC, SWITCH_BINARY, ESC, SWITCH_BINARY>>

-----------------------------------------------------------------------------
\* con_rx_internal: the console after a byte and what it returns.
Console(c, b) ==
  CASE c.state = "IDLE" /\ b = ESC -> <<[c EXCEPT !.state = "ESC_PENDING"], NoByte>>
    [] c.state = "IDLE" /\ b # ESC -> <<c, b>>
    [] c.state = "ESC_PENDING" /\ b = ESC -> <<c, ESC>>
    [] c.state = "ESC_PENDING" /\ b = SWITCH_TEXT -> <<[c EXCEPT !.mode = "TTY"], NoByte>>
    [] c.state = "ESC_PENDING" /\ b = SWITCH_BINARY -> <<[c EXCEPT !.mode = "BINARY"], NoByte>>
    [] OTHER -> <<[c EXCEPT !.state = "ESC_FLUSH", !.prev = b], NoByte>>

uart_link_reset == [rx EXCEPT !.state = "IDLE"]

\* The mode switch hook, control_uart_mode_callback.
Switches(b) == con.state = "ESC_PENDING" /\ b = SWITCH_BINARY

Digest(b) == crc_xmodem_update(rx.check_crc, b)

\* A slip of recv_fsm: the byte after 0x55 is 0xaa or the search starts again.
InSync_forgets(b) ==
  IF b = 170 THEN [rx EXCEPT !.state = "PTYPE", !.check_crc = Digest(b)]
  ELSE [rx EXCEPT !.state = "IDLE"]

InSync(b) ==
  CASE b = 170 -> [rx EXCEPT !.state = "PTYPE", !.check_crc = Digest(b)]
    [] b = 85 -> rx
    [] OTHER -> [rx EXCEPT !.state = "IDLE"]

InLength(b) ==
  LET length == rx.length + b
  IN  [rx EXCEPT !.length = length, !.check_crc = Digest(b), !.payload = <<>>,
                 !.state = IF length = 0 THEN "CRC0" ELSE "PAYLOAD"]

\* rx_count is the length of the payload stored so far.
InPayload(b) ==
  [rx EXCEPT !.state = IF Len(rx.payload) = rx.length - 1 THEN "CRC0" ELSE "PAYLOAD",
             !.check_crc = Digest(b),
             !.payload = IF Len(@) < UART_LINK_MAX_PAYLOAD THEN Append(@, b) ELSE @]

recv_fsm(b) ==
  CASE rx.state = "IDLE" -> IF b = 85
                            THEN [rx EXCEPT !.state = "SYNC", !.check_crc = crc_xmodem_update(0, b)]
                            ELSE rx
    [] rx.state = "SYNC" -> InSync(b)
    [] rx.state = "PTYPE" -> [rx EXCEPT !.state = "LEN0", !.ptype = b, !.check_crc = Digest(b)]
    [] rx.state = "LEN0" -> [rx EXCEPT !.state = "LEN1", !.length = 256 * b, !.check_crc = Digest(b)]
    [] rx.state = "LEN1" -> InLength(b)
    [] rx.state = "PAYLOAD" -> InPayload(b)
    [] rx.state = "CRC0" -> [rx EXCEPT !.state = "CRC1", !.rx_crc = 256 * b]
    [] OTHER -> [rx EXCEPT !.state = "IDLE", !.rx_crc = @ + b]

\* A slip of recv_fsm: the checksum is received and not compared.
GotPacket_unchecked(b) == rx.state = "CRC1" /\ Len(rx.payload) = rx.length

GotPacket(b) ==
  rx.state = "CRC1" /\ Len(rx.payload) = rx.length /\ rx.rx_crc + b = rx.check_crc

\* A byte that the console returns goes to uart_link_recv in binary mode, and to
\* the shell otherwise.
Received(b) ==
  IF b = NoByte \/ con.mode = "TTY" THEN UNCHANGED <<rx, got>>
  ELSE /\ rx' = recv_fsm(b)
       /\ got' = IF GotPacket(b)
                 THEN Append(got, [ptype |-> rx.ptype, payload |-> rx.payload]) ELSE got

Flush ==
  /\ con.state = "ESC_FLUSH"
  /\ con' = [con EXCEPT !.state = "IDLE"]
  /\ Received(con.prev)
  /\ UNCHANGED <<line, sent, intact, noise, opens>>

ReadByte ==
  /\ con.state # "ESC_FLUSH" /\ line # <<>>
  /\ line' = Tail(line)
  /\ LET b == Head(line) IN
     /\ con' = Console(con, b)[1]
     /\ IF Switches(b) THEN rx' = uart_link_reset /\ UNCHANGED got
        ELSE Received(Console(con, b)[2])
  /\ UNCHANGED <<sent, intact, noise, opens>>

-----------------------------------------------------------------------------
Quiet == line = <<>> /\ con.state # "ESC_FLUSH"

SendPacket ==
  /\ Quiet /\ sent < Len(Packets)
  /\ sent' = sent + 1
  /\ line' = Escaped(uart_link_send(Packets[sent + 1]))
  /\ intact' = (con.mode = "BINARY" /\ rx.state \in {"IDLE", "SYNC"})
  /\ UNCHANGED <<con, rx, got, noise, opens>>

\* A program that has died may leave part of a packet; the next one opens the
\* line (uart_link_create_linux).
Reopen ==
  /\ opens < MaxOpens /\ opens' = opens + 1
  /\ \E n \in 0..Len(line) : line' = SubSeq(line, 1, n) \o uart_link_set_binary
  /\ intact' = FALSE
  /\ UNCHANGED <<con, rx, sent, got, noise>>

\* A byte changes, is lost or comes from nowhere (external).
Disturb ==
  /\ noise < MaxNoise /\ noise' = noise + 1
  /\ \/ \E i \in DOMAIN line, b \in NoiseBytes : line' = [line EXCEPT ![i] = b]
     \/ \E i \in DOMAIN line : line' = RemoveAt(line, i)
     \/ \E i \in 1..(Len(line) + 1), b \in NoiseBytes : line' = InsertAt(line, i, b)
  /\ intact' = FALSE
  /\ UNCHANGED <<con, rx, sent, got, opens>>

SerialInit ==
  /\ line = uart_link_set_binary
  /\ con = [state |-> "IDLE", prev |-> 0, mode |-> "TTY"]
  /\ rx = [state |-> "IDLE", ptype |-> 0, length |-> 0, payload |-> <<>>,
           rx_crc |-> 0, check_crc |-> 0]
  /\ sent = 0 /\ got = <<>> /\ intact = FALSE /\ noise = 0 /\ opens = 0

SerialNext == Flush \/ ReadByte \/ SendPacket \/ Reopen \/ Disturb

SerialSpec == SerialInit /\ [][SerialNext]_SerialVars

-----------------------------------------------------------------------------
\* The packets received are packets that were sent, whole, in order and none
\* twice, whatever a disturbance does to type, length, payload, checksum or
\* escapes and wherever a program dies (recv_fsm).
PacketsAreGenuine ==
  \A i \in DOMAIN got : \E k \in 1..sent :
    /\ got[i] = Packets[k]
    /\ \A j \in 1..(i - 1), l \in 1..sent : got[j] = Packets[l] => l < k

\* A packet that the host sends while the receiver is between packets arrives,
\* whatever noise came before it (recv_fsm, con_rx_internal).
IntactArrives ==
  Quiet /\ intact => got # <<>> /\ Last(got) = Packets[sent]
=============================================================================
