---------------------------------- MODULE RingNics ----------------------------------
(***************************************************************************)
(* The AMD Am79c971 Ethernet controller (dev_am79c971.c).  Its lock is     *)
(* held by the receive handler and by a run of the transmit scanner over   *)
(* all their accesses to guest memory, and by a register access.           *)
(* status has RINT, TINT and IDON of CSR0, ctl its other bits and those of *)
(* CSR15; count is rx_tx_clear_count.                                      *)
(***************************************************************************)
EXTENDS NicRing

CONSTANTS
  Mode,         \* values the driver gives CSR15
  MaxStop,      \* bound: stops and changes of CSR15
  LateReceive   \* the guest may stop the device while the handler is
                \* between its check of RXON and the lock

AmAssumption ==
  /\ MaxStop \in Nat /\ LateReceive \in BOOLEAN
  /\ Mode \subseteq SUBSET {"DRX", "DTX"}

VARIABLE stops

AmControl == {"INIT", "STRT", "STOP", "RXON", "TXON", "IENA", "DRX", "DTX"}
AmCause == {"RINT", "TINT", "IDON"}

Am == device = "am79c971" /\ UNCHANGED stops

-----------------------------------------------------------------------------
(* Registers.                                                              *)

\* am79c971_update_irq_status, with all interrupts unmasked in CSR3.
AmUpdateIrq(causes, control) ==
  /\ status' = causes /\ ctl' = control
  /\ irq' = (causes # {} /\ "IENA" \in control)

\* am79c971_update_rx_tx_on_bits
OnBits(c) ==
  (c \ {"RXON", "TXON"})
    \cup (IF "STRT" \in c /\ "DRX" \notin c THEN {"RXON"} ELSE {})
    \cup (IF "STRT" \in c /\ "DTX" \notin c THEN {"TXON"} ELSE {})

\* Causes that are cleared when they are written as 1, some at each third write.
Cleared(causes, data) ==
  causes \ (data \cap ({"IDON"} \cup IF count = 2 THEN {"RINT", "TINT"} ELSE {}))

\* am79c971_rdp_access, a write to CSR0; mode is that of the initialization
\* block (am79c971_fetch_init_block).
WriteCsr0(data, mode) ==
  LET c1 == ctl \cup (data \cap {"IENA"})
      c2 == IF "INIT" \in data
            THEN OnBits((c1 \ {"STOP", "DRX", "DTX"}) \cup {"INIT"} \cup mode) ELSE c1
      c3 == IF "STRT" \in data THEN OnBits((c2 \cup {"STRT"}) \ {"STOP"}) ELSE c2
  IN IF "STOP" \in data
     THEN /\ AmUpdateIrq({}, {"STOP"} \cup (ctl \cap {"DRX", "DTX"}))
          /\ rx_pos' = 0 /\ tx_pos' = 0
          /\ UNCHANGED <<count, rx_end, tx_end>>
     ELSE /\ AmUpdateIrq(Cleared(status, data)
                           \cup IF "INIT" \in data THEN {"IDON"} ELSE {}, c3)
          /\ count' = (count + 1) % 3
          /\ UNCHANGED <<rx_pos, tx_pos, rx_end, tx_end>>

-----------------------------------------------------------------------------
(* The receive handler.                                                    *)

\* am79c971_handle_rxring up to the lock: its check is made without it.  RXON
\* implies that the rings were fetched.
AmRxCheck(n) ==
  /\ Am /\ Arrive(n) /\ "RXON" \in ctl
  /\ rx' = [RxIdle EXCEPT !.pc = "checked", !.of = n]
  /\ UNCHANGED <<rx_pos, rxd, irq, lock>> /\ NoRegs /\ Only("rx")

\* am79c971_receive_pkt begins, if the address is accepted and the device owns
\* the current descriptor.
AmRxLock ==
  /\ Am /\ rx.pc = "checked" /\ lock = "none"
  /\ \/ /\ rxd[rx_pos].own
        /\ lock' = "rx"
        /\ rx' = RxBegin(rx.of)
     \/ rx' = RxIdle /\ UNCHANGED lock
  /\ UNCHANGED <<rx_pos, rxd, irq, frames>> /\ NoRegs /\ Only("rx")

\* rxdesc_put_pkt and rxdesc_set_next
AmRxNext == IF rx_pos + 1 = RxLen THEN 0 ELSE rx_pos + 1
AmRxPut ==
  /\ Am /\ rx.pc = "put"
  /\ rxd' = PutUnit
  /\ rx_pos' = AmRxNext
  /\ rx' = [rx EXCEPT !.pc = "mark", !.unit = @ + 1]
  /\ UNCHANGED <<irq, lock, frames>> /\ NoRegs /\ Only("rx")

\* Mutant: the first descriptor is given back at once.
AmRxMarkFirst ==
  /\ Am /\ rx.pc = "mark"
  /\ rxd' = [rxd EXCEPT ![rx.cur].own = FALSE,
                        ![rx.cur].stp = rx.cur = rx.start,
                        ![rx.cur].enp = RxLast \/ RxCut(rx_pos),
                        ![rx.cur].err = RxCut(rx_pos)]
  /\ rx' = RxMarked(rx_pos, IF RxLast THEN "count" ELSE "final")
  /\ UNCHANGED <<rx_pos, irq, lock, frames>> /\ NoRegs /\ Only("rx")

\* The flags of the descriptor: the end of the packet, or an error if the next
\* descriptor is not the device's.  The first one is kept, in rxd0.
AmRxMark ==
  /\ Am /\ rx.pc = "mark"
  /\ rxd' = [rxd EXCEPT ![rx.cur].own = rx.unit = 1,
                        ![rx.cur].enp = RxLast \/ RxCut(rx_pos),
                        ![rx.cur].err = RxCut(rx_pos)]
  /\ rx' = RxMarked(rx_pos, IF RxLast THEN "count" ELSE "final")
  /\ UNCHANGED <<rx_pos, irq, lock, frames>> /\ NoRegs /\ Only("rx")

\* The byte count of the packet, in its last descriptor.
AmRxCount ==
  /\ Am /\ rx.pc = "count"
  /\ rxd' = [rxd EXCEPT ![rx.cur].count = rx.of]
  /\ rx' = [rx EXCEPT !.pc = "final"]
  /\ UNCHANGED <<rx_pos, irq, lock, frames>> /\ NoRegs /\ Only("rx")

\* The first descriptor, from the copy rxd0.
AmRxFinal == Am /\ RingFinal(rxd[rx.start].count, TRUE)

AmRxRaise ==
  /\ Am /\ rx.pc = "raise"
  /\ AmUpdateIrq(status \cup {"RINT"}, ctl)
  /\ lock' = "none" /\ rx' = RxIdle
  /\ UNCHANGED <<count, rx_pos, rx_end, tx_end, rxd, frames>> /\ Only("rx")

-----------------------------------------------------------------------------
(* The transmit scanner.                                                   *)

\* am79c971_handle_txring_single finds a packet, as the first of a run or
\* after another.  A run that finds none only takes the lock and gives it up.
AmTxSingle ==
  /\ Am
  /\ \/ tx.pc = "idle" /\ bound /\ lock = "none" /\ lock' = "tx"
     \/ tx.pc = "single" /\ tx.pass < PassCount /\ UNCHANGED lock
  /\ "TXON" \in ctl /\ txd[tx_pos].own
  /\ tx' = TxBegin
  /\ UNCHANGED <<tx_pos, txd, irq, sent>> /\ NoRegs /\ Only("tx")

\* am79c971_handle_txring ends, and gives the lock up.
AmTxUnlock == Am /\ RingPassEnds("none")

\* One descriptor of the packet; an underflow ends the run.
AmTxNext == IF tx_pos + 1 = TxLen THEN 0 ELSE tx_pos + 1
AmTxCopy == Am /\ RingCopy(AmTxNext, "none")

AmTxSend == Am /\ RingSend("clear")

AmTxClear == Am /\ RingClear

AmTxRaise ==
  /\ Am /\ tx.pc = "raise"
  /\ AmUpdateIrq(status \cup {"TINT"}, ctl)
  /\ tx' = TxNext
  /\ UNCHANGED <<count, tx_pos, rx_end, tx_end, txd, lock, sent>> /\ Only("tx")

-----------------------------------------------------------------------------
(* The driver's accesses; each (dev_am79c971_access) takes the lock.        *)

AmStart(mode) ==
  /\ Am /\ Access("prepared", "idle")
  /\ WriteCsr0({"INIT", "STRT", "IENA"}, mode)

\* What was not received or sent is dropped.
AmStop ==
  /\ device = "am79c971" /\ drv.pc = "idle" /\ lock = "none" /\ stops < MaxStop
  /\ ~LateReceive => rx.pc # "checked"
  /\ WriteCsr0({"STOP"}, {})
  /\ drv' = [drv EXCEPT !.pc = "stopped"]
  /\ taken' = frames /\ sent' = queued /\ stops' = stops + 1
  /\ NoAccess /\ UNCHANGED <<lock, memVars, queued>>

\* Mutant: RXON and TXON are not updated.
AmModeStale(mode) ==
  /\ device = "am79c971" /\ stops < MaxStop /\ stops' = stops + 1
  /\ Access("idle", "idle")
  /\ ctl' = (ctl \ {"DRX", "DTX"}) \cup mode
  /\ UNCHANGED <<status, count, rx_end, tx_end, rx_pos, tx_pos, irq>>

\* A write to CSR15.
AmMode(mode) ==
  /\ device = "am79c971" /\ stops < MaxStop /\ stops' = stops + 1
  /\ Access("idle", "idle")
  /\ ctl' = OnBits((ctl \ {"DRX", "DTX"}) \cup mode)
  /\ UNCHANGED <<status, count, rx_end, tx_end, rx_pos, tx_pos, irq>>

AmQueue(n) == Am /\ Queue(n, FALSE) /\ NoDevice

\* CSR0 is read, and written back.
AmInterrupt == Am /\ Interrupted
AmAck == Am /\ Access("ack", "scan") /\ WriteCsr0(drv.read \cup {"IENA"}, {})
AmTake == Am /\ Take(FreshRx) /\ NoDevice

-----------------------------------------------------------------------------
(***************************************************************************)
(* The DEC 21140 Ethernet controller (dev_dec21140.c).  It has no lock:    *)
(* the receive handler, the scanner and the CPU update CSR5 by reading it  *)
(* and writing it back, so that one of them may undo what another has set. *)
(* status has RI and TI of CSR5, ctl the start bits of CSR6.               *)
(***************************************************************************)

DecControl == {"START_RX", "START_TX"}
DecCause == {"RI", "TI"}

Dec == device = "dec21140" /\ UNCHANGED lock

\* The summary bits are not kept apart: dev_dec21140_update_irq_status
DecUpdateIrq(csr5) == status' = csr5 /\ irq' = (csr5 # {})

-----------------------------------------------------------------------------
(* The receive handler.                                                    *)

\* dev_dec21140_handle_rxring; dev_dec21140_receive_pkt drops the frame if it
\* has no descriptor.
DecRxRing(n) ==
  /\ Dec /\ Arrive(n) /\ "START_RX" \in ctl
  /\ rx' = IF rxd[rx_pos].own THEN RxBegin(n) ELSE RxIdle
  /\ UNCHANGED <<rx_pos, rxd, irq>> /\ NoRegs /\ Only("rx")

\* rxdesc_get_next; the last descriptor of the ring has RER
DecRxNext == IF rx.cur = RxLen - 1 THEN 0 ELSE rx.cur + 1

\* The frame length is in the last status, with LS.
DecReceive ==
  /\ Dec
  /\ \/ RingPut
     \/ RingMark(DecRxNext, IF RxLast THEN rx.of ELSE 0, TRUE)
     \/ RingFinal(IF rx.of = 1 THEN 1 ELSE 0, TRUE)

DecRxRead ==
  /\ Dec /\ rx.pc = "raise"
  /\ rx' = [rx EXCEPT !.pc = "update", !.copy = status]
  /\ UNCHANGED <<rx_pos, rxd, irq, frames>> /\ NoRegs /\ Only("rx")

DecRxRaise ==
  /\ Dec /\ rx.pc = "update"
  /\ DecUpdateIrq(rx.copy \cup {"RI"})
  /\ rx' = RxIdle
  /\ UNCHANGED <<ctl, count, rx_pos, rx_end, tx_end, rxd, frames>> /\ Only("rx")

-----------------------------------------------------------------------------
(* The transmit scanner.                                                   *)

\* dev_dec21140_handle_txring_single up to the loop.  A setup frame, which has
\* neither FS nor LS, is not sent.
DecTxSingle ==
  /\ Dec
  /\ \/ tx.pc = "idle" /\ bound
     \/ tx.pc = "single" /\ tx.pass < PassCount
  /\ "START_TX" \in ctl /\ txd[tx_pos].own
  /\ LET setup == ~txd[tx_pos].stp /\ ~txd[tx_pos].enp
     IN /\ tx' = [TxBegin EXCEPT !.pc = IF setup THEN "clear" ELSE "copy"]
        /\ tx_pos' = IF setup THEN (tx_pos + 1) % TxLen ELSE tx_pos
  /\ UNCHANGED <<txd, irq, sent>> /\ NoRegs /\ Only("tx")

\* txdesc_set_next; the last descriptor of the ring has TER
DecTxNext == IF tx_pos = TxLen - 1 THEN 0 ELSE tx_pos + 1
DecTransmit ==
  /\ Dec
  /\ \/ RingCopy(DecTxNext, "none")
     \/ RingSend("clear")
     \/ RingClear

\* With IC set in each packet.
DecTxRead ==
  /\ Dec /\ tx.pc = "raise"
  /\ tx' = [tx EXCEPT !.pc = "update", !.copy = status]
  /\ UNCHANGED <<tx_pos, txd, irq, sent>> /\ NoRegs /\ Only("tx")

DecTxRaise ==
  /\ Dec /\ tx.pc = "update"
  /\ DecUpdateIrq(tx.copy \cup {"TI"})
  /\ tx' = TxNext
  /\ UNCHANGED <<ctl, count, tx_pos, rx_end, tx_end, txd, sent>> /\ Only("tx")

DecTxRingEnds == Dec /\ RingPassEnds("none")

-----------------------------------------------------------------------------
(* The driver's accesses (dev_dec21140_access).                             *)

\* CSR3, CSR4 and CSR6 are written, with a setup frame in the first transmit
\* descriptor.
DecStart ==
  /\ Dec /\ drv.pc = "prepared"
  /\ rx_pos' = 0 /\ tx_pos' = 0
  /\ ctl' = {"START_RX", "START_TX"}
  /\ txd' = [txd EXCEPT ![0].own = TRUE]
  /\ drv' = [drv EXCEPT !.pc = "idle", !.tx = 1 % TxLen, !.used = 1]
  /\ NoAccess
  /\ UNCHANGED <<status, count, rx_end, tx_end, irq, rxd, taken, queued, sent>>

DecQueue(n) == Dec /\ Queue(n, FALSE) /\ NoDevice

DecInterrupt == Dec /\ Interrupted

\* A write to CSR5 clears the bits that are 1 in it.
DecAckRead ==
  /\ Dec /\ drv.pc = "ack"
  /\ drv' = [drv EXCEPT !.pc = "clear", !.read = status \ drv.read]
  /\ NoAccess /\ NoDevice /\ UNCHANGED <<memVars, taken, queued, sent>>

DecAckWrite ==
  /\ Dec /\ Access("clear", "scan")
  /\ DecUpdateIrq(drv.read)
  /\ UNCHANGED <<ctl, count, rx_end, tx_end, rx_pos, tx_pos>>

DecTake == Dec /\ Take(FreshRx) /\ NoDevice

-----------------------------------------------------------------------------
(***************************************************************************)
(* The Intel 8254x Ethernet controller (dev_i8254x.c).  A head and a tail  *)
(* tell which descriptors it may use: those from rx_pos (rdh) up to rx_end *)
(* (rdt), and from tx_pos (tdh) to tx_end (tdt).  Its lock is held by the  *)
(* receive handler, by the scanner for each packet, and by a register      *)
(* access.  status is icr, ctl the enable bits of RCTL and TCTL and        *)
(* whether the causes are unmasked; count is rx_irq_cnt.                   *)
(* A frame fits into a buffer (rx_buf_size).                               *)
(***************************************************************************)

LvgControl == {"RCTL_EN", "TCTL_EN", "IMS"}
LvgCause == {"RXT0", "RXO", "TXDW", "TXQE"}

Lvg == device = "i8254x"

\* dev_i8254x_update_irq_status
LvgUpdateIrq(icr) == status' = icr /\ irq' = (icr # {} /\ "IMS" \in ctl)

-----------------------------------------------------------------------------
\* dev_i8254x_handle_rxring and dev_i8254x_receive_pkt: with no descriptor the
\* frame is lost, which is a cause of its own.
LvgRxRing ==
  /\ Lvg /\ Arrive(1) /\ "RCTL_EN" \in ctl /\ lock = "none"
  /\ IF rx_pos = rx_end
     THEN LvgUpdateIrq(status \cup {"RXO"}) /\ UNCHANGED <<rx, lock>>
     ELSE rx' = RxBegin(1) /\ lock' = "rx" /\ UNCHANGED <<status, irq>>
  /\ UNCHANGED <<rx_pos, rxd, ctl, count, rx_end, tx_end>> /\ Only("rx")

LvgRxPut ==
  /\ Lvg /\ rx.pc = "put"
  /\ rxd' = PutUnit
  /\ rx' = [rx EXCEPT !.pc = "length", !.unit = @ + 1]
  /\ UNCHANGED <<rx_pos, irq, lock, frames>> /\ NoRegs /\ Only("rx")

\* The length of the descriptor, then its status, with DD and EOP.
LvgRxLength ==
  /\ Lvg /\ rx.pc = "length"
  /\ rxd' = [rxd EXCEPT ![rx.cur].count = 1]
  /\ rx' = [rx EXCEPT !.pc = "status"]
  /\ UNCHANGED <<rx_pos, irq, lock, frames>> /\ NoRegs /\ Only("rx")

LvgRxStatus ==
  /\ Lvg /\ rx.pc = "status"
  /\ rxd' = [rxd EXCEPT ![rx.cur] = [@ EXCEPT !.own = FALSE, !.stp = TRUE, !.enp = TRUE,
                                              !.count = 1]]
  /\ rx_pos' = IF rx_pos + 1 = RxLen THEN 0 ELSE rx_pos + 1
  /\ count' = count + 1
  /\ rx' = [rx EXCEPT !.pc = "raise"]
  /\ UNCHANGED <<irq, lock, frames, status, ctl, rx_end, tx_end>> /\ Only("rx")

LvgRxRaise ==
  /\ Lvg /\ rx.pc = "raise"
  /\ LvgUpdateIrq(status \cup {"RXT0"})
  /\ lock' = "none" /\ rx' = RxIdle
  /\ UNCHANGED <<ctl, count, rx_pos, rx_end, tx_end, rxd, frames>> /\ Only("rx")

-----------------------------------------------------------------------------
\* dev_i8254x_handle_txring takes the lock for each packet.
LvgTxSingle ==
  /\ Lvg /\ lock = "none"
  /\ \/ tx.pc = "idle" /\ bound
     \/ tx.pc = "single" /\ tx.pass < PassCount
  /\ "TCTL_EN" \in ctl /\ tx_pos # tx_end
  /\ lock' = "tx" /\ tx' = TxBegin
  /\ UNCHANGED <<tx_pos, txd, irq, sent>> /\ NoRegs /\ Only("tx")

\* One descriptor: its data is copied, and DD written, with RS set in each.
\* The loop ends at the tail, and at the end of the packet.
LvgTxCopy ==
  /\ Lvg /\ tx.pc = "copy"
  /\ LET d == txd[tx_pos]
         next == IF tx_pos + 1 = TxLen THEN 0 ELSE tx_pos + 1
     IN /\ txd' = [txd EXCEPT ![tx_pos].own = FALSE]
        /\ tx_pos' = next
        /\ tx' = [tx EXCEPT !.pc = IF d.enp THEN "send"
                                   ELSE IF next = tx_end THEN "raise" ELSE "copy",
                            !.pkt = Append(@, d.buf)]
  /\ UNCHANGED <<irq, lock, sent>> /\ NoRegs /\ Only("tx")

LvgTxSend == Lvg /\ RingSend("raise")

LvgTxRaise ==
  /\ Lvg /\ tx.pc = "raise"
  /\ LvgUpdateIrq(status \cup {"TXDW"} \cup IF tx_pos = tx_end THEN {"TXQE"} ELSE {})
  /\ lock' = "none" /\ tx' = TxNext
  /\ UNCHANGED <<ctl, count, tx_pos, rx_end, tx_end, txd, sent>> /\ Only("tx")

LvgTxRingEnds == Lvg /\ RingPassEnds(lock)

-----------------------------------------------------------------------------
(* The driver's accesses (dev_i8254x_access).                               *)

\* Heads and tails, RCTL, TCTL and IMS.  One descriptor is not given, so that
\* a full ring is not taken for an empty one.
LvgStart ==
  /\ Lvg /\ Access("prepared", "idle")
  /\ rx_pos' = 0 /\ rx_end' = RxLen - 1
  /\ tx_pos' = 0 /\ tx_end' = 0
  /\ ctl' = LvgControl
  /\ UNCHANGED <<status, count, irq>>

\* A packet is queued and the tail written, as long as the ring is not full.
LvgQueue(n) ==
  /\ Lvg /\ lock = "none" /\ drv.used + n < TxLen
  /\ Queue(n, FALSE)
  /\ tx_end' = TxAt(n)
  /\ UNCHANGED <<status, ctl, count, rx_end, rx_pos, tx_pos, irq, lock>>

\* ICR is read, which clears it; a frame that was counted sets RXT0 again.
LvgReadIcr ==
  /\ Lvg /\ irq /\ Access("idle", "scan")
  /\ LvgUpdateIrq(IF count > 0 THEN {"RXT0"} ELSE {})
  /\ count' = IF count > 0 THEN count - 1 ELSE 0
  /\ UNCHANGED <<ctl, rx_end, tx_end, rx_pos, tx_pos>>

\* A frame is taken, and its descriptor given back, which moves the tail.
LvgTake ==
  /\ Lvg /\ lock = "none"
  /\ Take(FreshRx)
  /\ rx_end' = (rx_end + FrameLen) % RxLen
  /\ UNCHANGED <<status, ctl, count, tx_end, rx_pos, tx_pos, irq, lock>>

-----------------------------------------------------------------------------
(***************************************************************************)
(* A channel of the Mueslix serial controller (dev_mueslix.c).  Its lock   *)
(* is held by the receive handler, by the scanner for each packet, and by  *)
(* a register access.  status has the channel's interrupt bits, ctl its    *)
(* status ("on"), its enable bits and the chip mode; count is              *)
(* irq_clearing_count.                                                     *)
(***************************************************************************)

MuesControl == {"on", "RX", "TX", "mode1"}
MuesCause == {"RX", "TX"}

Mues == device = "mueslix"

\* dev_mueslix_update_irq_status, with both bits unmasked: the line goes down
\* at the third update that finds no cause.
MuesUpdateIrq(causes) ==
  /\ status' = causes
  /\ IF causes # {} THEN irq' = TRUE /\ UNCHANGED count
     ELSE /\ count' = (count + 1) % 3
          /\ irq' = (irq /\ count' # 0)

\* rxdesc_get_next, txdesc_set_next: in mode 0 the end is the address after the
\* last descriptor, in mode 1 that of the last descriptor.
MuesNext(i, end) ==
  IF "mode1" \in ctl THEN IF i = end THEN 0 ELSE i + 1
                     ELSE IF i + 1 = end THEN 0 ELSE i + 1

-----------------------------------------------------------------------------
\* dev_mueslix_handle_rxring; dev_mueslix_receive_pkt returns early if the
\* channel is off or not enabled, or has no descriptor.
MuesRxRing(n) ==
  /\ Mues /\ Arrive(n) /\ lock = "none"
  /\ IF {"on", "RX"} \subseteq ctl /\ rxd[rx_pos].own
     THEN rx' = RxBegin(n) /\ lock' = "rx"
     ELSE UNCHANGED <<rx, lock>>
  /\ UNCHANGED <<rx_pos, rxd, irq>> /\ NoRegs /\ Only("rx")

\* Each descriptor has the length of its own part.
MuesReceive ==
  /\ Mues
  /\ \/ RingPut
     \/ RingMark(MuesNext(rx.cur, rx_end), 1, TRUE)
     \/ RingFinal(1, TRUE)

MuesRxRaise ==
  /\ Mues /\ rx.pc = "raise"
  /\ MuesUpdateIrq(status \cup {"RX"})
  /\ lock' = "none" /\ rx' = RxIdle
  /\ UNCHANGED <<ctl, rx_pos, rx_end, tx_end, rxd, frames>> /\ Only("rx")

-----------------------------------------------------------------------------
\* dev_mueslix_handle_txring takes the lock for each packet.  Its test of the
\* enable bits comes out true if either of them is set.
MuesTxSingle ==
  /\ Mues /\ lock = "none"
  /\ \/ tx.pc = "idle" /\ bound
     \/ tx.pc = "single" /\ tx.pass < PassCount
  /\ ctl \cap {"RX", "TX"} # {} /\ "on" \in ctl
  /\ txd[tx_pos].own
  /\ lock' = "tx" /\ tx' = TxBegin
  /\ UNCHANGED <<tx_pos, txd, irq, sent>> /\ NoRegs /\ Only("tx")

MuesTransmit ==
  /\ Mues
  /\ \/ RingCopy(MuesNext(tx_pos, tx_end), "none")
     \/ RingSend("clear")
     \/ RingClear

MuesTxRaise ==
  /\ Mues /\ tx.pc = "raise"
  /\ MuesUpdateIrq(status \cup {"TX"})
  /\ lock' = "none" /\ tx' = TxNext
  /\ UNCHANGED <<ctl, tx_pos, rx_end, tx_end, txd, sent>> /\ Only("tx")

MuesTxRingEnds == Mues /\ RingPassEnds(lock)

-----------------------------------------------------------------------------
(* The driver's accesses (dev_mueslix_access).                              *)

\* The ring registers (dev_mueslix_chan_access), the enable bits, and the
\* command that turns the channel on (tpu_cm0_handle_cmd, tpu_cm1_handle_cmd).
MuesStart ==
  /\ Mues /\ Access("prepared", "idle")
  /\ \E mode1 \in BOOLEAN :
       /\ ctl' = {"on", "RX", "TX"} \cup IF mode1 THEN {"mode1"} ELSE {}
       /\ rx_end' = IF mode1 THEN RxLen - 1 ELSE RxLen
       /\ tx_end' = IF mode1 THEN TxLen - 1 ELSE TxLen
  /\ rx_pos' = 0 /\ tx_pos' = 0
  /\ UNCHANGED <<status, count, irq>>

MuesQueue(n) == Mues /\ Queue(n, FALSE) /\ NoDevice

\* Register 0 is read, and written back.
MuesInterrupt == Mues /\ Interrupted
MuesAck ==
  /\ Mues /\ Access("ack", "scan")
  /\ MuesUpdateIrq(status \ drv.read)
  /\ UNCHANGED <<ctl, rx_end, tx_end, rx_pos, tx_pos>>

MuesTake == Mues /\ Take(FreshRx) /\ NoDevice

-----------------------------------------------------------------------------
(***************************************************************************)
(* The packet-over-SONET adapter (dev_c7200_pos.c).  It has neither a lock *)
(* nor interrupt causes: the line goes up with each frame and packet, and  *)
(* down at every so many reads of the status registers; count is           *)
(* irq_clearing_count.  A descriptor says whether its packet continues.    *)
(***************************************************************************)

CONSTANT ClearReads   \* reads until the line goes down (20 in the code)

PosAssumption == ClearReads \in Nat \ {0}

Pos == device = "pos" /\ UNCHANGED lock

-----------------------------------------------------------------------------
\* dev_pos_oc3_handle_rxring, once rx_start is set; dev_pos_oc3_receive_pkt
\* drops the frame if it has no descriptor.
PosRxRing(n) ==
  /\ Pos /\ Arrive(n) /\ "rings" \in ctl
  /\ rx' = IF rxd[rx_pos].own THEN RxBegin(n) ELSE RxIdle
  /\ UNCHANGED <<rx_pos, rxd, irq>> /\ NoRegs /\ Only("rx")

\* rxdesc_get_next, txdesc_set_next: the last descriptors have WRAP
PosRxNext == IF rx.cur = RxLen - 1 THEN 0 ELSE rx.cur + 1
PosTxNext == IF tx_pos = TxLen - 1 THEN 0 ELSE tx_pos + 1

\* A frame that is cut off is not marked as such.
PosReceive ==
  /\ Pos
  /\ \/ RingPut
     \/ RingMark(PosRxNext, 1, FALSE)
     \/ RingFinal(1, FALSE)

PosRxRaise ==
  /\ Pos /\ rx.pc = "raise"
  /\ irq' = TRUE
  /\ rx' = RxIdle
  /\ UNCHANGED <<rx_pos, rxd, frames>> /\ NoRegs /\ Only("rx")

-----------------------------------------------------------------------------
\* dev_pos_oc3_handle_txring sends one packet in a run.
PosTxRing ==
  /\ Pos /\ tx.pc = "idle" /\ bound
  /\ "rings" \in ctl /\ txd[tx_pos].own
  /\ tx' = TxBegin
  /\ UNCHANGED <<tx_pos, txd, irq, sent>> /\ NoRegs /\ Only("tx")

PosTransmit ==
  /\ Pos
  /\ \/ RingCopy(PosTxNext, "none")
     \/ RingSend("clear")
     \/ RingClear

PosTxRaise ==
  /\ Pos /\ tx.pc = "raise"
  /\ irq' = TRUE
  /\ tx' = TxIdle
  /\ UNCHANGED <<tx_pos, txd, sent>> /\ NoRegs /\ Only("tx")

-----------------------------------------------------------------------------
(* The driver's accesses.                                                   *)

\* dev_pos_rx_access and dev_pos_tx_access: start and current descriptor
PosStart ==
  /\ Pos /\ Access("prepared", "idle")
  /\ ctl' = {"rings"} /\ rx_pos' = 0 /\ tx_pos' = 0
  /\ UNCHANGED <<status, count, rx_end, tx_end, irq>>

PosQueue(n) == Pos /\ Queue(n, FALSE) /\ NoDevice

PosInterrupt == Pos /\ Interrupted

\* dev_pos_cs_access, a read of a status register
PosAck ==
  /\ Pos /\ Access("ack", "scan")
  /\ count' = (count + 1) % ClearReads
  /\ irq' = (irq /\ count' # 0)
  /\ UNCHANGED <<status, ctl, rx_end, tx_end, rx_pos, tx_pos>>

PosTake == Pos /\ Take(FreshRx) /\ NoDevice

-----------------------------------------------------------------------------
(***************************************************************************)
(* The Intel 8255x Ethernet controller (dev_i8255x.c).  Its lock is held   *)
(* by the receive handler and by a register access, which also executes    *)
(* the command blocks: there is no transmit scanner.  Receive frame        *)
(* descriptors (RFD) are linked; the device stops after one with EL.       *)
(* Command blocks are linked; it suspends after one with S.  ctl has the   *)
(* states of the two units, status is scb_stat_ack; rx_pos is ru_offset,   *)
(* tx_pos is cu_offset.  A frame fits into a buffer.                       *)
(***************************************************************************)

EeproControl == {"RU_READY", "CU_SUSPEND"}
EeproCause == {"FR", "RNR", "CX", "CNA"}

Eepro == device = "i8255x"

\* dev_i8255x_update_irq_status, with no cause masked
EeproUpdateIrq(causes) == status' = causes /\ irq' = (causes # {})

-----------------------------------------------------------------------------
\* dev_i8255x_handle_rxring; dev_i8255x_store_rx_pkt keeps the control word of
\* the RFD as it is at that moment.
EeproRxRing(n) ==
  /\ Eepro /\ Arrive(n) /\ lock = "none"
  /\ IF "RU_READY" \in ctl
     THEN /\ rx' = [RxBegin(1) EXCEPT !.copy = IF rxd[rx_pos].el THEN {"EL"} ELSE {}]
          /\ lock' = "rx"
     ELSE UNCHANGED <<rx, lock>>
  /\ UNCHANGED <<rx_pos, rxd, irq>> /\ NoRegs /\ Only("rx")

EeproRxPut ==
  /\ Eepro /\ rx.pc = "put"
  /\ rxd' = PutUnit
  /\ rx' = [rx EXCEPT !.pc = "ctrl", !.unit = @ + 1]
  /\ UNCHANGED <<rx_pos, irq, lock, frames>> /\ NoRegs /\ Only("rx")

\* The control word is written back, with C and OK.
EeproRxCtrl ==
  /\ Eepro /\ rx.pc = "ctrl"
  /\ rxd' = [rxd EXCEPT ![rx.cur] = [@ EXCEPT !.own = FALSE, !.stp = TRUE,
                                              !.el = "EL" \in rx.copy]]
  /\ rx' = [rx EXCEPT !.pc = "size"]
  /\ UNCHANGED <<rx_pos, irq, lock, frames>> /\ NoRegs /\ Only("rx")

\* Its size is written after it.
EeproRxSize ==
  /\ Eepro /\ rx.pc = "size"
  /\ rxd' = [rxd EXCEPT ![rx.cur] = [@ EXCEPT !.enp = TRUE, !.count = 1]]
  /\ rx' = [rx EXCEPT !.pc = "raise"]
  /\ UNCHANGED <<rx_pos, irq, lock, frames>> /\ NoRegs /\ Only("rx")

\* Mutant: the end of the list is not reported.
EeproRxRaiseSilent ==
  /\ Eepro /\ rx.pc = "raise"
  /\ EeproUpdateIrq(status \cup {"FR"})
  /\ IF "EL" \in rx.copy THEN ctl' = ctl \ {"RU_READY"} /\ UNCHANGED rx_pos
                         ELSE rx_pos' = (rx_pos + 1) % RxLen /\ UNCHANGED ctl
  /\ lock' = "none" /\ rx' = RxIdle
  /\ UNCHANGED <<count, rx_end, tx_end, rxd, frames>> /\ Only("rx")

\* The unit goes on to the next RFD, or stops at EL (RU_STATE_NO_RES).
EeproRxRaise ==
  /\ Eepro /\ rx.pc = "raise"
  /\ EeproUpdateIrq(status \cup {"FR"} \cup IF "EL" \in rx.copy THEN {"RNR"} ELSE {})
  /\ IF "EL" \in rx.copy THEN ctl' = ctl \ {"RU_READY"} /\ UNCHANGED rx_pos
                         ELSE rx_pos' = (rx_pos + 1) % RxLen /\ UNCHANGED ctl
  /\ lock' = "none" /\ rx' = RxIdle
  /\ UNCHANGED <<count, rx_end, tx_end, rxd, frames>> /\ Only("rx")

-----------------------------------------------------------------------------
(* Commands.  A packet is one command block with a descriptor for each of    *)
(* its parts.                                                                *)

\* dev_i8255x_send_tx_pkt: the data of the buffer descriptors, in their order.
Gather(id, n) == [k \in 1..n |-> [id |-> id, unit |-> k, of |-> n]]

\* Mutant: the block that was executed last is executed again.
ResumeSame(block) == tx_pos

\* dev_i8255x_process_cu_cmd: CU_START takes the block from the general
\* pointer; CU_RESUME (dev_i8255x_cu_resume) goes on after the last one, which
\* must have lost its S.
Resume(block) == IF "CU_SUSPEND" \in ctl THEN (tx_pos + 1) % TxLen ELSE block

\* The driver links a block with S set, clears S of the one before it, and
\* starts or resumes the unit, which executes the block (dev_i8255x_process_cb):
\* the frame is sent.
EeproCommand(n) ==
  /\ Eepro /\ drv.pc = "idle" /\ lock = "none" /\ queued < MaxPkt[device] /\ drv.used < TxLen
  /\ queued' = queued + 1
  /\ LET block == Resume(drv.tx)
         before == (drv.tx + TxLen - 1) % TxLen
         mem == [txd EXCEPT ![before].s = FALSE,
                   ![drv.tx] = [own |-> TRUE, stp |-> TRUE, enp |-> TRUE, s |-> TRUE,
                                buf |-> [id |-> queued + 1, unit |-> 1, of |-> n]]]
     IN /\ txd' = mem
        /\ tx_pos' = block
        /\ tx' = [TxIdle EXCEPT !.pc = "send", !.cur = block, !.start = block,
                    !.pkt = Gather(mem[block].buf.id, mem[block].buf.of)]
  /\ drv' = [drv EXCEPT !.tx = (drv.tx + 1) % TxLen, !.used = @ + 1, !.pc = "command"]
  /\ lock' = "cpu"
  /\ ctl' = ctl \cup {"CU_SUSPEND"}
  /\ UNCHANGED <<device, status, count, rx_end, tx_end, irq, rx_pos, rxd, rx, bound,
                 frames, taken, sent>>

\* The end of dev_i8255x_process_cb and of dev_i8255x_process_cbl: C is
\* written, and the unit suspends.
EeproComplete ==
  /\ Eepro /\ drv.pc = "command"
  /\ sent' = tx.pkt[1].id
  /\ txd' = [txd EXCEPT ![tx.cur].own = FALSE]
  /\ EeproUpdateIrq(status \cup {"CX", "CNA"})
  /\ tx' = TxIdle
  /\ lock' = "none" /\ drv' = [drv EXCEPT !.pc = "idle"]
  /\ UNCHANGED <<device, ctl, count, rx_end, tx_end, rx_pos, tx_pos, rxd, rx, bound,
                 frames, taken, queued>>

-----------------------------------------------------------------------------
(* The driver's accesses (dev_i8255x_access).                               *)

\* RU_START (dev_i8255x_process_ru_cmd); the last RFD of the list has EL.
EeproStart ==
  /\ Eepro /\ drv.pc = "prepared" /\ lock = "none"
  /\ rxd' = [rxd EXCEPT ![RxLen - 1].el = TRUE]
  /\ ctl' = {"RU_READY"} /\ rx_pos' = 0
  /\ drv' = [drv EXCEPT !.pc = "idle"]
  /\ NoAccess
  /\ UNCHANGED <<status, count, rx_end, tx_end, tx_pos, irq, lock, txd, taken,
                 queued, sent>>

\* The status word is read, and written back.
EeproInterrupt == Eepro /\ Interrupted
EeproAck ==
  /\ Eepro /\ drv.pc = "ack" /\ lock = "none"
  /\ EeproUpdateIrq(status \ drv.read)
  /\ drv' = [drv EXCEPT !.pc = "scan", !.read = @ \cap {"RNR"}]
  /\ NoAccess
  /\ UNCHANGED <<ctl, count, rx_end, tx_end, rx_pos, tx_pos, lock, memVars, taken,
                 queued, sent>>

\* A frame is taken, and its RFD becomes the last of the list.
EeproTake ==
  /\ Eepro /\ drv.pc = "scan" /\ Complete
  /\ taken' = rxd[drv.rx].buf.id
  /\ rxd' = [rxd EXCEPT ![(drv.rx + RxLen - 1) % RxLen].el = FALSE,
                        ![drv.rx] = [FreshRx EXCEPT !.el = TRUE]]
  /\ drv' = [drv EXCEPT !.rx = (@ + 1) % RxLen]
  /\ NoAccess /\ NoDevice /\ UNCHANGED <<txd, queued, sent>>

\* After RNR, and once it has seen all frames, the driver starts the unit again.
EeproRestart ==
  /\ Eepro /\ Scanned /\ "RNR" \in drv.read /\ lock = "none"
  /\ ctl' = ctl \cup {"RU_READY"} /\ rx_pos' = drv.rx
  /\ drv' = [drv EXCEPT !.read = {}]
  /\ NoAccess
  /\ UNCHANGED <<status, count, rx_end, tx_end, tx_pos, irq, lock, memVars, taken,
                 queued, sent>>
=============================================================================
