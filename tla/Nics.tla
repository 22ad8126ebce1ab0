-------------------------------- MODULE Nics --------------------------------
(***************************************************************************)
(* The network devices with descriptor rings, one of them at a time, with  *)
(* its driver; and what each of them owes the driver.                      *)
(***************************************************************************)
EXTENDS RingNics

ASSUME NicsAssumption ==
  /\ Device \subseteq {"am79c971", "dec21140", "i8254x", "i8255x", "mueslix", "pos"}
  /\ RingAssumption /\ AmAssumption /\ PosAssumption

nicVars == <<ringVars, stops>>

TypeOK ==
  /\ device \in Device
  /\ status \in SUBSET (AmCause \cup DecCause \cup LvgCause \cup EeproCause \cup MuesCause)
  /\ ctl \in SUBSET (AmControl \cup DecControl \cup LvgControl \cup EeproControl
                      \cup MuesControl \cup {"rings"})
  /\ count \in 0..MaxFrame[device] + 2 + ClearReads
  /\ rx_pos \in RxSlot /\ tx_pos \in TxSlot /\ rx_end \in 0..RxLen /\ tx_end \in 0..TxLen
  /\ irq \in BOOLEAN /\ lock \in {"none", "rx", "tx", "cpu"}
  /\ rxd \in [RxSlot -> RxDesc] /\ txd \in [TxSlot -> TxDesc]
  /\ rx.start \in RxSlot /\ rx.cur \in RxSlot /\ rx.unit \in 0..MaxUnit
  /\ tx.start \in TxSlot /\ tx.cur \in TxSlot /\ tx.pass \in 0..PassCount
  /\ bound \in BOOLEAN
  /\ drv.rx \in RxSlot /\ drv.tx \in TxSlot /\ drv.used \in 0..TxLen
  /\ frames \in 0..MaxFrame[device] /\ taken \in 0..MaxFrame[device]
  /\ queued \in 0..MaxPkt[device] /\ sent \in 0..MaxPkt[device] /\ stops \in 0..MaxStop

Init == device \in Device /\ RingInit /\ stops = 0

\* dev_am79c971_set_nio and its like add the scanner and the listener; unbinding
\* waits for both (ptask_remove, Ptask; netio_rxl_remove, RxListener).
SetNio ==
  /\ ~bound /\ bound' = TRUE
  /\ UNCHANGED <<device, regVars, rx_pos, tx_pos, irq, lock, memVars, rx, tx, drv,
                 ghostVars>>
UnsetNio ==
  /\ bound /\ rx.pc = "idle" /\ tx.pc = "idle" /\ bound' = FALSE
  /\ UNCHANGED <<device, regVars, rx_pos, tx_pos, irq, lock, memVars, rx, tx, drv,
                 ghostVars>>

-----------------------------------------------------------------------------
Arrivals ==
  \E n \in 1..MaxUnit :
    \/ AmRxCheck(n) \/ MuesRxRing(n)
    \/ DecRxRing(n) \/ PosRxRing(n)
    \/ n = 1 /\ (LvgRxRing \/ EeproRxRing(n))
RxThread ==
  \/ AmRxLock \/ AmRxPut \/ AmRxMark \/ AmRxCount \/ AmRxFinal \/ AmRxRaise
  \/ DecReceive \/ DecRxRead \/ DecRxRaise
  \/ MuesReceive \/ MuesRxRaise
  \/ PosReceive \/ PosRxRaise
  \/ LvgRxPut \/ LvgRxLength \/ LvgRxStatus \/ LvgRxRaise
  \/ EeproRxPut \/ EeproRxCtrl \/ EeproRxSize \/ EeproRxRaise
TxBegins == AmTxSingle \/ DecTxSingle \/ MuesTxSingle \/ PosTxRing \/ LvgTxSingle
TxThread ==
  \/ AmTxUnlock \/ AmTxCopy \/ AmTxSend \/ AmTxClear \/ AmTxRaise
  \/ DecTransmit \/ DecTxRead \/ DecTxRaise \/ DecTxRingEnds
  \/ MuesTransmit \/ MuesTxRaise \/ MuesTxRingEnds
  \/ PosTransmit \/ PosTxRaise
  \/ LvgTxCopy \/ LvgTxSend \/ LvgTxRaise \/ LvgTxRingEnds
Queues == \E n \in 1..MaxUnit :
            AmQueue(n) \/ DecQueue(n) \/ MuesQueue(n) \/ PosQueue(n) \/ LvgQueue(n)
              \/ EeproCommand(n)
Starts ==
  \/ DrvPrepare
  \/ \E mode \in Mode : AmStart(mode)
  \/ DecStart \/ MuesStart \/ PosStart \/ LvgStart \/ EeproStart
\* The driver is interrupted, and acknowledges.
Interrupts ==
  AmInterrupt \/ DecInterrupt \/ MuesInterrupt \/ PosInterrupt \/ LvgReadIcr
    \/ EeproInterrupt
Acks == AmAck \/ DecAckRead \/ DecAckWrite \/ MuesAck \/ PosAck \/ EeproAck
Scans ==
  \/ AmTake \/ DecTake \/ MuesTake \/ PosTake \/ LvgTake \/ EeproTake
  \/ EeproComplete \/ EeproRestart \/ DrvReclaim
  \/ DrvDone /\ "RNR" \notin drv.read

NotStopped(A) == A /\ UNCHANGED stops

Next ==
  \/ /\ UNCHANGED stops
     /\ \/ SetNio \/ UnsetNio
        \/ Arrivals \/ RxThread \/ TxBegins \/ TxThread
        \/ Queues \/ Starts \/ Interrupts \/ Acks \/ Scans
  \/ AmStop
  \/ \E mode \in Mode : AmMode(mode)

Spec == Init /\ [][Next]_nicVars

(* The threads run; a lock is free between two runs of the scanner, so       *)
(* whoever waits for it gets it; the bandwidth of a NIO is given back in     *)
(* every period.                                                             *)
FairSpec ==
  /\ Spec
  /\ SF_nicVars(AmRxLock) /\ WF_nicVars(NotStopped(RxThread))
  /\ SF_nicVars(NotStopped(TxBegins)) /\ WF_nicVars(NotStopped(TxThread))
  /\ SF_nicVars(NotStopped(Interrupts \/ Acks)) /\ WF_nicVars(NotStopped(Scans))

-----------------------------------------------------------------------------
(* What the driver finds in the receive ring when it looks, at any moment,   *)
(* is one frame: newer than the one before it, its units in order and with   *)
(* the right lengths, or cut off and marked as such, if the device does mark *)
(* it (am79c971_receive_pkt, dev_dec21140_receive_pkt and their like).  The  *)
(* 8255x writes the size of a frame after its status, so in between there is *)
(* a frame without a size.                                                   *)
Units(n) == \A k \in 1..n :
              LET d == rxd[RxAt(k - 1)]
              IN /\ ~d.own /\ d.enp = (k = n) /\ (device # "pos" => d.stp = (k = 1))
                 /\ d.buf.id = rxd[drv.rx].buf.id /\ d.buf.unit = k
Lengths(n) == IF device \in {"mueslix", "pos", "i8254x"}
              THEN \A k \in 1..n : rxd[RxAt(k - 1)].count = 1
              ELSE rxd[RxAt(n - 1)].count = n
FrameReadable ==
  /\ drv.pc \in {"idle", "ack", "clear", "command", "scan"} /\ ~rxd[drv.rx].own
  /\ ~(device = "i8255x" /\ rx.pc = "size" /\ rx.cur = drv.rx)
  => /\ rxd[drv.rx].buf.id > taken
     /\ \E n \in 1..RxLen :
          LET last == rxd[RxAt(n - 1)]
          IN /\ Units(n)
             /\ IF last.err \/ (device = "pos" /\ n < last.buf.of)
                THEN n < last.buf.of
                ELSE n = last.buf.of /\ Lengths(n)

(* What is sent is the next packet the driver queued, whole                  *)
(* (am79c971_handle_txring_single and its like, dev_i8255x_process_cb): none *)
(* is lost, repeated, mixed or cut.                                          *)
PacketWhole ==
  tx.pc = "send" =>
    LET p == tx.pkt[1]
    IN /\ p.id = sent + 1 /\ Len(tx.pkt) = p.of
       /\ \A k \in DOMAIN tx.pkt :
            tx.pkt[k] = [id |-> p.id, unit |-> k, of |-> p.of]

(* No interrupt is lost: a driver that has nothing to do, with a frame in    *)
(* its ring, packets it may reclaim or a receive unit that has come to the   *)
(* end of its list, is interrupted, however the device clears its causes and *)
(* its line: at every third acknowledgement (am79c971_rdp_access), at a      *)
(* third update (dev_mueslix_update_irq_status), at the twentieth read       *)
(* (dev_pos_cs_access) or with each read of its causes (dev_i8254x_access).  *)
(* The 21140, whose causes are updated by three threads without a lock, is   *)
(* the exception.                                                            *)
Pending ==
  \/ ~rxd[drv.rx].own
  \/ drv.used > 0 /\ ~txd[Oldest].own
  \/ device = "i8255x" /\ "RU_READY" \notin ctl
Announced ==
  /\ device # "dec21140" /\ drv.pc = "idle"
  /\ rx.pc \in {"idle", "checked"} /\ tx.pc \in {"idle", "single"}
  /\ Pending
  => irq

(* Frames in the ring are taken, and queued packets sent and reclaimed, as   *)
(* long as the interface is bound and not stopped or switched off.           *)
Enabled == bound /\ ctl \cap {"DRX", "DTX"} = {} /\ drv.pc # "stopped"
Served ==
  (device # "dec21140" /\ (drv.used > 0 \/ ~rxd[drv.rx].own))
    ~> ((drv.used = 0 /\ rxd[drv.rx].own) \/ ~Enabled)

-----------------------------------------------------------------------------
(* The instance checked: rings of two and three descriptors, frames and      *)
(* packets of one or two units; devices with many steps have fewer of them.  *)
MCMaxFrame == [d \in Device |-> IF d = "mueslix" THEN 1
                                ELSE IF d = "i8255x" THEN 3 ELSE 2]
MCMaxPkt == [d \in Device |-> IF d \in {"am79c971", "dec21140"} THEN 1
                              ELSE IF d \in {"i8254x", "i8255x"} THEN 3 ELSE 2]
=============================================================================
