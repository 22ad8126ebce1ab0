------------------------------ MODULE NicRing ------------------------------
(***************************************************************************)
(* What the network devices with descriptor rings have in common: the      *)
(* rings in guest memory, which the guest's driver, the receive handler on *)
(* a listener thread and the transmit scanner on the periodic task thread  *)
(* share, and the driver, which is not part of the repository.  The        *)
(* device's own accesses to the rings are under its lock, if it has one;   *)
(* the driver's need no lock, so each access of a device is a step.        *)
(*                                                                         *)
(* The driver follows the rules of such rings: it touches descriptors the  *)
(* device does not own, gives the first descriptor of a packet away last,  *)
(* and on an interrupt acknowledges it before it looks at the rings.       *)
(*                                                                         *)
(* A frame or packet has a number and consists of units, one for each      *)
(* descriptor it takes.                                                    *)
(***************************************************************************)
EXTENDS Naturals, Sequences

CONSTANTS
  Device,       \* the devices
  RxLen, TxLen, \* ring sizes
  MaxUnit,      \* descriptors a frame or packet may take
  PassCount,    \* packets the transmit scanner sends in a run
                \* (AM79C971_TXRING_PASS_COUNT and its like)
  MaxFrame, MaxPkt  \* bounds: frames and packets of each device

RingAssumption ==
  /\ RxLen \in Nat \ {0} /\ TxLen \in Nat \ {0}
  /\ MaxUnit \in Nat \ {0} /\ MaxUnit <= RxLen /\ MaxUnit <= TxLen
  /\ PassCount \in Nat \ {0}
  /\ MaxFrame \in [Device -> Nat] /\ MaxPkt \in [Device -> Nat]

RxSlot == 0..RxLen - 1
TxSlot == 0..TxLen - 1
Unit(max) == [id : 1..max, unit : 1..MaxUnit, of : 1..MaxUnit]
NoUnit == [id |-> 0, unit |-> 0, of |-> 0]

VARIABLES
  device,           \* which device the rings belong to
  status,           \* interrupt causes that are set
  ctl,              \* control bits that are set
  count,            \* a counter of the device that delays the interrupt line
  rx_pos, tx_pos,   \* where the device goes on
  rx_end, tx_end,   \* end or tail of the rings, if the device has such registers
  irq,              \* the interrupt line
  lock,             \* who holds the lock of the device
  rxd, txd,         \* descriptors with their buffers, in guest memory
  rx,               \* the receive handler
  tx,               \* the transmit scanner
  bound,            \* a NIO is bound
  drv,              \* the driver
  frames, taken,    \* the last frame that arrived, and the last one taken
  queued, sent      \* the last packet queued, and the last one sent or dropped

regVars == <<status, ctl, count, rx_end, tx_end>>
memVars == <<rxd, txd>>
ghostVars == <<frames, taken, queued, sent>>
ringVars == <<device, regVars, rx_pos, tx_pos, irq, lock, memVars, rx, tx, bound,
              drv, ghostVars>>

\* A receive descriptor: it belongs to the device, first and last of a frame,
\* cut off, the device stops after it; its buffer; a length.
RxDesc == [own : BOOLEAN, stp : BOOLEAN, enp : BOOLEAN, err : BOOLEAN,
           el : BOOLEAN, buf : Unit(MaxFrame[device]) \cup {NoUnit}, count : 0..MaxUnit]
\* A transmit descriptor: it belongs to the device, first and last of a packet,
\* the device suspends after it.
TxDesc == [own : BOOLEAN, stp : BOOLEAN, enp : BOOLEAN, s : BOOLEAN,
           buf : Unit(MaxPkt[device]) \cup {NoUnit}]
FreshRx == [own |-> TRUE, stp |-> FALSE, enp |-> FALSE, err |-> FALSE,
            el |-> FALSE, buf |-> NoUnit, count |-> 0]
FreshTx == [own |-> FALSE, stp |-> FALSE, enp |-> FALSE, s |-> FALSE, buf |-> NoUnit]

RxIdle == [pc |-> "idle", start |-> 0, cur |-> 0, unit |-> 0, of |-> 0,
           enp |-> FALSE, err |-> FALSE, copy |-> {}]
TxIdle == [pc |-> "idle", start |-> 0, cur |-> 0, pkt |-> <<>>, pass |-> 0,
           copy |-> {}]
DrvStopped == [pc |-> "stopped", read |-> {}, rx |-> 0, tx |-> 0, used |-> 0]

RingInit ==
  /\ status = {} /\ ctl = {} /\ count = 0
  /\ rx_pos = 0 /\ tx_pos = 0 /\ rx_end = 0 /\ tx_end = 0
  /\ irq = FALSE /\ lock = "none"
  /\ rxd = [i \in RxSlot |-> FreshRx] /\ txd = [i \in TxSlot |-> FreshTx]
  /\ rx = RxIdle /\ tx = TxIdle
  /\ bound = FALSE
  /\ drv = DrvStopped
  /\ frames = 0 /\ taken = 0 /\ queued = 0 /\ sent = 0

-----------------------------------------------------------------------------
(* Steps of a device.                                                      *)

NoRegs == UNCHANGED regVars
NoTx == UNCHANGED <<tx, tx_pos, txd, queued, sent>>
NoRx == UNCHANGED <<rx, rx_pos, rxd, frames, taken>>
NoDriver == UNCHANGED <<device, drv, bound>>
Only(thread) == NoDriver /\ IF thread = "rx" THEN NoTx /\ UNCHANGED taken
                                              ELSE NoRx /\ UNCHANGED queued

\* A frame of n units arrives.
Arrive(n) ==
  /\ bound /\ rx.pc = "idle" /\ frames < MaxFrame[device]
  /\ frames' = frames + 1

\* The handler begins with the current descriptor.
RxBegin(n) == [RxIdle EXCEPT !.pc = "put", !.start = rx_pos, !.cur = rx_pos, !.of = n]

\* A part of the frame goes into the buffer of the current descriptor.
PutUnit == [rxd EXCEPT ![rx.cur].buf =
              [id |-> frames, unit |-> rx.unit + 1, of |-> rx.of]]

\* Whether the current descriptor, with its buffer filled, is the last one of
\* the frame, or is so because the next one is not the device's.
RxLast == rx.unit = rx.of
RxCut(next) == ~RxLast /\ ~rxd[next].own

\* The handler goes on to the next descriptor, or to the first one, whose
\* flags it has kept.
RxMarked(next, pc) ==
  [rx EXCEPT !.pc = IF RxLast \/ RxCut(next) THEN pc ELSE "put",
             !.enp = IF rx.unit = 1 THEN RxLast \/ RxCut(next) ELSE @,
             !.err = IF rx.unit = 1 THEN RxCut(next) ELSE @,
             !.cur = IF RxLast \/ RxCut(next) THEN @ ELSE next]

\* A receive loop that writes the status of a descriptor, unless it is the
\* first, once it knows whether the next one is its own; len is what the status
\* says of the length, and marks tells whether it marks a frame that is cut off.
RingPut ==
  /\ rx.pc = "put"
  /\ rxd' = PutUnit
  /\ rx' = [rx EXCEPT !.pc = "mark", !.unit = @ + 1]
  /\ UNCHANGED <<rx_pos, irq, lock, frames>> /\ NoRegs /\ Only("rx")

RingMark(next, len, marks) ==
  /\ rx.pc = "mark"
  /\ rxd' = IF rx.unit = 1 THEN rxd
            ELSE [rxd EXCEPT ![rx.cur] =
                    [@ EXCEPT !.own = FALSE, !.stp = FALSE, !.count = len,
                              !.enp = RxLast \/ RxCut(next),
                              !.err = RxCut(next) /\ marks]]
  /\ rx_pos' = next
  /\ rx' = RxMarked(next, "final")
  /\ UNCHANGED <<irq, lock, frames>> /\ NoRegs /\ Only("rx")

RingFinal(len, marks) ==
  /\ rx.pc = "final"
  /\ rxd' = [rxd EXCEPT ![rx.start] =
               [@ EXCEPT !.own = FALSE, !.stp = TRUE, !.enp = rx.enp,
                         !.err = rx.err /\ marks, !.count = len]]
  /\ rx' = [rx EXCEPT !.pc = "raise"]
  /\ UNCHANGED <<rx_pos, irq, lock, frames>> /\ NoRegs /\ Only("rx")

\* A transmit loop: the packet's first descriptor is the device's; each
\* descriptor's data is copied and all but the first are given back; unlock
\* gives the lock up if the next one is not the device's.
TxBegin == [tx EXCEPT !.pc = "copy", !.start = tx_pos, !.cur = tx_pos, !.pkt = <<>>]

RingCopy(next, unlocked) ==
  /\ tx.pc = "copy"
  /\ LET d == txd[tx.cur]
     IN /\ txd' = [txd EXCEPT ![tx.cur].own = d.stp]
        /\ tx_pos' = next
        /\ IF d.enp \/ txd'[next].own
           THEN /\ tx' = [tx EXCEPT !.pc = IF d.enp THEN "send" ELSE "copy",
                                    !.cur = next, !.pkt = Append(@, d.buf)]
                /\ UNCHANGED lock
           ELSE tx' = TxIdle /\ lock' = unlocked
  /\ UNCHANGED <<irq, sent>> /\ NoRegs /\ Only("tx")

\* netio_send
RingSend(pc) ==
  /\ tx.pc = "send"
  /\ sent' = tx.pkt[1].id
  /\ tx' = [tx EXCEPT !.pc = pc, !.pkt = <<>>]
  /\ UNCHANGED <<tx_pos, txd, irq, lock>> /\ NoRegs /\ Only("tx")

\* The first descriptor is given back last.
RingClear ==
  /\ tx.pc = "clear"
  /\ txd' = [txd EXCEPT ![tx.start].own = FALSE]
  /\ tx' = [tx EXCEPT !.pc = "raise"]
  /\ UNCHANGED <<tx_pos, irq, lock, sent>> /\ NoRegs /\ Only("tx")

TxNext == [TxIdle EXCEPT !.pc = "single", !.pass = tx.pass + 1]

\* The scanner finds no packet, or the NIO has used up its bandwidth
\* (netio_can_transmit), or the run is over.
RingPassEnds(unlocked) ==
  /\ tx.pc = "single"
  /\ tx' = TxIdle
  /\ lock' = unlocked
  /\ UNCHANGED <<tx_pos, txd, irq, sent>> /\ NoRegs /\ Only("tx")

-----------------------------------------------------------------------------
(* The driver.                                                             *)

NoAccess == UNCHANGED <<device, bound, frames, rx, tx>>
NoDevice == NoRegs /\ UNCHANGED <<rx_pos, tx_pos, irq, lock>>

DrvPrepare ==
  /\ drv.pc = "stopped"
  /\ rxd' = [i \in RxSlot |-> FreshRx] /\ txd' = [i \in TxSlot |-> FreshTx]
  /\ drv' = [DrvStopped EXCEPT !.pc = "prepared"]
  /\ NoAccess /\ NoDevice /\ UNCHANGED <<taken, queued, sent>>

\* A packet of n units in the next n descriptors.
TxAt(i) == (drv.tx + i) % TxLen
Queue(n, s) ==
  /\ drv.pc = "idle" /\ queued < MaxPkt[device] /\ drv.used + n <= TxLen
  /\ queued' = queued + 1
  /\ txd' = [i \in TxSlot |->
       IF \E k \in 1..n : i = TxAt(k - 1)
       THEN LET k == CHOOSE k \in 1..n : i = TxAt(k - 1)
            IN [own |-> TRUE, stp |-> k = 1, enp |-> k = n, s |-> s,
                buf |-> [id |-> queued + 1, unit |-> k, of |-> n]]
       ELSE txd[i]]
  /\ drv' = [drv EXCEPT !.tx = TxAt(n), !.used = @ + n]
  /\ NoAccess /\ UNCHANGED <<rxd, taken, sent>>

\* The frame in the descriptors from the driver's position on.
RxAt(i) == (drv.rx + i) % RxLen
Complete == ~rxd[drv.rx].own /\ \E k \in 1..RxLen : rxd[RxAt(k - 1)].enp
FrameLen == CHOOSE n \in 1..RxLen :
              rxd[RxAt(n - 1)].enp /\ \A k \in 1..n - 1 : ~rxd[RxAt(k - 1)].enp
Take(fresh) ==
  /\ drv.pc = "scan" /\ Complete
  /\ taken' = rxd[drv.rx].buf.id
  /\ rxd' = [i \in RxSlot |-> IF \E k \in 1..FrameLen : i = RxAt(k - 1)
                              THEN fresh ELSE rxd[i]]
  /\ drv' = [drv EXCEPT !.rx = RxAt(FrameLen)]
  /\ NoAccess /\ UNCHANGED <<txd, queued, sent>>

\* Packets the device is done with, and the end of the scan.
Oldest == (drv.tx + TxLen - drv.used) % TxLen
DrvReclaim ==
  /\ drv.pc = "scan" /\ drv.used > 0 /\ ~txd[Oldest].own
  /\ drv' = [drv EXCEPT !.used = @ - 1]
  /\ NoAccess /\ NoDevice /\ UNCHANGED <<memVars, taken, queued, sent>>

Scanned == drv.pc = "scan" /\ ~Complete /\ (drv.used > 0 => txd[Oldest].own)
DrvDone ==
  /\ Scanned
  /\ drv' = [drv EXCEPT !.pc = "idle"]
  /\ NoAccess /\ NoDevice /\ UNCHANGED <<memVars, taken, queued, sent>>

\* An interrupt: its causes are read.
Interrupted ==
  /\ drv.pc = "idle" /\ irq /\ lock = "none"
  /\ drv' = [drv EXCEPT !.pc = "ack", !.read = status]
  /\ NoAccess /\ NoDevice /\ UNCHANGED <<memVars, taken, queued, sent>>

\* The step of the driver that ends in pc, in an access to a register.
Access(from, pc) ==
  /\ drv.pc = from /\ lock = "none"
  /\ drv' = [drv EXCEPT !.pc = pc, !.read = {}]
  /\ NoAccess /\ UNCHANGED <<lock, memVars, taken, queued, sent>>
=============================================================================
