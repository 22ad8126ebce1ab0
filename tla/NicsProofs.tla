----------------------------- MODULE NicsProofs -----------------------------
(****************************************************************************)
(* Proofs about the network devices of Nics.                                *)
(*                                                                          *)
(* The transmit ring is looked at from the driver's oldest descriptor and   *)
(* the receive ring from the driver's position; Ix(b, k, n) is the slot k   *)
(* places after slot b.  TxInv says how far the device has taken the        *)
(* packets in progress and what it has put together of them, RxInv which    *)
(* receive slots are taken back, being filled, filled and free, and what    *)
(* the filled ones hold; NoticeInv, that the line is up when the driver     *)
(* rests and one of the rings has something for it.  They stand on Base,    *)
(* the types and the control facts that hold whatever the frames are.       *)
(****************************************************************************)
EXTENDS Nics, NaturalsInduction, WellFoundedInduction, TLAPS

\* A set of numbers has a least one.
LEMMA LeastNat ==
  ASSUME NEW S, S \subseteq Nat, S # {}
  PROVE  \E x \in S : \A y \in S : x <= y
<1> DEFINE R == {ss \in Nat \X Nat : ss[1] < ss[2]}
<1>1. IsWellFoundedOn(R, Nat)
  BY NatLessThanWellFounded DEF OpToRel
<1> HIDE DEF R
<1>2. \E x \in S : \A y \in S : ~ (<<y, x>> \in R)
  BY <1>1, WFMin
<1>3. PICK x \in S : \A y \in S : ~ (<<y, x>> \in R)
  BY <1>2
<1>4. ASSUME NEW y \in S PROVE x <= y
  <2>1. <<y, x>> \in Nat \X Nat /\ ~ (<<y, x>>[1] < <<y, x>>[2])
    BY <1>3 DEF R
  <2> QED
    BY <2>1
<1> QED
  BY <1>4


\* The slot k places after slot b in a ring of n slots.
Ix(b, k, n) == IF b + k < n THEN b + k ELSE b + k - n

\* A slot counted past the end of the ring is found from its start.
LEMMA ModIx ==
  ASSUME NEW n \in Nat, NEW b \in 0..n - 1, NEW k \in 0..n
  PROVE  (b + k) % n = Ix(b, k, n)
<1>1. n > 0 /\ b + k \in Nat /\ b + k < n + n
  OBVIOUS
<1> DEFINE x == b + k
<1>2. x \in Nat /\ x < n + n
  BY <1>1
<1> HIDE DEF x
<1>3. PICK q \in Nat, r \in 0..n - 1 : x = n * q + r /\ r = (x % n)
  <2>1. x \div n \in Nat /\ (x % n) \in 0..n - 1 /\ x = n * (x \div n) + (x % n)
    BY <1>1, <1>2
  <2> QED
    BY <2>1
<1>4. q < 2
  <2> SUFFICES ASSUME ~ q < 2 PROVE FALSE
    OBVIOUS
  <2>1. PICK e \in Nat : q = 2 + e
    BY <1>3
  <2>2. n * q = n + n + n * e /\ n * e \in Nat
    BY <2>1
  <2> QED
    BY <2>2, <1>2, <1>3
<1>5. CASE q = 0
  <2>1. n * q = 0
    BY <1>5
  <2> QED
    BY <2>1, <1>1, <1>3 DEF Ix, x
<1>6. CASE q = 1
  <2>1. n * q = n
    BY <1>6
  <2> QED
    BY <2>1, <1>1, <1>3 DEF Ix, x
<1> QED
  BY <1>4, <1>5, <1>6

\* Every place is a slot.
LEMMA IxSlot ==
  ASSUME NEW n \in Nat, NEW b \in 0..n - 1, NEW k \in 0..n
  PROVE  Ix(b, k, n) \in 0..n - 1
BY DEF Ix

\* Place 0 is the slot counted from, and so is the one after the whole ring.
LEMMA IxZero ==
  ASSUME NEW n \in Nat, NEW b \in 0..n - 1
  PROVE  Ix(b, 0, n) = b /\ Ix(b, n, n) = b
BY DEF Ix

\* Different places are different slots.
LEMMA IxInjective ==
  ASSUME NEW n \in Nat, NEW b \in 0..n - 1, NEW j \in 0..n - 1, NEW k \in 0..n - 1
  PROVE  (Ix(b, j, n) = Ix(b, k, n)) = (j = k)
BY DEF Ix

\* The next place, as the devices step to it.
LEMMA IxNext ==
  ASSUME NEW n \in Nat, NEW b \in 0..n - 1, NEW k \in 0..n - 1
  PROVE  /\ Ix(b, k + 1, n) = IF Ix(b, k, n) + 1 = n THEN 0 ELSE Ix(b, k, n) + 1
         /\ Ix(b, k + 1, n) = IF Ix(b, k, n) = n - 1 THEN 0 ELSE Ix(b, k, n) + 1
         /\ Ix(b, k + 1, n) = Ix(Ix(b, k, n), 1, n)
BY DEF Ix

\* Places counted from another slot of the ring.
LEMMA IxShift ==
  ASSUME NEW n \in Nat, NEW b \in 0..n - 1, NEW s \in 0..n, NEW k \in 0..n
  PROVE  Ix(Ix(b, s, n), k, n) = IF s + k <= n THEN Ix(b, s + k, n) ELSE Ix(b, s + k - n, n)
BY DEF Ix

Cause == AmCause \cup DecCause \cup LvgCause \cup EeproCause \cup MuesCause \cup {"EL"}
Started == drv.pc \in {"idle", "ack", "clear", "command", "scan"}
Ring == {"am79c971", "dec21140", "mueslix", "pos"}
UnitRec == [id : Nat, unit : Nat, of : Nat]
RxRec == [own : BOOLEAN, stp : BOOLEAN, enp : BOOLEAN, err : BOOLEAN, el : BOOLEAN,
          buf : UnitRec, count : Nat]
TxRec == [own : BOOLEAN, stp : BOOLEAN, enp : BOOLEAN, s : BOOLEAN, buf : UnitRec]
RxPc == {"idle", "checked", "put", "mark", "count", "final", "raise", "update",
         "length", "status", "ctrl", "size"}
TxPc == {"idle", "single", "copy", "send", "clear", "raise", "update"}
DrvPc == {"stopped", "prepared", "idle", "ack", "clear", "command", "scan"}

RxState == [pc : RxPc, start : RxSlot, cur : RxSlot, unit : Nat, of : Nat,
            enp : BOOLEAN, err : BOOLEAN, copy : SUBSET Cause]
TxState == [pc : TxPc, start : TxSlot, cur : TxSlot, pkt : Seq(UnitRec), pass : Nat,
            copy : SUBSET Cause]
DrvState == [pc : DrvPc, read : SUBSET Cause, rx : RxSlot, tx : TxSlot, used : 0..TxLen]

RxTypes ==
  /\ rx_pos \in RxSlot
  /\ rxd \in [RxSlot -> RxRec]
  /\ rx \in RxState
  /\ frames \in Nat /\ taken \in Nat
TxTypes ==
  /\ tx_pos \in TxSlot
  /\ txd \in [TxSlot -> TxRec]
  /\ tx \in TxState
  /\ queued \in Nat
DrvTypes ==
  /\ device \in Device
  /\ drv \in DrvState
  /\ status \in SUBSET Cause
MuesEnds ==
  device = "mueslix" /\ Started =>
    /\ rx_end = IF "mode1" \in ctl THEN RxLen - 1 ELSE RxLen
    /\ tx_end = IF "mode1" \in ctl THEN TxLen - 1 ELSE TxLen

-----------------------------------------------------------------------------
(* What the actions of a group leave alone.                                *)

\* Rings have a slot and hold the longest frame.
LEMMA Sizes ==
  /\ RxLen \in Nat \ {0} /\ TxLen \in Nat \ {0} /\ MaxUnit \in Nat \ {0}
  /\ MaxUnit <= RxLen /\ MaxUnit <= TxLen
  /\ 0 \in RxSlot /\ 0 \in TxSlot
BY NicsAssumption DEF RingAssumption, RxSlot, TxSlot

RxOnly == /\ UNCHANGED <<device, drv, tx, tx_pos, txd, queued, sent, rx_end, tx_end, bound, taken>>
          /\ ctl' \in {ctl, ctl \ {"RU_READY"}} /\ (device # "i8255x" => ctl' = ctl)
TxOnly == UNCHANGED <<device, drv, rx, rx_pos, rxd, frames, taken, queued, ctl, rx_end, tx_end,
                      bound>>

\* A frame that comes touches the receive side only.
LEMMA ArrivalsAlone == ASSUME Arrivals PROVE RxOnly
<1> USE DEF RxOnly, Only, NoRegs, NoDriver, NoTx, regVars
<1>1. PICK n \in 1..MaxUnit :
        \/ AmRxCheck(n) \/ MuesRxRing(n) \/ DecRxRing(n) \/ PosRxRing(n)
        \/ n = 1 /\ (LvgRxRing \/ EeproRxRing(n))
  BY DEF Arrivals
<1>2. CASE AmRxCheck(n)
  BY <1>2 DEF AmRxCheck, Am
<1>3. CASE MuesRxRing(n)
  BY <1>3 DEF MuesRxRing, Mues
<1>4. CASE DecRxRing(n)
  BY <1>4 DEF DecRxRing, Dec
<1>5. CASE PosRxRing(n)
  BY <1>5 DEF PosRxRing, Pos
<1>6. CASE LvgRxRing
  BY <1>6 DEF LvgRxRing, Lvg
<1>7. CASE EeproRxRing(n)
  BY <1>7 DEF EeproRxRing, Eepro
<1> QED
  BY <1>1, <1>2, <1>3, <1>4, <1>5, <1>6, <1>7

\* So does the handler that stores it.
LEMMA RxThreadAlone == ASSUME RxThread PROVE RxOnly
<1> USE DEF RxOnly, Only, NoRegs, NoDriver, NoTx, regVars
<1>1. CASE AmRxLock \/ AmRxPut \/ AmRxMark \/ AmRxCount \/ AmRxFinal \/ AmRxRaise
  BY <1>1 DEF AmRxLock, AmRxPut, AmRxMark, AmRxCount, AmRxFinal, AmRxRaise, RingFinal,
     AmUpdateIrq, Am
<1>2. CASE DecReceive \/ DecRxRead \/ DecRxRaise
  BY <1>2 DEF DecReceive, DecRxRead, DecRxRaise, RingPut, RingMark, RingFinal, DecUpdateIrq,
     Dec
<1>3. CASE MuesReceive \/ MuesRxRaise
  BY <1>3 DEF MuesReceive, MuesRxRaise, RingPut, RingMark, RingFinal, MuesUpdateIrq, Mues
<1>4. CASE PosReceive \/ PosRxRaise
  BY <1>4 DEF PosReceive, PosRxRaise, RingPut, RingMark, RingFinal, Pos
<1>5. CASE LvgRxPut \/ LvgRxLength \/ LvgRxStatus \/ LvgRxRaise
  BY <1>5 DEF LvgRxPut, LvgRxLength, LvgRxStatus, LvgRxRaise, LvgUpdateIrq, Lvg
<1>6. CASE EeproRxPut \/ EeproRxCtrl \/ EeproRxSize \/ EeproRxRaise
  BY <1>6 DEF EeproRxPut, EeproRxCtrl, EeproRxSize, EeproRxRaise, EeproUpdateIrq, Eepro
<1> QED
  BY <1>1, <1>2, <1>3, <1>4, <1>5, <1>6 DEF RxThread

\* The transmit scanner touches the transmit side only.
LEMMA TxAlone == ASSUME TxBegins \/ TxThread PROVE TxOnly
<1> USE DEF TxOnly, Only, NoRegs, NoDriver, NoRx, regVars
<1>1. CASE AmTxSingle \/ AmTxUnlock \/ AmTxCopy \/ AmTxSend \/ AmTxClear \/ AmTxRaise
  BY <1>1 DEF AmTxSingle, AmTxUnlock, AmTxCopy, AmTxSend, AmTxClear, AmTxRaise, RingPassEnds,
     RingCopy, RingSend, RingClear, AmUpdateIrq, Am
<1>2. CASE DecTxSingle \/ DecTransmit \/ DecTxRead \/ DecTxRaise \/ DecTxRingEnds
  BY <1>2 DEF DecTxSingle, DecTransmit, DecTxRead, DecTxRaise, DecTxRingEnds, RingPassEnds,
     RingCopy, RingSend, RingClear, DecUpdateIrq, Dec
<1>3. CASE MuesTxSingle \/ MuesTransmit \/ MuesTxRaise \/ MuesTxRingEnds
  BY <1>3 DEF MuesTxSingle, MuesTransmit, MuesTxRaise, MuesTxRingEnds, RingPassEnds, RingCopy,
     RingSend, RingClear, MuesUpdateIrq, Mues
<1>4. CASE PosTxRing \/ PosTransmit \/ PosTxRaise
  BY <1>4 DEF PosTxRing, PosTransmit, PosTxRaise, RingCopy, RingSend, RingClear, Pos
<1>5. CASE LvgTxSingle \/ LvgTxCopy \/ LvgTxSend \/ LvgTxRaise \/ LvgTxRingEnds
  BY <1>5 DEF LvgTxSingle, LvgTxCopy, LvgTxSend, LvgTxRaise, LvgTxRingEnds, RingPassEnds,
     RingSend, LvgUpdateIrq, Lvg
<1> QED
  BY <1>1, <1>2, <1>3, <1>4, <1>5 DEF TxBegins, TxThread

RunBits == {"RXON", "TXON", "STRT", "START_RX", "START_TX", "RCTL_EN", "TCTL_EN", "RU_READY",
            "CU_SUSPEND", "on", "rings"}
CtlInv == ~Started => /\ ctl \cap RunBits = {} /\ tx.pc = "idle"
                      /\ device # "am79c971" => rx.pc = "idle"
LockInv ==
  /\ device = "am79c971" => /\ rx.pc \notin {"idle", "checked"} => lock = "rx"
                            /\ tx.pc # "idle" => lock = "tx"
  /\ device # "am79c971" => rx.pc # "checked"
  /\ device = "i8255x" => /\ rx.pc # "idle" => lock = "rx"
                          /\ (drv.pc = "command") = (lock = "cpu")
                          /\ (drv.pc = "command") = (tx.pc = "send")
                          /\ tx.pc \in {"idle", "send"}
  /\ drv.pc = "command" => device = "i8255x"
Base == RxTypes /\ TxTypes /\ DrvTypes /\ MuesEnds /\ CtlInv /\ LockInv

-----------------------------------------------------------------------------
\* The slot after one, in the two ways the devices write it.
LEMMA SlotNext ==
  ASSUME NEW n \in Nat \ {0}, NEW i \in 0..n - 1
  PROVE  /\ (IF i + 1 = n THEN 0 ELSE i + 1) \in 0..n - 1
         /\ (IF i = n - 1 THEN 0 ELSE i + 1) \in 0..n - 1
OBVIOUS

\* The devices step to slots of their rings.
LEMMA RxNexts ==
  ASSUME Base
  PROVE  /\ AmRxNext \in RxSlot /\ DecRxNext \in RxSlot /\ PosRxNext \in RxSlot
         /\ AmTxNext \in TxSlot /\ DecTxNext \in TxSlot /\ PosTxNext \in TxSlot
         /\ device = "mueslix" /\ Started => /\ MuesNext(rx.cur, rx_end) \in RxSlot
                                             /\ MuesNext(tx_pos, tx_end) \in TxSlot
<1>1. /\ RxLen \in Nat \ {0} /\ TxLen \in Nat \ {0}
      /\ rx_pos \in 0..RxLen - 1 /\ rx.cur \in 0..RxLen - 1 /\ tx_pos \in 0..TxLen - 1
  BY Sizes DEF Base, RxTypes, TxTypes, RxSlot, TxSlot, RxState
<1>2. \A i \in 0..RxLen - 1 : /\ (IF i + 1 = RxLen THEN 0 ELSE i + 1) \in 0..RxLen - 1
                              /\ (IF i = RxLen - 1 THEN 0 ELSE i + 1) \in 0..RxLen - 1
  BY <1>1, SlotNext
<1>3. \A i \in 0..TxLen - 1 : /\ (IF i + 1 = TxLen THEN 0 ELSE i + 1) \in 0..TxLen - 1
                              /\ (IF i = TxLen - 1 THEN 0 ELSE i + 1) \in 0..TxLen - 1
  BY <1>1, SlotNext
<1>4. device = "mueslix" /\ Started => /\ MuesNext(rx.cur, rx_end) \in RxSlot
                                       /\ MuesNext(tx_pos, tx_end) \in TxSlot
  BY <1>1, <1>2, <1>3 DEF Base, MuesEnds, MuesNext, RxSlot, TxSlot
<1> QED
  BY <1>1, <1>2, <1>3, <1>4
  DEF AmRxNext, DecRxNext, PosRxNext, AmTxNext, DecTxNext, PosTxNext, RxSlot, TxSlot

\* What the handler's record may become.
LEMMA RxStates ==
  ASSUME rx \in RxState, rx_pos \in RxSlot
  PROVE  /\ RxIdle \in RxState
         /\ \A n \in Nat : RxBegin(n) \in RxState
         /\ \A n \in Nat : [RxIdle EXCEPT !.pc = "checked", !.of = n] \in RxState
         /\ \A n \in Nat, c \in SUBSET {"EL"} : [RxBegin(n) EXCEPT !.copy = c] \in RxState
         /\ \A pc \in RxPc : [rx EXCEPT !.pc = pc] \in RxState
         /\ \A pc \in RxPc : [rx EXCEPT !.pc = pc, !.unit = @ + 1] \in RxState
<1>1. "idle" \in RxPc /\ "put" \in RxPc /\ "checked" \in RxPc
  BY DEF RxPc
<1>2. RxIdle \in RxState
  BY <1>1, Sizes DEF RxState, RxIdle
<1>3. ASSUME NEW n \in Nat PROVE RxBegin(n) \in RxState
  BY <1>1, Sizes DEF RxState, RxIdle, RxBegin
<1>4. \A n \in Nat : [RxIdle EXCEPT !.pc = "checked", !.of = n] \in RxState
  BY <1>1, <1>2 DEF RxState
<1>5. ASSUME NEW n \in Nat, NEW c \in SUBSET {"EL"} PROVE [RxBegin(n) EXCEPT !.copy = c] \in RxState
  <2>1. c \in SUBSET Cause
    BY DEF Cause
  <2> QED
    BY <2>1, <1>3 DEF RxState
<1>6. \A pc \in RxPc : [rx EXCEPT !.pc = pc] \in RxState
  BY DEF RxState
<1>7. ASSUME NEW pc \in RxPc PROVE [rx EXCEPT !.pc = pc, !.unit = @ + 1] \in RxState
  <2>1. rx.unit + 1 \in Nat
    BY DEF RxState
  <2> QED
    BY <2>1 DEF RxState
<1> QED
  BY <1>2, <1>3, <1>4, <1>5, <1>6, <1>7

\* The handler's state once a descriptor is closed is well formed.
LEMMA MarkedState ==
  ASSUME rx \in RxState, rxd \in [RxSlot -> RxRec], NEW next \in RxSlot, NEW pc \in RxPc
  PROVE  RxMarked(next, pc) \in RxState
<1>1. "put" \in RxPc
  BY DEF RxPc
<1>2. RxCut(next) \in BOOLEAN /\ RxLast \in BOOLEAN
  BY DEF RxCut, RxLast
<1> DEFINE q == IF RxLast \/ RxCut(next) THEN pc ELSE "put"
           e == IF rx.unit = 1 THEN RxLast \/ RxCut(next) ELSE rx.enp
           r == IF rx.unit = 1 THEN RxCut(next) ELSE rx.err
           c == IF RxLast \/ RxCut(next) THEN rx.cur ELSE next
<1>3. q \in RxPc /\ e \in BOOLEAN /\ r \in BOOLEAN /\ c \in RxSlot
  BY <1>1, <1>2 DEF RxState
<1>4. RxMarked(next, pc) = [rx EXCEPT !.pc = q, !.enp = e, !.err = r, !.cur = c]
  BY DEF RxMarked, RxState
<1> HIDE DEF q, e, r, c
<1> QED
  BY <1>3, <1>4 DEF RxState

\* Writes to a descriptor keep the type of the ring.
LEMMA RxWrite ==
  ASSUME rxd \in [RxSlot -> RxRec], NEW i \in RxSlot, NEW e \in RxRec
  PROVE  [rxd EXCEPT ![i] = e] \in [RxSlot -> RxRec]
OBVIOUS

\* Storing a unit keeps the receive ring well formed.
LEMMA PutTypes ==
  ASSUME RxTypes
  PROVE  PutUnit \in [RxSlot -> RxRec]
<1>1. [id |-> frames, unit |-> rx.unit + 1, of |-> rx.of] \in UnitRec
  <2>1. rx.unit + 1 \in Nat /\ rx.of \in Nat /\ frames \in Nat
    BY DEF RxTypes, RxState
  <2> QED
    BY <2>1 DEF UnitRec
<1>2. rx.cur \in RxSlot
  BY DEF RxTypes, RxState
<1> QED
  BY <1>1, <1>2 DEF PutUnit, RxRec, RxTypes

\* The shared loops.
LEMMA RingPutTypes ==
  ASSUME RxTypes, RingPut
  PROVE  RxTypes'
<1>1. "mark" \in RxPc
  BY DEF RxPc
<1>3. rx' \in RxState
  BY <1>1, RxStates DEF RingPut, RxTypes
<1> QED
  BY <1>3, PutTypes DEF RingPut, Only, RxTypes

\* So does closing a descriptor (am79c971_receive_pkt and its like).
LEMMA RingMarkTypes ==
  ASSUME RxTypes, NEW next \in RxSlot, NEW len \in Nat, NEW marks \in BOOLEAN,
         RingMark(next, len, marks)
  PROVE  RxTypes'
<1>1. rxd' \in [RxSlot -> RxRec]
  <2>1. rx.cur \in RxSlot /\ RxCut(next) \in BOOLEAN /\ RxLast \in BOOLEAN
    BY DEF RxTypes, RxState, RxCut, RxLast
  <2> DEFINE e == [rxd[rx.cur] EXCEPT !.own = FALSE, !.stp = FALSE, !.count = len,
                              !.enp = RxLast \/ RxCut(next),
                              !.err = RxCut(next) /\ marks]
  <2>2. rxd[rx.cur] \in RxRec
    BY <2>1 DEF RxTypes
  <2>3. e \in RxRec
    BY <2>1, <2>2 DEF RxRec
  <2>4. rxd' = rxd \/ rxd' = [rxd EXCEPT ![rx.cur] = e]
    BY DEF RingMark
  <2> HIDE DEF e
  <2> QED
    BY <2>1, <2>3, <2>4, RxWrite DEF RxTypes
<1>2. "final" \in RxPc
  BY DEF RxPc
<1>3. rx' \in RxState
  BY <1>2, MarkedState DEF RxTypes, RingMark
<1> QED
  BY <1>1, <1>3 DEF RxTypes, RingMark, Only

\* And completing the first one of the frame.
LEMMA RingFinalTypes ==
  ASSUME RxTypes, NEW len \in Nat, NEW marks \in BOOLEAN, RingFinal(len, marks)
  PROVE  RxTypes'
<1>1. rxd' \in [RxSlot -> RxRec]
  <2>1. rx.start \in RxSlot /\ rx.enp \in BOOLEAN /\ rx.err \in BOOLEAN
    BY DEF RxTypes, RxState
  <2> DEFINE e == [rxd[rx.start] EXCEPT !.own = FALSE, !.stp = TRUE, !.enp = rx.enp,
                                        !.err = rx.err /\ marks, !.count = len]
  <2>2. rxd[rx.start] \in RxRec
    BY <2>1 DEF RxTypes
  <2>3. e \in RxRec
    BY <2>1, <2>2 DEF RxRec
  <2>4. rxd' = [rxd EXCEPT ![rx.start] = e]
    BY DEF RingFinal
  <2> HIDE DEF e
  <2> QED
    BY <2>1, <2>3, <2>4, RxWrite DEF RxTypes
<1>2. "raise" \in RxPc
  BY DEF RxPc
<1>3. rx' \in RxState
  BY <1>2, RxStates DEF RxTypes, RingFinal
<1> QED
  BY <1>1, <1>3 DEF RxTypes, RingFinal, Only

-----------------------------------------------------------------------------
\* A frame that comes keeps the types and control facts.
LEMMA ArrivalsBase ==
  ASSUME Base, Arrivals
  PROVE  Base'
<1> USE DEF Base
<1>a. RxOnly
  BY ArrivalsAlone
<1>1. PICK n \in 1..MaxUnit :
        \/ AmRxCheck(n) \/ MuesRxRing(n) \/ DecRxRing(n) \/ PosRxRing(n)
        \/ n = 1 /\ (LvgRxRing \/ EeproRxRing(n))
  BY DEF Arrivals
<1>n. n \in Nat /\ 1 \in Nat
  BY Sizes
<1>b. /\ frames' = frames + 1 /\ rx_pos' = rx_pos /\ rxd' = rxd
      /\ (rx' = RxIdle \/ rx' = RxBegin(n) \/ rx' = RxBegin(1) \/ rx' = rx
          \/ rx' = [RxIdle EXCEPT !.pc = "checked", !.of = n]
          \/ \E c \in SUBSET {"EL"} : rx' = [RxBegin(1) EXCEPT !.copy = c])
  BY <1>1 DEF AmRxCheck, MuesRxRing, DecRxRing, PosRxRing, LvgRxRing, EeproRxRing, Arrive
<1>c. rx' \in RxState
  <2>1. rx \in RxState /\ rx_pos \in RxSlot
    BY DEF RxTypes
  <2>2. /\ RxIdle \in RxState /\ RxBegin(n) \in RxState /\ RxBegin(1) \in RxState
        /\ [RxIdle EXCEPT !.pc = "checked", !.of = n] \in RxState
        /\ \A c \in SUBSET {"EL"} : [RxBegin(1) EXCEPT !.copy = c] \in RxState
    BY <1>n, <2>1, RxStates
  <2> QED
    BY <1>b, <2>1, <2>2
<1>2. RxTypes'
  BY <1>a, <1>b, <1>c DEF RxTypes, RxOnly
<1>3. status' \in SUBSET Cause
  BY <1>1 DEF DrvTypes, AmRxCheck, MuesRxRing, DecRxRing, PosRxRing, LvgRxRing, EeproRxRing,
     NoRegs, regVars,
        LvgUpdateIrq, Cause, LvgCause
<1>4. TxTypes' /\ DrvTypes' /\ MuesEnds'
  BY <1>a, <1>3 DEF RxOnly, TxTypes, DrvTypes, MuesEnds, Started
<1>5. CtlInv' /\ LockInv'
  <2> USE DEF LockInv, CtlInv, Started, RunBits, RxOnly, RxIdle, RxBegin
  <2>1. CASE AmRxCheck(n)
    BY <2>1, <1>a DEF AmRxCheck, Am, Arrive
  <2>2. CASE MuesRxRing(n)
    BY <2>2, <1>a DEF MuesRxRing, Mues, Arrive
  <2>3. CASE DecRxRing(n)
    BY <2>3, <1>a DEF DecRxRing, Dec
  <2>4. CASE PosRxRing(n)
    BY <2>4, <1>a DEF PosRxRing, Pos
  <2>5. CASE LvgRxRing
    BY <2>5, <1>a DEF LvgRxRing, Lvg
  <2>6. CASE EeproRxRing(n)
    BY <2>6, <1>a DEF EeproRxRing, Eepro, Arrive
  <2> QED
    BY <1>1, <2>1, <2>2, <2>3, <2>4, <2>5, <2>6
<1> QED
  BY <1>2, <1>4, <1>5

\* Storing it keeps them.
LEMMA RxThreadBase ==
  ASSUME Base, RxThread
  PROVE  Base'
<1> USE DEF Base
<1>a. RxOnly
  BY RxThreadAlone
<1>s. device = "mueslix" /\ rx.pc # "idle" => MuesNext(rx.cur, rx_end) \in RxSlot
  BY RxNexts DEF CtlInv
<1>q. AmRxNext \in RxSlot /\ DecRxNext \in RxSlot /\ PosRxNext \in RxSlot
  BY RxNexts
<1>o. 0 \in Nat /\ 1 \in Nat /\ rx.of \in Nat /\ rx.cur \in RxSlot /\ rx.start \in RxSlot
      /\ rxd[rx.start].count \in Nat /\ rx.copy \in SUBSET Cause
  BY DEF RxTypes, RxState, RxRec
<1>k. /\ rx_pos \in RxSlot /\ rxd \in [RxSlot -> RxRec] /\ rx \in RxState
      /\ frames \in Nat /\ taken \in Nat /\ status \in SUBSET Cause
  BY DEF RxTypes, DrvTypes
<1>r. \A pc \in RxPc : [rx EXCEPT !.pc = pc] \in RxState
  BY <1>k, RxStates
<1>u. \A pc \in RxPc : [rx EXCEPT !.pc = pc, !.unit = @ + 1] \in RxState
  BY <1>k, RxStates
<1>w. RxIdle \in RxState /\ RxBegin(rx.of) \in RxState
  BY <1>k, <1>o, RxStates
<1>p. \A next \in RxSlot, pc \in RxPc : RxMarked(next, pc) \in RxState
  BY <1>k, MarkedState
<1>c. {"idle", "put", "mark", "count", "final", "raise", "update", "length", "status",
        "ctrl", "size"} \subseteq RxPc
  BY DEF RxPc
<1>1. RxTypes' /\ status' \in SUBSET Cause
  <2>1. CASE AmRxLock \/ AmRxRaise
    BY <2>1, <1>a, <1>k, <1>w
    DEF AmRxLock, AmRxRaise, RxTypes, RxOnly, NoRegs, regVars, AmUpdateIrq, Cause, AmCause
  <2>2. CASE AmRxPut
    BY <2>2, <1>a, <1>k, <1>u, <1>c, <1>q, PutTypes DEF AmRxPut, RxTypes, RxOnly, NoRegs,
       regVars
  <2>3. CASE AmRxMark
    <3>1. rxd' \in [RxSlot -> RxRec]
      BY <2>3, <1>k, <1>o DEF AmRxMark, RxRec, RxCut, RxLast
    <3>2. rx' \in RxState
      BY <2>3, <1>k, <1>p, <1>c DEF AmRxMark
    <3> QED
      BY <2>3, <1>a, <1>k, <3>1, <3>2 DEF AmRxMark, RxTypes, RxOnly, NoRegs, regVars
  <2>4. CASE AmRxCount
    <3>1. rxd' \in [RxSlot -> RxRec]
      BY <2>4, <1>k, <1>o DEF AmRxCount, RxRec
    <3> QED
      BY <2>4, <1>a, <1>k, <1>r, <1>c, <3>1 DEF AmRxCount, RxTypes, RxOnly, NoRegs, regVars
  <2>5. CASE AmRxFinal
    BY <2>5, <1>k, <1>o, RingFinalTypes DEF AmRxFinal, RingFinal, NoRegs, regVars
  <2>6. CASE DecReceive
    <3>1. \A b \in BOOLEAN : (IF b THEN rx.of ELSE 0) \in Nat /\ (IF b THEN 1 ELSE 0) \in Nat
      BY <1>o
    <3>2. RxLast \in BOOLEAN /\ (rx.of = 1) \in BOOLEAN
      BY DEF RxLast
    <3>3. CASE RingPut
      BY <3>3, <1>k, RingPutTypes DEF RingPut, NoRegs, regVars
    <3>4. CASE RingMark(DecRxNext, IF RxLast THEN rx.of ELSE 0, TRUE)
      BY <3>1, <3>2, <3>4, <1>k, <1>q, RingMarkTypes DEF RingMark, NoRegs, regVars
    <3>5. CASE RingFinal(IF rx.of = 1 THEN 1 ELSE 0, TRUE)
      BY <3>1, <3>2, <3>5, <1>k, RingFinalTypes DEF RingFinal, NoRegs, regVars
    <3> QED
      BY <2>6, <3>3, <3>4, <3>5 DEF DecReceive
  <2>7. CASE DecRxRead \/ DecRxRaise
    <3>1. [rx EXCEPT !.pc = "update", !.copy = status] \in RxState
      BY <1>k, <1>c DEF RxState
    <3> QED
      BY <2>7, <1>a, <1>k, <1>w, <3>1
      DEF DecRxRead, DecRxRaise, RxTypes, RxOnly, NoRegs, regVars, DecUpdateIrq, Cause, DecCause, RxState
  <2>8. CASE MuesReceive
    <3>3. CASE RingPut
      BY <3>3, <1>k, RingPutTypes DEF RingPut, NoRegs, regVars
    <3>4. CASE device = "mueslix" /\ RingMark(MuesNext(rx.cur, rx_end), 1, TRUE)
      BY <3>4, <1>k, <1>s, <1>o, RingMarkTypes DEF RingMark, NoRegs, regVars
    <3>5. CASE RingFinal(1, TRUE)
      BY <3>5, <1>k, <1>o, RingFinalTypes DEF RingFinal, NoRegs, regVars
    <3> QED
      BY <2>8, <3>3, <3>4, <3>5 DEF MuesReceive, Mues
  <2>9. CASE MuesRxRaise
    BY <2>9, <1>a, <1>k, <1>w
    DEF MuesRxRaise, RxTypes, RxOnly, MuesUpdateIrq, Cause, MuesCause
  <2>10. CASE PosReceive
    <3>3. CASE RingPut
      BY <3>3, <1>k, RingPutTypes DEF RingPut, NoRegs, regVars
    <3>4. CASE RingMark(PosRxNext, 1, FALSE)
      BY <3>4, <1>k, <1>q, <1>o, RingMarkTypes DEF RingMark, NoRegs, regVars
    <3>5. CASE RingFinal(1, FALSE)
      BY <3>5, <1>k, <1>o, RingFinalTypes DEF RingFinal, NoRegs, regVars
    <3> QED
      BY <2>10, <3>3, <3>4, <3>5 DEF PosReceive
  <2>11. CASE PosRxRaise
    BY <2>11, <1>a, <1>k, <1>w DEF PosRxRaise, RxTypes, RxOnly, NoRegs, regVars
  <2>12. CASE LvgRxPut
    BY <2>12, <1>a, <1>k, <1>u, <1>c, PutTypes DEF LvgRxPut, RxTypes, RxOnly, NoRegs, regVars
  <2>13. CASE LvgRxLength
    <3>1. rxd' \in [RxSlot -> RxRec]
      BY <2>13, <1>k, <1>o DEF LvgRxLength, RxRec
    <3> QED
      BY <2>13, <1>a, <1>k, <1>r, <1>c, <3>1 DEF LvgRxLength, RxTypes, RxOnly, NoRegs, regVars
  <2>14. CASE LvgRxStatus
    <3>1. rxd' \in [RxSlot -> RxRec]
      BY <2>14, <1>k, <1>o DEF LvgRxStatus, RxRec
    <3>2. rx_pos' \in RxSlot
      BY <2>14, <1>q DEF LvgRxStatus, AmRxNext
    <3> QED
      BY <2>14, <1>a, <1>k, <1>r, <1>c, <3>1, <3>2 DEF LvgRxStatus, RxTypes, RxOnly
  <2>15. CASE LvgRxRaise
    BY <2>15, <1>a, <1>k, <1>w DEF LvgRxRaise, RxTypes, RxOnly, LvgUpdateIrq, Cause, LvgCause
  <2>16. CASE EeproRxPut
    BY <2>16, <1>a, <1>k, <1>u, <1>c, PutTypes DEF EeproRxPut, RxTypes, RxOnly, NoRegs, regVars
  <2>17. CASE EeproRxCtrl
    <3>1. rxd' \in [RxSlot -> RxRec]
      <4> DEFINE b == "EL" \in rx.copy
                 e == [rxd[rx.cur] EXCEPT !.own = FALSE, !.stp = TRUE, !.el = b]
      <4>b. b \in BOOLEAN
        OBVIOUS
      <4> HIDE DEF b
      <4>1. rxd[rx.cur] \in RxRec
        BY <1>k, <1>o
      <4>2. e \in RxRec
        BY <4>1, <4>b DEF RxRec
      <4>3. rxd' = [rxd EXCEPT ![rx.cur] = e]
        BY <2>17 DEF EeproRxCtrl, b
      <4> HIDE DEF e
      <4> QED
        BY <1>k, <1>o, <4>2, <4>3, RxWrite
    <3> QED
      BY <2>17, <1>a, <1>k, <1>r, <1>c, <3>1 DEF EeproRxCtrl, RxTypes, RxOnly, NoRegs, regVars
  <2>18. CASE EeproRxSize
    <3>1. rxd' \in [RxSlot -> RxRec]
      BY <2>18, <1>k, <1>o DEF EeproRxSize, RxRec
    <3> QED
      BY <2>18, <1>a, <1>k, <1>r, <1>c, <3>1 DEF EeproRxSize, RxTypes, RxOnly, NoRegs, regVars
  <2>19. CASE EeproRxRaise
    <3>1. rx_pos' \in RxSlot
      BY <2>19, <1>k, Sizes DEF EeproRxRaise, RxSlot
    <3> QED
      BY <2>19, <1>a, <1>k, <1>w, <3>1
      DEF EeproRxRaise, RxTypes, RxOnly, EeproUpdateIrq, Cause, EeproCause
  <2> QED
    BY <2>1, <2>2, <2>3, <2>4, <2>5, <2>6, <2>7, <2>8, <2>9, <2>10, <2>11, <2>12, <2>13,
       <2>14, <2>15, <2>16, <2>17, <2>18, <2>19 DEF RxThread
<1>4. TxTypes' /\ DrvTypes' /\ MuesEnds'
  BY <1>a, <1>1 DEF RxOnly, TxTypes, DrvTypes, MuesEnds, Started
<1>5. CtlInv'
  <2>1. device' = device /\ drv' = drv /\ tx' = tx /\ ctl' \subseteq ctl
    BY <1>a DEF RxOnly
  <2>2. device # "am79c971" => rx.pc # "idle" \/ rx' = rx
    BY DEF RxThread, AmRxLock, AmRxRaise, AmRxPut, AmRxMark, AmRxCount, AmRxFinal, RingFinal,
       Am,
           DecReceive, DecRxRead, DecRxRaise, RingPut, RingMark, Dec, MuesReceive, MuesRxRaise, Mues,
           PosReceive, PosRxRaise, Pos, LvgRxPut, LvgRxLength, LvgRxStatus, LvgRxRaise, Lvg,
           EeproRxPut, EeproRxCtrl, EeproRxSize, EeproRxRaise, Eepro
  <2> QED
    BY <2>1, <2>2 DEF CtlInv, Started
<1>6. LockInv'
  <2>a. /\ UNCHANGED <<device, drv, tx>>
        /\ rx = [rx EXCEPT !.pc = rx.pc]
    BY <1>a, <1>k DEF RxOnly, RxState
  <2>p. \A pc : [rx EXCEPT !.pc = pc].pc = pc /\ [rx EXCEPT !.pc = pc, !.unit = @ + 1].pc = pc
                /\ \A c : [rx EXCEPT !.pc = pc, !.copy = c].pc = pc
    BY <1>k DEF RxState
  <2>i. RxIdle.pc = "idle" /\ RxBegin(rx.of).pc = "put"
    BY DEF RxIdle, RxBegin
  <2>m. /\ RxMarked(DecRxNext, "final").pc # "checked"
        /\ RxMarked(PosRxNext, "final").pc # "checked"
        /\ RxMarked(MuesNext(rx.cur, rx_end), "final").pc # "checked"
    BY <1>k DEF RxMarked, RxState
  <2>1. CASE AmRxLock \/ AmRxRaise \/ AmRxPut \/ AmRxMark \/ AmRxCount \/ AmRxFinal
    <3>1. device = "am79c971"
      BY <2>1 DEF AmRxLock, AmRxRaise, AmRxPut, AmRxMark, AmRxCount, AmRxFinal, Am
    <3>2. CASE AmRxLock
      BY <3>1, <3>2, <2>a, <2>i DEF AmRxLock, LockInv
    <3>3. CASE AmRxRaise
      BY <3>1, <3>3, <2>a, <2>i DEF AmRxRaise, LockInv
    <3>4. CASE AmRxPut \/ AmRxMark \/ AmRxCount \/ AmRxFinal
      <4>1. lock' = lock /\ rx.pc \notin {"idle", "checked"}
        BY <3>4 DEF AmRxPut, AmRxMark, AmRxCount, AmRxFinal, RingFinal
      <4> QED
        BY <3>1, <4>1, <2>a DEF LockInv
    <3> QED
      BY <2>1, <3>2, <3>3, <3>4
  <2>2. CASE DecReceive \/ DecRxRead \/ DecRxRaise
    <3>1. device = "dec21140" /\ rx'.pc # "checked"
      BY <2>2, <1>k, <2>m, <2>i DEF RxState, DecReceive, DecRxRead, DecRxRaise, RingPut,
         RingMark, RingFinal, Dec
    <3> QED
      BY <3>1, <2>a DEF LockInv
  <2>3. CASE MuesReceive \/ MuesRxRaise
    <3>1. device = "mueslix" /\ rx'.pc # "checked"
      BY <2>3, <1>k, <2>m, <2>i DEF RxState, MuesReceive, MuesRxRaise, RingPut, RingMark,
         RingFinal, Mues
    <3> QED
      BY <3>1, <2>a DEF LockInv
  <2>4. CASE PosReceive \/ PosRxRaise
    <3>1. device = "pos" /\ rx'.pc # "checked"
      BY <2>4, <1>k, <2>m, <2>i DEF RxState, PosReceive, PosRxRaise, RingPut, RingMark,
         RingFinal, Pos
    <3> QED
      BY <3>1, <2>a DEF LockInv
  <2>5. CASE LvgRxPut \/ LvgRxLength \/ LvgRxStatus \/ LvgRxRaise
    <3>1. device = "i8254x" /\ rx'.pc # "checked"
      BY <2>5, <1>k, <2>i DEF RxState, LvgRxPut, LvgRxLength, LvgRxStatus, LvgRxRaise, Lvg
    <3> QED
      BY <3>1, <2>a DEF LockInv
  <2>6. CASE EeproRxPut \/ EeproRxCtrl \/ EeproRxSize
    <3>1. device = "i8255x" /\ rx'.pc # "checked" /\ rx.pc # "idle" /\ lock' = lock
      BY <2>6, <1>k, <2>i DEF RxState, EeproRxPut, EeproRxCtrl, EeproRxSize, Eepro
    <3> QED
      BY <3>1, <2>a DEF LockInv
  <2>7. CASE EeproRxRaise
    <3>1. device = "i8255x" /\ rx'.pc = "idle" /\ rx.pc # "idle" /\ lock' = "none"
      BY <2>7, <2>i DEF EeproRxRaise, Eepro
    <3> QED
      BY <3>1, <2>a DEF LockInv
  <2> QED
    BY <2>1, <2>2, <2>3, <2>4, <2>5, <2>6, <2>7 DEF RxThread
<1> QED
  BY <1>1, <1>4, <1>5, <1>6

\* The scanner's states are well formed.
LEMMA TxStates ==
  ASSUME tx \in TxState, tx_pos \in TxSlot
  PROVE  /\ TxIdle \in TxState /\ TxBegin \in TxState /\ TxNext \in TxState
         /\ [TxBegin EXCEPT !.pc = "clear"] \in TxState
         /\ \A pc \in TxPc : [tx EXCEPT !.pc = pc] \in TxState
         /\ \A pc \in TxPc : [tx EXCEPT !.pc = pc, !.pkt = <<>>] \in TxState
         /\ \A pc \in TxPc, c \in SUBSET Cause : [tx EXCEPT !.pc = pc, !.copy = c] \in TxState
         /\ \A pc \in TxPc, i \in TxSlot, b \in UnitRec :
              [tx EXCEPT !.pc = pc, !.cur = i, !.pkt = Append(@, b)] \in TxState
         /\ \A pc \in TxPc, b \in UnitRec :
              [tx EXCEPT !.pc = pc, !.pkt = Append(@, b)] \in TxState
<1>1. "idle" \in TxPc /\ "copy" \in TxPc /\ "single" \in TxPc /\ "clear" \in TxPc
  BY DEF TxPc
<1>2. <<>> \in Seq(UnitRec) /\ {} \in SUBSET Cause
  OBVIOUS
<1>3. TxIdle \in TxState
  BY <1>1, <1>2, Sizes DEF TxState, TxIdle
<1>4. TxBegin \in TxState
  BY <1>1, <1>2 DEF TxState, TxBegin
<1>5. TxNext \in TxState
  <2>1. tx.pass + 1 \in Nat
    BY DEF TxState
  <2> QED
    BY <1>1, <1>3, <2>1 DEF TxNext, TxState
<1>6. [TxBegin EXCEPT !.pc = "clear"] \in TxState
  BY <1>1, <1>4 DEF TxState
<1>7. \A pc \in TxPc : [tx EXCEPT !.pc = pc] \in TxState
  BY DEF TxState
<1>8. \A pc \in TxPc : [tx EXCEPT !.pc = pc, !.pkt = <<>>] \in TxState
  BY <1>2 DEF TxState
<1>9. \A pc \in TxPc, c \in SUBSET Cause : [tx EXCEPT !.pc = pc, !.copy = c] \in TxState
  BY DEF TxState
<1>10. \A b \in UnitRec : Append(tx.pkt, b) \in Seq(UnitRec)
  BY DEF TxState
<1>11. ASSUME NEW pc \in TxPc, NEW i \in TxSlot, NEW b \in UnitRec
       PROVE  [tx EXCEPT !.pc = pc, !.cur = i, !.pkt = Append(@, b)] \in TxState
  BY <1>10 DEF TxState
<1>12. ASSUME NEW pc \in TxPc, NEW b \in UnitRec
       PROVE  [tx EXCEPT !.pc = pc, !.pkt = Append(@, b)] \in TxState
  BY <1>10 DEF TxState
<1> QED
  BY <1>3, <1>4, <1>5, <1>6, <1>7, <1>8, <1>9, <1>11, <1>12

\* Taking a unit out of a ring descriptor keeps the transmit side well formed.
LEMMA RingCopyTypes ==
  ASSUME TxTypes, NEW next \in TxSlot, NEW unlocked, RingCopy(next, unlocked)
  PROVE  TxTypes'
<1>k. tx_pos \in TxSlot /\ txd \in [TxSlot -> TxRec] /\ tx \in TxState /\ queued \in Nat
      /\ tx.cur \in TxSlot
  BY DEF TxTypes, TxState
<1>1. txd[tx.cur] \in TxRec
  BY <1>k
<1>2. txd[tx.cur].buf \in UnitRec /\ txd[tx.cur].stp \in BOOLEAN
  BY <1>1 DEF TxRec
<1>3. txd' \in [TxSlot -> TxRec]
  BY <1>k, <1>2 DEF RingCopy, TxRec
<1>4. "send" \in TxPc /\ "copy" \in TxPc
  BY DEF TxPc
<1>5. TxIdle \in TxState /\ \A pc \in TxPc, i \in TxSlot, b \in UnitRec :
              [tx EXCEPT !.pc = pc, !.cur = i, !.pkt = Append(@, b)] \in TxState
  BY <1>k, TxStates
<1>6. tx' \in TxState
  <2> DEFINE b == txd[tx.cur].buf
             pc == IF txd[tx.cur].enp THEN "send" ELSE "copy"
  <2>1. tx' = [tx EXCEPT !.pc = pc, !.cur = next, !.pkt = Append(@, b)] \/ tx' = TxIdle
    BY DEF RingCopy
  <2>2. b \in UnitRec /\ pc \in TxPc
    BY <1>2, <1>4
  <2> HIDE DEF b, pc
  <2> QED
    BY <2>1, <2>2, <1>5
<1> QED
  BY <1>k, <1>3, <1>6 DEF RingCopy, Only, TxTypes

\* Sending keeps the types and control facts.
LEMMA TxBase ==
  ASSUME Base, TxBegins \/ TxThread
  PROVE  Base'
<1> USE DEF Base
<1>a. TxOnly
  BY TxAlone
<1>s. device = "mueslix" /\ tx.pc # "idle" => MuesNext(tx_pos, tx_end) \in TxSlot
  BY RxNexts DEF CtlInv
<1>q. AmTxNext \in TxSlot /\ DecTxNext \in TxSlot /\ PosTxNext \in TxSlot
  BY RxNexts
<1>k. /\ tx_pos \in TxSlot /\ txd \in [TxSlot -> TxRec] /\ tx \in TxState
      /\ queued \in Nat /\ status \in SUBSET Cause
  BY DEF TxTypes, DrvTypes
<1>o. tx.copy \in SUBSET Cause /\ tx.start \in TxSlot
  BY <1>k DEF TxState
<1>w. TxIdle \in TxState /\ TxBegin \in TxState /\ TxNext \in TxState
         /\ [TxBegin EXCEPT !.pc = "clear"] \in TxState
  BY <1>k, TxStates
<1>r. \A pc \in TxPc : [tx EXCEPT !.pc = pc] \in TxState
  BY <1>k, TxStates
<1>u. \A pc \in TxPc : [tx EXCEPT !.pc = pc, !.pkt = <<>>] \in TxState
  BY <1>k, TxStates
<1>v. \A pc \in TxPc, c \in SUBSET Cause : [tx EXCEPT !.pc = pc, !.copy = c] \in TxState
  BY <1>k, TxStates
<1>c. {"idle", "single", "copy", "send", "clear", "raise", "update"} \subseteq TxPc
  BY DEF TxPc
<1>g. /\ TxIdle.pc = "idle" /\ TxBegin.pc = "copy" /\ TxNext.pc = "single"
  BY DEF TxIdle, TxBegin, TxNext
<1>d. \A b \in BOOLEAN : txd' = [txd EXCEPT ![tx.start].own = b] => txd' \in [TxSlot -> TxRec]
  BY <1>k, <1>o DEF TxRec
<1>1. CASE AmTxSingle \/ DecTxSingle \/ MuesTxSingle \/ PosTxRing \/ LvgTxSingle
  <2>1. tx' \in TxState
    BY <1>1, <1>w DEF AmTxSingle, DecTxSingle, MuesTxSingle, PosTxRing, LvgTxSingle, TxBegin
  <2>2. txd' = txd /\ tx_pos' \in TxSlot
    <3>1. (tx_pos + 1) % TxLen \in TxSlot
      BY <1>k, Sizes DEF TxSlot
    <3> QED
      BY <1>1, <3>1, <1>k DEF AmTxSingle, DecTxSingle, MuesTxSingle, PosTxRing, LvgTxSingle
  <2>3. status' = status
    BY <1>1 DEF AmTxSingle, DecTxSingle, MuesTxSingle, PosTxRing, LvgTxSingle, NoRegs, regVars
  <2>4. RxTypes' /\ TxTypes' /\ DrvTypes' /\ MuesEnds'
    BY <1>a, <1>k, <2>1, <2>2, <2>3 DEF TxOnly, RxTypes, TxTypes, DrvTypes, MuesEnds, Started
  <2>5. ctl \cap RunBits # {}
    BY <1>1 DEF AmTxSingle, DecTxSingle, MuesTxSingle, PosTxRing, LvgTxSingle, RunBits
  <2>6. CtlInv'
    BY <1>a, <2>5 DEF TxOnly, CtlInv, Started
  <2>7. LockInv'
    BY <1>1, <1>a, <1>g DEF TxOnly, LockInv, AmTxSingle, DecTxSingle, MuesTxSingle, PosTxRing,
       LvgTxSingle,
           Am, Dec, Mues, Pos, Lvg
  <2> QED
    BY <2>4, <2>6, <2>7
<1>2. CASE TxThread
  <2>1. TxTypes' /\ status' \in SUBSET Cause
    <3> USE DEF TxTypes
    <3>1. CASE AmTxUnlock \/ DecTxRingEnds \/ MuesTxRingEnds \/ LvgTxRingEnds
      BY <3>1, <1>k, <1>w, <1>a DEF AmTxUnlock, DecTxRingEnds, MuesTxRingEnds, LvgTxRingEnds,
         RingPassEnds,
             NoRegs, regVars, TxOnly
    <3>2. CASE AmTxSend \/ (Dec /\ RingSend("clear")) \/ (Mues /\ RingSend("clear"))
               \/ (Pos /\ RingSend("clear")) \/ LvgTxSend
      <4>1. tx' \in TxState
        BY <3>2, <1>u, <1>c DEF AmTxSend, RingSend, LvgTxSend
      <4> QED
        BY <3>2, <1>k, <4>1, <1>a DEF AmTxSend, RingSend, LvgTxSend, NoRegs, regVars, TxOnly
    <3>3. CASE RingClear
      <4>1. tx' \in TxState
        BY <3>3, <1>r, <1>c DEF RingClear
      <4> QED
        BY <3>3, <1>k, <4>1, <1>a, <1>d DEF RingClear, NoRegs, regVars, TxOnly
    <3>4. CASE RingCopy(AmTxNext, "none") \/ RingCopy(DecTxNext, "none") \/ RingCopy(PosTxNext, "none")
      BY <3>4, <1>k, <1>q, RingCopyTypes DEF RingCopy, NoRegs, regVars
    <3>5. CASE Mues /\ RingCopy(MuesNext(tx_pos, tx_end), "none")
      <4>1. tx.pc # "idle"
        BY <3>5 DEF RingCopy
      <4> QED
        BY <3>5, <4>1, <1>k, <1>s, RingCopyTypes DEF RingCopy, NoRegs, regVars, Mues
    <3>6. CASE AmTxRaise \/ DecTxRaise \/ MuesTxRaise \/ LvgTxRaise
      <4>1. status' \in SUBSET Cause
        BY <3>6, <1>k, <1>o DEF AmTxRaise, DecTxRaise, MuesTxRaise, LvgTxRaise, AmUpdateIrq,
           DecUpdateIrq,
               MuesUpdateIrq, LvgUpdateIrq, Cause, AmCause, DecCause, MuesCause, LvgCause
      <4> QED
        BY <3>6, <1>k, <1>w, <1>a, <4>1 DEF AmTxRaise, DecTxRaise, MuesTxRaise, LvgTxRaise,
           TxOnly
    <3>7. CASE DecTxRead
      BY <3>7, <1>k, <1>v, <1>c, <1>a DEF DecTxRead, NoRegs, regVars, TxOnly
    <3>8. CASE PosTxRaise
      BY <3>8, <1>k, <1>w, <1>a DEF PosTxRaise, NoRegs, regVars, TxOnly
    <3>9. CASE LvgTxCopy
      <4>1. txd[tx_pos] \in TxRec
        BY <1>k
      <4>2. txd[tx_pos].buf \in UnitRec
        BY <4>1 DEF TxRec
      <4>3. txd' \in [TxSlot -> TxRec]
        BY <1>k, <3>9 DEF LvgTxCopy, TxRec
      <4>4. \A pc \in TxPc, b \in UnitRec : [tx EXCEPT !.pc = pc, !.pkt = Append(@, b)] \in TxState
        BY <1>k, TxStates
      <4>5. tx' \in TxState
        BY <3>9, <4>2, <4>4, <1>c DEF LvgTxCopy
      <4>6. tx_pos' \in TxSlot
        BY <3>9, <1>q DEF LvgTxCopy, AmTxNext
      <4> QED
        BY <3>9, <1>k, <1>a, <4>3, <4>5, <4>6 DEF LvgTxCopy, NoRegs, regVars, TxOnly
    <3> QED
      BY <1>2, <3>1, <3>2, <3>3, <3>4, <3>5, <3>6, <3>7, <3>8, <3>9
      DEF TxThread, DecTransmit, MuesTransmit, PosTransmit, AmTxCopy, AmTxClear
  <2>2. RxTypes' /\ DrvTypes' /\ MuesEnds'
    BY <1>a, <2>1 DEF TxOnly, RxTypes, DrvTypes, MuesEnds, Started
  <2>3. tx.pc # "idle" /\ device # "i8255x"
    BY <1>2 DEF TxThread, AmTxUnlock, AmTxCopy, AmTxSend, AmTxClear, AmTxRaise, RingPassEnds,
       RingCopy, RingSend,
           RingClear, Am, DecTransmit, DecTxRead, DecTxRaise, DecTxRingEnds, Dec, MuesTransmit, MuesTxRaise,
           MuesTxRingEnds, Mues, PosTransmit, PosTxRaise, Pos, LvgTxCopy, LvgTxSend, LvgTxRaise, LvgTxRingEnds, Lvg
  <2>4. CtlInv'
    BY <1>a, <2>3 DEF TxOnly, CtlInv, Started
  <2>5. device = "am79c971" => lock' = lock \/ (lock = "tx" /\ lock' = "none" /\ tx'.pc = "idle")
    <3> HAVE device = "am79c971"
    <3>1. AmTxUnlock \/ AmTxCopy \/ AmTxSend \/ AmTxClear \/ AmTxRaise
      BY <1>2 DEF TxThread, DecTransmit, DecTxRead, DecTxRaise, DecTxRingEnds, Dec,
         MuesTransmit, MuesTxRaise,
           MuesTxRingEnds, Mues, PosTransmit, PosTxRaise, Pos, LvgTxCopy, LvgTxSend, LvgTxRaise, LvgTxRingEnds, Lvg
    <3>2. lock = "tx"
      BY <2>3 DEF LockInv
    <3> QED
      BY <3>1, <3>2, <1>g DEF AmTxUnlock, AmTxCopy, AmTxSend, AmTxClear, AmTxRaise,
         RingPassEnds, RingCopy, RingSend,
           RingClear
  <2>6. LockInv'
    BY <1>a, <2>3, <2>5 DEF TxOnly, LockInv
  <2> QED
    BY <2>1, <2>2, <2>4, <2>6
<1> QED
  BY <1>1, <1>2 DEF TxBegins

\* The driver's record.
LEMMA DrvStates ==
  ASSUME drv \in DrvState
  PROVE  /\ DrvStopped \in DrvState
         /\ \A pc \in DrvPc : [DrvStopped EXCEPT !.pc = pc] \in DrvState
         /\ \A pc \in DrvPc : [drv EXCEPT !.pc = pc] \in DrvState
         /\ \A pc \in DrvPc, r \in SUBSET Cause : [drv EXCEPT !.pc = pc, !.read = r] \in DrvState
         /\ \A i \in RxSlot : [drv EXCEPT !.rx = i] \in DrvState
         /\ \A i \in TxSlot, u \in 0..TxLen : [drv EXCEPT !.tx = i, !.used = u] \in DrvState
         /\ \A u \in 0..TxLen : [drv EXCEPT !.used = u] \in DrvState
<1>1. "stopped" \in DrvPc /\ {} \in SUBSET Cause /\ 0 \in 0..TxLen
  BY Sizes DEF DrvPc
<1>2. DrvStopped \in DrvState
  BY <1>1, Sizes DEF DrvStopped, DrvState
<1>3. \A pc \in DrvPc : [DrvStopped EXCEPT !.pc = pc] \in DrvState
  BY <1>1, Sizes DEF DrvStopped, DrvState
<1>4. \A pc \in DrvPc : [drv EXCEPT !.pc = pc] \in DrvState
  BY DEF DrvState
<1>5. \A pc \in DrvPc, r \in SUBSET Cause : [drv EXCEPT !.pc = pc, !.read = r] \in DrvState
  BY DEF DrvState
<1>6. \A i \in RxSlot : [drv EXCEPT !.rx = i] \in DrvState
  BY DEF DrvState
<1>7. \A i \in TxSlot, u \in 0..TxLen : [drv EXCEPT !.tx = i, !.used = u] \in DrvState
  BY DEF DrvState
<1>8. \A u \in 0..TxLen : [drv EXCEPT !.used = u] \in DrvState
  BY DEF DrvState
<1> QED
  BY <1>2, <1>3, <1>4, <1>5, <1>6, <1>7, <1>8

\* A descriptor given to the device is well formed.
LEMMA FreshTypes ==
  FreshRx \in RxRec /\ FreshTx \in TxRec
<1>1. NoUnit \in UnitRec
  BY DEF NoUnit, UnitRec
<1> QED
  BY <1>1 DEF FreshRx, FreshTx, RxRec, TxRec

\* A packet that is queued.
LEMMA QueueTypes ==
  ASSUME TxTypes, DrvTypes, NEW n \in 1..MaxUnit, NEW s \in BOOLEAN, Queue(n, s)
  PROVE  /\ txd' \in [TxSlot -> TxRec] /\ queued' \in Nat /\ drv' \in DrvState
         /\ drv'.pc = "idle" /\ drv.pc = "idle"
<1>1. queued' \in Nat /\ n \in Nat
  BY Sizes DEF TxTypes, Queue
<1>2. \A k \in 1..n : [own |-> TRUE, stp |-> k = 1, enp |-> k = n, s |-> s,
                       buf |-> [id |-> queued + 1, unit |-> k, of |-> n]] \in TxRec
  <2> TAKE k \in 1..n
  <2>1. [id |-> queued + 1, unit |-> k, of |-> n] \in UnitRec
    BY <1>1 DEF UnitRec, TxTypes
  <2>2. (k = 1) \in BOOLEAN /\ (k = n) \in BOOLEAN
    OBVIOUS
  <2> QED
    BY <2>1, <2>2 DEF TxRec
<1>3. txd' \in [TxSlot -> TxRec]
  BY <1>2 DEF TxTypes, Queue
<1>4. drv.tx \in 0..TxLen - 1 /\ drv.used \in 0..TxLen /\ drv.used + n <= TxLen
  BY DEF DrvTypes, DrvState, TxSlot, Queue
<1>5. TxAt(n) \in TxSlot
  BY <1>1, <1>4, Sizes DEF TxAt, TxSlot
<1>6. drv' = [drv EXCEPT !.tx = TxAt(n), !.used = @ + n]
  BY DEF Queue
<1>7. drv.used + n \in 0..TxLen
  BY <1>1, <1>4, Sizes
<1>8. drv' \in DrvState
  BY <1>5, <1>6, <1>7 DEF DrvTypes, DrvState
<1>9. drv.pc = "idle" /\ drv'.pc = "idle"
  BY <1>6 DEF Queue, DrvTypes, DrvState
<1> QED
  BY <1>1, <1>3, <1>8, <1>9

\* Taking a frame out keeps the driver's side well formed.
LEMMA TakeTypes ==
  ASSUME RxTypes, DrvTypes, NEW fresh \in RxRec, Take(fresh)
  PROVE  /\ rxd' \in [RxSlot -> RxRec] /\ taken' \in Nat /\ drv' \in DrvState
         /\ drv'.pc = "scan" /\ drv.pc = "scan"
<1>1. drv.rx \in RxSlot /\ drv \in DrvState /\ drv.rx \in 0..RxLen - 1
  BY DEF DrvTypes, DrvState, RxSlot
<1>2. PICK k \in 1..RxLen : rxd[RxAt(k - 1)].enp
  BY DEF Take, Complete
<1>3. rxd' \in [RxSlot -> RxRec]
  BY DEF RxTypes, Take
<1>4. taken' \in Nat
  <2>1. rxd[drv.rx] \in RxRec
    BY <1>1 DEF RxTypes
  <2>2. rxd[drv.rx].buf.id \in Nat
    BY <2>1 DEF RxRec, UnitRec
  <2> QED
    BY <2>2 DEF Take
<1>5. FrameLen \in 1..RxLen
  <2> DEFINE S == {n \in 1..RxLen : rxd[RxAt(n - 1)].enp}
  <2>1. S \subseteq Nat /\ k \in S
    BY <1>2, Sizes
  <2>2. PICK n \in S : \A j \in S : n <= j
    BY <2>1, LeastNat
  <2>3. n \in 1..RxLen /\ rxd[RxAt(n - 1)].enp
    OBVIOUS
  <2>4. \A j \in 1..n - 1 : ~rxd[RxAt(j - 1)].enp
    <3> SUFFICES ASSUME NEW j \in 1..n - 1, rxd[RxAt(j - 1)].enp PROVE FALSE
      OBVIOUS
    <3>1. j \in S
      BY <2>3, Sizes
    <3> QED
      BY <3>1, <2>2, <2>3
  <2> QED
    BY <2>3, <2>4 DEF FrameLen
<1>6. RxAt(FrameLen) \in RxSlot
  <2>1. drv.rx + FrameLen \in Nat
    BY <1>1, <1>5, Sizes
  <2> QED
    BY <2>1, Sizes DEF RxAt, RxSlot
<1>7. drv' = [drv EXCEPT !.rx = RxAt(FrameLen)] /\ drv.pc = "scan"
  BY DEF Take
<1>8. drv' \in DrvState /\ drv'.pc = "scan"
  <2> DEFINE i == RxAt(FrameLen)
  <2>1. i \in RxSlot /\ drv' = [drv EXCEPT !.rx = i]
    BY <1>6, <1>7
  <2> HIDE DEF i
  <2> QED
    BY <2>1, <1>1, <1>7 DEF DrvState
<1> QED
  BY <1>3, <1>4, <1>7, <1>8

\* The driver's steps, and a change of the mode register, keep the types.
LEMMA DriverBase ==
  ASSUME Base, Queues \/ Starts \/ Interrupts \/ Acks \/ Scans \/ AmStop \/ \E mode \in Mode : AmMode(mode)
  PROVE  Base'
<1> USE DEF Base
<1>k. /\ drv \in DrvState /\ rxd \in [RxSlot -> RxRec] /\ txd \in [TxSlot -> TxRec]
      /\ rx_pos \in RxSlot /\ tx_pos \in TxSlot /\ frames \in Nat /\ taken \in Nat /\ queued \in Nat
      /\ rx \in RxState /\ tx \in TxState /\ status \in SUBSET Cause
  BY DEF RxTypes, TxTypes, DrvTypes
<1>r. drv.read \in SUBSET Cause /\ drv.rx \in RxSlot /\ drv.tx \in TxSlot /\ drv.used \in 0..TxLen
  BY <1>k DEF DrvState
<1>c. DrvPc = {"stopped", "prepared", "idle", "ack", "clear", "command", "scan"}
  BY DEF DrvPc
<1> USE DEF NoAccess, NoDevice, NoRegs, regVars, memVars, Access
<1>s. /\ \A pc \in DrvPc : [drv EXCEPT !.pc = pc] \in DrvState
      /\ \A pc \in DrvPc, r \in SUBSET Cause : [drv EXCEPT !.pc = pc, !.read = r] \in DrvState
      /\ \A pc \in DrvPc : [DrvStopped EXCEPT !.pc = pc] \in DrvState
  BY <1>k, DrvStates
<1>e. {} \in SUBSET Cause
  OBVIOUS
<1>z. 0 \in RxSlot /\ 0 \in TxSlot
  BY Sizes
<1>1. CASE DrvPrepare
  <2>1. drv' = [DrvStopped EXCEPT !.pc = "prepared"] /\ drv.pc = "stopped" /\ drv'.pc = "prepared"
    BY <1>1 DEF DrvPrepare, DrvStopped
  <2>2. drv' \in DrvState
    BY <2>1, <1>s, <1>c
  <2>3. rxd' \in [RxSlot -> RxRec] /\ txd' \in [TxSlot -> TxRec]
    BY <1>1, FreshTypes DEF DrvPrepare
  <2> QED
    BY <1>1, <1>k, <2>1, <2>2, <2>3
    DEF DrvPrepare, RxTypes, TxTypes, DrvTypes, MuesEnds, CtlInv, LockInv, Started
<1>2. CASE \E mode \in Mode : AmStart(mode)
  <2>0. PICK mode \in Mode : AmStart(mode)
    BY <1>2
  <2>1. drv' = [drv EXCEPT !.pc = "idle", !.read = {}] /\ drv.pc = "prepared" /\ device = "am79c971"
    BY <2>0 DEF AmStart, Am
  <2>2. drv' \in DrvState /\ drv'.pc = "idle"
    BY <2>1, <1>c, <1>e, <1>k DEF DrvState
  <2>3. status' \in SUBSET Cause /\ rx_pos' = rx_pos /\ tx_pos' = tx_pos
    BY <2>0, <1>k DEF AmStart, WriteCsr0, AmUpdateIrq, Cleared, Cause, AmCause
  <2> QED
    BY <2>0, <1>k, <2>1, <2>2, <2>3
    DEF AmStart, Am, RxTypes, TxTypes, DrvTypes, MuesEnds, CtlInv, LockInv, Started
<1>3. CASE DecStart
  <2>1. drv' = [drv EXCEPT !.pc = "idle", !.tx = 1 % TxLen, !.used = 1] /\ drv.pc = "prepared"
        /\ device = "dec21140"
    BY <1>3 DEF DecStart, Dec
  <2>2. (1 % TxLen) \in TxSlot /\ 1 \in 0..TxLen
    BY Sizes DEF TxSlot
  <2>3. drv' \in DrvState /\ drv'.pc = "idle"
    BY <2>1, <2>2, <1>c, <1>k DEF DrvState
  <2>4. txd' \in [TxSlot -> TxRec]
    BY <1>3, <1>k DEF DecStart, TxRec
  <2> QED
    BY <1>3, <1>k, <1>z, <2>1, <2>3, <2>4
    DEF DecStart, Dec, RxTypes, TxTypes, DrvTypes, MuesEnds, CtlInv, LockInv, Started
<1>4. CASE MuesStart
  <2>1. drv' = [drv EXCEPT !.pc = "idle", !.read = {}] /\ drv.pc = "prepared" /\ device = "mueslix"
    BY <1>4 DEF MuesStart, Mues
  <2>2. drv' \in DrvState /\ drv'.pc = "idle"
    BY <2>1, <1>c, <1>e, <1>k DEF DrvState
  <2>3. MuesEnds'
    BY <1>4, <2>1 DEF MuesStart, MuesEnds
  <2> QED
    BY <1>4, <1>k, <1>z, <2>1, <2>2, <2>3
    DEF MuesStart, Mues, RxTypes, TxTypes, DrvTypes, CtlInv, LockInv, Started
<1>5. CASE PosStart
  <2>1. drv' = [drv EXCEPT !.pc = "idle", !.read = {}] /\ drv.pc = "prepared" /\ device = "pos"
    BY <1>5 DEF PosStart, Pos
  <2>2. drv' \in DrvState /\ drv'.pc = "idle"
    BY <2>1, <1>c, <1>e, <1>k DEF DrvState
  <2> QED
    BY <1>5, <1>k, <1>z, <2>1, <2>2
    DEF PosStart, Pos, RxTypes, TxTypes, DrvTypes, MuesEnds, CtlInv, LockInv, Started
<1>6. CASE LvgStart
  <2>1. drv' = [drv EXCEPT !.pc = "idle", !.read = {}] /\ drv.pc = "prepared" /\ device = "i8254x"
    BY <1>6 DEF LvgStart, Lvg
  <2>2. drv' \in DrvState /\ drv'.pc = "idle"
    BY <2>1, <1>c, <1>e, <1>k DEF DrvState
  <2> QED
    BY <1>6, <1>k, <1>z, <2>1, <2>2
    DEF LvgStart, Lvg, RxTypes, TxTypes, DrvTypes, MuesEnds, CtlInv, LockInv, Started
<1>7. CASE EeproStart
  <2>1. drv' = [drv EXCEPT !.pc = "idle"] /\ drv.pc = "prepared" /\ device = "i8255x"
    BY <1>7 DEF EeproStart, Eepro
  <2>2. drv' \in DrvState /\ drv'.pc = "idle"
    BY <2>1, <1>c, <1>k DEF DrvState
  <2>3. rxd' \in [RxSlot -> RxRec]
    BY <1>7, <1>k DEF EeproStart, RxRec
  <2> QED
    BY <1>7, <1>k, <1>z, <2>1, <2>2, <2>3
    DEF EeproStart, Eepro, RxTypes, TxTypes, DrvTypes, MuesEnds, CtlInv, LockInv, Started
<1>8. CASE Queues
  <2>0. PICK n \in 1..MaxUnit : AmQueue(n) \/ DecQueue(n) \/ MuesQueue(n) \/ PosQueue(n) \/ LvgQueue(n)
              \/ EeproCommand(n)
    BY <1>8 DEF Queues
  <2>1. CASE AmQueue(n) \/ DecQueue(n) \/ MuesQueue(n) \/ PosQueue(n) \/ LvgQueue(n)
    <3>1. Queue(n, FALSE) /\ UNCHANGED <<rx_pos, tx_pos, lock, ctl, status>>
          /\ (device # "i8254x" => UNCHANGED <<rx_end, tx_end>>)
      BY <2>1 DEF AmQueue, DecQueue, MuesQueue, PosQueue, LvgQueue, Lvg
    <3>2. txd' \in [TxSlot -> TxRec] /\ queued' \in Nat /\ drv' \in DrvState /\ drv'.pc = "idle" /\ drv.pc = "idle"
      BY <3>1, QueueTypes
    <3> QED
      BY <1>k, <3>1, <3>2
      DEF Queue, RxTypes, TxTypes, DrvTypes, MuesEnds, CtlInv, LockInv, Started
  <2>2. CASE EeproCommand(n)
    <3>1. device = "i8255x" /\ lock = "none" /\ lock' = "cpu" /\ drv.pc = "idle" /\ queued' = queued + 1
      BY <2>2 DEF EeproCommand, Eepro
    <3>2. (drv.tx + 1) % TxLen \in TxSlot /\ (tx_pos + 1) % TxLen \in TxSlot
          /\ (drv.tx + TxLen - 1) % TxLen \in TxSlot
      BY <1>k, <1>r, Sizes DEF TxSlot
    <3>3. drv.used + 1 \in 0..TxLen
      BY <1>r, <2>2, Sizes DEF EeproCommand
    <3>4. drv' = [drv EXCEPT !.tx = (drv.tx + 1) % TxLen, !.used = @ + 1, !.pc = "command"]
      BY <2>2 DEF EeproCommand
    <3>5. drv' \in DrvState /\ drv'.pc = "command"
      BY <3>2, <3>3, <3>4, <1>k, <1>c DEF DrvState
    <3> DEFINE new == [own |-> TRUE, stp |-> TRUE, enp |-> TRUE, s |-> TRUE,
                       buf |-> [id |-> queued + 1, unit |-> 1, of |-> n]]
               before == (drv.tx + TxLen - 1) % TxLen
               mem == [txd EXCEPT ![before].s = FALSE, ![drv.tx] = new]
               block == Resume(drv.tx)
    <3>6. new \in TxRec
      <4>1. [id |-> queued + 1, unit |-> 1, of |-> n] \in UnitRec
        BY <1>k, Sizes DEF UnitRec
      <4> QED
        BY <4>1 DEF TxRec
    <3>7. mem \in [TxSlot -> TxRec]
      <4> HIDE DEF new
      <4>1. [txd EXCEPT ![before].s = FALSE] \in [TxSlot -> TxRec]
        BY <1>k, <3>2 DEF TxRec
      <4>2. mem = [[txd EXCEPT ![before].s = FALSE] EXCEPT ![drv.tx] = new]
        OBVIOUS
      <4> QED
        BY <4>1, <4>2, <3>6, <1>r
    <3>8. block \in TxSlot
      BY <3>2, <1>r DEF Resume
    <3>9. /\ txd' = mem /\ tx_pos' = block
          /\ tx' = [TxIdle EXCEPT !.pc = "send", !.cur = block, !.start = block,
                    !.pkt = Gather(mem[block].buf.id, mem[block].buf.of)]
      BY <2>2 DEF EeproCommand
    <3> HIDE DEF mem, block
    <3>10. Gather(mem[block].buf.id, mem[block].buf.of) \in Seq(UnitRec)
      <4>1. mem[block].buf.id \in Nat /\ mem[block].buf.of \in Nat
        BY <3>7, <3>8 DEF TxRec, UnitRec
      <4> DEFINE i == mem[block].buf.id  o == mem[block].buf.of
      <4>2. \A k \in 1..o : [id |-> i, unit |-> k, of |-> o] \in UnitRec
        BY <4>1 DEF UnitRec
      <4> HIDE DEF i, o
      <4>3. Gather(i, o) \in [1..o -> UnitRec]
        BY <4>2 DEF Gather
      <4>4. o \in Nat
        BY <4>1 DEF o
      <4> QED
        BY <4>3, <4>4 DEF i, o
    <3>11. tx' \in TxState /\ tx'.pc = "send"
      <4>1. "send" \in TxPc
        BY DEF TxPc
      <4>2. TxIdle \in TxState
        BY <1>k, TxStates
      <4> QED
        BY <3>8, <3>9, <3>10, <4>1, <4>2 DEF TxState
    <3>q. queued' \in Nat
      BY <3>1, <1>k
    <3>12. RxTypes' /\ TxTypes' /\ DrvTypes'
      <4>1. UNCHANGED <<device, status, rx_pos, rxd, rx, frames, taken>>
        BY <2>2 DEF EeproCommand
      <4> QED
        BY <4>1, <1>k, <3>q, <3>5, <3>7, <3>8, <3>9, <3>11 DEF RxTypes, TxTypes, DrvTypes
    <3>13. MuesEnds' /\ CtlInv' /\ LockInv'
      BY <2>2, <3>1, <3>5, <3>11 DEF EeproCommand, MuesEnds, CtlInv, LockInv, Started
    <3> QED
      BY <3>12, <3>13
  <2> QED
    BY <2>0, <2>1, <2>2
<1>9. CASE AmInterrupt \/ DecInterrupt \/ MuesInterrupt \/ PosInterrupt \/ EeproInterrupt
  <2>1. Interrupted
    BY <1>9 DEF AmInterrupt, DecInterrupt, MuesInterrupt, PosInterrupt, EeproInterrupt
  <2>2. drv' = [drv EXCEPT !.pc = "ack", !.read = status] /\ drv.pc = "idle"
    BY <2>1 DEF Interrupted
  <2>3. drv' \in DrvState /\ drv'.pc = "ack"
    BY <2>2, <1>c, <1>k DEF DrvState
  <2> QED
    BY <2>1, <2>2, <2>3, <1>k DEF Interrupted, RxTypes, TxTypes, DrvTypes, MuesEnds, CtlInv,
       LockInv, Started
<1>10. CASE LvgReadIcr
  <2>2. drv' = [drv EXCEPT !.pc = "scan", !.read = {}] /\ drv.pc = "idle" /\ device = "i8254x"
    BY <1>10 DEF LvgReadIcr, Lvg
  <2>3. drv' \in DrvState /\ drv'.pc = "scan"
    BY <2>2, <1>c, <1>k, <1>e DEF DrvState
  <2>4. status' \in SUBSET Cause
    BY <1>10 DEF LvgReadIcr, LvgUpdateIrq, Cause, LvgCause
  <2> QED
    BY <1>10, <2>2, <2>3, <2>4, <1>k DEF LvgReadIcr, RxTypes, TxTypes, DrvTypes, MuesEnds,
       CtlInv, LockInv, Started
<1>11. CASE AmAck \/ MuesAck \/ PosAck \/ EeproAck \/ DecAckRead \/ DecAckWrite
  <2>1. status' \in SUBSET Cause
    BY <1>11, <1>k, <1>r DEF AmAck, MuesAck, PosAck, EeproAck, DecAckRead, DecAckWrite,
       WriteCsr0, AmUpdateIrq,
           MuesUpdateIrq, EeproUpdateIrq, DecUpdateIrq, Cleared, Cause, AmCause
  <2>2. \E pc \in {"scan", "clear"}, r \in SUBSET Cause :
           drv' = [drv EXCEPT !.pc = pc, !.read = r]
    <3>1. CASE AmAck \/ MuesAck \/ PosAck \/ DecAckWrite
      <4>1. drv' = [drv EXCEPT !.pc = "scan", !.read = {}]
        BY <3>1 DEF AmAck, MuesAck, PosAck, DecAckWrite
      <4> QED
        BY <4>1, <1>e
    <3>2. CASE EeproAck
      <4>1. drv' = [drv EXCEPT !.pc = "scan", !.read = @ \cap {"RNR"}]
        BY <3>2 DEF EeproAck
      <4>2. drv.read \cap {"RNR"} \in SUBSET Cause
        BY <1>r
      <4> QED
        BY <4>1, <4>2
    <3>3. CASE DecAckRead
      <4>1. drv' = [drv EXCEPT !.pc = "clear", !.read = status \ drv.read]
        BY <3>3 DEF DecAckRead
      <4>2. status \ drv.read \in SUBSET Cause
        BY <1>k
      <4> QED
        BY <4>1, <4>2
    <3> QED
      BY <1>11, <3>1, <3>2, <3>3
  <2>3. drv' \in DrvState /\ drv'.pc \in {"scan", "clear"}
    <3>1. PICK pc \in {"scan", "clear"}, r \in SUBSET Cause :
           drv' = [drv EXCEPT !.pc = pc, !.read = r]
      BY <2>2
    <3> QED
      BY <3>1, <1>c, <1>k DEF DrvState
  <2>4. drv.pc \in {"ack", "clear"}
    BY <1>11 DEF AmAck, MuesAck, PosAck, EeproAck, DecAckRead, DecAckWrite
  <2>5. /\ UNCHANGED <<device, frames, rx, tx, lock, rxd, txd, taken, queued>>
        /\ device # "am79c971" => UNCHANGED <<rx_end, tx_end, ctl>>
    BY <1>11 DEF AmAck, MuesAck, PosAck, EeproAck, DecAckRead, DecAckWrite, Am
  <2>6. rx_pos' \in RxSlot /\ tx_pos' \in TxSlot
    BY <1>11, <1>k, <1>z DEF AmAck, MuesAck, PosAck, EeproAck, DecAckRead, DecAckWrite,
       WriteCsr0
  <2> QED
    BY <2>1, <2>3, <2>4, <2>5, <2>6, <1>k DEF RxTypes, TxTypes, DrvTypes, MuesEnds, CtlInv,
       LockInv, Started
<1>12. CASE AmTake \/ DecTake \/ MuesTake \/ PosTake \/ LvgTake
  <2>1. Take(FreshRx) /\ UNCHANGED <<rx_pos, tx_pos, lock, ctl, status>>
        /\ (device # "i8254x" => UNCHANGED <<rx_end, tx_end>>)
    BY <1>12 DEF AmTake, DecTake, MuesTake, PosTake, LvgTake, Lvg
  <2>2. rxd' \in [RxSlot -> RxRec] /\ taken' \in Nat /\ drv' \in DrvState
         /\ drv'.pc = "scan" /\ drv.pc = "scan"
    BY <2>1, TakeTypes, FreshTypes
  <2> QED
    BY <2>1, <2>2, <1>k DEF Take, RxTypes, TxTypes, DrvTypes, MuesEnds, CtlInv, LockInv,
       Started
<1>13. CASE EeproTake
  <2>1. (drv.rx + 1) % RxLen \in RxSlot /\ (drv.rx + RxLen - 1) % RxLen \in RxSlot
    BY <1>r, Sizes DEF RxSlot
  <2>2. drv' = [drv EXCEPT !.rx = (@ + 1) % RxLen] /\ drv.pc = "scan" /\ device = "i8255x"
    BY <1>13 DEF EeproTake, Eepro
  <2>3. drv' \in DrvState /\ drv'.pc = "scan"
    BY <2>1, <2>2, <1>k DEF DrvState
  <2>4. rxd[drv.rx].buf.id \in Nat
    BY <1>k, <1>r DEF RxRec, UnitRec
  <2>5. rxd' \in [RxSlot -> RxRec]
    <3> DEFINE i == (drv.rx + RxLen - 1) % RxLen
               f == [FreshRx EXCEPT !.el = TRUE]
    <3>1. f \in RxRec
      BY FreshTypes DEF RxRec
    <3>2. rxd' = [[rxd EXCEPT ![i].el = FALSE] EXCEPT ![drv.rx] = f]
      BY <1>13 DEF EeproTake
    <3>3. i \in RxSlot
      BY <2>1
    <3> HIDE DEF i, f
    <3>4. [rxd EXCEPT ![i].el = FALSE] \in [RxSlot -> RxRec]
      BY <3>3, <1>k DEF RxRec
    <3> QED
      BY <3>1, <3>2, <3>4, <1>r
  <2> QED
    BY <1>13, <1>k, <2>2, <2>3, <2>4, <2>5
    DEF EeproTake, RxTypes, TxTypes, DrvTypes, MuesEnds, CtlInv, LockInv, Started
<1>14. CASE EeproComplete
  <2>1. drv' = [drv EXCEPT !.pc = "idle"] /\ drv.pc = "command" /\ device = "i8255x" /\ tx' = TxIdle
        /\ lock' = "none" /\ txd' = [txd EXCEPT ![tx.cur].own = FALSE] /\ rx' = rx
    BY <1>14 DEF EeproComplete, Eepro
  <2>2. drv' \in DrvState /\ drv'.pc = "idle"
    BY <2>1, <1>c, <1>k DEF DrvState
  <2>3. txd' \in [TxSlot -> TxRec]
    BY <2>1, <1>k DEF TxRec, TxState
  <2>4. tx' \in TxState /\ tx'.pc = "idle"
    BY <2>1, <1>k, TxStates DEF TxIdle
  <2>5. status' \in SUBSET Cause
    BY <1>14, <1>k DEF EeproComplete, EeproUpdateIrq, Cause, EeproCause
  <2>6. rx.pc = "idle"
    BY <2>1 DEF LockInv
  <2>7. RxTypes' /\ TxTypes' /\ DrvTypes'
    BY <1>14, <1>k, <2>1, <2>2, <2>3, <2>4, <2>5
    DEF EeproComplete, RxTypes, TxTypes, DrvTypes
  <2>8. MuesEnds' /\ CtlInv' /\ LockInv'
    BY <1>14, <2>1, <2>2, <2>4, <2>6
    DEF EeproComplete, MuesEnds, CtlInv, LockInv, Started
  <2> QED
    BY <2>7, <2>8
<1>15. CASE EeproRestart
  <2>1. drv' = [drv EXCEPT !.read = {}] /\ drv.pc = "scan" /\ device = "i8255x"
    BY <1>15 DEF EeproRestart, Eepro, Scanned
  <2>2. drv' \in DrvState /\ drv'.pc = "scan"
    BY <2>1, <1>k, <1>e DEF DrvState
  <2> QED
    BY <1>15, <1>k, <1>r, <2>1, <2>2
    DEF EeproRestart, RxTypes, TxTypes, DrvTypes, MuesEnds, CtlInv, LockInv, Started
<1>16. CASE DrvReclaim
  <2>1. drv' = [drv EXCEPT !.used = @ - 1] /\ drv.pc = "scan" /\ drv.used > 0
    BY <1>16 DEF DrvReclaim
  <2>2. drv.used - 1 \in 0..TxLen
    BY <1>r, <2>1, Sizes
  <2>3. drv' \in DrvState /\ drv'.pc = "scan"
    BY <2>1, <2>2, <1>k DEF DrvState
  <2> QED
    BY <1>16, <1>k, <2>1, <2>3
    DEF DrvReclaim, RxTypes, TxTypes, DrvTypes, MuesEnds, CtlInv, LockInv, Started
<1>17. CASE DrvDone
  <2>1. drv' = [drv EXCEPT !.pc = "idle"] /\ drv.pc = "scan"
    BY <1>17 DEF DrvDone, Scanned
  <2>2. drv' \in DrvState /\ drv'.pc = "idle"
    BY <2>1, <1>c, <1>k DEF DrvState
  <2> QED
    BY <1>17, <1>k, <2>1, <2>2
    DEF DrvDone, RxTypes, TxTypes, DrvTypes, MuesEnds, CtlInv, LockInv, Started
<1>18. CASE AmStop
  <2>1. drv' = [drv EXCEPT !.pc = "stopped"] /\ drv.pc = "idle" /\ device = "am79c971" /\ lock = "none"
        /\ UNCHANGED <<device, frames, rx, tx, lock, rxd, txd, queued>> /\ taken' = frames
    BY <1>18 DEF AmStop
  <2>2. drv' \in DrvState /\ drv'.pc = "stopped"
    BY <2>1, <1>c, <1>k DEF DrvState
  <2>3. status' = {} /\ ctl' = {"STOP"} \cup (ctl \cap {"DRX", "DTX"}) /\ rx_pos' = 0 /\ tx_pos' = 0
    BY <1>18 DEF AmStop, WriteCsr0, AmUpdateIrq
  <2>4. ctl' \cap RunBits = {} /\ tx.pc = "idle"
    BY <2>1, <2>3 DEF RunBits, LockInv
  <2>5. RxTypes' /\ TxTypes' /\ DrvTypes'
    BY <1>k, <1>z, <2>1, <2>2, <2>3 DEF RxTypes, TxTypes, DrvTypes
  <2>6. MuesEnds' /\ CtlInv' /\ LockInv'
    BY <2>1, <2>2, <2>4 DEF MuesEnds, CtlInv, LockInv, Started
  <2> QED
    BY <2>5, <2>6
<1>19. CASE \E mode \in Mode : AmMode(mode)
  <2>0. PICK mode \in Mode : AmMode(mode)
    BY <1>19
  <2>1. drv' = [drv EXCEPT !.pc = "idle", !.read = {}] /\ drv.pc = "idle" /\ device = "am79c971"
    BY <2>0 DEF AmMode
  <2>2. drv' \in DrvState /\ drv'.pc = "idle"
    BY <2>1, <1>c, <1>k, <1>e DEF DrvState
  <2> QED
    BY <2>0, <1>k, <2>1, <2>2
    DEF AmMode, RxTypes, TxTypes, DrvTypes, MuesEnds, CtlInv, LockInv, Started
<1> QED
  BY <1>1, <1>2, <1>3, <1>4, <1>5, <1>6, <1>7, <1>8, <1>9, <1>10, <1>11, <1>12, <1>13, <1>14,
     <1>15, <1>16,
     <1>17, <1>18, <1>19 DEF Starts, Interrupts, Acks, Scans

Driver == Queues \/ Starts \/ Interrupts \/ Acks \/ Scans \/ AmStop \/ \E mode \in Mode : AmMode(mode)
Still == UNCHANGED <<device, regVars, rx_pos, tx_pos, irq, lock, memVars, rx, tx, drv, ghostVars>>

\* Every step is one of these.
LEMMA Steps ==
  ASSUME [Next]_nicVars
  PROVE  Arrivals \/ RxThread \/ TxBegins \/ TxThread \/ Driver \/ Still
BY DEF Next, nicVars, ringVars, Driver, Still, SetNio, UnsetNio

\* The device is created with them.
LEMMA BaseInit == Init => Base
<1> SUFFICES ASSUME Init PROVE Base
  OBVIOUS
<1>1. RxIdle \in RxState
  BY Sizes DEF RxState, RxIdle, RxPc
<1>2. TxIdle \in TxState
  <2>1. <<>> \in Seq(UnitRec)
    OBVIOUS
  <2> QED
    BY <2>1, Sizes DEF TxState, TxIdle, TxPc
<1>3. DrvStopped \in DrvState
  BY Sizes DEF DrvState, DrvStopped, DrvPc
<1>4. RxTypes /\ TxTypes /\ DrvTypes
  BY <1>1, <1>2, <1>3, FreshTypes, Sizes DEF Init, RingInit, RxTypes, TxTypes, DrvTypes
<1>5. MuesEnds /\ CtlInv /\ LockInv
  BY DEF Init, RingInit, MuesEnds, CtlInv, LockInv, Started, RxIdle, TxIdle, DrvStopped,
     RunBits
<1> QED
  BY <1>4, <1>5 DEF Base

\* Every step keeps them.
LEMMA BaseStep == ASSUME Base, [Next]_nicVars PROVE Base'
<1>1. CASE Arrivals
  BY <1>1, ArrivalsBase
<1>2. CASE RxThread
  BY <1>2, RxThreadBase
<1>3. CASE TxBegins \/ TxThread
  BY <1>3, TxBase
<1>4. CASE Driver
  BY <1>4, DriverBase DEF Driver
<1>5. CASE Still
  BY <1>5 DEF Still, regVars, memVars, ghostVars, Base, RxTypes, TxTypes, DrvTypes, MuesEnds,
     CtlInv, LockInv, Started
<1> QED
  BY <1>1, <1>2, <1>3, <1>4, <1>5, Steps

-----------------------------------------------------------------------------
(* The transmit ring, seen from the oldest descriptor the driver uses.      *)

TxFirst == Ix(drv.tx, TxLen - drv.used, TxLen)
TxIx(e) == Ix(TxFirst, e, TxLen)
Desc(e) == txd[TxIx(e)]

\* At place e is unit number unit of packet id; behind the used descriptors the
\* next packet will begin.
Follows(e, id, unit, of) ==
  IF e = drv.used THEN id = queued + 1 /\ unit = 1
  ELSE Desc(e).buf.id = id /\ Desc(e).buf.unit = unit /\ (unit > 1 => Desc(e).buf.of = of)
Link(e) ==
  LET b == Desc(e).buf
  IN /\ Desc(e).own /\ Desc(e).stp = (b.unit = 1) /\ Desc(e).enp = (b.unit > 0 /\ b.unit = b.of)
     /\ b.unit <= b.of
     /\ b.unit = 0 => device = "dec21140" /\ b = NoUnit
     /\ IF b.unit < b.of THEN Follows(e + 1, b.id, b.unit + 1, b.of)
                         ELSE Follows(e + 1, b.id + 1, 1, 0)
\* What is done, what is being sent, what waits, and what is free.
TxSeg(c, t) ==
  /\ c \in 0..drv.used /\ t \in c..drv.used
  /\ \A e \in 0..c - 1 : ~Desc(e).own
  /\ \A e \in c..t - 1 : Desc(e).own = (e = c)
  /\ \A e \in t..drv.used - 1 : Link(e)
  /\ \A e \in drv.used..TxLen - 1 : ~Desc(e).own
  /\ tx_pos = TxIx(t)
  /\ device = "i8254x" => tx_end = drv.tx /\ c = t
SetupAt(t) == t < drv.used /\ Desc(t).buf.unit = 0 /\ sent = 0
Copied == \A k \in 1..Len(tx.pkt) :
            tx.pkt[k] = [id |-> sent + 1, unit |-> k, of |-> tx.pkt[1].of]
TxQuiet(c, t) == tx.pc \in {"idle", "single", "raise", "update"} =>
                   c = t /\ (Follows(t, sent + 1, 1, 0) \/ SetupAt(t))
TxCopying(c, t) == tx.pc = "copy" =>
  /\ t < drv.used /\ Copied
  /\ Follows(t, sent + 1, Len(tx.pkt) + 1, IF tx.pkt = <<>> THEN 0 ELSE tx.pkt[1].of)
  /\ device # "i8254x" => tx.cur = TxIx(t) /\ tx.start = TxIx(c) /\ (c = t) = (tx.pkt = <<>>)
TxSending(c, t) == tx.pc = "send" =>
  /\ tx.pkt # <<>> /\ tx.pkt[1].of = Len(tx.pkt) /\ Copied
  /\ Follows(t, sent + 2, 1, 0)
  /\ device # "i8254x" => c < t /\ tx.start = TxIx(c)
TxClearing(c, t) == tx.pc = "clear" =>
  device # "i8254x" /\ c < t /\ tx.start = TxIx(c) /\ Follows(t, sent + 1, 1, 0)
TxShape(c, t) ==
  TxSeg(c, t) /\ TxQuiet(c, t) /\ TxCopying(c, t) /\ TxSending(c, t) /\ TxClearing(c, t)
TxEepro ==
  /\ \A e \in 0..TxLen - 1 : Desc(e).own = (drv.pc = "command" /\ e = drv.used - 1)
  /\ "CU_SUSPEND" \in ctl => Ix(tx_pos, 1, TxLen) = drv.tx
  /\ drv.pc = "command" =>
       /\ queued = sent + 1 /\ drv.used > 0 /\ tx.cur = tx_pos /\ "CU_SUSPEND" \in ctl
       /\ tx.pkt # <<>> /\ Copied /\ tx.pkt[1].of = Len(tx.pkt)
  /\ drv.pc # "command" => queued = sent
StoppedTx ==
  ~Started => /\ tx_pos = 0 /\ sent = queued /\ (device # "am79c971" => sent = 0)
              /\ drv.pc = "prepared" =>
                   /\ txd = [i \in TxSlot |-> FreshTx]
                   /\ drv = [DrvStopped EXCEPT !.pc = "prepared"]
TxInv ==
  /\ sent \in Nat /\ StoppedTx
  /\ Started => IF device = "i8255x" THEN TxEepro ELSE \E c, t \in 0..drv.used : TxShape(c, t)

\* The transmit ring from the oldest descriptor: its places are slots.
LEMMA TxPlaces ==
  ASSUME DrvTypes
  PROVE  /\ TxFirst \in TxSlot /\ TxFirst = Oldest
         /\ \A e \in 0..TxLen : TxIx(e) \in TxSlot
         /\ TxIx(0) = TxFirst /\ TxIx(TxLen) = TxFirst /\ TxIx(drv.used) = drv.tx
         /\ drv.used \in 0..TxLen /\ TxLen \in Nat \ {0} /\ TxSlot = 0..TxLen - 1
<1>1. drv.tx \in 0..TxLen - 1 /\ drv.used \in 0..TxLen /\ TxLen \in Nat \ {0}
  BY Sizes DEF DrvTypes, DrvState, TxSlot
<1>2. TxLen - drv.used \in 0..TxLen
  BY <1>1
<1>3. TxFirst \in 0..TxLen - 1
  BY <1>1, <1>2, IxSlot DEF TxFirst
<1>4. TxFirst = Oldest
  <2>1. (drv.tx + (TxLen - drv.used)) % TxLen = TxFirst
    BY <1>1, <1>2, ModIx DEF TxFirst
  <2>2. drv.tx + (TxLen - drv.used) = drv.tx + TxLen - drv.used
    BY <1>1
  <2> QED
    BY <2>1, <2>2 DEF Oldest
<1>5. \A e \in 0..TxLen : TxIx(e) \in 0..TxLen - 1
  BY <1>1, <1>3, IxSlot DEF TxIx
<1>6. TxIx(0) = TxFirst /\ TxIx(TxLen) = TxFirst
  BY <1>1, <1>3, IxZero DEF TxIx
<1>7. TxIx(drv.used) = drv.tx
  <2>1. Ix(Ix(drv.tx, TxLen - drv.used, TxLen), drv.used, TxLen) = Ix(drv.tx, TxLen, TxLen)
    <3>1. (TxLen - drv.used) + drv.used = TxLen
      BY <1>1
    <3> QED
      BY <1>1, <1>2, <3>1, IxShift
  <2> QED
    BY <2>1, <1>1, IxZero DEF TxIx, TxFirst
<1> QED
  BY <1>1, <1>3, <1>4, <1>5, <1>6, <1>7 DEF TxSlot

\* Different places of it are different slots.
LEMMA TxDistinct ==
  ASSUME DrvTypes, NEW i \in 0..TxLen - 1, NEW j \in 0..TxLen - 1
  PROVE  (TxIx(i) = TxIx(j)) = (i = j)
BY TxPlaces, IxInjective DEF TxIx

\* The next place of it, as the devices step to it.
LEMMA TxNextPlace ==
  ASSUME DrvTypes, NEW e \in 0..TxLen - 1
  PROVE  /\ TxIx(e + 1) = IF TxIx(e) + 1 = TxLen THEN 0 ELSE TxIx(e) + 1
         /\ TxIx(e + 1) = IF TxIx(e) = TxLen - 1 THEN 0 ELSE TxIx(e) + 1
         /\ TxIx(e + 1) = (TxIx(e) + 1) % TxLen
<1>1. TxFirst \in 0..TxLen - 1 /\ TxLen \in Nat /\ TxIx(e) \in 0..TxLen - 1 /\ 1 \in 0..TxLen
  BY TxPlaces
<1>2. TxIx(e + 1) = Ix(TxIx(e), 1, TxLen)
  BY <1>1, IxNext DEF TxIx
<1>3. Ix(TxIx(e), 1, TxLen) = (TxIx(e) + 1) % TxLen
  BY <1>1, ModIx
<1>4. /\ TxIx(e + 1) = IF TxIx(e) + 1 = TxLen THEN 0 ELSE TxIx(e) + 1
      /\ TxIx(e + 1) = IF TxIx(e) = TxLen - 1 THEN 0 ELSE TxIx(e) + 1
  BY <1>1, IxNext DEF TxIx
<1> QED
  BY <1>2, <1>3, <1>4

\* A descriptor in the ring, and what a write to one does.
LEMMA DescTypes ==
  ASSUME DrvTypes, TxTypes, NEW e \in 0..TxLen - 1
  PROVE  /\ Desc(e) \in TxRec /\ Desc(e).buf \in UnitRec
         /\ Desc(e).buf.id \in Nat /\ Desc(e).buf.unit \in Nat /\ Desc(e).buf.of \in Nat
<1>1. TxIx(e) \in TxSlot
  BY TxPlaces
<1>2. Desc(e) \in TxRec
  BY <1>1 DEF Desc, TxTypes
<1> QED
  BY <1>2 DEF TxRec, UnitRec

\* The ring is seen alike as long as the driver's position stays.
LEMMA TxView ==
  ASSUME UNCHANGED drv
  PROVE  /\ TxFirst' = TxFirst /\ \A e : TxIx(e)' = TxIx(e)
         /\ \A e : Desc(e)' = txd'[TxIx(e)]
BY DEF TxFirst, TxIx, Desc

\* What the steps of other threads keep.
LEMMA TxKept ==
  ASSUME TxInv, UNCHANGED <<device, drv, tx, tx_pos, txd, queued, sent, tx_end>>,
         ("CU_SUSPEND" \in ctl') = ("CU_SUSPEND" \in ctl)
  PROVE  TxInv'
BY DEF TxInv, StoppedTx, TxEepro, TxShape, TxSeg, TxQuiet, TxCopying, TxSending, TxClearing,
       SetupAt, Copied, Link, Follows, Desc, TxIx, TxFirst, Started

\* Receiving leaves the transmit invariant alone.
LEMMA TxKeptByRx ==
  ASSUME TxInv, RxOnly
  PROVE  TxInv'
BY TxKept DEF RxOnly

\* Only the record of the scanner and the count of sent packets change.
LEMMA SegKept ==
  ASSUME NEW c, NEW t, TxSeg(c, t), UNCHANGED <<device, drv, tx_pos, txd, queued, tx_end>>
  PROVE  /\ TxSeg(c, t)'
         /\ \A id, unit, of : Follows(t, id, unit, of)' = Follows(t, id, unit, of)
BY DEF TxSeg, Link, Follows, Desc, TxIx, TxFirst

\* A packet is found: not a setup frame.
LEMMA BeginShape ==
  ASSUME Base, NEW c, NEW t, TxShape(c, t), t < drv.used, ~SetupAt(t),
         tx.pc \in {"idle", "single"}, tx' = TxBegin,
         UNCHANGED <<device, drv, tx_pos, txd, queued, tx_end, sent>>
  PROVE  TxShape(c, t)'
<1>1. TxSeg(c, t)' /\ Follows(t, sent + 1, 1, 0)' /\ c = t
  BY SegKept DEF TxShape, TxQuiet
<1>2. /\ tx'.pc = "copy" /\ tx'.start = tx_pos /\ tx'.cur = tx_pos /\ tx'.pkt = <<>>
      /\ Len(tx'.pkt) = 0
  BY DEF TxBegin, Base, TxTypes, TxState
<1>3. tx_pos = TxIx(t) /\ TxIx(t)' = TxIx(t)
  BY TxView DEF TxShape, TxSeg
<1>4. Copied'
  BY <1>2 DEF Copied
<1>5. TxCopying(c, t)'
  BY <1>1, <1>2, <1>3, <1>4 DEF TxCopying
<1>6. TxQuiet(c, t)' /\ TxSending(c, t)' /\ TxClearing(c, t)'
  BY <1>2 DEF TxQuiet, TxSending, TxClearing
<1> QED
  BY <1>1, <1>5, <1>6 DEF TxShape

\* A run, or a packet, ends.
LEMMA RestShape ==
  ASSUME Base, NEW c, NEW t, TxShape(c, t), tx.pc \in {"idle", "single", "raise", "update"},
         tx'.pc \in {"idle", "single", "raise", "update"},
         UNCHANGED <<device, drv, tx_pos, txd, queued, tx_end, sent>>
  PROVE  TxShape(c, t)'
<1>1. TxSeg(c, t)' /\ Follows(t, sent + 1, 1, 0)' = Follows(t, sent + 1, 1, 0)
  BY SegKept DEF TxShape
<1>2. SetupAt(t)' = SetupAt(t)
  BY TxView DEF SetupAt, Desc
<1>3. TxQuiet(c, t)'
  BY <1>1, <1>2 DEF TxShape, TxQuiet
<1>4. TxCopying(c, t)' /\ TxSending(c, t)' /\ TxClearing(c, t)'
  BY DEF TxCopying, TxSending, TxClearing
<1> QED
  BY <1>1, <1>3, <1>4 DEF TxShape

\* One more unit is in the packet.
LEMMA CopiedMore ==
  ASSUME Base, NEW b \in UnitRec, Copied, tx'.pkt = Append(tx.pkt, b), sent' = sent,
         b.id = sent + 1, b.unit = Len(tx.pkt) + 1,
         b.unit > 1 => b.of = tx.pkt[1].of
  PROVE  /\ Copied' /\ tx'.pkt # <<>> /\ tx'.pkt[1].of = b.of
         /\ Len(tx'.pkt) = Len(tx.pkt) + 1
<1>1. tx.pkt \in Seq(UnitRec)
  BY DEF Base, TxTypes, TxState
<1> DEFINE n == Len(tx.pkt)
<1>2. /\ Len(tx'.pkt) = n + 1 /\ tx'.pkt # <<>> /\ n \in Nat
      /\ tx'.pkt[n + 1] = b /\ \A k \in 1..n : tx'.pkt[k] = tx.pkt[k]
  BY <1>1
<1>3. tx'.pkt[1].of = b.of
  BY <1>2
<1>4. b = [id |-> sent + 1, unit |-> n + 1, of |-> b.of]
  BY DEF UnitRec
<1>5. ASSUME NEW k \in 1..n PROVE tx'.pkt[k] = [id |-> sent + 1, unit |-> k, of |-> b.of]
  <2>1. tx.pkt[k] = [id |-> sent + 1, unit |-> k, of |-> tx.pkt[1].of]
    BY DEF Copied
  <2>2. b.of = tx.pkt[1].of
    BY <1>2
  <2> QED
    BY <1>2, <2>1, <2>2
<1>6. \A k \in 1..n + 1 : tx'.pkt[k] = [id |-> sent + 1, unit |-> k, of |-> b.of]
  BY <1>2, <1>4, <1>5
<1>7. Copied'
  BY <1>2, <1>3, <1>6 DEF Copied
<1> QED
  BY <1>2, <1>3, <1>7

\* The descriptor at which the scanner is.
LEMMA CopyAt ==
  ASSUME Base, sent \in Nat, NEW c, NEW t, TxShape(c, t), tx.pc = "copy"
  PROVE  /\ t \in 0..drv.used - 1 /\ t \in 0..TxLen - 1 /\ c \in 0..t
         /\ Link(t) /\ Desc(t).buf.id = sent + 1 /\ Desc(t).buf.unit = Len(tx.pkt) + 1
         /\ Desc(t).buf.unit > 1 => Desc(t).buf.of = tx.pkt[1].of
         /\ Desc(t).buf \in UnitRec /\ tx_pos = TxIx(t) /\ tx_pos \in TxSlot
         /\ ~Desc(t).enp => t + 1 < drv.used /\ Desc(t + 1).own
         /\ IF Desc(t).enp THEN Follows(t + 1, sent + 2, 1, 0)
                           ELSE Follows(t + 1, sent + 1, Len(tx.pkt) + 2, Desc(t).buf.of)
         /\ Desc(t).enp => Desc(t).buf.of = Len(tx.pkt) + 1
<1>t. DrvTypes /\ TxTypes
  BY DEF Base
<1>1. /\ t < drv.used /\ Follows(t, sent + 1, Len(tx.pkt) + 1, IF tx.pkt = <<>> THEN 0 ELSE tx.pkt[1].of)
      /\ t \in c..drv.used /\ c \in 0..drv.used /\ tx_pos = TxIx(t)
      /\ \A e \in t..drv.used - 1 : Link(e)
  BY DEF TxShape, TxSeg, TxCopying
<1>2. drv.used \in 0..TxLen /\ TxLen \in Nat
  BY <1>t, TxPlaces
<1>3. t \in 0..drv.used - 1 /\ t \in 0..TxLen - 1 /\ c \in 0..t /\ t # drv.used
  BY <1>1, <1>2
<1>4. Link(t)
  BY <1>1, <1>3
<1>5. tx.pkt \in Seq(UnitRec) /\ Len(tx.pkt) \in Nat /\ (tx.pkt = <<>> => Len(tx.pkt) = 0)
  BY <1>t DEF TxTypes, TxState
<1>6. /\ Desc(t).buf.id = sent + 1 /\ Desc(t).buf.unit = Len(tx.pkt) + 1
      /\ Desc(t).buf.unit > 1 => Desc(t).buf.of = tx.pkt[1].of
  <2>1. CASE tx.pkt = <<>>
    BY <1>1, <1>3, <1>5, <2>1 DEF Follows
  <2>2. CASE tx.pkt # <<>>
    BY <1>1, <1>3, <1>5, <2>2 DEF Follows
  <2> QED
    BY <2>1, <2>2
<1>7. Desc(t).buf \in UnitRec /\ Desc(t).buf.of \in Nat
  BY <1>t, <1>3, DescTypes
<1> DEFINE u == Desc(t).buf.unit
           o == Desc(t).buf.of
<1>b. Desc(t).enp \in BOOLEAN
  BY <1>t, <1>3, DescTypes DEF TxRec
<1>l. /\ (Desc(t).enp => u = o) /\ (~Desc(t).enp => u # o) /\ u <= o /\ u > 0 /\ u \in Nat /\ o \in Nat
      /\ u < o => Follows(t + 1, sent + 1, u + 1, o)
      /\ ~ (u < o) => Follows(t + 1, sent + 1 + 1, 1, 0)
  <2>1. /\ Desc(t).enp = (u > 0 /\ u = o) /\ u <= o
        /\ IF u < o THEN Follows(t + 1, Desc(t).buf.id, u + 1, o)
                    ELSE Follows(t + 1, Desc(t).buf.id + 1, 1, 0)
    BY <1>4 DEF Link
  <2>2. u = Len(tx.pkt) + 1 /\ Desc(t).buf.id = sent + 1
    BY <1>6
  <2>3. u \in Nat /\ u > 0 /\ o \in Nat
    BY <2>2, <1>5, <1>7
  <2> QED
    BY <2>1, <2>2, <2>3, <1>b
<1>u. u = Len(tx.pkt) + 1
  BY <1>6
<1>o. o = Desc(t).buf.of
  OBVIOUS
<1> HIDE DEF u, o
<1>8. ~Desc(t).enp => t + 1 < drv.used /\ Desc(t + 1).own
  <2> SUFFICES ASSUME ~Desc(t).enp PROVE t + 1 < drv.used /\ Desc(t + 1).own
    OBVIOUS
  <2>1. u < o
    BY <1>l, <1>b
  <2>2. Follows(t + 1, sent + 1, u + 1, o)
    BY <1>l, <2>1
  <2>3. t + 1 # drv.used
    BY <2>2, <1>l DEF Follows
  <2>4. t + 1 \in t..drv.used - 1
    BY <2>3, <1>2, <1>3
  <2>5. Link(t + 1)
    BY <2>4, <1>1
  <2> QED
    BY <2>4, <2>5, <1>2 DEF Link
<1>9. IF Desc(t).enp THEN Follows(t + 1, sent + 2, 1, 0)
                     ELSE Follows(t + 1, sent + 1, Len(tx.pkt) + 2, Desc(t).buf.of)
  <2>1. CASE Desc(t).enp
    <3>1. ~ (u < o)
      BY <2>1, <1>l, <1>b
    <3>2. sent + 1 + 1 = sent + 2
      OBVIOUS
    <3> QED
      BY <2>1, <3>1, <3>2, <1>l
  <2>2. CASE ~Desc(t).enp
    <3>1. u < o
      BY <2>2, <1>l, <1>b
    <3>2. u + 1 = Len(tx.pkt) + 2
      BY <1>5, <1>u
    <3>3. Follows(t + 1, sent + 1, u + 1, o)
      BY <3>1, <1>l
    <3> QED
      BY <2>2, <3>3, <3>2, <1>o
  <2> QED
    BY <2>1, <2>2
<1>10. Desc(t).enp => Desc(t).buf.of = Len(tx.pkt) + 1
  BY <1>l, <1>u, <1>o
<1> QED
  BY <1>1, <1>3, <1>4, <1>6, <1>7, <1>8, <1>9, <1>10, <1>t DEF TxTypes

\* A descriptor is copied and given back, unless it is the first one.
LEMMA CopyShape ==
  ASSUME Base, sent \in Nat, NEW c, NEW t, TxShape(c, t), device # "i8254x", NEW unlocked,
         RingCopy(TxIx(t + 1), unlocked), UNCHANGED <<device, drv, queued, tx_end>>
  PROVE  TxShape(c, t + 1)'
<1>t. DrvTypes /\ TxTypes
  BY DEF Base
<1>pc. tx.pc = "copy"
  BY DEF RingCopy
<1>1. /\ t \in 0..drv.used - 1 /\ t \in 0..TxLen - 1 /\ c \in 0..t
      /\ Link(t) /\ Desc(t).buf.id = sent + 1 /\ Desc(t).buf.unit = Len(tx.pkt) + 1
      /\ Desc(t).buf.unit > 1 => Desc(t).buf.of = tx.pkt[1].of
      /\ Desc(t).buf \in UnitRec /\ tx_pos = TxIx(t)
      /\ ~Desc(t).enp => t + 1 < drv.used /\ Desc(t + 1).own
      /\ IF Desc(t).enp THEN Follows(t + 1, sent + 2, 1, 0)
                        ELSE Follows(t + 1, sent + 1, Len(tx.pkt) + 2, Desc(t).buf.of)
      /\ Desc(t).enp => Desc(t).buf.of = Len(tx.pkt) + 1
  BY <1>pc, CopyAt
<1>p. /\ drv.used \in 0..TxLen /\ TxLen \in Nat /\ \A e \in 0..TxLen : TxIx(e) \in TxSlot
  BY <1>t, TxPlaces
<1>2. tx.cur = TxIx(t) /\ tx.start = TxIx(c) /\ (c = t) = (tx.pkt = <<>>) /\ Copied
  BY <1>pc DEF TxShape, TxCopying
<1>3. txd' = [txd EXCEPT ![TxIx(t)].own = Desc(t).stp]
  BY <1>2 DEF RingCopy, Desc
<1>4. \A e \in 0..TxLen - 1 : /\ e # t => Desc(e)' = Desc(e)
                              /\ Desc(e)'.buf = Desc(e).buf /\ Desc(e)'.stp = Desc(e).stp
                              /\ Desc(e)'.enp = Desc(e).enp
                              /\ Desc(t)'.own = Desc(t).stp
  <2> TAKE e \in 0..TxLen - 1
  <2>1. TxIx(e) \in TxSlot /\ TxIx(t) \in TxSlot /\ (TxIx(e) = TxIx(t)) = (e = t)
    BY <1>1, <1>p, <1>t, TxDistinct
  <2>2. Desc(e)' = txd'[TxIx(e)] /\ Desc(t)' = txd'[TxIx(t)]
    BY TxView
  <2>3. Desc(e) \in TxRec /\ txd \in [TxSlot -> TxRec]
    BY <1>t, DescTypes DEF TxTypes
  <2> QED
    BY <1>3, <2>1, <2>2, <2>3 DEF Desc, TxRec
<1>5. \A e \in 0..TxLen : TxIx(e)' = TxIx(e)
  BY TxView
<1>6. \A e, id, unit, of : e \in 0..drv.used => Follows(e, id, unit, of)' = Follows(e, id, unit, of)
  <2> TAKE e, id, unit, of
  <2> HAVE e \in 0..drv.used
  <2>1. CASE e = drv.used
    BY <2>1 DEF Follows
  <2>2. CASE e # drv.used
    <3>1. e \in 0..TxLen - 1
      BY <2>2, <1>p
    <3> QED
      BY <3>1, <1>4, <2>2 DEF Follows
  <2> QED
    BY <2>1, <2>2
<1>7. TxSeg(c, t)
  BY DEF TxShape
<1>8. Desc(t)'.own = (t = c)
  <2>1. Desc(t).stp = (Desc(t).buf.unit = 1)
    BY <1>1 DEF Link
  <2>2. (Len(tx.pkt) = 0) = (tx.pkt = <<>>) /\ Len(tx.pkt) \in Nat
    BY <1>t DEF TxTypes, TxState
  <2>3. Desc(t)'.own = Desc(t).stp
    BY <1>1, <1>4
  <2> QED
    BY <1>1, <1>2, <2>1, <2>2, <2>3
<1>9. \A e \in t + 1..drv.used - 1 : Link(e)'
  <2> TAKE e \in t + 1..drv.used - 1
  <2>1. e \in t..drv.used - 1 /\ e \in 0..TxLen - 1 /\ e # t /\ e + 1 \in 0..drv.used
    BY <1>1, <1>p
  <2>2. Link(e) /\ Desc(e)' = Desc(e)
    BY <1>4, <1>7, <2>1 DEF TxSeg
  <2>3. \A id, unit, of : Follows(e + 1, id, unit, of)' = Follows(e + 1, id, unit, of)
    BY <2>1, <1>6
  <2> QED
    BY <2>2, <2>3 DEF Link
<1>10. TxSeg(c, t + 1)'
  <2>1. c \in 0..drv.used /\ t + 1 \in c..drv.used
    BY <1>1, <1>p
  <2>2. \A e \in 0..c - 1 : ~Desc(e)'.own
    <3> TAKE e \in 0..c - 1
    <3>1. e \in 0..TxLen - 1 /\ e # t
      BY <1>1, <1>p
    <3> QED
      BY <3>1, <1>4, <1>7 DEF TxSeg
  <2>3. \A e \in c..(t + 1) - 1 : Desc(e)'.own = (e = c)
    <3> TAKE e \in c..(t + 1) - 1
    <3>1. e \in 0..TxLen - 1 /\ (e # t => e \in c..t - 1)
      BY <1>1, <1>p
    <3> QED
      BY <3>1, <1>4, <1>7, <1>8 DEF TxSeg
  <2>4. \A e \in drv.used..TxLen - 1 : ~Desc(e)'.own
    <3> TAKE e \in drv.used..TxLen - 1
    <3>1. e \in 0..TxLen - 1 /\ e # t
      BY <1>1, <1>p
    <3> QED
      BY <3>1, <1>4, <1>7 DEF TxSeg
  <2>5. tx_pos' = TxIx(t + 1)'
    <3>1. t + 1 \in 0..TxLen
      BY <1>1, <1>p
    <3> QED
      BY <3>1, <1>5 DEF RingCopy
  <2> QED
    BY <1>9, <2>1, <2>2, <2>3, <2>4, <2>5 DEF TxSeg
<1>11. /\ tx' = [tx EXCEPT !.pc = IF Desc(t).enp THEN "send" ELSE "copy",
                           !.cur = TxIx(t + 1), !.pkt = Append(@, Desc(t).buf)]
  <2>1. Desc(t).enp \/ txd'[TxIx(t + 1)].own
    <3>1. CASE ~Desc(t).enp
      <4>1. t + 1 \in 0..TxLen - 1 /\ t + 1 # t
        BY <3>1, <1>1, <1>p
      <4>2. Desc(t + 1)' = Desc(t + 1) /\ Desc(t + 1)' = txd'[TxIx(t + 1)]
        BY <4>1, <1>4, TxView
      <4> QED
        BY <3>1, <1>1, <4>2
    <3> QED
      BY <3>1
  <2> QED
    BY <2>1, <1>2 DEF RingCopy, Desc
<1>12. /\ tx'.pc = (IF Desc(t).enp THEN "send" ELSE "copy") /\ tx'.cur = TxIx(t + 1)
       /\ tx'.pkt = Append(tx.pkt, Desc(t).buf) /\ tx'.start = tx.start
  BY <1>11, <1>t DEF TxTypes, TxState
<1>13. /\ Copied' /\ tx'.pkt # <<>> /\ tx'.pkt[1].of = Desc(t).buf.of
       /\ Len(tx'.pkt) = Len(tx.pkt) + 1 /\ sent' = sent
  <2>1. sent' = sent
    BY DEF RingCopy
  <2> QED
    BY <2>1, <1>1, <1>2, <1>12, CopiedMore
<1>14. Len(tx.pkt) \in Nat /\ t + 1 \in 0..drv.used /\ t + 1 \in 0..TxLen /\ c # t + 1 /\ c \in 0..TxLen
       /\ c < t + 1
  BY <1>t, <1>1, <1>p DEF TxTypes, TxState
<1>q. TxIx(t + 1)' = TxIx(t + 1) /\ TxIx(c)' = TxIx(c) /\ drv' = drv /\ device' = device
  BY <1>5, <1>14
<1>15. TxCopying(c, t + 1)'
  <2> SUFFICES ASSUME tx'.pc = "copy" PROVE TxCopying(c, t + 1)'
    BY DEF TxCopying
  <2>1. ~Desc(t).enp
    BY <1>12
  <2>i. \E i, n, f : i = sent' + 1 /\ n = Len(tx'.pkt) + 1
                     /\ f = IF tx'.pkt = <<>> THEN 0 ELSE tx'.pkt[1].of
    OBVIOUS
  <2>p. PICK id, unit, of : /\ id = sent' + 1 /\ unit = Len(tx'.pkt) + 1
                            /\ of = IF tx'.pkt = <<>> THEN 0 ELSE tx'.pkt[1].of
    BY <2>i
  <2>2. id = sent + 1 /\ unit = Len(tx.pkt) + 2 /\ of = Desc(t).buf.of
    BY <2>p, <1>13, <1>14
  <2>3. Follows(t + 1, id, unit, of)
    BY <2>1, <2>2, <1>1
  <2>4. Follows(t + 1, id, unit, of)'
    BY <2>3, <1>6, <1>14
  <2>5. t + 1 < drv.used
    BY <2>1, <1>1
  <2>6. Follows(t + 1, sent + 1, Len(tx.pkt) + 1, IF tx.pkt = <<>> THEN 0 ELSE tx.pkt[1].of)'
    BY <2>4, <2>p DEF Follows
  <2>7. tx'.cur = TxIx(t + 1)' /\ tx'.start = TxIx(c)' /\ (c = t + 1) = (tx'.pkt = <<>>)
    BY <1>2, <1>q, <1>12, <1>13, <1>14
  <2> QED
    BY <2>5, <2>6, <2>7, <1>q, <1>13 DEF TxCopying
<1>16. TxSending(c, t + 1)'
  <2> SUFFICES ASSUME tx'.pc = "send" PROVE TxSending(c, t + 1)'
    BY DEF TxSending
  <2>1. Desc(t).enp
    BY <1>12
  <2>i. \E i : i = sent' + 2
    OBVIOUS
  <2>p. PICK id : id = sent' + 2
    BY <2>i
  <2>2. id = sent + 2
    BY <2>p, <1>13
  <2>3. Follows(t + 1, id, 1, 0)
    BY <2>1, <2>2, <1>1
  <2>4. Follows(t + 1, id, 1, 0)'
    BY <2>3, <1>6, <1>14
  <2>5. Follows(t + 1, sent + 2, 1, 0)'
    BY <2>4, <2>p DEF Follows
  <2>6. tx'.start = TxIx(c)' /\ tx'.pkt[1].of = Len(tx'.pkt)
    BY <2>1, <1>1, <1>2, <1>q, <1>12, <1>13
  <2> QED
    BY <2>5, <2>6, <1>q, <1>13, <1>14 DEF TxSending
<1>17. TxQuiet(c, t + 1)' /\ TxClearing(c, t + 1)'
  BY <1>12 DEF TxQuiet, TxClearing
<1> QED
  BY <1>10, <1>15, <1>16, <1>17 DEF TxShape

\* The packet goes out.
LEMMA SendShape ==
  ASSUME Base, sent \in Nat, NEW c, NEW t, TxShape(c, t), NEW pc, RingSend(pc),
         pc = IF device = "i8254x" THEN "raise" ELSE "clear"
  PROVE  TxShape(c, t)' /\ sent' = sent + 1
<1>1. /\ tx.pc = "send" /\ tx' = [tx EXCEPT !.pc = pc, !.pkt = <<>>] /\ sent' = tx.pkt[1].id
      /\ UNCHANGED <<device, drv, tx_pos, txd, queued, tx_end>>
  BY DEF RingSend, Only, NoDriver, NoRegs, regVars
<1>2. TxSeg(c, t)' /\ \A id, unit, of : Follows(t, id, unit, of)' = Follows(t, id, unit, of)
  BY <1>1, SegKept DEF TxShape
<1>3. /\ tx.pkt # <<>> /\ Copied /\ Follows(t, sent + 2, 1, 0)
      /\ device # "i8254x" => c < t /\ tx.start = TxIx(c)
  BY <1>1 DEF TxShape, TxSending
<1>4. sent' = sent + 1
  <2>1. tx.pkt \in Seq(UnitRec)
    BY DEF Base, TxTypes, TxState
  <2>2. 1 \in 1..Len(tx.pkt)
    BY <2>1, <1>3
  <2>3. tx.pkt[1] = [id |-> sent + 1, unit |-> 1, of |-> tx.pkt[1].of]
    BY <2>2, <1>3 DEF Copied
  <2> DEFINE p == tx.pkt[1]
             o == tx.pkt[1].of
  <2>4. p = [id |-> sent + 1, unit |-> 1, of |-> o] /\ sent' = p.id
    BY <2>3, <1>1
  <2> HIDE DEF p, o
  <2> QED
    BY <2>4
<1>5. Follows(t, sent + 1, 1, 0)'
  <2>1. \E i : i = sent + 2
    OBVIOUS
  <2>2. PICK id : id = sent + 2
    BY <2>1
  <2>3. Follows(t, id, 1, 0)'
    BY <2>2, <1>2, <1>3
  <2>4. sent' + 1 = id
    BY <2>2, <1>4
  <2> QED
    BY <2>3, <2>4 DEF Follows
<1>6. tx'.pc = pc /\ tx'.start = tx.start
  BY <1>1 DEF Base, TxTypes, TxState
<1>7. device = "i8254x" => c = t
  BY DEF TxShape, TxSeg
<1>8. TxIx(c)' = TxIx(c)
  BY <1>1, TxView
<1>9. TxQuiet(c, t)' /\ TxClearing(c, t)' /\ TxCopying(c, t)' /\ TxSending(c, t)'
  BY <1>1, <1>3, <1>5, <1>6, <1>7, <1>8 DEF TxQuiet, TxClearing, TxCopying, TxSending
<1> QED
  BY <1>2, <1>4, <1>9 DEF TxShape

\* A write of the ownership of the descriptor at place i changes nothing else.
LEMMA OwnWritten ==
  ASSUME DrvTypes, TxTypes, NEW i \in 0..TxLen - 1, NEW b \in BOOLEAN,
         txd' = [txd EXCEPT ![TxIx(i)].own = b], UNCHANGED drv
  PROVE  /\ \A e \in 0..TxLen - 1 :
              /\ e # i => Desc(e)' = Desc(e)
              /\ Desc(e)'.buf = Desc(e).buf /\ Desc(e)'.stp = Desc(e).stp
              /\ Desc(e)'.enp = Desc(e).enp
         /\ Desc(i)'.own = b
         /\ \A e : TxIx(e)' = TxIx(e)
<1>1. ASSUME NEW e \in 0..TxLen - 1
      PROVE  /\ e # i => Desc(e)' = Desc(e)
             /\ Desc(e)'.buf = Desc(e).buf /\ Desc(e)'.stp = Desc(e).stp
             /\ Desc(e)'.enp = Desc(e).enp
             /\ Desc(i)'.own = b
  <2>1. TxIx(e) \in TxSlot /\ TxIx(i) \in TxSlot /\ (TxIx(e) = TxIx(i)) = (e = i)
    BY TxPlaces, TxDistinct
  <2>2. Desc(e)' = txd'[TxIx(e)] /\ Desc(i)' = txd'[TxIx(i)]
    BY TxView
  <2>3. Desc(e) \in TxRec /\ txd \in [TxSlot -> TxRec]
    BY DescTypes DEF TxTypes
  <2> QED
    BY <2>1, <2>2, <2>3 DEF Desc, TxRec
<1> QED
  BY <1>1, TxView

\* What follows a place does not depend on who owns the descriptors.
LEMMA FollowsKept ==
  ASSUME DrvTypes, UNCHANGED <<drv, queued>>, NEW e \in 0..drv.used,
         e # drv.used => Desc(e)'.buf = Desc(e).buf
  PROVE  \A id, unit, of : Follows(e, id, unit, of)' = Follows(e, id, unit, of)
BY DEF Follows

\* The first descriptor of the packet is given back.
LEMMA ClearShape ==
  ASSUME Base, sent \in Nat, NEW c, NEW t, TxShape(c, t), RingClear
  PROVE  TxShape(t, t)' /\ t \in 0..drv.used
<1>t. DrvTypes /\ TxTypes
  BY DEF Base
<1>1. /\ tx.pc = "clear" /\ txd' = [txd EXCEPT ![tx.start].own = FALSE]
      /\ tx' = [tx EXCEPT !.pc = "raise"]
      /\ UNCHANGED <<device, drv, tx_pos, sent, queued, tx_end>>
  BY DEF RingClear, Only, NoDriver, NoRegs, regVars
<1>2. device # "i8254x" /\ c < t /\ tx.start = TxIx(c) /\ Follows(t, sent + 1, 1, 0)
  BY <1>1 DEF TxShape, TxClearing
<1>3. TxSeg(c, t)
  BY DEF TxShape
<1>p. /\ drv.used \in 0..TxLen /\ TxLen \in Nat
  BY <1>t, TxPlaces
<1>4. c \in 0..TxLen - 1 /\ t \in 0..drv.used /\ c \in 0..drv.used /\ t \in c..drv.used
  BY <1>2, <1>3, <1>p DEF TxSeg
<1>5. /\ \A e \in 0..TxLen - 1 :
              /\ e # c => Desc(e)' = Desc(e)
              /\ Desc(e)'.buf = Desc(e).buf /\ Desc(e)'.stp = Desc(e).stp
              /\ Desc(e)'.enp = Desc(e).enp
      /\ Desc(c)'.own = FALSE
      /\ \A e : TxIx(e)' = TxIx(e)
  BY <1>t, <1>1, <1>2, <1>4, OwnWritten
<1>6. \A e \in 0..drv.used : \A id, unit, of : Follows(e, id, unit, of)' = Follows(e, id, unit, of)
  <2> TAKE e \in 0..drv.used
  <2>1. e # drv.used => e \in 0..TxLen - 1
    BY <1>p
  <2> QED
    BY <2>1, <1>5, <1>1, <1>t, FollowsKept
<1>7. \A e \in t..drv.used - 1 : Link(e)'
  <2> TAKE e \in t..drv.used - 1
  <2>1. e \in 0..TxLen - 1 /\ e # c /\ e + 1 \in 0..drv.used
    BY <1>2, <1>4, <1>p
  <2>2. Link(e) /\ Desc(e)' = Desc(e)
    BY <2>1, <1>3, <1>5 DEF TxSeg
  <2>3. \A id, unit, of : Follows(e + 1, id, unit, of)' = Follows(e + 1, id, unit, of)
    BY <2>1, <1>6
  <2> QED
    BY <2>2, <2>3, <1>1 DEF Link
<1>8. TxSeg(t, t)'
  <2>1. \A e \in 0..t - 1 : ~Desc(e)'.own
    <3> TAKE e \in 0..t - 1
    <3>1. e \in 0..TxLen - 1 /\ (e < c \/ e = c \/ e \in c..t - 1)
      BY <1>4, <1>p
    <3>2. CASE e < c
      BY <3>1, <3>2, <1>3, <1>4, <1>5 DEF TxSeg
    <3>3. CASE e = c
      BY <3>3, <1>5
    <3>4. CASE e \in c..t - 1 /\ e # c
      BY <3>1, <3>4, <1>3, <1>5 DEF TxSeg
    <3> QED
      BY <3>1, <3>2, <3>3, <3>4
  <2>2. \A e \in drv.used..TxLen - 1 : ~Desc(e)'.own
    <3> TAKE e \in drv.used..TxLen - 1
    <3>1. e \in 0..TxLen - 1 /\ e # c
      BY <1>2, <1>4, <1>p
    <3> QED
      BY <3>1, <1>3, <1>5 DEF TxSeg
  <2>3. \A e \in t..t - 1 : Desc(e)'.own = (e = t)
    BY <1>4, <1>p
  <2>4. t \in 0..drv.used /\ t \in t..drv.used
    BY <1>4, <1>p
  <2>5. tx_pos' = TxIx(t)' /\ device' # "i8254x"
    BY <1>1, <1>2, <1>3, <1>5 DEF TxSeg
  <2> QED
    BY <1>1, <1>7, <2>1, <2>2, <2>3, <2>4, <2>5 DEF TxSeg
<1>9. tx'.pc = "raise"
  BY <1>1, <1>t DEF TxTypes, TxState
<1>10. Follows(t, sent + 1, 1, 0)'
  BY <1>2, <1>4, <1>6, <1>1
<1>11. TxQuiet(t, t)' /\ TxClearing(t, t)' /\ TxCopying(t, t)' /\ TxSending(t, t)'
  BY <1>9, <1>10 DEF TxQuiet, TxClearing, TxCopying, TxSending
<1> QED
  BY <1>4, <1>8, <1>11 DEF TxShape

\* A scanner at rest finds a descriptor of its own: a packet or the setup frame.
LEMMA OwnedPlace ==
  ASSUME Base, NEW c, NEW t, TxShape(c, t), tx.pc \in {"idle", "single"},
         IF device = "i8254x" THEN tx_pos # tx_end ELSE txd[tx_pos].own
  PROVE  /\ c = t /\ t \in 0..drv.used - 1 /\ t \in 0..TxLen - 1 /\ Link(t)
         /\ tx_pos = TxIx(t) /\ Desc(t) = txd[tx_pos]
<1>t. DrvTypes /\ TxTypes
  BY DEF Base
<1>1. c = t /\ TxSeg(c, t) /\ tx_pos = TxIx(t) /\ t \in 0..drv.used
  BY DEF TxShape, TxQuiet, TxSeg
<1>2. /\ drv.used \in 0..TxLen /\ TxLen \in Nat \ {0} /\ TxIx(0) = TxFirst /\ TxIx(TxLen) = TxFirst
      /\ TxIx(drv.used) = drv.tx
  BY <1>t, TxPlaces
<1>3. Desc(t) = txd[tx_pos]
  BY <1>1 DEF Desc
<1>4. t # drv.used
  <2> SUFFICES ASSUME t = drv.used PROVE FALSE
    OBVIOUS
  <2>1. CASE device = "i8254x"
    BY <2>1, <1>1, <1>2 DEF TxSeg
  <2>2. CASE device # "i8254x" /\ drv.used = TxLen
    <3>1. Desc(t) = Desc(0)
      BY <2>2, <1>2 DEF Desc
    <3>2. 0 \in 0..c - 1
      BY <2>2, <1>1, <1>2
    <3> QED
      BY <3>1, <3>2, <2>2, <1>1, <1>3 DEF TxSeg
  <2>3. CASE device # "i8254x" /\ drv.used # TxLen
    <3>1. t \in drv.used..TxLen - 1
      BY <2>3, <1>2
    <3> QED
      BY <3>1, <2>3, <1>1, <1>3 DEF TxSeg
  <2> QED
    BY <2>1, <2>2, <2>3
<1>5. t \in 0..drv.used - 1 /\ t \in 0..TxLen - 1 /\ t \in t..drv.used - 1
  BY <1>1, <1>2, <1>4
<1> QED
  BY <1>1, <1>3, <1>5 DEF TxSeg

\* What it finds tells whether it is the setup frame.
LEMMA SetupFound ==
  ASSUME Base, sent \in Nat, NEW c, NEW t, TxShape(c, t), tx.pc \in {"idle", "single"},
         IF device = "i8254x" THEN tx_pos # tx_end ELSE txd[tx_pos].own
  PROVE  /\ SetupAt(t) => device = "dec21140" /\ ~txd[tx_pos].stp /\ ~txd[tx_pos].enp
         /\ ~SetupAt(t) => txd[tx_pos].stp
<1>1. Link(t) /\ t \in 0..drv.used - 1 /\ t \in 0..TxLen - 1 /\ Desc(t) = txd[tx_pos] /\ t # drv.used
  BY OwnedPlace DEF Base, DrvTypes, DrvState
<1>2. Desc(t) \in TxRec
  BY <1>1, DescTypes DEF Base
<1>3. SetupAt(t) => device = "dec21140" /\ ~txd[tx_pos].stp /\ ~txd[tx_pos].enp
  <2> SUFFICES ASSUME SetupAt(t) PROVE device = "dec21140" /\ ~Desc(t).stp /\ ~Desc(t).enp
    BY <1>1
  <2>1. Desc(t).buf.unit = 0
    BY DEF SetupAt
  <2>2. device = "dec21140" /\ Desc(t).stp = (0 = 1) /\ Desc(t).enp = (0 > 0 /\ 0 = Desc(t).buf.of)
    BY <2>1, <1>1 DEF Link
  <2> QED
    BY <2>2, <1>2 DEF TxRec
<1>4. ~SetupAt(t) => txd[tx_pos].stp
  <2> SUFFICES ASSUME ~SetupAt(t) PROVE txd[tx_pos].stp
    OBVIOUS
  <2>1. Follows(t, sent + 1, 1, 0)
    BY DEF TxShape, TxQuiet
  <2>2. Desc(t).buf.unit = 1
    BY <2>1, <1>1 DEF Follows
  <2> QED
    BY <2>2, <1>1 DEF Link
<1> QED
  BY <1>3, <1>4

\* The setup frame is given back without being sent.
LEMMA SetupShape ==
  ASSUME Base, sent \in Nat, NEW c, NEW t, TxShape(c, t), SetupAt(t), txd[tx_pos].own,
         device = "dec21140", tx.pc \in {"idle", "single"},
         tx' = [TxBegin EXCEPT !.pc = "clear"], tx_pos' = (tx_pos + 1) % TxLen,
         UNCHANGED <<device, drv, txd, sent, queued, tx_end>>
  PROVE  TxShape(c, t + 1)' /\ c \in 0..drv.used /\ t + 1 \in 0..drv.used
<1>t. DrvTypes /\ TxTypes
  BY DEF Base
<1>1. /\ c = t /\ t \in 0..drv.used - 1 /\ t \in 0..TxLen - 1 /\ Link(t) /\ tx_pos = TxIx(t)
  BY OwnedPlace
<1>2. TxSeg(c, t)
  BY DEF TxShape
<1>p. drv.used \in 0..TxLen /\ TxLen \in Nat
  BY <1>t, TxPlaces
<1>3. \A e : TxIx(e)' = TxIx(e) /\ Desc(e)' = Desc(e)
  BY TxView DEF Desc
<1>4. \A e, id, unit, of : Follows(e, id, unit, of)' = Follows(e, id, unit, of)
  BY <1>3 DEF Follows
<1>5. \A e : Link(e)' = Link(e)
  BY <1>3, <1>4 DEF Link
<1>6. Follows(t + 1, 1, 1, 0)
  BY <1>1 DEF Link, SetupAt, NoUnit
<1>7. sent = 0 /\ sent + 1 = 1
  BY DEF SetupAt
<1>8. Follows(t + 1, sent + 1, 1, 0)'
  BY <1>4, <1>6, <1>7
<1>9. /\ tx'.pc = "clear" /\ tx'.start = TxIx(c)'
  BY <1>1, <1>3, <1>t DEF TxBegin, TxTypes, TxState
<1>10. c \in 0..drv.used /\ t + 1 \in c..drv.used /\ c < t + 1 /\ t + 1 \in 0..drv.used
  BY <1>1, <1>p
<1>11. tx_pos' = TxIx(t + 1)'
  BY <1>1, <1>3, <1>t, TxNextPlace
<1>12. TxSeg(c, t + 1)'
  <2>1. \A e \in 0..c - 1 : ~Desc(e)'.own
    BY <1>2, <1>3 DEF TxSeg
  <2>2. \A e \in c..(t + 1) - 1 : Desc(e)'.own = (e = c)
    <3>1. \A e \in c..(t + 1) - 1 : e = t
      BY <1>1, <1>p
    <3>2. Desc(t).own = TRUE
      BY <1>1, DescTypes, <1>t DEF Link, TxRec
    <3> QED
      BY <3>1, <3>2, <1>1, <1>3
  <2>3. \A e \in t + 1..drv.used - 1 : Link(e)'
    <3>1. \A e \in t + 1..drv.used - 1 : e \in t..drv.used - 1
      BY <1>1, <1>p
    <3> QED
      BY <3>1, <1>2, <1>5 DEF TxSeg
  <2>4. \A e \in drv.used..TxLen - 1 : ~Desc(e)'.own
    BY <1>2, <1>3 DEF TxSeg
  <2>5. device' # "i8254x"
    OBVIOUS
  <2> QED
    BY <1>10, <1>11, <2>1, <2>2, <2>3, <2>4, <2>5 DEF TxSeg
<1>13. TxClearing(c, t + 1)'
  BY <1>8, <1>9, <1>10 DEF TxClearing
<1>14. TxQuiet(c, t + 1)' /\ TxCopying(c, t + 1)' /\ TxSending(c, t + 1)'
  BY <1>9 DEF TxQuiet, TxCopying, TxSending
<1> QED
  BY <1>10, <1>12, <1>13, <1>14 DEF TxShape

\* The 8254x gives each descriptor back at once, and looks at the tail.
LEMMA LvgCopyShape ==
  ASSUME Base, sent \in Nat, NEW c, NEW t, TxShape(c, t), LvgTxCopy
  PROVE  TxShape(t + 1, t + 1)' /\ t + 1 \in 0..drv.used
<1>t. DrvTypes /\ TxTypes
  BY DEF Base
<1> DEFINE next == IF tx_pos + 1 = TxLen THEN 0 ELSE tx_pos + 1
           d == txd[tx_pos]
<1>1. /\ device = "i8254x" /\ tx.pc = "copy" /\ txd' = [txd EXCEPT ![tx_pos].own = FALSE]
      /\ tx_pos' = next
      /\ tx' = [tx EXCEPT !.pc = IF d.enp THEN "send" ELSE IF next = tx_end THEN "raise" ELSE "copy",
                          !.pkt = Append(@, d.buf)]
      /\ UNCHANGED <<device, drv, sent, queued, tx_end>>
  BY DEF LvgTxCopy, Lvg, Only, NoDriver, NoRegs, regVars
<1>2. /\ t \in 0..drv.used - 1 /\ t \in 0..TxLen - 1 /\ c \in 0..t
      /\ Link(t) /\ Desc(t).buf.id = sent + 1 /\ Desc(t).buf.unit = Len(tx.pkt) + 1
      /\ Desc(t).buf.unit > 1 => Desc(t).buf.of = tx.pkt[1].of
      /\ Desc(t).buf \in UnitRec /\ tx_pos = TxIx(t)
      /\ ~Desc(t).enp => t + 1 < drv.used /\ Desc(t + 1).own
      /\ IF Desc(t).enp THEN Follows(t + 1, sent + 2, 1, 0)
                        ELSE Follows(t + 1, sent + 1, Len(tx.pkt) + 2, Desc(t).buf.of)
      /\ Desc(t).enp => Desc(t).buf.of = Len(tx.pkt) + 1
  BY <1>1, CopyAt
<1>3. TxSeg(c, t) /\ c = t /\ tx_end = drv.tx /\ Copied
  BY <1>1 DEF TxShape, TxSeg, TxCopying
<1>p. /\ drv.used \in 0..TxLen /\ TxLen \in Nat \ {0} /\ TxIx(drv.used) = drv.tx
      /\ TxIx(0) = TxFirst /\ TxIx(TxLen) = TxFirst /\ \A e \in 0..TxLen : TxIx(e) \in TxSlot
  BY <1>t, TxPlaces
<1>4. next = TxIx(t + 1) /\ d = Desc(t)
  BY <1>2, <1>t, TxNextPlace DEF Desc
<1>5. /\ \A e \in 0..TxLen - 1 :
              /\ e # t => Desc(e)' = Desc(e)
              /\ Desc(e)'.buf = Desc(e).buf /\ Desc(e)'.stp = Desc(e).stp
              /\ Desc(e)'.enp = Desc(e).enp
      /\ Desc(t)'.own = FALSE
      /\ \A e : TxIx(e)' = TxIx(e)
  BY <1>t, <1>1, <1>2, OwnWritten
<1>6. \A e \in 0..drv.used : \A id, unit, of : Follows(e, id, unit, of)' = Follows(e, id, unit, of)
  <2> TAKE e \in 0..drv.used
  <2>1. e # drv.used => e \in 0..TxLen - 1
    BY <1>p
  <2> QED
    BY <2>1, <1>5, <1>1, <1>t, FollowsKept
<1>7. t + 1 \in 0..drv.used /\ t + 1 \in t + 1..drv.used /\ t + 1 \in 0..TxLen
  BY <1>2, <1>p
<1>8. TxSeg(t + 1, t + 1)'
  <2>1. \A e \in 0..(t + 1) - 1 : ~Desc(e)'.own
    <3> TAKE e \in 0..(t + 1) - 1
    <3>1. e \in 0..TxLen - 1 /\ (e # t => e \in 0..c - 1)
      BY <1>2, <1>3, <1>p
    <3> QED
      BY <3>1, <1>3, <1>5 DEF TxSeg
  <2>2. \A e \in drv.used..TxLen - 1 : ~Desc(e)'.own
    <3> TAKE e \in drv.used..TxLen - 1
    <3>1. e \in 0..TxLen - 1 /\ e # t
      BY <1>2, <1>p
    <3> QED
      BY <3>1, <1>3, <1>5 DEF TxSeg
  <2>3. \A e \in t + 1..(t + 1) - 1 : Desc(e)'.own = (e = t + 1)
    BY <1>2, <1>p
  <2>4. \A e \in t + 1..drv.used - 1 : Link(e)'
    <3> TAKE e \in t + 1..drv.used - 1
    <3>1. e \in 0..TxLen - 1 /\ e # t /\ e + 1 \in 0..drv.used /\ e \in t..drv.used - 1
      BY <1>2, <1>p
    <3>2. Link(e) /\ Desc(e)' = Desc(e)
      BY <3>1, <1>3, <1>5 DEF TxSeg
    <3>3. \A id, unit, of : Follows(e + 1, id, unit, of)' = Follows(e + 1, id, unit, of)
      BY <3>1, <1>6
    <3> QED
      BY <3>2, <3>3, <1>1 DEF Link
  <2>5. tx_pos' = TxIx(t + 1)' /\ tx_end' = drv'.tx
    BY <1>1, <1>3, <1>4, <1>5
  <2> QED
    BY <1>1, <1>7, <2>1, <2>2, <2>3, <2>4, <2>5 DEF TxSeg
<1>9. ~Desc(t).enp => next # tx_end
  <2> SUFFICES ASSUME ~Desc(t).enp PROVE TxIx(t + 1) # TxIx(drv.used)
    BY <1>3, <1>4, <1>p
  <2>1. t + 1 < drv.used /\ t + 1 \in 0..TxLen - 1 /\ 0 \in 0..TxLen - 1 /\ t + 1 # 0
    BY <1>2, <1>p
  <2>2. CASE drv.used = TxLen
    BY <2>1, <2>2, <1>t, <1>p, TxDistinct
  <2>3. CASE drv.used # TxLen
    <3>1. drv.used \in 0..TxLen - 1 /\ drv.used # t + 1
      BY <2>1, <2>3, <1>p
    <3> QED
      BY <2>1, <3>1, <1>t, TxDistinct
  <2> QED
    BY <2>2, <2>3
<1> HIDE DEF next, d
<1>10. /\ tx'.pc = (IF Desc(t).enp THEN "send" ELSE "copy")
       /\ tx'.pkt = Append(tx.pkt, Desc(t).buf)
  BY <1>1, <1>4, <1>9, <1>t DEF TxTypes, TxState
<1>11. /\ Copied' /\ tx'.pkt # <<>> /\ tx'.pkt[1].of = Desc(t).buf.of
       /\ Len(tx'.pkt) = Len(tx.pkt) + 1 /\ sent' = sent
  BY <1>1, <1>2, <1>3, <1>10, CopiedMore
<1>12. Len(tx.pkt) \in Nat
  BY <1>t DEF TxTypes, TxState
<1>13. TxCopying(t + 1, t + 1)'
  <2> SUFFICES ASSUME tx'.pc = "copy" PROVE TxCopying(t + 1, t + 1)'
    BY DEF TxCopying
  <2>1. ~Desc(t).enp
    BY <1>10
  <2>i. \E i, n, f : i = sent' + 1 /\ n = Len(tx'.pkt) + 1
                     /\ f = IF tx'.pkt = <<>> THEN 0 ELSE tx'.pkt[1].of
    OBVIOUS
  <2>p. PICK id, unit, of : /\ id = sent' + 1 /\ unit = Len(tx'.pkt) + 1
                            /\ of = IF tx'.pkt = <<>> THEN 0 ELSE tx'.pkt[1].of
    BY <2>i
  <2>2. id = sent + 1 /\ unit = Len(tx.pkt) + 2 /\ of = Desc(t).buf.of
    BY <2>p, <1>11, <1>12
  <2>3. Follows(t + 1, id, unit, of)
    BY <2>1, <2>2, <1>2
  <2>4. Follows(t + 1, id, unit, of)'
    BY <2>3, <1>6, <1>7
  <2>5. t + 1 < drv.used
    BY <2>1, <1>2
  <2>6. Follows(t + 1, sent + 1, Len(tx.pkt) + 1, IF tx.pkt = <<>> THEN 0 ELSE tx.pkt[1].of)'
    BY <2>4, <2>p DEF Follows
  <2> QED
    BY <2>5, <2>6, <1>1, <1>11 DEF TxCopying
<1>14. TxSending(t + 1, t + 1)'
  <2> SUFFICES ASSUME tx'.pc = "send" PROVE TxSending(t + 1, t + 1)'
    BY DEF TxSending
  <2>1. Desc(t).enp
    BY <1>10
  <2>i. \E i : i = sent' + 2
    OBVIOUS
  <2>p. PICK id : id = sent' + 2
    BY <2>i
  <2>2. id = sent + 2
    BY <2>p, <1>11
  <2>3. Follows(t + 1, id, 1, 0)
    BY <2>1, <2>2, <1>2
  <2>4. Follows(t + 1, id, 1, 0)'
    BY <2>3, <1>6, <1>7
  <2>5. Follows(t + 1, sent + 2, 1, 0)'
    BY <2>4, <2>p DEF Follows
  <2>6. tx'.pkt[1].of = Len(tx'.pkt)
    BY <2>1, <1>2, <1>11
  <2> QED
    BY <2>5, <2>6, <1>1, <1>11 DEF TxSending
<1>15. TxQuiet(t + 1, t + 1)' /\ TxClearing(t + 1, t + 1)'
  BY <1>10 DEF TxQuiet, TxClearing
<1> QED
  BY <1>7, <1>8, <1>13, <1>14, <1>15 DEF TxShape

-----------------------------------------------------------------------------
\* The scanner only moves while the device runs.
LEMMA TxRuns ==
  ASSUME Base, TxBegins \/ TxThread
  PROVE  Started /\ Started' /\ device # "i8255x" /\ device' = device
<1>1. TxOnly
  BY TxAlone
<1>2. tx.pc = "idle" => ctl \cap RunBits # {}
  <2> SUFFICES ASSUME tx.pc = "idle" PROVE ctl \cap RunBits # {}
    OBVIOUS
  <2>1. CASE TxBegins
    BY <2>1 DEF TxBegins, AmTxSingle, DecTxSingle, MuesTxSingle, PosTxRing, LvgTxSingle,
       RunBits
  <2>2. CASE TxThread
    BY <2>2 DEF TxThread, AmTxUnlock, AmTxCopy, AmTxSend, AmTxClear, AmTxRaise,
       DecTransmit, DecTxRead, DecTxRaise, DecTxRingEnds, MuesTransmit, MuesTxRaise, MuesTxRingEnds,
       PosTransmit, PosTxRaise, LvgTxCopy, LvgTxSend, LvgTxRaise, LvgTxRingEnds,
       RingCopy, RingSend, RingClear, RingPassEnds
  <2> QED
    BY <2>1, <2>2
<1>3. device # "i8255x"
  BY DEF TxBegins, AmTxSingle, DecTxSingle, MuesTxSingle, PosTxRing, LvgTxSingle,
     TxThread, AmTxUnlock, AmTxCopy, AmTxSend, AmTxClear, AmTxRaise,
     DecTransmit, DecTxRead, DecTxRaise, DecTxRingEnds, MuesTransmit, MuesTxRaise, MuesTxRingEnds,
     PosTransmit, PosTxRaise, LvgTxCopy, LvgTxSend, LvgTxRaise, LvgTxRingEnds, Am, Dec, Mues, Pos, Lvg
<1>4. Started
  BY <1>2 DEF Base, CtlInv
<1> QED
  BY <1>1, <1>3, <1>4 DEF TxOnly, Started

\* The scanner starts on a packet.
LEMMA TxBeginsInv ==
  ASSUME Base, TxInv, TxBegins
  PROVE  TxInv'
<1>1. Started /\ Started' /\ device # "i8255x" /\ device' = device /\ TxOnly
  BY TxRuns, TxAlone
<1>2. sent \in Nat
  BY DEF TxInv
<1>3. PICK c \in 0..drv.used, t \in 0..drv.used : TxShape(c, t)
  BY <1>1 DEF TxInv
<1>4. /\ tx.pc \in {"idle", "single"} /\ UNCHANGED <<device, drv, txd, sent, queued, tx_end>>
      /\ IF device = "i8254x" THEN tx_pos # tx_end ELSE txd[tx_pos].own
  BY <1>1 DEF TxBegins, AmTxSingle, DecTxSingle, MuesTxSingle, PosTxRing, LvgTxSingle, Am,
     Dec, Mues,
              Pos, Lvg, TxOnly
<1>5. /\ c = t /\ t \in 0..drv.used - 1 /\ t \in 0..TxLen - 1 /\ Link(t)
      /\ tx_pos = TxIx(t) /\ Desc(t) = txd[tx_pos]
  BY <1>3, <1>4, OwnedPlace
<1>6. /\ SetupAt(t) => device = "dec21140" /\ ~txd[tx_pos].stp /\ ~txd[tx_pos].enp
      /\ ~SetupAt(t) => txd[tx_pos].stp
  BY <1>2, <1>3, <1>4, SetupFound
<1>7. t < drv.used
  BY <1>5 DEF Base, DrvTypes, DrvState
<1>8. \E c2, t2 \in 0..drv.used : TxShape(c2, t2)'
  <2>1. CASE SetupAt(t)
    <3>1. DecTxSingle
      BY <2>1, <1>6 DEF TxBegins, AmTxSingle, MuesTxSingle, PosTxRing, LvgTxSingle, Am, Mues,
         Pos, Lvg
    <3>2. tx' = [TxBegin EXCEPT !.pc = "clear"] /\ tx_pos' = (tx_pos + 1) % TxLen
      BY <3>1, <2>1, <1>6 DEF DecTxSingle
    <3> QED
      BY <3>2, <2>1, <1>2, <1>3, <1>4, <1>6, SetupShape
  <2>2. CASE ~SetupAt(t)
    <3>1. tx' = TxBegin /\ tx_pos' = tx_pos
      <4>1. CASE DecTxSingle
        <5>1. tx' = [TxBegin EXCEPT !.pc = "copy"] /\ tx_pos' = tx_pos
          BY <4>1, <2>2, <1>6 DEF DecTxSingle
        <5>2. TxBegin = [TxBegin EXCEPT !.pc = "copy"]
          BY DEF TxBegin, Base, TxTypes, TxState
        <5> QED
          BY <5>1, <5>2
      <4>2. CASE AmTxSingle \/ MuesTxSingle \/ PosTxRing \/ LvgTxSingle
        BY <4>2 DEF AmTxSingle, MuesTxSingle, PosTxRing, LvgTxSingle
      <4> QED
        BY <4>1, <4>2 DEF TxBegins
    <3> QED
      BY <3>1, <2>2, <1>3, <1>4, <1>7, BeginShape
  <2> QED
    BY <2>1, <2>2
<1> QED
  BY <1>1, <1>2, <1>4, <1>8 DEF TxInv, StoppedTx

\* The scanner's steps keep the transmit invariant.
LEMMA TxThreadInv ==
  ASSUME Base, TxInv, TxThread
  PROVE  TxInv'
<1>1. Started /\ Started' /\ device # "i8255x" /\ device' = device /\ TxOnly /\ drv' = drv
  BY TxRuns, TxAlone DEF TxOnly
<1>2. sent \in Nat
  BY DEF TxInv
<1>3. PICK c \in 0..drv.used, t \in 0..drv.used : TxShape(c, t)
  BY <1>1 DEF TxInv
<1>t. DrvTypes /\ TxTypes
  BY DEF Base
<1>u. UNCHANGED <<device, drv, queued, tx_end>>
  BY <1>1 DEF TxOnly
<1> SUFFICES (\E c2, t2 \in 0..drv.used : TxShape(c2, t2)') /\ sent' \in Nat
  BY <1>1 DEF TxInv, StoppedTx
<1>4. CASE AmTxUnlock \/ DecTxRingEnds \/ MuesTxRingEnds \/ LvgTxRingEnds
  <2>1. tx.pc = "single" /\ tx' = TxIdle /\ UNCHANGED <<tx_pos, txd, sent>>
    BY <1>4 DEF AmTxUnlock, DecTxRingEnds, MuesTxRingEnds, LvgTxRingEnds, RingPassEnds
  <2>2. tx'.pc = "idle"
    BY <2>1 DEF TxIdle
  <2> QED
    BY <2>1, <2>2, <1>2, <1>3, <1>u, RestShape
<1>5. CASE AmTxRaise \/ DecTxRead \/ DecTxRaise \/ MuesTxRaise \/ PosTxRaise \/ LvgTxRaise
  <2>1. /\ tx.pc \in {"raise", "update"} /\ UNCHANGED <<tx_pos, txd, sent>>
        /\ tx' \in {TxNext, TxIdle, [tx EXCEPT !.pc = "update", !.copy = status]}
    BY <1>5 DEF AmTxRaise, DecTxRead, DecTxRaise, MuesTxRaise, PosTxRaise, LvgTxRaise
  <2>2. tx'.pc \in {"single", "idle", "update"}
    <3>1. TxNext.pc = "single" /\ TxIdle.pc = "idle"
      BY DEF TxNext, TxIdle
    <3>2. [tx EXCEPT !.pc = "update", !.copy = status].pc = "update"
      BY <1>t DEF TxTypes, TxState
    <3> QED
      BY <2>1, <3>1, <3>2
  <2> QED
    BY <2>1, <2>2, <1>2, <1>3, <1>u, RestShape
<1>6. CASE (Am \/ Dec \/ Mues \/ Pos) /\ \E next, unlocked : RingCopy(next, unlocked) /\ next = TxIx(t + 1)
  <2>1. device # "i8254x" /\ tx.pc = "copy"
    BY <1>6 DEF Am, Dec, Mues, Pos, RingCopy
  <2>2. PICK unlocked : RingCopy(TxIx(t + 1), unlocked)
    BY <1>6
  <2>3. TxShape(c, t + 1)'
    BY <2>1, <2>2, <1>2, <1>3, <1>u, CopyShape
  <2>4. t + 1 \in 0..drv.used
    BY <2>1, <1>2, <1>3, <1>t, CopyAt, TxPlaces
  <2>5. sent' = sent
    BY <2>2 DEF RingCopy
  <2> QED
    BY <2>3, <2>4, <2>5, <1>2
<1>7. CASE (Am \/ Dec \/ Mues \/ Pos) /\ RingSend("clear")
  <2>1. device # "i8254x"
    BY <1>7 DEF Am, Dec, Mues, Pos
  <2>2. "clear" = IF device = "i8254x" THEN "raise" ELSE "clear"
    BY <2>1
  <2> QED
    BY <2>2, <1>2, <1>3, <1>7, SendShape
<1>8. CASE LvgTxSend
  <2>1. device = "i8254x" /\ RingSend("raise")
    BY <1>8 DEF LvgTxSend, Lvg
  <2>2. "raise" = IF device = "i8254x" THEN "raise" ELSE "clear"
    BY <2>1
  <2> QED
    BY <2>1, <2>2, <1>2, <1>3, SendShape
<1>9. CASE RingClear
  <2>1. sent' = sent
    BY <1>9 DEF RingClear
  <2> QED
    BY <2>1, <1>2, <1>3, <1>9, ClearShape
<1>10. CASE LvgTxCopy
  <2>1. sent' = sent
    BY <1>10 DEF LvgTxCopy
  <2> QED
    BY <2>1, <1>2, <1>3, <1>10, LvgCopyShape
<1>n. tx.pc = "copy" =>
        /\ AmTxNext = TxIx(t + 1) /\ DecTxNext = TxIx(t + 1) /\ PosTxNext = TxIx(t + 1)
        /\ device = "mueslix" => MuesNext(tx_pos, tx_end) = TxIx(t + 1)
  <2> SUFFICES ASSUME tx.pc = "copy"
               PROVE  /\ AmTxNext = TxIx(t + 1) /\ DecTxNext = TxIx(t + 1) /\ PosTxNext = TxIx(t + 1)
                      /\ device = "mueslix" => MuesNext(tx_pos, tx_end) = TxIx(t + 1)
    OBVIOUS
  <2>1. t \in 0..TxLen - 1 /\ tx_pos = TxIx(t)
    BY <1>2, <1>3, CopyAt
  <2>2. /\ TxIx(t + 1) = IF TxIx(t) + 1 = TxLen THEN 0 ELSE TxIx(t) + 1
        /\ TxIx(t + 1) = IF TxIx(t) = TxLen - 1 THEN 0 ELSE TxIx(t) + 1
    BY <2>1, <1>t, TxNextPlace
  <2>3. device = "mueslix" => tx_end = IF "mode1" \in ctl THEN TxLen - 1 ELSE TxLen
    BY <1>1 DEF Base, MuesEnds
  <2> QED
    BY <2>1, <2>2, <2>3 DEF AmTxNext, DecTxNext, PosTxNext, MuesNext
<1>11. CASE AmTxCopy
  <2>1. RingCopy(AmTxNext, "none") /\ tx.pc = "copy" /\ Am
    BY <1>11 DEF AmTxCopy, RingCopy
  <2> QED
    BY <2>1, <1>n, <1>6
<1>12. CASE DecTransmit
  <2>1. Dec /\ (RingCopy(DecTxNext, "none") \/ RingSend("clear") \/ RingClear)
    BY <1>12 DEF DecTransmit
  <2>2. RingCopy(DecTxNext, "none") => tx.pc = "copy"
    BY DEF RingCopy
  <2> QED
    BY <2>1, <2>2, <1>n, <1>6, <1>7, <1>9
<1>13. CASE MuesTransmit
  <2>1. Mues /\ (RingCopy(MuesNext(tx_pos, tx_end), "none") \/ RingSend("clear") \/ RingClear)
    BY <1>13 DEF MuesTransmit
  <2>2. RingCopy(MuesNext(tx_pos, tx_end), "none") => tx.pc = "copy"
    BY DEF RingCopy
  <2>3. device = "mueslix"
    BY <2>1 DEF Mues
  <2> QED
    BY <2>1, <2>2, <2>3, <1>n, <1>6, <1>7, <1>9
<1>14. CASE PosTransmit
  <2>1. Pos /\ (RingCopy(PosTxNext, "none") \/ RingSend("clear") \/ RingClear)
    BY <1>14 DEF PosTransmit
  <2>2. RingCopy(PosTxNext, "none") => tx.pc = "copy"
    BY DEF RingCopy
  <2> QED
    BY <2>1, <2>2, <1>n, <1>6, <1>7, <1>9
<1>15. CASE AmTxSend \/ AmTxClear
  <2>1. Am /\ (RingSend("clear") \/ RingClear)
    BY <1>15 DEF AmTxSend, AmTxClear
  <2> QED
    BY <2>1, <1>7, <1>9
<1> QED
  BY <1>4, <1>5, <1>8, <1>10, <1>11, <1>12, <1>13, <1>14, <1>15 DEF TxThread

\* The driver's record, as far as the transmit ring knows it, stays.
LEMMA TxKeptByDriver ==
  ASSUME TxInv, Started, Started', UNCHANGED <<device, tx, tx_pos, txd, queued, sent, tx_end>>,
         drv'.tx = drv.tx, drv'.used = drv.used, (drv'.pc = "command") = (drv.pc = "command"),
         ("CU_SUSPEND" \in ctl') = ("CU_SUSPEND" \in ctl)
  PROVE  TxInv'
<1>1. \A e : TxIx(e)' = TxIx(e) /\ Desc(e)' = Desc(e)
  BY DEF TxIx, TxFirst, Desc
<1>2. \A e, id, unit, of : Follows(e, id, unit, of)' = Follows(e, id, unit, of)
  BY <1>1 DEF Follows
<1>3. \A e : Link(e)' = Link(e)
  BY <1>1, <1>2 DEF Link
<1>4. \A c, t : TxSeg(c, t)' = TxSeg(c, t)
  BY <1>1, <1>3 DEF TxSeg
<1>5. \A t : SetupAt(t)' = SetupAt(t)
  BY <1>1 DEF SetupAt
<1>6. Copied' = Copied
  BY DEF Copied
<1>7. \A c, t : Follows(t, sent + 1, 1, 0)' = Follows(t, sent + 1, 1, 0)
  BY <1>1 DEF Follows
<1>8. \A c, t : TxShape(c, t) => TxShape(c, t)'
  <2> SUFFICES ASSUME NEW c, NEW t, TxShape(c, t) PROVE TxShape(c, t)'
    OBVIOUS
  <2>1. TxQuiet(c, t)'
    BY <1>5, <1>7 DEF TxShape, TxQuiet
  <2>2. TxCopying(c, t)'
    BY <1>1, <1>6 DEF TxShape, TxCopying, Follows
  <2>3. TxSending(c, t)' /\ TxClearing(c, t)'
    BY <1>1, <1>6 DEF TxShape, TxSending, TxClearing, Follows
  <2> QED
    BY <2>1, <2>2, <2>3, <1>4 DEF TxShape
<1>9. TxEepro => TxEepro'
  BY <1>1, <1>6 DEF TxEepro
<1> QED
  BY <1>8, <1>9 DEF TxInv, StoppedTx

\* Steps of the driver that are not about packets.
LEMMA DriverElsewhere ==
  ASSUME Base, TxInv,
         \/ Interrupts \/ Acks \/ DrvDone \/ \E mode \in Mode : AmMode(mode)
         \/ AmTake \/ DecTake \/ MuesTake \/ PosTake \/ LvgTake \/ EeproTake \/ EeproRestart
  PROVE  TxInv'
<1>k. drv \in DrvState /\ drv.read \in SUBSET Cause
  BY DEF Base, DrvTypes, DrvState
<1> USE DEF NoAccess, NoDevice, NoRegs, regVars, memVars, Access
<1> DEFINE Keeps ==
      /\ Started /\ Started' /\ UNCHANGED <<device, tx, tx_pos, txd, queued, sent, tx_end>>
      /\ drv'.tx = drv.tx /\ drv'.used = drv.used
      /\ drv.pc # "command" /\ drv'.pc # "command"
      /\ ("CU_SUSPEND" \in ctl') = ("CU_SUSPEND" \in ctl)
<1>1. CASE AmInterrupt \/ DecInterrupt \/ MuesInterrupt \/ PosInterrupt \/ EeproInterrupt
  <2>1. Interrupted
    BY <1>1 DEF AmInterrupt, DecInterrupt, MuesInterrupt, PosInterrupt, EeproInterrupt
  <2>2. drv' = [drv EXCEPT !.pc = "ack", !.read = status] /\ drv.pc = "idle"
    BY <2>1 DEF Interrupted
  <2>3. drv'.pc = "ack" /\ drv'.tx = drv.tx /\ drv'.used = drv.used
    BY <2>2, <1>k DEF DrvState
  <2>4. Keeps
    BY <2>1, <2>2, <2>3 DEF Interrupted, Started
  <2> QED
    BY <2>4, TxKeptByDriver
<1>2. CASE LvgReadIcr
  <2>2. drv' = [drv EXCEPT !.pc = "scan", !.read = {}] /\ drv.pc = "idle"
    BY <1>2 DEF LvgReadIcr
  <2>3. drv'.pc = "scan" /\ drv'.tx = drv.tx /\ drv'.used = drv.used
    BY <2>2, <1>k DEF DrvState
  <2>4. Keeps
    BY <1>2, <2>2, <2>3 DEF LvgReadIcr, Started
  <2> QED
    BY <2>4, TxKeptByDriver
<1>3. CASE AmAck
  <2>2. drv' = [drv EXCEPT !.pc = "scan", !.read = {}] /\ drv.pc = "ack"
    BY <1>3 DEF AmAck
  <2>3. drv'.pc = "scan" /\ drv'.tx = drv.tx /\ drv'.used = drv.used
    BY <2>2, <1>k DEF DrvState
  <2>5. "STOP" \notin drv.read /\ "INIT" \notin drv.read /\ "STRT" \notin drv.read
    BY <1>k DEF Cause, AmCause, DecCause, LvgCause, EeproCause, MuesCause
  <2>6. UNCHANGED <<tx_pos, tx_end>> /\ ctl' = ctl \cup ((drv.read \cup {"IENA"}) \cap {"IENA"})
    BY <1>3, <2>5 DEF AmAck, WriteCsr0, AmUpdateIrq
  <2>7. UNCHANGED <<device, tx, txd, queued, sent>>
    BY <1>3 DEF AmAck, Am
  <2>8. ("CU_SUSPEND" \in ctl') = ("CU_SUSPEND" \in ctl)
    BY <2>6
  <2>4. Keeps
    BY <2>2, <2>3, <2>6, <2>7, <2>8 DEF Started
  <2> QED
    BY <2>4, TxKeptByDriver
<1>4. CASE MuesAck \/ PosAck \/ DecAckWrite
  <2>2. drv' = [drv EXCEPT !.pc = "scan", !.read = {}] /\ drv.pc \in {"ack", "clear"}
    BY <1>4 DEF MuesAck, PosAck, DecAckWrite
  <2>3. drv'.pc = "scan" /\ drv'.tx = drv.tx /\ drv'.used = drv.used
    BY <2>2, <1>k DEF DrvState
  <2>4. Keeps
    BY <1>4, <2>2, <2>3 DEF MuesAck, PosAck, DecAckWrite, Started
  <2> QED
    BY <2>4, TxKeptByDriver
<1>5. CASE EeproAck
  <2>2. drv' = [drv EXCEPT !.pc = "scan", !.read = @ \cap {"RNR"}] /\ drv.pc = "ack"
    BY <1>5 DEF EeproAck
  <2>3. drv'.pc = "scan" /\ drv'.tx = drv.tx /\ drv'.used = drv.used
    BY <2>2, <1>k DEF DrvState
  <2>4. Keeps
    BY <1>5, <2>2, <2>3 DEF EeproAck, Started
  <2> QED
    BY <2>4, TxKeptByDriver
<1>6. CASE DecAckRead
  <2>2. drv' = [drv EXCEPT !.pc = "clear", !.read = status \ drv.read] /\ drv.pc = "ack"
    BY <1>6 DEF DecAckRead
  <2>3. drv'.pc = "clear" /\ drv'.tx = drv.tx /\ drv'.used = drv.used
    BY <2>2, <1>k DEF DrvState
  <2>4. Keeps
    BY <1>6, <2>2, <2>3 DEF DecAckRead, Started
  <2> QED
    BY <2>4, TxKeptByDriver
<1>7. CASE DrvDone
  <2>2. drv' = [drv EXCEPT !.pc = "idle"] /\ drv.pc = "scan"
    BY <1>7 DEF DrvDone, Scanned
  <2>3. drv'.pc = "idle" /\ drv'.tx = drv.tx /\ drv'.used = drv.used
    BY <2>2, <1>k DEF DrvState
  <2>4. Keeps
    BY <1>7, <2>2, <2>3 DEF DrvDone, Started
  <2> QED
    BY <2>4, TxKeptByDriver
<1>8. CASE AmTake \/ DecTake \/ MuesTake \/ PosTake \/ LvgTake
  <2>1. Take(FreshRx) /\ UNCHANGED <<tx_pos, ctl, tx_end>>
    BY <1>8 DEF AmTake, DecTake, MuesTake, PosTake, LvgTake
  <2>2. drv' = [drv EXCEPT !.rx = RxAt(FrameLen)] /\ drv.pc = "scan"
    BY <2>1 DEF Take
  <2>3. drv'.pc = "scan" /\ drv'.tx = drv.tx /\ drv'.used = drv.used
    BY <2>2, <1>k DEF DrvState
  <2>4. Keeps
    BY <2>1, <2>2, <2>3 DEF Take, Started
  <2> QED
    BY <2>4, TxKeptByDriver
<1>9. CASE EeproTake
  <2>2. drv' = [drv EXCEPT !.rx = (@ + 1) % RxLen] /\ drv.pc = "scan"
    BY <1>9 DEF EeproTake
  <2>3. drv'.pc = "scan" /\ drv'.tx = drv.tx /\ drv'.used = drv.used
    BY <2>2, <1>k DEF DrvState
  <2>4. Keeps
    BY <1>9, <2>2, <2>3 DEF EeproTake, Started
  <2> QED
    BY <2>4, TxKeptByDriver
<1>10. CASE EeproRestart
  <2>2. drv' = [drv EXCEPT !.read = {}] /\ drv.pc = "scan"
    BY <1>10 DEF EeproRestart, Scanned
  <2>3. drv'.pc = "scan" /\ drv'.tx = drv.tx /\ drv'.used = drv.used
    BY <2>2, <1>k DEF DrvState
  <2>4. Keeps
    BY <1>10, <2>2, <2>3 DEF EeproRestart, Started
  <2> QED
    BY <2>4, TxKeptByDriver
<1>11. CASE \E mode \in Mode : AmMode(mode)
  <2>1. PICK mode \in Mode : AmMode(mode)
    BY <1>11
  <2>2. drv' = [drv EXCEPT !.pc = "idle", !.read = {}] /\ drv.pc = "idle"
    BY <2>1 DEF AmMode
  <2>3. drv'.pc = "idle" /\ drv'.tx = drv.tx /\ drv'.used = drv.used
    BY <2>2, <1>k DEF DrvState
  <2>5. mode \subseteq {"DRX", "DTX"}
    BY NicsAssumption DEF AmAssumption
  <2>6. ("CU_SUSPEND" \in ctl') = ("CU_SUSPEND" \in ctl)
    BY <2>1, <2>5 DEF AmMode, OnBits
  <2>4. Keeps
    BY <2>1, <2>2, <2>3, <2>6 DEF AmMode, Started
  <2> QED
    BY <2>4, TxKeptByDriver
<1> QED
  BY <1>1, <1>2, <1>3, <1>4, <1>5, <1>6, <1>7, <1>8, <1>9, <1>10, <1>11 DEF Interrupts, Acks

-----------------------------------------------------------------------------
\* A packet is queued behind the used descriptors.
LEMMA PlacesAfter ==
  ASSUME NEW u \in Nat, NEW l \in Nat, NEW n \in Nat, n > 0, u + n <= l
  PROVE  /\ l - (u + n) \in 0..l /\ (u + n) + (l - (u + n)) = l
         /\ \A e \in u..u + n - 1 : /\ e \in 0..l - 1 /\ e - u + 1 \in 1..n
                                   /\ (e - u + 1) - 1 \in 0..n /\ u + ((e - u + 1) - 1) = e
OBVIOUS

\* A packet queued fills the places after those in use.
LEMMA QueuePlaces ==
  ASSUME Base, NEW n \in 1..MaxUnit, NEW s \in BOOLEAN, Queue(n, s)
  PROVE  /\ drv'.used = drv.used + n /\ drv'.tx = TxAt(n) /\ drv.used + n \in 0..TxLen /\ n \in Nat
         /\ n > 0 /\ \A e : TxIx(e)' = TxIx(e)
         /\ \A e \in 0..TxLen - 1 : e \notin drv.used..drv.used + n - 1 => Desc(e)' = Desc(e)
         /\ \A e \in drv.used..drv.used + n - 1 :
              Desc(e)' = [own |-> TRUE, stp |-> e = drv.used, enp |-> e = drv.used + n - 1, s |-> s,
                          buf |-> [id |-> queued + 1, unit |-> e - drv.used + 1, of |-> n]]
<1>t. DrvTypes /\ TxTypes
  BY DEF Base
<1>1. /\ drv.tx \in 0..TxLen - 1 /\ drv.used \in 0..TxLen /\ TxLen \in Nat \ {0}
      /\ TxFirst \in 0..TxLen - 1 /\ TxIx(drv.used) = drv.tx /\ TxSlot = 0..TxLen - 1
  BY <1>t, TxPlaces DEF DrvTypes, DrvState
<1>2. drv' = [drv EXCEPT !.tx = TxAt(n), !.used = @ + n] /\ drv.used + n <= TxLen
  BY DEF Queue
<1>3. n \in Nat /\ n > 0 /\ drv.used + n \in 0..TxLen /\ n \in 0..TxLen
  BY <1>1, <1>2, Sizes
<1>4. drv'.used = drv.used + n /\ drv'.tx = TxAt(n)
  BY <1>2, <1>t DEF DrvTypes, DrvState
<1>5. \A k \in 0..n : TxAt(k) = TxIx(drv.used + k)
  <2> TAKE k \in 0..n
  <2>1. k \in 0..TxLen
    BY <1>1, <1>3
  <2>2. TxAt(k) = Ix(drv.tx, k, TxLen)
    BY <2>1, <1>1, ModIx DEF TxAt
  <2>3. Ix(Ix(TxFirst, drv.used, TxLen), k, TxLen) = Ix(TxFirst, drv.used + k, TxLen)
    <3>1. drv.used + k <= TxLen
      BY <1>1, <1>3
    <3> QED
      BY <3>1, <2>1, <1>1, IxShift
  <2> QED
    BY <2>2, <2>3, <1>1 DEF TxIx
<1>6. TxFirst' = TxFirst
  <2>1. TxFirst' = Ix(TxIx(drv.used + n), TxLen - (drv.used + n), TxLen)
    BY <1>4, <1>5, <1>3 DEF TxFirst
  <2>2. TxLen - (drv.used + n) \in 0..TxLen /\ (drv.used + n) + (TxLen - (drv.used + n)) = TxLen
    BY <1>1, <1>3, <1>2, PlacesAfter
  <2>3. Ix(Ix(TxFirst, drv.used + n, TxLen), TxLen - (drv.used + n), TxLen) = Ix(TxFirst, TxLen, TxLen)
    BY <2>2, <1>1, <1>3, IxShift
  <2> QED
    BY <2>1, <2>3, <1>1, IxZero DEF TxIx
<1>7. \A e : TxIx(e)' = TxIx(e) /\ Desc(e)' = txd'[TxIx(e)]
  BY <1>6 DEF TxIx, Desc
<1>8. ASSUME NEW e \in 0..TxLen - 1, e \notin drv.used..drv.used + n - 1
      PROVE  Desc(e)' = Desc(e)
  <2>1. ASSUME NEW k \in 1..n PROVE TxIx(e) # TxAt(k - 1)
    <3>1. k - 1 \in 0..n /\ drv.used + (k - 1) \in 0..TxLen - 1 /\ drv.used + (k - 1) # e
      BY <1>1, <1>3, <1>8
    <3>2. TxIx(drv.used + (k - 1)) # TxIx(e)
      BY <3>1, <1>t, TxDistinct
    <3> QED
      BY <3>1, <3>2, <1>5
  <2>2. TxIx(e) \in TxSlot
    BY <1>t, TxPlaces
  <2>3. txd'[TxIx(e)] = txd[TxIx(e)]
    BY <2>1, <2>2 DEF Queue
  <2> QED
    BY <2>3, <1>7 DEF Desc
<1>9. ASSUME NEW e \in drv.used..drv.used + n - 1
      PROVE  Desc(e)' = [own |-> TRUE, stp |-> e = drv.used, enp |-> e = drv.used + n - 1, s |-> s,
                          buf |-> [id |-> queued + 1, unit |-> e - drv.used + 1, of |-> n]]
  <2> DEFINE k0 == e - drv.used + 1
             i == TxIx(e)
             P(k) == i = TxAt(k - 1)
  <2>1. e \in 0..TxLen - 1 /\ k0 \in 1..n /\ k0 - 1 \in 0..n /\ drv.used + (k0 - 1) = e
    BY <1>1, <1>3, <1>2, PlacesAfter
  <2>2. i \in TxSlot
    BY <2>1, <1>t, TxPlaces
  <2>3. P(k0)
    BY <2>1, <1>5
  <2>4. ASSUME NEW k \in 1..n, P(k) PROVE k = k0
    <3>1. k - 1 \in 0..n /\ drv.used + (k - 1) \in 0..TxLen - 1 /\ k \in Nat
      BY <1>1, <1>3
    <3>2. TxIx(drv.used + (k - 1)) = TxIx(e)
      BY <3>1, <2>4, <1>5
    <3>3. drv.used + (k - 1) = e
      BY <3>1, <3>2, <2>1, <1>t, TxDistinct
    <3> QED
      BY <3>1, <3>3, <1>1
  <2>5. (CHOOSE k \in 1..n : P(k)) = k0
    <3> HIDE DEF P, k0
    <3>1. \E k \in 1..n : P(k)
      BY <2>1, <2>3
    <3> QED
      BY <3>1, <2>4
  <2>6. (k0 = 1) = (e = drv.used) /\ (k0 = n) = (e = drv.used + n - 1)
    BY <1>1, <1>3
  <2>7. txd'[i] = LET k == CHOOSE k \in 1..n : P(k)
                  IN [own |-> TRUE, stp |-> k = 1, enp |-> k = n, s |-> s,
                      buf |-> [id |-> queued + 1, unit |-> k, of |-> n]]
    <3>1. \E k \in 1..n : i = TxAt(k - 1)
      BY <2>1, <2>3
    <3> QED
      BY <2>2, <3>1 DEF Queue
  <2>8. txd'[i] = [own |-> TRUE, stp |-> k0 = 1, enp |-> k0 = n, s |-> s,
                      buf |-> [id |-> queued + 1, unit |-> k0, of |-> n]]
    <3> HIDE DEF P, k0
    <3> QED
      BY <2>5, <2>7
  <2> QED
    BY <2>6, <2>8, <1>7
<1> QED
  BY <1>3, <1>4, <1>7, <1>8, <1>9

\* Queueing a packet in a ring.
LEMMA QueueInv ==
  ASSUME Base, TxInv, NEW n \in 1..MaxUnit, NEW s \in BOOLEAN, Queue(n, s), Started,
         device # "i8255x", UNCHANGED tx_pos,
         tx_end' = IF device = "i8254x" THEN TxAt(n) ELSE tx_end
  PROVE  TxInv'
<1>t. DrvTypes /\ TxTypes
  BY DEF Base
<1>1. /\ drv'.used = drv.used + n /\ drv'.tx = TxAt(n) /\ drv.used + n \in 0..TxLen /\ n \in Nat
      /\ n > 0 /\ \A e : TxIx(e)' = TxIx(e)
      /\ \A e \in 0..TxLen - 1 : e \notin drv.used..drv.used + n - 1 => Desc(e)' = Desc(e)
      /\ \A e \in drv.used..drv.used + n - 1 :
           Desc(e)' = [own |-> TRUE, stp |-> e = drv.used, enp |-> e = drv.used + n - 1, s |-> s,
                       buf |-> [id |-> queued + 1, unit |-> e - drv.used + 1, of |-> n]]
  BY QueuePlaces
<1>2. /\ queued' = queued + 1 /\ queued \in Nat /\ UNCHANGED <<device, tx, sent>>
      /\ drv.used \in Nat /\ TxLen \in Nat
  BY <1>t, Sizes DEF Queue, NoAccess, TxTypes, DrvTypes, DrvState
<1>3. PICK c \in 0..drv.used, t \in 0..drv.used : TxShape(c, t)
  BY DEF TxInv
<1>4. TxSeg(c, t) /\ t \in c..drv.used
  BY <1>3 DEF TxShape, TxSeg
<1>5. ASSUME NEW e \in 0..drv.used, NEW id, NEW unit, NEW of, Follows(e, id, unit, of)
      PROVE  Follows(e, id, unit, of)'
  <2>1. CASE e = drv.used
    <3>1. e \in drv.used..drv.used + n - 1 /\ e # drv'.used /\ e - drv.used + 1 = 1
      BY <2>1, <1>1, <1>2
    <3>2. Desc(e)'.buf.id = queued + 1 /\ Desc(e)'.buf.unit = 1
      BY <3>1, <1>1
    <3>3. id = queued + 1 /\ unit = 1
      BY <2>1, <1>5 DEF Follows
    <3> QED
      BY <3>1, <3>2, <3>3 DEF Follows
  <2>2. CASE e # drv.used
    <3>1. e \in 0..TxLen - 1 /\ e \notin drv.used..drv.used + n - 1 /\ e # drv'.used
      BY <2>2, <1>1, <1>2
    <3> QED
      BY <3>1, <2>2, <1>1, <1>5 DEF Follows
  <2> QED
    BY <2>1, <2>2
<1>6. ASSUME NEW e \in t..drv.used - 1 PROVE Link(e)'
  <2>1. e \in 0..TxLen - 1 /\ e \notin drv.used..drv.used + n - 1 /\ e + 1 \in 0..drv.used
    BY <1>1, <1>2
  <2>2. Link(e) /\ Desc(e)' = Desc(e)
    BY <2>1, <1>1, <1>4 DEF TxSeg
  <2>3. \A id, unit, of : Follows(e + 1, id, unit, of) => Follows(e + 1, id, unit, of)'
    BY <2>1, <1>5
  <2> QED
    BY <2>2, <2>3, <1>2 DEF Link
<1>7. ASSUME NEW e \in drv.used..drv.used + n - 1 PROVE Link(e)'
  <2>p. \E i, m : i = queued + 1 /\ m = e - drv.used + 1
    OBVIOUS
  <2>u. PICK i, u : i = queued + 1 /\ u = e - drv.used + 1
    BY <2>p
  <2>1. u \in 1..n /\ (e = drv.used) = (u = 1) /\ (e = drv.used + n - 1) = (u = n)
    BY <1>1, <1>2, <2>u
  <2>2. Desc(e)' = [own |-> TRUE, stp |-> u = 1, enp |-> u = n, s |-> s,
                    buf |-> [id |-> i, unit |-> u, of |-> n]]
    BY <2>1, <2>u, <1>1
  <2>3. u < n => /\ e + 1 \in drv.used..drv.used + n - 1 /\ e + 1 # drv'.used
                 /\ (e + 1) - drv.used + 1 = u + 1
    BY <1>1, <1>2, <2>u
  <2>4. ~ (u < n) => e + 1 = drv'.used
    BY <1>1, <1>2, <2>u
  <2>5. u < n => Follows(e + 1, i, u + 1, n)'
    <3> SUFFICES ASSUME u < n
                 PROVE  /\ e + 1 # drv'.used /\ Desc(e + 1)'.buf.id = i
                        /\ Desc(e + 1)'.buf.unit = u + 1 /\ Desc(e + 1)'.buf.of = n
      BY DEF Follows
    <3> QED
      BY <2>3, <2>u, <1>1
  <2>6. ~ (u < n) => Follows(e + 1, i + 1, 1, 0)'
    BY <2>4, <2>u, <1>2 DEF Follows
  <2>7. u \in Nat /\ u > 0 /\ u <= n /\ u # 0
    BY <2>1, <1>1
  <2>8. /\ Desc(e)'.own /\ Desc(e)'.stp = (u = 1) /\ Desc(e)'.enp = (u = n)
        /\ Desc(e)'.buf.id = i /\ Desc(e)'.buf.unit = u /\ Desc(e)'.buf.of = n
    BY <2>2
  <2> QED
    BY <2>8, <2>5, <2>6, <2>7 DEF Link
<1>8. TxSeg(c, t)'
  <2>1. c \in 0..drv'.used /\ t \in c..drv'.used
    BY <1>1, <1>2, <1>4
  <2>2. \A e \in 0..t - 1 : e \in 0..TxLen - 1 /\ Desc(e)' = Desc(e)
    <3> TAKE e \in 0..t - 1
    <3>1. e \in 0..TxLen - 1 /\ e \notin drv.used..drv.used + n - 1
      BY <1>1, <1>2
    <3> QED
      BY <3>1, <1>1
  <2>3. \A e \in 0..c - 1 : ~Desc(e)'.own
    <3>1. \A e \in 0..c - 1 : e \in 0..t - 1
      BY <1>2, <1>4
    <3> QED
      BY <3>1, <2>2, <1>4 DEF TxSeg
  <2>4. \A e \in c..t - 1 : Desc(e)'.own = (e = c)
    <3>1. \A e \in c..t - 1 : e \in 0..t - 1
      BY <1>2, <1>4
    <3> QED
      BY <3>1, <2>2, <1>4 DEF TxSeg
  <2>5. \A e \in t..drv'.used - 1 : Link(e)'
    <3> TAKE e \in t..drv'.used - 1
    <3>1. e \in t..drv.used - 1 \/ e \in drv.used..drv.used + n - 1
      BY <1>1, <1>2
    <3> QED
      BY <3>1, <1>6, <1>7
  <2>6. \A e \in drv'.used..TxLen - 1 : ~Desc(e)'.own
    <3> TAKE e \in drv'.used..TxLen - 1
    <3>1. e \in drv.used..TxLen - 1 /\ e \in 0..TxLen - 1 /\ e \notin drv.used..drv.used + n - 1
      BY <1>1, <1>2
    <3> QED
      BY <3>1, <1>1, <1>4 DEF TxSeg
  <2>7. tx_pos' = TxIx(t)' /\ (device' = "i8254x" => tx_end' = drv'.tx /\ c = t)
    BY <1>1, <1>2, <1>4 DEF TxSeg
  <2> QED
    BY <2>1, <2>3, <2>4, <2>5, <2>6, <2>7 DEF TxSeg
<1>9. TxQuiet(c, t)'
  <2> SUFFICES ASSUME tx.pc \in {"idle", "single", "raise", "update"}
               PROVE  c = t /\ (Follows(t, sent + 1, 1, 0)' \/ SetupAt(t)')
    BY <1>2 DEF TxQuiet
  <2>1. c = t /\ (Follows(t, sent + 1, 1, 0) \/ SetupAt(t))
    BY <1>3 DEF TxShape, TxQuiet
  <2>2. CASE Follows(t, sent + 1, 1, 0)
    <3>1. \E i : i = sent + 1
      OBVIOUS
    <3>2. PICK i : i = sent + 1
      BY <3>1
    <3>3. Follows(t, i, 1, 0)'
      BY <3>2, <2>2, <1>5
    <3>4. Follows(t, sent + 1, 1, 0)'
      BY <3>2, <3>3, <1>2 DEF Follows
    <3> QED
      BY <3>4, <2>1
  <2>3. CASE SetupAt(t)
    <3>1. t < drv.used /\ t \in 0..TxLen - 1 /\ t \notin drv.used..drv.used + n - 1
      BY <2>3, <1>1, <1>2 DEF SetupAt
    <3>2. Desc(t)' = Desc(t) /\ t < drv'.used
      BY <3>1, <1>1, <1>2
    <3> QED
      BY <3>2, <2>1, <2>3, <1>2 DEF SetupAt
  <2> QED
    BY <2>1, <2>2, <2>3
<1>10. Copied' = Copied
  BY <1>2 DEF Copied
<1>11. TxCopying(c, t)'
  <2> SUFFICES ASSUME tx.pc = "copy" PROVE TxCopying(c, t)'
    BY <1>2 DEF TxCopying
  <2>1. /\ t < drv.used /\ Copied
        /\ Follows(t, sent + 1, Len(tx.pkt) + 1, IF tx.pkt = <<>> THEN 0 ELSE tx.pkt[1].of)
        /\ device # "i8254x" => tx.cur = TxIx(t) /\ tx.start = TxIx(c) /\ (c = t) = (tx.pkt = <<>>)
    BY <1>3 DEF TxShape, TxCopying
  <2>2. \E i, m, f : i = sent + 1 /\ m = Len(tx.pkt) + 1
                     /\ f = IF tx.pkt = <<>> THEN 0 ELSE tx.pkt[1].of
    OBVIOUS
  <2>3. PICK i, m, f : i = sent + 1 /\ m = Len(tx.pkt) + 1
                     /\ f = IF tx.pkt = <<>> THEN 0 ELSE tx.pkt[1].of
    BY <2>2
  <2>4. Follows(t, i, m, f)'
    BY <2>1, <2>3, <1>5
  <2>5. Follows(t, sent + 1, Len(tx.pkt) + 1, IF tx.pkt = <<>> THEN 0 ELSE tx.pkt[1].of)'
    BY <2>3, <2>4, <1>2 DEF Follows
  <2>6. t < drv'.used
    BY <2>1, <1>1, <1>2
  <2> QED
    BY <2>1, <2>5, <2>6, <1>1, <1>2, <1>10 DEF TxCopying
<1>12. TxSending(c, t)'
  <2> SUFFICES ASSUME tx.pc = "send" PROVE TxSending(c, t)'
    BY <1>2 DEF TxSending
  <2>1. Follows(t, sent + 2, 1, 0)
    BY <1>3 DEF TxShape, TxSending
  <2>2. \E i : i = sent + 2
    OBVIOUS
  <2>3. PICK i : i = sent + 2
    BY <2>2
  <2>4. Follows(t, i, 1, 0)'
    BY <2>1, <2>3, <1>5
  <2>5. Follows(t, sent + 2, 1, 0)'
    BY <2>3, <2>4, <1>2 DEF Follows
  <2> QED
    BY <2>5, <1>1, <1>2, <1>3, <1>10 DEF TxShape, TxSending
<1>13. TxClearing(c, t)'
  <2> SUFFICES ASSUME tx.pc = "clear" PROVE TxClearing(c, t)'
    BY <1>2 DEF TxClearing
  <2>1. Follows(t, sent + 1, 1, 0)
    BY <1>3 DEF TxShape, TxClearing
  <2>2. \E i : i = sent + 1
    OBVIOUS
  <2>3. PICK i : i = sent + 1
    BY <2>2
  <2>4. Follows(t, i, 1, 0)'
    BY <2>1, <2>3, <1>5
  <2>5. Follows(t, sent + 1, 1, 0)'
    BY <2>3, <2>4, <1>2 DEF Follows
  <2> QED
    BY <2>5, <1>1, <1>2, <1>3 DEF TxShape, TxClearing
<1>14. TxShape(c, t)'
  BY <1>8, <1>9, <1>11, <1>12, <1>13 DEF TxShape
<1>15. c \in 0..drv'.used /\ t \in 0..drv'.used
  BY <1>1, <1>2
<1>16. Started'
  BY <1>t DEF Queue, Started, DrvTypes, DrvState
<1> QED
  BY <1>2, <1>14, <1>15, <1>16 DEF TxInv, StoppedTx

-----------------------------------------------------------------------------
\* The driver takes the oldest descriptor back.
LEMMA ReclaimPlaces ==
  ASSUME DrvTypes, DrvReclaim
  PROVE  /\ drv.used \in 1..TxLen /\ drv'.used = drv.used - 1 /\ drv'.tx = drv.tx
         /\ drv'.pc = "scan" /\ drv.pc = "scan" /\ TxLen \in Nat
         /\ \A e \in 0..TxLen - 1 : TxIx(e)' = TxIx(e + 1) /\ Desc(e)' = Desc(e + 1)
         /\ Desc(TxLen) = Desc(0) /\ ~Desc(0).own
<1>1. /\ drv.tx \in 0..TxLen - 1 /\ drv.used \in 0..TxLen /\ TxLen \in Nat \ {0}
      /\ TxFirst \in 0..TxLen - 1 /\ TxFirst = Oldest /\ TxIx(0) = TxFirst /\ TxIx(TxLen) = TxFirst
  BY TxPlaces DEF DrvTypes, DrvState, TxSlot
<1>2. drv' = [drv EXCEPT !.used = @ - 1] /\ drv.pc = "scan" /\ drv.used > 0 /\ ~txd[Oldest].own
      /\ txd' = txd
  BY DEF DrvReclaim, memVars
<1>3. drv'.used = drv.used - 1 /\ drv'.tx = drv.tx /\ drv'.pc = "scan" /\ drv.used \in 1..TxLen
  BY <1>1, <1>2 DEF DrvTypes, DrvState
<1>4. TxFirst' = Ix(TxFirst, 1, TxLen)
  <2>1. TxFirst' = Ix(drv.tx, TxLen - (drv.used - 1), TxLen)
    BY <1>3 DEF TxFirst
  <2>2. /\ TxLen - drv.used \in 0..TxLen /\ 1 \in 0..TxLen
        /\ (TxLen - drv.used) + 1 = TxLen - (drv.used - 1) /\ (TxLen - drv.used) + 1 <= TxLen
    BY <1>1, <1>3
  <2>3. Ix(Ix(drv.tx, TxLen - drv.used, TxLen), 1, TxLen) = Ix(drv.tx, (TxLen - drv.used) + 1, TxLen)
    BY <2>2, <1>1, IxShift
  <2> QED
    BY <2>1, <2>2, <2>3 DEF TxFirst
<1>5. ASSUME NEW e \in 0..TxLen - 1 PROVE TxIx(e)' = TxIx(e + 1) /\ Desc(e)' = Desc(e + 1)
  <2>1. TxIx(e)' = Ix(Ix(TxFirst, 1, TxLen), e, TxLen)
    BY <1>4 DEF TxIx
  <2>2. 1 \in 0..TxLen /\ e \in 0..TxLen /\ 1 + e <= TxLen /\ 1 + e = e + 1
    BY <1>1
  <2>3. Ix(Ix(TxFirst, 1, TxLen), e, TxLen) = Ix(TxFirst, 1 + e, TxLen)
    BY <2>2, <1>1, IxShift
  <2>4. TxIx(e)' = TxIx(e + 1)
    BY <2>1, <2>2, <2>3 DEF TxIx
  <2> QED
    BY <2>4, <1>2 DEF Desc
<1>6. Desc(TxLen) = Desc(0) /\ ~Desc(0).own
  BY <1>1, <1>2 DEF Desc
<1> QED
  BY <1>1, <1>2, <1>3, <1>5, <1>6

\* Taking back descriptors the device has cleared.
LEMMA ReclaimInv ==
  ASSUME Base, TxInv, DrvReclaim
  PROVE  TxInv'
<1>t. DrvTypes /\ TxTypes
  BY DEF Base
<1>1. /\ drv.used \in 1..TxLen /\ drv'.used = drv.used - 1 /\ drv'.tx = drv.tx
      /\ drv'.pc = "scan" /\ drv.pc = "scan" /\ TxLen \in Nat
      /\ \A e \in 0..TxLen - 1 : TxIx(e)' = TxIx(e + 1) /\ Desc(e)' = Desc(e + 1)
      /\ Desc(TxLen) = Desc(0) /\ ~Desc(0).own
  BY <1>t, ReclaimPlaces
<1>2. /\ UNCHANGED <<device, tx, tx_pos, tx_end, ctl, queued, sent>> /\ Started /\ Started'
  BY <1>1 DEF DrvReclaim, NoAccess, NoDevice, NoRegs, regVars, Started
<1>3. CASE device = "i8255x"
  <2>1. /\ \A e \in 0..TxLen - 1 : ~Desc(e).own
        /\ "CU_SUSPEND" \in ctl => Ix(tx_pos, 1, TxLen) = drv.tx
        /\ queued = sent
    BY <1>1, <1>2, <1>3 DEF TxInv, TxEepro
  <2>2. ASSUME NEW e \in 0..TxLen - 1 PROVE Desc(e)'.own = FALSE
    <3>1. CASE e + 1 = TxLen
      BY <3>1, <1>1, <2>1, DescTypes, <1>t DEF TxRec
    <3>2. CASE e + 1 # TxLen
      <4>1. e + 1 \in 0..TxLen - 1
        BY <3>2, <1>1
      <4> QED
        BY <4>1, <1>1, <2>1, DescTypes, <1>t DEF TxRec
    <3> QED
      BY <3>1, <3>2
  <2>3. TxEepro'
    BY <2>1, <2>2, <1>1, <1>2 DEF TxEepro
  <2> QED
    BY <2>3, <1>2, <1>3 DEF TxInv, StoppedTx
<1>4. CASE device # "i8255x"
  <2>1. PICK c \in 0..drv.used, t \in 0..drv.used : TxShape(c, t)
    BY <1>2, <1>4 DEF TxInv
  <2>2. TxSeg(c, t)
    BY <2>1 DEF TxShape
  <2>3. c > 0 /\ t > 0 /\ c <= t /\ c \in Nat /\ t \in Nat
    <3>1. t \in c..drv.used /\ c \in Nat /\ t \in Nat /\ c <= t
      BY <2>2, <1>1 DEF TxSeg
    <3>2. CASE c = 0 /\ t = 0
      <4>1. 0 \in t..drv.used - 1
        BY <3>2, <1>1
      <4> QED
        BY <4>1, <2>2, <1>1 DEF TxSeg, Link
    <3>3. CASE c = 0 /\ t # 0
      <4>1. 0 \in c..t - 1
        BY <3>3, <3>1
      <4> QED
        BY <4>1, <3>3, <2>2, <1>1 DEF TxSeg
    <3> QED
      BY <3>1, <3>2, <3>3
  <2> DEFINE c1 == c - 1
             t1 == t - 1
  <2>4. /\ c1 \in 0..drv'.used /\ t1 \in c1..drv'.used /\ t1 \in 0..drv'.used
        /\ c1 + 1 = c /\ t1 + 1 = t /\ c1 \in 0..TxLen - 1 /\ t1 \in 0..TxLen - 1
        /\ c1 \in Nat /\ t1 \in Nat
    BY <2>3, <1>1
  <2> HIDE DEF c1, t1
  <2>5. \A e \in 0..drv'.used : \A id, unit, of :
          Follows(e, id, unit, of)' = Follows(e + 1, id, unit, of)
    <3> TAKE e \in 0..drv'.used
    <3>1. e \in 0..TxLen - 1 /\ (e = drv'.used) = (e + 1 = drv.used)
      BY <1>1
    <3> QED
      BY <3>1, <1>1, <1>2 DEF Follows
  <2>6. \A e \in t1..drv'.used - 1 : Link(e)'
    <3> TAKE e \in t1..drv'.used - 1
    <3>1. e \in 0..TxLen - 1 /\ e + 1 \in t..drv.used - 1 /\ e + 1 \in 0..drv'.used
      BY <2>4, <1>1
    <3>2. Link(e + 1) /\ Desc(e)' = Desc(e + 1)
      BY <3>1, <2>2, <1>1 DEF TxSeg
    <3>3. \A id, unit, of : Follows(e + 1, id, unit, of)' = Follows(e + 1 + 1, id, unit, of)
      BY <3>1, <2>5
    <3> QED
      BY <3>2, <3>3, <1>2 DEF Link
  <2>7. TxSeg(c1, t1)'
    <3>1. \A e \in 0..c1 - 1 : ~Desc(e)'.own
      <4> TAKE e \in 0..c1 - 1
      <4>1. e \in 0..TxLen - 1 /\ e + 1 \in 0..c - 1
        BY <2>4, <1>1
      <4> QED
        BY <4>1, <2>2, <1>1 DEF TxSeg
    <3>2. \A e \in c1..t1 - 1 : Desc(e)'.own = (e = c1)
      <4> TAKE e \in c1..t1 - 1
      <4>1. e \in 0..TxLen - 1 /\ e + 1 \in c..t - 1 /\ (e = c1) = (e + 1 = c)
        BY <2>4, <1>1
      <4> QED
        BY <4>1, <2>2, <1>1 DEF TxSeg
    <3>3. \A e \in drv'.used..TxLen - 1 : ~Desc(e)'.own
      <4> TAKE e \in drv'.used..TxLen - 1
      <4>1. e \in 0..TxLen - 1 /\ (e + 1 = TxLen \/ e + 1 \in drv.used..TxLen - 1)
        BY <1>1
      <4> QED
        BY <4>1, <2>2, <1>1 DEF TxSeg
    <3>4. tx_pos' = TxIx(t1)' /\ (device' = "i8254x" => tx_end' = drv'.tx /\ c1 = t1)
      BY <2>2, <2>4, <1>1, <1>2 DEF TxSeg
    <3> QED
      BY <2>4, <2>6, <3>1, <3>2, <3>3, <3>4 DEF TxSeg
  <2>8. TxIx(c1)' = TxIx(c) /\ TxIx(t1)' = TxIx(t) /\ (c1 = t1) = (c = t) /\ (c1 < t1) = (c < t)
    BY <2>4, <1>1
  <2>9. \A id, unit, of : Follows(t1, id, unit, of)' = Follows(t, id, unit, of)
    BY <2>4, <2>5
  <2>10. Copied' = Copied
    BY <1>2 DEF Copied
  <2>11. Follows(t1, sent + 1, 1, 0)' = Follows(t, sent + 1, 1, 0)
         /\ Follows(t1, sent + 2, 1, 0)' = Follows(t, sent + 2, 1, 0)
    <3>1. \E i, j : i = sent + 1 /\ j = sent + 2
      OBVIOUS
    <3>2. PICK i, j : i = sent + 1 /\ j = sent + 2
      BY <3>1
    <3>3. Follows(t1, i, 1, 0)' = Follows(t, i, 1, 0) /\ Follows(t1, j, 1, 0)' = Follows(t, j, 1, 0)
      BY <2>9
    <3> QED
      BY <3>2, <3>3, <1>2 DEF Follows
  <2>12. TxQuiet(c1, t1)'
    <3>1. SetupAt(t) => SetupAt(t1)'
      <4> SUFFICES ASSUME SetupAt(t) PROVE SetupAt(t1)'
        OBVIOUS
      <4>1. t1 < drv'.used /\ Desc(t1)' = Desc(t)
        BY <2>4, <1>1 DEF SetupAt
      <4> QED
        BY <4>1, <1>2 DEF SetupAt
    <3> QED
      BY <3>1, <2>1, <2>8, <2>11, <1>2 DEF TxShape, TxQuiet
  <2>13. TxCopying(c1, t1)'
    <3> SUFFICES ASSUME tx.pc = "copy" PROVE TxCopying(c1, t1)'
      BY <1>2 DEF TxCopying
    <3>1. /\ t < drv.used /\ Copied
          /\ Follows(t, sent + 1, Len(tx.pkt) + 1, IF tx.pkt = <<>> THEN 0 ELSE tx.pkt[1].of)
          /\ device # "i8254x" => tx.cur = TxIx(t) /\ tx.start = TxIx(c) /\ (c = t) = (tx.pkt = <<>>)
      BY <2>1 DEF TxShape, TxCopying
    <3>2. \E i, m, f : i = sent + 1 /\ m = Len(tx.pkt) + 1
                       /\ f = IF tx.pkt = <<>> THEN 0 ELSE tx.pkt[1].of
      OBVIOUS
    <3>3. PICK i, m, f : i = sent + 1 /\ m = Len(tx.pkt) + 1
                       /\ f = IF tx.pkt = <<>> THEN 0 ELSE tx.pkt[1].of
      BY <3>2
    <3>4. Follows(t1, i, m, f)'
      BY <3>1, <3>3, <2>9
    <3>5. Follows(t1, sent + 1, Len(tx.pkt) + 1, IF tx.pkt = <<>> THEN 0 ELSE tx.pkt[1].of)'
      BY <3>3, <3>4, <1>2 DEF Follows
    <3>6. t1 < drv'.used
      BY <3>1, <2>4, <1>1
    <3> QED
      BY <3>1, <3>5, <3>6, <2>8, <1>2, <2>10 DEF TxCopying
  <2>14. TxSending(c1, t1)' /\ TxClearing(c1, t1)'
    BY <2>1, <2>8, <2>10, <2>11, <1>2 DEF TxShape, TxSending, TxClearing
  <2>15. TxShape(c1, t1)'
    BY <2>7, <2>12, <2>13, <2>14 DEF TxShape
  <2>16. t1 \in 0..drv'.used
    BY <2>4
  <2> QED
    BY <2>4, <2>15, <2>16, <1>2, <1>4 DEF TxInv, StoppedTx
<1> QED
  BY <1>3, <1>4

\* Slots with the same next slot are the same.
LEMMA IxPrevious ==
  ASSUME NEW n \in Nat \ {0}, NEW a \in 0..n - 1, NEW b \in 0..n - 1, Ix(a, 1, n) = Ix(b, 1, n)
  PROVE  a = b
BY DEF Ix

\* Queueing a command block for the i8255x.
LEMMA CommandInv ==
  ASSUME Base, TxInv, NEW n \in 1..MaxUnit, EeproCommand(n)
  PROVE  TxInv'
<1>t. DrvTypes /\ TxTypes
  BY DEF Base
<1>1. /\ drv.tx \in 0..TxLen - 1 /\ drv.used \in 0..TxLen /\ TxLen \in Nat \ {0}
      /\ TxFirst \in 0..TxLen - 1 /\ TxIx(drv.used) = drv.tx /\ TxSlot = 0..TxLen - 1
      /\ tx_pos \in 0..TxLen - 1 /\ 1 \in 0..TxLen
  BY <1>t, TxPlaces DEF DrvTypes, DrvState, TxTypes
<1>2. /\ device = "i8255x" /\ drv.pc = "idle" /\ drv.used < TxLen /\ queued' = queued + 1
      /\ drv' = [drv EXCEPT !.tx = (drv.tx + 1) % TxLen, !.used = @ + 1, !.pc = "command"]
      /\ ctl' = ctl \cup {"CU_SUSPEND"} /\ UNCHANGED <<device, sent>>
  BY DEF EeproCommand, Eepro
<1>3. /\ drv'.tx = Ix(drv.tx, 1, TxLen) /\ drv'.used = drv.used + 1 /\ drv'.pc = "command"
      /\ drv.used \in 0..TxLen - 1
  <2>1. drv'.tx = (drv.tx + 1) % TxLen /\ drv'.used = drv.used + 1 /\ drv'.pc = "command"
    BY <1>2, <1>t DEF DrvTypes, DrvState
  <2>2. (drv.tx + 1) % TxLen = Ix(drv.tx, 1, TxLen)
    BY <1>1, ModIx
  <2>3. drv.used \in 0..TxLen - 1
    BY <1>1, <1>2
  <2> QED
    BY <2>1, <2>2, <2>3
<1>4. Started /\ Started'
  BY <1>2, <1>3 DEF Started
<1>5. /\ \A e \in 0..TxLen - 1 : ~Desc(e).own
      /\ "CU_SUSPEND" \in ctl => Ix(tx_pos, 1, TxLen) = drv.tx
      /\ queued = sent /\ sent \in Nat
  BY <1>2, <1>4 DEF TxInv, TxEepro
<1> DEFINE block == Resume(drv.tx)
           before == (drv.tx + TxLen - 1) % TxLen
           new == [own |-> TRUE, stp |-> TRUE, enp |-> TRUE, s |-> TRUE,
                   buf |-> [id |-> queued + 1, unit |-> 1, of |-> n]]
           mem == [txd EXCEPT ![before].s = FALSE, ![drv.tx] = new]
<1>6. block = drv.tx
  BY <1>1, <1>5, ModIx DEF Resume
<1>7. /\ txd' = mem /\ tx_pos' = block
      /\ tx' = [TxIdle EXCEPT !.pc = "send", !.cur = block, !.start = block,
                    !.pkt = Gather(mem[block].buf.id, mem[block].buf.of)]
  BY DEF EeproCommand
<1> HIDE DEF block
<1>8. mem[drv.tx] = new /\ \A i \in TxSlot : i # drv.tx => mem[i].own = txd[i].own
  <2> HIDE DEF new
  <2>1. txd \in [TxSlot -> TxRec] /\ drv.tx \in TxSlot
    BY <1>1, <1>t DEF TxTypes
  <2> DEFINE m1 == [txd EXCEPT ![before].s = FALSE]
  <2>2. mem = [m1 EXCEPT ![drv.tx] = new]
    OBVIOUS
  <2>3. DOMAIN m1 = TxSlot /\ \A i \in TxSlot : m1[i].own = txd[i].own
    <3> HIDE DEF before
    <3>1. DOMAIN m1 = TxSlot
      BY <2>1
    <3>2. ASSUME NEW i \in TxSlot PROVE m1[i].own = txd[i].own
      <4>1. txd[i] \in TxRec
        BY <2>1
      <4>2. CASE i = before
        <5>1. m1[i] = [txd[i] EXCEPT !.s = FALSE]
          BY <2>1, <4>2
        <5> QED
          BY <5>1, <4>1 DEF TxRec
      <4>3. CASE i # before
        BY <2>1, <4>3
      <4> QED
        BY <4>2, <4>3
    <3> QED
      BY <3>1, <3>2
  <2> HIDE DEF m1
  <2> QED
    BY <2>1, <2>2, <2>3
<1> HIDE DEF mem
<1>9. mem[block].buf.id = queued + 1 /\ mem[block].buf.of = n
  BY <1>6, <1>8
<1>10. /\ tx'.pkt = Gather(queued + 1, n) /\ tx'.cur = drv.tx /\ tx_pos' = drv.tx
  BY <1>6, <1>7, <1>9 DEF TxIdle
<1>11. n \in Nat /\ 1 \in 1..n
  BY Sizes
<1>12. /\ Len(tx'.pkt) = n /\ tx'.pkt # <<>>
       /\ \A k \in 1..n : tx'.pkt[k] = [id |-> queued + 1, unit |-> k, of |-> n]
  <2>1. tx'.pkt = [k \in 1..n |-> [id |-> queued + 1, unit |-> k, of |-> n]]
    BY <1>10 DEF Gather
  <2>2. Len(tx'.pkt) = n
    BY <2>1, <1>11
  <2>3. tx'.pkt[1] = [id |-> queued + 1, unit |-> 1, of |-> n]
    BY <2>1, <1>11
  <2>4. tx'.pkt # <<>>
    BY <2>2, <1>11
  <2> QED
    BY <2>1, <2>2, <2>4
<1>13. tx'.pkt[1].of = n
  <2>1. tx'.pkt[1] = [id |-> queued + 1, unit |-> 1, of |-> n]
    BY <1>11, <1>12
  <2> QED
    BY <2>1
<1>14. Copied'
  BY <1>2, <1>5, <1>12, <1>13 DEF Copied
<1>15. TxFirst' = TxFirst
  <2>1. TxFirst' = Ix(Ix(drv.tx, 1, TxLen), TxLen - (drv.used + 1), TxLen)
    BY <1>3 DEF TxFirst
  <2>2. TxLen - (drv.used + 1) \in 0..TxLen /\ 1 + (TxLen - (drv.used + 1)) = TxLen - drv.used
        /\ TxLen - drv.used <= TxLen
    BY <1>1, <1>3
  <2> DEFINE k == TxLen - (drv.used + 1)
  <2>3. k \in 0..TxLen /\ 1 + k = TxLen - drv.used /\ 1 + k <= TxLen
    BY <2>2
  <2> HIDE DEF k
  <2>4. Ix(Ix(drv.tx, 1, TxLen), k, TxLen) = Ix(drv.tx, 1 + k, TxLen)
    BY <2>3, <1>1, IxShift
  <2>5. TxFirst' = Ix(Ix(drv.tx, 1, TxLen), k, TxLen)
    BY <2>1 DEF k
  <2> QED
    BY <2>3, <2>4, <2>5 DEF TxFirst
<1>16. \A e \in 0..TxLen - 1 : Desc(e)'.own = (e = drv.used)
  <2> TAKE e \in 0..TxLen - 1
  <2>1. TxIx(e)' = TxIx(e) /\ TxIx(e) \in TxSlot /\ (TxIx(e) = drv.tx) = (e = drv.used)
    <3>1. TxIx(e)' = TxIx(e)
      BY <1>15 DEF TxIx
    <3>0. e \in 0..TxLen
      BY <1>1
    <3>2. TxIx(e) \in TxSlot
      BY <3>0, <1>t, TxPlaces
    <3>3. (TxIx(e) = TxIx(drv.used)) = (e = drv.used)
      BY <1>3, <1>t, TxDistinct
    <3> QED
      BY <3>1, <3>2, <3>3, <1>1
  <2>2. Desc(e)' = mem[TxIx(e)]
    BY <2>1, <1>7 DEF Desc
  <2>3. Desc(e).own = FALSE
    BY <1>5, <1>t, DescTypes DEF TxRec
  <2>4. CASE e = drv.used
    <3>1. mem[drv.tx].own = TRUE
      BY <1>8
    <3>2. TxIx(e) = drv.tx
      BY <2>4, <1>1
    <3> QED
      BY <3>1, <3>2, <2>2, <2>4
  <2>5. CASE e # drv.used
    BY <2>1, <2>2, <2>3, <2>5, <1>8 DEF Desc
  <2> QED
    BY <2>4, <2>5
<1>17. drv'.used - 1 = drv.used /\ drv'.used > 0
  BY <1>3
<1>18. TxEepro'
  BY <1>2, <1>3, <1>5, <1>10, <1>12, <1>13, <1>14, <1>16, <1>17 DEF TxEepro
<1> QED
  BY <1>2, <1>4, <1>5, <1>18 DEF TxInv, StoppedTx

\* Starting the i8255x on it (dev_i8255x_process_cu_cmd).
LEMMA CompleteInv ==
  ASSUME Base, TxInv, EeproComplete
  PROVE  TxInv'
<1>t. DrvTypes /\ TxTypes
  BY DEF Base
<1>1. /\ drv.tx \in 0..TxLen - 1 /\ drv.used \in 0..TxLen /\ TxLen \in Nat \ {0}
      /\ TxFirst \in 0..TxLen - 1 /\ TxIx(drv.used) = drv.tx /\ TxSlot = 0..TxLen - 1
      /\ tx_pos \in 0..TxLen - 1 /\ 1 \in 0..TxLen
  BY <1>t, TxPlaces DEF DrvTypes, DrvState, TxTypes
<1>2. /\ device = "i8255x" /\ drv.pc = "command" /\ txd' = [txd EXCEPT ![tx.cur].own = FALSE]
      /\ sent' = tx.pkt[1].id /\ drv' = [drv EXCEPT !.pc = "idle"]
      /\ UNCHANGED <<device, ctl, tx_pos, queued>>
  BY DEF EeproComplete, Eepro
<1>3. drv'.pc = "idle" /\ drv'.tx = drv.tx /\ drv'.used = drv.used /\ Started /\ Started'
  BY <1>2, <1>t DEF DrvTypes, DrvState, Started
<1>4. /\ \A e \in 0..TxLen - 1 : Desc(e).own = (e = drv.used - 1)
      /\ Ix(tx_pos, 1, TxLen) = drv.tx /\ sent \in Nat
      /\ queued = sent + 1 /\ drv.used > 0 /\ tx.cur = tx_pos
      /\ tx.pkt # <<>> /\ Copied
  BY <1>2, <1>3 DEF TxInv, TxEepro
<1>5. sent' = queued
  <2>1. tx.pkt \in Seq(UnitRec)
    BY <1>t DEF TxTypes, TxState
  <2>2. 1 \in 1..Len(tx.pkt)
    BY <2>1, <1>4
  <2>3. tx.pkt[1] = [id |-> sent + 1, unit |-> 1, of |-> tx.pkt[1].of]
    BY <2>2, <1>4 DEF Copied
  <2> DEFINE p == tx.pkt[1]
             o == tx.pkt[1].of
  <2>4. p = [id |-> sent + 1, unit |-> 1, of |-> o] /\ sent' = p.id
    BY <2>3, <1>2
  <2> HIDE DEF p, o
  <2> QED
    BY <2>4, <1>4
<1>6. TxIx(drv.used - 1) = tx_pos
  <2>1. drv.used - 1 \in 0..TxLen - 1 /\ (drv.used - 1) + 1 = drv.used /\ drv.used - 1 \in 0..TxLen
    BY <1>1, <1>4
  <2>2. Ix(TxIx(drv.used - 1), 1, TxLen) = TxIx(drv.used)
    BY <2>1, <1>1, IxNext DEF TxIx
  <2>3. TxIx(drv.used - 1) \in 0..TxLen - 1
    BY <2>1, <1>1, <1>t, TxPlaces
  <2> QED
    BY <2>2, <2>3, <1>1, <1>4, IxPrevious
<1>7. ASSUME NEW e \in 0..TxLen - 1 PROVE Desc(e)'.own = FALSE
  <2>1. drv.used - 1 \in 0..TxLen - 1
    BY <1>1, <1>4
  <2>2. TxIx(e)' = TxIx(e) /\ TxIx(e) \in TxSlot /\ (TxIx(e) = tx_pos) = (e = drv.used - 1)
    <3>1. TxIx(e)' = TxIx(e)
      BY <1>3 DEF TxIx, TxFirst
    <3>0. e \in 0..TxLen
      BY <1>1
    <3>2. TxIx(e) \in TxSlot
      BY <3>0, <1>t, TxPlaces
    <3>3. (TxIx(e) = TxIx(drv.used - 1)) = (e = drv.used - 1)
      BY <2>1, <1>t, TxDistinct
    <3> QED
      BY <3>1, <3>2, <3>3, <1>6
  <2>3. Desc(e)' = txd'[TxIx(e)] /\ Desc(e) = txd[TxIx(e)] /\ txd \in [TxSlot -> TxRec]
    BY <2>2, <1>t DEF Desc, TxTypes
  <2>4. CASE e = drv.used - 1
    BY <2>2, <2>3, <2>4, <1>2, <1>4 DEF TxRec
  <2>5. CASE e # drv.used - 1
    <3>1. Desc(e)' = Desc(e)
      BY <2>2, <2>3, <2>5, <1>2, <1>4
    <3> QED
      BY <3>1, <2>5, <1>4
  <2> QED
    BY <2>4, <2>5
<1>8. TxEepro'
  BY <1>2, <1>3, <1>4, <1>5, <1>7 DEF TxEepro
<1>9. sent' \in Nat
  BY <1>5, <1>t DEF TxTypes
<1> QED
  BY <1>2, <1>3, <1>8, <1>9 DEF TxInv, StoppedTx

-----------------------------------------------------------------------------
\* The device is started with its rings prepared.
LEMMA FreshShape ==
  ASSUME Base, ~Started, TxInv, drv.pc = "prepared", Started',
         UNCHANGED <<device, tx, tx_pos, txd, sent, queued>>,
         drv'.tx = 0, drv'.used = 0, device = "i8254x" => tx_end' = 0, drv'.pc # "command",
         "CU_SUSPEND" \notin ctl'
  PROVE  TxInv'
<1>t. DrvTypes /\ TxTypes /\ tx.pc = "idle"
  BY DEF Base, CtlInv
<1>1. /\ tx_pos = 0 /\ sent = queued /\ txd = [i \in TxSlot |-> FreshTx] /\ sent \in Nat
  BY DEF TxInv, StoppedTx
<1>2. TxLen \in Nat \ {0} /\ TxSlot = 0..TxLen - 1
  BY Sizes DEF TxSlot
<1>3. TxFirst' = 0 /\ \A e \in 0..TxLen - 1 : TxIx(e)' = e
  <2>1. TxFirst' = Ix(0, TxLen - 0, TxLen)
    BY DEF TxFirst
  <2>2. TxLen - 0 = TxLen /\ 0 \in 0..TxLen - 1
    BY <1>2
  <2>3. TxFirst' = 0
    BY <2>1, <2>2, <1>2, IxZero
  <2>4. \A e \in 0..TxLen - 1 : Ix(0, e, TxLen) = e
    BY <1>2 DEF Ix
  <2> QED
    BY <2>3, <2>4 DEF TxIx
<1>4. \A e \in 0..TxLen - 1 : Desc(e)' = FreshTx
  BY <1>1, <1>2, <1>3 DEF Desc
<1>5. \A e \in 0..TxLen - 1 : Desc(e)'.own = FALSE
  BY <1>4 DEF FreshTx
<1>6. TxEepro'
  BY <1>1, <1>5 DEF TxEepro
<1>7. TxShape(0, 0)'
  <2>1. TxSeg(0, 0)'
    <3>1. tx_pos' = TxIx(0)'
      BY <1>1, <1>2, <1>3
    <3>2. 0 \in 0..drv'.used
      OBVIOUS
    <3>3. \A e \in 0..0 - 1 : FALSE
      OBVIOUS
    <3> QED
      BY <3>1, <3>2, <3>3, <1>5 DEF TxSeg
  <2>2. Follows(0, sent + 1, 1, 0)'
    BY <1>1 DEF Follows
  <2>3. TxQuiet(0, 0)' /\ TxCopying(0, 0)' /\ TxSending(0, 0)' /\ TxClearing(0, 0)'
    BY <2>2, <1>t DEF TxQuiet, TxCopying, TxSending, TxClearing
  <2> QED
    BY <2>1, <2>3 DEF TxShape
<1>8. 0 \in 0..drv'.used
  OBVIOUS
<1> QED
  BY <1>1, <1>6, <1>7, <1>8 DEF TxInv, StoppedTx

\* The 21140 has a setup frame as its first.
LEMMA DecStartInv ==
  ASSUME Base, TxInv, DecStart
  PROVE  TxInv'
<1>t. DrvTypes /\ TxTypes
  BY DEF Base
<1>1. /\ device = "dec21140" /\ drv.pc = "prepared" /\ tx_pos' = 0
      /\ txd' = [txd EXCEPT ![0].own = TRUE]
      /\ drv' = [drv EXCEPT !.pc = "idle", !.tx = 1 % TxLen, !.used = 1]
      /\ UNCHANGED <<device, tx, queued, sent>>
  BY DEF DecStart, Dec, NoAccess
<1>2. ~Started /\ Started' /\ drv'.tx = 1 % TxLen /\ drv'.used = 1 /\ drv'.pc = "idle"
  BY <1>1, <1>t DEF Started, DrvTypes, DrvState
<1>3. /\ sent = 0 /\ queued = 0 /\ txd = [i \in TxSlot |-> FreshTx] /\ tx.pc = "idle"
  BY <1>1, <1>2 DEF TxInv, StoppedTx, Base, CtlInv
<1>4. TxLen \in Nat \ {0} /\ TxSlot = 0..TxLen - 1 /\ 0 \in 0..TxLen - 1 /\ 1 \in 0..TxLen
  BY Sizes DEF TxSlot
<1>5. TxFirst' = 0 /\ \A e \in 0..TxLen - 1 : TxIx(e)' = e
  <2>1. drv'.tx = Ix(0, 1, TxLen)
    <3>1. 0 + 1 = 1
      OBVIOUS
    <3> QED
      BY <3>1, <1>2, <1>4, ModIx
  <2>2. TxFirst' = Ix(Ix(0, 1, TxLen), TxLen - 1, TxLen)
    BY <2>1, <1>2 DEF TxFirst
  <2>3. TxLen - 1 \in 0..TxLen /\ 1 + (TxLen - 1) = TxLen /\ TxLen <= TxLen
    BY <1>4
  <2>4. TxFirst' = 0
    BY <2>2, <2>3, <1>4, IxShift, IxZero
  <2>5. \A e \in 0..TxLen - 1 : Ix(0, e, TxLen) = e
    BY <1>4 DEF Ix
  <2> QED
    BY <2>4, <2>5 DEF TxIx
<1>6. /\ Desc(0)' = [FreshTx EXCEPT !.own = TRUE]
      /\ \A e \in 0..TxLen - 1 : e # 0 => Desc(e)' = FreshTx
  BY <1>1, <1>3, <1>4, <1>5 DEF Desc
<1>7. /\ Desc(0)'.own /\ Desc(0)'.stp = FALSE /\ Desc(0)'.enp = FALSE /\ Desc(0)'.buf = NoUnit
      /\ Desc(0)'.buf.unit = 0 /\ Desc(0)'.buf.of = 0 /\ Desc(0)'.buf.id = 0
  BY <1>6 DEF FreshTx, NoUnit
<1>8. Link(0)'
  <2>1. Follows(1, 1, 1, 0)'
    BY <1>1, <1>2, <1>3 DEF Follows
  <2>2. 0 + 1 = 1
    OBVIOUS
  <2>3. /\ Desc(0)'.stp = (Desc(0)'.buf.unit = 1)
        /\ Desc(0)'.enp = (Desc(0)'.buf.unit > 0 /\ Desc(0)'.buf.unit = Desc(0)'.buf.of)
    <3>1. ~ (Desc(0)'.buf.unit = 1) /\ ~ (Desc(0)'.buf.unit > 0)
      BY <1>7
    <3> QED
      BY <3>1, <1>7
  <2>4. Desc(0)'.buf.unit <= Desc(0)'.buf.of /\ ~ (Desc(0)'.buf.unit < Desc(0)'.buf.of)
    BY <1>7
  <2>5. Follows(0 + 1, Desc(0).buf.id + 1, 1, 0)'
    BY <1>1, <1>2, <1>3, <1>7 DEF Follows
  <2> QED
    BY <2>3, <2>4, <2>5, <1>1, <1>7 DEF Link
<1>9. TxSeg(0, 0)'
  <2>1. \A e \in 0..0 - 1 : FALSE
    OBVIOUS
  <2>2. \A e \in 0..drv'.used - 1 : e = 0
    BY <1>2
  <2>3. \A e \in drv'.used..TxLen - 1 : ~Desc(e)'.own
    <3> TAKE e \in drv'.used..TxLen - 1
    <3>1. e \in 0..TxLen - 1 /\ e # 0
      BY <1>2, <1>4
    <3> QED
      BY <3>1, <1>6 DEF FreshTx
  <2>4. tx_pos' = TxIx(0)' /\ 0 \in 0..drv'.used
    BY <1>1, <1>2, <1>4, <1>5
  <2> QED
    BY <2>1, <2>2, <2>3, <2>4, <1>1, <1>8 DEF TxSeg
<1>10. SetupAt(0)'
  BY <1>1, <1>2, <1>3, <1>7 DEF SetupAt
<1>11. TxShape(0, 0)'
  BY <1>1, <1>3, <1>9, <1>10 DEF TxShape, TxQuiet, TxCopying, TxSending, TxClearing
<1>12. 0 \in 0..drv'.used /\ sent' \in Nat
  BY <1>1, <1>2, <1>3
<1> QED
  BY <1>1, <1>2, <1>11, <1>12 DEF TxInv, StoppedTx

\* Giving fresh rings to the device.
LEMMA StartsInv ==
  ASSUME Base, TxInv, Starts
  PROVE  TxInv'
<1>t. drv \in DrvState /\ sent \in Nat
  BY DEF Base, DrvTypes, TxInv
<1> USE DEF NoAccess, NoDevice, NoRegs, regVars, memVars, Access
<1>1. CASE DrvPrepare
  <2>1. drv' = [DrvStopped EXCEPT !.pc = "prepared"] /\ drv.pc = "stopped" /\ drv'.pc = "prepared"
        /\ txd' = [i \in TxSlot |-> FreshTx] /\ UNCHANGED <<device, tx_pos, sent, queued>>
    BY <1>1 DEF DrvPrepare, DrvStopped
  <2> QED
    BY <2>1 DEF TxInv, StoppedTx, Started
<1>2. CASE DecStart
  BY <1>2, DecStartInv
<1> DEFINE Fresh ==
      /\ drv.pc = "prepared" /\ ~Started /\ Started'
      /\ UNCHANGED <<device, tx, tx_pos, txd, sent, queued>>
      /\ drv'.tx = drv.tx /\ drv'.used = drv.used /\ drv'.pc = "idle"
      /\ (device = "i8254x" => tx_end' = 0) /\ "CU_SUSPEND" \notin ctl'
<1>3. ASSUME Fresh PROVE TxInv'
  <2>1. drv = [DrvStopped EXCEPT !.pc = "prepared"]
    BY <1>3 DEF TxInv, StoppedTx
  <2>2. drv.tx = 0 /\ drv.used = 0
    BY <2>1 DEF DrvStopped
  <2> QED
    BY <2>2, <1>3, FreshShape
<1>p. drv.pc = "prepared" => ~Started /\ tx_pos = 0 /\ ctl \cap RunBits = {}
  BY DEF Started, TxInv, StoppedTx, Base, CtlInv
<1>4. CASE \E mode \in Mode : AmStart(mode)
  <2>1. PICK mode \in Mode : AmStart(mode)
    BY <1>4
  <2>2. drv' = [drv EXCEPT !.pc = "idle", !.read = {}] /\ drv.pc = "prepared" /\ device = "am79c971"
        /\ UNCHANGED <<device, tx, txd, sent, queued>>
    BY <2>1 DEF AmStart, Am
  <2>3. drv'.pc = "idle" /\ drv'.tx = drv.tx /\ drv'.used = drv.used
    BY <2>2, <1>t DEF DrvState
  <2>4. mode \subseteq {"DRX", "DTX"} /\ "CU_SUSPEND" \notin ctl
    BY <1>p, <2>2, NicsAssumption DEF AmAssumption, RunBits
  <2>5. tx_pos' = tx_pos
    BY <2>1 DEF AmStart, WriteCsr0
  <2>6. "CU_SUSPEND" \notin ctl'
    BY <2>1, <2>4 DEF AmStart, WriteCsr0, AmUpdateIrq, OnBits
  <2> QED
    BY <2>2, <2>3, <2>5, <2>6, <1>3, <1>p DEF Started
<1>5. CASE MuesStart \/ PosStart \/ LvgStart
  <2>2. drv' = [drv EXCEPT !.pc = "idle", !.read = {}] /\ drv.pc = "prepared"
        /\ UNCHANGED <<device, tx, txd, sent, queued>> /\ tx_pos' = 0
        /\ (device = "i8254x" => tx_end' = 0) /\ "CU_SUSPEND" \notin ctl'
    BY <1>5 DEF MuesStart, PosStart, LvgStart, Mues, Pos, Lvg, LvgControl
  <2>3. drv'.pc = "idle" /\ drv'.tx = drv.tx /\ drv'.used = drv.used
    BY <2>2, <1>t DEF DrvState
  <2> QED
    BY <2>2, <2>3, <1>3, <1>p DEF Started
<1>6. CASE EeproStart
  <2>2. drv' = [drv EXCEPT !.pc = "idle"] /\ drv.pc = "prepared" /\ device = "i8255x"
        /\ UNCHANGED <<device, tx, tx_pos, txd, sent, queued>> /\ "CU_SUSPEND" \notin ctl'
    BY <1>6 DEF EeproStart, Eepro
  <2>3. drv'.pc = "idle" /\ drv'.tx = drv.tx /\ drv'.used = drv.used
    BY <2>2, <1>t DEF DrvState
  <2> QED
    BY <2>2, <2>3, <1>3, <1>p DEF Started
<1> QED
  BY <1>1, <1>2, <1>4, <1>5, <1>6 DEF Starts

\* Stopping the Am79c971.
LEMMA AmStopInv ==
  ASSUME Base, TxInv, AmStop
  PROVE  TxInv'
<1>1. drv' = [drv EXCEPT !.pc = "stopped"] /\ device = "am79c971" /\ sent' = queued
      /\ UNCHANGED <<device, queued>> /\ tx_pos' = 0
  BY DEF AmStop, NoAccess, WriteCsr0
<1>2. drv'.pc = "stopped"
  BY <1>1 DEF Base, DrvTypes, DrvState
<1>3. queued \in Nat
  BY DEF Base, TxTypes
<1> QED
  BY <1>1, <1>2, <1>3 DEF TxInv, StoppedTx, Started

\* Queueing, whatever the device.
LEMMA QueuesInv ==
  ASSUME Base, TxInv, Queues
  PROVE  TxInv'
<1>1. PICK n \in 1..MaxUnit : AmQueue(n) \/ DecQueue(n) \/ MuesQueue(n) \/ PosQueue(n) \/ LvgQueue(n)
              \/ EeproCommand(n)
  BY DEF Queues
<1>2. CASE AmQueue(n) \/ DecQueue(n) \/ MuesQueue(n) \/ PosQueue(n) \/ LvgQueue(n)
  <2>1. /\ Queue(n, FALSE) /\ device # "i8255x" /\ tx_pos' = tx_pos
        /\ tx_end' = IF device = "i8254x" THEN TxAt(n) ELSE tx_end
    BY <1>2 DEF AmQueue, DecQueue, MuesQueue, PosQueue, LvgQueue, Am, Dec, Mues, Pos, Lvg,
       NoDevice,
                NoRegs, regVars
  <2>2. Started
    BY <2>1 DEF Queue, Started
  <2> QED
    BY <2>1, <2>2, QueueInv
<1> QED
  BY <1>1, <1>2, CommandInv

-----------------------------------------------------------------------------
\* Nothing is queued or being sent at the start.
LEMMA TxInvInit == Init => TxInv
BY DEF Init, RingInit, TxInv, StoppedTx, Started, DrvStopped

\* Every step keeps the transmit invariant.
LEMMA TxInvStep == ASSUME Base, TxInv, [Next]_nicVars PROVE TxInv'
<1>1. CASE Arrivals \/ RxThread
  BY <1>1, ArrivalsAlone, RxThreadAlone, TxKeptByRx
<1>2. CASE TxBegins
  BY <1>2, TxBeginsInv
<1>3. CASE TxThread
  BY <1>3, TxThreadInv
<1>4. CASE Driver
  BY <1>4, QueuesInv, StartsInv, AmStopInv, DriverElsewhere, CompleteInv,
     ReclaimInv DEF Driver, Scans
<1>5. CASE Still
  BY <1>5, TxKept DEF Still, regVars, memVars, ghostVars
<1> QED
  BY <1>1, <1>2, <1>3, <1>4, <1>5, Steps

\* What it says of the packet about to be sent.
LEMMA WholeSent == ASSUME Base, TxInv PROVE PacketWhole
<1> SUFFICES ASSUME tx.pc = "send"
             PROVE  LET p == tx.pkt[1]
                    IN /\ p.id = sent + 1 /\ Len(tx.pkt) = p.of
                       /\ \A k \in DOMAIN tx.pkt : tx.pkt[k] = [id |-> p.id, unit |-> k, of |-> p.of]
  BY DEF PacketWhole
<1>t. TxTypes /\ DrvTypes
  BY DEF Base
<1>1. tx.pkt # <<>> /\ Copied /\ tx.pkt[1].of = Len(tx.pkt)
  <2>1. CASE device = "i8255x"
    <3>1. drv.pc = "command"
      BY <2>1 DEF Base, LockInv
    <3>2. Started
      BY <3>1 DEF Started
    <3> QED
      BY <3>1, <3>2, <2>1 DEF TxInv, TxEepro
  <2>2. CASE device # "i8255x"
    <3>1. Started
      BY DEF Base, CtlInv
    <3>2. PICK c \in 0..drv.used, t \in 0..drv.used : TxShape(c, t)
      BY <3>1, <2>2 DEF TxInv
    <3> QED
      BY <3>2 DEF TxShape, TxSending
  <2> QED
    BY <2>1, <2>2
<1>2. tx.pkt \in Seq(UnitRec)
  BY <1>t DEF TxTypes, TxState
<1>3. DOMAIN tx.pkt = 1..Len(tx.pkt) /\ 1 \in 1..Len(tx.pkt)
  BY <1>1, <1>2
<1>4. tx.pkt[1] = [id |-> sent + 1, unit |-> 1, of |-> tx.pkt[1].of]
  BY <1>1, <1>3 DEF Copied
<1>5. tx.pkt[1].id = sent + 1
  <2> DEFINE p == tx.pkt[1]
             o == tx.pkt[1].of
  <2>1. p = [id |-> sent + 1, unit |-> 1, of |-> o]
    BY <1>4
  <2> HIDE DEF p, o
  <2>2. p.id = sent + 1
    BY <2>1
  <2> QED
    BY <2>2 DEF p
<1> QED
  BY <1>1, <1>3, <1>5 DEF Copied

(* What any of the devices sends is the next packet the driver queued, with   *)
(* all of its units in order (am79c971_handle_txring_single and its like,     *)
(* dev_i8255x_process_cb), for rings and packets of every size, whatever the  *)
(* driver does meanwhile: queue more, reclaim, stop or restart the device.    *)
THEOREM NicsPacketWhole == Spec => []PacketWhole
<1>1. Init => Base /\ TxInv
  BY BaseInit, TxInvInit
<1>2. Base /\ TxInv /\ [Next]_nicVars => Base' /\ TxInv'
  BY BaseStep, TxInvStep
<1>3. Base /\ TxInv => PacketWhole
  BY WholeSent
<1> QED
  BY <1>1, <1>2, <1>3, PTL DEF Spec

(* The receive ring, seen from the driver's position.                       *)

RxIx(k) == Ix(drv.rx, k, RxLen)
Slot(k) == rxd[RxIx(k)]

\* The last frame that is stored; the newest one may be on its way.
LastId == IF rx.pc \in {"idle", "raise", "update"} THEN frames ELSE frames - 1

\* A frame, in the places from a to b.
EndOk(b, n) ==
  IF Slot(b).err \/ (device = "pos" /\ n < Slot(b).buf.of)
  THEN n < Slot(b).buf.of
  ELSE n = Slot(b).buf.of /\ (device \notin {"mueslix", "pos", "i8254x"} => Slot(b).count = n)
FrameUnit(a, b, j) ==
  /\ ~Slot(j).own /\ Slot(j).enp = (j = b) /\ Slot(j).stp = (j = a)
  /\ Slot(j).buf.id = Slot(a).buf.id /\ Slot(j).buf.unit = j - a + 1
  /\ device \in {"mueslix", "pos", "i8254x"} => Slot(j).count = 1
Whole(a, b) == (\A j \in a..b : FrameUnit(a, b, j)) /\ EndOk(b, b - a + 1)

\* The first d places hold frames that are to be taken, in their order.
Framed(d) == \A k \in 0..d - 1 : \E a \in 0..k, b \in k..d - 1 : Whole(a, b)
Ordered(d) ==
  /\ taken <= LastId
  /\ \A k \in 0..d - 1 : /\ taken < Slot(k).buf.id /\ Slot(k).buf.id <= LastId
                         /\ device = "i8255x" => Slot(k).buf.of = 1
  /\ \A j, k \in 0..d - 1 : j < k /\ Slot(j).enp => Slot(j).buf.id < Slot(k).buf.id
RxFront(d) == d \in 0..RxLen /\ Framed(d) /\ Ordered(d)

\* The places from e on are the device's.
CleanSlot(k) == Slot(k).own /\ ~Slot(k).stp /\ ~Slot(k).enp /\ ~Slot(k).err
Clean(e) == \A k \in e..RxLen - 1 : CleanSlot(k)

\* What the handler has written of a frame, at the places from d on.
Marked == IF rx.pc = "mark" THEN rx.unit - 1 ELSE rx.unit
Part(d, k) ==
  /\ Slot(k).buf = [id |-> frames, unit |-> k - d + 1, of |-> rx.of]
  /\ ~Slot(k).stp /\ Slot(k).own = (k = d \/ k >= d + Marked)
PartEnd(d, k) == rx.pc \in {"count", "final"} /\ k = d + rx.unit - 1
PartMarked(d, k) ==
  /\ Slot(k).enp = PartEnd(d, k)
  /\ Slot(k).err = (PartEnd(d, k) /\ device # "pos" /\ rx.unit < rx.of)
  /\ device \in {"mueslix", "pos"} => Slot(k).count = 1
RingParts(d) ==
  /\ d \in 0..RxLen - 1 /\ d + rx.unit <= RxLen /\ rx.unit <= rx.of /\ rx.of \in 1..MaxUnit
  /\ Slot(d).own /\ Clean(d + rx.unit)
  /\ \A k \in d..d + rx.unit - 1 : Part(d, k)
  /\ \A k \in d + 1..d + Marked - 1 : PartMarked(d, k)
RingAt(d) ==
  /\ rx.start = RxIx(d)
  /\ rx.pc \in {"put", "mark"} => ~rx.enp /\ ~rx.err
  /\ rx.pc = "put" => /\ rx.unit < rx.of /\ d + rx.unit < RxLen
                      /\ rx_pos = RxIx(d + rx.unit) /\ rx.cur = rx_pos
  /\ rx.pc # "put" => rx.unit > 0 /\ rx.cur = RxIx(d + rx.unit - 1)
  /\ rx.pc = "mark" => rx_pos = RxIx(IF device = "am79c971" THEN d + rx.unit ELSE d + rx.unit - 1)
  /\ rx.pc \in {"count", "final"} =>
       /\ rx_pos = RxIx(d + rx.unit)
       /\ rx.enp = (rx.unit = 1) /\ rx.err = (rx.unit = 1 /\ rx.unit < rx.of)
  /\ rx.pc = "count" => device = "am79c971" /\ rx.unit = rx.of
  /\ rx.pc = "final" /\ device \in {"am79c971", "dec21140"} /\ rx.unit = rx.of =>
       Slot(d + rx.unit - 1).count = rx.of \/ (rx.unit = 1 /\ device = "dec21140")
FillingRing(d) ==
  device \in Ring /\ rx.pc \in {"put", "mark", "count", "final"} /\ RingParts(d) /\ RingAt(d)

\* The 8254x and the 8255x fill one descriptor.
FillingOne(d) ==
  /\ rx.cur = rx_pos /\ rx_pos = RxIx(d)
  /\ rx.of = 1 /\ rx.unit = (IF rx.pc = "put" THEN 0 ELSE 1)
  /\ rx.pc # "put" => Slot(d).buf = [id |-> frames, unit |-> 1, of |-> 1]
FillingLvg(d) ==
  /\ device = "i8254x" /\ rx.pc \in {"put", "length", "status"} /\ d \in 0..RxLen - 2
  /\ FillingOne(d) /\ Clean(d)
FillingEepro(d) ==
  /\ device = "i8255x" /\ rx.pc \in {"put", "ctrl", "size"} /\ d \in 0..RxLen - 1
  /\ FillingOne(d) /\ Clean(d + 1)
  /\ Slot(d).own = (rx.pc # "size") /\ Slot(d).stp = (rx.pc = "size")
  /\ ~Slot(d).enp /\ ~Slot(d).err
  /\ d = RxLen - 1 => "EL" \in rx.copy

Resting(d) ==
  /\ rx.pc \in {"idle", "checked", "raise", "update"} /\ Clean(d)
  /\ rx.pc = "checked" => rx.of \in 1..MaxUnit
  /\ device # "i8255x" => rx_pos = RxIx(d)
  /\ device = "i8255x" /\ rx.pc = "idle" /\ "RU_READY" \in ctl => d < RxLen /\ rx_pos = RxIx(d)
  /\ device = "i8255x" /\ rx.pc = "raise" /\ "EL" \notin rx.copy =>
       d < RxLen /\ Ix(rx_pos, 1, RxLen) = RxIx(d)
  /\ device = "i8254x" => d < RxLen

RxShape(d) == RxFront(d) /\ (Resting(d) \/ FillingRing(d) \/ FillingLvg(d) \/ FillingEepro(d))
RxEnds ==
  /\ device = "i8254x" => rx_end = RxIx(RxLen - 1)
  /\ device = "i8255x" => \A k \in 0..RxLen - 1 : Slot(k).own => Slot(k).el = (k = RxLen - 1)
StoppedRx ==
  ~Started => /\ rx.pc = "idle" /\ rx_pos = 0 /\ taken <= frames
              /\ drv.pc = "prepared" => rxd = [i \in RxSlot |-> FreshRx] /\ drv.rx = 0
RxInv == StoppedRx /\ (Started => RxEnds /\ \E d \in 0..RxLen : RxShape(d))

\* The receive ring from the driver's position: its places are slots.
LEMMA RxPlaces ==
  ASSUME DrvTypes
  PROVE  /\ drv.rx \in 0..RxLen - 1 /\ RxLen \in Nat \ {0} /\ RxSlot = 0..RxLen - 1
         /\ \A k \in 0..RxLen : RxIx(k) \in RxSlot /\ RxAt(k) = RxIx(k)
         /\ RxIx(0) = drv.rx /\ RxIx(RxLen) = drv.rx /\ Slot(0) = rxd[drv.rx]
<1>1. drv.rx \in 0..RxLen - 1 /\ RxLen \in Nat \ {0} /\ RxSlot = 0..RxLen - 1
  BY Sizes DEF DrvTypes, DrvState, RxSlot
<1>2. ASSUME NEW k \in 0..RxLen PROVE RxIx(k) \in RxSlot /\ RxAt(k) = RxIx(k)
  <2>1. Ix(drv.rx, k, RxLen) \in 0..RxLen - 1 /\ (drv.rx + k) % RxLen = Ix(drv.rx, k, RxLen)
    BY <1>1, IxSlot, ModIx
  <2> QED
    BY <1>1, <2>1 DEF RxIx, RxAt
<1>3. RxIx(0) = drv.rx /\ RxIx(RxLen) = drv.rx
  BY <1>1, IxZero DEF RxIx
<1> QED
  BY <1>1, <1>2, <1>3 DEF Slot

\* Different places of it are different slots.
LEMMA RxDistinct ==
  ASSUME DrvTypes, NEW i \in 0..RxLen - 1, NEW j \in 0..RxLen - 1
  PROVE  (RxIx(i) = RxIx(j)) = (i = j)
BY RxPlaces, IxInjective DEF RxIx

\* The next place of it, as the devices step to it.
LEMMA RxNextPlace ==
  ASSUME DrvTypes, NEW e \in 0..RxLen - 1
  PROVE  /\ RxIx(e + 1) = IF RxIx(e) + 1 = RxLen THEN 0 ELSE RxIx(e) + 1
         /\ RxIx(e + 1) = IF RxIx(e) = RxLen - 1 THEN 0 ELSE RxIx(e) + 1
         /\ RxIx(e + 1) = (RxIx(e) + 1) % RxLen
         /\ RxIx(e + 1) = Ix(RxIx(e), 1, RxLen)
<1>1. drv.rx \in 0..RxLen - 1 /\ RxLen \in Nat /\ RxIx(e) \in 0..RxLen - 1 /\ 1 \in 0..RxLen
  BY RxPlaces
<1>2. RxIx(e + 1) = Ix(RxIx(e), 1, RxLen)
  BY <1>1, IxNext DEF RxIx
<1>3. Ix(RxIx(e), 1, RxLen) = (RxIx(e) + 1) % RxLen
  BY <1>1, ModIx
<1>4. /\ RxIx(e + 1) = IF RxIx(e) + 1 = RxLen THEN 0 ELSE RxIx(e) + 1
      /\ RxIx(e + 1) = IF RxIx(e) = RxLen - 1 THEN 0 ELSE RxIx(e) + 1
  BY <1>1, IxNext DEF RxIx
<1> QED
  BY <1>2, <1>3, <1>4

\* What a place holds is well formed.
LEMMA SlotTypes ==
  ASSUME DrvTypes, RxTypes, NEW k \in 0..RxLen - 1
  PROVE  /\ Slot(k) \in RxRec /\ Slot(k).buf \in UnitRec
         /\ Slot(k).own \in BOOLEAN /\ Slot(k).stp \in BOOLEAN /\ Slot(k).enp \in BOOLEAN
         /\ Slot(k).err \in BOOLEAN /\ Slot(k).count \in Nat
         /\ Slot(k).buf.id \in Nat /\ Slot(k).buf.unit \in Nat /\ Slot(k).buf.of \in Nat
<1>1. RxIx(k) \in RxSlot
  BY RxPlaces
<1>2. Slot(k) \in RxRec
  BY <1>1 DEF Slot, RxTypes
<1> QED
  BY <1>2 DEF RxRec, UnitRec

\* The ring is seen alike as long as the driver's position stays.
LEMMA RxView ==
  ASSUME drv'.rx = drv.rx
  PROVE  \A k : RxIx(k)' = RxIx(k) /\ Slot(k)' = rxd'[RxIx(k)]
BY DEF RxIx, Slot

\* The places are the same as long as the driver and the ring are.
LEMMA SlotsKept ==
  ASSUME drv'.rx = drv.rx, rxd' = rxd
  PROVE  \A k : RxIx(k)' = RxIx(k) /\ Slot(k)' = Slot(k)
BY DEF RxIx, Slot

\* A write to the descriptor at place i changes that one alone.
LEMMA SlotWritten ==
  ASSUME DrvTypes, RxTypes, drv'.rx = drv.rx, NEW i \in 0..RxLen - 1, NEW e,
         rxd' = [rxd EXCEPT ![RxIx(i)] = e]
  PROVE  /\ \A k : RxIx(k)' = RxIx(k)
         /\ \A k \in 0..RxLen - 1 : k # i => Slot(k)' = Slot(k)
         /\ Slot(i)' = e
<1>1. \A k : RxIx(k)' = RxIx(k) /\ Slot(k)' = rxd'[RxIx(k)]
  BY RxView
<1>2. \A k \in 0..RxLen - 1 : RxIx(k) \in RxSlot
  BY RxPlaces
<1>3. ASSUME NEW k \in 0..RxLen - 1, k # i PROVE Slot(k)' = Slot(k)
  <2>1. RxIx(k) # RxIx(i)
    BY <1>3, RxDistinct
  <2> QED
    BY <2>1, <1>1, <1>2 DEF RxTypes, Slot
<1>4. Slot(i)' = e
  BY <1>1, <1>2 DEF RxTypes
<1> QED
  BY <1>1, <1>3, <1>4

\* What the steps of other threads keep.
LEMMA RxKept ==
  ASSUME RxInv, UNCHANGED <<device, rx, rx_pos, rx_end, rxd, frames, taken>>,
         drv'.rx = drv.rx, Started' = Started, ~Started => drv'.pc = drv.pc,
         ("RU_READY" \in ctl') = ("RU_READY" \in ctl)
  PROVE  RxInv'
<1>1. \A k : RxIx(k)' = RxIx(k) /\ Slot(k)' = Slot(k)
  BY SlotsKept
<1>2. LastId' = LastId
  BY DEF LastId
<1>3. \A d : RxFront(d)' = RxFront(d)
  <2>1. \A a, b, j : FrameUnit(a, b, j)' = FrameUnit(a, b, j)
    BY <1>1 DEF FrameUnit
  <2>2. \A b, n : EndOk(b, n)' = EndOk(b, n)
    BY <1>1 DEF EndOk
  <2>3. \A a, b : Whole(a, b)' = Whole(a, b)
    BY <2>1, <2>2 DEF Whole, EndOk
  <2>4. \A d : Framed(d)' = Framed(d)
    BY <2>3 DEF Framed
  <2>5. \A d : Ordered(d)' = Ordered(d)
    BY <1>1, <1>2 DEF Ordered
  <2> QED
    BY <2>4, <2>5 DEF RxFront
<1>4. \A e : Clean(e)' = Clean(e)
  BY <1>1 DEF Clean, CleanSlot
<1>5. \A d : Resting(d)' = Resting(d)
  BY <1>1, <1>4 DEF Resting
<1>6. \A d : FillingRing(d)' = FillingRing(d)
  <2>1. Marked' = Marked /\ \A d, k : PartEnd(d, k)' = PartEnd(d, k)
    BY DEF Marked, PartEnd
  <2>2. \A d, k : Part(d, k)' = Part(d, k) /\ PartMarked(d, k)' = PartMarked(d, k)
    BY <1>1, <2>1 DEF Part, PartMarked, PartEnd
  <2>3. \A d : RingParts(d)' = RingParts(d)
    BY <1>1, <1>4, <2>1, <2>2 DEF RingParts, Clean, CleanSlot
  <2>4. \A d : RingAt(d)' = RingAt(d)
    BY <1>1 DEF RingAt, Slot, RxIx
  <2> QED
    BY <2>3, <2>4 DEF FillingRing
<1>7. \A d : FillingOne(d)' = FillingOne(d)
  BY <1>1 DEF FillingOne
<1>8. \A d : FillingLvg(d)' = FillingLvg(d) /\ FillingEepro(d)' = FillingEepro(d)
  BY <1>1, <1>4, <1>7 DEF FillingLvg, FillingEepro, Clean, CleanSlot, Slot, RxIx
<1>9. \A d : RxShape(d)' = RxShape(d)
  BY <1>3, <1>5, <1>6, <1>8 DEF RxShape
<1>10. RxEnds' = RxEnds
  BY <1>1 DEF RxEnds
<1>11. StoppedRx => StoppedRx'
  BY DEF StoppedRx
<1> QED
  BY <1>9, <1>10, <1>11 DEF RxInv

\* A frame that is not touched stays whole.
LEMMA WholeKept ==
  ASSUME NEW a, NEW b, NEW a2, NEW b2, NEW s, a \in Nat, b \in Nat, s \in Nat, a <= b,
         a2 = a + s, b2 = b + s, Whole(a2, b2), UNCHANGED device,
         \A j \in a..b : /\ Slot(j)'.own = Slot(j + s).own /\ Slot(j)'.enp = Slot(j + s).enp
                         /\ Slot(j)'.stp = Slot(j + s).stp /\ Slot(j)'.err = Slot(j + s).err
                         /\ Slot(j)'.buf = Slot(j + s).buf /\ Slot(j)'.count = Slot(j + s).count
  PROVE  Whole(a, b)'
<1>1. \A j \in a..b : /\ j + s \in a2..b2 /\ (j + s = b2) = (j = b) /\ (j + s = a2) = (j = a)
                      /\ j + s - a2 + 1 = j - a + 1
  OBVIOUS
<1>2. a \in a..b /\ b \in a..b /\ b2 - a2 + 1 = b - a + 1
  OBVIOUS
<1>3. \A j \in a..b : FrameUnit(a2, b2, j + s)
  BY <1>1 DEF Whole
<1>4. Slot(a)'.buf = Slot(a2).buf
  BY <1>2
<1>5. ASSUME NEW j \in a..b PROVE FrameUnit(a, b, j)'
  BY <1>1, <1>3, <1>4 DEF FrameUnit
<1>6. EndOk(b, b - a + 1)'
  <2>1. EndOk(b2, b2 - a2 + 1)
    BY DEF Whole
  <2>2. /\ Slot(b)'.err = Slot(b2).err /\ Slot(b)'.buf = Slot(b2).buf
        /\ Slot(b)'.count = Slot(b2).count
    BY <1>2
  <2> QED
    BY <2>1, <2>2, <1>2 DEF EndOk
<1> QED
  BY <1>5, <1>6 DEF Whole

\* The frames in front stay while the handler works on the next one.
LEMMA FrontKept ==
  ASSUME NEW d, RxFront(d), RxLen \in Nat, LastId \in Int, LastId' \in Int, LastId <= LastId',
         taken \in Nat, UNCHANGED <<device, taken>>,
         \A k \in 0..d - 1 : Slot(k)' = Slot(k) /\ Slot(k).buf.id \in Nat
  PROVE  RxFront(d)'
<1>1. d \in 0..RxLen /\ d \in Nat
  BY DEF RxFront
<1>2. ASSUME NEW k \in 0..d - 1 PROVE \E a \in 0..k, b \in k..d - 1 : Whole(a, b)'
  <2>1. PICK a \in 0..k, b \in k..d - 1 : Whole(a, b)
    BY DEF RxFront, Framed
  <2>2. a \in Nat /\ b \in Nat /\ 0 \in Nat /\ a <= b /\ a = a + 0 /\ b = b + 0
        /\ \A j \in a..b : j \in 0..d - 1 /\ j + 0 = j
    BY <1>1
  <2>3. Whole(a, b)'
    BY <2>1, <2>2, WholeKept
  <2> QED
    BY <2>3
<1>3. Ordered(d)'
  <2>1. Ordered(d)
    BY DEF RxFront
  <2> QED
    BY <2>1, <1>1 DEF Ordered
<1> QED
  BY <1>1, <1>2, <1>3 DEF RxFront, Framed

\* A frame is complete.
LEMMA FrontGrows ==
  ASSUME NEW d, RxFront(d), RxLen \in Nat, LastId \in Int, LastId' \in Int, LastId < LastId',
         NEW b \in d..RxLen - 1,
         taken \in Nat, UNCHANGED <<device, taken>>,
         \A k \in 0..d - 1 : Slot(k)' = Slot(k) /\ Slot(k).buf.id \in Nat,
         Whole(d, b)', Slot(d)'.buf.id = LastId',
         device = "i8255x" => \A k \in d..b : Slot(k)'.buf.of = 1
  PROVE  RxFront(b + 1)'
<1>1. d \in 0..RxLen /\ d \in Nat /\ b \in Nat /\ b + 1 \in 0..RxLen
  BY DEF RxFront
<1>2. RxFront(d)'
  BY FrontKept
<1>3. ASSUME NEW k \in 0..b PROVE \E a \in 0..k, e \in k..b : Whole(a, e)'
  <2>1. CASE k < d
    <3>1. k \in 0..d - 1
      BY <2>1, <1>1
    <3>2. PICK a \in 0..k, e \in k..d - 1 : Whole(a, e)'
      BY <3>1, <1>2 DEF RxFront, Framed
    <3>3. e \in k..b
      BY <1>1
    <3> QED
      BY <3>2, <3>3
  <2>2. CASE ~ k < d
    <3>1. d \in 0..k /\ b \in k..b
      BY <2>2, <1>1
    <3> QED
      BY <3>1
  <2> QED
    BY <2>1, <2>2
<1>4. (b + 1) - 1 = b
  BY <1>1
<1>5. Framed(b + 1)'
  BY <1>3, <1>4 DEF Framed
<1>6. ASSUME NEW k \in d..b
      PROVE  Slot(k)'.buf.id = LastId' /\ (Slot(k)'.enp => k = b)
  BY DEF Whole, FrameUnit
<1>o. /\ taken <= LastId
      /\ \A k \in 0..d - 1 : /\ taken < Slot(k).buf.id /\ Slot(k).buf.id <= LastId
                             /\ device = "i8255x" => Slot(k).buf.of = 1
      /\ \A j, k \in 0..d - 1 : j < k /\ Slot(j).enp => Slot(j).buf.id < Slot(k).buf.id
  BY DEF RxFront, Ordered
<1>7. ASSUME NEW k \in 0..b
      PROVE  /\ taken' < Slot(k)'.buf.id /\ Slot(k)'.buf.id <= LastId'
             /\ device' = "i8255x" => Slot(k)'.buf.of = 1
  <2>1. CASE k < d
    <3>1. k \in 0..d - 1
      BY <2>1, <1>1
    <3> QED
      BY <3>1, <1>o
  <2>2. CASE ~ k < d
    <3>1. k \in d..b
      BY <2>2, <1>1
    <3> QED
      BY <3>1, <1>6, <1>o
  <2> QED
    BY <2>1, <2>2
<1>8. ASSUME NEW j \in 0..b, NEW k \in 0..b, j < k, Slot(j)'.enp
      PROVE  Slot(j)'.buf.id < Slot(k)'.buf.id
  <2>1. CASE k < d
    <3>1. j \in 0..d - 1 /\ k \in 0..d - 1
      BY <2>1, <1>1, <1>8
    <3> QED
      BY <3>1, <1>8, <1>o
  <2>2. CASE ~ k < d /\ j < d
    <3>1. j \in 0..d - 1 /\ k \in d..b
      BY <2>2, <1>1, <1>8
    <3>2. Slot(j)'.buf.id = Slot(j).buf.id /\ Slot(j).buf.id <= LastId /\ Slot(j).buf.id \in Nat
      BY <3>1, <1>o
    <3> QED
      BY <3>1, <3>2, <1>6
  <2>3. CASE ~ k < d /\ ~ j < d
    <3>1. j \in d..b /\ j # b
      BY <2>3, <1>1, <1>8
    <3> QED
      BY <3>1, <1>6, <1>8
  <2> QED
    BY <2>1, <2>2, <2>3
<1>9. Ordered(b + 1)'
  <2>1. taken' <= LastId'
    BY <1>o
  <2> QED
    BY <2>1, <1>4, <1>7, <1>8 DEF Ordered
<1> QED
  BY <1>1, <1>5, <1>9 DEF RxFront

\* If the driver may look at its position, there is a frame from there on.
LEMMA FirstFrame ==
  ASSUME NEW d, RxFront(d), d > 0, RxLen \in Nat
  PROVE  \E b \in 0..d - 1 : Whole(0, b)
<1>1. d \in 0..RxLen
  BY DEF RxFront
<1>2. 0 \in 0..d - 1
  BY <1>1
<1>3. PICK a \in 0..0, b \in 0..d - 1 : Whole(a, b)
  BY <1>2 DEF RxFront, Framed
<1>4. a = 0
  OBVIOUS
<1> QED
  BY <1>3, <1>4

\* The first of the frames done is no longer the device's.
LEMMA FirstOwn ==
  ASSUME NEW d, RxFront(d), d > 0, RxLen \in Nat
  PROVE  ~Slot(0).own
<1>1. PICK b \in 0..d - 1 : Whole(0, b)
  BY FirstFrame
<1>2. 0 \in 0..b
  BY DEF RxFront
<1> QED
  BY <1>1, <1>2 DEF Whole, FrameUnit

\* With no frame done the driver's descriptor is still the device's, or, on the
\* i8255x, being written.
LEMMA NoFrame ==
  ASSUME DrvTypes, RxShape(0)
  PROVE  /\ Slot(0).own \/ (device = "i8255x" /\ rx.pc = "size" /\ rx.cur = drv.rx /\ ~Slot(0).enp /\ Clean(1))
<1>1. 0 \in 0..RxLen - 1 /\ RxIx(0) = drv.rx /\ RxLen \in Nat \ {0}
  BY RxPlaces
<1>2. CASE Resting(0)
  BY <1>1, <1>2 DEF Resting, Clean, CleanSlot
<1>3. CASE FillingRing(0)
  BY <1>3 DEF FillingRing, RingParts
<1>4. CASE FillingLvg(0)
  BY <1>1, <1>4 DEF FillingLvg, Clean, CleanSlot
<1>5. CASE FillingEepro(0)
  <2>1. Slot(0).own = (rx.pc # "size") /\ ~Slot(0).enp /\ Clean(0 + 1) /\ rx.cur = RxIx(0) /\ device = "i8255x"
    BY <1>5 DEF FillingEepro, FillingOne
  <2>2. 0 + 1 = 1
    OBVIOUS
  <2> QED
    BY <2>1, <2>2, <1>1
<1> QED
  BY <1>2, <1>3, <1>4, <1>5 DEF RxShape

\* The frame the driver finds is the first one in front.
LEMMA Readable == ASSUME Base, RxInv PROVE FrameReadable
<1> SUFFICES ASSUME drv.pc \in {"idle", "ack", "clear", "command", "scan"}, ~rxd[drv.rx].own,
                    ~(device = "i8255x" /\ rx.pc = "size" /\ rx.cur = drv.rx)
             PROVE  /\ rxd[drv.rx].buf.id > taken
                    /\ \E n \in 1..RxLen :
                         LET last == rxd[RxAt(n - 1)]
                         IN /\ Units(n)
                            /\ IF last.err \/ (device = "pos" /\ n < last.buf.of)
                               THEN n < last.buf.of
                               ELSE n = last.buf.of /\ Lengths(n)
  BY DEF FrameReadable
<1>t. DrvTypes /\ RxTypes
  BY DEF Base
<1>p. /\ RxLen \in Nat \ {0} /\ Slot(0) = rxd[drv.rx]
      /\ \A k \in 0..RxLen : RxAt(k) = RxIx(k)
  BY <1>t, RxPlaces
<1>q. RxLen \in Nat \ {0}
  BY Sizes
<1>1. PICK d \in 0..RxLen : RxShape(d)
  BY DEF RxInv, Started
<1>2. d > 0
  BY <1>1, <1>t, <1>p, NoFrame
<1>3. RxFront(d)
  BY <1>1 DEF RxShape
<1>4. PICK b \in 0..d - 1 : Whole(0, b)
  BY <1>2, <1>3, <1>p, FirstFrame
<1> DEFINE n == b + 1
<1>5. n \in 1..RxLen /\ n - 1 = b /\ b - 0 + 1 = n /\ b \in 0..RxLen - 1 /\ 0 \in 0..d - 1 /\ n - 1 \in 0..RxLen
  BY <1>2, <1>q
<1>6. taken < Slot(0).buf.id /\ Slot(0).buf.id \in Nat
  BY <1>3, <1>5, <1>p, <1>t, SlotTypes DEF RxFront, Ordered
<1>7. \A k \in 1..n : /\ k - 1 \in 0..b /\ k - 1 \in 0..RxLen /\ k - 1 - 0 + 1 = k
                      /\ (k - 1 = b) = (k = n) /\ (k - 1 = 0) = (k = 1)
  BY <1>5, <1>q
<1>8. \A k \in 1..n : rxd[RxAt(k - 1)] = Slot(k - 1)
  BY <1>7, <1>p DEF Slot
<1>9. \A k \in 1..n : FrameUnit(0, b, k - 1)
  BY <1>4, <1>7 DEF Whole
<1>l. rxd[RxAt(n - 1)] = Slot(b)
  BY <1>5, <1>p DEF Slot
<1>n. n \in Nat
  BY <1>5
<1>e. EndOk(b, n)
  BY <1>4, <1>5 DEF Whole
<1> HIDE DEF n
<1>10. Units(n)
  BY <1>7, <1>8, <1>9, <1>p DEF Units, FrameUnit
<1>11. IF Slot(b).err \/ (device = "pos" /\ n < Slot(b).buf.of)
       THEN n < Slot(b).buf.of
       ELSE n = Slot(b).buf.of /\ Lengths(n)
  <2>1. CASE Slot(b).err \/ (device = "pos" /\ n < Slot(b).buf.of)
    BY <2>1, <1>e DEF EndOk
  <2>2. CASE ~ (Slot(b).err \/ (device = "pos" /\ n < Slot(b).buf.of))
    <3>1. n = Slot(b).buf.of /\ (device \notin {"mueslix", "pos", "i8254x"} => Slot(b).count = n)
      BY <2>2, <1>e DEF EndOk
    <3>2. device \in {"mueslix", "pos", "i8254x"} => \A k \in 1..n : rxd[RxAt(k - 1)].count = 1
      BY <1>8, <1>9 DEF FrameUnit
    <3> QED
      BY <2>2, <3>1, <3>2, <1>l DEF Lengths
  <2> QED
    BY <2>1, <2>2
<1>12. rxd[drv.rx].buf.id > taken
  BY <1>6, <1>p, <1>t DEF RxTypes
<1> QED
  BY <1>5, <1>10, <1>11, <1>12, <1>l

-----------------------------------------------------------------------------
\* What holds of the receive ring however the handler moves: the frames in
\* front are unchanged.
RxOwn == UNCHANGED <<device, drv, taken, rx_end>>

\* A handler that rests, after a frame of its own was counted in or dropped.
LEMMA RestKept ==
  ASSUME Base, NEW d \in 0..RxLen, RxShape(d), Resting(d), RxOwn, rxd' = rxd, rx_pos' = rx_pos,
         rx'.pc \in {"idle", "checked", "raise", "update"},
         LastId' \in Int, LastId <= LastId',
         rx'.pc = "checked" => rx'.of \in 1..MaxUnit,
         device # "i8255x" \/ (rx'.pc = "idle" /\ rx.pc = "idle" /\ ctl' = ctl)
  PROVE  RxShape(d)' /\ Resting(d)'
<1>t. DrvTypes /\ RxTypes
  BY DEF Base
<1>1. \A k : RxIx(k)' = RxIx(k) /\ Slot(k)' = Slot(k)
  BY SlotsKept DEF RxOwn
<1>2. LastId \in Int
  BY <1>t DEF LastId, RxTypes
<1>3. \A k \in 0..d - 1 : k \in 0..RxLen - 1
  BY Sizes
<1>4. RxFront(d)'
  BY <1>1, <1>2, <1>3, <1>t, FrontKept, SlotTypes, Sizes DEF RxShape, RxOwn, RxTypes
<1>5. Clean(d)' = Clean(d)
  BY <1>1 DEF Clean, CleanSlot
<1>6. Resting(d)'
  BY <1>1, <1>5 DEF Resting, RxOwn
<1> QED
  BY <1>4, <1>6 DEF RxShape

\* The first descriptor of a frame is found to be the device's.
LEMMA OwnedSlot ==
  ASSUME Base, NEW d \in 0..RxLen, RxShape(d), Resting(d), rx_pos = RxIx(d), rxd[rx_pos].own
  PROVE  d \in 0..RxLen - 1 /\ Slot(d).own
<1>t. DrvTypes /\ RxTypes
  BY DEF Base
<1>p. RxLen \in Nat \ {0} /\ Slot(0) = rxd[drv.rx] /\ RxIx(RxLen) = drv.rx
  BY <1>t, RxPlaces
<1>1. d # RxLen
  <2> SUFFICES ASSUME d = RxLen PROVE FALSE
    OBVIOUS
  <2>1. Slot(0).own
    BY <1>p
  <2>2. ~Slot(0).own
    BY <1>p, FirstOwn DEF RxShape
  <2> QED
    BY <2>1, <2>2
<1> QED
  BY <1>1, <1>p DEF Slot

\* A frame begins at the first free descriptor.
LEMMA BeginsRing ==
  ASSUME Base, NEW d \in 0..RxLen, RxShape(d), Resting(d), RxOwn, rxd' = rxd, rx_pos' = rx_pos,
         device \in Ring, rxd[rx_pos].own, NEW n \in 1..MaxUnit, rx' = RxBegin(n), LastId' = LastId
  PROVE  RxShape(d)'
<1>t. DrvTypes /\ RxTypes
  BY DEF Base
<1>1. rx_pos = RxIx(d)
  BY DEF Resting, Ring
<1>2. d \in 0..RxLen - 1 /\ Slot(d).own
  BY <1>1, OwnedSlot
<1>3. \A k : RxIx(k)' = RxIx(k) /\ Slot(k)' = Slot(k)
  BY SlotsKept DEF RxOwn
<1>4. LastId \in Int
  BY <1>t DEF LastId, RxTypes
<1>5. \A k \in 0..d - 1 : k \in 0..RxLen - 1
  BY Sizes
<1>6. RxFront(d)'
  BY <1>3, <1>4, <1>5, <1>t, FrontKept, SlotTypes, Sizes DEF RxShape, RxOwn, RxTypes
<1>7. /\ rx'.pc = "put" /\ rx'.start = rx_pos /\ rx'.cur = rx_pos /\ rx'.unit = 0 /\ rx'.of = n
      /\ rx'.enp = FALSE /\ rx'.err = FALSE
  BY DEF RxBegin, RxIdle
<1>8. Clean(d)' /\ d + 0 = d
  BY <1>2, <1>3 DEF Resting, Clean, CleanSlot
<1>9. RingParts(d)'
  <2>1. d + 0 - 1 = d - 1 /\ d..d - 1 = {} /\ d + 1..d - 1 = {} /\ 0 <= n /\ d <= RxLen /\ Marked' = 0
    BY <1>2, <1>7, Sizes DEF Marked
  <2> QED
    BY <2>1, <1>2, <1>3, <1>7, <1>8, Sizes DEF RingParts
<1>10. RingAt(d)'
  <2>1. 0 < n /\ d < RxLen
    BY <1>2, Sizes
  <2> QED
    BY <2>1, <1>1, <1>3, <1>7, <1>8 DEF RingAt
<1> QED
  BY <1>6, <1>7, <1>9, <1>10 DEF RxShape, FillingRing, RxOwn

\* The descriptors a frame in progress fills lie behind the frames done.
LEMMA FillingPlaces ==
  ASSUME Base, NEW d, FillingRing(d)
  PROVE  /\ d \in 0..RxLen - 1 /\ rx.unit \in Nat /\ rx.of \in Nat /\ d + rx.unit <= RxLen
         /\ rx.unit <= rx.of /\ rx.of \in 1..MaxUnit /\ rx.of <= RxLen
         /\ rx.pc = "put" => d + rx.unit \in 0..RxLen - 1 /\ rx.unit < rx.of
         /\ rx.pc # "put" => rx.unit > 0 /\ d + rx.unit - 1 \in 0..RxLen - 1
         /\ RxLen \in Nat \ {0} /\ d \in Nat /\ frames \in Int /\ LastId = frames - 1
         /\ \A k \in 0..d - 1 : k \in 0..RxLen - 1
<1>1. rx.unit \in Nat /\ rx.of \in Nat /\ frames \in Nat
  BY DEF Base, RxTypes, RxState
<1>2. /\ d \in 0..RxLen - 1 /\ d + rx.unit <= RxLen /\ rx.unit <= rx.of /\ rx.of \in 1..MaxUnit
      /\ rx.pc = "put" => rx.unit < rx.of /\ d + rx.unit < RxLen
      /\ rx.pc # "put" => rx.unit > 0
      /\ rx.pc \in {"put", "mark", "count", "final"}
  BY DEF FillingRing, RingParts, RingAt
<1>3. LastId = frames - 1
  BY <1>2 DEF LastId
<1> QED
  BY <1>1, <1>2, <1>3, Sizes

\* A unit of it is stored.
LEMMA PutRing ==
  ASSUME Base, NEW d \in 0..RxLen, RxFront(d), FillingRing(d), rx.pc = "put", RxOwn,
         rxd' = PutUnit, frames' = frames, rx' = [rx EXCEPT !.pc = "mark", !.unit = @ + 1],
         rx_pos' = IF device = "am79c971" THEN RxIx(d + rx.unit + 1) ELSE rx_pos
  PROVE  RxShape(d)'
<1>t. DrvTypes /\ RxTypes
  BY DEF Base
<1>v. \E u, o : u = rx.unit /\ o = rx.of
  OBVIOUS
<1>u. PICK u, o : u = rx.unit /\ o = rx.of
  BY <1>v
<1> DEFINE i == d + u
           b == [id |-> frames, unit |-> u + 1, of |-> o]
           e == [rxd[rx.cur] EXCEPT !.buf = b]
<1>1. /\ d \in 0..RxLen - 1 /\ d \in Nat /\ u \in Nat /\ o \in Nat /\ i <= RxLen /\ u < o /\ o \in 1..MaxUnit
      /\ i \in 0..RxLen - 1 /\ RxLen \in Nat \ {0} /\ LastId = frames - 1 /\ frames \in Int
      /\ \A k \in 0..d - 1 : k \in 0..RxLen - 1
  BY <1>u, FillingPlaces
<1>2. rx.cur = RxIx(i) /\ rx_pos = RxIx(i) /\ rx.start = RxIx(d) /\ ~rx.enp /\ ~rx.err
  BY <1>u DEF FillingRing, RingAt
<1>3. rxd' = [rxd EXCEPT ![RxIx(i)] = e]
  BY <1>2, <1>u DEF PutUnit
<1>4. /\ rx'.pc = "mark" /\ rx'.unit = u + 1 /\ rx'.of = o /\ rx'.cur = rx.cur /\ rx'.start = rx.start
      /\ rx'.enp = rx.enp /\ rx'.err = rx.err
  BY <1>t, <1>u DEF RxTypes, RxState
<1>5. /\ e.own = Slot(i).own /\ e.stp = Slot(i).stp /\ e.enp = Slot(i).enp /\ e.err = Slot(i).err
      /\ e.count = Slot(i).count /\ e.buf = b
  <2>1. rxd[rx.cur] = Slot(i) /\ Slot(i) \in RxRec
    BY <1>1, <1>2, <1>t, SlotTypes DEF Slot
  <2> QED
    BY <2>1 DEF RxRec
<1>s. RxOwn => drv'.rx = drv.rx
  BY DEF RxOwn
<1> HIDE DEF e
<1>6. /\ \A k : RxIx(k)' = RxIx(k)
      /\ \A k \in 0..RxLen - 1 : k # i => Slot(k)' = Slot(k)
      /\ Slot(i)' = e
  BY <1>1, <1>3, <1>s, <1>t, SlotWritten
<1>p. RingParts(d)
  BY DEF FillingRing
<1>7. RxFront(d)'
  <2>1. LastId' = LastId
    BY <1>1, <1>4 DEF LastId
  <2>2. \A k \in 0..d - 1 : k \in 0..RxLen - 1 /\ k # i
    BY <1>1
  <2> QED
    BY <2>1, <2>2, <1>1, <1>6, <1>t, FrontKept, SlotTypes DEF RxOwn, RxTypes
<1>8. Marked = u /\ Marked' = u
  BY <1>1, <1>4, <1>u DEF Marked
<1>9. CleanSlot(i) /\ \A k \in i + 1..RxLen - 1 : CleanSlot(k)
  <2>1. i \in d + rx.unit..RxLen - 1 /\ \A k \in i + 1..RxLen - 1 : k \in d + rx.unit..RxLen - 1
    BY <1>1, <1>u
  <2> QED
    BY <2>1, <1>p DEF RingParts, Clean
<1>10. Clean(d + (u + 1))'
  <2>1. \A k \in d + (u + 1)..RxLen - 1 : k \in i + 1..RxLen - 1 /\ k \in 0..RxLen - 1 /\ k # i
    BY <1>1
  <2> QED
    BY <2>1, <1>9, <1>6 DEF Clean, CleanSlot
<1>11. ASSUME NEW k \in d..d + (u + 1) - 1 PROVE Part(d, k)'
  <2>1. k \in d..i /\ k \in 0..RxLen - 1 /\ (k # i => k \in d..d + rx.unit - 1)
    BY <1>1, <1>u
  <2>2. CASE k = i
    <3>1. Slot(k)' = e /\ i - d + 1 = u + 1 /\ i >= d + u
      BY <2>2, <1>1, <1>6
    <3>2. e.own = TRUE /\ e.stp = FALSE
      BY <1>5, <1>9 DEF CleanSlot
    <3> QED
      BY <3>1, <3>2, <2>2, <1>4, <1>5, <1>8, <1>1 DEF Part
  <2>3. CASE k # i
    <3>1. Part(d, k) /\ Slot(k)' = Slot(k)
      BY <2>1, <2>3, <1>6, <1>p DEF RingParts
    <3> QED
      BY <3>1, <1>4, <1>8 DEF Part
  <2> QED
    BY <2>2, <2>3
<1>12. ASSUME NEW k \in d + 1..d + u - 1 PROVE PartMarked(d, k)'
  <2>1. k \in 0..RxLen - 1 /\ k # i /\ k \in d + 1..d + Marked - 1
    BY <1>1, <1>8
  <2>2. PartMarked(d, k) /\ Slot(k)' = Slot(k)
    BY <2>1, <1>6, <1>p DEF RingParts
  <2> QED
    BY <2>2, <1>4 DEF PartMarked, PartEnd, RxOwn
<1>13. Slot(d)'.own
  <2>1. CASE d = i
    BY <2>1, <1>5, <1>6, <1>9 DEF CleanSlot
  <2>2. CASE d # i
    BY <2>2, <1>1, <1>u, <1>6, <1>p DEF RingParts
  <2> QED
    BY <2>1, <2>2
<1>14. RingParts(d)'
  <2>1. d + (u + 1) <= RxLen /\ u + 1 <= o
    BY <1>1
  <2> QED
    BY <2>1, <1>1, <1>4, <1>8, <1>10, <1>11, <1>12, <1>13 DEF RingParts
<1>15. RingAt(d)'
  <2>1. u + 1 > 0 /\ d + (u + 1) - 1 = i /\ d + rx.unit + 1 = d + (u + 1)
    BY <1>1, <1>u
  <2>2. rx'.cur = RxIx(d + (u + 1) - 1)' /\ rx'.start = RxIx(d)'
    BY <2>1, <1>2, <1>4, <1>6
  <2>3. rx_pos' = RxIx(IF device = "am79c971" THEN d + (u + 1) ELSE d + (u + 1) - 1)
    BY <2>1, <1>2
  <2> QED
    BY <2>1, <2>2, <2>3, <1>2, <1>4, <1>6 DEF RingAt, RxOwn
<1> QED
  BY <1>4, <1>7, <1>14, <1>15 DEF RxShape, FillingRing, RxOwn

\* A frame is cut off where the ring ends at the driver's position.
LEMMA CutAt ==
  ASSUME Base, NEW d \in 0..RxLen, RxFront(d), FillingRing(d)
  PROVE  RxCut(RxIx(d + rx.unit)) = (rx.unit < rx.of /\ d + rx.unit = RxLen)
<1>t. DrvTypes /\ RxTypes
  BY DEF Base
<1>1. /\ d \in 0..RxLen - 1 /\ d \in Nat /\ rx.unit \in Nat /\ rx.of \in Nat /\ d + rx.unit <= RxLen
      /\ rx.unit <= rx.of /\ rx.of <= RxLen /\ RxLen \in Nat \ {0}
  BY FillingPlaces
<1>2. RxLast = (rx.unit = rx.of)
  BY DEF RxLast
<1>3. CASE d + rx.unit < RxLen
  <2>1. d + rx.unit \in d + rx.unit..RxLen - 1
    BY <1>1, <1>3
  <2>2. Slot(d + rx.unit).own
    BY <2>1 DEF FillingRing, RingParts, Clean, CleanSlot
  <2> QED
    BY <2>2, <1>1, <1>3 DEF RxCut, Slot
<1>4. CASE d + rx.unit = RxLen
  <2>1. RxIx(d + rx.unit) = RxIx(0) /\ RxIx(0) = drv.rx
    BY <1>4, <1>t, RxPlaces
  <2>2. CASE d = 0
    <3>1. rx.unit = rx.of
      BY <2>2, <1>1, <1>4
    <3> QED
      BY <3>1, <1>1 DEF RxCut, RxLast
  <2>3. CASE d # 0
    <3>1. ~Slot(0).own
      BY <2>3, <1>1, FirstOwn
    <3>2. ~rxd[RxIx(d + rx.unit)].own
      BY <2>1, <3>1 DEF Slot
    <3>3. (rx.unit # rx.of) = (rx.unit < rx.of)
      BY <1>1
    <3> QED
      BY <3>2, <3>3, <1>4 DEF RxCut, RxLast
  <2> QED
    BY <2>2, <2>3
<1> QED
  BY <1>1, <1>3, <1>4

\* A descriptor of it is closed.
LEMMA MarkRing ==
  ASSUME Base, NEW d \in 0..RxLen, RxFront(d), FillingRing(d), rx.pc = "mark", RxOwn, frames' = frames,
         NEW next, next = RxIx(d + rx.unit), rx_pos' = next,
         NEW pc, pc = (IF RxLast /\ device = "am79c971" THEN "count" ELSE "final"),
         rx' = RxMarked(next, pc),
         NEW e, rxd' = [rxd EXCEPT ![rx.cur] = e],
         e.own = (rx.unit = 1), ~e.stp, e.buf = rxd[rx.cur].buf,
         rx.unit # 1 =>
           /\ e.enp = (RxLast \/ RxCut(next)) /\ e.err = (RxCut(next) /\ device # "pos")
           /\ device \in {"mueslix", "pos"} => e.count = 1
           /\ device = "dec21140" /\ RxLast => e.count = rx.of
  PROVE  RxShape(d)'
<1>t. DrvTypes /\ RxTypes
  BY DEF Base
<1>v. \E u, o : u = rx.unit /\ o = rx.of
  OBVIOUS
<1>u. PICK u, o : u = rx.unit /\ o = rx.of
  BY <1>v
<1> DEFINE i == d + u - 1
           stop == u = o \/ d + u = RxLen
<1>1. /\ d \in 0..RxLen - 1 /\ d \in Nat /\ u \in Nat /\ o \in Nat /\ d + u <= RxLen /\ u <= o /\ o \in 1..MaxUnit
      /\ i \in 0..RxLen - 1 /\ RxLen \in Nat \ {0} /\ LastId = frames - 1 /\ frames \in Int /\ u > 0
      /\ \A k \in 0..d - 1 : k \in 0..RxLen - 1
  BY <1>u, FillingPlaces
<1>2. rx.cur = RxIx(i) /\ rx.start = RxIx(d) /\ ~rx.enp /\ ~rx.err /\ next = RxIx(d + u)
  BY <1>u DEF FillingRing, RingAt
<1>3. RxLast = (u = o) /\ RxCut(next) = (u < o /\ d + u = RxLen)
  BY <1>u, CutAt DEF RxLast
<1>f. /\ RxLast \in BOOLEAN /\ RxCut(next) \in BOOLEAN
      /\ (RxLast <=> u = o) /\ (RxCut(next) <=> u < o /\ d + u = RxLen)
  <2>1. RxLast \in BOOLEAN /\ RxCut(next) \in BOOLEAN
    BY DEF RxLast, RxCut
  <2> QED
    BY <2>1, <1>3
<1>w. (RxLast \/ RxCut(next)) <=> stop
  BY <1>1, <1>f
<1>c. (RxLast \/ RxCut(next)) = stop
  BY <1>w
<1>x. stop \in BOOLEAN
  OBVIOUS
<1> HIDE DEF stop
<1>4. /\ rx'.unit = u /\ rx'.of = o /\ rx'.start = rx.start
      /\ rx'.pc = IF stop THEN pc ELSE "put"
      /\ rx'.cur = IF stop THEN rx.cur ELSE next
      /\ rx'.enp = IF u = 1 THEN stop ELSE rx.enp
      /\ rx'.err = IF u = 1 THEN RxCut(next) ELSE rx.err
  BY <1>t, <1>u, <1>c DEF RxTypes, RxState, RxMarked
<1>s. drv'.rx = drv.rx
  BY DEF RxOwn
<1>6. /\ \A k : RxIx(k)' = RxIx(k)
      /\ \A k \in 0..RxLen - 1 : k # i => Slot(k)' = Slot(k)
      /\ Slot(i)' = e
  BY <1>1, <1>2, <1>s, <1>t, SlotWritten
<1>p. RingParts(d)
  BY DEF FillingRing
<1>b. e.buf = Slot(i).buf
  BY <1>2 DEF Slot
<1>q. pc \in {"count", "final"}
  OBVIOUS
<1>7. RxFront(d)'
  <2>1. LastId' = LastId
    BY <1>1, <1>4, <1>q DEF LastId
  <2>2. \A k \in 0..d - 1 : k \in 0..RxLen - 1 /\ k # i
    BY <1>1
  <2> QED
    BY <2>1, <2>2, <1>1, <1>6, <1>t, FrontKept, SlotTypes DEF RxOwn, RxTypes
<1>8. Marked = u - 1 /\ Marked' = u
  BY <1>1, <1>4, <1>q, <1>u DEF Marked
<1>9. Clean(d + u)'
  <2>1. \A k \in d + u..RxLen - 1 : k \in 0..RxLen - 1 /\ k # i
    BY <1>1
  <2>2. \A k \in d + u..RxLen - 1 : CleanSlot(k)
    BY <1>p, <1>u DEF RingParts, Clean
  <2> QED
    BY <2>1, <2>2, <1>6 DEF Clean, CleanSlot
<1>10. ASSUME NEW k \in d..d + u - 1 PROVE Part(d, k)'
  <2>1. Part(d, k) /\ k \in 0..RxLen - 1
    BY <1>p, <1>u, <1>1 DEF RingParts
  <2>2. CASE k = i
    <3>1. Slot(k)' = e /\ (u = 1) = (k = d \/ k >= d + u)
      BY <2>2, <1>1, <1>6
    <3> QED
      BY <3>1, <2>1, <2>2, <1>b, <1>u, <1>8, <1>4 DEF Part
  <2>3. CASE k # i
    <3>1. Slot(k)' = Slot(k) /\ (k >= d + u) = (k >= d + (u - 1))
      BY <2>1, <2>3, <1>1, <1>6
    <3> QED
      BY <3>1, <2>1, <1>4, <1>8, <1>u DEF Part
  <2> QED
    BY <2>2, <2>3
<1>11. ASSUME NEW k \in d + 1..d + u - 1 PROVE PartMarked(d, k)'
  <2>1. PartEnd(d, k)' = (stop /\ k = i)
    BY <1>4, <1>q DEF PartEnd
  <2>2. CASE k = i
    <3>1. Slot(k)' = e /\ u # 1
      BY <2>2, <1>1, <1>6
    <3>2. (RxCut(next) /\ device # "pos") = (stop /\ device # "pos" /\ u < o)
      <4>1. RxCut(next) <=> stop /\ u < o
        BY <1>1, <1>f DEF stop
      <4> QED
        BY <4>1
    <3> QED
      BY <2>1, <2>2, <3>1, <3>2, <1>4, <1>c, <1>u DEF PartMarked, RxOwn
  <2>3. CASE k # i
    <3>1. Slot(k)' = Slot(k) /\ k \in d + 1..d + Marked - 1
      BY <2>3, <1>1, <1>6, <1>8
    <3>2. PartMarked(d, k) /\ ~PartEnd(d, k)
      BY <3>1, <1>p DEF RingParts, PartEnd
    <3>3. PartEnd(d, k) \in BOOLEAN /\ ~PartEnd(d, k)'
      BY <2>1, <2>3 DEF PartEnd
    <3>4. Slot(k).enp = FALSE /\ Slot(k).err = FALSE /\ (device \in {"mueslix", "pos"} => Slot(k).count = 1)
      BY <3>2, <3>3 DEF PartMarked
    <3>5. (PartEnd(d, k)') = FALSE
      BY <2>1, <2>3
    <3> QED
      BY <3>1, <3>4, <3>5 DEF PartMarked, RxOwn
  <2> QED
    BY <2>2, <2>3
<1>12. Slot(d)'.own
  <2>1. CASE d = i
    <3>1. u = 1
      BY <2>1, <1>1
    <3> QED
      BY <2>1, <3>1, <1>6, <1>u
  <2>2. CASE d # i
    BY <2>2, <1>1, <1>6, <1>p DEF RingParts
  <2> QED
    BY <2>1, <2>2
<1>13. RingParts(d)'
  BY <1>1, <1>4, <1>8, <1>9, <1>10, <1>11, <1>12 DEF RingParts
<1>14. RingAt(d)'
  <2>1. CASE stop
    <3>1. rx'.pc = pc /\ rx'.cur = RxIx(i)
      BY <2>1, <1>2, <1>4
    <3>2. pc = "count" => device = "am79c971" /\ u = o
      BY <1>3
    <3>3. rx'.enp = (u = 1) /\ rx'.err = (u = 1 /\ u < o)
      <4>1. RxCut(next) = (u < o)
        BY <1>1, <1>f, <2>1 DEF stop
      <4>2. rx.enp = FALSE /\ rx.err = FALSE
        BY <1>2, <1>t DEF RxTypes, RxState
      <4>3. CASE u = 1
        <5>1. stop = TRUE /\ rx'.enp = stop /\ rx'.err = RxCut(next)
          BY <4>3, <1>4, <2>1, <1>x
        <5>2. rx'.enp = TRUE /\ rx'.err = (u < o)
          BY <5>1, <4>1
        <5>3. (u = 1 /\ u < o) = (u < o) /\ (u = 1) = TRUE
          BY <4>3
        <5> QED
          BY <5>2, <5>3
      <4>4. CASE u # 1
        BY <4>2, <4>4, <1>4
      <4> QED
        BY <4>3, <4>4
    <3>4. pc = "final" /\ device \in {"am79c971", "dec21140"} /\ u = o
            => Slot(i)'.count = o \/ (u = 1 /\ device = "dec21140")
      BY <1>3, <1>6, <1>u
    <3> QED
      BY <3>1, <3>2, <3>3, <3>4, <1>q, <1>1, <1>2, <1>4, <1>6 DEF RingAt, RxOwn
  <2>2. CASE ~stop
    <3>1. u < o /\ d + u < RxLen
      BY <2>2, <1>1 DEF stop
    <3>2. rx'.pc = "put" /\ rx'.cur = next
      BY <2>2, <1>4
    <3>3. ~rx'.enp /\ ~rx'.err
      <4>1. ~RxCut(next)
        BY <1>f, <3>1, <1>1
      <4> QED
        BY <4>1, <2>2, <1>2, <1>4
    <3> QED
      BY <3>1, <3>2, <3>3, <1>2, <1>4, <1>6 DEF RingAt
  <2> QED
    BY <2>1, <2>2
<1>15. rx'.pc \in {"put", "mark", "count", "final"} /\ device \in Ring /\ device' = device
  BY <1>4, <1>q DEF FillingRing, RxOwn
<1> QED
  BY <1>7, <1>13, <1>14, <1>15 DEF RxShape, FillingRing

\* The length goes into the last descriptor.
LEMMA CountRing ==
  ASSUME Base, NEW d \in 0..RxLen, RxFront(d), FillingRing(d), rx.pc = "count", RxOwn, frames' = frames,
         rx_pos' = rx_pos, rx' = [rx EXCEPT !.pc = "final"],
         rxd' = [rxd EXCEPT ![rx.cur].count = rx.of]
  PROVE  RxShape(d)'
<1>t. DrvTypes /\ RxTypes
  BY DEF Base
<1>v. \E u, o : u = rx.unit /\ o = rx.of
  OBVIOUS
<1>u. PICK u, o : u = rx.unit /\ o = rx.of
  BY <1>v
<1> DEFINE i == d + u - 1
           e == [rxd[rx.cur] EXCEPT !.count = o]
<1>1. /\ d \in 0..RxLen - 1 /\ d \in Nat /\ u \in Nat /\ o \in Nat /\ d + u <= RxLen /\ u <= o /\ o \in 1..MaxUnit
      /\ i \in 0..RxLen - 1 /\ RxLen \in Nat \ {0} /\ LastId = frames - 1 /\ frames \in Int /\ u > 0
      /\ \A k \in 0..d - 1 : k \in 0..RxLen - 1
  BY <1>u, FillingPlaces
<1>2. /\ rx.cur = RxIx(i) /\ rx.start = RxIx(d) /\ device = "am79c971" /\ u = o
      /\ rx_pos = RxIx(d + u) /\ rx.enp = (u = 1) /\ rx.err = (u = 1 /\ u < o)
  BY <1>u DEF FillingRing, RingAt
<1>4. /\ rx'.unit = u /\ rx'.of = o /\ rx'.start = rx.start /\ rx'.pc = "final" /\ rx'.cur = rx.cur
      /\ rx'.enp = rx.enp /\ rx'.err = rx.err
  BY <1>t, <1>u DEF RxTypes, RxState
<1>s. drv'.rx = drv.rx
  BY DEF RxOwn
<1>5. rxd' = [rxd EXCEPT ![RxIx(i)] = e]
  BY <1>2, <1>u
<1>b. /\ e.own = Slot(i).own /\ e.stp = Slot(i).stp /\ e.enp = Slot(i).enp /\ e.err = Slot(i).err
      /\ e.count = o /\ e.buf = Slot(i).buf
  <2>1. rxd[rx.cur] = Slot(i) /\ Slot(i) \in RxRec
    BY <1>1, <1>2, <1>t, SlotTypes DEF Slot
  <2> QED
    BY <2>1 DEF RxRec
<1> HIDE DEF e
<1>6. /\ \A k : RxIx(k)' = RxIx(k)
      /\ \A k \in 0..RxLen - 1 : k # i => Slot(k)' = Slot(k)
      /\ Slot(i)' = e
  BY <1>1, <1>5, <1>s, <1>t, SlotWritten
<1>9. \A k \in 0..RxLen - 1 :
        /\ Slot(k)'.own = Slot(k).own /\ Slot(k)'.stp = Slot(k).stp /\ Slot(k)'.enp = Slot(k).enp
        /\ Slot(k)'.err = Slot(k).err /\ Slot(k)'.buf = Slot(k).buf
  BY <1>6, <1>b
<1>p. RingParts(d)
  BY DEF FillingRing
<1>7. RxFront(d)'
  <2>1. LastId' = LastId
    BY <1>1, <1>4 DEF LastId
  <2>2. \A k \in 0..d - 1 : k \in 0..RxLen - 1 /\ k # i
    BY <1>1
  <2> QED
    BY <2>1, <2>2, <1>1, <1>6, <1>t, FrontKept, SlotTypes DEF RxOwn, RxTypes
<1>8. Marked = u /\ Marked' = u
  BY <1>4, <1>u DEF Marked
<1>10. Clean(d + u)'
  <2>1. \A k \in d + u..RxLen - 1 : k \in 0..RxLen - 1
    BY <1>1
  <2>2. \A k \in d + u..RxLen - 1 : CleanSlot(k)
    BY <1>p, <1>u DEF RingParts, Clean
  <2> QED
    BY <2>1, <2>2, <1>9 DEF Clean, CleanSlot
<1>11. ASSUME NEW k \in d..d + u - 1 PROVE Part(d, k)'
  <2>1. Part(d, k) /\ k \in 0..RxLen - 1
    BY <1>p, <1>u, <1>1 DEF RingParts
  <2> QED
    BY <2>1, <1>9, <1>4, <1>8, <1>u DEF Part
<1>12. ASSUME NEW k \in d + 1..d + u - 1 PROVE PartMarked(d, k)'
  <2>1. PartMarked(d, k) /\ k \in 0..RxLen - 1
    BY <1>p, <1>8, <1>1 DEF RingParts
  <2> QED
    BY <2>1, <1>9, <1>2, <1>4, <1>u DEF PartMarked, PartEnd, RxOwn
<1>13. RingParts(d)'
  <2>1. Slot(d)'.own
    BY <1>1, <1>9, <1>p DEF RingParts
  <2> QED
    BY <2>1, <1>1, <1>4, <1>8, <1>10, <1>11, <1>12 DEF RingParts
<1>14. RingAt(d)'
  <2>1. Slot(i)'.count = o
    BY <1>6, <1>b
  <2> QED
    BY <2>1, <1>1, <1>2, <1>4, <1>6 DEF RingAt, RxOwn
<1> QED
  BY <1>4, <1>7, <1>13, <1>14 DEF RxShape, FillingRing, RxOwn

\* The first descriptor is given back, and with it the frame.
LEMMA FinalRing ==
  ASSUME Base, NEW d \in 0..RxLen, RxFront(d), FillingRing(d), RxOwn,
         NEW len, NEW marks \in BOOLEAN, RingFinal(len, marks), marks = (device # "pos"),
         device \in {"mueslix", "pos"} => len = 1,
         device = "am79c971" => len = rxd[rx.start].count,
         device = "dec21140" /\ rx.of = 1 => len = 1
  PROVE  \E d2 \in 0..RxLen : RxShape(d2)'
<1>t. DrvTypes /\ RxTypes
  BY DEF Base
<1>v. \E u, o, f : u = rx.unit /\ o = rx.of /\ f = frames
  OBVIOUS
<1>u. PICK u, o, f : u = rx.unit /\ o = rx.of /\ f = frames
  BY <1>v
<1> DEFINE b == d + u - 1
           e == [rxd[rx.start] EXCEPT !.own = FALSE, !.stp = TRUE, !.enp = rx.enp,
                         !.err = rx.err /\ marks, !.count = len]
<1>0. /\ rx.pc = "final" /\ rxd' = [rxd EXCEPT ![rx.start] = e] /\ rx' = [rx EXCEPT !.pc = "raise"]
      /\ rx_pos' = rx_pos /\ frames' = frames
  BY DEF RingFinal
<1>1. /\ d \in 0..RxLen - 1 /\ d \in Nat /\ u \in Nat /\ o \in Nat /\ d + u <= RxLen /\ u <= o /\ o \in 1..MaxUnit
      /\ b \in d..RxLen - 1 /\ RxLen \in Nat \ {0} /\ LastId = f - 1 /\ f \in Int /\ u > 0
      /\ \A k \in 0..d - 1 : k \in 0..RxLen - 1
  <2>1. b \in 0..RxLen - 1 /\ u > 0 /\ u \in Nat /\ d \in Nat
    BY <1>0, <1>u, FillingPlaces
  <2> QED
    BY <2>1, <1>u, FillingPlaces
<1>2. /\ rx.start = RxIx(d) /\ rx_pos = RxIx(d + u) /\ rx.enp = (u = 1) /\ rx.err = (u = 1 /\ u < o)
      /\ device \in {"am79c971", "dec21140"} /\ u = o => Slot(b).count = o \/ (u = 1 /\ device = "dec21140")
  BY <1>0, <1>u DEF FillingRing, RingAt
<1>4. rx'.pc = "raise"
  BY <1>0, <1>t DEF RxTypes, RxState
<1>s. drv'.rx = drv.rx
  BY DEF RxOwn
<1>d. rxd[rx.start] = Slot(d) /\ Slot(d) \in RxRec
  BY <1>1, <1>2, <1>t, SlotTypes DEF Slot
<1>b. /\ e.own = FALSE /\ e.stp = TRUE /\ e.enp = (u = 1) /\ e.err = (rx.err /\ marks)
      /\ e.count = len /\ e.buf = Slot(d).buf
  BY <1>d, <1>2 DEF RxRec
<1> HIDE DEF e
<1>6. /\ \A k : RxIx(k)' = RxIx(k)
      /\ \A k \in 0..RxLen - 1 : k # d => Slot(k)' = Slot(k)
      /\ Slot(d)' = e
  BY <1>1, <1>0, <1>2, <1>s, <1>t, SlotWritten
<1>p. RingParts(d) /\ device \in Ring
  BY DEF FillingRing
<1>8. Marked = u
  BY <1>0, <1>u DEF Marked
<1>7. ASSUME NEW k \in d..b
      PROVE  /\ Slot(k)'.buf.id = f /\ Slot(k)'.buf.unit = k - d + 1 /\ Slot(k)'.buf.of = o
             /\ ~Slot(k)'.own /\ Slot(k)'.enp = (k = b) /\ Slot(k)'.stp = (k = d)
             /\ device \in {"mueslix", "pos"} => Slot(k)'.count = 1
             /\ k # d => Slot(k)'.err = (k = b /\ device # "pos" /\ u < o)
  <2>1. Part(d, k) /\ k \in 0..RxLen - 1
    BY <1>p, <1>u, <1>1 DEF RingParts
  <2>4. Slot(k).buf.id = f /\ Slot(k).buf.unit = k - d + 1 /\ Slot(k).buf.of = o
    <3> DEFINE x == Slot(k).buf
               y == k - d + 1
    <3>1. x = [id |-> f, unit |-> y, of |-> o]
      BY <2>1, <1>u DEF Part
    <3> HIDE DEF x, y
    <3>2. x.id = f /\ x.unit = y /\ x.of = o
      BY <3>1
    <3> QED
      BY <3>2 DEF x, y
  <2>2. CASE k = d
    <3>1. (u = 1) = (k = b) /\ Slot(k)' = e
      BY <2>2, <1>1, <1>6
    <3> QED
      BY <2>1, <2>2, <2>4, <3>1, <1>b, <1>u
  <2>3. CASE k # d
    <3>1. k \in d + 1..d + Marked - 1 /\ Slot(k)' = Slot(k) /\ ~ (k >= d + Marked) /\ (k = d + rx.unit - 1) = (k = b)
      BY <2>1, <2>3, <1>1, <1>6, <1>8, <1>u
    <3>2. PartMarked(d, k)
      BY <3>1, <1>p DEF RingParts
    <3>3. PartEnd(d, k) = (k = b)
      BY <1>0, <3>1 DEF PartEnd
    <3>4. Slot(k).enp = (k = b) /\ Slot(k).err = (k = b /\ device # "pos" /\ u < o)
      BY <3>2, <3>3, <1>u DEF PartMarked
    <3>5. ~Slot(k).own /\ ~Slot(k).stp /\ Slot(k).stp \in BOOLEAN
      BY <2>1, <2>3, <3>1, <1>t, SlotTypes DEF Part
    <3> QED
      BY <2>1, <2>3, <2>4, <3>1, <3>2, <3>4, <3>5, <1>u DEF PartMarked
  <2> QED
    BY <2>2, <2>3
<1>9. \A k \in d..b : FrameUnit(d, b, k)'
  <2>1. \A k \in d..b : Slot(k)'.buf.id = f /\ Slot(k)'.buf.unit = k - d + 1
    BY <1>7
  <2>2. d \in d..b /\ device # "i8254x"
    BY <1>1, <1>p DEF Ring
  <2> QED
    BY <2>1, <2>2, <1>7 DEF FrameUnit, RxOwn
<1>10. Slot(b)'.err = (device # "pos" /\ u < o)
  <2>1. CASE b = d
    <3>1. u = 1 /\ Slot(b)' = e
      BY <2>1, <1>1, <1>6
    <3>2. rx.err = (u < o)
      BY <3>1, <1>2
    <3> QED
      BY <3>1, <3>2, <1>b
  <2>2. CASE b # d
    <3>1. b \in d..b
      BY <1>1
    <3> QED
      BY <2>2, <3>1, <1>7
  <2> QED
    BY <2>1, <2>2
<1>11. Slot(b)'.buf.of = o /\ b - d + 1 = u /\ b \in d..b
  BY <1>1, <1>7
<1>12. device \in {"am79c971", "dec21140"} /\ u = o => Slot(b)'.count = u
  <2> SUFFICES ASSUME device \in {"am79c971", "dec21140"}, u = o PROVE Slot(b)'.count = u
    OBVIOUS
  <2>1. CASE b = d
    <3>1. u = 1 /\ Slot(b)' = e
      BY <2>1, <1>1, <1>6
    <3>2. CASE device = "am79c971"
      BY <3>1, <3>2, <2>1, <1>b, <1>d, <1>2
    <3>3. CASE device = "dec21140"
      BY <3>1, <3>3, <1>b, <1>u
    <3> QED
      BY <3>2, <3>3
  <2>2. CASE b # d
    <3>1. u # 1 /\ Slot(b)' = Slot(b)
      BY <2>2, <1>1, <1>6
    <3> QED
      BY <3>1, <1>2
  <2> QED
    BY <2>1, <2>2
<1>13. Whole(d, b)'
  <2>1. EndOk(b, u)'
    <3>1. CASE device # "pos" /\ u < o
      BY <3>1, <1>10, <1>11 DEF EndOk
    <3>2. CASE ~ (device # "pos" /\ u < o)
      <4>1. ~Slot(b)'.err
        BY <3>2, <1>10
      <4>2. CASE u < o
        BY <3>2, <4>2, <1>11 DEF EndOk, RxOwn
      <4>3. CASE u = o
        <5>1. device \in {"mueslix", "pos"} \/ Slot(b)'.count = u
          BY <4>3, <1>12, <1>p DEF Ring
        <5>2. ~ (u < o)
          BY <4>3, <1>1
        <5> QED
          BY <4>1, <4>3, <5>1, <5>2, <1>11 DEF EndOk, RxOwn
      <4> QED
        BY <4>2, <4>3, <1>1
    <3> QED
      BY <3>1, <3>2
  <2>2. EndOk(b, b - d + 1)'
    BY <2>1, <1>11
  <2> QED
    BY <1>9, <2>2 DEF Whole
<1>14. RxFront(b + 1)'
  <2>1. LastId' = f /\ LastId \in Int /\ LastId < LastId'
    BY <1>1, <1>4, <1>0, <1>u DEF LastId
  <2>2. \A k \in 0..d - 1 : k \in 0..RxLen - 1 /\ k # d
    BY <1>1
  <2>3. Slot(d)'.buf.id = LastId'
    BY <1>1, <1>7, <2>1
  <2>4. device # "i8255x"
    BY <1>p DEF Ring
  <2> QED
    BY <2>1, <2>2, <2>3, <2>4, <1>13, <1>1, <1>6, <1>t, FrontGrows, SlotTypes DEF RxOwn,
       RxTypes
<1>15. b + 1 = d + u /\ b + 1 \in 0..RxLen
  BY <1>1
<1>16. Clean(d + u)'
  <2>1. \A k \in d + u..RxLen - 1 : k \in 0..RxLen - 1 /\ k # d
    BY <1>1
  <2>2. \A k \in d + u..RxLen - 1 : CleanSlot(k)
    BY <1>p, <1>u DEF RingParts, Clean
  <2> QED
    BY <2>1, <2>2, <1>6 DEF Clean, CleanSlot
<1>17. Resting(d + u)'
  BY <1>0, <1>2, <1>4, <1>6, <1>16, <1>p DEF Resting, RxOwn, Ring
<1> QED
  BY <1>14, <1>15, <1>17 DEF RxShape

\* A write to the descriptor behind the frames in front.
LEMMA OneWritten ==
  ASSUME Base, NEW d \in 0..RxLen - 1, RxFront(d), RxOwn, NEW e, rx.cur = RxIx(d),
         rxd' = [rxd EXCEPT ![rx.cur] = e], frames' = frames, rx.pc \notin {"idle", "raise", "update"}
  PROVE  /\ \A k : RxIx(k)' = RxIx(k)
         /\ \A k \in 0..RxLen - 1 : k # d => Slot(k)' = Slot(k)
         /\ Slot(d)' = e /\ rxd[rx.cur] = Slot(d) /\ Slot(d) \in RxRec
         /\ rx'.pc \notin {"idle", "raise", "update"} => RxFront(d)'
         /\ Clean(d + 1) => Clean(d + 1)'
         /\ rx'.pc = "raise" /\ ~e.own /\ e.enp /\ e.stp /\ ~e.err /\ e.count = 1 /\ e.buf = [id |-> frames, unit |-> 1, of |-> 1]
              => RxFront(d + 1)'
<1>t. DrvTypes /\ RxTypes
  BY DEF Base
<1>s. drv'.rx = drv.rx
  BY DEF RxOwn
<1>1. /\ \A k : RxIx(k)' = RxIx(k)
      /\ \A k \in 0..RxLen - 1 : k # d => Slot(k)' = Slot(k)
      /\ Slot(d)' = e
  BY <1>s, <1>t, SlotWritten
<1>2. rxd[rx.cur] = Slot(d) /\ Slot(d) \in RxRec
  BY <1>t, SlotTypes DEF Slot
<1>3. /\ frames \in Int /\ LastId = frames - 1 /\ RxLen \in Nat \ {0} /\ d \in Nat /\ d \in 0..RxLen
      /\ \A k \in 0..d - 1 : k \in 0..RxLen - 1 /\ k # d
  BY <1>t, Sizes DEF LastId, RxTypes
<1>4. ASSUME rx'.pc \notin {"idle", "raise", "update"} PROVE RxFront(d)'
  <2>1. LastId' = LastId
    BY <1>3, <1>4 DEF LastId
  <2> QED
    BY <2>1, <1>1, <1>3, <1>t, FrontKept, SlotTypes DEF RxOwn, RxTypes
<1>5. ASSUME Clean(d + 1) PROVE Clean(d + 1)'
  <2>1. \A k \in d + 1..RxLen - 1 : k \in 0..RxLen - 1 /\ k # d
    BY <1>3
  <2> QED
    BY <2>1, <1>1, <1>5 DEF Clean, CleanSlot
<1>6. ASSUME rx'.pc = "raise", ~e.own, e.enp, e.stp, ~e.err, e.count = 1,
             e.buf = [id |-> frames, unit |-> 1, of |-> 1], e.enp \in BOOLEAN, e.stp \in BOOLEAN
      PROVE  RxFront(d + 1)'
  <2>1. e.buf.id = frames /\ e.buf.unit = 1 /\ e.buf.of = 1
    BY <1>6
  <2>2. Whole(d, d)'
    <3>1. d..d = {d} /\ d - d + 1 = 1
      BY <1>3
    <3>2. FrameUnit(d, d, d)'
      BY <1>1, <1>6, <2>1, <3>1 DEF FrameUnit
    <3>3. EndOk(d, 1)'
      BY <1>1, <1>6, <2>1 DEF EndOk
    <3> QED
      BY <3>1, <3>2, <3>3 DEF Whole, EndOk
  <2>3. LastId' = frames
    BY <1>6 DEF LastId
  <2>4. /\ d \in d..RxLen - 1 /\ LastId < LastId' /\ Slot(d)'.buf.id = LastId'
        /\ \A k \in d..d : Slot(k)'.buf.of = 1
    BY <1>1, <1>3, <2>1, <2>3
  <2> QED
    BY <2>2, <2>3, <2>4, <1>1, <1>3, <1>t, FrontGrows, SlotTypes DEF RxOwn, RxTypes
<1>7. e \in RxRec => e.enp \in BOOLEAN /\ e.stp \in BOOLEAN
  BY DEF RxRec
<1> QED
  BY <1>1, <1>2, <1>4, <1>5, <1>6, <1>7

\* The i8254x stores a unit or the length.
LEMMA LvgPutShape ==
  ASSUME Base, NEW d \in 0..RxLen, RxFront(d), FillingLvg(d), RxOwn, LvgRxPut \/ LvgRxLength
  PROVE  RxShape(d)'
<1>t. DrvTypes /\ RxTypes
  BY DEF Base
<1>1. /\ d \in 0..RxLen - 1 /\ d \in 0..RxLen - 2 /\ RxLen \in Nat
  BY Sizes DEF FillingLvg
<1>2. /\ rx.cur = rx_pos /\ rx_pos = RxIx(d) /\ rx.of = 1 /\ device = "i8254x" /\ Clean(d)
      /\ rx.unit = (IF rx.pc = "put" THEN 0 ELSE 1)
      /\ rx.pc # "put" => Slot(d).buf = [id |-> frames, unit |-> 1, of |-> 1]
  BY DEF FillingLvg, FillingOne
<1>3. CleanSlot(d) /\ Clean(d + 1)
  BY <1>1, <1>2 DEF Clean
<1>d. rxd[rx.cur] = Slot(d) /\ Slot(d) \in RxRec
  BY <1>1, <1>2, <1>t, SlotTypes DEF Slot
<1>4. PICK e : /\ rxd' = [rxd EXCEPT ![rx.cur] = e]
               /\ e.own = Slot(d).own /\ e.stp = Slot(d).stp /\ e.enp = Slot(d).enp /\ e.err = Slot(d).err
               /\ e.buf = [id |-> frames, unit |-> 1, of |-> 1]
  <2>1. CASE LvgRxPut
    <3> DEFINE e == [rxd[rx.cur] EXCEPT !.buf = [id |-> frames, unit |-> rx.unit + 1, of |-> rx.of]]
    <3>1. rxd' = [rxd EXCEPT ![rx.cur] = e] /\ rx.pc = "put"
      BY <2>1 DEF LvgRxPut, PutUnit
    <3>2. rx.unit + 1 = 1 /\ rx.of = 1
      BY <1>2, <3>1
    <3>3. /\ e.own = Slot(d).own /\ e.stp = Slot(d).stp /\ e.enp = Slot(d).enp /\ e.err = Slot(d).err
          /\ e.buf = [id |-> frames, unit |-> 1, of |-> 1]
      BY <3>2, <1>d DEF RxRec
    <3> QED
      BY <3>1, <3>3
  <2>2. CASE LvgRxLength
    <3> DEFINE e == [rxd[rx.cur] EXCEPT !.count = 1]
    <3>1. rxd' = [rxd EXCEPT ![rx.cur] = e] /\ rx.pc = "length"
      BY <2>2 DEF LvgRxLength
    <3>3. /\ e.own = Slot(d).own /\ e.stp = Slot(d).stp /\ e.enp = Slot(d).enp /\ e.err = Slot(d).err
          /\ e.buf = Slot(d).buf
      BY <1>d DEF RxRec
    <3>4. e.buf = [id |-> frames, unit |-> 1, of |-> 1]
      BY <3>1, <3>3, <1>2
    <3> QED
      BY <3>1, <3>3, <3>4
  <2> QED
    BY <2>1, <2>2
<1>5. /\ rx_pos' = rx_pos /\ frames' = frames /\ rx.pc \notin {"idle", "raise", "update"}
      /\ rx'.pc \in {"length", "status"} /\ rx'.cur = rx.cur /\ rx'.of = rx.of /\ rx'.unit = 1
  <2>1. rx \in RxState /\ 0 + 1 = 1
    BY <1>t DEF RxTypes
  <2>2. CASE LvgRxPut
    BY <2>1, <2>2, <1>2 DEF LvgRxPut, RxState
  <2>3. CASE LvgRxLength
    BY <2>1, <2>3, <1>2 DEF LvgRxLength, RxState
  <2> QED
    BY <2>2, <2>3
<1>6. /\ \A k : RxIx(k)' = RxIx(k)
      /\ Slot(d)' = e /\ RxFront(d)' /\ Clean(d + 1)'
  BY <1>1, <1>2, <1>3, <1>4, <1>5, OneWritten
<1>7. Clean(d)'
  <2>1. \A k \in d..RxLen - 1 : k = d \/ k \in d + 1..RxLen - 1
    BY <1>1
  <2> QED
    BY <2>1, <1>3, <1>4, <1>6 DEF Clean, CleanSlot
<1>8. FillingOne(d)'
  BY <1>2, <1>4, <1>5, <1>6 DEF FillingOne
<1> QED
  BY <1>1, <1>2, <1>5, <1>6, <1>7, <1>8 DEF RxShape, FillingLvg, RxOwn

\* It sets the status: the frame is done (dev_i8254x_receive_pkt).
LEMMA LvgStatusShape ==
  ASSUME Base, NEW d \in 0..RxLen, RxFront(d), FillingLvg(d), RxOwn, LvgRxStatus
  PROVE  d + 1 \in 0..RxLen /\ RxShape(d + 1)'
<1>t. DrvTypes /\ RxTypes
  BY DEF Base
<1>1. /\ d \in 0..RxLen - 1 /\ d \in 0..RxLen - 2 /\ RxLen \in Nat
  BY Sizes DEF FillingLvg
<1>2. /\ rx.cur = rx_pos /\ rx_pos = RxIx(d) /\ device = "i8254x" /\ Clean(d) /\ rx.pc = "status"
      /\ Slot(d).buf = [id |-> frames, unit |-> 1, of |-> 1]
  BY DEF FillingLvg, FillingOne, LvgRxStatus
<1>3. CleanSlot(d) /\ Clean(d + 1)
  BY <1>1, <1>2 DEF Clean
<1>d. rxd[rx.cur] = Slot(d) /\ Slot(d) \in RxRec
  BY <1>1, <1>2, <1>t, SlotTypes DEF Slot
<1> DEFINE e == [rxd[rx.cur] EXCEPT !.own = FALSE, !.stp = TRUE, !.enp = TRUE, !.count = 1]
<1>4. /\ rxd' = [rxd EXCEPT ![rx.cur] = e] /\ frames' = frames /\ rx' = [rx EXCEPT !.pc = "raise"]
      /\ rx_pos' = IF rx_pos + 1 = RxLen THEN 0 ELSE rx_pos + 1
  BY DEF LvgRxStatus
<1>5. ~e.own /\ e.stp /\ e.enp /\ ~e.err /\ e.count = 1 /\ e.buf = [id |-> frames, unit |-> 1, of |-> 1]
  BY <1>2, <1>3, <1>d DEF RxRec, CleanSlot
<1>6. rx'.pc = "raise"
  BY <1>4, <1>t DEF RxTypes, RxState
<1> HIDE DEF e
<1>7. /\ \A k : RxIx(k)' = RxIx(k)
      /\ RxFront(d + 1)' /\ Clean(d + 1)'
  BY <1>1, <1>2, <1>3, <1>4, <1>5, <1>6, OneWritten
<1>8. rx_pos' = RxIx(d + 1)
  BY <1>1, <1>2, <1>4, <1>t, RxNextPlace
<1>9. d + 1 < RxLen /\ d + 1 \in 0..RxLen
  BY <1>1
<1>10. Resting(d + 1)'
  BY <1>2, <1>6, <1>7, <1>8, <1>9 DEF Resting, RxOwn
<1> QED
  BY <1>7, <1>9, <1>10 DEF RxShape

-----------------------------------------------------------------------------
\* The i8255x stores the frame or its status word.
LEMMA EeproPutShape ==
  ASSUME Base, NEW d \in 0..RxLen, RxFront(d), FillingEepro(d), RxOwn, EeproRxPut \/ EeproRxCtrl
  PROVE  /\ RxShape(d)' /\ \A k \in 0..RxLen - 1 : Slot(k)'.own => Slot(k)'.el = Slot(k).el /\ Slot(k).own
<1>t. DrvTypes /\ RxTypes
  BY DEF Base
<1>1. /\ d \in 0..RxLen - 1 /\ RxLen \in Nat
  BY Sizes DEF FillingEepro
<1>2. /\ rx.cur = rx_pos /\ rx_pos = RxIx(d) /\ rx.of = 1 /\ device = "i8255x" /\ Clean(d + 1)
      /\ rx.unit = (IF rx.pc = "put" THEN 0 ELSE 1)
      /\ rx.pc # "put" => Slot(d).buf = [id |-> frames, unit |-> 1, of |-> 1]
      /\ Slot(d).own = (rx.pc # "size") /\ Slot(d).stp = (rx.pc = "size")
      /\ ~Slot(d).enp /\ ~Slot(d).err
      /\ d = RxLen - 1 => "EL" \in rx.copy
  BY DEF FillingEepro, FillingOne
<1>d. rxd[rx.cur] = Slot(d) /\ Slot(d) \in RxRec
  BY <1>1, <1>2, <1>t, SlotTypes DEF Slot
<1>4. PICK e : /\ rxd' = [rxd EXCEPT ![rx.cur] = e]
               /\ e.own = (rx'.pc # "size") /\ e.stp = (rx'.pc = "size")
               /\ e.enp = Slot(d).enp /\ e.err = Slot(d).err
               /\ e.own => e.el = Slot(d).el /\ Slot(d).own
               /\ e.buf = [id |-> frames, unit |-> 1, of |-> 1]
  <2>1. CASE EeproRxPut
    <3> DEFINE e == [rxd[rx.cur] EXCEPT !.buf = [id |-> frames, unit |-> rx.unit + 1, of |-> rx.of]]
    <3>1. rxd' = [rxd EXCEPT ![rx.cur] = e] /\ rx.pc = "put" /\ rx' = [rx EXCEPT !.pc = "ctrl", !.unit = @ + 1]
      BY <2>1 DEF EeproRxPut, PutUnit
    <3>2. rx.unit + 1 = 1 /\ rx.of = 1
      BY <1>2, <3>1
    <3>3. /\ e.own = Slot(d).own /\ e.stp = Slot(d).stp /\ e.enp = Slot(d).enp /\ e.err = Slot(d).err
          /\ e.el = Slot(d).el
          /\ e.buf = [id |-> frames, unit |-> 1, of |-> 1]
      BY <3>2, <1>d DEF RxRec
    <3>4. rx'.pc = "ctrl" /\ Slot(d).own = TRUE /\ Slot(d).stp = FALSE
      BY <1>t, <1>2, <3>1 DEF RxTypes, RxState
    <3> HIDE DEF e
    <3> QED
      BY <3>1, <3>3, <3>4
  <2>2. CASE EeproRxCtrl
    <3> DEFINE l == "EL" \in rx.copy
               e == [rxd[rx.cur] EXCEPT !.own = FALSE, !.stp = TRUE, !.el = l]
    <3>1. rxd' = [rxd EXCEPT ![rx.cur] = e] /\ rx.pc = "ctrl" /\ rx' = [rx EXCEPT !.pc = "size"]
      BY <2>2 DEF EeproRxCtrl
    <3>0. l \in BOOLEAN
      OBVIOUS
    <3> HIDE DEF l
    <3>3. /\ e.own = FALSE /\ e.stp = TRUE /\ e.enp = Slot(d).enp /\ e.err = Slot(d).err
          /\ e.buf = Slot(d).buf
      BY <1>d, <3>0 DEF RxRec
    <3>4. e.buf = [id |-> frames, unit |-> 1, of |-> 1]
      BY <3>1, <3>3, <1>2
    <3>5. rx'.pc = "size"
      BY <1>t, <3>1 DEF RxTypes, RxState
    <3> HIDE DEF e
    <3> QED
      BY <3>1, <3>3, <3>4, <3>5
  <2> QED
    BY <2>1, <2>2
<1>5. /\ rx_pos' = rx_pos /\ frames' = frames /\ rx.pc \notin {"idle", "raise", "update"}
      /\ rx'.pc \in {"ctrl", "size"} /\ rx'.cur = rx.cur /\ rx'.of = rx.of /\ rx'.unit = 1
      /\ rx'.copy = rx.copy
  <2>1. rx \in RxState /\ 0 + 1 = 1
    BY <1>t DEF RxTypes
  <2>2. CASE EeproRxPut
    BY <2>1, <2>2, <1>2 DEF EeproRxPut, RxState
  <2>3. CASE EeproRxCtrl
    BY <2>1, <2>3, <1>2 DEF EeproRxCtrl, RxState
  <2> QED
    BY <2>2, <2>3
<1>6. /\ \A k : RxIx(k)' = RxIx(k)
      /\ \A k \in 0..RxLen - 1 : k # d => Slot(k)' = Slot(k)
      /\ Slot(d)' = e /\ RxFront(d)' /\ Clean(d + 1)'
  BY <1>1, <1>2, <1>4, <1>5, OneWritten
<1>8. FillingOne(d)'
  BY <1>2, <1>4, <1>5, <1>6 DEF FillingOne
<1>9. \A k \in 0..RxLen - 1 : Slot(k)'.own => Slot(k)'.el = Slot(k).el /\ Slot(k).own
  BY <1>4, <1>6
<1>10. FillingEepro(d)'
  BY <1>1, <1>2, <1>4, <1>5, <1>6, <1>8 DEF FillingEepro, RxOwn
<1> QED
  BY <1>6, <1>9, <1>10 DEF RxShape

\* It writes the size: the frame is done (dev_i8255x_store_rx_pkt).
LEMMA EeproSizeShape ==
  ASSUME Base, NEW d \in 0..RxLen, RxFront(d), FillingEepro(d), RxOwn, EeproRxSize
  PROVE  /\ d + 1 \in 0..RxLen /\ RxShape(d + 1)'
         /\ \A k \in 0..RxLen - 1 : Slot(k)'.own => Slot(k)'.el = Slot(k).el /\ Slot(k).own
<1>t. DrvTypes /\ RxTypes
  BY DEF Base
<1>1. /\ d \in 0..RxLen - 1 /\ RxLen \in Nat
  BY Sizes DEF FillingEepro
<1>2. /\ rx.cur = rx_pos /\ rx_pos = RxIx(d) /\ device = "i8255x" /\ Clean(d + 1) /\ rx.pc = "size"
      /\ Slot(d).buf = [id |-> frames, unit |-> 1, of |-> 1]
      /\ ~Slot(d).own /\ Slot(d).stp /\ ~Slot(d).err
      /\ d = RxLen - 1 => "EL" \in rx.copy
  BY DEF FillingEepro, FillingOne, EeproRxSize
<1>d. rxd[rx.cur] = Slot(d) /\ Slot(d) \in RxRec
  BY <1>1, <1>2, <1>t, SlotTypes DEF Slot
<1> DEFINE e == [rxd[rx.cur] EXCEPT !.enp = TRUE, !.count = 1]
<1>4. /\ rxd' = [rxd EXCEPT ![rx.cur] = e] /\ frames' = frames /\ rx' = [rx EXCEPT !.pc = "raise"]
      /\ rx_pos' = rx_pos
  BY DEF EeproRxSize
<1>5. ~e.own /\ e.stp /\ e.enp /\ ~e.err /\ e.count = 1 /\ e.buf = [id |-> frames, unit |-> 1, of |-> 1]
  BY <1>2, <1>d DEF RxRec
<1>6. rx'.pc = "raise" /\ rx'.copy = rx.copy
  BY <1>4, <1>t DEF RxTypes, RxState
<1> HIDE DEF e
<1>7. /\ \A k : RxIx(k)' = RxIx(k)
      /\ RxFront(d + 1)' /\ Clean(d + 1)' /\ Slot(d)' = e
      /\ \A k \in 0..RxLen - 1 : k # d => Slot(k)' = Slot(k)
  BY <1>1, <1>2, <1>4, <1>5, <1>6, OneWritten
<1>8. Ix(rx_pos, 1, RxLen) = RxIx(d + 1)
  BY <1>1, <1>2, <1>t, RxNextPlace
<1>9. (d # RxLen - 1 => d + 1 < RxLen) /\ d + 1 \in 0..RxLen
  BY <1>1
<1>10. Resting(d + 1)'
  BY <1>2, <1>4, <1>6, <1>7, <1>8, <1>9 DEF Resting, RxOwn
<1>11. \A k \in 0..RxLen - 1 : Slot(k)'.own => Slot(k)'.el = Slot(k).el /\ Slot(k).own
  BY <1>5, <1>7
<1> QED
  BY <1>7, <1>9, <1>10, <1>11 DEF RxShape

\* It raises its line.
LEMMA EeproRaiseShape ==
  ASSUME Base, NEW d \in 0..RxLen, RxFront(d), Resting(d), RxOwn, EeproRxRaise
  PROVE  RxShape(d)'
<1>t. DrvTypes /\ RxTypes
  BY DEF Base
<1>0. /\ device = "i8255x" /\ rx.pc = "raise" /\ rx' = RxIdle /\ rxd' = rxd /\ frames' = frames
      /\ IF "EL" \in rx.copy THEN ctl' = ctl \ {"RU_READY"} /\ rx_pos' = rx_pos
                             ELSE rx_pos' = (rx_pos + 1) % RxLen /\ ctl' = ctl
  BY DEF EeproRxRaise, Eepro
<1>1. \A k : RxIx(k)' = RxIx(k) /\ Slot(k)' = Slot(k)
  BY <1>0, SlotsKept DEF RxOwn
<1>2. rx'.pc = "idle" /\ LastId = frames /\ LastId' = frames /\ frames \in Int /\ frames <= frames
  BY <1>0, <1>t DEF RxIdle, LastId, RxTypes
<1>3. \A k \in 0..d - 1 : k \in 0..RxLen - 1
  BY Sizes
<1>4. RxFront(d)'
  BY <1>1, <1>2, <1>3, <1>t, FrontKept, SlotTypes, Sizes DEF RxOwn, RxTypes
<1>5. Clean(d)'
  BY <1>1 DEF Resting, Clean, CleanSlot
<1>6. "EL" \notin rx.copy => d < RxLen /\ rx_pos' = RxIx(d)
  <2> SUFFICES ASSUME "EL" \notin rx.copy PROVE d < RxLen /\ rx_pos' = RxIx(d)
    OBVIOUS
  <2>1. d < RxLen /\ Ix(rx_pos, 1, RxLen) = RxIx(d)
    BY <1>0 DEF Resting
  <2>2. (rx_pos + 1) % RxLen = Ix(rx_pos, 1, RxLen)
    <3>1. rx_pos \in 0..RxLen - 1 /\ RxLen \in Nat /\ 1 \in 0..RxLen
      BY <1>t, Sizes DEF RxTypes, RxSlot
    <3> QED
      BY <3>1, ModIx
  <2> QED
    BY <2>1, <2>2, <1>0
<1>7. Resting(d)'
  <2>1. "EL" \in rx.copy => "RU_READY" \notin ctl'
    BY <1>0
  <2> QED
    BY <2>1, <1>0, <1>1, <1>2, <1>5, <1>6 DEF Resting, RxOwn
<1> QED
  BY <1>4, <1>7 DEF RxShape

\* A frame that comes begins on a free descriptor, or is dropped.
LEMMA ArrivalsRx == ASSUME Base, RxInv, Arrivals PROVE RxInv'
<1>t. DrvTypes /\ RxTypes
  BY DEF Base
<1>a. RxOnly
  BY ArrivalsAlone
<1>b. RxOwn /\ Started' = Started /\ drv' = drv
  BY <1>a DEF RxOnly, RxOwn, Started
<1>c. rx.pc = "idle" /\ frames' = frames + 1 /\ rxd' = rxd /\ rx_pos' = rx_pos /\ ctl' = ctl
  BY DEF Arrivals, Arrive, AmRxCheck, MuesRxRing, DecRxRing, PosRxRing, LvgRxRing,
     EeproRxRing, NoRegs, regVars
<1>d. frames \in Nat /\ LastId = frames /\ RxLen \in Nat \ {0}
  BY <1>c, <1>t, Sizes DEF LastId, RxTypes
<1>e. \A k : RxIx(k)' = RxIx(k) /\ Slot(k)' = Slot(k)
  BY <1>b, <1>c, SlotsKept
<1>1. CASE ~Started
  <2>1. ctl \cap RunBits = {}
    BY <1>1 DEF Base, CtlInv
  <2>2. rx' = rx
    BY <1>1, <2>1 DEF Arrivals, AmRxCheck, MuesRxRing, DecRxRing, PosRxRing, LvgRxRing,
       EeproRxRing, RunBits
  <2>3. taken <= frames'
    <3>1. taken <= frames /\ taken \in Nat /\ frames \in Nat
      BY <1>1, <1>t DEF RxInv, StoppedRx, RxTypes
    <3> QED
      BY <3>1, <1>c
  <2> QED
    BY <1>1, <1>b, <1>c, <2>2, <2>3 DEF RxInv, StoppedRx, RxOwn
<1>2. CASE Started
  <2>e. RxEnds'
    BY <1>2, <1>b, <1>e DEF RxInv, RxEnds, RxOwn
  <2>1. PICK d \in 0..RxLen : RxShape(d)
    BY <1>2 DEF RxInv
  <2>2. Resting(d) /\ RxFront(d)
    BY <2>1, <1>c DEF RxShape, FillingRing, FillingLvg, FillingEepro
  <2>3. rx'.pc = "idle" => LastId' = frames + 1
    BY <1>c DEF LastId
  <2>4. rx'.pc \in {"put", "checked"} => LastId' = frames
    <3>1. rx'.pc \in {"put", "checked"} => LastId' = frames' - 1
      BY DEF LastId
    <3> QED
      BY <3>1, <1>c, <1>d
  <2>5. CASE rx' = rx
    <3>1. rx'.pc = "idle"
      BY <2>5, <1>c
    <3>2. LastId' \in Int /\ LastId <= LastId'
      BY <3>1, <2>3, <1>d
    <3>3. RxShape(d)'
      BY <3>1, <3>2, <2>1, <2>2, <1>b, <1>c, RestKept
    <3> QED
      BY <3>3, <2>e, <1>2, <1>b DEF RxInv, StoppedRx
  <2>6. CASE rx' = RxIdle
    <3>1. rx'.pc = "idle"
      BY <2>6 DEF RxIdle
    <3>2. LastId' \in Int /\ LastId <= LastId'
      BY <3>1, <2>3, <1>d
    <3>3. RxShape(d)'
      BY <3>1, <3>2, <2>1, <2>2, <1>b, <1>c, RestKept
    <3> QED
      BY <3>3, <2>e, <1>2, <1>b DEF RxInv, StoppedRx
  <2>7. CASE \E n \in 1..MaxUnit : AmRxCheck(n)
    <3>1. PICK n \in 1..MaxUnit : AmRxCheck(n)
      BY <2>7
    <3>2. rx'.pc = "checked" /\ rx'.of = n /\ device = "am79c971"
      BY <3>1 DEF AmRxCheck, RxIdle, Am
    <3>3. LastId' \in Int /\ LastId <= LastId'
      BY <3>2, <2>4, <1>d
    <3>4. RxShape(d)'
      BY <3>2, <3>3, <2>1, <2>2, <1>b, <1>c, RestKept
    <3> QED
      BY <3>4, <2>e, <1>2, <1>b DEF RxInv, StoppedRx
  <2>8. CASE \E n \in 1..MaxUnit : /\ MuesRxRing(n) \/ DecRxRing(n) \/ PosRxRing(n)
                                   /\ rx' = RxBegin(n) /\ rxd[rx_pos].own
    <3>1. PICK n \in 1..MaxUnit : /\ MuesRxRing(n) \/ DecRxRing(n) \/ PosRxRing(n)
                                  /\ rx' = RxBegin(n) /\ rxd[rx_pos].own
      BY <2>8
    <3>2. rx'.pc = "put" /\ device \in Ring
      BY <3>1 DEF RxBegin, RxIdle, Ring, MuesRxRing, DecRxRing, PosRxRing, Mues, Dec, Pos
    <3>3. LastId' = LastId
      BY <3>2, <2>4, <1>d
    <3>4. RxShape(d)'
      BY <3>1, <3>2, <3>3, <2>1, <2>2, <1>b, <1>c, BeginsRing
    <3> QED
      BY <3>4, <2>e, <1>2, <1>b DEF RxInv, StoppedRx
  <2>9. CASE LvgRxRing /\ rx' # rx
    <3>1. rx' = RxBegin(1) /\ rx_pos # rx_end /\ device = "i8254x"
      BY <2>9 DEF LvgRxRing, Lvg
    <3>2. /\ rx'.pc = "put" /\ rx'.cur = rx_pos /\ rx'.unit = 0 /\ rx'.of = 1
      BY <3>1 DEF RxBegin, RxIdle
    <3>3. rx_pos = RxIx(d) /\ d < RxLen /\ rx_end = RxIx(RxLen - 1) /\ Clean(d)
      BY <3>1, <2>2, <1>2 DEF Resting, RxInv, RxEnds
    <3>4. d \in 0..RxLen - 2
      BY <3>1, <3>3, <1>d
    <3>5. Clean(d)'
      BY <3>3, <1>e DEF Clean, CleanSlot
    <3>6. RxFront(d)'
      <4>1. LastId' = LastId
        BY <3>2, <2>4, <1>d
      <4>2. \A k \in 0..d - 1 : k \in 0..RxLen - 1
        BY Sizes
      <4> QED
        BY <4>1, <4>2, <2>2, <1>b, <1>d, <1>e, <1>t, FrontKept, SlotTypes DEF RxOwn, RxTypes
    <3>7. FillingLvg(d)'
      BY <3>1, <3>2, <3>3, <3>4, <3>5, <1>b, <1>c, <1>e DEF FillingLvg, FillingOne, RxOwn
    <3> QED
      BY <3>6, <3>7, <2>e, <1>2, <1>b DEF RxInv, StoppedRx, RxShape
  <2>10. CASE \E n \in 1..MaxUnit : EeproRxRing(n) /\ rx' # rx
    <3> DEFINE l == rxd[rx_pos].el
    <3>0. l \in BOOLEAN
      BY <1>t DEF RxTypes, RxRec
    <3>1. /\ rx' = [RxBegin(1) EXCEPT !.copy = IF l THEN {"EL"} ELSE {}] /\ device = "i8255x"
          /\ "RU_READY" \in ctl
      BY <2>10 DEF EeproRxRing, Eepro
    <3> HIDE DEF l
    <3>2. /\ rx'.pc = "put" /\ rx'.cur = rx_pos /\ rx'.unit = 0 /\ rx'.of = 1
          /\ rx'.copy = IF l THEN {"EL"} ELSE {}
      BY <3>1 DEF RxBegin, RxIdle
    <3>3. rx_pos = RxIx(d) /\ d < RxLen /\ Clean(d)
      BY <3>1, <2>2, <1>c DEF Resting
    <3>4. d \in 0..RxLen - 1 /\ d \in d..RxLen - 1
      BY <3>3, <1>d
    <3>5. Clean(d + 1)' /\ CleanSlot(d)
      <4>1. \A k \in d + 1..RxLen - 1 : k \in d..RxLen - 1
        BY <3>4
      <4> QED
        BY <4>1, <3>3, <3>4, <1>e DEF Clean, CleanSlot
    <3>6. RxFront(d)'
      <4>1. LastId' = LastId
        BY <3>2, <2>4, <1>d
      <4>2. \A k \in 0..d - 1 : k \in 0..RxLen - 1
        BY Sizes
      <4> QED
        BY <4>1, <4>2, <2>2, <1>b, <1>d, <1>e, <1>t, FrontKept, SlotTypes DEF RxOwn, RxTypes
    <3>7. d = RxLen - 1 => "EL" \in rx'.copy
      <4> SUFFICES ASSUME d = RxLen - 1 PROVE l
        BY <3>2
      <4>1. Slot(d).own => Slot(d).el = (d = RxLen - 1)
        BY <3>1, <3>4, <1>2 DEF RxInv, RxEnds
      <4>2. Slot(d).el = TRUE
        BY <4>1, <3>5 DEF CleanSlot
      <4> QED
        BY <4>2, <3>3 DEF l, Slot
    <3>8. Slot(d)'.own = TRUE /\ Slot(d)'.stp = FALSE /\ ~Slot(d)'.enp /\ ~Slot(d)'.err
      <4>1. Slot(d).own \in BOOLEAN /\ Slot(d).stp \in BOOLEAN
        BY <3>4, <1>t, SlotTypes
      <4> QED
        BY <4>1, <3>5, <1>e DEF CleanSlot
    <3>9. FillingEepro(d)'
      BY <3>1, <3>2, <3>3, <3>4, <3>5, <3>7, <3>8, <1>b, <1>c, <1>e DEF FillingEepro,
         FillingOne, RxOwn
    <3> QED
      BY <3>6, <3>9, <2>e, <1>2, <1>b DEF RxInv, StoppedRx, RxShape
  <2> QED
    BY <2>5, <2>6, <2>7, <2>8, <2>9, <2>10
    DEF Arrivals, MuesRxRing, DecRxRing, PosRxRing
<1> QED
  BY <1>1, <1>2

\* The descriptor the handler marks.
LEMMA MarkedSlot ==
  ASSUME Base, NEW d, FillingRing(d), rx.pc = "mark"
  PROVE  /\ rxd[rx.cur] \in RxRec /\ rx.cur \in RxSlot /\ rxd[rx.cur].own = TRUE
         /\ rxd[rx.cur].stp = FALSE
         /\ rx.cur = RxIx(d + rx.unit - 1) /\ d + rx.unit - 1 \in 0..RxLen - 1
<1>t. DrvTypes /\ RxTypes
  BY DEF Base
<1>1. /\ rx.unit \in Nat /\ rx.unit > 0 /\ d + rx.unit - 1 \in 0..RxLen - 1 /\ d \in Nat
      /\ d + rx.unit - 1 \in d..d + rx.unit - 1
  BY FillingPlaces
<1>2. rx.cur = RxIx(d + rx.unit - 1)
  BY DEF FillingRing, RingAt
<1>3. Part(d, d + rx.unit - 1)
  BY <1>1 DEF FillingRing, RingParts
<1> DEFINE i == d + rx.unit - 1
<1>i. i \in 0..RxLen - 1 /\ (i = d) = (rx.unit = 1) /\ (i >= d + (rx.unit - 1))
  BY <1>1
<1>4. Marked = rx.unit - 1
  BY DEF Marked
<1>7. rxd[rx.cur] = Slot(i) /\ RxIx(i) \in RxSlot
  BY <1>2, <1>i, <1>t, RxPlaces DEF Slot
<1>8. Slot(i) \in RxRec /\ Slot(i).own \in BOOLEAN /\ Slot(i).stp \in BOOLEAN
  BY <1>i, <1>t, SlotTypes
<1>9. ~Slot(i).stp /\ Slot(i).own = (i = d \/ i >= d + Marked)
  BY <1>3 DEF Part
<1>10. Slot(i).own
  BY <1>i, <1>4, <1>9
<1>11. Slot(i).own = TRUE /\ Slot(i).stp = FALSE
  BY <1>8, <1>9, <1>10
<1>12. rx.cur = RxIx(i)
  BY <1>2
<1> QED
  BY <1>1, <1>2, <1>7, <1>8, <1>11, <1>12

\* A descriptor is closed, on the devices that give it back at once.
LEMMA RingMarkShape ==
  ASSUME Base, NEW d \in 0..RxLen, RxFront(d), FillingRing(d), RxOwn,
         NEW next, next = RxIx(d + rx.unit), device # "am79c971",
         NEW len, NEW marks \in BOOLEAN, RingMark(next, len, marks), marks = (device # "pos"),
         device \in {"mueslix", "pos"} => len = 1,
         device = "dec21140" /\ RxLast => len = rx.of
  PROVE  RxShape(d)'
<1> DEFINE x == rxd[rx.cur]
           w == [x EXCEPT !.own = FALSE, !.stp = FALSE, !.count = len,
                          !.enp = RxLast \/ RxCut(next), !.err = RxCut(next) /\ marks]
           e == IF rx.unit = 1 THEN x ELSE w
<1>1. /\ x \in RxRec /\ rx.cur \in RxSlot /\ x.own = TRUE /\ x.stp = FALSE /\ rx.pc = "mark"
  BY MarkedSlot DEF RingMark
<1>2. /\ rxd' = IF rx.unit = 1 THEN rxd ELSE [rxd EXCEPT ![rx.cur] = w]
      /\ rx_pos' = next /\ rx' = RxMarked(next, "final") /\ frames' = frames
  BY DEF RingMark
<1>3. rxd' = [rxd EXCEPT ![rx.cur] = e]
  <2>1. rxd = [rxd EXCEPT ![rx.cur] = x]
    BY DEF Base, RxTypes
  <2> QED
    BY <2>1, <1>2
<1>4. /\ w.own = FALSE /\ w.stp = FALSE /\ w.count = len /\ w.buf = x.buf
      /\ w.enp = (RxLast \/ RxCut(next)) /\ w.err = (RxCut(next) /\ marks)
  BY <1>1 DEF RxRec
<1> HIDE DEF w, x
<1>5. e.own = (rx.unit = 1) /\ ~e.stp /\ e.buf = rxd[rx.cur].buf
  BY <1>1, <1>4 DEF x
<1>6. rx.unit # 1 =>
           /\ e.enp = (RxLast \/ RxCut(next)) /\ e.err = (RxCut(next) /\ device # "pos")
           /\ device \in {"mueslix", "pos"} => e.count = 1
           /\ device = "dec21140" /\ RxLast => e.count = rx.of
  BY <1>4
<1> HIDE DEF e
<1>7. "final" = (IF RxLast /\ device = "am79c971" THEN "count" ELSE "final")
  OBVIOUS
<1> QED
  BY <1>1, <1>2, <1>3, <1>5, <1>6, <1>7, MarkRing

\* And on the Am79c971, that counts the last one first.
LEMMA AmMarkShape ==
  ASSUME Base, NEW d \in 0..RxLen, RxFront(d), FillingRing(d), RxOwn, AmRxMark
  PROVE  RxShape(d)'
<1> DEFINE x == rxd[rx.cur]
           e == [x EXCEPT !.own = rx.unit = 1, !.enp = RxLast \/ RxCut(rx_pos), !.err = RxCut(rx_pos)]
           pc == IF RxLast THEN "count" ELSE "final"
<1>1. /\ x \in RxRec /\ rx.cur \in RxSlot /\ x.stp = FALSE /\ rx.pc = "mark" /\ device = "am79c971"
  BY MarkedSlot DEF AmRxMark, Am
<1>2. rx_pos = RxIx(d + rx.unit)
  BY <1>1 DEF FillingRing, RingAt
<1>3. /\ rxd' = [rxd EXCEPT ![rx.cur].own = rx.unit = 1,
                            ![rx.cur].enp = RxLast \/ RxCut(rx_pos),
                            ![rx.cur].err = RxCut(rx_pos)]
      /\ rx_pos' = rx_pos /\ rx' = RxMarked(rx_pos, pc) /\ frames' = frames
  BY DEF AmRxMark
<1>4. rxd' = [rxd EXCEPT ![rx.cur] = e]
  BY <1>1, <1>3 DEF Base, RxTypes
<1>5. /\ e.own = (rx.unit = 1) /\ ~e.stp /\ e.buf = x.buf
      /\ e.enp = (RxLast \/ RxCut(rx_pos)) /\ e.err = RxCut(rx_pos)
  BY <1>1 DEF RxRec
<1>6. (RxCut(rx_pos) /\ device # "pos") = RxCut(rx_pos)
  <2>1. RxCut(rx_pos) \in BOOLEAN
    BY DEF RxCut
  <2> QED
    BY <2>1, <1>1
<1>7. pc = (IF RxLast /\ device = "am79c971" THEN "count" ELSE "final")
  BY <1>1
<1>8. device \notin {"mueslix", "pos", "dec21140"}
  BY <1>1
<1> HIDE DEF e, pc
<1> QED
  BY <1>1, <1>2, <1>3, <1>4, <1>5, <1>6, <1>7, <1>8, MarkRing DEF x

\* The handler of a device that fills the buffers of a chain of descriptors.
LEMMA RingShape ==
  ASSUME Base, Started, NEW d \in 0..RxLen, RxFront(d), FillingRing(d), RxOwn, frames' = frames,
         \/ AmRxPut \/ AmRxMark \/ AmRxCount \/ AmRxFinal
         \/ DecReceive \/ MuesReceive \/ PosReceive
  PROVE  \E d2 \in 0..RxLen : RxShape(d2)'
<1>t. DrvTypes /\ RxTypes
  BY DEF Base
<1>m. rx.unit \in Nat /\ d \in Nat
  BY FillingPlaces
<1>n. (d + rx.unit - 1) + 1 = d + rx.unit
  BY <1>m
<1>1. CASE AmRxPut
  <2>1. rx.pc = "put" /\ device = "am79c971"
    BY <1>1 DEF AmRxPut, Am
  <2>2. rx_pos = RxIx(d + rx.unit) /\ d + rx.unit \in 0..RxLen - 1
    BY <2>1, FillingPlaces DEF FillingRing, RingAt
  <2>3. AmRxNext = RxIx(d + rx.unit + 1)
    BY <2>2, <1>t, RxNextPlace DEF AmRxNext
  <2> QED
    BY <1>1, <2>1, <2>3, PutRing DEF AmRxPut
<1>2. CASE AmRxMark
  BY <1>2, AmMarkShape
<1>3. CASE AmRxCount
  BY <1>3, CountRing DEF AmRxCount
<1>4. CASE AmRxFinal
  <2>1. device = "am79c971" /\ RingFinal(rxd[rx.start].count, TRUE)
    BY <1>4 DEF AmRxFinal, Am
  <2>2. TRUE = (device # "pos")
    BY <2>1
  <2> QED
    BY <2>1, <2>2, FinalRing
<1>5. CASE (DecReceive \/ MuesReceive \/ PosReceive) /\ RingPut
  <2>1. /\ rx.pc = "put" /\ device # "am79c971" /\ rxd' = PutUnit
        /\ rx' = [rx EXCEPT !.pc = "mark", !.unit = @ + 1] /\ rx_pos' = rx_pos
    BY <1>5 DEF RingPut, DecReceive, MuesReceive, PosReceive, Dec, Mues, Pos
  <2>2. rx_pos' = IF device = "am79c971" THEN RxIx(d + rx.unit + 1) ELSE rx_pos
    BY <2>1
  <2> QED
    BY <2>1, <2>2, PutRing
<1>6. CASE Dec /\ RingMark(DecRxNext, IF RxLast THEN rx.of ELSE 0, TRUE)
  <2>1. rx.pc = "mark" /\ device = "dec21140"
    BY <1>6 DEF RingMark, Dec
  <2>2. rx.cur = RxIx(d + rx.unit - 1) /\ d + rx.unit - 1 \in 0..RxLen - 1 /\ (d + rx.unit - 1) + 1 = d + rx.unit
    BY <2>1, <1>n, MarkedSlot
  <2>3. DecRxNext = RxIx(d + rx.unit)
    BY <2>2, <1>t, RxNextPlace DEF DecRxNext
  <2> DEFINE len == IF RxLast THEN rx.of ELSE 0
  <2>4. RxLast => len = rx.of
    OBVIOUS
  <2>5. TRUE = (device # "pos") /\ device # "am79c971" /\ device \notin {"mueslix", "pos"}
    BY <2>1
  <2>6. RingMark(DecRxNext, len, TRUE)
    BY <1>6
  <2> HIDE DEF len
  <2> QED
    BY <2>3, <2>4, <2>5, <2>6, RingMarkShape
<1>7. CASE Mues /\ RingMark(MuesNext(rx.cur, rx_end), 1, TRUE)
  <2>1. rx.pc = "mark" /\ device = "mueslix"
    BY <1>7 DEF RingMark, Mues
  <2>2. rx.cur = RxIx(d + rx.unit - 1) /\ d + rx.unit - 1 \in 0..RxLen - 1 /\ (d + rx.unit - 1) + 1 = d + rx.unit
    BY <2>1, <1>n, MarkedSlot
  <2>3. MuesNext(rx.cur, rx_end) = RxIx(d + rx.unit)
    BY <2>1, <2>2, <1>t, RxNextPlace DEF MuesNext, Base, MuesEnds
  <2>5. TRUE = (device # "pos") /\ device # "am79c971" /\ device # "dec21140"
    BY <2>1
  <2>6. RingMark(MuesNext(rx.cur, rx_end), 1, TRUE)
    BY <1>7
  <2> QED
    BY <2>3, <2>5, <2>6, RingMarkShape
<1>8. CASE Pos /\ RingMark(PosRxNext, 1, FALSE)
  <2>1. rx.pc = "mark" /\ device = "pos"
    BY <1>8 DEF RingMark, Pos
  <2>2. rx.cur = RxIx(d + rx.unit - 1) /\ d + rx.unit - 1 \in 0..RxLen - 1 /\ (d + rx.unit - 1) + 1 = d + rx.unit
    BY <2>1, <1>n, MarkedSlot
  <2>3. PosRxNext = RxIx(d + rx.unit)
    BY <2>2, <1>t, RxNextPlace DEF PosRxNext
  <2>5. FALSE = (device # "pos") /\ device # "am79c971" /\ device # "dec21140"
    BY <2>1
  <2>6. RingMark(PosRxNext, 1, FALSE)
    BY <1>8
  <2> QED
    BY <2>3, <2>5, <2>6, RingMarkShape
<1>9. CASE Dec /\ RingFinal(IF rx.of = 1 THEN 1 ELSE 0, TRUE)
  <2> DEFINE len == IF rx.of = 1 THEN 1 ELSE 0
  <2>1. device = "dec21140" /\ RingFinal(len, TRUE) /\ (rx.of = 1 => len = 1)
    BY <1>9 DEF Dec
  <2>2. TRUE = (device # "pos") /\ device # "am79c971" /\ device \notin {"mueslix", "pos"}
    BY <2>1
  <2> HIDE DEF len
  <2> QED
    BY <2>1, <2>2, FinalRing
<1>10. CASE Mues /\ RingFinal(1, TRUE)
  <2>1. TRUE = (device # "pos") /\ device # "am79c971" /\ device # "dec21140"
    BY <1>10 DEF Mues
  <2> QED
    BY <1>10, <2>1, FinalRing
<1>11. CASE Pos /\ RingFinal(1, FALSE)
  <2>1. FALSE = (device # "pos") /\ device # "am79c971" /\ device # "dec21140"
    BY <1>11 DEF Pos
  <2> QED
    BY <1>11, <2>1, FinalRing
<1> QED
  BY <1>1, <1>2, <1>3, <1>4, <1>5, <1>6, <1>7, <1>8, <1>9, <1>10, <1>11
  DEF DecReceive, MuesReceive, PosReceive

\* A handler that has done with a frame, and the check of the lock.
LEMMA RxRestShape ==
  ASSUME Base, NEW d \in 0..RxLen, RxShape(d), Resting(d), RxOwn, frames' = frames,
         \/ AmRxLock \/ AmRxRaise \/ DecRxRead \/ DecRxRaise \/ MuesRxRaise \/ PosRxRaise \/ LvgRxRaise
  PROVE  RxShape(d)'
<1>t. DrvTypes /\ RxTypes
  BY DEF Base
<1>f. frames \in Nat
  BY <1>t DEF RxTypes
<1>1. rxd' = rxd /\ rx_pos' = rx_pos /\ device # "i8255x"
  BY DEF AmRxLock, AmRxRaise, DecRxRead, DecRxRaise, MuesRxRaise, PosRxRaise, LvgRxRaise,
         Am, Dec, Mues, Pos, Lvg
<1>2. CASE AmRxLock /\ rxd[rx_pos].own /\ rx' = RxBegin(rx.of)
  <2>1. rx.pc = "checked" /\ device \in Ring /\ rx.of \in 1..MaxUnit
    BY <1>2 DEF AmRxLock, Am, Ring, Resting
  <2>2. rx'.pc = "put"
    BY <1>2 DEF RxBegin, RxIdle
  <2>3. LastId' = LastId
    BY <2>1, <2>2 DEF LastId
  <2> QED
    BY <1>1, <1>2, <2>1, <2>3, BeginsRing
<1>3. CASE AmRxLock /\ rx' = RxIdle
  <2>1. rx.pc = "checked" /\ rx'.pc = "idle"
    BY <1>3 DEF AmRxLock, RxIdle
  <2>2. LastId' = frames /\ LastId = frames - 1
    BY <2>1 DEF LastId
  <2>3. LastId' \in Int /\ LastId <= LastId'
    BY <2>2, <1>f
  <2> QED
    BY <1>1, <2>1, <2>3, RestKept
<1>4. CASE ~AmRxLock
  <2>1. rx.pc \in {"raise", "update"} /\ rx'.pc \in {"idle", "update"}
    <3>1. CASE DecRxRead
      BY <3>1, <1>t DEF DecRxRead, RxTypes, RxState
    <3>2. CASE AmRxRaise \/ DecRxRaise \/ MuesRxRaise \/ PosRxRaise \/ LvgRxRaise
      <4>1. rx.pc \in {"raise", "update"} /\ rx' = RxIdle
        BY <3>2 DEF AmRxRaise, DecRxRaise, MuesRxRaise, PosRxRaise, LvgRxRaise
      <4> QED
        BY <4>1 DEF RxIdle
    <3> QED
      BY <3>1, <3>2, <1>4
  <2>2. LastId' = frames /\ LastId = frames
    BY <2>1 DEF LastId
  <2>3. LastId' \in Int /\ LastId <= LastId'
    BY <2>2, <1>f
  <2> QED
    BY <1>1, <2>1, <2>3, RestKept
<1>5. AmRxLock => (rxd[rx_pos].own /\ rx' = RxBegin(rx.of)) \/ rx' = RxIdle
  BY DEF AmRxLock
<1> QED
  BY <1>2, <1>3, <1>4, <1>5

\* The handler's steps keep the receive invariant.
LEMMA RxThreadRx == ASSUME Base, RxInv, RxThread PROVE RxInv'
<1>t. DrvTypes /\ RxTypes
  BY DEF Base
<1>a. RxOnly
  BY RxThreadAlone
<1>b. RxOwn /\ Started' = Started /\ drv' = drv
  BY <1>a DEF RxOnly, RxOwn, Started
<1>c. rx.pc # "idle" /\ frames' = frames
  BY DEF RxThread, AmRxLock, AmRxPut, AmRxMark, AmRxCount, AmRxFinal, AmRxRaise,
         DecReceive, DecRxRead, DecRxRaise, MuesReceive, MuesRxRaise, PosReceive, PosRxRaise,
         LvgRxPut, LvgRxLength, LvgRxStatus, LvgRxRaise, EeproRxPut, EeproRxCtrl, EeproRxSize, EeproRxRaise,
         RingPut, RingMark, RingFinal
<1>d. Started
  BY <1>c DEF RxInv, StoppedRx
<1>e. RxEnds /\ \A k : RxIx(k)' = RxIx(k)
  BY <1>b, <1>d DEF RxInv, RxIx
<1>f. PICK d \in 0..RxLen : RxShape(d)
  BY <1>d DEF RxInv
<1>g. RxFront(d)
  BY <1>f DEF RxShape
<1>h. device # "i8255x" => RxEnds'
  BY <1>b, <1>e DEF RxEnds, RxOwn
<1>i. ASSUME RxEnds', \E d2 \in 0..RxLen : RxShape(d2)' PROVE RxInv'
  BY <1>b, <1>d, <1>i DEF RxInv, StoppedRx
<1>j. ASSUME \A k \in 0..RxLen - 1 : Slot(k)'.own => Slot(k)'.el = Slot(k).el /\ Slot(k).own
      PROVE  RxEnds'
  BY <1>b, <1>e, <1>j DEF RxEnds, RxOwn
<1>1. CASE AmRxPut \/ AmRxMark \/ AmRxCount \/ AmRxFinal \/ DecReceive \/ MuesReceive \/ PosReceive
  <2>1. rx.pc \in {"put", "mark", "count", "final"} /\ device \in Ring /\ device # "i8255x"
    BY <1>1 DEF AmRxPut, AmRxMark, AmRxCount, AmRxFinal, DecReceive, MuesReceive, PosReceive,
                RingPut, RingMark, RingFinal, Am, Dec, Mues, Pos, Ring
  <2>2. FillingRing(d)
    BY <2>1, <1>f DEF RxShape, Resting, FillingLvg, FillingEepro, Ring
  <2>3. \E d2 \in 0..RxLen : RxShape(d2)'
    BY <1>1, <2>2, <1>b, <1>c, <1>d, <1>g, RingShape
  <2> QED
    BY <2>1, <2>3, <1>h, <1>i
<1>2. CASE AmRxLock \/ AmRxRaise \/ DecRxRead \/ DecRxRaise \/ MuesRxRaise \/ PosRxRaise \/ LvgRxRaise
  <2>1. rx.pc \in {"checked", "raise", "update"} /\ device # "i8255x"
    BY <1>2 DEF AmRxLock, AmRxRaise, DecRxRead, DecRxRaise, MuesRxRaise, PosRxRaise,
       LvgRxRaise,
                Am, Dec, Mues, Pos, Lvg
  <2>2. Resting(d)
    BY <2>1, <1>f DEF RxShape, FillingRing, FillingLvg, FillingEepro
  <2>3. RxShape(d)'
    BY <1>2, <2>2, <1>b, <1>c, <1>f, RxRestShape
  <2> QED
    BY <2>1, <2>3, <1>h, <1>i
<1>3. CASE LvgRxPut \/ LvgRxLength \/ LvgRxStatus
  <2>1. rx.pc \in {"put", "length", "status"} /\ device = "i8254x"
    BY <1>3 DEF LvgRxPut, LvgRxLength, LvgRxStatus, Lvg
  <2>2. FillingLvg(d)
    BY <2>1, <1>f DEF RxShape, Resting, FillingRing, FillingEepro, Ring
  <2>3. \E d2 \in 0..RxLen : RxShape(d2)'
    BY <1>3, <2>2, <1>b, <1>g, LvgPutShape, LvgStatusShape
  <2> QED
    BY <2>1, <2>3, <1>h, <1>i
<1>4. CASE EeproRxPut \/ EeproRxCtrl \/ EeproRxSize
  <2>1. rx.pc \in {"put", "ctrl", "size"} /\ device = "i8255x"
    BY <1>4 DEF EeproRxPut, EeproRxCtrl, EeproRxSize, Eepro
  <2>2. FillingEepro(d)
    BY <2>1, <1>f DEF RxShape, Resting, FillingRing, FillingLvg, Ring
  <2>3. CASE EeproRxPut \/ EeproRxCtrl
    BY <2>2, <2>3, <1>b, <1>g, <1>i, <1>j, EeproPutShape
  <2>4. CASE EeproRxSize
    BY <2>2, <2>4, <1>b, <1>g, <1>i, <1>j, EeproSizeShape
  <2> QED
    BY <1>4, <2>3, <2>4
<1>5. CASE EeproRxRaise
  <2>1. rx.pc = "raise" /\ rxd' = rxd
    BY <1>5 DEF EeproRxRaise
  <2>2. Resting(d)
    BY <2>1, <1>f DEF RxShape, FillingRing, FillingLvg, FillingEepro
  <2>3. RxShape(d)'
    BY <1>5, <2>2, <1>b, <1>g, EeproRaiseShape
  <2>4. \A k : Slot(k)' = Slot(k)
    BY <2>1, <1>e DEF Slot
  <2> QED
    BY <2>3, <2>4, <1>i, <1>j
<1> QED
  BY <1>1, <1>2, <1>3, <1>4, <1>5 DEF RxThread

\* The frame that the driver takes is the first one in front.
LEMMA FrameTaken ==
  ASSUME Base, NEW d \in 0..RxLen, RxShape(d), Complete
  PROVE  \E n \in 1..RxLen : FrameLen = n /\ n <= d /\ Whole(0, n - 1)
<1>t. DrvTypes /\ RxTypes
  BY DEF Base
<1>p. /\ RxLen \in Nat \ {0} /\ Slot(0) = rxd[drv.rx]
      /\ \A k \in 0..RxLen : RxAt(k) = RxIx(k)
  BY <1>t, RxPlaces
<1>s. \A k \in 1..RxLen : k - 1 \in 0..RxLen /\ k - 1 \in 0..RxLen - 1
  BY <1>p
<1>r. \A k \in 1..RxLen : rxd[RxAt(k - 1)] = Slot(k - 1)
  BY <1>p, <1>s DEF Slot
<1>1. d > 0
  <2> SUFFICES ASSUME d = 0 PROVE FALSE
    OBVIOUS
  <2>1. ~Slot(0).own
    BY <1>p DEF Complete
  <2>2. ~Slot(0).enp /\ Clean(1)
    BY <2>1, <1>t, NoFrame
  <2>3. PICK k \in 1..RxLen : Slot(k - 1).enp
    BY <1>r DEF Complete
  <2>4. k - 1 = 0 \/ k - 1 \in 1..RxLen - 1
    BY <1>s
  <2> QED
    BY <2>2, <2>3, <2>4 DEF Clean, CleanSlot
<1>2. PICK b \in 0..d - 1 : Whole(0, b)
  BY <1>1, <1>p, FirstFrame DEF RxShape
<1> DEFINE n == b + 1
<1>3. n \in 1..RxLen /\ n - 1 = b /\ n <= d /\ n \in Nat /\ b \in Nat
  BY <1>1, <1>p
<1>4. \A j \in 0..b : Slot(j).enp <=> j = b
  BY <1>2 DEF Whole, FrameUnit
<1> HIDE DEF n
<1> DEFINE P(m) == rxd[RxAt(m - 1)].enp /\ \A k \in 1..m - 1 : ~rxd[RxAt(k - 1)].enp
<1>5. P(n)
  <2>1. rxd[RxAt(n - 1)].enp
    BY <1>3, <1>4, <1>r
  <2>2. ASSUME NEW k \in 1..n - 1 PROVE ~rxd[RxAt(k - 1)].enp
    <3>1. k \in 1..RxLen /\ k - 1 \in 0..b /\ k - 1 # b
      BY <1>3, <1>p
    <3> QED
      BY <3>1, <1>4, <1>r
  <2> QED
    BY <2>1, <2>2
<1>6. ASSUME NEW m \in 1..RxLen, P(m) PROVE m = n
  <2>1. ~ m < n
    <3> SUFFICES ASSUME m < n PROVE FALSE
      OBVIOUS
    <3>1. m - 1 \in 0..b /\ m - 1 # b
      BY <1>3
    <3>2. Slot(m - 1).enp
      BY <1>6, <1>r
    <3> QED
      BY <3>1, <3>2, <1>4
  <2>2. ~ n < m
    <3> SUFFICES ASSUME n < m PROVE FALSE
      OBVIOUS
    <3>1. n \in 1..m - 1
      BY <1>3
    <3>2. ~rxd[RxAt(n - 1)].enp
      BY <3>1, <1>6
    <3> QED
      BY <3>2, <1>5
  <2> QED
    BY <2>1, <2>2, <1>3
<1>7. FrameLen = n
  <2>1. FrameLen = CHOOSE m \in 1..RxLen : P(m)
    BY DEF FrameLen
  <2> HIDE DEF P
  <2> QED
    BY <2>1, <1>3, <1>5, <1>6
<1> QED
  BY <1>2, <1>3, <1>7

\* A later frame does not begin in front of the end of the first one.
LEMMA LaterFrame ==
  ASSUME NEW n, n \in Nat, n > 0, NEW a, a \in Nat, NEW b, b \in Nat, n <= b,
         Whole(0, n - 1), Whole(a, b)
  PROVE  n <= a
<1> SUFFICES ASSUME a <= n - 1 PROVE FALSE
  OBVIOUS
<1>1. n - 1 \in a..b /\ n - 1 # b /\ n - 1 \in 0..n - 1
  OBVIOUS
<1>2. FrameUnit(a, b, n - 1) /\ FrameUnit(0, n - 1, n - 1)
  BY <1>1 DEF Whole
<1> QED
  BY <1>1, <1>2 DEF FrameUnit

\* What was at place k + n is at place k.
Same(k, n) ==
  /\ Slot(k)'.own = Slot(k + n).own /\ Slot(k)'.enp = Slot(k + n).enp
  /\ Slot(k)'.stp = Slot(k + n).stp /\ Slot(k)'.err = Slot(k + n).err
  /\ Slot(k)'.buf = Slot(k + n).buf /\ Slot(k)'.count = Slot(k + n).count
Moves(n) ==
  /\ UNCHANGED <<device, rx, rx_pos, frames>> /\ taken' = Slot(0).buf.id
  /\ \A k \in 0..RxLen - n : RxIx(k)' = RxIx(k + n)
  /\ \A k \in 0..RxLen - n - 1 : Same(k, n)
  /\ \A k \in RxLen - n..RxLen - 1 : CleanSlot(k)'

\* The driver takes a frame: the other frames done move to the front.
LEMMA FrontMoves ==
  ASSUME NEW n \in 1..RxLen, NEW d \in n..RxLen, RxFront(d), Whole(0, n - 1), Moves(n), RxLen \in Nat
  PROVE  RxFront(d - n)'
<1>1. d \in Nat /\ n \in Nat /\ n > 0 /\ d - n \in 0..RxLen
  OBVIOUS
<1>2. LastId' = LastId
  BY DEF LastId, Moves
<1>s. \A k \in 0..d - n - 1 : k \in 0..RxLen - n - 1 /\ k + n \in 0..d - 1
  BY <1>1
<1>3. ASSUME NEW k \in 0..d - n - 1
      PROVE  \E a \in 0..k, b \in k..d - n - 1 : Whole(a, b)'
  <2>1. PICK a \in 0..k + n, b \in k + n..d - 1 : Whole(a, b)
    BY <1>s DEF RxFront, Framed
  <2>2. a \in Nat /\ b \in Nat /\ n <= b
    BY <1>1
  <2>3. n <= a
    BY <2>1, <2>2, <1>1, LaterFrame
  <2>4. /\ a - n \in 0..k /\ b - n \in k..d - n - 1 /\ a = (a - n) + n /\ b = (b - n) + n
        /\ a - n \in Nat /\ b - n \in Nat /\ a - n <= b - n
        /\ \A j \in a - n..b - n : j \in 0..RxLen - n - 1
    BY <2>2, <2>3, <1>1
  <2> DEFINE a0 == a - n
             b0 == b - n
  <2>5. \A j \in a0..b0 : Same(j, n)
    BY <2>4 DEF Moves
  <2> HIDE DEF a0, b0
  <2>6. a0 \in Nat /\ b0 \in Nat /\ a0 <= b0 /\ a = a0 + n /\ b = b0 + n
    BY <2>4 DEF a0, b0
  <2>7. Whole(a0, b0)'
    <3>1. UNCHANGED device
      BY DEF Moves
    <3> QED
      BY <3>1, <2>1, <2>5, <2>6, <1>1, WholeKept DEF Same
  <2> QED
    BY <2>4, <2>7 DEF a0, b0
<1>o. /\ taken <= LastId
      /\ \A k \in 0..d - 1 : /\ taken < Slot(k).buf.id /\ Slot(k).buf.id <= LastId
                             /\ device = "i8255x" => Slot(k).buf.of = 1
      /\ \A j, k \in 0..d - 1 : j < k /\ Slot(j).enp => Slot(j).buf.id < Slot(k).buf.id
  BY DEF RxFront, Ordered
<1>4. Slot(n - 1).enp /\ Slot(n - 1).buf.id = Slot(0).buf.id
  <2>1. FrameUnit(0, n - 1, n - 1)
    BY <1>1 DEF Whole
  <2> QED
    BY <2>1 DEF FrameUnit
<1>5. Ordered(d - n)'
  <2>1. taken' <= LastId'
    <3>1. 0 \in 0..d - 1
      BY <1>1
    <3> QED
      BY <3>1, <1>2, <1>o DEF Moves
  <2>2. ASSUME NEW k \in 0..d - n - 1
        PROVE  /\ taken' < Slot(k)'.buf.id /\ Slot(k)'.buf.id <= LastId'
               /\ device' = "i8255x" => Slot(k)'.buf.of = 1
    <3>1. n - 1 \in 0..d - 1 /\ n - 1 < k + n /\ k + n \in 0..d - 1
      BY <1>1
    <3>2. Slot(n - 1).buf.id < Slot(k + n).buf.id
      BY <3>1, <1>4, <1>o
    <3>3. Slot(k)'.buf = Slot(k + n).buf
      BY <1>s DEF Moves, Same
    <3>4. taken' = Slot(n - 1).buf.id /\ device' = device
      BY <1>4 DEF Moves
    <3> QED
      BY <3>1, <3>2, <3>3, <3>4, <1>o, <1>2
  <2>3. ASSUME NEW j \in 0..d - n - 1, NEW k \in 0..d - n - 1, j < k, Slot(j)'.enp
        PROVE  Slot(j)'.buf.id < Slot(k)'.buf.id
    <3>1. j + n \in 0..d - 1 /\ k + n \in 0..d - 1 /\ j + n < k + n
      BY <2>3, <1>1
    <3>2. Same(j, n) /\ Same(k, n)
      BY <1>s DEF Moves
    <3> QED
      BY <3>1, <3>2, <2>3, <1>o DEF Same
  <2> QED
    BY <2>1, <2>2, <2>3 DEF Ordered
<1> QED
  BY <1>1, <1>3, <1>5 DEF RxFront, Framed

\* So do the free descriptors behind them,
LEMMA CleanMoves ==
  ASSUME NEW n \in 1..RxLen, NEW e \in Nat, n <= e, Clean(e), Moves(n), RxLen \in Nat
  PROVE  Clean(e - n)'
<1>1. ASSUME NEW k \in e - n..RxLen - 1 PROVE CleanSlot(k)'
  <2>1. CASE k <= RxLen - n - 1
    <3>1. k \in 0..RxLen - n - 1 /\ k + n \in e..RxLen - 1
      BY <2>1
    <3>2. Same(k, n) /\ CleanSlot(k + n)
      BY <3>1 DEF Moves, Clean
    <3> QED
      BY <3>2 DEF Same, CleanSlot
  <2>2. CASE ~ k <= RxLen - n - 1
    <3>1. k \in RxLen - n..RxLen - 1
      BY <2>2
    <3> QED
      BY <3>1 DEF Moves
  <2> QED
    BY <2>1, <2>2
<1> QED
  BY <1>1 DEF Clean

\* what follows with no frame in progress,
LEMMA RestMoves ==
  ASSUME Base, NEW n \in 1..RxLen, NEW d \in n..RxLen, Resting(d), Moves(n), ctl' = ctl
  PROVE  Resting(d - n)'
<1>q. RxLen \in Nat \ {0}
  BY Sizes
<1>1. d \in Nat /\ n <= d /\ d - n \in 0..RxLen - n /\ (d - n) + n = d /\ d - n < RxLen
  BY <1>q
<1>2. Clean(d - n)'
  BY <1>1, <1>q, CleanMoves DEF Resting
<1>3. RxIx(d - n)' = RxIx(d)
  BY <1>1 DEF Moves
<1> QED
  BY <1>1, <1>2, <1>3 DEF Resting, Moves

\* the descriptors of one in progress in a ring,
LEMMA RingMoves ==
  ASSUME Base, NEW n \in 1..RxLen, NEW d \in n..RxLen, FillingRing(d), Moves(n)
  PROVE  FillingRing(d - n)'
<1>v. \E u, o : u = rx.unit /\ o = rx.of
  OBVIOUS
<1>u. PICK u, o : u = rx.unit /\ o = rx.of
  BY <1>v
<1>m. UNCHANGED <<device, rx, rx_pos, frames>> /\ rx'.unit = u /\ rx'.of = o
  BY <1>u DEF Moves
<1>1. /\ d \in 0..RxLen - 1 /\ d \in Nat /\ u \in Nat /\ o \in Nat /\ d + u <= RxLen /\ u <= o /\ o \in 1..MaxUnit
      /\ RxLen \in Nat \ {0} /\ (rx.pc # "put" => u > 0) /\ (rx.pc = "put" => d + u < RxLen /\ u < o)
  BY <1>u, FillingPlaces
<1> DEFINE c == d - n
<1>2. c \in Nat /\ c \in 0..RxLen - 1 /\ c \in 0..RxLen - n /\ c + n = d /\ c + u <= RxLen - n /\ n \in Nat
  BY <1>1
<1>p. RingParts(d) /\ RingAt(d)
  BY DEF FillingRing
<1>x. \A k \in 0..RxLen - n : RxIx(k)' = RxIx(k + n)
  BY DEF Moves
<1>3. ASSUME NEW k \in c..c + u - 1 PROVE k \in 0..RxLen - n - 1 /\ k + n \in d..d + u - 1
  BY <1>1, <1>2
<1>4. Marked' = Marked
  BY DEF Marked, Moves
<1>z. Marked <= u
  BY <1>1, <1>u DEF Marked
<1> HIDE DEF c
<1>5. ASSUME NEW k \in c..c + u - 1 PROVE Part(c, k)'
  <2>1. Part(d, k + n) /\ Same(k, n)
    BY <1>3, <1>p, <1>u DEF RingParts, Moves
  <2>2. k - c + 1 = (k + n) - d + 1 /\ (k = c <=> k + n = d) /\ (k >= c + Marked <=> k + n >= d + Marked)
    <3>1. k \in Int /\ Marked \in Int
      BY <1>1, <1>2, <1>u DEF Marked
    <3> QED
      BY <3>1, <1>2, <1>1
  <2>3. (k = c \/ k >= c + Marked) = (k + n = d \/ k + n >= d + Marked)
    BY <2>2
  <2> QED
    BY <2>1, <2>2, <2>3, <1>4, <1>m DEF Part, Same
<1>6. ASSUME NEW k \in c + 1..c + Marked - 1 PROVE PartMarked(c, k)'
  <2>0. Marked \in Int
    BY <1>1, <1>u DEF Marked
  <2>1. k \in c..c + u - 1 /\ k + n \in d + 1..d + Marked - 1
    BY <2>0, <1>1, <1>2, <1>z
  <2>2. PartMarked(d, k + n) /\ Same(k, n)
    BY <2>1, <1>3, <1>p DEF RingParts, Moves
  <2>3. (k = c + u - 1) = (k + n = d + u - 1)
    BY <2>1, <1>2, <1>1
  <2>4. PartEnd(c, k)' = PartEnd(d, k + n)
    BY <2>3, <1>m, <1>u DEF PartEnd
  <2> QED
    BY <2>2, <2>4, <1>m, <1>u DEF PartMarked, Same
<1>7. Slot(c)'.own
  <2>1. Same(c, n)
    <3>1. c \in 0..RxLen - n - 1
      BY <1>1, <1>2
    <3> QED
      BY <3>1 DEF Moves
  <2> QED
    BY <2>1, <1>2, <1>p DEF Same, RingParts
<1>8. Clean(c + u)'
  <2>1. Clean(d + u)
    BY <1>p, <1>u DEF RingParts
  <2>2. d + u \in Nat /\ n <= d + u /\ (d + u) - n = c + u
    BY <1>1, <1>2
  <2> QED
    BY <2>1, <2>2, <1>1, CleanMoves
<1>9. RingParts(c)'
  <2>1. c + u <= RxLen
    BY <1>1, <1>2
  <2> QED
    BY <2>1, <1>1, <1>2, <1>4, <1>5, <1>6, <1>7, <1>8, <1>m DEF RingParts
<1>10. RingAt(c)'
  <2>1. RxIx(c)' = RxIx(d) /\ RxIx(c + u)' = RxIx(d + u) /\ (u > 0 => RxIx(c + u - 1)' = RxIx(d + u - 1))
    <3>1. /\ c + u \in 0..RxLen - n /\ (c + u) + n = d + u
          /\ u > 0 => c + u - 1 \in 0..RxLen - n /\ (c + u - 1) + n = d + u - 1
      BY <1>1, <1>2
    <3> QED
      BY <3>1, <1>x, <1>2
  <2>2. u > 0 => Slot(c + u - 1)'.count = Slot(d + u - 1).count
    <3>1. u > 0 => c + u - 1 \in 0..RxLen - n - 1 /\ (c + u - 1) + n = d + u - 1
      BY <1>1, <1>2
    <3> QED
      BY <3>1 DEF Moves, Same
  <2>3. rx.pc = "put" => c + u < RxLen
    BY <1>1, <1>2
  <2> QED
    BY <2>1, <2>2, <2>3, <1>1, <1>m, <1>p, <1>u DEF RingAt
<1> QED
  BY <1>9, <1>10, <1>m DEF FillingRing, c

\* or in a single descriptor:
LEMMA OneMoves ==
  ASSUME Base, NEW n \in 1..RxLen, NEW d \in n..RxLen, Moves(n), ctl' = ctl
  PROVE  /\ FillingLvg(d) => FillingLvg(d - n)'
         /\ FillingEepro(d) => FillingEepro(d - n)'
<1>q. RxLen \in Nat \ {0}
  BY Sizes
<1> DEFINE c == d - n
<1>1. /\ d \in Nat /\ n \in Nat /\ n <= d /\ n <= d + 1 /\ d + 1 \in Nat /\ c \in 0..RxLen - n
      /\ c + n = d /\ (d + 1) - n = c + 1
      /\ d <= RxLen - 1 => c \in 0..RxLen - 1 /\ c \in 0..RxLen - n - 1 /\ c # RxLen - 1
      /\ d <= RxLen - 2 => c \in 0..RxLen - 2
  BY <1>q
<1>2. RxIx(c)' = RxIx(d)
  BY <1>1 DEF Moves
<1>3. d <= RxLen - 1 => Same(c, n)
  BY <1>1 DEF Moves
<1>4. (Clean(d) => Clean(c)') /\ (Clean(d + 1) => Clean(c + 1)')
  BY <1>1, <1>q, CleanMoves
<1> HIDE DEF c
<1>5. d <= RxLen - 1 /\ FillingOne(d) => FillingOne(c)'
  BY <1>1, <1>2, <1>3 DEF FillingOne, Moves, Same
<1>6. FillingLvg(d) => FillingLvg(c)'
  <2>1. d \in 0..RxLen - 2 => d <= RxLen - 1 /\ d <= RxLen - 2
    BY <1>q
  <2> QED
    BY <2>1, <1>1, <1>4, <1>5 DEF FillingLvg, Moves
<1>7. FillingEepro(d) => FillingEepro(c)'
  <2>1. d \in 0..RxLen - 1 => d <= RxLen - 1
    BY <1>q
  <2> QED
    BY <2>1, <1>1, <1>3, <1>4, <1>5 DEF FillingEepro, Moves, Same
<1> QED
  BY <1>6, <1>7 DEF c

\* the whole ring.
LEMMA ShapeMoves ==
  ASSUME Base, NEW n \in 1..RxLen, NEW d \in n..RxLen, RxShape(d), Whole(0, n - 1), Moves(n), ctl' = ctl
  PROVE  RxShape(d - n)' /\ d - n \in 0..RxLen
<1>q. RxLen \in Nat \ {0}
  BY Sizes
<1>1. RxFront(d - n)'
  BY <1>q, FrontMoves DEF RxShape
<1>2. d - n \in 0..RxLen
  BY <1>q
<1> QED
  BY <1>1, <1>2, RestMoves, RingMoves, OneMoves DEF RxShape

\* The places as they are seen when the driver has gone on by n.
LEMMA ViewMoves ==
  ASSUME Base, NEW n \in 1..RxLen, drv'.rx = RxIx(n)
  PROVE  /\ \A k \in 0..RxLen - n : RxIx(k)' = RxIx(k + n)
         /\ \A k \in RxLen - n..RxLen : RxIx(k)' = RxIx(k + n - RxLen)
<1>t. DrvTypes /\ RxTypes
  BY DEF Base
<1>p. drv.rx \in 0..RxLen - 1 /\ RxLen \in Nat \ {0} /\ n \in 0..RxLen /\ n \in Nat
  BY <1>t, RxPlaces
<1>0. \A k : RxIx(k)' = Ix(Ix(drv.rx, n, RxLen), k, RxLen)
  BY DEF RxIx
<1>1. ASSUME NEW k \in 0..RxLen - n PROVE RxIx(k)' = RxIx(k + n)
  <2>1. k \in 0..RxLen /\ n + k <= RxLen /\ n + k = k + n
    BY <1>p
  <2>2. Ix(Ix(drv.rx, n, RxLen), k, RxLen) = Ix(drv.rx, n + k, RxLen)
    BY <2>1, <1>p, IxShift
  <2> QED
    BY <2>1, <2>2, <1>0 DEF RxIx
<1>2. ASSUME NEW k \in RxLen - n..RxLen PROVE RxIx(k)' = RxIx(k + n - RxLen)
  <2>1. k \in 0..RxLen /\ n + k - RxLen = k + n - RxLen
    BY <1>p
  <2>2. CASE n + k <= RxLen
    <3>1. k = RxLen - n /\ n + k = RxLen /\ k + n - RxLen = 0
      BY <2>2, <1>p
    <3>2. Ix(Ix(drv.rx, n, RxLen), k, RxLen) = Ix(drv.rx, RxLen, RxLen)
      BY <2>1, <2>2, <3>1, <1>p, IxShift
    <3>3. Ix(drv.rx, RxLen, RxLen) = Ix(drv.rx, 0, RxLen)
      BY <1>p, IxZero
    <3> QED
      BY <3>1, <3>2, <3>3, <1>0 DEF RxIx
  <2>3. CASE ~ n + k <= RxLen
    <3>1. Ix(Ix(drv.rx, n, RxLen), k, RxLen) = Ix(drv.rx, n + k - RxLen, RxLen)
      BY <2>1, <2>3, <1>p, IxShift
    <3> QED
      BY <2>1, <3>1, <1>0 DEF RxIx
  <2> QED
    BY <2>2, <2>3
<1> QED
  BY <1>1, <1>2

\* The driver takes all of the first frame done and nothing else.
LEMMA TakeMoves ==
  ASSUME Base, NEW d \in 0..RxLen, RxShape(d), Take(FreshRx), rx_pos' = rx_pos
  PROVE  \E n \in 1..RxLen : /\ FrameLen = n /\ n <= d /\ Whole(0, n - 1) /\ Moves(n) /\ drv'.rx = RxIx(n)
                             /\ drv'.pc = "scan" /\ drv.pc = "scan"
<1>t. DrvTypes /\ RxTypes
  BY DEF Base
<1>1. PICK n \in 1..RxLen : FrameLen = n /\ n <= d /\ Whole(0, n - 1)
  BY FrameTaken DEF Take
<1>p. /\ RxLen \in Nat \ {0} /\ Slot(0) = rxd[drv.rx]
      /\ \A k \in 0..RxLen : RxAt(k) = RxIx(k) /\ RxIx(k) \in RxSlot
      /\ n \in 0..RxLen /\ n \in Nat /\ n > 0
  BY <1>t, RxPlaces
<1>2. /\ rxd' = [i \in RxSlot |-> IF \E k \in 1..n : i = RxAt(k - 1) THEN FreshRx ELSE rxd[i]]
      /\ drv' = [drv EXCEPT !.rx = RxAt(n)]
      /\ taken' = Slot(0).buf.id /\ UNCHANGED <<device, rx, frames>> /\ drv.pc = "scan"
  BY <1>1, <1>p DEF Take, NoAccess
<1>3. drv'.rx = RxIx(n) /\ drv'.pc = "scan"
  BY <1>2, <1>p, <1>t DEF DrvTypes, DrvState
<1>4. /\ \A k \in 0..RxLen - n : RxIx(k)' = RxIx(k + n)
      /\ \A k \in RxLen - n..RxLen : RxIx(k)' = RxIx(k + n - RxLen)
  BY <1>3, ViewMoves
<1>5. ASSUME NEW k \in 0..RxLen - n - 1 PROVE Slot(k)' = Slot(k + n)
  <2>1. k + n \in 0..RxLen - 1 /\ k + n \in 0..RxLen /\ k \in 0..RxLen - n
    BY <1>p
  <2>2. RxIx(k)' = RxIx(k + n) /\ RxIx(k + n) \in RxSlot
    BY <2>1, <1>4, <1>p
  <2>3. ASSUME NEW j \in 1..n PROVE RxIx(k + n) # RxAt(j - 1)
    <3>1. j - 1 \in 0..RxLen - 1 /\ j - 1 \in 0..RxLen /\ j - 1 # k + n
      BY <1>p
    <3> QED
      BY <3>1, <2>1, <1>p, <1>t, RxDistinct
  <2>4. rxd'[RxIx(k + n)] = rxd[RxIx(k + n)]
    BY <2>2, <2>3, <1>2
  <2> QED
    BY <2>2, <2>4 DEF Slot
<1>6. ASSUME NEW k \in RxLen - n..RxLen - 1 PROVE Slot(k)' = FreshRx
  <2>1. k + n - RxLen \in 0..n - 1 /\ k \in RxLen - n..RxLen /\ k + n - RxLen \in 0..RxLen
        /\ (k + n - RxLen) + 1 \in 1..n /\ ((k + n - RxLen) + 1) - 1 = k + n - RxLen
    BY <1>p
  <2>2. RxIx(k)' = RxIx(k + n - RxLen) /\ RxIx(k + n - RxLen) \in RxSlot
    BY <2>1, <1>4, <1>p
  <2>3. \E j \in 1..n : RxIx(k + n - RxLen) = RxAt(j - 1)
    BY <2>1, <1>p
  <2>4. rxd'[RxIx(k + n - RxLen)] = FreshRx
    BY <2>2, <2>3, <1>2
  <2> QED
    BY <2>2, <2>4 DEF Slot
<1>7. FreshRx.own = TRUE /\ FreshRx.stp = FALSE /\ FreshRx.enp = FALSE /\ FreshRx.err = FALSE
  BY DEF FreshRx
<1>8. Moves(n)
  BY <1>2, <1>4, <1>5, <1>6, <1>7 DEF Moves, Same, CleanSlot
<1> QED
  BY <1>1, <1>2, <1>3, <1>8

\* Taking a frame keeps the receive invariant.
LEMMA TakeRx ==
  ASSUME Base, RxInv, AmTake \/ DecTake \/ MuesTake \/ PosTake \/ LvgTake
  PROVE  RxInv'
<1>t. DrvTypes /\ RxTypes
  BY DEF Base
<1>1. /\ Take(FreshRx) /\ rx_pos' = rx_pos /\ device # "i8255x" /\ device' = device /\ ctl' = ctl
      /\ device # "i8254x" => rx_end' = rx_end
      /\ device = "i8254x" => rx_end' = (rx_end + FrameLen) % RxLen
  BY DEF AmTake, DecTake, MuesTake, PosTake, LvgTake, Am, Dec, Mues, Pos, Lvg, NoDevice,
     NoRegs, regVars,
         Take, NoAccess
<1>2. Started
  BY <1>1 DEF Take, Started
<1>3. PICK d \in 0..RxLen : RxShape(d)
  BY <1>2 DEF RxInv
<1>4. PICK n \in 1..RxLen :
        /\ FrameLen = n /\ n <= d /\ Whole(0, n - 1) /\ Moves(n) /\ drv'.rx = RxIx(n)
        /\ drv'.pc = "scan" /\ drv.pc = "scan"
  BY <1>1, <1>3, TakeMoves
<1>5. Started'
  BY <1>4 DEF Started
<1>6. d \in n..RxLen
  BY <1>4
<1>7. RxShape(d - n)' /\ d - n \in 0..RxLen
  BY <1>1, <1>3, <1>4, <1>6, ShapeMoves
<1>8. RxEnds'
  <2> SUFFICES ASSUME device = "i8254x" PROVE rx_end' = RxIx(RxLen - 1)'
    BY <1>1 DEF RxEnds
  <2>p. drv.rx \in 0..RxLen - 1 /\ RxLen \in Nat \ {0} /\ n \in Nat /\ n > 0 /\ n \in 0..RxLen
        /\ RxLen - 1 \in 0..RxLen /\ RxLen - 1 \in RxLen - n..RxLen
    BY <1>t, RxPlaces
  <2>1. rx_end = Ix(drv.rx, RxLen - 1, RxLen)
    BY <1>2 DEF RxInv, RxEnds, RxIx
  <2>2. rx_end \in 0..RxLen - 1
    BY <2>1, <2>p, IxSlot
  <2>3. (rx_end + n) % RxLen = Ix(rx_end, n, RxLen)
    BY <2>2, <2>p, ModIx
  <2>4. Ix(Ix(drv.rx, RxLen - 1, RxLen), n, RxLen) = IF RxLen - 1 + n <= RxLen THEN Ix(drv.rx, RxLen - 1 + n, RxLen)
                                                     ELSE Ix(drv.rx, RxLen - 1 + n - RxLen, RxLen)
    BY <2>p, IxShift
  <2>5. RxIx(RxLen - 1)' = RxIx(RxLen - 1 + n - RxLen)
    BY <2>p, <1>4, ViewMoves
  <2>6. CASE RxLen - 1 + n <= RxLen
    <3>1. n = 1 /\ RxLen - 1 + n = RxLen /\ RxLen - 1 + n - RxLen = 0
      BY <2>6, <2>p
    <3>2. Ix(drv.rx, RxLen, RxLen) = Ix(drv.rx, 0, RxLen)
      BY <2>p, IxZero
    <3> QED
      BY <1>1, <1>4, <2>1, <2>3, <2>4, <2>5, <3>1, <3>2, <2>6 DEF RxIx
  <2>7. CASE ~ RxLen - 1 + n <= RxLen
    BY <1>1, <1>4, <2>1, <2>3, <2>4, <2>5, <2>7 DEF RxIx
  <2> QED
    BY <2>6, <2>7
<1> QED
  BY <1>5, <1>7, <1>8 DEF RxInv, StoppedRx

\* On the i8255x, where the list's end moves to the descriptor before.
LEMMA EeproTakeRx ==
  ASSUME Base, RxInv, EeproTake
  PROVE  RxInv'
<1>t. DrvTypes /\ RxTypes
  BY DEF Base
<1> DEFINE last == (drv.rx + RxLen - 1) % RxLen
           f == [FreshRx EXCEPT !.el = TRUE]
<1>1. /\ Complete /\ rx_pos' = rx_pos /\ device = "i8255x" /\ device' = device /\ ctl' = ctl
      /\ rx' = rx /\ frames' = frames /\ taken' = rxd[drv.rx].buf.id /\ drv.pc = "scan"
      /\ rxd' = [rxd EXCEPT ![last].el = FALSE, ![drv.rx] = f]
      /\ drv' = [drv EXCEPT !.rx = (@ + 1) % RxLen]
  BY DEF EeproTake, Eepro, NoDevice, NoRegs, regVars, NoAccess
<1>2. Started
  BY <1>1 DEF Started
<1>p. /\ RxLen \in Nat \ {0} /\ Slot(0) = rxd[drv.rx] /\ drv.rx \in 0..RxLen - 1 /\ RxIx(0) = drv.rx
      /\ \A k \in 0..RxLen : RxAt(k) = RxIx(k) /\ RxIx(k) \in RxSlot
  BY <1>t, RxPlaces
<1>3. PICK d \in 0..RxLen : RxShape(d)
  BY <1>2 DEF RxInv
<1>4. PICK n \in 1..RxLen : n <= d /\ Whole(0, n - 1)
  BY <1>1, <1>3, FrameTaken
<1>5. n = 1
  <2>1. n - 1 \in 0..d - 1 /\ n - 1 - 0 + 1 = n
    BY <1>4, <1>p
  <2>2. Slot(n - 1).buf.of = 1
    BY <2>1, <1>1, <1>3 DEF RxShape, RxFront, Ordered
  <2>3. EndOk(n - 1, n)
    BY <2>1, <1>4 DEF Whole
  <2> QED
    BY <2>2, <2>3, <1>1 DEF EndOk
<1>6. Whole(0, 0) /\ 1 \in 1..RxLen /\ d \in 1..RxLen /\ 1 - 1 = 0
  BY <1>4, <1>5, <1>p
<1>7. last = RxIx(RxLen - 1) /\ (drv.rx + 1) % RxLen = RxIx(1)
  <2>1. RxLen - 1 \in 0..RxLen /\ 1 \in 0..RxLen /\ drv.rx + (RxLen - 1) = drv.rx + RxLen - 1
    BY <1>p
  <2> QED
    BY <2>1, <1>p DEF RxAt
<1>8. drv'.rx = RxIx(1) /\ drv'.pc = "scan"
  BY <1>1, <1>7, <1>t DEF DrvTypes, DrvState
<1>9. /\ \A k \in 0..RxLen - 1 : RxIx(k)' = RxIx(k + 1)
      /\ \A k \in RxLen - 1..RxLen : RxIx(k)' = RxIx(k + 1 - RxLen)
  BY <1>6, <1>8, ViewMoves
<1>f. /\ f.own = TRUE /\ f.stp = FALSE /\ f.enp = FALSE /\ f.err = FALSE /\ f.el = TRUE
  BY DEF FreshRx
<1> HIDE DEF last, f
<1>10. RxIx(RxLen - 1)' = drv.rx /\ Slot(RxLen - 1)' = f
  <2>1. RxLen - 1 \in RxLen - 1..RxLen /\ RxLen - 1 + 1 - RxLen = 0
    BY <1>p
  <2>2. RxIx(RxLen - 1)' = drv.rx
    BY <2>1, <1>9, <1>p
  <2>3. rxd'[drv.rx] = f
    BY <1>1, <1>p, <1>t DEF RxTypes, RxSlot
  <2> QED
    BY <2>2, <2>3 DEF Slot
<1>11. ASSUME NEW k \in 0..RxLen - 2
       PROVE  /\ Same(k, 1)
              /\ Slot(k)'.el = IF k + 1 = RxLen - 1 THEN FALSE ELSE Slot(k + 1).el
  <2>1. k + 1 \in 0..RxLen - 1 /\ k + 1 \in 0..RxLen /\ k \in 0..RxLen - 1 /\ k + 1 # 0 /\ 0 \in 0..RxLen - 1
        /\ RxLen - 1 \in 0..RxLen - 1
    BY <1>p
  <2>2. RxIx(k)' = RxIx(k + 1) /\ RxIx(k + 1) \in RxSlot
    BY <2>1, <1>9, <1>p
  <2>3. RxIx(k + 1) # drv.rx
    BY <2>1, <1>p, <1>t, RxDistinct
  <2>4. (RxIx(k + 1) = last) = (k + 1 = RxLen - 1)
    BY <2>1, <1>7, <1>t, RxDistinct
  <2>5. rxd'[RxIx(k + 1)] = IF RxIx(k + 1) = last THEN [rxd[last] EXCEPT !.el = FALSE] ELSE rxd[RxIx(k + 1)]
    BY <2>2, <2>3, <1>1, <1>t DEF RxTypes
  <2>6. Slot(k)' = IF k + 1 = RxLen - 1 THEN [Slot(k + 1) EXCEPT !.el = FALSE] ELSE Slot(k + 1)
    BY <2>2, <2>4, <2>5 DEF Slot
  <2>7. Slot(k + 1) \in RxRec
    BY <2>1, <1>t, SlotTypes
  <2> QED
    BY <2>6, <2>7 DEF Same, RxRec
<1>12. Moves(1)
  <2>1. \A k \in 0..RxLen - 1 - 1 : k \in 0..RxLen - 2
    BY <1>p
  <2>2. \A k \in RxLen - 1..RxLen - 1 : k = RxLen - 1
    BY <1>p
  <2> QED
    BY <2>1, <2>2, <1>1, <1>f, <1>p, <1>9, <1>10, <1>11 DEF Moves, CleanSlot
<1>13. RxShape(d - 1)' /\ d - 1 \in 0..RxLen
  BY <1>1, <1>3, <1>6, <1>12, ShapeMoves
<1>14. RxEnds'
  <2> SUFFICES ASSUME NEW k \in 0..RxLen - 1, Slot(k)'.own PROVE Slot(k)'.el = (k = RxLen - 1)
    BY <1>1 DEF RxEnds
  <2>1. CASE k = RxLen - 1
    BY <2>1, <1>10, <1>f
  <2>2. CASE k # RxLen - 1
    <3>1. k \in 0..RxLen - 2 /\ k + 1 \in 0..RxLen - 1
      BY <2>2, <1>p
    <3>2. Slot(k + 1).own /\ Slot(k)'.el = IF k + 1 = RxLen - 1 THEN FALSE ELSE Slot(k + 1).el
      BY <3>1, <1>11 DEF Same
    <3>3. Slot(k + 1).el = (k + 1 = RxLen - 1)
      BY <3>1, <3>2, <1>1, <1>2 DEF RxInv, RxEnds
    <3> QED
      BY <3>2, <3>3, <2>2
  <2> QED
    BY <2>1, <2>2
<1>15. Started'
  BY <1>8 DEF Started
<1> QED
  BY <1>13, <1>14, <1>15 DEF RxInv, StoppedRx

\* The driver restarts a receive unit that has come to the end of its list.
LEMMA RestartRx ==
  ASSUME Base, RxInv, EeproRestart
  PROVE  RxInv'
<1>t. DrvTypes /\ RxTypes
  BY DEF Base
<1>1. /\ Scanned /\ rx_pos' = drv.rx /\ device = "i8255x" /\ device' = device /\ lock = "none"
      /\ UNCHANGED <<rx, frames, taken, rxd, rx_end>> /\ drv' = [drv EXCEPT !.read = {}]
  BY DEF EeproRestart, Eepro, NoAccess, memVars
<1>2. drv'.rx = drv.rx /\ drv'.pc = "scan" /\ drv.pc = "scan"
  BY <1>1, <1>t DEF DrvTypes, DrvState, Scanned
<1>3. Started /\ Started'
  BY <1>2 DEF Started
<1>p. /\ RxLen \in Nat \ {0} /\ Slot(0) = rxd[drv.rx] /\ RxIx(0) = drv.rx
      /\ \A k \in 0..RxLen : RxAt(k) = RxIx(k)
  BY <1>t, RxPlaces
<1>4. rx.pc = "idle"
  BY <1>1 DEF Base, LockInv
<1>5. PICK d \in 0..RxLen : RxShape(d)
  BY <1>3 DEF RxInv
<1>6. d = 0
  <2> SUFFICES ASSUME d > 0 PROVE Complete
    BY <1>1, <1>p DEF Scanned
  <2>1. PICK b \in 0..d - 1 : Whole(0, b)
    BY <1>5, <1>p, FirstFrame DEF RxShape
  <2>2. b \in 0..b /\ 0 \in 0..b /\ b + 1 \in 1..RxLen /\ (b + 1) - 1 = b /\ b \in 0..RxLen
    BY <1>p
  <2>3. ~Slot(0).own /\ Slot(b).enp
    BY <2>1, <2>2 DEF Whole, FrameUnit
  <2>4. rxd[RxAt((b + 1) - 1)] = Slot(b)
    BY <2>2, <1>p DEF Slot
  <2>5. \E k \in 1..RxLen : rxd[RxAt(k - 1)].enp
    BY <2>2, <2>3, <2>4
  <2> QED
    BY <2>3, <2>5, <1>p DEF Complete
<1>7. \A k : RxIx(k)' = RxIx(k) /\ Slot(k)' = Slot(k)
  BY <1>1, <1>2, SlotsKept
<1>8. Resting(0) /\ RxFront(0)
  BY <1>4, <1>5, <1>6 DEF RxShape, FillingRing, FillingLvg, FillingEepro
<1>9. Resting(0)'
  <2>1. Clean(0)'
    BY <1>7, <1>8 DEF Resting, Clean, CleanSlot
  <2> QED
    BY <2>1, <1>1, <1>4, <1>7, <1>p DEF Resting
<1>10. RxFront(0)'
  <2>1. LastId' = LastId /\ LastId \in Int
    BY <1>1, <1>t DEF LastId, RxTypes
  <2> QED
    BY <2>1, <1>1, <1>8, <1>p, <1>t, FrontKept DEF RxTypes
<1>11. RxEnds'
  BY <1>1, <1>3, <1>7 DEF RxInv, RxEnds
<1> QED
  BY <1>3, <1>9, <1>10, <1>11, <1>p DEF RxInv, StoppedRx, RxShape

\* The rings are given to the device.
LEMMA FreshRxShape ==
  ASSUME Base, RxInv, drv.pc = "prepared", drv'.rx = drv.rx, drv'.pc = "idle",
         UNCHANGED <<device, rx, frames, taken>>, rx_pos' = 0,
         \A k \in 0..RxLen - 1 : CleanSlot(k)',
         device = "i8254x" => rx_end' = RxLen - 1,
         device = "i8255x" => \A k \in RxSlot : rxd'[k].el = (k = RxLen - 1)
  PROVE  RxInv'
<1>t. DrvTypes /\ RxTypes /\ RxLen \in Nat \ {0}
  BY Sizes DEF Base
<1>1. ~Started /\ Started'
  BY DEF Started
<1>2. drv.rx = 0 /\ taken <= frames /\ rx.pc = "idle" /\ frames \in Nat /\ taken \in Nat
  BY <1>1, <1>t DEF RxInv, StoppedRx, RxTypes
<1>3. \A k \in 0..RxLen - 1 : RxIx(k)' = k
  BY <1>2, <1>t DEF RxIx, Ix
<1>4. 0 \in 0..RxLen - 1 /\ RxLen - 1 \in 0..RxLen - 1 /\ 0 \in 0..RxLen /\ 0..0 - 1 = {}
  BY <1>t
<1>5. LastId' = frames
  BY <1>2 DEF LastId
<1>6. RxFront(0)'
  BY <1>2, <1>4, <1>5 DEF RxFront, Framed, Ordered
<1>7. Resting(0)'
  <2>1. Clean(0)'
    BY DEF Clean
  <2> QED
    BY <2>1, <1>2, <1>3, <1>4, <1>t DEF Resting
<1>8. RxEnds'
  BY <1>3, <1>4, <1>t DEF RxEnds, Slot, RxSlot
<1> QED
  BY <1>1, <1>4, <1>6, <1>7, <1>8 DEF RxInv, StoppedRx, RxShape

\* Giving fresh rings to the device sets it up.
LEMMA StartsRx ==
  ASSUME Base, RxInv, Starts
  PROVE  RxInv'
<1>t. drv \in DrvState /\ RxLen \in Nat \ {0} /\ rxd \in [RxSlot -> RxRec] /\ DrvTypes
  BY Sizes DEF Base, DrvTypes, RxTypes
<1> USE DEF NoAccess, NoDevice, NoRegs, regVars, memVars, Access
<1>1. CASE DrvPrepare
  <2>1. drv' = [DrvStopped EXCEPT !.pc = "prepared"] /\ drv.pc = "stopped" /\ drv'.pc = "prepared"
        /\ rxd' = [i \in RxSlot |-> FreshRx] /\ UNCHANGED <<device, rx, rx_pos, frames, taken>> /\ drv'.rx = 0
    BY <1>1 DEF DrvPrepare, DrvStopped
  <2> QED
    BY <2>1 DEF RxInv, StoppedRx, Started
<1>f. /\ FreshRx.own = TRUE /\ FreshRx.stp = FALSE /\ FreshRx.enp = FALSE /\ FreshRx.err = FALSE
      /\ FreshRx.el = FALSE
  BY DEF FreshRx
<1>p. drv.pc = "prepared" =>
        ~Started /\ rx_pos = 0 /\ drv.rx = 0 /\ rxd = [i \in RxSlot |-> FreshRx]
  BY DEF Started, RxInv, StoppedRx
<1>x. ASSUME drv'.rx = 0 PROVE \A k \in 0..RxLen - 1 : RxIx(k)' \in RxSlot /\ Slot(k)' = rxd'[RxIx(k)']
  BY <1>x, <1>t DEF RxIx, Ix, Slot, RxSlot
<1>3. ASSUME drv.pc = "prepared", drv'.pc = "idle", drv'.rx = drv.rx, UNCHANGED <<device, rx, rxd, frames, taken>>,
             device # "i8255x", rx_pos' = 0, device = "i8254x" => rx_end' = RxLen - 1
      PROVE  RxInv'
  <2>1. \A k \in 0..RxLen - 1 : Slot(k)' = FreshRx
    BY <1>3, <1>p, <1>x
  <2>2. \A k \in 0..RxLen - 1 : CleanSlot(k)'
    BY <2>1, <1>f DEF CleanSlot
  <2> QED
    BY <2>2, <1>3, FreshRxShape
<1>4. CASE \E mode \in Mode : AmStart(mode)
  <2>1. PICK mode \in Mode : AmStart(mode)
    BY <1>4
  <2>2. drv' = [drv EXCEPT !.pc = "idle", !.read = {}] /\ drv.pc = "prepared" /\ device = "am79c971"
        /\ UNCHANGED <<device, rx, rxd, frames, taken>>
    BY <2>1 DEF AmStart, Am
  <2>3. drv'.pc = "idle" /\ drv'.rx = drv.rx
    BY <2>2, <1>t DEF DrvState
  <2>4. rx_pos' = rx_pos
    BY <2>1 DEF AmStart, WriteCsr0
  <2> QED
    BY <2>2, <2>3, <2>4, <1>3, <1>p
<1>5. CASE MuesStart \/ PosStart \/ LvgStart
  <2>2. drv' = [drv EXCEPT !.pc = "idle", !.read = {}] /\ drv.pc = "prepared"
        /\ UNCHANGED <<device, rx, rxd, frames, taken>> /\ rx_pos' = 0
        /\ (device = "i8254x" => rx_end' = RxLen - 1) /\ device # "i8255x"
    BY <1>5 DEF MuesStart, PosStart, LvgStart, Mues, Pos, Lvg
  <2>3. drv'.pc = "idle" /\ drv'.rx = drv.rx
    BY <2>2, <1>t DEF DrvState
  <2> QED
    BY <2>2, <2>3, <1>3
<1>6. CASE DecStart
  <2>2. drv' = [drv EXCEPT !.pc = "idle", !.tx = 1 % TxLen, !.used = 1] /\ drv.pc = "prepared"
        /\ UNCHANGED <<device, rx, rxd, frames, taken>> /\ rx_pos' = 0 /\ device = "dec21140"
    BY <1>6 DEF DecStart, Dec
  <2>3. drv'.pc = "idle" /\ drv'.rx = drv.rx
    BY <2>2, <1>t DEF DrvState
  <2> QED
    BY <2>2, <2>3, <1>3
<1>7. CASE EeproStart
  <2>2. drv' = [drv EXCEPT !.pc = "idle"] /\ drv.pc = "prepared" /\ device = "i8255x"
        /\ UNCHANGED <<device, rx, frames, taken>> /\ rx_pos' = 0
        /\ rxd' = [rxd EXCEPT ![RxLen - 1].el = TRUE]
    BY <1>7 DEF EeproStart, Eepro
  <2>3. drv'.pc = "idle" /\ drv'.rx = drv.rx
    BY <2>2, <1>t DEF DrvState
  <2>4. \A i \in RxSlot : rxd[i] = FreshRx
    BY <2>2, <1>p
  <2>7. \A i \in RxSlot : rxd'[i] = IF i = RxLen - 1 THEN [rxd[i] EXCEPT !.el = TRUE] ELSE rxd[i]
    BY <2>2, <1>t
  <2>5. \A i \in RxSlot : /\ rxd'[i].own = TRUE /\ rxd'[i].stp = FALSE /\ rxd'[i].enp = FALSE
                          /\ rxd'[i].err = FALSE /\ rxd'[i].el = (i = RxLen - 1)
    <3> TAKE i \in RxSlot
    <3>1. rxd[i] = FreshRx /\ rxd[i] \in RxRec
      BY <2>4, <1>t
    <3>2. CASE i = RxLen - 1
      <4>1. rxd'[i] = [rxd[i] EXCEPT !.el = TRUE]
        BY <2>7, <3>2
      <4>2. /\ rxd'[i].own = rxd[i].own /\ rxd'[i].stp = rxd[i].stp /\ rxd'[i].enp = rxd[i].enp
            /\ rxd'[i].err = rxd[i].err /\ rxd'[i].el = TRUE
        BY <4>1, <3>1 DEF RxRec
      <4> QED
        BY <4>2, <3>1, <3>2, <1>f
    <3>3. CASE i # RxLen - 1
      BY <2>7, <3>1, <3>3, <1>f
    <3> QED
      BY <3>2, <3>3
  <2>6. \A k \in 0..RxLen - 1 : CleanSlot(k)'
    BY <2>2, <2>3, <2>5, <1>p, <1>x DEF CleanSlot
  <2> QED
    BY <2>2, <2>3, <2>5, <2>6, FreshRxShape
<1> QED
  BY <1>1, <1>4, <1>5, <1>6, <1>7 DEF Starts

\* Stopping the Am79c971 with the handler at rest leaves nothing half done.
LEMMA AmStopRx ==
  ASSUME Base, RxInv, ~LateReceive, AmStop
  PROVE  RxInv'
<1>1. drv' = [drv EXCEPT !.pc = "stopped"] /\ device = "am79c971" /\ taken' = frames /\ lock = "none"
      /\ UNCHANGED <<rx, frames>> /\ rx_pos' = 0 /\ rx.pc # "checked"
  BY DEF AmStop, NoAccess, WriteCsr0
<1>2. drv'.pc = "stopped" /\ frames \in Nat
  BY <1>1 DEF Base, DrvTypes, DrvState, RxTypes
<1>3. rx.pc = "idle"
  BY <1>1 DEF Base, LockInv
<1> QED
  BY <1>1, <1>2, <1>3 DEF RxInv, StoppedRx, Started

-----------------------------------------------------------------------------
\* Steps of the driver that are not about frames.
LEMMA RxKeptByDriver ==
  ASSUME RxInv, Started, Started', UNCHANGED <<device, rx, rx_pos, rx_end, rxd, frames, taken>>,
         drv'.rx = drv.rx, ("RU_READY" \in ctl') = ("RU_READY" \in ctl)
  PROVE  RxInv'
BY RxKept

\* The other steps of the driver leave the ring alone.
LEMMA ElsewhereRx ==
  ASSUME Base, RxInv,
         \/ Queues \/ Interrupts \/ Acks \/ DrvDone \/ DrvReclaim \/ EeproComplete
         \/ \E mode \in Mode : AmMode(mode)
  PROVE  RxInv'
<1>k. drv \in DrvState /\ drv.read \in SUBSET Cause
  BY DEF Base, DrvTypes, DrvState
<1> USE DEF NoAccess, NoDevice, NoRegs, regVars, memVars, Access
<1> DEFINE Keeps ==
      /\ Started /\ Started' /\ UNCHANGED <<device, rx, rx_pos, rx_end, rxd, frames, taken>>
      /\ drv'.rx = drv.rx /\ ("RU_READY" \in ctl') = ("RU_READY" \in ctl)
<1>1. CASE Queues
  <2>1. PICK n \in 1..MaxUnit :
          AmQueue(n) \/ DecQueue(n) \/ MuesQueue(n) \/ PosQueue(n) \/ LvgQueue(n) \/ EeproCommand(n)
    BY <1>1 DEF Queues
  <2>2. CASE AmQueue(n) \/ DecQueue(n) \/ MuesQueue(n) \/ PosQueue(n) \/ LvgQueue(n)
    <3>1. Queue(n, FALSE) /\ UNCHANGED <<rx_pos, rx_end, ctl>>
      BY <2>2 DEF AmQueue, DecQueue, MuesQueue, PosQueue, LvgQueue
    <3>2. drv' = [drv EXCEPT !.tx = TxAt(n), !.used = @ + n] /\ drv.pc = "idle"
      BY <3>1 DEF Queue
    <3>3. drv'.pc = "idle" /\ drv'.rx = drv.rx
      BY <3>2, <1>k DEF DrvState
    <3>4. Keeps
      BY <3>1, <3>2, <3>3 DEF Queue, Started
    <3> QED
      BY <3>4, RxKeptByDriver
  <2>3. CASE EeproCommand(n)
    <3>2. drv' = [drv EXCEPT !.tx = (drv.tx + 1) % TxLen, !.used = @ + 1, !.pc = "command"] /\ drv.pc = "idle"
      BY <2>3 DEF EeproCommand
    <3>3. drv'.pc = "command" /\ drv'.rx = drv.rx
      BY <3>2, <1>k DEF DrvState
    <3>4. UNCHANGED <<device, rx, rx_pos, rx_end, rxd, frames, taken>> /\ ctl' = ctl \cup {"CU_SUSPEND"}
      BY <2>3 DEF EeproCommand
    <3>5. Keeps
      BY <3>2, <3>3, <3>4 DEF Started
    <3> QED
      BY <3>5, RxKeptByDriver
  <2> QED
    BY <2>1, <2>2, <2>3
<1>2. CASE AmInterrupt \/ DecInterrupt \/ MuesInterrupt \/ PosInterrupt \/ EeproInterrupt
  <2>1. Interrupted
    BY <1>2 DEF AmInterrupt, DecInterrupt, MuesInterrupt, PosInterrupt, EeproInterrupt
  <2>2. drv' = [drv EXCEPT !.pc = "ack", !.read = status] /\ drv.pc = "idle"
    BY <2>1 DEF Interrupted
  <2>3. drv'.pc = "ack" /\ drv'.rx = drv.rx
    BY <2>2, <1>k DEF DrvState
  <2>4. Keeps
    BY <2>1, <2>2, <2>3 DEF Interrupted, Started
  <2> QED
    BY <2>4, RxKeptByDriver
<1>3. CASE LvgReadIcr
  <2>2. drv' = [drv EXCEPT !.pc = "scan", !.read = {}] /\ drv.pc = "idle"
    BY <1>3 DEF LvgReadIcr
  <2>3. drv'.pc = "scan" /\ drv'.rx = drv.rx
    BY <2>2, <1>k DEF DrvState
  <2>4. Keeps
    BY <1>3, <2>2, <2>3 DEF LvgReadIcr, Started
  <2> QED
    BY <2>4, RxKeptByDriver
<1>4. CASE AmAck
  <2>2. drv' = [drv EXCEPT !.pc = "scan", !.read = {}] /\ drv.pc = "ack"
    BY <1>4 DEF AmAck
  <2>3. drv'.pc = "scan" /\ drv'.rx = drv.rx
    BY <2>2, <1>k DEF DrvState
  <2>5. "STOP" \notin drv.read /\ "INIT" \notin drv.read /\ "STRT" \notin drv.read
    BY <1>k DEF Cause, AmCause, DecCause, LvgCause, EeproCause, MuesCause
  <2>6. UNCHANGED <<rx_pos, rx_end>> /\ ctl' = ctl \cup ((drv.read \cup {"IENA"}) \cap {"IENA"})
    BY <1>4, <2>5 DEF AmAck, WriteCsr0, AmUpdateIrq
  <2>7. UNCHANGED <<device, rx, rxd, frames, taken>>
    BY <1>4 DEF AmAck, Am
  <2>8. ("RU_READY" \in ctl') = ("RU_READY" \in ctl)
    BY <2>6
  <2>4. Keeps
    BY <2>2, <2>3, <2>6, <2>7, <2>8 DEF Started
  <2> QED
    BY <2>4, RxKeptByDriver
<1>5. CASE MuesAck \/ PosAck \/ DecAckWrite
  <2>2. drv' = [drv EXCEPT !.pc = "scan", !.read = {}] /\ drv.pc \in {"ack", "clear"}
    BY <1>5 DEF MuesAck, PosAck, DecAckWrite
  <2>3. drv'.pc = "scan" /\ drv'.rx = drv.rx
    BY <2>2, <1>k DEF DrvState
  <2>4. Keeps
    BY <1>5, <2>2, <2>3 DEF MuesAck, PosAck, DecAckWrite, Started
  <2> QED
    BY <2>4, RxKeptByDriver
<1>6. CASE EeproAck
  <2>2. drv' = [drv EXCEPT !.pc = "scan", !.read = @ \cap {"RNR"}] /\ drv.pc = "ack"
    BY <1>6 DEF EeproAck
  <2>3. drv'.pc = "scan" /\ drv'.rx = drv.rx
    BY <2>2, <1>k DEF DrvState
  <2>4. Keeps
    BY <1>6, <2>2, <2>3 DEF EeproAck, Started
  <2> QED
    BY <2>4, RxKeptByDriver
<1>7. CASE DecAckRead
  <2>2. drv' = [drv EXCEPT !.pc = "clear", !.read = status \ drv.read] /\ drv.pc = "ack"
    BY <1>7 DEF DecAckRead
  <2>3. drv'.pc = "clear" /\ drv'.rx = drv.rx
    BY <2>2, <1>k DEF DrvState
  <2>4. Keeps
    BY <1>7, <2>2, <2>3 DEF DecAckRead, Started
  <2> QED
    BY <2>4, RxKeptByDriver
<1>8. CASE DrvDone \/ DrvReclaim
  <2>2. drv' \in {[drv EXCEPT !.pc = "idle"], [drv EXCEPT !.used = @ - 1]} /\ drv.pc = "scan"
    BY <1>8 DEF DrvDone, DrvReclaim, Scanned
  <2>3. drv'.pc \in {"idle", "scan"} /\ drv'.rx = drv.rx
    BY <2>2, <1>k DEF DrvState
  <2>4. Keeps
    BY <1>8, <2>2, <2>3 DEF DrvDone, DrvReclaim, Started
  <2> QED
    BY <2>4, RxKeptByDriver
<1>9. CASE EeproComplete
  <2>2. drv' = [drv EXCEPT !.pc = "idle"] /\ drv.pc = "command"
    BY <1>9 DEF EeproComplete
  <2>3. drv'.pc = "idle" /\ drv'.rx = drv.rx
    BY <2>2, <1>k DEF DrvState
  <2>4. Keeps
    BY <1>9, <2>2, <2>3 DEF EeproComplete, Started
  <2> QED
    BY <2>4, RxKeptByDriver
<1>10. CASE \E mode \in Mode : AmMode(mode)
  <2>1. PICK mode \in Mode : AmMode(mode)
    BY <1>10
  <2>2. drv' = [drv EXCEPT !.pc = "idle", !.read = {}] /\ drv.pc = "idle"
    BY <2>1 DEF AmMode
  <2>3. drv'.pc = "idle" /\ drv'.rx = drv.rx
    BY <2>2, <1>k DEF DrvState
  <2>5. mode \subseteq {"DRX", "DTX"}
    BY NicsAssumption DEF AmAssumption
  <2>6. ("RU_READY" \in ctl') = ("RU_READY" \in ctl)
    BY <2>1, <2>5 DEF AmMode, OnBits
  <2>4. Keeps
    BY <2>1, <2>2, <2>3, <2>6 DEF AmMode, Started
  <2> QED
    BY <2>4, RxKeptByDriver
<1> QED
  BY <1>1, <1>2, <1>3, <1>4, <1>5, <1>6, <1>7, <1>8, <1>9, <1>10 DEF Interrupts, Acks

\* No frame is done or in progress at the start.
LEMMA RxInvInit == Init => RxInv
<1> SUFFICES ASSUME Init PROVE RxInv
  OBVIOUS
<1>1. ~Started /\ drv.pc # "prepared"
  BY DEF Init, RingInit, DrvStopped, Started
<1>2. rx.pc = "idle" /\ rx_pos = 0 /\ taken <= frames
  BY DEF Init, RingInit, RxIdle
<1> QED
  BY <1>1, <1>2 DEF RxInv, StoppedRx

\* Every step keeps the receive invariant.
LEMMA RxInvStep == ASSUME Base, RxInv, ~LateReceive, [Next]_nicVars PROVE RxInv'
<1>1. CASE Arrivals
  BY <1>1, ArrivalsRx
<1>2. CASE RxThread
  BY <1>2, RxThreadRx
<1>3. CASE TxBegins \/ TxThread
  <2>1. TxOnly
    BY <1>3, TxAlone
  <2> QED
    BY <2>1, RxKept DEF TxOnly, Started
<1>4. CASE Driver
  <2>1. CASE Scans
    BY <2>1, TakeRx, EeproTakeRx, RestartRx, ElsewhereRx DEF Scans
  <2> QED
    BY <1>4, <2>1, StartsRx, AmStopRx, ElsewhereRx DEF Driver
<1>5. CASE Still
  BY <1>5, RxKept DEF Still, regVars, memVars, ghostVars, Started
<1> QED
  BY <1>1, <1>2, <1>3, <1>4, <1>5, Steps

(* What the driver finds in its receive ring is one frame, its units in order *)
(* and all there, or cut off and marked so (am79c971_receive_pkt,             *)
(* dev_dec21140_receive_pkt and their like), for rings and frames of every    *)
(* size, as long as the Am79c971 is not stopped while a receive handler that  *)
(* has checked the mode waits for the lock.                                   *)
THEOREM NicsFrameReadable == ~LateReceive => (Spec => []FrameReadable)
<1> SUFFICES ASSUME ~LateReceive PROVE Spec => []FrameReadable
  OBVIOUS
<1>1. Init => Base /\ RxInv
  BY BaseInit, RxInvInit
<1>2. Base /\ RxInv /\ [Next]_nicVars => Base' /\ RxInv'
  BY BaseStep, RxInvStep
<1>3. Base /\ RxInv => FrameReadable
  BY Readable
<1> QED
  BY <1>1, <1>2, <1>3, PTL DEF Spec

-----------------------------------------------------------------------------
(* The interrupt line.                                                      *)

\* The threads of the device have nothing left to raise, and there is
\* something for the driver.
Quiet == rx.pc \in {"idle", "checked"} /\ tx.pc \in {"idle", "single"}
Waiting == ~rxd[drv.rx].own \/ (drv.used > 0 /\ ~txd[Oldest].own)

\* Interrupts are on while the driver runs; the line of the i8255x is up while
\* it has a cause; and the end of the receive list is a cause, or the driver
\* knows of it.
Armed ==
  /\ Started /\ device = "am79c971" => "IENA" \in ctl
  /\ Started /\ device = "i8254x" => "IMS" \in ctl
  /\ device = "i8255x" /\ status # {} => irq
  /\ Started /\ device = "i8255x" /\ "RU_READY" \notin ctl =>
       "RNR" \in status \/ (drv.pc \in {"ack", "scan"} /\ "RNR" \in drv.read)

Raised == device # "dec21140" /\ drv.pc = "idle" /\ Quiet /\ Waiting => irq
NoticeInv == Armed /\ Raised

\* Steps of the other devices keep what the i8255x does not need.
LEMMA ArmedOther ==
  ASSUME Armed, device # "i8255x", device' = device, Started' => Started,
         device = "am79c971" /\ "IENA" \in ctl => "IENA" \in ctl',
         device = "i8254x" /\ "IMS" \in ctl => "IMS" \in ctl'
  PROVE  Armed'
BY DEF Armed

\* So do steps that leave the causes and the line alone.
LEMMA ArmedKept ==
  ASSUME Armed, device' = device, Started' => Started, status' = status, irq' = irq,
         \A b \in {"IENA", "IMS", "RU_READY"} : b \in ctl => b \in ctl',
         device = "i8255x" /\ drv.pc \in {"ack", "scan"} /\ "RNR" \in drv.read
           => (drv'.pc \in {"ack", "scan"} /\ "RNR" \in drv'.read) \/ "RU_READY" \in ctl'
                \/ "RNR" \in status
  PROVE  Armed'
<1>1. Started' /\ device' = "am79c971" => "IENA" \in ctl'
  BY DEF Armed
<1>2. Started' /\ device' = "i8254x" => "IMS" \in ctl'
  BY DEF Armed
<1>3. device' = "i8255x" /\ status' # {} => irq'
  BY DEF Armed
<1>4. Started' /\ device' = "i8255x" /\ "RU_READY" \notin ctl' =>
        "RNR" \in status' \/ (drv'.pc \in {"ack", "scan"} /\ "RNR" \in drv'.read)
  BY DEF Armed
<1> QED
  BY <1>1, <1>2, <1>3, <1>4 DEF Armed

\* What the driver waits for was announced already.
LEMMA RaisedKept ==
  ASSUME Raised, device' = device, drv'.pc = "idle" => drv.pc = "idle", Quiet' => Quiet,
         Waiting' => Waiting, irq' = irq
  PROVE  Raised'
BY DEF Raised

\* The rings and the driver stay.
LEMMA WaitingKept ==
  ASSUME drv' = drv, rxd' = rxd, txd' = txd
  PROVE  Waiting' = Waiting
BY DEF Waiting, Oldest

\* The i8254x runs, and raises its line for any cause.
LEMMA LvgRaises ==
  ASSUME Armed, Started, device = "i8254x", NEW c, c # {}, LvgUpdateIrq(c)
  PROVE  irq'
BY DEF Armed, LvgUpdateIrq

\* A frame that comes, or is lost for want of a descriptor (LvgRxRing).
LEMMA ArrivalsNotice ==
  ASSUME Base, NoticeInv, Arrivals
  PROVE  NoticeInv'
<1>1. RxOnly
  BY ArrivalsAlone
<1>2. UNCHANGED <<device, drv, tx, txd>> /\ Armed /\ Raised
  BY <1>1 DEF RxOnly, NoticeInv
<1>3. Started' = Started
  BY <1>2 DEF Started
<1>4. PICK n \in 1..MaxUnit :
        AmRxCheck(n) \/ MuesRxRing(n) \/ DecRxRing(n) \/ PosRxRing(n) \/ LvgRxRing \/ EeproRxRing(n)
  BY DEF Arrivals
<1> USE DEF NoRegs, regVars
<1>5. rxd' = rxd /\ ctl' = ctl /\ rx.pc = "idle"
  BY <1>4 DEF AmRxCheck, MuesRxRing, DecRxRing, PosRxRing, LvgRxRing, EeproRxRing, Arrive
<1>6. Waiting' = Waiting /\ (Quiet' => Quiet)
  BY <1>2, <1>5, WaitingKept DEF Quiet
<1>7. CASE status' = status /\ irq' = irq
  <2>1. Armed'
    BY <1>2, <1>3, <1>5, <1>7, ArmedKept
  <2>2. Raised'
    BY <1>2, <1>6, <1>7, RaisedKept
  <2> QED
    BY <2>1, <2>2 DEF NoticeInv
<1>8. CASE LvgRxRing /\ LvgUpdateIrq(status \cup {"RXO"})
  <2>1. device = "i8254x" /\ "RCTL_EN" \in ctl
    BY <1>8 DEF LvgRxRing, Lvg
  <2>2. Started
    BY <2>1 DEF Base, CtlInv, RunBits
  <2>3. irq'
    BY <1>2, <1>8, <2>1, <2>2, LvgRaises
  <2>4. Armed'
    BY <1>2, <1>3, <1>5, <2>1, ArmedOther
  <2> QED
    BY <2>3, <2>4 DEF NoticeInv, Raised
<1>9. (status' = status /\ irq' = irq) \/ (LvgRxRing /\ LvgUpdateIrq(status \cup {"RXO"}))
  <2>1. CASE LvgRxRing
    BY <2>1 DEF LvgRxRing
  <2>2. CASE ~LvgRxRing
    BY <1>4, <2>2 DEF AmRxCheck, MuesRxRing, DecRxRing, PosRxRing, EeproRxRing
  <2> QED
    BY <2>1, <2>2
<1> QED
  BY <1>7, <1>8, <1>9

\* The scanner starts on a packet: there is more to raise.
LEMMA TxBeginsNotice ==
  ASSUME Base, NoticeInv, TxBegins
  PROVE  NoticeInv'
<1>1. TxOnly /\ tx \in TxState
  BY TxAlone DEF Base, TxTypes
<1>2. UNCHANGED <<device, drv, rx, rxd, ctl>> /\ Armed /\ Raised
  BY <1>1 DEF TxOnly, NoticeInv
<1>3. Started' = Started
  BY <1>2 DEF Started
<1> USE DEF NoRegs, regVars
<1>4. status' = status /\ irq' = irq
  BY DEF TxBegins, AmTxSingle, DecTxSingle, MuesTxSingle, PosTxRing, LvgTxSingle
<1>5. tx' = TxBegin \/ \E pc \in {"clear", "copy"} : tx' = [TxBegin EXCEPT !.pc = pc]
  BY DEF TxBegins, AmTxSingle, DecTxSingle, MuesTxSingle, PosTxRing, LvgTxSingle
<1>6. tx'.pc \in {"clear", "copy"}
  <2>1. TxBegin.pc = "copy" /\ \A pc : [TxBegin EXCEPT !.pc = pc].pc = pc
    BY <1>1 DEF TxBegin, TxState
  <2> QED
    BY <1>5, <2>1
<1>7. ~Quiet'
  BY <1>6 DEF Quiet
<1>8. Armed'
  BY <1>2, <1>3, <1>4, ArmedKept
<1> QED
  BY <1>7, <1>8 DEF NoticeInv, Raised

\* A packet that is being copied has its next descriptor: the loop never stops
\* for want of one.
LEMMA CopyGoesOn ==
  ASSUME Base, TxInv, Started, device \in Ring, NEW next, NEW unlocked, RingCopy(next, unlocked),
         \/ next \in {AmTxNext, DecTxNext, PosTxNext}
         \/ next = MuesNext(tx_pos, tx_end) /\ device = "mueslix"
  PROVE  tx'.pc \in {"send", "copy"}
<1>t. DrvTypes /\ TxTypes
  BY DEF Base
<1>1. tx.pc = "copy" /\ sent \in Nat /\ device # "i8255x" /\ device # "i8254x"
  BY DEF RingCopy, TxInv, Ring
<1>2. PICK c \in 0..drv.used, t \in 0..drv.used : TxShape(c, t)
  BY <1>1 DEF TxInv
<1>3. /\ t \in 0..TxLen - 1 /\ tx_pos = TxIx(t)
      /\ ~Desc(t).enp => t + 1 < drv.used /\ Desc(t + 1).own
  BY <1>1, <1>2, CopyAt
<1>4. tx.cur = TxIx(t)
  BY <1>1, <1>2 DEF TxShape, TxCopying
<1>5. next = TxIx(t + 1)
  <2>2. /\ TxIx(t + 1) = IF TxIx(t) + 1 = TxLen THEN 0 ELSE TxIx(t) + 1
        /\ TxIx(t + 1) = IF TxIx(t) = TxLen - 1 THEN 0 ELSE TxIx(t) + 1
    BY <1>3, <1>t, TxNextPlace
  <2>3. device = "mueslix" => tx_end = IF "mode1" \in ctl THEN TxLen - 1 ELSE TxLen
    BY DEF Base, MuesEnds
  <2>4. AmTxNext = TxIx(t + 1) /\ DecTxNext = TxIx(t + 1) /\ PosTxNext = TxIx(t + 1)
    BY <1>3, <2>2 DEF AmTxNext, DecTxNext, PosTxNext
  <2>5. device = "mueslix" => MuesNext(tx_pos, tx_end) = TxIx(t + 1)
    BY <1>3, <2>2, <2>3 DEF MuesNext
  <2> QED
    BY <2>4, <2>5
<1>6. Desc(t).enp \/ txd'[next].own
  <2> SUFFICES ASSUME ~Desc(t).enp PROVE txd'[next].own
    OBVIOUS
  <2>1. t + 1 < drv.used /\ Desc(t + 1).own /\ drv.used \in 0..TxLen /\ TxLen \in Nat
    BY <1>3, <1>t, TxPlaces
  <2>2. t + 1 \in 0..TxLen - 1 /\ t + 1 # t
    BY <2>1, <1>3
  <2>3. TxIx(t + 1) # TxIx(t) /\ TxIx(t + 1) \in TxSlot
    BY <2>2, <1>3, <1>t, TxDistinct, TxPlaces
  <2>4. txd' = [txd EXCEPT ![tx.cur].own = txd[tx.cur].stp]
    BY DEF RingCopy
  <2>5. txd'[next] = txd[next]
    BY <2>3, <2>4, <1>4, <1>5, <1>t DEF TxTypes
  <2> QED
    BY <2>1, <2>5, <1>5 DEF Desc
<1>7. txd[tx.cur].enp \/ txd'[next].own
  BY <1>4, <1>6 DEF Desc
<1>8. tx' = [tx EXCEPT !.pc = IF txd[tx.cur].enp THEN "send" ELSE "copy", !.cur = next,
                       !.pkt = Append(@, txd[tx.cur].buf)]
  BY <1>7 DEF RingCopy
<1> QED
  BY <1>8, <1>t DEF TxTypes, TxState

\* It raises the line when it gives a packet back.
LEMMA TxThreadNotice ==
  ASSUME Base, TxInv, NoticeInv, TxThread
  PROVE  NoticeInv'
<1>1. TxOnly /\ tx \in TxState /\ Started /\ Started' /\ device # "i8255x"
  BY TxAlone, TxRuns DEF Base, TxTypes
<1>2. UNCHANGED <<device, drv, rx, rxd, ctl>> /\ Armed /\ Raised
  BY <1>1 DEF TxOnly, NoticeInv
<1>3. Armed'
  BY <1>1, <1>2, ArmedOther
<1> SUFFICES Raised'
  BY <1>3 DEF NoticeInv
<1> USE DEF NoRegs, regVars
<1>4. CASE AmTxUnlock \/ DecTxRingEnds \/ MuesTxRingEnds \/ LvgTxRingEnds
  <2>1. tx.pc = "single" /\ UNCHANGED <<txd, irq>>
    BY <1>4 DEF AmTxUnlock, DecTxRingEnds, MuesTxRingEnds, LvgTxRingEnds, RingPassEnds
  <2>2. Waiting' = Waiting /\ (Quiet' => Quiet)
    BY <1>2, <2>1, WaitingKept DEF Quiet
  <2> QED
    BY <1>2, <2>1, <2>2, RaisedKept
<1>5. CASE AmTxRaise \/ MuesTxRaise \/ PosTxRaise \/ LvgTxRaise
  <2>1. CASE AmTxRaise
    BY <2>1, <1>1, <1>2 DEF AmTxRaise, Am, AmUpdateIrq, Armed, Raised
  <2>2. CASE MuesTxRaise
    BY <2>2 DEF MuesTxRaise, MuesUpdateIrq, Raised
  <2>3. CASE PosTxRaise
    BY <2>3 DEF PosTxRaise, Raised
  <2>4. CASE LvgTxRaise
    <3>1. device = "i8254x"
          /\ LvgUpdateIrq(status \cup {"TXDW"} \cup IF tx_pos = tx_end THEN {"TXQE"} ELSE {})
      BY <2>4 DEF LvgTxRaise, Lvg
    <3>2. irq'
      BY <3>1, <1>1, <1>2, LvgRaises
    <3> QED
      BY <3>2 DEF Raised
  <2> QED
    BY <1>5, <2>1, <2>2, <2>3, <2>4
<1>6. CASE Dec
  BY <1>2, <1>6 DEF Dec, Raised
<1>b. tx'.pc \in {"send", "copy", "clear", "raise"} => Raised'
  BY DEF Raised, Quiet
<1>7. ASSUME RingSend("clear") \/ RingSend("raise") \/ RingClear PROVE Raised'
  <2>1. \E pc \in {"clear", "raise"} : \E pkt : tx' = [tx EXCEPT !.pc = pc, !.pkt = pkt]
        \/ tx' = [tx EXCEPT !.pc = "raise"]
    BY <1>7 DEF RingSend, RingClear
  <2>2. tx'.pc \in {"clear", "raise"}
    BY <2>1, <1>1 DEF TxState
  <2> QED
    BY <2>2, <1>b
<1>8. CASE AmTxCopy
  <2>1. RingCopy(AmTxNext, "none") /\ device \in Ring
    BY <1>8 DEF AmTxCopy, Am, Ring
  <2> QED
    BY <2>1, <1>1, <1>b, CopyGoesOn
<1>9. CASE MuesTransmit
  <2>1. device \in Ring /\ device = "mueslix"
        /\ (RingCopy(MuesNext(tx_pos, tx_end), "none") \/ RingSend("clear") \/ RingClear)
    BY <1>9 DEF MuesTransmit, Mues, Ring
  <2> QED
    BY <2>1, <1>1, <1>7, <1>b, CopyGoesOn
<1>10. CASE PosTransmit
  <2>1. device \in Ring /\ (RingCopy(PosTxNext, "none") \/ RingSend("clear") \/ RingClear)
    BY <1>10 DEF PosTransmit, Pos, Ring
  <2> QED
    BY <2>1, <1>1, <1>7, <1>b, CopyGoesOn
<1>11. CASE LvgTxCopy
  <2>1. \E pc \in {"send", "raise", "copy"} : \E pkt : tx' = [tx EXCEPT !.pc = pc, !.pkt = pkt]
    BY <1>11 DEF LvgTxCopy
  <2>2. tx'.pc \in {"send", "raise", "copy"}
    BY <2>1, <1>1 DEF TxState
  <2> QED
    BY <2>2, <1>b
<1>12. CASE AmTxSend \/ AmTxClear \/ LvgTxSend
  <2>1. RingSend("clear") \/ RingSend("raise") \/ RingClear
    BY <1>12 DEF AmTxSend, AmTxClear, LvgTxSend
  <2> QED
    BY <2>1, <1>7
<1>13. CASE DecTransmit \/ DecTxRead \/ DecTxRaise
  BY <1>13, <1>6 DEF DecTransmit, DecTxRead, DecTxRaise
<1> QED
  BY <1>4, <1>5, <1>8, <1>9, <1>10, <1>11, <1>12, <1>13 DEF TxThread

\* So does the receive handler, with a frame.
LEMMA RxThreadNotice ==
  ASSUME Base, RxInv, NoticeInv, RxThread
  PROVE  NoticeInv'
<1>1. RxOnly /\ rx \in RxState
  BY RxThreadAlone DEF Base, RxTypes
<1>2. UNCHANGED <<device, drv, tx, txd>> /\ Armed /\ Raised
  BY <1>1 DEF RxOnly, NoticeInv
<1>3. Started' = Started
  BY <1>2 DEF Started
<1> USE DEF NoRegs, regVars
<1>r. rx.pc # "idle" => Started
  BY DEF RxInv, StoppedRx
<1>4. CASE AmRxLock
  <2>1. rx.pc = "checked" /\ UNCHANGED <<rxd, irq, status, ctl>>
    BY <1>4 DEF AmRxLock
  <2>2. Waiting' = Waiting /\ (Quiet' => Quiet)
    BY <1>2, <2>1, WaitingKept DEF Quiet
  <2>3. Raised'
    BY <1>2, <2>1, <2>2, RaisedKept
  <2>4. Armed'
    BY <1>2, <1>3, <2>1, ArmedKept
  <2> QED
    BY <2>3, <2>4 DEF NoticeInv
<1>b. ASSUME rx'.pc \notin {"idle", "checked"}, UNCHANGED <<irq, status, ctl>> PROVE NoticeInv'
  <2>1. Raised'
    BY <1>b DEF Raised, Quiet
  <2>2. Armed'
    BY <1>2, <1>3, <1>b, ArmedKept
  <2> QED
    BY <2>1, <2>2 DEF NoticeInv
<1>5. CASE \/ AmRxPut \/ AmRxCount \/ LvgRxPut \/ LvgRxLength \/ LvgRxStatus \/ EeproRxPut \/ EeproRxCtrl
           \/ EeproRxSize \/ RingPut \/ DecRxRead \/ \E len, marks : RingFinal(len, marks)
  <2>1. UNCHANGED <<irq, status, ctl>>
    BY <1>5 DEF AmRxPut, AmRxCount, LvgRxPut, LvgRxLength, LvgRxStatus, EeproRxPut,
       EeproRxCtrl,
                EeproRxSize, RingPut, DecRxRead, RingFinal
  <2>2. \/ \E pc \in {"mark", "length", "ctrl"} : rx' = [rx EXCEPT !.pc = pc, !.unit = @ + 1]
        \/ \E pc \in {"final", "status", "raise", "size"} : rx' = [rx EXCEPT !.pc = pc]
        \/ rx' = [rx EXCEPT !.pc = "update", !.copy = status]
    BY <1>5 DEF AmRxPut, AmRxCount, LvgRxPut, LvgRxLength, LvgRxStatus, EeproRxPut,
       EeproRxCtrl,
                EeproRxSize, RingPut, DecRxRead, RingFinal
  <2>3. rx'.pc \notin {"idle", "checked"}
    BY <2>2, <1>1 DEF RxState
  <2> QED
    BY <2>1, <2>3, <1>b
<1>6. CASE AmRxMark \/ \E next, len, marks : RingMark(next, len, marks)
  <2>1. UNCHANGED <<irq, status, ctl>>
    BY <1>6 DEF AmRxMark, RingMark
  <2>2. PICK next, pc : pc \in {"count", "final"} /\ rx' = RxMarked(next, pc)
    BY <1>6 DEF AmRxMark, RingMark
  <2>3. rx'.pc \in {"put", "count", "final"}
    BY <2>2, <1>1 DEF RxState, RxMarked
  <2> QED
    BY <2>1, <2>3, <1>b
<1>7. CASE AmRxRaise
  <2>1. device = "am79c971" /\ rx.pc = "raise" /\ irq' = (status \cup {"RINT"} # {} /\ "IENA" \in ctl)
        /\ ctl' = ctl
    BY <1>7 DEF AmRxRaise, Am, AmUpdateIrq
  <2>2. irq'
    BY <2>1, <1>2, <1>r DEF Armed
  <2>3. Armed'
    BY <2>1, <1>2, <1>3, ArmedOther
  <2> QED
    BY <2>2, <2>3 DEF NoticeInv, Raised
<1>8. CASE MuesRxRaise
  <2>1. device = "mueslix" /\ irq' /\ ctl' = ctl
    BY <1>8 DEF MuesRxRaise, Mues, MuesUpdateIrq
  <2>3. Armed'
    BY <2>1, <1>2, <1>3, ArmedOther
  <2> QED
    BY <2>1, <2>3 DEF NoticeInv, Raised
<1>9. CASE PosRxRaise
  <2>1. device = "pos" /\ irq' /\ ctl' = ctl
    BY <1>9 DEF PosRxRaise, Pos
  <2>3. Armed'
    BY <2>1, <1>2, <1>3, ArmedOther
  <2> QED
    BY <2>1, <2>3 DEF NoticeInv, Raised
<1>10. CASE LvgRxRaise
  <2>1. device = "i8254x" /\ LvgUpdateIrq(status \cup {"RXT0"}) /\ rx.pc = "raise" /\ ctl' = ctl
    BY <1>10 DEF LvgRxRaise, Lvg
  <2>2. irq'
    BY <2>1, <1>2, <1>r, LvgRaises
  <2>3. Armed'
    BY <2>1, <1>2, <1>3, ArmedOther
  <2> QED
    BY <2>2, <2>3 DEF NoticeInv, Raised
<1>11. CASE DecRxRaise
  <2>1. device = "dec21140" /\ ctl' = ctl
    BY <1>11 DEF DecRxRaise, Dec
  <2>3. Armed'
    BY <2>1, <1>2, <1>3, ArmedOther
  <2> QED
    BY <2>1, <1>2, <2>3 DEF NoticeInv, Raised
<1>12. CASE EeproRxRaise
  <2>1. device = "i8255x" /\ device' = device /\ drv' = drv
        /\ status' = status \cup {"FR"} \cup (IF "EL" \in rx.copy THEN {"RNR"} ELSE {})
        /\ irq' = (status' # {})
        /\ IF "EL" \in rx.copy THEN ctl' = ctl \ {"RU_READY"} ELSE ctl' = ctl
    BY <1>2, <1>12 DEF EeproRxRaise, Eepro, EeproUpdateIrq
  <2>2. status' # {} /\ irq'
    BY <2>1
  <2>3. Started' /\ "RU_READY" \notin ctl' =>
          "RNR" \in status' \/ (drv'.pc \in {"ack", "scan"} /\ "RNR" \in drv'.read)
    <3>1. CASE "EL" \in rx.copy
      BY <3>1, <2>1
    <3>2. CASE "EL" \notin rx.copy
      BY <3>2, <2>1, <1>2, <1>3 DEF Armed
    <3> QED
      BY <3>1, <3>2
  <2>4. Armed'
    BY <2>1, <2>2, <2>3 DEF Armed
  <2> QED
    BY <2>2, <2>4 DEF NoticeInv, Raised
<1>13. CASE AmRxFinal \/ DecReceive \/ MuesReceive \/ PosReceive
  <2>1. \/ RingPut \/ \E len, marks : RingFinal(len, marks)
        \/ \E next, len, marks : RingMark(next, len, marks)
    BY <1>13 DEF AmRxFinal, DecReceive, MuesReceive, PosReceive
  <2> QED
    BY <2>1, <1>5, <1>6
<1> QED
  BY <1>4, <1>5, <1>6, <1>7, <1>8, <1>9, <1>10, <1>11, <1>12, <1>13 DEF RxThread

\* A driver that found no frame has its descriptor in the device's hands, if
\* the receive handler is at rest.
LEMMA ScannedRx ==
  ASSUME Base, RxInv, Started, Quiet, ~Complete
  PROVE  rxd[drv.rx].own
<1>t. DrvTypes
  BY DEF Base
<1>p. /\ RxLen \in Nat \ {0} /\ Slot(0) = rxd[drv.rx]
      /\ \A k \in 0..RxLen : RxAt(k) = RxIx(k)
  BY <1>t, RxPlaces
<1>1. PICK d \in 0..RxLen : RxShape(d)
  BY DEF RxInv
<1>2. d = 0
  <2> SUFFICES ASSUME d > 0 PROVE Complete
    OBVIOUS
  <2>1. PICK b \in 0..d - 1 : Whole(0, b)
    BY <1>1, <1>p, FirstFrame DEF RxShape
  <2>2. b \in 0..b /\ 0 \in 0..b /\ b + 1 \in 1..RxLen /\ (b + 1) - 1 = b /\ b \in 0..RxLen
    BY <1>p
  <2>3. ~Slot(0).own /\ Slot(b).enp
    BY <2>1, <2>2 DEF Whole, FrameUnit
  <2>4. rxd[RxAt((b + 1) - 1)] = Slot(b)
    BY <2>2, <1>p DEF Slot
  <2>5. \E k \in 1..RxLen : rxd[RxAt(k - 1)].enp
    BY <2>2, <2>3, <2>4
  <2> QED
    BY <2>3, <2>5, <1>p DEF Complete
<1>3. rx.pc # "size"
  BY DEF Quiet
<1> QED
  BY <1>1, <1>2, <1>3, <1>p, <1>t, NoFrame

\* A packet queued is not one to reclaim.
LEMMA QueuesNotice ==
  ASSUME Base, NoticeInv, Queues
  PROVE  NoticeInv'
<1>k. drv \in DrvState /\ DrvTypes
  BY DEF Base, DrvTypes
<1>i. Armed /\ Raised
  BY DEF NoticeInv
<1> USE DEF NoAccess, NoDevice, NoRegs, regVars, memVars, Access
<1>1. PICK n \in 1..MaxUnit :
        AmQueue(n) \/ DecQueue(n) \/ MuesQueue(n) \/ PosQueue(n) \/ LvgQueue(n) \/ EeproCommand(n)
  BY DEF Queues
<1>2. CASE AmQueue(n) \/ DecQueue(n) \/ MuesQueue(n) \/ PosQueue(n) \/ LvgQueue(n)
  <2>1. Queue(n, FALSE) /\ UNCHANGED <<status, ctl, irq, device, rx, tx, rxd>>
    BY <1>2 DEF AmQueue, DecQueue, MuesQueue, PosQueue, LvgQueue, Queue
  <2>2. drv' = [drv EXCEPT !.tx = TxAt(n), !.used = @ + n] /\ drv.pc = "idle"
    BY <2>1 DEF Queue
  <2>3. drv'.pc = "idle" /\ drv'.rx = drv.rx
    BY <2>2, <1>k DEF DrvState
  <2>4. Started /\ Started'
    BY <2>2, <2>3 DEF Started
  <2>q. FALSE \in BOOLEAN
    OBVIOUS
  <2>5. /\ drv'.used = drv.used + n /\ drv.used + n \in 0..TxLen /\ n \in Nat /\ n > 0
        /\ \A e : TxIx(e)' = TxIx(e)
        /\ \A e \in 0..TxLen - 1 : e \notin drv.used..drv.used + n - 1 => Desc(e)' = Desc(e)
        /\ \A e \in drv.used..drv.used + n - 1 : Desc(e)'.own
    <3>1. \A e \in drv.used..drv.used + n - 1 :
              Desc(e)' = [own |-> TRUE, stp |-> e = drv.used, enp |-> e = drv.used + n - 1, s |-> FALSE,
                          buf |-> [id |-> queued + 1, unit |-> e - drv.used + 1, of |-> n]]
      BY <2>1, <2>q, QueuePlaces
    <3>2. \A e \in drv.used..drv.used + n - 1 : Desc(e)'.own
      BY <3>1
    <3> QED
      BY <2>1, <2>q, <3>2, QueuePlaces
  <2>6. drv.used \in 0..TxLen /\ TxLen \in Nat /\ TxIx(0) = Oldest
    BY <1>k, TxPlaces
  <2>7. TxIx(0)' = Oldest'
    <3>1. drv.tx \in 0..TxLen - 1 /\ n \in 0..TxLen /\ drv'.tx = TxAt(n) /\ TxLen - drv'.used \in 0..TxLen
      BY <1>k, <2>2, <2>5, <2>6 DEF DrvState, TxSlot
    <3>2. drv'.tx \in 0..TxLen - 1
      BY <3>1, <2>6, ModIx, IxSlot DEF TxAt
    <3>3. (drv'.tx + (TxLen - drv'.used)) % TxLen = TxFirst' /\ TxFirst' \in 0..TxLen - 1
      BY <3>1, <3>2, <2>6, ModIx, IxSlot DEF TxFirst
    <3>4. drv'.tx + (TxLen - drv'.used) = drv'.tx + TxLen - drv'.used
      BY <3>1, <3>2, <2>5, <2>6
    <3>5. Oldest' = TxFirst'
      BY <3>3, <3>4 DEF Oldest
    <3>6. TxIx(0)' = Ix(TxFirst', 0, TxLen)
      BY DEF TxIx
    <3> QED
      BY <3>3, <3>5, <3>6, <2>6, IxZero
  <2>8. txd[Oldest] = Desc(0) /\ txd'[Oldest'] = Desc(0)'
    <3>1. Desc(0)' = txd'[TxIx(0)']
      BY DEF Desc
    <3> QED
      BY <2>6, <2>7, <3>1 DEF Desc
  <2>9. ~txd'[Oldest'].own => drv.used > 0 /\ ~txd[Oldest].own
    <3>1. CASE drv.used = 0
      BY <3>1, <2>5, <2>6, <2>8
    <3>2. CASE drv.used > 0
      <4>1. 0 \in 0..TxLen - 1 /\ 0 \notin drv.used..drv.used + n - 1
        BY <3>2, <2>5, <2>6
      <4> QED
        BY <3>2, <4>1, <2>5, <2>8
    <3> QED
      BY <3>1, <3>2, <2>6
  <2>10. (Waiting' => Waiting) /\ (Quiet' => Quiet)
    BY <2>1, <2>3, <2>9 DEF Waiting, Quiet
  <2>11. Raised'
    BY <1>i, <2>1, <2>2, <2>10, RaisedKept
  <2>12. Armed'
    BY <1>i, <2>1, <2>2, <2>4, ArmedKept
  <2> QED
    BY <2>11, <2>12 DEF NoticeInv
<1>3. CASE EeproCommand(n)
  <2>1. UNCHANGED <<status, irq, device>> /\ device = "i8255x" /\ ctl' = ctl \cup {"CU_SUSPEND"} /\ drv.pc = "idle"
    BY <1>3 DEF EeproCommand, Eepro
  <2>2. drv' = [drv EXCEPT !.tx = (drv.tx + 1) % TxLen, !.used = @ + 1, !.pc = "command"]
    BY <1>3 DEF EeproCommand
  <2>3. drv'.pc = "command"
    BY <2>2, <1>k DEF DrvState
  <2>4. Started /\ Started'
    BY <2>1, <2>3 DEF Started
  <2>5. Armed'
    BY <1>i, <2>1, <2>4, ArmedKept
  <2> QED
    BY <2>3, <2>5 DEF NoticeInv, Raised
<1> QED
  BY <1>1, <1>2, <1>3

\* A step of the driver that does not end at rest has only the causes to keep.
LEMMA BusyNotice ==
  ASSUME NoticeInv, drv'.pc # "idle", Armed'
  PROVE  NoticeInv'
BY DEF NoticeInv, Raised

\* The rings are fresh when the device is started.
LEMMA StartsNotice ==
  ASSUME Base, TxInv, RxInv, NoticeInv, Starts
  PROVE  NoticeInv'
<1>k. drv \in DrvState /\ DrvTypes /\ rxd \in [RxSlot -> RxRec] /\ 0 \in RxSlot
  BY Sizes DEF Base, DrvTypes, RxTypes
<1>i. Armed /\ Raised
  BY DEF NoticeInv
<1> USE DEF NoAccess, NoDevice, NoRegs, regVars, memVars, Access
<1>1. CASE DrvPrepare
  <2>1. drv' = [DrvStopped EXCEPT !.pc = "prepared"] /\ UNCHANGED <<device, status, irq, ctl>>
    BY <1>1 DEF DrvPrepare
  <2>2. drv'.pc = "prepared"
    BY <2>1 DEF DrvStopped
  <2>3. ~Started'
    BY <2>2 DEF Started
  <2>4. Armed'
    BY <1>i, <2>1, <2>3 DEF Armed
  <2> QED
    BY <2>2, <2>4, BusyNotice
<1>f. ASSUME drv.pc = "prepared" PROVE drv.used = 0 /\ drv.rx = 0 /\ rxd[0].own /\ ~Started
  <2>1. ~Started
    BY <1>f DEF Started
  <2>2. rxd = [i \in RxSlot |-> FreshRx] /\ drv = [DrvStopped EXCEPT !.pc = "prepared"]
    BY <1>f, <2>1 DEF TxInv, StoppedTx, RxInv, StoppedRx
  <2> QED
    BY <2>1, <2>2, <1>k DEF DrvStopped, FreshRx
<1>2. CASE (\E mode \in Mode : AmStart(mode)) \/ MuesStart \/ PosStart \/ LvgStart
  <2>1. drv.pc = "prepared" /\ drv' = [drv EXCEPT !.pc = "idle", !.read = {}] /\ UNCHANGED <<rxd, device>>
    BY <1>2 DEF AmStart, Am, MuesStart, PosStart, LvgStart
  <2>2. drv'.rx = 0 /\ drv'.used = 0
    BY <2>1, <1>f, <1>k DEF DrvState
  <2>3. ~Waiting'
    BY <2>1, <2>2, <1>f DEF Waiting
  <2>4. device # "i8255x" /\ (device = "i8254x" => ctl' = LvgControl)
    BY <1>2 DEF AmStart, Am, MuesStart, PosStart, LvgStart, Mues, Pos, Lvg
  <2>5. device = "am79c971" => "IENA" \in ctl'
    <3> SUFFICES ASSUME device = "am79c971", NEW mode \in Mode, AmStart(mode) PROVE "IENA" \in ctl'
      BY <1>2 DEF MuesStart, PosStart, LvgStart, Mues, Pos, Lvg
    <3> QED
      BY DEF AmStart, WriteCsr0, AmUpdateIrq, OnBits
  <2>6. Armed'
    BY <2>1, <2>4, <2>5 DEF Armed, LvgControl
  <2> QED
    BY <2>3, <2>6 DEF NoticeInv, Raised
<1>3. CASE DecStart
  <2>1. device = "dec21140" /\ device' = device
    BY <1>3 DEF DecStart, Dec
  <2> QED
    BY <2>1 DEF NoticeInv, Armed, Raised
<1>4. CASE EeproStart
  <2>1. drv.pc = "prepared" /\ drv' = [drv EXCEPT !.pc = "idle"] /\ device = "i8255x"
        /\ UNCHANGED <<device, status, irq>> /\ ctl' = {"RU_READY"}
        /\ rxd' = [rxd EXCEPT ![RxLen - 1].el = TRUE]
    BY <1>4 DEF EeproStart, Eepro
  <2>2. drv'.rx = 0 /\ drv'.used = 0
    BY <2>1, <1>f, <1>k DEF DrvState
  <2>3. rxd'[0].own
    BY <2>1, <1>f, <1>k DEF RxRec
  <2>4. ~Waiting'
    BY <2>2, <2>3 DEF Waiting
  <2>5. Armed'
    BY <1>i, <2>1 DEF Armed
  <2> QED
    BY <2>4, <2>5 DEF NoticeInv, Raised
<1> QED
  BY <1>1, <1>2, <1>3, <1>4 DEF Starts

\* The driver is interrupted, acknowledges and looks through its rings.
LEMMA DriverNotice ==
  ASSUME Base, NoticeInv,
         \/ Interrupts \/ Acks \/ AmTake \/ DecTake \/ MuesTake \/ PosTake \/ LvgTake \/ EeproTake
         \/ EeproRestart \/ DrvReclaim
  PROVE  NoticeInv'
<1>k. drv \in DrvState /\ drv.read \in SUBSET Cause
  BY DEF Base, DrvTypes, DrvState
<1>i. Armed /\ Raised
  BY DEF NoticeInv
<1> USE DEF NoAccess, NoDevice, NoRegs, regVars, memVars, Access
<1>1. CASE AmInterrupt \/ DecInterrupt \/ MuesInterrupt \/ PosInterrupt \/ EeproInterrupt
  <2>1. Interrupted
    BY <1>1 DEF AmInterrupt, DecInterrupt, MuesInterrupt, PosInterrupt, EeproInterrupt
  <2>2. drv' = [drv EXCEPT !.pc = "ack", !.read = status] /\ drv.pc = "idle"
        /\ UNCHANGED <<device, status, ctl, irq>>
    BY <2>1 DEF Interrupted
  <2>3. drv'.pc = "ack"
    BY <2>2, <1>k DEF DrvState
  <2>4. Started /\ Started'
    BY <2>2, <2>3 DEF Started
  <2>5. Armed'
    BY <1>i, <2>2, <2>4, ArmedKept
  <2> QED
    BY <2>3, <2>5, BusyNotice
<1>2. CASE LvgReadIcr
  <2>2. drv' = [drv EXCEPT !.pc = "scan", !.read = {}] /\ drv.pc = "idle" /\ device = "i8254x"
        /\ UNCHANGED <<device, ctl>>
    BY <1>2 DEF LvgReadIcr, Lvg
  <2>3. drv'.pc = "scan"
    BY <2>2, <1>k DEF DrvState
  <2>4. Started /\ Started'
    BY <2>2, <2>3 DEF Started
  <2>5. Armed'
    BY <1>i, <2>2, <2>4, ArmedOther
  <2> QED
    BY <2>3, <2>5, BusyNotice
<1>3. CASE AmAck
  <2>2. drv' = [drv EXCEPT !.pc = "scan", !.read = {}] /\ drv.pc = "ack" /\ device = "am79c971"
        /\ device' = device
    BY <1>3 DEF AmAck, Am
  <2>3. drv'.pc = "scan"
    BY <2>2, <1>k DEF DrvState
  <2>4. Started /\ Started'
    BY <2>2, <2>3 DEF Started
  <2>5. "STOP" \notin drv.read
    BY <1>k DEF Cause, AmCause, DecCause, LvgCause, EeproCause, MuesCause
  <2>6. "IENA" \in ctl'
    BY <1>3, <2>5 DEF AmAck, WriteCsr0, AmUpdateIrq, OnBits
  <2>7. Armed'
    BY <1>i, <2>2, <2>4, <2>6, ArmedOther
  <2> QED
    BY <2>3, <2>7, BusyNotice
<1>4. CASE MuesAck \/ PosAck \/ DecAckWrite \/ DecAckRead
  <2>2. drv' \in {[drv EXCEPT !.pc = "scan", !.read = {}],
                  [drv EXCEPT !.pc = "clear", !.read = status \ drv.read]}
        /\ drv.pc \in {"ack", "clear"} /\ device \in {"mueslix", "pos", "dec21140"} /\ device' = device
    BY <1>4 DEF MuesAck, PosAck, DecAckWrite, DecAckRead, Mues, Pos, Dec
  <2>3. drv'.pc \in {"scan", "clear"}
    BY <2>2, <1>k DEF DrvState
  <2>4. Started /\ Started'
    BY <2>2, <2>3 DEF Started
  <2>5. Armed'
    BY <1>i, <2>2, <2>4, ArmedOther
  <2> QED
    BY <2>3, <2>5, BusyNotice
<1>5. CASE EeproAck
  <2>2. drv' = [drv EXCEPT !.pc = "scan", !.read = @ \cap {"RNR"}] /\ drv.pc = "ack" /\ device = "i8255x"
        /\ UNCHANGED <<device, ctl>> /\ status' = status \ drv.read /\ irq' = (status \ drv.read # {})
    BY <1>5 DEF EeproAck, Eepro, EeproUpdateIrq
  <2>3. drv'.pc = "scan" /\ drv'.read = drv.read \cap {"RNR"}
    BY <2>2, <1>k DEF DrvState
  <2>4. Started
    BY <2>2 DEF Started
  <2>5. "RU_READY" \notin ctl' => "RNR" \in status' \/ "RNR" \in drv'.read
    BY <1>i, <2>2, <2>3, <2>4 DEF Armed
  <2>6. Armed'
    BY <2>2, <2>3, <2>5 DEF Armed
  <2> QED
    BY <2>3, <2>6, BusyNotice
<1>6. CASE AmTake \/ DecTake \/ MuesTake \/ PosTake \/ LvgTake \/ EeproTake \/ DrvReclaim
  <2>2. /\ drv' \in {[drv EXCEPT !.rx = RxAt(FrameLen)], [drv EXCEPT !.rx = (@ + 1) % RxLen],
                     [drv EXCEPT !.used = @ - 1]}
        /\ drv.pc = "scan"
    BY <1>6 DEF AmTake, DecTake, MuesTake, PosTake, LvgTake, EeproTake, DrvReclaim, Take
  <2>1. UNCHANGED <<device, status, ctl, irq>>
    BY <1>6 DEF AmTake, DecTake, MuesTake, PosTake, LvgTake, EeproTake, DrvReclaim, Take
  <2>3. drv'.pc = "scan" /\ drv'.read = drv.read
    BY <2>2, <1>k DEF DrvState
  <2>4. Started /\ Started'
    BY <2>2, <2>3 DEF Started
  <2>5. Armed'
    BY <1>i, <2>1, <2>2, <2>3, <2>4, ArmedKept
  <2> QED
    BY <2>3, <2>5, BusyNotice
<1>7. CASE EeproRestart
  <2>2. drv' = [drv EXCEPT !.read = {}] /\ drv.pc = "scan" /\ UNCHANGED <<device, status, irq>>
        /\ ctl' = ctl \cup {"RU_READY"}
    BY <1>7 DEF EeproRestart, Scanned
  <2>3. drv'.pc = "scan"
    BY <2>2, <1>k DEF DrvState
  <2>4. Started /\ Started'
    BY <2>2, <2>3 DEF Started
  <2>5. Armed'
    BY <1>i, <2>2, <2>4, ArmedKept
  <2> QED
    BY <2>3, <2>5, BusyNotice
<1> QED
  BY <1>1, <1>2, <1>3, <1>4, <1>5, <1>6, <1>7 DEF Interrupts, Acks

\* The driver comes to rest when it has found nothing to do, and when a command
\* is over, which raises the line.
LEMMA DoneNotice ==
  ASSUME Base, RxInv, NoticeInv, EeproComplete \/ (DrvDone /\ "RNR" \notin drv.read)
  PROVE  NoticeInv'
<1>k. drv \in DrvState
  BY DEF Base, DrvTypes
<1>i. Armed /\ Raised
  BY DEF NoticeInv
<1> USE DEF NoAccess, NoDevice, NoRegs, regVars, memVars
<1>1. CASE EeproComplete
  <2>1. drv' = [drv EXCEPT !.pc = "idle"] /\ drv.pc = "command" /\ UNCHANGED <<device, ctl>>
        /\ status' = status \cup {"CX", "CNA"} /\ irq' = (status \cup {"CX", "CNA"} # {})
        /\ device = "i8255x"
    BY <1>1 DEF EeproComplete, Eepro, EeproUpdateIrq
  <2>2. irq'
    BY <2>1
  <2>3. Started
    BY <2>1 DEF Started
  <2>4. "RU_READY" \notin ctl' => "RNR" \in status'
    BY <1>i, <2>1, <2>3 DEF Armed
  <2>5. Armed'
    BY <2>1, <2>2, <2>4 DEF Armed
  <2> QED
    BY <2>2, <2>5 DEF NoticeInv, Raised
<1>2. CASE DrvDone /\ "RNR" \notin drv.read
  <2>1. drv' = [drv EXCEPT !.pc = "idle"] /\ Scanned /\ drv.pc = "scan"
        /\ UNCHANGED <<device, status, ctl, irq, rx, tx, rxd, txd>>
    BY <1>2 DEF DrvDone, Scanned
  <2>2. drv'.pc = "idle" /\ drv'.rx = drv.rx /\ drv'.tx = drv.tx /\ drv'.used = drv.used
    BY <2>1, <1>k DEF DrvState
  <2>3. Started /\ Started'
    BY <2>1, <2>2 DEF Started
  <2>4. Quiet' = Quiet /\ Waiting' = Waiting
    BY <2>1, <2>2 DEF Quiet, Waiting, Oldest
  <2>5. Quiet => ~Waiting
    BY <2>1, <2>3, ScannedRx DEF Scanned, Waiting
  <2>6. Armed'
    BY <1>2, <1>i, <2>1, <2>3, ArmedKept
  <2> QED
    BY <2>4, <2>5, <2>6 DEF NoticeInv, Raised
<1> QED
  BY <1>1, <1>2

\* The Am79c971 is stopped, or its mode changes; and steps that leave both
\* alone.
LEMMA ModeNotice ==
  ASSUME Base, NoticeInv, AmStop \/ (\E mode \in Mode : AmMode(mode)) \/ Still
  PROVE  NoticeInv'
<1>k. drv \in DrvState
  BY DEF Base, DrvTypes
<1>i. Armed /\ Raised
  BY DEF NoticeInv
<1> USE DEF NoAccess, NoDevice, NoRegs, regVars, memVars, Access
<1>1. CASE AmStop
  <2>1. drv' = [drv EXCEPT !.pc = "stopped"] /\ device' = device /\ device = "am79c971"
    BY <1>1 DEF AmStop
  <2>2. drv'.pc = "stopped"
    BY <2>1, <1>k DEF DrvState
  <2>3. ~Started'
    BY <2>2 DEF Started
  <2>4. Armed'
    BY <2>1, <2>3 DEF Armed
  <2> QED
    BY <2>2, <2>4, BusyNotice
<1>2. CASE \E mode \in Mode : AmMode(mode)
  <2>1. PICK mode \in Mode : AmMode(mode)
    BY <1>2
  <2>2. drv' = [drv EXCEPT !.pc = "idle", !.read = {}] /\ drv.pc = "idle" /\ device = "am79c971"
        /\ UNCHANGED <<device, status, irq, rx, tx, rxd, txd>>
    BY <2>1 DEF AmMode
  <2>3. drv'.rx = drv.rx /\ drv'.tx = drv.tx /\ drv'.used = drv.used /\ drv'.pc = "idle"
    BY <2>2, <1>k DEF DrvState
  <2>4. Started' = Started
    BY <2>2, <2>3 DEF Started
  <2>5. "IENA" \in ctl => "IENA" \in ctl'
    BY <2>1 DEF AmMode, OnBits
  <2>6. Armed'
    BY <1>i, <2>2, <2>4, <2>5, ArmedOther
  <2>7. Waiting' = Waiting /\ Quiet' = Quiet
    BY <2>2, <2>3 DEF Waiting, Quiet, Oldest
  <2>8. Raised'
    BY <1>i, <2>2, <2>7, RaisedKept
  <2> QED
    BY <2>6, <2>8 DEF NoticeInv
<1>3. CASE Still
  <2>1. UNCHANGED <<device, status, ctl, irq, rx, tx, rxd, txd, drv>>
    BY <1>3 DEF Still
  <2>2. Waiting' = Waiting /\ Quiet' = Quiet /\ Started' = Started
    BY <2>1 DEF Waiting, Quiet, Oldest, Started
  <2>3. Armed'
    BY <1>i, <2>1, <2>2, ArmedKept
  <2>4. Raised'
    BY <1>i, <2>1, <2>2, RaisedKept
  <2> QED
    BY <2>3, <2>4 DEF NoticeInv
<1> QED
  BY <1>1, <1>2, <1>3

\* Nothing runs at the start.
LEMMA NoticeInit == Init => NoticeInv
<1> SUFFICES ASSUME Init PROVE NoticeInv
  OBVIOUS
<1>1. ~Started /\ drv.pc # "idle" /\ status = {}
  BY DEF Init, RingInit, DrvStopped, Started
<1> QED
  BY <1>1 DEF NoticeInv, Armed, Raised

\* Every step keeps what the line says.
LEMMA NoticeStep ==
  ASSUME Base, TxInv, RxInv, NoticeInv, [Next]_nicVars
  PROVE  NoticeInv'
<1>1. CASE Driver
  <2>1. CASE Scans
    BY <2>1, DriverNotice, DoneNotice DEF Scans
  <2> QED
    BY <1>1, <2>1, QueuesNotice, StartsNotice, DriverNotice, ModeNotice DEF Driver
<1> QED
  BY <1>1, Steps, ArrivalsNotice, RxThreadNotice, TxBeginsNotice, TxThreadNotice, ModeNotice

\* A driver at rest has no cause of its own to look after.
LEMMA LineUp == ASSUME NoticeInv PROVE Announced
<1> SUFFICES ASSUME device # "dec21140", drv.pc = "idle", rx.pc \in {"idle", "checked"},
                    tx.pc \in {"idle", "single"}, Pending
             PROVE  irq
  BY DEF Announced
<1>1. CASE device = "i8255x" /\ "RU_READY" \notin ctl
  <2>1. Started
    BY DEF Started
  <2>2. "RNR" \in status
    BY <1>1, <2>1 DEF NoticeInv, Armed
  <2> QED
    BY <1>1, <2>2 DEF NoticeInv, Armed
<1>2. CASE Waiting
  BY <1>2 DEF NoticeInv, Raised, Quiet
<1> QED
  BY <1>1, <1>2 DEF Pending, Waiting

(* No interrupt is lost: a driver with nothing to do has its line raised when *)
(* there is a frame to take, a packet to reclaim or an i8255x out of receive  *)
(* descriptors, for rings of every size and every way of clearing causes      *)
(* (am79c971_rdp_access, dev_mueslix_update_irq_status, dev_pos_cs_access,     *)
(* dev_i8254x_access), under the same assumption on the Am79c971's stop.      *)
THEOREM NicsAnnounced == ~LateReceive => (Spec => []Announced)
<1> SUFFICES ASSUME ~LateReceive PROVE Spec => []Announced
  OBVIOUS
<1> DEFINE Inv == Base /\ TxInv /\ RxInv /\ NoticeInv
<1>1. Init => Inv
  BY BaseInit, TxInvInit, RxInvInit, NoticeInit
<1>2. Inv /\ [Next]_nicVars => Inv'
  BY BaseStep, TxInvStep, RxInvStep, NoticeStep
<1>3. Inv => Announced
  BY LineUp
<1> HIDE DEF Inv
<1> QED
  BY <1>1, <1>2, <1>3, PTL DEF Spec

=============================================================================
