------------------------------ MODULE Bridges -------------------------------
(***************************************************************************)
(* The ATM bridge (atm_bridge.c) and AAL5 (atm_vsar.c).  A bridge cuts the *)
(* Ethernet frames it gets into cells of a channel; the bridge at the other*)
(* end of the channel puts them together again.  The second bridge comes   *)
(* and goes, and the channel may lose cells and carry foreign ones.  The   *)
(* lock of a bridge makes each handler one step.                           *)
(***************************************************************************)
EXTENDS Circuits

CONSTANTS
  Payload,    \* ATM_PAYLOAD_SIZE: bytes in a cell
  Trailer,    \* ATM_AAL5_TRAILER_SIZE
  Header,     \* ATM_RFC1483B_HLEN
  ReasMax,    \* ATM_REAS_MAX_SIZE
  FrameLens,  \* lengths of Ethernet frames
  MaxFrames,  \* frames sent, also their numbers
  MaxWire     \* cells in the channel

BridgeAssumption ==
  /\ CircuitsAssumption
  /\ Payload \in Nat /\ Trailer \in 1..Payload /\ Header \in Nat
  /\ ReasMax \in Nat /\ FrameLens \subseteq Nat \ {0}

VARIABLES
  conf,       \* eth_nio and atm_nio, as input and output, and who listens to them
  wire,       \* cells under way
  arc,        \* struct atm_reas_context: buffer up to buf_pos
  frames,     \* lengths of the frames sent
  lost,       \* a cell was lost since the end of a frame arrived
  got         \* what came out when the end of a frame arrived

sar == <<wire, arc, frames, lost, got>>
bridgeVars == <<nios, held, failed, conf, sar>>

\* heard: the NIOs netio_rxl_add was successful with.
NoConf == [input |-> NoNetio, output |-> NoNetio, heard |-> {}]
Confs == [input: Netio, output: Netio,
          heard: {{}, {"output"}, {"input", "output"}}]

BridgeTypeOK ==
  /\ HeldTypeOK
  /\ conf \in Confs \cup {NoConf}
  /\ Len(wire) <= MaxWire /\ Len(arc) <= ReasMax
  /\ frames \in Seq(FrameLens) /\ lost \in BOOLEAN

BridgeInit ==
  /\ conf = NoConf
  /\ wire = <<>> /\ arc = <<>> /\ frames = <<>>
  /\ lost = FALSE /\ got = [frame |-> 0, bytes |-> <<>>, whole |-> FALSE]

-----------------------------------------------------------------------------
\* The bytes of frame i of length n, with the RFC 1483 header: a byte is
\* <<frame, position>>, the header's <<0, position>> and padding <<0, 0>>.
Packet(i, n) ==
  [k \in 1..(Header + n) |-> IF k <= Header THEN <<0, k>> ELSE <<i, k - Header>>]

\* Mutant: the trailer always finds room in the cell of the last bytes.
CellCountFull(total) == total \div Payload + 1

\* atm_aal5_send: the last cell holds the trailer; when the bytes left over do
\* not leave room for it, it gets a cell of its own.
CellCount(total) ==
  total \div Payload +
    (IF Payload - (total % Payload) < Trailer THEN 2 ELSE 1)

\* atm_store_fifo, atm_send_fifo, atm_aal5_add_trailer: cell k of the packet.
\* The trailer overwrites the end of the last cell.
Segment(i, n, k) ==
  LET p == Packet(i, n)
      last == k = CellCount(Len(p))
      Byte(j) == LET at == (k - 1) * Payload + j
                 IN IF at > Len(p) \/ (last /\ j > Payload - Trailer)
                    THEN <<0, 0>> ELSE p[at]
  IN [kind |-> IF last THEN "eop" ELSE "data",
      payload |-> [j \in 1..Payload |-> Byte(j)],
      len |-> Len(p), frame |-> i]

\* atm_bridge_recv_pkt, atm_aal5_send_rfc1483b
RecvPkt(n) ==
  LET i == Len(frames) + 1  count == CellCount(Header + n)
  IN /\ i <= MaxFrames /\ Len(wire) + count <= MaxWire
     /\ frames' = Append(frames, n)
     /\ wire' = wire \o [k \in 1..count |-> Segment(i, n, k)]
     /\ UNCHANGED <<arc, lost, got>>

\* A cell of another channel, or one of the network (ATM_PTI_NETWORK).
ForeignCell(kind) ==
  /\ Len(wire) < MaxWire /\ \A k \in DOMAIN wire : wire[k].kind \in {"data", "eop"}
  /\ wire' = Append(wire, [kind |-> kind])
  /\ UNCHANGED <<arc, frames, lost, got>>

\* A cell gets lost.  The end of a frame that is lost leaves the cells of the
\* frame behind, for the next frame.
LoseCell ==
  /\ wire # <<>>
  /\ wire' = Tail(wire)
  /\ lost' = (lost \/ Head(wire).kind \in {"data", "eop"})
  /\ UNCHANGED <<arc, frames, got>>

\* atm_bridge_recv_cell on the packet that was put together; the CRC is not
\* looked at.
Unwrap(buffer, len) ==
  IF len > Header /\ SubSeq(buffer, 1, Header) = [k \in 1..Header |-> <<0, k>>]
  THEN SubSeq(buffer, Header + 1, len) ELSE <<>>

\* atm_aal5_recv looks whether the cell fits before it looks at its kind; a full
\* buffer is reset.
Full == Len(arc) + Payload > ReasMax

\* atm_bridge_recv_cell, atm_aal5_recv
RecvCell ==
  /\ wire # <<>> /\ "output" \in conf.heard
  /\ wire' = Tail(wire)
  /\ UNCHANGED frames
  /\ LET cell == Head(wire)
     IN \/ /\ cell.kind \in {"other", "network"}
           /\ arc' = IF cell.kind = "network" /\ Full THEN <<>> ELSE arc
           /\ UNCHANGED <<lost, got>>
        \/ /\ cell.kind = "data"
           /\ arc' = IF Full THEN <<>> ELSE arc \o cell.payload
           /\ UNCHANGED <<lost, got>>
        \/ /\ cell.kind = "eop"
           /\ LET buffer == arc \o cell.payload
              IN got' = [frame |-> cell.frame, whole |-> ~lost,
                         bytes |-> IF ~Full /\ cell.len <= Len(buffer)
                                   THEN Unwrap(buffer, cell.len) ELSE <<>>]
           /\ arc' = <<>> /\ lost' = FALSE

-----------------------------------------------------------------------------
HeardAt(c, n) == Cardinality({k \in c.heard : c[k] = n})

\* atm_bridge_configure listens to the ATM NIO first.  When netio_rxl_add fails
\* for it, or then for the Ethernet NIO, the call fails but the bridge stays
\* configured, with the listeners it has got.
Configure(c) ==
  /\ conf = NoConf /\ {c.input, c.output} \subseteq nios
  /\ conf' = c
  /\ refs' = Acquire(c)
  /\ rxl' = [n \in Netio |-> rxl[n] + HeardAt(c, n)]
  /\ UNCHANGED <<nios, releasing, failed, sar>>

\* atm_bridge_configure when one NIO does not exist: the other one keeps the
\* reference.  Bounded to once for each NIO.
ConfigureFails(n) ==
  /\ conf = NoConf /\ n \in nios /\ nios # Netio
  /\ n \notin failed
  /\ refs' = [refs EXCEPT ![n] = @ + 1]
  /\ failed' = failed \cup {n}
  /\ UNCHANGED <<nios, releasing, rxl, conf, sar>>

\* atm_bridge_unconfigure, atm_bridge_clear_config: the cells of a frame that
\* is not complete stay in the buffer.
Unconfigure ==
  /\ conf # NoConf
  /\ conf' = NoConf
  /\ refs' = Release(conf)
  /\ rxl' = [n \in Netio |-> Unlisten(n, EndsAt(conf, n))]
  /\ UNCHANGED <<nios, releasing, failed, sar>>

\* atm_bridge_free, atm_bridge_create: another bridge takes its place.
Replace ==
  /\ conf' = NoConf /\ arc' = <<>>
  /\ lost' = (lost \/ arc # <<>>)
  /\ refs' = Release(conf)
  /\ rxl' = [n \in Netio |-> Unlisten(n, EndsAt(conf, n))]
  /\ UNCHANGED <<nios, releasing, failed, wire, frames, got>>

BridgeNext ==
  \/ \E n \in Netio : (NioCreate(n) \/ NioDelete(n)) /\ UNCHANGED <<conf, sar>>
  \/ \E n \in Netio : ConfigureFails(n)
  \/ \E c \in Confs : Configure(c)
  \/ Unconfigure \/ Replace
  \/ /\ UNCHANGED <<nios, held, failed, conf>>
     /\ \/ \E n \in FrameLens : RecvPkt(n)
        \/ \E kind \in {"other", "network"} : ForeignCell(kind)
        \/ LoseCell \/ RecvCell

BridgeSpec == HeldInit /\ BridgeInit /\ [][BridgeNext]_bridgeVars

-----------------------------------------------------------------------------
\* A configured bridge holds a reference of each of its NIOs and listens to those
\* it could be added to, and to no others, although it removes a listener of each;
\* a configuration that failed for want of a NIO keeps a reference.
ConfHeld ==
  \A n \in Netio : /\ rxl[n] = HeardAt(conf, n)
                   /\ refs[n] >= EndsAt(conf, n)
                   /\ n \notin failed => refs[n] = EndsAt(conf, n)

\* When the end of a frame arrives and no cell was lost since the end of the one
\* before, the frame comes out as it was sent, or not at all if it is longer
\* than the buffer: whatever the frames before did to the buffer, whichever
\* cells came in between.  (The CRC is not checked: frames with lost cells do
\* come out, mixed up.)
FrameCarried ==
  got.whole =>
    LET n == frames[got.frame]
    IN got.bytes = IF CellCount(Header + n) * Payload <= ReasMax
                   THEN SubSeq(Packet(got.frame, n), Header + 1, Header + n)
                   ELSE <<>>

-----------------------------------------------------------------------------
(***************************************************************************)
(* The NIO bridge (net_io_bridge.c): what it receives on one NIO it sends  *)
(* to all the others.  Its lock makes each call one step.                  *)
(***************************************************************************)

CONSTANT MaxBridge  \* NETIO_BRIDGE_MAX_NIO

SlotsAssumption == CircuitsAssumption /\ MaxBridge \in Nat

BridgeSlot == 1..MaxBridge

VARIABLE slots  \* netio_bridge: nio[i]

slotsVars == <<nios, held, failed, slots>>

SlotsTypeOK == HeldTypeOK /\ slots \in [BridgeSlot -> Netio \cup {NoNetio}]

SlotsInit == slots = [i \in BridgeSlot |-> NoNetio]

\* netio_bridge_recv_pkt: the NIOs a packet goes out on, with a count for each.
Copies(from, to) == Cardinality({i \in BridgeSlot : slots[i] = to /\ slots[i] # from})

\* The first slot that holds n.
First(n) == CHOOSE i \in BridgeSlot : slots[i] = n /\ \A j \in 1..(i - 1) : slots[j] # n
Holds(n) == \E i \in BridgeSlot : slots[i] = n

\* netio_bridge_add_netio; a NIO may be added more than once.  The result of
\* netio_rxl_add is not looked at.
BridgeAddNetio(n) ==
  /\ n \in nios /\ Holds(NoNetio)
  /\ slots' = [slots EXCEPT ![First(NoNetio)] = n]
  /\ refs' = [refs EXCEPT ![n] = @ + 1]
  /\ \/ rxl' = [rxl EXCEPT ![n] = @ + 1] /\ failed' = failed
     \/ rxl' = rxl /\ failed' = failed \cup {n}
  /\ UNCHANGED <<nios, releasing>>

\* netio_bridge_remove_netio, netio_bridge_free_nio
BridgeRemoveNetio(n) ==
  /\ n \in nios /\ Holds(n)
  /\ slots' = [slots EXCEPT ![First(n)] = NoNetio]
  /\ refs' = [refs EXCEPT ![n] = @ - 1]
  /\ rxl' = [rxl EXCEPT ![n] = Unlisten(n, 1)]
  /\ UNCHANGED <<nios, releasing, failed>>

\* netio_bridge_free; another bridge takes its place.
FreeBridge ==
  /\ slots' = [i \in BridgeSlot |-> NoNetio]
  /\ refs' = [n \in Netio |-> refs[n] - Cardinality({i \in BridgeSlot : slots[i] = n})]
  /\ rxl' = [n \in Netio |-> Unlisten(n, Cardinality({i \in BridgeSlot : slots[i] = n}))]
  /\ UNCHANGED <<nios, releasing, failed>>

SlotsNext ==
  \/ \E n \in Netio : (NioCreate(n) \/ NioDelete(n)) /\ UNCHANGED slots
  \/ \E n \in Netio : BridgeAddNetio(n) \/ BridgeRemoveNetio(n)
  \/ FreeBridge

SlotsSpec == HeldInit /\ SlotsInit /\ [][SlotsNext]_slotsVars

-----------------------------------------------------------------------------
\* A bridge holds a reference of its NIOs for each time a NIO was added, and no
\* more listeners than that; it has as many, so that packets are received as long
\* as the NIO is in a slot, unless one could not be added.  A packet goes to a NIO
\* that is held, never back to its own.
SlotsHeld ==
  \A n \in Netio :
    /\ refs[n] = Cardinality({i \in BridgeSlot : slots[i] = n})
    /\ rxl[n] <= refs[n]
    /\ n \notin failed => rxl[n] = refs[n]
    /\ \A m \in Netio : Copies(n, m) = IF m = n THEN 0 ELSE refs[m]

-----------------------------------------------------------------------------
(***************************************************************************)
(* FIFO NIOs (net_io.c): pairs of queues in one process.  A FIFO points to *)
(* its endpoint, into whose queue it puts the packets it sends; each       *)
(* pointer and each queue has a lock of its own.  crossconnect sets the two*)
(* pointers one after the other, sending holds the lock of the pointer     *)
(* while it uses the endpoint, and a FIFO that is freed clears the pointer *)
(* of its endpoint.  The registry keeps the FIFOs that a caller of         *)
(* crossconnect or a sender has acquired.                                  *)
(***************************************************************************)

CONSTANTS
  FifoNio,    \* FIFO NIOs
  Recross,    \* a FIFO may be cross-connected a second time
  MaxPkt      \* packets in a queue

FifoAssumption ==
  NoNetio \notin FifoNio /\ Recross \in BOOLEAN /\ MaxPkt \in Nat

VARIABLES
  live,       \* FIFOs that exist
  endpoint,   \* nfd->endpoint
  queue,      \* nfd->head to nfd->last: the senders of the packets
  crossing,   \* half-done cross-connects: <<a, b>> when a => b is done
  sending     \* a's sender, with endpoint_lock: the endpoint, or NoNetio

fifoVars == <<live, endpoint, queue, crossing, sending>>

FifoTypeOK ==
  /\ live \in SUBSET FifoNio
  /\ endpoint \in [FifoNio -> FifoNio \cup {NoNetio}]
  /\ queue \in [FifoNio -> Seq(FifoNio)]
  /\ crossing \in SUBSET (FifoNio \X FifoNio)
  /\ sending \in [FifoNio -> FifoNio \cup {NoNetio}]

FifoInit ==
  /\ live = {}
  /\ endpoint = [f \in FifoNio |-> NoNetio]
  /\ queue = [f \in FifoNio |-> <<>>]
  /\ crossing = {}
  /\ sending = [f \in FifoNio |-> NoNetio]

\* netio_desc_create_fifo
Create(f) ==
  /\ f \notin live
  /\ live' = live \cup {f}
  /\ endpoint' = [endpoint EXCEPT ![f] = NoNetio]
  /\ queue' = [queue EXCEPT ![f] = <<>>]
  /\ UNCHANGED <<crossing, sending>>

\* One half of netio_fifo_crossconnect: f => g, with the lock of f's pointer; the
\* queue of f is freed (netio_fifo_free_pkt_list).
Point(f, g) ==
  /\ sending[f] = NoNetio
  /\ endpoint' = [endpoint EXCEPT ![f] = g]
  /\ queue' = [queue EXCEPT ![f] = <<>>]

\* Whether one of f and g is a peer of a third FIFO already.
Taken(f, g) ==
  \/ endpoint[f] \notin {g, NoNetio} \/ endpoint[g] \notin {f, NoNetio}
  \/ \E x \in crossing : {x[1], x[2]} \cap {f, g} \notin {{}, {f, g}}

Crossconnect(f, g) ==
  /\ {f, g} \subseteq live
  /\ Recross \/ (f # g /\ ~Taken(f, g))
  /\ <<f, g>> \notin crossing
  /\ Point(f, g)
  /\ crossing' = crossing \cup {<<f, g>>}
  /\ UNCHANGED <<live, sending>>

CrossconnectBack(f, g) ==
  /\ <<f, g>> \in crossing
  /\ Point(g, f)
  /\ crossing' = crossing \ {<<f, g>>}
  /\ UNCHANGED <<live, sending>>

\* netio_fifo_send up to the look at the endpoint, with endpoint_lock
SendBegin(f) ==
  /\ f \in live /\ sending[f] = NoNetio /\ endpoint[f] # NoNetio
  /\ sending' = [sending EXCEPT ![f] = endpoint[f]]
  /\ UNCHANGED <<live, endpoint, queue, crossing>>

\* netio_fifo_insert_pkt, and the rest of netio_fifo_send
SendEnd(f) ==
  /\ sending[f] # NoNetio /\ Len(queue[sending[f]]) < MaxPkt
  /\ queue' = [queue EXCEPT ![sending[f]] = Append(@, f)]
  /\ sending' = [sending EXCEPT ![f] = NoNetio]
  /\ UNCHANGED <<live, endpoint, crossing>>

\* netio_fifo_recv, netio_fifo_extract_pkt; it sleeps up to 50 ms first.
Recv(f) ==
  /\ f \in live /\ queue[f] # <<>>
  /\ queue' = [queue EXCEPT ![f] = Tail(@)]
  /\ UNCHANGED <<live, endpoint, crossing, sending>>

\* A FIFO that no one uses: its sender's NIO and both FIFOs of a cross-connect
\* are acquired.
Unused(f) == sending[f] = NoNetio /\ \A x \in crossing : f \notin {x[1], x[2]}

\* Mutant: the endpoint keeps its pointer.
FreeBound(f) ==
  /\ f \in live /\ Unused(f)
  /\ live' = live \ {f}
  /\ queue' = [queue EXCEPT ![f] = <<>>]
  /\ UNCHANGED <<endpoint, crossing, sending>>

\* netio_fifo_free; netio_fifo_unbind_endpoint waits for the lock of the pointer
\* of the endpoint, and so for a sender that uses f.
Free(f) ==
  /\ f \in live /\ Unused(f)
  /\ endpoint[f] # NoNetio => sending[endpoint[f]] = NoNetio
  /\ live' = live \ {f}
  /\ endpoint' = [g \in FifoNio |->
                   IF g = endpoint[f] THEN NoNetio ELSE endpoint[g]]
  /\ queue' = [queue EXCEPT ![f] = <<>>]
  /\ UNCHANGED <<crossing, sending>>

FifoNext ==
  \/ \E f \in FifoNio : Create(f) \/ SendBegin(f) \/ SendEnd(f) \/ Recv(f) \/ Free(f)
  \/ \E f, g \in FifoNio : Crossconnect(f, g) \/ CrossconnectBack(f, g)

FifoSpec == FifoInit /\ [][FifoNext]_fifoVars

-----------------------------------------------------------------------------
\* A FIFO that lives points to no FIFO that was freed, so no one sends into the
\* queue of a FIFO that was freed (netio_fifo_send after netio_fifo_free); and
\* it receives what its endpoint sent, never what an earlier one left behind.
FifosPaired ==
  \A f \in live :
    /\ {endpoint[f], sending[f]} \subseteq live \cup {NoNetio}
    /\ endpoint[f] # NoNetio => ToSet(queue[f]) \subseteq {endpoint[f]}
=============================================================================
