------------------------------ MODULE Switches -------------------------------
(***************************************************************************)
(* The virtual switches and bridges: an Ethernet switch (EthSwitch), a     *)
(* Frame Relay or ATM switch (Circuits), an ATM bridge, a NIO bridge or    *)
(* FIFO NIOs (Bridges).  Each has its own lock and NIOs, so a behaviour is *)
(* of one of them; device says of which, the others rest.                  *)
(***************************************************************************)
EXTENDS EthSwitch, Bridges, TLC

CONSTANT Device  \* devices to look at

VARIABLE device

ASSUME SwitchesAssumption ==
  FrAssumption /\ AtmAssumption /\ BridgeAssumption /\ SlotsAssumption /\ FifoAssumption

circuits   == <<nios, releasing, refs, rxl, failed>>
configured == <<conf, wire, arc, frames, lost, got>>
allVars ==
  <<device, vars, circuits, table, tables, configured, slots, fifoVars>>

SwitchesInit ==
  /\ device \in Device
  /\ Init /\ HeldInit /\ TableInit /\ TablesInit /\ BridgeInit /\ SlotsInit /\ FifoInit

EthStep ==
  /\ device = "ethsw" /\ Next
  /\ UNCHANGED <<circuits, table, tables, configured, slots, fifoVars>>
FrStep ==
  /\ device = "frsw" /\ FrNext
  /\ UNCHANGED <<vars, tables, configured, slots, fifoVars>>
AtmStep ==
  /\ device = "atmsw" /\ AtmNext
  /\ UNCHANGED <<vars, table, configured, slots, fifoVars>>
AtmBridgeStep ==
  /\ device = "atm_bridge" /\ BridgeNext
  /\ UNCHANGED <<vars, table, tables, slots, fifoVars>>
NioBridgeStep ==
  /\ device = "nio_bridge" /\ SlotsNext
  /\ UNCHANGED <<vars, table, tables, configured, fifoVars>>
FifoStep ==
  /\ device = "fifo" /\ FifoNext
  /\ UNCHANGED <<vars, circuits, table, tables, configured, slots>>

SwitchesNext ==
  /\ \/ EthStep \/ FrStep \/ AtmStep \/ AtmBridgeStep \/ NioBridgeStep \/ FifoStep
  /\ UNCHANGED device

SwitchesSpec == SwitchesInit /\ [][SwitchesNext]_allVars

-----------------------------------------------------------------------------
(* Each frame on a Frame Relay circuit goes to the output of the circuit,    *)
(* and LMI advertises each circuit of a NIO once, in order                   *)
(* (frame_relay.c, frsw_handle_pkt and frsw_handle_lmi_ansi_pkt).  Each      *)
(* cell on an ATM path, or on a channel over which no path was created later,*)
(* goes out as its connection says (atm.c, atmsw_handle_cell).               *)
CircuitExact == VcsExact /\ CellsSwitched

(* Between any two calls the registry counts exactly the references that the *)
(* circuits, paths, channels, bridge ports and circuits being released hold, *)
(* and a NIO is listened to as long as a circuit comes in on it and no       *)
(* longer.  A creation may fail at each of its checks and in netio_rxl_add:  *)
(* it gives back all its references and leaves no listener behind, but it    *)
(* may take away one of another circuit of the same NIO; only the number of  *)
(* listeners of such a NIO is not exact.  A configuration of an ATM bridge   *)
(* keeps the reference of the one NIO that exists (frame_relay.c, atm.c,     *)
(* atm_bridge.c, net_io_bridge.c).                                           *)
CircuitResources ==
  /\ device = "frsw" => VcsHeld
  /\ device = "atmsw" => ConnsHeld
  /\ device = "atm_bridge" => ConfHeld
  /\ device = "nio_bridge" => SlotsHeld

(* FrameCarried (Bridges): a frame whose cells all arrive comes out of AAL5  *)
(* as it went in, whatever came before it.  FifosPaired (Bridges): a FIFO NIO *)
(* sends to a FIFO that lives and receives only what its endpoint sent.      *)

-----------------------------------------------------------------------------
(* The instance checked:                                                     *)
(* an Ethernet switch with two NIOs, two VLANs and two addresses, where      *)
(* three of the four pairs of an address and a VLAN share a bucket; a Frame  *)
(* Relay switch with two NIOs and three DLCIs, of which two share a bucket;  *)
(* an ATM switch with two NIOs and two VPIs; an ATM bridge whose cells carry *)
(* four bytes, two of them for the trailer, behind a channel of five cells;  *)
(* a NIO bridge with three slots; and three FIFO NIOs.                       *)
CONSTANTS m1, m2

MCDevice == {"ethsw", "frsw", "atmsw", "atm_bridge", "nio_bridge", "fifo"}

MCHash == [m \in Mac |-> [v \in Vlan |-> IF m = m1 /\ v = 1 THEN 1 ELSE 2]]

MCTags == {<<>>, <<0>>, <<1>>, <<2>>, <<1, 2>>}

MCDlciHash == [d \in Dlci |-> d % 2]

Symmetry == Permutations(Nio) \cup Permutations(Netio)
=============================================================================
