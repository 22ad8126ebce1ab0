----------------------------- MODULE EthSwitch ------------------------------
(***************************************************************************)
(* The virtual Ethernet switch (eth_switch.c): ports, their VLAN modes,    *)
(* the MAC address table and the path of a frame.  A frame is its source   *)
(* and destination address and its stack of VLAN tags, outermost first.    *)
(* ETHSW_LOCK makes each handler one step, except ethsw_remove_netio,      *)
(* which unlocks before it removes the listener: a frame may come between. *)
(* A frame that meets a locked switch is dropped (ETHSW_TRYLOCK), which    *)
(* changes nothing.                                                        *)
(***************************************************************************)
EXTENDS Naturals, Sequences

CONSTANTS
  Nio,       \* NIO descriptors
  NoNio,     \* a null pointer
  Mac,       \* unicast addresses
  Mcast,     \* a multicast address
  Vlan,      \* VLAN numbers in use, other than 0
  Tags,      \* tag stacks of the frames that arrive; 0 is a priority tag
  MaxNio,    \* ETHSW_MAX_NIO
  Bucket,    \* indices of the MAC address table
  Hash       \* ethsw_hash_index

ASSUME EthAssumption ==
  /\ NoNio \notin Nio /\ Mcast \notin Mac
  /\ Vlan \subseteq 1..4095 /\ 1 \in Vlan
  /\ Tags \subseteq Seq(Vlan \cup {0})
  /\ MaxNio \in Nat
  /\ Hash \in [Mac -> [Vlan -> Bucket]]

PortType == {"access", "dot1q", "qinq"}

Slot == 1..MaxNio

Frame == [src: Mac, dst: Mac \cup {Mcast}, tags: Tags]

VARIABLES
  nio,      \* nio[i]: the NIO in slot i
  type,     \* nio->vlan_port_type
  vlan,     \* nio->vlan_id
  entry,    \* mac_addr_table
  leaving,  \* NIOs removed from the slots and still listened to
  seen      \* seen[m][v]: where address m was last seen in VLAN v (history)

vars == <<nio, type, vlan, entry, leaving, seen>>
portVars == <<type, vlan>>
tableVars == <<entry, seen>>

Entry == [nio: Nio \cup {NoNio}, vlan: Vlan \cup {0}, mac: Mac \cup {NoNio}]
NoEntry == [nio |-> NoNio, vlan |-> 0, mac |-> NoNio]

TypeOK ==
  /\ nio \in [Slot -> Nio \cup {NoNio}]
  /\ type \in [Nio -> PortType] /\ vlan \in [Nio -> Vlan]
  /\ entry \in [Bucket -> Entry]
  /\ leaving \in SUBSET Nio
  /\ seen \in [Mac -> [Vlan -> Nio \cup {NoNio}]]

Init ==
  /\ nio = [i \in Slot |-> NoNio]
  /\ type = [n \in Nio |-> "access"]
  /\ vlan = [n \in Nio |-> 1]
  /\ entry = [b \in Bucket |-> NoEntry]
  /\ leaving = {}
  /\ seen = [m \in Mac |-> [v \in Vlan |-> NoNio]]

Ports == {nio[i] : i \in Slot} \ {NoNio}

\* NIOs whose frames reach the switch.
Listening == Ports \cup leaving

-----------------------------------------------------------------------------
\* The path of a frame.

\* ethsw_receive: the VLAN of a frame that enters a port, 0 to drop it.
InputVlan(t, v, tags) ==
  CASE t = "access" -> v
    [] t = "dot1q"  -> IF tags = <<>> THEN v ELSE tags[1]
    [] OTHER        -> IF tags = <<>> THEN 0 ELSE v

\* Mutant: the trunk sends its native VLAN tagged and the others untagged.
IvAccessSwapped(tags, v, o) ==
  CASE type[o] = "access" -> {tags}
    [] type[o] = "dot1q"  -> {IF vlan[o] = v THEN <<v>> \o tags ELSE tags}
    [] OTHER           -> {}

\* The input vectors: the tag stacks sent on port o, none or one.
IvAccess(tags, v, o) ==
  CASE type[o] = "access" -> {tags}
    [] type[o] = "dot1q"  -> {IF vlan[o] = v THEN tags ELSE <<v>> \o tags}
    [] OTHER           -> {}

IvDot1q(tags, v, o) ==
  IF tags = <<>> THEN IvAccess(tags, v, o)
  ELSE CASE type[o] = "access" -> {Tail(tags)}
         [] type[o] = "dot1q"  -> {IF vlan[o] = v THEN Tail(tags) ELSE tags}
         [] OTHER           -> IF vlan[o] = v THEN {Tail(tags)} ELSE {}

IvQinq(tags, v, o) ==
  CASE type[o] = "access" -> {}
    [] type[o] = "dot1q"  -> {<<v>> \o tags}
    [] OTHER           -> IF vlan[o] = v THEN {Tail(tags)} ELSE {}

InputVector(p, tags, v, o) ==
  CASE type[p] = "access" -> IvAccess(tags, v, o)
    [] type[p] = "dot1q"  -> IvDot1q(tags, v, o)
    [] OTHER           -> IvQinq(tags, v, o)

\* Mutant: the destination is learned.
LearnDestination(p, f, v) ==
  [entry EXCEPT ![Hash[f.src][v]] = [nio |-> p, vlan |-> v, mac |-> f.dst]]

\* Mutant: an address keeps its first place.
LearnFirst(p, f, v) ==
  LET b == Hash[f.src][v]
  IN IF entry[b].mac = f.src /\ entry[b].nio # NoNio THEN entry
     ELSE [entry EXCEPT ![b] = [nio |-> p, vlan |-> v, mac |-> f.src]]

\* ethsw_forward: the source is learned first ...
Learn(p, f, v) ==
  [entry EXCEPT ![Hash[f.src][v]] = [nio |-> p, vlan |-> v, mac |-> f.src]]

\* ... and the destination looked up in the new table.
Known(p, f, v) ==
  LET e == Learn(p, f, v)[Hash[f.dst][v]]
  IN f.dst # Mcast /\ e.mac = f.dst /\ e.vlan = v

\* ethsw_flood
FloodPorts(p, v) ==
  {o \in Ports \ {p} : type[o] = "access" => vlan[o] = v}

OutPorts(p, f, v) ==
  IF Known(p, f, v) THEN {Learn(p, f, v)[Hash[f.dst][v]].nio} \ {p}
  ELSE FloodPorts(p, v)

\* What the arrival of f on p sends: pairs of a port and a tag stack.
Sends(p, f) ==
  LET v == InputVlan(type[p], vlan[p], f.tags)
  IN IF v = 0 THEN {}
     ELSE UNION {{o} \X InputVector(p, f.tags, v, o) : o \in OutPorts(p, f, v)}

-----------------------------------------------------------------------------
\* Handlers.

\* ethsw_recv_pkt; Sends(p, f) is what goes out.
Receive(p, f) ==
  LET v == InputVlan(type[p], vlan[p], f.tags)
  IN /\ p \in Listening
     /\ v # 0
     /\ entry' = Learn(p, f, v)
     /\ seen' = [seen EXCEPT ![f.src][v] = p]
     /\ UNCHANGED <<nio, portVars, leaving>>

\* ethsw_add_netio: the first free slot, an access port in VLAN 1.  A NIO is
\* added once; with no free slot the call fails and changes nothing.
AddNetio(n) ==
  /\ n \notin Listening
  /\ \E i \in Slot :
       /\ nio[i] = NoNio
       /\ \A j \in Slot : j < i => nio[j] # NoNio
       /\ nio' = [nio EXCEPT ![i] = n]
  /\ type' = [type EXCEPT ![n] = "access"]
  /\ vlan' = [vlan EXCEPT ![n] = 1]
  /\ UNCHANGED <<tableVars, leaving>>

\* Mutant: an entry of the port keeps its VLAN.
InvalidatePortVlan(n) ==
  [b \in Bucket |-> IF entry[b].nio = n THEN [entry[b] EXCEPT !.nio = NoNio]
                    ELSE entry[b]]

\* ethsw_invalidate_port
InvalidatePort(n) ==
  [b \in Bucket |->
     IF entry[b].nio = n THEN [entry[b] EXCEPT !.nio = NoNio, !.vlan = 0]
     ELSE entry[b]]

\* ethsw_remove_netio up to its unlock
RemoveNetio(n) ==
  /\ n \in Ports
  /\ entry' = InvalidatePort(n)
  /\ nio' = [i \in Slot |-> IF nio[i] = n THEN NoNio ELSE nio[i]]
  /\ leaving' = leaving \cup {n}
  /\ UNCHANGED <<portVars, seen>>

\* ethsw_free_nio: no frame of n after it, and n may be deleted.
FreeNio(n) ==
  /\ n \in leaving
  /\ leaving' = leaving \ {n}
  /\ UNCHANGED <<nio, portVars, tableVars>>

\* ethsw_set_access_port, ethsw_set_dot1q_port, ethsw_set_qinq_port
SetPort(n, t, v) ==
  /\ n \in Ports
  /\ type' = [type EXCEPT ![n] = t]
  /\ vlan' = [vlan EXCEPT ![n] = v]
  /\ UNCHANGED <<nio, tableVars, leaving>>

\* ethsw_clear_mac_addr_table
ClearMacAddrTable ==
  /\ entry' = [b \in Bucket |-> NoEntry]
  /\ UNCHANGED <<nio, portVars, leaving, seen>>

\* ethsw_save_config names the NIO of every slot, so it completes only when no
\* slot is free.
SaveConfigCompletes == NoNio \notin {nio[i] : i \in Slot}

\* ethsw_delete frees the switch; a new one starts empty.
Delete ==
  /\ leaving = {}
  /\ nio' = [i \in Slot |-> NoNio]
  /\ entry' = [b \in Bucket |-> NoEntry]
  /\ seen' = [m \in Mac |-> [v \in Vlan |-> NoNio]]
  /\ UNCHANGED <<portVars, leaving>>

Next ==
  \/ \E p \in Nio, f \in Frame : Receive(p, f)
  \/ \E n \in Nio : AddNetio(n) \/ RemoveNetio(n) \/ FreeNio(n)
  \/ \E n \in Nio, t \in PortType, v \in Vlan : SetPort(n, t, v)
  \/ ClearMacAddrTable \/ Delete

Spec == Init /\ [][Next]_vars

-----------------------------------------------------------------------------
\* Tag stacks the port they enter is meant for: a host sends none, a trunk at
\* most one, a customer one.
Expected(p, tags) == Len(tags) <= (IF type[p] = "access" THEN 0 ELSE 1)

\* An entry that a lookup can match names a port: the switch never calls an
\* input vector with a null port.
MatchHasPort == \A b \in Bucket : entry[b].vlan # 0 => entry[b].nio # NoNio

\* A known address is forwarded to the port where it was last seen in the
\* frame's VLAN, whatever entries share its bucket.
LocationCurrent ==
  \A m \in Mac, v \in Vlan :
    LET e == entry[Hash[m][v]]
    IN e.mac = m /\ e.vlan = v => e.nio = seen[m][v]

\* A frame sent on a trunk is put into the same VLAN by a trunk with the same
\* native VLAN at the other end, and a frame sent on an access port has no tag.
EgressKeepsVlan ==
  \A p \in Listening, f \in Frame :
    Expected(p, f.tags) =>
      \A s \in Sends(p, f) :
        /\ type[s[1]] = "dot1q" =>
             InputVlan("dot1q", vlan[s[1]], s[2])
               = InputVlan(type[p], vlan[p], f.tags)
        /\ type[s[1]] = "access" => s[2] = <<>>

\* The MAC address table refers to ports of the switch only: the entries of a
\* removed NIO are invalidated before it may be deleted.
EntriesAttached == \A b \in Bucket : entry[b].nio \in Listening \cup {NoNio}

\* A frame leaves on access ports of its VLAN only.
VlanIsolated ==
  \A p \in Listening, f \in Frame : \A s \in Sends(p, f) :
    type[s[1]] = "access" =>
      vlan[s[1]] = InputVlan(type[p], vlan[p], f.tags)

\* Between two tunnel ports of a customer a frame keeps the customer's tags.
TunnelTransparent ==
  \A p \in Listening, f \in Frame : \A s \in Sends(p, f) :
    type[p] = "qinq" /\ type[s[1]] = "qinq" => s[2] = f.tags
=============================================================================
