------------------------------ MODULE Circuits ------------------------------
(***************************************************************************)
(* The virtual switches that are made of circuits: Frame Relay             *)
(* (frame_relay.c) and ATM (atm.c).  First, what circuits hold of their    *)
(* NIOs, a reference in the registry for each end and a listener on the    *)
(* input: the switches and the bridges (Bridges) take and release them     *)
(* with the same calls, so they share this state.                          *)
(***************************************************************************)
EXTENDS Naturals, FiniteSets, Sequences, SequencesExt

CONSTANTS
  Netio,    \* NIO descriptors
  NoNetio,  \* a null pointer
  MaxCall,  \* callers that release a connection at a time
  MaxVc     \* connections at a time

CircuitsAssumption == NoNetio \notin Netio /\ MaxCall \in Nat /\ MaxVc \in Nat

VARIABLES
  nios,       \* NIOs in the registry
  releasing,  \* connections to be released, each with the reason: it was
              \* deleted, or its creation failed
  refs,       \* references to n in the registry
  rxl,        \* listeners of n
  failed      \* NIOs on which a creation failed, since they were created

held == <<releasing, refs, rxl>>

HeldTypeOK ==
  /\ nios \in SUBSET Netio /\ failed \in SUBSET Netio
  /\ refs \in [Netio -> Nat] /\ rxl \in [Netio -> Nat]

HeldInit ==
  /\ nios = {}
  /\ releasing = {}
  /\ refs = [n \in Netio |-> 0] /\ rxl = [n \in Netio |-> 0]
  /\ failed = {}

\* NIOs come and go; one that is referenced stays.
NioCreate(n) ==
  /\ n \notin nios
  /\ nios' = nios \cup {n}
  /\ failed' = failed \ {n}
  /\ UNCHANGED held

NioDelete(n) ==
  /\ n \in nios /\ refs[n] = 0
  /\ nios' = nios \ {n}
  /\ UNCHANGED <<held, failed>>

\* netio_acquire and netio_release of both NIOs; a null NIO counts for nothing.
EndsAt(c, n) == Cardinality({k \in {"input", "output"} : c[k] = n})
Acquire(c) == [n \in Netio |-> refs[n] + EndsAt(c, n)]
Release(c) == [n \in Netio |-> refs[n] - EndsAt(c, n)]

\* netio_rxl_remove of k listeners; a NIO without listener has none to remove.
Unlisten(n, k) == IF rxl[n] <= k THEN 0 ELSE rxl[n] - k

\* A connection is set up: both NIOs exist.
Hold(c) ==
  /\ {c.input, c.output} \subseteq nios
  /\ refs' = Acquire(c)
  /\ rxl' = [rxl EXCEPT ![c.input] = @ + 1]
  /\ UNCHANGED <<nios, releasing, failed>>

\* A creation fails when the output NIO does not exist, when the input is in use,
\* or when netio_rxl_add gets no memory or no thread, which it may at any time:
\* the new connection is released like one that was set up.  (When the input NIO
\* does not exist only the output's reference comes and goes.)
HoldFails(c) ==
  /\ c.input \in nios
  /\ c.output \in nios \cup {NoNetio}
  /\ <<c, "failed">> \notin releasing /\ Cardinality(releasing) < MaxCall
  /\ refs' = Acquire(c)
  /\ releasing' = releasing \cup {<<c, "failed">>}
  /\ failed' = failed \cup {c.input}
  /\ UNCHANGED <<nios, rxl>>

\* A connection is unlinked by a call that releases it after the unlock.
Unhold(c) ==
  /\ <<c, "deleted">> \notin releasing /\ Cardinality(releasing) < MaxCall
  /\ releasing' = releasing \cup {<<c, "deleted">>}
  /\ UNCHANGED <<nios, refs, rxl, failed>>

\* Mutant: the output NIO keeps its reference.
ReleaseConnInput(c, why) ==
  /\ <<c, why>> \in releasing
  /\ releasing' = releasing \ {<<c, why>>}
  /\ rxl' = [rxl EXCEPT ![c.input] = Unlisten(c.input, 1)]
  /\ refs' = [refs EXCEPT ![c.input] = @ - 1]
  /\ UNCHANGED <<nios, failed>>

\* frsw_release_vc, atmsw_release_vpc, atmsw_release_vcc
ReleaseConn(c, why) ==
  /\ <<c, why>> \in releasing
  /\ releasing' = releasing \ {<<c, why>>}
  /\ rxl' = [rxl EXCEPT ![c.input] = Unlisten(c.input, 1)]
  /\ refs' = Release(c)
  /\ UNCHANGED <<nios, failed>>

\* The connections of a switch, linked or being released, and their ends at n.
Conns(linked) == (linked \X {"linked"}) \cup releasing
Ends(linked, n) ==
  {x \in Conns(linked) \X {"input", "output"} : x[1][1][x[2]] = n}

\* frsw_free, atmsw_free: every connection is released.
ReleaseAll(linked) ==
  /\ releasing = {}
  /\ rxl' = [n \in Netio |->
               Unlisten(n, Cardinality({c \in linked : c.input = n}))]
  /\ refs' = [n \in Netio |-> refs[n] - Cardinality(Ends(linked, n))]
  /\ UNCHANGED <<nios, releasing, failed>>

-----------------------------------------------------------------------------
\* The registry counts a reference for each end of each connection, so a NIO in
\* use is not deleted and an unused one can be.  The listener of a NIO is not
\* left behind when its last connection is released: each connection that was
\* set up counts at most once.  It counts exactly once, so that frames are
\* received as long as there is a connection, unless a creation failed on the
\* NIO.
HeldExact(linked) ==
  \A n \in Netio :
    LET users == {x \in Conns(linked) : x[1].input = n /\ x[2] # "failed"}
    IN /\ refs[n] = Cardinality(Ends(linked, n))
       /\ rxl[n] <= Cardinality(users)
       /\ n \notin failed => rxl[n] = Cardinality(users)

-----------------------------------------------------------------------------
(***************************************************************************)
(* The virtual Frame Relay switch (frame_relay.c): its virtual circuits in *)
(* hash chains and in the connection list of their input NIO, and what LMI *)
(* advertises.  FRSW_LOCK makes a handler one step up to its unlock; a     *)
(* caller that releases a circuit does so after the unlock.  The output    *)
(* DLCI is left out: it only rewrites the header.                          *)
(***************************************************************************)

CONSTANTS
  Dlci,         \* DLCIs, other than the one of LMI
  DlciBucket,   \* indices of dlci_table
  DlciHash      \* frsw_dlci_hash

FrAssumption ==
  CircuitsAssumption /\ Dlci \subseteq 1..1022 /\ DlciHash \in [Dlci -> DlciBucket]

\* struct frsw_conn
Vc == [input: Netio, dlci_in: Dlci, output: Netio \cup {NoNetio}]

VARIABLES
  chain,      \* chain[b]: dlci_table[b] through hash_next
  conn,       \* conn[n]: fr_conn_list of n through next
  dangling    \* NIOs whose fr_conn_list has circuits that were freed

table == <<chain, conn, dangling>>
frVars == <<nios, held, failed, table>>

FrTypeOK ==
  /\ HeldTypeOK
  /\ chain \in [DlciBucket -> Seq(Vc)]
  /\ conn \in [Netio -> Seq(Vc)]
  /\ dangling \in SUBSET Netio

TableInit ==
  /\ chain = [b \in DlciBucket |-> <<>>]
  /\ conn = [n \in Netio |-> <<>>]
  /\ dangling = {}

\* The circuits of the switch, and those whose input is n.
Vcs == UNION {ToSet(chain[b]) : b \in DlciBucket}
VcsOf(n) == {vc \in Vcs : vc.input = n}

\* frsw_dlci_lookup: where in its chain a circuit matches.
Lookup(n, d) ==
  LET s == chain[DlciHash[d]]
  IN {i \in DOMAIN s : s[i].input = n /\ s[i].dlci_in = d}

\* frsw_handle_pkt: a frame goes where the first match says; without a match it
\* is dropped.
HandlePkt(n, d) ==
  IF Lookup(n, d) = {} THEN NoNetio
                       ELSE chain[DlciHash[d]][Min(Lookup(n, d))].output

-----------------------------------------------------------------------------
NioCreated(n) ==
  /\ NioCreate(n)
  /\ conn' = [conn EXCEPT ![n] = <<>>]
  /\ dangling' = dangling \ {n}
  /\ UNCHANGED chain

\* The connection list is kept in ascending order of input DLCIs.
InsertVc(s, vc) ==
  LET later == {j \in DOMAIN s : s[j].dlci_in > vc.dlci_in}
  IN InsertAt(s, IF later = {} THEN Len(s) + 1 ELSE Min(later), vc)

\* Mutant: the DLCI may be in use.
CreateVcTwice(vc) ==
  /\ Cardinality(Vcs) < MaxVc
  /\ vc.input \notin dangling
  /\ Hold(vc)
  /\ chain' = [chain EXCEPT ![DlciHash[vc.dlci_in]] = <<vc>> \o @]
  /\ conn' = [conn EXCEPT ![vc.input] = InsertVc(@, vc)]
  /\ UNCHANGED dangling

\* frsw_create_vc.  Inserting into a list that has freed circuits is undefined
\* and not followed any further.
CreateVc(vc) ==
  /\ Cardinality(Vcs) < MaxVc
  /\ Lookup(vc.input, vc.dlci_in) = {}
  /\ vc.input \notin dangling
  /\ Hold(vc)
  /\ chain' = [chain EXCEPT ![DlciHash[vc.dlci_in]] = <<vc>> \o @]
  /\ conn' = [conn EXCEPT ![vc.input] = InsertVc(@, vc)]
  /\ UNCHANGED dangling

CreateVcFails(vc) == HoldFails(vc) /\ UNCHANGED table

\* frsw_unlink_vc, of one list: DeleteVc up to its unlock
Unlinked(s, vc) == RemoveAt(s, Min({i \in DOMAIN s : s[i] = vc}))

DeleteVc(vc) ==
  /\ vc \in Vcs
  /\ Unhold(vc)
  /\ chain' = [chain EXCEPT ![DlciHash[vc.dlci_in]] = Unlinked(@, vc)]
  /\ conn' = [conn EXCEPT ![vc.input] = Unlinked(@, vc)]
  /\ UNCHANGED dangling

\* frsw_free releases every circuit and frees them with their pool; they stay
\* in the connection lists.  Another switch takes its place.
DeleteTable ==
  /\ ReleaseAll(Vcs)
  /\ chain' = [b \in DlciBucket |-> <<>>]
  /\ dangling' = dangling \cup {n \in Netio : VcsOf(n) # {}}
  /\ UNCHANGED conn

FrNext ==
  \/ \E n \in Netio : NioCreated(n) \/ (NioDelete(n) /\ UNCHANGED table)
  \/ \E vc \in Vc : \/ CreateVc(vc) \/ CreateVcFails(vc) \/ DeleteVc(vc)
                    \/ \E why \in {"deleted", "failed"} :
                         ReleaseConn(vc, why) /\ UNCHANGED table
  \/ DeleteTable

FrSpec == HeldInit /\ TableInit /\ [][FrNext]_frVars

-----------------------------------------------------------------------------
\* A reference for each end and a listener for each circuit (HeldExact).
VcsHeld == HeldExact(Vcs)

\* Each frame on a circuit goes to the output of the circuit (frsw_handle_pkt).
\* LMI (frsw_handle_lmi_ansi_pkt) advertises the circuits of the NIO, each once
\* and in ascending order, as long as no switch was deleted with circuits on it.
Advertised(n) == [i \in DOMAIN conn[n] |-> conn[n][i].dlci_in]
VcsExact ==
  /\ \A vc \in Vcs : HandlePkt(vc.input, vc.dlci_in) = vc.output
  /\ \A n \in nios \ dangling :
       /\ ToSet(conn[n]) = VcsOf(n)
       /\ \A i, j \in DOMAIN conn[n] : i < j => Advertised(n)[i] < Advertised(n)[j]

-----------------------------------------------------------------------------
(***************************************************************************)
(* The virtual ATM switch (atm.c): its virtual paths and virtual channels  *)
(* and how a cell finds its way.  ATMSW_LOCK makes a handler one step up to*)
(* its unlock; a caller that releases a connection does so after the       *)
(* unlock.  The hash tables are sets: a lookup compares the whole key.     *)
(***************************************************************************)

CONSTANTS
  VpiIn, Vci,   \* identifiers of incoming cells
  VpiOut        \* identifiers the switch writes into outgoing cells

AtmAssumption ==
  CircuitsAssumption /\ VpiIn \cup VpiOut \subseteq Nat /\ Vci \subseteq Nat

\* struct atmsw_vp_conn and struct atmsw_vc_conn.  A channel leaves with the
\* VCI it came with: the switch writes vci_out as it writes vpi_out.
Vpc == [input: Netio, vpi_in: VpiIn, output: Netio \cup {NoNetio}, vpi_out: VpiOut]
Vcc == [input: Netio, vpi_in: VpiIn, vci_in: Vci,
        output: Netio \cup {NoNetio}, vpi_out: VpiOut]

VARIABLES
  vps,     \* connections in vp_table
  vcs,     \* connections in vc_table
  hidden   \* channels over which a path was created

tables == <<vps, vcs, hidden>>
atmVars == <<nios, held, failed, tables>>

AtmTypeOK ==
  HeldTypeOK /\ vps \in SUBSET Vpc /\ vcs \in SUBSET Vcc /\ hidden \in SUBSET vcs

TablesInit == vps = {} /\ vcs = {} /\ hidden = {}

\* atmsw_vp_lookup, atmsw_vc_lookup: the connections that match.
VpLookup(n, vpi) == {c \in vps : c.input = n /\ c.vpi_in = vpi}
VcLookup(n, vpi, vci) ==
  {c \in vcs : c.input = n /\ c.vpi_in = vpi /\ c.vci_in = vci}

\* atmsw_vp_switch, atmsw_vc_switch: where a cell on connection c goes.
Outgoing(c, vci) == [nio |-> c.output, vpi |-> c.vpi_out, vci |-> vci]

\* atmsw_handle_cell: a path goes before a channel; a cell without connection
\* is dropped.
HandleCell(n, vpi, vci) ==
  LET found == IF VpLookup(n, vpi) # {} THEN VpLookup(n, vpi)
                                        ELSE VcLookup(n, vpi, vci)
  IN {Outgoing(c, vci) : c \in found}

-----------------------------------------------------------------------------
Room == Cardinality(vps) + Cardinality(vcs) < MaxVc

\* atmsw_create_vpc does not look at the channels of the path.
CreateVpc(c) ==
  /\ Room /\ VpLookup(c.input, c.vpi_in) = {}
  /\ Hold(c)
  /\ vps' = vps \cup {c}
  /\ hidden' = hidden \cup {v \in vcs : v.input = c.input /\ v.vpi_in = c.vpi_in}
  /\ UNCHANGED vcs

CreateVpcFails(c) == HoldFails(c) /\ UNCHANGED tables

\* Mutant: there may be a path already.
CreateVccUnder(c) ==
  /\ Room /\ VcLookup(c.input, c.vpi_in, c.vci_in) = {}
  /\ Hold(c)
  /\ vcs' = vcs \cup {c}
  /\ UNCHANGED <<vps, hidden>>

CreateVcc(c) ==
  /\ Room /\ VcLookup(c.input, c.vpi_in, c.vci_in) = {}
  /\ VpLookup(c.input, c.vpi_in) = {}
  /\ Hold(c)
  /\ vcs' = vcs \cup {c}
  /\ UNCHANGED <<vps, hidden>>

CreateVccFails(c) == HoldFails(c) /\ UNCHANGED tables

DeleteVpc(c) ==
  c \in vps /\ Unhold(c) /\ vps' = vps \ {c} /\ UNCHANGED <<vcs, hidden>>

DeleteVcc(c) ==
  /\ c \in vcs /\ Unhold(c)
  /\ vcs' = vcs \ {c} /\ hidden' = hidden \ {c}
  /\ UNCHANGED vps

\* atmsw_free; another switch takes its place.
DeleteTables ==
  ReleaseAll(vps \cup vcs) /\ vps' = {} /\ vcs' = {} /\ hidden' = {}

AtmNext ==
  \/ \E n \in Netio : (NioCreate(n) \/ NioDelete(n)) /\ UNCHANGED tables
  \/ \E c \in Vpc : CreateVpc(c) \/ CreateVpcFails(c) \/ DeleteVpc(c)
  \/ \E c \in Vcc : CreateVcc(c) \/ CreateVccFails(c) \/ DeleteVcc(c)
  \/ \E c \in Vpc \cup Vcc, why \in {"deleted", "failed"} :
       ReleaseConn(c, why) /\ UNCHANGED tables
  \/ DeleteTables

AtmSpec == HeldInit /\ TablesInit /\ [][AtmNext]_atmVars

-----------------------------------------------------------------------------
\* A reference for each end and a listener for each connection (HeldExact).
ConnsHeld == HeldExact(vps \cup vcs)

\* The cells of each path, and of each channel over which no path was created,
\* go out as the connection says and nowhere else (atmsw_handle_cell).
CellsSwitched ==
  /\ \A c \in vps, vci \in Vci :
       HandleCell(c.input, c.vpi_in, vci) = {Outgoing(c, vci)}
  /\ \A c \in vcs \ hidden :
       HandleCell(c.input, c.vpi_in, c.vci_in) = {Outgoing(c, c.vci_in)}
=============================================================================
