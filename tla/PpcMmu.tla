------------------------------- MODULE PpcMmu -------------------------------
(***************************************************************************)
(* How a PowerPC CPU finds the host page of an effective address           *)
(* (ppc32_mem.c): in real mode, through a block address translation (BAT)  *)
(* register, or through the hashed page table; on a PPC405, through its    *)
(* TLB.  What was found is kept in the MTS cache, of which there is one    *)
(* for instructions and one for data.  RAM may be sparse, and its pages    *)
(* shared with other VMs until they are written to (device.c).             *)
(*                                                                         *)
(* Pages are numbers.  A segment has SegSize pages, and the page table two *)
(* groups of PtegSize entries.                                             *)
(*                                                                         *)
(* Environment: BATs are aligned and do not overlap; a page is mapped once  *)
(* in an address space; a PPC405 guest maps pages of the smallest size.    *)
(***************************************************************************)
EXTENDS Naturals, Sequences, FiniteSetsExt

CONSTANTS
  None,
  VPage,             \* effective pages: 0..n
  SegSize,           \* pages of a segment
  PtegSize,          \* entries in a group of the page table (8)
  Vsid, Pid,         \* virtual segment ids; process ids
  Modes,             \* what MSR holds: translation of instructions, of data, problem state
  Bats,              \* what a BAT register holds
  Bucket, BucketOf,  \* entries of an MTS cache, and that of a page
  Mappings,          \* what a guest maps: a page, of an address space (a segment id or a
                     \* process id), to a physical page
  Device, Sparse,    \* pages of devices; pages of sparse RAM
  Ghosted,           \* whether sparse RAM starts as the image that VMs share
  TlbSize            \* the TLB of a PPC405: 1..TlbSize

Pte == [key : [vsid : Nat, api : Nat, h : {0, 1}], p : Nat]

PpcMmuAssumption ==
  /\ Device \cup Sparse \subseteq Nat /\ Device \cap Sparse = {} /\ Ghosted \in BOOLEAN
  /\ VPage \subseteq Nat /\ Vsid \cup Pid \subseteq Nat /\ PtegSize \in Nat /\ TlbSize \in Nat
  /\ None \notin Nat /\ None \notin Pte
  /\ BucketOf \in [VPage -> Bucket]
  /\ Modes \subseteq [ir : BOOLEAN, dr : BOOLEAN, pr : BOOLEAN]
  /\ Mappings \subseteq VPage \X Nat \X Nat
  /\ Bats \subseteq [vs : BOOLEAN, vp : BOOLEAN, bepi : Nat, len : Nat \ {0}, brpn : Nat]
  /\ \A b \in Bats : b.bepi % b.len = 0

Cid == {"I", "D"}

VARIABLES
  family,            \* "classic" or "405"
  msr, bat, sr, sdr1, tlb, pid,
  pteg,              \* the page table, group by group
  mapped,            \* what the page table was made to say: page and segment id to physical page
  own,               \* pages of sparse RAM that the VM has to itself
  mts,               \* the MTS caches
  told               \* the last operation, and where an access went

mmuVars == <<family, msr, bat, sr, sdr1, tlb, pid, pteg, mapped, own, mts, told>>
regs == <<family, msr, bat, sr, sdr1, tlb, pid, pteg, mapped>>

NoBat   == [vs |-> FALSE, vp |-> FALSE, bepi |-> 0, len |-> 1, brpn |-> 0]
NoEntry == [v |-> None, p |-> None, host |-> None, cow |-> FALSE]
NoTlb   == [v |-> None, len |-> 1, p |-> None, tid |-> None]

-----------------------------------------------------------------------------
Base(v, len) == v - (v % len)
Other == [op |-> "other"]
All == Cid \X VPage
ForgetAll == [op |-> "forget", keys |-> All]

real(cid) == IF cid = "I" THEN ~msr.ir ELSE ~msr.dr

(* The first BAT that is on in this state and covers the page.             *)
bat_lookup(cid, v) ==
  LET hits == {i \in DOMAIN bat[cid] :
                 LET b == bat[cid][i] IN (IF msr.pr THEN b.vp ELSE b.vs) /\ b.bepi = Base(v, b.len)}
  IN  IF hits = {} THEN None
      ELSE LET b == bat[cid][Min(hits)] IN b.brpn + (v - b.bepi)

(* The primary group, then the other one; the key says which hash it is.   *)
Group(vsid, v) == (v + vsid) % 2
Key(vsid, v, h) == [vsid |-> vsid, api |-> v \div 2, h |-> h]
InGroup(vsid, v, h) ==
  LET g == pteg[IF h = 0 THEN Group(vsid, v) ELSE 1 - Group(vsid, v)]
  IN  {i \in 1..PtegSize : g[i] # None /\ g[i].key = Key(vsid, v, h)}
pte_lookup(v) ==
  LET vsid == sr[v \div SegSize]
      g    == Group(vsid, v)
  IN  IF ~sdr1 THEN None
      ELSE IF InGroup(vsid, v, 0) # {} THEN pteg[g][Min(InGroup(vsid, v, 0))].p
      ELSE IF InGroup(vsid, v, 1) # {} THEN pteg[1 - g][Min(InGroup(vsid, v, 1))].p
      ELSE None

ppc32_slow_lookup(cid, v) ==
  IF real(cid) THEN v
  ELSE IF bat_lookup(cid, v) # None THEN bat_lookup(cid, v) ELSE pte_lookup(v)

ppc405_slow_lookup(cid, v) ==
  LET hits == {i \in 1..TlbSize :
                 tlb[i].v # None /\ tlb[i].tid = pid /\ Base(v, tlb[i].len) = Base(tlb[i].v, tlb[i].len)}
  IN  IF real(cid) THEN v
      ELSE IF hits = {} THEN None
      ELSE Base(tlb[Min(hits)].p, tlb[Min(hits)].len)

slow_lookup(cid, v) ==
  IF family = "405" THEN ppc405_slow_lookup(cid, v) ELSE ppc32_slow_lookup(cid, v)

(* dev_sparse_get_host_addr: the host page, and whether it is shared.      *)
sparse_host(p, write) ==
  [own |-> IF p \in own \/ (Ghosted /\ ~write) THEN own ELSE own \cup {p},
   host |-> IF p \in own \/ ~Ghosted \/ write THEN <<p, "own">> ELSE <<p, "ghost">>,
   cow |-> p \notin own /\ Ghosted /\ ~write]

-----------------------------------------------------------------------------
MmuInit ==
  /\ family \in {"classic", "405"}
  /\ msr = [ir |-> FALSE, dr |-> FALSE, pr |-> FALSE]
  /\ bat = [cid \in Cid |-> <<NoBat>>]
  /\ sr = [s \in {v \div SegSize : v \in VPage} |-> 0]
  /\ sdr1 = TRUE
  /\ tlb = [i \in 1..TlbSize |-> NoTlb]
  /\ pid = 0
  /\ pteg = [g \in {0, 1} |-> [i \in 1..PtegSize |-> None]]
  /\ mapped = <<>>
  /\ own = {}
  /\ mts = [cid \in Cid |-> [b \in Bucket |-> NoEntry]]
  /\ told = [op |-> "start"]

mem_invalidate_cache == mts' = [cid \in Cid |-> [b \in Bucket |-> NoEntry]]

(* MTMSR, RFI and exceptions: translation is switched on and off, and the  *)
(* cache is not told.                                                      *)
SetMsr ==
  /\ \E m \in Modes : m # msr /\ msr' = m
  /\ told' = [op |-> "change"]
  /\ UNCHANGED <<family, bat, sr, sdr1, tlb, pid, pteg, mapped, own, mts>>

set_bat_spr ==
  /\ family = "classic"
  /\ \E cid \in Cid, b \in Bats : b # bat[cid][1] /\ bat' = [bat EXCEPT ![cid][1] = b]
  /\ mem_invalidate_cache
  /\ told' = ForgetAll
  /\ UNCHANGED <<family, msr, sr, sdr1, tlb, pid, pteg, mapped, own>>

MTSR ==
  /\ family = "classic"
  /\ \E s \in DOMAIN sr, x \in Vsid : x # sr[s] /\ sr' = [sr EXCEPT ![s] = x]
  /\ mem_invalidate_cache
  /\ told' = ForgetAll
  /\ UNCHANGED <<family, msr, bat, sdr1, tlb, pid, pteg, mapped, own>>

MTSPR_SDR1 ==
  /\ family = "classic"
  /\ sdr1' = ~sdr1
  /\ mem_invalidate_cache
  /\ told' = ForgetAll
  /\ UNCHANGED <<family, msr, bat, sr, tlb, pid, pteg, mapped, own>>

(* TLBIA, TLBIE: everything goes, whichever page was meant.                *)
TLBIA ==
  /\ mts # [cid \in Cid |-> [b \in Bucket |-> NoEntry]]
  /\ mem_invalidate_cache
  /\ told' = ForgetAll
  /\ UNCHANGED <<regs, own>>

(* ppc32_map_page: into the first free entry of the primary group, else of *)
(* the other one; -1 if both are full.                                     *)
map_page ==
  \E m \in Mappings :
    LET v == m[1]
        vsid == m[2]
        p == m[3]
        free(g) == {i \in 1..PtegSize : pteg[g][i] = None}
        g == Group(vsid, v)
        h == IF free(g) # {} THEN 0 ELSE 1
        at == IF h = 0 THEN g ELSE 1 - g
    IN  /\ family = "classic" /\ <<v, vsid>> \notin DOMAIN mapped
        /\ free(at) # {}
        /\ pteg' = [pteg EXCEPT ![at][Min(free(at))] = [key |-> Key(vsid, v, h), p |-> p]]
        /\ mapped' = [x \in DOMAIN mapped \cup {<<v, vsid>>} |-> IF x = <<v, vsid>> THEN p ELSE mapped[x]]
        /\ told' = [op |-> "change"]
        /\ UNCHANGED <<family, msr, bat, sr, sdr1, tlb, pid, own, mts>>

(* The guest clears an entry of its page table, which is memory.           *)
ClearPte ==
  \E g \in {0, 1}, i \in 1..PtegSize :
    LET e == pteg[g][i]
        low == IF e.key.h = 0 THEN g ELSE 1 - g
        gone == {m \in DOMAIN mapped : /\ m[2] = e.key.vsid /\ m[1] \div 2 = e.key.api
                                       /\ Group(m[2], m[1]) = low}
    IN  /\ e # None
        /\ pteg' = [pteg EXCEPT ![g][i] = None]
        /\ mapped' = [m \in DOMAIN mapped \ gone |-> mapped[m]]
        /\ told' = [op |-> "change"]
        /\ UNCHANGED <<family, msr, bat, sr, sdr1, tlb, pid, own, mts>>

(* TLBWE and the PID register of a PPC405: the cache is not told either.   *)
TLBWE ==
  /\ family = "405"
  /\ \E i \in 1..TlbSize, m \in Mappings :
       /\ m[2] = pid
       /\ \A k \in 1..TlbSize : k = i \/ tlb[k].v # m[1] \/ tlb[k].tid # pid
       /\ tlb' = [tlb EXCEPT ![i] = [v |-> m[1], len |-> 1, p |-> m[3], tid |-> pid]]
  /\ told' = [op |-> "change"]
  /\ UNCHANGED <<family, msr, bat, sr, sdr1, pid, pteg, mapped, own, mts>>

MTSPR_PID ==
  /\ family = "405"
  /\ \E x \in Pid : x # pid /\ pid' = x
  /\ told' = [op |-> "change"]
  /\ UNCHANGED <<family, msr, bat, sr, sdr1, tlb, pteg, mapped, own, mts>>

(* ppc32_mem_access: a hit; or a look-up whose result replaces the entry   *)
(* of the page, unless the page is a device's.  A store through an entry   *)
(* that is shared looks up again.  A page without translation makes an     *)
(* exception.                                                              *)
Access ==
  \E cid \in Cid, v \in VPage, write \in BOOLEAN :
    LET e    == mts[cid][BucketOf[v]]
        hit  == e.v = v /\ ~(write /\ e.cow)
        p    == slow_lookup(cid, v)
        s    == sparse_host(p, write)
        host == IF p = None THEN None ELSE IF p \in Sparse THEN s.host ELSE <<p, "ram">>
        kept == p # None /\ p \notin Device
        use(x) == [op |-> "use", key |-> <<cid, v>>, value |-> x]
        dup  == p \in Sparse /\ s.own # own
    IN  /\ cid = "I" => ~write
        /\ IF hit THEN told' = use(e.host) /\ UNCHANGED <<own, mts>>
           ELSE /\ own' = IF p \in Sparse THEN s.own ELSE own
                /\ mts' = IF ~kept THEN mts
                          ELSE [mts EXCEPT ![cid][BucketOf[v]] =
                                  [v |-> v, p |-> p, host |-> host, cow |-> p \in Sparse /\ s.cow]]
                /\ told' = IF dup THEN [op |-> "forget", keys |-> {<<cid, v>>}] ELSE use(host)
        /\ UNCHANGED regs

(* ppc32_reset, ppc32_set_pvr: the caches are made anew.                   *)
mem_restart ==
  /\ mem_invalidate_cache
  /\ msr' = [ir |-> FALSE, dr |-> FALSE, pr |-> FALSE]
  /\ told' = ForgetAll
  /\ UNCHANGED <<family, bat, sr, sdr1, tlb, pid, pteg, mapped, own>>

MmuNext ==
  \/ SetMsr \/ set_bat_spr \/ MTSR \/ MTSPR_SDR1 \/ TLBIA \/ map_page \/ ClearPte
  \/ TLBWE \/ MTSPR_PID \/ Access \/ mem_restart
MmuSpec == MmuInit /\ [][MmuNext]_mmuVars

-----------------------------------------------------------------------------
(* Where an effective page lies, by the architecture and by what the       *)
(* guest was told to map: the host page that an access has to reach.       *)
Translation(cid, v) ==
  LET covers(b) == (IF msr.pr THEN b.vp ELSE b.vs) /\ v \in b.bepi..(b.bepi + b.len - 1)
      seg == <<v, sr[v \div SegSize]>>
  IN  IF real(cid) THEN v
      ELSE IF family = "405"
      THEN LET own_(i) == tlb[i].v = v /\ tlb[i].tid = pid
           IN  IF \E i \in 1..TlbSize : own_(i) THEN tlb[CHOOSE i \in 1..TlbSize : own_(i)].p ELSE None
      ELSE IF \E i \in DOMAIN bat[cid] : covers(bat[cid][i])
      THEN LET b == bat[cid][CHOOSE i \in DOMAIN bat[cid] : covers(bat[cid][i])]
           IN  b.brpn + v - b.bepi
      ELSE IF sdr1 /\ seg \in DOMAIN mapped THEN mapped[seg] ELSE None
HostPage(p) ==
  CASE p = None -> None
    [] p \in Sparse -> <<p, IF p \in own \/ ~Ghosted THEN "own" ELSE "ghost">>
    [] OTHER -> <<p, "ram">>

(* An access reaches the host page that the address stands for now, or one *)
(* that it stood for at some time since the last change of a BAT, a        *)
(* segment register or SDR1, or the last TLBIA or TLBIE.                   *)
Kept(k) == LET e == mts[k[1]][BucketOf[k[2]]] IN IF e.v = k[2] THEN {e.host} ELSE {}
Current == [k \in All |-> HostPage(Translation(k[1], k[2]))]
Stale == [k \in All |-> {h \in Kept(k) : h # HostPage(Translation(k[1], k[2]))}]
=============================================================================
