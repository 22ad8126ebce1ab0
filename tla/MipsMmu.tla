------------------------------ MODULE MipsMmu ------------------------------
(***************************************************************************)
(* How a MIPS64 CPU finds the host page of a virtual address               *)
(* (mips64_mem.c, mips_mts.c): directly, or through the TLB of coprocessor *)
(* 0 (mips64_cp0.c), by the zone of the address.  What was found is kept   *)
(* in the MTS cache, which serves instructions and data alike, and whose   *)
(* entries know neither the address space nor the TLB entry they came      *)
(* from.                                                                   *)
(*                                                                         *)
(* Pages are numbers; a TLB entry translates an even and an odd page of    *)
(* "size" pages each.                                                      *)
(*                                                                         *)
(* Environment: the guest keeps no two TLB entries for one page of an      *)
(* address space, and gives large pages aligned physical pages.            *)
(***************************************************************************)
EXTENDS Naturals, Sequences, FiniteSetsExt

CONSTANTS
  None,
  VPage,             \* virtual pages
  ZoneOf,            \* of each page, by the width of addresses: the zone its address is in
  Direct,            \* physical page of a page that is not translated
  Contents,          \* what a guest loads into EntryHi, EntryLo0/1 and PageMask
  TlbSize, Wired,    \* entries of the TLB: 1..TlbSize; TLBWR leaves 1..Wired alone
  Asid,
  Bucket, BucketOf,  \* entries of the MTS cache, and that of a page
  Device, Sparse,    \* as in PpcMmu
  Ghosted

Half == [valid : BOOLEAN, p : Nat, g : BOOLEAN]

MipsMmuAssumption ==
  /\ Wired \in Nat /\ TlbSize \in Nat /\ Wired < TlbSize
  /\ Device \cup Sparse \subseteq Nat /\ Device \cap Sparse = {} /\ Ghosted \in BOOLEAN
  /\ BucketOf \in [VPage -> Bucket]
  /\ None \notin Nat /\ VPage \subseteq Nat /\ \E last \in VPage : \A v \in VPage : v <= last
  /\ Contents \subseteq [vpn : Nat, size : Nat \ {0}, lo : [1..2 -> Half]]
  /\ \A v \in VPage : LET at == ZoneOf[64][v]
                     IN  \/ at.zone \in {"xkuseg", "xksseg", "xkseg", "xkphys", "bad"} /\ at.sub = "none"
                         \/ at.zone = "top" /\ at.sub \in {"ckseg0", "ckseg1", "cksseg", "ckseg3"}

VARIABLES
  family,            \* width of addresses: 32 or 64
  cp0,               \* EntryHi (vpn, asid), EntryLo0, EntryLo1, PageMask (size)
  index,             \* the Index register
  tlb, own, mts, told

mipsMmuVars == <<family, cp0, index, tlb, own, mts, told>>

NoEntry == [v |-> None, p |-> None, host |-> None, cow |-> FALSE]
Off == [valid |-> FALSE, p |-> 0, g |-> FALSE]
(* What the start-up code of the guest leaves in an entry: no page it uses. *)
NoTlb == [vpn |-> 2 * (Max(VPage) + 1), asid |-> 0, size |-> 1, g |-> FALSE, lo |-> <<Off, Off>>]

-----------------------------------------------------------------------------
Base(v, len) == v - (v % len)
Other == [op |-> "other"]

(* The first entry for the page decides, and its half may be invalid.      *)
mips64_cp0_tlb_lookup(v) ==
  LET matches(e) == Base(v, 2 * e.size) = e.vpn /\ (e.g \/ e.asid = cp0.asid)
      hits == {i \in 1..TlbSize : matches(tlb[i])}
      e == tlb[Min(hits)]
      half == e.lo[1 + ((v \div e.size) % 2)]
  IN  IF hits = {} THEN None
      ELSE IF half.valid THEN half.p + (v % e.size) ELSE None

(* Where addresses of 64 bits are translated, direct, or an error.         *)
mips64_mts64_slow_lookup(v) ==
  LET at == ZoneOf[64][v]
  IN  CASE at.zone \in {"xkuseg", "xksseg", "xkseg"} -> mips64_cp0_tlb_lookup(v)
        [] at.zone = "top" /\ at.sub \in {"ckseg0", "ckseg1"} -> Direct[v]
        [] at.zone = "top" /\ at.sub \in {"cksseg", "ckseg3"} -> mips64_cp0_tlb_lookup(v)
        [] at.zone = "xkphys" -> Direct[v]
        [] OTHER -> None

mips64_mts32_slow_lookup(v) ==
  IF ZoneOf[32][v] \in {"kuseg", "ksseg", "kseg3"} THEN mips64_cp0_tlb_lookup(v) ELSE Direct[v]

slow_lookup(v) == IF family = 64 THEN mips64_mts64_slow_lookup(v) ELSE mips64_mts32_slow_lookup(v)

(* dev_sparse_get_host_addr: the host page, and whether it is shared.      *)
sparse_host(p, write) ==
  [own |-> IF p \in own \/ (Ghosted /\ ~write) THEN own ELSE own \cup {p},
   host |-> IF p \in own \/ ~Ghosted \/ write THEN <<p, "own">> ELSE <<p, "ghost">>,
   cow |-> p \notin own /\ Ghosted /\ ~write]

(* The pages that a TLB entry is for, and those of them that it translates. *)
Within(v, e) == v >= e.vpn /\ v < e.vpn + 2 * e.size
Translates(e, v) == Within(v, e) /\ e.lo[1 + ((v - e.vpn) \div e.size)].valid
Extent(e) == {v \in VPage : Within(v, e)}
Covered(e) == {v \in VPage : Translates(e, v)}

-----------------------------------------------------------------------------
MipsMmuInit ==
  /\ family \in {32, 64}
  /\ cp0 = [vpn |-> 0, asid |-> 0, size |-> 1, lo |-> <<Off, Off>>]
  /\ index = 0
  /\ tlb = [i \in 1..TlbSize |-> NoTlb]
  /\ own = {}
  /\ mts = [b \in Bucket |-> NoEntry]
  /\ told = [op |-> "start"]

invalidate_cache == mts' = [b \in Bucket |-> NoEntry]

(* MTC0 of EntryHi, EntryLo and PageMask, one after the other.  The        *)
(* address space changes with it; the cache is not told.                   *)
mips64_cp0_set_reg ==
  /\ \E c \in Contents, a \in Asid :
       cp0' = [vpn |-> c.vpn, asid |-> a, size |-> c.size, lo |-> c.lo]
  /\ told' = [op |-> "change"]
  /\ UNCHANGED <<family, index, tlb, own, mts>>

(* MTC0 of Index.                                                          *)
SetIndex ==
  /\ \E i \in 1..TlbSize : index' = i
  /\ told' = Other
  /\ UNCHANGED <<family, cp0, tlb, own, mts>>

(* TLBP: the last entry that is for the page, without a look at its size;  *)
(* an index beyond the TLB if there is none.                               *)
mips64_cp0_exec_tlbp ==
  LET hits == {i \in 1..TlbSize : tlb[i].vpn = cp0.vpn /\ (tlb[i].g \/ tlb[i].asid = cp0.asid)}
  IN  /\ index' = IF hits = {} THEN 0 ELSE Max(hits)
      /\ told' = Other
      /\ UNCHANGED <<family, cp0, tlb, own, mts>>

(* TLBR: an entry that is global shows it in both halves, and EntryHi takes *)
(* the address space of the entry.                                         *)
mips64_cp0_exec_tlbr ==
  /\ IF index \in 1..TlbSize
     THEN LET e == tlb[index]
          IN  /\ cp0' = [vpn |-> e.vpn, asid |-> e.asid, size |-> e.size,
                         lo |-> [h \in 1..2 |-> [e.lo[h] EXCEPT !.g = e.g]]]
              /\ told' = [op |-> "change"]
     ELSE cp0' = cp0 /\ told' = Other
  /\ UNCHANGED <<family, index, tlb, own, mts>>

(* The MTS entries of a TLB entry go, if it had any page: the whole cache  *)
(* is emptied.                                                             *)
mips64_cp0_unmap_even(i) == IF tlb[i].lo[1].valid THEN invalidate_cache ELSE mts' = mts
mips64_cp0_unmap_tlb_to_mts(i) ==
  IF tlb[i].lo[1].valid \/ tlb[i].lo[2].valid THEN invalidate_cache ELSE mts' = mts

(* TLBW at an index; what it forgets is what the old entry translated.     *)
mips64_cp0_exec_tlbw(i) ==
  LET new == [vpn |-> Base(cp0.vpn, 2 * cp0.size), asid |-> cp0.asid, size |-> cp0.size,
              g |-> cp0.lo[1].g /\ cp0.lo[2].g,
              lo |-> [h \in 1..2 |-> [cp0.lo[h] EXCEPT !.g = FALSE]]]
      clash(e) == (new.g \/ e.g \/ e.asid = new.asid) /\ Extent(e) \cap Extent(new) # {}
  IN  /\ \A k \in 1..TlbSize : k = i \/ ~clash(tlb[k])
      /\ mips64_cp0_unmap_tlb_to_mts(i)
      /\ tlb' = [tlb EXCEPT ![i] = new]
      /\ told' = IF tlb[i].lo[1].valid \/ tlb[i].lo[2].valid
                 THEN [op |-> "forget", keys |-> Covered(tlb[i])] ELSE [op |-> "change"]
      /\ UNCHANGED <<family, cp0, index, own>>

(* TLBWI with an index beyond the TLB does nothing.                        *)
mips64_cp0_exec_tlbwi ==
  IF index \in 1..TlbSize THEN mips64_cp0_exec_tlbw(index)
  ELSE told' = Other /\ UNCHANGED <<family, cp0, index, tlb, own, mts>>
mips64_cp0_exec_tlbwr == \E i \in (Wired + 1)..TlbSize : mips64_cp0_exec_tlbw(i)

(* A hit, or a look-up whose result replaces the entry of the page unless  *)
(* the page is a device's.  A store through an entry that is shared looks  *)
(* up again.  No translation makes an exception.                           *)
Access ==
  \E v \in VPage, write \in BOOLEAN :
    LET e    == mts[BucketOf[v]]
        hit  == e.v = v /\ ~(write /\ e.cow)
        p    == slow_lookup(v)
        s    == sparse_host(p, write)
        host == IF p = None THEN None ELSE IF p \in Sparse THEN s.host ELSE <<p, "ram">>
        use(x) == [op |-> "use", key |-> v, value |-> x]
        dup  == p \in Sparse /\ s.own # own
    IN  /\ IF hit THEN told' = use(e.host) /\ UNCHANGED <<own, mts>>
           ELSE /\ own' = IF p \in Sparse THEN s.own ELSE own
                /\ mts' = IF p = None \/ p \in Device THEN mts
                          ELSE [mts EXCEPT ![BucketOf[v]] =
                                  [v |-> v, p |-> p, host |-> host, cow |-> p \in Sparse /\ s.cow]]
                /\ told' = IF dup THEN [op |-> "forget", keys |-> {v}] ELSE use(host)
        /\ UNCHANGED <<family, cp0, index, tlb>>

(* mips64_reset, or devices that come and go: the cache is rebuilt empty.  *)
mts_rebuild ==
  /\ mts # [b \in Bucket |-> NoEntry]
  /\ invalidate_cache
  /\ told' = [op |-> "forget", keys |-> VPage]
  /\ UNCHANGED <<family, cp0, index, tlb, own>>

MipsMmuNext ==
  \/ mips64_cp0_set_reg \/ SetIndex \/ mips64_cp0_exec_tlbp \/ mips64_cp0_exec_tlbr
  \/ mips64_cp0_exec_tlbwi \/ mips64_cp0_exec_tlbwr \/ Access \/ mts_rebuild
MipsMmuSpec == MipsMmuInit /\ [][MipsMmuNext]_mipsMmuVars

-----------------------------------------------------------------------------
(* Where a page lies, by the architecture: direct if its address is in an  *)
(* unmapped segment; else where an entry of its address space says.        *)
Translated(v) ==
  IF family = 64 THEN ZoneOf[64][v].zone \in {"xkuseg", "xksseg", "xkseg"}
                      \/ ZoneOf[64][v].sub \in {"cksseg", "ckseg3"}
  ELSE ZoneOf[32][v] \in {"kuseg", "ksseg", "kseg3"}
Translation(v) ==
  LET at(e) == e.lo[1 + ((v - e.vpn) \div e.size)].p + ((v - e.vpn) % e.size)
      mine == {i \in 1..TlbSize : Translates(tlb[i], v) /\ (tlb[i].g \/ tlb[i].asid = cp0.asid)}
  IN  IF family = 64 /\ ZoneOf[64][v].zone = "bad" THEN None
      ELSE IF ~Translated(v) THEN Direct[v]
      ELSE IF mine = {} THEN None ELSE at(tlb[CHOOSE i \in mine : TRUE])
HostPage(p) ==
  CASE p = None -> None
    [] p \in Sparse -> <<p, IF p \in own \/ ~Ghosted THEN "own" ELSE "ghost">>
    [] OTHER -> <<p, "ram">>

(* An access reaches the host page that the address stands for now, or one *)
(* that it stood for at some time since an entry for it was last replaced  *)
(* in the TLB.                                                             *)
Kept(v) == LET e == mts[BucketOf[v]] IN IF e.v = v THEN {e.host} ELSE {}
Current == [v \in VPage |-> HostPage(Translation(v))]
Stale == [v \in VPage |-> {h \in Kept(v) : h # HostPage(Translation(v))}]
=============================================================================
