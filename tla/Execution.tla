----------------------------- MODULE Execution ------------------------------
(***************************************************************************)
(* What the CPU thread of a VM relies on while it runs guest code: the     *)
(* code cache and the address translation of its processor, a PowerPC or a *)
(* MIPS64, and the accesses to memory.  A behaviour is of one of these     *)
(* parts; part says of which, the others rest.                             *)
(***************************************************************************)
EXTENDS Naturals, Sequences, TLC

CONSTANTS
  None, DataPage, CodePage, Phys, Map, OnDevice, Untranslated, Vectors, Offset, Slot, SlotOf, Bucket,
  BucketOf, PhysSlotOf, ExecPage, Content, MaxFill, MaxChunks, Threshold, UndefMax,  \* PpcCode
  DelaySlot,                                                                         \* MipsCode
  Page, SegSize, PtegSize, Vsid, Pid, Modes, Bats, Mappings,                         \* PpcMmu
  MtsBucket, MtsBucketOf, Device, Sparse, Ghosted, TlbSize,
  MipsPage, ZoneOf, Direct, Contents, Wired, Asid, MipsBucketOf,                     \* MipsMmu
  Size, MaxSteps                                                                     \* MemOps

VARIABLES
  part,
  mem, jit, dmts, running, halted, said,
  family, msr, bat, sr, sdr1, tlb, pid, pteg, mapped, own, mts, told, cp0, index,
  memory, gpr, ll_bit, steps, did

codeVars == <<mem, jit, dmts, running, halted, said>>
mmuVars  == <<family, msr, bat, sr, sdr1, tlb, pid, pteg, mapped, own, mts, told, cp0, index>>
memVars  == <<memory, gpr, ll_bit, steps, did>>

PC == INSTANCE PpcCode
MC == INSTANCE MipsCode
PM == INSTANCE PpcMmu WITH VPage <- Page, Bucket <- MtsBucket, BucketOf <- MtsBucketOf
MM == INSTANCE MipsMmu WITH VPage <- MipsPage, Bucket <- MtsBucket, BucketOf <- MipsBucketOf
MO == INSTANCE MemOps

ASSUME ExecutionAssumption ==
  PC!PpcCodeAssumption /\ MC!MipsCodeAssumption /\ PM!PpcMmuAssumption /\ MM!MipsMmuAssumption
  /\ MO!MemOpsAssumption

-----------------------------------------------------------------------------
(* The variables of the parts that rest.                                   *)
Idle == <<>>
NoCode   == mem = Idle /\ jit = Idle /\ running = Idle /\ halted = Idle /\ said = [op |-> "start"]
NoPpcMmu == msr = Idle /\ bat = Idle /\ sr = Idle /\ sdr1 = Idle /\ pid = Idle /\ pteg = Idle
            /\ mapped = Idle
NoMipsMmu == cp0 = Idle /\ index = Idle
NoMmu    == /\ NoPpcMmu /\ NoMipsMmu
            /\ family = Idle /\ tlb = Idle /\ own = Idle /\ mts = Idle /\ told = [op |-> "start"]
NoMem    == memory = Idle /\ gpr = Idle /\ ll_bit = Idle /\ steps = Idle /\ did = [op |-> "start"]

ExecutionInit ==
  \/ part = "ppc code"  /\ PC!CodeInit /\ NoMmu /\ NoMem
  \/ part = "mips code" /\ MC!CodeInit /\ dmts = Idle /\ NoMmu /\ NoMem
  \/ part = "ppc mmu"   /\ PM!MmuInit /\ NoMipsMmu /\ NoCode /\ dmts = Idle /\ NoMem
  \/ part = "mips mmu"  /\ MM!MipsMmuInit /\ NoPpcMmu /\ NoCode /\ dmts = Idle /\ NoMem
  \/ part = "memory"    /\ MO!MemInit /\ NoCode /\ dmts = Idle /\ NoMmu

PpcCodeStep  == part = "ppc code" /\ PC!CodeNext /\ UNCHANGED <<part, mmuVars, memVars>>
MipsCodeStep == part = "mips code" /\ MC!CodeNext /\ UNCHANGED <<part, dmts, mmuVars, memVars>>
PpcMmuStep   == part = "ppc mmu" /\ PM!MmuNext /\ UNCHANGED <<part, cp0, index, codeVars, memVars>>
MipsMmuStep  == /\ part = "mips mmu" /\ MM!MipsMmuNext
                /\ UNCHANGED <<part, msr, bat, sr, sdr1, pid, pteg, mapped, codeVars, memVars>>
MemoryStep   == part = "memory" /\ MO!MemNext /\ UNCHANGED <<part, codeVars, mmuVars>>

ExecutionNext == PpcCodeStep \/ MipsCodeStep \/ PpcMmuStep \/ MipsMmuStep \/ MemoryStep
ExecutionSpec == ExecutionInit /\ [][ExecutionNext]_<<part, codeVars, mmuVars, memVars>>

-----------------------------------------------------------------------------
(* Every page of the exec area is free or belongs to one block, once; the  *)
(* code generator writes into the block's own buffer, and the code that    *)
(* runs has not been given to another block (exec_page_alloc,              *)
(* exec_page_free, ppc32_jit_tcb_recompile).                               *)
PagesOwned ==
  /\ part = "ppc code" => PC!PagesOwned
  /\ part = "mips code" => MC!PagesOwned

(* A block is listed once, is what its hash slot holds, and, on a PowerPC, *)
(* is found by its physical page; nothing leads to a block that was freed  *)
(* (ppc32_jit_tcb_free, ppc32_jit_flush, mips64_jit_flush).                *)
BlocksFound ==
  /\ part = "ppc code" => PC!BlocksFound
  /\ part = "mips code" => MC!BlocksFound

(* The code caches are stale caches of the pages of code: a page runs as   *)
(* it is now, or as it was at some time since the last ICBI, CACHE, flush  *)
(* or reset that had to make the CPU forget it (ppc32_icbi, mips64_jit_    *)
(* tcb_free).                                                              *)
CodeNow == CASE part = "ppc code" -> PC!Current [] part = "mips code" -> MC!Current [] OTHER -> Idle
CodeKept == CASE part = "ppc code" -> PC!Stale [] part = "mips code" -> MC!Stale [] OTHER -> Idle
Code == INSTANCE StaleCache WITH current <- CodeNow, stale <- CodeKept
ForgottenCode == Code!Spec

(* The MTS caches are stale caches of the address translation: an access   *)
(* reaches the host page that its address stands for now, or one that it   *)
(* stood for at some time since the last BAT, segment register or SDR1     *)
(* change, TLBIA or TLBIE, or since its TLB entry was replaced             *)
(* (ppc32_mem_access, mips64_cp0_exec_tlbw).                               *)
PagesNow == CASE part = "ppc mmu" -> PM!Current [] part = "mips mmu" -> MM!Current [] OTHER -> Idle
PagesKept == CASE part = "ppc mmu" -> PM!Stale [] part = "mips mmu" -> MM!Stale [] OTHER -> Idle
Mts == INSTANCE StaleCache WITH current <- PagesNow, stale <- PagesKept, said <- told
ForgottenPages == Mts!Spec

(* Every load and store moves the bytes that its address and width name,   *)
(* and no other byte of memory changes; a pair of instructions for a word  *)
(* that is not aligned too, in either order (mips_mts.c, ppc32_mem.c).     *)
AccessWhole == [][part = "memory" => MO!Whole /\ MO!Elsewhere]_memVars

-----------------------------------------------------------------------------
(* The instance checked:                                                     *)
(* code caches with three pages of code, two of which share a hash slot and  *)
(* one of which is on a device, and an exec area of three pages, so that     *)
(* blocks have to be flushed while another is compiled.  A page table with   *)
(* two groups of one entry, a TLB of two entries, and one bucket in a        *)
(* translation cache, so that every page displaces every other; a page of a  *)
(* device and a page that is shared until it is written to.                  *)
CONSTANTS va, vb, vd, ve, pa, pb, pd, s1, s2, m1

MCMap == (va :> pa) @@ (vb :> pb) @@ (vd :> pd) @@ (ve :> pa)
MCSlotOf == (va :> s1) @@ (vb :> s2) @@ (vd :> s1)
MCBucketOf == (ve :> m1)
MCPhysSlotOf == (pa :> s1) @@ (pb :> s1) @@ (pd :> s2)
MCOffset == (va :> {0, 1}) @@ (vb :> {0}) @@ (vd :> {0})
MCExecPage == <<1, 2, 3>>

MCModes == {[ir |-> FALSE, dr |-> FALSE, pr |-> FALSE], [ir |-> TRUE, dr |-> TRUE, pr |-> TRUE]}
MCBats == { [vs |-> FALSE, vp |-> FALSE, bepi |-> 0, len |-> 1, brpn |-> 0],
            [vs |-> FALSE, vp |-> TRUE, bepi |-> 0, len |-> 2, brpn |-> 2] }
MCMappings == {<<0, 0, 1>>, <<1, 0, 3>>, <<1, 1, 1>>}
MCMtsBucketOf == [v \in 0..1 |-> m1]

On(p, g) == [valid |-> TRUE, p |-> p, g |-> g]
Unset == [valid |-> FALSE, p |-> 0, g |-> FALSE]
MCZoneOf ==
  (32 :> [v \in 0..4 |-> IF v = 4 THEN "kseg0" ELSE "kuseg"]) @@
  (64 :> [v \in 0..4 |-> IF v = 4 THEN [zone |-> "top", sub |-> "ckseg0"]
                         ELSE [zone |-> "xkuseg", sub |-> "none"]])
MCDirect == [v \in 0..4 |-> IF v = 4 THEN 1 ELSE None]
MCContents == { [vpn |-> 0, size |-> 1, lo |-> <<Unset, On(3, FALSE)>>],
                [vpn |-> 0, size |-> 2, lo |-> <<On(2, TRUE), On(0, TRUE)>>] }
MCMipsBucketOf == [v \in {0, 1, 3, 4} |-> m1]
=============================================================================
