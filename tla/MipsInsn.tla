------------------------------ MODULE MipsInsn ------------------------------
(***************************************************************************)
(* What the interpreter (mips64_exec.c) and the two translators            *)
(* (mips64_amd64_trans.c, mips64_x86_trans.c) share: the instructions, and *)
(* the C functions all three call for what is not arithmetic (the memory   *)
(* operations of mips_mts.c, the CP0 and FPU transfers, the exceptions).   *)
(*                                                                         *)
(* An instruction is a record: op; rs, rt and rd, the cells its register   *)
(* fields name; imm (Bits(2) wide); sa (below Bits(4)); index, the target  *)
(* of J and JAL; fast, whether the CPU inlines loads and stores            *)
(* (cpu->fast_memop); and, for a branch or a jump, slot, the instruction   *)
(* of its delay slot.                                                      *)
(*                                                                         *)
(* The cells of a guest are r1, r2, r3, ra and zero (its registers), hi,   *)
(* lo, pc and ll (ll_bit); ret_pc is the field the x86 code keeps a jump   *)
(* target in, and mts is 1 when the MTS cache has an entry for the page of *)
(* an access that it may go through (for a store: not copy-on-write).      *)
(***************************************************************************)
EXTENDS HostCode

CONSTANTS LoadValue,      \* what any load or transfer leaves in its register
          ExcVector,      \* where an exception goes
          ReturnPc,       \* where eret goes (EPC or ErrorEPC)
          PageInsns       \* the instructions of a page, which is translated as a whole

MipsCells == {"zero", "r1", "r2", "r3", "ra", "hi", "lo", "pc", "ll", "ret_pc", "mts", "blk"}

LoadOps  == {"LB", "LBU", "LD", "LDL", "LDR", "LH", "LHU", "LL", "LW", "LWL",
             "LWR", "LWU"}
StoreOps == {"SB", "SC", "SD", "SDL", "SDR", "SH", "SW", "SWL", "SWR"}
MemOps   == LoadOps \cup StoreOps \cup {"CACHE", "LDC1", "SDC1"}
GetOps   == {"CFC0", "MFC0", "DMFC0", "MFC1", "DMFC1"}   \* into a register
PutOps   == {"CTC0", "MTC0", "DMTC0", "MTC1", "DMTC1"}   \* from a register
TlbOps   == {"TLBP", "TLBR", "TLBWI", "TLBWR"}

Likely   == {"BEQL", "BGEZALL", "BGEZL", "BGTZL", "BLEZL", "BLTZALL", "BLTZL", "BNEL"}
Linking  == {"BGEZAL", "BGEZALL", "BLTZAL", "BLTZALL"}
Branches == Likely \cup Linking \cup {"B", "BAL", "BEQ", "BEQZ", "BNEZ", "BGEZ",
                                      "BGTZ", "BLEZ", "BLTZ", "BNE"}
Jumps    == {"J", "JAL", "JALR", "JR"}

SX(n, from)      == SignExt(n, from, 8)
SXImm(i)         == SX(i.imm, 2)
PageOf(pc)       == pc - (pc % (4 * PageInsns))
Local(pc, here)  == PageOf(pc) = PageOf(here)
BranchTarget(i, pc) == Wrap(pc + 4 + Signed(i.imm, 2) * 4, 8)
JumpTarget(i, pc)   == (pc - (pc % 2 ^ (Bits(4) - 4))) + i.index * 4

(* What a memory operation leaves: a load its register; LL sets the link   *)
(* bit, and SC answers it (load, one and ll: those values, or the operands *)
(* that hold them).                                                        *)
MemSets(op, reg, load, one, ll) ==
  CASE op = "LL" -> << <<reg, load>>, <<"ll", one>> >>
    [] op = "SC" -> << <<reg, ll>> >>
    [] op \in LoadOps \ {"LL"} -> << <<reg, load>> >>
    [] OTHER     -> <<>>
=============================================================================
