------------------------------ MODULE PpcAmd64 ------------------------------
(***************************************************************************)
(* The PowerPC translator for x86-64 hosts (ppc32_amd64_trans.c): what it  *)
(* does its own way, and which code each instruction has.                  *)
(***************************************************************************)
EXTENDS PpcTrans

HRegs == <<"si", "ax", "cx", "dx", "r13", "r14", "di">>

emit_memop(i, pc)      == EmitMemop(i, pc, rsi, r14)
emit_memop_fast(i, pc) == EmitMemopFast(i, pc, rsi, <<>>)
EmitLoad(i, pc)        == IF Fast(i) THEN emit_memop_fast(i, pc) ELSE emit_memop(i, pc)
EmitStore(i, pc)       == IF Fast(i) THEN emit_memop_fast(i, pc) ELSE emit_memop(i, pc)

(* The register keeps eight bytes of the time base.                        *)
EmitTimeBase(i, h) ==
  << output(<< mov(8, Reg(h[1]), Cell("tb")), alu("ADD", 8, Reg(h[1]), Imm(50)),
               mov(8, Cell("tb"), Reg(h[1])) >>),
     store_gpr(i.d, h[1]) >>

(* h: rcx, rs, ra.  The shift is of 64 bits, by a count of six, and RCX    *)
(* keeps what the code makes of rb.                                        *)
EmitShiftWord(i, h) ==
  LET a == Reg(h[3])
  IN  << alter_host_reg("cx"), load_gpr(h[2], i.d), load_gpr("cx", i.b),
         output(<< alu("AND", 8, rcx, Imm(2 * Bits(4) - 1)) >> \o Copy(a, Reg(h[2]))
                \o << shift(IF i.op = "SLW" THEN "SHL" ELSE "SHR", 8, a, rcx) >> \o TestIf(i, a)) >>
      \o Result(i, i.a, h[3])

(* The code of each entry of ppc32_insn_tags.                              *)
Ops(i, h, pc) ==
  CASE ~Translated(i)             -> emit_unknown(i, pc)
    [] Returns(i)                 -> EmitReturn(i, h, pc)
    [] i.op = "BCLR" /\ ~Returns(i) -> EmitBranchLr(i, h, pc)
    [] i.op = "B"                 -> EmitBranch(i, pc)
    [] CcBranch(i)                -> EmitBranchCc(i, pc)
    [] i.op = "BC" /\ ~CcBranch(i) -> EmitBranchCond(i, h, pc)
    [] i.op \in {"MFLR", "MTLR", "MFCTR", "MTCTR", "MFTBU"} -> EmitMoveSpecial(i, h)
    [] i.op = "MFTBL"             -> EmitTimeBase(i, h)
    [] i.op \in {"ADD", "ADDC"}   -> EmitAdd(i, h)
    [] i.op = "ADDE"              -> EmitAddExtended(i, h)
    [] i.op \in {"ADDI", "ADDIC", "ADDIS"} -> EmitAddImmediate(i, h)
    [] i.op = "ADDZE"             -> EmitAddZero(i, h)
    [] i.op \in {"AND", "ANDC"}   -> EmitAnd(i, h)
    [] i.op \in {"ANDI", "ANDIS"} -> EmitAndImmediate(i, h)
    [] i.op \in {"CMP", "CMPI", "CMPL", "CMPLI"} -> EmitCompare(i, h)
    [] i.op \in {"CRAND", "CRANDC"} -> EmitCrAnd(i)
    [] i.op \in {"CREQV", "CRNAND", "CRNOR"} -> EmitCrNot(i)
    [] i.op \in {"CROR", "CRORC", "CRXOR"} -> EmitCrOr(i)
    [] i.op = "DIVWU"             -> EmitDivide(i, h)
    [] i.op = "EQV"               -> EmitEqv(i, h)
    [] i.op \in {"EXTSB", "EXTSH"} -> EmitExtend(i, h)
    [] i.op \in Loads             -> EmitLoad(i, pc)
    [] i.op \in Stores            -> EmitStore(i, pc)
    [] i.op \in {"MCRF", "MFCR", "MTCRF", "MFMSR", "MFSR"} -> EmitCrMove(i, h)
    [] i.op \in {"MULHW", "MULHWU", "MULLI", "MULLW"} -> EmitMultiply(i, h)
    [] i.op \in {"NAND", "NOR"}   -> EmitNot(i, h)
    [] i.op = "NEG"               -> EmitNegate(i, h)
    [] i.op \in {"OR", "ORC"}     -> EmitOr(i, h)
    [] i.op \in {"ORI", "ORIS"}   -> EmitOrImmediate(i, h)
    [] i.op \in {"RLWIMI", "RLWINM", "RLWNM"} -> EmitRotate(i, h)
    [] i.op \in {"SLW", "SRW"}    -> EmitShiftWord(i, h)
    [] i.op = "SRAWI"             -> EmitShiftArithmetic(i, h)
    [] i.op = "SUBF"              -> EmitSubtract(i, h)
    [] i.op \in {"SUBFC", "SUBFE"} -> EmitSubtractCarry(i, h)
    [] i.op = "SUBFIC"            -> EmitSubtractImmediate(i, h)
    [] i.op = "SYNC"              -> <<>>
    [] i.op = "XOR"               -> EmitXor(i, h)
    [] i.op \in {"XORI", "XORIS"} -> EmitXorImmediate(i, h)

(* The code of a page, for a CPU at ia.                                    *)
Code(page, start, ia) ==
  GenPage(EmitPage(Requests, Ops, HRegs, page, start, ia), HRegs, Gen,
          set_page_jump(start), start)
=============================================================================
