------------------------------- MODULE PpcX86 -------------------------------
(***************************************************************************)
(* The PowerPC translator for x86 hosts (ppc32_x86_trans.c): four host     *)
(* registers, and what it does its own way.  The groups below are the      *)
(* functions of the file in their order; those that write what the x86-64  *)
(* translator writes, in instructions of 32 bits, are PpcTrans's.          *)
(***************************************************************************)
EXTENDS PpcTrans

HRegs == <<"si", "ax", "cx", "dx">>

(* vaddr is an argument in edx.  The in-line access has it in ebx.         *)
emit_memop(i, pc)      == EmitMemop(i, pc, rdx, rsi)
emit_memop_fast(i, pc) == EmitMemopFast(i, pc, rbx, << mov(4, rdx, rbx) >>)
EmitUnknown(i, pc)     == emit_unknown(i, pc)
ReturnOps(i, h, pc)    == EmitReturn(i, h, pc)

(* The time base goes through two registers of four bytes.                 *)
TimeBase(i, h) ==
  LET d == Reg(h[1])
  IN  << output(<< mov(4, d, Cell("tb")), mov(4, rbx, High("tb")), alu("ADD", 4, d, Imm(50)),
                   alu("ADC", 4, rbx, Imm(0)), mov(4, Cell("tb"), d), mov(4, High("tb"), rbx) >>),
         store_gpr(i.d, h[1]) >>
MoveOps(i, h) == IF i.op = "MFTBL" THEN TimeBase(i, h) ELSE EmitMoveSpecial(i, h)

AddOps(i, h) == IF i.op = "ADDE" THEN EmitAddExtended(i, h) ELSE EmitAdd(i, h)

(* ADDIS of no register is an operation of its own.                        *)
AddImmediateOps(i, h) ==
  CASE i.op = "ADDIS" /\ i.a = "r0" -> << set_imm32(h[1], HighImm(i)), store_gpr(i.d, h[1]) >>
    [] i.op = "ADDZE"              -> EmitAddZero(i, h)
    [] OTHER                       -> EmitAddImmediate(i, h)
AndOps(i, h) == IF i.op \in {"AND", "ANDC"} THEN EmitAnd(i, h) ELSE EmitAndImmediate(i, h)
BranchOps(i, pc) == IF i.op = "B" THEN EmitBranch(i, pc) ELSE EmitBranchCc(i, pc)
ConditionOps(i, h, pc) == IF i.op = "BC" THEN EmitBranchCond(i, h, pc) ELSE EmitBranchLr(i, h, pc)
CompareOps(i, h) == EmitCompare(i, h)
CrAndOps(i) == IF i.op = "CREQV" THEN EmitCrNot(i) ELSE EmitCrAnd(i)
CrNotOps(i) == IF i.op = "CROR" THEN EmitCrOr(i) ELSE EmitCrNot(i)
CrOrOps(i)  == EmitCrOr(i)
DivideOps(i, h) ==
  CASE i.op = "DIVWU" -> EmitDivide(i, h)
    [] i.op = "EQV"   -> EmitEqv(i, h)
    [] OTHER          -> EmitExtend(i, h)
LoadOps(i, pc)  == IF Fast(i) THEN emit_memop_fast(i, pc) ELSE emit_memop(i, pc)
CrMoveOps(i, h) == EmitCrMove(i, h)
MultiplyOps(i, h) == EmitMultiply(i, h)
NotOps(i, h) == IF i.op = "NEG" THEN EmitNegate(i, h) ELSE EmitNot(i, h)
OrOps(i, h)  == IF i.op \in {"OR", "ORC"} THEN EmitOr(i, h) ELSE EmitOrImmediate(i, h)
RotateOps(i, h) == EmitRotate(i, h)

(* SLW, SRW with h: ecx, rs, ra: a count of Bits(4) or more leaves 0.      *)
ShiftOps(i, h, pc) ==
  IF i.op = "SRAWI" THEN EmitShiftArithmetic(i, h)
  ELSE << alter_host_reg("cx"), load_gpr(h[2], i.d), load_gpr("cx", i.b),
          output(<< alu("XOR", 4, rbx, rbx), test(4, rcx, Imm(Bits(4))), jcc("NE", <<"far", pc>>),
                    mov(4, rbx, Reg(h[2])),
                    shift(IF i.op = "SLW" THEN "SHL" ELSE "SHR", 4, rbx, rcx),
                    lbl(<<"far", pc>>), mov(4, Reg(h[3]), rbx) >> \o TestIf(i, Reg(h[3]))) >>
       \o Result(i, i.a, h[3])
StoreOps(i, pc) == IF Fast(i) THEN emit_memop_fast(i, pc) ELSE emit_memop(i, pc)
SubtractOps(i, h) ==
  CASE i.op = "SUBF"   -> EmitSubtract(i, h)
    [] i.op = "SUBFIC" -> EmitSubtractImmediate(i, h)
    [] OTHER           -> EmitSubtractCarry(i, h)
XorOps(i, h) ==
  CASE i.op = "SYNC" -> <<>>
    [] i.op = "XOR"  -> EmitXor(i, h)
    [] OTHER         -> EmitXorImmediate(i, h)

Ops(i, h, pc) ==
  CASE ~Translated(i)               -> EmitUnknown(i, pc)
    [] Returns(i)                   -> ReturnOps(i, h, pc)
    [] i.op \in {"MFLR", "MTLR", "MFCTR", "MTCTR", "MFTBU", "MFTBL"} -> MoveOps(i, h)
    [] i.op \in {"ADD", "ADDC", "ADDE"} -> AddOps(i, h)
    [] i.op \in {"ADDI", "ADDIC", "ADDIS", "ADDZE"} -> AddImmediateOps(i, h)
    [] i.op \in {"AND", "ANDC", "ANDI", "ANDIS"} -> AndOps(i, h)
    [] i.op = "B" \/ CcBranch(i)    -> BranchOps(i, pc)
    [] i.op \in {"BC", "BCLR"} /\ ~CcBranch(i) /\ ~Returns(i) -> ConditionOps(i, h, pc)
    [] i.op \in {"CMP", "CMPI", "CMPL", "CMPLI"} -> CompareOps(i, h)
    [] i.op \in {"CRAND", "CRANDC", "CREQV"} -> CrAndOps(i)
    [] i.op \in {"CRNAND", "CRNOR", "CROR"} -> CrNotOps(i)
    [] i.op \in {"CRORC", "CRXOR"}  -> CrOrOps(i)
    [] i.op \in {"DIVWU", "EQV", "EXTSB", "EXTSH"} -> DivideOps(i, h)
    [] i.op \in Loads               -> LoadOps(i, pc)
    [] i.op \in {"MCRF", "MFCR", "MTCRF", "MFMSR", "MFSR"} -> CrMoveOps(i, h)
    [] i.op \in {"MULHW", "MULHWU", "MULLI", "MULLW"} -> MultiplyOps(i, h)
    [] i.op \in {"NAND", "NEG", "NOR"} -> NotOps(i, h)
    [] i.op \in {"OR", "ORC", "ORI", "ORIS"} -> OrOps(i, h)
    [] i.op \in {"RLWIMI", "RLWINM", "RLWNM"} -> RotateOps(i, h)
    [] i.op \in {"SLW", "SRAWI", "SRW"} -> ShiftOps(i, h, pc)
    [] i.op \in Stores              -> StoreOps(i, pc)
    [] i.op \in {"SUBF", "SUBFC", "SUBFE", "SUBFIC"} -> SubtractOps(i, h)
    [] i.op \in {"SYNC", "XOR", "XORI", "XORIS"} -> XorOps(i, h)

(* The code of a page, for a CPU at ia.                                    *)
Code(page, start, ia) ==
  GenPage(EmitPage(Requests, Ops, HRegs, page, start, ia), HRegs, Gen,
          set_page_jump(start), start)
=============================================================================
