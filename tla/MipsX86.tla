------------------------------ MODULE MipsX86 ------------------------------
(***************************************************************************)
(* The 32-bit x86 translator: mips64_emit_<op> of mips64_x86_trans.c, one  *)
(* operator for a run of functions of one kind.  A guest register is a     *)
(* pair of words, and 64-bit arithmetic is done in halves.  pc is the      *)
(* address of i, as in MipsAmd64.                                          *)
(***************************************************************************)
EXTENDS MipsInsn

ldl(d, c) == mov(4, d, Cell(c))               \* the low word
ldh(d, c) == mov(4, d, High(c))               \* the high word
stl(c, s) == mov(4, Cell(c), s)
sth(c, s) == mov(4, High(c), s)
ldp(lo, hi, c) == << ldl(lo, c), ldh(hi, c) >>
stp(c, lo, hi) == << stl(c, lo), sth(c, hi) >>
clear(d)  == alu("XOR", 4, d, d)
sx(c)     == << stl(c, rax), cdq, sth(c, rdx) >>   \* eax, sign-extended
alup(op, op2, c) == << alu(op, 4, rax, Cell(c)), alu(op2, 4, rbx, High(c)) >>
load_imm(hi, lo, v) == << mov(4, lo, Imm(v % Size(4))), mov(4, hi, Imm(v \div Size(4))) >>
set_pc(pc) == << stl("pc", Imm(pc % Size(4))), sth("pc", Imm(pc \div Size(4))) >>
set_ra(pc) == load_imm(rdx, rax, pc) \o stp("ra", rax, rdx)

(* mips64_try_direct_far_jump: both words of start_pc are compared.  (blk  *)
(* stands for a pointer, whatever its value: it is read whole.)             *)
far_jump(pc) ==
  LET page == PageOf(pc)
  IN  << mov(8, rdx, Cell("blk")), test(8, rdx, rdx), jcc("E", "back"),
         mov(4, rax, Imm(page % Size(4))), alu("CMP", 4, rax, StartOf(page, 0)), jcc("NE", "back"),
         mov(4, rcx, Imm(page \div Size(4))), alu("CMP", 4, rcx, StartOf(page, 1)), jcc("NE", "back"),
         mov(4, rbx, EntryAt), test(4, rbx, rbx), jcc("E", "back"),
         enter(8, page, pc - page), lbl("back") >> \o set_pc(pc) \o << ret >>
set_jump(pc, here) == IF Local(pc, here) THEN << jump(pc) >> ELSE far_jump(pc)

-----------------------------------------------------------------------------
Sets(i) == MemSets(i.op, i.rt, Imm(LoadValue), Imm(1), Cell("ll"))

emit_memop(i, pc, keep) ==
  set_pc(pc)
  \o (IF keep THEN <<>> ELSE << clear(rax), stl("ll", rax) >>)
  \o load_imm(rcx, rdx, SXImm(i))
  \o << alu("ADD", 4, rdx, Cell(i.rs)), alu("ADC", 4, rcx, High(i.rs)),
        call(<<i.op, i.rt>>, <<rdx>>, Sets(i)) >>

(* As on x86-64, the inlined access leaves ll_bit as it is.                *)
emit_memop_fast(i, pc) ==
  << mov(4, rbx, Imm(SXImm(i))), alu("ADD", 4, rbx, Cell(i.rs)),
     test(4, Cell("mts"), Imm(1)), jcc("E", "test1"),
     inline(<<i.op, i.rt>>, <<rbx>>, Sets(i)), jmp("exit"),
     lbl("test1") >> \o set_pc(pc)
  \o << mov(4, rax, rbx), cdq, mov(4, rcx, rdx), mov(4, rdx, rax),
        call(<<i.op, i.rt>>, <<rdx>>, Sets(i)), lbl("exit") >>

emit_cp_xfr_op(i, pc) ==
  set_pc(pc) \o << call(<<i.op, i.rt, i.rd>>, <<>>,
                        IF i.op \in GetOps THEN << <<i.rt, Imm(LoadValue)>> >> ELSE <<>>) >>

-----------------------------------------------------------------------------
EmitAddAnd(i) ==
  CASE i.op \in {"ADD", "ADDU"} ->
         << ldl(rax, i.rs), alu("ADD", 4, rax, Cell(i.rt)) >> \o sx(i.rd)
    [] i.op \in {"ADDI", "ADDIU"} ->
         << mov(4, rax, Imm(SXImm(i))), alu("ADD", 4, rax, Cell(i.rs)) >> \o sx(i.rt)
    [] i.op = "AND"  -> ldp(rax, rbx, i.rs) \o alup("AND", "AND", i.rt) \o stp(i.rd, rax, rbx)
    [] i.op = "ANDI" -> << mov(4, rax, Imm(i.imm)), clear(rbx), alu("AND", 4, rax, Cell(i.rs)) >>
                        \o stp(i.rt, rax, rbx)

EmitBreakCache(i, pc) ==          \* BREAK leaves pc as the last call left it
  CASE i.op = "BREAK" -> << call(<<i.op>>, <<>>, << <<"pc", Imm(ExcVector)>> >>), ret >>
    [] i.op = "CACHE" -> emit_memop(i, pc, FALSE)
    [] i.op \in {"CFC0", "CTC0"} -> emit_cp_xfr_op(i, pc)

EmitDoubleAdd(i) ==
  CASE i.op = "DADDIU" ->
         load_imm(rbx, rax, SXImm(i)) \o alup("ADD", "ADC", i.rs) \o stp(i.rt, rax, rbx)
    [] i.op = "DADDU" -> ldp(rax, rbx, i.rs) \o alup("ADD", "ADC", i.rt) \o stp(i.rd, rax, rbx)

(* What a division or a wide multiplication leaves in edx:eax.             *)
StoreHiLo == << mov(4, rcx, rdx) >> \o sx("lo") \o << mov(4, rax, rcx) >> \o sx("hi")

EmitDivide(i) ==
  (IF i.op = "DIV" THEN << ldl(rax, i.rs), cdq >> ELSE << clear(rdx), ldl(rax, i.rs) >>)
  \o << ldl(rbx, i.rt), div(4, rbx, i.op = "DIV") >> \o StoreHiLo

(* The shifts by sa and by cl; the processor takes cl modulo 32.           *)
EmitDoubleShift(i) ==
  LET op == CASE i.op \in {"DSLL", "DSLL32", "DSLLV"} -> "SHL"
              [] i.op \in {"DSRA", "DSRA32", "DSRAV"} -> "SAR"
              [] i.op \in {"DSRL", "DSRL32", "DSRLV"} -> "SHR"
              [] i.op = "DSUBU" -> "SUB"
      by(k) == IF op = "SHL" THEN << shld(rbx, rax, k), shift(op, 4, rax, k) >>
                             ELSE << shrd(rax, rbx, k), shift(op, 4, rbx, k) >>
  IN  CASE i.op \in {"DSLL", "DSRA", "DSRL"} ->
             ldp(rax, rbx, i.rt) \o by(Imm(i.sa)) \o stp(i.rd, rax, rbx)
        [] i.op = "DSLL32" ->
             << ldl(rax, i.rt), shift(op, 4, rax, Imm(i.sa)), clear(rdx) >> \o stp(i.rd, rdx, rax)
        [] i.op = "DSRA32" ->
             << ldh(rax, i.rt), shift(op, 4, rax, Imm(i.sa)), cdq >> \o stp(i.rd, rax, rdx)
        [] i.op = "DSRL32" ->
             << ldh(rax, i.rt), shift(op, 4, rax, Imm(i.sa)), clear(rdx) >> \o stp(i.rd, rax, rdx)
        [] i.op \in {"DSLLV", "DSRAV", "DSRLV"} ->
             ldp(rax, rbx, i.rt) \o << ldl(rcx, i.rs), alu("AND", 4, rcx, Imm(Bits(8) - 1)) >>
             \o by(rcx) \o stp(i.rd, rax, rbx)
        [] i.op = "DSUBU" -> ldp(rax, rbx, i.rs) \o alup("SUB", "SBB", i.rt) \o stp(i.rd, rax, rbx)

EmitLoad(i, pc) ==
  CASE i.op = "LW" /\ i.fast -> emit_memop_fast(i, pc)
    [] i.op = "LI"  -> << stl(i.rt, Imm(SXImm(i) % Size(4))), sth(i.rt, Imm(SXImm(i) \div Size(4))) >>
    [] i.op = "LUI" -> load_imm(rbx, rax, Wrap(SXImm(i) * Size(2), 8)) \o stp(i.rt, rax, rbx)
    [] OTHER -> emit_memop(i, pc, TRUE)

EmitMove(i, pc) ==
  CASE i.op \in {"MFC0", "MFC1", "MTC0", "MTC1"} -> emit_cp_xfr_op(i, pc)
    [] i.op = "MFHI" -> ldp(rax, rbx, "hi") \o stp(i.rd, rax, rbx)
    [] i.op = "MFLO" -> IF i.rd = "zero" THEN <<>> ELSE ldp(rax, rbx, "lo") \o stp(i.rd, rax, rbx)
    [] i.op = "MOVE" -> IF i.rs # "zero" THEN << ldl(rax, i.rs) >> \o sx(i.rd)
                        ELSE << clear(rbx) >> \o stp(i.rd, rbx, rbx)
    [] i.op = "MTHI" -> ldp(rax, rbx, i.rs) \o stp("hi", rax, rbx)
    [] i.op = "MTLO" -> ldp(rax, rbx, i.rs) \o stp("lo", rax, rbx)

EmitMultiply(i) ==
  << ldl(rax, i.rs), ldl(rbx, i.rt), mul(4, rbx, i.op # "MULTU") >>
  \o (IF i.op = "MUL" THEN sx(i.rd) ELSE StoreHiLo)

EmitOr(i) ==
  CASE i.op \in {"NOP", "PREF", "PREFI"} -> <<>>
    [] i.op = "NOR" -> ldp(rax, rbx, i.rs) \o alup("OR", "OR", i.rt)
                       \o << notw(4, rax), notw(4, rbx) >> \o stp(i.rd, rax, rbx)
    [] i.op = "OR"  -> ldp(rax, rbx, i.rs) \o alup("OR", "OR", i.rt) \o stp(i.rd, rax, rbx)
    [] i.op = "ORI" -> << mov(4, rax, Imm(i.imm)), ldh(rbx, i.rs), alu("OR", 4, rax, Cell(i.rs)) >>
                       \o stp(i.rt, rax, rbx)

EmitStore(i, pc) == emit_memop(i, pc, i.op = "SC")           \* SB to SDC1, SH

(* SRL and SRLV store a zero high word, the others the sign.               *)
ShiftBy(i, op, k) ==
  << ldl(rax, i.rt), shift(op, 4, rax, k) >>
  \o (IF op = "SHR" THEN << stl(i.rd, rax), clear(rdx), sth(i.rd, rdx) >> ELSE sx(i.rd))
Amount(i) == << ldl(rcx, i.rs), alu("AND", 4, rcx, Imm(Bits(4) - 1)) >>

EmitShiftLeft(i) ==
  IF i.op = "SLLV" THEN Amount(i) \o ShiftBy(i, "SHL", rcx) ELSE ShiftBy(i, "SHL", Imm(i.sa))

(* The high words decide unless they are equal.                            *)
EmitSetLess(i) ==
  LET with == i.op \in {"SLTI", "SLTIU"}
      d    == IF with THEN i.rt ELSE i.rd
      over  == IF i.op \in {"SLT", "SLTI"} THEN "GT" ELSE "A"
      below == IF i.op \in {"SLT", "SLTI"} THEN "LT" ELSE "B"
  IN  (IF with THEN load_imm(rdx, rax, SXImm(i)) ELSE ldp(rax, rdx, i.rt))
      \o ldp(rcx, rbx, i.rs) \o << clear(rsi) >> \o stp(d, rsi, rsi)
      \o << alu("CMP", 4, rbx, rdx), jcc(over, "end"), jcc(below, "test2"),
            alu("CMP", 4, rcx, rax), jcc("AE", "end"),
            lbl("test2"), inc(4, Cell(d)), lbl("end") >>

EmitShiftRight(i) ==
  LET op == IF i.op \in {"SRA", "SRAV"} THEN "SAR" ELSE "SHR"
  IN  IF i.op \in {"SRAV", "SRLV"} THEN Amount(i) \o ShiftBy(i, op, rcx)
      ELSE ShiftBy(i, op, Imm(i.sa))

EmitSub(i) == << ldl(rax, i.rs), alu("SUB", 4, rax, Cell(i.rt)) >> \o sx(i.rd)

EmitWordStore(i, pc) ==
  IF i.op = "SW" /\ i.fast THEN emit_memop_fast(i, pc) ELSE emit_memop(i, pc, FALSE)

EmitTrap(i, pc) ==
  LET raise == set_pc(pc) \o << call(<<i.op>>, <<>>, << <<"pc", Imm(ExcVector)>> >>), ret >>
  IN  CASE i.op = "SYNC"    -> <<>>
        [] i.op = "SYSCALL" -> raise
        [] i.op = "TEQ"     ->
             << ldl(rcx, i.rs), alu("CMP", 4, rcx, Cell(i.rt)), jcc("NE", "test1"),
                ldh(rbx, i.rs), alu("CMP", 4, rbx, High(i.rt)), jcc("NE", "test1") >>
             \o raise \o << lbl("test1") >>
        [] i.op = "TEQI"    ->
             load_imm(rdx, rax, SXImm(i))
             \o << ldl(rcx, i.rs), alu("CMP", 4, rcx, rax), jcc("NE", "test1"),
                   ldh(rbx, i.rs), alu("CMP", 4, rbx, rdx), jcc("NE", "test1") >>
             \o raise \o << lbl("test1") >>
        [] i.op \in TlbOps  -> set_pc(pc) \o << call(<<i.op>>, <<>>, <<>>) >>

EmitXor(i) ==
  IF i.op = "XOR" THEN ldp(rax, rbx, i.rs) \o alup("XOR", "XOR", i.rt) \o stp(i.rd, rax, rbx)
  ELSE load_imm(rbx, rax, i.imm) \o alup("XOR", "XOR", i.rs) \o stp(i.rt, rax, rbx)

EmitEret(pc) ==
  set_pc(pc) \o << call(<<"ERET">>, <<>>, << <<"ll", Imm(0)>>, <<"pc", Imm(ReturnPc)>> >>), ret >>

-----------------------------------------------------------------------------
(* Dispatch on the opcode: mips64_insn_tags.                               *)
EmitPlain(i, pc) ==
  CASE i.op \in {"ADD", "ADDU", "ADDI", "ADDIU", "AND", "ANDI"} -> EmitAddAnd(i)
    [] i.op \in {"BREAK", "CACHE", "CFC0", "CTC0"} -> EmitBreakCache(i, pc)
    [] i.op \in {"DADDIU", "DADDU"}              -> EmitDoubleAdd(i)
    [] i.op \in {"DIV", "DIVU"}                  -> EmitDivide(i)
    [] i.op \in {"DMFC0", "DMFC1", "DMTC0", "DMTC1"} -> emit_cp_xfr_op(i, pc)
    [] i.op \in {"DSLL", "DSRA", "DSRL", "DSLL32", "DSRA32", "DSRL32", "DSLLV",
                 "DSRAV", "DSRLV", "DSUBU"}      -> EmitDoubleShift(i)
    [] i.op \in LoadOps \cup {"LDC1", "LI", "LUI"} -> EmitLoad(i, pc)
    [] i.op \in {"MFC0", "MFC1", "MTC0", "MTC1", "MFHI", "MFLO", "MOVE", "MTHI",
                 "MTLO"}                         -> EmitMove(i, pc)
    [] i.op \in {"MUL", "MULT", "MULTU"}         -> EmitMultiply(i)
    [] i.op \in {"NOP", "PREF", "PREFI", "NOR", "OR", "ORI"} -> EmitOr(i)
    [] i.op \in {"SW", "SWL", "SWR"}             -> EmitWordStore(i, pc)
    [] i.op \in (StoreOps \ {"SW", "SWL", "SWR"}) \cup {"SDC1"} -> EmitStore(i, pc)
    [] i.op \in {"SLL", "SLLV"}                  -> EmitShiftLeft(i)
    [] i.op \in {"SRA", "SRAV", "SRL", "SRLV"}   -> EmitShiftRight(i)
    [] i.op \in {"SLT", "SLTI", "SLTIU", "SLTU"} -> EmitSetLess(i)
    [] i.op \in {"SUB", "SUBU"}                  -> EmitSub(i)
    [] i.op \in {"XOR", "XORI"}                  -> EmitXor(i)
    [] i.op \in {"SYNC", "SYSCALL", "TEQ", "TEQI"} \cup TlbOps -> EmitTrap(i, pc)

Slot(i, pc, kind) == nest(EmitPlain(i.slot, IF kind = 1 THEN pc + 4 ELSE pc))

(* The tests jump to "notaken" when the branch falls through; one that is  *)
(* sure to be taken before the last test jumps to "taken".                 *)
Skeleton(i, pc, tests) ==
  tests \o << lbl("taken"),
              Slot(i, pc, IF i.op \in Likely THEN 1 ELSE 2) >>
        \o set_jump(BranchTarget(i, pc), pc) \o << lbl("notaken") >>
        \o (IF i.op \in Likely THEN <<>> ELSE << Slot(i, pc, 1) >>)

EmitBranchAlways(i, pc) ==
  (IF i.op = "BAL" THEN set_ra(pc + 8) ELSE <<>>)
  \o << Slot(i, pc, 1) >> \o set_jump(BranchTarget(i, pc), pc)

EmitBranchEq(i, pc) ==
  LET zero(half) == alu("CMP", 4, half, Imm(0))
  IN  Skeleton(i, pc,
        CASE i.op \in {"BEQ", "BEQL"} ->
               << ldl(rax, i.rs), alu("CMP", 4, rax, Cell(i.rt)), jcc("NE", "notaken"),
                  ldh(rbx, i.rs), alu("CMP", 4, rbx, High(i.rt)), jcc("NE", "notaken") >>
          [] i.op = "BEQZ" -> << zero(Cell(i.rs)), jcc("NE", "notaken"),
                                 zero(High(i.rs)), jcc("NE", "notaken") >>
          [] i.op = "BNEZ" -> << zero(Cell(i.rs)), jcc("NE", "taken"),
                                 zero(High(i.rs)), jcc("E", "notaken") >>)

EmitBranchGez(i, pc) ==
  (IF i.op \in Linking THEN set_ra(pc + 8) ELSE <<>>)
  \o Skeleton(i, pc, << ldh(rax, i.rs), test(4, rax, rax), jcc("S", "notaken") >>)

(* The sign, then the high word, then the low one.                         *)
EmitBranchGtzLez(i, pc) ==
  LET high == << ldh(rax, i.rs), test(4, rax, rax) >>
      low  == << ldl(rbx, i.rs), test(4, rbx, rbx) >>
  IN  Skeleton(i, pc,
        IF i.op \in {"BGTZ", "BGTZL"}
        THEN high \o << jcc("S", "notaken"), jcc("NE", "taken") >> \o low \o << jcc("E", "notaken") >>
        ELSE high \o << jcc("S", "taken"), jcc("NE", "notaken") >> \o low \o << jcc("NE", "notaken") >>)

EmitBranchLtz(i, pc) ==
  (IF i.op \in Linking THEN set_ra(pc + 8) ELSE <<>>)
  \o Skeleton(i, pc, << ldh(rax, i.rs), test(4, rax, rax), jcc("NS", "notaken") >>)

EmitBranchNe(i, pc) ==
  Skeleton(i, pc, << ldl(rax, i.rs), alu("CMP", 4, rax, Cell(i.rt)), jcc("NE", "taken"),
                     ldh(rbx, i.rs), alu("CMP", 4, rbx, High(i.rt)), jcc("E", "notaken") >>)

(* JALR and JR keep the target in cpu->ret_pc over the slot.               *)
EmitJump(i, pc) ==
  LET keep   == ldp(rcx, rdx, i.rs) \o stp("ret_pc", rcx, rdx)
      leave  == ldp(rcx, rdx, "ret_pc") \o stp("pc", rcx, rdx) \o << ret >>
      target == JumpTarget(i, pc + 4)
  IN  CASE i.op = "J"    -> << Slot(i, pc, 1) >> \o set_jump(target, pc)
        [] i.op = "JAL"  -> set_ra(pc + 8) \o << Slot(i, pc, 1) >> \o set_jump(target, pc)
        [] i.op = "JALR" -> load_imm(rbx, rax, pc + 8) \o stp(i.rd, rax, rbx)
                            \o keep \o << Slot(i, pc, 1) >> \o leave
        [] i.op = "JR"   -> keep \o << Slot(i, pc, 1) >> \o leave

Emit(i, pc) ==
  CASE i.op \in {"B", "BAL"}                     -> EmitBranchAlways(i, pc)
    [] i.op \in {"BEQ", "BEQL", "BEQZ", "BNEZ"}  -> EmitBranchEq(i, pc)
    [] i.op \in {"BGEZ", "BGEZAL", "BGEZALL", "BGEZL"} -> EmitBranchGez(i, pc)
    [] i.op \in {"BGTZ", "BGTZL", "BLEZ", "BLEZL"} -> EmitBranchGtzLez(i, pc)
    [] i.op \in {"BLTZ", "BLTZAL", "BLTZALL", "BLTZL"} -> EmitBranchLtz(i, pc)
    [] i.op \in {"BNE", "BNEL"}                  -> EmitBranchNe(i, pc)
    [] i.op \in Jumps                            -> EmitJump(i, pc)
    [] i.op = "ERET"                             -> EmitEret(pc)
    [] OTHER                                     -> EmitPlain(i, pc)
=============================================================================
