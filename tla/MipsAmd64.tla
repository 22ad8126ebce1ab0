----------------------------- MODULE MipsAmd64 -----------------------------
(***************************************************************************)
(* The x86-64 translator: mips64_emit_<op> of mips64_amd64_trans.c, one    *)
(* operator for a run of functions of one kind, each the host code it      *)
(* emits for instruction i at address pc.  While it runs,                  *)
(* b->mips_trans_pos is already past i: the code's "mips_trans_pos - 1" is *)
(* pc here and its "mips_trans_pos" is pc + 4.                             *)
(***************************************************************************)
EXTENDS MipsInsn

ld(d, c)       == mov(8, d, Cell(c))
st(c, s)       == mov(8, Cell(c), s)
ld4(d, c)      == mov(4, d, Cell(c))
load_imm(d, v) == mov(8, d, Imm(v))           \* mips64_load_imm
clear(d)       == alu("XOR", 8, d, d)
set_pc_behind(pc) == << load_imm(rax, pc + 4), st("pc", rax) >>
set_pc(pc)     == << load_imm(rax, pc), st("pc", rax) >>
set_ra(pc)     == << load_imm(rax, pc), st("ra", rax) >>

(* mips64_try_direct_far_jump: four bytes of the block's start_pc are      *)
(* compared.                                                               *)
far_jump(pc) ==
  LET page == PageOf(pc)
  IN  << ld(rdx, "blk"), test(8, rdx, rdx), jcc("E", "back"),
         load_imm(rax, page), alu("CMP", 4, rax, StartOf(page, 0)), jcc("NE", "back"),
         mov(8, rbx, EntryAt), test(8, rbx, rbx), jcc("E", "back"),
         enter(8, page, pc - page), lbl("back") >> \o set_pc(pc) \o << ret >>
set_jump(pc, here) == IF Local(pc, here) THEN << jump(pc) >> ELSE far_jump(pc)

-----------------------------------------------------------------------------
(* A C function is called after pc was stored, because it may raise an     *)
(* exception; a slow memory access too.                                    *)
Sets(i) == MemSets(i.op, i.rt, Imm(LoadValue), Imm(1), Cell("ll"))

emit_memop(i, pc, keep) ==
  set_pc(pc)
  \o (IF keep THEN <<>> ELSE << clear(rcx), mov(4, Cell("ll"), rcx) >>)
  \o << load_imm(rsi, SXImm(i)), alu("ADD", 8, rsi, Cell(i.rs)),
        call(<<i.op, i.rt>>, <<rsi>>, Sets(i)) >>

(* The inlined access goes through the MTS entry of the page; ll_bit stays *)
(* as it is, whatever keep_ll_bit says.                                    *)
emit_memop_fast(i, pc) ==
  << mov(4, rsi, Imm(SXImm(i))), alu("ADD", 4, rsi, Cell(i.rs)),
     test(4, Cell("mts"), Imm(1)), jcc("E", "test1"),
     inline(<<i.op, i.rt>>, <<rsi>>, Sets(i)), jmp("exit"),
     lbl("test1") >> \o set_pc(pc)
  \o << movsxd(rsi, rsi), call(<<i.op, i.rt>>, <<rsi>>, Sets(i)), lbl("exit") >>

emit_cp_xfr_op(i, pc) ==
  set_pc(pc) \o << call(<<i.op, i.rt, i.rd>>, <<>>,
                        IF i.op \in GetOps THEN << <<i.rt, Imm(LoadValue)>> >> ELSE <<>>) >>

-----------------------------------------------------------------------------
EmitAddAnd(i) ==
  CASE i.op \in {"ADD", "ADDU"} ->
         << ld(rax, i.rs), alu("ADD", 8, rax, Cell(i.rt)), movsxd(rax, rax), st(i.rd, rax) >>
    [] i.op = "ADDI" ->
         << load_imm(rax, SXImm(i)), alu("ADD", 8, rax, Cell(i.rs)), movsxd(rax, rax),
            st(i.rt, rax) >>
    [] i.op = "ADDIU" ->
         << load_imm(rax, SXImm(i)) >>
         \o (IF i.rs = "zero" THEN <<>> ELSE << alu("ADD", 8, rax, Cell(i.rs)) >>)
         \o << movsxd(rdx, rax), st(i.rt, rdx) >>
    [] i.op = "AND"  -> << ld(rax, i.rs), alu("AND", 8, rax, Cell(i.rt)), st(i.rd, rax) >>
    [] i.op = "ANDI" -> << load_imm(rax, i.imm), alu("AND", 8, rax, Cell(i.rs)), st(i.rt, rax) >>

EmitBreakCache(i, pc) ==          \* BREAK leaves pc as the last call left it
  CASE i.op = "BREAK" -> << call(<<i.op>>, <<>>, << <<"pc", Imm(ExcVector)>> >>), ret >>
    [] i.op = "CACHE" -> emit_memop(i, pc, FALSE)
    [] i.op \in {"CFC0", "CTC0"} -> emit_cp_xfr_op(i, pc)

EmitDoubleAdd(i) ==
  CASE i.op = "DADDIU" ->
         << load_imm(rcx, SXImm(i)), alu("ADD", 8, rcx, Cell(i.rs)), st(i.rt, rcx) >>
    [] i.op = "DADDU" -> << ld(rcx, i.rs), alu("ADD", 8, rcx, Cell(i.rt)), st(i.rd, rcx) >>

EmitDivide(i) ==
  << clear(rdx), ld4(rax, i.rs), ld4(rcx, i.rt), div(4, rcx, i.op = "DIV"),
     movsxd(rax, rax), st("lo", rax), movsxd(rdx, rdx), st("hi", rdx) >>

EmitDoubleShift(i) ==
  LET op == CASE i.op \in {"DSLL", "DSLL32", "DSLLV"} -> "SHL"
              [] i.op \in {"DSRA", "DSRA32", "DSRAV"} -> "SAR"
              [] i.op \in {"DSRL", "DSRL32", "DSRLV"} -> "SHR"
              [] i.op = "DSUBU" -> "SUB"
  IN  CASE i.op \in {"DSLL", "DSRA", "DSRL"} ->
             << ld(rax, i.rt), shift(op, 8, rax, Imm(i.sa)), st(i.rd, rax) >>
        [] i.op \in {"DSLL32", "DSRA32", "DSRL32"} ->
             << ld(rax, i.rt), shift(op, 8, rax, Imm(i.sa + Bits(4))), st(i.rd, rax) >>
        [] i.op \in {"DSLLV", "DSRAV", "DSRLV"} ->
             << ld4(rcx, i.rs), alu("AND", 8, rcx, Imm(Bits(8) - 1)), ld(rax, i.rt),
                shift(op, 8, rax, rcx), st(i.rd, rax) >>
        [] i.op = "DSUBU" ->
             << ld(rax, i.rs), alu(op, 8, rax, Cell(i.rt)), st(i.rd, rax) >>

EmitLoad(i, pc) ==
  CASE i.op = "LW" /\ i.fast -> emit_memop_fast(i, pc)
    [] i.op = "LI"  -> << load_imm(rcx, SXImm(i)), st(i.rt, rcx) >>
    [] i.op = "LUI" -> << load_imm(rcx, Wrap(SXImm(i) * Size(2), 8)), st(i.rt, rcx) >>
    [] OTHER -> emit_memop(i, pc, TRUE)

EmitMove(i, pc) ==
  CASE i.op \in {"MFC0", "MFC1", "MTC0", "MTC1"} -> emit_cp_xfr_op(i, pc)
    [] i.op = "MFHI" -> << ld(rdx, "hi"), st(i.rd, rdx) >>
    [] i.op = "MFLO" -> IF i.rd = "zero" THEN <<>> ELSE << ld(rdx, "lo"), st(i.rd, rdx) >>
    [] i.op = "MOVE" -> << ld4(rdx, i.rs), movsxd(rdx, rdx), st(i.rd, rdx) >>
    [] i.op = "MTHI" -> << ld(rdx, i.rs), st("hi", rdx) >>
    [] i.op = "MTLO" -> << ld(rdx, i.rs), st("lo", rdx) >>

EmitMultiply(i) ==
  << ld4(rax, i.rs), ld4(rcx, i.rt), mul(4, rcx, i.op # "MULTU"), movsxd(rax, rax) >>
  \o (IF i.op = "MUL" THEN << st(i.rd, rax) >>
      ELSE << st("lo", rax), movsxd(rdx, rdx), st("hi", rdx) >>)

EmitOr(i) ==
  CASE i.op \in {"NOP", "PREF", "PREFI"} -> <<>>
    [] i.op = "NOR" ->
         << ld(rax, i.rs), alu("OR", 8, rax, Cell(i.rt)), notw(8, rax), st(i.rd, rax) >>
    [] i.op = "OR"  -> << ld(rax, i.rs), alu("OR", 8, rax, Cell(i.rt)), st(i.rd, rax) >>
    [] i.op = "ORI" -> << load_imm(rax, i.imm), alu("OR", 8, rax, Cell(i.rs)), st(i.rt, rax) >>

EmitStore(i, pc) == emit_memop(i, pc, i.op = "SC")           \* SB to SDC1, SH

(* The destination is cleared and then incremented.                        *)
EmitSetLess(i) ==
  LET end  == IF i.op \in {"SLT", "SLTI"} THEN "GE" ELSE "AE"
      with == i.op \in {"SLTI", "SLTIU"}
      d    == IF with THEN i.rt ELSE i.rd
  IN  (IF with THEN << load_imm(rdx, SXImm(i)), ld(rax, i.rs) >>
               ELSE << ld(rdx, i.rs), ld(rax, i.rt) >>)
      \o << clear(rcx), st(d, rcx),
            IF with THEN alu("CMP", 8, rax, rdx) ELSE alu("CMP", 8, rdx, rax),
            jcc(end, "test1"), inc(8, Cell(d)), lbl("test1") >>

(* The load is of 4 bytes and clears the high half of rax; only SAR shifts *)
(* 4 bytes, SHL and SHR shift all of it.                                   *)
ShiftBy(i, op, k) ==
  << ld4(rax, i.rt), shift(op, IF op = "SAR" THEN 4 ELSE 8, rax, k), movsxd(rax, rax),
     st(i.rd, rax) >>
Amount(i) == << ld4(rcx, i.rs), alu("AND", 8, rcx, Imm(Bits(4) - 1)) >>

EmitShiftLeft(i) ==
  IF i.op = "SLLV" THEN Amount(i) \o ShiftBy(i, "SHL", rcx) ELSE ShiftBy(i, "SHL", Imm(i.sa))

EmitShiftRight(i) ==
  LET op == IF i.op \in {"SRA", "SRAV"} THEN "SAR" ELSE "SHR"
  IN  IF i.op \in {"SRAV", "SRLV"} THEN Amount(i) \o ShiftBy(i, op, rcx)
      ELSE ShiftBy(i, op, Imm(i.sa))

EmitSub(i) ==
  << ld(rax, i.rs), alu("SUB", 8, rax, Cell(i.rt)), movsxd(rax, rax), st(i.rd, rax) >>

EmitWordStore(i, pc) ==
  IF i.op = "SW" /\ i.fast THEN emit_memop_fast(i, pc) ELSE emit_memop(i, pc, FALSE)

EmitTrap(i, pc) ==
  LET raise == set_pc(pc) \o << call(<<i.op>>, <<>>, << <<"pc", Imm(ExcVector)>> >>), ret >>
  IN  CASE i.op = "SYNC"    -> <<>>
        [] i.op = "SYSCALL" -> raise
        [] i.op = "TEQ"     -> << ld(rax, i.rs), alu("CMP", 8, rax, Cell(i.rt)),
                                  jcc("NE", "test1") >> \o raise \o << lbl("test1") >>
        [] i.op = "TEQI"    -> << load_imm(rdx, SXImm(i)), ld(rax, i.rs),
                                  alu("CMP", 8, rax, rdx), jcc("NE", "test1") >>
                               \o raise \o << lbl("test1") >>
        [] i.op \in TlbOps  -> set_pc(pc) \o << call(<<i.op>>, <<>>, <<>>) >>

EmitXor(i) ==
  IF i.op = "XOR" THEN << ld(rax, i.rs), alu("XOR", 8, rax, Cell(i.rt)), st(i.rd, rax) >>
  ELSE << load_imm(rax, i.imm), alu("XOR", 8, rax, Cell(i.rs)), st(i.rt, rax) >>

EmitEret(pc) ==
  set_pc(pc) \o << call(<<"ERET">>, <<>>, << <<"ll", Imm(0)>>, <<"pc", Imm(ReturnPc)>> >>), ret >>

-----------------------------------------------------------------------------
(* Dispatch on the opcode: mips64_insn_tags.                               *)
EmitPlain(i, pc) ==
  CASE i.op \in {"ADD", "ADDU", "ADDI", "ADDIU", "AND", "ANDI"} -> EmitAddAnd(i)
    [] i.op \in {"BREAK", "CACHE", "CFC0", "CTC0"} -> EmitBreakCache(i, pc)
    [] i.op \in {"DADDIU", "DADDU"}              -> EmitDoubleAdd(i)
    [] i.op \in {"DIV", "DIVU"}                  -> EmitDivide(i)
    [] i.op \in {"DMFC0", "DMFC1", "DMTC0", "DMTC1"} -> emit_cp_xfr_op(i, pc)
    [] i.op \in {"DSLL", "DSRA", "DSRL", "DSLL32", "DSRA32", "DSRL32", "DSLLV",
                 "DSRAV", "DSRLV", "DSUBU"}      -> EmitDoubleShift(i)
    [] i.op \in LoadOps \cup {"LDC1", "LI", "LUI"} -> EmitLoad(i, pc)
    [] i.op \in {"MFC0", "MFC1", "MTC0", "MTC1", "MFHI", "MFLO", "MOVE", "MTHI",
                 "MTLO"}                         -> EmitMove(i, pc)
    [] i.op \in {"MUL", "MULT", "MULTU"}         -> EmitMultiply(i)
    [] i.op \in {"NOP", "PREF", "PREFI", "NOR", "OR", "ORI"} -> EmitOr(i)
    [] i.op \in {"SW", "SWL", "SWR"}             -> EmitWordStore(i, pc)
    [] i.op \in (StoreOps \ {"SW", "SWL", "SWR"}) \cup {"SDC1"} -> EmitStore(i, pc)
    [] i.op \in {"SLL", "SLLV"}                  -> EmitShiftLeft(i)
    [] i.op \in {"SRA", "SRAV", "SRL", "SRLV"}   -> EmitShiftRight(i)
    [] i.op \in {"SLT", "SLTI", "SLTIU", "SLTU"} -> EmitSetLess(i)
    [] i.op \in {"SUB", "SUBU"}                  -> EmitSub(i)
    [] i.op \in {"XOR", "XORI"}                  -> EmitXor(i)
    [] i.op \in {"SYNC", "SYSCALL", "TEQ", "TEQI"} \cup TlbOps -> EmitTrap(i, pc)

(* mips64_jit_fetch_and_emit for a delay slot: kind 1 moves mips_trans_pos *)
(* past the slot, kind 2 leaves it, so the slot's code takes the branch's  *)
(* address for its own.                                                    *)
Slot(i, pc, kind) == nest(EmitPlain(i.slot, IF kind = 1 THEN pc + 4 ELSE pc))

(* end is the condition under which the branch is not taken.  An ordinary  *)
(* branch has its slot on both paths, a likely one on the taken path.      *)
Skeleton(i, pc, cond, end) ==
  cond \o << jcc(end, "notaken"),
             Slot(i, pc, IF i.op \in Likely THEN 1 ELSE 2) >>
        \o set_jump(BranchTarget(i, pc), pc) \o << lbl("notaken") >>
       \o (IF i.op \in Likely THEN <<>> ELSE << Slot(i, pc, 1) >>)

EmitBranchAlways(i, pc) ==
  (IF i.op = "BAL" THEN set_ra(pc + 8) ELSE <<>>)
  \o << Slot(i, pc, 1) >> \o set_jump(BranchTarget(i, pc), pc)

EmitBranchEq(i, pc) ==
  CASE i.op \in {"BEQ", "BEQL"} ->
         Skeleton(i, pc, << ld(rax, i.rs), alu("CMP", 8, rax, Cell(i.rt)) >>, "NE")
    [] i.op = "BEQZ" -> Skeleton(i, pc, << ld(rax, i.rs), test(8, rax, rax) >>, "NE")
    [] i.op = "BNEZ" -> Skeleton(i, pc, << ld(rax, i.rs), test(8, rax, rax) >>, "E")

EmitBranchGez(i, pc) ==
  (IF i.op \in Linking THEN set_ra(pc + 8) ELSE <<>>)
  \o Skeleton(i, pc, << ld(rax, i.rs), test(8, rax, rax) >>, "S")

EmitBranchGtzLez(i, pc) ==
  Skeleton(i, pc, << ld(rax, i.rs), clear(rcx), alu("CMP", 8, rax, rcx) >>,
           IF i.op \in {"BGTZ", "BGTZL"} THEN "LE" ELSE "GT")

EmitBranchLtz(i, pc) ==
  (IF i.op \in Linking THEN set_ra(pc + 8) ELSE <<>>)
  \o Skeleton(i, pc, << ld(rax, i.rs), test(8, rax, rax) >>, "NS")

EmitBranchNe(i, pc) ==
  Skeleton(i, pc, << ld(rax, i.rs), alu("CMP", 8, rax, Cell(i.rt)) >>, "E")

(* J takes its high bits from the address of the slot.  JALR and JR keep   *)
(* the target in r14 over the slot.                                        *)
EmitJump(i, pc) ==
  CASE i.op = "J"    -> << Slot(i, pc, 1) >> \o set_jump(JumpTarget(i, pc + 4), pc)
    [] i.op = "JAL"  -> set_ra(pc + 8) \o << Slot(i, pc, 1) >> \o set_jump(JumpTarget(i, pc + 4), pc)
    [] i.op = "JALR" -> << load_imm(rax, pc + 8), st(i.rd, rax), ld(r14, i.rs),
                           Slot(i, pc, 1), st("pc", r14), ret >>
    [] i.op = "JR"   -> << ld(r14, i.rs), Slot(i, pc, 1), st("pc", r14), ret >>

Emit(i, pc) ==
  CASE i.op \in {"B", "BAL"}                     -> EmitBranchAlways(i, pc)
    [] i.op \in {"BEQ", "BEQL", "BEQZ", "BNEZ"}  -> EmitBranchEq(i, pc)
    [] i.op \in {"BGEZ", "BGEZAL", "BGEZALL", "BGEZL"} -> EmitBranchGez(i, pc)
    [] i.op \in {"BGTZ", "BGTZL", "BLEZ", "BLEZL"} -> EmitBranchGtzLez(i, pc)
    [] i.op \in {"BLTZ", "BLTZAL", "BLTZALL", "BLTZL"} -> EmitBranchLtz(i, pc)
    [] i.op \in {"BNE", "BNEL"}                  -> EmitBranchNe(i, pc)
    [] i.op \in Jumps                            -> EmitJump(i, pc)
    [] i.op = "ERET"                             -> EmitEret(pc)
    [] OTHER                                     -> EmitPlain(i, pc)
=============================================================================
