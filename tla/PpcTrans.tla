------------------------------ MODULE PpcTrans ------------------------------
(***************************************************************************)
(* What the PowerPC translators for x86-64 and x86 hosts write alike       *)
(* (ppc32_amd64_trans.c, and ppc32_x86_trans.c with instructions of 32     *)
(* bits): the operations of each instruction, given the host registers it  *)
(* got.  h is the sequence of them, in the order of the requests; rbx is   *)
(* never allocated and is the temporary one (get_tmp_hreg).                *)
(***************************************************************************)
EXTENDS PpcInsn

CONSTANT Wide              \* the size of an instruction that names none: 8, 4 on x86

set_ia(pc)        == << mov(4, Cell("pc"), Imm(pc)) >>
set_lr(i, pc)     == IF i.lk THEN << mov(4, Cell("lr"), Imm(pc + 4)) >> ELSE <<>>
Destination(i, pc) == Wrap((IF i.aa THEN 0 ELSE pc) + i.disp * 4, 4)

load_imm(d, v)    == IF v = 0 THEN << alu("XOR", Wide, d, d) >> ELSE << mov(4, d, Imm(v)) >>

(* ppc32_try_direct_far_jump: into the code of the block that the hash of  *)
(* ia finds, if it is the one of ia's page and has code for ia; else back  *)
(* to the loop.  The page is loaded into esi; what is compared differs.    *)
TryFarJump(ia, pc, compared) ==
  LET page == PageOf(ia)
      back == <<"back", pc>>
  IN  << mov(Wide, rdx, Cell("blk")), test(Wide, rdx, rdx), jcc("E", back) >>
      \o load_imm(rsi, page)
      \o << alu("CMP", 4, compared, StartOf(page, 0)), jcc("NE", back),
            mov(Wide, rbx, EntryAt), test(Wide, rbx, rbx), jcc("E", back),
            enter(4, page, ia - page), lbl(back) >> \o set_ia(ia) \o << ret >>

(* On x86-64 it is eax, which the code before may have left at anything.   *)
Amd64FarJump(ia, pc) == TryFarJump(ia, pc, rax)
Amd64FarAlters       == << alter_host_reg("bx"), alter_host_reg("dx"), alter_host_reg("si") >>
X86FarJump(ia, pc)   == TryFarJump(ia, pc, rsi)
X86FarAlters         == << alter_host_reg("si"), alter_host_reg("dx") >>

far_jump(ia, pc) == IF Wide = 8 THEN Amd64FarJump(ia, pc) ELSE X86FarJump(ia, pc)
set_page_jump(start) == far_jump(start + 4 * PageInsns, start + 4 * PageInsns)

(* ppc32_set_jump: inside the page a jump, to be patched.  The operations  *)
(* it appends come behind the one its code is in.                          *)
set_jump(ia, pc)    == IF Local(ia, pc) THEN << jmp(At(ia)) >> ELSE far_jump(ia, pc)
jump_alters(ia, pc) == CASE Local(ia, pc) -> <<>>
                         [] ~Local(ia, pc) /\ Wide = 8 -> Amd64FarAlters
                         [] ~Local(ia, pc) /\ Wide = 4 -> X86FarAlters

(* What an instruction appends once its code is written.                   *)
Result(i, r, h)   == << store_gpr(r, h) >> \o (IF i.dot THEN update_flags("cr0", TRUE) ELSE <<>>)
TestIf(i, x)      == IF i.dot THEN << test(4, x, x) >> ELSE <<>>
Copy(d, s)        == IF d = s THEN <<>> ELSE << mov(4, d, s) >>

(* d := x op y, when d may be x or y: registers of the guest are equal iff *)
(* the host registers that map them are.                                   *)
Combine(op, d, x, y) ==
  CASE d = x -> << alu(op, 4, d, y) >>
    [] d = y -> << alu(op, 4, d, x) >>
    [] OTHER -> << mov(4, d, x), alu(op, 4, d, y) >>

(* The tables eflags_to_cr_signed, eflags_to_cr_unsigned; SO is not copied.*)
update_cr(f, signed) == << crtable(signed, rax, rdx), mov(4, Cell(f), rax) >>

Gen(op) ==
  CASE op[1] = "output" -> op[2]
    [] op[1] = "load"   -> << mov(4, Reg(op[2]), Cell(op[3])) >>
    [] op[1] = "store"  -> << mov(4, Cell(op[3]), Reg(op[2])) >>
    [] op[1] = "flags"  -> update_cr(op[2], op[3])
    [] op[1] = "setimm" -> load_imm(Reg(op[2]), op[3])
    [] OTHER            -> <<>>

-----------------------------------------------------------------------------
(* Memory.  The value of a load goes straight to the register's cell.      *)
MemopSets(i) == IF IsLoad(i.op) THEN << <<i.d, Imm(Loaded(i.op))>> >> ELSE <<>>
Memop(kind(_, _, _), i, x) ==
  << kind(<<i.op, i.d>>, IF IsLoad(i.op) THEN << x >> ELSE << x, Cell(i.d) >>, MemopSets(i)) >>

(* The address, in x.                                                      *)
Updates(i) == i.form \in {"U", "UX"}
Indexes(i) == i.form \in {"X", "UX"}
Address(i, x) ==
  (IF Indexes(i) THEN << mov(4, x, Cell(i.b)) >> ELSE load_imm(x, SignExt(i.imm, 2, 4)))
  \o (IF Updates(i) \/ i.a # "r0" THEN << alu("ADD", 4, x, Cell(i.a)) >> ELSE <<>>)

(* ppc32_emit_memop and ppc32_emit_memop_idx: vaddr in x; a form that      *)
(* updates keeps it in y, which a call does not lose.                      *)
EmitMemop(i, pc, x, y) ==
  << branch_here, eob,
     output(set_ia(pc) \o Address(i, x)
       \o (IF Updates(i) THEN << mov(4, y, x) >> ELSE <<>>)
       \o Memop(call, i, x)
       \o (IF Updates(i) THEN << mov(4, Cell(i.a), y) >> ELSE <<>>)) >>

(* ppc32_emit_memop_fast: in line when the MTS cache has the page.         *)
EmitMemopFast(i, pc, x, before) ==
  << branch_here, eob,
     output(Address(i, x)
       \o << test(4, Cell("mts"), Imm(1)), jcc("E", <<"miss", pc>>) >>
       \o Memop(inline, i, x)
       \o << jmp(<<"exit", pc>>), lbl(<<"miss", pc>>) >>
       \o set_ia(pc) \o before \o Memop(call, i, IF before = <<>> THEN x ELSE rdx)
       \o << lbl(<<"exit", pc>>) >>) >>
Fast(i) == i.op \in {"LBZ", "LWZ", "STB", "STW"} /\ i.form = ""

(* ppc32_emit_unknown: the interpreter; a result that is not zero says     *)
(* that it set ia, and leaves the block.                                   *)
emit_unknown(i, pc) == << output(set_ia(pc) \o << exec(i) >>), eob >>

-----------------------------------------------------------------------------
(* BLR and BCTR, which do not clear the low bits of the target.            *)
EmitReturn(i, h, pc) ==
  LET t == Reg(h[1])
  IN  << alter_host_reg(h[1]),
         output(<< mov(4, t, Cell(IF i.op = "BCLR" THEN "lr" ELSE "ctr")), mov(4, Cell("pc"), t) >>
                \o set_lr(i, pc) \o << ret >>),
         eob, branch_target(pc + 4) >>

EmitMoveSpecial(i, h) ==
  LET r == Reg(h[1])
  IN  CASE i.op = "MFLR"  -> << output(<< mov(4, r, Cell("lr")) >>), store_gpr(i.d, h[1]) >>
        [] i.op = "MTLR"  -> << load_gpr(h[1], i.d), output(<< mov(4, Cell("lr"), r) >>) >>
        [] i.op = "MFCTR" -> << output(<< mov(4, r, Cell("ctr")) >>), store_gpr(i.d, h[1]) >>
        [] i.op = "MTCTR" -> << load_gpr(h[1], i.d), output(<< mov(4, Cell("ctr"), r) >>) >>
        [] i.op = "MFTBU" -> << output(<< mov(4, r, High("tb")) >>), store_gpr(i.d, h[1]) >>

(* h: rd, ra, rb.                                                          *)
EmitAdd(i, h) ==
  LET d == Reg(h[1])
  IN  << load_gpr(h[2], i.a), load_gpr(h[3], i.b),
         output(Combine("ADD", d, Reg(h[2]), Reg(h[3]))
                \o (IF i.op = "ADD" THEN <<>>
                    ELSE << set("B", rbx), alu("AND", Wide, rbx, Imm(1)),
                            mov(4, Cell("ca"), rbx) >> \o TestIf(i, d))) >>
      \o Result(i, i.d, h[1])

(* t plus the carry and then plus y, each carry or'd into CA.  rbx is      *)
(* cleared first: set writes one byte of it.                               *)
CarryOut(first, y) ==
  << first, set("B", rbx), mov(4, Cell("ca"), rbx),
     y, set("B", rbx), alu("OR", 4, Cell("ca"), rbx) >>

(* h: ra, rb, rd, a temporary.                                             *)
EmitAddExtended(i, h) ==
  LET t == Reg(h[4])
  IN  << alter_host_reg(h[4]), load_gpr(h[1], i.a), load_gpr(h[2], i.b),
         output(<< alu("XOR", Wide, rbx, rbx), mov(4, t, Reg(h[1])) >>
                \o CarryOut(alu("ADD", 4, t, Cell("ca")), alu("ADD", 4, t, Reg(h[2])))
                \o TestIf(i, t) \o << mov(4, Reg(h[3]), t) >>) >>
      \o Result(i, i.d, h[3])

(* h: rd, and ra unless it is r0 in ADDI and ADDIS.                        *)
EmitAddImmediate(i, h) ==
  LET v == IF i.op = "ADDIS" THEN HighImm(i) ELSE SignExt(i.imm, 2, 4)
      d == Reg(h[1])
  IN  IF i.op # "ADDIC" /\ i.a = "r0"
      THEN << output(IF i.op = "ADDI" THEN load_imm(d, v) ELSE << mov(4, d, Imm(v)) >>),
              store_gpr(i.d, h[1]) >>
      ELSE << load_gpr(h[2], i.a),
              output(Copy(d, Reg(h[2])) \o << alu("ADD", 4, d, Imm(v)) >>
                     \o (IF i.op = "ADDIC" THEN << set("B", Cell("ca")) >> ELSE <<>>)) >>
           \o Result(i, i.d, h[1])

EmitAddZero(i, h) ==                                       \* h: rd, ra
  << load_gpr(h[2], i.a),
     output(<< alu("XOR", Wide, rbx, rbx) >> \o Copy(Reg(h[1]), Reg(h[2]))
            \o << alu("ADD", 4, Reg(h[1]), Cell("ca")), set("B", rbx),
                  mov(4, Cell("ca"), rbx) >>) >>
  \o Result(i, i.d, h[1])

-----------------------------------------------------------------------------
(* Logic, with h: rs, ra, rb.                                              *)
Inputs(i, h) == << load_gpr(h[1], i.d), load_gpr(h[3], i.b) >>

(* rs and, or or with the complement of rb, in rbx.                        *)
WithComplement(op, h) ==
  << mov(4, rbx, Reg(h[3])), notw(Wide, rbx) >>
  \o (IF h[1] = h[2] THEN << alu(op, 4, Reg(h[2]), rbx) >>
      ELSE << alu(op, 4, rbx, Reg(h[1])), mov(4, Reg(h[2]), rbx) >>)

EmitAnd(i, h) ==
  Inputs(i, h)
  \o << output(IF i.op = "AND" THEN Combine("AND", Reg(h[2]), Reg(h[1]), Reg(h[3]))
               ELSE WithComplement("AND", h)) >>
  \o Result(i, i.a, h[2])

EmitAndImmediate(i, h) ==                                  \* h: rs, ra
  << load_gpr(h[1], i.d),
     output(Copy(Reg(h[2]), Reg(h[1]))
            \o << alu("AND", 4, Reg(h[2]), Imm(IF i.op = "ANDI" THEN i.imm ELSE HighImm(i))) >>),
     store_gpr(i.a, h[2]) >> \o update_flags("cr0", TRUE)

-----------------------------------------------------------------------------
EmitBranch(i, pc) ==
  << output(set_lr(i, pc) \o set_jump(Destination(i, pc), pc)) >>
  \o jump_alters(Destination(i, pc), pc)
  \o << eob, branch_target(Destination(i, pc)), branch_target(pc + 4) >>

CrTest(n)   == test(4, Cell(CrField(n)), Imm(2 ^ CrBit(n)))
Cond(i)     == BitOf(i.bo, 3) = 1
LinkMark(i, pc) == IF i.lk THEN << branch_target(pc + 4) >> ELSE <<>>

(* To target if the flags say cc, and on otherwise.                        *)
JumpIf(cc, not, target, pc) ==
  IF Local(target, pc) THEN << jcc(cc, At(target)) >>
  ELSE << jcc(not, <<"skip", pc>>) >> \o set_jump(target, pc) \o << lbl(<<"skip", pc>>) >>

(* BCC: a condition of a CR bit only.                                      *)
EmitBranchCc(i, pc) ==
  LET target == Destination(i, pc)
  IN  << branch_jump,
         output(set_lr(i, pc) \o << CrTest(i.crs[1]) >>
                \o (IF Cond(i) THEN JumpIf("NE", "E", target, pc)
                    ELSE JumpIf("E", "NE", target, pc))) >>
      \o LinkMark(i, pc) \o << require_flags(CrField(i.crs[1])) >>
      \o jump_alters(target, pc) \o << branch_target(target) >>

(* Whether the branch is taken, in t: CTR counted down and the condition.  *)
Decide(i, t) ==
  << mov(4, t, Imm(1)) >>
  \o (IF BitOf(i.bo, 2) = 1 THEN <<>>
      ELSE << dec(4, Cell("ctr")), set(IF BitOf(i.bo, 1) = 1 THEN "E" ELSE "NE", rbx),
              alu("AND", Wide, t, rbx) >>)
  \o (IF BitOf(i.bo, 4) = 1 THEN <<>>
      ELSE << CrTest(i.crs[1]), set(IF Cond(i) THEN "NE" ELSE "E", rbx),
              alu("AND", Wide, t, rbx) >>)
Needs(i) == IF BitOf(i.bo, 4) = 1 THEN <<>> ELSE << require_flags(CrField(i.crs[1])) >>

EmitBranchCond(i, h, pc) ==
  LET target == Destination(i, pc)
      t      == Reg(h[1])
  IN  << branch_jump,
         output(set_lr(i, pc) \o Decide(i, t) \o << alu("AND", Wide, t, Imm(1)) >>
                \o JumpIf("NE", "E", target, pc)),
         alter_host_reg(h[1]) >>
      \o LinkMark(i, pc) \o Needs(i) \o jump_alters(target, pc) \o << branch_target(target) >>

EmitBranchLr(i, h, pc) ==
  LET t == Reg(h[1])
  IN  << alter_host_reg(h[1]),
         output(Decide(i, t) \o << mov(4, rbx, Cell("lr")) >> \o set_lr(i, pc)
                \o << alu("AND", Wide, t, Imm(1)), jcc("E", <<"skip", pc>>),
                      alu("AND", Wide, rbx, Imm(-4)), mov(4, Cell("pc"), rbx), ret,
                      lbl(<<"skip", pc>>) >>) >>
      \o Needs(i) \o LinkMark(i, pc) \o << eob >>

EmitCompare(i, h) ==
  LET cr == CrField(4 * i.crs[1])
      a  == Reg(h[1])
  IN  << load_gpr(h[1], i.a) >>
      \o (IF i.op \in {"CMP", "CMPL"}
          THEN << load_gpr(h[2], i.b), output(<< alu("CMP", 4, a, Reg(h[2])) >>) >>
          ELSE << output(<< alu("CMP", 4, a, Imm(IF i.op = "CMPI" THEN SignExt(i.imm, 2, 4)
                                                  ELSE i.imm)) >>) >>)
      \o update_flags(cr, i.op \in {"CMP", "CMPI"})

(* CR bits: rbx := dl op bl, and complemented if not; rdx is forced.  The  *)
(* set instructions write one byte.                                        *)
CrOp(i, second, op, not) ==
  LET bd == i.crs[1]
      f  == Cell(CrField(bd))
  IN  << alter_host_reg("dx"), require_flags(CrField(i.crs[2])), require_flags(CrField(i.crs[3])),
         require_flags(CrField(bd)),
         output(<< CrTest(i.crs[2]), set("NE", rdx), CrTest(i.crs[3]), set(second, rbx),
                   alu(op, Wide, rbx, rdx) >>
                \o (IF not THEN << notw(Wide, rbx) >> ELSE <<>>)
                \o << alu("AND", Wide, rbx, Imm(1)), alu("AND", 4, f, Imm(15 - 2 ^ CrBit(bd))),
                      shift("SHL", Wide, rbx, Imm(CrBit(bd))), alu("OR", 4, f, rbx) >>) >>

EmitCrAnd(i) == CrOp(i, IF i.op = "CRAND" THEN "NE" ELSE "E", "AND", FALSE)
EmitCrNot(i) == CrOp(i, "NE", CASE i.op = "CREQV" -> "XOR" [] i.op = "CRNAND" -> "AND"
                                [] i.op = "CRNOR" -> "OR", TRUE)
EmitCrOr(i)  == CrOp(i, IF i.op = "CRORC" THEN "E" ELSE "NE",
                     IF i.op = "CRXOR" THEN "XOR" ELSE "OR", FALSE)

-----------------------------------------------------------------------------
(* rdx:rax, and h[3]: rb.                                                  *)
EmitDivide(i, h) ==
  << load_gpr("ax", i.a), load_gpr(h[3], i.b),
     output(load_imm(rdx, 0) \o << div(4, Reg(h[3]), FALSE) >> \o TestIf(i, rax)) >>
  \o Result(i, i.d, "ax") \o << alter_host_reg("ax"), alter_host_reg("dx") >>

EmitEqv(i, h) ==
  Inputs(i, h)
  \o << output(Combine("XOR", Reg(h[2]), Reg(h[1]), Reg(h[3])) \o << notw(Wide, Reg(h[2])) >>
               \o TestIf(i, Reg(h[2]))) >>
  \o Result(i, i.a, h[2])

EmitExtend(i, h) ==                                        \* h: rs, ra
  LET a == Reg(h[2])
      k == Imm(IF i.op = "EXTSB" THEN 3 * B ELSE 2 * B)
  IN  << load_gpr(h[1], i.d),
         output(Copy(a, Reg(h[1])) \o << shift("SHL", 4, a, k), shift("SAR", 4, a, k) >>
                \o TestIf(i, a)) >>
      \o Result(i, i.a, h[2])

EmitCrMove(i, h) ==
  LET r == Reg(h[1])
      field(f) == CrField(4 * f)
      from(f)  == << mov(4, rbx, r) >>
                  \o (IF f = 1 THEN <<>> ELSE << shift("SHR", Wide, rbx, Imm(4)) >>)
                  \o << alu("AND", Wide, rbx, Imm(15)), mov(4, Cell(field(f)), rbx) >>
  IN  CASE i.op = "MCRF"  -> << require_flags(field(i.crs[2])),
                                output(<< mov(4, rbx, Cell(field(i.crs[2]))),
                                          mov(4, Cell(field(i.crs[1])), rbx) >>) >>
        [] i.op = "MFCR"  -> << require_flags(AllCr),
                                output(<< alu("XOR", Wide, r, r),
                                  mov(4, rbx, Cell("cr0")), shift("SHL", Wide, r, Imm(4)), alu("OR", Wide, r, rbx),
                                  mov(4, rbx, Cell("cr1")), shift("SHL", Wide, r, Imm(4)), alu("OR", Wide, r, rbx) >>),
                                store_gpr(i.d, h[1]) >>
        [] i.op = "MTCRF" -> << load_gpr(h[1], i.d),
                                output((IF BitOf(i.n, 1) = 1 THEN from(0) ELSE <<>>)
                                       \o (IF BitOf(i.n, 0) = 1 THEN from(1) ELSE <<>>)),
                                trash_flags >>
        [] i.op = "MFMSR" -> << output(<< mov(4, r, Cell("msr")) >>), store_gpr(i.d, h[1]) >>
        [] i.op = "MFSR"  -> << output(<< mov(4, r, Cell("sr")) >>), store_gpr(i.d, h[1]) >>

(* h[3]: rb, or the temporary that holds the immediate of MULLI.           *)
EmitMultiply(i, h) ==
  LET half == IF i.op \in {"MULHW", "MULHWU"} THEN "dx" ELSE "ax"
      s    == IF i.op = "MULLI" THEN rbx ELSE Reg(h[3])
  IN  << load_gpr("ax", i.a) >>
      \o (IF i.op = "MULLI" THEN <<>> ELSE << load_gpr(h[3], i.b) >>)
      \o << output((IF i.op = "MULLI" THEN load_imm(rbx, SignExt(i.imm, 2, 4)) ELSE <<>>)
                   \o << mul(4, s, i.op # "MULHWU") >> \o TestIf(i, Reg(half))) >>
      \o Result(i, i.d, half) \o << alter_host_reg("ax"), alter_host_reg("dx") >>

EmitNot(i, h) ==                                           \* NAND, NOR
  Inputs(i, h)
  \o << output(Combine(IF i.op = "NAND" THEN "AND" ELSE "OR", Reg(h[2]), Reg(h[1]), Reg(h[3]))
               \o << notw(Wide, Reg(h[2])) >> \o TestIf(i, Reg(h[2]))) >>
  \o Result(i, i.a, h[2])

EmitNegate(i, h) ==                                        \* h: ra, rd
  << load_gpr(h[1], i.a),
     output(Copy(Reg(h[2]), Reg(h[1])) \o << neg(Wide, Reg(h[2])) >> \o TestIf(i, Reg(h[2]))) >>
  \o Result(i, i.d, h[2])

EmitOr(i, h) ==
  IF i.op = "ORC" THEN Inputs(i, h) \o << output(WithComplement("OR", h)) >> \o Result(i, i.a, h[2])
  ELSE IF i.d = i.b
  THEN << load_gpr(h[1], i.d), output(Copy(Reg(h[2]), Reg(h[1])) \o TestIf(i, Reg(h[2]))) >>
       \o Result(i, i.a, h[2])
  ELSE Inputs(i, h) \o << output(Combine("OR", Reg(h[2]), Reg(h[1]), Reg(h[3]))) >>
       \o Result(i, i.a, h[2])

EmitOrImmediate(i, h) ==                                   \* h: rs, ra
  << load_gpr(h[1], i.d),
     output(Copy(Reg(h[2]), Reg(h[1]))
            \o << alu("OR", 4, Reg(h[2]), Imm(IF i.op = "ORI" THEN i.imm ELSE HighImm(i))) >>),
     store_gpr(i.a, h[2]) >>

(* A mask is an immediate of the processor: 32 bits whose sign is extended.*)
Mask(v)    == Imm(SignExt(v, 4, Wide))
Rotate(d, k, mask) == (IF k = 0 THEN <<>> ELSE << shift("ROL", 4, d, Imm(k)) >>)
                      \o (IF mask = Size(4) - 1 THEN <<>> ELSE << alu("AND", Wide, d, Mask(mask)) >>)

EmitRotate(i, h) ==
  LET mask == rotate_mask(i.mb, i.me)
      s    == Reg(h[1])
      a    == Reg(h[2])
  IN  CASE i.op = "RLWIMI" ->                              \* h: rs, ra
             << load_gpr(h[1], i.d), load_gpr(h[2], i.a),
                output((IF mask = 0 THEN <<>> ELSE << alu("AND", Wide, a, Mask(Complement(mask, 4))) >>)
                       \o << mov(4, rbx, s) >> \o Rotate(rbx, i.n, mask)
                       \o << alu("OR", 4, a, rbx) >>) >> \o Result(i, i.a, h[2])
        [] i.op = "RLWINM" ->                              \* h: rs, ra
             << load_gpr(h[1], i.d),
                output(Copy(a, s) \o Rotate(a, i.n, mask) \o TestIf(i, a)) >>
             \o Result(i, i.a, h[2])
        [] i.op = "RLWNM" ->                               \* h: rcx, rs, ra
             << alter_host_reg("cx"), load_gpr(h[3], i.a), load_gpr(h[2], i.d),
                load_gpr("cx", i.b),
                output(<< mov(4, rbx, Reg(h[2])), shift("ROL", 4, rbx, rcx) >> \o Rotate(rbx, 0, mask)
                       \o << mov(4, Reg(h[3]), rbx) >> \o TestIf(i, Reg(h[3]))) >>
             \o Result(i, i.a, h[3])

EmitShiftArithmetic(i, h) ==                               \* h: rs, ra
  LET a   == Reg(h[2])
      top == 2 ^ (Bits(4) - 1)
  IN  << load_gpr(h[1], i.d),
         output(<< mov(4, rbx, Reg(h[1])) >> \o Copy(a, Reg(h[1]))
                \o << shift("SAR", 4, a, Imm(i.n)),
                      alu("AND", Wide, rbx, Mask((2 ^ i.n - 1) | top)),
                      alu("CMP", 4, rbx, Imm(top)), set("A", rbx),
                      alu("AND", Wide, rbx, Imm(1)), mov(4, Cell("ca"), rbx) >> \o TestIf(i, a)) >>
      \o Result(i, i.a, h[2])

EmitSubtract(i, h) ==                                      \* h: rd, ra, rb
  LET d == Reg(h[1])
      a == Reg(h[2])
      b == Reg(h[3])
  IN  << load_gpr(h[2], i.a), load_gpr(h[3], i.b),
         output(CASE d = b -> << alu("SUB", 4, d, a) >>
                  [] d # b /\ d = a -> << mov(4, rbx, b), alu("SUB", 4, rbx, a), mov(4, d, rbx) >>
                  [] OTHER -> << mov(4, d, b), alu("SUB", 4, d, a) >>) >>
      \o Result(i, i.d, h[1])

(* SUBFC, SUBFE with h: ra, rb, rd, a temporary.  The recording forms      *)
(* append nothing: the code that sets CR0 is written before the page's.    *)
EmitSubtractCarry(i, h) ==
  LET t == Reg(h[4])
      k == IF i.op = "SUBFC" THEN Imm(1) ELSE Cell("ca")
  IN  << alter_host_reg(h[4]), load_gpr(h[1], i.a), load_gpr(h[2], i.b),
         output(<< alu("XOR", Wide, rbx, rbx), mov(4, t, Reg(h[1])), notw(Wide, t) >>
                \o CarryOut(alu("ADD", 4, t, k), alu("ADD", 4, t, Reg(h[2])))
                \o << mov(4, Reg(h[3]), t) >>),
         store_gpr(i.d, h[3]) >>

EmitSubtractImmediate(i, h) ==                             \* h: ra, rd, a temporary
  LET t == Reg(h[3])
  IN  << alter_host_reg(h[3]), load_gpr(h[1], i.a),
         output(<< alu("XOR", Wide, rbx, rbx), mov(4, t, Reg(h[1])), notw(Wide, t) >>
                \o CarryOut(alu("ADD", 4, t, Imm(1)), alu("ADD", 4, t, Imm(SignExt(i.imm, 2, 4))))
                \o << mov(4, Reg(h[2]), t) >>),
         store_gpr(i.d, h[2]) >>

EmitXor(i, h) ==
  Inputs(i, h) \o << output(Combine("XOR", Reg(h[2]), Reg(h[1]), Reg(h[3]))) >> \o Result(i, i.a, h[2])

EmitXorImmediate(i, h) ==                                  \* h: rs, ra
  << load_gpr(h[1], i.d),
     output(Copy(Reg(h[2]), Reg(h[1]))
            \o << alu("XOR", Wide, Reg(h[2]), Mask(IF i.op = "XORI" THEN i.imm ELSE HighImm(i))) >>),
     store_gpr(i.a, h[2]) >>

-----------------------------------------------------------------------------
(* The table ppc32_insn_tags.  A recording form is not told apart from the *)
(* plain one, and a branch to LR or CTR that always goes is an entry of    *)
(* its own.                                                                *)
Returns(i)    == i.op \in {"BCLR", "BCCTR"} /\ i.bo = 20
CcBranch(i)   == i.op = "BC" /\ BitOf(i.bo, 4) = 0 /\ BitOf(i.bo, 2) = 1
TwoSources    == {"AND", "ANDC", "EQV", "NAND", "NOR", "OR", "ORC", "XOR"}
OneSource     == {"ANDI", "ANDIS", "ORI", "ORIS", "XORI", "XORIS", "EXTSB", "EXTSH", "RLWIMI",
                  "RLWINM", "SRAWI"}
CrAlgebra     == {"CRAND", "CRANDC", "CREQV", "CRNAND", "CRNOR", "CROR", "CRORC", "CRXOR"}
Translated(i) ==
  i.op \in {"B", "BC", "BCLR", "MFLR", "MTLR", "MFCTR", "MTCTR", "MFTBL", "MFTBU", "ADD", "ADDC",
            "ADDE", "ADDI", "ADDIC", "ADDIS", "ADDZE", "CMP", "CMPI", "CMPL", "CMPLI", "DIVWU",
            "MCRF", "MFCR", "MFMSR", "MFSR", "MTCRF", "MULHW", "MULHWU", "MULLI", "MULLW", "NEG",
            "RLWNM", "SLW", "SRW", "SUBF", "SUBFC", "SUBFE", "SUBFIC", "SYNC"}
           \cup Loads \cup Stores \cup TwoSources \cup OneSource \cup CrAlgebra
  \/ Returns(i)

(* The alloc_hreg calls of the instruction, in their order.                *)
Requests(i) ==
  LET gpr(r) == <<"gpr", r>>
      tmp    == <<"tmp">>
      forced(h) == <<"forced", h>>
  IN  CASE ~Translated(i) -> <<>>
        [] Returns(i) \/ i.op = "BCLR" \/ (i.op = "BC" /\ ~CcBranch(i)) -> << tmp >>
        [] i.op \in {"MFLR", "MTLR", "MFCTR", "MTCTR", "MFTBL", "MFTBU", "MFCR", "MFMSR",
                     "MFSR", "MTCRF"} -> << gpr(i.d) >>
        [] i.op \in {"ADD", "ADDC", "SUBF"} -> << gpr(i.d), gpr(i.a), gpr(i.b) >>
        [] i.op \in {"ADDE", "SUBFC", "SUBFE"} -> << gpr(i.a), gpr(i.b), gpr(i.d), tmp >>
        [] i.op \in {"ADDI", "ADDIS"} /\ i.a = "r0" -> << gpr(i.d) >>
        [] i.op \in {"ADDI", "ADDIC", "ADDIS", "ADDZE"} -> << gpr(i.d), gpr(i.a) >>
        [] i.op \in TwoSources -> << gpr(i.d), gpr(i.a), gpr(i.b) >>
        [] i.op \in OneSource -> << gpr(i.d), gpr(i.a) >>
        [] i.op \in {"CMP", "CMPL"} -> << gpr(i.a), gpr(i.b) >>
        [] i.op \in {"CMPI", "CMPLI"} -> << gpr(i.a) >>
        [] i.op \in CrAlgebra -> << forced("dx") >>
        [] i.op \in {"DIVWU", "MULHW", "MULHWU", "MULLW"} ->
             << forced("ax"), forced("dx"), gpr(i.b) >>
        [] i.op = "MULLI" -> << forced("ax"), forced("dx") >>
        [] i.op = "NEG" -> << gpr(i.a), gpr(i.d) >>
        [] i.op \in {"RLWNM", "SLW", "SRW"} -> << forced("cx"), gpr(i.d), gpr(i.a) >>
        [] i.op = "SUBFIC" -> << gpr(i.a), gpr(i.d), tmp >>
        [] OTHER -> <<>>

=============================================================================
