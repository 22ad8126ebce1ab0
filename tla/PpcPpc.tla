------------------------------- MODULE PpcPpc -------------------------------
(***************************************************************************)
(* The PowerPC translator for PowerPC hosts (ppc32_ppc32_trans.c): almost  *)
(* every instruction becomes itself, between loads of its registers into   *)
(* r4, r5, ... and a store of its result; it shares no register with the   *)
(* next one and asks the optimizer for nothing.  r3 points to the CPU,     *)
(* r11 and r12 are scratch, and the carry and CR0 of the guest are read    *)
(* out of the host's own.                                                  *)
(***************************************************************************)
EXTENDS PpcInsn

HRegs    == <<"r4", "r5", "r6", "r7", "r8", "r9", "r10", "r11">>
Volatile == Range(HRegs) \cup {"r12"}
r4  == Reg("r4")
r5  == Reg("r5")
r6  == Reg("r6")
r7  == Reg("r7")
r9  == Reg("r9")
r10 == Reg("r10")
r11 == Reg("r11")
r12 == Reg("r12")

-----------------------------------------------------------------------------
(* Host instructions (the macros of ppc-codegen.h), and what they do: cr,  *)
(* the host's two CR fields; c, its carry.                                 *)
lwz(d, cell)        == <<"lwz", d, cell>>
stw(s, cell)        == <<"stw", s, cell>>
li(d, v)            == <<"li", d, v>>
do(op, d, x, y)     == <<"do", op, d, x, y>>             \* d := x op y; CA for a "c"
rlwinm(d, s, k, mb, me) == <<"rlwinm", d, s, k, mb, me>>   \* k: an operand
rlwimi(d, s, k, mb, me) == <<"rlwimi", d, s, k, mb, me>>
cmp(signed, f, x, y)    == <<"cmp", signed, f, x, y>>
mfcr(d)             == <<"mfcr", d>>
mfxer(d)            == <<"mfxer", d>>
bc(eq, l)           == <<"bc", eq, l>>                   \* on the EQ bit of CR0

PpcHost(g, junk) ==
  [ r |-> [x \in Volatile |-> junk], cr |-> [f \in {0, 1} |-> 5], c |-> 1,
    left |-> FALSE, trap |-> FALSE, at |-> 0, lost |-> Volatile, g |-> g ]

HostValue(h, op, x, y) ==
  LET sx == Signed(x, 4)
      sy == Signed(y, 4)
      k  == y % (2 * Bits(4))                              \* a count of six bits
  IN  CASE op \in {"add", "addc"}   -> x + y
        [] op = "addze"             -> x + h.c
        [] op \in {"subf", "subfc"} -> y - x
        [] op = "and"   -> x & y
        [] op = "andc"  -> x & Complement(y, 4)
        [] op = "or"    -> x | y
        [] op = "orc"   -> x | Complement(y, 4)
        [] op = "xor"   -> x ^^ y
        [] op = "nand"  -> Complement(x & y, 4)
        [] op = "nor"   -> Complement(x | y, 4)
        [] op = "eqv"   -> Complement(x ^^ y, 4)
        [] op = "slw"   -> IF k >= Bits(4) THEN 0 ELSE ShiftL(x, k, 4)
        [] op = "srw"   -> IF k >= Bits(4) THEN 0 ELSE ShiftR(x, k, 4)
        [] op = "srawc" -> ShiftA(x, y, 4)
        [] op = "mullw" -> sx * sy
        [] op = "mulhw" -> (sx * sy) \div Size(4)
        [] op = "mulhwu" -> (x * y) \div Size(4)
        [] op = "divwu" -> IF y = 0 THEN 6 ELSE x \div y   \* what a host leaves
        [] op = "divw"  -> IF y = 0 \/ (y = Size(4) - 1 /\ x = Size(4) \div 2) THEN 6
                           ELSE Quotient(sx, sy)
        [] op = "extsb" -> SignExt(x, 1, 4)
        [] op = "extsh" -> SignExt(x, 2, 4)
        [] op = "neg"   -> -x

HostCarry(h, op, x, y) ==
  CASE op = "addc"  -> Carry(x + y >= Size(4))
    [] op = "addze" -> Carry(x + h.c >= Size(4))
    [] op = "subfc" -> Carry(y >= x)
    [] op = "srawc" -> Carry(Sign(x, 4) = 1 /\ x % 2 ^ y # 0)
    [] OTHER        -> h.c

Do(h, op, d, x, y) ==
  Put([h EXCEPT !.c = HostCarry(h, op, x, y)], d, HostValue(h, op, x, y), 4)

Order(signed, x, y) ==
  LET less == IF signed THEN Signed(x, 4) < Signed(y, 4) ELSE x < y
  IN  IF x = y THEN EQ ELSE IF less THEN LT ELSE GT

PpcStep(h, i) ==
  LET get(x) == Get(h, x, 4)
  IN  CASE i[1] = "lwz"    -> Put(h, i[2], get(i[3]), 4)
        [] i[1] = "stw"    -> Put(h, i[3], get(i[2]), 4)
        [] i[1] = "li"     -> Put(h, i[2], i[3], 4)
        [] i[1] = "do"     -> Do(h, i[2], i[3], get(i[4]), get(i[5]))
        [] i[1] = "rlwinm" -> Put(h, i[2], RotL(get(i[3]), get(i[4]) % Bits(4), 4)
                                             & rotate_mask(i[5], i[6]), 4)
        [] i[1] = "rlwimi" ->
             LET mask == rotate_mask(i[5], i[6])
             IN  Put(h, i[2], (RotL(get(i[3]), get(i[4]), 4) & mask)
                              | (get(i[2]) & Complement(mask, 4)), 4)
        [] i[1] = "cmp"    -> [h EXCEPT !.cr[i[3]] = Order(i[2], get(i[4]), get(i[5]))]
        [] i[1] = "mfcr"   -> Put(h, i[2], h.cr[0] * 16 + h.cr[1], 4)
        [] i[1] = "mfxer"  -> Put(h, i[2], h.c * 2 ^ CaBit, 4)
        [] i[1] = "call"   -> [Clobbered(Call(h, i[2], i[3], i[4])) EXCEPT !.c = 1 - h.c]
        [] i[1] = "access" -> LET n == Call(h, i[2], i[3], i[4])
                              IN  [n EXCEPT !.g.pcs = h.g.pcs]
        [] i[1] = "enter"  -> Enter(h, i)
        [] i[1] = "ret"    -> [h EXCEPT !.left = TRUE]
        [] i[1] = "lbl"    -> h

RECURSIVE PpcRun(_, _, _)
PpcRun(h, code, n) ==
  IF n > Len(code) \/ h.left THEN h
  ELSE IF code[n][1] = "exec" THEN [h EXCEPT !.at = n]
  ELSE LET i == code[n]
       IN  CASE i[1] = "bc"  -> PpcRun(h, code, IF i[2] = ((h.cr[0] & EQ) # 0)
                                                THEN Label(code, i[3]) ELSE n + 1)
             [] i[1] = "jmp" -> PpcRun(h, code, Label(code, i[2]))
             [] OTHER        -> PpcRun(PpcStep(h, i), code, n + 1)

-----------------------------------------------------------------------------
(* What the emitting functions share.                                      *)
Low == Bits(4) - 1                                         \* bit 31, the lowest
set_ia(pc)    == << li(r12, pc), stw(r12, Cell("pc")) >>
set_lr(i, pc) == IF i.lk THEN << li(r11, pc + 4), stw(r11, Cell("lr")) >> ELSE <<>>

(* ppc32_try_direct_far_jump.  It clobbers r4 to r7, which no instruction  *)
(* keeps anything in for the next.                                         *)
far_jump(ia, pc) ==
  LET page == PageOf(ia)
      back == <<"back", pc>>
  IN  << li(r4, page), lwz(r5, Cell("blk")), cmp(TRUE, 0, r5, Imm(0)), bc(TRUE, back),
         lwz(r6, StartOf(page, 0)), cmp(TRUE, 0, r4, r6), bc(FALSE, back),
         lwz(r7, EntryAt), cmp(TRUE, 0, r7, Imm(0)), bc(TRUE, back),
         enter(4, page, ia - page), lbl(back) >> \o set_ia(ia) \o << ret >>
set_page_jump(start) == far_jump(start + 4 * PageInsns, start + 4 * PageInsns)
set_jump(ia, pc) == IF Local(ia, pc) THEN << jmp(At(ia)) >> ELSE far_jump(ia, pc)
Destination(i, pc) == Wrap((IF i.aa THEN 0 ELSE pc) + i.disp * 4, 4)

get_xer_ca(d)  == << mfxer(d), rlwinm(d, d, Imm(3), Low, Low) >>
update_xer_ca  == get_xer_ca(r12) \o << stw(r12, Cell("ca")) >>

(* The three bits of a field, without SO.                                  *)
update_cr_field(f) ==
  << mfcr(r11), rlwinm(r11, r11, Imm((4 * f) % Bits(4)), 0, 2),
     rlwinm(r11, r11, Imm(4), Bits(4) - 4, Low), stw(r11, Cell(CrField(4 * f))) >>
update_cr0(x) == << cmp(TRUE, 0, x, Imm(0)) >> \o update_cr_field(0)
RecordIf(i, x) == IF i.dot THEN update_cr0(x) ELSE <<>>

load_cr_bit(d, n) ==
  << lwz(d, Cell(CrField(n))), rlwinm(d, d, Imm((Bits(4) - CrBit(n)) % Bits(4)), Low, Low) >>
store_cr_bit(t, s, n) ==
  LET bit == Low - CrBit(n)
  IN  << lwz(t, Cell(CrField(n))), rlwimi(t, s, Imm(CrBit(n)), bit, bit),
         stw(t, Cell(CrField(n))) >>

(* The operations that an optimizer could leave; no instruction of this    *)
(* translator asks for any but output.                                     *)
Gen(op) ==
  CASE op[1] = "output" -> op[2]
    [] op[1] = "load"   -> << lwz(Reg(op[2]), Cell(op[3])) >>
    [] op[1] = "store"  -> << stw(Reg(op[2]), Cell(op[3])) >>
    [] op[1] = "flags"  -> IF op[2] = "cr0" THEN update_cr0(r4) ELSE update_cr_field(1)
    [] op[1] = "setimm" -> << li(Reg(op[2]), op[3]) >>
    [] OTHER            -> <<>>

-----------------------------------------------------------------------------
(* Memory: vaddr in r4, the number of the register in r5.                  *)
Updates(i) == i.form \in {"U", "UX"}
Indexes(i) == i.form \in {"X", "UX"}
MemopSets(i) == IF IsLoad(i.op) THEN << <<i.d, Imm(Loaded(i.op))>> >> ELSE <<>>
MemopArgs(i) == IF IsLoad(i.op) THEN << r4 >> ELSE << r4, Cell(i.d) >>

(* ppc32_emit_memop, ppc32_emit_memop_idx: the address that an update      *)
(* writes back waits in the stack frame, here in the argument of the call. *)
emit_memop(i, pc) ==
  << branch_here, eob,
     output(set_ia(pc)
       \o (IF Indexes(i) THEN << lwz(r4, Cell(i.b)) >> ELSE << li(r4, SXImm4(i)) >>)
       \o (IF Updates(i) \/ i.a # "r0" THEN << lwz(r5, Cell(i.a)), do("add", r4, r4, r5) >> ELSE <<>>)
       \o << call(<<i.op, i.d>>, MemopArgs(i),
                  MemopSets(i) \o (IF Updates(i) THEN << <<i.a, r4>> >> ELSE <<>>)) >>) >>

emit_memop_fast(i, pc) ==
  << branch_here, eob,
     output((IF SXImm4(i) # 0
             THEN << li(r4, SXImm4(i)) >>
                  \o (IF i.a # "r0" THEN << lwz(r5, Cell(i.a)), do("add", r4, r4, r5) >> ELSE <<>>)
             ELSE IF i.a # "r0" THEN << lwz(r4, Cell(i.a)) >> ELSE << li(r4, 0) >>)
       \o << lwz(r7, Cell("mts")), cmp(TRUE, 0, r7, Imm(1)), bc(FALSE, <<"miss", pc>>),
             inline(<<i.op, i.d>>, MemopArgs(i), MemopSets(i)), jmp(<<"exit", pc>>),
             lbl(<<"miss", pc>>) >>
       \o set_ia(pc) \o << call(<<i.op, i.d>>, MemopArgs(i), MemopSets(i)),
                           lbl(<<"exit", pc>>) >>) >>
EmitLoad(i, pc)  == IF i.form = "" THEN emit_memop_fast(i, pc) ELSE emit_memop(i, pc)
EmitStore(i, pc) == IF i.form = "" THEN emit_memop_fast(i, pc) ELSE emit_memop(i, pc)

emit_unknown(i, pc) == << output(set_ia(pc) \o << exec(i) >>), eob >>

-----------------------------------------------------------------------------
EmitReturn(i, pc) ==                                       \* BLR, BCTR
  << output(<< lwz(r4, Cell(IF i.op = "BCLR" THEN "lr" ELSE "ctr")), stw(r4, Cell("pc")) >>
            \o set_lr(i, pc) \o << ret >>),
     eob, branch_target(pc + 4) >>

EmitBranch(i, pc) ==
  << output(set_lr(i, pc) \o set_jump(Destination(i, pc), pc)), eob,
     branch_target(Destination(i, pc)), branch_target(pc + 4) >>

LinkMark(i, pc) == IF i.lk THEN << branch_target(pc + 4) >> ELSE <<>>

(* Whether the branch is taken, in r4: CTR counted down and the condition. *)
Decide(i) ==
  << li(r4, 1) >>
  \o (IF BitOf(i.bo, 2) = 1 THEN <<>>
      ELSE << lwz(r5, Cell("ctr")), do("addc", r5, r5, Imm(-1)), stw(r5, Cell("ctr")),
              cmp(TRUE, 0, r5, Imm(0)), mfcr(r6), rlwinm(r6, r6, Imm(3), Low, Low),
              do("xor", r6, r6, Imm(1 - BitOf(i.bo, 1))), do("or", r4, r6, r6) >>)
  \o (IF BitOf(i.bo, 4) = 1 THEN <<>>
      ELSE load_cr_bit(r7, i.crs[1])
           \o << do("xor", r7, r7, Imm(1 - BitOf(i.bo, 3))), do("and", r4, r4, r7) >>)
  \o << cmp(TRUE, 0, r4, Imm(0)) >>

bc_generic(i, pc) ==
  LET target == Destination(i, pc)
  IN  << branch_jump,
         output(set_lr(i, pc) \o Decide(i) \o << bc(TRUE, <<"skip", pc>>) >>
                \o set_jump(target, pc) \o << lbl(<<"skip", pc>>) >>) >>
      \o LinkMark(i, pc) \o << branch_target(target) >>

(* LR is set before it is read: a branch to LR that links goes on at pc+4. *)
EmitBranchLr(i, pc) ==
  << branch_jump,
     output(set_lr(i, pc) \o Decide(i)
            \o << bc(TRUE, <<"skip", pc>>), lwz(r5, Cell("lr")),
                  rlwinm(r5, r5, Imm(0), 0, Bits(4) - 3), stw(r5, Cell("pc")), ret,
                  lbl(<<"skip", pc>>) >>) >>
  \o LinkMark(i, pc) \o << eob >>

EmitMoveSpecial(i) ==
  LET from(c) == << output(<< lwz(r4, c), stw(r4, Cell(i.d)) >>) >>
      to(c)   == << output(<< lwz(r4, Cell(i.d)), stw(r4, Cell(c)) >>) >>
  IN  CASE i.op = "MFLR"  -> from(Cell("lr"))
        [] i.op = "MTLR"  -> to("lr")
        [] i.op = "MFCTR" -> from(Cell("ctr"))
        [] i.op = "MTCTR" -> to("ctr")
        [] i.op = "MFTBU" -> from(High("tb"))
        [] i.op = "MFTBL" ->
             << output(<< lwz(r4, High("tb")), lwz(r5, Cell("tb")), do("addc", r5, r5, Imm(50)),
                          do("addze", r4, r4, r4), stw(r5, Cell("tb")), stw(r4, High("tb")),
                          stw(r5, Cell(i.d)) >>) >>

-----------------------------------------------------------------------------
(* Arithmetic: x in r4, y in r5; what comes first (CA out) and last (CR0). *)
Plain(i, x, y, op, d) ==
  << output(<< lwz(r4, Cell(x)), lwz(r5, Cell(y)), do(op, r4, r4, r5), stw(r4, Cell(d)) >>
            \o RecordIf(i, r4)) >>
Carrying(i, load, op, y) ==
  << output(<< lwz(r4, Cell(i.a)) >> \o load \o << do(op, r4, r4, y), stw(r4, Cell(i.d)) >>
            \o update_xer_ca \o RecordIf(i, r4)) >>

(* Two sums, each with its carry; t is the first summand.                  *)
TwoSums(i, t, second) ==
  << lwz(r6, Cell("ca")), do("addc", r7, t, r6) >> \o get_xer_ca(r8)
  \o << do("addc", r4, r7, second) >> \o get_xer_ca(r9)
  \o << do("or", r9, r9, r8), stw(r9, Cell("ca")), stw(r4, Cell(i.d)) >> \o RecordIf(i, r4)


EmitAdd(i) ==
  CASE i.op = "ADD"  -> Plain(i, i.a, i.b, "add", i.d)
    [] i.op = "ADDC" -> Carrying(i, << lwz(r5, Cell(i.b)) >>, "addc", r5)
    [] i.op = "ADDE" -> << output(<< lwz(r4, Cell(i.a)), lwz(r5, Cell(i.b)) >> \o TwoSums(i, r4, r5)) >>

EmitAddImmediate(i) ==
  IF i.op = "ADDIC" THEN Carrying(i, <<>>, "addc", Imm(SXImm4(i)))
  ELSE << output(<< IF i.a = "r0" THEN li(r4, 0) ELSE lwz(r4, Cell(i.a)),
                    do("add", r4, r4, Imm(IF i.op = "ADDI" THEN SXImm4(i) ELSE HighImm(i))),
                    stw(r4, Cell(i.d)) >>) >>
EmitAddToCarry(i) ==
  IF i.op = "ADDZE" THEN Carrying(i, << lwz(r5, Cell("ca")) >>, "addc", r5)
  ELSE << output(<< lwz(r4, Cell(i.a)) >> \o TwoSums(i, r4, Imm(-1))) >>

EmitSubtract(i) ==
  CASE i.op = "SUBF"   -> Plain(i, i.a, i.b, "subf", i.d)
    [] i.op = "SUBFC"  -> Carrying(i, << lwz(r5, Cell(i.b)) >>, "subfc", r5)
    [] i.op = "SUBFE"  -> << output(<< lwz(r4, Cell(i.a)), lwz(r5, Cell(i.b)), do("nor", r7, r4, r4) >>
                                    \o TwoSums(i, r7, r5)) >>
    [] i.op = "SUBFIC" -> Carrying(i, <<>>, "subfc", Imm(SXImm4(i)))

EmitMultiply(i) ==
  CASE i.op = "MULHW"  -> Plain(i, i.a, i.b, "mulhw", i.d)
    [] i.op = "MULHWU" -> Plain(i, i.a, i.b, "mulhwu", i.d)
    [] i.op = "MULLW"  -> Plain(i, i.a, i.b, "mullw", i.d)
    [] i.op = "MULLI"  -> << output(<< lwz(r4, Cell(i.a)), do("mullw", r4, r4, Imm(SXImm4(i))),
                                       stw(r4, Cell(i.d)) >>) >>

EmitDivide(i) == Plain(i, i.a, i.b, IF i.op = "DIVWU" THEN "divwu" ELSE "divw", i.d)

-----------------------------------------------------------------------------
(* Logic, of rs (d) into ra: with rb, with an immediate, of one register.  *)
WithRb(i, op) == Plain(i, i.d, i.b, op, i.a)
WithImmediate(i, op, v) ==
  << output(<< lwz(r4, Cell(i.d)), do(op, r4, r4, Imm(v)), stw(r4, Cell(i.a)) >>) >>
OfOne(i, x, op, d) ==
  << output(<< lwz(r4, Cell(x)), do(op, r4, r4, r4), stw(r4, Cell(d)) >> \o RecordIf(i, r4)) >>

EmitAnd(i) ==
  CASE i.op = "AND"  -> WithRb(i, "and")
    [] i.op = "ANDC" -> WithRb(i, "andc")
    [] OTHER -> << output(<< lwz(r4, Cell(i.d)),
                             do("and", r4, r4, Imm(IF i.op = "ANDI" THEN i.imm ELSE HighImm(i))),
                             stw(r4, Cell(i.a)) >> \o update_cr0(r4)) >>
EmitEqv(i) ==
  CASE i.op = "EQV"   -> WithRb(i, "eqv")
    [] i.op = "EXTSB" -> OfOne(i, i.d, "extsb", i.a)
    [] i.op = "EXTSH" -> OfOne(i, i.d, "extsh", i.a)
EmitNot(i) ==
  CASE i.op = "NAND" -> WithRb(i, "nand")
    [] i.op = "NEG"  -> OfOne(i, i.a, "neg", i.d)
    [] i.op = "NOR"  -> WithRb(i, "nor")
EmitOr(i) ==
  CASE i.op = "OR"   -> WithRb(i, "or")
    [] i.op = "ORC"  -> WithRb(i, "orc")
    [] i.op = "ORI"  -> WithImmediate(i, "or", i.imm)
    [] i.op = "ORIS" -> WithImmediate(i, "or", HighImm(i))
EmitXor(i) ==
  CASE i.op = "SYNC"  -> <<>>
    [] i.op = "XOR"   -> WithRb(i, "xor")
    [] i.op = "XORI"  -> WithImmediate(i, "xor", i.imm)
    [] i.op = "XORIS" -> WithImmediate(i, "xor", HighImm(i))

(* RLWIMI's result is in r5, and what it records is r4.                    *)
EmitRotate(i) ==
  CASE i.op = "RLWIMI" ->
         << output(<< lwz(r4, Cell(i.d)), lwz(r5, Cell(i.a)), rlwimi(r5, r4, Imm(i.n), i.mb, i.me),
                      stw(r5, Cell(i.a)) >> \o RecordIf(i, r4)) >>
    [] i.op = "RLWINM" ->
         << output(<< lwz(r4, Cell(i.d)), rlwinm(r4, r4, Imm(i.n), i.mb, i.me),
                      stw(r4, Cell(i.a)) >> \o RecordIf(i, r4)) >>
    [] i.op = "RLWNM" ->
         << output(<< lwz(r4, Cell(i.d)), lwz(r5, Cell(i.b)), rlwinm(r4, r4, r5, i.mb, i.me),
                      stw(r4, Cell(i.a)) >> \o RecordIf(i, r4)) >>

EmitShift(i) ==
  CASE i.op = "SLW"   -> WithRb(i, "slw")
    [] i.op = "SRW"   -> WithRb(i, "srw")
    [] i.op = "SRAWI" -> << output(<< lwz(r4, Cell(i.d)), do("srawc", r4, r4, Imm(i.n)),
                                      stw(r4, Cell(i.a)) >> \o update_xer_ca \o RecordIf(i, r4)) >>

EmitCompare(i) ==
  LET f      == i.crs[1]
      signed == i.op \in {"CMP", "CMPI"}
  IN  << output(<< lwz(r4, Cell(i.a)) >>
                \o (IF i.op \in {"CMP", "CMPL"}
                    THEN << lwz(r5, Cell(i.b)), cmp(signed, f, r4, r5) >>
                    ELSE << cmp(signed, f, r4, Imm(IF signed THEN SXImm4(i) ELSE i.imm)) >>)
                \o update_cr_field(f)) >>

CrLogicOp ==
  [ CRAND |-> "and", CRANDC |-> "andc", CREQV |-> "eqv", CRNAND |-> "nand", CRNOR |-> "nor",
    CROR |-> "or", CRORC |-> "orc", CRXOR |-> "xor" ]
cr_logical(i) ==
  << require_flags(CrField(i.crs[2])), require_flags(CrField(i.crs[3])),
     require_flags(CrField(i.crs[1])),
     output(load_cr_bit(r4, i.crs[2]) \o load_cr_bit(r5, i.crs[3])
            \o << do(CrLogicOp[i.op], r4, r4, r5) >> \o store_cr_bit(r6, r4, i.crs[1])) >>

EmitCrMove(i) ==
  LET field(f) == Cell(CrField(4 * f))
      in(f)  == << lwz(r5, field(f)), rlwimi(r4, r5, Imm(Bits(4) - 4 * (f + 1)), 4 * f, 4 * f + 3) >>
      out(f) == << rlwinm(r5, r4, Imm((4 * f + 4) % Bits(4)), Bits(4) - 4, Low), stw(r5, field(f)) >>
  IN  CASE i.op = "MCRF"  -> << output(<< lwz(r4, field(i.crs[2])), stw(r4, field(i.crs[1])) >>) >>
        [] i.op = "MFMSR" -> << output(<< lwz(r4, Cell("msr")), stw(r4, Cell(i.d)) >>) >>
        [] i.op = "MFSR"  -> << output(<< lwz(r4, Cell("sr")), stw(r4, Cell(i.d)) >>) >>
        [] i.op = "MFCR"  -> << output(<< li(r4, 0) >> \o in(0) \o in(1) \o << stw(r4, Cell(i.d)) >>) >>
        [] i.op = "MTCRF" -> << output(<< lwz(r4, Cell(i.d)) >>
                                       \o (IF BitOf(i.n, 1) = 1 THEN out(0) ELSE <<>>)
                                       \o (IF BitOf(i.n, 0) = 1 THEN out(1) ELSE <<>>)) >>

-----------------------------------------------------------------------------
(* The table ppc32_insn_tags: DIVW and ADDME are in it, besides what the   *)
(* translators for x86 hosts have.                                         *)
Returns(i) == i.op \in {"BCLR", "BCCTR"} /\ i.bo = 20
Ops(i, h, pc) ==
  CASE Returns(i)                   -> EmitReturn(i, pc)
    [] i.op = "BCLR" /\ ~Returns(i) -> EmitBranchLr(i, pc)
    [] i.op = "B"                   -> EmitBranch(i, pc)
    [] i.op = "BC"                  -> bc_generic(i, pc)
    [] i.op \in {"MFLR", "MTLR", "MFCTR", "MTCTR", "MFTBL", "MFTBU"} -> EmitMoveSpecial(i)
    [] i.op \in {"ADD", "ADDC", "ADDE"} -> EmitAdd(i)
    [] i.op \in {"ADDI", "ADDIC", "ADDIS"} -> EmitAddImmediate(i)
    [] i.op \in {"ADDZE", "ADDME"}  -> EmitAddToCarry(i)
    [] i.op \in {"AND", "ANDC", "ANDI", "ANDIS"} -> EmitAnd(i)
    [] i.op \in {"CMP", "CMPI", "CMPL", "CMPLI"} -> EmitCompare(i)
    [] i.op \in DOMAIN CrLogicOp    -> cr_logical(i)
    [] i.op \in {"DIVWU", "DIVW"}   -> EmitDivide(i)
    [] i.op \in {"EQV", "EXTSB", "EXTSH"} -> EmitEqv(i)
    [] i.op \in Loads               -> EmitLoad(i, pc)
    [] i.op \in {"MCRF", "MFCR", "MTCRF", "MFMSR", "MFSR"} -> EmitCrMove(i)
    [] i.op \in {"MULHW", "MULHWU", "MULLI", "MULLW"} -> EmitMultiply(i)
    [] i.op \in {"NAND", "NEG", "NOR"} -> EmitNot(i)
    [] i.op \in {"OR", "ORC", "ORI", "ORIS"} -> EmitOr(i)
    [] i.op \in {"RLWIMI", "RLWINM", "RLWNM"} -> EmitRotate(i)
    [] i.op \in {"SLW", "SRAWI", "SRW"} -> EmitShift(i)
    [] i.op \in Stores              -> EmitStore(i, pc)
    [] i.op \in {"SUBF", "SUBFC", "SUBFE", "SUBFIC"} -> EmitSubtract(i)
    [] i.op \in {"SYNC", "XOR", "XORI", "XORIS"} -> EmitXor(i)
    [] OTHER                        -> emit_unknown(i, pc)

Requests(i) == <<>>

(* The code of a page, for a CPU at ia.                                    *)
Code(page, start, ia) ==
  GenPage(EmitPage(Requests, Ops, HRegs, page, start, ia), HRegs, Gen,
          set_page_jump(start), start)
=============================================================================
