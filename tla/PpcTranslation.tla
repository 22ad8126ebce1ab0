------------------------------- MODULE PpcTranslation -------------------------------
(***************************************************************************)
(* The PowerPC interpreter: ppc32_exec_<op> of ppc32_exec.c, one operator  *)
(* for a run of functions of one kind.  Each maps an instruction and the   *)
(* guest to the guest after it; ExecStep moves pc on when the function     *)
(* did not set it (it returns 0).                                          *)
(***************************************************************************)
EXTENDS PpcInsn

Val(g, c)    == g.m[c]
SVal(g, c)   == Signed(g.m[c], 4)
Set(g, c, v) == SetCell(g, c, Wrap(v, 4))
Summary(g)   == BitOf(Val(g, "xer"), SoBit) * SO
Order(a, b)  == IF a < b THEN LT ELSE IF a > b THEN GT ELSE EQ

(* ppc32_exec_update_cr0, for the forms that record.                       *)
Record(i, g, v) ==
  IF i.dot THEN SetCell(g, "cr0", Order(Signed(v, 4), 0) + Summary(g)) ELSE g

(* ppc32_exec_ov_sum, ov_sub: OV is what this instruction found, SO stays. *)
SetOverflow(g, over) ==
  LET x  == Val(g, "xer")
      so == BitOf(x, SoBit)
      ov == BitOf(x, OvBit)
  IN  IF over THEN SetCell(g, "xer", x + (1 - so) * 2 ^ SoBit + (1 - ov) * 2 ^ OvBit)
      ELSE SetCell(g, "xer", x - ov * 2 ^ OvBit)
Overflows(v) == v < -(Size(4) \div 2) \/ v >= Size(4) \div 2
Carries(g, b) == SetCell(g, "ca", IF b THEN 1 ELSE 0)

(* a + b + carry, as ADDE and its like compute the carry out.              *)
AddCarry(i, g, a, b) ==
  LET k == Val(g, "ca")
      d == Wrap(a + b + k, 4)
  IN  [d |-> d, g |-> Carries(g, Wrap(b + k, 4) < b \/ d < a)]

ExecMoveSpecial(i, g) ==
  CASE i.op = "MFLR"  -> Set(g, i.d, Val(g, "lr"))
    [] i.op = "MTLR"  -> Set(g, "lr", Val(g, i.d))
    [] i.op = "MFCTR" -> Set(g, i.d, Val(g, "ctr"))
    [] i.op = "MTCTR" -> Set(g, "ctr", Val(g, i.d))

ExecAdd(i, g) ==
  LET a == Val(g, i.a)
      b == Val(g, i.b)
      d == Wrap(a + b, 4)
      carry == IF i.op \in {"ADDC", "ADDCO"} THEN Carries(g, d < a) ELSE g
      over  == IF i.op \in {"ADDO", "ADDCO"}
               THEN SetOverflow(carry, Overflows(SVal(g, i.a) + SVal(g, i.b))) ELSE carry
  IN  Set(Record(i, over, d), i.d, d)

(* ppc32_exec_ov_sum compares the operands' signs with the result's.       *)
ExecAddExtended(i, g) ==
  LET a == Val(g, i.a)
      b == Val(g, i.b)
      s == AddCarry(i, g, a, b)
      over == IF i.op = "ADDEO"
              THEN SetOverflow(s.g, Sign(a, 4) = Sign(b, 4) /\ Sign(s.d, 4) # Sign(a, 4))
              ELSE s.g
  IN  Set(Record(i, over, s.d), i.d, s.d)

ExecAddImmediate(i, g) ==
  LET base == IF i.a = "r0" THEN 0 ELSE Val(g, i.a)
      a    == Val(g, i.a)
      d    == Wrap(a + SXImm4(i), 4)
  IN  CASE i.op = "ADDI"  -> Set(g, i.d, base + SXImm4(i))
        [] i.op = "ADDIS" -> Set(g, i.d, base + HighImm(i))
        [] i.op = "ADDIC" -> Set(Record(i, Carries(g, d < a), d), i.d, d)

ExecAddMinusZero(i, g) ==
  LET s == AddCarry(i, g, Val(g, i.a), IF i.op = "ADDME" THEN Size(4) - 1 ELSE 0)
  IN  Set(Record(i, s.g, s.d), i.d, s.d)

(* The logic operations write ra.                                          *)
Logic(i, g, v) == Set(Record(i, g, v), i.a, v)
RsRb(i, g) == <<Val(g, i.d), Val(g, i.b)>>

ExecAnd(i, g) ==
  LET x == RsRb(i, g)
  IN  Logic(i, g, IF i.op = "AND" THEN x[1] & x[2] ELSE x[1] & Complement(x[2], 4))

ExecEqvExtend(i, g) ==
  LET x == RsRb(i, g)
  IN  Logic(i, g, CASE i.op = "EQV"   -> Complement(x[1] ^^ x[2], 4)
                    [] i.op = "EXTSB" -> SignExt(x[1], 1, 4)
                    [] i.op = "EXTSH" -> SignExt(x[1], 2, 4))

ExecNand(i, g) == Logic(i, g, Complement(Val(g, i.d) & Val(g, i.b), 4))

ExecOr(i, g) ==
  LET x == RsRb(i, g)
  IN  Logic(i, g, CASE i.op = "NOR" -> Complement(x[1] | x[2], 4)
                    [] i.op = "OR"  -> x[1] | x[2]
                    [] i.op = "ORC" -> x[1] | Complement(x[2], 4))

ExecXor(i, g) == Logic(i, g, Val(g, i.d) ^^ Val(g, i.b))

ImmOf(i) == IF i.op \in {"ANDI", "ORI", "XORI"} THEN i.imm ELSE HighImm(i)
ExecAndImmediate(i, g) == Logic(i, g, Val(g, i.d) & ImmOf(i))
ExecOrImmediate(i, g)  == Logic(i, g, Val(g, i.d) | ImmOf(i))
ExecXorImmediate(i, g) == Logic(i, g, Val(g, i.d) ^^ ImmOf(i))

-----------------------------------------------------------------------------
(* Branches.  disp counts instructions.                                    *)
Linked(g) == Set(g, "lr", Val(g, "pc") + 4)
Target(i, pc) == Wrap((IF i.aa THEN 0 ELSE pc) + i.disp * 4, 4)
Aligned(v) == v - (v % 4)

ExecBranch(i, g) ==               \* B, BA, BL, BLA
  Set(IF i.lk THEN Linked(g) ELSE g, "pc", Target(i, Val(g, "pc")))

(* ppc32_check_cond: bo counts CTR down unless its bit 2 is set, and tests *)
(* a CR bit unless bit 4 is.                                               *)
Counted(i, g) == IF BitOf(i.bo, 2) = 0 THEN Set(g, "ctr", Val(g, "ctr") - 1) ELSE g
CrValue(g, n) == BitOf(Val(g, CrField(n)), CrBit(n))
Taken(i, g)   == /\ BitOf(i.bo, 2) = 0 => ((Val(g, "ctr") # 0) # (BitOf(i.bo, 1) = 1))
                 /\ BitOf(i.bo, 4) = 1 \/ CrValue(g, i.crs[1]) = BitOf(i.bo, 3)

Conditional(i, g, h, target) ==
  LET c == Counted(i, h)
  IN  IF Taken(i, c) THEN Set(c, "pc", target) ELSE Set(c, "pc", Val(g, "pc") + 4)

ExecBranchCond(i, g) ==           \* BC, BCA, BCL, BCLA
  Conditional(i, g, IF i.lk THEN Linked(g) ELSE g, Target(i, Val(g, "pc")))

(* The target of BCLR is the old link register; that of BCCTR is CTR after *)
(* it was counted down.                                                    *)
ExecBranchReg(i, g) ==
  LET h == IF i.lk THEN Linked(g) ELSE g
  IN  IF i.op = "BCLR" THEN Conditional(i, g, h, Aligned(Val(g, "lr")))
      ELSE Conditional(i, g, h, Aligned(Val(Counted(i, h), "ctr")))

-----------------------------------------------------------------------------
ExecCompare(i, g) ==
  LET cr == CrField(4 * i.crs[1])
  IN  SetCell(g, cr, Summary(g) +
        CASE i.op = "CMP"   -> Order(SVal(g, i.a), SVal(g, i.b))
          [] i.op = "CMPI"  -> Order(SVal(g, i.a), Signed(i.imm, 2))
          [] i.op = "CMPL"  -> Order(Val(g, i.a), Val(g, i.b))
          [] i.op = "CMPLI" -> Order(Val(g, i.a), i.imm))

ExecCountZeros(i, g) ==
  Set(g, i.a, CHOOSE n \in 0..Bits(4) :
                /\ Val(g, i.d) < 2 ^ (Bits(4) - n)
                /\ n < Bits(4) => Val(g, i.d) >= 2 ^ (Bits(4) - n - 1))

(* crs is <<bd, ba, bb>>.                                                  *)
ExecCr(i, g) ==
  LET x == CrValue(g, i.crs[2]) = 1
      y == CrValue(g, i.crs[3]) = 1
      v == CASE i.op = "CRAND"  -> x /\ y
             [] i.op = "CRANDC" -> x /\ ~y
             [] i.op = "CREQV"  -> x = y
             [] i.op = "CRNAND" -> ~(x /\ y)
             [] i.op = "CRNOR"  -> ~(x \/ y)
             [] i.op = "CROR"   -> x \/ y
             [] i.op = "CRORC"  -> x \/ ~y
             [] i.op = "CRXOR"  -> x # y
      f == CrField(i.crs[1])
  IN  SetCell(g, f, Val(g, f) + ((IF v THEN 1 ELSE 0) - CrValue(g, i.crs[1])) * 2 ^ CrBit(i.crs[1]))

(* A division that is undefined leaves rd; the recording form clears it.   *)
ExecDivide(i, g) ==
  LET n == IF i.op = "DIVW" THEN SVal(g, i.a) ELSE Val(g, i.a)
      m == IF i.op = "DIVW" THEN SVal(g, i.b) ELSE Val(g, i.b)
      defined == m # 0 /\ ~(i.op = "DIVW" /\ n = -(Size(4) \div 2) /\ m = -1)
      q == IF defined THEN Quotient(n, m) ELSE 0
  IN  IF defined \/ i.dot THEN Set(Record(i, g, q), i.d, q) ELSE g

-----------------------------------------------------------------------------
(* ppc32_exec_memop: the function of the access, given the address and the *)
(* register it loads or stores.                                            *)
Memop(g, access, vaddr, reg) ==
  IF IsLoad(access)
  THEN Called(g, <<access, reg>>, <<vaddr>>, << <<reg, Loaded(access)>> >>)
  ELSE Called(g, <<access, reg>>, <<vaddr, Val(g, reg)>>, <<>>)

BaseOf(i, g)    == IF i.a = "r0" THEN 0 ELSE Val(g, i.a)
Displaced(i, g) == Wrap(BaseOf(i, g) + SXImm4(i), 4)
Indexed(i, g)   == Wrap(BaseOf(i, g) + Val(g, i.b), 4)

(* An updating form adds r0 too, and writes the address after the access.  *)
Access(i, g) ==
  LET updates == i.form \in {"U", "UX"}
      offset  == IF i.form \in {"X", "UX"} THEN Val(g, i.b) ELSE SXImm4(i)
      vaddr   == Wrap((IF updates THEN Val(g, i.a) ELSE BaseOf(i, g)) + offset, 4)
      h       == Memop(g, i.op, vaddr, i.d)
  IN  IF updates THEN Set(h, i.a, vaddr) ELSE h

(* In the order of the file; LFD and STFD move a register of the FPU,      *)
(* which is left out.                                                      *)
ExecNarrowLoad(i, g)  == Access(i, g)                  \* LBZ, LHA, LHZ
ExecWordLoad(i, g) ==
  CASE i.op = "LWZ"    -> Access(i, g)
    [] i.op = "LWBRX"  -> Memop(g, "LWBR", Indexed(i, g), i.d)
    [] i.op = "LWARX"  -> Memop(SetCell(g, "reserve", 1), "LWZ", Indexed(i, g), i.d)
ExecDoubleLoad(i, g)  == Access(i, g)                  \* LFD
ExecNarrowStore(i, g) == Access(i, g)                  \* STB, STH
ExecWordStore(i, g)   == Access(i, g)                  \* STW
ExecDoubleStore(i, g) == Access(i, g)                  \* STFD

ExecSpecialStore(i, g) ==
  CASE i.op = "STWBRX" -> Memop(g, "STWBR", Indexed(i, g), i.d)
    [] i.op = "STWCX"  ->
         IF Val(g, "reserve") = 1
         THEN SetCells(Memop(g, "STW", Indexed(i, g), i.d),
                       << <<"cr0", EQ + Summary(g)>>, <<"reserve", 0>> >>)
         ELSE SetCell(g, "cr0", Summary(g))

ExecIcbi(i, g) == Called(g, <<"ICBI">>, <<Indexed(i, g)>>, <<>>)

(* LMW, STMW: rd to the last register.                                     *)
Index(reg) == CHOOSE n \in DOMAIN Gprs : Gprs[n] = reg
ExecMultiple(i, g) ==
  LET step(h, n) == Memop(h, IF i.op = "LMW" THEN "LWZ" ELSE "STW",
                          Wrap(Displaced(i, g) + 4 * (n - Index(i.d)), 4), Gprs[n])
  IN  FoldLeft(step, g, [n \in 1..(Len(Gprs) - Index(i.d) + 1) |-> n + Index(i.d) - 1])

(* LSWI, LSWX, STSWI, STSWX: byte by byte, four to a register, from rd on  *)
(* and around; sw_pos is where in the register the byte goes.              *)
ExecString(i, g) ==
  LET count == IF i.op \in {"LSWI", "STSWI"}
               THEN (IF i.n = 0 THEN 32 ELSE i.n)
               ELSE Val(g, "xer") % 2 ^ CaBit
      from  == IF i.op \in {"LSWI", "STSWI"} THEN BaseOf(i, g) ELSE Indexed(i, g)
      reg(n) == Gprs[((Index(i.d) + (n \div 4) - 1) % Len(Gprs)) + 1]
      step(h, n) ==
        LET r     == reg(n)
            clean == IF n % 4 = 0 THEN SetCell(h, r, 0) ELSE h
            byte  == ShiftL(Wrap(LoadValue, 1), (3 - (n % 4)) * B, 4)
        IN  IF i.op \in {"LSWI", "LSWX"}
            THEN Called(clean, <<"LSW", r, n % 4>>, <<Wrap(from + n, 4)>>,
                        << <<r, Val(clean, r) | byte>> >>)
            ELSE Called(h, <<"STSW", r, n % 4>>, <<Wrap(from + n, 4), Val(h, r)>>, <<>>)
  IN  FoldLeft(step, g, [n \in 1..count |-> n - 1])

-----------------------------------------------------------------------------
(* The condition register, the machine state and the special registers.    *)
CrWord(g) == Val(g, "cr0") * 16 + Val(g, "cr1")
InvalidateMts(g) == Called(g, <<"ppc32_mem_invalidate_cache">>, <<>>, <<>>)
SetMsr(g, v) ==
  SetCells(g, << <<"msr", v>>,
                 <<"irq_check", BitOf(v, EeBit) * Val(g, "irq_pending")>> >>)

ExecCrMove(i, g) ==
  LET v == Val(g, i.d)
      fields == {f \in {0, 1} : BitOf(i.n, 1 - f) = 1}
  IN  CASE i.op = "MCRF"  -> SetCell(g, CrField(4 * i.crs[1]), Val(g, CrField(4 * i.crs[2])))
        [] i.op = "MFCR"  -> Set(g, i.d, CrWord(g))
        [] i.op = "MTCRF" -> SetCells(g, << <<"cr0", IF 0 \in fields THEN v \div 16 ELSE Val(g, "cr0")>>,
                                            <<"cr1", IF 1 \in fields THEN v % 16 ELSE Val(g, "cr1")>> >>)

ExecMachine(i, g) ==
  CASE i.op = "MFMSR"  -> Set(g, i.d, Val(g, "msr"))
    [] i.op = "MTMSR"  -> SetMsr(g, Val(g, i.d))
    [] i.op = "MFTBU"  -> Set(g, i.d, Val(g, "tb") \div Size(4))
    [] i.op = "MFTBL"  -> LET tb == Wrap(Val(g, "tb") + 50, 8)
                          IN  Set(SetCell(g, "tb", tb), i.d, tb)
    [] i.op \in {"MFSR", "MFSRIN"} -> Set(g, i.d, Val(g, "sr"))
    [] i.op = "MTSR"   -> InvalidateMts(Set(g, "sr", Val(g, i.d)))
    [] i.op \in {"TLBIA", "TLBIE"} -> InvalidateMts(g)

(* srr0 stands for the registers that are read and written as they are,    *)
(* dar for those that are only read, "bat" for the BAT registers.          *)
ExecMfspr(i, g) ==
  CASE i.spr = "xer" -> Set(g, i.d, Val(g, "xer") | (Val(g, "ca") * 2 ^ CaBit))
    [] i.spr = "tbl" -> Set(g, i.d, Val(g, "tb"))
    [] i.spr = "tbu" -> Set(g, i.d, Val(g, "tb") \div Size(4))
    [] i.spr = "bat" -> Called(g, <<"ppc32_get_bat_spr">>, <<>>, << <<i.d, 0>> >>)
    [] i.spr \in {"srr0", "dar", "dec", "sdr1"} -> Set(g, i.d, Val(g, i.spr))
    [] i.spr = "none" -> Set(g, i.d, 0)

ExecMtspr(i, g) ==
  LET v == Val(g, i.d)
  IN  CASE i.spr = "xer"  -> SetCells(g, << <<"xer", v - BitOf(v, CaBit) * 2 ^ CaBit>>,
                                            <<"ca", BitOf(v, CaBit)>> >>)
        [] i.spr = "dec"  -> SetCells(g, << <<"dec", v>>, <<"armed", 1>> >>)
        [] i.spr = "sdr1" -> InvalidateMts(Set(g, "sdr1", v))
        [] i.spr = "bat"  -> Called(g, <<"ppc32_set_bat_spr">>, <<v>>, <<>>)
        [] i.spr = "srr0" -> Set(g, "srr0", v)
        [] i.spr \in {"tbl", "tbu", "dar", "none"} -> g

-----------------------------------------------------------------------------
ExecMultiply(i, g) ==
  LET p == IF i.op = "MULHWU" THEN Val(g, i.a) * Val(g, i.b)
           ELSE IF i.op = "MULLI" THEN SVal(g, i.a) * Signed(i.imm, 2)
           ELSE SVal(g, i.a) * SVal(g, i.b)
      v == Wrap(IF i.op \in {"MULHW", "MULHWU"} THEN p \div Size(4) ELSE p, 4)
      h == IF i.op = "MULLWO" THEN SetOverflow(g, Overflows(p)) ELSE g
  IN  Set(Record(i, h, v), i.d, v)

(* NEGO records in CR0 whether it is asked to or not.                      *)
ExecNegate(i, g) ==
  LET v == Wrap(-Val(g, i.a), 4)
      h == IF i.op = "NEGO" THEN SetOverflow(g, v = Size(4) \div 2) ELSE g
  IN  Record([i EXCEPT !.dot = @ \/ i.op = "NEGO"], Set(h, i.d, v), v)

ExecRotate(i, g) ==
  LET k    == IF i.op = "RLWNM" THEN Val(g, i.b) % Bits(4) ELSE i.n
      mask == rotate_mask(i.mb, i.me)
      keep == IF i.op = "RLWIMI" THEN Val(g, i.a) & Complement(mask, 4) ELSE 0
      v    == (RotL(Val(g, i.d), k, 4) & mask) | keep
  IN  Set(Record(i, g, v), i.a, v)

ShiftCount(i, g) == Val(g, i.b) % (2 * Bits(4))
ExecShiftLeft(i, g) ==
  LET k == ShiftCount(i, g)
  IN  Logic(i, g, IF k >= Bits(4) THEN 0 ELSE ShiftL(Val(g, i.d), k, 4))
ExecShiftRight(i, g) ==
  LET k == ShiftCount(i, g)
  IN  Logic(i, g, IF k >= Bits(4) THEN 0 ELSE ShiftR(Val(g, i.d), k, 4))

(* C shifts by the amount modulo the width on this processor: SRAW by a    *)
(* register's whole value is undefined in C.                               *)
ExecShiftArithmetic(i, g) ==
  LET s == Val(g, i.d)
      k == IF i.op = "SRAWI" THEN i.n ELSE Val(g, i.b) % Bits(4)
      far == i.op = "SRAW" /\ ShiftCount(i, g) >= Bits(4)
  IN  Logic(i, Carries(g, Sign(s, 4) = 1 /\ (s % 2 ^ k # 0 \/ far)), ShiftA(s, k, 4))

(* rb - ra.  SUBFC and its like add one, or the carry, to ~ra first.       *)
ExecSubtract(i, g) ==
  LET d == Wrap(Val(g, i.b) - Val(g, i.a), 4)
      h == IF i.op = "SUBFO" THEN SetOverflow(g, Overflows(SVal(g, i.b) - SVal(g, i.a))) ELSE g
  IN  Set(Record(i, h, d), i.d, d)

ExecSubtractCarry(i, g) ==
  LET a   == Complement(Val(g, i.a), 4)
      k   == IF i.op = "SUBFE" THEN Val(g, "ca") ELSE 1
      b   == IF i.op = "SUBFIC" THEN SXImm4(i) ELSE Val(g, i.b)
      tmp == Wrap(a + k, 4)
      r   == Wrap(b + tmp, 4)
  IN  Set(Record(i, Carries(g, tmp < a \/ r < tmp), r), i.d, r)

(* SUBFZE never clears the carry.                                          *)
ExecSubtractZero(i, g) ==
  LET a == Complement(Val(g, i.a), 4)
      r == Wrap(a + Val(g, "ca"), 4)
      h == IF r < a THEN SetCell(g, "ca", 1) ELSE g
  IN  Set(Record(i, h, r), i.d, r)

-----------------------------------------------------------------------------
(* ppc32_trigger_exception, and what SC, TW and TWI do around it.          *)
Raise(g, exc) ==
  SetCells(g, << <<"srr0", Wrap(Val(g, "pc") + (IF exc = "SYSCALL" THEN 4 ELSE 0), 4)>>,
                 <<"srr1", Val(g, "msr") & ExcMask>>,
                 <<"msr", Val(g, "msr") & Complement(ExcMask, 4)>>,
                 <<"irq_check", 0>>, <<"pc", ExcVector>> >>)

Traps(i, g) ==
  LET a == SVal(g, i.a)
      b == IF i.op = "TW" THEN SVal(g, i.b) ELSE Signed(i.imm, 2)
  IN  \/ a < b /\ BitOf(i.n, 4) = 1
      \/ a > b /\ BitOf(i.n, 3) = 1
      \/ a = b /\ BitOf(i.n, 2) = 1
      \/ Wrap(a, 4) < Wrap(b, 4) /\ BitOf(i.n, 1) = 1
      \/ Wrap(a, 4) > Wrap(b, 4) /\ BitOf(i.n, 0) = 1

ExecRfi(i, g) ==
  LET msr == (Val(g, "msr") & Complement(RfiMask, 4)) | (Val(g, "srr1") & RfiMask)
  IN  Set(SetMsr(g, msr), "pc", Aligned(Val(g, "srr0")))
ExecTrap(i, g) ==                 \* TW, TWI
  LET trap == Raise(g, "PROG")
  IN  IF Traps(i, g) THEN SetCell(trap, "srr1", Val(trap, "srr1") | 2) ELSE g

-----------------------------------------------------------------------------
(* The table of the interpreter, ppc32_exec_tags.                          *)
SpecialMoves  == {"MFLR", "MTLR", "MFCTR", "MTCTR"}
AddOps        == {"ADD", "ADDO", "ADDC", "ADDCO"}
ExtendedAdds  == {"ADDE", "ADDEO"}
AddImmediates == {"ADDI", "ADDIC", "ADDIS"}
LogicOps      == {"AND", "ANDC", "EQV", "NAND", "NOR", "OR", "ORC", "XOR", "EXTSB", "EXTSH"}
LogicImmediates == {"ANDI", "ANDIS", "ORI", "ORIS", "XORI", "XORIS"}
CompareOps    == {"CMP", "CMPI", "CMPL", "CMPLI"}
CrOps         == {"CRAND", "CRANDC", "CREQV", "CRNAND", "CRNOR", "CROR", "CRORC", "CRXOR"}
SpecialAccesses == {"LWBRX", "STWBRX", "LWARX", "STWCX", "ICBI"}
StringOps     == {"LSWI", "LSWX", "STSWI", "STSWX"}
CrMoves       == {"MCRF", "MFCR", "MTCRF"}
MachineOps    == {"MFMSR", "MTMSR", "MFTBU", "MFTBL", "MFSR", "MFSRIN", "MTSR", "TLBIA", "TLBIE"}
MultiplyOps   == {"MULHW", "MULHWU", "MULLI", "MULLW", "MULLWO"}
RotateOps     == {"RLWIMI", "RLWINM", "RLWNM"}
CarrySubtracts == {"SUBFC", "SUBFE", "SUBFIC"}
(* Of the cache and 405 operations nothing reaches a guest cell.           *)
Nops          == {"DCBF", "DCBI", "DCBT", "DCBST", "EIEIO", "ISYNC", "SYNC", "TLBSYNC",
                  "DCCCI", "ICCCI", "MFDCR", "MTDCR"}
PcOps         == {"B", "BC", "BCLR", "BCCTR", "SC", "RFI"}

Exec(i, g) ==
  CASE ~Known(i)                  -> g
    [] i.op \in SpecialMoves      -> ExecMoveSpecial(i, g)
    [] i.op \in AddOps            -> ExecAdd(i, g)
    [] i.op \in ExtendedAdds      -> ExecAddExtended(i, g)
    [] i.op \in AddImmediates     -> ExecAddImmediate(i, g)
    [] i.op \in {"ADDME", "ADDZE"} -> ExecAddMinusZero(i, g)
    [] i.op \in {"AND", "ANDC"}   -> ExecAnd(i, g)
    [] i.op \in {"EQV", "EXTSB", "EXTSH"} -> ExecEqvExtend(i, g)
    [] i.op = "NAND"              -> ExecNand(i, g)
    [] i.op \in {"NOR", "OR", "ORC"} -> ExecOr(i, g)
    [] i.op = "XOR"               -> ExecXor(i, g)
    [] i.op \in {"ANDI", "ANDIS"} -> ExecAndImmediate(i, g)
    [] i.op \in {"ORI", "ORIS"}   -> ExecOrImmediate(i, g)
    [] i.op \in {"XORI", "XORIS"} -> ExecXorImmediate(i, g)
    [] i.op = "B"                 -> ExecBranch(i, g)
    [] i.op = "BC"                -> ExecBranchCond(i, g)
    [] i.op \in {"BCLR", "BCCTR"} -> ExecBranchReg(i, g)
    [] i.op \in CompareOps        -> ExecCompare(i, g)
    [] i.op = "CNTLZW"            -> ExecCountZeros(i, g)
    [] i.op \in CrOps             -> ExecCr(i, g)
    [] i.op \in {"DIVW", "DIVWU"} -> ExecDivide(i, g)
    [] i.op \in {"LBZ", "LHA", "LHZ"} -> ExecNarrowLoad(i, g)
    [] i.op \in {"LWZ", "LWBRX", "LWARX"} -> ExecWordLoad(i, g)
    [] i.op = "LFD"               -> ExecDoubleLoad(i, g)
    [] i.op \in {"STB", "STH"}    -> ExecNarrowStore(i, g)
    [] i.op = "STW"               -> ExecWordStore(i, g)
    [] i.op = "STFD"              -> ExecDoubleStore(i, g)
    [] i.op \in {"STWBRX", "STWCX"} -> ExecSpecialStore(i, g)
    [] i.op = "ICBI"              -> ExecIcbi(i, g)
    [] i.op \in {"LMW", "STMW"}   -> ExecMultiple(i, g)
    [] i.op \in StringOps         -> ExecString(i, g)
    [] i.op \in CrMoves           -> ExecCrMove(i, g)
    [] i.op \in MachineOps        -> ExecMachine(i, g)
    [] i.op = "MFSPR"             -> ExecMfspr(i, g)
    [] i.op = "MTSPR"             -> ExecMtspr(i, g)
    [] i.op \in MultiplyOps       -> ExecMultiply(i, g)
    [] i.op \in {"NEG", "NEGO"}   -> ExecNegate(i, g)
    [] i.op \in RotateOps         -> ExecRotate(i, g)
    [] i.op = "SLW"               -> ExecShiftLeft(i, g)
    [] i.op = "SRW"               -> ExecShiftRight(i, g)
    [] i.op \in {"SRAW", "SRAWI"} -> ExecShiftArithmetic(i, g)
    [] i.op \in {"SUBF", "SUBFO"} -> ExecSubtract(i, g)
    [] i.op \in CarrySubtracts    -> ExecSubtractCarry(i, g)
    [] i.op = "SUBFZE"            -> ExecSubtractZero(i, g)
    [] i.op = "SC"                -> Raise(g, "SYSCALL")
    [] i.op = "RFI"               -> ExecRfi(i, g)
    [] i.op \in {"TW", "TWI"}     -> ExecTrap(i, g)
    [] i.op \in Nops              -> g

(* ppc32_exec_single_insn_ext: an instruction that did not set pc is       *)
(* followed by the next one.                                               *)
ExecStep(i, g) ==
  LET h == Exec(i, g)
  IN  IF i.op \in PcOps \/ (i.op \in {"TW", "TWI"} /\ Traps(i, g)) THEN h
      ELSE Set(h, "pc", Val(g, "pc") + 4)

-----------------------------------------------------------------------------
(***************************************************************************)
(* A page of PowerPC instructions, run by the interpreter and by the code  *)
(* that each translator compiles for the whole of it, from the same guest  *)
(* until the page is left.  The two have to agree on everything the guest  *)
(* can see, whichever host registers the instructions shared, whichever    *)
(* loads and flag updates the optimizer dropped, and wherever the page is  *)
(* jumped into.                                                            *)
(***************************************************************************)

CONSTANTS Start,           \* the address of the page
          Singles,         \* instructions that are run on their own,
          Doubles,         \* in pairs
          Triples,         \* and by threes
          Few, Many,       \* what a register holds: for several instructions, for one
          Fuel             \* the most instructions a page runs before it is left

A == INSTANCE PpcAmd64 WITH Wide <- 8
X == INSTANCE PpcX86 WITH Wide <- 4
P == INSTANCE PpcPpc

VARIABLES page,            \* the instructions
          start,           \* the guest before them
          interp,          \* the run of the interpreter, or Waiting
          host,            \* which processor ran the translation: "none", "amd64", "x86", "ppc"
          after            \* that processor, or Waiting

tvars == <<page, start, interp, host, after>>

Waiting == [waiting |-> TRUE]

Blank == [ op |-> "SYNC", dot |-> FALSE, d |-> "r0", a |-> "r0", b |-> "r0", imm |-> 0, n |-> 0,
           mb |-> 0, me |-> 0, crs |-> <<0, 0, 0>>, bo |-> 0, disp |-> 0, lk |-> FALSE,
           aa |-> FALSE, spr |-> "none", form |-> "" ]

Page(insns) == [n \in 1..PageInsns |-> IF n <= Len(insns) THEN insns[n] ELSE Blank]
Pages == { Page(<<x>>) : x \in Singles } \cup { Page(<<x, y>>) : x \in Doubles, y \in Doubles }
         \cup { Page(<<x, y, z>>) : x \in Triples, y \in Triples, z \in Triples }
Alone(p) == p[2] = Blank
Has(p, ops) == \E n \in DOMAIN p : p[n].op \in ops

(* What the page reads is what varies: CA, the condition register, and     *)
(* whether the MTS cache has the page of an access.  Which block a jump    *)
(* out of the page finds, and SO, go with the values of two registers.     *)
CarryOps == {"ADDE", "ADDEO", "ADDME", "ADDZE", "SUBFE", "SUBFZE", "MFSPR"}
CrUsers  == CrOps \cup CrMoves \cup {"BC", "BCLR", "BCCTR"}
Compares == {"CMP", "CMPI", "CMPL", "CMPLI"}
Records(i) == i.dot \/ i.op \in Compares
Away       == Size(4) \div 2       \* how far a block of the same hash is
FoundBlock(v1, v2) ==
  CASE v1 = v2 /\ v1 # 0 -> Away [] v1 = 0 /\ v2 # 0 -> 0 [] v2 = 0 /\ v1 # 0 -> 2 [] OTHER -> 1
HeldBy(p) == CASE ~Alone(p) -> Few
               [] Alone(p) /\ Has(p, {"B", "BC"}) -> {n \in Many : n < Size(4) \div 2}
               [] OTHER -> Many
Guests(p) ==
  { Guest([c \in PpcCells |->
      CASE c = "r0" -> 7 [] c = "r1" -> v1 [] c = "r2" -> v2 [] c = "r3" -> 37
        [] c = "lr" -> Start + 8 [] c = "ctr" -> ctr [] c = "pc" -> Start
        [] c = "xer" -> (IF v1 > v2 THEN 2 ^ SoBit ELSE 0) + 2 ^ OvBit + 5 [] c = "ca" -> ca [] c = "cr0" -> cr [] c = "cr1" -> 14 - cr
        [] c = "msr" -> 2 ^ EeBit + 3 [] c = "tb" -> Size(4) - 40 [] c = "reserve" -> ca
        [] c = "sr" -> 9 [] c = "srr0" -> Start + 5 [] c = "srr1" -> 85 [] c = "dec" -> 11
        [] c = "sdr1" -> 12 [] c = "dar" -> 13 [] c \in {"armed", "irq_check"} -> 0
        [] c = "irq_pending" -> 1 [] c = "mts" -> mts
        [] c = "blk" -> FoundBlock(v1, v2)]) :
    v1 \in IF p[3] = Blank THEN HeldBy(p) ELSE {CHOOSE n \in Few : \A k \in Few : n <= k},
    v2 \in HeldBy(p),
    ca \in IF Has(p, CarryOps \cup {"STWCX"}) THEN {0, 1} ELSE {1},
    cr \in IF Has(p, CrUsers) THEN {4, 10} ELSE {4},
    ctr \in IF Has(p, {"BC", "BCLR", "BCCTR"}) THEN {2, Start + 12} ELSE {2},
    mts \in IF Has(p, Loads \cup Stores) THEN {0, 1} ELSE {0} }

-----------------------------------------------------------------------------
(* ppc32_exec_page: until the page is left.  at: the guest before each     *)
(* instruction.                                                            *)
InPage(g) == A!Local(Val(g, "pc"), Start)
InsnAt(p, g) == p[(Val(g, "pc") - Start) \div 4 + 1]

RECURSIVE ExecPage(_, _, _)
ExecPage(p, g, trace) ==
  IF ~InPage(g) \/ Len(trace) = Fuel THEN [g |-> g, trace |-> trace]
  ELSE ExecPage(p, ExecStep(InsnAt(p, g), g), Append(trace, g))

(* What the registers of the host hold when the block is entered: the      *)
(* address of a page, of the hash of the next one.                         *)
Junk == Start + 4 * PageInsns + Away

(* The block, from a position of its code.  Where the code calls the       *)
(* interpreter, a function that set pc makes the block return; where it    *)
(* returned or was entered at an instruction with no code of its own, the  *)
(* interpreter runs the page from there (ppc32_jit_tcb_exec).              *)
Entry(code, ia) == {n \in DOMAIN code : code[n] = <<"lbl", <<"ia", ia>> >>}

Continue(h, g) == [A!Clobbered(h) EXCEPT !.g = g, !.at = 0]
Leave(h, g)    == [h EXCEPT !.g = g, !.at = 0, !.left = TRUE]

RECURSIVE RunPage(_, _, _, _)
RunPage(run(_, _, _), p, code, h) ==
  LET ia     == Val(h.g, "pc")
      inside == ~h.trap /\ h.at = 0 /\ InPage(h.g)
  IN  CASE h.trap -> h
        [] h.at # 0 ->
             LET i == code[h.at][2]
                 g == Exec(i, h.g)
             IN  IF ExecStep(i, h.g) = g      \* it set pc
                 THEN RunPage(run, p, code, Leave(h, g))
                 ELSE RunPage(run, p, code, run(Continue(h, g), code, h.at + 1))
        [] inside /\ Entry(code, ia) = {} -> Leave(h, ExecPage(p, h.g, <<>>).g)
        [] inside /\ Entry(code, ia) # {} ->
             RunPage(run, p, code,
                     run([h EXCEPT !.left = FALSE], code, CHOOSE n \in Entry(code, ia) : TRUE))
        [] OTHER -> h

-----------------------------------------------------------------------------
Init ==
  /\ page \in Pages
  /\ start \in Guests(page)
  /\ interp = Waiting
  /\ host = "none"
  /\ after = Waiting

Interpret ==
  /\ interp = Waiting
  /\ interp' = ExecPage(page, start, <<>>)
  /\ ~InPage(interp'.g)
  /\ UNCHANGED <<page, start, host, after>>

RunAmd64 ==
  /\ interp # Waiting /\ host = "none"
  /\ host' = "amd64"
  /\ after' = RunPage(A!Run, page, A!Code(page, Start, Start), A!Host(start, Junk, A!Amd64Lost))
  /\ UNCHANGED <<page, start, interp>>

RunX86 ==
  /\ interp # Waiting /\ host = "none"
  /\ host' = "x86"
  /\ after' = RunPage(X!Run, page, X!Code(page, Start, Start), X!Host(start, Junk, X!X86Lost))
  /\ UNCHANGED <<page, start, interp>>

RunPpc ==
  /\ interp # Waiting /\ host = "none"
  /\ host' = "ppc"
  /\ after' = RunPage(P!PpcRun, page, P!Code(page, Start, Start), P!PpcHost(start, Junk))
  /\ UNCHANGED <<page, start, interp>>

Next == Interpret \/ RunAmd64 \/ RunX86 \/ RunPpc
Spec == Init /\ [][Next]_tvars

-----------------------------------------------------------------------------
(* Pages on which the translations are known to differ; the README says    *)
(* how.  An instruction departs in the guest it was run in.                *)
SumOverflows(i, g) ==
  CASE i.op = "ADD"   -> Overflows(SVal(g, i.a) + SVal(g, i.b))
    [] i.op = "ADDIC" -> Overflows(SVal(g, i.a) + Signed(i.imm, 2))
    [] i.op = "ADDZE" -> Overflows(SVal(g, i.a) + Val(g, "ca"))
    [] i.op = "SUBF"  -> Overflows(SVal(g, i.b) - SVal(g, i.a))
    [] OTHER          -> FALSE

Departs(i, g) ==
  \/ i.dot /\ (SumOverflows(i, g) \/ i.op \in {"SUBFC", "SUBFE", "EQV"})
  \/ i.op = "DIVWU" /\ Val(g, i.b) = 0
  \/ i.op = "RLWIMI" /\ i.a = i.d
  \/ i.op \in {"BCLR", "BCCTR"} /\ i.bo = 20
     /\ Val(g, IF i.op = "BCLR" THEN "lr" ELSE "ctr") % 4 # 0

Ran(f(_, _)) == \E k \in DOMAIN interp.trace : f(InsnAt(page, interp.trace[k]), interp.trace[k])

(* The x86-64 code of SLW and SRW: a count above six bits is cut down in   *)
(* the host register that holds rb, and SRW shifts all 64 bits of a host   *)
(* register whose upper half may be set.                                   *)
Widening == {"EQV", "NAND", "NOR", "NEG", "XORI", "XORIS", "MFTBL", "SLW", "ORC", "ANDC"}
Amd64Shifts ==
  \E k \in DOMAIN page :
    \/ page[k].op \in {"SLW", "SRW"} /\ Val(start, page[k].b) >= 2 * Bits(4) /\ ~Alone(page)
    \/ page[k].op = "SRW" /\ \E l \in 1..(k - 1) : page[l].op \in Widening

(* No translator copies SO into a field that it sets: the code for that is *)
(* commented out.  What the field says else is the interpreter's; what     *)
(* reads the field behind that is not compared.                            *)
SoLost(here(_)) ==
  \E k \in DOMAIN interp.trace :
    LET i == InsnAt(page, interp.trace[k])
    IN  Records(i) /\ here(i) /\ BitOf(Val(interp.trace[k], "xer"), SoBit) = 1
PpcHere(i) == A!Translated(i) \/ i.op \in {"DIVW", "ADDME"}
SoRead(here(_)) == SoLost(here) /\ Has(page, CrUsers)

(* The x86-64 code for a jump out of the page compares RAX, not the page   *)
(* that it has loaded: it goes into a block of another page when RAX holds *)
(* the address of that page.  It leaves RAX as it was.                     *)
Strays ==
  /\ ~InPage(interp.g) /\ start.m["blk"] = Away
  /\ Wrap(after.r["ax"], 4) = Wrap(A!PageOf(Val(interp.g, "pc")) + Away, 4)

SameGuest(here(_)) ==
  /\ ~after.trap
  /\ \A c \in PpcCells \ CrFields : after.g.m[c] = interp.g.m[c]
  /\ \A c \in CrFields : \/ after.g.m[c] = interp.g.m[c]
                         \/ SoLost(here) /\ after.g.m[c] = interp.g.m[c] - (interp.g.m[c] % 2)
  /\ after.g.calls = interp.g.calls
  /\ start.m["mts"] = 1 \/ after.g.pcs = interp.g.pcs

(* The code that the x86-64 translator compiles for a page does to the     *)
(* guest what the interpreter does: registers, where it goes on, the       *)
(* functions called with what arguments, and the pc they see.              *)
PpcAmd64Agrees ==
  host = "amd64" /\ ~Ran(Departs) /\ ~Amd64Shifts /\ ~SoRead(A!Translated) /\ ~Strays
    => SameGuest(A!Translated)

(* The same of the x86 translator, which has four host registers to share. *)
PpcX86Agrees ==
  host = "x86" /\ ~Ran(Departs) /\ ~SoRead(A!Translated) => SameGuest(A!Translated)

(* On a PowerPC host an instruction departs when CR0 records what is not   *)
(* its result, or a form that the interpreter does not know; when the      *)
(* host's own result is undefined; when it reads the LR that it has just   *)
(* set; and when it sets one bit of CR, which the code never does.         *)
PpcDeparts(i, g) ==
  \/ i.dot /\ i.op \in {"EQV", "SUBFE", "RLWIMI"}
  \/ i.op \in {"DIVWU", "DIVW"} /\ Val(g, i.b) = 0
  \/ i.op = "DIVW" /\ SVal(g, i.b) = -1 /\ SVal(g, i.a) = -(Size(4) \div 2)
  \/ i.op \in {"BCLR", "BCCTR"} /\ i.bo = 20
     /\ Val(g, IF i.op = "BCLR" THEN "lr" ELSE "ctr") % 4 # 0
  \/ i.op = "BCLR" /\ i.bo # 20 /\ i.lk
  \/ i.op \in CrOps

(* The same of the translator for PowerPC hosts, on which the guest's      *)
(* carries and conditions are the host's.                                  *)
PpcPpcAgrees == host = "ppc" /\ ~Ran(PpcDeparts) /\ ~SoRead(PpcHere) => SameGuest(PpcHere)
=============================================================================
