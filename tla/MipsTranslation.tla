------------------------------ MODULE MipsTranslation ------------------------------
(***************************************************************************)
(* The MIPS64 interpreter: mips64_exec_<op> of mips64_exec.c, one operator *)
(* for a run of functions of one kind.  Each maps an instruction and the   *)
(* guest to the guest after it.  A function that returns 0 leaves pc to    *)
(* its caller, which adds 4; a function that returns 1 set pc.             *)
(***************************************************************************)
EXTENDS MipsInsn

Val(g, c)  == g.m[c]
Low(g, c)  == Wrap(g.m[c], 4)                 \* (m_uint32_t)cpu->gpr[c]
SLow(g, c) == Signed(g.m[c], 4)               \* (m_int32_t)cpu->gpr[c]
SVal(g, c) == Signed(g.m[c], 8)               \* (m_int64_t)cpu->gpr[c]
Set(g, c, v) == SetCell(g, c, Wrap(v, 8))
Set32(g, c, v) == SetCell(g, c, SX(v, 4))     \* sign_extend(v, 32)

ExecAddAnd(i, g) ==
  CASE i.op \in {"ADD", "ADDU"}   -> Set32(g, i.rd, Low(g, i.rs) + Low(g, i.rt))
    [] i.op \in {"ADDI", "ADDIU"} -> Set32(g, i.rt, Low(g, i.rs) + SXImm(i))
    [] i.op = "AND"               -> Set(g, i.rd, Val(g, i.rs) & Val(g, i.rt))
    [] i.op = "ANDI"              -> Set(g, i.rt, Val(g, i.rs) & i.imm)

ExecDoubleAdd(i, g) ==
  CASE i.op = "DADDIU" -> Set(g, i.rt, Val(g, i.rs) + SXImm(i))
    [] i.op = "DADDU"  -> Set(g, i.rd, Val(g, i.rs) + Val(g, i.rt))

ExecDivide(i, g) ==
  LET n == IF i.op = "DIV" THEN SLow(g, i.rs) ELSE Low(g, i.rs)
      m == IF i.op = "DIV" THEN SLow(g, i.rt) ELSE Low(g, i.rt)
  IN  IF i.op = "DIVU" /\ Val(g, i.rt) = 0 THEN g
      ELSE Set32(Set32(g, "lo", Quotient(n, m)), "hi", Remainder(n, m))

(* The amount is sa, sa + 32 or the low bits of rs.                        *)
ExecDoubleShift(i, g) ==
  LET v == Val(g, i.rt)
      k == CASE i.op \in {"DSLL", "DSRA", "DSRL"}       -> i.sa
             [] i.op \in {"DSLL32", "DSRA32", "DSRL32"} -> i.sa + Bits(4)
             [] i.op \in {"DSLLV", "DSRAV", "DSRLV"}    -> Val(g, i.rs) % Bits(8)
             [] i.op = "DSUBU"                          -> 0
  IN  Set(g, i.rd, CASE i.op \in {"DSLL", "DSLL32", "DSLLV"} -> ShiftL(v, k, 8)
                     [] i.op \in {"DSRA", "DSRA32", "DSRAV"} -> ShiftA(v, k, 8)
                     [] i.op \in {"DSRL", "DSRL32", "DSRLV"} -> ShiftR(v, k, 8)
                     [] i.op = "DSUBU"                       -> Val(g, i.rs) - v)

(* mips64_exec_memop2.                                                     *)
ExecMemop(i, g, keep) ==
  LET vaddr == Wrap(Val(g, i.rs) + SXImm(i), 4)
      h     == IF keep THEN g ELSE SetCell(g, "ll", 0)
  IN  Called(h, <<i.op, i.rt>>, <<vaddr>>, MemSets(i.op, i.rt, LoadValue, 1, h.m["ll"]))

ExecLoad(i, g) ==
  CASE i.op \in LoadOps \cup {"LDC1"} -> ExecMemop(i, g, TRUE)
    [] i.op = "LI"  -> Set(g, i.rt, SXImm(i))
    [] i.op = "LUI" -> Set(g, i.rt, SXImm(i) * Size(2))

ExecMove(i, g) ==
  CASE i.op \in {"MFC0", "MFC1"} -> Called(g, <<i.op, i.rt, i.rd>>, <<>>, << <<i.rt, LoadValue>> >>)
    [] i.op \in {"MTC0", "MTC1"} -> Called(g, <<i.op, i.rt, i.rd>>, <<>>, <<>>)
    [] i.op = "MFHI" -> Set(g, i.rd, Val(g, "hi"))
    [] i.op = "MFLO" -> Set(g, i.rd, Val(g, "lo"))
    [] i.op = "MOVE" -> Set32(g, i.rd, Low(g, i.rs))
    [] i.op = "MTHI" -> Set(g, "hi", Val(g, i.rs))
    [] i.op = "MTLO" -> Set(g, "lo", Val(g, i.rs))

ExecMultiply(i, g) ==
  LET p == IF i.op = "MULTU" THEN Low(g, i.rs) * Low(g, i.rt)
                             ELSE SLow(g, i.rs) * SLow(g, i.rt)
  IN  IF i.op = "MUL" THEN Set32(g, i.rd, p)
      ELSE Set32(Set32(g, "lo", p), "hi", p \div Size(4))

ExecOr(i, g) ==
  CASE i.op \in {"NOP", "PREF", "PREFI"} -> g
    [] i.op = "NOR" -> Set(g, i.rd, Complement(Val(g, i.rs) | Val(g, i.rt), 8))
    [] i.op = "OR"  -> Set(g, i.rd, Val(g, i.rs) | Val(g, i.rt))
    [] i.op = "ORI" -> Set(g, i.rt, Val(g, i.rs) | i.imm)

ExecStore(i, g) == ExecMemop(i, g, i.op = "SC")      \* SB to SDC1, SH

ExecShiftSet(i, g) ==
  LET k    == IF i.op \in {"SLLV", "SRAV", "SRLV"} THEN Val(g, i.rs) % Bits(4) ELSE i.sa
      When(b) == IF b THEN 1 ELSE 0
  IN  CASE i.op \in {"SLL", "SLLV"} -> Set32(g, i.rd, ShiftL(Low(g, i.rt), k, 4))
        [] i.op \in {"SRA", "SRAV"} -> Set32(g, i.rd, ShiftA(Low(g, i.rt), k, 4))
        [] i.op \in {"SRL", "SRLV"} -> Set32(g, i.rd, ShiftR(Low(g, i.rt), k, 4))
        [] i.op = "SLT"   -> Set(g, i.rd, When(SVal(g, i.rs) < SVal(g, i.rt)))
        [] i.op = "SLTI"  -> Set(g, i.rt, When(SVal(g, i.rs) < Signed(i.imm, 2)))
        [] i.op = "SLTIU" -> Set(g, i.rt, When(Val(g, i.rs) < SXImm(i)))
        [] i.op = "SLTU"  -> Set(g, i.rd, When(Val(g, i.rs) < Val(g, i.rt)))

ExecSub(i, g) == Set32(g, i.rd, Low(g, i.rs) - Low(g, i.rt))       \* SUB, SUBU

ExecWordStore(i, g) == ExecMemop(i, g, FALSE)                      \* SW, SWL, SWR

ExecXor(i, g) ==
  CASE i.op = "XOR"  -> Set(g, i.rd, Val(g, i.rs) ^^ Val(g, i.rt))
    [] i.op = "XORI" -> Set(g, i.rt, Val(g, i.rs) ^^ i.imm)

ExecCp(i, g) ==          \* CFC0, CTC0, then DMFC0 to DMTC1
  Called(g, <<i.op, i.rt, i.rd>>, <<>>,
         IF i.op \in GetOps THEN << <<i.rt, LoadValue>> >> ELSE <<>>)

(* TEQ and TEQI compare all 64 bits.                                       *)
Traps(i, g) == \/ i.op = "TEQ" /\ Val(g, i.rs) = Val(g, i.rt)
               \/ i.op = "TEQI" /\ Val(g, i.rs) = SXImm(i)

ExecTrap(i, g) ==        \* SYNC, SYSCALL, TEQ, TEQI, TLBP to TLBWR
  CASE i.op = "SYSCALL" \/ Traps(i, g) -> Called(g, <<i.op>>, <<>>, << <<"pc", ExcVector>> >>)
    [] i.op \in TlbOps -> Called(g, <<i.op>>, <<>>, <<>>)
    [] i.op = "SYNC" \/ (i.op \in {"TEQ", "TEQI"} /\ ~Traps(i, g)) -> g

ExecBreakCache(i, g) ==
  CASE i.op = "BREAK" -> Called(g, <<i.op>>, <<>>, << <<"pc", ExcVector>> >>)
    [] i.op = "CACHE" -> ExecMemop(i, g, FALSE)

ExecEret(g) == Called(g, <<"ERET">>, <<>>, << <<"ll", 0>>, <<"pc", ReturnPc>> >>)

-----------------------------------------------------------------------------
(* Dispatch on the opcode: mips64_exec_tags gives each its function.       *)
ExecPlain(i, g) ==
  CASE i.op \in {"ADD", "ADDU", "ADDI", "ADDIU", "AND", "ANDI"} -> ExecAddAnd(i, g)
    [] i.op \in {"DADDIU", "DADDU"}              -> ExecDoubleAdd(i, g)
    [] i.op \in {"DIV", "DIVU"}                  -> ExecDivide(i, g)
    [] i.op \in {"DSLL", "DSRA", "DSRL", "DSLL32", "DSRA32", "DSRL32", "DSLLV",
                 "DSRAV", "DSRLV", "DSUBU"}      -> ExecDoubleShift(i, g)
    [] i.op \in LoadOps \cup {"LDC1", "LI", "LUI"} -> ExecLoad(i, g)
    [] i.op \in {"MFC0", "MFC1", "MTC0", "MTC1", "MFHI", "MFLO", "MOVE", "MTHI",
                 "MTLO"}                         -> ExecMove(i, g)
    [] i.op \in {"MUL", "MULT", "MULTU"}         -> ExecMultiply(i, g)
    [] i.op \in {"NOP", "PREF", "PREFI", "NOR", "OR", "ORI"} -> ExecOr(i, g)
    [] i.op \in {"SW", "SWL", "SWR"}             -> ExecWordStore(i, g)
    [] i.op \in (StoreOps \ {"SW", "SWL", "SWR"}) \cup {"SDC1"} -> ExecStore(i, g)
    [] i.op \in {"SLL", "SLLV", "SRA", "SRAV", "SRL", "SRLV", "SLT", "SLTI",
                 "SLTIU", "SLTU"}                -> ExecShiftSet(i, g)
    [] i.op \in {"SUB", "SUBU"}                  -> ExecSub(i, g)
    [] i.op \in {"XOR", "XORI"}                  -> ExecXor(i, g)
    [] i.op \in {"CFC0", "CTC0", "DMFC0", "DMFC1", "DMTC0", "DMTC1"} -> ExecCp(i, g)
    [] i.op \in {"SYNC", "SYSCALL", "TEQ", "TEQI"} \cup TlbOps -> ExecTrap(i, g)
    [] i.op \in {"BREAK", "CACHE"}               -> ExecBreakCache(i, g)

(* mips64_exec_bdslot: pc still names the branch.                          *)
ExecSlot(i, g) == ExecPlain(i.slot, g)

Goto(g, pc) == SetCell(g, "pc", pc)
Skip(g)     == SetCell(g, "pc", g.m["pc"] + 8)
Link(i, g)  == IF i.op \in Linking \cup {"BAL", "JAL"}
               THEN SetCell(g, "ra", g.m["pc"] + 8) ELSE g

(* The condition was read before the delay slot.  A likely branch that is  *)
(* not taken skips its slot, any other runs it.                            *)
Branch(i, g, taken) ==
  LET target == BranchTarget(i, g.m["pc"])
      h      == Link(i, g)
  IN  CASE taken                      -> Goto(ExecSlot(i, h), target)
        [] ~taken /\ i.op \in Likely  -> Skip(h)
        [] ~taken /\ i.op \notin Likely -> Skip(ExecSlot(i, h))

ExecBranchAlways(i, g) == Branch(i, g, TRUE)

ExecBranchEq(i, g) ==
  Branch(i, g, CASE i.op \in {"BEQ", "BEQL"} -> Val(g, i.rs) = Val(g, i.rt)
                 [] i.op = "BEQZ"            -> Val(g, i.rs) = 0
                 [] i.op = "BNEZ"            -> Val(g, i.rs) # 0)

ExecBranchGez(i, g) == Branch(i, g, SVal(g, i.rs) >= 0)

ExecBranchGtzLez(i, g) ==
  Branch(i, g, IF i.op \in {"BGTZ", "BGTZL"} THEN SVal(g, i.rs) > 0 ELSE SVal(g, i.rs) <= 0)

ExecBranchLtz(i, g) == Branch(i, g, SVal(g, i.rs) < 0)

ExecBranchNe(i, g) == Branch(i, g, Val(g, i.rs) # Val(g, i.rt))

(* JALR writes rd before it reads rs.                                      *)
ExecJump(i, g) ==
  LET pc == g.m["pc"]
      h  == IF i.op = "JALR" THEN SetCell(g, i.rd, pc + 8) ELSE Link(i, g)
  IN  Goto(ExecSlot(i, h),
           IF i.op \in {"J", "JAL"} THEN JumpTarget(i, pc) ELSE h.m[i.rs])

(* mips64_exec_single_step: pc moves on unless the function set it.        *)
SetsPc(i, g) == i.op \in {"SYSCALL", "BREAK"} \/ Traps(i, g)

ExecStep(i, g) ==
  CASE i.op \in {"B", "BAL"}                   -> ExecBranchAlways(i, g)
    [] i.op \in {"BEQ", "BEQL", "BEQZ", "BNEZ"} -> ExecBranchEq(i, g)
    [] i.op \in {"BGEZ", "BGEZAL", "BGEZALL", "BGEZL"} -> ExecBranchGez(i, g)
    [] i.op \in {"BGTZ", "BGTZL", "BLEZ", "BLEZL"} -> ExecBranchGtzLez(i, g)
    [] i.op \in {"BLTZ", "BLTZAL", "BLTZALL", "BLTZL"} -> ExecBranchLtz(i, g)
    [] i.op \in {"BNE", "BNEL"}                 -> ExecBranchNe(i, g)
    [] i.op \in Jumps                           -> ExecJump(i, g)
    [] i.op = "ERET"                            -> ExecEret(g)
    [] OTHER -> IF SetsPc(i, g) THEN ExecPlain(i, g)
                ELSE Goto(ExecPlain(i, g), g.m["pc"] + 4)

-----------------------------------------------------------------------------
(***************************************************************************)
(* One MIPS64 instruction, and the slot behind it if it is a branch, run   *)
(* by the interpreter and by the code each translator emits for it, from   *)
(* the same guest.  The virtual machine may be run by either (cpu->exec_   *)
(* mode), and by both in one run: a block that can not be translated as a  *)
(* whole calls the interpreter for the instructions it leaves out, so the  *)
(* two have to agree on everything the guest can see.                      *)
(***************************************************************************)

CONSTANTS Values,          \* what a register may hold
          Immediates,      \* what the immediate field may hold
          Amounts,         \* what the shift amount field may hold
          Pc               \* where the instruction is

A == INSTANCE MipsAmd64
X == INSTANCE MipsX86

VARIABLES insn,            \* the instruction
          start,           \* the guest before it
          interp,          \* the guest after the interpreter ran it, or Waiting
          host,            \* which processor ran the translation: "none", "amd64", "x86"
          after            \* that processor, or Waiting

tvars == <<insn, start, interp, host, after>>

Waiting == [waiting |-> TRUE]

-----------------------------------------------------------------------------
(* The instructions and the operands.                                      *)
RegisterOps  == {"ADD", "ADDU", "AND", "DADDU", "DSLLV", "DSRAV", "DSRLV", "DSUBU",
                 "MUL", "NOR", "OR", "SLLV", "SLT", "SLTU", "SRAV", "SRLV", "SUB",
                 "SUBU", "XOR"}
HiLoOps      == {"DIV", "DIVU", "MULT", "MULTU", "TEQ"}
ImmediateOps == {"ADDI", "ADDIU", "ANDI", "DADDIU", "LI", "LUI", "ORI", "SLTI",
                 "SLTIU", "TEQI", "XORI"}
ShiftOps     == {"DSLL", "DSLL32", "DSRA", "DSRA32", "DSRL", "DSRL32", "SLL", "SRA", "SRL"}
MoveOps      == {"MFHI", "MFLO", "MOVE", "MTHI", "MTLO"}
SystemOps    == {"BREAK", "ERET", "NOP", "PREF", "PREFI", "SYNC", "SYSCALL"}
                \cup GetOps \cup PutOps \cup TlbOps

Insn(op, rs, rt, rd, imm, sa, fast, slot) ==
  [op |-> op, rs |-> rs, rt |-> rt, rd |-> rd, imm |-> imm, sa |-> sa, index |-> 1,
   fast |-> fast, slot |-> slot]

NoSlot == <<>>
Slots  == { Insn("ADDIU", "r1", "r1", "r1", 1, 0, FALSE, NoSlot),
            Insn("LW", "r2", "r1", "r1", 1, 0, FALSE, NoSlot) }

(* Fields that name the same register, or the zero register, are cases of  *)
(* their own.  No instruction writes $zero: see the README.                *)
Insns ==
  { Insn(op, f[1], f[2], f[3], 0, 0, FALSE, NoSlot) : op \in RegisterOps,
      f \in { <<"r1", "r2", "r3">>, <<"r1", "r2", "r1">>, <<"r1", "r2", "r2">>,
              <<"r1", "r1", "r1">>, <<"zero", "r2", "r3">>, <<"r1", "zero", "r3">> } }
  \cup { Insn(op, f[1], f[2], "zero", 0, 0, FALSE, NoSlot) : op \in HiLoOps,
           f \in { <<"r1", "r2">>, <<"r1", "r1">> } }
  \cup { Insn(op, f[1], f[2], "zero", n, 0, FALSE, NoSlot) : op \in ImmediateOps,
           f \in { <<"r1", "r2">>, <<"r1", "r1">>, <<"zero", "r1">> }, n \in Immediates }
  \cup { Insn(op, "zero", f[1], f[2], 0, n, FALSE, NoSlot) : op \in ShiftOps,
           f \in { <<"r1", "r2">>, <<"r1", "r1">> }, n \in Amounts }
  \cup { Insn(op, f[1], "zero", f[2], 0, 0, FALSE, NoSlot) : op \in MoveOps,
           f \in { <<"r1", "r2">>, <<"zero", "r2">> } }
  \cup { Insn(op, "r1", f, "r3", n, 0, fast, NoSlot) : op \in MemOps, f \in {"r1", "r2"},
           n \in Immediates, fast \in BOOLEAN }
  \cup { Insn(op, "r1", "r2", "r3", 0, 0, FALSE, NoSlot) : op \in SystemOps }
  \cup { Insn(op, "r1", f, "ra", n, 0, FALSE, slot) : op \in Branches \cup Jumps,
           f \in {"r2", "zero"}, n \in {1, Size(2) - 1}, slot \in Slots }
  \cup { Insn("JALR", "r1", "zero", "r1", 0, 0, FALSE, slot) : slot \in Slots }

(* hi, lo and the link bit hold something; pc is where the interpreter is, *)
(* and what the last call of the block left for the translated code.  blk  *)
(* is the block that a jump out of the page finds.                         *)
Guests ==
  { Guest([c \in MipsCells |->
      CASE c = "r1" -> v1 [] c = "r2" -> v2 [] c = "r3" -> 5 [] c = "ra" -> 9
        [] c = "hi" -> v2 [] c = "lo" -> v1 [] c = "ll" -> 1 [] c = "pc" -> Pc
        [] c = "mts" -> n [] c = "blk" -> blk [] c \in {"zero", "ret_pc"} -> 0]) :
    v1 \in Values, v2 \in Values, n \in {0, 1}, blk \in {0, 1, 2, Size(4)} }
DirectJumps == Branches \cup {"J", "JAL"}

StalePc == Pc - 4

(* A division the interpreter can do: C leaves a division by zero, and the *)
(* one quotient that does not fit, undefined.                              *)
Divides(i, g) ==
  i.op \in {"DIV", "DIVU"} =>
    /\ Low(g, i.rt) # 0
    /\ ~(SLow(g, i.rs) = -(Size(4) \div 2) /\ SLow(g, i.rt) = -1)

TypeOK ==
  /\ insn \in Insns
  /\ start \in Guests
  /\ host \in {"none", "amd64", "x86"}
  /\ (interp = Waiting) => (host = "none")
  /\ (after = Waiting) <=> (host = "none")

-----------------------------------------------------------------------------
Init ==
  /\ insn \in Insns
  /\ start \in Guests
  /\ (insn.op \notin {"LW", "SW"}) => (start.m["mts"] = 0)
  /\ (start.m["blk"] # 1) => (insn.op \in DirectJumps /\ start.m["r2"] = 1)
  /\ Divides(insn, start)
  /\ interp = Waiting
  /\ host = "none"
  /\ after = Waiting

Interpret ==
  /\ interp = Waiting
  /\ interp' = ExecStep(insn, start)
  /\ UNCHANGED <<insn, start, host, after>>

Entry == SetCell(start, "pc", StalePc)

RunAmd64 ==
  /\ interp # Waiting /\ host = "none"
  /\ host' = "amd64"
  /\ after' = A!Run(A!Host(Entry, 3, A!Amd64Lost), A!Emit(insn, Pc), 1)
  /\ UNCHANGED <<insn, start, interp>>

RunX86 ==
  /\ interp # Waiting /\ host = "none"
  /\ host' = "x86"
  /\ after' = X!Run(X!Host(Entry, 3, X!X86Lost), X!Emit(insn, Pc), 1)
  /\ UNCHANGED <<insn, start, interp>>

Next == Interpret \/ RunAmd64 \/ RunX86
Spec == Init /\ [][Next]_tvars

-----------------------------------------------------------------------------
(* Where the guest goes on: a block that was not left falls through to the *)
(* instruction behind this one and its slot.                               *)
NextPc == IF after.left THEN after.g.m["pc"]
          ELSE IF insn.op \in Branches THEN Pc + 8 ELSE Pc + 4

SameRegisters ==
  \A c \in {"r1", "r2", "r3", "ra", "hi", "lo", "zero"} : after.g.m[c] = interp.m[c]

(* The pc that the called functions saw.  A slot is left out: see the      *)
(* README; so is an access that went in line, which nothing can interrupt. *)
SamePcs ==
  insn.op \notin Branches \cup Jumps \cup {"BREAK"} /\ ~(insn.fast /\ start.m["mts"] = 1)
    => after.g.pcs = interp.pcs

SameGuest ==
  /\ ~after.trap
  /\ SameRegisters
  /\ NextPc = interp.m["pc"]
  /\ after.g.calls = interp.calls
  /\ SamePcs
  /\ (insn.op = "SW" /\ insn.fast) \/ after.g.m["ll"] = interp.m["ll"]

Negative(c) == SLow(start, c) < 0

(* The x86-64 code divides edx:eax with edx = 0 instead of the sign, and a *)
(* jump out of the page goes into the block of a page that has the low 32  *)
(* bits of the target's.                                                   *)
Amd64Departs ==
  \/ insn.op = "DIV" /\ Negative(insn.rs)
  \/ insn.op \in DirectJumps /\ start.m["blk"] = Size(4) /\ ~A!Local(interp.m["pc"], Pc)

(* The x86 code shifts by cl where the processor takes cl modulo 32, and   *)
(* SRL and SRLV by zero do not extend the sign of a negative word.         *)
X86Departs ==
  \/ insn.op \in {"DSLLV", "DSRAV", "DSRLV"} /\ Val(start, insn.rs) % Bits(8) >= Bits(4)
  \/ insn.op = "SRL" /\ insn.sa = 0 /\ Negative(insn.rt)
  \/ insn.op = "SRLV" /\ Val(start, insn.rs) % Bits(4) = 0 /\ Negative(insn.rt)

(* The x86-64 translation of an instruction does to the guest what the     *)
(* interpreter does: registers, next pc, the functions called with what    *)
(* arguments, and the pc they see.                                         *)
Amd64Agrees == host = "amd64" /\ ~Amd64Departs => SameGuest

(* The same of the x86 translation, in halves of 32 bits.                  *)
X86Agrees == host = "x86" /\ ~X86Departs => SameGuest
=============================================================================
