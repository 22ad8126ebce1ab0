------------------------------- MODULE MCTranslation -------------------------------
(***************************************************************************)
(* The two instruction sets together: a page of PowerPC instructions       *)
(* (PpcTranslation) or one MIPS64 instruction and its slot                 *)
(* (MipsTranslation), each run by the interpreter and by the code its      *)
(* translators.  page is <<>> when the guest is a MIPS64.                  *)
(***************************************************************************)
EXTENDS PpcTranslation

CONSTANTS MipsLoadValue, MipsExcVector, MipsReturnPc, MipsPc, MipsPageInsns,
          MipsValues, MipsImmediates, MipsAmounts

VARIABLE insn

M == INSTANCE MipsTranslation WITH
       LoadValue <- MipsLoadValue, ExcVector <- MipsExcVector, ReturnPc <- MipsReturnPc,
       PageInsns <- MipsPageInsns, Pc <- MipsPc, Values <- MipsValues, Immediates <- MipsImmediates, Amounts <- MipsAmounts

IsMips == page = <<>>

EitherInit == (M!Init /\ page = <<>>) \/ (Init /\ insn = <<>>)

PpcInterpret == ~IsMips /\ Interpret /\ UNCHANGED insn
PpcAmd64Run  == ~IsMips /\ RunAmd64 /\ UNCHANGED insn
PpcX86Run    == ~IsMips /\ RunX86 /\ UNCHANGED insn
PpcPpcRun    == ~IsMips /\ RunPpc /\ UNCHANGED insn

MipsInterpret == IsMips /\ M!Interpret /\ UNCHANGED page
MipsAmd64Run  == IsMips /\ M!RunAmd64 /\ UNCHANGED page
MipsX86Run    == IsMips /\ M!RunX86 /\ UNCHANGED page

EitherNext == \/ PpcInterpret \/ PpcAmd64Run \/ PpcX86Run \/ PpcPpcRun
              \/ MipsInterpret \/ MipsAmd64Run \/ MipsX86Run

TranslationSpec == EitherInit /\ [][EitherNext]_<<tvars, insn>>

(* What a translator compiled does what the interpreter does, on every     *)
(* host.  A PowerPC page: ppc32_exec_page, whatever the optimizer dropped   *)
(* (jit_op.c) and however few host registers the instructions share         *)
(* (ppc32_jit.c); on a PowerPC host, whose carry, conditions and masks are  *)
(* the host's own, too.                                                     *)
PpcTranslated == ~IsMips => PpcAmd64Agrees /\ PpcX86Agrees /\ PpcPpcAgrees

(* A MIPS64 instruction and its slot: mips64_exec_single_instruction, on    *)
(* x86-64 and, in halves of 32 bits, on x86 (mips64_amd64_trans.c and       *)
(* mips64_x86_trans.c).                                                     *)
MipsTranslated == IsMips => M!Amd64Agrees /\ M!X86Agrees

-----------------------------------------------------------------------------
(* Bytes of two bits: a register has eight, and an immediate four.          *)

With(op, dot, d, a, b) == [Blank EXCEPT !.op = op, !.dot = dot, !.d = d, !.a = a, !.b = b]
WithImm(op, dot, d, a, imm) == [Blank EXCEPT !.op = op, !.dot = dot, !.d = d, !.a = a, !.imm = imm]

(* Register fields: all different, two the same, all the same, r0.          *)
Threes == { <<"r3", "r1", "r2">>, <<"r1", "r1", "r2">>, <<"r2", "r1", "r2">>,
            <<"r1", "r1", "r1">>, <<"r1", "r2", "r1">>, <<"r3", "r0", "r2">> }
Twos   == { <<"r3", "r1">>, <<"r1", "r1">>, <<"r3", "r0">>, <<"r1", "r3">> }

Arithmetic == {"ADD", "ADDC", "ADDE", "MULHW", "MULHWU", "MULLW", "SUBF", "SUBFC", "SUBFE",
               "DIVW", "DIVWU", "SLW", "SRW", "SRAW"} \cup (LogicOps \ {"EXTSB", "EXTSH"})
Plain3     == {"ADDO", "ADDCO", "ADDEO", "MULLWO", "SUBFO", "CMP", "CMPL"}
OneOps     == {"ADDME", "ADDZE", "SUBFZE", "NEG", "NEGO", "EXTSB", "EXTSH", "CNTLZW"}
Immediates == {"ADDI", "ADDIS", "ADDIC", "ORI", "ORIS", "XORI", "XORIS", "ANDI", "ANDIS",
               "CMPI", "CMPLI", "MULLI", "SUBFIC"}
SprNames   == {"xer", "tbl", "tbu", "bat", "srr0", "dar", "dec", "sdr1", "none"}

Three(ops, dots) ==
  { With(op, dot, f[1], f[2], f[3]) : op \in ops, dot \in dots, f \in Threes }
MemInsns ==
  { [WithImm(op, FALSE, f[1], f[2], 9) EXCEPT !.b = "r2", !.form = form] :
      op \in Accesses, form \in Forms, f \in {<<"r3", "r1">>, <<"r1", "r3">>, <<"r2", "r0">>} }
Branching ==
  { [Blank EXCEPT !.op = "B", !.disp = n, !.lk = lk, !.aa = aa] :
      n \in {1, 2, 3, 6}, lk \in BOOLEAN, aa \in BOOLEAN }
  \cup { [Blank EXCEPT !.op = "BC", !.bo = bo, !.crs = <<bit, 0, 0>>, !.disp = n, !.lk = lk, !.aa = aa] :
           bo \in {4, 12, 16, 18, 0, 2, 8, 10, 20}, bit \in {0, 2, 5}, n \in {2, 7}, lk \in BOOLEAN,
           aa \in BOOLEAN }
  \cup { [Blank EXCEPT !.op = op, !.bo = bo, !.crs = <<bit, 0, 0>>, !.lk = lk] :
           op \in {"BCLR", "BCCTR"}, bo \in {4, 12, 16, 18, 0, 10, 20}, bit \in {0, 6}, lk \in BOOLEAN }

MCSingles ==
  Three(Arithmetic, BOOLEAN) \cup Three(Plain3, {FALSE})
  \cup { With(op, dot, f[1], f[2], "r0") : op \in OneOps, dot \in BOOLEAN, f \in Twos }
  \cup { WithImm(op, op \in {"ANDI", "ANDIS"}, f[1], f[2], n) :
           op \in Immediates, f \in Twos, n \in {0, 1, 7, 8, 15} }
  \cup { WithImm("ADDIC", TRUE, f[1], f[2], n) : f \in Twos, n \in {1, 8, 15} }
  \cup { [With(op, dot, f[1], f[2], "r2") EXCEPT !.n = n, !.mb = m[1], !.me = m[2]] :
           op \in RotateOps \cup {"SRAWI"}, dot \in BOOLEAN, f \in Twos, n \in {0, 1, 5},
           m \in {<<0, 7>>, <<2, 5>>, <<6, 1>>} }
  \cup MemInsns \cup Branching
  \cup Three(SpecialAccesses, {FALSE})
  \cup { [With(op, FALSE, "r2", f, "r1") EXCEPT !.imm = 9, !.n = n] :
           op \in {"LMW", "STMW", "LSWI", "STSWI", "LSWX", "STSWX"}, f \in {"r0", "r1"}, n \in {0, 5} }
  \cup { [Blank EXCEPT !.op = op, !.crs = c] : op \in CrOps,
           c \in {<<0, 1, 2>>, <<5, 0, 6>>, <<3, 3, 7>>, <<4, 4, 4>>} }
  \cup { [Blank EXCEPT !.op = op, !.d = "r1", !.crs = c, !.n = n] :
           op \in CrMoves, c \in {<<0, 1, 0>>, <<1, 0, 0>>}, n \in 0..3 }
  \cup { [With("CMP", FALSE, "r0", "r1", "r2") EXCEPT !.crs = <<1, 0, 0>>] }
  \cup { [Blank EXCEPT !.op = op, !.d = "r1", !.spr = spr] : op \in {"MFSPR", "MTSPR"}, spr \in SprNames }
  \cup { [Blank EXCEPT !.op = op, !.d = "r1"] : op \in MachineOps \cup SpecialMoves \cup Nops }
  \cup { [With(op, FALSE, "r0", "r1", "r2") EXCEPT !.imm = 3, !.n = n] :
           op \in {"SC", "RFI", "TW", "TWI"}, n \in {0, 1, 2, 4, 8, 16, 31} }

(* One of every kind that asks for registers, keeps flags or ends a block.  *)
MCDoubles ==
  { With("ADD", TRUE, "r1", "r1", "r2"), With("ADDE", FALSE, "r3", "r1", "r2"),
    With("ADDC", TRUE, "r2", "r1", "r3"), WithImm("ADDI", FALSE, "r1", "r0", 3),
    WithImm("ADDIS", FALSE, "r2", "r0", 5), WithImm("ADDIC", FALSE, "r2", "r1", 15),
    WithImm("ADDZE", TRUE, "r1", "r2", 0), With("ANDC", TRUE, "r1", "r2", "r1"),
    WithImm("ANDI", TRUE, "r2", "r3", 7), With("CMPL", FALSE, "r0", "r1", "r2"),
    With("DIVWU", TRUE, "r2", "r1", "r2"), With("MULHW", FALSE, "r1", "r1", "r2"),
    WithImm("MULLI", FALSE, "r3", "r1", 9), With("NOR", FALSE, "r1", "r2", "r3"),
    With("RLWNM", FALSE, "r1", "r2", "r3"), With("SRW", FALSE, "r1", "r2", "r3"),
    With("SUBFE", FALSE, "r2", "r1", "r3"), WithImm("SUBFIC", FALSE, "r1", "r1", 2),
    [WithImm("SRAWI", FALSE, "r2", "r1", 0) EXCEPT !.n = 2],
    [WithImm("RLWIMI", TRUE, "r1", "r2", 0) EXCEPT !.n = 3, !.mb = 2, !.me = 5],
    WithImm("LWZ", FALSE, "r1", "r2", 3), [WithImm("STW", FALSE, "r2", "r1", 3) EXCEPT !.form = "U"],
    [With("LHA", FALSE, "r2", "r1", "r2") EXCEPT !.form = "UX"],
    [Blank EXCEPT !.op = "CRNOR", !.crs = <<1, 0, 2>>], [Blank EXCEPT !.op = "MFCR", !.d = "r1"],
    [Blank EXCEPT !.op = "MTCRF", !.d = "r1", !.n = 2],
    [Blank EXCEPT !.op = "BC", !.bo = 12, !.crs = <<2, 0, 0>>, !.disp = 2],
    [Blank EXCEPT !.op = "BC", !.bo = 16, !.disp = -1],
    [Blank EXCEPT !.op = "BCLR", !.bo = 4, !.crs = <<0, 0, 0>>, !.lk = TRUE],
    [Blank EXCEPT !.op = "MTLR", !.d = "r1"], [Blank EXCEPT !.op = "MFTBL", !.d = "r2"],
    With("SRAW", TRUE, "r1", "r2", "r3"), With("LWARX", FALSE, "r1", "r2", "r3"),
    [With("TW", FALSE, "r0", "r1", "r2") EXCEPT !.n = 16] }

MCTriples ==
  { With("ADD", TRUE, "r1", "r1", "r2"), With("SUBFE", FALSE, "r2", "r1", "r3"),
    With("OR", FALSE, "r3", "r0", "r2"),
    With("CMP", FALSE, "r0", "r1", "r2"), With("MULLW", TRUE, "r2", "r1", "r0"),
    With("RLWNM", FALSE, "r0", "r2", "r1"), WithImm("LWZ", FALSE, "r1", "r3", 3),
    [Blank EXCEPT !.op = "BC", !.bo = 16, !.disp = -2],
    [Blank EXCEPT !.op = "BC", !.bo = 4, !.crs = <<2, 0, 0>>, !.disp = 2],
    With("ADDME", FALSE, "r2", "r2", "r0") }

MCMany == {0, 127, 128, 255}
MCFew  == {3, 129}

(* MIPS64: words have eight bits and double words sixteen.                 *)
(* 0, 1, the largest and the smallest word, -1; a word that is not          *)
(* sign-extended; the smallest double word; a positive one above a word.    *)
MCValues     == {0, 1, 127, 65408, 65535, 128, 32768, 387}
MCImmediates == {0, 1, 7, 8, 15}
MCAmounts    == {0, 1, 7}
=============================================================================
