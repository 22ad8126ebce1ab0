---------------------------------- MODULE PpcInsn ----------------------------------
(***************************************************************************)
(* What the PowerPC interpreter (ppc32_exec.c) and the translators         *)
(* (ppc32_amd64_trans.c, ppc32_x86_trans.c) share: the instructions, and   *)
(* the C functions they call alike.                                        *)
(*                                                                         *)
(* An instruction is a record: op; dot, whether it records in CR0 (the Rc  *)
(* bit); d, a and b, the cells that its three register fields name (d is   *)
(* the code's rd or rs); imm (Bits(2) wide); n, a small field: a shift     *)
(* amount, the bits of a trap, a byte count; mb and me, a mask; crs, a     *)
(* sequence of CR bits or fields; bo, the condition of a branch; disp, its *)
(* displacement in instructions; lk and aa, its link and absolute bits;    *)
(* and spr, a special register.                                            *)
(*                                                                         *)
(* The cells of a guest: r0 to r3, a register file of four (r0 reads as 0  *)
(* in an address); lr, ctr, pc (cpu->ia), xer and ca (xer_ca); cr0 and cr1 *)
(* (cr_fields); msr, tb (8 bytes wide), reserve, sr, and the special       *)
(* registers srr0, srr1, dec, sdr1 and dar; armed (timer_irq_armed),       *)
(* irq_check and irq_pending; and mts, 1 when the MTS cache has an entry   *)
(* for the page of an access that it may go through.                       *)
(***************************************************************************)
EXTENDS HostCode

CONSTANTS LoadValue,      \* what a memory access leaves in its register
          ExcVector,      \* where an exception goes
          RfiMask,        \* PPC32_RFI_MSR_MASK
          ExcMask,        \* PPC32_EXC_SRR1_MASK
          EeBit           \* the bit of PPC32_MSR_EE

Gprs     == <<"r0", "r1", "r2", "r3">>
PpcCells == {"r0", "r1", "r2", "r3", "lr", "ctr", "pc", "xer", "ca", "cr0", "cr1", "msr",
             "tb", "reserve", "sr", "srr0", "srr1", "dec", "sdr1", "dar", "armed",
             "irq_check", "irq_pending", "mts", "blk"}

(* The interpreter's table has the recording form of these operations only;*)
(* that of any other is an unknown opcode, which does nothing.             *)
Recording ==
  {"ADD", "ADDO", "ADDC", "ADDCO", "ADDE", "ADDEO", "ADDIC", "ADDME", "ADDZE", "AND",
   "ANDC", "ANDI", "ANDIS", "DIVW", "DIVWU", "EXTSB", "EXTSH", "MULHW", "MULHWU",
   "MULLW", "MULLWO", "NAND", "NEG", "NEGO", "NOR", "OR", "ORC", "RLWIMI", "RLWINM",
   "RLWNM", "SLW", "SRAWI", "SRW", "SUBF", "SUBFO", "SUBFC", "SUBFZE", "XOR"}
Known(i) == i.dot => i.op \in Recording

(* Loads and stores: the access, how the address is formed ("" is a        *)
(* displacement, "X" a second register) and whether it is written back.    *)
Forms    == {"", "U", "X", "UX"}
Loads    == {"LBZ", "LHA", "LHZ", "LWZ"}
Stores   == {"STB", "STH", "STW"}
Accesses == Loads \cup Stores \cup {"LFD", "STFD"}

(* The loaded value is LoadValue in the width of the access; a store sends *)
(* the register.                                                           *)
Loaded(access) ==
  CASE access = "LBZ" -> Wrap(LoadValue, 1)
    [] access = "LHZ" -> Wrap(LoadValue, 2)
    [] access = "LHA" -> SignExt(LoadValue, 2, 4)
    [] access \in {"LWZ", "LWBR"} -> Wrap(LoadValue, 4)
IsLoad(access) == access \in Loads \cup {"LWBR"}

SXImm4(i) == SignExt(i.imm, 2, 4)
HighImm(i) == Wrap(i.imm * Size(2), 4)

(* ppc32_rotate_mask: bits mb to me, bit 0 the most significant.           *)
rotate_mask(mb, me) ==
  LET ones == Size(4) - 1
      mask == ShiftR(ones, mb, 4) ^^ ShiftR(ones, me + 1, 4)
  IN  IF me < mb THEN Complement(mask, 4) ELSE mask

(* A CR bit is bit CrBit(n) of field CrField(n).                           *)
CrField(n) == IF n < 4 THEN "cr0" ELSE "cr1"
CrBit(n)   == 3 - (n % 4)
LT == 8
GT == 4
EQ == 2
SO == 1

SoBit == Bits(4) - 1
OvBit == Bits(4) - 2
CaBit == Bits(4) - 3
BitOf(n, k) == (n \div 2 ^ k) % 2

-----------------------------------------------------------------------------
(***************************************************************************)
(* The PowerPC compiler (ppc32_jit.c, jit_op.c): a page of instructions    *)
(* becomes a list of operations for each of them, an optimizer cancels     *)
(* loads, stores and flag updates that it finds useless, and the rest is   *)
(* generated in order.  Which host registers an instruction asks for and   *)
(* which operations it appends is the translator's (PpcAmd64, PpcX86).     *)
(*                                                                         *)
(* A page is a sequence of instructions; its addresses are start, start+4, *)
(* and so on (start_ia).                                                   *)
(***************************************************************************)

NoReg == "none"

(* Operations (JIT_OP_...): a host register is named, not an operand.        *)
output(code)       == <<"output", code>>
load_gpr(h, r)     == <<"load", h, r>>
store_gpr(r, h)    == <<"store", h, r>>
update_flags(f, signed) == << <<"flags", f, signed>>, <<"alter", "ax">>, <<"alter", "dx">> >>
require_flags(f)   == <<"require", f>>
trash_flags        == <<"trash">>
alter_host_reg(h)  == <<"alter", h>>
set_imm32(h, v)    == <<"setimm", h, v>>
branch_here        == <<"target">>              \* BRANCH_TARGET, of this instruction
branch_target(ia)  == <<"mark", ia>>            \* BRANCH_TARGET, of the one at ia
eob                == <<"eob">>
branch_jump        == <<"jump">>
Cancelled          == <<"cancelled">>

CrFields == {"cr0", "cr1"}
AllCr    == "all"

-----------------------------------------------------------------------------
(* Host register allocation: which register each one maps, and the list    *)
(* from the most to the least recently used.  locked: those this           *)
(* instruction already has.                                                *)
FirstAlloc(hregs) ==
  [vreg |-> [h \in Range(hregs) |-> NoReg], list |-> Reverse(hregs), locked |-> {}]

start_hreg_seq(al) == [al EXCEPT !.locked = {}]

(* From the least recently used on: a register that maps nothing, or else  *)
(* the oldest one that is not locked.                                      *)
get_free_hreg_locked(al) == Last(al.list)
get_free_hreg(al) ==
  LET old     == Reverse(al.list)
      open(h) == h \notin al.locked
      empty   == SelectSeq(old, LAMBDA h : open(h) /\ al.vreg[h] = NoReg)
  IN  IF empty # <<>> THEN Head(empty) ELSE Head(SelectSeq(old, open))

(* A request: <<"gpr", r>>, <<"tmp">> (a register that maps nothing, which *)
(* stays where it is in the list), or <<"forced", h>>.                     *)
alloc_hreg(al, req) ==
  LET mapped == {h \in DOMAIN al.vreg : req[1] = "gpr" /\ al.vreg[h] = req[2]}
      h == IF req[1] = "forced" THEN req[2]
           ELSE IF mapped # {} THEN CHOOSE x \in mapped : TRUE ELSE get_free_hreg(al)
  IN  [ h  |-> h,
        al |-> [ vreg   |-> [al.vreg EXCEPT ![h] = IF req[1] = "gpr" THEN req[2] ELSE NoReg],
                 list   |-> IF req[1] = "gpr" THEN <<h>> \o SelectSeq(al.list, LAMBDA x : x # h)
                            ELSE al.list,
                 locked |-> al.locked \cup {h} ] ]

AllocAll(al, requests) ==
  LET step(s, req) == LET n == alloc_hreg(s.al, req)
                      IN  [al |-> n.al, hregs |-> Append(s.hregs, n.h)]
  IN  FoldLeft(step, [al |-> start_hreg_seq(al), hregs |-> <<>>], requests)

(* The first half of ppc32_op_gen_page: the operations of every            *)
(* instruction; BRANCH_TARGET goes to the head of an instruction that can  *)
(* be jumped to from inside the page, of the first one, and of the one     *)
(* that the CPU is at.                                                     *)
HRegsFor(al, asked) ==
  IF asked = <<>> THEN [al |-> al, hregs |-> <<>>] ELSE AllocAll(al, asked)

AddInsn(s, al, ops) ==
  [ al    |-> al,
    lists |-> Append(s.lists, SelectSeq(ops, LAMBDA x : x[1] # "mark")),
    marks |-> s.marks \cup {x[2] : x \in {y \in Range(ops) : y[1] = "mark"}} ]

PageStart(hregs, start, ia) == [al |-> FirstAlloc(hregs), lists |-> <<>>, marks |-> {start, ia}]

WithTargets(s, start) ==
  [n \in DOMAIN s.lists |->
     (IF start + 4 * (n - 1) \in s.marks THEN <<branch_here>> ELSE <<>>) \o s.lists[n]]

EmitPage(requests(_), ops(_, _, _), hregs, page, start, ia) ==
  LET step(s, n) == LET a == HRegsFor(s.al, requests(page[n]))
                    IN  AddInsn(s, a.al, ops(page[n], a.hregs, start + 4 * (n - 1)))
  IN  WithTargets(FoldLeft(step, PageStart(hregs, start, ia), [n \in DOMAIN page |-> n]), start)

-----------------------------------------------------------------------------
(* ppc32_op_optimize, over the operations of a page in order.  host: the   *)
(* register whose value is in each host register; last: the store that a   *)
(* register's mapping was left by (0: none); cr: the update of each CR     *)
(* field that nothing has needed yet (0: none).                            *)
NoMaps(hregs) ==
  [ host |-> [h \in Range(hregs) |-> NoReg], last |-> [r \in Range(Gprs) |-> 0],
    cr |-> [f \in CrFields |-> 0] ]

Holder(s, r) == {h \in DOMAIN s.host : s.host[h] = r}

clear_ppc_reg_map(s, r) ==
  [s EXCEPT !.host = [h \in DOMAIN s.host |-> IF s.host[h] = r THEN NoReg ELSE s.host[h]],
            !.last[r] = 0]
clear_host_reg_map(s, h) ==
  IF s.host[h] = NoReg THEN s ELSE clear_ppc_reg_map(s, s.host[h])
Remap(s, h, r) ==
  IF h \in Holder(s, r) THEN s
  ELSE [clear_ppc_reg_map(clear_host_reg_map(s, h), r) EXCEPT !.host[h] = r]

OptimizeStep(hregs, s, n) ==
  LET op   == s.ops[n]
      m    == s.maps
      with(maps) == [s EXCEPT !.maps = maps]
      drop(t, k) == IF k = 0 THEN t ELSE [t EXCEPT !.ops[k] = Cancelled]
  IN  CASE op[1] \in {"target", "eob"} -> with(NoMaps(hregs))
        [] op[1] = "jump" -> with([NoMaps(hregs) EXCEPT !.host = m.host])
        [] op[1] = "alter" ->
             IF op[2] \in DOMAIN m.host THEN with(clear_host_reg_map(m, op[2])) ELSE s
        [] op[1] = "store" ->
             LET t == Remap(m, op[2], op[3])
             IN  drop(with([t EXCEPT !.last[op[3]] = n]), t.last[op[3]])
        [] op[1] = "load" ->
             IF m.host[op[2]] = op[3] THEN drop(s, n) ELSE with(Remap(m, op[2], op[3]))
        [] op[1] = "require" ->
             with([m EXCEPT !.cr = [f \in CrFields |-> IF op[2] \in {f, AllCr} THEN 0 ELSE m.cr[f]]])
        [] op[1] = "trash" -> with([m EXCEPT !.cr = [f \in CrFields |-> 0]])
        [] op[1] = "flags" -> drop(with([m EXCEPT !.cr[op[2]] = n]), m.cr[op[2]])
        [] OTHER -> s

Optimize(hregs, ops) ==
  FoldLeft(LAMBDA s, n : OptimizeStep(hregs, s, n), [ops |-> ops, maps |-> NoMaps(hregs)],
           [n \in DOMAIN ops |-> n]).ops

(* The second half of ppc32_op_gen_page: optimize, generate (gen: the code *)
(* of one operation), and jump to the next page at the end (leave).  A     *)
(* label stands where jit_insn_ptr points, before an instruction that is a *)
(* branch target.                                                          *)
At(ia) == <<"ia", ia>>

Flat(lists) == FoldLeft(LAMBDA s, l : s \o l, <<>>, lists)

Labelled(list, ia, code) == (IF branch_here \in Range(list) THEN << lbl(At(ia)) >> ELSE <<>>) \o code

GenPage(lists, hregs, gen(_), leave, start) ==
  LET opt      == Optimize(hregs, Flat(lists))
      first(n) == Len(Flat(SubSeq(lists, 1, n - 1)))
      code(n)  == Flat([k \in DOMAIN lists[n] |-> gen(opt[first(n) + k])])
  IN  Flat([n \in DOMAIN lists |-> Labelled(lists[n], start + 4 * (n - 1), code(n))])
      \o leave

(* Whether an address is in the page (ppc32_jit_tcb_local_addr): PageInsns *)
(* instructions from a multiple of the page's size on.                     *)
CONSTANT PageInsns
PageOf(ia)    == ia - (ia % (4 * PageInsns))
Local(ia, pc) == PageOf(ia) = PageOf(pc)
=============================================================================
