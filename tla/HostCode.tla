---------------------------------- MODULE HostCode ----------------------------------
(***************************************************************************)
(* Machine words, the guest a processor works on, and the C functions that *)
(* an interpreter and the code of a translator call alike.                 *)
(*                                                                         *)
(* The width of a byte, B, is a parameter: the code is B = 8, and the      *)
(* checks use B = 2, which keeps every relation between the sizes (a word  *)
(* is four bytes, a double word is eight, a shift count is taken modulo    *)
(* the width of its operand) and makes the words small enough to sweep.    *)
(***************************************************************************)
EXTENDS Integers, Sequences, Bitwise, SequencesExt

CONSTANT B                \* bits in a byte
ASSUME ByteAssumption == B \in Nat \ {0}

(* Words: naturals below 2^Bits(sz), sz in bytes.                          *)
Bits(sz)        == sz * B
Size(sz)        == 2 ^ Bits(sz)
Wrap(n, sz)     == n % Size(sz)
Sign(n, sz)     == Wrap(n, sz) \div 2 ^ (Bits(sz) - 1)
Signed(n, sz)   == Wrap(n, sz) - Sign(n, sz) * Size(sz)
SignExt(n, from, to) == Wrap(Signed(n, from), to)
Complement(n, sz)    == Size(sz) - 1 - Wrap(n, sz)
ShiftL(n, k, sz) == Wrap(Wrap(n, sz) * 2 ^ k, sz)
ShiftR(n, k, sz) == Wrap(n, sz) \div 2 ^ k
ShiftA(n, k, sz) == Wrap(Signed(n, sz) \div 2 ^ k, sz)
RotL(n, k, sz)   == Wrap(ShiftL(n, k, sz) + ShiftR(n, Bits(sz) - k, sz), sz)
Abs(n)           == IF n < 0 THEN -n ELSE n
Quotient(a, b)   == LET q == Abs(a) \div Abs(b)
                    IN  IF (a < 0) = (b < 0) THEN q ELSE -q
Remainder(a, b)  == a - b * Quotient(a, b)

-----------------------------------------------------------------------------
(* A guest: m, its cells (registers and what else of the CPU structure the *)
(* instructions use); calls, the functions called and what each was given; *)
(* pcs, what the guest's pc said at each of those calls (an exception, a   *)
(* page fault or a breakpoint raised inside the function reports it).      *)
Guest(m) == [m |-> m, calls |-> <<>>, pcs |-> <<>>]

SetCell(g, c, v) == [g EXCEPT !.m[c] = v]

(* fn is called with args, and leaves the values sets in cells: a sequence *)
(* of pairs <<cell, value>>.                                               *)
RECURSIVE SetCells(_, _)
SetCells(g, sets) ==
  IF sets = <<>> THEN g
  ELSE SetCells(SetCell(g, Head(sets)[1], Head(sets)[2]), Tail(sets))

Called(g, fn, args, sets) ==
  SetCells([g EXCEPT !.calls = Append(@, <<fn, args>>),
                     !.pcs   = Append(@, g.m["pc"])], sets)

-----------------------------------------------------------------------------
(***************************************************************************)
(* The x86 and x86-64 instructions that the block translators emit         *)
(* (x86-codegen.h and amd64-codegen.h build them) and what a host does     *)
(* with them.  Code is a sequence of instructions and labels; an operand   *)
(* is an immediate, a host register or a cell of the guest CPU structure   *)
(* (r15, or edi on x86, always points to it).                              *)
(***************************************************************************)

-----------------------------------------------------------------------------
(* Operands.                                                               *)
Imm(n)     == <<"imm", n>>
Reg(x)     == <<"reg", x>>
Cell(c)    == <<"cell", c, 0>>        \* a cell, or its least significant word
High(c)    == <<"cell", c, 1>>        \* the most significant word of a cell
StartOf(page, half) == <<"start", page, half>>   \* start_ia or start_pc of the block found
EntryAt    == <<"entry">>             \* its jit_insn_ptr for the target of the jump
rax        == Reg("ax")
rbx        == Reg("bx")
rcx        == Reg("cx")
rdx        == Reg("dx")
rsi        == Reg("si")
r14        == Reg("r14")
r8         == Reg("r8")

(* Instructions: destination first.                                        *)
mov(sz, d, s)       == <<"mov", sz, d, s>>
movsxd(d, s)        == <<"movsx", 4, d, s>>
movzx(from, d, s)   == <<"movzx", from, d, s>>
movsx(from, d, s)   == <<"movsx4", from, d, s>>
alu(op, sz, d, s)   == <<"alu", sz, d, s, op>>
test(sz, d, s)      == <<"alu", sz, d, s, "TEST">>
shift(op, sz, d, s) == <<"shift", sz, d, s, op>>
shld(d, s, k)       == <<"shiftd", 4, d, s, k, "SHL">>
shrd(d, s, k)       == <<"shiftd", 4, d, s, k, "SHR">>
bits(op, d, k)      == <<"bit", 4, d, k, op>>
inc(sz, d)          == <<"inc", sz, d, 1>>
dec(sz, d)          == <<"inc", sz, d, -1>>
notw(sz, d)         == <<"not", sz, d>>
neg(sz, d)          == <<"neg", sz, d>>
cdq                 == <<"cdq">>
mul(sz, s, signed)  == <<"mul", sz, s, signed>>
imul(sz, d, s)      == <<"imul", sz, d, s>>
div(sz, s, signed)  == <<"div", sz, s, signed>>
set(cc, d)          == <<"set", cc, d>>
jcc(cc, l)          == <<"jcc", cc, l>>
jmp(l)              == <<"jmp", l>>
lbl(l)              == <<"lbl", l>>
call(fn, args, sets)   == <<"call", fn, args, sets>>   \* args, values: operands
inline(fn, args, sets) == <<"access", fn, args, sets>> \* in line: no pc to see
exec(insn)          == <<"exec", insn>>                \* the interpreter, for insn
crtable(signed, d, s) == <<"crtable", signed, d, s>>   \* d: the CR field of eflags
jump(pc)            == <<"jump", pc>>                  \* inside the page
enter(sz, page, n)  == <<"enter", sz, page, n>>        \* byte n of the block found for page
ret                 == <<"ret">>
nest(code)          == <<"nest", code>>

-----------------------------------------------------------------------------
(* The host: its registers, the flags, whether the block was left, whether *)
(* the processor trapped, where it waits for the interpreter to execute an *)
(* instruction (0: it does not), and the guest g (g.m: the CPU's cells).   *)
Host(g, junk, lost) ==
  [ r |-> [x \in {"ax", "bx", "cx", "dx", "si", "di", "r13", "r14", "r8"} |-> junk],
    z |-> 0, s |-> 0, c |-> 0, o |-> 0,
    left |-> FALSE, trap |-> FALSE, at |-> 0, lost |-> lost, g |-> g ]

(* lost: the registers a called function may leave anything in.            *)
Amd64Lost == {"ax", "cx", "dx", "si", "di", "r8"}
X86Lost   == {"ax", "cx", "dx"}

(* exec_blk_map at the hash of the target of a jump out of the page is cell *)
(* blk: 0, no block; 1, the block of the target's page; 2, the same, with   *)
(* no code of its own for the target; n, a block of the same hash for the   *)
(* page n bytes away.                                                       *)
BlockStart(g, page) == page + (IF g.m["blk"] \in 0..2 THEN 0 ELSE g.m["blk"])

Get(h, opd, sz) ==
  CASE opd[1] = "imm"  -> Wrap(opd[2], sz)
    [] opd[1] = "reg"  -> Wrap(h.r[opd[2]], sz)
    [] opd[1] = "cell" -> Wrap(ShiftR(h.g.m[opd[2]], opd[3] * Bits(4), 8), sz)
    [] opd[1] = "start" -> Wrap(ShiftR(BlockStart(h.g, opd[2]), opd[3] * Bits(4), 8), sz)
    [] opd[1] = "entry" -> IF h.g.m["blk"] = 2 THEN 0 ELSE 1

(* A 4-byte write clears the high half of a register; a 1-byte write keeps *)
(* the rest of it.                                                         *)
Put(h, opd, v, sz) ==
  IF opd[1] = "reg"
  THEN [h EXCEPT !.r[opd[2]] = IF sz = 1 THEN @ - Wrap(@, 1) + Wrap(v, 1)
                                         ELSE Wrap(v, sz)]
  ELSE LET at == 2 ^ (opd[3] * Bits(4))
           old == h.g.m[opd[2]]
       IN  [h EXCEPT !.g.m[opd[2]] =
              old - Wrap(old \div at, sz) * at + Wrap(v, sz) * at]

SetFlags(h, v, sz, cf, of) ==
  [h EXCEPT !.z = IF Wrap(v, sz) = 0 THEN 1 ELSE 0, !.s = Sign(v, sz),
            !.c = cf, !.o = of]

Carry(b) == IF b THEN 1 ELSE 0
Outside(n, sz) == n < -(Size(sz) \div 2) \/ n >= Size(sz) \div 2

Arith(h, op, x, y, sz) ==
  LET k   == IF op \in {"ADC", "SBB"} THEN h.c ELSE 0
      sum == op \in {"ADD", "ADC"}
      u   == IF sum THEN x + y + k ELSE x - y - k
      v   == IF sum THEN Signed(x, sz) + Signed(y, sz) + k
                    ELSE Signed(x, sz) - Signed(y, sz) - k
  IN  [ val |-> Wrap(u, sz),
        h |-> SetFlags(h, u, sz, Carry(u < 0 \/ u >= Size(sz)), Carry(Outside(v, sz))) ]

HostLogic(h, op, x, y, sz) ==
  LET v == CASE op \in {"AND", "TEST"} -> x & y
             [] op = "OR"              -> x | y
             [] op = "XOR"             -> x ^^ y
  IN  [ val |-> v, h |-> SetFlags(h, v, sz, 0, 0) ]

Alu(h, op, d, s, sz) ==
  LET x   == Get(h, d, sz)
      y   == Get(h, s, sz)
      out == IF op \in {"ADD", "ADC", "SUB", "SBB", "CMP"}
             THEN Arith(h, op, x, y, sz) ELSE HostLogic(h, op, x, y, sz)
  IN  IF op \in {"CMP", "TEST"} THEN out.h ELSE Put(out.h, d, out.val, sz)

(* The processor masks a shift count to the width of the operand.  No code *)
(* the translators emit reads the flags of a shift but ZF, SF and CF.      *)
Shift(h, op, d, s, sz) ==
  LET k == Get(h, s, 4) % Bits(IF sz = 8 THEN 8 ELSE 4)
      x == Get(h, d, sz)
      v == CASE op = "SHL" -> ShiftL(x, k, sz)
             [] op = "SHR" -> ShiftR(x, k, sz)
             [] op = "SAR" -> ShiftA(x, k, sz)
             [] op = "ROL" -> RotL(x, k, sz)
  IN  IF k = 0 THEN h
      ELSE Put(SetFlags(h, v, sz, IF op = "SHL" THEN ShiftR(x, Bits(sz) - k, sz) % 2
                                  ELSE ShiftR(x, k - 1, sz) % 2, h.o), d, v, sz)

(* A double shift moves the bits of s into the ones d loses.               *)
ShiftD(h, op, d, s, amount) ==
  LET k == Get(h, amount, 4) % Bits(4)
      x == Get(h, d, 4)
      y == Get(h, s, 4)
  IN  IF k = 0 THEN h
      ELSE Put(h, d, IF op = "SHL" THEN ShiftL(x, k, 4) + ShiftR(y, Bits(4) - k, 4)
                     ELSE ShiftR(x, k, 4) + ShiftL(y, Bits(4) - k, 4), 4)

BitOp(h, op, d, k) ==
  LET x   == Get(h, d, 4)
      bit == ShiftR(x, k, 4) % 2
  IN  CASE op = "TEST"  -> [h EXCEPT !.c = bit]
        [] op = "SET"   -> Put(h, d, x + (1 - bit) * 2 ^ k, 4)
        [] op = "RESET" -> Put(h, d, x - bit * 2 ^ k, 4)

Multiply(h, s, sz, signed) ==
  LET p == IF signed THEN Signed(Get(h, rax, sz), sz) * Signed(Get(h, s, sz), sz)
                     ELSE Get(h, rax, sz) * Get(h, s, sz)
  IN  Put(Put(h, rax, p % Size(sz), sz), rdx, p \div Size(sz), sz)

(* The dividend is edx:eax; a quotient that does not fit traps.            *)
Divide(h, s, sz, signed) ==
  LET wide == Get(h, rdx, sz) * Size(sz) + Get(h, rax, sz)
      n == IF signed THEN Signed(wide, 2 * sz) ELSE wide
      m == IF signed THEN Signed(Get(h, s, sz), sz) ELSE Get(h, s, sz)
      fits(q) == IF signed THEN ~Outside(q, sz) ELSE q < Size(sz)
  IN  IF m = 0 \/ ~fits(Quotient(n, m)) THEN [h EXCEPT !.trap = TRUE]
      ELSE Put(Put(h, rax, Quotient(n, m), sz), rdx, Remainder(n, m), sz)

Holds(h, cc) ==
  CASE cc = "E"  -> h.z = 1          [] cc = "NE" -> h.z = 0
    [] cc = "S"  -> h.s = 1          [] cc = "NS" -> h.s = 0
    [] cc = "B"  -> h.c = 1          [] cc = "AE" -> h.c = 0
    [] cc = "BE" -> h.c = 1 \/ h.z = 1   [] cc = "A"  -> h.c = 0 /\ h.z = 0
    [] cc = "LT" -> h.s # h.o        [] cc = "GE" -> h.s = h.o
    [] cc = "LE" -> h.s # h.o \/ h.z = 1 [] cc = "GT" -> h.s = h.o /\ h.z = 0
    [] cc = "O"  -> h.o = 1          [] cc = "NO" -> h.o = 0

Clobbered(h) == [h EXCEPT !.r = [x \in DOMAIN h.r |-> IF x \in h.lost THEN 6 ELSE h.r[x]]]

Call(h, fn, args, sets) ==
  [h EXCEPT !.g = Called(h.g, fn, [n \in DOMAIN args |-> Get(h, args[n], 4)],
                         [n \in DOMAIN sets |-> <<sets[n][1], Get(h, sets[n][2], 8)>>])]

(* The guest goes on in the code of the block, wherever that is; pc says   *)
(* where, although the code leaves the cell alone until it is needed.  With *)
(* no block or no code there is nothing to jump to.                        *)
Enter(h, i) ==
  IF h.g.m["blk"] \in {0, 2} THEN [h EXCEPT !.trap = TRUE]
  ELSE Put([h EXCEPT !.left = TRUE], Cell("pc"), BlockStart(h.g, i[3]) + i[4], i[2])

(* The tables that the PowerPC translators look the flags up in: less,     *)
(* greater, equal are 8, 4, 2.                                             *)
CrOf(h, signed) ==
  IF signed THEN (IF h.z = 1 THEN 2 ELSE IF h.s # h.o THEN 8 ELSE 4)
            ELSE (IF h.c = 1 THEN 8 ELSE IF h.z = 1 THEN 2 ELSE 4)

(* One instruction that does not transfer control.                         *)
Step(h, i) ==
  CASE i[1] = "mov"    -> Put(h, i[3], Get(h, i[4], i[2]), i[2])
    [] i[1] = "movsx"  -> Put(h, i[3], SignExt(Get(h, i[4], 4), 4, 8), 8)
    [] i[1] = "movsx4" -> Put(h, i[3], SignExt(Get(h, i[4], i[2]), i[2], 4), 4)
    [] i[1] = "movzx"  -> Put(h, i[3], Get(h, i[4], i[2]), 4)
    [] i[1] = "alu"    -> Alu(h, i[5], i[3], i[4], i[2])
    [] i[1] = "shift"  -> Shift(h, i[5], i[3], i[4], i[2])
    [] i[1] = "shiftd" -> ShiftD(h, i[6], i[3], i[4], i[5])
    [] i[1] = "bit"    -> BitOp(h, i[5], i[3], i[4])
    [] i[1] = "inc"    -> LET v == Wrap(Get(h, i[3], i[2]) + i[4], i[2])
                          IN  Put([h EXCEPT !.z = Carry(v = 0)], i[3], v, i[2])
    [] i[1] = "crtable" -> Put(Put(h, i[3], CrOf(h, i[2]), 4), i[4], 6, 8)
    [] i[1] = "not"    -> Put(h, i[3], Complement(Get(h, i[3], i[2]), i[2]), i[2])
    [] i[1] = "neg"    -> LET x == Get(h, i[3], i[2])
                          IN  Put(SetFlags(h, -x, i[2], Carry(x # 0), Carry(x = Size(i[2]) \div 2)),
                                  i[3], -x, i[2])
    [] i[1] = "cdq"    -> Put(h, rdx, Sign(Get(h, rax, 4), 4) * (Size(4) - 1), 4)
    [] i[1] = "mul"    -> Multiply(h, i[3], i[2], i[4])
    [] i[1] = "imul"   -> LET p == Signed(Get(h, i[3], i[2]), i[2]) * Signed(Get(h, i[4], i[2]), i[2])
                          IN  Put([h EXCEPT !.o = Carry(Outside(p, i[2])), !.c = Carry(Outside(p, i[2]))],
                                  i[3], p, i[2])
    [] i[1] = "div"    -> Divide(h, i[3], i[2], i[4])
    [] i[1] = "set"    -> Put(h, i[3], Carry(Holds(h, i[2])), 1)
    [] i[1] = "call"   -> Clobbered(Call(h, i[2], i[3], i[4]))
    [] i[1] = "access" -> LET n == Call(h, i[2], i[3], i[4])
                          IN  [n EXCEPT !.g.pcs = h.g.pcs]
    [] i[1] = "enter"  -> Enter(h, i)
    [] i[1] = "jump"   -> [h EXCEPT !.g.m["pc"] = i[2], !.left = TRUE]
    [] i[1] = "ret"    -> [h EXCEPT !.left = TRUE]
    [] i[1] = "lbl"    -> h

Label(code, l) == CHOOSE n \in 1..Len(code) : code[n] = lbl(l)

RECURSIVE Run(_, _, _)
Run(h, code, n) ==
  IF n > Len(code) \/ h.left \/ h.trap THEN h
  ELSE IF code[n][1] = "exec" THEN [h EXCEPT !.at = n]
  ELSE LET i == code[n]
       IN  CASE i[1] = "jcc"  -> Run(h, code, IF Holds(h, i[2]) THEN Label(code, i[3]) ELSE n + 1)
             [] i[1] = "jmp"  -> Run(h, code, Label(code, i[2]))
             [] i[1] = "nest" -> Run(Run(h, i[2], 1), code, n + 1)
             [] OTHER         -> Run(Step(h, i), code, n + 1)
=============================================================================
