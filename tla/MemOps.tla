------------------------------- MODULE MemOps -------------------------------
(***************************************************************************)
(* The loads and stores of both processors (mips_mts.c, ppc32_mem.c): how  *)
(* the bytes of memory and of a register meet.  Guests read and write      *)
(* words that are not aligned with pairs of instructions, a left and a     *)
(* right one, each of which reads the aligned word, shifts and masks.      *)
(*                                                                         *)
(* A byte is the set of the symbols that were put into it by |, 0 is {}; a *)
(* register is its eight bytes, the most significant first.  Shifts and    *)
(* masks go by whole bytes.  A shift by the full width, which C leaves     *)
(* open, is 0 or does nothing (Shifts).                                    *)
(***************************************************************************)
EXTENDS Naturals, Sequences

CONSTANTS Size,              \* bytes of memory: addresses 0..Size-1
          MaxSteps           \* accesses from the start

\* Memory ends where a double word ends.
MemOpsAssumption == Size \in Nat /\ Size % 8 = 0

VARIABLES memory, gpr, ll_bit, steps,
          did                \* the access that was made

memVars == <<memory, gpr, ll_bit, steps, did>>

Byte0 == {}
Shifts == {"zero", "same"}

-----------------------------------------------------------------------------
(* Words: n bytes at an address; to eight bytes, with zeroes or the sign.  *)
At(m, a, n) == [i \in 1..n |-> m[a + i - 1]]
Put(m, a, w) == [x \in DOMAIN m |-> IF x \in a..(a + Len(w) - 1) THEN w[x - a + 1] ELSE m[x]]
Low(w, n) == SubSeq(w, Len(w) - n + 1, Len(w))
Fill(b, n) == [i \in 1..n |-> b]
zext(w) == Fill(Byte0, 8 - Len(w)) \o w
Sign(b) == {Append(s, "sign") : s \in b}
sext(w) == Fill(Sign(w[1]), 8 - Len(w)) \o w
swap(w) == [i \in 1..Len(w) |-> w[Len(w) - i + 1]]

or(x, y) == [i \in 1..Len(x) |-> x[i] \cup y[i]]
shl(x, n, s) == IF n = Len(x) THEN IF s = "zero" THEN Fill(Byte0, n) ELSE x
                ELSE SubSeq(x, n + 1, Len(x)) \o Fill(Byte0, n)
shr(x, n, s) == IF n = Len(x) THEN IF s = "zero" THEN Fill(Byte0, n) ELSE x
                ELSE Fill(Byte0, n) \o SubSeq(x, 1, Len(x) - n)
low(x, n) == [i \in 1..Len(x) |-> IF i > Len(x) - n THEN x[i] ELSE Byte0]     \* & ((1 << 8n) - 1)
high(x, n) == [i \in 1..Len(x) |-> IF i > Len(x) - n THEN Byte0 ELSE x[i]]    \* & ~((1 << 8n) - 1)

Aligned(a, n) == a - (a % n)

-----------------------------------------------------------------------------
(* lb to ld, and to the FPU: n bytes with or without their sign.           *)
load(m, a, n, signed) == IF signed THEN sext(At(m, a, n)) ELSE zext(At(m, a, n))
store(m, r, a, n) == Put(m, a, Low(r, n))

lwl(m, r, a, s) ==
  LET k == a % 4
  IN  sext(Low(or(low(r, k), shl(zext(At(m, Aligned(a, 4), 4)), k, s)), 4))

lwrUnsigned(m, r, a, s) ==
  LET k == (a % 4) + 1
      data == shr(zext(At(m, Aligned(a, 4), 4)), 4 - k, s)
  IN  IF k = 4 THEN zext(Low(data, 4)) ELSE or(high(r, k), data)
lwr(m, r, a, s) ==
  LET k == (a % 4) + 1
      data == shr(zext(At(m, Aligned(a, 4), 4)), 4 - k, s)
  IN  IF k = 4 THEN sext(Low(data, 4)) ELSE or(high(r, k), data)

(* The mask of ldr is (1 << 8k) - 1, which is 0 if the shift by 64 is none. *)
ldl(m, r, a, s) ==
  LET k == a % 8 IN or(low(r, k), shl(At(m, Aligned(a, 8), 8), k, s))
ldr(m, r, a, s) ==
  LET k == (a % 8) + 1
      kept == IF k < 8 THEN high(r, k)
              ELSE IF s = "zero" THEN high(r, 8) ELSE r
  IN  or(kept, shr(At(m, Aligned(a, 8), 8), 8 - k, s))

(* swl to sdr: the word is read, mixed with the register, and written.     *)
Mix(m, a, n, w) == Put(m, Aligned(a, n), w)
swl(m, r, a, s) ==
  LET k == a % 4
  IN  Mix(m, a, 4, or(high(At(m, Aligned(a, 4), 4), 4 - k), shr(Low(r, 4), k, s)))
swr(m, r, a, s) ==
  LET k == (a % 4) + 1
      old == At(m, Aligned(a, 4), 4)
      mask == IF k < 4 THEN low(old, 4 - k) ELSE IF s = "zero" THEN Fill(Byte0, 4) ELSE old
  IN  Mix(m, a, 4, or(mask, shl(Low(r, 4), 4 - k, s)))
sdl(m, r, a, s) ==
  LET k == a % 8
  IN  Mix(m, a, 8, or(high(At(m, Aligned(a, 8), 8), 8 - k), shr(r, k, s)))
sdr(m, r, a, s) ==
  LET k == (a % 8) + 1
      old == At(m, Aligned(a, 8), 8)
      mask == IF k < 8 THEN low(old, 8 - k) ELSE IF s = "zero" THEN Fill(Byte0, 8) ELSE old
  IN  Mix(m, a, 8, or(mask, shl(r, 8 - k, s)))

(* The registers of a PowerPC have four bytes.                             *)
lwbr(m, a) == zext(swap(At(m, a, 4)))
stwbr(m, r, a) == Put(m, a, swap(Low(r, 4)))
(* One byte of a string, at a position of the register.                    *)
lsw(m, r, a, pos) == zext([i \in 1..4 |-> Low(r, 4)[i] \cup (IF i = pos + 1 THEN m[a] ELSE Byte0)])
stsw(m, r, a, pos) == Put(m, a, <<Low(r, 4)[pos + 1]>>)

-----------------------------------------------------------------------------
MemInit ==
  /\ memory = [a \in 0..(Size - 1) |-> {<<"m", a>>}]
  /\ gpr = [i \in 1..8 |-> {<<"r", i>>}]
  /\ ll_bit = FALSE
  /\ steps = 0
  /\ did = [op |-> "start"]

Room(a, n) == a + n <= Size
Step == steps < MaxSteps /\ steps' = steps + 1

Load ==
  \E a \in 0..(Size - 1), n \in {1, 2, 4, 8}, signed \in BOOLEAN :
    /\ Step /\ a % n = 0
    /\ gpr' = load(memory, a, n, signed)
    /\ did' = [op |-> "load", a |-> a, n |-> n, signed |-> signed]
    /\ UNCHANGED <<memory, ll_bit>>
Store ==
  \E a \in 0..(Size - 1), n \in {1, 2, 4, 8} :
    /\ Step /\ a % n = 0
    /\ memory' = store(memory, gpr, a, n)
    /\ did' = [op |-> "store", a |-> a, n |-> n]
    /\ UNCHANGED <<gpr, ll_bit>>

(* A pair of loads in either order, of a word or a double word anywhere.   *)
LoadPair ==
  \E a \in 0..(Size - 1), n \in {4, 8}, leftFirst \in BOOLEAN, s \in Shifts :
    LET left(r)  == IF n = 4 THEN lwl(memory, r, a, s) ELSE ldl(memory, r, a, s)
        right(r) == IF n = 4 THEN lwr(memory, r, a + 3, s) ELSE ldr(memory, r, a + 7, s)
    IN  /\ Step /\ Room(a, n)
        /\ gpr' = IF leftFirst THEN right(left(gpr)) ELSE left(right(gpr))
        /\ did' = [op |-> "load", a |-> a, n |-> n, signed |-> TRUE]
        /\ UNCHANGED <<memory, ll_bit>>
StorePair ==
  \E a \in 0..(Size - 1), n \in {4, 8}, leftFirst \in BOOLEAN, s \in Shifts :
    LET left(m)  == IF n = 4 THEN swl(m, gpr, a, s) ELSE sdl(m, gpr, a, s)
        right(m) == IF n = 4 THEN swr(m, gpr, a + 3, s) ELSE sdr(m, gpr, a + 7, s)
    IN  /\ Step /\ Room(a, n)
        /\ memory' = IF leftFirst THEN right(left(memory)) ELSE left(right(memory))
        /\ did' = [op |-> "store", a |-> a, n |-> n]
        /\ UNCHANGED <<gpr, ll_bit>>

ll ==
  \E a \in 0..(Size - 1) :
    /\ Step /\ a % 4 = 0
    /\ gpr' = load(memory, a, 4, TRUE)
    /\ ll_bit' = TRUE
    /\ did' = [op |-> "load", a |-> a, n |-> 4, signed |-> TRUE]
    /\ UNCHANGED memory
sc ==
  \E a \in 0..(Size - 1) :
    /\ Step /\ a % 4 = 0
    /\ memory' = IF ll_bit THEN store(memory, gpr, a, 4) ELSE memory
    /\ gpr' = zext(<<IF ll_bit THEN {<<"one", 1>>} ELSE Byte0>>)
    /\ did' = IF ll_bit THEN [op |-> "store", a |-> a, n |-> 4] ELSE [op |-> "none"]
    /\ UNCHANGED ll_bit

Reversed ==
  \E a \in 0..(Size - 1) :
    /\ Step /\ Room(a, 4)
    /\ \/ /\ gpr' = lwbr(memory, a)
          /\ did' = [op |-> "reversed load", a |-> a, n |-> 4]
          /\ UNCHANGED memory
       \/ /\ memory' = stwbr(memory, gpr, a)
          /\ did' = [op |-> "reversed store", a |-> a, n |-> 4]
          /\ UNCHANGED gpr
    /\ UNCHANGED ll_bit

(* lswi and stswi of n bytes that one register takes, byte by byte.        *)
String ==
  \E a \in 0..(Size - 1), n \in 1..4 :
    LET in(r, k)  == IF k < n THEN lsw(memory, r, a + k, k) ELSE r
        out(m, k) == IF k < n THEN stsw(m, gpr, a + k, k) ELSE m
    IN  /\ Step /\ Room(a, n)
        /\ \/ /\ gpr' = in(in(in(in(Fill(Byte0, 8), 0), 1), 2), 3)
              /\ did' = [op |-> "string load", a |-> a, n |-> n]
              /\ UNCHANGED memory
           \/ /\ memory' = out(out(out(out(memory, 0), 1), 2), 3)
              /\ did' = [op |-> "string store", a |-> a, n |-> n]
              /\ UNCHANGED gpr
        /\ UNCHANGED ll_bit

MemNext ==
  \/ Load \/ Store \/ LoadPair \/ StorePair \/ ll \/ sc \/ Reversed \/ String
MemSpec == MemInit /\ [][MemNext]_memVars

-----------------------------------------------------------------------------
(* Every access moves the bytes that its address and width name, and no    *)
(* other byte of memory changes: the pair of instructions for a word that  *)
(* is not aligned too, in either order (mips_mts.c, ppc32_mem.c).          *)
Whole ==
  LET a == did'.a
      n == did'.n
      written == {a + i : i \in 0..(n - 1)}
  IN  CASE did'.op = "load" ->
             /\ \A i \in 1..n : gpr'[8 - n + i] = memory[a + i - 1]
             /\ \A i \in 1..(8 - n) : gpr'[i] = IF did'.signed THEN Sign(memory[a]) ELSE Byte0
        [] did'.op = "reversed load" -> \A i \in 1..4 : gpr'[4 + i] = memory[a + 4 - i]
        [] did'.op = "string load" ->
             \A i \in 1..4 : gpr'[4 + i] = IF i <= n THEN memory[a + i - 1] ELSE Byte0
        [] did'.op = "store" -> \A x \in written : memory'[x] = gpr[8 - n + 1 + x - a]
        [] did'.op = "reversed store" -> \A x \in written : memory'[x] = gpr[8 - (x - a)]
        [] did'.op = "string store" -> \A x \in written : memory'[x] = gpr[5 + x - a]
        [] OTHER -> memory' = memory
Elsewhere ==
  did'.op \in {"store", "reversed store", "string store"} =>
    \A x \in DOMAIN memory : x < did'.a \/ x >= did'.a + did'.n => memory'[x] = memory[x]
=============================================================================
