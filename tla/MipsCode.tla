------------------------------ MODULE MipsCode ------------------------------
(***************************************************************************)
(* The code cache of a MIPS64 CPU (mips64_jit.c) and the CACHE             *)
(* instruction that makes it forget a page (mips_mts.c).  It differs from  *)
(* that of a PowerPC CPU (PpcCode) in that a page is compiled once, in one *)
(* go, that a block is found by its virtual page only, that stores do not  *)
(* free code, and that a flush empties the hash slots of what it frees     *)
(* without a look at them.                                                 *)
(*                                                                         *)
(* Environment: a virtual page of code keeps its physical page (Map).      *)
(***************************************************************************)
EXTENDS Naturals, SequencesExt

CONSTANTS None, DataPage, CodePage, Phys, Map, OnDevice, Offset, Slot, SlotOf, ExecPage, Content,
          MaxFill, MaxChunks, Threshold,       \* as in PpcCode
          DelaySlot                            \* places that hold a delay slot

BlockId == 1..(Len(ExecPage) + 1)

MipsCodeAssumption ==
  /\ \A v \in CodePage \cup DataPage : Map[v] \in Phys
  /\ \A v \in CodePage : SlotOf[v] \in Slot
  /\ ExecPage \in Seq(ToSet(ExecPage)) /\ IsInjective(ExecPage)
  /\ None \notin ToSet(ExecPage) \cup CodePage \cup BlockId
  /\ MaxFill \in Nat /\ MaxFill < Len(ExecPage)
  /\ MaxChunks \in Nat /\ MaxFill <= MaxChunks

VARIABLES mem, jit, running, halted, said     \* as in PpcCode

mipsCodeVars == <<mem, jit, running, halted, said>>

Idle == [ start |-> None, buffer |-> None, ptr |-> None, chunks |-> <<>>, over |-> FALSE, acc |-> 0,
          image |-> None ]
Stepping == [block |-> None, pages |-> {}]

-----------------------------------------------------------------------------
jit_init == [ pool |-> Reverse(ExecPage), blk |-> [b \in BlockId |-> Idle], spare |-> <<>>,
              tcbs |-> <<>>, slot |-> [s \in Slot |-> None], method |-> 0 ]

Owned(j, b) == IF j.blk[b].buffer = None THEN j.blk[b].chunks
               ELSE Append(j.blk[b].chunks, j.blk[b].buffer)

exec_page_free(pool, pages) == Reverse(pages) \o pool

tcb_free(j, b, removal) ==
  LET unlinked == IF removal THEN [j EXCEPT !.tcbs = RemoveFirst(@, b)] ELSE j
  IN  [ unlinked EXCEPT !.pool = exec_page_free(@, Owned(j, b)), !.spare = <<b>> \o @,
                        !.blk[b] = Idle ]

Drop(j, b) == tcb_free([j EXCEPT !.slot[SlotOf[j.blk[b].start]] = None], b, TRUE)

Goes(j, b, threshold) == threshold = 0 \/ j.blk[b].acc <= threshold
jit_flush(j, threshold) ==
  LET drop(k, b) == IF Goes(k, b, threshold) THEN Drop(k, b) ELSE k
      left[i \in 0..Len(j.tcbs)] == IF i = 0 THEN j ELSE drop(left[i - 1], j.tcbs[i])
  IN  left[Len(j.tcbs)]

Enough(j, partial) == IF j.method = 1 \/ partial.pool = <<>> THEN jit_flush(j, 0) ELSE partial
make_room(j) == [Enough(j, jit_flush(j, Threshold)) EXCEPT !.method = 1 - @]

Pop(j) == IF j.pool = <<>> THEN [jit |-> j, page |-> None]
          ELSE [jit |-> [j EXCEPT !.pool = Tail(@)], page |-> Head(j.pool)]
exec_page_alloc(j) == Pop(IF j.pool = <<>> THEN make_room(j) ELSE j)

GoOn(got, b) ==
  IF got.page = None THEN [got.jit EXCEPT !.blk[b].over = TRUE]
  ELSE [got.jit EXCEPT !.blk[b].chunks = Append(@, got.jit.blk[b].buffer),
                       !.blk[b].buffer = got.page, !.blk[b].ptr = got.page]
adjust_buffer(j, b) ==
  IF Len(j.blk[b].chunks) >= MaxChunks THEN [j EXCEPT !.blk[b].over = TRUE]
  ELSE GoOn(exec_page_alloc(j), b)

tcb_alloc(j) ==
  LET used == ToSet(j.tcbs)
  IN  IF j.spare # <<>> THEN [jit |-> [j EXCEPT !.spare = Tail(@)], block |-> Head(j.spare)]
      ELSE [jit |-> j, block |-> CHOOSE b \in BlockId : b \notin used]

Furnish(got, b, v) ==
  LET k == [got.jit EXCEPT !.blk[b].buffer = got.page, !.blk[b].ptr = got.page]
  IN  IF got.page = None \/ v \in OnDevice
      THEN [jit |-> tcb_free(k, b, FALSE), block |-> None]
      ELSE [jit |-> k, block |-> b]
Found(new, v) == Furnish(exec_page_alloc([new.jit EXCEPT !.blk[new.block].start = v]), new.block, v)
tcb_create(j, v) == Found(tcb_alloc(j), v)

(* The page as it is now; its code fills its buffer n times.               *)
Finish(made, v, n) ==
  LET b == made.block
      filled[i \in 0..n] == IF i = 0 THEN made.jit ELSE adjust_buffer(filled[i - 1], b)
  IN  IF b = None THEN made
      ELSE [ jit |-> [filled[n] EXCEPT !.blk[b].image = mem[Map[v]], !.tcbs = <<b>> \o @],
             block |-> b ]
tcb_compile(j, v, n) == Finish(tcb_create(j, v), v, n)

-----------------------------------------------------------------------------
Pages(j, b) == ToSet(j.blk[b].chunks) \cup {j.blk[b].buffer}

CodeInit ==
  /\ mem = [p \in Phys |-> 0]
  /\ jit = jit_init
  /\ running = None
  /\ halted = FALSE
  /\ said = [op |-> "start"]

(* mips64_jit_tcb_exec: a delay slot has no entry; the instruction is      *)
(* interpreted, as it is in memory now.                                    *)
Enter(j, b, o) ==
  LET native == o \notin DelaySlot
  IN  /\ jit' = j
      /\ running' = IF native THEN [block |-> b, pages |-> Pages(j, b)] ELSE Stepping
      /\ said' = [ op |-> "use", key |-> j.blk[b].start,
                   value |-> IF native THEN j.blk[b].image ELSE mem[Map[j.blk[b].start]] ]

Evict(j, s) == IF j.slot[s] = None THEN j
               ELSE [tcb_free(j, j.slot[s], TRUE) EXCEPT !.slot[s] = None]
Count(j, s, b) == [j EXCEPT !.slot[s] = b, !.blk[b].acc = IF @ > Threshold THEN @ ELSE @ + 1]

(* mips64_jit_run_cpu: one turn of the loop.                               *)
Dispatch ==
  \E v \in CodePage : \E o \in Offset[v], n \in 0..MaxFill :
    LET s    == SlotOf[v]
        old  == jit.slot[s]
        hit  == old # None /\ jit.blk[old].start = v
    IN  /\ running = None /\ ~halted
        /\ \E made \in {IF hit THEN [jit |-> jit, block |-> old] ELSE tcb_compile(Evict(jit, s), v, n)} :
             IF made.block = None
             THEN /\ jit' = made.jit /\ halted' = TRUE /\ said' = [op |-> "other"]
                  /\ UNCHANGED running
             ELSE Enter(Count(made.jit, s, made.block), made.block, o) /\ UNCHANGED halted
        /\ UNCHANGED mem

Return ==
  /\ running # None
  /\ running' = None
  /\ said' = [op |-> "other"]
  /\ UNCHANGED <<mem, jit, halted>>

Store ==
  \E v \in DataPage, x \in Content :
    /\ running # None /\ x # mem[Map[v]]
    /\ mem' = [mem EXCEPT ![Map[v]] = x]
    /\ said' = [op |-> "change"]
    /\ UNCHANGED <<jit, running, halted>>

(* CACHE, whichever operation it asks for.                                 *)
CacheOp ==
  \E v \in CodePage :
    LET s == SlotOf[v]
        b == jit.slot[s]
    IN  /\ running # None
        /\ jit' = IF b # None /\ jit.blk[b].start = v
                  THEN tcb_free([jit EXCEPT !.slot[s] = None], b, TRUE) ELSE jit
        /\ said' = [op |-> "forget", keys |-> {v}]
        /\ UNCHANGED <<mem, running, halted>>

(* mips64_reset, while the CPU does not run; then it is started again.     *)
Reset ==
  /\ running = None
  /\ jit' = jit_flush(jit, 0)
  /\ halted' = FALSE
  /\ said' = [op |-> "forget", keys |-> CodePage]
  /\ UNCHANGED <<mem, running>>

CodeNext == Dispatch \/ Return \/ Store \/ CacheOp \/ Reset
CodeSpec == CodeInit /\ [][CodeNext]_mipsCodeVars

-----------------------------------------------------------------------------
(* As for a PowerPC CPU: the pages of the exec area are free or belong to  *)
(* one block, and the code that runs keeps its own (mips64_jit.c).         *)
PagesOwned ==
  LET live == ToSet(jit.tcbs)
  IN  /\ IsInjective(jit.pool)
      /\ ToSet(jit.pool) \cup UNION {Pages(jit, b) : b \in live} = ToSet(ExecPage)
      /\ \A b \in live :
           /\ IsInjective(Append(jit.blk[b].chunks, jit.blk[b].buffer))
           /\ Pages(jit, b) \cap ToSet(jit.pool) = {}
           /\ \A c \in live \ {b} : Pages(jit, b) \cap Pages(jit, c) = {}
           /\ jit.blk[b].ptr = jit.blk[b].buffer /\ ~jit.blk[b].over
           /\ running # None /\ running.block # b => Pages(jit, b) \cap running.pages = {}

(* A block is listed once and is what its hash slot holds, and a slot      *)
(* holds no block that was freed.                                          *)
BlocksFound ==
  /\ IsInjective(jit.tcbs)
  /\ ToSet(jit.tcbs) \cap ToSet(jit.spare) = {}
  /\ \A b \in ToSet(jit.tcbs) : jit.slot[SlotOf[jit.blk[b].start]] = b
  /\ \A s \in Slot : jit.slot[s] # None => jit.slot[s] \in ToSet(jit.tcbs)

(* A page runs as it is now, or as it was at some time since the last      *)
(* CACHE instruction for it.                                               *)
Cached(v) == LET b == jit.slot[SlotOf[v]]
             IN  IF b = None \/ jit.blk[b].start # v THEN {} ELSE {jit.blk[b].image}
Current == [v \in CodePage |-> mem[Map[v]]]
Stale == [v \in CodePage |-> {x \in Cached(v) : x # mem[Map[v]]}]
=============================================================================
