------------------------------ MODULE PpcCode -------------------------------
(***************************************************************************)
(* The code cache of a PowerPC CPU (ppc32_jit.c) and the accesses that     *)
(* make it forget code (ppc32_mem.c).  A block is the translation of one   *)
(* virtual page.  It owns pages of the exec area: those its code has       *)
(* filled, and the buffer that the code generator writes to.  When the     *)
(* area is used up, blocks are flushed, also in the middle of a            *)
(* compilation.  The CPU thread does all of this; what makes it hard is    *)
(* which blocks, hash slots, lists and flags are left after a long         *)
(* sequence of operations.                                                 *)
(*                                                                         *)
(* Environment: a virtual page of code keeps its physical page, and no two *)
(* share one (Map); a page is not recompiled so often that its code        *)
(* outgrows its table of chunks (ChunksLeft).                              *)
(***************************************************************************)
EXTENDS Naturals, SequencesExt

CONSTANTS
  None,              \* no page, block or entry
  DataPage,          \* virtual pages that the guest reads and writes, not of a device
  CodePage,          \* those the guest runs code from
  Phys,              \* physical pages
  Map,               \* the physical page of a virtual page
  OnDevice,          \* code pages that lie on a device without host memory
  Untranslated,      \* code pages without a translation
  Vectors,           \* the virtual page of the exception vectors
  Offset,            \* places of each code page where code can be entered; 0 is the first
  Slot, SlotOf,      \* hash slots of exec_blk_map, and that of a virtual page
  Bucket, BucketOf,  \* entries of the data MTS cache, and that of a virtual page
  PhysSlotOf,        \* the hash slot of exec_phys_map of a physical page
  ExecPage,          \* pages of the exec area: 1..n
  Content,           \* what a physical page may hold
  MaxFill,           \* the most times that the code of one page fills its buffer
  MaxChunks,         \* PPC_JIT_MAX_CHUNKS
  Threshold,         \* uses up to which a partial flush drops a block (100)
  UndefMax           \* entries at unknown places before a page is recompiled (16)

BlockId == 1..(Len(ExecPage) + 1)

PpcCodeAssumption ==
  /\ OnDevice \subseteq CodePage /\ Untranslated \subseteq CodePage
  /\ \A v \in CodePage \cup DataPage : Map[v] \in Phys
  /\ \A v, w \in CodePage : Map[v] = Map[w] => v = w
  /\ \A v \in CodePage : SlotOf[v] \in Slot
  /\ \A p \in Phys : PhysSlotOf[p] \in Slot
  /\ ExecPage \in Seq(ToSet(ExecPage)) /\ IsInjective(ExecPage)
  /\ None \notin ToSet(ExecPage) \cup CodePage \cup BlockId
  /\ MaxFill \in Nat /\ MaxFill < Len(ExecPage)
  /\ MaxChunks \in Nat /\ MaxFill <= MaxChunks

VARIABLES
  mem,       \* what each physical page holds
  jit,       \* the code cache of the CPU
  dmts,      \* the data MTS cache: a virtual page and its EXEC flag
  running,   \* the block that runs and its exec pages, or None
  halted,    \* the CPU has stopped
  said       \* the last operation and what code ran

codeVars == <<mem, jit, dmts, running, halted, said>>

Interpreting == [block |-> None, pages |-> {}]
NoEntry == [page |-> None, exec |-> FALSE]

Idle == [ start |-> None, phys |-> None, buffer |-> None, ptr |-> None, chunks |-> <<>>, pos |-> 0,
          over |-> FALSE, keep |-> FALSE, acc |-> 0, undef |-> 0, targets |-> {}, points |-> {},
          image |-> None ]

-----------------------------------------------------------------------------
(* The exec area: a stack of free pages.                                   *)
jit_init ==
  [ pool |-> Reverse(ExecPage), blk |-> [b \in BlockId |-> Idle], spare |-> <<>>, tcbs |-> <<>>,
    slot |-> [s \in Slot |-> None], phys |-> [s \in Slot |-> <<>>], method |-> 0 ]

(* The pages of a block, in the order in which they are freed.             *)
Owned(j, b) == IF j.blk[b].buffer = None THEN j.blk[b].chunks
               ELSE Append(j.blk[b].chunks, j.blk[b].buffer)

exec_page_freeLast(pool, pages) == pool \o pages
exec_page_free(pool, pages) == Reverse(pages) \o pool

free_code_chunks(j, b) ==
  [j EXCEPT !.pool = exec_page_free(@, Owned(j, b)), !.blk[b].chunks = <<>>, !.blk[b].buffer = None]

(* The structure goes on the free list, and what it says is of no use any  *)
(* more; removal: the block was listed.                                    *)
tcb_free(j, b, removal) ==
  LET unlinked == IF removal
                  THEN [j EXCEPT !.tcbs = RemoveFirst(@, b),
                                 !.phys = [s \in Slot |-> RemoveFirst(@[s], b)]]
                  ELSE j
  IN  [free_code_chunks(unlinked, b) EXCEPT !.spare = <<b>> \o @, !.blk[b] = Idle]

UnslotNever(j, s, b) == j
Unslot(j, s, b) == IF j.slot[s] = b THEN [j EXCEPT !.slot[s] = None] ELSE j

(* A block is freed, and the hash slot of its virtual page is emptied if   *)
(* the block is there.                                                     *)
Drop(j, b) == Unslot(tcb_free(j, b, TRUE), SlotOf[j.blk[b].start], b)

(* A flush goes through the list and skips the block that is being         *)
(* recompiled.                                                             *)
Goes(j, b, threshold) == ~j.blk[b].keep /\ (threshold = 0 \/ j.blk[b].acc <= threshold)
jit_flush(j, threshold) ==
  LET drop(k, b) == IF Goes(k, b, threshold) THEN Drop(k, b) ELSE k
      left[i \in 0..Len(j.tcbs)] == IF i = 0 THEN j ELSE drop(left[i - 1], j.tcbs[i])
  IN  left[Len(j.tcbs)]

(* One flush in two is partial, and complete after all if it freed nothing. *)
Enough(j, partial) == IF j.method = 1 \/ partial.pool = <<>> THEN jit_flush(j, 0) ELSE partial
make_room(j) == [Enough(j, jit_flush(j, Threshold)) EXCEPT !.method = 1 - @]

Pop(j) == IF j.pool = <<>> THEN [jit |-> j, page |-> None]
          ELSE [jit |-> [j EXCEPT !.pool = Tail(@)], page |-> Head(j.pool)]
exec_page_alloc(j) == Pop(IF j.pool = <<>> THEN make_room(j) ELSE j)

(* The code has filled its buffer: it goes on in another one.  Without one *)
(* the code generator writes past the end.                                 *)
GoOn(got, b) ==
  IF got.page = None THEN [got.jit EXCEPT !.blk[b].over = TRUE]
  ELSE [got.jit EXCEPT !.blk[b].chunks = Append(@, got.jit.blk[b].buffer),
                       !.blk[b].pos = @ + 1,
                       !.blk[b].buffer = got.page, !.blk[b].ptr = got.page]
adjust_buffer(j, b) ==
  IF j.blk[b].pos >= MaxChunks THEN [j EXCEPT !.blk[b].over = TRUE]
  ELSE GoOn(exec_page_alloc(j), b)

-----------------------------------------------------------------------------
(* A structure from the free list, or a new one.                           *)
tcb_alloc(j) ==
  LET used == ToSet(j.tcbs)
  IN  IF j.spare # <<>> THEN [jit |-> [j EXCEPT !.spare = Tail(@), !.blk[Head(j.spare)] = Idle],
                              block |-> Head(j.spare)]
      ELSE [jit |-> j, block |-> CHOOSE b \in BlockId : b \notin used]

(* With its first page of the exec area, unless the page has no code.      *)
Furnish(got, b, v) ==
  LET k == [got.jit EXCEPT !.blk[b].buffer = got.page, !.blk[b].ptr = got.page]
  IN  IF got.page = None \/ v \in OnDevice
      THEN [jit |-> tcb_free(k, b, FALSE), block |-> None]
      ELSE [jit |-> k, block |-> b]
Found(new, v) ==
  Furnish(exec_page_alloc([new.jit EXCEPT !.blk[new.block].start = v, !.blk[new.block].phys = Map[v]]),
          new.block, v)
tcb_create(j, v) ==
  IF v \in Untranslated THEN [jit |-> j, block |-> None] ELSE Found(tcb_alloc(j), v)

(* The code of the page as it is now, entered at its start, where the CPU  *)
(* is, and where it was entered before; it fills its buffer n times.       *)
gen_page(j, b, o, n) ==
  LET filled[i \in 0..n] == IF i = 0 THEN j ELSE adjust_buffer(filled[i - 1], b)
  IN  [ filled[n]
        EXCEPT !.blk[b].image = mem[j.blk[b].phys],
               !.blk[b].points = j.blk[b].targets \cup {0, o} ]

(* A new block is first in its lists.                                      *)
Enlist(j, b) ==
  [jit |-> [j EXCEPT !.tcbs = <<b>> \o @, !.phys[PhysSlotOf[j.blk[b].phys]] = <<b>> \o @], block |-> b]
Finish(made, o, n) ==
  IF made.block = None THEN made ELSE Enlist(gen_page(made.jit, made.block, o, n), made.block)
tcb_compile(j, v, o, n) == Finish(tcb_create(j, v), o, n)

(* The block keeps the place where its code ended: it goes on from there,  *)
(* in the page that it just gave back and got again.                       *)
Renew(got, b, o, n) ==
  LET held == [got.jit EXCEPT !.blk[b].buffer = got.page, !.blk[b].keep = TRUE]
  IN  IF got.page = None THEN got.jit
      ELSE [gen_page(held, b, o, n) EXCEPT !.blk[b].keep = FALSE, !.blk[b].undef = 0]
tcb_recompile(j, b, o, n) ==
  Renew(exec_page_alloc([free_code_chunks(j, b) EXCEPT !.blk[b].points = {}]), b, o, n)

-----------------------------------------------------------------------------
find_by_phys_page(j, p) ==
  LET chain == j.phys[PhysSlotOf[p]]
      i     == SelectInSeq(chain, LAMBDA b : j.blk[b].phys = p)
  IN  IF i = 0 THEN None ELSE chain[i]

Pages(j, b) == ToSet(j.blk[b].chunks) \cup {j.blk[b].buffer}
Full(b, n) == jit.blk[b].pos + n <= MaxChunks

CodeInit ==
  /\ mem = [p \in Phys |-> 0]
  /\ jit = jit_init
  /\ dmts = [e \in Bucket |-> NoEntry]
  /\ running = None
  /\ halted = FALSE
  /\ said = [op |-> "start"]

(* ppc32_jit_tcb_exec: code that has no entry where the CPU is makes the   *)
(* interpreter run the page, until it is compiled once more.               *)
Enter(j, b, o, n) ==
  LET missed == [j EXCEPT !.blk[b].targets = @ \cup {o}, !.blk[b].undef = @ + 1]
      again  == tcb_recompile(missed, b, o, n)
      native(k) == /\ jit' = k
                   /\ running' = [block |-> b, pages |-> Pages(k, b)]
                   /\ said' = [op |-> "use", key |-> k.blk[b].start, value |-> k.blk[b].image]
  IN  IF o \in j.blk[b].points THEN native(j)
      ELSE IF missed.blk[b].undef = UndefMax THEN Full(b, n) /\ native(again)     \* ChunksLeft
      ELSE /\ jit' = missed
           /\ running' = Interpreting
           /\ said' = [op |-> "use", key |-> j.blk[b].start, value |-> mem[j.blk[b].phys]]

(* A block of another page in the slot is freed; uses are counted as far   *)
(* as a partial flush asks.                                                *)
Evict(j, s) == IF j.slot[s] = None THEN j
               ELSE [tcb_free(j, j.slot[s], TRUE) EXCEPT !.slot[s] = None]
Count(j, s, b) == [j EXCEPT !.slot[s] = b, !.blk[b].acc = IF @ > Threshold THEN @ ELSE @ + 1]

(* ppc32_jit_run_cpu: one turn of the loop.                                *)
Dispatch ==
  \E v \in CodePage : \E o \in Offset[v], n \in 0..MaxFill :
    LET s    == SlotOf[v]
        old  == jit.slot[s]
        hit  == old # None /\ jit.blk[old].start = v
    IN  /\ running = None /\ ~halted
        /\ \E made \in {IF hit THEN [jit |-> jit, block |-> old] ELSE tcb_compile(Evict(jit, s), v, o, n)} :
             IF made.block = None
             THEN /\ jit' = made.jit /\ halted' = TRUE /\ said' = [op |-> "other"]
                  /\ UNCHANGED running
             ELSE Enter(Count(made.jit, s, made.block), made.block, o, n) /\ UNCHANGED halted
        /\ UNCHANGED <<mem, dmts>>

(* The code returns to the loop.                                           *)
Return ==
  /\ running # None
  /\ running' = None
  /\ said' = [op |-> "other"]
  /\ UNCHANGED <<mem, jit, dmts, halted>>

(* ppc32_mem_map: a new entry is flagged if there is code of its page.     *)
mem_map(v) == [page |-> v, exec |-> find_by_phys_page(jit, Map[v]) # None]
mem_access(v) == IF dmts[BucketOf[v]].page = v THEN dmts[BucketOf[v]] ELSE mem_map(v)

Load ==
  /\ running # None
  /\ \E v \in DataPage : dmts' = [dmts EXCEPT ![BucketOf[v]] = mem_access(v)]
  /\ said' = [op |-> "other"]
  /\ UNCHANGED <<mem, jit, running, halted>>

(* A store through a flagged entry frees the block of the page, even the   *)
(* one that runs; low: below the first exception vector it does not.       *)
Store ==
  \E v \in DataPage, x \in Content, low \in BOOLEAN :
    LET e == mem_access(v)
        b == find_by_phys_page(jit, Map[v])
        freed == e.exec /\ ~low /\ b # None
    IN  /\ running # None /\ x # mem[Map[v]] /\ (low => v = Vectors)
        /\ mem' = [mem EXCEPT ![Map[v]] = x]
        /\ dmts' = [dmts EXCEPT ![BucketOf[v]] = [e EXCEPT !.exec = @ /\ ~freed]]
        /\ jit' = IF ~freed THEN jit
                  ELSE Drop(jit, b)
        /\ said' = [op |-> "change"]
        /\ UNCHANGED <<running, halted>>

IcbiRunning ==
  \E v \in CodePage \ Untranslated :
    LET b == find_by_phys_page(jit, Map[v])
    IN  /\ running # None
        /\ jit' = IF b # None /\ jit.blk[b].start = v /\ running.block # b
                  THEN [tcb_free(jit, b, TRUE) EXCEPT !.slot[SlotOf[v]] = None] ELSE jit
        /\ said' = [op |-> "forget", keys |-> {v}]
        /\ UNCHANGED <<mem, dmts, running, halted>>

(* ppc32_icbi                                                              *)
Icbi ==
  \E v \in CodePage \ Untranslated :
    LET b == find_by_phys_page(jit, Map[v])
    IN  /\ running # None
        /\ jit' = IF b # None /\ jit.blk[b].start = v
                  THEN [tcb_free(jit, b, TRUE) EXCEPT !.slot[SlotOf[v]] = None] ELSE jit
        /\ said' = [op |-> "forget", keys |-> {v}]
        /\ UNCHANGED <<mem, dmts, running, halted>>

(* Every change of a BAT, segment or SDR1 register, TLBIA and TLBIE.       *)
mem_invalidate_cache ==
  /\ running # None
  /\ dmts' = [e \in Bucket |-> NoEntry]
  /\ said' = [op |-> "other"]
  /\ UNCHANGED <<mem, jit, running, halted>>

(* ppc32_reset, while the CPU does not run; then it is started again.      *)
Reset ==
  /\ running = None
  /\ jit' = jit_flush(jit, 0)
  /\ dmts' = [e \in Bucket |-> NoEntry]
  /\ halted' = FALSE
  /\ said' = [op |-> "forget", keys |-> CodePage]
  /\ UNCHANGED <<mem, running>>

CodeNext == Dispatch \/ Return \/ Load \/ Store \/ Icbi \/ mem_invalidate_cache \/ Reset
CodeSpec == CodeInit /\ [][CodeNext]_codeVars

-----------------------------------------------------------------------------
TypeOK ==
  /\ mem \in [Phys -> Content]
  /\ halted \in BOOLEAN
  /\ jit.method \in {0, 1}
  /\ \A s \in Slot : jit.slot[s] \in BlockId \cup {None}

(* Every page of the exec area is free or belongs to one block, once; the  *)
(* code generator writes into the block's own buffer, and the code that    *)
(* runs has not been given to another block (exec_page_alloc,              *)
(* exec_page_free, tcb_recompile).                                         *)
PagesOwned ==
  LET live == ToSet(jit.tcbs)
  IN  /\ IsInjective(jit.pool)
      /\ ToSet(jit.pool) \cup UNION {Pages(jit, b) : b \in live} = ToSet(ExecPage)
      /\ \A b \in live :
           /\ IsInjective(Append(jit.blk[b].chunks, jit.blk[b].buffer))
           /\ Pages(jit, b) \cap ToSet(jit.pool) = {}
           /\ \A c \in live \ {b} : Pages(jit, b) \cap Pages(jit, c) = {}
           /\ jit.blk[b].ptr = jit.blk[b].buffer /\ ~jit.blk[b].over
           /\ running # None /\ running.block # b => Pages(jit, b) \cap running.pages = {}

(* A block is listed once, is what its hash slot holds, and is found by    *)
(* its physical page; nothing leads to a block that was freed.             *)
BlocksFound ==
  LET live == ToSet(jit.tcbs)
  IN  /\ IsInjective(jit.tcbs)
      /\ live \cap ToSet(jit.spare) = {}
      /\ \A b \in live : /\ jit.slot[SlotOf[jit.blk[b].start]] = b
                         /\ find_by_phys_page(jit, jit.blk[b].phys) = b
      /\ \A s \in Slot : jit.slot[s] # None => jit.slot[s] \in live
      /\ UNION {ToSet(jit.phys[s]) : s \in Slot} \subseteq live

(* The code cache is a stale cache of the pages: a page runs as it is now, *)
(* or as it was at some time since the last ICBI of it.                    *)
Cached(v) == LET b == jit.slot[SlotOf[v]]
             IN  IF b = None \/ jit.blk[b].start # v THEN {} ELSE {jit.blk[b].image}
Current == [v \in CodePage |-> mem[Map[v]]]
Stale == [v \in CodePage |-> {x \in Cached(v) : x # mem[Map[v]]}]
=============================================================================
