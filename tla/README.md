# A verification project for Dynamips (embedding library)

Dynamips emulates Cisco routers. In this repository it is a library: Go code
(`internal/binding`, `console`) and a C API (`bindings/`, `include/dynamips`)
drive the emulator core (`common/`, `stable/`). A process holds any number of
virtual machines, network I/O descriptors (NIOs) and virtual switches. Each VM
runs a CPU thread, which translates guest code and executes it, and a timer
thread; VMs share the console thread, the timer scheduler and the scheduler of
periodic tasks; NIOs share the threads that receive packets; a switch forwards
from whichever of those threads hands it a frame. The TCP hypervisor
(`stable/hypervisor.c`) drives the same core.

This directory holds TLA+ modules translated from that code, TLC configurations
for small instances, and TLAPS proofs for every instance. `PROJECT.json` names,
for every definition, the source lines it translates; every run; and for every
property of a passing run, a mutant of the model that the property catches.

## The system: components, state, operations, interactions

All of it is translated from the code that is built (`timer.cpp` and not
`timer.c`, `ptask.cpp` and not `ptask.c`). "Correct when" names the properties.

| Component | State | Operations | Meets | Hard part | Correct when |
|---|---|---|---|---|---|
| Object registry, `common/registry.cppm` | index and order per type, count and flags per node | add, rename, acquire, retain, release, reset, erase, execute, for_each | every API call; callbacks re-enter it under a recursive mutex | nested destructors, walks over snapshots | lookups agree (Indexed), nothing held is unlinked (RefsSafe), a destructor has its object alone (CallbacksSafe) |
| Hypervisor, `stable/hypervisor.c`, `hv_*.c` | connections, objects by name | every command, accept, close, stop | registry, all objects; one thread per client | commands are sequences of registry calls that interleave; error branches | PointersLive, ReferencesBalanced, AnsweredOnce, ConnectionOwned, HypervisorServes |
| VM and CPU threads, `stable/vm.c`, `stable/cpu.c`, `mips64_jit.c`, `dev_c7200.c` | VM status, CPU group, volatile CPU fields | create, start, stop, delete, suspend, resume, OIR | controller, CPU thread, timer thread, guest, console | unlocked stores, polling with a time limit, failures half way | QuiescentChange, ThreadsEnded, CallsReturn, ResumeRuns |
| Instructions and translators, `ppc32_*`, `mips64_*` | guest registers, host registers, host code | interpret, emit, allocate, optimise | the CPU thread | flags, widths, delay slots, register allocation across instructions | PpcTranslated, MipsTranslated |
| Code caches, `ppc32_jit.c`, `mips64_jit.c` | blocks, hash slots, pages of the exec area | compile, recompile, flush, forget | stores and cache instructions of the guest | the area runs out during a compilation | PagesOwned, BlocksFound, ForgottenCode |
| Address translation, `ppc32_mem.c`, `mips64_mem.c`, `mips64_cp0.c` | BATs, segments, page table, TLB, MTS caches | translate, map, invalidate, copy a shared page | guest, devices | cached translations that do not know where they came from | ForgottenPages |
| Memory accesses, `mips_mts.c` | bytes of memory and registers | every load and store | guest | pairs for words that are not aligned | AccessWhole |
| UDP receivers, `net_io_udp.cpp` | listeners, one asio receive each | start, stop, add, remove, receive | switches, bridges, devices | a mutex held over handlers; completions already queued | CallbacksOwned, OnePending, WorkersAnswer |
| Receive listeners, `net_io.c` | list of listeners, request lists | netio_rxl_add, netio_rxl_remove | the same; a general thread and dedicated ones | callers wait for a thread whose handlers take the callers' locks | the same |
| Periodic tasks, `ptask.cpp` | task list, generation | start, stop, add, remove, sweep | devices | removal during a sweep, restart with old sweeps queued | the same and TasksSwept |
| Timers, `timer.cpp` | entries with generations, asio queue | start, stop, create, remove, reschedule | any thread; callbacks | expired waits that cannot be cancelled, stop during a call | CallbacksOwned, OnePending, RefusedSilent, ServicesAnswer |
| Virtual terminals, `dev_vtty.c`, `vtty_io.cpp` | terminals, queues and buffers per connection | create, quiesce, delete, accept, input, output, shutdown | console thread, asio, CPU thread, controller | reused addresses, full queues, replay against new output | the same and OutputContiguous |
| Ethernet switch, `eth_switch.c` | ports, MAC address table | add, remove, port modes, clear, save, delete, frames | listener threads | frames between the steps of a removal | MatchHasPort, LocationCurrent, EgressKeepsVlan |
| Frame Relay and ATM switches, `frame_relay.c`, `atm.c` | circuits in hash chains and per NIO | create and delete a circuit, delete the switch, LMI, cells | registry, listeners | a creation that fails half way | CircuitExact, CircuitResources |
| ATM bridge, NIO bridge, FIFO NIOs, `atm_bridge.c`, `atm_vsar.c`, `net_io_bridge.c`, `net_io.c` | configuration, slots, reassembly buffer, endpoints | configure, add, remove, cross-connect, frames | the same | lost and foreign cells; an endpoint that goes | FrameCarried, CircuitResources, FifosPaired |
| Network controllers with rings, `dev_am79c971.c`, `dev_dec21140.c`, `dev_i8254x.c`, `dev_i8255x.c`, `dev_mueslix.c`, `dev_c7200_pos.c` | registers, ring positions, descriptors in guest memory | register access, receive, transmit scan, bind, unbind | guest driver, listener thread, periodic tasks | the guest reads the rings without the lock | FrameReadable, PacketWhole, Announced, Served |

Every other part is listed in `PROJECT.json` with the reason it has no module.

## Modules and the code

A name of the source is kept where TLA+ allows it; the map in `PROJECT.json`
gives the lines of each definition. Each run has a module that composes the
components it is about: where they share nothing (no lock, no variable), a
behaviour is of one of them, named by a variable that never changes (`part`,
`at`, `service`, `device`), and the others rest. That is a way to check several
components in one run, not a claim about the code, which runs them side by side.

| Module | Models |
|---|---|
| Registry | nodes, index and order of `registry.cppm`; `frames` is the stack of calls the owner of the recursive mutex is inside |
| HvCommands, HvVms, Hypervisor | every command as the sequence of registry calls and replies its handler makes; the interpreter of those sequences for several clients, the server, its end |
| VmCpu | the controller walks through each operation statement by statement, against the CPU thread, its timer thread, the guest and the console, whose menu quits, suspends and resumes the VM |
| HostCode, MemOps | machine words of any width of byte, host instructions; loads and stores by bytes |
| MipsInsn, MipsAmd64, MipsX86, MipsTranslation | MIPS64 instructions as interpreted and as emitted for two hosts, with delay slots |
| PpcInsn, PpcTrans, PpcAmd64, PpcX86, PpcPpc, PpcTranslation | the same for PowerPC pages, with JIT operations, optimizer, register allocation and jumps into other blocks |
| MCTranslation | both together, and the sets of instructions and operands that are swept |
| PpcCode, MipsCode | the code caches: blocks, hash slots, the exec area, flushes |
| PpcMmu, MipsMmu | translation of addresses and the MTS caches |
| StaleCache | abstract: a cache answers the value of now or one that was right since it last had to forget |
| Execution | the four caches and MemOps together; each cache implements StaleCache |
| UdpReceiver, Ptask, RxListener, Workers | the threads that call back; Workers composes them |
| Timer, Console, Services | timers and virtual terminals; Services composes them |
| EthSwitch | ports, table, the removal in two steps; `seen` is a history variable: where an address was last learned since its entries were last dropped |
| Circuits | Frame Relay and ATM switches, and what circuits hold of their NIOs |
| Bridges | ATM bridge with AAL5, NIO bridge, FIFO NIOs, on the same NIOs |
| Switches | all of them; `device` says which one a behaviour is about |
| NicRing, RingNics, Nics | what ring devices and their drivers share, six controllers, and what each owes its driver |
| LifecycleProofs | the proofs about Registry and VmCpu |
| ExecutionProofs, CodeProofs | the proofs about Execution: the MTS caches and the accesses to memory, and the code caches |
| SwitchesProofs, WorkersProofs, ServicesProofs, HypervisorProofs, NicsProofs | the proofs about the modules of these names |

Conventions used throughout:

- A critical section that makes no call out is one action. A call out with the
  lock held (a destructor, a client's handler, a waiting caller) ends the
  action, and what other threads may do meanwhile is interleaved.
- Fields that threads share without a lock are read and written one per step.
  Accesses are taken as sequentially consistent; the fields are `volatile` and
  the builds are for machines and compilers that keep the order of these
  accesses relative to the locks and system calls between them.
- A call that fails without changing anything is a stuttering step.
- `PROJECT.json` maps each definition to the lines it translates. A helper whose
  lines lie within those of the operation that uses it is covered by the
  operation's entry.
- A definition whose comment begins with "Mutant" is a plausible mistake in the
  code. It is not used by the specification; each property is run against the
  specification with one of them put in place, to show that it can fail.
- TypeOK, where a module has one, documents the variables; types are proved where
  an induction needs them.

## Runs

Every property is an invariant unless it is marked: A for an action property, L
for liveness, R for a refinement.

| Run | Instance | What it asks |
|---|---|---|
| registry | 2 names, types, nodes, handles, references; counts to 2; nesting 3 | Indexed, RefsSafe, CallbacksSafe, while callbacks call anything again |
| translation | bytes of 2 bits; every translated instruction, PowerPC pages of up to three, MIPS64 with and without slots, boundary operands | PpcTranslated, MipsTranslated: emitted code does to the guest what the interpreter does, outside the named sets of differences |
| execution | 3 pages of code, an exec area of 3 pages, code of up to three; 2 pages, address spaces and TLB entries; 2 accesses of all sizes and offsets | PagesOwned, BlocksFound, ForgottenCode (R), ForgottenPages (R), AccessWhole (A) |
| vm_cpu | 1 CPU object, all calls, all failures | QuiescentChange, ThreadsEnded; CallsReturn, ResumeRuns (L) |
| oir_removal | 2 CPU objects | RemovalQuiescent is violated: see below |
| hypervisor | 2 clients, 2 names, 3 objects in all | PointersLive, ReferencesBalanced, AnsweredOnce, ConnectionOwned; HypervisorServes (L) |
| rename_race | the same, renaming at any time | PointersLive is violated: see below |
| workers | UDP: 1 NIO, a switch and a device, 2 listeners, bursts of 2; tasks: 2 devices, 2 identifiers, 2 cycles; listeners: one NIO with a descriptor and one without | CallbacksOwned, OnePending; TasksSwept, WorkersAnswer (L) |
| udp_bridge_deadlock | 1 NIO, a bridge | CallsReturn is violated: see below |
| switches | Ethernet: 2 ports, 2 addresses, 2 VLANs; Frame Relay: 2 NIOs, 3 DLCIs in 2 buckets, 3 connections; ATM: 2 VPIs, 1 VCI; AAL5 with cells of 4 bytes; 3 slots; 3 FIFOs | MatchHasPort, LocationCurrent, EgressKeepsVlan, CircuitExact, CircuitResources, FrameCarried, FifosPaired |
| services | timers: 1 caller, 2 identifiers, 2 arms, 2 cycles; a terminal created twice, 2 connections, 2 starts | CallbacksOwned, OnePending, OutputContiguous; RefusedSilent (A), ServicesAnswer (L) |
| nics | six controllers, rings of 2 and 3, frames and packets of up to 2 descriptors, 1 stop | FrameReadable, PacketWhole, Announced; Served (L) |

### Bounds and why they are enough

- registry: two nodes under two names and types let a rename collide, a walk
  meet a node removed by its own callback and a count reach the limit; three
  levels hold a walk, a destructor in it and a call of that destructor.
- translation: with a byte of two bits a word has eight and a double word
  sixteen, and every relation between the sizes is that of the code: a word is
  half a double word, a shift count is taken modulo the width, a sign bit moves
  when a word is widened. Three instructions are the longest window in which the
  optimizer and the register allocation look back. A jump out of the page finds no
  block, the one of its target, that one without code for the target, or one of
  another page of the same hash (`blk`); on entry every host register holds the
  address of that other page (`Junk`). Direct jumps switched off
  (`exec_blk_direct_jump`) are the case without a block.
- execution: three exec pages are used up by two blocks and the buffer, so that
  a compilation flushes, and can flush itself; two physical pages behind one
  virtual one give a stale answer; a TLB of two has one wired entry and one that
  is replaced. Two accesses are a pair for one word that is not aligned.
- vm_cpu: a platform creates one CPU. A second object exists only after a failed
  start that left one behind; safety for that, and for any number, is proved.
- hypervisor: with two names and three objects a name is used again after its
  object was deleted and while another client still has a pointer to it.
- workers: two clients are needed for one to wait while the other changes the
  lists; two listeners admit a stale one beside the current one; a burst of two
  has a first packet, a last and an unfinished end; two cycles of the scheduler
  leave a sweep of the old one in the queue of the new one.
- switches: two VLANs and addresses in two buckets give equal and different
  entries in one bucket; three connections put two in one list and one in the
  other; frames of 1, 2 and 6 bytes fill less than a cell, a cell to the byte and
  several cells; three frames are one lost, one foreign and one to be carried.
- services: two arms separate a stale wait from a live one; two cycles let a
  refused operation be run later; an address used twice is used again once;
  queues of one character are full at once, a replay buffer of one wraps.
- nics: a ring of two wraps after each frame of two descriptors, and a frame
  meets a descriptor that the device does not own. Two frames or packets are the
  old one and the new one, two packets per pass reach the end of a pass.

Deadlock is checked in registry, vm_cpu, workers, switches and nics. It is not
where all actors may have finished or used up a bound (translation, execution,
hypervisor, services), nor in udp_bridge_deadlock, which is about it.

### Fairness

Weak fairness is the scheduler's: a thread that can go on does. Strong fairness
is used where a thread waits for a lock that others take again and again, and
each time the code has a pause in which the lock is free and a waiter is served:
the sleep between two sweeps (Ptask, Nics), the wait of the console thread
(50 ms) and the release of a terminal's lock between characters (Console), the
return to the asio loop after at most one burst (UdpReceiver), select, before
which the general thread gives up its mutex (RxListener), the gap between two
registry calls (Hypervisor). In VmCpu the ten seconds of a synchronization that
keeps failing pass, and the console, which holds its lists' lock while its menu
is in vm_suspend or vm_resume, is between two keys again and again, so that
vm_hardware_shutdown gets to detach it. In Nics the bandwidth counter is given back in each period.
A poll in stop() of the UDP receivers runs out of packets. Nothing is assumed of
packets, connections, calls, the guest's programs, failures, or of when the
controller starts, stops or binds.

### Refinement

`StaleCache` is what a cache promises whose entries were derived from something
that changes behind its back: an answer is the value of now, or one that was
right at some time since the last operation that had to make the cache forget
the key. `Execution` instantiates it twice, with the state that the four caches
stand for (`Current`, `Stale` of PpcCode, MipsCode, PpcMmu and MipsMmu) and the
last operation and its answer. ForgottenCode and ForgottenPages say that every
step of the code caches and of the MTS caches is a step of it.

## Proofs

The proof modules prove their properties for all values of the constants, from
the assumptions named in the modules only. These are what a reader expects of
the constants (null values outside their sets, positive bounds, VLANs in
1..4095, hash functions into their buckets, no page of the exec area twice in its list,
more pages in it than one block needs) and, where the environment matters,
the flags below. Each proof follows Init => Inv, Inv /\ [Next]_vars => Inv',
Inv => property, with one lemma or step per action; TLC checked every inductive
invariant on small instances first.

- **Registry** (LifecycleProofs). RegistryInv is RegistryTypes and the six parts of Indexed, RefsSafe and
  CallbacksSafe. They need each other: unlinking a node keeps the index right
  only because order and index agree, keeps references safe because a destructor
  runs with count 0, and that stays so only because callers take no reference to
  an object in its own destruction (`Acquire` and `Retain` say so in their guards;
  `src/common/registry.cppm:260` and `:326` do not check it); that no node is unlinked twice rests on pending callbacks having
  different nodes.
- **VmCpu** (LifecycleProofs). QuiescentChange is not inductive. The strengthening says, for each
  place of the controller, which CPU states are possible (Control), and for each
  place of the CPU thread what it may still store (Threads): a `seq_state` that
  is set while the CPU's state is not "running" was set after that state was
  stored, so the thread has not read "running" since; if it stored "running"
  between the two reads of the poll, it has not set `seq_state`; and once told to
  pause or halt, only the execution loop writes "running" back. The console may
  suspend and resume the VM at any time; the strengthening says what it leaves
  when it does so between two calls, and speaks of a call only as long as
  `overlap` does not say that the menu was inside vm_suspend or vm_resume during
  it. ThreadsEnded follows from TimerOwned: the timer thread runs only while the
  CPU thread does.
- **Ethernet switch** (SwitchesProofs). TypeOK, MatchHasPort and LocationCurrent together are
  inductive: learning overwrites the whole entry, and invalidation clears the
  VLAN as well as the port. EgressKeepsVlan is a fact about tags for each pair of
  port modes, from the types.
- **Circuits and bridges** (SwitchesProofs). CircuitExact needs
  the shape of the hash chains: every circuit is in the chain of its key once,
  and a chain is in the order in which lookups must find it. CircuitResources is
  an equation between counters and sets that are walked while they change; its
  lemmas say what one more and one less circuit does to the number of holders of
  a NIO (Held). A creation may fail at each of its checks and in netio_rxl_add: the
  equation of references holds throughout, that of listeners becomes "no more
  than" for the NIOs on which one failed. An ATM bridge listens to exactly the ends
  netio_rxl_add was successful with, and gives up at most as many as it removes
  (HeardValue). FifosPaired
  holds unless a NIO is cross-connected again (`~Recross` is in the theorem):
  endpoints point at each other as long as neither was freed.
- **Workers.** Three independent invariants. UDP receivers (UdpInv): a listener
  in the map has at most as many references as its owner has uses of the
  endpoint, and one less while the owner is in the middle of a call; an active
  listener is in the map; operations, whether they wait or are done, are of
  different listeners, and the worker's own listener has none. Tasks (PtaskInv):
  there is one sweep of the current cycle, in the queue, waited for or running,
  and every task it has yet to call still has an owner. Receive listeners
  (RxlInv): a listener in the list is its client's; the list of removals is a
  chain without cycles of those whose clients wait; a dedicated thread runs only
  for a listener that is in the list, is to be added or is being joined.
- **Services.** Two invariants, each kept by the steps of the other service.
  Timers (TimerInv): an identifier that was issued is registered or cancelled,
  and not both; the wait of a registered timer's current cycle is in exactly one
  place, pending, queued or called; a task belongs to a call that waits, or was
  given up and is then of an earlier cycle or finds the context stopped; a removal
  that is left over from an earlier cycle names a cancelled timer. Terminals
  (ConsoleInv): the console thread works on an event only with list_lock in its
  hands, the controller closes only with it; an event that waits, the one that is
  worked on and the read under way are of different connections; a held-up write
  holds the lock of its terminal; a connection that is ready was sent all of the
  text up to the last character, or to the one being written. The lock of the
  terminal from the replay to the completion is what makes the last part
  inductive.
- **Hypervisor.** A handler is a program, a sequence of steps with branches that
  skip steps. Good(p, k) says that every step of p is allowed in the context k it
  is reached in, on every path: what the pointers hold, and whether the last line
  was sent. It is defined by the set of the programs and contexts that can follow,
  not by recursion, and LinesSafe proves it of every command of every module.
  ConnectionOwned and AnsweredOnce need no more and hold without condition.
  PointersLive and ReferencesBalanced are proved under `RenameAlone = TRUE`, which
  rename_race shows they need. Their invariant (HvInv): the count of a
  registered object is its holders, bindings and forgotten references, and an
  object that is not registered has none; a name belongs to one object of its type;
  the pointers of a client are what its context says, so that what is given up by
  name is the object held; and while an object is renamed its client is alone. A
  deletion then finds count 0 only where nothing points. The lemmas on
  cardinality say what one reference or binding more or less does to a count.
- **MTS caches** (ExecutionProofs). ForgottenPages is a refinement: the state of
  the abstract cache is computed from the registers, the tables and the entry of
  the page. A step that asks the cache rests on the look-up of the code being the
  translation of the architecture (PpcLookup, MipsLookup), whatever the cache then
  does. On a PowerPC that needs PteOK: every page table entry is of a mapping and
  every mapping has one entry, in its primary or its secondary group, which
  ppc32_map_page keeps when it takes the first free place and the guest when it
  clears one; a page of a 405 is in the TLB once. On a MIPS64 it needs that the
  first page of a TLB entry is a multiple of its size (NewTlbEntry), which makes
  the masks of the look-up the ranges of the architecture, and that no page is in
  two entries for one address space (TlbSeparate), which is the guest's duty and a
  guard of the write. The lemmas on quotients and remainders carry both.
- **Code caches** (CodeProofs). PpcCodeInv and MipsCodeInv are kept from step to
  step; what they say is also said of every state in the middle of a step, where
  a block is not listed yet or its pages have just been given back. PpcOK(j, X):
  the free pages and those of the blocks are all there are, and each is in one
  place, once (PpcPages); each block is listed, on the free list, never used, or
  one of X, the blocks being made (PpcLists); listed blocks, hash slots and the
  lists by physical page lead to each other (PpcLinks). A flush may come at every
  request for a page, also while a block is written: PpcLess says that it leaves
  the blocks it may not free, and their pages, as they are, and PpcAlloc that a
  page is free afterwards, because one block needs fewer pages than there are.
  A recompilation gives its pages back before it takes new ones; it never finds
  the list empty, and the first page it gets is the last it gave
  (PpcRecompiled). That code which runs keeps its pages is PpcRuns: the pages
  a freed block gives back are taken only when code is made, and that happens
  in the loop, where nothing runs. PagesOwned and BlocksFound follow from the
  invariant. For ForgottenCode each step has to say
  what it does to the code of each page: Keeps says that a page has the code it
  had, none, or that of what it holds now, and CodeAnswers, CodeChanges and
  CodeForgets turn this into the steps of StaleCache. ICBI, CACHE and a reset
  leave the page without code because a block that is listed is found.
- **Loads and stores** (ExecutionProofs). AccessWhole is proved for any memory
  whose size is a multiple of eight and for words of any bytes. The lemmas on
  words say what shifting and joining do to each byte (`high`, `low`, `shl`,
  `shr`, `merge`), and from them what each memory operation stores and loads at
  each place; the pairs (SWL and SWR, LDL and LDR) are then two sets of places
  that meet at the boundary of the word (PairPlaces), so that after both, in
  either order, each byte was moved once. Nothing is inductive here: a step
  performs a whole access, and the theorem is about the step.

- **Network devices** (NicsProofs). The rings are looked at from where the driver
  stands, so that no case is about the end of the array: Ix(b, k, n) is the slot
  k places after b. Transmission (TxInv): from the oldest descriptor on there are
  those the device has cleared, those of the packet it is working on, whose units
  it has copied in order, and those that wait, in which the packets still to be
  sent follow each other whole; the rest of the ring is the driver's. PacketWhole
  follows with no condition. Reception (RxInv): from the driver's position on
  there are the frames that are done, each whole or cut and marked, then the
  descriptors of the frame in progress, of which only those the device has given
  back can be seen, then free ones; how the four devices that fill a ring, the
  i8254x and the i8255x put a frame together are three shapes of the middle part.
  FrameReadable is proved under `~LateReceive`: a receive handler that checked
  RXON before the Am79c971 is stopped, and takes the lock after, would begin at
  a position of the old ring. The lemmas on moving the driver's position by a
  frame carry over each part. Announced rests on both (NoticeInv): a thread that
  gave something back has yet to raise the line or has raised it; the line is
  lowered only by an acknowledgement, after which the driver looks at its rings
  before it rests, and finds nothing only when RxInv and TxInv leave nothing
  there; a copy in a ring never stops half way, because the driver gives a packet
  to the device whole. For the i8255x the end of
  the receive list is a cause in the status or one the driver has just read.

Only model-checked:

- all liveness properties: fairness and ENABLED are outside the prover's reach;
- what recursive definitions compute (induction over data): FrameCarried, whose
  segmentation and reassembly walk a frame cell by cell;
- the translators (PpcTranslated, MipsTranslated), which are sweeps over inputs
  of operators on machine words defined with recursion and bit operations.

## Where the code departs from what it says

Three runs show a violation:

- **oir_removal.** `c7200_pa_stop_online` (`src/common/dev_c7200.c:2088`)
  suspends the VM and removes the card at once; its comment speaks of suspending
  CPU activity because the memory maps change. `c7200_pa_init_online` waits for
  the CPU, this function does not, and the CPU thread may be in the middle of a
  block.
- **udp_bridge_deadlock.** The UDP receive handler holds the mutex of all
  listeners while it calls a client (`src/common/net_io_udp.cpp:147`);
  `net_io_bridge.c` adds and removes NIOs, which takes that mutex, with the lock
  the handler waits for.
- **rename_race.** Handlers of the hypervisor give an object up by the name of
  the argument (`src/common/hv_ethsw.c:44`); when another client renames the
  object in between and creates one of that name, the wrong object loses a
  reference and is deleted while it is used.

Others were met while modelling; the model does what the code does, and the
properties are stated so that they hold, or except the case by name. Where a
definition is named, it is in the module and the specification does not satisfy
it; no run claims it.

- VmCpu, `HaltedUsesNothing`: a start that fails at `src/common/dev_c7200.c:1701`
  leaves the hardware in place and the status halted, against
  `src/stable/vm.h:56`. A start that fails earlier frees the
  CPU group and keeps the pointer (`src/common/dev_c7200.c:1537`); `CallUsesFreed`
  and `MenuUseFreed` are the steps that follow it.
  `SuspendSticks`: the CPU thread stores the running state it has just read
  (`src/stable/mips64_jit.c:770`) and may overwrite a suspension.
- VmCpu, `overlap`: the menu of the console suspends and resumes the VM
  (`src/common/dev_vtty.c:904`, `:909`) on the console thread, without a lock
  against the controller. A `u` after the synchronization of a start, a stop or an
  OIR start lets the CPU execute while memory or devices change; a vm_suspend of
  one thread inside that of the other saves "suspended" as the state to restore,
  so that the next resume does not run the CPU; and a CPU resumed behind the
  synchronization of a stop may store "running" over the state `cpu_delete` has
  set, which then waits for a guest that goes on. QuiescentChange, ResumeRuns and
  CallsReturn except exactly the calls that the menu overlaps (QuiescentChange
  also an OIR start after one, until the VM is started again).
- RxListener: with a bridge the general thread and a caller wait for each other
  (`src/common/net_io_bridge.c:135`); with two clients on one NIO (Sharing) the
  second client's handler is dropped (`src/common/net_io.c:1521`).
- UdpReceiver: an addition made while stop() polls is accepted, and the poll need
  not end while packets keep coming.
- EthSwitch, `EntriesAttached`: a frame between the unlock at
  `src/common/eth_switch.c:523` and the end of listening is learned for the port
  that leaves. `VlanIsolated`: unicast forwarding (`:301`) does not look at the
  VLAN of an access port as flooding does (`:253`). `TunnelTransparent`: between
  two tunnel ports of one customer the customer's own tag is popped (`:226`),
  although the comment at `:215` calls the case valid. `SaveConfigCompletes`:
  saving reads the name of an empty slot (`:632`).
- Circuits: a failed creation removes a listener it did not add
  (`src/common/frame_relay.c:392`, and the ATM switch likewise), so that another
  circuit of the NIO is no longer received; this holds for creations that fail in
  netio_rxl_add as well; deleting a Frame
  Relay switch leaves its circuits in the lists of NIOs (`:322`); saving follows
  the NIO's list instead of the hash chain (`:446`); `atmsw_create_vpc` hides the
  channels that exist under its VPI (`src/common/atm.c:269`).
- Bridges: AAL5 reassembly ignores the CRC; `atm_bridge_configure` keeps a
  reference when one of its NIOs does not exist, and leaves the bridge configured
  when netio_rxl_add fails for one of them (`src/common/atm_bridge.c:142`); removing the configuration
  keeps a partial buffer. A FIFO NIO that is cross-connected again leaves its old
  endpoint pointing at it. A NIO bridge accepts the same NIO twice, and
  ignores that netio_rxl_add failed (`src/common/net_io_bridge.c:101`).
- Hypervisor: renaming a VM that fails, `show_cpu_usage` of a CPU -1 and the
  sending of messages without memory keep a reference, the second without an
  answer; clean-deletion gives a VM up and then deletes it by name; dead
  connections are freed only when the server stops; deleting an object that is in
  use is answered as done; `close_conn` closes one descriptor three times.
- Bindings: deleting a VM through a handle takes its reference again by name
  (`src/common/dynamips_bridge_vm.c:40`); a VM whose set-up fails after it was
  registered is freed while it is registered (`src/stable/vm.c:1109`).
- Timer, `RemoveWaits`: a removal that meets a stop returns a failure while the
  callback runs (`src/common/timer.cpp:144`, `:163`; `src/common/timer.h:24` says
  that it waits).
- Console: an unknown VT100 sequence is stored with `[` before ESC
  (`src/common/dev_vtty.c:1061`); a connection accepted before its terminal is
  listed (`:626`) is not greeted.
- Controllers. Am79c971: RXON is checked before the lock is taken
  (`src/common/dev_am79c971.c:740`), so a frame can be put into a ring after the
  device was stopped (constant `LateReceive`, FALSE in the run). DEC 21140:
  without a lock, updates of CSR5 by three threads lose causes
  (`src/common/dev_dec21140.c:692`; Announced and Served except it), and stopping
  does not wait for a receive in progress. i8255x: flexible receive never
  advances the buffer descriptor, `ru_resume` tests READY for SUSPEND, the control
  word is written before the size, a stale EL bit is written back. i8254x: an
  overrun in mid-frame leaves descriptors of half a frame. POS: a frame that is
  cut short is not marked, and there is no lock. Mueslix: a test of the enabled
  flag binds `!` to the wrong operand.
- PowerPC translators (`Departs`, `Amd64Shifts`, `PpcDeparts`): CR0 of recording
  forms with a signed overflow, or not recorded at all (SUBFC., SUBFE., EQV.);
  RLWIMI with one register twice; division by zero; branches to LR or CTR values
  that are not aligned; SLW and SRW on x86-64 with a count above six bits or a
  register whose upper half is set; single CR bits, RLWIMI. and BCLRL on PowerPC
  hosts. No translator copies XER.SO into the field that a comparison or a
  recording form sets (`#if 0` at `src/stable/ppc32_amd64_trans.c:217`), as the
  interpreter does: the properties allow exactly that bit to be missing
  (`SoLost`), and leave out pages that read CR behind it (`SoRead`). A jump out of
  the page on x86-64 loads the page into RSI and compares RAX (`:112`): the
  shortcut is hardly ever taken, and a block of another page is entered when
  RAX happens to hold its address (`Strays`).
- MIPS64 translators (`Amd64Departs`, `X86Departs`): DIV of a negative number on
  x86-64; on x86-64 a jump out of the page compares the low 32 bits of `start_pc`
  (`src/stable/mips64_amd64_trans.c:95`) and enters a block that agrees in those
  only; 64-bit shifts by 32 or more, and SRL and SRLV of a negative word by
  zero, on x86. A fast SW keeps the link bit; writes to register zero, division
  by zero and a BREAK's pc are left out of the sweep because the code traps or
  differs.
- Code caches: freeing blocks in the middle of a recompilation is safe only
  because exec pages are reused last in, first out; the position in the table of
  chunks is never reset (`ChunksLeft` is assumed); ICBI frees the first block of
  a page only; a virtual page that is mapped elsewhere keeps its block; after the
  copy of a shared page the instruction side still reads the shared one.
- Address translation: changes of MSR, PID, ASID and by TLBWE leave MTS
  entries behind, which is why ForgottenPages speaks of the operations that do
  forget; the D bit is not checked; with every entry wired the MIPS64 random
  index divides by zero; large pages of the 405 are cached as small ones.
- MemOps, `Shifts`: LDR and SDR with offset 7 and SWR with offset 3 shift by the
  full width, which C leaves undefined; both outcomes are allowed.

## What the environment is assumed to do

- VmCpu, Timer, Ptask: one controller at a time; the bindings serialise them
  (`runtimeMu`, and the request to C callers in `bindings/README.md`).
- Timer: an identifier is removed or rescheduled by callers that were given it.
- RxListener: a NIO has one client (`Sharing` FALSE), no bridge in the passing
  run. UdpReceiver: two clients do not use a NIO at once; no bridge.
- Hypervisor: in the passing run an object is renamed when no other client uses
  it (`RenameAlone` TRUE).
- EthSwitch: a NIO is added once; tags below 4096; no ISL ports, which no handler
  can configure.
- Circuits: no circuit is added to the list of a NIO that a deleted switch left
  behind. FIFO NIOs: `Recross` FALSE in the run.
- Console: the CPU is stopped before its terminals are deleted, as vm_delete does.
- Nics: the driver is not part of the repository; it is modelled from what the
  devices expect of it (touch what you own, give the first descriptor of a packet
  away last, acknowledge before you scan). No stop in the window of `LateReceive`.
- PpcCode, MipsCode: a virtual page of code keeps its physical page, and for a
  PowerPC no two share one. PpcMmu: BATs do not overlap, a page is mapped once in
  an address space, a 405 guest uses the smallest pages. MipsMmu: no two TLB
  entries for one page of an address space.

## Not modelled

- The handles of the bindings, file locks and names of VMs, ghost images, slots
  and NIO bindings, NIO filters, the device map and PCI, and the other devices
  with rings: they have state and are worth modules; `PROJECT.json` says of each
  what a module would be about.
- Instructions that only interpreters have (floating point, the 405's TLB), MIPS64
  code for PowerPC hosts (stubs).
- Register tables of small devices, configuration data of platforms, system calls
  on sockets and devices, file formats, log and message text.
