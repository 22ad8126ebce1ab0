------------------------------- MODULE VmCpu -------------------------------
(***************************************************************************)
(* The life of one virtual machine and of its CPU threads.                 *)
(*                                                                         *)
(* One controller at a time calls the VM operations (the Go package holds  *)
(* runtimeMu across a call, bindings/README.md asks C callers to           *)
(* serialize): start, stop, delete, suspend, resume and the two OIR        *)
(* operations of the hypervisor.  Against it run the CPU thread created by *)
(* cpu_create, the timer thread the CPU thread creates, and the console    *)
(* thread, whose remote control menu also suspends and resumes the VM.     *)
(* They share vm->status and the volatile fields of cpu_gen_t without a    *)
(* lock, so every access to one of those is a step of its own.             *)
(*                                                                         *)
(* The platform code is that of the C7200 (dev_c7200.c); the other         *)
(* platforms repeat it.  A platform creates one CPU, so a CPU group is     *)
(* modelled by its CPU.                                                    *)
(***************************************************************************)
EXTENDS Naturals, FiniteSets

CONSTANTS
  Cpu,    \* cpu_gen_t objects; one is used again once it was freed
  NoCpu   \* vm->cpu_group = NULL

ASSUME VmCpuAssumption == NoCpu \notin Cpu

VARIABLES
  exists,      \* the VM was created and not yet deleted
  status,      \* vm->status
  group,       \* the CPU of vm->cpu_group
  freed,       \* vm->cpu_group points to memory that was freed
  console,     \* the console thread delivers input to this VM
  state,       \* cpu->state
  prev_state,  \* cpu->prev_state
  seq_state,   \* cpu->seq_state # 0 (the counter itself is only compared to 0)
  running,     \* cpu->cpu_thread_running
  zero,        \* the program counter is 0
  cpu,         \* where the CPU thread is
  timer,       \* where the timer thread is
  call,        \* the operation the controller is inside
  ctl,         \* where in it
  menu,        \* where the console thread is in vm_suspend or vm_resume
  overlap      \* whether it was there during this call, or during an earlier
               \* call since the CPU was created (a history variable)

vars == <<exists, status, group, freed, console, state, prev_state,
          seq_state, running, zero, cpu, timer, call, ctl, menu, overlap>>
vmVars == <<exists, status, group, freed, console>>
menuVars == <<menu, overlap>>
cpuVars == <<state, prev_state, seq_state, running, zero, cpu, timer>>

Status == {"halted", "shutdown", "running", "suspended"}
State == {"running", "suspended", "halted"}
Call == {"none", "start", "stop", "delete", "suspend", "resume",
         "oir_start", "oir_stop"}
CpuLoc == {"none", "start", "check", "exec", "stopping", "leave", "seq",
           "switch", "set_running", "halting", "join", "done"}
CtlLoc == {"idle", "suspend", "save", "set_suspended", "mark_suspended",
           "reset_seq", "poll", "poll_state", "poll_seq", "boot", "mark_running",
           "cpu_start", "slot_init", "slot_shutdown", "resume", "restore",
           "mark_resumed", "stop_cpu", "mark_shutdown", "free_hw",
           "hw_shutdown", "mark_halted", "cpu_delete", "join"}
MenuLoc == {"none", "save", "set_suspended", "mark_suspended", "restore",
            "mark_resumed"}

TypeOK ==
  /\ exists \in BOOLEAN /\ freed \in BOOLEAN
  /\ console \in BOOLEAN
  /\ status \in Status
  /\ group \in Cpu \cup {NoCpu}
  /\ state \in [Cpu -> State] /\ prev_state \in [Cpu -> State]
  /\ seq_state \in [Cpu -> BOOLEAN] /\ running \in [Cpu -> BOOLEAN]
  /\ zero \in [Cpu -> BOOLEAN]
  /\ cpu \in [Cpu -> CpuLoc]
  /\ timer \in [Cpu -> {"none", "looping", "done"}]
  /\ call \in Call /\ ctl \in CtlLoc
  /\ menu \in MenuLoc /\ overlap \in {"never", "before", "now"}

Init ==
  /\ exists = FALSE /\ status = "halted" /\ group = NoCpu
  /\ freed = FALSE /\ console = FALSE
  /\ state = [c \in Cpu |-> "suspended"]
  /\ prev_state = [c \in Cpu |-> "halted"]
  /\ seq_state = [c \in Cpu |-> FALSE]
  /\ running = [c \in Cpu |-> FALSE]
  /\ zero = [c \in Cpu |-> FALSE]
  /\ cpu = [c \in Cpu |-> "none"]
  /\ timer = [c \in Cpu |-> "none"]
  /\ call = "none" /\ ctl = "idle"
  /\ menu = "none" /\ overlap = "never"

-----------------------------------------------------------------------------
\* The controller.  From(a, b) is a step of its current call from a to b; a
\* call returns by going back to "idle".

From(a, b) == /\ ctl = a /\ ctl' = b
              /\ call' = IF b = "idle" THEN "none" ELSE call
              /\ UNCHANGED menuVars

Enter(c, b) ==
  /\ exists /\ ctl = "idle" /\ call' = c /\ ctl' = b
  /\ overlap' = IF menu # "none" THEN "now"
                ELSE IF c = "start" THEN "never"
                ELSE IF overlap = "now" THEN "before" ELSE overlap
  /\ menu' = menu

\* vm_create and the platform's create_instance.
Create ==
  /\ ~exists /\ ctl = "idle"
  /\ exists' = TRUE /\ status' = "halted"
  /\ group' = NoCpu /\ freed' = FALSE /\ console' = FALSE
  /\ UNCHANGED <<call, ctl, menuVars, cpuVars>>

\* cpu_create: a suspended CPU, its program counter in ROM, its thread.
CpuCreated(c) ==
  /\ cpu[c] = "none"
  /\ state' = [state EXCEPT ![c] = "suspended"]
  /\ prev_state' = [prev_state EXCEPT ![c] = "halted"]
  /\ seq_state' = [seq_state EXCEPT ![c] = FALSE]
  /\ running' = [running EXCEPT ![c] = FALSE]
  /\ zero' = [zero EXCEPT ![c] = FALSE]
  /\ timer' = [timer EXCEPT ![c] = "none"]
  /\ cpu' = [cpu EXCEPT ![c] = "start"]

\* init_platform.  Neither it nor its callers look whether the VM has a
\* CPU group already.
Start(c) ==
  /\ Enter("start", "suspend")
  /\ CpuCreated(c)
  /\ console' = TRUE
  /\ group' = c /\ freed' = FALSE
  /\ UNCHANGED <<exists, status>>

\* The error path of init_platform: the group is freed, vm->cpu_group still
\* points to it, and a CPU created before keeps its thread.
StartFails(c) ==
  /\ exists /\ ctl = "idle" /\ UNCHANGED <<call, ctl, menuVars>>
  /\ \/ CpuCreated(c)
     \/ UNCHANGED cpuVars
  /\ console' = TRUE
  /\ group' = NoCpu /\ freed' = TRUE
  /\ UNCHANGED <<exists, status>>

\* stop_instance and delete_instance: CPUs are stopped if there is a group.
Stop(c) ==
  /\ c \in {"stop", "delete"} /\ ~freed
  /\ Enter(c, IF group = NoCpu THEN "free_hw" ELSE "stop_cpu")
  /\ UNCHANGED <<vmVars, cpuVars>>

Suspend ==
  /\ Enter("suspend", "suspend")
  /\ UNCHANGED <<vmVars, cpuVars>>

Resume ==
  /\ Enter("resume", "resume")
  /\ UNCHANGED <<vmVars, cpuVars>>

\* pa_init_online and pa_stop_online: for cards of a started router.
Oir(c) ==
  /\ c \in {"oir_start", "oir_stop"}
  /\ group # NoCpu
  /\ Enter(c, "suspend")
  /\ UNCHANGED <<vmVars, cpuVars>>

\* A call that follows the freed vm->cpu_group.  What it reads is garbage; in
\* this outcome it fails and leaves the VM as it was.  At the beginning of a
\* call, and in stop and delete, that is no step at all.
CallUsesFreed ==
  /\ freed /\ From(ctl, "idle")
  /\ \/ ctl = "suspend" /\ status = "running"
     \/ ctl = "resume" /\ status = "suspended"
  /\ UNCHANGED <<vmVars, cpuVars>>

\* vm_suspend: nothing to do unless the VM is running.
AfterSuspend == CASE call = "suspend"  -> "idle"
                  [] call = "oir_stop" -> "slot_shutdown"
                  [] OTHER             -> "reset_seq"

SuspendCheck ==
  /\ status = "running" => ~freed
  /\ From("suspend", IF status = "running" THEN "save" ELSE AfterSuspend)
  /\ UNCHANGED <<vmVars, cpuVars>>

SaveState ==
  /\ From("save", "set_suspended")
  /\ prev_state' = [prev_state EXCEPT ![group] = state[group]]
  /\ UNCHANGED <<vmVars, state, seq_state, running, zero, cpu, timer>>

SetState(a, b, s) ==
  /\ From(a, b)
  /\ state' = [state EXCEPT ![group] = s]
  /\ UNCHANGED <<vmVars, prev_state, seq_state, running, zero, cpu, timer>>

SetSuspended == SetState("set_suspended", "mark_suspended", "suspended")

SetStatus(a, b, s) ==
  /\ From(a, b)
  /\ status' = s
  /\ UNCHANGED <<exists, group, freed, console, cpuVars>>

MarkSuspended == SetStatus("mark_suspended", AfterSuspend, "suspended")

\* vm_resume: nothing to do unless the VM is suspended.
ResumeCheck ==
  /\ status = "suspended" => ~freed
  /\ From("resume", IF status = "suspended" THEN "restore" ELSE "idle")
  /\ UNCHANGED <<vmVars, cpuVars>>

\* Mutant: the state saved by vm_suspend is not restored.
RestoreForgotten ==
  /\ From("restore", "mark_resumed")
  /\ UNCHANGED <<vmVars, cpuVars>>

RestoreState == SetState("restore", "mark_resumed", prev_state[group])

MarkResumed == SetStatus("mark_resumed", "idle", "running")

-----------------------------------------------------------------------------
\* cpu_group_sync_state: clear seq_state, then poll until the CPU thread has
\* either ended or been seen, after the clearing, outside its execution loop.

AfterSync == CASE call = "start"     -> "boot"
               [] call = "oir_start" -> "slot_init"
               [] OTHER              -> "free_hw"

\* Mutant: seq_state keeps the value it got before the CPU was suspended.
ResetSeqForgotten ==
  /\ From("reset_seq", "poll")
  /\ UNCHANGED <<vmVars, cpuVars>>

ResetSeq ==
  /\ From("reset_seq", "poll")
  /\ seq_state' = [seq_state EXCEPT ![group] = FALSE]
  /\ UNCHANGED <<vmVars, state, prev_state, running, zero, cpu, timer>>

\* cpu_group_check_activity reads cpu_thread_running, then state ...
Poll ==
  /\ From("poll", IF running[group] THEN "poll_state" ELSE AfterSync)
  /\ UNCHANGED <<vmVars, cpuVars>>

PollState ==
  /\ From("poll_state", IF state[group] = "running" THEN "poll" ELSE "poll_seq")
  /\ UNCHANGED <<vmVars, cpuVars>>

\* ... and then seq_state.
PollSeq ==
  /\ From("poll_seq", IF seq_state[group] THEN AfterSync ELSE "poll")
  /\ UNCHANGED <<vmVars, cpuVars>>

\* Mutant: the time is compared only when every CPU was seen suspended.
SyncTimeoutNever ==
  /\ ctl = "poll_seq" /\ ~seq_state[group]
  /\ From(ctl, "idle")
  /\ UNCHANGED <<vmVars, cpuVars>>

\* Ten seconds have passed: every caller returns an error.
SyncTimeout ==
  /\ \/ ctl = "poll_state" /\ state[group] = "running"
     \/ ctl = "poll_seq" /\ ~seq_state[group]
  /\ From(ctl, "idle")
  /\ UNCHANGED <<vmVars, cpuVars>>

-----------------------------------------------------------------------------
\* boot_ios: reset the CPU and load the image, which may fail.
Boot(loaded) ==
  /\ From("boot", IF loaded THEN "mark_running" ELSE "idle")
  /\ zero' = [zero EXCEPT ![group] = FALSE]
  /\ UNCHANGED <<vmVars, state, prev_state, seq_state, running, cpu, timer>>

\* A VM that only generates a ghost image is marked for shutdown instead.
MarkRunning == \/ SetStatus("mark_running", "cpu_start", "running")
               \/ SetStatus("mark_running", "idle", "shutdown")

CpuStart == SetState("cpu_start", "idle", "running")

\* vm_slot_init of the inserted card.  If it fails, the VM stays suspended.
SlotInit ==
  /\ From("slot_init", "resume") \/ From("slot_init", "idle")
  /\ UNCHANGED <<vmVars, cpuVars>>

\* vm_slot_shutdown of the removed card.
SlotShutdown ==
  /\ From("slot_shutdown", "resume")
  /\ UNCHANGED <<vmVars, cpuVars>>

-----------------------------------------------------------------------------
\* stop_instance and delete_instance.

StopCpu == SetState("stop_cpu", "mark_shutdown", "halted")

MarkShutdown == SetStatus("mark_shutdown", "reset_seq", "shutdown")

\* Cards, PCMCIA and bridges are taken off the memory map.
FreeHw ==
  /\ From("free_hw", "hw_shutdown")
  /\ UNCHANGED <<vmVars, cpuVars>>

\* vm_hardware_shutdown: only for an active VM; the console is detached, under
\* the lock its thread holds in the menu, before the VM is marked halted.
HwShutdown ==
  \/ /\ status # "halted" /\ group # NoCpu /\ menu = "none"
     /\ From("hw_shutdown", "mark_halted")
     /\ console' = FALSE
     /\ UNCHANGED <<exists, status, group, freed, cpuVars>>
  \/ /\ status = "halted" \/ group = NoCpu
     /\ From("hw_shutdown", "idle")
     /\ exists' = (call # "delete")
     /\ UNCHANGED <<status, group, freed, console, cpuVars>>

MarkHalted == SetStatus("mark_halted", "cpu_delete", "halted")

\* cpu_delete: stop the CPU once more, wait for its thread, free it.
CpuDelete == SetState("cpu_delete", "join", "halted")

Join ==
  /\ From("join", "idle")
  /\ cpu[group] = "done"
  /\ cpu' = [cpu EXCEPT ![group] = "none"]
  /\ group' = NoCpu
  /\ exists' = (call # "delete")
  /\ UNCHANGED <<status, freed, console, state, prev_state,
                 seq_state, running, zero, timer>>

-----------------------------------------------------------------------------
\* The CPU thread (mips64_jit_run_cpu; the other three run loops are alike).

CpuFrom(c, a, b) == cpu[c] = a /\ cpu' = [cpu EXCEPT ![c] = b]

ctlVars == <<vmVars, call, ctl, menuVars>>

\* The thread starts its timer thread, or gives up when it cannot.
CpuBegin(c) ==
  \/ /\ CpuFrom(c, "start", "check")
     /\ timer' = [timer EXCEPT ![c] = "looping"]
     /\ running' = [running EXCEPT ![c] = TRUE]
     /\ UNCHANGED <<ctlVars, state, prev_state, seq_state, zero>>
  \/ /\ CpuFrom(c, "start", "done")
     /\ state' = [state EXCEPT ![c] = "halted"]
     /\ UNCHANGED <<ctlVars, prev_state, seq_state, running, zero, timer>>

CpuCheck(c) ==
  /\ CpuFrom(c, "check", IF state[c] = "running" THEN "exec" ELSE "leave")
  /\ UNCHANGED <<ctlVars, state, prev_state, seq_state, running, zero, timer>>

\* One block of guest code; it may jump to address 0.
CpuExec(c) ==
  /\ CpuFrom(c, "exec", "check")
  /\ \E z \in BOOLEAN : zero' = [zero EXCEPT ![c] = z]
  /\ UNCHANGED <<ctlVars, state, prev_state, seq_state, running, timer>>

\* The guest asks the remote control device to stop the virtual machine.
\* The CPU of a group that was overwritten still shares the VM's devices.
GuestShutdown(c) ==
  /\ exists /\ cpu[c] = "exec"
  /\ status' = "shutdown"
  /\ UNCHANGED <<exists, group, freed, console, cpuVars, call, ctl,
                 menuVars>>

\* A MIPS guest accesses address 0: vm_stop on the CPU thread, in the middle
\* of a block, of the CPU that vm->cpu_group points to.
GuestStop(c) ==
  /\ exists /\ group # NoCpu
  /\ CpuFrom(c, "exec", "stopping")
  /\ state' = [state EXCEPT ![group] = "halted"]
  /\ UNCHANGED <<ctlVars, prev_state, seq_state, running, zero, timer>>

GuestStopped(c) ==
  /\ CpuFrom(c, "stopping", "check")
  /\ status' = IF exists THEN "shutdown" ELSE status
  /\ UNCHANGED <<exists, group, freed, console, call, ctl, menuVars,
                 state, prev_state, seq_state, running, zero, timer>>

\* The block cannot be run for its program counter ...
InvalidPc(c) ==
  /\ CpuFrom(c, "exec", "check")
  /\ state' = [state EXCEPT ![c] = "halted"]
  /\ UNCHANGED <<ctlVars, prev_state, seq_state, running, zero, timer>>

\* ... or it cannot be compiled.
CompileFails(c) ==
  /\ CpuFrom(c, "exec", "leave")
  /\ state' = [state EXCEPT ![c] = "halted"]
  /\ UNCHANGED <<ctlVars, prev_state, seq_state, running, zero, timer>>

CpuLeave(c) ==
  /\ CpuFrom(c, "leave", "seq")
  /\ state' = IF zero[c] THEN [state EXCEPT ![c] = "halted"] ELSE state
  /\ UNCHANGED <<ctlVars, prev_state, seq_state, running, zero, timer>>

CpuSeq(c) ==
  /\ CpuFrom(c, "seq", "switch")
  /\ seq_state' = [seq_state EXCEPT ![c] = TRUE]
  /\ UNCHANGED <<ctlVars, state, prev_state, running, zero, timer>>

CpuSwitch(c) ==
  /\ CpuFrom(c, "switch", CASE state[c] = "running"   -> "set_running"
                            [] state[c] = "halted"    -> "halting"
                            [] state[c] = "suspended" -> "seq")
  /\ UNCHANGED <<ctlVars, state, prev_state, seq_state, running, zero, timer>>

CpuSetRunning(c) ==
  /\ CpuFrom(c, "set_running", "check")
  /\ state' = [state EXCEPT ![c] = "running"]
  /\ UNCHANGED <<ctlVars, prev_state, seq_state, running, zero, timer>>

CpuHalting(c) ==
  /\ CpuFrom(c, "halting", "join")
  /\ running' = [running EXCEPT ![c] = FALSE]
  /\ UNCHANGED <<ctlVars, state, prev_state, seq_state, zero, timer>>

\* Mutant: the CPU thread does not wait for its timer thread.
CpuJoinForgotten(c) ==
  /\ CpuFrom(c, "join", "done")
  /\ UNCHANGED <<ctlVars, state, prev_state, seq_state, running, zero, timer>>

CpuJoin(c) ==
  /\ timer[c] = "done"
  /\ CpuFrom(c, "join", "done")
  /\ UNCHANGED <<ctlVars, state, prev_state, seq_state, running, zero, timer>>

\* mips64_timer_irq_run: ticks until it sees its CPU halted.
TimerEnds(c) ==
  /\ timer[c] = "looping" /\ state[c] = "halted"
  /\ timer' = [timer EXCEPT ![c] = "done"]
  /\ UNCHANGED <<ctlVars, state, prev_state, seq_state, running, zero, cpu>>

\* The console thread handles the command "q".
ConsoleQuit ==
  /\ console /\ menu = "none"
  /\ status' = "shutdown"
  /\ UNCHANGED <<exists, group, freed, console, cpuVars, call, ctl,
                 menuVars>>

\* ... and the commands "s" and "u": vm_suspend and vm_resume, statement by
\* statement as above, while the controller may be anywhere.
MenuEnter(s, b) ==
  /\ console /\ menu = "none" /\ status = s /\ menu' = b
  /\ overlap' = IF ctl = "idle" THEN overlap ELSE "now"
  /\ UNCHANGED <<vmVars, cpuVars, call, ctl>>

MenuFrom(a, b) == menu = a /\ menu' = b /\ UNCHANGED <<overlap, call, ctl>>

MenuSaveState ==
  /\ MenuFrom("save", "set_suspended") /\ ~freed
  /\ prev_state' = [prev_state EXCEPT ![group] = state[group]]
  /\ UNCHANGED <<vmVars, state, seq_state, running, zero, cpu, timer>>

MenuSetState(a, b, s) ==
  /\ MenuFrom(a, b) /\ ~freed
  /\ state' = [state EXCEPT ![group] = s]
  /\ UNCHANGED <<vmVars, prev_state, seq_state, running, zero, cpu, timer>>

MenuSetStatus(a, s) ==
  /\ MenuFrom(a, "none")
  /\ status' = s
  /\ UNCHANGED <<exists, group, freed, console, cpuVars>>

MenuUseFreed ==
  /\ freed /\ menu \in {"save", "set_suspended", "restore"}
  /\ MenuFrom(menu, "none")
  /\ UNCHANGED <<vmVars, cpuVars>>

MenuSuspend ==
  \/ MenuEnter("running", "save")
  \/ MenuSaveState
  \/ MenuSetState("set_suspended", "mark_suspended", "suspended")
  \/ MenuSetStatus("mark_suspended", "suspended")

MenuResume ==
  \/ MenuEnter("suspended", "restore")
  \/ MenuSetState("restore", "mark_resumed", prev_state[group])
  \/ MenuSetStatus("mark_resumed", "running")

Menu == MenuSuspend \/ MenuResume \/ MenuUseFreed

-----------------------------------------------------------------------------
Calls ==
  \/ Create \/ Suspend \/ Resume
  \/ \E c \in Cpu : Start(c) \/ StartFails(c)
  \/ \E c \in {"stop", "delete"} : Stop(c)
  \/ \E c \in {"oir_start", "oir_stop"} : Oir(c)

Ctl ==
  \/ SuspendCheck \/ SaveState \/ SetSuspended \/ MarkSuspended
  \/ ResumeCheck \/ RestoreState \/ MarkResumed
  \/ ResetSeq \/ Poll \/ PollState \/ PollSeq \/ SyncTimeout
  \/ \E loaded \in BOOLEAN : Boot(loaded)
  \/ MarkRunning \/ CpuStart \/ SlotInit \/ SlotShutdown
  \/ StopCpu \/ MarkShutdown \/ FreeHw \/ HwShutdown \/ MarkHalted
  \/ CpuDelete \/ Join \/ CallUsesFreed

CpuThread(c) ==
  \/ CpuBegin(c) \/ CpuCheck(c) \/ CpuExec(c) \/ InvalidPc(c)
  \/ CompileFails(c) \/ GuestStop(c) \/ GuestStopped(c)
  \/ CpuLeave(c) \/ CpuSeq(c) \/ CpuSwitch(c) \/ CpuSetRunning(c)
  \/ CpuHalting(c) \/ CpuJoin(c)

Next ==
  \/ Calls
  \/ Ctl
  \/ \E c \in Cpu : CpuThread(c) \/ GuestShutdown(c) \/ TimerEnds(c)
  \/ ConsoleQuit \/ Menu

Spec == Init /\ [][Next]_vars

\* The scheduler runs every thread, and the ten seconds of a synchronization
\* that keeps failing pass.
Fairness ==
  /\ WF_vars(Ctl) /\ SF_vars(SyncTimeout) /\ SF_vars(HwShutdown)
  /\ WF_vars(menu # "none" /\ Menu)
  /\ \A c \in Cpu : WF_vars(CpuThread(c)) /\ WF_vars(TimerEnds(c))

FairSpec == Spec /\ Fairness

-----------------------------------------------------------------------------
\* Where a call changes what guest code runs on: boot_ios resets the CPU and
\* loads its memory, free_hw_ressources takes devices away, and the card of
\* an OIR start is inserted while the VM is suspended.
Changing == \/ ctl \in {"boot", "free_hw"} /\ group # NoCpu
            \/ ctl = "slot_init" /\ status = "suspended"

Executing(c) == \/ state[c] = "running"
                \/ cpu[c] \in {"exec", "stopping", "set_running"}

\* What the console's vm_suspend and vm_resume spoil when they overlap a call
\* of the controller: all that it does itself and, since they may leave a VM
\* marked suspended with a CPU that is not, an OIR start to come.
Spoiled == \/ overlap = "now"
           \/ overlap = "before" /\ ctl = "slot_init"

\* After cpu_group_sync_state has succeeded the CPU thread is outside its
\* execution loop and will not enter it, whatever it read before: only
\* vm_suspend and vm_resume of the console can let it.
QuiescentChange == Changing /\ ~Spoiled => ~Executing(group)

\* cpu_delete frees the CPU only when neither of its two threads runs: the
\* timer thread also reads the CPU's state.
ThreadsEnded == \A c \in Cpu : cpu[c] = "none" => timer[c] # "looping"

\* Every call returns: polling ends with success or after ten seconds, and
\* the threads that cpu_delete joins end.  If the console resumes the VM behind
\* the synchronization of a stop, the CPU thread may store "running" over the
\* state cpu_delete set, and cpu_delete waits for it as long as the guest runs.
CallsReturn == ctl # "idle" ~> ctl = "idle" \/ overlap = "now"

\* While neither thread is in vm_suspend or vm_resume a VM marked as running
\* runs, whichever of them suspended and resumed it: its CPU executes unless
\* it halts or another call comes.  Only if they overlap may vm_suspend save
\* a state that vm_resume does not bring back to the guest.
Resumed == /\ ctl = "idle" /\ menu = "none" /\ overlap = "never"
           /\ group # NoCpu /\ status = "running"

ResumeRuns ==
  \A c \in Cpu :
    (Resumed /\ group = c)
      ~> (\/ ~Resumed \/ state[c] = "halted"
          \/ cpu[c] \in {"exec", "stopping", "halting", "join", "done"})

\* stable/vm.h on VM_STATUS_HALTED: "VM is halted and no HW resources are
\* used".
HaltedUsesNothing ==
  exists /\ ctl = "idle" /\ status = "halted" => group = NoCpu /\ ~freed

\* The comment in pa_stop_online: "Suspend CPU activity while removing the
\* hardware (since we change the memory maps)."  Nothing the console does is
\* needed for it to fail.
RemovalQuiescent ==
  ctl = "slot_shutdown" /\ status = "suspended" /\ overlap = "never"
    => ~Executing(group)

\* The comment on VM.Suspend: "Suspend pauses a running VM."
SuspendSticks ==
  ctl = "idle" /\ status = "suspended" /\ group # NoCpu
    => state[group] # "running"

=============================================================================
