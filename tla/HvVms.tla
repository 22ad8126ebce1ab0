-------------------------------- MODULE HvVms --------------------------------
(***************************************************************************)
(* The commands on VMs: those of every VM (stable/hv_vm.c), of the         *)
(* debugger (common/hv_vm_debug.c) and of the platforms (common/hv_c*.c).  *)
(* A handler gives its VM up by the VM's own name (vm_release).            *)
(***************************************************************************)
EXTENDS HvCommands


VmRefused == <<UnrefOwn(1), Err>>
VmDone == <<UnrefOwn(1), Ok>>
VmChange == <<Find("vm", 1)>> \o VmDone
VmTrial == <<Find("vm", 1), Attempt(VmRefused)>> \o VmDone

(* find_cpu gives the VM up and replies when there is no such CPU. *)
find_cpu == Attempt(VmRefused)
OnCpu == <<Find("vm", 1), find_cpu>> \o VmDone
-----------------------------------------------------------------------------
vm_create == <<Make("vm", 1)>> \o VmDone
(* A VM that vm_rename_instance does not rename (it runs, or its lock file   *)
(* is taken) is not given up.                                               *)
vm_rename ==
  <<Find("vm", 1), Exists("vm", 2, VmRefused), Attempt(<<Err, Forget>>),
    Rename("vm", <<Err, Forget>>)>> \o VmDone
vm_delete == Deletion("vm")
vm_clean_delete == <<Find("vm", 1), UnrefOwn(1)>> \o Deletion("vm")
vm_start == VmTrial
vm_stop == VmTrial
vm_get_status == VmChange
vm_set_debug_level == VmChange
vm_set_ios == VmTrial
vm_set_config == VmTrial
vm_set_ram == VmChange
vm_set_nvram == VmChange
vm_set_ram_mmap == VmChange
vm_set_sparse_mem == VmChange
vm_set_clock_divisor == VmChange
vm_set_blk_direct_jump == VmChange
vm_set_idle_pc == VmChange
vm_set_idle_pc_online == OnCpu
vm_get_idle_pc_prop == OnCpu
vm_show_idle_pc_prop == OnCpu
vm_set_idle_max == OnCpu
vm_set_idle_sleep_time == OnCpu
vm_show_timer_drift == OnCpu
vm_set_exec_area == VmChange
vm_set_ghost_file == VmChange
vm_set_ghost_status == VmChange
vm_set_disk0 == VmChange
vm_set_disk1 == VmChange
vm_set_conf_reg == VmChange
vm_set_con_tcp_port == VmChange
vm_set_aux_tcp_port == VmChange
vm_extract_config == VmTrial
vm_push_config == VmTrial
vm_show_cpu_info == VmChange
(* Without the CPU time there is neither a release nor an answer. *)
vm_show_cpu_usage == <<Find("vm", 1), Attempt(<<Forget, Silence>>), UnrefOwn(1), Ok>>
vm_suspend == VmChange
vm_resume == VmChange
(* Neither releases the VM when the buffer of a decoded message cannot be   *)
(* allocated.                                                               *)
vm_send_con_msg ==
  <<Find("vm", 1), Attempt(<<Err, Forget>>), Attempt(VmRefused)>> \o VmDone
vm_send_aux_msg ==
  <<Find("vm", 1), Attempt(<<Err, Forget>>), Attempt(VmRefused)>> \o VmDone
vm_slot_bindings == VmChange
vm_slot_nio_bindings == VmChange
vm_slot_add_binding == VmTrial
vm_slot_remove_binding == VmTrial
vm_slot_add_nio_binding == <<Find("vm", 1), Bind({2}, VmRefused)>> \o VmDone
vm_slot_remove_nio_binding == <<Find("vm", 1), Unbind({2}, VmRefused)>> \o VmDone
vm_slot_enable_nio == VmTrial
vm_slot_disable_nio == VmTrial
vm_slot_oir_start == VmTrial
vm_slot_oir_stop == VmTrial
vm_list == Listing("vm")
vm_list_con_ports == Listing("vm")
vm_commands ==
  {vm_create, vm_rename, vm_delete, vm_clean_delete, vm_start, vm_stop,
   vm_get_status, vm_set_debug_level, vm_set_ios, vm_set_config, vm_set_ram,
   vm_set_nvram, vm_set_ram_mmap, vm_set_sparse_mem, vm_set_clock_divisor,
   vm_set_blk_direct_jump, vm_set_idle_pc, vm_set_idle_pc_online,
   vm_get_idle_pc_prop, vm_show_idle_pc_prop, vm_set_idle_max,
   vm_set_idle_sleep_time, vm_show_timer_drift, vm_set_exec_area,
   vm_set_ghost_file, vm_set_ghost_status, vm_set_disk0, vm_set_disk1,
   vm_set_conf_reg, vm_set_con_tcp_port, vm_set_aux_tcp_port, vm_extract_config,
   vm_push_config, vm_show_cpu_info, vm_show_cpu_usage, vm_suspend, vm_resume,
   vm_send_con_msg, vm_send_aux_msg, vm_slot_bindings, vm_slot_nio_bindings,
   vm_slot_add_binding, vm_slot_remove_binding, vm_slot_add_nio_binding,
   vm_slot_remove_nio_binding, vm_slot_enable_nio, vm_slot_disable_nio,
   vm_slot_oir_start, vm_slot_oir_stop, vm_list, vm_list_con_ports}
-----------------------------------------------------------------------------
(* hv_vm_debug.c *)
show_cpu_regs == VmChange
show_cpu_mmu == VmChange
set_cpu_reg == OnCpu
add_cpu_breakpoint == OnCpu
remove_cpu_breakpoint == OnCpu
pmem_w32 == VmChange
pmem_r32 == VmChange
pmem_w16 == VmChange
pmem_r16 == VmChange
pmem_cfind == VmTrial
vm_debug_commands ==
  {show_cpu_regs, show_cpu_mmu, set_cpu_reg, add_cpu_breakpoint,
   remove_cpu_breakpoint, pmem_w32, pmem_r32, pmem_w16, pmem_r16, pmem_cfind}
-----------------------------------------------------------------------------
(* The platforms.  get_mac_addr replies before it gives the VM up. *)
PlatformChange(p) == <<FindVm(p, 1)>> \o VmDone
PlatformTrial(p) == <<FindVm(p, 1), Attempt(VmRefused)>> \o VmDone
PlatformRead(p) == <<FindVm(p, 1), Ok, UnrefOwn(1)>>

c7200_set_npe == PlatformTrial("c7200")
c7200_set_midplane == PlatformTrial("c7200")
c7200_set_system_id == PlatformTrial("c7200")
c7200_get_mac_addr == PlatformRead("c7200")
c7200_set_mac_addr == PlatformTrial("c7200")
c7200_set_temp_sensor == PlatformChange("c7200")
c7200_set_power_supply == PlatformChange("c7200")
c7200_show_hardware == PlatformChange("c7200")
c7200_list == Listing("vm")
c7200_commands ==
  {c7200_set_npe, c7200_set_midplane, c7200_set_system_id, c7200_get_mac_addr,
   c7200_set_mac_addr, c7200_set_temp_sensor, c7200_set_power_supply,
   c7200_show_hardware, c7200_list}

c3600_set_chassis == PlatformTrial("c3600")
c3600_set_iomem == PlatformChange("c3600")
c3600_set_system_id == PlatformTrial("c3600")
c3600_get_mac_addr == PlatformRead("c3600")
c3600_set_mac_addr == PlatformTrial("c3600")
c3600_show_hardware == PlatformChange("c3600")
c3600_list == Listing("vm")
c3600_commands ==
  {c3600_set_chassis, c3600_set_iomem, c3600_set_system_id, c3600_get_mac_addr,
   c3600_set_mac_addr, c3600_show_hardware, c3600_list}

c2691_set_iomem == PlatformChange("c2691")
c2691_set_system_id == PlatformTrial("c2691")
c2691_get_mac_addr == PlatformRead("c2691")
c2691_set_mac_addr == PlatformTrial("c2691")
c2691_show_hardware == PlatformChange("c2691")
c2691_list == Listing("vm")
c2691_commands ==
  {c2691_set_iomem, c2691_set_system_id, c2691_get_mac_addr, c2691_set_mac_addr,
   c2691_show_hardware, c2691_list}

c3725_set_iomem == PlatformChange("c3725")
c3725_set_system_id == PlatformTrial("c3725")
c3725_get_mac_addr == PlatformRead("c3725")
c3725_set_mac_addr == PlatformTrial("c3725")
c3725_show_hardware == PlatformChange("c3725")
c3725_list == Listing("vm")
c3725_commands ==
  {c3725_set_iomem, c3725_set_system_id, c3725_get_mac_addr, c3725_set_mac_addr,
   c3725_show_hardware, c3725_list}

c3745_set_iomem == PlatformChange("c3745")
c3745_set_system_id == PlatformTrial("c3745")
c3745_get_mac_addr == PlatformRead("c3745")
c3745_set_mac_addr == PlatformTrial("c3745")
c3745_show_hardware == PlatformChange("c3745")
c3745_list == Listing("vm")
c3745_commands ==
  {c3745_set_iomem, c3745_set_system_id, c3745_get_mac_addr, c3745_set_mac_addr,
   c3745_show_hardware, c3745_list}

c2600_set_chassis == PlatformTrial("c2600")
c2600_set_iomem == PlatformChange("c2600")
c2600_set_system_id == PlatformTrial("c2600")
c2600_get_mac_addr == PlatformRead("c2600")
c2600_set_mac_addr == PlatformTrial("c2600")
c2600_show_hardware == PlatformChange("c2600")
c2600_list == Listing("vm")
c2600_commands ==
  {c2600_set_chassis, c2600_set_iomem, c2600_set_system_id, c2600_get_mac_addr,
   c2600_set_mac_addr, c2600_show_hardware, c2600_list}

c1700_set_chassis == PlatformTrial("c1700")
c1700_set_iomem == PlatformChange("c1700")
c1700_set_system_id == PlatformTrial("c1700")
c1700_get_mac_addr == PlatformRead("c1700")
c1700_set_mac_addr == PlatformTrial("c1700")
c1700_show_hardware == PlatformChange("c1700")
c1700_list == Listing("vm")
c1700_commands ==
  {c1700_set_chassis, c1700_set_iomem, c1700_set_system_id, c1700_get_mac_addr,
   c1700_set_mac_addr, c1700_show_hardware, c1700_list}

-----------------------------------------------------------------------------
(* The modules hypervisor_tcp_server registers, with their commands. *)
Modules ==
  [hypervisor |-> hypervisor_commands, nio |-> nio_commands,
   nio_bridge |-> nio_bridge_commands, frsw |-> frsw_commands,
   atmsw |-> atmsw_commands, atm_bridge |-> atm_bridge_commands,
   ethsw |-> ethsw_commands, vm |-> vm_commands, vm_debug |-> vm_debug_commands,
   store |-> store_commands, c7200 |-> c7200_commands, c3600 |-> c3600_commands,
   c2691 |-> c2691_commands, c3725 |-> c3725_commands, c3745 |-> c3745_commands,
   c2600 |-> c2600_commands, c1700 |-> c1700_commands]
=============================================================================
