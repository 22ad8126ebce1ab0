--------------------------------- MODULE HvCommands ---------------------------------
(***************************************************************************)
(* A command of the hypervisor (common/hv_*.c, stable/hv_vm.c) is a short  *)
(* program over the object registry: it looks its objects up by the names  *)
(* of its arguments, works on them, gives them up and replies.  A handler  *)
(* is written here as the sequence of those steps; Hypervisor interprets   *)
(* it, one step at a time, so that the commands of several clients are     *)
(* interleaved.  Arguments are numbered from 1 (argv[0]); the object found *)
(* for argument n is pointer n.  A step that can fail carries the program  *)
(* of its error branch.  What a command does inside an object is the       *)
(* business of the module of that object and no step here.                 *)
(***************************************************************************)
EXTENDS Sequences

(* hypervisor_send_reply: the last line of an answer. *)
Ok == [op |-> "reply"]
Err == [op |-> "reply"]

(* hypervisor_find_object: replies when there is no such object. *)
FindOr(t, n, other) == [op |-> "find", type |-> t, arg |-> n, other |-> other]
Find(t, n) == FindOr(t, n, <<Err>>)

(* hypervisor_find_vm: also when the VM is not of the platform p. *)
FindVm(p, n) == [op |-> "find_vm", type |-> "vm", platform |-> p, arg |-> n,
                 other |-> <<Err>>]

(* registry_exists on a new name: other is what a name that is taken leads to. *)
Exists(t, n, other) == [op |-> "exists", type |-> t, arg |-> n, other |-> other]

(* The creation of an object: registry_add with one reference. *)
Make(t, n) == [op |-> "make", type |-> t, arg |-> n]

(* Something the handler does fails. *)
Attempt(other) == [op |-> "attempt", other |-> other]

(* Object 1 acquires NIOs, those named by the arguments in nios; it gives   *)
(* them up; it gives up all it has.                                        *)
Bind(nios, other) == [op |-> "bind", nios |-> nios, other |-> other]
Unbind(nios, other) == [op |-> "unbind", nios |-> nios, other |-> other]
UnbindAll == [op |-> "unbind_all"]

(* atm_bridge_configure: binds both NIOs of a bridge without any.  When one *)
(* of them does not exist the reference of the other is not given up.       *)
Configure(nios, other) == [op |-> "configure", nios |-> nios, other |-> other]

(* registry_unref of the name in argument m, to give up pointer n. *)
Unref(t, n, m) == [op |-> "unref", type |-> t, arg |-> n, name |-> m]

(* registry_unref of the object's own name. *)
UnrefOwn(n) == [op |-> "unref_own", arg |-> n]

(* registry_rename of object 1 to the name in argument 2. *)
Rename(t, other) == [op |-> "rename", type |-> t, other |-> other]

(* registry_delete_if_unused: in use when the object is referenced or its   *)
(* destructor refuses, absent when there is none.                           *)
Delete(t, inUse, absent) ==
  [op |-> "delete", type |-> t, inUse |-> inUse, absent |-> absent]

(* registry_delete_type. *)
DeleteType(t) == [op |-> "delete_type", type |-> t]

(* registry_foreach_type with a callback that replies. *)
Walk(t) == [op |-> "walk", type |-> t]

(* The end of a path that does not give pointer 1 up, and of one that does  *)
(* not reply.                                                               *)
Forget == [op |-> "forget"]
Silence == [op |-> "silence"]

(* conn->active = FALSE and hypervisor_running = FALSE. *)
Deactivate == [op |-> "deactivate"]
Halt == [op |-> "halt"]

-----------------------------------------------------------------------------
(***************************************************************************)
(* The commands on NIOs, bridges, switches and stored objects, and those   *)
(* of the hypervisor itself: one definition per handler, in the order of   *)
(* its file, and for every file the set its command array registers.       *)
(* Handlers of different files share their shape.                          *)
(***************************************************************************)

(* Shapes.  t is the type of the object the first argument names. *)
Release(t) == <<Unref(t, 1, 1)>>
Refused(t) == Release(t) \o <<Err>>
Creation(t) == <<Make(t, 1)>> \o Release(t) \o <<Ok>>
Deletion(t) == <<Delete(t, <<Err>>, <<Err>>), Ok>>
Renaming(t) ==
  <<Find(t, 1), Exists(t, 2, Refused(t)), Attempt(Refused(t)),
    Rename(t, Refused(t)), Unref(t, 1, 2), Ok>>
Change(t) == <<Find(t, 1)>> \o Release(t) \o <<Ok>>
Trial(t) == <<Find(t, 1), Attempt(Refused(t))>> \o Release(t) \o <<Ok>>
Binding(t, nios) == <<Find(t, 1), Bind(nios, Refused(t))>> \o Release(t) \o <<Ok>>
Unbinding(t, nios) == <<Find(t, 1), Unbind(nios, Refused(t))>> \o Release(t) \o <<Ok>>
Listing(t) == <<Walk(t), Ok>>
-----------------------------------------------------------------------------
(* hypervisor.c *)
version == <<Ok>>
parser_test == <<Ok>>
module_list == <<Ok>>
cmd_list == <<Ok>>
cmd_list_unknown == <<Err>>
working_dir == <<Ok>>
working_dir_absent == <<Err>>
save_config ==
  <<Walk("nio"), Walk("frsw"), Walk("atmsw"), Walk("nio_bridge"), Walk("vm"), Ok>>
save_config_unopened == <<Err>>
dynamips_reset ==
  <<DeleteType("vm"), DeleteType("nio_bridge"), DeleteType("atmsw"),
    DeleteType("atm_bridge"), DeleteType("frsw"), DeleteType("ethsw"),
    DeleteType("nio")>>
reset == dynamips_reset \o <<Ok>>
close == <<Ok, Deactivate>>
stop == <<Ok, Halt>>
hypervisor_commands ==
  {version, parser_test, module_list, cmd_list, cmd_list_unknown, working_dir,
   working_dir_absent, save_config, save_config_unopened, reset, close, stop}

(* A line the parser, the lookup of module and command or the check of the  *)
(* number of parameters refuses.                                            *)
refused_line == <<Err>>
-----------------------------------------------------------------------------
(* hv_nio.c *)
nio_create_udp == Creation("nio")
nio_create_udp_auto == <<Make("nio", 1)>> \o Release("nio") \o <<Ok>>
nio_connect_udp_auto ==
  <<Find("nio", 1), Attempt(Refused("nio"))>> \o Release("nio") \o <<Ok>>
nio_create_unix == Creation("nio")
nio_create_vde == Creation("nio")
nio_create_tap == Creation("nio")
nio_create_gen_eth == Creation("nio")
nio_create_linux_eth == Creation("nio")
nio_create_null == Creation("nio")
nio_create_fifo == Creation("nio")
nio_crossconnect_fifo ==
  <<Find("nio", 1), FindOr("nio", 2, <<Err>> \o Release("nio")),
    Unref("nio", 1, 1), Unref("nio", 2, 2), Ok>>
nio_rename == Renaming("nio")
nio_delete == Deletion("nio")
nio_set_debug == Change("nio")
nio_bind_filter == Trial("nio")
nio_unbind_filter == Trial("nio")
nio_setup_filter == Trial("nio")
nio_get_stats == Change("nio")
nio_reset_stats == Change("nio")
nio_set_bandwidth == Change("nio")
nio_list == Listing("nio")
nio_commands ==
  {nio_create_udp, nio_create_udp_auto, nio_connect_udp_auto, nio_create_unix,
   nio_create_vde, nio_create_tap, nio_create_gen_eth, nio_create_linux_eth,
   nio_create_null, nio_create_fifo, nio_crossconnect_fifo, nio_rename,
   nio_delete, nio_set_debug, nio_bind_filter, nio_unbind_filter,
   nio_setup_filter, nio_get_stats, nio_reset_stats, nio_set_bandwidth, nio_list}

(* hv_nio_bridge.c *)
nio_bridge_create == Creation("nio_bridge")
nio_bridge_rename == Renaming("nio_bridge")
nio_bridge_delete == Deletion("nio_bridge")
nio_bridge_add_nio == Binding("nio_bridge", {2})
nio_bridge_remove_nio == Unbinding("nio_bridge", {2})
nio_bridge_list == Listing("nio_bridge")
nio_bridge_commands ==
  {nio_bridge_create, nio_bridge_rename, nio_bridge_delete, nio_bridge_add_nio,
   nio_bridge_remove_nio, nio_bridge_list}

(* hv_frsw.c *)
frsw_create == Creation("frsw")
frsw_rename == Renaming("frsw")
frsw_delete == Deletion("frsw")
frsw_create_vc == Binding("frsw", {2, 3})
frsw_delete_vc == Unbinding("frsw", {2, 3})
frsw_list == Listing("frsw")
frsw_commands ==
  {frsw_create, frsw_rename, frsw_delete, frsw_create_vc, frsw_delete_vc, frsw_list}

(* hv_atmsw.c *)
atmsw_create == Creation("atmsw")
atmsw_rename == Renaming("atmsw")
atmsw_delete == Deletion("atmsw")
atmsw_create_vpc == Binding("atmsw", {2, 3})
atmsw_delete_vpc == Unbinding("atmsw", {2, 3})
atmsw_create_vcc == Binding("atmsw", {2, 3})
atmsw_delete_vcc == Unbinding("atmsw", {2, 3})
atmsw_list == Listing("atmsw")
atmsw_commands ==
  {atmsw_create, atmsw_rename, atmsw_delete, atmsw_create_vpc, atmsw_delete_vpc,
   atmsw_create_vcc, atmsw_delete_vcc, atmsw_list}

(* hv_atm_bridge.c: unconfigure never fails. *)
atm_bridge_create == Creation("atm_bridge")
atm_bridge_rename == Renaming("atm_bridge")
atm_bridge_delete == Deletion("atm_bridge")
atm_bridge_configure ==
  <<Find("atm_bridge", 1), Configure({2, 3}, Refused("atm_bridge"))>>
    \o Release("atm_bridge") \o <<Ok>>
atm_bridge_unconfigure ==
  <<Find("atm_bridge", 1), UnbindAll>> \o Release("atm_bridge") \o <<Ok>>
atm_bridge_list == Listing("atm_bridge")
atm_bridge_commands ==
  {atm_bridge_create, atm_bridge_rename, atm_bridge_delete, atm_bridge_configure,
   atm_bridge_unconfigure, atm_bridge_list}

\* Mutant: the error branch does not give the switch up.
EthswAddNioKeepsSwitch ==
  <<Find("ethsw", 1), Bind({2}, <<Err>>)>> \o Release("ethsw") \o <<Ok>>

\* Mutant: the reply of the error branch does not return.
EthswRemoveNioFallsThrough ==
  <<Find("ethsw", 1), Unbind({2}, <<Err>> \o Release("ethsw") \o <<Ok>>)>>
    \o Release("ethsw") \o <<Ok>>

(* hv_ethsw.c *)
ethsw_create == Creation("ethsw")
ethsw_rename == Renaming("ethsw")
ethsw_delete == Deletion("ethsw")
ethsw_add_nio == Binding("ethsw", {2})
ethsw_remove_nio == Unbinding("ethsw", {2})
ethsw_set_access_port == Trial("ethsw")
ethsw_set_dot1q_port == Trial("ethsw")
ethsw_set_qinq_port == Trial("ethsw")
ethsw_clear_mac_addr_table == Change("ethsw")
ethsw_show_mac_addr_table == Change("ethsw")
ethsw_list == Listing("ethsw")
ethsw_commands ==
  {ethsw_create, ethsw_rename, ethsw_delete, ethsw_add_nio, ethsw_remove_nio,
   ethsw_set_access_port, ethsw_set_dot1q_port, ethsw_set_qinq_port,
   ethsw_clear_mac_addr_table, ethsw_show_mac_addr_table, ethsw_list}
-----------------------------------------------------------------------------
(* hv_store.c: objects give themselves up by their own name.  A deletion    *)
(* only reports that there is no such object.                               *)
store_refused == <<UnrefOwn(1), Err>>
store_write == <<Make("store", 1), UnrefOwn(1), Ok>>
store_write_undecoded == <<Err>>
store_read == <<Find("store", 1), Attempt(store_refused), UnrefOwn(1), Ok>>
store_rename ==
  <<Find("store", 1), Exists("store", 2, store_refused), Attempt(store_refused),
    Rename("store", store_refused), UnrefOwn(1), Ok>>
store_delete == <<Delete("store", <<Ok>>, <<Err>>), Ok>>
store_delete_all == <<DeleteType("store"), Ok>>
store_list == Listing("store")
store_commands ==
  {store_write, store_write_undecoded, store_read, store_rename, store_delete,
   store_delete_all, store_list}
=============================================================================
