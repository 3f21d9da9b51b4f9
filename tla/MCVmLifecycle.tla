--------------------------- MODULE MCVmLifecycle ---------------------------
(* Two virtual machines on one server: enough for the queue to hold an item *)
(* behind the one the worker processes, and for the checker to wait for one *)
(* VM's monitor while the other needs it.                                   *)
EXTENDS VmLifecycle

CONSTANTS vm1, vm2

MCVM == {vm1, vm2}
=============================================================================
