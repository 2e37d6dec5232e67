------------------------------ MODULE MCKernel ------------------------------
(***************************************************************************)
(* Instances of Kernel for TLC.                                            *)
(***************************************************************************)
EXTENDS Kernel

\* kernel.c's tasks never return; task_wrapper also serves tasks that do.
NoTasks  == {}
AllTasks == TaskIds
=============================================================================
