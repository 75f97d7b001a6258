-------------------------- MODULE MCVirtualMachines --------------------------
(* VirtualMachines for TLC.                                                  *)
EXTENDS VirtualMachines, TLC

\* Concurrent tool calls, and disks, are interchangeable.
Symmetry == Permutations(Callers) \cup Permutations(Disks)
==============================================================================
