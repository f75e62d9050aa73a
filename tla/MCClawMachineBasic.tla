------------------------- MODULE MCClawMachineBasic -------------------------
(* ClawMachineBasic for TLC, over the input files of MCClawMachine.        *)
EXTENDS ClawMachineBasic, MCClawMachine
=============================================================================
