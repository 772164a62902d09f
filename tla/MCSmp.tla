-------------------------------- MODULE MCSmp -------------------------------
(***************************************************************************)
(* The boot processor with two application processors, which contend for   *)
(* the locks; smp_hang has one, as "-smp 2" in the Makefile starts the     *)
(* machine.                                                                *)
(***************************************************************************)
EXTENDS SmpBoot
=============================================================================
