-------------------------- MODULE MCDesktopStartup --------------------------
(***************************************************************************)
(* Instances of DesktopStartup: the bounds are in the .cfg files. No       *)
(* symmetry is declared, since EveryStartSettles is a liveness property.   *)
(***************************************************************************)
EXTENDS DesktopStartup
=============================================================================
