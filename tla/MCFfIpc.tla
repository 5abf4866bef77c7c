------------------------------- MODULE MCFfIpc -------------------------------
(***************************************************************************)
(* The instance of FfIpc: calls of ff_top and ff_sysctl, one at a time.    *)
(***************************************************************************)
EXTENDS FfIpc
=============================================================================
