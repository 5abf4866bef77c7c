---------------------------- MODULE MCVethBatch ----------------------------
(***************************************************************************)
(* VethBatch with a short warm-up and a small buffer.                      *)
(***************************************************************************)
EXTENDS VethBatch

CONSTANTS eth0, eth1
MCIfs == {eth0, eth1}
=============================================================================
