---------------------------- MODULE MCFfDispatch ----------------------------
(***************************************************************************)
(* Instances of FfDispatch: the frames that arrive or are sent.            *)
(***************************************************************************)
EXTENDS FfDispatch, TLC

CONSTANTS arp, ssh, out

MCFilterOf == arp :> "FILTER_ARP" @@ ssh :> "FILTER_KNI"
              @@ out :> "OUT"
=============================================================================
