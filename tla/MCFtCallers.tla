----------------------------- MODULE MCFtCallers -----------------------------
(***************************************************************************)
(* A program that connects and sends, and one that only receives.          *)
(***************************************************************************)
EXTENDS FtCallers

Calls(next) == [f \in Forms \cup {"START"} |->
                  [ok |-> IF f \in DOMAIN next THEN next[f] ELSE {}, err |-> {}]]

MCSender   == Calls([START |-> {"SOCKET"}, SOCKET |-> {"CONNECT"},
                     CONNECT |-> {"SEND"}, SEND |-> {"SEND"}])
MCReceiver == Calls([START |-> {"SOCKET"}, SOCKET |-> {"RECV"}, RECV |-> {"RECV"}])

\* Neither makes a call of the other's but socket(), as the theorems ask.
ASSUME Different == DifferentCalls
=============================================================================
