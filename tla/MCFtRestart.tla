----------------------------- MODULE MCFtRestart -----------------------------
(***************************************************************************)
(* Instances of FtRestart: which program is stopped and started again.     *)
(***************************************************************************)
EXTENDS FtRestart, FtApps

MCTcpClient == tcp_client
MCTcpServer == tcp_server
MCUdpServer == udp_server

\* Any program over the datagram calls, which NoGuardedCalls allows.
MCDatagrams == AnyProgram({"SENDTO", "RECVFROM", "CLOSE"})

\* A program that NoGuardedCalls rules out, the shortest that breaks
\* WholeRequests.
MCBinds == Program([SOCKET |-> Then({"BIND", "SETSOCKOPT"}),
                    BIND   |-> Then({"SETSOCKOPT"})])
=============================================================================
