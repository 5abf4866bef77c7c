----------------------------- MODULE MCFtSystem -----------------------------
(***************************************************************************)
(* Instances of FtSystem: which application runs on top of the calls.      *)
(***************************************************************************)
EXTENDS FtSystem, FtApps

\* Any order of the calls of a stream client, or of a datagram program.
StreamCalls == {"SOCKET", "CONNECT", "CLOSE", "SEND", "RECV", "WRITE", "READ",
                "LISTEN", "SETSOCKOPT", "GETSOCKOPT", "SELECT"}
DgramCalls  == {"SOCKET", "BIND", "SENDTO", "RECVFROM", "CLOSE", "SELECT"}

MCStream == AnyProgram(StreamCalls)
MCDgram  == AnyProgram(DgramCalls)

MCTcpClient  == tcp_client
MCTcpServer  == tcp_server
MCHttpServer == http_server
MCUdpClient  == udp_client
MCUdpServer  == udp_server

\* The two servers of app/ are of the kind that ServerInv is about.
ASSUME Servers == ServerCalls(tcp_server) /\ ServerCalls(http_server)
=============================================================================
