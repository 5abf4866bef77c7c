------------------------------- MODULE FtApps -------------------------------
(***************************************************************************)
(* Applications that run on top of the interposed calls, as the order in   *)
(* which they make them (the constant Follow of FtHook): the five programs *)
(* of app/, and the most general application over a set of calls.  What    *)
(* matters of a program is which call comes after which, and after which   *)
(* outcome; a program that exits has no further call.                      *)
(***************************************************************************)
EXTENDS FtHook

Then(S) == [ok |-> S, err |-> S]
Exits(S) == [ok |-> S, err |-> {}]

\* A program: its steps, a function on some of the forms; the rest is unused.
Program(steps) == [f \in Forms \cup {"START"} |->
                     IF f \in DOMAIN steps THEN steps[f]
                     ELSE IF f = "START" THEN Exits({"SOCKET"}) ELSE Then({})]

\* app/tcp_client.c
tcp_client == Program([SOCKET  |-> Exits({"CONNECT"}),
                       CONNECT |-> Exits({"SEND", "CLOSE"}),
                       SEND    |-> Then({"RECV"}),
                       RECV    |-> Then({"SEND", "CLOSE"})])

\* app/tcp_server.c
tcp_server == Program([SOCKET |-> Exits({"BIND"}),
                       BIND   |-> Exits({"LISTEN"}),
                       LISTEN |-> Then({"ACCEPT"}),
                       ACCEPT |-> [ok |-> {"RECV"}, err |-> {"ACCEPT"}],
                       RECV   |-> [ok |-> {"SEND"}, err |-> {"CLOSE"}],
                       SEND   |-> Then({"RECV"}),
                       CLOSE  |-> Then({"ACCEPT"})])

\* app/http_server.c.  Its socket() is not checked, and handle() ends without
\* a return statement, so its caller may or may not close the connection again.
http_server == Program([SOCKET     |-> Then({"SETSOCKOPT"}),
                        SETSOCKOPT |-> Then({"BIND"}),
                        BIND       |-> Exits({"LISTEN"}),
                        LISTEN     |-> Exits({"ACCEPT"}),
                        ACCEPT     |-> [ok |-> {"RECV"}, err |-> {"ACCEPT"}],
                        RECV       |-> [ok |-> {"SEND"}, err |-> {"CLOSE"}],
                        SEND       |-> Then({"CLOSE"}),
                        CLOSE      |-> Then({"CLOSE", "ACCEPT"})])

\* app/udp_client.c
udp_client == Program([SOCKET   |-> Exits({"SENDTO"}),
                       SENDTO   |-> Then({"RECVFROM"}),
                       RECVFROM |-> Exits({"CLOSE"})])

\* app/udp_server.c
udp_server == Program([SOCKET   |-> Exits({"BIND"}),
                       BIND     |-> Exits({"RECVFROM"}),
                       RECVFROM |-> Exits({"SENDTO"}),
                       SENDTO   |-> Then({"RECVFROM", "CLOSE"})])

\* Any program over the calls S, checked results or not.  A further socket() is
\* a second socket or the first call of a program started anew: the segments
\* outlive the program.
AnyProgram(S) == [f \in Forms \cup {"START"} |->
                    IF f = "START" THEN Exits({"SOCKET"}) ELSE Then(S)]
=============================================================================
