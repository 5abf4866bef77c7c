------------------------------ MODULE FtStack ------------------------------
(***************************************************************************)
(* The user-space TCP/IP stack as the monitor uses it: the ff_* calls of   *)
(* ff_api.h and the readiness that ff_epoll_wait reports.  The stack is    *)
(* not a thread: packets are taken from the network card by main_loop      *)
(* between two calls of the monitor's loop(), and every ff_* call returns  *)
(* at once (a call that would have to sleep fails, since _sleep of         *)
(* ff_kern_synch.c returns EPERM).  A call is described by the set of its  *)
(* possible outcomes, a result and the socket table after it.              *)
(***************************************************************************)
EXTENDS FtShm

CONSTANT MaxRx   \* messages or connections queued on one socket

ASSUME MaxRxAssumption == MaxRx \in Nat \ {0}

VARIABLE sock
(* sock[fd].kind  what the descriptor is                                   *)
(* sock[fd].rx    messages waiting to be read, connections to be accepted  *)
(* sock[fd].end   "eof" once the peer has closed, "err" while its reset    *)
(*                has not been reported                                    *)
(* sock[fd].ep    how it is registered with the monitor's epoll instance   *)
(* sock[fd].edge  something happened since ff_epoll_wait last reported it  *)

Kinds == {"closed", "new", "dgram", "listen", "conn"}

Socket == [kind : Kinds, rx : 0..MaxRx, end : {"none", "eof", "err"},
           ep : {"no", "level", "edge"}, edge : BOOLEAN]

StackTypeOK == sock \in [Fds -> Socket]

Fresh(k) == [kind |-> k, rx |-> 0, end |-> "none", ep |-> "no", edge |-> FALSE]

StackInit == sock = [fd \in Fds |-> Fresh("closed")]

IsOpen(fd) == fd \in Fds /\ sock[fd].kind # "closed"

Result(r, s) == [ret |-> r, sock |-> s]

Fails == {Result(-1, sock)}

\* The descriptor table hands out the lowest free descriptor.
NewFd(k) == {Result(fd, [sock EXCEPT ![fd] = Fresh(k)]) :
               fd \in {x \in Fds : /\ ~IsOpen(x)
                                   /\ \A y \in Fds : y < x => IsOpen(y)}}

-----------------------------------------------------------------------------
\* A socket type the stack does not know is refused, as is any socket when the
\* stack is out of memory or descriptors.
ff_socket(type) ==
  Fails \cup (CASE type = STREAM -> NewFd("new")
                [] type = DGRAM  -> NewFd("dgram")
                [] OTHER         -> {})

ff_close(fd) == IF IsOpen(fd)
                THEN {Result(0, [sock EXCEPT ![fd] = Fresh("closed")])}
                ELSE Fails

\* bind, setsockopt and getsockopt succeed on an open descriptor or are refused.
ff_option(fd) == Fails \cup (IF IsOpen(fd) THEN {Result(0, sock)} ELSE {})

ff_listen(fd) ==
  Fails \cup (IF IsOpen(fd) /\ sock[fd].kind = "new"
              THEN {Result(0, [sock EXCEPT ![fd].kind = "listen"])} ELSE {})

\* The monitor makes the socket non-blocking first, so the connection is only
\* begun here; it ignores the result.
ff_connect(fd) ==
  IF IsOpen(fd) /\ sock[fd].kind = "new"
  THEN {Result(-1, [sock EXCEPT ![fd].kind = "conn"])} ELSE Fails

\* A socket's error is returned once; after it the socket is at its end.
ReturnError(fd) == {Result(-1, [sock EXCEPT ![fd].end = "eof"])}

\* Sending fails when there is no room, no connection or an error.
ff_send(fd) ==
  IF ~IsOpen(fd) THEN Fails
  ELSE IF sock[fd].end = "err" THEN ReturnError(fd)
  ELSE Fails \cup {Result(1, sock)}

\* What has been received can be read before the end or the error is reported.
ff_recv(fd) ==
  IF ~IsOpen(fd) \/ sock[fd].kind = "listen" THEN Fails
  ELSE IF sock[fd].rx > 0 THEN {Result(1, [sock EXCEPT ![fd].rx = @ - 1])}
  ELSE CASE sock[fd].end = "eof"  -> {Result(0, sock)}
         [] sock[fd].end = "err"  -> ReturnError(fd)
         [] sock[fd].end = "none" -> Fails

ff_accept(fd) ==
  IF IsOpen(fd) /\ sock[fd].kind = "listen" /\ sock[fd].rx > 0
  THEN {Result(r.ret, [r.sock EXCEPT ![fd].rx = @ - 1]) : r \in NewFd("conn")}
         \cup (IF \A x \in Fds : IsOpen(x) THEN Fails ELSE {})
  ELSE Fails

\* The sets it is given are not the caller's: any count can come back.
ff_select == {Result(r, sock) : r \in {-1, 0, 1}}

Outcomes(f, fd, arg) ==
  CASE f = "SOCKET"  -> ff_socket(arg)
    [] f = "CLOSE"   -> ff_close(fd)
    [] f = "CONNECT" -> ff_connect(fd)
    [] f = "LISTEN"  -> ff_listen(fd)
    [] f = "ACCEPT"  -> ff_accept(fd)
    [] f = "SELECT"  -> ff_select
    [] f \in {"BIND", "SETSOCKOPT", "GETSOCKOPT"} -> ff_option(fd)
    [] f \in {"SEND", "SENDTO", "WRITE"}          -> ff_send(fd)
    [] f \in {"RECV", "RECVFROM", "READ"}         -> ff_recv(fd)

-----------------------------------------------------------------------------
\* The socket table after ff_epoll_ctl(epfd, EPOLL_CTL_ADD, fd, mode); it is
\* unchanged, and the call fails, when fd is not open.  Registering reports
\* what is already pending.
Watch(fd, mode) ==
  IF IsOpen(fd) THEN [sock EXCEPT ![fd].ep = mode, ![fd].edge = TRUE] ELSE sock

Readable(fd) == sock[fd].rx > 0 \/ sock[fd].end # "none"

\* The descriptors ff_epoll_wait reports, and the table after it: EPOLLET is
\* EV_CLEAR, so an edge is reported once.
Reported == {fd \in Fds : /\ sock[fd].ep # "no"
                          /\ Readable(fd)
                          /\ sock[fd].ep = "edge" => sock[fd].edge}

AfterWait == [fd \in Fds |-> IF fd \in Reported
                             THEN [sock[fd] EXCEPT !.edge = FALSE]
                             ELSE sock[fd]]

\* Packets main_loop delivers to the stack: a message or a connection request,
\* the peer's FIN, the peer's RST.
Receive(fd) ==
  /\ \/ sock[fd].kind \in {"dgram", "listen"}
     \/ sock[fd].kind = "conn" /\ sock[fd].end = "none"
  /\ sock[fd].rx < MaxRx
  /\ sock' = [sock EXCEPT ![fd].rx = @ + 1, ![fd].edge = TRUE]

PeerCloses(fd) ==
  /\ sock[fd].kind = "conn" /\ sock[fd].end = "none"
  /\ sock' = [sock EXCEPT ![fd].end = "eof", ![fd].edge = TRUE]

PeerResets(fd) ==
  /\ sock[fd].kind = "conn" /\ sock[fd].end # "err"
  /\ sock' = [sock EXCEPT ![fd].end = "err", ![fd].edge = TRUE]

Network == \E fd \in Fds : Receive(fd) \/ PeerCloses(fd) \/ PeerResets(fd)
=============================================================================
