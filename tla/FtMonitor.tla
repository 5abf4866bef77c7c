----------------------------- MODULE FtMonitor -----------------------------
(***************************************************************************)
(* The monitor process (monitor/main.c): the single thread that calls      *)
(* loop() between two rounds of packet processing, polls the request       *)
(* segment, executes the requested ff_* call and publishes its result.     *)
(*                                                                         *)
(* The request is dispatched by four switch statements that handle         *)
(* different forms: preparatory_work ("prep"), service ("service"), and    *)
(* inside service_epoll the UDP branch ("udp") and the TCP branch ("tcp"); *)
(* a fifth loop there only accepts ("accept").  A case makes the same      *)
(* steps in all of them: wait for the slot's flag, test the descriptor,    *)
(* execute, lower the slot's flag, store the result, raise the reply's     *)
(* flag, free the channel.  Each store or load of a shared word is a step. *)
(***************************************************************************)
EXTENDS FtStack

VARIABLES
  mon,         \* the monitor's position, see MonitorTypeOK
  running,     \* preparatory_work still has to run
  ep_status,   \* service_epoll has replaced service
  udp_status   \* the last socket created was a datagram socket

locals == <<running, ep_status, udp_status>>

MonitorPC == {"stack", "poll", "switch", "wait", "guard", "exec", "clear", "ret",
              "flag", "post", "release", "again", "tail", "epoll", "events"}

Modes == {"prep", "service", "udp", "tcp", "accept"}

Event == [fd : Fds, err : BOOLEAN]

MonitorTypeOK ==
  /\ mon \in [pc : MonitorPC, mode : Modes, form : Forms, ret : Int,
              evs : SUBSET Event]
  /\ running \in {0, 1} /\ ep_status \in {0, 1} /\ udp_status \in {0, 1}

\* A monitor that has just been started.
MonitorStart == [pc |-> "stack", mode |-> "prep", form |-> "SOCKET", ret |-> 0,
                 evs |-> {}]

MonitorInit ==
  /\ mon = MonitorStart
  /\ running = 1 /\ ep_status = 0 /\ udp_status = 0

-----------------------------------------------------------------------------
\* The cases of the switch statements.
PrepForms    == {"SOCKET", "CONNECT", "BIND", "LISTEN", "CLOSE", "SELECT",
                 "SETSOCKOPT", "GETSOCKOPT"}
ServiceForms == {"ACCEPT", "SEND", "RECV", "SENDTO", "RECVFROM", "WRITE", "READ",
                 "GETSOCKOPT", "SELECT", "CLOSE"}
UdpForms     == {"SENDTO", "RECVFROM", "CLOSE"}
TcpForms     == {"SEND", "RECV", "WRITE", "READ", "GETSOCKOPT", "SELECT", "CLOSE"}

Handled(m) == CASE m = "prep"    -> PrepForms
                [] m = "service" -> ServiceForms
                [] m = "udp"     -> UdpForms
                [] m = "tcp"     -> TcpForms
                [] OTHER         -> {}

\* The cases that test `fd > 0' before they execute.
Guarded == {"ACCEPT", "SEND", "RECV", "CONNECT", "BIND", "LISTEN"}

\* Where a round ends that found nothing to do: preparatory_work goes on to the
\* test after its switch, service returns, the two inner loops poll again.
RoundEnd(m) == CASE m = "prep"    -> "tail"
                 [] m = "service" -> "stack"
                 [] OTHER         -> "poll"

\* Where a case ends: SENDTO and CLOSE leave the UDP loop, SEND leaves the TCP
\* loop, the accept loop goes on to register the new connection.
CaseEnd(m, f) == CASE m = "udp" /\ f # "RECVFROM" -> "events"
                   [] m = "tcp" /\ f = "SEND"     -> "events"
                   [] m = "accept"                -> "post"
                   [] OTHER                       -> RoundEnd(m)

Go(pc) == mon' = [mon EXCEPT !.pc = pc]

\* ep_status decides between service and service_epoll.
Dispatch == IF ep_status = 0
            THEN mon' = [mon EXCEPT !.pc = "poll", !.mode = "service"]
            ELSE Go("epoll")

-----------------------------------------------------------------------------
\* main_loop calls loop(): preparatory_work while running is set.
Loop ==
  /\ mon.pc = "stack"
  /\ IF running = 1 THEN mon' = [mon EXCEPT !.pc = "poll", !.mode = "prep"]
                    ELSE Dispatch
  /\ UNCHANGED <<shm, sock, locals>>

\* if (fmt_action->ds_form.flag == 1)
Poll ==
  /\ mon.pc = "poll"
  /\ Go(IF ds_form.flag = 1 THEN "switch" ELSE RoundEnd(mon.mode))
  /\ UNCHANGED <<shm, sock, locals>>

\* Mutant of Switch: the default case frees the channel.
Switch_Frees ==
  /\ mon.pc = "switch"
  /\ IF ds_form.form \in Handled(mon.mode)
     THEN mon' = [mon EXCEPT !.pc = "wait", !.form = ds_form.form] /\ UNCHANGED ds_form
     ELSE Go(RoundEnd(mon.mode)) /\ ds_form' = [ds_form EXCEPT !.flag = 0]
  /\ UNCHANGED <<fmt, fmtr, sock, locals>>

\* switch (fmt_action->ds_form.form): a second load of ds_form.
Switch ==
  /\ mon.pc = "switch"
  /\ mon' = IF ds_form.form \in Handled(mon.mode)
            THEN [mon EXCEPT !.pc = "wait", !.form = ds_form.form]
            ELSE [mon EXCEPT !.pc = RoundEnd(mon.mode)]
  /\ UNCHANGED <<shm, sock, locals>>

\* while (1) if (fmt_action->ds_X.flag == 1) break;  the accept loop also
\* wants a descriptor before it goes on.
Wait ==
  /\ mon.pc = "wait"
  /\ fmt[mon.form].flag = 1
  /\ mon.mode = "accept" => fmt["ACCEPT"].fd > 0
  /\ Go(IF mon.form \in Guarded /\ mon.mode # "accept" THEN "guard" ELSE "exec")
  /\ UNCHANGED <<shm, sock, locals>>

\* if (fmt_action->ds_X.fd > 0): otherwise the case ends with the channel freed,
\* no reply and `int ret' uninitialised, which CONNECT and LISTEN test later.
Guard ==
  /\ mon.pc = "guard"
  /\ IF fmt[mon.form].fd > 0
     THEN Go("exec")
     ELSE \E garbage \in {-1, 0} :
            mon' = [mon EXCEPT !.pc = IF mon.form = "BIND" THEN "post" ELSE "release",
                               !.ret = garbage]
  /\ UNCHANGED <<shm, sock, locals>>

\* Mutant of Exec: CONNECT passes ff_connect's result on.
Exec_ConnectResult ==
  /\ mon.pc = "exec"
  /\ \E o \in Outcomes(mon.form, fmt[mon.form].fd, fmt[mon.form].arg) :
       /\ mon.mode = "tcp" /\ mon.form = "RECV" => o.ret > 0
       /\ sock' = o.sock
       /\ mon' = [mon EXCEPT
            !.pc  = IF mon.mode # "accept" THEN "clear"
                    ELSE IF o.ret < 0 THEN "events" ELSE "ret",
            !.ret = o.ret]
  /\ UNCHANGED <<shm, locals>>

\* ret = ff_X(fmt_action->ds_X...).  The TCP branch repeats ff_recv until it
\* returns more than 0; CONNECT overwrites the result by 0; the accept loop
\* is left when ff_accept fails.
Exec ==
  /\ mon.pc = "exec"
  /\ \E o \in Outcomes(mon.form, fmt[mon.form].fd, fmt[mon.form].arg) :
       /\ mon.mode = "tcp" /\ mon.form = "RECV" => o.ret > 0
       /\ sock' = o.sock
       /\ mon' = [mon EXCEPT
            !.pc  = IF mon.mode # "accept" THEN "clear"
                    ELSE IF o.ret < 0 THEN "events" ELSE "ret",
            !.ret = IF mon.form = "CONNECT" THEN 0 ELSE o.ret]
  /\ UNCHANGED <<shm, locals>>

\* Mutant of ClearRequest: the request's flag stays up.
ClearRequest_Kept ==
  /\ mon.pc = "clear"
  /\ Go(IF mon.form = "CONNECT" THEN "flag" ELSE "ret")
  /\ UNCHANGED <<shm, sock, locals>>

\* fmt_action->ds_X.flag = 0; the accept loop has no such store.
ClearRequest ==
  /\ mon.pc = "clear"
  /\ fmt' = [fmt EXCEPT ![mon.form].flag = 0]
  /\ Go(IF mon.form = "CONNECT" THEN "flag" ELSE "ret")
  /\ UNCHANGED <<ds_form, fmtr, sock, locals>>

\* Mutant of PutRet: the reply's flag is not raised after it.
PutRet_NoFlag ==
  /\ mon.pc = "ret"
  /\ fmtr' = [fmtr EXCEPT ![mon.form].ret = mon.ret]
  /\ Go("release")
  /\ UNCHANGED <<ds_form, fmt, sock, locals>>

\* fmtr_action->ds_X.ret = ret; CONNECT raises the flag before this store.
PutRet ==
  /\ mon.pc = "ret"
  /\ fmtr' = [fmtr EXCEPT ![mon.form].ret = mon.ret]
  /\ Go(IF mon.form = "CONNECT" THEN "release" ELSE "flag")
  /\ UNCHANGED <<ds_form, fmt, sock, locals>>

\* What follows the reply's flag: the result (CONNECT), or the extra work of a
\* case, or the end of the case.
AfterFlag(f) == CASE f = "CONNECT"                     -> "ret"
                  [] f \in {"SOCKET", "BIND", "LISTEN"} -> "post"
                  [] OTHER                              -> "release"

\* Mutants of PutFlag: flag++, and the flag of another form's slot.
PutFlag_Counts ==
  /\ mon.pc = "flag"
  /\ fmtr' = [fmtr EXCEPT ![mon.form].flag = @ + 1]
  /\ Go(AfterFlag(mon.form))
  /\ UNCHANGED <<ds_form, fmt, sock, locals>>

PutFlag_WrongSlot ==
  /\ mon.pc = "flag"
  /\ fmtr' = [fmtr EXCEPT !["CLOSE"].flag = 1]
  /\ Go(AfterFlag(mon.form))
  /\ UNCHANGED <<ds_form, fmt, sock, locals>>

\* fmtr_action->ds_X.flag = 1;
PutFlag ==
  /\ mon.pc = "flag"
  /\ fmtr' = [fmtr EXCEPT ![mon.form].flag = 1]
  /\ Go(AfterFlag(mon.form))
  /\ UNCHANGED <<ds_form, fmt, sock, locals>>

\* SOCKET: a datagram socket selects the UDP branch of service_epoll.
SocketPost ==
  /\ mon.pc = "post" /\ mon.form = "SOCKET"
  /\ udp_status' = IF fmt["SOCKET"].arg = DGRAM THEN 1 ELSE udp_status
  /\ Go("release")
  /\ UNCHANGED <<shm, sock, running, ep_status>>

\* BIND: a datagram server needs no listen(); its socket is watched from here.
BindPost ==
  /\ mon.pc = "post" /\ mon.form = "BIND"
  /\ IF fmt["SOCKET"].arg = DGRAM
     THEN /\ running' = 0 /\ ep_status' = 1
          /\ sock' = Watch(fmt["BIND"].fd, "edge")
     ELSE UNCHANGED <<running, ep_status, sock>>
  /\ Go("release")
  /\ UNCHANGED <<shm, udp_status>>

\* LISTEN: what is watched is the descriptor of the last socket reply.
ListenPost ==
  /\ mon.pc = "post" /\ mon.form = "LISTEN"
  /\ ep_status' = 1
  /\ sock' = Watch(fmtr["SOCKET"].ret, "edge")
  /\ Go("release")
  /\ UNCHANGED <<shm, running, udp_status>>

\* fmt_action->ds_form.flag = 0; and what the case does to the monitor's own
\* variables after it: CONNECT and LISTEN end preparatory_work, CLOSE brings
\* it back everywhere but in the TCP branch, and service's CLOSE forgets UDP.
Release ==
  /\ mon.pc = "release"
  /\ ds_form' = [ds_form EXCEPT !.flag = 0]
  /\ running' = CASE mon.form \in {"CONNECT", "LISTEN"} /\ mon.ret = 0 -> 0
                  [] mon.form = "CLOSE" /\ mon.mode # "tcp"            -> 1
                  [] OTHER                                             -> running
  /\ udp_status' = IF mon.form = "CLOSE" /\ mon.mode = "service"
                   THEN 0 ELSE udp_status
  /\ Go(IF mon.form = "SOCKET" THEN "again" ELSE CaseEnd(mon.mode, mon.form))
  /\ UNCHANGED <<fmt, fmtr, sock, ep_status>>

\* SOCKET raises its reply's flag once more after it has freed the channel.
SocketAgain ==
  /\ mon.pc = "again"
  /\ fmtr' = [fmtr EXCEPT !["SOCKET"].flag = 1]
  /\ Go("tail")
  /\ UNCHANGED <<ds_form, fmt, sock, locals>>

\* The test after preparatory_work's switch, then its while (running).
Tail ==
  /\ mon.pc = "tail"
  /\ LET r == IF ds_form.flag = 1 /\ udp_status = 1 THEN 0 ELSE running IN
       /\ running' = r
       /\ IF r = 1 THEN Go("poll") ELSE Dispatch
  /\ UNCHANGED <<shm, sock, ep_status, udp_status>>

-----------------------------------------------------------------------------
\* ff_epoll_wait(epfd, events, MAX_EVENTS, 0)
EpollWait ==
  /\ mon.pc = "epoll"
  /\ mon' = [mon EXCEPT !.pc = "events",
               !.evs = {[fd |-> fd, err |-> sock[fd].end = "err"] : fd \in Reported}]
  /\ sock' = AfterWait
  /\ UNCHANGED <<shm, locals>>

\* for (i = 0; i < nevents; ++i), the datagram branch: only the descriptor of
\* the last socket reply is served.
UdpEvent(e) ==
  /\ udp_status = 1
  /\ mon' = IF e.fd = fmtr["SOCKET"].ret
            THEN [mon EXCEPT !.pc = "poll", !.mode = "udp", !.evs = @ \ {e}]
            ELSE [mon EXCEPT !.evs = @ \ {e}]
  /\ UNCHANGED <<shm, sock, locals>>

\* Mutant of TcpEvent: a connection's error closes the listener.
TcpEvent_ClosesListener(e) ==
  /\ udp_status = 0
  /\ IF e.fd = fmtr["SOCKET"].ret
     THEN /\ mon' = [mon EXCEPT !.pc = "wait", !.mode = "accept",
                                !.form = "ACCEPT", !.evs = @ \ {e}]
          /\ UNCHANGED sock
     ELSE IF e.err
     THEN /\ mon' = [mon EXCEPT !.evs = @ \ {e}]
          /\ \E o \in ff_close(fmtr["SOCKET"].ret) : sock' = o.sock
     ELSE /\ mon' = [mon EXCEPT !.pc = "poll", !.mode = "tcp", !.evs = @ \ {e}]
          /\ UNCHANGED sock
  /\ UNCHANGED <<shm, locals>>

\* The stream branch: that descriptor is the listener, the others are
\* connections, which are closed when they are in error.
TcpEvent(e) ==
  /\ udp_status = 0
  /\ IF e.fd = fmtr["SOCKET"].ret
     THEN /\ mon' = [mon EXCEPT !.pc = "wait", !.mode = "accept",
                                !.form = "ACCEPT", !.evs = @ \ {e}]
          /\ UNCHANGED sock
     ELSE IF e.err
     THEN /\ mon' = [mon EXCEPT !.evs = @ \ {e}]
          /\ \E o \in ff_close(e.fd) : sock' = o.sock
     ELSE /\ mon' = [mon EXCEPT !.pc = "poll", !.mode = "tcp", !.evs = @ \ {e}]
          /\ UNCHANGED sock
  /\ UNCHANGED <<shm, locals>>

Events ==
  /\ mon.pc = "events"
  /\ \/ \E e \in mon.evs : UdpEvent(e) \/ TcpEvent(e)
     \/ /\ mon.evs = {}
        /\ Go("stack")
        /\ UNCHANGED <<shm, sock, locals>>

\* The accept loop registers the accepted connection and accepts again.
AcceptPost ==
  /\ mon.pc = "post" /\ mon.mode = "accept"
  /\ sock' = Watch(fmtr["ACCEPT"].ret, "level")
  /\ Go(IF IsOpen(fmtr["ACCEPT"].ret) THEN "wait" ELSE "events")
  /\ UNCHANGED <<shm, locals>>

-----------------------------------------------------------------------------
\* Packets reach the stack only while the monitor is outside loop().
MainLoop ==
  /\ mon.pc = "stack"
  /\ Network
  /\ UNCHANGED <<shm, mon, locals>>

MonitorStep ==
  \/ Loop \/ Poll \/ Switch \/ Wait \/ Guard \/ Exec \/ ClearRequest \/ PutRet
  \/ PutFlag \/ SocketPost \/ BindPost \/ ListenPost \/ Release \/ SocketAgain
  \/ Tail \/ EpollWait \/ Events \/ AcceptPost

-----------------------------------------------------------------------------
(***************************************************************************)
(* What the monitor and the program that makes the calls f agree on.  h is *)
(* that program's state (hook of FtHook) and d the history of f: what the  *)
(* stack has executed since the call in progress took the channel.         *)
(***************************************************************************)
\* The accept loop serves no other form.
ModeInv == mon.mode = "accept" => mon.form = "ACCEPT"

\* The call of h was executed once, and the stack answered ret.
ExecutedOnce(h, ret) == [times |-> 1, fd |-> h.fd, arg |-> h.arg, ret |-> ret]

Handshake(f, h, d) ==
  LET At(P) == h.form = f /\ h.pc \in P
      Serving(P) == mon.form = f /\ mon.pc \in P IN
  \* the slot is being filled
  /\ At({"form", "fd", "arg", "flag"}) => d.times = 0
  /\ At({"arg", "flag"}) => fmt[f].fd = h.fd
  /\ At({"flag"}) => fmt[f].arg = h.arg
  \* the request is visible
  /\ fmt[f].flag = 1 => /\ At({"await"}) /\ fmt[f].fd = h.fd /\ fmt[f].arg = h.arg
                        /\ fmtr[f].flag = 0 /\ ~Serving({"ret", "flag"})
                        /\ ~Serving({"clear"}) => d.times = 0
  /\ Serving({"guard", "exec", "clear"}) => fmt[f].flag = 1
  \* it has been executed
  /\ Serving({"ret", "flag"}) => At({"await"}) /\ fmtr[f].flag = 0
  /\ Serving({"clear", "ret", "flag"}) => d = ExecutedOnce(h, mon.ret)
  /\ Serving({"flag"}) => fmtr[f].ret = mon.ret
  \* it has been answered
  /\ fmtr[f].flag = 1 => At({"await", "clear"})
  /\ fmtr[f].flag = 1 \/ At({"clear", "ret"}) => d = ExecutedOnce(h, fmtr[f].ret)
  /\ At({"back"}) => d = ExecutedOnce(h, h.ret)
=============================================================================
