------------------------------ MODULE FtSystem ------------------------------
(***************************************************************************)
(* The application and the monitor together: two processes that share the  *)
(* two segments and run at their own speed, and the network that reaches   *)
(* the stack between two rounds of the monitor.                            *)
(***************************************************************************)
EXTENDS FtHook, FtMonitor

VARIABLE done
(* History, for the properties: what the stack has executed since the call *)
(* in progress took the channel.                                           *)
(* done[f].times           how often form f was executed, counted up to 2  *)
(* done[f].fd, arg, ret    its last execution                              *)

vars == <<shm, hook, sock, mon, locals, done>>

DoneTypeOK == done \in [Forms -> [times : 0..2, fd : Int, arg : Nat, ret : Int]]

Nothing == [f \in Forms |-> [times |-> 0, fd |-> 0, arg |-> 0, ret |-> 0]]

TypeOK == ShmTypeOK /\ HookTypeOK /\ StackTypeOK /\ MonitorTypeOK /\ DoneTypeOK

Init ==
  /\ ft_init /\ HookInit /\ StackInit /\ MonitorInit
  /\ done = Nothing

Application ==
  /\ HookNext
  /\ done' = IF hook.pc = "claim" THEN Nothing ELSE done
  /\ UNCHANGED <<sock, mon, locals>>

Monitor ==
  /\ MonitorStep
  /\ done' = IF mon.pc = "exec"
             THEN [done EXCEPT ![mon.form] =
                     [times |-> IF @.times = 0 THEN 1 ELSE 2,
                      fd |-> fmt[mon.form].fd, arg |-> fmt[mon.form].arg,
                      ret |-> mon'.ret]]
             ELSE done
  /\ UNCHANGED hook

Packets == MainLoop /\ UNCHANGED <<hook, done>>

Next == Application \/ Monitor \/ Packets

Spec == Init /\ [][Next]_vars

\* Both processes are on a core of their own and never block in the kernel;
\* packets come when they come.
FairSpec == Spec /\ WF_vars(Application) /\ WF_vars(Monitor)

-----------------------------------------------------------------------------
\* The result an interposed call returns is that of the one execution of this
\* very call: the monitor ran it exactly once since the call took the channel,
\* with the caller's descriptor and arguments, and no earlier call's result is
\* taken for it.  (ft_hook_*: ArgsFirst only; the hooks that raise the slot's
\* flag first let the monitor run with the previous call's fields.)
OwnResult ==
  hook.pc = "back" /\ hook.form \in ArgsFirst =>
    done[hook.form] = [times |-> 1, fd |-> hook.fd, arg |-> hook.arg, ret |-> hook.ret]

\* A published request that has not been executed keeps the channel: the
\* monitor never clears ds_form.flag over it, so it can still be found.  (With
\* a descriptor that is not above 0 the monitor drops the request: Guard.)
NoLostRequest ==
  (hook.pc = "await" /\ hook.form \in ArgsFirst /\ hook.fd > 0
     /\ done[hook.form].times = 0) => ds_form.flag = 1

\* A reply slot's flag is up only while the call it answers is there to take
\* it, so no reply is left behind for a later call of the same form.  (SOCKET
\* is excluded: its case raises the flag a second time, main.c:551.)
NoSpuriousReply ==
  \A f \in Forms \ {"SOCKET", "ACCEPT"} :
     fmtr[f].flag = 1 => hook.form = f /\ hook.pc \in {"fd", "arg", "await", "clear"}

\* connect() reports success whatever became of the connection: the monitor
\* overwrites the result by 0, and although it raises the reply's flag before
\* it stores that result the caller cannot read anything else.
ConnectSucceeds == hook.pc = "back" /\ hook.form = "CONNECT" => hook.ret = 0

\* The accept loop recognises the listener by the last socket() reply: it is
\* entered only for a descriptor that is listening.
AcceptsOnListener ==
  mon.mode = "accept" =>
    \E fd \in Fds : fd = fmtr["SOCKET"].ret /\ sock[fd].kind = "listen"

\* Once the monitor has executed the call that is waiting, that call returns.
Answered ==
  (hook.pc = "await" /\ done[hook.form].times > 0) ~> (hook.pc = "back")

\* A socket() that is made returns (unless its program ends first): every
\* program of app/ begins with one and cannot go on without it.
SocketReturns ==
  (hook.form = "SOCKET" /\ hook.pc = "spin") ~> (hook.pc \in {"back", "idle"})

-----------------------------------------------------------------------------
(***************************************************************************)
(* The calls of ArgsFirst implement FtRpc.                                 *)
(***************************************************************************)
\* The call in progress, once it has taken the channel: what has been executed
\* is read off the history, so an execution with other arguments, a second
\* execution or a result taken from elsewhere would show.
rpcCall ==
  LET f == hook.form
      d == done[f] IN
  IF f \notin ArgsFirst \/ hook.pc \in {"idle", "spin", "claim"}
  THEN [st |-> "none"]
  ELSE IF hook.pc = "back"
  THEN [st |-> "back", form |-> f, fd |-> d.fd, arg |-> d.arg, ret |-> hook.ret]
  ELSE IF d.times = 0
  THEN [st |-> "asked", form |-> f, fd |-> hook.fd, arg |-> hook.arg]
  ELSE [st |-> "done", form |-> f, fd |-> d.fd, arg |-> d.arg, ret |-> d.ret]

Rpc == INSTANCE FtRpc WITH call <- rpcCall

\* read, write, send, recv, sendto, recvfrom, select and the option calls take
\* effect exactly once between call and return, with the caller's arguments,
\* and return what the stack answered: the round trip through the segments
\* (ft_hook.c, main.c) is a direct call of the stack.
DirectCall == Rpc!Spec

-----------------------------------------------------------------------------
(***************************************************************************)
(* What the programs of app/ and the README expect of the calls, and the   *)
(* code does not give.                                                     *)
(***************************************************************************)
Awaits(f) == hook.form = f /\ hook.pc = "await"
Returns(f) == hook.form = f /\ hook.pc = "back"

\* tcp_client.c sends line after line: a send() that reached the monitor returns.
SendReturns == Awaits("SEND") ~> Returns("SEND")

\* udp_server.c answers one datagram after the other: recvfrom() returns when a
\* datagram is waiting in the socket it reads.
DatagramReturned ==
  (/\ Awaits("RECVFROM") /\ mon.pc = "stack"
   /\ \E fd \in Fds : fd = hook.fd /\ sock[fd].rx > 0) ~> Returns("RECVFROM")

\* tcp_server.c ends a client when recv() gives 0 or -1: recv() on a connection
\* whose peer has closed, and which is drained, returns.
EndReported ==
  (/\ Awaits("RECV") /\ mon.mode = "tcp" /\ mon.pc = "exec"
   /\ \E fd \in Fds : /\ fd = hook.fd /\ sock[fd].rx = 0
                      /\ sock[fd].end = "eof") ~> Returns("RECV")

\* http_server.c closes the connection: after close(fd) fd is closed.
CloseCloses ==
  Returns("CLOSE") => \A fd \in Fds : fd = hook.fd => sock[fd].kind = "closed"

-----------------------------------------------------------------------------
(***************************************************************************)
(* An inductive invariant for every application.                           *)
(***************************************************************************)
\* Only 0 is ever stored as the result of CONNECT.
ConnectInv ==
  /\ fmtr["CONNECT"].ret = 0
  /\ mon.form = "CONNECT" /\ mon.pc \in {"clear", "flag", "ret"} => mon.ret = 0

\* Slot by slot hook and monitor agree about where the call in progress is:
\* filled in, published, executed, answered or taken.  It says nothing of the
\* channel, which the accept loop of service_epoll frees over other requests.
SlotInv ==
  /\ TypeOK /\ ModeInv /\ ConnectInv /\ ConnectSucceeds
  /\ \A f \in ArgsFirst : Handshake(f, hook, done[f])

-----------------------------------------------------------------------------
(***************************************************************************)
(* An inductive invariant, for applications that do not call accept().     *)
(***************************************************************************)
NoAcceptCalls ==
  \A f \in Forms \cup {"START"} : /\ "ACCEPT" \notin Follow[f].ok
                                  /\ "ACCEPT" \notin Follow[f].err

\* The monitor is past the slot's flag and has not raised the reply's flag (for
\* CONNECT: not stored the result) yet, or has not freed the channel yet.
Executing == {"guard", "exec", "clear", "ret", "flag"}
Serving   == Executing \cup {"post", "release"}

\* Nothing but the accept loop, waiting for a request that never comes.
NoAcceptInv ==
  /\ hook.form # "ACCEPT" /\ ds_form.form # "ACCEPT"
  /\ fmt["ACCEPT"].flag = 0
  /\ mon.form = "ACCEPT" <=> mon.mode = "accept"
  /\ mon.mode = "accept" => mon.pc = "wait"

\* The channel is held while a request is being looked at.
HoldInv ==
  /\ mon.pc \in Serving \cup {"switch"} => ds_form.flag = 1
  /\ mon.pc = "wait" /\ mon.mode # "accept" => ds_form.flag = 1

\* The call has taken the channel but not yet raised its slot's flag.
Filling == \/ hook.pc \in {"form", "flag"}
           \/ hook.pc \in {"fd", "arg"} /\ hook.form \in ArgsFirst

\* While the slot is being filled no request is visible, and the monitor can
\* at most have read the channel's flag and a form.
FillingInv ==
  /\ hook.pc = "claim" => ds_form.flag = 0
  /\ Filling => ds_form.flag = 1 /\ done[hook.form].times = 0 /\ mon.pc \notin Serving
  /\ Filling /\ hook.form # "SOCKET" => fmtr[hook.form].flag = 0
  /\ Filling \/ hook.pc = "claim" => \A g \in Forms : fmt[g].flag = 0
  /\ hook.form \in ArgsFirst =>
       /\ hook.pc = "arg" => fmt[hook.form].fd = hook.fd
       /\ hook.pc = "flag" => fmt[hook.form].fd = hook.fd /\ fmt[hook.form].arg = hook.arg

\* A raised request flag belongs to the call in progress; only socket(), which
\* may return on a reply left over from the call before, leaves one behind,
\* and then the channel is not free.
RequestInv ==
  \A g \in Forms : fmt[g].flag = 1 =>
    /\ \/ g = hook.form /\ hook.pc \in {"fd", "arg", "await"}
       \/ g = "SOCKET" /\ (hook.form = "SOCKET" \/ hook.pc \in {"idle", "spin"})
    /\ IF g = "SOCKET" THEN ds_form.flag = 1 ELSE fmtr[g].flag = 0
    /\ mon.pc \in Serving => mon.form = g
    /\ mon.pc \notin {"ret", "flag"}
    /\ g = "SOCKET" => mon.pc \notin {"post", "release"}

\* What the monitor serves is the call in progress, which has no reply yet.
ServingInv ==
  /\ mon.pc = "guard" => mon.form \in Guarded
  /\ mon.pc \in {"guard", "exec", "clear"} => fmt[mon.form].flag = 1
  /\ mon.pc \in Executing /\ mon.form \notin {"SOCKET", "CONNECT"}
       => /\ hook.form = mon.form /\ hook.pc \in {"fd", "arg", "await"}
          /\ fmtr[mon.form].flag = 0
  /\ mon.pc \in {"guard", "exec", "clear", "flag"} /\ mon.form = "CONNECT"
       => /\ hook.form = mon.form /\ hook.pc \in {"fd", "arg", "await"}
          /\ fmtr[mon.form].flag = 0

\* The execution is that of the call in progress.
Mine == LET d == done[hook.form] IN d.times = 1 /\ d.fd = hook.fd /\ d.arg = hook.arg

\* How the result travels: mon.ret, the reply slot, hook.ret.
ResultInv ==
  hook.form \in ArgsFirst =>
    LET f == hook.form IN
    /\ hook.pc = "await" /\ fmt[f].flag = 1 /\ mon.pc # "clear" =>
         /\ done[f].times = 0
         /\ fmt[f].fd = hook.fd /\ fmt[f].arg = hook.arg
         /\ hook.fd > 0 => ds_form.flag = 1 /\ mon.pc \notin {"post", "release"}
    /\ hook.pc = "await" /\ (fmt[f].flag = 0 \/ mon.pc = "clear") =>
         /\ Mine
         /\ mon.pc \in {"clear", "ret"} => mon.ret = done[f].ret
         /\ mon.pc \notin {"clear", "ret"} => fmtr[f].ret = done[f].ret
         /\ mon.pc \notin {"clear", "ret", "flag"} => fmtr[f].flag = 1
    /\ hook.pc = "await" /\ mon.pc \in Executing => mon.form = f
    /\ hook.pc \in {"clear", "ret"} => Mine /\ fmtr[f].ret = done[f].ret
    /\ hook.pc = "back" => Mine /\ hook.ret = done[f].ret
    /\ hook.pc \in {"clear", "ret", "back"} =>
         mon.pc \notin Executing

\* The inductive invariant.
IInv == /\ TypeOK /\ NoAcceptInv /\ HoldInv /\ FillingInv /\ RequestInv
        /\ ServingInv /\ ResultInv /\ ConnectInv /\ NoSpuriousReply /\ ConnectSucceeds

-----------------------------------------------------------------------------
(***************************************************************************)
(* An inductive invariant, for servers such as tcp_server.c.               *)
(***************************************************************************)
\* The calls that a server makes on a connection it has accepted.
OnConnection == {"RECV", "SEND", "READ", "WRITE", "CLOSE"}

\* One socket(), the first call; no connect(); nothing is received, sent or closed
\* before an accept() has succeeded.
ServerCalls(follow) ==
  \A f \in Forms \cup {"START"}, o \in {"ok", "err"} :
    /\ "CONNECT" \notin follow[f][o]
    /\ "SOCKET" \in follow[f][o] => f = "START"
    /\ OnConnection \cap follow[f][o] # {} =>
         f \in OnConnection \/ (f = "ACCEPT" /\ o = "ok")

ServerProgram == ServerCalls(Follow) /\ DGRAM \notin SockTypes

\* What the monitor takes for the listener, 0 before the reply to socket().
Listener == fmtr["SOCKET"].ret

\* Before that reply nothing but socket() can have been executed.
BeforeSocket ==
  /\ hook.prev[1] = "START" /\ hook.pc \notin {"clear", "ret", "back"} /\ hook.conn = 0
  /\ \A g \in Forms : fmtr[g].flag = 0 /\ (g # "SOCKET" => fmt[g].flag = 0)
  /\ fmt["SOCKET"].arg # DGRAM /\ fmt["CLOSE"].fd = 0 /\ fmtr["ACCEPT"].ret = 0
  /\ mon.mode # "accept" /\ mon.evs = {}
  /\ mon.pc \in Serving \cup {"again"} =>
       mon.form = "SOCKET" /\ mon.pc \in {"exec", "clear", "ret"}
  /\ mon.pc \in {"exec", "clear"} => fmt["SOCKET"].flag = 1
  /\ mon.pc = "ret" => fmt["SOCKET"].flag = 0
  /\ fmt["SOCKET"].flag = 1 \/ mon.pc = "ret" => hook.pc \in {"arg", "await"}
  /\ mon.pc \in {"clear", "ret"} => mon.ret \in Fds \cup {-1}
  /\ \A fd \in Fds :
       sock[fd] = Fresh(IF mon.pc \in {"clear", "ret"} /\ fd = mon.ret THEN "new" ELSE "closed")

\* After it socket() is not executed again.
AfterSocket ==
  /\ Listener \in Fds \cup {-1} /\ fmt["SOCKET"].flag = 0
  /\ mon.form = "SOCKET" => mon.pc \notin {"guard", "exec", "clear", "ret"}
  /\ hook.prev[1] = "START" => hook.pc \in {"arg", "await", "clear", "ret", "back"}

SocketInv ==
  /\ hook.prev[1] = "START" => hook.prev[2] = "ok" /\ hook.form = "SOCKET"
  /\ hook.form = "SOCKET" /\ hook.pc # "idle" => hook.prev[1] = "START" /\ hook.arg # DGRAM
  /\ IF Listener = 0 THEN BeforeSocket ELSE AfterSocket

\* A socket nobody has connected, closed or sent a message to.
Standing(s) == /\ s.kind \in {"new", "listen"} /\ s.end = "none"
               /\ s.kind = "new" => s.rx = 0

\* The listener stays, and only a listener has events.
ListenerInv ==
  /\ Listener \in Fds => Standing(sock[Listener])
  /\ \A e \in mon.evs : e.fd = Listener => sock[Listener].kind = "listen"
  /\ hook.form # "CONNECT" /\ fmt["CONNECT"].flag = 0
  /\ mon.form = "CONNECT" => mon.pc \notin {"guard", "exec"}

\* A connection is never the listener, and the program closes connections only.
ConnectionInv ==
  LET Other(fd) == fd <= 0 \/ fd # Listener
      Returned(fd) == fd # 0 /\ Other(fd)
      Accepting(P) == mon.form = "ACCEPT" /\ mon.pc \in P
      At(f, P) == hook.form = f /\ hook.pc \in P IN
  /\ Other(hook.conn) /\ Other(fmt["CLOSE"].fd) /\ Other(fmtr["ACCEPT"].ret)
  /\ Accepting({"clear", "ret"}) => Returned(mon.ret)
  /\ Accepting({"flag"}) \/ fmtr["ACCEPT"].flag = 1 \/ At("ACCEPT", {"clear", "ret"}) =>
       fmtr["ACCEPT"].ret # 0
  /\ At("ACCEPT", {"back"}) => Returned(hook.ret)
  /\ hook.prev[1] \in OnConnection => hook.conn # 0
  /\ hook.prev[1] = "ACCEPT" /\ hook.prev[2] = "ok" => hook.conn # 0
  /\ hook.form \in OnConnection /\ hook.pc # "idle" => hook.conn # 0
  /\ hook.form = "CLOSE" /\ hook.pc # "idle" => Other(hook.fd)

\* The inductive invariant of a server.
ServerInv == TypeOK /\ ModeInv /\ SocketInv /\ ListenerInv /\ ConnectionInv /\ AcceptsOnListener
=============================================================================
