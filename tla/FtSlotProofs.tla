---------------------------- MODULE FtSlotProofs ----------------------------
(***************************************************************************)
(* What does not depend on how many programs use the channel: the types of *)
(* the segments, the stack and the monitor, and the handshake between the  *)
(* monitor and the one program that makes the calls of a form.             *)
(*                                                                         *)
(* The program's state h and the history d of the form are values here, so *)
(* that FtSystem and FtCallers can use the lemmas for their own variables. *)
(***************************************************************************)
EXTENDS FtMonitor, TLAPS

\* A socket table entry as the stack creates it.
LEMMA FreshType == \A k \in Kinds : Fresh(k) \in Socket
  BY MaxRxAssumption DEF Fresh, Socket

\* The outcomes of the stack's calls: a result and a socket table.
LEMMA OutcomesType ==
  ASSUME StackTypeOK, NEW f \in Forms, NEW fd \in Int, NEW arg \in Nat,
         NEW o \in Outcomes(f, fd, arg)
  PROVE  o.ret \in Int /\ o.sock \in [Fds -> Socket]
  <1> USE FdsAssumption DEF StackTypeOK, Socket, Kinds, Result, Fails
  <1>1. \A k \in Kinds : Fresh(k) \in Socket
    BY FreshType
  <1>2. ASSUME NEW k \in Kinds, NEW r \in NewFd(k)
        PROVE  r.ret \in Fds /\ r.sock \in [Fds -> Socket]
    <2>1. PICK x \in Fds : r = Result(x, [sock EXCEPT ![x] = Fresh(k)])
      BY DEF NewFd
    <2>2. [sock EXCEPT ![x] = Fresh(k)] \in [Fds -> Socket]
      BY <1>1
    <2> QED BY <2>1, <2>2
  <1>3. \A r \in Fails : r.ret \in Int /\ r.sock \in [Fds -> Socket]
    OBVIOUS
  <1>4. CASE f = "SOCKET"
    BY <1>2, <1>3, <1>4 DEF Outcomes, ff_socket
  <1>5. CASE f = "CLOSE"
    BY <1>1, <1>3, <1>5 DEF Outcomes, ff_close, IsOpen
  <1>6. CASE f = "CONNECT"
    BY <1>3, <1>6 DEF Outcomes, ff_connect, IsOpen
  <1>7. CASE f = "LISTEN"
    BY <1>3, <1>7 DEF Outcomes, ff_listen, IsOpen
  <1>8. CASE f = "ACCEPT"
    <2>1. CASE o \in Fails
      BY <1>3, <2>1
    <2>2. CASE o \notin Fails
      <3>1. PICK r \in NewFd("conn") :
              /\ fd \in Fds /\ sock[fd].rx > 0 /\ sock[fd].kind = "listen"
              /\ o = Result(r.ret, [r.sock EXCEPT ![fd].rx = @ - 1])
        BY <1>8, <2>2 DEF Outcomes, ff_accept, IsOpen
      <3>2. PICK x \in Fds : r = Result(x, [sock EXCEPT ![x] = Fresh("conn")])
                             /\ ~IsOpen(x)
        BY DEF NewFd
      <3>3. x # fd
        BY <3>1, <3>2 DEF IsOpen
      <3>4. r.sock \in [Fds -> Socket] /\ r.sock[fd].rx = sock[fd].rx
        BY <1>1, <3>1, <3>2, <3>3
      <3>5. o.ret = x /\ o.sock = [r.sock EXCEPT ![fd].rx = @ - 1]
        BY <3>1, <3>2
      <3>6. r.sock[fd] \in Socket /\ r.sock[fd].rx \in 0..MaxRx /\ r.sock[fd].rx > 0
        BY <3>1, <3>4
      <3>7. r.sock[fd].rx - 1 \in 0..MaxRx
        BY <3>6, MaxRxAssumption
      <3>8. [r.sock[fd] EXCEPT !.rx = @ - 1] \in Socket
        BY <3>6, <3>7
      <3>9. o.sock \in [Fds -> Socket]
        BY <3>1, <3>4, <3>5, <3>8
      <3> QED BY <3>5, <3>9
    <2> QED BY <2>1, <2>2
  <1>9. CASE f = "SELECT"
    BY <1>9 DEF Outcomes, ff_select
  <1>10. CASE f \in {"BIND", "SETSOCKOPT", "GETSOCKOPT"}
    BY <1>3, <1>10 DEF Outcomes, ff_option
  <1>11. CASE f \in {"SEND", "SENDTO", "WRITE"}
    BY <1>3, <1>11 DEF Outcomes, ff_send, ReturnError, IsOpen
  <1>12. CASE f \in {"RECV", "RECVFROM", "READ"}
    BY <1>3, <1>12, MaxRxAssumption DEF Outcomes, ff_recv, ReturnError, IsOpen
  <1> QED BY <1>4, <1>5, <1>6, <1>7, <1>8, <1>9, <1>10, <1>11, <1>12 DEF Forms

\* What else changes the socket table keeps its type.
LEMMA StackTypes ==
  ASSUME StackTypeOK
  PROVE  /\ \A fd \in Int, m \in {"level", "edge"} : Watch(fd, m) \in [Fds -> Socket]
         /\ AfterWait \in [Fds -> Socket]
         /\ \A fd \in Fds : \A o \in ff_close(fd) : o.sock \in [Fds -> Socket]
         /\ Network => StackTypeOK'
  <1> USE DEF StackTypeOK, Socket, Kinds
  <1>1. \A fd \in Int, m \in {"level", "edge"} : Watch(fd, m) \in [Fds -> Socket]
    BY ZenonT(60) DEF Watch, IsOpen
  <1>2. AfterWait \in [Fds -> Socket]
    BY DEF AfterWait
  <1>3. ASSUME NEW fd \in Fds, NEW o \in ff_close(fd)
        PROVE  o.sock \in [Fds -> Socket]
    BY FreshType DEF ff_close, Result, Fails
  <1>4. ASSUME Network PROVE StackTypeOK'
    <2>1. PICK fd \in Fds : Receive(fd) \/ PeerCloses(fd) \/ PeerResets(fd)
      BY <1>4 DEF Network
    <2>2. CASE Receive(fd)
      <3>1. sock[fd].rx + 1 \in 0..MaxRx
        BY <2>2, MaxRxAssumption DEF Receive
      <3> QED BY <2>2, <3>1, ZenonT(60) DEF Receive
    <2>3. CASE PeerCloses(fd)
      BY <2>3, ZenonT(60) DEF PeerCloses
    <2>4. CASE PeerResets(fd)
      BY <2>4, ZenonT(60) DEF PeerResets
    <2> QED BY <2>1, <2>2, <2>3, <2>4
  <1> QED BY <1>1, <1>2, <1>3, <1>4

-----------------------------------------------------------------------------
USE DEF ShmTypeOK, MonitorTypeOK, Request, Reply, shm, locals

\* What the monitor reads and tests keeps its own types.
LEMMA LookTypes ==
  ASSUME ShmTypeOK, StackTypeOK, MonitorTypeOK,
         Loop \/ Poll \/ Switch \/ Wait \/ Guard \/ Tail
  PROVE  ShmTypeOK' /\ StackTypeOK' /\ MonitorTypeOK'
  <1> USE DEF Go
  <1>1. CASE Loop \/ Tail
    BY <1>1, ZenonT(60) DEF Loop, Tail, Dispatch, MonitorPC, Modes, StackTypeOK
  <1>2. CASE Poll
    BY <1>2 DEF Poll, RoundEnd, MonitorPC, Modes, StackTypeOK
  <1>3. CASE Switch
    BY <1>3 DEF Switch, RoundEnd, MonitorPC, Modes, DsForm, StackTypeOK
  <1>4. CASE Wait
    BY <1>4 DEF Wait, MonitorPC, Modes, StackTypeOK
  <1>5. CASE Guard
    <2>1. PICK garbage \in {-1, 0, mon.ret}, p \in {"exec", "post", "release"} :
            mon' = [mon EXCEPT !.pc = p, !.ret = garbage]
      BY <1>5 DEF Guard
    <2>2. p \in MonitorPC /\ garbage \in Int
      BY DEF MonitorPC
    <2> QED BY <1>5, <2>1, <2>2 DEF Guard, StackTypeOK
  <1> QED BY <1>1, <1>2, <1>3, <1>4, <1>5

\* So does what it stores in the segments.
LEMMA StoreTypes ==
  ASSUME ShmTypeOK, StackTypeOK, MonitorTypeOK,
         ClearRequest \/ PutRet \/ PutFlag \/ Release \/ SocketAgain
  PROVE  ShmTypeOK' /\ StackTypeOK' /\ MonitorTypeOK'
  <1> USE DEF Go
  <1>1. CASE ClearRequest
    BY <1>1, ZenonT(60) DEF ClearRequest, StackTypeOK, MonitorPC, Modes
  <1>2. CASE PutRet
    BY <1>2, ZenonT(60) DEF PutRet, StackTypeOK, MonitorPC, Modes
  <1>3. CASE PutFlag
    BY <1>3, ZenonT(60) DEF PutFlag, AfterFlag, StackTypeOK, MonitorPC, Modes
  <1>4. CASE Release
    BY <1>4 DEF Release, CaseEnd, RoundEnd, StackTypeOK, MonitorPC, Modes, DsForm
  <1>5. CASE SocketAgain
    BY <1>5, SMTT(40) DEF SocketAgain, StackTypeOK, MonitorPC, Modes, Forms
  <1> QED BY <1>1, <1>2, <1>3, <1>4, <1>5

\* And its calls of the stack.
LEMMA ExecTypes ==
  ASSUME ShmTypeOK, StackTypeOK, MonitorTypeOK, Exec
  PROVE  ShmTypeOK' /\ StackTypeOK' /\ MonitorTypeOK'
  <1>1. PICK o \in Outcomes(mon.form, fmt[mon.form].fd, fmt[mon.form].arg) :
          /\ sock' = o.sock
          /\ mon' = [mon EXCEPT
               !.pc  = IF mon.mode # "accept" THEN "clear"
                       ELSE IF o.ret < 0 THEN "events" ELSE "ret",
               !.ret = IF mon.form = "CONNECT" THEN 0 ELSE o.ret]
    BY DEF Exec
  <1>2. o.ret \in Int /\ o.sock \in [Fds -> Socket]
    BY OutcomesType
  <1> DEFINE p == IF mon.mode # "accept" THEN "clear"
                  ELSE IF o.ret < 0 THEN "events" ELSE "ret"
             r == IF mon.form = "CONNECT" THEN 0 ELSE o.ret
  <1>3. p \in MonitorPC /\ r \in Int
    BY <1>2 DEF MonitorPC
  <1>4. mon' = [mon EXCEPT !.pc = p, !.ret = r]
    BY <1>1
  <1> HIDE DEF p, r
  <1>5. MonitorTypeOK'
    BY <1>3, <1>4 DEF Exec
  <1> QED BY <1>1, <1>2, <1>5 DEF Exec, StackTypeOK

\* And what it does after a reply: registering a socket, its own variables.
LEMMA PostTypes ==
  ASSUME ShmTypeOK, StackTypeOK, MonitorTypeOK,
         SocketPost \/ BindPost \/ ListenPost \/ AcceptPost
  PROVE  ShmTypeOK' /\ StackTypeOK' /\ MonitorTypeOK'
  <1> USE DEF Go
  <1>1. /\ fmt["BIND"].fd \in Int /\ fmtr["SOCKET"].ret \in Int
        /\ fmtr["ACCEPT"].ret \in Int
    BY DEF Forms
  <1>2. StackTypeOK'
    BY <1>1, StackTypes DEF SocketPost, BindPost, ListenPost, AcceptPost, StackTypeOK
  <1>3. CASE SocketPost \/ BindPost \/ ListenPost
    BY <1>2, <1>3 DEF SocketPost, BindPost, ListenPost, MonitorPC, Modes
  <1>4. CASE AcceptPost
    BY <1>2, <1>4 DEF AcceptPost, MonitorPC, Modes
  <1> QED BY <1>3, <1>4

\* And the events of ff_epoll_wait.
LEMMA EventTypes ==
  ASSUME ShmTypeOK, StackTypeOK, MonitorTypeOK, EpollWait \/ Events
  PROVE  ShmTypeOK' /\ StackTypeOK' /\ MonitorTypeOK'
  <1>1. CASE EpollWait
    <2>1. StackTypeOK'
      BY <1>1, StackTypes DEF EpollWait, StackTypeOK
    <2>2. mon'.evs \in SUBSET Event
      <3>1. \A fd \in Fds : [fd |-> fd, err |-> sock[fd].end = "err"] \in Event
        BY Zenon DEF Event
      <3> QED BY <1>1, <3>1 DEF EpollWait, Reported
    <2> QED BY <1>1, <2>1, <2>2 DEF EpollWait, MonitorPC, Modes
  <1>2. CASE Events
    <2>1. ASSUME NEW e \in mon.evs, UdpEvent(e)
          PROVE  ShmTypeOK' /\ StackTypeOK' /\ MonitorTypeOK'
      BY <2>1 DEF UdpEvent, MonitorPC, Modes, StackTypeOK
    <2>2. ASSUME NEW e \in mon.evs, TcpEvent(e)
          PROVE  ShmTypeOK' /\ StackTypeOK' /\ MonitorTypeOK'
      <3>1. e.fd \in Fds
        BY DEF Event
      <3>2. StackTypeOK'
        BY <2>2, <3>1, StackTypes DEF TcpEvent, StackTypeOK
      <3>3. \/ mon' = [mon EXCEPT !.pc = "wait", !.mode = "accept",
                                  !.form = "ACCEPT", !.evs = @ \ {e}]
            \/ mon' = [mon EXCEPT !.evs = @ \ {e}]
            \/ mon' = [mon EXCEPT !.pc = "poll", !.mode = "tcp", !.evs = @ \ {e}]
        BY <2>2 DEF TcpEvent
      <3>4. /\ {"wait", "poll"} \subseteq MonitorPC
            /\ {"accept", "tcp"} \subseteq Modes /\ "ACCEPT" \in Forms
        BY DEF MonitorPC, Modes, Forms
      <3>5. mon.evs \ {e} \in SUBSET Event
        OBVIOUS
      <3>6. MonitorTypeOK'
        BY <2>2, <3>3, <3>4, <3>5 DEF TcpEvent
      <3> QED BY <2>2, <3>2, <3>6 DEF TcpEvent
    <2>3. CASE mon.evs = {} /\ Go("stack") /\ UNCHANGED <<shm, sock, locals>>
      BY <2>3 DEF Go, MonitorPC, StackTypeOK
    <2> QED BY <1>2, <2>1, <2>2, <2>3 DEF Events
  <1> QED BY <1>1, <1>2

\* The monitor keeps the types of the segments, of the stack and of itself,
\* whatever the programs store in the slots.
LEMMA MonitorTypes ==
  ASSUME ShmTypeOK, StackTypeOK, MonitorTypeOK, MonitorStep \/ MainLoop
  PROVE  ShmTypeOK' /\ StackTypeOK' /\ MonitorTypeOK'
  <1>1. CASE MonitorStep
    BY <1>1, LookTypes, StoreTypes, ExecTypes, PostTypes, EventTypes DEF MonitorStep
  <1>2. CASE MainLoop
    BY <1>2, StackTypes DEF MainLoop
  <1> QED BY <1>1, <1>2

-----------------------------------------------------------------------------
\* The history of f after the stack has executed the request in its slot.
Recorded(f, d) == [times |-> IF d.times = 0 THEN 1 ELSE 2,
                   fd |-> fmt[f].fd, arg |-> fmt[f].arg, ret |-> mon'.ret]

\* A step of the monitor that leaves slot f alone and does not serve f keeps the
\* handshake; so do the steps after the reply's flag.
LEMMA AsideHandshake ==
  ASSUME NEW f \in ArgsFirst, NEW h, NEW d, Handshake(f, h, d),
         UNCHANGED <<fmt[f], fmtr[f]>>,
         \/ mon'.form # f
         \/ mon'.pc \notin {"guard", "exec", "clear", "ret", "flag"},
         \/ mon.form # f
         \/ mon.pc \notin {"clear", "ret", "flag"}
  PROVE  Handshake(f, h, d)'
  BY DEF Handshake, ExecutedOnce

\* Waiting for the slot's flag and testing the descriptor.
LEMMA LookHandshake ==
  ASSUME ShmTypeOK, MonitorTypeOK, NEW f \in ArgsFirst, NEW h, NEW d,
         Handshake(f, h, d),
         Loop \/ Poll \/ Switch \/ Wait \/ Guard \/ Tail \/ EpollWait \/ Events
  PROVE  Handshake(f, h, d)'
  <1> USE DEF Go
  <1>1. CASE Loop \/ Poll \/ Switch \/ Tail
    <2>1. /\ UNCHANGED shm /\ mon.pc \in {"stack", "poll", "switch", "tail"}
          /\ mon'.pc \in {"stack", "poll", "switch", "tail", "wait", "epoll"}
      BY <1>1 DEF Loop, Poll, Switch, Tail, Dispatch, RoundEnd
    <2> QED BY <2>1, AsideHandshake
  <1>2. CASE Wait
    <2>1. /\ UNCHANGED shm /\ mon.pc = "wait" /\ mon'.form = mon.form
          /\ mon'.pc \in {"guard", "exec"} /\ fmt[mon.form].flag = 1
      BY <1>2 DEF Wait
    <2> QED BY <2>1 DEF Handshake, ExecutedOnce
  <1>3. CASE Guard
    <2>1. /\ UNCHANGED shm /\ mon.pc = "guard" /\ mon'.form = mon.form
          /\ mon'.pc \in {"exec", "post", "release"}
      BY <1>3 DEF Guard
    <2> QED BY <2>1 DEF Handshake, ExecutedOnce
  <1>4. CASE EpollWait
    <2>1. UNCHANGED shm /\ mon.pc = "epoll" /\ mon'.pc = "events"
      BY <1>4 DEF EpollWait
    <2> QED BY <2>1, AsideHandshake
  <1>5. CASE Events
    <2>1. /\ UNCHANGED shm /\ mon.pc = "events"
          /\ mon'.pc \in {"events", "poll", "wait", "stack"}
      BY <1>5 DEF Events, UdpEvent, TcpEvent
    <2> QED BY <2>1, AsideHandshake
  <1> QED BY <1>1, <1>2, <1>3, <1>4, <1>5

\* The stores: what slot f sees of them concerns the call it holds.
LEMMA StoreHandshake ==
  ASSUME ShmTypeOK, MonitorTypeOK, NEW f \in ArgsFirst, NEW h, NEW d,
         Handshake(f, h, d),
         ClearRequest \/ PutRet \/ PutFlag \/ Release \/ SocketAgain
  PROVE  Handshake(f, h, d)'
  <1> USE DEF Go
  <1>0. f \in Forms /\ f \notin {"SOCKET", "CONNECT", "BIND", "LISTEN"}
    BY DEF ArgsFirst, Forms
  <1>1. CASE ClearRequest
    <2>1. /\ mon.pc = "clear" /\ mon'.form = mon.form /\ mon'.ret = mon.ret
          /\ mon'.pc = IF mon.form = "CONNECT" THEN "flag" ELSE "ret"
          /\ fmt' = [fmt EXCEPT ![mon.form].flag = 0] /\ UNCHANGED fmtr
      BY <1>1 DEF ClearRequest
    <2>2. CASE mon.form # f
      BY <1>0, <2>1, <2>2, AsideHandshake
    <2>3. CASE mon.form = f
      <3>1. fmt'[f].flag = 0 /\ fmt'[f].fd = fmt[f].fd /\ fmt'[f].arg = fmt[f].arg
        BY <1>0, <2>1, <2>3
      <3> QED BY <1>0, <2>1, <2>3, <3>1 DEF Handshake, ExecutedOnce
    <2> QED BY <2>2, <2>3
  <1>2. CASE PutRet
    <2>1. /\ mon.pc = "ret" /\ mon'.form = mon.form /\ mon'.ret = mon.ret
          /\ mon'.pc = IF mon.form = "CONNECT" THEN "release" ELSE "flag"
          /\ fmtr' = [fmtr EXCEPT ![mon.form].ret = mon.ret] /\ UNCHANGED fmt
      BY <1>2 DEF PutRet
    <2>2. CASE mon.form # f
      BY <1>0, <2>1, <2>2, AsideHandshake
    <2>3. CASE mon.form = f
      <3>1. fmtr'[f].ret = mon.ret /\ fmtr'[f].flag = fmtr[f].flag
        BY <1>0, <2>1, <2>3
      <3> QED BY <1>0, <2>1, <2>3, <3>1 DEF Handshake, ExecutedOnce
    <2> QED BY <2>2, <2>3
  <1>3. CASE PutFlag
    <2>1. /\ mon.pc = "flag" /\ mon'.form = mon.form /\ mon'.pc = AfterFlag(mon.form)
          /\ fmtr' = [fmtr EXCEPT ![mon.form].flag = 1] /\ UNCHANGED fmt
      BY <1>3 DEF PutFlag
    <2>2. CASE mon.form # f
      BY <1>0, <2>1, <2>2, AsideHandshake
    <2>3. CASE mon.form = f
      <3>1. fmtr'[f].flag = 1 /\ fmtr'[f].ret = fmtr[f].ret /\ mon'.pc = "release"
        BY <1>0, <2>1, <2>3 DEF AfterFlag
      <3> QED BY <1>0, <2>1, <2>3, <3>1 DEF Handshake, ExecutedOnce
    <2> QED BY <2>2, <2>3
  <1>4. CASE Release
    <2>1. /\ UNCHANGED <<fmt, fmtr>> /\ mon.pc = "release"
          /\ mon'.pc \in {"again", "events", "post", "tail", "stack", "poll"}
      BY <1>4 DEF Release, CaseEnd, RoundEnd
    <2> QED BY <2>1, AsideHandshake
  <1>5. CASE SocketAgain
    <2>1. /\ UNCHANGED fmt /\ mon.pc = "again" /\ mon'.pc = "tail"
          /\ fmtr' = [fmtr EXCEPT !["SOCKET"].flag = 1]
      BY <1>5 DEF SocketAgain
    <2>2. UNCHANGED <<fmt[f], fmtr[f]>>
      BY <1>0, <2>1
    <2> QED BY <2>1, <2>2, AsideHandshake
  <1> QED BY <1>1, <1>2, <1>3, <1>4, <1>5

\* The stack executes: the request in slot f with the caller's fields and for the
\* first time, or another form's.  The accept loop serves ACCEPT, not f.
LEMMA ExecHandshake ==
  ASSUME ShmTypeOK, StackTypeOK, MonitorTypeOK, ModeInv,
         NEW f \in ArgsFirst, NEW h, NEW d, NEW d2, Handshake(f, h, d), Exec,
         d2 = IF mon.form = f THEN Recorded(f, d) ELSE d
  PROVE  Handshake(f, h, d2)'
  <1>0. f # "ACCEPT"
    BY DEF ArgsFirst
  <1>1. /\ UNCHANGED shm /\ mon.pc = "exec" /\ mon'.form = mon.form
        /\ mon.mode # "accept" => mon'.pc = "clear"
    BY DEF Exec
  <1>2. CASE mon.form # f
    <2>1. mon'.form # f /\ d2 = d
      BY <1>1, <1>2
    <2> QED BY <1>1, <1>2, <2>1, AsideHandshake
  <1>3. CASE mon.form = f
    <2>1. mon'.pc = "clear"
      BY <1>0, <1>1, <1>3 DEF ModeInv
    <2>2. /\ h.form = f /\ h.pc = "await" /\ fmt[f].flag = 1 /\ fmtr[f].flag = 0
          /\ fmt[f].fd = h.fd /\ fmt[f].arg = h.arg /\ d.times = 0
      BY <1>1, <1>3 DEF Handshake
    <2>3. d2 = ExecutedOnce(h, mon'.ret)
      BY <1>3, <2>2 DEF ExecutedOnce, Recorded
    <2> QED BY <1>1, <1>3, <2>1, <2>2, <2>3 DEF Handshake, ExecutedOnce
  <1> QED BY <1>2, <1>3

\* Only an event of the listener starts the accept loop, which takes no other form.
LEMMA ModeKept ==
  ASSUME ModeInv, MonitorTypeOK, MonitorStep \/ MainLoop
  PROVE  ModeInv'
  <1> USE DEF ModeInv, Go
  <1>1. CASE Loop \/ Poll \/ Switch \/ Tail
    BY <1>1 DEF Loop, Poll, Switch, Tail, Dispatch, Handled
  <1>2. CASE Wait \/ Guard \/ EpollWait \/ Exec
    BY <1>2 DEF Wait, Guard, EpollWait, Exec
  <1>3. CASE Events
    BY <1>3 DEF Events, UdpEvent, TcpEvent
  <1>4. CASE ClearRequest \/ PutRet \/ PutFlag \/ Release \/ SocketAgain
    BY <1>4 DEF ClearRequest, PutRet, PutFlag, Release, SocketAgain
  <1>5. CASE SocketPost \/ BindPost \/ ListenPost \/ AcceptPost
    BY <1>5 DEF SocketPost, BindPost, ListenPost, AcceptPost
  <1>6. CASE MainLoop
    BY <1>6 DEF MainLoop
  <1> QED BY <1>1, <1>2, <1>3, <1>4, <1>5, <1>6 DEF MonitorStep

\* Every step of the monitor, and every packet, keeps the handshake of slot f.
LEMMA MonitorHandshake ==
  ASSUME ShmTypeOK, StackTypeOK, MonitorTypeOK, ModeInv,
         NEW f \in ArgsFirst, NEW h, NEW d, NEW d2, Handshake(f, h, d),
         MonitorStep \/ MainLoop,
         d2 = IF mon.pc = "exec" /\ mon.form = f THEN Recorded(f, d) ELSE d
  PROVE  Handshake(f, h, d2)'
  <1>1. CASE Exec
    <2>1. mon.pc = "exec"
      BY <1>1 DEF Exec
    <2> QED BY <1>1, <2>1, ExecHandshake
  <1>2. CASE Loop \/ Poll \/ Switch \/ Wait \/ Guard \/ Tail \/ EpollWait \/ Events
    <2>1. mon.pc # "exec"
      BY <1>2 DEF Loop, Poll, Switch, Wait, Guard, Tail, EpollWait, Events
    <2> QED BY <1>2, <2>1, LookHandshake
  <1>3. CASE ClearRequest \/ PutRet \/ PutFlag \/ Release \/ SocketAgain
    <2>1. mon.pc # "exec"
      BY <1>3 DEF ClearRequest, PutRet, PutFlag, Release, SocketAgain
    <2> QED BY <1>3, <2>1, StoreHandshake
  <1>4. CASE SocketPost \/ BindPost \/ ListenPost \/ AcceptPost
    <2>1. UNCHANGED shm /\ mon.pc = "post" /\ mon'.pc \in {"release", "wait", "events"}
      BY <1>4 DEF SocketPost, BindPost, ListenPost, AcceptPost, Go
    <2> QED BY <2>1, AsideHandshake
  <1>5. CASE MainLoop
    <2>1. UNCHANGED <<shm, mon>> /\ mon.pc = "stack"
      BY <1>5 DEF MainLoop
    <2> QED BY <2>1, AsideHandshake
  <1> QED BY <1>1, <1>2, <1>3, <1>4, <1>5 DEF MonitorStep

-----------------------------------------------------------------------------
\* What a step of a hook whose state goes from h to h2 does to slot f, a form of
\* ArgsFirst: a step of another call leaves the slot alone, and the calls of f
\* fill it, raise its flag, wait for the reply, lower its flag and load it.
SlotStep(f, h, h2) ==
  \/ /\ \/ h.form # f
        \/ h.pc \in {"idle", "spin", "back"}
     /\ h2.form # f \/ h2.pc \in {"idle", "spin", "claim"}
     /\ UNCHANGED <<fmt[f], fmtr[f]>>
  \/ /\ h.form = f /\ h2.form = f /\ h2.fd = h.fd /\ h2.arg = h.arg
     /\ \/ /\ <<h.pc, h2.pc>> \in {<<"claim", "form">>, <<"claim", "fd">>, <<"form", "fd">>}
           /\ UNCHANGED <<fmt[f], fmtr[f]>>
        \/ /\ <<h.pc, h2.pc>> = <<"fd", "arg">>
           /\ fmt'[f] = [fmt[f] EXCEPT !.fd = h.fd] /\ UNCHANGED fmtr[f]
        \/ /\ <<h.pc, h2.pc>> = <<"arg", "flag">>
           /\ fmt'[f] = [fmt[f] EXCEPT !.arg = h.arg] /\ UNCHANGED fmtr[f]
        \/ /\ <<h.pc, h2.pc>> = <<"flag", "await">>
           /\ fmt'[f] = [fmt[f] EXCEPT !.flag = 1] /\ UNCHANGED fmtr[f]
        \/ /\ <<h.pc, h2.pc>> = <<"await", "clear">> /\ fmtr[f].flag = 1
           /\ UNCHANGED <<fmt[f], fmtr[f]>>
        \/ /\ <<h.pc, h2.pc>> = <<"clear", "ret">>
           /\ fmtr'[f] = [fmtr[f] EXCEPT !.flag = 0] /\ UNCHANGED fmt[f]
        \/ /\ <<h.pc, h2.pc>> = <<"ret", "back">> /\ h2.ret = fmtr[f].ret
           /\ UNCHANGED <<fmt[f], fmtr[f]>>

\* The steps of the one program that makes the calls f keep the handshake, when
\* its taking the channel starts the history of f anew.
LEMMA CallerHandshake ==
  ASSUME ShmTypeOK, NEW f \in ArgsFirst, NEW h, NEW h2, NEW d, NEW d2,
         Handshake(f, h, d), SlotStep(f, h, h2), UNCHANGED mon,
         h.form = f => IF h.pc = "claim" THEN d2.times = 0 ELSE d2 = d
  PROVE  Handshake(f, h2, d2)'
  <1>0. fmt[f] \in Request /\ fmtr[f] \in Reply
    BY DEF ArgsFirst, Forms
  <1>1. CASE /\ \/ h.form # f
                \/ h.pc \in {"idle", "spin", "back"}
             /\ h2.form # f \/ h2.pc \in {"idle", "spin", "claim"}
             /\ UNCHANGED <<fmt[f], fmtr[f]>>
    BY <1>1 DEF Handshake, ExecutedOnce
  <1>2. CASE /\ h.form = f /\ h2.form = f /\ h2.fd = h.fd /\ h2.arg = h.arg
             /\ <<h.pc, h2.pc>> \in {<<"claim", "form">>, <<"claim", "fd">>, <<"form", "fd">>}
             /\ UNCHANGED <<fmt[f], fmtr[f]>>
    BY <1>2 DEF Handshake, ExecutedOnce
  <1>3. CASE /\ h.form = f /\ h2.form = f /\ h2.fd = h.fd /\ h2.arg = h.arg
             /\ <<h.pc, h2.pc>> = <<"fd", "arg">>
             /\ fmt'[f] = [fmt[f] EXCEPT !.fd = h.fd] /\ UNCHANGED fmtr[f]
    BY <1>0, <1>3 DEF Handshake, ExecutedOnce
  <1>4. CASE /\ h.form = f /\ h2.form = f /\ h2.fd = h.fd /\ h2.arg = h.arg
             /\ <<h.pc, h2.pc>> = <<"arg", "flag">>
             /\ fmt'[f] = [fmt[f] EXCEPT !.arg = h.arg] /\ UNCHANGED fmtr[f]
    BY <1>0, <1>4 DEF Handshake, ExecutedOnce
  <1>5. CASE /\ h.form = f /\ h2.form = f /\ h2.fd = h.fd /\ h2.arg = h.arg
             /\ <<h.pc, h2.pc>> = <<"flag", "await">>
             /\ fmt'[f] = [fmt[f] EXCEPT !.flag = 1] /\ UNCHANGED fmtr[f]
    BY <1>0, <1>5 DEF Handshake, ExecutedOnce
  <1>6. CASE /\ h.form = f /\ h2.form = f /\ h2.fd = h.fd /\ h2.arg = h.arg
             /\ <<h.pc, h2.pc>> = <<"await", "clear">> /\ fmtr[f].flag = 1
             /\ UNCHANGED <<fmt[f], fmtr[f]>>
    BY <1>6 DEF Handshake, ExecutedOnce
  <1>7. CASE /\ h.form = f /\ h2.form = f /\ h2.fd = h.fd /\ h2.arg = h.arg
             /\ <<h.pc, h2.pc>> = <<"clear", "ret">>
             /\ fmtr'[f] = [fmtr[f] EXCEPT !.flag = 0] /\ UNCHANGED fmt[f]
    BY <1>0, <1>7 DEF Handshake, ExecutedOnce
  <1>8. CASE /\ h.form = f /\ h2.form = f /\ h2.fd = h.fd /\ h2.arg = h.arg
             /\ <<h.pc, h2.pc>> = <<"ret", "back">> /\ h2.ret = fmtr[f].ret
             /\ UNCHANGED <<fmt[f], fmtr[f]>>
    BY <1>8 DEF Handshake, ExecutedOnce
  <1> QED BY <1>1, <1>2, <1>3, <1>4, <1>5, <1>6, <1>7, <1>8 DEF SlotStep
=============================================================================
