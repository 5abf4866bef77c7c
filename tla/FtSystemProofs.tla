--------------------------- MODULE FtSystemProofs ---------------------------
(***************************************************************************)
(* What FtSystem guarantees whatever the order and number of the           *)
(* application's calls, the number of descriptors and what the network     *)
(* does: SlotInv, and what follows from it, for every application; IInv,   *)
(* and what follows from it, for every application without accept();       *)
(* ServerInv, and what follows from it, for every server.                  *)
(*                                                                         *)
(* One lemma for each step of a hook and for each step of the monitor says *)
(* that the step keeps IInv; in it there is one leaf for each part of IInv *)
(* that the step disturbs and one for the parts it leaves alone.           *)
(***************************************************************************)
EXTENDS FtSystem, FtSlotProofs

\* What a step of the application, and of the monitor, leaves alone or records.
AppFrame == /\ done' = IF hook.pc = "claim" THEN Nothing ELSE done
            /\ UNCHANGED <<sock, mon, locals>>

MonFrame == UNCHANGED <<hook, done>>

\* The types and the names of sets of control states are expanded everywhere.
USE DEF IInv, TypeOK, ShmTypeOK, HookTypeOK, MonitorTypeOK, DoneTypeOK, Request,
        Reply, AppFrame, MonFrame, shm, locals, Serving, Executing

\* The empty history.
LEMMA NothingType == Nothing \in [Forms -> [times : 0..2, fd : Int, arg : Nat, ret : Int]]
  BY DEF Nothing

\* A hook moves on and changes at most one word of the segments.
LEMMA HookMoveTypes ==
  ASSUME TypeOK, AppFrame, NEW p \in HookPC,
         \/ Spin \/ Claim(p) \/ StoreForm(p) \/ StoreFlag(p) \/ StoreFd(p) \/ StoreArg(p)
         \/ SeeReply \/ ClearReply \/ LoadRet \/ Retry
  PROVE  TypeOK'
  <1> USE DEF StackTypeOK
  <1>1. CASE Spin \/ SeeReply \/ Retry
    BY <1>1 DEF Spin, SeeReply, Retry, HookPC
  <1>2. CASE Claim(p) \/ StoreForm(p)
    BY <1>2, NothingType DEF Claim, StoreForm, DsForm
  <1>3. CASE StoreFlag(p)
    BY <1>3, NothingType, ZenonT(60) DEF StoreFlag
  <1>4. CASE StoreFd(p)
    BY <1>4, NothingType, ZenonT(60) DEF StoreFd
  <1>5. CASE StoreArg(p)
    BY <1>5, NothingType, ZenonT(60) DEF StoreArg
  <1>6. CASE ClearReply
    BY <1>6, NothingType, ZenonT(60) DEF ClearReply, HookPC
  <1>7. CASE LoadRet
    BY <1>7 DEF LoadRet, HookPC
  <1> QED BY <1>1, <1>2, <1>3, <1>4, <1>5, <1>6, <1>7

\* The program makes a call: one of those it may make next.
LEMMA InvokeCall ==
  ASSUME TypeOK, Invoke
  PROVE  /\ HookTypeOK'
         /\ hook'.form \in Forms
         /\ hook'.form \in Follow[hook.prev[1]].ok \cup Follow[hook.prev[1]].err
         /\ hook.pc = "idle" /\ hook'.pc = "spin" /\ UNCHANGED shm
  <1>1. PICK f \in Follow[hook.prev[1]][hook.prev[2]] : \E a \in ArgsOf(f) :
          hook' = [hook EXCEPT !.pc = "spin", !.form = f, !.fd = FdFor(f),
                               !.arg = a, !.n = @ + 1]
    BY DEF Invoke
  <1>2. PICK a \in ArgsOf(f) :
          hook' = [hook EXCEPT !.pc = "spin", !.form = f, !.fd = FdFor(f),
                               !.arg = a, !.n = @ + 1]
    BY <1>1
  <1>3. f \in Forms /\ f \in Follow[hook.prev[1]].ok \cup Follow[hook.prev[1]].err
    <2>1. hook.prev[1] \in Forms \cup {"START"} /\ hook.prev[2] \in {"ok", "err"}
      OBVIOUS
    <2>2. PICK g \in Forms \cup {"START"} : g = hook.prev[1]
      BY <2>1
    <2>3. Follow[g] \in Outcome
      BY FollowAssumption
    <2>4. f \in Follow[g].ok \/ f \in Follow[g].err
      BY <2>1, <2>2
    <2> QED BY <2>2, <2>3, <2>4 DEF Outcome
  <1>4. a \in Nat /\ FdFor(f) \in Int /\ hook.n + 1 \in 0..MaxCalls
    BY SockTypesAssumption, MaxCallsAssumption
       DEF Invoke, ArgsOf, FdFor, STREAM, DGRAM
  <1>5. "spin" \in HookPC
    BY DEF HookPC
  <1>6. HookTypeOK'
    BY <1>2, <1>3, <1>4, <1>5
  <1> QED BY <1>2, <1>3, <1>6 DEF Invoke

\* The call returns to the program.
LEMMA ReturnTypes ==
  ASSUME TypeOK, Return, AppFrame
  PROVE  TypeOK'
  BY ZenonT(60) DEF Return, Verdict, StackTypeOK, HookPC

\* A step of any hook is one of the moves, with the order of the stores of its form.
LEMMA HookCallMoves ==
  ASSUME HookCall
  PROVE  \/ Spin
         \/ Claim(IF hook.form = "READ" THEN "fd" ELSE "form")
         \/ StoreForm(IF hook.form \in ArgsFirst \cup {"ACCEPT"} THEN "fd" ELSE "flag")
         \/ StoreFlag(CASE hook.form \in ArgsFirst \cup {"ACCEPT"} -> "await"
                        [] hook.form = "SOCKET"                    -> "arg"
                        [] OTHER                                   -> "fd")
         \/ StoreFd(IF hook.form = "CLOSE" THEN "await" ELSE "arg")
         \/ StoreArg(IF hook.form \in ArgsFirst \cup {"ACCEPT"} THEN "flag" ELSE "await")
         \/ SeeReply \/ ClearReply \/ LoadRet
  <1> USE DEF FlagThenArgs, ArgsThenFlag, TakeReply, ArgsFirst
  <1>1. CASE ft_hook_socket
    BY <1>1 DEF ft_hook_socket
  <1>2. CASE ft_hook_close
    BY <1>2 DEF ft_hook_close
  <1>3. CASE ft_hook_connect \/ ft_hook_listen \/ ft_hook_bind
    BY <1>3 DEF ft_hook_connect, ft_hook_listen, ft_hook_bind
  <1>4. CASE ft_hook_read
    BY <1>4 DEF ft_hook_read
  <1>5. CASE ft_hook_write \/ ft_hook_select \/ ft_hook_recv \/ ft_hook_send
    BY <1>5 DEF ft_hook_write, ft_hook_select, ft_hook_recv, ft_hook_send
  <1>6. CASE \/ ft_hook_recvfrom \/ ft_hook_sendto
             \/ ft_hook_setsockopt \/ ft_hook_getsockopt
    BY <1>6 DEF ft_hook_recvfrom, ft_hook_sendto, ft_hook_setsockopt,
                ft_hook_getsockopt
  <1>7. CASE ft_hook_accept
    BY <1>7 DEF ft_hook_accept
  <1> QED BY <1>1, <1>2, <1>3, <1>4, <1>5, <1>6, <1>7 DEF HookCall

\* Every step of the application keeps the types.
LEMMA AppTypes ==
  ASSUME TypeOK, HookNext, AppFrame
  PROVE  TypeOK'
  <1>1. CASE Invoke
    <2>1. hook.pc # "claim"
      BY <1>1 DEF Invoke
    <2> QED BY <1>1, <2>1, InvokeCall DEF StackTypeOK
  <1>2. CASE HookCall
    <2> DEFINE p1 == IF hook.form = "READ" THEN "fd" ELSE "form"
               p2 == IF hook.form \in ArgsFirst \cup {"ACCEPT"} THEN "fd" ELSE "flag"
               p3 == CASE hook.form \in ArgsFirst \cup {"ACCEPT"} -> "await"
                       [] hook.form = "SOCKET"                    -> "arg"
                       [] OTHER                                   -> "fd"
               p4 == IF hook.form = "CLOSE" THEN "await" ELSE "arg"
               p5 == IF hook.form \in ArgsFirst \cup {"ACCEPT"} THEN "flag" ELSE "await"
    <2>1. {p1, p2, p3, p4, p5} \subseteq HookPC /\ "spin" \in HookPC
      BY DEF HookPC
    <2>2. \/ Spin \/ Claim(p1) \/ StoreForm(p2) \/ StoreFlag(p3) \/ StoreFd(p4)
          \/ StoreArg(p5) \/ SeeReply \/ ClearReply \/ LoadRet
      BY <1>2, HookCallMoves
    <2> HIDE DEF p1, p2, p3, p4, p5
    <2> QED BY <2>1, <2>2, HookMoveTypes
  <1>3. CASE Retry
    <2>1. "spin" \in HookPC
      BY DEF HookPC
    <2> QED BY <1>3, <2>1, HookMoveTypes
  <1>4. CASE Return
    BY <1>4, ReturnTypes
  <1> QED BY <1>1, <1>2, <1>3, <1>4 DEF HookNext

\* So does every step of the monitor: what it executes is recorded.
LEMMA MonTypes ==
  ASSUME TypeOK, Monitor \/ Packets
  PROVE  TypeOK'
  <1>1. ShmTypeOK' /\ StackTypeOK' /\ MonitorTypeOK'
    BY MonitorTypes DEF Monitor, Packets
  <1>2. HookTypeOK'
    BY DEF Monitor, Packets
  <1>3. CASE mon.pc = "exec" /\ Monitor
    <2>1. mon'.ret \in Int /\ fmt[mon.form].fd \in Int /\ fmt[mon.form].arg \in Nat
      BY <1>1
    <2>2. DoneTypeOK'
      BY <1>3, <2>1 DEF Monitor
    <2> QED BY <1>1, <1>2, <2>2
  <1>4. CASE UNCHANGED done
    BY <1>1, <1>2, <1>4
  <1> QED BY <1>3, <1>4 DEF Monitor, Packets

\* A step of the monitor that is no execution.
LEMMA QuietTypes ==
  ASSUME TypeOK, MonitorStep \/ MainLoop, MonFrame
  PROVE  TypeOK'
  BY MonitorTypes

\* The types are an inductive invariant by themselves, for every application.
LEMMA NextTypes == TypeOK /\ [Next]_vars => TypeOK'
  <1> SUFFICES ASSUME TypeOK, [Next]_vars PROVE TypeOK'
    OBVIOUS
  <1>1. CASE Application
    BY <1>1, AppTypes DEF Application
  <1>2. CASE Monitor \/ Packets
    BY <1>2, MonTypes
  <1>3. CASE UNCHANGED vars
    BY <1>3 DEF vars, StackTypeOK
  <1> QED BY <1>1, <1>2, <1>3 DEF Next

-----------------------------------------------------------------------------
\* The channel is free: no request flag is up.
LEMMA SpinIInv ==
  ASSUME IInv, Spin, AppFrame
  PROVE  IInv'
  <1> USE DEF Spin
  <1>1. TypeOK'
    BY HookMoveTypes DEF HookPC
  <1>2. FillingInv'
    BY DEF FillingInv, Filling, RequestInv
  <1>3. RequestInv'
    BY DEF RequestInv
  <1>4. NoAcceptInv' /\ HoldInv' /\ ServingInv' /\ ResultInv' /\ ConnectInv'
        /\ NoSpuriousReply' /\ ConnectSucceeds'
    BY DEF NoAcceptInv, HoldInv, ServingInv, ResultInv, Mine, ConnectInv,
           NoSpuriousReply, ConnectSucceeds
  <1> QED BY <1>1, <1>2, <1>3, <1>4 DEF IInv

\* The channel is taken; the monitor is not serving anything.
LEMMA ClaimIInv ==
  ASSUME IInv, Claim(IF hook.form = "READ" THEN "fd" ELSE "form"), AppFrame
  PROVE  IInv'
  <1> USE DEF Claim
  <1>1. TypeOK'
    BY NothingType DEF StackTypeOK, HookPC, DsForm
  <1>2. HoldInv'
    BY DEF HoldInv, FillingInv, Filling, RequestInv, ServingInv
  <1>3. FillingInv'
    BY DEF FillingInv, Filling, HoldInv, ArgsFirst, Nothing, DsForm,
           NoSpuriousReply, NoAcceptInv
  <1>4. RequestInv'
    BY DEF RequestInv, FillingInv, Filling, HoldInv
  <1>5. NoAcceptInv' /\ ServingInv' /\ ResultInv' /\ ConnectInv'
        /\ NoSpuriousReply' /\ ConnectSucceeds'
    BY DEF NoAcceptInv, ServingInv, ResultInv, Mine, ConnectInv,
           NoSpuriousReply, ConnectSucceeds
  <1> QED BY <1>1, <1>2, <1>3, <1>4, <1>5 DEF IInv

\* The form is stored while no request flag is up.
LEMMA StoreFormIInv ==
  ASSUME IInv, StoreForm(IF hook.form \in ArgsFirst THEN "fd" ELSE "flag"), AppFrame
  PROVE  IInv'
  <1> USE DEF StoreForm
  <1>1. TypeOK'
    BY DEF StackTypeOK, HookPC, DsForm
  <1>2. NoAcceptInv'
    BY DEF NoAcceptInv
  <1>3. FillingInv'
    BY DEF FillingInv, Filling
  <1>4. RequestInv'
    BY DEF RequestInv, FillingInv, Filling
  <1>5. HoldInv' /\ ServingInv' /\ ResultInv' /\ ConnectInv'
        /\ NoSpuriousReply' /\ ConnectSucceeds'
    BY DEF HoldInv, ServingInv, ResultInv, Mine, ConnectInv, NoSpuriousReply,
           ConnectSucceeds
  <1> QED BY <1>1, <1>2, <1>3, <1>4, <1>5 DEF IInv

\* The request becomes visible: with its fields, for the calls of ArgsFirst.
LEMMA StoreFlagIInv ==
  ASSUME IInv, StoreFlag(CASE hook.form \in ArgsFirst -> "await"
                         [] hook.form = "SOCKET"    -> "arg"
                         [] OTHER                   -> "fd"), AppFrame
  PROVE  IInv'
  <1> USE DEF StoreFlag
  <1>1. TypeOK'
    BY ZenonT(60) DEF StackTypeOK, HookPC
  <1>2. NoAcceptInv'
    BY DEF NoAcceptInv
  <1>3. FillingInv'
    BY DEF FillingInv, Filling, ArgsFirst
  <1>4. RequestInv'
    BY DEF RequestInv, FillingInv, Filling, NoSpuriousReply, NoAcceptInv,
           ArgsFirst
  <1>5. ServingInv'
    BY DEF ServingInv, FillingInv, Filling
  <1>6. ResultInv'
    BY DEF ResultInv, Mine, FillingInv, Filling
  <1>7. NoSpuriousReply'
    BY DEF NoSpuriousReply
  <1>8. HoldInv' /\ ConnectInv' /\ ConnectSucceeds'
    BY DEF HoldInv, ConnectInv, ConnectSucceeds
  <1> QED BY <1>1, <1>2, <1>3, <1>4, <1>5, <1>6, <1>7, <1>8 DEF IInv

\* The descriptor is stored.
LEMMA StoreFdIInv ==
  ASSUME IInv, StoreFd(IF hook.form = "CLOSE" THEN "await" ELSE "arg"), AppFrame
  PROVE  IInv'
  <1> USE DEF StoreFd
  <1>1. TypeOK'
    BY ZenonT(60) DEF StackTypeOK, HookPC
  <1>2. NoAcceptInv'
    BY DEF NoAcceptInv
  <1>3. FillingInv'
    BY DEF FillingInv, Filling, ArgsFirst
  <1>4. RequestInv'
    BY DEF RequestInv
  <1>5. ServingInv'
    BY DEF ServingInv
  <1>6. ResultInv'
    BY DEF ResultInv, Mine, ArgsFirst
  <1>7. NoSpuriousReply'
    BY DEF NoSpuriousReply
  <1>8. HoldInv' /\ ConnectInv' /\ ConnectSucceeds'
    BY DEF HoldInv, ConnectInv, ConnectSucceeds
  <1> QED BY <1>1, <1>2, <1>3, <1>4, <1>5, <1>6, <1>7, <1>8 DEF IInv

\* The arguments are stored.
LEMMA StoreArgIInv ==
  ASSUME IInv, StoreArg(IF hook.form \in ArgsFirst THEN "flag" ELSE "await"), AppFrame
  PROVE  IInv'
  <1> USE DEF StoreArg
  <1>1. TypeOK'
    BY ZenonT(60) DEF StackTypeOK, HookPC
  <1>2. NoAcceptInv'
    BY DEF NoAcceptInv
  <1>3. FillingInv'
    BY DEF FillingInv, Filling, ArgsFirst
  <1>4. RequestInv'
    BY DEF RequestInv, FillingInv, Filling
  <1>5. ServingInv'
    BY DEF ServingInv, FillingInv, Filling
  <1>6. ResultInv'
    BY DEF ResultInv, Mine, ArgsFirst
  <1>7. NoSpuriousReply'
    BY DEF NoSpuriousReply, FillingInv, Filling
  <1>8. HoldInv' /\ ConnectInv' /\ ConnectSucceeds'
    BY DEF HoldInv, ConnectInv, ConnectSucceeds
  <1> QED BY <1>1, <1>2, <1>3, <1>4, <1>5, <1>6, <1>7, <1>8 DEF IInv

\* The reply's flag is seen: the execution is over.
LEMMA SeeReplyIInv ==
  ASSUME IInv, SeeReply, AppFrame
  PROVE  IInv'
  <1> USE DEF SeeReply
  <1>1. TypeOK'
    BY HookMoveTypes DEF HookPC
  <1>2. RequestInv'
    BY DEF RequestInv
  <1>3. ServingInv'
    BY DEF ServingInv, RequestInv
  <1>4. ResultInv'
    BY DEF ResultInv, Mine, ServingInv, RequestInv, ArgsFirst
  <1>5. NoSpuriousReply'
    BY DEF NoSpuriousReply
  <1>6. NoAcceptInv' /\ HoldInv' /\ FillingInv' /\ ConnectInv'
        /\ ConnectSucceeds'
    BY DEF NoAcceptInv, HoldInv, FillingInv, Filling, ConnectInv,
           ConnectSucceeds
  <1> QED BY <1>1, <1>2, <1>3, <1>4, <1>5, <1>6 DEF IInv

\* The reply's flag is lowered; the result stays.
LEMMA ClearReplyIInv ==
  ASSUME IInv, ClearReply, AppFrame
  PROVE  IInv'
  <1> USE DEF ClearReply
  <1>1. TypeOK'
    BY HookMoveTypes DEF HookPC
  <1>2. RequestInv'
    BY DEF RequestInv
  <1>3. ServingInv'
    BY DEF ServingInv
  <1>4. ResultInv'
    BY DEF ResultInv, Mine
  <1>5. ConnectInv'
    BY DEF ConnectInv
  <1>6. NoSpuriousReply'
    BY DEF NoSpuriousReply
  <1>7. NoAcceptInv' /\ HoldInv' /\ FillingInv' /\ ConnectSucceeds'
    BY DEF NoAcceptInv, HoldInv, FillingInv, Filling, ConnectSucceeds
  <1> QED BY <1>1, <1>2, <1>3, <1>4, <1>5, <1>6, <1>7 DEF IInv

\* The result is read.
LEMMA LoadRetIInv ==
  ASSUME IInv, LoadRet, AppFrame
  PROVE  IInv'
  <1> USE DEF LoadRet
  <1>1. TypeOK'
    BY HookMoveTypes DEF HookPC
  <1>2. ResultInv'
    BY DEF ResultInv, Mine
  <1>3. ConnectSucceeds'
    BY DEF ConnectSucceeds, ConnectInv
  <1>4. NoAcceptInv' /\ HoldInv' /\ FillingInv' /\ RequestInv' /\ ServingInv'
        /\ ConnectInv' /\ NoSpuriousReply'
    BY DEF NoAcceptInv, HoldInv, FillingInv, Filling, RequestInv, ServingInv,
           ConnectInv, NoSpuriousReply
  <1> QED BY <1>1, <1>2, <1>3, <1>4 DEF IInv

\* The same call is made again.
LEMMA RetryIInv ==
  ASSUME IInv, Retry, AppFrame
  PROVE  IInv'
  <1> USE DEF Retry
  <1>1. TypeOK'
    BY HookMoveTypes DEF HookPC
  <1>2. RequestInv'
    BY DEF RequestInv, Retried
  <1>3. NoAcceptInv' /\ HoldInv' /\ FillingInv' /\ ServingInv' /\ ResultInv'
        /\ ConnectInv' /\ NoSpuriousReply' /\ ConnectSucceeds'
    BY DEF NoAcceptInv, HoldInv, FillingInv, Filling, ServingInv, ResultInv,
           Mine, ConnectInv, NoSpuriousReply, ConnectSucceeds
  <1> QED BY <1>1, <1>2, <1>3 DEF IInv

\* The call returns to the program.
LEMMA ReturnIInv ==
  ASSUME IInv, Return, AppFrame
  PROVE  IInv'
  <1> USE DEF Return, Verdict
  <1>1. TypeOK'
    BY ReturnTypes
  <1>2. RequestInv'
    BY DEF RequestInv
  <1>3. NoAcceptInv' /\ HoldInv' /\ FillingInv' /\ ServingInv' /\ ResultInv'
        /\ ConnectInv' /\ NoSpuriousReply' /\ ConnectSucceeds'
    BY DEF NoAcceptInv, HoldInv, FillingInv, Filling, ServingInv, ResultInv,
           Mine, ConnectInv, NoSpuriousReply, ConnectSucceeds
  <1> QED BY <1>1, <1>2, <1>3 DEF IInv

\* The program makes a call, which is not accept().
LEMMA InvokeIInv ==
  ASSUME IInv, NoAcceptCalls, Invoke, AppFrame
  PROVE  IInv'
  <1>1. /\ hook.pc = "idle" /\ hook'.pc = "spin" /\ hook'.form \in Forms
        /\ UNCHANGED <<shm, sock, mon, locals, done>> /\ HookTypeOK'
    BY InvokeCall
  <1>2. hook'.form # "ACCEPT"
    <2>1. PICK g \in Forms \cup {"START"} : g = hook.prev[1]
      OBVIOUS
    <2> QED BY <2>1, InvokeCall DEF NoAcceptCalls
  <1>3. TypeOK'
    BY <1>1 DEF StackTypeOK
  <1>4. NoAcceptInv' /\ HoldInv' /\ FillingInv'
    BY <1>1, <1>2 DEF NoAcceptInv, HoldInv, FillingInv, Filling
  <1>5. RequestInv' /\ ServingInv'
    BY <1>1 DEF RequestInv, ServingInv
  <1>6. ResultInv' /\ ConnectInv' /\ NoSpuriousReply' /\ ConnectSucceeds'
    BY <1>1 DEF ResultInv, Mine, ConnectInv, NoSpuriousReply, ConnectSucceeds
  <1> QED BY <1>3, <1>4, <1>5, <1>6 DEF IInv

\* A step of any hook but accept()'s is one of the steps above, with the order
\* of the stores of its form.
LEMMA HookCallSteps ==
  ASSUME IInv, HookCall
  PROVE  \/ Spin
         \/ Claim(IF hook.form = "READ" THEN "fd" ELSE "form")
         \/ StoreForm(IF hook.form \in ArgsFirst THEN "fd" ELSE "flag")
         \/ StoreFlag(CASE hook.form \in ArgsFirst -> "await"
                        [] hook.form = "SOCKET"    -> "arg"
                        [] OTHER                   -> "fd")
         \/ StoreFd(IF hook.form = "CLOSE" THEN "await" ELSE "arg")
         \/ StoreArg(IF hook.form \in ArgsFirst THEN "flag" ELSE "await")
         \/ SeeReply \/ ClearReply \/ LoadRet
  BY HookCallMoves DEF NoAcceptInv

\* So it keeps IInv.
LEMMA HookCallIInv ==
  ASSUME IInv, HookCall, AppFrame
  PROVE  IInv'
  BY HookCallSteps, SpinIInv, ClaimIInv, StoreFormIInv, StoreFlagIInv, StoreFdIInv,
     StoreArgIInv, SeeReplyIInv, ClearReplyIInv, LoadRetIInv

-----------------------------------------------------------------------------
\* A step between two requests touches neither the segments nor the history: it
\* keeps IInv if it looks at a form only while the channel is held.
LEMMA QuietIInv ==
  ASSUME IInv, TypeOK', MonFrame, UNCHANGED shm,
         mon.pc \notin Serving, mon'.pc \notin Serving,
         mon'.form = "ACCEPT" <=> mon'.mode = "accept",
         mon'.mode = "accept" => mon'.pc = "wait",
         mon'.pc = "switch" => ds_form.flag = 1,
         mon'.pc = "wait" /\ mon'.mode # "accept" => ds_form.flag = 1
  PROVE  IInv'
  <1>1. NoAcceptInv' /\ HoldInv'
    BY DEF NoAcceptInv, HoldInv
  <1>2. FillingInv' /\ ServingInv' /\ ConnectInv'
    BY DEF FillingInv, Filling, ServingInv, ConnectInv
  <1>3. RequestInv'
    BY DEF RequestInv
  <1>4. ResultInv'
    BY DEF ResultInv, Mine
  <1>5. NoSpuriousReply' /\ ConnectSucceeds'
    BY DEF NoSpuriousReply, ConnectSucceeds
  <1> QED BY <1>1, <1>2, <1>3, <1>4, <1>5 DEF IInv

\* The steps between two requests: loop(), the polls, the end of
\* preparatory_work, ff_epoll_wait and the events it reports.
LEMMA BetweenRequestsIInv ==
  ASSUME IInv, Loop \/ Poll \/ Switch \/ Tail \/ EpollWait \/ Events, MonFrame
  PROVE  IInv'
  <1> USE DEF Go
  <1>1. CASE Loop \/ Tail
    <2>1. TypeOK'
      BY <1>1, QuietTypes DEF MonitorStep
    <2>2. /\ UNCHANGED shm
          /\ mon.pc \notin Serving /\ mon'.pc \in {"poll", "epoll"}
          /\ mon'.form = mon.form /\ mon'.mode \in {mon.mode, "prep", "service"}
      BY <1>1 DEF Loop, Tail, Dispatch
    <2> QED BY <1>1, <2>1, <2>2, QuietIInv DEF NoAcceptInv, Loop, Tail
  <1>2. CASE Poll
    <2>1. TypeOK'
      BY <1>2, QuietTypes DEF MonitorStep
    <2>2. /\ UNCHANGED shm /\ mon.pc = "poll"
          /\ mon'.form = mon.form /\ mon'.mode = mon.mode
          /\ \/ mon'.pc = "switch" /\ ds_form.flag = 1
             \/ mon'.pc \in {"tail", "stack", "poll"}
      BY <1>2 DEF Poll, RoundEnd
    <2> QED BY <2>1, <2>2, QuietIInv DEF NoAcceptInv
  <1>3. CASE Switch
    <2>1. TypeOK'
      BY <1>3, QuietTypes DEF MonitorStep
    <2>2. /\ UNCHANGED shm /\ mon.pc = "switch" /\ mon'.mode = mon.mode
          /\ \/ mon'.pc = "wait" /\ mon'.form = ds_form.form
             \/ mon'.pc \in {"tail", "stack", "poll"} /\ mon'.form = mon.form
      BY <1>3 DEF Switch, RoundEnd
    <2> QED BY <2>1, <2>2, QuietIInv DEF NoAcceptInv, HoldInv
  <1>4. CASE EpollWait
    <2>1. TypeOK'
      BY <1>4, QuietTypes DEF MonitorStep
    <2> QED BY <1>4, <2>1, QuietIInv DEF EpollWait, NoAcceptInv
  <1>5. CASE Events
    <2>1. ASSUME NEW e \in mon.evs, UdpEvent(e), mon.pc = "events"
          PROVE  IInv'
      <3>1. TypeOK'
        BY <1>5, QuietTypes DEF MonitorStep
      <3> QED BY <2>1, <3>1, QuietIInv DEF UdpEvent, NoAcceptInv
    <2>2. ASSUME NEW e \in mon.evs, TcpEvent(e), mon.pc = "events"
          PROVE  IInv'
      <3>1. TypeOK'
        BY <1>5, QuietTypes DEF MonitorStep
      <3>2. /\ UNCHANGED shm
            /\ \/ mon'.pc = "wait" /\ mon'.mode = "accept" /\ mon'.form = "ACCEPT"
               \/ mon'.pc = "poll" /\ mon'.mode = "tcp" /\ mon'.form = mon.form
               \/ mon'.pc = mon.pc /\ mon'.mode = mon.mode /\ mon'.form = mon.form
        BY <2>2 DEF TcpEvent
      <3> QED BY <2>2, <3>1, <3>2, QuietIInv DEF NoAcceptInv
    <2>3. CASE mon.evs = {} /\ Go("stack") /\ UNCHANGED <<shm, sock, locals>>
      <3>1. TypeOK'
        BY <1>5, QuietTypes DEF MonitorStep
      <3> QED BY <1>5, <2>3, <3>1, QuietIInv DEF Events, NoAcceptInv
    <2> QED BY <1>5, <2>1, <2>2, <2>3 DEF Events
  <1> QED BY <1>1, <1>2, <1>3, <1>4, <1>5

\* Packets reach the stack while the monitor is outside loop().
LEMMA MainLoopIInv ==
  ASSUME IInv, MainLoop, MonFrame
  PROVE  IInv'
  <1>1. TypeOK'
    BY QuietTypes
  <1> QED BY <1>1, QuietIInv DEF MainLoop, NoAcceptInv


\* The slot's flag is seen.  The accept loop never gets here.
LEMMA WaitIInv ==
  ASSUME IInv, Wait, MonFrame
  PROVE  IInv'
  <1> USE DEF Wait, Go
  <1>1. TypeOK'
    BY QuietTypes DEF MonitorStep
  <1>2. NoAcceptInv'
    BY DEF NoAcceptInv
  <1>3. HoldInv'
    BY DEF HoldInv, NoAcceptInv
  <1>4. FillingInv'
    BY DEF FillingInv, Filling, NoAcceptInv
  <1>5. RequestInv'
    BY DEF RequestInv, NoAcceptInv
  <1>6. ServingInv'
    BY DEF ServingInv, RequestInv, NoAcceptInv
  <1>7. ResultInv'
    BY SMTT(40) DEF ResultInv, Mine, RequestInv, NoAcceptInv, ArgsFirst
  <1>8. ConnectInv'
    BY DEF ConnectInv
  <1>9. NoSpuriousReply' /\ ConnectSucceeds'
    BY DEF NoSpuriousReply, ConnectSucceeds
  <1> QED BY <1>1, <1>2, <1>3, <1>4, <1>5, <1>6, <1>7, <1>8, <1>9 DEF IInv

\* The descriptor is tested; the request of a call without one is dropped.
LEMMA GuardIInv ==
  ASSUME IInv, Guard, MonFrame
  PROVE  IInv'
  <1>1. UNCHANGED <<shm, sock, locals>> /\ mon.pc = "guard"
    BY DEF Guard
  <1>2. /\ mon'.pc \in {"exec", "post", "release"} /\ mon'.ret \in Int
        /\ mon'.form = mon.form /\ mon'.mode = mon.mode
        /\ mon'.pc = "exec" \/ ~(fmt[mon.form].fd > 0)
        /\ mon' \in [pc : MonitorPC, mode : Modes, form : Forms, ret : Int,
                     evs : SUBSET Event]
    <2>1. CASE fmt[mon.form].fd > 0
      BY <2>1 DEF Guard, Go, MonitorPC
    <2>2. CASE ~(fmt[mon.form].fd > 0)
      <3>1. PICK garbage \in {-1, 0}, p \in {"post", "release"} :
              mon' = [mon EXCEPT !.pc = p, !.ret = garbage]
        BY <2>2 DEF Guard
      <3>2. p \in MonitorPC /\ garbage \in Int
        BY DEF MonitorPC
      <3> QED BY <2>2, <3>1, <3>2
    <2> QED BY <2>1, <2>2
  <1>3. TypeOK'
    BY <1>1, <1>2 DEF StackTypeOK
  <1>4. NoAcceptInv' /\ HoldInv' /\ FillingInv' /\ ConnectInv'
    BY <1>1, <1>2 DEF NoAcceptInv, HoldInv, FillingInv, Filling, ConnectInv
  <1>5. RequestInv'
    BY <1>1, <1>2 DEF RequestInv, ServingInv, Guarded
  <1>6. ServingInv'
    BY <1>1, <1>2 DEF ServingInv
  <1>7. ResultInv'
    BY <1>1, <1>2 DEF ResultInv, Mine, ServingInv, ArgsFirst
  <1>8. NoSpuriousReply' /\ ConnectSucceeds'
    BY <1>1 DEF NoSpuriousReply, ConnectSucceeds
  <1> QED BY <1>3, <1>4, <1>5, <1>6, <1>7, <1>8 DEF IInv


\* The request's flag is lowered.
LEMMA ClearRequestIInv ==
  ASSUME IInv, ClearRequest, MonFrame
  PROVE  IInv'
  <1> USE DEF ClearRequest, Go
  <1>1. TypeOK'
    BY QuietTypes DEF MonitorStep
  <1>2. NoAcceptInv'
    BY DEF NoAcceptInv
  <1>3. HoldInv'
    BY DEF HoldInv
  <1>4. FillingInv'
    BY DEF FillingInv, Filling
  <1>5. RequestInv'
    BY DEF RequestInv, ServingInv
  <1>6. ServingInv'
    BY DEF ServingInv, ArgsFirst
  <1>7. ResultInv'
    BY DEF ResultInv, Mine, ServingInv, RequestInv, ArgsFirst
  <1>8. ConnectInv'
    BY DEF ConnectInv
  <1>9. NoSpuriousReply' /\ ConnectSucceeds'
    BY DEF NoSpuriousReply, ConnectSucceeds
  <1> QED BY <1>1, <1>2, <1>3, <1>4, <1>5, <1>6, <1>7, <1>8, <1>9 DEF IInv

\* The result is stored: for CONNECT, after its flag was raised.
LEMMA PutRetIInv ==
  ASSUME IInv, PutRet, MonFrame
  PROVE  IInv'
  <1> USE DEF PutRet, Go
  <1>1. TypeOK'
    BY QuietTypes DEF MonitorStep
  <1>2. NoAcceptInv'
    BY DEF NoAcceptInv
  <1>3. HoldInv'
    BY DEF HoldInv
  <1>4. FillingInv'
    BY DEF FillingInv, Filling, NoAcceptInv
  <1>5. RequestInv'
    BY DEF RequestInv
  <1>6. ServingInv'
    BY DEF ServingInv
  <1>7. ResultInv'
    BY DEF ResultInv, Mine, ServingInv, ArgsFirst, RequestInv
  <1>8. ConnectInv'
    BY DEF ConnectInv
  <1>9. NoSpuriousReply' /\ ConnectSucceeds'
    BY DEF NoSpuriousReply, ConnectSucceeds
  <1> QED BY <1>1, <1>2, <1>3, <1>4, <1>5, <1>6, <1>7, <1>8, <1>9 DEF IInv

\* The reply's flag is raised: the call is there to take it.
LEMMA PutFlagIInv ==
  ASSUME IInv, PutFlag, MonFrame
  PROVE  IInv'
  <1> USE DEF PutFlag, AfterFlag, Go
  <1>1. TypeOK'
    BY QuietTypes DEF MonitorStep
  <1>2. NoAcceptInv'
    BY DEF NoAcceptInv
  <1>3. HoldInv'
    BY DEF HoldInv
  <1>4. FillingInv'
    BY DEF FillingInv, Filling, ServingInv
  <1>5. RequestInv'
    BY DEF RequestInv, ServingInv
  <1>6. ServingInv'
    BY DEF ServingInv
  <1>7. ResultInv'
    BY DEF ResultInv, Mine, ServingInv, RequestInv, ArgsFirst
  <1>8. ConnectInv'
    BY DEF ConnectInv
  <1>9. NoSpuriousReply'
    BY DEF NoSpuriousReply, ServingInv
  <1>10. ConnectSucceeds'
    BY DEF ConnectSucceeds
  <1> QED BY <1>1, <1>2, <1>3, <1>4, <1>5, <1>6, <1>7, <1>8, <1>9, <1>10 DEF IInv

\* socket()'s reply flag is raised a second time.
LEMMA SocketAgainIInv ==
  ASSUME IInv, SocketAgain, MonFrame
  PROVE  IInv'
  <1> USE DEF SocketAgain, Go
  <1>1. TypeOK'
    BY QuietTypes DEF MonitorStep
  <1>2. NoAcceptInv'
    BY DEF NoAcceptInv
  <1>3. HoldInv'
    BY DEF HoldInv
  <1>4. FillingInv'
    BY DEF FillingInv, Filling
  <1>5. RequestInv'
    BY DEF RequestInv
  <1>6. ServingInv'
    BY DEF ServingInv
  <1>7. ResultInv'
    BY DEF ResultInv, Mine, ArgsFirst
  <1>8. ConnectInv'
    BY DEF ConnectInv
  <1>9. NoSpuriousReply'
    BY DEF NoSpuriousReply
  <1>10. ConnectSucceeds'
    BY DEF ConnectSucceeds
  <1> QED BY <1>1, <1>2, <1>3, <1>4, <1>5, <1>6, <1>7, <1>8, <1>9, <1>10 DEF IInv

\* The channel is freed.
LEMMA ReleaseIInv ==
  ASSUME IInv, Release, MonFrame
  PROVE  IInv'
  <1> USE DEF Release, Go, CaseEnd, RoundEnd
  <1>1. TypeOK'
    BY QuietTypes DEF MonitorStep
  <1>2. NoAcceptInv'
    BY DEF NoAcceptInv
  <1>3. HoldInv'
    BY DEF HoldInv, NoAcceptInv, DsForm
  <1>4. FillingInv'
    BY DEF FillingInv, Filling
  <1>5. RequestInv'
    BY DEF RequestInv
  <1>6. ServingInv'
    BY DEF ServingInv
  <1>7. ResultInv'
    BY DEF ResultInv, Mine, ServingInv, ArgsFirst
  <1>8. ConnectInv'
    BY DEF ConnectInv
  <1>9. NoSpuriousReply' /\ ConnectSucceeds'
    BY DEF NoSpuriousReply, ConnectSucceeds
  <1> QED BY <1>1, <1>2, <1>3, <1>4, <1>5, <1>6, <1>7, <1>8, <1>9 DEF IInv

\* What SOCKET, BIND and LISTEN do after their reply concerns the stack and the
\* monitor's own variables only.
LEMMA PostIInv ==
  ASSUME IInv, SocketPost \/ BindPost \/ ListenPost, MonFrame
  PROVE  IInv'
  <1> USE DEF Go
  <1>1. /\ UNCHANGED shm /\ mon.pc = "post" /\ mon'.pc = "release"
        /\ mon'.form = mon.form /\ mon'.mode = mon.mode /\ mon'.ret = mon.ret
    BY DEF SocketPost, BindPost, ListenPost
  <1>3. TypeOK'
    BY QuietTypes DEF MonitorStep
  <1>4. NoAcceptInv' /\ HoldInv' /\ FillingInv' /\ ServingInv'
    BY <1>1 DEF NoAcceptInv, HoldInv, FillingInv, Filling, ServingInv
  <1>5. RequestInv'
    BY <1>1 DEF RequestInv
  <1>6. ResultInv'
    BY <1>1 DEF ResultInv, Mine
  <1>7. ConnectInv' /\ NoSpuriousReply' /\ ConnectSucceeds'
    BY <1>1 DEF ConnectInv, NoSpuriousReply, ConnectSucceeds
  <1> QED BY <1>3, <1>4, <1>5, <1>6, <1>7 DEF IInv

\* The stack executes the request: for the calls of ArgsFirst it is, with its
\* fields, that of the call in progress, which has not been executed before.
LEMMA ExecIInv ==
  ASSUME IInv, Exec, UNCHANGED hook,
         done' = [done EXCEPT ![mon.form] =
                    [times |-> IF @.times = 0 THEN 1 ELSE 2,
                     fd |-> fmt[mon.form].fd, arg |-> fmt[mon.form].arg,
                     ret |-> mon'.ret]]
  PROVE  IInv'
  <1>1. PICK o \in Outcomes(mon.form, fmt[mon.form].fd, fmt[mon.form].arg) :
          /\ sock' = o.sock
          /\ mon' = [mon EXCEPT
               !.pc  = IF mon.mode # "accept" THEN "clear"
                       ELSE IF o.ret < 0 THEN "events" ELSE "ret",
               !.ret = IF mon.form = "CONNECT" THEN 0 ELSE o.ret]
    BY DEF Exec
  <1>2. o.ret \in Int /\ o.sock \in [Fds -> Socket]
    BY OutcomesType
  <1>3. UNCHANGED <<shm, locals>> /\ mon.pc = "exec" /\ mon.mode # "accept"
    BY DEF Exec, NoAcceptInv
  <1>4. /\ mon'.pc = "clear" /\ mon'.ret \in Int /\ mon'.form = mon.form
        /\ mon'.mode = mon.mode /\ mon'.evs = mon.evs
        /\ mon.form = "CONNECT" => mon'.ret = 0
    BY <1>1, <1>2, <1>3
  <1>5. TypeOK'
    <2>1. mon' \in [pc : MonitorPC, mode : Modes, form : Forms, ret : Int,
                    evs : SUBSET Event]
      <3>1. mon' = [mon EXCEPT !.pc = "clear", !.ret = mon'.ret]
        BY <1>1, <1>3
      <3>2. "clear" \in MonitorPC
        BY DEF MonitorPC
      <3> QED BY <1>4, <3>1, <3>2
    <2>2. DoneTypeOK'
      BY <1>3, <1>4
    <2> QED BY <1>1, <1>2, <1>3, <2>1, <2>2 DEF StackTypeOK
  <1>6. NoAcceptInv' /\ HoldInv' /\ ConnectInv'
    BY <1>3, <1>4 DEF NoAcceptInv, HoldInv, ConnectInv
  <1>7. FillingInv'
    BY <1>3, <1>4 DEF FillingInv, Filling
  <1>8. RequestInv' /\ ServingInv'
    BY <1>3, <1>4 DEF RequestInv, ServingInv
  <1>9. ResultInv'
    BY <1>3, <1>4 DEF ResultInv, Mine, ServingInv, RequestInv, ArgsFirst
  <1>10. NoSpuriousReply' /\ ConnectSucceeds'
    BY <1>3 DEF NoSpuriousReply, ConnectSucceeds
  <1> QED BY <1>5, <1>6, <1>7, <1>8, <1>9, <1>10 DEF IInv

-----------------------------------------------------------------------------
\* What a step of the application does to the slot of a form of ArgsFirst.
LEMMA HookSlotSteps ==
  ASSUME TypeOK, HookNext, NEW f \in ArgsFirst
  PROVE  SlotStep(f, hook, hook')
  <1>0. f \in Forms /\ fmt[f] \in Request /\ fmtr[f] \in Reply
    BY DEF ArgsFirst, Forms
  <1>1. CASE Invoke
    BY <1>1, InvokeCall DEF SlotStep
  <1>2. CASE Spin \/ Retry \/ Return
    BY <1>2 DEF Spin, Retry, Return, SlotStep
  <1>3. CASE Claim(IF hook.form = "READ" THEN "fd" ELSE "form")
    BY <1>3 DEF Claim, SlotStep
  <1>4. CASE StoreForm(IF hook.form \in ArgsFirst \cup {"ACCEPT"} THEN "fd" ELSE "flag")
    BY <1>4 DEF StoreForm, SlotStep
  <1>5. CASE StoreFlag(CASE hook.form \in ArgsFirst \cup {"ACCEPT"} -> "await"
                         [] hook.form = "SOCKET"                    -> "arg"
                         [] OTHER                                   -> "fd")
    <2> DEFINE p == CASE hook.form \in ArgsFirst \cup {"ACCEPT"} -> "await"
                      [] hook.form = "SOCKET"                    -> "arg"
                      [] OTHER                                   -> "fd"
    <2>1. hook.form = f => p = "await"
      <3>1. hook.form = f => hook.form \notin {"SOCKET"}
        BY DEF ArgsFirst
      <3> QED BY <3>1
    <2>2. StoreFlag(p)
      BY <1>5
    <2> HIDE DEF p
    <2>3. /\ hook.pc = "flag" /\ fmt' = [fmt EXCEPT ![hook.form].flag = 1] /\ UNCHANGED fmtr
          /\ hook'.form = hook.form /\ hook'.fd = hook.fd /\ hook'.arg = hook.arg
          /\ hook'.pc = p
      BY <2>2 DEF StoreFlag
    <2> QED BY <1>0, <2>1, <2>3 DEF SlotStep
  <1>6. CASE StoreFd(IF hook.form = "CLOSE" THEN "await" ELSE "arg")
    <2>1. /\ hook.pc = "fd" /\ fmt' = [fmt EXCEPT ![hook.form].fd = hook.fd] /\ UNCHANGED fmtr
          /\ hook'.form = hook.form /\ hook'.fd = hook.fd /\ hook'.arg = hook.arg
          /\ hook.form = f => hook'.pc = "arg"
      BY <1>6 DEF StoreFd, ArgsFirst
    <2> QED BY <1>0, <2>1 DEF SlotStep
  <1>7. CASE StoreArg(IF hook.form \in ArgsFirst \cup {"ACCEPT"} THEN "flag" ELSE "await")
    <2>1. /\ hook.pc = "arg" /\ fmt' = [fmt EXCEPT ![hook.form].arg = hook.arg] /\ UNCHANGED fmtr
          /\ hook'.form = hook.form /\ hook'.fd = hook.fd /\ hook'.arg = hook.arg
          /\ hook.form = f => hook'.pc = "flag"
      BY <1>7 DEF StoreArg
    <2> QED BY <1>0, <2>1 DEF SlotStep
  <1>8. CASE SeeReply \/ LoadRet
    <2>1. CASE SeeReply
      BY <2>1 DEF SeeReply, SlotStep
    <2>2. CASE LoadRet
      <3>1. /\ hook.pc = "ret" /\ hook'.pc = "back" /\ UNCHANGED <<fmt, fmtr>>
            /\ hook'.form = hook.form /\ hook'.fd = hook.fd /\ hook'.arg = hook.arg
            /\ hook'.ret = fmtr[hook.form].ret
        BY <2>2 DEF LoadRet
      <3> QED BY <3>1 DEF SlotStep
    <2> QED BY <1>8, <2>1, <2>2
  <1>9. CASE ClearReply
    <2>1. /\ hook.pc = "clear" /\ fmtr' = [fmtr EXCEPT ![hook.form].flag = 0] /\ UNCHANGED fmt
          /\ hook'.form = hook.form /\ hook'.fd = hook.fd /\ hook'.arg = hook.arg
          /\ hook'.pc = "ret"
      BY <1>9 DEF ClearReply
    <2> QED BY <1>0, <2>1 DEF SlotStep
  <1> QED BY <1>1, <1>2, <1>3, <1>4, <1>5, <1>6, <1>7, <1>8, <1>9, HookCallMoves
          DEF HookNext

\* What the monitor stores for CONNECT is 0.
LEMMA MonitorConnect ==
  ASSUME TypeOK, ConnectInv, MonitorStep \/ MainLoop
  PROVE  ConnectInv'
  <1> USE DEF ConnectInv, Go
  <1>0. "CONNECT" \in Forms
    BY DEF Forms
  <1>1. CASE Loop \/ Poll \/ Switch \/ Tail
    BY ZenonT(60), <1>1 DEF Loop, Poll, Switch, Tail, Dispatch, RoundEnd
  <1>2. CASE Wait \/ Guard \/ EpollWait
    BY <1>2 DEF Wait, Guard, EpollWait
  <1>3. CASE Exec
    <2>1. UNCHANGED fmtr /\ mon'.form = mon.form /\ (mon.form = "CONNECT" => mon'.ret = 0)
      BY <1>3 DEF Exec
    <2> QED BY <2>1
  <1>4. CASE Events
    BY ZenonT(60), <1>4 DEF Events, UdpEvent, TcpEvent
  <1>5. CASE ClearRequest \/ PutRet \/ PutFlag
    BY <1>0, <1>5 DEF ClearRequest, PutRet, PutFlag
  <1>6. CASE Release \/ SocketAgain
    BY <1>0, <1>6 DEF Release, CaseEnd, RoundEnd, SocketAgain
  <1>7. CASE SocketPost \/ BindPost \/ ListenPost \/ AcceptPost
    BY <1>7 DEF SocketPost, BindPost, ListenPost, AcceptPost
  <1>8. CASE MainLoop
    BY <1>8 DEF MainLoop
  <1> QED BY <1>1, <1>2, <1>3, <1>4, <1>5, <1>6, <1>7, <1>8 DEF MonitorStep

\* A hook loads that result and stores none.
LEMMA AppConnect ==
  ASSUME TypeOK, ConnectInv, ConnectSucceeds, HookNext, AppFrame
  PROVE  ConnectInv' /\ ConnectSucceeds'
  <1>1. CASE Invoke \/ Retry \/ Return
    <2>1. UNCHANGED <<shm, mon>> /\ hook'.pc # "back"
      BY <1>1 DEF Invoke, Retry, Return
    <2> QED BY <2>1 DEF ConnectInv, ConnectSucceeds
  <1>2. CASE LoadRet
    BY <1>2 DEF LoadRet, ConnectInv, ConnectSucceeds
  <1>3. CASE ClearReply
    BY <1>3 DEF ClearReply, ConnectInv, ConnectSucceeds
  <1>4. CASE HookCall /\ ~LoadRet /\ ~ClearReply
    <2>1. UNCHANGED <<fmtr, mon>> /\ hook'.pc # "back"
      BY <1>4, HookCallMoves DEF Spin, Claim, StoreForm, StoreFlag, StoreFd, StoreArg,
                                 SeeReply
    <2> QED BY <2>1 DEF ConnectInv, ConnectSucceeds
  <1> QED BY <1>1, <1>2, <1>3, <1>4 DEF HookNext

\* The application keeps the handshake of every slot: there is no other caller.
LEMMA AppSlotInv ==
  ASSUME SlotInv, HookNext, AppFrame
  PROVE  SlotInv'
  <1> USE DEF SlotInv
  <1>1. TypeOK'
    BY AppTypes
  <1>2. ModeInv'
    BY DEF ModeInv
  <1>3. ConnectInv' /\ ConnectSucceeds'
    BY AppConnect
  <1>4. ASSUME NEW f \in ArgsFirst
        PROVE  Handshake(f, hook, done[f])'
    <2>1. PICK h, h2, d, d2 : h = hook /\ h2 = hook' /\ d = done[f] /\ d2 = done'[f]
      OBVIOUS
    <2>2. Handshake(f, h, d) /\ SlotStep(f, h, h2)
      BY <2>1, HookSlotSteps
    <2>3. h.form = f => IF h.pc = "claim" THEN d2.times = 0 ELSE d2 = d
      BY <2>1 DEF Nothing, ArgsFirst, Forms
    <2>4. Handshake(f, h2, d2)'
      BY <2>2, <2>3, CallerHandshake
    <2> QED BY <2>1, <2>4 DEF Handshake, ExecutedOnce
  <1> QED BY <1>1, <1>2, <1>3, <1>4

\* The monitor keeps it for the slot it serves and touches no other; the
\* result it stores for CONNECT is 0.
LEMMA MonSlotInv ==
  ASSUME SlotInv, Monitor \/ Packets
  PROVE  SlotInv'
  <1> USE DEF SlotInv
  <1>0. (MonitorStep \/ MainLoop) /\ UNCHANGED hook
    BY DEF Monitor, Packets
  <1>1. TypeOK'
    BY MonTypes
  <1>2. ModeInv'
    BY <1>0, ModeKept
  <1>3. ConnectInv' /\ ConnectSucceeds'
    BY <1>0, MonitorConnect DEF ConnectSucceeds
  <1>4. ASSUME NEW f \in ArgsFirst
        PROVE  Handshake(f, hook, done[f])'
    <2>1. PICK h, d, d2 : h = hook /\ d = done[f] /\ d2 = done'[f]
      OBVIOUS
    <2>2. Handshake(f, h, d)
      BY <2>1
    <2>3. d2 = IF mon.pc = "exec" /\ mon.form = f THEN Recorded(f, d) ELSE d
      <3>1. CASE Monitor
        BY <2>1, <3>1 DEF Monitor, Recorded, ArgsFirst, Forms
      <3>2. CASE Packets
        BY <2>1, <3>2 DEF Packets, MainLoop
      <3> QED BY <3>1, <3>2
    <2>4. Handshake(f, h, d2)'
      BY <1>0, <2>2, <2>3, MonitorHandshake
    <2> QED BY <1>0, <2>1, <2>4 DEF Handshake, ExecutedOnce
  <1> QED BY <1>1, <1>2, <1>3, <1>4

\* SlotInv is inductive, for every application.
LEMMA NextSlotInv == SlotInv /\ [Next]_vars => SlotInv'
  <1> SUFFICES ASSUME SlotInv, [Next]_vars PROVE SlotInv'
    OBVIOUS
  <1>1. CASE Application
    BY <1>1, AppSlotInv DEF Application
  <1>2. CASE Monitor \/ Packets
    BY <1>2, MonSlotInv
  <1>3. CASE UNCHANGED vars
    <2>1. TypeOK'
      BY <1>3, NextTypes DEF SlotInv
    <2>2. ModeInv' /\ ConnectInv' /\ ConnectSucceeds'
      BY <1>3 DEF SlotInv, vars, ModeInv, ConnectInv, ConnectSucceeds
    <2>3. ASSUME NEW f \in ArgsFirst
          PROVE  Handshake(f, hook, done[f])'
      BY <1>3 DEF SlotInv, vars, Handshake, ExecutedOnce
    <2> QED BY <2>1, <2>2, <2>3 DEF SlotInv
  <1> QED BY <1>1, <1>2, <1>3 DEF Next

-----------------------------------------------------------------------------
\* The segments are zero-filled and nothing has happened.
LEMMA InitIInv == Init => IInv
  <1> SUFFICES ASSUME Init PROVE IInv
    OBVIOUS
  <1> USE DEF Init, ft_init, HookInit, HookStart, StackInit, MonitorInit,
             MonitorStart
  <1>1. TypeOK
    BY NothingType, FreshType, MaxCallsAssumption
       DEF DsForm, HookPC, MonitorPC, Modes, Forms, StackTypeOK, Kinds
  <1>2. NoAcceptInv /\ HoldInv /\ FillingInv /\ ServingInv
    BY DEF NoAcceptInv, HoldInv, FillingInv, Filling, ServingInv, Forms
  <1>3. RequestInv /\ ResultInv /\ ConnectInv /\ NoSpuriousReply /\ ConnectSucceeds
    BY DEF RequestInv, ResultInv, ConnectInv, NoSpuriousReply, ConnectSucceeds,
           ArgsFirst, Forms
  <1> QED BY <1>1, <1>2, <1>3

\* Every step keeps IInv.
LEMMA NextIInv == NoAcceptCalls /\ IInv /\ [Next]_vars => IInv'
  <1> SUFFICES ASSUME NoAcceptCalls, IInv, [Next]_vars PROVE IInv'
    OBVIOUS
  <1>1. CASE Application
    <2>1. AppFrame
      BY <1>1 DEF Application
    <2> QED BY <1>1, <2>1, InvokeIInv, HookCallIInv, RetryIInv, ReturnIInv
            DEF Application, HookNext
  <1>2. CASE Monitor
    <2>1. CASE Exec
      BY <1>2, <2>1, ExecIInv DEF Monitor, Exec
    <2>2. CASE Loop \/ Poll \/ Switch \/ Tail \/ EpollWait \/ Events
      <3>1. MonFrame
        BY <1>2, <2>2 DEF Monitor, Loop, Poll, Switch, Tail, EpollWait, Events
      <3> QED BY <2>2, <3>1, BetweenRequestsIInv
    <2>3. CASE Wait \/ Guard \/ ClearRequest \/ PutRet \/ PutFlag
      <3>1. MonFrame
        BY <1>2, <2>3 DEF Monitor, Wait, Guard, ClearRequest, PutRet, PutFlag
      <3> QED BY <2>3, <3>1, WaitIInv, GuardIInv, ClearRequestIInv, PutRetIInv,
                 PutFlagIInv
    <2>4. CASE \/ SocketPost \/ BindPost \/ ListenPost
               \/ Release \/ SocketAgain
      <3>1. MonFrame
        BY <1>2, <2>4 DEF Monitor, SocketPost, BindPost, ListenPost, Release,
                          SocketAgain
      <3> QED BY <2>4, <3>1, PostIInv, ReleaseIInv, SocketAgainIInv
    <2>5. CASE AcceptPost
      BY <2>5 DEF AcceptPost, NoAcceptInv
    <2> QED BY <1>2, <2>1, <2>2, <2>3, <2>4, <2>5 DEF Monitor, MonitorStep
  <1>3. CASE Packets
    BY <1>3, MainLoopIInv DEF Packets
  <1>4. CASE UNCHANGED vars
    <2>1. TypeOK'
      BY <1>4 DEF vars, StackTypeOK
    <2>2. NoAcceptInv' /\ HoldInv' /\ FillingInv' /\ RequestInv' /\ ServingInv'
      BY <1>4 DEF vars, NoAcceptInv, HoldInv, FillingInv, Filling, RequestInv,
                  ServingInv
    <2>3. ResultInv' /\ ConnectInv' /\ NoSpuriousReply' /\ ConnectSucceeds'
      BY <1>4 DEF vars, ResultInv, Mine, ConnectInv, NoSpuriousReply,
                  ConnectSucceeds
    <2> QED BY <2>1, <2>2, <2>3 DEF IInv
  <1> QED BY <1>1, <1>2, <1>3, <1>4 DEF Next

\* Nothing is asked for in the beginning.
LEMMA InitSlotInv == Init => SlotInv
  <1> SUFFICES ASSUME Init PROVE SlotInv
    OBVIOUS
  <1>1. TypeOK /\ ConnectInv /\ ConnectSucceeds
    BY InitIInv
  <1>2. ModeInv
    BY DEF Init, MonitorInit, MonitorStart, ModeInv
  <1>3. ASSUME NEW f \in ArgsFirst
        PROVE  Handshake(f, hook, done[f])
    <2>1. f \in Forms
      BY DEF ArgsFirst, Forms
    <2> QED BY <2>1 DEF Init, ft_init, HookInit, HookStart, MonitorInit, MonitorStart,
                        Handshake, ExecutedOnce
  <1> QED BY <1>1, <1>2, <1>3 DEF SlotInv

\* What SlotInv says of a call that returns.
LEMMA SlotInvMeans == SlotInv => TypeOK /\ OwnResult /\ ConnectSucceeds
  BY DEF SlotInv, OwnResult, Handshake, ExecutedOnce

\* What IInv says of a call in progress.
LEMMA IInvMeans == IInv => NoLostRequest /\ NoSpuriousReply
  BY DEF NoLostRequest, ResultInv, Mine

HIDE DEF IInv, TypeOK

\* IInv, the inductive invariant of hook, channel and monitor (ft_hook.c, main.c),
\* holds in every state that a program without accept() can reach.
THEOREM SpecIInv == NoAcceptCalls => (Spec => []IInv)
  <1> SUFFICES ASSUME NoAcceptCalls PROVE Spec => []IInv
    OBVIOUS
  <1>1. IInv /\ [Next]_vars => IInv'
    BY NextIInv
  <1> QED BY <1>1, InitIInv, PTL DEF Spec

\* A published request keeps the channel until the monitor has executed it.
THEOREM RequestsAreNotLost == NoAcceptCalls => (Spec => []NoLostRequest)
  BY SpecIInv, IInvMeans, PTL

\* No reply is left behind for a later call, except by socket().
THEOREM RepliesAreConsumed == NoAcceptCalls => (Spec => []NoSpuriousReply)
  BY SpecIInv, IInvMeans, PTL

\* SlotInv, the handshake of hook and monitor over each slot (ft_hook.c, main.c),
\* holds in every state that any program can reach.
THEOREM SpecSlotInv == Spec => []SlotInv
  BY InitSlotInv, NextSlotInv, PTL DEF Spec

\* The type invariant of the two segments, the hook, the stack and the monitor.
THEOREM TypeCorrect == Spec => []TypeOK
  BY SpecSlotInv, SlotInvMeans, PTL

\* Each call of ArgsFirst returns the result of its own, single execution by
\* the monitor, with the arguments it was made with (ft_hook_*, monitor/main.c).
THEOREM CallsReturnOwnResult == Spec => []OwnResult
  BY SpecSlotInv, SlotInvMeans, PTL

\* connect() returns 0 although its reply's flag is raised before its result.
THEOREM ConnectReturnsZero == Spec => []ConnectSucceeds
  BY SpecSlotInv, SlotInvMeans, PTL

-----------------------------------------------------------------------------
(***************************************************************************)
(* FtSystem implements FtRpc: seen from the program, a call of ArgsFirst   *)
(* is a direct call of the stack.  The mapping reads the abstract call off *)
(* the hook's position and the history; a step of the hook is Ask, Deliver,*)
(* Finish or a stutter, the monitor's Exec is Execute when it serves the   *)
(* call in progress, and all its other steps are Background.               *)
(***************************************************************************)
USE DEF TypeOK

\* FtRpc's stack is FtSystem's.
LEMMA SameStack ==
  /\ Rpc!Socket = Socket
  /\ \A f, fd, arg : Rpc!Outcomes(f, fd, arg) = Outcomes(f, fd, arg)
  <1> USE DEF Rpc!Fails, Fails, Rpc!Result, Result, Rpc!IsOpen, IsOpen, Rpc!Fresh, Fresh
  <1>1. Rpc!Socket = Socket
    BY DEF Rpc!Socket, Rpc!Kinds, Socket, Kinds
  <1>2. \A k : Rpc!NewFd(k) = NewFd(k)
    BY DEF Rpc!NewFd, NewFd
  <1>3. /\ \A type : Rpc!ff_socket(type) = ff_socket(type)
        /\ \A fd : Rpc!ff_accept(fd) = ff_accept(fd)
    BY <1>2 DEF Rpc!ff_socket, ff_socket, Rpc!ff_accept, ff_accept,
                Rpc!STREAM, Rpc!DGRAM, STREAM, DGRAM
  <1>4. \A fd : /\ Rpc!ff_close(fd) = ff_close(fd)
                /\ Rpc!ff_connect(fd) = ff_connect(fd)
                /\ Rpc!ff_listen(fd) = ff_listen(fd)
                /\ Rpc!ff_option(fd) = ff_option(fd)
    BY DEF Rpc!ff_close, ff_close, Rpc!ff_connect, ff_connect, Rpc!ff_listen,
           ff_listen, Rpc!ff_option, ff_option
  <1>5. \A fd : /\ Rpc!ff_send(fd) = ff_send(fd)
                /\ Rpc!ff_recv(fd) = ff_recv(fd)
    BY DEF Rpc!ff_send, ff_send, Rpc!ff_recv, ff_recv, Rpc!ReturnError, ReturnError
  <1>6. Rpc!ff_select = ff_select
    BY DEF Rpc!ff_select, ff_select
  <1> QED BY <1>1, <1>3, <1>4, <1>5, <1>6 DEF Rpc!Outcomes, Outcomes

\* Nothing has been asked, and no socket is open.
LEMMA RpcInit == Init => Rpc!Init
  BY DEF Init, HookInit, HookStart, Rpc!Init, rpcCall, Rpc!NoCall, StackInit, Rpc!StackInit,
         Fresh, Rpc!Fresh

\* A call that has left idle, spin and claim and has not returned keeps its
\* abstract state while only the hook's position moves.
LEMMA RpcMoves ==
  ASSUME TypeOK, UNCHANGED <<sock, done>>,
         hook.pc \in {"form", "flag", "fd", "arg", "await", "clear"},
         NEW pc \in {"flag", "fd", "arg", "await", "clear", "ret"},
         hook' = [hook EXCEPT !.pc = pc]
  PROVE  UNCHANGED <<rpcCall, sock>>
  BY DEF rpcCall

\* Taking the channel asks, loading the result delivers it, and what follows
\* (return, or another try) finishes the call.
LEMMA RpcHook ==
  ASSUME SlotInv, TypeOK, HookNext, AppFrame
  PROVE  [Rpc!Next]_<<rpcCall, sock>>
  <1>1. CASE Invoke
    BY <1>1 DEF Invoke, rpcCall
  <1>2. CASE Spin
    BY <1>2 DEF Spin, rpcCall
  <1>3. CASE Claim(IF hook.form = "READ" THEN "fd" ELSE "form")
    <2>1. CASE hook.form \notin ArgsFirst
      BY <1>3, <2>1 DEF Claim, rpcCall
    <2>2. CASE hook.form \in ArgsFirst
      <3>1. hook'.pc \in {"fd", "form"} /\ hook'.form = hook.form
            /\ hook'.fd = hook.fd /\ hook'.arg = hook.arg /\ done' = Nothing
            /\ hook.pc = "claim"
        BY <1>3 DEF Claim
      <3>2. rpcCall' = [st |-> "asked", form |-> hook.form, fd |-> hook.fd,
                        arg |-> hook.arg]
        BY <2>2, <3>1 DEF rpcCall, Nothing
      <3>3. rpcCall.st = "none"
        BY <3>1 DEF rpcCall
      <3>4. rpcCall' \in Rpc!AskedCall
        BY <3>2 DEF Rpc!AskedCall, Rpc!Forms, Forms
      <3> QED BY <3>3, <3>4 DEF Rpc!Ask, Rpc!Next
    <2> QED BY <2>1, <2>2
  <1>4. CASE \/ StoreForm(IF hook.form \in ArgsFirst \cup {"ACCEPT"} THEN "fd" ELSE "flag")
             \/ StoreFlag(CASE hook.form \in ArgsFirst \cup {"ACCEPT"} -> "await"
                            [] hook.form = "SOCKET"                    -> "arg"
                            [] OTHER                                   -> "fd")
             \/ StoreFd(IF hook.form = "CLOSE" THEN "await" ELSE "arg")
             \/ StoreArg(IF hook.form \in ArgsFirst \cup {"ACCEPT"} THEN "flag" ELSE "await")
             \/ SeeReply \/ ClearReply
    BY <1>4, RpcMoves DEF StoreForm, StoreFlag, StoreFd, StoreArg, SeeReply, ClearReply
  <1>5. CASE LoadRet
    <2>1. CASE hook.form \notin ArgsFirst
      BY <1>5, <2>1 DEF LoadRet, rpcCall
    <2>2. CASE hook.form \in ArgsFirst
      <3>1. /\ hook.pc = "ret"
            /\ done[hook.form] = ExecutedOnce(hook, fmtr[hook.form].ret)
        BY <1>5, <2>2 DEF LoadRet, SlotInv, Handshake
      <3>2. /\ hook'.pc = "back" /\ hook'.form = hook.form
            /\ hook'.ret = done[hook.form].ret
        BY <1>5, <3>1 DEF LoadRet, ExecutedOnce
      <3>3. rpcCall.st = "done" /\ rpcCall' = [rpcCall EXCEPT !.st = "back"]
        BY <2>2, <3>1, <3>2 DEF rpcCall, ExecutedOnce
      <3> QED BY <3>3 DEF Rpc!Deliver, Rpc!Next
    <2> QED BY <2>1, <2>2
  <1>6. CASE Retry \/ Return
    <2>1. hook.pc = "back" /\ hook'.pc \in {"spin", "idle"} /\ hook'.form = hook.form
      BY <1>6 DEF Retry, Return
    <2> QED BY <2>1 DEF rpcCall, Rpc!Finish, Rpc!NoCall, Rpc!Next
  <1> QED BY <1>1, <1>2, <1>3, <1>4, <1>5, <1>6, HookCallMoves DEF HookNext

\* The monitor executes the call in progress, with its arguments and for the
\* first time; or what it executes is not one of these calls.
LEMMA RpcExec ==
  ASSUME SlotInv, TypeOK, Monitor, Exec, StackTypeOK'
  PROVE  [Rpc!Next]_<<rpcCall, sock>>
  <1>1. /\ mon.pc = "exec" /\ UNCHANGED hook
        /\ done' = [done EXCEPT ![mon.form] =
                     [times |-> IF @.times = 0 THEN 1 ELSE 2,
                      fd |-> fmt[mon.form].fd, arg |-> fmt[mon.form].arg,
                      ret |-> mon'.ret]]
    BY DEF Monitor, Exec
  <1>2. CASE mon.form \in ArgsFirst
    <2>1. /\ hook.form = mon.form /\ hook.pc = "await" /\ fmt[mon.form].flag = 1
          /\ done[hook.form].times = 0
          /\ fmt[mon.form].fd = hook.fd /\ fmt[mon.form].arg = hook.arg
      BY <1>1, <1>2 DEF SlotInv, Handshake
    <2>2. PICK o \in Outcomes(mon.form, fmt[mon.form].fd, fmt[mon.form].arg) :
            /\ sock' = o.sock
            /\ mon' = [mon EXCEPT
                 !.pc  = IF mon.mode # "accept" THEN "clear"
                         ELSE IF o.ret < 0 THEN "events" ELSE "ret",
                 !.ret = IF mon.form = "CONNECT" THEN 0 ELSE o.ret]
      BY DEF Exec
    <2>3. mon'.ret = o.ret
      BY <1>2, <2>2 DEF ArgsFirst
    <2>4. rpcCall = [st |-> "asked", form |-> hook.form, fd |-> hook.fd,
                     arg |-> hook.arg]
      BY <1>2, <2>1 DEF rpcCall
    <2>5. rpcCall' = [st |-> "done", form |-> hook.form, fd |-> hook.fd,
                      arg |-> hook.arg, ret |-> o.ret]
      BY <1>1, <1>2, <2>1, <2>3 DEF rpcCall
    <2>6. o \in Rpc!Outcomes(rpcCall.form, rpcCall.fd, rpcCall.arg)
      BY <2>1, <2>2, <2>4, SameStack
    <2> QED BY <2>2, <2>4, <2>5, <2>6 DEF Rpc!Execute, Rpc!Answered, Rpc!Next
  <1>3. CASE mon.form \notin ArgsFirst
    <2>1. UNCHANGED rpcCall
      BY <1>1, <1>3 DEF rpcCall
    <2> QED BY <2>1, SameStack DEF StackTypeOK, Rpc!Background, Rpc!Next
  <1> QED BY <1>2, <1>3

\* Every step is a step of FtRpc or changes nothing it sees.
LEMMA RpcNext ==
  ASSUME SlotInv, TypeOK, TypeOK', [Next]_vars
  PROVE  [Rpc!Next]_<<rpcCall, sock>>
  <1>1. CASE Application
    BY <1>1, RpcHook DEF Application
  <1>2. CASE Monitor /\ Exec
    BY <1>2, RpcExec
  <1>3. CASE \/ Monitor /\ mon.pc # "exec"
             \/ Packets
    <2>1. UNCHANGED rpcCall
      BY <1>3 DEF Monitor, Packets, rpcCall
    <2> QED BY <2>1, SameStack DEF StackTypeOK, Rpc!Background, Rpc!Next
  <1>4. CASE UNCHANGED vars
    BY <1>4 DEF vars, rpcCall
  <1>5. Monitor /\ mon.pc = "exec" => Exec
    BY DEF Monitor, MonitorStep, Loop, Poll, Switch, Wait, Guard, ClearRequest, PutRet,
           PutFlag, SocketPost, BindPost, ListenPost, Release, SocketAgain, Tail,
           EpollWait, Events, AcceptPost
  <1> QED BY <1>1, <1>2, <1>3, <1>4, <1>5 DEF Next

HIDE DEF TypeOK

\* For every program, any number of calls and descriptors and whatever the
\* network does, the calls of ArgsFirst through the two segments (ft_hook.c,
\* monitor/main.c) are direct calls of the stack.
THEOREM CallsAreDirect == Spec => DirectCall
  <1>1. SlotInv /\ TypeOK /\ TypeOK' /\ [Next]_vars => [Rpc!Next]_<<rpcCall, sock>>
    BY RpcNext
  <1> QED BY <1>1, SpecSlotInv, TypeCorrect, RpcInit, PTL DEF Spec, DirectCall, Rpc!Spec

-----------------------------------------------------------------------------
(***************************************************************************)
(* Servers such as tcp_server.c: ServerInv, and that the accept loop of    *)
(* service_epoll is entered for a listening descriptor only.               *)
(***************************************************************************)
USE DEF TypeOK

\* The parts of ServerInv that a step can disturb.
Server == SocketInv /\ ListenerInv /\ ConnectionInv /\ AcceptsOnListener

\* What the parts are about, expanded in the leaves.
USE DEF Listener, BeforeSocket, AfterSocket, SocketInv, ListenerInv, ConnectionInv,
        AcceptsOnListener, OnConnection

\* The first call is socket(); there is no second one and no connect(); a call on
\* a connection comes after a successful accept().
LEMMA InvokeServer ==
  ASSUME ServerProgram, TypeOK, Server, Invoke, AppFrame
  PROVE  Server'
  <1>1. hook.pc = "idle" /\ UNCHANGED <<shm, sock, mon>>
    BY DEF Invoke
  <1>2. PICK f \in Follow[hook.prev[1]][hook.prev[2]] : \E a \in ArgsOf(f) :
          hook' = [hook EXCEPT !.pc = "spin", !.form = f, !.fd = FdFor(f),
                               !.arg = a, !.n = @ + 1]
    BY Zenon DEF Invoke
  <1>3. PICK a \in ArgsOf(f) :
          hook' = [hook EXCEPT !.pc = "spin", !.form = f, !.fd = FdFor(f),
                               !.arg = a, !.n = @ + 1]
    BY <1>2, Zenon
  <1>4. /\ hook'.pc = "spin" /\ hook'.form = f /\ hook'.fd = FdFor(f) /\ hook'.arg = a
        /\ hook'.prev = hook.prev /\ hook'.conn = hook.conn /\ hook'.ret = hook.ret
    BY <1>3
  <1>5. PICK g \in Forms \cup {"START"}, o \in {"ok", "err"} :
          g = hook.prev[1] /\ o = hook.prev[2]
    OBVIOUS
  <1>6. f \in Follow[g][o] /\ f \in Forms
    BY <1>4, <1>5, InvokeCall
  <1>7. /\ f # "CONNECT"
        /\ f = "SOCKET" => g = "START"
        /\ f \in OnConnection => g \in OnConnection \/ (g = "ACCEPT" /\ o = "ok")
    <2>1. /\ "CONNECT" \notin Follow[g][o]
          /\ "SOCKET" \in Follow[g][o] => g = "START"
          /\ OnConnection \cap Follow[g][o] # {} =>
               g \in OnConnection \/ (g = "ACCEPT" /\ o = "ok")
      BY <1>5 DEF ServerProgram, ServerCalls
    <2> QED BY <1>6, <2>1
  <1>8. g = "START" => f = "SOCKET"
    BY <1>5, <1>6, FollowAssumption DEF Server
  <1>9. f = "SOCKET" => a # DGRAM
    BY DEF ServerProgram, ArgsOf
  <1>10. f \in OnConnection => hook.conn # 0
    BY <1>5, <1>7 DEF Server
  <1>11. f = "CLOSE" => hook'.fd = hook.conn
    BY <1>4, <1>10 DEF FdFor
  <1>12. SocketInv'
    BY <1>1, <1>4, <1>5, <1>7, <1>8, <1>9 DEF Server
  <1>13. ListenerInv' /\ AcceptsOnListener'
    BY <1>1, <1>4, <1>7 DEF Server
  <1>14. ConnectionInv'
    BY <1>1, <1>4, <1>10, <1>11 DEF Server
  <1> QED BY <1>12, <1>13, <1>14 DEF Server

\* The other moves of a hook keep the call in progress; a hook waits for a reply.
LEMMA HookMoveServer ==
  ASSUME TypeOK, TypeOK', Server, HookCall, AppFrame
  PROVE  Server'
  <1> USE DEF Server, ArgsFirst, Forms
  <1>1. CASE Spin
    BY <1>1 DEF Spin
  <1>2. CASE Claim(IF hook.form = "READ" THEN "fd" ELSE "form")
    BY <1>2 DEF Claim
  <1>3. CASE StoreForm(IF hook.form \in ArgsFirst \cup {"ACCEPT"} THEN "fd" ELSE "flag")
    <2>1. /\ hook.pc = "form" /\ hook'.pc \in {"fd", "flag"}
          /\ hook'.form = hook.form /\ hook'.fd = hook.fd /\ hook'.arg = hook.arg
          /\ hook'.ret = hook.ret /\ hook'.prev = hook.prev /\ hook'.conn = hook.conn
          /\ UNCHANGED <<fmt, fmtr, mon, sock>>
      BY <1>3 DEF StoreForm
    <2>2. SocketInv'
      <3>1. CASE Listener = 0
        BY <2>1, <3>1
      <3>2. CASE Listener # 0
        BY <2>1, <3>2
      <3> QED BY <3>1, <3>2
    <2>3. ListenerInv' /\ AcceptsOnListener'
      BY <2>1
    <2>4. ConnectionInv'
      BY <2>1
    <2> QED BY <2>2, <2>3, <2>4
  <1>4. CASE StoreFlag(CASE hook.form \in ArgsFirst \cup {"ACCEPT"} -> "await"
                        [] hook.form = "SOCKET"                    -> "arg"
                        [] OTHER                                   -> "fd")
    <2>1. /\ hook.pc = "flag" /\ hook'.pc \in {"await", "arg", "fd"}
          /\ hook.form = "SOCKET" => hook'.pc = "arg"
          /\ hook'.form = hook.form /\ hook'.fd = hook.fd /\ hook'.arg = hook.arg
          /\ hook'.ret = hook.ret /\ hook'.prev = hook.prev /\ hook'.conn = hook.conn
          /\ UNCHANGED <<fmtr, mon, sock>>
      BY <1>4 DEF StoreFlag
    <2>2. /\ \A g \in Forms \ {hook.form} : fmt'[g] = fmt[g]
          /\ fmt'["SOCKET"].arg = fmt["SOCKET"].arg /\ fmt'["CLOSE"].fd = fmt["CLOSE"].fd
          /\ fmt'[hook.form].flag = 1
      <3> HIDE DEF Server
      <3> QED BY <1>4 DEF StoreFlag
    <2>3. SocketInv'
      <3>1. CASE Listener = 0
        BY <2>1, <2>2, <3>1
      <3>2. CASE Listener # 0
        BY <2>1, <2>2, <3>2
      <3> QED BY <3>1, <3>2
    <2>4. ListenerInv' /\ AcceptsOnListener'
      BY <2>1, <2>2
    <2>5. ConnectionInv'
      BY <2>1, <2>2
    <2> QED BY <2>3, <2>4, <2>5
  <1>5. CASE StoreFd(IF hook.form = "CLOSE" THEN "await" ELSE "arg")
    <2>1. /\ hook.pc = "fd" /\ hook'.pc \in {"await", "arg"}
          /\ hook.form # "CLOSE" => hook'.pc = "arg"
          /\ hook'.form = hook.form /\ hook'.fd = hook.fd /\ hook'.arg = hook.arg
          /\ hook'.ret = hook.ret /\ hook'.prev = hook.prev /\ hook'.conn = hook.conn
          /\ UNCHANGED <<fmtr, mon, sock>>
      BY <1>5 DEF StoreFd
    <2>2. /\ \A g \in Forms : fmt'[g].flag = fmt[g].flag /\ fmt'[g].arg = fmt[g].arg
          /\ \A g \in Forms \ {hook.form} : fmt'[g] = fmt[g]
          /\ fmt'[hook.form].fd = hook.fd
      <3> HIDE DEF Server, Forms
      <3> QED BY <1>5 DEF StoreFd
    <2>3. SocketInv'
      <3>1. CASE Listener = 0
        BY <2>1, <2>2, <3>1
      <3>2. CASE Listener # 0
        BY <2>1, <2>2, <3>2
      <3> QED BY <3>1, <3>2
    <2>4. ListenerInv' /\ AcceptsOnListener'
      BY <2>1, <2>2
    <2>5. ConnectionInv'
      BY <2>1, <2>2
    <2> QED BY <2>3, <2>4, <2>5
  <1>6. CASE StoreArg(IF hook.form \in ArgsFirst \cup {"ACCEPT"} THEN "flag" ELSE "await")
    <2>1. /\ hook.pc = "arg" /\ hook'.pc \in {"flag", "await"}
          /\ hook.form = "SOCKET" => hook'.pc = "await"
          /\ hook'.form = hook.form /\ hook'.fd = hook.fd /\ hook'.arg = hook.arg
          /\ hook'.ret = hook.ret /\ hook'.prev = hook.prev /\ hook'.conn = hook.conn
          /\ UNCHANGED <<fmtr, mon, sock>>
      BY <1>6 DEF StoreArg
    <2>2. /\ \A g \in Forms : fmt'[g].flag = fmt[g].flag /\ fmt'[g].fd = fmt[g].fd
          /\ \A g \in Forms \ {hook.form} : fmt'[g] = fmt[g]
          /\ fmt'[hook.form].arg = hook.arg
      <3> HIDE DEF Server, Forms
      <3> QED BY <1>6 DEF StoreArg
    <2>3. SocketInv'
      <3>1. CASE Listener = 0
        BY <2>1, <2>2, <3>1
      <3>2. CASE Listener # 0
        BY <2>1, <2>2, <3>2
      <3> QED BY <3>1, <3>2
    <2>4. ListenerInv' /\ AcceptsOnListener'
      BY <2>1, <2>2
    <2>5. ConnectionInv'
      BY <2>1, <2>2
    <2> QED BY <2>3, <2>4, <2>5
  <1>7. CASE SeeReply
    BY <1>7 DEF SeeReply
  <1>8. CASE ClearReply
    <2>1. /\ hook.pc = "clear" /\ hook'.pc = "ret" /\ Listener' = Listener
          /\ hook'.form = hook.form /\ hook'.arg = hook.arg /\ hook'.prev = hook.prev
          /\ hook'.conn = hook.conn /\ hook'.fd = hook.fd /\ hook'.ret = hook.ret
          /\ fmtr'["ACCEPT"].ret = fmtr["ACCEPT"].ret /\ UNCHANGED <<fmt, mon, sock>>
          /\ fmtr'["ACCEPT"].flag = 1 => fmtr["ACCEPT"].flag = 1
      BY <1>8 DEF ClearReply
    <2>2. SocketInv'
      BY <2>1
    <2>3. ListenerInv' /\ AcceptsOnListener'
      BY <2>1
    <2>4. ConnectionInv'
      BY <2>1
    <2> QED BY <2>2, <2>3, <2>4
  <1>9. CASE LoadRet
    BY <1>9 DEF LoadRet
  <1> QED BY <1>1, <1>2, <1>3, <1>4, <1>5, <1>6, <1>7, <1>8, <1>9, HookCallMoves

\* A call on a connection is made again, or the call returns: the descriptor of a
\* connection is that of a successful accept().
LEMMA ReturnServer ==
  ASSUME TypeOK, TypeOK', Server, Retry \/ Return, AppFrame
  PROVE  Server'
  <1> USE DEF Server, Forms
  <1>1. CASE Retry
    BY <1>1 DEF Retry, Retried
  <1>2. CASE Return
    <2>1. /\ hook.pc = "back" /\ hook'.pc = "idle" /\ hook'.form = hook.form
          /\ hook'.prev[1] = hook.form /\ UNCHANGED shm
          /\ hook'.conn = IF hook.form = "ACCEPT" /\ hook.ret > 0 THEN hook.ret ELSE hook.conn
      BY <1>2 DEF Return
    <2>2. hook.form = "ACCEPT" /\ hook'.prev[2] = "ok" => hook.ret >= 0
      BY <1>2 DEF Return, Verdict
    <2>3. SocketInv'
      BY <2>1
    <2>4. ListenerInv' /\ AcceptsOnListener'
      BY <2>1
    <2>5. ConnectionInv'
      BY <2>1, <2>2
    <2> QED BY <2>3, <2>4, <2>5
  <1> QED BY <1>1, <1>2

-----------------------------------------------------------------------------
\* A step of the monitor before the reply to socket(), in which it does not serve.
LEMMA StepBefore ==
  ASSUME TypeOK, Server, Listener = 0, UNCHANGED <<hook, fmt, fmtr, sock>>,
         mon.pc \notin Serving, mon'.pc \notin Serving \cup {"again"},
         mon'.evs = {}, mon'.mode # "accept"
  PROVE  Server'
  BY DEF Server

\* A step of the monitor after it that leaves the segments alone and keeps the listener.
LEMMA StepAfter ==
  ASSUME TypeOK, TypeOK', Server, Listener # 0, UNCHANGED <<hook, fmt, fmtr>>,
         Listener \in Fds => /\ Standing(sock'[Listener])
                             /\ sock[Listener].kind = "listen" => sock'[Listener].kind = "listen",
         \A e \in mon'.evs : e.fd = Listener => sock[Listener].kind = "listen",
         mon'.mode = "accept" => Listener \in Fds /\ sock[Listener].kind = "listen",
         mon'.form \in {"SOCKET", "CONNECT"} => mon'.pc \notin {"guard", "exec"},
         mon'.form = "SOCKET" => mon'.pc \notin {"clear", "ret"},
         mon'.form = "ACCEPT" =>
           /\ mon'.pc # "flag"
           /\ mon'.pc \in {"clear", "ret"} =>
                mon'.ret # 0 /\ (mon'.ret <= 0 \/ mon'.ret # Listener)
  PROVE  Server'
  <1> USE DEF Server
  <1>1. SocketInv'
    OBVIOUS
  <1>2. ListenerInv'
    <2>1. \A e \in mon'.evs : e.fd \in Fds
      BY DEF Event
    <2> QED BY <2>1
  <1>3. ConnectionInv'
    OBVIOUS
  <1>4. AcceptsOnListener'
    OBVIOUS
  <1> QED BY <1>1, <1>2, <1>3, <1>4

\* The monitor looks for a request; no reply and no socket changes.
LEMMA LookServer ==
  ASSUME TypeOK, TypeOK', Server, ModeInv, Loop \/ Poll \/ Switch \/ Wait \/ Guard \/ Tail,
         MonFrame
  PROVE  Server'
  <1> USE DEF Server, Go
  <1>1. CASE Loop \/ Tail
    <2>1. /\ mon.pc \in {"stack", "tail"} /\ mon'.pc \in {"poll", "epoll"}
          /\ mon'.mode \in {mon.mode, "prep", "service"} /\ mon'.evs = mon.evs
          /\ UNCHANGED <<shm, sock>>
      BY <1>1, ZenonT(60) DEF Loop, Tail, Dispatch
    <2> QED BY <2>1, StepBefore, StepAfter
  <1>2. CASE Poll
    BY <1>2 DEF Poll, RoundEnd
  <1>3. CASE Switch
    BY <1>3 DEF Switch, RoundEnd
  <1>4. CASE Wait
    BY <1>4 DEF Wait, Guarded
  <1>5. CASE Guard
    <2>1. /\ mon.pc = "guard" /\ mon'.pc \in {"exec", "post", "release"}
          /\ mon'.mode = mon.mode /\ mon'.form = mon.form /\ mon'.evs = mon.evs
          /\ UNCHANGED <<shm, sock>>
      BY <1>5, ZenonT(60) DEF Guard
    <2> QED BY <2>1, StepAfter
  <1> QED BY <1>1, <1>2, <1>3, <1>4, <1>5

\* The monitor stores: the reply to socket() is what becomes the listener, the
\* reply to accept() is another descriptor.
LEMMA StoreServer ==
  ASSUME TypeOK, TypeOK', Server, ModeInv, ClearRequest \/ PutRet \/ PutFlag, MonFrame
  PROVE  Server'
  <1> USE DEF Server, Go
  <1>1. CASE ClearRequest
    BY <1>1 DEF ClearRequest
  <1>2. CASE PutRet /\ mon.form = "SOCKET"
    <2>1. /\ mon.pc = "ret" /\ mon'.pc = "flag"
          /\ mon.form = "SOCKET" /\ mon'.form = "SOCKET"
          /\ mon'.mode = mon.mode /\ mon'.evs = mon.evs
          /\ fmtr' = [fmtr EXCEPT !["SOCKET"].ret = mon.ret] /\ UNCHANGED <<fmt, sock>>
      BY <1>2 DEF PutRet
    <2>2. BeforeSocket /\ Listener = 0
      BY <2>1
    <2>3. /\ mon.ret \in Fds \cup {-1} /\ mon.ret # 0
          /\ hook.prev[1] = "START" /\ hook.form = "SOCKET" /\ hook.conn = 0
          /\ hook.pc \in {"arg", "await"}
          /\ fmt["SOCKET"].flag = 0 /\ fmt["CONNECT"].flag = 0 /\ fmt["CLOSE"].fd = 0
          /\ fmtr["ACCEPT"].flag = 0 /\ fmtr["ACCEPT"].ret = 0
      BY <2>1, <2>2, FdsAssumption DEF Forms
    <2>4. /\ Listener' = mon.ret /\ fmtr'["ACCEPT"] = fmtr["ACCEPT"]
      BY <2>1 DEF Forms
    <2>5. mon.ret \in Fds => Standing(sock[mon.ret])
      <3>1. mon.ret \in Fds => sock[mon.ret] = Fresh("new")
        BY <2>1, <2>2
      <3> QED BY <3>1 DEF Standing, Fresh
    <2>6. SocketInv'
      BY <2>1, <2>3, <2>4
    <2>7. ListenerInv' /\ AcceptsOnListener'
      BY <2>1, <2>2, <2>3, <2>5, <2>4
    <2>8. ConnectionInv'
      BY <2>1, <2>3, <2>4
    <2> QED BY <2>6, <2>7, <2>8
  <1>3. CASE PutRet /\ mon.form # "SOCKET"
    BY <1>3 DEF PutRet
  <1>4. CASE PutFlag
    BY <1>4 DEF PutFlag, AfterFlag
  <1> QED BY <1>1, <1>2, <1>3, <1>4

\* The case ends.
LEMMA ReleaseServer ==
  ASSUME TypeOK, TypeOK', Server, ModeInv, Release \/ SocketAgain, MonFrame
  PROVE  Server'
  <1> USE DEF Server, Go
  <1>1. CASE Release
    BY <1>1 DEF Release, CaseEnd, RoundEnd
  <1>2. CASE SocketAgain
    BY <1>2 DEF SocketAgain
  <1> QED BY <1>1, <1>2

\* Watching a descriptor changes neither its kind nor what is queued.
LEMMA WatchKeeps ==
  ASSUME StackTypeOK, NEW fd, NEW m
  PROVE  \A x \in Fds : LET s == Watch(fd, m)[x] IN
           s.kind = sock[x].kind /\ s.rx = sock[x].rx /\ s.end = sock[x].end
  BY DEF StackTypeOK, Socket, Watch, IsOpen

\* What follows a reply.
LEMMA PostServer ==
  ASSUME TypeOK, TypeOK', Server, ModeInv,
         SocketPost \/ BindPost \/ ListenPost \/ AcceptPost, MonFrame
  PROVE  Server'
  <1>1. \A x \in Fds : /\ sock'[x].kind = sock[x].kind /\ sock'[x].rx = sock[x].rx
                       /\ sock'[x].end = sock[x].end
    BY WatchKeeps DEF SocketPost, BindPost, ListenPost, AcceptPost
  <1>2. /\ mon.pc = "post" /\ mon'.pc \in {"release", "wait", "events"}
        /\ mon'.mode = mon.mode /\ mon'.form = mon.form /\ mon'.ret = mon.ret
        /\ mon'.evs = mon.evs /\ UNCHANGED shm
    BY DEF SocketPost, BindPost, ListenPost, AcceptPost, Go
  <1>3. Listener # 0
    BY <1>2 DEF Server
  <1> QED BY <1>1, <1>2, <1>3, StepAfter DEF Server, Standing

\* Events are reported for readable descriptors; an event of the listener starts the
\* accept loop, an error of another descriptor closes that one.
LEMMA EventServer ==
  ASSUME TypeOK, TypeOK', Server, ModeInv, EpollWait \/ Events, MonFrame
  PROVE  Server'
  <1> USE DEF Server
  <1>1. CASE EpollWait
    <2>1. /\ mon.pc = "epoll" /\ mon'.pc = "events" /\ mon'.mode = mon.mode
          /\ mon'.form = mon.form /\ mon'.ret = mon.ret /\ UNCHANGED shm
          /\ mon'.evs = {[fd |-> fd, err |-> sock[fd].end = "err"] : fd \in Reported}
          /\ sock' = AfterWait
      BY <1>1, ZenonT(60) DEF EpollWait
    <2>2. \A e \in mon'.evs : e.fd \in Reported
      BY <2>1
    <2>3. \A x \in Fds : /\ sock'[x].kind = sock[x].kind /\ sock'[x].rx = sock[x].rx
                         /\ sock'[x].end = sock[x].end
      BY <2>1 DEF AfterWait, StackTypeOK, Socket
    <2>4. CASE Listener = 0
      <3>1. Reported = {}
        BY <2>1, <2>4 DEF Reported, Readable, Fresh
      <3>2. mon'.evs = {} /\ UNCHANGED sock
        BY <2>1, <3>1 DEF AfterWait, StackTypeOK
      <3> QED BY <2>1, <2>4, <3>2, StepBefore
    <2>5. CASE Listener # 0
      <3>1. \A e \in mon'.evs : e.fd = Listener => sock[Listener].kind = "listen"
        BY <2>2, <2>5 DEF Reported, Readable, Standing
      <3> QED BY <2>1, <2>3, <2>5, <3>1, StepAfter DEF Standing
    <2> QED BY <2>4, <2>5
  <1>2. CASE Events
    <2>1. CASE mon.evs = {}
      <3>1. /\ mon.pc = "events" /\ mon'.pc = "stack" /\ mon'.mode = mon.mode
            /\ mon'.form = mon.form /\ mon'.evs = {} /\ UNCHANGED <<shm, sock>>
        BY <1>2, <2>1 DEF Events, Go
      <3> QED BY <3>1, StepBefore, StepAfter
    <2>2. CASE mon.evs # {}
      <3>1. PICK e \in mon.evs : UdpEvent(e) \/ TcpEvent(e)
        BY <1>2, <2>2 DEF Events
      <3>2. e.fd \in Fds /\ Listener # 0
        BY <2>2, <3>1 DEF Event
      <3>3. CASE UdpEvent(e)
        <4>1. /\ mon.pc = "events" /\ mon'.pc \in {"events", "poll"}
              /\ mon'.mode \in {mon.mode, "udp"} /\ mon'.form = mon.form
              /\ mon'.evs = mon.evs \ {e} /\ UNCHANGED <<shm, sock>>
          BY <1>2, <3>3 DEF Events, UdpEvent
        <4> QED BY <3>2, <4>1, StepAfter
      <3>4. CASE TcpEvent(e) /\ e.fd = Listener
        <4>1. /\ mon.pc = "events" /\ mon'.pc = "wait" /\ mon'.form = "ACCEPT"
              /\ mon'.evs = mon.evs \ {e} /\ UNCHANGED <<shm, sock>>
          BY <1>2, <3>4, ZenonT(60) DEF Events, TcpEvent
        <4> QED BY <3>1, <3>2, <3>4, <4>1, StepAfter
      <3>5. CASE TcpEvent(e) /\ e.fd # Listener
        <4>1. /\ mon.pc = "events" /\ mon'.pc \in {"events", "poll"}
              /\ mon'.mode \in {mon.mode, "tcp"} /\ mon'.form = mon.form
              /\ mon'.evs = mon.evs \ {e} /\ UNCHANGED shm
          <5>1. \/ mon' = [mon EXCEPT !.evs = @ \ {e}]
                \/ mon' = [mon EXCEPT !.pc = "poll", !.mode = "tcp", !.evs = @ \ {e}]
            BY <3>5, Zenon DEF TcpEvent
          <5> QED BY <1>2, <3>5, <5>1 DEF Events, TcpEvent
        <4>2. Listener \in Fds => sock'[Listener] = sock[Listener]
          BY <3>2, <3>5 DEF TcpEvent, ff_close, Result, Fails, StackTypeOK
        <4> QED BY <3>2, <4>1, <4>2, StepAfter
      <3> QED BY <3>1, <3>3, <3>4, <3>5
    <2> QED BY <2>1, <2>2
  <1> QED BY <1>1, <1>2

\* Packets: connection requests and messages come in, connections end.
LEMMA PacketsServer ==
  ASSUME TypeOK, TypeOK', Server, ModeInv, MainLoop, MonFrame
  PROVE  Server'
  <1> USE DEF Server
  <1>1. mon.pc = "stack" /\ UNCHANGED <<shm, mon>>
    BY DEF MainLoop
  <1>2. PICK x \in Fds : Receive(x) \/ PeerCloses(x) \/ PeerResets(x)
    BY DEF MainLoop, Network
  <1>3. Listener # 0
    BY <1>1, <1>2 DEF Receive, PeerCloses, PeerResets, Fresh
  <1>4. Listener \in Fds => /\ Standing(sock'[Listener])
                            /\ sock'[Listener].kind = sock[Listener].kind
    <2>1. CASE Receive(x)
      BY <2>1 DEF Receive, Standing, StackTypeOK, Socket
    <2>2. CASE PeerCloses(x) \/ PeerResets(x)
      <3>1. sock[x].kind = "conn" /\ \A y \in Fds \ {x} : sock'[y] = sock[y]
        BY <2>2 DEF PeerCloses, PeerResets, StackTypeOK
      <3> QED BY <3>1 DEF Standing
    <2> QED BY <1>2, <2>1, <2>2
  <1> QED BY <1>1, <1>3, <1>4, StepAfter

\* A call of the stack on another descriptor than x, or one that neither connects
\* nor closes, leaves an untouched socket x untouched, and accept() gives another one.
LEMMA OutcomeStanding ==
  ASSUME StackTypeOK, NEW f \in Forms, NEW fd \in Int, NEW arg \in Nat,
         NEW o \in Outcomes(f, fd, arg), NEW x \in Fds, Standing(sock[x]),
         f \notin {"SOCKET", "CONNECT"}, f = "CLOSE" => fd # x
  PROVE  /\ Standing(o.sock[x])
         /\ sock[x].kind = "listen" => o.sock[x].kind = "listen"
         /\ f = "ACCEPT" => o.ret # 0 /\ o.ret # x
  <1> USE FdsAssumption DEF StackTypeOK, Socket, Kinds, Result, Fails, Standing
  <1>1. CASE f = "CLOSE"
    BY <1>1 DEF Outcomes, ff_close
  <1>2. CASE f = "LISTEN"
    BY <1>2 DEF Outcomes, ff_listen, IsOpen
  <1>3. CASE f = "ACCEPT"
    <2>1. CASE o \in Fails
      BY <1>3, <2>1
    <2>2. CASE o \notin Fails
      <3>1. PICK r \in NewFd("conn") :
              fd \in Fds /\ o = Result(r.ret, [r.sock EXCEPT ![fd].rx = @ - 1])
              /\ sock[fd].kind = "listen"
        BY <1>3, <2>2 DEF Outcomes, ff_accept, IsOpen
      <3>2. PICK y \in Fds : r = Result(y, [sock EXCEPT ![y] = Fresh("conn")])
                             /\ ~IsOpen(y)
        BY DEF NewFd
      <3>3. y # x /\ y # fd /\ y # 0
        BY <3>1, <3>2 DEF IsOpen
      <3>4. o.ret = y /\ o.sock = [[sock EXCEPT ![y] = Fresh("conn")] EXCEPT ![fd].rx = @ - 1]
        BY <3>1, <3>2
      <3>5. PICK s \in [Fds -> Socket] : /\ s = [sock EXCEPT ![y] = Fresh("conn")]
                                        /\ s[x] = sock[x] /\ s[fd] = sock[fd]
        <4>1. Fresh("conn") \in Socket
          BY FreshType
        <4> HIDE DEF Socket
        <4>2. [sock EXCEPT ![y] = Fresh("conn")] \in [Fds -> Socket]
          BY <4>1
        <4> QED BY <3>1, <3>3, <4>2
      <3>6. o.sock[x] = IF x = fd THEN [sock[x] EXCEPT !.rx = @ - 1] ELSE sock[x]
        <4> HIDE DEF Socket
        <4> QED BY <3>1, <3>4, <3>5
      <3> QED BY <3>1, <3>3, <3>4, <3>6
    <2> QED BY <2>1, <2>2
  <1>4. CASE f = "SELECT"
    BY <1>4 DEF Outcomes, ff_select
  <1>5. CASE f \in {"BIND", "SETSOCKOPT", "GETSOCKOPT"}
    BY <1>5 DEF Outcomes, ff_option
  <1>6. CASE f \in {"SEND", "SENDTO", "WRITE"}
    BY <1>6 DEF Outcomes, ff_send, ReturnError, IsOpen
  <1>7. CASE f \in {"RECV", "RECVFROM", "READ"}
    BY <1>7 DEF Outcomes, ff_recv, ReturnError, IsOpen
  <1> QED BY <1>1, <1>2, <1>3, <1>4, <1>5, <1>6, <1>7 DEF Forms

\* The monitor executes: the first socket(), or a call that leaves the listener alone.
LEMMA ExecServer ==
  ASSUME TypeOK, TypeOK', Server, ModeInv, Exec, UNCHANGED hook
  PROVE  Server'
  <1> USE DEF Server
  <1>1. PICK o \in Outcomes(mon.form, fmt[mon.form].fd, fmt[mon.form].arg) :
          /\ sock' = o.sock
          /\ mon' = [mon EXCEPT
               !.pc  = IF mon.mode # "accept" THEN "clear"
                       ELSE IF o.ret < 0 THEN "events" ELSE "ret",
               !.ret = IF mon.form = "CONNECT" THEN 0 ELSE o.ret]
    BY DEF Exec
  <1>2. /\ mon.pc = "exec" /\ mon'.mode = mon.mode /\ mon'.form = mon.form
        /\ mon'.evs = mon.evs /\ UNCHANGED shm
        /\ mon'.pc \in {"clear", "events", "ret"}
        /\ mon.mode # "accept" => mon'.pc = "clear"
        /\ mon.form # "CONNECT" => mon'.ret = o.ret
    BY <1>1 DEF Exec
  <1>3. CASE Listener = 0
    <2>1. /\ mon.form = "SOCKET" /\ fmt["SOCKET"].arg # DGRAM /\ mon'.pc = "clear"
          /\ \A fd \in Fds : sock[fd] = Fresh("closed")
      BY <1>2, <1>3
    <2>2. o \in Fails \cup NewFd("new")
      BY <1>1, <2>1 DEF Outcomes, ff_socket
    <2>3. /\ o.ret \in Fds \cup {-1}
          /\ \A fd \in Fds : o.sock[fd] = Fresh(IF fd = o.ret THEN "new" ELSE "closed")
      <3>1. CASE o \in Fails
        BY <2>1, <3>1, FdsAssumption DEF Fails, Result
      <3>2. CASE o \in NewFd("new")
        <4>1. PICK y \in Fds : o = Result(y, [sock EXCEPT ![y] = Fresh("new")])
          BY <3>2 DEF NewFd
        <4>2. o.ret = y /\ o.sock = [sock EXCEPT ![y] = Fresh("new")]
          BY <4>1 DEF Result
        <4> QED BY <2>1, <4>2 DEF StackTypeOK
      <3> QED BY <2>2, <3>1, <3>2
    <2>4. SocketInv'
      BY <1>1, <1>2, <1>3, <2>1, <2>3
    <2>5. ListenerInv' /\ ConnectionInv' /\ AcceptsOnListener'
      BY <1>2, <1>3, <2>1, FdsAssumption
    <2> QED BY <2>4, <2>5
  <1>4. CASE Listener # 0
    <2>1. mon.form \notin {"SOCKET", "CONNECT"} /\ mon'.ret = o.ret
      BY <1>2, <1>4
    <2>2. CASE Listener \in Fds
      <3>1. mon.form = "CLOSE" => fmt[mon.form].fd # Listener
        BY <2>2, FdsAssumption
      <3>2. /\ Standing(o.sock[Listener])
            /\ sock[Listener].kind = "listen" => o.sock[Listener].kind = "listen"
            /\ mon.form = "ACCEPT" => o.ret # 0 /\ o.ret # Listener
        <4>1. PICK f \in Forms, fd \in Int, arg \in Nat, x \in Fds :
                /\ f = mon.form /\ fd = fmt[mon.form].fd /\ arg = fmt[mon.form].arg
                /\ x = Listener
          BY <2>2
        <4>2. /\ o \in Outcomes(f, fd, arg) /\ Standing(sock[x]) /\ StackTypeOK
              /\ f \notin {"SOCKET", "CONNECT"} /\ (f = "CLOSE" => fd # x)
          BY <2>1, <2>2, <3>1, <4>1
        <4> HIDE DEF Server
        <4>3. /\ Standing(o.sock[x])
              /\ sock[x].kind = "listen" => o.sock[x].kind = "listen"
              /\ f = "ACCEPT" => o.ret # 0 /\ o.ret # x
          BY <4>2, OutcomeStanding
        <4> QED BY <4>1, <4>3
      <3> QED BY <1>1, <1>2, <1>4, <2>1, <3>2, StepAfter
    <2>3. CASE Listener \notin Fds
      <3>1. mon.form = "ACCEPT" => o.ret # 0 /\ (o.ret <= 0 \/ o.ret # Listener)
        <4>1. mon.form = "ACCEPT" => o.ret \in Fds \cup {-1}
          <5> SUFFICES ASSUME mon.form = "ACCEPT" PROVE o.ret \in Fds \cup {-1}
            OBVIOUS
          <5>1. o \in ff_accept(fmt["ACCEPT"].fd)
            BY DEF Outcomes
          <5>2. \A r \in NewFd("conn") : r.ret \in Fds
            BY DEF NewFd, Result
          <5>3. \A r \in Fails : r.ret = -1
            BY DEF Fails, Result
          <5>4. CASE o \in Fails
            BY <5>3, <5>4
          <5>5. CASE o \notin Fails
            <6>1. PICK r \in NewFd("conn") :
                    o = Result(r.ret, [r.sock EXCEPT ![fmt["ACCEPT"].fd].rx = @ - 1])
              BY <5>1, <5>5 DEF ff_accept
            <6> QED BY <5>2, <6>1 DEF Result
          <5> QED BY <5>4, <5>5
        <4> QED BY <2>3, <4>1, FdsAssumption
      <3> QED BY <1>1, <1>2, <1>4, <2>1, <2>3, <3>1, StepAfter
    <2> QED BY <2>2, <2>3
  <1> QED BY <1>3, <1>4

\* Nothing has happened: socket() has not been replied to.
LEMMA InitServer == Init => ServerInv
  <1> SUFFICES ASSUME Init PROVE ServerInv
    OBVIOUS
  <1>1. TypeOK /\ ModeInv
    BY InitSlotInv DEF SlotInv
  <1> USE DEF Init, ft_init, HookInit, HookStart, StackInit, MonitorInit, MonitorStart, Forms
  <1>2. SocketInv
    BY DEF DGRAM
  <1>3. ListenerInv /\ ConnectionInv /\ AcceptsOnListener
    BY FdsAssumption
  <1> QED BY <1>1, <1>2, <1>3 DEF ServerInv

\* ServerInv is inductive, for every server.
LEMMA NextServer == ServerProgram /\ ServerInv /\ [Next]_vars => ServerInv'
  <1> SUFFICES ASSUME ServerProgram, ServerInv, [Next]_vars PROVE ServerInv'
    OBVIOUS
  <1>1. TypeOK /\ TypeOK' /\ ModeInv /\ Server
    BY NextTypes DEF ServerInv, Server
  <1> HIDE DEF TypeOK, SocketInv, ListenerInv, ConnectionInv, AcceptsOnListener
  <1> SUFFICES ModeInv' /\ Server'
    BY <1>1 DEF ServerInv, Server
  <1>2. CASE Application
    <2>1. HookNext /\ AppFrame
      BY <1>2 DEF Application
    <2>2. ModeInv'
      BY <1>1, <2>1 DEF ModeInv
    <2> QED BY <1>1, <2>1, <2>2, InvokeServer, HookMoveServer, ReturnServer DEF HookNext
  <1>3. CASE Monitor \/ Packets
    <2>1. MonitorStep \/ MainLoop
      BY <1>3 DEF Monitor, Packets
    <2>2. ModeInv'
      BY <1>1, <2>1, ModeKept DEF TypeOK
    <2>3. CASE Exec /\ Monitor
      BY <1>1, <2>2, <2>3, ExecServer DEF Monitor
    <2>4. CASE MainLoop /\ Packets
      BY <1>1, <2>2, <2>4, PacketsServer DEF Packets
    <2>5. CASE Monitor /\ ~Exec
      <3>1. mon.pc # "exec" /\ MonFrame
        BY <2>5 DEF Monitor, MonitorStep, Loop, Poll, Switch, Wait, Guard, ClearRequest,
                    PutRet, PutFlag, SocketPost, BindPost, ListenPost, Release,
                    SocketAgain, Tail, EpollWait, Events, AcceptPost
      <3> QED BY <1>1, <2>2, <2>5, <3>1, LookServer, StoreServer, ReleaseServer,
                 PostServer, EventServer DEF Monitor, MonitorStep
    <2> QED BY <1>3, <2>3, <2>4, <2>5 DEF Packets
  <1>4. CASE UNCHANGED vars
    BY <1>1, <1>4 DEF vars, ModeInv, Server, SocketInv, ListenerInv, ConnectionInv,
                      AcceptsOnListener
  <1> QED BY <1>2, <1>3, <1>4 DEF Next

\* What ServerInv says of the accept loop.
LEMMA ServerInvMeans == ServerInv => AcceptsOnListener
  BY DEF ServerInv

HIDE DEF TypeOK, AcceptsOnListener

\* ServerInv holds in every state that a server can reach: one socket() whose reply
\* main.c takes for the listener, and calls of recv, send and close on accepted
\* connections only (app/tcp_server.c, app/http_server.c).
THEOREM SpecServerInv == ServerProgram => (Spec => []ServerInv)
  <1> SUFFICES ASSUME ServerProgram PROVE Spec => []ServerInv
    OBVIOUS
  <1>1. ServerInv /\ [Next]_vars => ServerInv'
    BY NextServer
  <1> QED BY <1>1, InitServer, PTL DEF Spec

\* For every server, service_epoll (monitor/main.c) enters its accept loop only for
\* a descriptor that is listening, though it identifies the listener by the value
\* that the last reply to socket() left in the segment.
THEOREM AcceptLoopServesListener == ServerProgram => (Spec => []AcceptsOnListener)
  BY SpecServerInv, ServerInvMeans, PTL
=============================================================================
