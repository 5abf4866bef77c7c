-------------------------- MODULE FtRestartProofs --------------------------
(***************************************************************************)
(* What survives any number of kills and restarts of either program.  The  *)
(* result of connect() needs only the value in its reply slot; that the    *)
(* monitor executes whole requests needs WholeInv, which says nothing of   *)
(* replies, because a reply can outlive the call it answers.               *)
(***************************************************************************)
EXTENDS FtRestart, FtSystemProofs

USE DEF TypeOK, ShmTypeOK, HookTypeOK, MonitorTypeOK, DoneTypeOK, Request, Reply,
        AppFrame, MonFrame, shm, locals, Serving, Executing

\* A program started again, with the numbering of its calls kept.
LEMMA StartType ==
  ASSUME TypeOK, NEW h, h = [HookStart EXCEPT !.n = hook.n]
  PROVE  /\ h \in [pc : HookPC, form : Forms, fd : Int, arg : Nat, ret : Int,
                   n : 0..MaxCalls, prev : (Forms \cup {"START"}) \X {"ok", "err"},
                   sock : Int, conn : Int]
         /\ h.pc = "idle" /\ h.form = "SOCKET"
  BY DEF HookStart, HookPC, Forms

\* A kill of the application, of the monitor or of both keeps the types.
LEMMA CrashTypes ==
  ASSUME TypeOK, AppRestart \/ MonitorRestart \/ DelShm
  PROVE  TypeOK'
  <1>0. PICK h : h = [HookStart EXCEPT !.n = hook.n]
    OBVIOUS
  <1>1. CASE AppRestart
    <2>1. HookTypeOK'
      BY <1>0, <1>1, StartType DEF AppRestart
    <2> QED BY <1>1, <2>1 DEF AppRestart, StackTypeOK
  <1>2. CASE MonitorRestart \/ DelShm
    <2>1. StackTypeOK'
      BY <1>2, FreshType DEF MonitorRestart, DelShm, StackTypeOK, Kinds
    <2>2. MonitorTypeOK'
      BY <1>2 DEF MonitorRestart, DelShm, MonitorStart, MonitorPC, Modes, Forms
    <2>3. HookTypeOK'
      BY <1>0, <1>2, StartType DEF MonitorRestart, DelShm
    <2>4. ShmTypeOK'
      BY <1>2 DEF MonitorRestart, DelShm, DsForm, Forms
    <2> QED BY <1>2, <2>1, <2>2, <2>3, <2>4 DEF MonitorRestart, DelShm
  <1> QED BY <1>1, <1>2

\* Every step does.
LEMMA RestartTypes ==
  ASSUME TypeOK, [RestartNext]_restartVars
  PROVE  TypeOK'
  <1>1. CASE AppStep
    BY <1>1, AppTypes DEF AppStep, Application
  <1>2. CASE MonitorSteps
    BY <1>2, MonTypes DEF MonitorSteps
  <1>3. CASE UNCHANGED restartVars
    BY <1>3 DEF restartVars, vars, StackTypeOK
  <1> QED BY <1>1, <1>2, <1>3, CrashTypes DEF RestartNext

\* The reply slot of CONNECT never holds anything but 0, in new segments too.
LEMMA RestartConnect ==
  ASSUME TypeOK, ConnectInv, ConnectSucceeds, [RestartNext]_restartVars
  PROVE  ConnectInv' /\ ConnectSucceeds'
  <1>1. CASE AppStep
    BY <1>1, AppConnect DEF AppStep, Application
  <1>2. CASE MonitorSteps
    <2>1. (MonitorStep \/ MainLoop) /\ UNCHANGED hook
      BY <1>2 DEF MonitorSteps, Monitor, Packets
    <2> QED BY <2>1, MonitorConnect DEF ConnectSucceeds
  <1>3. CASE AppRestart
    BY <1>3 DEF AppRestart, HookStart, ConnectInv, ConnectSucceeds
  <1>4. CASE MonitorRestart
    BY <1>4 DEF MonitorRestart, MonitorStart, ConnectInv, ConnectSucceeds
  <1>5. CASE DelShm
    BY <1>5 DEF DelShm, MonitorStart, HookStart, ConnectInv, ConnectSucceeds, Forms
  <1>6. CASE UNCHANGED restartVars
    BY <1>6 DEF restartVars, vars, ConnectInv, ConnectSucceeds
  <1> QED BY <1>1, <1>2, <1>3, <1>4, <1>5, <1>6 DEF RestartNext

-----------------------------------------------------------------------------
USE DEF WholeInv

\* The steps of a hook that neither take the channel nor store in the segments of
\* requests: it goes back, waits for the reply and takes it.
LEMMA QuietWhole ==
  ASSUME WholeInv, UNCHANGED <<ds_form, fmt, asked>>, AppFrame, TypeOK',
         hook.pc \in {"await", "clear", "ret", "back"},
         hook'.pc \in {"idle", "spin", "clear", "ret", "back"},
         hook'.form = hook.form /\ hook'.fd = hook.fd /\ hook'.arg = hook.arg
  PROVE  WholeInv'
  <1>1. NoGuardedInv'
    BY DEF NoGuardedInv
  <1>2. ChannelInv'
    BY DEF ChannelInv, Filling
  <1>3. AskedInv'
    BY DEF AskedInv
  <1> QED BY <1>1, <1>2, <1>3

\* The program makes a call.
LEMMA InvokeWhole ==
  ASSUME WholeInv, NoGuardedCalls, Invoke, AppFrame,
         asked' = asked \cup {[form |-> hook'.form, fd |-> hook'.fd, arg |-> hook'.arg]}
  PROVE  WholeInv'
  <1>1. TypeOK'
    BY AppTypes DEF HookNext
  <1>2. /\ hook'.form \in Follow[hook.prev[1]].ok \cup Follow[hook.prev[1]].err
        /\ hook.pc = "idle" /\ hook'.pc = "spin" /\ UNCHANGED shm
    BY InvokeCall
  <1>3. hook'.form \notin Guarded
    BY <1>2 DEF NoGuardedCalls
  <1>4. NoGuardedInv'
    BY <1>2, <1>3 DEF NoGuardedInv
  <1>5. ChannelInv'
    BY <1>2 DEF ChannelInv, Filling
  <1>6. AskedInv'
    BY <1>2 DEF AskedInv
  <1> QED BY <1>1, <1>4, <1>5, <1>6

\* The channel is seen free and taken: no request is visible.
LEMMA ClaimWhole ==
  ASSUME WholeInv, AppFrame, UNCHANGED asked,
         Spin \/ Claim(IF hook.form = "READ" THEN "fd" ELSE "form")
  PROVE  WholeInv'
  <1>1. CASE Spin
    <2> USE <1>1 DEF Spin
    <2>1. TypeOK'
      BY HookMoveTypes DEF HookPC
    <2>2. NoGuardedInv' /\ ChannelInv' /\ AskedInv'
      BY DEF NoGuardedInv, ChannelInv, Filling, AskedInv
    <2> QED BY <2>1, <2>2
  <1>2. CASE Claim(IF hook.form = "READ" THEN "fd" ELSE "form")
    <2> USE <1>2 DEF Claim
    <2>1. TypeOK'
      BY NothingType DEF StackTypeOK, HookPC, DsForm
    <2>2. hook.pc = "claim" /\ hook'.pc \in {"fd", "form"} /\ hook'.form = hook.form
          /\ hook'.fd = hook.fd /\ hook'.arg = hook.arg /\ ds_form.flag = 0
          /\ ds_form'.flag = 1 /\ ds_form'.form = ds_form.form /\ UNCHANGED <<fmt, fmtr>>
      BY DEF ChannelInv, DsForm
    <2>3. NoGuardedInv'
      BY <2>2 DEF NoGuardedInv
    <2>4. ChannelInv'
      BY <2>2 DEF ChannelInv, Filling
    <2>5. AskedInv'
      BY <2>2 DEF AskedInv
    <2> QED BY <2>1, <2>3, <2>4, <2>5
  <1> QED BY <1>1, <1>2

\* The form is stored while no request is visible.
LEMMA StoreFormWhole ==
  ASSUME WholeInv, AppFrame, UNCHANGED asked,
         StoreForm(IF hook.form \in ArgsFirst THEN "fd" ELSE "flag")
  PROVE  WholeInv'
  <1> USE DEF StoreForm
  <1>1. TypeOK'
    BY DEF StackTypeOK, HookPC, DsForm
  <1>2. /\ hook.pc = "form" /\ hook'.pc = IF hook.form \in ArgsFirst THEN "fd" ELSE "flag"
        /\ hook'.form = hook.form /\ hook'.fd = hook.fd /\ hook'.arg = hook.arg
        /\ ds_form'.flag = ds_form.flag /\ ds_form'.form = hook.form
        /\ UNCHANGED <<fmt, fmtr>>
    BY DEF DsForm
  <1>3. NoGuardedInv'
    BY <1>2 DEF NoGuardedInv
  <1>4. ChannelInv'
    BY <1>2 DEF ChannelInv, Filling
  <1>5. AskedInv'
    BY <1>2 DEF AskedInv
  <1> QED BY <1>1, <1>3, <1>4, <1>5

\* The request becomes visible, the only one: of ArgsFirst, with its fields.
LEMMA StoreFlagWhole ==
  ASSUME WholeInv, AppFrame, UNCHANGED asked, NEW p \in HookPC, StoreFlag(p),
         p \in IF hook.form \in ArgsFirst THEN {"await"} ELSE {"fd", "arg"}
  PROVE  WholeInv'
  <1> USE DEF StoreFlag
  <1>1. TypeOK'
    BY HookMoveTypes
  <1>2. /\ hook.pc = "flag" /\ hook'.pc = p /\ hook.form \in Forms
        /\ hook'.form = hook.form /\ hook'.fd = hook.fd /\ hook'.arg = hook.arg
        /\ fmt' = [fmt EXCEPT ![hook.form].flag = 1] /\ UNCHANGED <<ds_form, fmtr>>
    OBVIOUS
  <1>3. /\ \A g \in Forms : fmt[g].flag = 0
        /\ ds_form.flag = 1 /\ mon.pc \notin Serving
    BY <1>2 DEF ChannelInv, Filling
  <1>4. /\ \A g \in Forms : fmt'[g].flag = 1 <=> g = hook.form
        /\ \A g \in Forms : fmt'[g].fd = fmt[g].fd /\ fmt'[g].arg = fmt[g].arg
    BY <1>2, <1>3
  <1>5. NoGuardedInv'
    <2>1. \A g \in Guarded : g \in Forms /\ g # hook.form
      BY DEF NoGuardedInv, Guarded, Forms
    <2>2. \A g \in Guarded : fmt'[g].flag = 0
      BY <1>2, <1>3, <2>1
    <2> QED BY <1>2, <2>2 DEF NoGuardedInv
  <1>6. ChannelInv'
    BY <1>1, <1>2, <1>3, <1>4 DEF ChannelInv, Filling
  <1>7. AskedInv'
    <2>1. ArgsFirst \subseteq Forms /\ (hook.form \in ArgsFirst => hook'.pc = "await")
      BY <1>2 DEF ArgsFirst, Forms
    <2> QED BY <1>2, <1>4, <2>1 DEF AskedInv
  <1> QED BY <1>1, <1>5, <1>6, <1>7

\* A field is stored: of ArgsFirst, in a slot that is not visible.
LEMMA StoreFieldWhole ==
  ASSUME WholeInv, AppFrame, UNCHANGED asked,
         \/ StoreFd(IF hook.form = "CLOSE" THEN "await" ELSE "arg")
         \/ StoreArg(IF hook.form \in ArgsFirst THEN "flag" ELSE "await")
  PROVE  WholeInv'
  <1>1. TypeOK'
    BY HookMoveTypes DEF HookPC
  <1>2. /\ hook.form \in Forms /\ hook.pc \in {"fd", "arg"}
        /\ hook'.form = hook.form /\ hook'.fd = hook.fd /\ hook'.arg = hook.arg
        /\ UNCHANGED <<ds_form, fmtr>>
        /\ IF hook.pc = "fd"
           THEN /\ fmt' = [fmt EXCEPT ![hook.form].fd = hook.fd]
                /\ hook'.pc = IF hook.form = "CLOSE" THEN "await" ELSE "arg"
           ELSE /\ fmt' = [fmt EXCEPT ![hook.form].arg = hook.arg]
                /\ hook'.pc = IF hook.form \in ArgsFirst THEN "flag" ELSE "await"
    BY DEF StoreFd, StoreArg
  <1>3. /\ \A g \in Forms : fmt'[g].flag = fmt[g].flag
        /\ \A g \in Forms : g # hook.form => fmt'[g] = fmt[g]
        /\ fmt'[hook.form].fd = IF hook.pc = "fd" THEN hook.fd ELSE fmt[hook.form].fd
        /\ fmt'[hook.form].arg = IF hook.pc = "fd" THEN fmt[hook.form].arg ELSE hook.arg
    <2>1. CASE hook.pc = "fd"
      BY <1>2, <2>1
    <2>2. CASE hook.pc # "fd"
      BY SMTT(30), <1>2, <2>2
    <2> QED BY <2>1, <2>2
  <1>4. hook.form \in ArgsFirst => fmt[hook.form].flag = 0 /\ hook.form # "CLOSE"
    BY <1>2 DEF ChannelInv, Filling, ArgsFirst
  <1>5. NoGuardedInv'
    BY <1>2, <1>3 DEF NoGuardedInv, Guarded, Forms
  <1>6. ChannelInv'
    BY <1>2, <1>3, <1>4 DEF ChannelInv, Filling
  <1>7. AskedInv'
    BY <1>2, <1>3, <1>4 DEF AskedInv, ArgsFirst, Forms
  <1> QED BY <1>1, <1>5, <1>6, <1>7

\* Every step of the application keeps the invariant.
LEMMA AppWhole ==
  ASSUME WholeInv, NoGuardedCalls, AppStep
  PROVE  WholeInv'
  <1>1. HookNext /\ AppFrame
    BY DEF AppStep, Application
  <1>2. TypeOK'
    BY <1>1, AppTypes
  <1>3. CASE Invoke
    <2>1. asked' = asked \cup {[form |-> hook'.form, fd |-> hook'.fd, arg |-> hook'.arg]}
      BY <1>3 DEF AppStep, Invoke
    <2> QED BY <1>1, <1>3, <2>1, InvokeWhole
  <1>4. CASE Retry \/ Return
    BY <1>1, <1>2, <1>4, QuietWhole DEF AppStep, Retry, Return
  <1>5. CASE HookCall
    <2>1. hook.form # "ACCEPT"
      BY DEF NoGuardedInv, Guarded
    <2> DEFINE p == CASE hook.form \in ArgsFirst -> "await"
                      [] hook.form = "SOCKET"    -> "arg"
                      [] OTHER                   -> "fd"
    <2>2. p \in HookPC /\ p \in IF hook.form \in ArgsFirst THEN {"await"} ELSE {"fd", "arg"}
      BY DEF HookPC, ArgsFirst
    <2>3. \/ Spin
          \/ Claim(IF hook.form = "READ" THEN "fd" ELSE "form")
          \/ StoreForm(IF hook.form \in ArgsFirst THEN "fd" ELSE "flag")
          \/ StoreFlag(p)
          \/ StoreFd(IF hook.form = "CLOSE" THEN "await" ELSE "arg")
          \/ StoreArg(IF hook.form \in ArgsFirst THEN "flag" ELSE "await")
          \/ SeeReply \/ ClearReply \/ LoadRet
      BY <1>5, <2>1, HookCallMoves
    <2> HIDE DEF p
    <2>4. hook.pc # "idle"
      BY <2>3 DEF Spin, Claim, StoreForm, StoreFlag, StoreFd, StoreArg, SeeReply,
                  ClearReply, LoadRet
    <2>5. UNCHANGED asked
      BY <2>4 DEF AppStep
    <2>6. CASE SeeReply \/ ClearReply \/ LoadRet
      BY <1>1, <1>2, <2>5, <2>6, QuietWhole DEF SeeReply, ClearReply, LoadRet
    <2> QED BY <1>1, <2>2, <2>3, <2>5, <2>6, ClaimWhole, StoreFormWhole, StoreFlagWhole,
               StoreFieldWhole
  <1> QED BY <1>1, <1>3, <1>4, <1>5 DEF HookNext

-----------------------------------------------------------------------------
\* The monitor looks for work, or waits: it starts a case only with the channel
\* held and the slot's flag up.
LEMMA LookWhole ==
  ASSUME WholeInv, MonFrame, UNCHANGED asked, TypeOK',
         Loop \/ Poll \/ Switch \/ Tail \/ Wait \/ MainLoop
  PROVE  WholeInv'
  <1>1. CASE Loop \/ Tail \/ MainLoop
    <2>1. /\ UNCHANGED <<shm, ep_status>> /\ mon'.form = mon.form
          /\ mon'.mode \in {mon.mode, "prep", "service"}
          /\ mon'.pc \in {"stack", "poll"}
      BY <1>1 DEF Loop, Tail, MainLoop, Dispatch, Go, NoGuardedInv
    <2>2. NoGuardedInv' /\ ChannelInv' /\ AskedInv'
      BY <2>1 DEF NoGuardedInv, ChannelInv, AskedInv, Filling
    <2> QED BY <2>2
  <1>2. CASE Poll
    <2>1. /\ UNCHANGED <<shm, ep_status>> /\ mon'.form = mon.form /\ mon'.mode = mon.mode
          /\ IF ds_form.flag = 1 THEN mon'.pc = "switch"
                                 ELSE mon'.pc \in {"tail", "stack"}
      BY <1>2 DEF Poll, Go, RoundEnd, NoGuardedInv
    <2>2. NoGuardedInv' /\ ChannelInv' /\ AskedInv'
      BY <2>1 DEF NoGuardedInv, ChannelInv, AskedInv, Filling
    <2> QED BY <2>2
  <1>3. CASE Switch
    <2>1. /\ UNCHANGED <<shm, ep_status>> /\ mon'.mode = mon.mode /\ mon.pc = "switch"
          /\ mon'.form \in {mon.form, ds_form.form} /\ mon'.pc \in {"wait", "tail", "stack"}
      BY <1>3 DEF Switch, RoundEnd, NoGuardedInv
    <2>2. NoGuardedInv' /\ ChannelInv' /\ AskedInv'
      BY <2>1 DEF NoGuardedInv, ChannelInv, AskedInv, Filling
    <2> QED BY <2>2
  <1>4. CASE Wait
    <2>1. /\ UNCHANGED <<shm, ep_status>> /\ mon'.mode = mon.mode /\ mon'.form = mon.form
          /\ mon.pc = "wait" /\ mon'.pc = "exec" /\ fmt[mon.form].flag = 1
          /\ mon.form \in Forms
      BY <1>4 DEF Wait, Go, NoGuardedInv
    <2>2. NoGuardedInv' /\ ChannelInv' /\ AskedInv'
      BY <2>1 DEF NoGuardedInv, ChannelInv, AskedInv, Filling
    <2> QED BY <2>2
  <1> QED BY <1>1, <1>2, <1>3, <1>4

\* It executes the request, and the flag comes down before the channel is freed.
LEMMA ServeWhole ==
  ASSUME WholeInv, UNCHANGED <<hook, asked>>, TypeOK',
         Exec \/ ClearRequest \/ PutRet \/ PutFlag \/ SocketPost \/ Release \/ SocketAgain
  PROVE  WholeInv'
  <1> USE DEF Go
  <1>1. CASE Exec
    <2>1. /\ UNCHANGED <<shm, ep_status>> /\ mon'.mode = mon.mode /\ mon'.form = mon.form
          /\ mon.pc = "exec" /\ mon'.pc = "clear"
      BY <1>1 DEF Exec, NoGuardedInv
    <2>2. NoGuardedInv' /\ ChannelInv' /\ AskedInv'
      BY <2>1 DEF NoGuardedInv, ChannelInv, AskedInv, Filling
    <2> QED BY <2>2
  <1>2. CASE ClearRequest
    <2>1. /\ UNCHANGED <<ds_form, ep_status>> /\ mon'.mode = mon.mode
          /\ mon'.form = mon.form /\ mon.form \in Forms /\ mon.pc = "clear"
          /\ mon'.pc \in {"flag", "ret"}
          /\ fmt' = [fmt EXCEPT ![mon.form].flag = 0]
      BY <1>2 DEF ClearRequest
    <2>2. /\ \A g \in Forms : g # mon.form => fmt[g].flag = 0
          /\ ds_form.flag = 1 /\ ~Filling
      BY <2>1 DEF ChannelInv
    <2>3. /\ \A g \in Forms : fmt'[g].flag = 0
          /\ \A g \in Forms : fmt'[g].fd = fmt[g].fd /\ fmt'[g].arg = fmt[g].arg
      BY <2>1, <2>2
    <2>4. NoGuardedInv'
      <3>1. Guarded \subseteq Forms
        BY DEF Guarded, Forms
      <3> QED BY <2>1, <2>3, <3>1 DEF NoGuardedInv
    <2>5. ChannelInv'
      BY <2>1, <2>2, <2>3 DEF ChannelInv, Filling
    <2>6. AskedInv'
      <3>1. ArgsFirst \subseteq Forms
        BY DEF ArgsFirst, Forms
      <3> QED BY <2>1, <2>3, <3>1 DEF AskedInv
    <2> QED BY <2>4, <2>5, <2>6
  <1>3. CASE PutRet \/ PutFlag \/ SocketPost
    <2>1. /\ UNCHANGED <<ds_form, fmt, ep_status>> /\ mon'.mode = mon.mode
          /\ mon'.form = mon.form /\ mon.pc \in {"ret", "flag", "post"}
          /\ mon'.pc \in {"ret", "flag", "post", "release"}
      BY <1>3 DEF PutRet, PutFlag, AfterFlag, SocketPost
    <2>2. NoGuardedInv' /\ ChannelInv' /\ AskedInv'
      BY <2>1 DEF NoGuardedInv, ChannelInv, AskedInv, Filling
    <2> QED BY <2>2
  <1>4. CASE Release
    <2>1. /\ UNCHANGED <<fmt, ep_status>> /\ mon'.mode = mon.mode /\ mon'.form = mon.form
          /\ mon.pc = "release" /\ mon'.pc \in {"again", "tail", "stack"}
          /\ ds_form'.form = ds_form.form /\ ds_form'.flag = 0
      BY <1>4 DEF Release, CaseEnd, RoundEnd, NoGuardedInv, DsForm
    <2>2. \A g \in Forms : fmt[g].flag = 0
      BY <2>1 DEF ChannelInv
    <2>3. ~Filling
      BY <2>1 DEF ChannelInv
    <2>4. NoGuardedInv' /\ ChannelInv' /\ AskedInv'
      BY <2>1, <2>2, <2>3 DEF NoGuardedInv, ChannelInv, AskedInv, Filling
    <2> QED BY <2>4
  <1>5. CASE SocketAgain
    <2>1. /\ UNCHANGED <<ds_form, fmt, ep_status>> /\ mon'.mode = mon.mode
          /\ mon'.form = mon.form /\ mon'.pc = "tail"
      BY <1>5 DEF SocketAgain
    <2>2. NoGuardedInv' /\ ChannelInv' /\ AskedInv'
      BY <2>1 DEF NoGuardedInv, ChannelInv, AskedInv, Filling
    <2> QED BY <2>2
  <1> QED BY <1>1, <1>2, <1>3, <1>4, <1>5

\* Every step of the monitor, and every packet, keeps the invariant.
LEMMA MonWhole ==
  ASSUME WholeInv, MonitorSteps
  PROVE  WholeInv'
  <1>1. TypeOK'
    BY MonTypes DEF MonitorSteps
  <1>2. UNCHANGED <<hook, asked>> /\ (MonitorStep \/ MainLoop)
    BY DEF MonitorSteps, Monitor, Packets
  <1>3. ~(Guard \/ BindPost \/ ListenPost \/ AcceptPost \/ EpollWait \/ Events)
    BY DEF NoGuardedInv, Guarded, Guard, BindPost, ListenPost, AcceptPost, EpollWait, Events
  <1>4. CASE Loop \/ Poll \/ Switch \/ Tail \/ Wait \/ MainLoop
    <2>1. UNCHANGED done
      BY <1>4 DEF Loop, Poll, Switch, Tail, Wait, MainLoop, MonitorSteps, Monitor, Packets
    <2> QED BY <1>1, <1>2, <1>4, <2>1, LookWhole
  <1>5. CASE \/ Exec \/ ClearRequest \/ PutRet \/ PutFlag \/ SocketPost \/ Release
             \/ SocketAgain
    BY <1>1, <1>2, <1>5, ServeWhole
  <1> QED BY <1>2, <1>3, <1>4, <1>5 DEF MonitorStep

-----------------------------------------------------------------------------
\* A program that dies leaves its slot half filled with the flag down, or whole;
\* the monitor that dies leaves the channel held; new segments hold nothing.
LEMMA CrashWhole ==
  ASSUME WholeInv, AppRestart \/ MonitorRestart \/ DelShm
  PROVE  WholeInv'
  <1>0. TypeOK'
    BY CrashTypes
  <1>1. CASE AppRestart
    <2>1. UNCHANGED <<shm, mon, locals, asked>> /\ hook'.pc = "idle" /\ hook'.form = "SOCKET"
      BY <1>1 DEF AppRestart, HookStart
    <2>2. NoGuardedInv' /\ ChannelInv' /\ AskedInv'
      BY <2>1 DEF NoGuardedInv, Guarded, ChannelInv, AskedInv, Filling, ArgsFirst
    <2> QED BY <1>0, <2>2
  <1>2. CASE MonitorRestart
    <2>1. /\ UNCHANGED <<shm, hook, asked>> /\ mon'.pc = "stack" /\ mon'.mode = "prep"
          /\ mon'.form = "SOCKET" /\ ep_status' = 0
      BY <1>2 DEF MonitorRestart, MonitorStart
    <2>2. NoGuardedInv' /\ ChannelInv' /\ AskedInv'
      BY <2>1 DEF NoGuardedInv, Guarded, ChannelInv, AskedInv, Filling
    <2> QED BY <1>0, <2>2
  <1>3. CASE DelShm
    <2>1. /\ UNCHANGED asked /\ mon'.pc = "stack" /\ mon'.mode = "prep"
          /\ mon'.form = "SOCKET" /\ ep_status' = 0 /\ ds_form'.form = "SOCKET"
          /\ hook'.pc = "idle" /\ hook'.form = "SOCKET"
          /\ \A g \in Forms : fmt'[g].flag = 0
      BY <1>3 DEF DelShm, MonitorStart, HookStart
    <2>2. Guarded \subseteq Forms /\ ArgsFirst \subseteq Forms /\ "SOCKET" \notin ArgsFirst
          /\ "SOCKET" \notin Guarded
      BY DEF Guarded, Forms, ArgsFirst
    <2>3. NoGuardedInv' /\ ChannelInv' /\ AskedInv'
      BY <2>1, <2>2 DEF NoGuardedInv, ChannelInv, AskedInv, Filling
    <2> QED BY <1>0, <2>3
  <1> QED BY <1>1, <1>2, <1>3

\* In the first state no flag is up.
LEMMA InitWhole ==
  ASSUME RestartInit PROVE WholeInv
  <1>1. TypeOK
    BY InitIInv DEF RestartInit, IInv
  <1>2. /\ mon.pc = "stack" /\ mon.mode = "prep" /\ mon.form = "SOCKET" /\ ep_status = 0
        /\ ds_form.form = "SOCKET" /\ hook.pc = "idle" /\ hook.form = "SOCKET"
        /\ \A g \in Forms : fmt[g].flag = 0
    BY DEF RestartInit, Init, ft_init, HookInit, HookStart, MonitorInit, MonitorStart
  <1>3. Guarded \subseteq Forms /\ ArgsFirst \subseteq Forms /\ "SOCKET" \notin ArgsFirst
        /\ "SOCKET" \notin Guarded
    BY DEF Guarded, Forms, ArgsFirst
  <1>4. NoGuardedInv /\ ChannelInv /\ AskedInv
    BY <1>2, <1>3 DEF NoGuardedInv, ChannelInv, AskedInv, Filling
  <1> QED BY <1>1, <1>4

-----------------------------------------------------------------------------
\* The types hold through any number of kills and restarts, of any application
\* and of the monitor (ft_hook.c:29, main.c: neither ft_init resets the segments).
THEOREM RestartTypeCorrect == RestartSpec => []TypeOK
  <1>1. RestartInit => TypeOK
    BY InitIInv DEF RestartInit, IInv
  <1>2. TypeOK /\ [RestartNext]_restartVars => TypeOK'
    BY RestartTypes
  <1> HIDE DEF TypeOK
  <1> QED BY <1>1, <1>2, PTL DEF RestartSpec

\* connect() returns 0 whatever was killed when, and whoever's reply it reads.
THEOREM ConnectReturnsZeroAfterRestarts == RestartSpec => []ConnectSucceeds
  <1> DEFINE I == TypeOK /\ ConnectInv /\ ConnectSucceeds
  <1>1. RestartInit => I
    BY InitIInv DEF RestartInit, IInv
  <1>2. I /\ [RestartNext]_restartVars => I'
    BY RestartTypes, RestartConnect
  <1>3. I => ConnectSucceeds
    OBVIOUS
  <1> HIDE DEF I
  <1> QED BY <1>1, <1>2, <1>3, PTL DEF RestartSpec

\* For a program that makes none of the calls with an `fd > 0' test, WholeInv, the
\* inductive invariant of the channel, survives any number of kills and restarts.
THEOREM SpecWholeInv == NoGuardedCalls => (RestartSpec => []WholeInv)
  <1> SUFFICES ASSUME NoGuardedCalls PROVE RestartSpec => []WholeInv
    OBVIOUS
  <1>1. RestartInit => WholeInv
    BY InitWhole
  <1>2. WholeInv /\ [RestartNext]_restartVars => WholeInv'
    <2>1. CASE UNCHANGED restartVars
      BY <2>1 DEF restartVars, vars, NoGuardedInv, ChannelInv, Filling, AskedInv, StackTypeOK
    <2> QED BY <2>1, AppWhole, MonWhole, CrashWhole DEF RestartNext
  <1> HIDE DEF WholeInv
  <1> QED BY <1>1, <1>2, PTL DEF RestartSpec

\* So a request that the monitor executes, of a form whose hook stores the fields
\* before the flag, was asked for by one call of one program, never half by a
\* program that died and half by its successor.  socket() and close() raise the
\* flag first (ft_hook.c:92) and are not among these forms.
THEOREM RequestsAreWhole == NoGuardedCalls => (RestartSpec => []WholeRequests)
  <1>1. WholeInv => WholeRequests
    BY DEF WholeRequests, ChannelInv, AskedInv
  <1> HIDE DEF WholeInv
  <1> QED BY <1>1, SpecWholeInv, PTL
=============================================================================
