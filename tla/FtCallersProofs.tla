--------------------------- MODULE FtCallersProofs ---------------------------
(***************************************************************************)
(* Two programs on one channel: each call that only one of them makes      *)
(* returns its own result.  The handshake over its slot is FtSlotProofs';  *)
(* what is added here is that each caller keeps it and that the other one, *)
(* who may hold the channel at the same time, does not touch the slot.     *)
(***************************************************************************)
EXTENDS FtCallers, FtSlotProofs

USE DEF ShmTypeOK, MonitorTypeOK, Request, Reply, shm, locals

\* The state of a caller: the type of hook in FtHook.
CallerPC == {"idle", "spin", "claim", "form", "flag", "fd", "arg", "await",
             "clear", "ret", "back"}

CallerType ==
  [pc : CallerPC, form : Forms, fd : Int, arg : Nat, ret : Int, n : 0..MaxCalls,
   prev : (Forms \cup {"START"}) \X {"ok", "err"}, sock : Int, conn : Int]

LEMMA SameTypes == /\ A!HookTypeOK <=> a \in CallerType
                   /\ B!HookTypeOK <=> b \in CallerType
  BY DEF A!HookTypeOK, B!HookTypeOK, A!HookPC, B!HookPC, A!Forms, B!Forms, Forms,
         CallerType, CallerPC

\* A step of a hook from h to h2, of a program that makes the calls C.
HookStep(h, h2, C) ==
  \/ /\ h.pc = "idle" /\ h2.pc = "spin" /\ h2.form \in C
     /\ h2 \in CallerType /\ UNCHANGED shm
  \/ /\ h.pc = "back" /\ h2.pc \in {"idle", "spin"} /\ h2.form = h.form
     /\ h2 \in CallerType /\ UNCHANGED shm
  \/ /\ h.pc = "ret" /\ h2 = [h EXCEPT !.pc = "back", !.ret = fmtr[h.form].ret]
     /\ UNCHANGED shm
  \/ \E p \in CallerPC :
     /\ h2 = [h EXCEPT !.pc = p]
     /\ \/ /\ <<h.pc, p>> = <<"spin", "claim">> /\ UNCHANGED shm
        \/ /\ h.pc = "claim" /\ p \in {"form", "fd"}
           /\ ds_form' = [ds_form EXCEPT !.flag = 1] /\ UNCHANGED <<fmt, fmtr>>
        \/ /\ h.pc = "form" /\ (h.form \in ArgsFirst => p = "fd")
           /\ ds_form' = [ds_form EXCEPT !.form = h.form] /\ UNCHANGED <<fmt, fmtr>>
        \/ /\ h.pc = "fd" /\ (h.form \in ArgsFirst => p = "arg")
           /\ fmt' = [fmt EXCEPT ![h.form].fd = h.fd] /\ UNCHANGED <<ds_form, fmtr>>
        \/ /\ h.pc = "arg" /\ (h.form \in ArgsFirst => p = "flag")
           /\ fmt' = [fmt EXCEPT ![h.form].arg = h.arg] /\ UNCHANGED <<ds_form, fmtr>>
        \/ /\ h.pc = "flag" /\ (h.form \in ArgsFirst => p = "await")
           /\ fmt' = [fmt EXCEPT ![h.form].flag = 1] /\ UNCHANGED <<ds_form, fmtr>>
        \/ /\ <<h.pc, p>> = <<"await", "clear">> /\ fmtr[h.form].flag = 1
           /\ UNCHANGED shm
        \/ /\ <<h.pc, p>> = <<"clear", "ret">>
           /\ fmtr' = [fmtr EXCEPT ![h.form].flag = 0] /\ UNCHANGED <<ds_form, fmt>>

-----------------------------------------------------------------------------
\* The steps of one caller, A: what its hooks do, in the order of their stores.
LEMMA MovesA ==
  ASSUME A!HookCall
  PROVE  \/ A!Spin
         \/ A!Claim(IF a.form = "READ" THEN "fd" ELSE "form")
         \/ A!StoreForm(IF a.form \in ArgsFirst \cup {"ACCEPT"} THEN "fd" ELSE "flag")
         \/ A!StoreFlag(CASE a.form \in ArgsFirst \cup {"ACCEPT"} -> "await"
                         [] a.form = "SOCKET"                    -> "arg"
                         [] OTHER                                -> "fd")
         \/ A!StoreFd(IF a.form = "CLOSE" THEN "await" ELSE "arg")
         \/ A!StoreArg(IF a.form \in ArgsFirst \cup {"ACCEPT"} THEN "flag" ELSE "await")
         \/ A!SeeReply \/ A!ClearReply \/ A!LoadRet
  <1> USE DEF A!FlagThenArgs, A!ArgsThenFlag, A!TakeReply, ArgsFirst
  <1>1. CASE A!ft_hook_socket
    BY <1>1 DEF A!ft_hook_socket
  <1>2. CASE A!ft_hook_close
    BY <1>2 DEF A!ft_hook_close
  <1>3. CASE A!ft_hook_connect \/ A!ft_hook_listen \/ A!ft_hook_bind
    BY <1>3 DEF A!ft_hook_connect, A!ft_hook_listen, A!ft_hook_bind
  <1>4. CASE A!ft_hook_read
    BY <1>4 DEF A!ft_hook_read
  <1>5. CASE A!ft_hook_write \/ A!ft_hook_select \/ A!ft_hook_recv \/ A!ft_hook_send
    BY <1>5 DEF A!ft_hook_write, A!ft_hook_select, A!ft_hook_recv, A!ft_hook_send
  <1>6. CASE \/ A!ft_hook_recvfrom \/ A!ft_hook_sendto
             \/ A!ft_hook_setsockopt \/ A!ft_hook_getsockopt
    BY <1>6 DEF A!ft_hook_recvfrom, A!ft_hook_sendto, A!ft_hook_setsockopt,
                A!ft_hook_getsockopt
  <1>7. CASE A!ft_hook_accept
    BY <1>7 DEF A!ft_hook_accept
  <1> QED BY <1>1, <1>2, <1>3, <1>4, <1>5, <1>6, <1>7 DEF A!HookCall

\* It makes one of its calls.
LEMMA InvokeA ==
  ASSUME a \in CallerType, A!Invoke
  PROVE  HookStep(a, a', CallsOf(FollowA))
  <1>1. PICK f \in FollowA[a.prev[1]][a.prev[2]] : \E v \in A!ArgsOf(f) :
          a' = [a EXCEPT !.pc = "spin", !.form = f, !.fd = A!FdFor(f),
                         !.arg = v, !.n = @ + 1]
    BY DEF A!Invoke
  <1>2. PICK v \in A!ArgsOf(f) :
          a' = [a EXCEPT !.pc = "spin", !.form = f, !.fd = A!FdFor(f),
                         !.arg = v, !.n = @ + 1]
    BY <1>1
  <1>3. f \in Forms /\ f \in CallsOf(FollowA)
    <2>1. a.prev[1] \in Forms \cup {"START"} /\ a.prev[2] \in {"ok", "err"}
      BY DEF CallerType
    <2>2. PICK g \in Forms \cup {"START"} : g = a.prev[1]
      BY <2>1
    <2>3. FollowA[g] \in [ok : SUBSET Forms, err : SUBSET Forms]
      BY ProgramsAssumption
    <2>4. f \in FollowA[g].ok \/ f \in FollowA[g].err
      BY <2>1, <2>2
    <2> QED BY <2>3, <2>4 DEF CallsOf
  <1>4. v \in Nat /\ A!FdFor(f) \in Int /\ a.n + 1 \in 0..MaxCalls
    BY MaxCallsAssumption, ProgramsAssumption
       DEF CallerType, A!Invoke, A!ArgsOf, A!FdFor, STREAM, DGRAM
  <1>5. a' \in CallerType
    BY <1>2, <1>3, <1>4 DEF CallerType, CallerPC
  <1>6. a.pc = "idle" /\ a'.pc = "spin" /\ a'.form = f /\ UNCHANGED shm
    BY <1>2 DEF A!Invoke, A!shm, CallerType
  <1> QED BY <1>3, <1>5, <1>6 DEF HookStep

\* It goes on with the call, makes it again or returns to its program.
LEMMA StepA ==
  ASSUME ShmTypeOK, a \in CallerType, A!HookNext
  PROVE  HookStep(a, a', CallsOf(FollowA))
  <1> USE DEF A!shm
  <1>1. CASE A!Spin \/ A!SeeReply
    BY <1>1 DEF A!Spin, A!SeeReply, HookStep, CallerType, CallerPC
  <1>2. CASE A!Claim(IF a.form = "READ" THEN "fd" ELSE "form")
    BY <1>2 DEF A!Claim, HookStep, CallerType, CallerPC
  <1>3. CASE A!StoreForm(IF a.form \in ArgsFirst \cup {"ACCEPT"} THEN "fd" ELSE "flag")
    BY <1>3 DEF A!StoreForm, HookStep, CallerType, CallerPC
  <1>4. CASE A!StoreFlag(CASE a.form \in ArgsFirst \cup {"ACCEPT"} -> "await"
                            [] a.form = "SOCKET"                    -> "arg"
                            [] OTHER                                -> "fd")
    <2> DEFINE p == CASE a.form \in ArgsFirst \cup {"ACCEPT"} -> "await"
                      [] a.form = "SOCKET"                    -> "arg"
                      [] OTHER                                -> "fd"
    <2>1. p \in {"await", "arg", "fd"} /\ (a.form \in ArgsFirst => p = "await")
      <3>1. "SOCKET" \notin ArgsFirst
        BY DEF ArgsFirst
      <3> QED BY <3>1
    <2>2. A!StoreFlag(p)
      BY <1>4
    <2> HIDE DEF p
    <2> QED BY <2>1, <2>2 DEF A!StoreFlag, HookStep, CallerPC
  <1>5. CASE A!StoreFd(IF a.form = "CLOSE" THEN "await" ELSE "arg")
    <2>1. a.form \in ArgsFirst => a.form # "CLOSE"
      BY DEF ArgsFirst
    <2> QED BY <1>5, <2>1 DEF A!StoreFd, HookStep, CallerPC
  <1>6. CASE A!StoreArg(IF a.form \in ArgsFirst \cup {"ACCEPT"} THEN "flag" ELSE "await")
    BY <1>6 DEF A!StoreArg, HookStep, CallerPC
  <1>7. CASE A!ClearReply
    BY <1>7 DEF A!ClearReply, HookStep, CallerPC
  <1>8. CASE A!LoadRet
    <2>1. fmtr[a.form].ret \in Int
      BY DEF CallerType
    <2> QED BY <1>8, <2>1 DEF A!LoadRet, HookStep
  <1>9. CASE A!Retry \/ A!Return
    <2>1. a' \in CallerType
      <3>1. CASE A!Retry
        BY <3>1 DEF A!Retry, CallerType, CallerPC
      <3>2. CASE A!Return
        <4> DEFINE s == IF a.form = "SOCKET" /\ a.ret > 0 THEN a.ret ELSE a.sock
                   c == IF a.form = "ACCEPT" /\ a.ret > 0 THEN a.ret ELSE a.conn
        <4>1. s \in Int /\ c \in Int /\ a.form \in Forms
          BY DEF CallerType
        <4>2. A!Verdict \in {"ok", "err"}
          BY DEF A!Verdict
        <4>3. a' = [a EXCEPT !.pc = "idle", !.prev = <<a.form, A!Verdict>>,
                            !.sock = s, !.conn = c]
          BY <3>2 DEF A!Return, CallerType
        <4> HIDE DEF s, c
        <4> QED BY <4>1, <4>2, <4>3 DEF CallerType, CallerPC
      <3> QED BY <1>9, <3>1, <3>2
    <2>2. a.pc = "back" /\ a'.pc \in {"idle", "spin"} /\ a'.form = a.form /\ UNCHANGED shm
      BY <1>9 DEF A!Retry, A!Return, CallerType
    <2> QED BY <2>1, <2>2 DEF HookStep
  <1> QED BY <1>1, <1>2, <1>3, <1>4, <1>5, <1>6, <1>7, <1>8, <1>9, MovesA, InvokeA
          DEF A!HookNext

\* The steps of one caller, B: what its hooks do, in the order of their stores.
LEMMA MovesB ==
  ASSUME B!HookCall
  PROVE  \/ B!Spin
         \/ B!Claim(IF b.form = "READ" THEN "fd" ELSE "form")
         \/ B!StoreForm(IF b.form \in ArgsFirst \cup {"ACCEPT"} THEN "fd" ELSE "flag")
         \/ B!StoreFlag(CASE b.form \in ArgsFirst \cup {"ACCEPT"} -> "await"
                         [] b.form = "SOCKET"                    -> "arg"
                         [] OTHER                                -> "fd")
         \/ B!StoreFd(IF b.form = "CLOSE" THEN "await" ELSE "arg")
         \/ B!StoreArg(IF b.form \in ArgsFirst \cup {"ACCEPT"} THEN "flag" ELSE "await")
         \/ B!SeeReply \/ B!ClearReply \/ B!LoadRet
  <1> USE DEF B!FlagThenArgs, B!ArgsThenFlag, B!TakeReply, ArgsFirst
  <1>1. CASE B!ft_hook_socket
    BY <1>1 DEF B!ft_hook_socket
  <1>2. CASE B!ft_hook_close
    BY <1>2 DEF B!ft_hook_close
  <1>3. CASE B!ft_hook_connect \/ B!ft_hook_listen \/ B!ft_hook_bind
    BY <1>3 DEF B!ft_hook_connect, B!ft_hook_listen, B!ft_hook_bind
  <1>4. CASE B!ft_hook_read
    BY <1>4 DEF B!ft_hook_read
  <1>5. CASE B!ft_hook_write \/ B!ft_hook_select \/ B!ft_hook_recv \/ B!ft_hook_send
    BY <1>5 DEF B!ft_hook_write, B!ft_hook_select, B!ft_hook_recv, B!ft_hook_send
  <1>6. CASE \/ B!ft_hook_recvfrom \/ B!ft_hook_sendto
             \/ B!ft_hook_setsockopt \/ B!ft_hook_getsockopt
    BY <1>6 DEF B!ft_hook_recvfrom, B!ft_hook_sendto, B!ft_hook_setsockopt,
                B!ft_hook_getsockopt
  <1>7. CASE B!ft_hook_accept
    BY <1>7 DEF B!ft_hook_accept
  <1> QED BY <1>1, <1>2, <1>3, <1>4, <1>5, <1>6, <1>7 DEF B!HookCall

\* It makes one of its calls.
LEMMA InvokeB ==
  ASSUME b \in CallerType, B!Invoke
  PROVE  HookStep(b, b', CallsOf(FollowB))
  <1>1. PICK f \in FollowB[b.prev[1]][b.prev[2]] : \E v \in B!ArgsOf(f) :
          b' = [b EXCEPT !.pc = "spin", !.form = f, !.fd = B!FdFor(f),
                         !.arg = v, !.n = @ + 1]
    BY DEF B!Invoke
  <1>2. PICK v \in B!ArgsOf(f) :
          b' = [b EXCEPT !.pc = "spin", !.form = f, !.fd = B!FdFor(f),
                         !.arg = v, !.n = @ + 1]
    BY <1>1
  <1>3. f \in Forms /\ f \in CallsOf(FollowB)
    <2>1. b.prev[1] \in Forms \cup {"START"} /\ b.prev[2] \in {"ok", "err"}
      BY DEF CallerType
    <2>2. PICK g \in Forms \cup {"START"} : g = b.prev[1]
      BY <2>1
    <2>3. FollowB[g] \in [ok : SUBSET Forms, err : SUBSET Forms]
      BY ProgramsAssumption
    <2>4. f \in FollowB[g].ok \/ f \in FollowB[g].err
      BY <2>1, <2>2
    <2> QED BY <2>3, <2>4 DEF CallsOf
  <1>4. v \in Nat /\ B!FdFor(f) \in Int /\ b.n + 1 \in 0..MaxCalls
    BY MaxCallsAssumption, ProgramsAssumption
       DEF CallerType, B!Invoke, B!ArgsOf, B!FdFor, STREAM, DGRAM
  <1>5. b' \in CallerType
    BY <1>2, <1>3, <1>4 DEF CallerType, CallerPC
  <1>6. b.pc = "idle" /\ b'.pc = "spin" /\ b'.form = f /\ UNCHANGED shm
    BY <1>2 DEF B!Invoke, B!shm, CallerType
  <1> QED BY <1>3, <1>5, <1>6 DEF HookStep

\* It goes on with the call, makes it again or returns to its program.
LEMMA StepB ==
  ASSUME ShmTypeOK, b \in CallerType, B!HookNext
  PROVE  HookStep(b, b', CallsOf(FollowB))
  <1> USE DEF B!shm
  <1>1. CASE B!Spin \/ B!SeeReply
    BY <1>1 DEF B!Spin, B!SeeReply, HookStep, CallerType, CallerPC
  <1>2. CASE B!Claim(IF b.form = "READ" THEN "fd" ELSE "form")
    BY <1>2 DEF B!Claim, HookStep, CallerType, CallerPC
  <1>3. CASE B!StoreForm(IF b.form \in ArgsFirst \cup {"ACCEPT"} THEN "fd" ELSE "flag")
    BY <1>3 DEF B!StoreForm, HookStep, CallerType, CallerPC
  <1>4. CASE B!StoreFlag(CASE b.form \in ArgsFirst \cup {"ACCEPT"} -> "await"
                            [] b.form = "SOCKET"                    -> "arg"
                            [] OTHER                                -> "fd")
    <2> DEFINE p == CASE b.form \in ArgsFirst \cup {"ACCEPT"} -> "await"
                      [] b.form = "SOCKET"                    -> "arg"
                      [] OTHER                                -> "fd"
    <2>1. p \in {"await", "arg", "fd"} /\ (b.form \in ArgsFirst => p = "await")
      <3>1. "SOCKET" \notin ArgsFirst
        BY DEF ArgsFirst
      <3> QED BY <3>1
    <2>2. B!StoreFlag(p)
      BY <1>4
    <2> HIDE DEF p
    <2> QED BY <2>1, <2>2 DEF B!StoreFlag, HookStep, CallerPC
  <1>5. CASE B!StoreFd(IF b.form = "CLOSE" THEN "await" ELSE "arg")
    <2>1. b.form \in ArgsFirst => b.form # "CLOSE"
      BY DEF ArgsFirst
    <2> QED BY <1>5, <2>1 DEF B!StoreFd, HookStep, CallerPC
  <1>6. CASE B!StoreArg(IF b.form \in ArgsFirst \cup {"ACCEPT"} THEN "flag" ELSE "await")
    BY <1>6 DEF B!StoreArg, HookStep, CallerPC
  <1>7. CASE B!ClearReply
    BY <1>7 DEF B!ClearReply, HookStep, CallerPC
  <1>8. CASE B!LoadRet
    <2>1. fmtr[b.form].ret \in Int
      BY DEF CallerType
    <2> QED BY <1>8, <2>1 DEF B!LoadRet, HookStep
  <1>9. CASE B!Retry \/ B!Return
    <2>1. b' \in CallerType
      <3>1. CASE B!Retry
        BY <3>1 DEF B!Retry, CallerType, CallerPC
      <3>2. CASE B!Return
        <4> DEFINE s == IF b.form = "SOCKET" /\ b.ret > 0 THEN b.ret ELSE b.sock
                   c == IF b.form = "ACCEPT" /\ b.ret > 0 THEN b.ret ELSE b.conn
        <4>1. s \in Int /\ c \in Int /\ b.form \in Forms
          BY DEF CallerType
        <4>2. B!Verdict \in {"ok", "err"}
          BY DEF B!Verdict
        <4>3. b' = [b EXCEPT !.pc = "idle", !.prev = <<b.form, B!Verdict>>,
                            !.sock = s, !.conn = c]
          BY <3>2 DEF B!Return, CallerType
        <4> HIDE DEF s, c
        <4> QED BY <4>1, <4>2, <4>3 DEF CallerType, CallerPC
      <3> QED BY <1>9, <3>1, <3>2
    <2>2. b.pc = "back" /\ b'.pc \in {"idle", "spin"} /\ b'.form = b.form /\ UNCHANGED shm
      BY <1>9 DEF B!Retry, B!Return, CallerType
    <2> QED BY <2>1, <2>2 DEF HookStep
  <1> QED BY <1>1, <1>2, <1>3, <1>4, <1>5, <1>6, <1>7, <1>8, <1>9, MovesB, InvokeB
          DEF B!HookNext

-----------------------------------------------------------------------------
\* A step of a caller keeps the types of the segments and its own.
LEMMA HookStepTypes ==
  ASSUME ShmTypeOK, NEW C, NEW h \in CallerType, NEW h2, HookStep(h, h2, C)
  PROVE  ShmTypeOK' /\ h2 \in CallerType
  <1>0. h.form \in Forms /\ h.fd \in Int /\ h.arg \in Nat
    BY DEF CallerType
  <1>1. CASE UNCHANGED shm
    <2>1. CASE h2 \in CallerType
      BY <1>1, <2>1
    <2>2. CASE h2 = [h EXCEPT !.pc = "back", !.ret = fmtr[h.form].ret]
      <3>1. fmtr[h.form].ret \in Int
        BY <1>0
      <3> QED BY <1>1, <2>2, <3>1 DEF CallerType, CallerPC
    <2>3. CASE \E p \in CallerPC : h2 = [h EXCEPT !.pc = p]
      BY <1>1, <2>3 DEF CallerType
    <2> QED BY <2>1, <2>2, <2>3 DEF HookStep
  <1>2. CASE ~UNCHANGED shm
    <2>1. PICK p \in CallerPC : h2 = [h EXCEPT !.pc = p]
      BY <1>2 DEF HookStep
    <2>2. h2 \in CallerType
      BY <2>1 DEF CallerType
    <2>3. \/ /\ UNCHANGED <<fmt, fmtr>>
             /\ \/ ds_form' = [ds_form EXCEPT !.flag = 1]
                \/ ds_form' = [ds_form EXCEPT !.form = h.form]
          \/ fmt' = [fmt EXCEPT ![h.form].fd = h.fd] /\ UNCHANGED <<ds_form, fmtr>>
          \/ fmt' = [fmt EXCEPT ![h.form].arg = h.arg] /\ UNCHANGED <<ds_form, fmtr>>
          \/ fmt' = [fmt EXCEPT ![h.form].flag = 1] /\ UNCHANGED <<ds_form, fmtr>>
          \/ fmtr' = [fmtr EXCEPT ![h.form].flag = 0] /\ UNCHANGED <<ds_form, fmt>>
      BY <1>2 DEF HookStep
    <2>4. CASE UNCHANGED <<fmt, fmtr>>
      BY <1>0, <2>2, <2>3, <2>4 DEF DsForm
    <2>5. CASE fmt' = [fmt EXCEPT ![h.form].fd = h.fd] /\ UNCHANGED <<ds_form, fmtr>>
      BY <1>0, <2>2, <2>5
    <2>6. CASE fmt' = [fmt EXCEPT ![h.form].arg = h.arg] /\ UNCHANGED <<ds_form, fmtr>>
      BY <1>0, <2>2, <2>6
    <2>7. CASE fmt' = [fmt EXCEPT ![h.form].flag = 1] /\ UNCHANGED <<ds_form, fmtr>>
      BY <1>0, <2>2, <2>7
    <2>8. CASE fmtr' = [fmtr EXCEPT ![h.form].flag = 0] /\ UNCHANGED <<ds_form, fmt>>
      BY <1>0, <2>2, <2>8
    <2> QED BY <2>2, <2>3, <2>4, <2>5, <2>6, <2>7, <2>8
  <1> QED BY <1>1, <1>2

\* What it does to the slot of a form of ArgsFirst.
LEMMA HookStepSlot ==
  ASSUME ShmTypeOK, NEW C, NEW h \in CallerType, NEW h2, HookStep(h, h2, C),
         NEW f \in ArgsFirst
  PROVE  SlotStep(f, h, h2)
  <1>0. f \in Forms /\ fmt[f] \in Request /\ fmtr[f] \in Reply /\ h.form \in Forms
    BY DEF ArgsFirst, Forms, CallerType
  <1>1. CASE \/ h.pc = "idle" /\ h2.pc = "spin" /\ UNCHANGED shm
             \/ h.pc = "back" /\ h2.pc \in {"idle", "spin"} /\ UNCHANGED shm
    BY <1>1 DEF SlotStep
  <1>2. CASE /\ h.pc = "ret" /\ h2 = [h EXCEPT !.pc = "back", !.ret = fmtr[h.form].ret]
             /\ UNCHANGED shm
    BY <1>2 DEF SlotStep, CallerType
  <1>3. ASSUME NEW p \in CallerPC, h2 = [h EXCEPT !.pc = p],
               h.pc \in {"spin", "claim", "form", "await"},
               UNCHANGED <<fmt, fmtr>>,
               \/ <<h.pc, p>> = <<"spin", "claim">>
               \/ h.pc = "claim" /\ p \in {"form", "fd"}
               \/ h.pc = "form" /\ (h.form \in ArgsFirst => p = "fd")
               \/ <<h.pc, p>> = <<"await", "clear">> /\ fmtr[h.form].flag = 1
        PROVE  SlotStep(f, h, h2)
    BY <1>3 DEF SlotStep, CallerType
  <1>4. ASSUME NEW p \in CallerPC, h2 = [h EXCEPT !.pc = p], h.pc = "fd",
               h.form \in ArgsFirst => p = "arg",
               fmt' = [fmt EXCEPT ![h.form].fd = h.fd], UNCHANGED fmtr
        PROVE  SlotStep(f, h, h2)
    BY <1>0, <1>4 DEF SlotStep, CallerType
  <1>5. ASSUME NEW p \in CallerPC, h2 = [h EXCEPT !.pc = p], h.pc = "arg",
               h.form \in ArgsFirst => p = "flag",
               fmt' = [fmt EXCEPT ![h.form].arg = h.arg], UNCHANGED fmtr
        PROVE  SlotStep(f, h, h2)
    BY <1>0, <1>5 DEF SlotStep, CallerType
  <1>6. ASSUME NEW p \in CallerPC, h2 = [h EXCEPT !.pc = p], h.pc = "flag",
               h.form \in ArgsFirst => p = "await",
               fmt' = [fmt EXCEPT ![h.form].flag = 1], UNCHANGED fmtr
        PROVE  SlotStep(f, h, h2)
    BY <1>0, <1>6 DEF SlotStep, CallerType
  <1>7. ASSUME h2 = [h EXCEPT !.pc = "ret"], h.pc = "clear",
               fmtr' = [fmtr EXCEPT ![h.form].flag = 0], UNCHANGED fmt
        PROVE  SlotStep(f, h, h2)
    BY <1>0, <1>7 DEF SlotStep, CallerType
  <1> QED BY <1>1, <1>2, <1>3, <1>4, <1>5, <1>6, <1>7 DEF HookStep

\* A caller keeps to its own calls, and leaves the other slots alone.
LEMMA HookStepForm ==
  ASSUME ShmTypeOK, NEW C, NEW h \in CallerType, NEW h2, HookStep(h, h2, C),
         h.form \in C \cup {"SOCKET"}
  PROVE  h2.form \in C \cup {"SOCKET"}
  BY DEF HookStep, CallerType

LEMMA HookStepAside ==
  ASSUME ShmTypeOK, NEW C, NEW h \in CallerType, NEW h2, HookStep(h, h2, C),
         NEW f \in Forms, h.form # f
  PROVE  UNCHANGED <<fmt[f], fmtr[f]>>
  BY DEF HookStep, CallerType

-----------------------------------------------------------------------------
\* The invariant holds in the first state: no flag is up.
LEMMA InitCallersInv ==
  ASSUME CallersInit PROVE CallersInv
  <1> USE DEF CallersInit, ft_init, StackInit, MonitorInit, MonitorStart
  <1>1. a = A!HookStart /\ b = B!HookStart
    BY DEF A!HookInit, B!HookInit
  <1>2. a \in CallerType /\ b \in CallerType /\ a.form = "SOCKET" /\ b.form = "SOCKET"
        /\ a.pc = "idle" /\ b.pc = "idle"
    BY <1>1, MaxCallsAssumption
       DEF A!HookStart, B!HookStart, CallerType, CallerPC, Forms
  <1>3. A!HookTypeOK /\ B!HookTypeOK
    BY <1>2, SameTypes
  <1>4. ShmTypeOK
    BY DEF DsForm, Forms
  <1>5. StackTypeOK /\ MonitorTypeOK
    BY FreshType DEF StackTypeOK, MonitorPC, Modes, Forms, Kinds
  <1>6. done \in [Forms -> [times : 0..2, fd : Int, arg : Nat, ret : Int]]
    BY DEF NotDone
  <1>7. ModeInv
    BY DEF ModeInv
  <1>8. ASSUME NEW f \in ArgsFirst, NEW h, h.pc = "idle", NEW d
        PROVE  Handshake(f, h, d)
    <2>1. f \in Forms /\ fmt[f].flag = 0 /\ fmtr[f].flag = 0
      BY DEF ArgsFirst, Forms
    <2>2. mon.pc \notin {"guard", "exec", "clear", "ret", "flag"}
      OBVIOUS
    <2> QED BY <1>8, <2>1, <2>2 DEF Handshake
  <1>9. \A f \in OwnA : Handshake(f, a, done[f])
    BY <1>2, <1>8 DEF OwnA
  <1>10. \A f \in OwnB : Handshake(f, b, done[f])
    BY <1>2, <1>8 DEF OwnB
  <1> QED BY <1>2, <1>3, <1>4, <1>5, <1>6, <1>7, <1>9, <1>10 DEF CallersInv

\* A step of caller A: its own slots by the handshake, the other's because it is
\* making none of the other's calls.
LEMMA CallerAInv ==
  ASSUME CallersInv, DifferentCalls, CallerA
  PROVE  CallersInv'
  <1> USE DEF CallersInv
  <1>1. a \in CallerType /\ b \in CallerType
    BY SameTypes
  <1>2. HookStep(a, a', CallsOf(FollowA))
    BY <1>1, StepA DEF CallerA
  <1>3. PICK h \in CallerType : h = a
    BY <1>1
  <1>4. PICK h2 : h2 = a'
    OBVIOUS
  <1>5. ShmTypeOK' /\ h2 \in CallerType
    BY <1>2, <1>3, <1>4, HookStepTypes
  <1>6. A!HookTypeOK' /\ B!HookTypeOK'
    BY <1>1, <1>4, <1>5 DEF A!HookTypeOK, B!HookTypeOK, A!HookPC, B!HookPC,
       A!Forms, B!Forms, Forms, CallerType, CallerPC, CallerA
  <1>7. a'.form \in CallsOf(FollowA) \cup {"SOCKET"}
    BY <1>2, <1>3, <1>4, HookStepForm
  <1>8. /\ done' \in [Forms -> [times : 0..2, fd : Int, arg : Nat, ret : Int]]
        /\ \A f \in Forms : a.form # f => done'[f] = done[f]
        /\ \A f \in Forms : a.form = f =>
             IF a.pc = "claim" THEN done'[f].times = 0 ELSE done'[f] = done[f]
    <2>1. a.form \in Forms
      BY <1>1 DEF CallerType
    <2>2. done' = IF a.pc = "claim" THEN [done EXCEPT ![a.form] = NotDone] ELSE done
      BY DEF CallerA, Forget
    <2>3. NotDone \in [times : 0..2, fd : Int, arg : Nat, ret : Int] /\ NotDone.times = 0
      BY DEF NotDone
    <2> QED BY <2>1, <2>2, <2>3
  <1>9. UNCHANGED <<b, sock, mon, locals>>
    BY DEF CallerA
  <1>10. ASSUME NEW f \in OwnA
         PROVE  Handshake(f, a, done[f])'
    <2>1. f \in ArgsFirst /\ f \in Forms
      BY DEF OwnA, ArgsFirst, Forms
    <2>2. SlotStep(f, h, h2)
      BY <1>2, <1>3, <1>4, <2>1, HookStepSlot
    <2>3. PICK d, d2 : d = done[f] /\ d2 = done'[f]
      OBVIOUS
    <2>4. Handshake(f, h, d)
      BY <1>3, <2>3
    <2>5. h.form = f => IF h.pc = "claim" THEN d2.times = 0 ELSE d2 = d
      BY <1>3, <1>8, <2>1, <2>3
    <2>6. Handshake(f, h2, d2)'
      BY <1>9, <2>1, <2>2, <2>4, <2>5, CallerHandshake
    <2> QED BY <1>4, <2>3, <2>6 DEF Handshake
  <1>11. ASSUME NEW f \in OwnB
         PROVE  Handshake(f, b, done[f])'
    <2>0. Handshake(f, b, done[f]) /\ mon' = mon /\ b' = b
      BY <1>9
    <2>1. f \in ArgsFirst /\ f \in Forms /\ f # "SOCKET"
      BY DEF OwnB, ArgsFirst, Forms
    <2>2. a.form # f
      BY <2>1 DEF DifferentCalls, OwnA, OwnB
    <2>3. UNCHANGED <<fmt[f], fmtr[f]>>
      BY <1>2, <1>3, <1>4, <2>1, <2>2, HookStepAside
    <2>4. done'[f] = done[f]
      BY <1>8, <2>1, <2>2
    <2> HIDE DEF CallersInv
    <2> QED BY <2>0, <2>3, <2>4 DEF Handshake, ExecutedOnce
  <1> QED BY <1>5, <1>6, <1>7, <1>8, <1>9, <1>10, <1>11 DEF StackTypeOK, ModeInv

\* A step of caller B: its own slots by the handshake, the other's because it is
\* making none of the other's calls.
LEMMA CallerBInv ==
  ASSUME CallersInv, DifferentCalls, CallerB
  PROVE  CallersInv'
  <1> USE DEF CallersInv
  <1>1. b \in CallerType /\ a \in CallerType
    BY SameTypes
  <1>2. HookStep(b, b', CallsOf(FollowB))
    BY <1>1, StepB DEF CallerB
  <1>3. PICK h \in CallerType : h = b
    BY <1>1
  <1>4. PICK h2 : h2 = b'
    OBVIOUS
  <1>5. ShmTypeOK' /\ h2 \in CallerType
    BY <1>2, <1>3, <1>4, HookStepTypes
  <1>6. B!HookTypeOK' /\ A!HookTypeOK'
    BY <1>1, <1>4, <1>5 DEF B!HookTypeOK, A!HookTypeOK, B!HookPC, A!HookPC,
       B!Forms, A!Forms, Forms, CallerType, CallerPC, CallerB
  <1>7. b'.form \in CallsOf(FollowB) \cup {"SOCKET"}
    BY <1>2, <1>3, <1>4, HookStepForm
  <1>8. /\ done' \in [Forms -> [times : 0..2, fd : Int, arg : Nat, ret : Int]]
        /\ \A f \in Forms : b.form # f => done'[f] = done[f]
        /\ \A f \in Forms : b.form = f =>
             IF b.pc = "claim" THEN done'[f].times = 0 ELSE done'[f] = done[f]
    <2>1. b.form \in Forms
      BY <1>1 DEF CallerType
    <2>2. done' = IF b.pc = "claim" THEN [done EXCEPT ![b.form] = NotDone] ELSE done
      BY DEF CallerB, Forget
    <2>3. NotDone \in [times : 0..2, fd : Int, arg : Nat, ret : Int] /\ NotDone.times = 0
      BY DEF NotDone
    <2> QED BY <2>1, <2>2, <2>3
  <1>9. UNCHANGED <<a, sock, mon, locals>>
    BY DEF CallerB
  <1>10. ASSUME NEW f \in OwnB
         PROVE  Handshake(f, b, done[f])'
    <2>1. f \in ArgsFirst /\ f \in Forms
      BY DEF OwnB, ArgsFirst, Forms
    <2>2. SlotStep(f, h, h2)
      BY <1>2, <1>3, <1>4, <2>1, HookStepSlot
    <2>3. PICK d, d2 : d = done[f] /\ d2 = done'[f]
      OBVIOUS
    <2>4. Handshake(f, h, d)
      BY <1>3, <2>3
    <2>5. h.form = f => IF h.pc = "claim" THEN d2.times = 0 ELSE d2 = d
      BY <1>3, <1>8, <2>1, <2>3
    <2>6. Handshake(f, h2, d2)'
      BY <1>9, <2>1, <2>2, <2>4, <2>5, CallerHandshake
    <2> QED BY <1>4, <2>3, <2>6 DEF Handshake
  <1>11. ASSUME NEW f \in OwnA
         PROVE  Handshake(f, a, done[f])'
    <2>0. Handshake(f, a, done[f]) /\ mon' = mon /\ a' = a
      BY <1>9
    <2>1. f \in ArgsFirst /\ f \in Forms /\ f # "SOCKET"
      BY DEF OwnA, ArgsFirst, Forms
    <2>2. b.form # f
      BY <2>1 DEF DifferentCalls, OwnA, OwnB
    <2>3. UNCHANGED <<fmt[f], fmtr[f]>>
      BY <1>2, <1>3, <1>4, <2>1, <2>2, HookStepAside
    <2>4. done'[f] = done[f]
      BY <1>8, <2>1, <2>2
    <2> HIDE DEF CallersInv
    <2> QED BY <2>0, <2>3, <2>4 DEF Handshake, ExecutedOnce
  <1> QED BY <1>5, <1>6, <1>7, <1>8, <1>9, <1>10, <1>11 DEF StackTypeOK, ModeInv

\* The monitor's steps and the packets: the handshake of every slot.
LEMMA MonitorInv ==
  ASSUME CallersInv, CallersMonitor \/ CallersPackets
  PROVE  CallersInv'
  <1> USE DEF CallersInv
  <1>1. MonitorStep \/ MainLoop
    BY DEF CallersMonitor, CallersPackets
  <1>2. ShmTypeOK' /\ StackTypeOK' /\ MonitorTypeOK'
    BY <1>1, MonitorTypes
  <1>3. ModeInv'
    BY <1>1, ModeKept
  <1>4. UNCHANGED <<a, b>>
    BY DEF CallersMonitor, CallersPackets
  <1>5. A!HookTypeOK' /\ B!HookTypeOK'
    BY <1>4 DEF A!HookTypeOK, B!HookTypeOK
  <1>6. done' = IF mon.pc = "exec"
                THEN [done EXCEPT ![mon.form] = Recorded(mon.form, done[mon.form])]
                ELSE done
    <2>1. CASE CallersMonitor
      BY <2>1 DEF CallersMonitor, Recorded
    <2>2. CASE CallersPackets
      BY <2>2 DEF CallersPackets, MainLoop
    <2> QED BY <2>1, <2>2
  <1>7. mon.form \in Forms /\ fmt[mon.form].fd \in Int /\ fmt[mon.form].arg \in Nat
        /\ mon'.ret \in Int
    BY <1>2
  <1>8. \A d : Recorded(mon.form, d) \in [times : 0..2, fd : Int, arg : Nat, ret : Int]
    BY <1>7 DEF Recorded
  <1>9. done' \in [Forms -> [times : 0..2, fd : Int, arg : Nat, ret : Int]]
    BY <1>6, <1>8
  <1>10. ASSUME NEW f \in ArgsFirst, NEW h, NEW d, d = done[f], Handshake(f, h, d),
                NEW d2, d2 = done'[f]
         PROVE  Handshake(f, h, d2)'
    <2>1. f \in Forms
      BY DEF ArgsFirst, Forms
    <2>2. d2 = IF mon.pc = "exec" /\ mon.form = f THEN Recorded(f, d) ELSE d
      BY <1>6, <1>7, <1>10, <2>1
    <2> QED BY <1>1, <1>10, <2>2, MonitorHandshake
  <1>11. ASSUME NEW f \in OwnA
         PROVE  Handshake(f, a, done[f])'
    <2>1. PICK h, d, d2 : h = a /\ d = done[f] /\ d2 = done'[f]
      OBVIOUS
    <2>2. f \in ArgsFirst /\ Handshake(f, h, d)
      BY <2>1 DEF OwnA
    <2>3. Handshake(f, h, d2)'
      BY <1>10, <2>1, <2>2
    <2> QED BY <1>4, <2>1, <2>3 DEF Handshake
  <1>12. ASSUME NEW f \in OwnB
         PROVE  Handshake(f, b, done[f])'
    <2>1. PICK h, d, d2 : h = b /\ d = done[f] /\ d2 = done'[f]
      OBVIOUS
    <2>2. f \in ArgsFirst /\ Handshake(f, h, d)
      BY <2>1 DEF OwnB
    <2>3. Handshake(f, h, d2)'
      BY <1>10, <2>1, <2>2
    <2> QED BY <1>4, <2>1, <2>3 DEF Handshake
  <1> QED BY <1>2, <1>3, <1>4, <1>5, <1>9, <1>11, <1>12

-----------------------------------------------------------------------------
\* Two programs of any kind that share none of the calls of ArgsFirst agree with
\* the monitor about their slots in every state, even when both hold the channel
\* (ft_hook.c:60 tests and sets ds_form.flag in two accesses).
THEOREM SpecCallersInv ==
  ASSUME DifferentCalls
  PROVE  CallersSpec => []CallersInv
  <1>1. CallersInit => CallersInv
    BY InitCallersInv
  <1>2. CallersInv /\ [CallersNext]_callersVars => CallersInv'
    <2>1. CASE UNCHANGED callersVars
      BY <2>1 DEF callersVars, CallersInv, StackTypeOK, ModeInv, Handshake, ExecutedOnce,
         A!HookTypeOK, B!HookTypeOK
    <2> QED BY <2>1, CallerAInv, CallerBInv, MonitorInv DEF CallersNext
  <1> QED BY <1>1, <1>2, PTL DEF CallersSpec

\* So every such call of a form of ArgsFirst returns the result of its own one
\* execution, never the other program's.
THEOREM CallersGetOwnResults ==
  ASSUME DifferentCalls
  PROVE  CallersSpec => []OwnResults
  <1>1. CallersInv => OwnResults
    <2> SUFFICES ASSUME CallersInv, NEW caller \in {a, b}, caller.pc = "back",
                        caller.form \in ArgsFirst
                 PROVE  done[caller.form] = ExecutedOnce(caller, caller.ret)
      BY DEF OwnResults
    <2>1. "SOCKET" \notin ArgsFirst
      BY DEF ArgsFirst
    <2>2. CASE caller = a
      BY <2>1, <2>2 DEF CallersInv, OwnA, Handshake
    <2>3. CASE caller = b
      BY <2>1, <2>3 DEF CallersInv, OwnB, Handshake
    <2> QED BY <2>2, <2>3
  <1> QED BY <1>1, SpecCallersInv, PTL
=============================================================================
