------------------------------- MODULE FtHook -------------------------------
(***************************************************************************)
(* The application's side of the channel: the interposed socket calls of   *)
(* ft_sys_hook.c and the functions ft_hook_* of ft_hook.c they end in.     *)
(*                                                                         *)
(* Every function makes the same round trip: spin until ds_form.flag is 0, *)
(* set it, store the form, fill the request slot and raise its flag, spin  *)
(* until the reply slot's flag is 1, lower it, and read the result.  Each  *)
(* store or load of a shared word is one step.  The functions differ in    *)
(* the order of these stores, and that order is what each ft_hook_*        *)
(* definition below states.                                                *)
(***************************************************************************)
EXTENDS FtShm

CONSTANTS
  SockTypes,  \* the types it passes to socket()
  Follow      \* the application: the calls it may make after a call and its outcome

ASSUME SockTypesAssumption == SockTypes \subseteq {STREAM, DGRAM}

(***************************************************************************)
(* Follow[f] is [ok |-> S, err |-> T]: after f returned a value above 0,   *)
(* or 0, the application makes a call of S or stops; after -1 one of T.    *)
(* A result of 0 from recv, read or recvfrom (the peer has closed) counts  *)
(* as err, as the programs of app/ treat it.  Follow["START"] gives the    *)
(* first call, which is socket() in every program: fmt_action is attached  *)
(* by ft_init, and only ft_hook_socket calls that.                         *)
(***************************************************************************)
Outcome == [ok : SUBSET Forms, err : SUBSET Forms]

ASSUME FollowAssumption ==
  /\ Follow \in [Forms \cup {"START"} -> Outcome]
  /\ Follow["START"].ok = {"SOCKET"}

VARIABLE hook
(* hook.pc    where the calling thread is                                  *)
(* hook.form, fd, arg   the call it is making                              *)
(* hook.ret   the result it has read                                       *)
(* hook.n     the number of calls made so far, also the calls' tokens      *)
(* hook.prev  the last call that returned, and whether it succeeded        *)
(* hook.sock, conn      the descriptors of its last socket() and accept()  *)

HookPC == {"idle", "spin", "claim", "form", "flag", "fd", "arg", "await",
           "clear", "ret", "back"}

HookTypeOK ==
  hook \in [pc : HookPC, form : Forms, fd : Int, arg : Nat, ret : Int,
            n : 0..MaxCalls, prev : (Forms \cup {"START"}) \X {"ok", "err"},
            sock : Int, conn : Int]

\* A program that has just been started.
HookStart == [pc |-> "idle", form |-> "SOCKET", fd |-> 0, arg |-> 0, ret |-> 0,
              n |-> 0, prev |-> <<"START", "ok">>, sock |-> 0, conn |-> 0]

HookInit == hook = HookStart

-----------------------------------------------------------------------------
\* The descriptor a program of app/ passes to a call: the listening side uses
\* the socket, everything else the connection when there is one.
FdFor(f) ==
  IF f \in {"BIND", "LISTEN", "ACCEPT", "CONNECT"} \/ hook.conn = 0
  THEN hook.sock
  ELSE hook.conn

\* socket()'s token is its type; select() copies the addresses of its local
\* pointer variables instead of the caller's sets (memcpy(&..., &readfds, ...)),
\* so what it passes is not the caller's argument: token 0.
ArgsOf(f) == CASE f = "SOCKET" -> SockTypes
               [] f = "SELECT" -> {0}
               [] OTHER        -> {hook.n + 3}

\* The application enters an interposed call.
Invoke ==
  /\ hook.pc = "idle"
  /\ hook.n < MaxCalls
  /\ \E f \in Follow[hook.prev[1]][hook.prev[2]] : \E a \in ArgsOf(f) :
       hook' = [hook EXCEPT !.pc = "spin", !.form = f, !.fd = FdFor(f),
                            !.arg = a, !.n = @ + 1]
  /\ UNCHANGED shm

\* while (1) if (fmt_action->ds_form.flag == 0) ...
Spin ==
  /\ hook.pc = "spin"
  /\ ds_form.flag = 0
  /\ hook' = [hook EXCEPT !.pc = "claim"]
  /\ UNCHANGED shm

\* ... fmt_action->ds_form.flag = 1;
Claim(next) ==
  /\ hook.pc = "claim"
  /\ ds_form' = [ds_form EXCEPT !.flag = 1]
  /\ hook' = [hook EXCEPT !.pc = next]
  /\ UNCHANGED <<fmt, fmtr>>

\* fmt_action->ds_form.form = X; the flag is already up.
StoreForm(next) ==
  /\ hook.pc = "form"
  /\ ds_form' = [ds_form EXCEPT !.form = hook.form]
  /\ hook' = [hook EXCEPT !.pc = next]
  /\ UNCHANGED <<fmt, fmtr>>

StoreFlag(next) ==
  /\ hook.pc = "flag"
  /\ fmt' = [fmt EXCEPT ![hook.form].flag = 1]
  /\ hook' = [hook EXCEPT !.pc = next]
  /\ UNCHANGED <<ds_form, fmtr>>

StoreFd(next) ==
  /\ hook.pc = "fd"
  /\ fmt' = [fmt EXCEPT ![hook.form].fd = hook.fd]
  /\ hook' = [hook EXCEPT !.pc = next]
  /\ UNCHANGED <<ds_form, fmtr>>

StoreArg(next) ==
  /\ hook.pc = "arg"
  /\ fmt' = [fmt EXCEPT ![hook.form].arg = hook.arg]
  /\ hook' = [hook EXCEPT !.pc = next]
  /\ UNCHANGED <<ds_form, fmtr>>

\* while (1) if (fmtr_action->ds_X.flag == 1) { ... flag = 0; return ret; }
\* The load of ret comes after the flag has been lowered.
SeeReply ==
  /\ hook.pc = "await"
  /\ fmtr[hook.form].flag = 1
  /\ hook' = [hook EXCEPT !.pc = "clear"]
  /\ UNCHANGED shm

\* Mutant of ClearReply: the reply's flag is not lowered.
ClearReply_Kept ==
  /\ hook.pc = "clear"
  /\ hook' = [hook EXCEPT !.pc = "ret"]
  /\ UNCHANGED shm

ClearReply ==
  /\ hook.pc = "clear"
  /\ fmtr' = [fmtr EXCEPT ![hook.form].flag = 0]
  /\ hook' = [hook EXCEPT !.pc = "ret"]
  /\ UNCHANGED <<ds_form, fmt>>

LoadRet ==
  /\ hook.pc = "ret"
  /\ hook' = [hook EXCEPT !.pc = "back", !.ret = fmtr[hook.form].ret]
  /\ UNCHANGED shm

TakeReply == SeeReply \/ ClearReply \/ LoadRet

-----------------------------------------------------------------------------
\* The slot's flag first, its fields afterwards.
FlagThenArgs ==
  \/ Spin
  \/ Claim("form")
  \/ StoreForm("flag")
  \/ StoreFlag("fd")
  \/ StoreFd("arg")
  \/ StoreArg("await")
  \/ TakeReply

\* The slot's fields first, its flag last.
ArgsThenFlag ==
  \/ Spin
  \/ Claim("form")
  \/ StoreForm("fd")
  \/ StoreFd("arg")
  \/ StoreArg("flag")
  \/ StoreFlag("await")
  \/ TakeReply

ft_hook_socket ==
  /\ hook.form = "SOCKET"
  /\ \/ Spin
     \/ Claim("form")
     \/ StoreForm("flag")
     \/ StoreFlag("arg")
     \/ StoreArg("await")
     \/ TakeReply

ft_hook_close ==
  /\ hook.form = "CLOSE"
  /\ \/ Spin
     \/ Claim("form")
     \/ StoreForm("flag")
     \/ StoreFlag("fd")
     \/ StoreFd("await")
     \/ TakeReply

ft_hook_connect    == hook.form = "CONNECT"    /\ FlagThenArgs
ft_hook_listen     == hook.form = "LISTEN"     /\ FlagThenArgs
ft_hook_bind       == hook.form = "BIND"       /\ FlagThenArgs

ft_hook_write      == hook.form = "WRITE"      /\ ArgsThenFlag
ft_hook_sendto     == hook.form = "SENDTO"     /\ ArgsThenFlag
ft_hook_recvfrom   == hook.form = "RECVFROM"   /\ ArgsThenFlag
ft_hook_recv       == hook.form = "RECV"       /\ ArgsThenFlag
ft_hook_send       == hook.form = "SEND"       /\ ArgsThenFlag
ft_hook_setsockopt == hook.form = "SETSOCKOPT" /\ ArgsThenFlag
ft_hook_getsockopt == hook.form = "GETSOCKOPT" /\ ArgsThenFlag
ft_hook_accept     == hook.form = "ACCEPT"     /\ ArgsThenFlag
ft_hook_select     == hook.form = "SELECT"     /\ ArgsThenFlag

\* read() claims the channel but never stores READ in ds_form.form.
ft_hook_read ==
  /\ hook.form = "READ"
  /\ \/ Spin
     \/ Claim("fd")
     \/ StoreFd("arg")
     \/ StoreArg("flag")
     \/ StoreFlag("await")
     \/ TakeReply

HookCall ==
  \/ ft_hook_socket \/ ft_hook_close      \/ ft_hook_connect
  \/ ft_hook_listen \/ ft_hook_bind       \/ ft_hook_accept
  \/ ft_hook_read   \/ ft_hook_write      \/ ft_hook_select
  \/ ft_hook_recv   \/ ft_hook_send       \/ ft_hook_recvfrom
  \/ ft_hook_sendto \/ ft_hook_setsockopt \/ ft_hook_getsockopt

-----------------------------------------------------------------------------
\* write, send, recv and recvfrom of ft_sys_hook.c issue the same call again
\* while it returns -1 and their time limit has not passed.
Retried == {"WRITE", "SEND", "RECV", "RECVFROM"}

Retry ==
  /\ hook.pc = "back"
  /\ hook.form \in Retried
  /\ hook.ret = -1
  /\ hook' = [hook EXCEPT !.pc = "spin"]
  /\ UNCHANGED shm

\* What the call's result means to the program: recv, read and recvfrom end
\* the exchange on 0 as well as on -1.
Verdict ==
  IF hook.ret < 0 \/ (hook.ret = 0 /\ hook.form \in {"RECV", "READ", "RECVFROM"})
  THEN "err" ELSE "ok"

\* The interposed call returns to the program.
Return ==
  /\ hook.pc = "back"
  /\ hook' = [hook EXCEPT
       !.pc   = "idle",
       !.prev = <<hook.form, Verdict>>,
       !.sock = IF hook.form = "SOCKET" /\ hook.ret > 0 THEN hook.ret ELSE @,
       !.conn = IF hook.form = "ACCEPT" /\ hook.ret > 0 THEN hook.ret ELSE @]
  /\ UNCHANGED shm

HookNext == Invoke \/ HookCall \/ Retry \/ Return
=============================================================================
