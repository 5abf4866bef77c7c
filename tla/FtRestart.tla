------------------------------ MODULE FtRestart ------------------------------
(***************************************************************************)
(* FtSystem with programs that end: the application or the monitor can be  *)
(* stopped between any two accesses to a shared word and is started again. *)
(* The two segments belong to the system, not to a process, and neither    *)
(* ft_init resets them, so what the dead program had stored is found by    *)
(* the next one; only del_shm.sh removes them, once nobody is attached.    *)
(***************************************************************************)
EXTENDS FtSystem

CONSTANT MaxCrashes   \* bound on the restarts

ASSUME MaxCrashesAssumption == MaxCrashes \in Nat

VARIABLES crashes,    \* the number of restarts so far
          asked       \* history: the calls any program has made

restartVars == <<vars, crashes, asked>>

RestartInit == Init /\ crashes = 0 /\ asked = {}

Crash == crashes < MaxCrashes /\ crashes' = crashes + 1

\* The program is killed and started again.  Its sockets stay open: they are
\* the monitor's.  (hook.n, which names the calls, goes on.)
AppRestart ==
  /\ Crash
  /\ hook' = [HookStart EXCEPT !.n = hook.n]
  /\ UNCHANGED <<shm, sock, mon, locals, done, asked>>

\* The monitor is killed and started again, with a stack of its own.
MonitorRestart ==
  /\ Crash
  /\ mon' = MonitorStart
  /\ running' = 1 /\ ep_status' = 0 /\ udp_status' = 0
  /\ sock' = [fd \in Fds |-> Fresh("closed")]
  /\ UNCHANGED <<shm, hook, done, asked>>

\* Both are stopped, del_shm.sh removes the segments (ipcs lists no process
\* attached to them), and both are started again on new ones.
DelShm ==
  /\ Crash
  /\ ds_form' = [flag |-> 0, form |-> "SOCKET"]
  /\ fmt'  = [f \in Forms |-> [flag |-> 0, fd |-> 0, arg |-> 0]]
  /\ fmtr' = [f \in Forms |-> [flag |-> 0, ret |-> 0]]
  /\ hook' = [HookStart EXCEPT !.n = hook.n]
  /\ mon' = MonitorStart
  /\ running' = 1 /\ ep_status' = 0 /\ udp_status' = 0
  /\ sock' = [fd \in Fds |-> Fresh("closed")]
  /\ UNCHANGED <<done, asked>>

AppStep ==
  /\ Application
  /\ asked' = IF hook.pc = "idle"
              THEN asked \cup {[form |-> hook'.form, fd |-> hook'.fd, arg |-> hook'.arg]}
              ELSE asked
  /\ UNCHANGED crashes

MonitorSteps == (Monitor \/ Packets) /\ UNCHANGED <<crashes, asked>>

RestartNext == AppStep \/ MonitorSteps \/ AppRestart \/ MonitorRestart \/ DelShm

RestartSpec == RestartInit /\ [][RestartNext]_restartVars

RestartFairSpec ==
  /\ RestartSpec
  /\ WF_restartVars(AppStep)
  /\ WF_restartVars(Monitor /\ UNCHANGED <<crashes, asked>>)

-----------------------------------------------------------------------------
\* Whatever is killed when, the monitor executes whole requests of the forms whose
\* hook stores its fields before the flag (ArgsFirst): the descriptor and the
\* arguments that ff_X is called with were given by one call of one program, never
\* half by a program that died while it filled the slot and half by its successor
\* (ft_hook.c, main.c).  It is not so for socket() and close(), which raise the
\* flag first (ft_hook.c:92): killed in between, or just overtaken, they are
\* executed with fields nobody asked for.  And it is so for NoGuardedCalls only: a
\* bind() or connect() that fails the `fd > 0' test leaves its flag up with the
\* channel freed (main.c:583).
WholeRequests ==
  mon.pc = "exec" /\ mon.form \in ArgsFirst =>
    [form |-> mon.form, fd |-> fmt[mon.form].fd, arg |-> fmt[mon.form].arg] \in asked

-----------------------------------------------------------------------------
\* A program, like udp_client.c, that makes none of the calls whose case tests
\* `fd > 0' and, when it is not, frees the channel with the request's flag up.
NoGuardedCalls ==
  \A f \in Forms \cup {"START"} : Guarded \cap (Follow[f].ok \cup Follow[f].err) = {}

\* No such call is ever on its way, so service_epoll is never entered.
NoGuardedInv ==
  /\ {hook.form, ds_form.form, mon.form} \cap Guarded = {}
  /\ \A g \in Guarded : fmt[g].flag = 0
  /\ ep_status = 0 /\ mon.mode \in {"prep", "service"}
  /\ mon.pc \notin {"guard", "epoll", "events"}

\* The channel is held while a request is visible or the monitor is in a case,
\* and a case serves the only request there is.
ChannelInv ==
  /\ mon.pc \in Serving \cup {"switch", "wait"} => ds_form.flag = 1
  /\ hook.pc = "claim" => ds_form.flag = 0
  /\ Filling => ds_form.flag = 1 /\ mon.pc \notin Serving
  /\ mon.pc \in {"guard", "exec", "clear"} => fmt[mon.form].flag = 1
  /\ \A g \in Forms : fmt[g].flag = 1 =>
       /\ ds_form.flag = 1 /\ ~Filling
       /\ mon.pc \notin {"ret", "flag", "post", "release"}
       /\ \A k \in Forms : fmt[k].flag = 1 => k = g

\* The slot is filled for the call in progress, and a request that is visible
\* was filled for one call, be its program still there or not.
AskedInv ==
  LET Asks(f, fd, arg) == [form |-> f, fd |-> fd, arg |-> arg] \in asked IN
  /\ hook.pc # "idle" => Asks(hook.form, hook.fd, hook.arg)
  /\ hook.form \in ArgsFirst =>
       /\ hook.pc \in {"arg", "flag"} => fmt[hook.form].fd = hook.fd
       /\ hook.pc = "flag" => fmt[hook.form].arg = hook.arg
  /\ \A f \in ArgsFirst : fmt[f].flag = 1 => Asks(f, fmt[f].fd, fmt[f].arg)

\* The inductive invariant of programs that are killed and started again.
WholeInv == TypeOK /\ NoGuardedInv /\ ChannelInv /\ AskedInv
=============================================================================
