------------------------------ MODULE FtCallers ------------------------------
(***************************************************************************)
(* Two calling threads or programs on one channel.  The hooks have no lock *)
(* of their own: each tests ds_form.flag and then sets it, so both can see *)
(* it free and both can go on to store their form and fill a slot.         *)
(***************************************************************************)
EXTENDS FtMonitor

CONSTANTS SockTypes, FollowA, FollowB   \* the two programs, see FtHook

\* Both are programs of FtHook.
ASSUME ProgramsAssumption ==
  /\ SockTypes \subseteq {STREAM, DGRAM}
  /\ \A follow \in {FollowA, FollowB} :
       follow \in [Forms \cup {"START"} -> [ok : SUBSET Forms, err : SUBSET Forms]]

VARIABLES a, b,   \* the two callers
          done    \* history, as in FtSystem, for each form since its caller claimed

A == INSTANCE FtHook WITH hook <- a, Follow <- FollowA
B == INSTANCE FtHook WITH hook <- b, Follow <- FollowB

callersVars == <<shm, a, b, sock, mon, locals, done>>

NotDone == [times |-> 0, fd |-> 0, arg |-> 0, ret |-> 0]

CallersInit ==
  /\ ft_init /\ A!HookInit /\ B!HookInit /\ StackInit /\ MonitorInit
  /\ done = [f \in Forms |-> NotDone]

\* A caller that takes the channel starts the history of its form anew.
Forget(caller) ==
  done' = IF caller.pc = "claim" THEN [done EXCEPT ![caller.form] = NotDone] ELSE done

CallerA == A!HookNext /\ Forget(a) /\ UNCHANGED <<b, sock, mon, locals>>
CallerB == B!HookNext /\ Forget(b) /\ UNCHANGED <<a, sock, mon, locals>>

CallersMonitor ==
  /\ MonitorStep
  /\ done' = IF mon.pc = "exec"
             THEN [done EXCEPT ![mon.form] =
                     [times |-> IF @.times = 0 THEN 1 ELSE 2,
                      fd |-> fmt[mon.form].fd, arg |-> fmt[mon.form].arg,
                      ret |-> mon'.ret]]
             ELSE done
  /\ UNCHANGED <<a, b>>

CallersPackets == MainLoop /\ UNCHANGED <<a, b, done>>

CallersNext == CallerA \/ CallerB \/ CallersMonitor \/ CallersPackets

CallersSpec == CallersInit /\ [][CallersNext]_callersVars

-----------------------------------------------------------------------------
\* Callers that use different calls can block each other for ever, but neither
\* gets the other's result: calls of ArgsFirst (whose hooks store the fields before
\* the flag) whose slot only one of them uses return the result of their own single
\* execution although both may hold the channel at once (ft_hook.c:60: test and set
\* of ds_form.flag are two accesses).
OwnResults ==
  \A caller \in {a, b} :
    caller.pc = "back" /\ caller.form \in ArgsFirst =>
      done[caller.form] = ExecutedOnce(caller, caller.ret)

-----------------------------------------------------------------------------
\* The calls a program may make.
CallsOf(follow) == UNION {follow[f].ok \cup follow[f].err : f \in Forms \cup {"START"}}

\* The calls of ArgsFirst that each of them has for itself.
OwnA == ArgsFirst \cap CallsOf(FollowA)
OwnB == ArgsFirst \cap CallsOf(FollowB)

\* The two programs share no slot but those of calls that OwnResults leaves out.
DifferentCalls == OwnA \cap OwnB = {}

\* The inductive invariant: each caller and the monitor agree about the slots
\* that only this caller uses, whoever holds the channel.
CallersInv ==
  /\ ShmTypeOK /\ A!HookTypeOK /\ B!HookTypeOK /\ StackTypeOK /\ MonitorTypeOK
  /\ done \in [Forms -> [times : 0..2, fd : Int, arg : Nat, ret : Int]]
  /\ ModeInv
  /\ a.form \in CallsOf(FollowA) \cup {"SOCKET"}
  /\ b.form \in CallsOf(FollowB) \cup {"SOCKET"}
  /\ \A f \in OwnA : Handshake(f, a, done[f])
  /\ \A f \in OwnB : Handshake(f, b, done[f])
=============================================================================
