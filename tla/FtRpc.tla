-------------------------------- MODULE FtRpc --------------------------------
(***************************************************************************)
(* What an interposed socket call promises: the program might as well have *)
(* called the stack itself.  Between its request and its return a call     *)
(* takes effect exactly once, at one instant, with the arguments its       *)
(* caller gave it, and what it returns is what the stack answered then.    *)
(* There is no channel, no flag and no monitor here.                       *)
(***************************************************************************)
EXTENDS FtStack

VARIABLE call
(* call.st    "none", "asked", "done" (the stack has executed it) or       *)
(*            "back" (the caller has its result)                           *)
(* call.form, fd, arg   the call;  call.ret   its result, once there       *)

NoCall == [st |-> "none"]

AskedCall == [st : {"asked"}, form : Forms, fd : Int, arg : Nat]

Answered(c, r) == [st |-> "done", form |-> c.form, fd |-> c.fd, arg |-> c.arg, ret |-> r]

Init == call = NoCall /\ StackInit

Ask ==
  /\ call.st = "none"
  /\ call' \in AskedCall
  /\ UNCHANGED sock

Execute ==
  /\ call.st = "asked"
  /\ \E o \in Outcomes(call.form, call.fd, call.arg) :
       /\ call' = Answered(call, o.ret)
       /\ sock' = o.sock

Deliver ==
  /\ call.st = "done"
  /\ call' = [call EXCEPT !.st = "back"]
  /\ UNCHANGED sock

Finish ==
  /\ call.st = "back"
  /\ call' = NoCall
  /\ UNCHANGED sock

\* Everything else that happens in the stack: packets, readiness, other calls.
Background ==
  /\ sock' \in [Fds -> Socket]
  /\ UNCHANGED call

Next == Ask \/ Execute \/ Deliver \/ Finish \/ Background

Spec == Init /\ [][Next]_<<call, sock>>
=============================================================================
