------------------------------- MODULE FtShm -------------------------------
(***************************************************************************)
(* The two shared-memory segments through which an application whose       *)
(* socket calls are interposed by LD_PRELOAD (ft_hook.c) talks to the      *)
(* monitor process that owns the user-space TCP/IP stack                   *)
(* (monitor/main.c).  Key 1000 holds the requests (fmt_action), key 1001   *)
(* the replies (fmtr_action); both are one FMT structure with a slot per   *)
(* operation ("form").                                                     *)
(*                                                                         *)
(* A slot keeps what the protocol tells apart: its flag, the descriptor    *)
(* and one token `arg' that stands for the remaining arguments of the      *)
(* call (address, buffer, lengths, option).  Of the arguments of socket()  *)
(* only the type matters to the monitor, so there `arg' is the type.       *)
(***************************************************************************)
EXTENDS Integers

CONSTANTS Fds,       \* descriptors the stack hands out
          MaxCalls   \* bound on the calls an application issues

\* The assert in the monitor's ft_init (epfd > 0) and the `fd > 0' guards rely
\* on the stack never handing out descriptor 0.
ASSUME FdsAssumption == Fds \subseteq Nat \ {0}

ASSUME MaxCallsAssumption == MaxCalls \in Nat \ {0}

VARIABLES ds_form,   \* fmt_action->ds_form: the channel's flag and form
          fmt,       \* fmt_action->ds_X: the request slots
          fmtr       \* fmtr_action->ds_X: the reply slots

shm == <<ds_form, fmt, fmtr>>

\* The form numbers of ft_hook.h.  IOCTL and FCNTL are declared there but no
\* code ever stores them in ds_form.
Forms == {"SOCKET", "CLOSE", "CONNECT", "READ", "WRITE", "SENDTO", "RECVFROM",
          "RECV", "SEND", "SETSOCKOPT", "LISTEN", "BIND", "ACCEPT", "SELECT",
          "GETSOCKOPT"}

\* The forms whose hook fills the slot before it raises the slot's flag and
\* whose cases in the monitor lower that flag.  ACCEPT is not among them: the
\* accept loop of service_epoll leaves it raised.
ArgsFirst == {"READ", "WRITE", "SENDTO", "RECVFROM", "RECV", "SEND", "SETSOCKOPT",
              "GETSOCKOPT", "SELECT"}

\* SOCK_STREAM and SOCK_DGRAM, the types socket() is called with.
STREAM == 1
DGRAM  == 2

\* struct ft_ds_form and the fields of a request and of a reply slot.
DsForm  == [flag : {0, 1}, form : Forms]
Request == [flag : {0, 1}, fd : Int, arg : Nat]
Reply   == [flag : {0, 1}, ret : Int]

ShmTypeOK ==
  /\ ds_form \in DsForm
  /\ fmt  \in [Forms -> Request]
  /\ fmtr \in [Forms -> Reply]

\* shmget(IPC_CREAT) gives zero-filled segments, and form 0 is SOCKET.
ft_init ==
  /\ ds_form = [flag |-> 0, form |-> "SOCKET"]
  /\ fmt  = [f \in Forms |-> [flag |-> 0, fd |-> 0, arg |-> 0]]
  /\ fmtr = [f \in Forms |-> [flag |-> 0, ret |-> 0]]
=============================================================================
