----------------------------- MODULE CommandPipe -----------------------------
(***************************************************************************)
(* What async_redis::client promises its caller: the commands that are     *)
(* appended are executed by the server in that order, each at most once,   *)
(* the replies come back in order and to the command they belong to, and   *)
(* nothing is dropped as long as the connection is up.  AsyncClient        *)
(* implements it.                                                          *)
(***************************************************************************)
EXTENDS Naturals, Sequences, SequencesExt

CONSTANTS
    MaxCalls,       \* commands are numbered 1 .. MaxCalls as they are appended
    Pending,        \* no answer yet
    NullReply       \* the callback was given nullptr

VARIABLES
    submitted,      \* the commands appended, not executed and not lost
    executed,       \* executed by the server, in order
    answer,         \* what the callback of each command was given
    lost            \* a connection was lost since the client was made

vars == <<submitted, executed, answer, lost>>

Calls == 1 .. MaxCalls

Init ==
    /\ submitted = {}
    /\ executed = <<>>
    /\ answer = [c \in Calls |-> Pending]
    /\ lost = FALSE

(* Client.Append: the next command goes to the end of the pipe.            *)
Submit(c) ==
    /\ \A d \in submitted \cup ToSet(executed) : d < c
    /\ submitted' = submitted \cup {c}
    /\ UNCHANGED <<executed, answer, lost>>

(* The command that was appended first goes first.                         *)
Execute(c) ==
    /\ c \in submitted
    /\ \A d \in submitted : c <= d
    /\ executed' = Append(executed, c)
    /\ submitted' = submitted \ {c}
    /\ UNCHANGED <<answer, lost>>

(* The oldest command that has been executed and not answered is answered. *)
Answer(c) ==
    /\ answer[c] = Pending
    /\ c \in ToSet(executed)
    /\ \A d \in ToSet(executed) : d < c => answer[d] # Pending
    /\ answer' = [answer EXCEPT ![c] = c]
    /\ UNCHANGED <<submitted, executed, lost>>

(* With the connection gone any commands under way may be lost ...         *)
Lose(S) ==
    /\ lost' = TRUE
    /\ submitted' = submitted \ S
    /\ UNCHANGED <<executed, answer>>

(* ... and their callbacks, or those of executed commands, told so.        *)
Fail(c) ==
    /\ lost
    /\ answer[c] = Pending
    /\ answer' = [answer EXCEPT ![c] = NullReply]
    /\ submitted' = submitted \ {c}
    /\ UNCHANGED <<executed, lost>>

Next ==
    \/ \E c \in Calls : Submit(c) \/ Execute(c) \/ Answer(c) \/ Fail(c)
    \/ \E S \in SUBSET Calls : Lose(S)

Spec == Init /\ [][Next]_vars
=============================================================================
