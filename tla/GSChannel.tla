----------------------------- MODULE GSChannel -----------------------------
(***************************************************************************)
(* What the ring buffer between the EE thread and the GS thread promises:  *)
(* a queue of commands.  The EE thread adds one at the end, the GS thread  *)
(* takes away the first when it has done it, and the queue is emptied only *)
(* while a hardware reset or a close of the GS is under way.               *)
(***************************************************************************)
EXTENDS Sequences

CONSTANT Commands   \* the commands that may be queued

VARIABLES
    queue,
    dropping   \* a reset or a close is under way

Init == queue = <<>>

Send(c) == queue' = Append(queue, c)

Take == queue # <<>> /\ queue' = Tail(queue)

Clear == dropping /\ queue' = <<>>

Next == Clear \/ Take \/ \E c \in Commands : Send(c)

Spec == Init /\ [][Next]_queue

=============================================================================
