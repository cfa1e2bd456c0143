---------------------------- MODULE CallbackQueue ----------------------------
(***************************************************************************)
(* What the queue of validation callbacks promises (scheduler.h, the       *)
(* comment on SingleThreadedSchedulerClient): the callbacks added run one   *)
(* at a time, each to its end before the next, in the order they were      *)
(* added, whatever thread runs them.                                       *)
(***************************************************************************)
EXTENDS Sequences

CONSTANTS Callback, NoCallback

VARIABLES queue,      \* the callbacks added and not yet begun
          current     \* the callback that runs

vars == <<queue, current>>

Init == queue = <<>> /\ current = NoCallback

Add(c) ==
  /\ queue' = Append(queue, c)
  /\ UNCHANGED current

Begin ==
  /\ current = NoCallback /\ queue # <<>>
  /\ current' = Head(queue)
  /\ queue' = Tail(queue)

End ==
  /\ current # NoCallback
  /\ current' = NoCallback
  /\ UNCHANGED queue

Next == (\E c \in Callback : Add(c)) \/ Begin \/ End

Spec == Init /\ [][Next]_vars
=============================================================================
