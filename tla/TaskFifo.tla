------------------------------ MODULE TaskFifo ------------------------------
(***************************************************************************)
(* What a routing queue promises: every task handed to it goes in once,    *)
(* and tasks come out in the order they went in, each at most once, until  *)
(* the queue is flushed for good.                                          *)
(***************************************************************************)
EXTENDS Sequences

CONSTANT Tasks

VARIABLES
  fresh,     \* tasks nobody has handed in
  entering,  \* tasks handed in and not yet put
  waiting,   \* tasks put and not yet taken, oldest first
  taken,     \* tasks taken, in the order they were taken
  flushed    \* TRUE once the queue has been emptied at shutdown

vars == <<fresh, entering, waiting, taken, flushed>>

Init ==
  /\ fresh = Tasks /\ entering = {}
  /\ waiting = <<>> /\ taken = <<>>
  /\ flushed = FALSE

HandIn(t) ==
  /\ ~flushed
  /\ t \in fresh
  /\ fresh' = fresh \ {t}
  /\ entering' = entering \cup {t}
  /\ UNCHANGED <<waiting, taken, flushed>>

Put(t) ==
  /\ ~flushed
  /\ t \in entering
  /\ entering' = entering \ {t}
  /\ waiting' = Append(waiting, t)
  /\ UNCHANGED <<fresh, taken, flushed>>

Take ==
  /\ ~flushed
  /\ waiting # <<>>
  /\ waiting' = Tail(waiting)
  /\ taken' = Append(taken, Head(waiting))
  /\ UNCHANGED <<fresh, entering, flushed>>

\* Nobody is handing in a task.
Flush ==
  /\ entering = {}
  /\ waiting' = <<>>
  /\ flushed' = TRUE
  /\ UNCHANGED <<fresh, entering, taken>>

Next == (\E t \in Tasks : HandIn(t) \/ Put(t)) \/ Take \/ Flush

Spec == Init /\ [][Next]_vars
=============================================================================
