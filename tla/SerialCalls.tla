---------------------------- MODULE SerialCalls -----------------------------
(***************************************************************************)
(* What the Lua runtime promises its callers, whatever threads and queues  *)
(* it is built from: a call is accepted while the runtime is open, calls   *)
(* are answered one at a time in the order of their acceptance, a caller    *)
(* has one call at a time, and closing neither accepts nor drops any.       *)
(***************************************************************************)
EXTENDS Sequences, Naturals

CONSTANT Callers

VARIABLES queue,  \* callers with an accepted, unanswered call, oldest first
          closed  \* the runtime takes no more calls

service == <<queue, closed>>

Waiting == {queue[i] : i \in DOMAIN queue}

Init == queue = <<>> /\ closed = FALSE

Accept(c) ==
  /\ ~closed
  /\ c \notin Waiting
  /\ queue' = Append(queue, c)
  /\ UNCHANGED closed

AnswerOldest ==
  /\ queue # <<>>
  /\ queue' = Tail(queue)
  /\ UNCHANGED closed

Close == closed' = TRUE /\ UNCHANGED queue

Next == Close \/ AnswerOldest \/ \E c \in Callers : Accept(c)

Spec == Init /\ [][Next]_service
=============================================================================
