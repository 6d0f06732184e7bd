----------------------------- MODULE BlockLedger -----------------------------
(***************************************************************************)
(* What the engine promises about blocks of target memory, whatever its    *)
(* registries look like: a block has at most one owner; only its owner     *)
(* gives it back; it is lost only together with everything its owner had,  *)
(* when a script context is destroyed; and a lost block is never freed.    *)
(***************************************************************************)
CONSTANTS Blocks, Owners, Session

VARIABLES held,   \* the blocks of each owner
          leaked  \* blocks nobody can free any more

ledger == <<held, leaked>>

InUse == leaked \cup UNION {held[o] : o \in Owners}

Init ==
  /\ held = [o \in Owners |-> {}]
  /\ leaked = {}

Acquire(o, b) ==
  /\ b \notin InUse
  /\ held' = [held EXCEPT ![o] = @ \cup {b}]
  /\ UNCHANGED leaked

Release(o, b) ==
  /\ b \in held[o]
  /\ held' = [held EXCEPT ![o] = @ \ {b}]
  /\ UNCHANGED leaked

\* The session outlives every context and never abandons its blocks.
Abandon(o) ==
  /\ o # Session
  /\ leaked' = leaked \cup held[o]
  /\ held' = [held EXCEPT ![o] = {}]

Next ==
  \E o \in Owners :
    \/ Abandon(o)
    \/ \E b \in Blocks : Acquire(o, b) \/ Release(o, b)

Spec == Init /\ [][Next]_ledger
=============================================================================
