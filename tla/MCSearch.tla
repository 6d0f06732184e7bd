------------------------------ MODULE MCSearch ------------------------------
(* Instances of the two searches through a target's memory. They have       *)
(* nothing to do with each other: a behaviour is of one or the other.       *)
EXTENDS ProcessScanner, NearAllocation

vars == <<scanVars, nearVars>>

MCLayouts ==
    {<<[base |-> 0, end |-> 6, candidate |-> TRUE]>>,
     <<[base |-> 0, end |-> 3, candidate |-> TRUE],
       [base |-> 3, end |-> 6, candidate |-> TRUE]>>,
     <<[base |-> 0, end |-> 1, candidate |-> FALSE],
       [base |-> 1, end |-> 6, candidate |-> TRUE]>>}

MCRanges == {[start |-> 0, end |-> 6], [start |-> 1, end |-> 5]}

\* The scanner, or the allocation, as it is before its call.
NoScan ==
    /\ memory = [a \in Addresses |-> 0] /\ pattern = <<Wildcard>>
    /\ regions = <<>> /\ range = [start |-> 0, end |-> 0]
    /\ state = "idle"
    /\ at = 0 /\ cursor = 0 /\ carry = 0
    /\ matches = <<>> /\ seen = {}

NoAllocation ==
    /\ free = {} /\ near = 0 /\ size = 0
    /\ forward = None /\ backward = None
    /\ placed = None
    /\ outcome = "none"

SearchInit == (ScanInit /\ NoAllocation) \/ (NearInit /\ NoScan)

SearchNext ==
    \/ ScanNext /\ UNCHANGED nearVars
    \/ NearNext /\ UNCHANGED scanVars

SearchSpec == SearchInit /\ [][SearchNext]_vars /\ WF_vars(SearchNext)

\* A call of either search ends: no read of nothing and no cursor that stands
\* still keeps its loop going (process_scanner.cpp:48,
\* win32_process_backend.cpp:640).
SearchEnds == <>(state = "done" \/ outcome \in {"placed", "failed"})
=============================================================================
