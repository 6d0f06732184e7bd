--------------------------- MODULE NearAllocation ---------------------------
(* Win32ProcessBackend::allocateNear: a place for a block within a distance *)
(* of an address, sought by two cursors that walk away from it over the     *)
(* regions VirtualQueryEx reports. One action is one turn of the loop. The  *)
(* target's memory, external, does not change meanwhile: a page is free or  *)
(* it is not, and a block can be reserved at a multiple of the granularity. *)
EXTENDS Integers

CONSTANTS
    Page, Granularity,
    MaxDistance,        \* 2 GB in the code
    Lowest, Highest,    \* lpMinimum- and lpMaximumApplicationAddress
    Sizes               \* the sizes asked for

ASSUME NearAssumption ==
    /\ Page \in Nat \ {0}
    /\ Granularity \in Nat \ {0} /\ Granularity % Page = 0
    /\ MaxDistance \in Nat \ {0}
    /\ Lowest \in Nat /\ Lowest % Granularity = 0
    /\ Highest \in Nat /\ Highest % Page = 0 /\ Lowest < Highest
    /\ Sizes \subseteq Nat \ {0}

VARIABLES
    free,           \* the first addresses of the free pages
    near, size,     \* what is asked for
    forward, backward,  \* the cursors
    placed,         \* the block's address
    outcome         \* "searching", "placed" or "failed"

nearVars == <<free, near, size, forward, backward, placed, outcome>>

None == -1
Pages == {p \in Lowest..(Highest - 1) : p % Page = 0}

----------------------------------------------------------------------------
alignDown(value, alignment) == value - (value % alignment)

alignUp(value, alignment) ==
    IF value % alignment = 0 THEN value
    ELSE value + (alignment - (value % alignment))

subtractSaturated(value, delta) == IF value < delta THEN 0 ELSE value - delta

Larger(a, b) == IF a < b THEN b ELSE a
Smaller(a, b) == IF a < b THEN a ELSE b
Clamp(value, low, high) == Smaller(Larger(value, low), high)
Distance(a, b) == IF a < b THEN b - a ELSE a - b

searchStart(target) ==
    Larger(Lowest, alignDown(subtractSaturated(target, MaxDistance), Granularity))
searchEnd(target) == Smaller(Highest, alignUp(target + MaxDistance, Granularity))

\* VirtualQueryEx: from the page of the address to the end of the run of pages
\* in its state. There is no answer outside the address space.
NoRegion == [base |-> None, end |-> None]

Query(address) ==
    IF address = None \/ address < Lowest \/ address >= Highest THEN NoRegion
    ELSE LET base == alignDown(address, Page)
             Ends == {p \in Pages \union {Highest} :
                        p > base /\ (p = Highest \/ (p \in free) # (base \in free))}
         IN [base |-> base, end |-> CHOOSE e \in Ends : \A f \in Ends : e <= f]

\* Fault: the last candidate is where the region ends, not the block.
lastCandidateAtEnd(region) == alignDown(region.end - 1, Granularity)

lastCandidate(region) == alignDown(region.end - size, Granularity)

\* The candidates of a region in the order of consideration: the nearest one
\* is at or next to the target.
nearestAllocBaseInFreeRegion(region) ==
    LET first == alignUp(region.base, Granularity)
        last == lastCandidate(region)
        target == Clamp(near, first, last)
        lower == alignDown(target, Granularity)
        upper == alignUp(target, Granularity)
        Fits(c) == first <= c /\ c <= last
    IN IF \/ region.base \notin free
          \/ size > region.end - region.base
          \/ first > region.end \/ size > region.end - first
          \/ last < first
         THEN None
       ELSE IF ~Fits(lower) \/ (Fits(upper) /\ Distance(upper, near) < Distance(lower, near))
         THEN upper
       ELSE lower

distanceToRegion(region) ==
    IF near < region.base THEN region.base - near
    ELSE IF near >= region.end THEN near - region.end
    ELSE 0

----------------------------------------------------------------------------
Allocate ==
    /\ outcome = "idle"
    /\ IF searchEnd(near) <= searchStart(near)
         THEN /\ outcome' = "failed"
              /\ UNCHANGED <<forward, backward>>
         ELSE /\ outcome' = "searching"
              /\ forward' = Clamp(near, searchStart(near), searchEnd(near) - 1)
              /\ backward' = IF near > searchStart(near) THEN near - 1 ELSE None
    /\ UNCHANGED <<free, near, size, placed>>

\* What each cursor sees; when both see one region it is the forward one's.
ForwardRegion == IF forward < searchEnd(near) THEN Query(forward) ELSE NoRegion

BackwardRegion ==
    LET region == IF backward >= searchStart(near) THEN Query(backward) ELSE NoRegion
    IN IF region.base = ForwardRegion.base THEN NoRegion ELSE region

TryRegion(region) ==
    IF region = NoRegion THEN None ELSE nearestAllocBaseInFreeRegion(region)

\* The region tried first is the nearer one, the forward one in doubt.
Choice ==
    LET ahead == TryRegion(ForwardRegion)
        behind == TryRegion(BackwardRegion)
        forwardFirst == /\ ForwardRegion # NoRegion
                        /\ \/ BackwardRegion = NoRegion
                           \/ distanceToRegion(ForwardRegion) <= distanceToRegion(BackwardRegion)
    IN IF ahead = None \/ (behind # None /\ ~forwardFirst) THEN behind ELSE ahead

Place ==
    /\ outcome = "searching"
    /\ forward # None \/ backward # None
    /\ Choice # None
    /\ placed' = Choice
    /\ outcome' = "placed"
    /\ UNCHANGED <<free, near, size, forward, backward>>

\* Fault: the cursor goes to where the region begins.
NextForwardAgain ==
    IF ForwardRegion = NoRegion \/ ForwardRegion.end >= searchEnd(near) THEN None
    ELSE ForwardRegion.base

NextForward ==
    IF ForwardRegion = NoRegion \/ ForwardRegion.end >= searchEnd(near) THEN None
    ELSE ForwardRegion.end

\* Fault: the cursor goes on below the granule and not below the page.
NextBackwardByGranule ==
    IF BackwardRegion = NoRegion \/ BackwardRegion.base <= searchStart(near) THEN None
    ELSE alignDown(BackwardRegion.base, Granularity) - 1

NextBackward ==
    IF BackwardRegion = NoRegion \/ BackwardRegion.base <= searchStart(near) THEN None
    ELSE BackwardRegion.base - 1

WalkOn ==
    /\ outcome = "searching"
    /\ forward # None \/ backward # None
    /\ Choice = None
    /\ forward' = NextForward
    /\ backward' = NextBackward
    /\ UNCHANGED <<free, near, size, placed, outcome>>

GiveUp ==
    /\ outcome = "searching"
    /\ forward = None /\ backward = None
    /\ outcome' = "failed"
    /\ UNCHANGED <<free, near, size, forward, backward, placed>>

NearNext == Allocate \/ Place \/ WalkOn \/ GiveUp

NearInit ==
    /\ free \in SUBSET Pages
    /\ near \in 0..Highest \union {Highest + MaxDistance}
    /\ size \in Sizes
    /\ forward = None /\ backward = None
    /\ placed = None
    /\ outcome = "idle"

NearSpec == NearInit /\ [][NearNext]_nearVars

----------------------------------------------------------------------------
\* A block fits at the address.
Fits(c) ==
    /\ c % Granularity = 0
    /\ Lowest <= c /\ c + size <= Highest
    /\ \A p \in Pages : p + Page > c /\ p < c + size => p \in free

InWindow(c) == searchStart(near) <= c /\ c < searchEnd(near)

\* A block is placed where it fits, no further off than the distance rounded
\* up to the granularity, and as near as can be on its side of the target
\* (win32_process_backend.cpp:274).
PlacedWell ==
    outcome = "placed" =>
      /\ Fits(placed)
      /\ searchStart(near) <= placed /\ placed <= searchEnd(near)
      /\ \A c \in Pages :
           Fits(c) /\ (near <= placed <=> near <= c) => Distance(placed, near) <= Distance(c, near)

\* For a target at the start of a page of the process the search fails only if
\* there is no place in its window (win32_process_backend.cpp:640).
PageTargetsServed ==
    outcome = "failed" /\ near \in Pages =>
      ~ \E c \in Pages : InWindow(c) /\ Fits(c)

\* The search fails only if there is no place in its window: its message is
\* "Unable to reserve memory near target address"
\* (win32_process_backend.cpp:742).
FailsOnlyWhenFull ==
    outcome = "failed" => ~ \E c \in Pages : InWindow(c) /\ Fits(c)
=============================================================================
