--------------------------- MODULE ProcessScanner ---------------------------
(* ProcessScanner::scan over BytePattern::findAll: a pattern is sought in   *)
(* the regions of a target's memory, a chunk at a time, and the last bytes  *)
(* of a chunk are carried into the next. The target's bytes, external, do   *)
(* not change while they are scanned, but a read may stop anywhere: pages   *)
(* are freed and protected by other threads. So the buffer is the part of   *)
(* memory from cursor - carry on, and only its length is kept.              *)
EXTENDS Integers, Sequences, SequencesExt, FiniteSets

CONSTANTS
    Bytes,          \* the byte values that occur
    Wildcard,            \* a wildcard token
    MaxPattern,     \* bound: tokens of a pattern
    MemorySize,     \* addresses are 0 .. MemorySize - 1
    ChunkSize,      \* 64 KiB in the code
    Layouts,        \* the lists of regions a backend may report
    Ranges          \* the windows asked for

ASSUME ScannerAssumption ==
    /\ Wildcard \notin Bytes
    /\ MaxPattern \in Nat \ {0}
    /\ MemorySize \in Nat
    /\ ChunkSize \in Nat \ {0} /\ ChunkSize >= MaxPattern

\* A backend lists its regions from low to high addresses, none twice.
ASSUME RegionsAssumption ==
    /\ \A layout \in Layouts :
         /\ layout \in Seq([base : Nat, end : 0..MemorySize, candidate : BOOLEAN])
         /\ \A i, j \in DOMAIN layout : i < j => layout[i].end <= layout[j].base
    /\ Ranges \subseteq [start : Nat, end : Nat]

VARIABLES
    memory, pattern,
    regions,        \* what the backend lists: base, end, and whether to scan
    range,          \* the window asked for
    state,          \* "idle", "region", "chunk" or "done"
    at,             \* the region being scanned
    cursor, carry,
    matches,
    seen            \* history: the addresses whose bytes were read

scanVars == <<memory, pattern, regions, range, state, at, cursor, carry, matches, seen>>

Addresses == 0..(MemorySize - 1)
Size == Len(pattern)

----------------------------------------------------------------------------
\* BytePattern. An anchor is the first of the longest runs of exact tokens.
Exact(tokens, i, n) == \A k \in i..(i + n - 1) : k \in DOMAIN tokens /\ tokens[k] # Wildcard

AnchorLength(tokens) ==
    CHOOSE n \in 0..Len(tokens) :
      /\ n = 0 \/ \E i \in DOMAIN tokens : Exact(tokens, i, n)
      /\ \A i \in DOMAIN tokens : ~Exact(tokens, i, n + 1)

AnchorOffset(tokens) ==
    IF AnchorLength(tokens) = 0 THEN 0
    ELSE (CHOOSE i \in DOMAIN tokens :
            /\ Exact(tokens, i, AnchorLength(tokens))
            /\ \A j \in 1..(i - 1) : ~Exact(tokens, j, AnchorLength(tokens))) - 1

MatchesAt(bytes, tokens, offset) ==
    /\ offset >= 0 /\ offset + Len(tokens) <= Len(bytes)
    /\ \A i \in DOMAIN tokens : tokens[i] = Wildcard \/ tokens[i] = bytes[offset + i]

\* Where the anchor occurs, and the candidate offsets that go with it.
AnchorAt(bytes, tokens, p) ==
    \A i \in 1..AnchorLength(tokens) : bytes[p + i] = tokens[AnchorOffset(tokens) + i]

FindAll(bytes, tokens) ==
    LET positions == {p \in 0..(Len(bytes) - AnchorLength(tokens)) : AnchorAt(bytes, tokens, p)}
        candidates == {p - AnchorOffset(tokens) : p \in positions}
    IN {offset \in candidates : MatchesAt(bytes, tokens, offset)}

----------------------------------------------------------------------------
Start(region) == IF region.base < range.start THEN range.start ELSE region.base
End(region) == IF region.end > range.end THEN range.end ELSE region.end

\* The next region that is scanned at all.
EnterRegion ==
    /\ state = "region"
    /\ at < Len(regions)
    /\ at' = at + 1
    /\ LET region == regions[at + 1]
       IN IF region.candidate /\ End(region) - Start(region) >= Size
            THEN /\ state' = "chunk"
                 /\ cursor' = Start(region)
                 /\ carry' = 0
            ELSE UNCHANGED <<state, cursor, carry>>
    /\ UNCHANGED <<memory, pattern, regions, range, matches, seen>>

Finish ==
    /\ state = "region"
    /\ at = Len(regions)
    /\ state' = "done"
    /\ UNCHANGED <<memory, pattern, regions, range, at, cursor, carry, matches, seen>>

ToRead == IF End(regions[at]) - cursor < ChunkSize THEN End(regions[at]) - cursor
          ELSE ChunkSize

MoveTo(address) ==
    /\ cursor' = address
    /\ state' = IF address < End(regions[at]) THEN "chunk" ELSE "region"

\* The elements of a finite set of numbers from the lowest to the highest.
Ascending(set) ==
    {list \in Bijection(1..Cardinality(set), set) :
       \A i, j \in DOMAIN list : i < j => list[i] < list[j]}

Buffer(first, limit) == [i \in 1..(limit - first) |-> memory[first + i - 1]]

\* Fault: one byte short.
OverlapShort(length) == IF length > Size - 2 /\ Size > 1 THEN Size - 2 ELSE length

\* How much of a chunk is kept for the next one.
Overlap(length) == IF length > Size - 1 THEN Size - 1 ELSE length

\* Fault: the carry outlives the gap.
SkipChunkKeepsCarry(bytesRead) ==
    /\ carry + bytesRead < Size
    /\ MoveTo(cursor + ToRead)
    /\ UNCHANGED <<carry, matches>>

\* Too little was read to hold a match: the rest of the chunk is given up.
SkipChunk(bytesRead) ==
    /\ carry + bytesRead < Size
    /\ MoveTo(cursor + ToRead)
    /\ carry' = 0
    /\ UNCHANGED matches

SearchChunk(bytesRead) ==
    /\ carry + bytesRead >= Size
    /\ LET first == cursor - carry
           found == {first + offset : offset \in
                       {o \in FindAll(Buffer(first, cursor + bytesRead), pattern) :
                          o + Size > carry}}
       IN \E hits \in Ascending(found) : matches' = matches \o hits
    /\ carry' = Overlap(carry + bytesRead)
    /\ MoveTo(cursor + bytesRead)

ReadChunk ==
    /\ state = "chunk"
    /\ \E bytesRead \in 0..ToRead :
         /\ SkipChunk(bytesRead) \/ SearchChunk(bytesRead)
         /\ seen' = seen \union (cursor..(cursor + bytesRead - 1))
    /\ UNCHANGED <<memory, pattern, regions, range, at>>

ScanNext == EnterRegion \/ ReadChunk \/ Finish

ScanInit ==
    /\ memory \in [Addresses -> Bytes]
    /\ pattern \in UNION {[1..n -> Bytes \union {Wildcard}] : n \in 1..MaxPattern}
    /\ regions \in Layouts
    /\ range \in Ranges
    /\ state = "region"
    /\ at = 0
    /\ cursor = 0
    /\ carry = 0
    /\ matches = <<>>
    /\ seen = {}

ScanSpec == ScanInit /\ [][ScanNext]_scanVars

----------------------------------------------------------------------------
\* The pattern is at the address, by the definition of a token, within one
\* region and the window.
IsMatch(a) ==
    /\ \E i \in DOMAIN regions :
         regions[i].candidate /\ Start(regions[i]) <= a /\ a + Size <= End(regions[i])
    /\ \A k \in DOMAIN pattern : pattern[k] = Wildcard \/ memory[a + k - 1] = pattern[k]

BytesOf(a) == a..(a + Size - 1)

\* What is reported is a match whose bytes were all read, each once and in
\* order, over chunk boundaries, short reads and given-up chunks
\* (process_scanner.cpp:57).
MatchesRight ==
    /\ \A i \in DOMAIN matches : IsMatch(matches[i]) /\ BytesOf(matches[i]) \subseteq seen
    /\ \A i \in 1..(Len(matches) - 1) : matches[i] < matches[i + 1]

\* A match whose bytes were all read is reported, wherever reads stopped and
\* whatever run of tokens is the anchor (process_scanner.cpp:73, pattern.cpp:162).
ReadMatchesFound ==
    state = "done" =>
      \A a \in Addresses :
        IsMatch(a) /\ BytesOf(a) \subseteq seen => \E i \in DOMAIN matches : matches[i] = a
=============================================================================
