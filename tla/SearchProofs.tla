----------------------------- MODULE SearchProofs -----------------------------
(***************************************************************************)
(* Safety of the two searches through a target's memory: the scanner, for  *)
(* a memory of any size, any layout of regions, any pattern and any chunk  *)
(* that holds one, and the near allocation, for any page size, granularity *)
(* and distance, any free pages and any size of block.                     *)
(*                                                                         *)
(* The scanner's inductive invariant is SInv.  That no match is lost rests *)
(* on Carried: what is carried into a chunk is all but one byte of a match *)
(* that could reach into it, unless nothing was read right before it.      *)
(*                                                                         *)
(* The near allocation's is NInv.  ForwardTried and BackwardTried say what *)
(* the cursors have left behind: no place whose run of free pages begins   *)
(* below the forward one, and none between the backward one and the target.*)
(***************************************************************************)
EXTENDS ProcessScanner, NearAllocation, SequenceTheorems, FiniteSetTheorems, WellFoundedInduction, TLAPS

----------------------------------------------------------------------------
(* Numbers and lists.                                                      *)

\* A set of numbers that is not empty has a least element.
LEMMA Least ==
  ASSUME NEW T, T \subseteq Nat, T # {}
  PROVE  \E m \in T : \A y \in T : m <= y
<1> DEFINE Lower == {ss \in Nat \X Nat : ss[1] < ss[2]}
<1>1. IsWellFoundedOn(Lower, Nat)
  BY NatLessThanWellFounded DEF OpToRel
<1>2. \A x, y \in Nat : x < y => <<x, y>> \in Lower
  OBVIOUS
<1> HIDE DEF Lower
<1>3. PICK m \in T : \A y \in T : ~ (<<y, m>> \in Lower)
  BY <1>1, WFMin
<1>4. \A y \in T : m <= y
  <2>1. SUFFICES ASSUME NEW y \in T, ~ (m <= y) PROVE FALSE
    OBVIOUS
  <2>2. y \in Nat /\ m \in Nat
    OBVIOUS
  <2>3. y < m
    BY <2>1, <2>2
  <2>. QED  BY <1>2, <1>3, <2>2, <2>3
<1>. QED  BY <1>4

\* A bounded set of numbers that is not empty has a greatest element.
LEMMA Greatest ==
  ASSUME NEW T, NEW n \in Nat, T \subseteq 0 .. n, T # {}
  PROVE  \E m \in T : \A y \in T : y <= m
<1> DEFINE Below == {n - y : y \in T}
<1>1. Below \subseteq Nat
  OBVIOUS
<1>2. \A y \in T : n - y \in Below
  OBVIOUS
<1>3. \A b \in Below : \E y \in T : b = n - y
  OBVIOUS
<1> HIDE DEF Below
<1>4. PICK b \in Below : \A y \in Below : b <= y
  BY <1>1, <1>2, Least
<1>5. PICK m \in T : b = n - m
  BY <1>3
<1>6. \A y \in T : y <= m
  <2>1. SUFFICES ASSUME NEW y \in T PROVE y <= m
    OBVIOUS
  <2>2. b <= n - y
    BY <1>2, <1>4
  <2>3. n \in Nat /\ y \in Nat /\ m \in Nat
    OBVIOUS
  <2>. QED  BY <1>5, <2>2, <2>3
<1>. QED  BY <1>6

----------------------------------------------------------------------------
(* BytePattern: where its anchor is, and that looking for the anchor first *)
(* finds every offset the pattern matches at.                              *)

LEMMA AnchorPlaced ==
  ASSUME NEW X, NEW tokens \in Seq(X)
  PROVE  /\ AnchorLength(tokens) \in 0 .. Len(tokens)
         /\ AnchorOffset(tokens) \in Nat
         /\ AnchorOffset(tokens) + AnchorLength(tokens) <= Len(tokens)
         /\ \A i \in 1 .. AnchorLength(tokens) : tokens[AnchorOffset(tokens) + i] # Wildcard
<1> DEFINE L == AnchorLength(tokens)
           Runs == {n \in 0 .. Len(tokens) : n = 0 \/ \E i \in DOMAIN tokens : Exact(tokens, i, n)}
           Firsts == {i \in DOMAIN tokens : Exact(tokens, i, L)}
<1>0. Len(tokens) \in Nat /\ DOMAIN tokens = 1 .. Len(tokens)
  OBVIOUS
<1>1. /\ L \in 0 .. Len(tokens)
      /\ L = 0 \/ \E i \in DOMAIN tokens : Exact(tokens, i, L)
  <2>1. Runs \subseteq 0 .. Len(tokens) /\ Runs # {}
    BY <1>0
  <2>2. PICK n \in Runs : \A m \in Runs : m <= n
    BY <1>0, <2>1, Greatest
  <2>3. \A i \in DOMAIN tokens : ~ Exact(tokens, i, n + 1)
    <3>1. SUFFICES ASSUME NEW i \in DOMAIN tokens, Exact(tokens, i, n + 1) PROVE FALSE
      OBVIOUS
    <3>2. i + n \in DOMAIN tokens
      BY <1>0, <3>1 DEF Exact
    <3>3. n + 1 \in 0 .. Len(tokens)
      BY <1>0, <3>2
    <3>4. n + 1 \in Runs
      BY <3>1, <3>3
    <3>. QED  BY <1>0, <2>2, <3>4
  <2>. QED  BY <2>2, <2>3 DEF AnchorLength
<1>. HIDE DEF L
<1>2. CASE L = 0
  BY <1>0, <1>2 DEF AnchorOffset, L
<1>3. CASE L # 0
  <2>1. Firsts \subseteq Nat /\ Firsts # {}
    BY <1>0, <1>1, <1>3
  <2>2. PICK f \in Firsts : \A i \in Firsts : f <= i
    BY <2>1, Least
  <2>3. \A j \in 1 .. (f - 1) : ~ Exact(tokens, j, L)
    BY <1>0, <2>2
  <2> DEFINE o == CHOOSE i \in DOMAIN tokens :
                    Exact(tokens, i, L) /\ \A j \in 1 .. (i - 1) : ~ Exact(tokens, j, L)
  <2>4. o \in DOMAIN tokens /\ Exact(tokens, o, L)
    BY <2>2, <2>3
  <2>5. AnchorOffset(tokens) = o - 1
    BY <1>3 DEF AnchorOffset, L
  <2>. HIDE DEF o
  <2>6. \A k \in o .. (o + L - 1) : k \in 1 .. Len(tokens) /\ tokens[k] # Wildcard
    BY <1>0, <2>4 DEF Exact
  <2>7. o + L - 1 \in o .. (o + L - 1)
    BY <1>0, <1>1, <1>3, <2>4
  <2>8. o + L - 1 <= Len(tokens)
    BY <1>0, <1>1, <2>4, <2>6, <2>7
  <2>9. \A i \in 1 .. L : tokens[o - 1 + i] # Wildcard
    <3>1. SUFFICES ASSUME NEW i \in 1 .. L PROVE tokens[o - 1 + i] # Wildcard
      OBVIOUS
    <3>2. o - 1 + i \in o .. (o + L - 1)
      BY <1>0, <1>1, <2>4
    <3>. QED  BY <2>6, <3>2
  <2>. QED  BY <1>0, <1>1, <2>4, <2>5, <2>8, <2>9 DEF L
<1>. QED  BY <1>2, <1>3

\* BytePattern::findAll reports the offsets the pattern matches at, all of
\* them, whichever of its runs of exact tokens is the anchor.
LEMMA FindAllExact ==
  ASSUME NEW X, NEW Y, NEW tokens \in Seq(X), NEW bytes \in Seq(Y)
  PROVE  FindAll(bytes, tokens) = {offset \in 0 .. Len(bytes) : MatchesAt(bytes, tokens, offset)}
<1> DEFINE L == AnchorLength(tokens)
           o == AnchorOffset(tokens)
<1>0. /\ Len(tokens) \in Nat /\ DOMAIN tokens = 1 .. Len(tokens)
      /\ Len(bytes) \in Nat
  OBVIOUS
<1>1. /\ L \in 0 .. Len(tokens) /\ o \in Nat /\ o + L <= Len(tokens)
      /\ \A i \in 1 .. L : tokens[o + i] # Wildcard
  BY AnchorPlaced
<1>2. ASSUME NEW offset \in FindAll(bytes, tokens)
      PROVE  offset \in 0 .. Len(bytes) /\ MatchesAt(bytes, tokens, offset)
  <2>1. MatchesAt(bytes, tokens, offset)
    BY DEF FindAll
  <2>2. offset \in Int
    BY <1>0, <1>1 DEF FindAll
  <2>. QED  BY <1>0, <2>1, <2>2 DEF MatchesAt
<1>3. ASSUME NEW offset \in 0 .. Len(bytes), MatchesAt(bytes, tokens, offset)
      PROVE  offset \in FindAll(bytes, tokens)
  <2>. HIDE DEF L, o
  <2>1. offset + o \in 0 .. (Len(bytes) - L)
    BY <1>0, <1>1, <1>3 DEF MatchesAt
  <2>2. ASSUME NEW i \in 1 .. L
        PROVE  bytes[offset + o + i] = tokens[o + i]
    <3>0. o + i \in 1 .. Len(tokens)
      BY <1>0, <1>1
    <3>1. o + i \in DOMAIN tokens /\ tokens[o + i] # Wildcard
      BY <1>0, <1>1, <3>0
    <3>2. tokens[o + i] = bytes[offset + (o + i)]
      BY <1>3, <3>1 DEF MatchesAt
    <3>3. offset + (o + i) = offset + o + i
      BY <1>1
    <3>. QED  BY <3>2, <3>3
  <2>3. AnchorAt(bytes, tokens, offset + o)
    BY <2>2 DEF AnchorAt, L, o
  <2>4. offset = (offset + o) - o
    BY <1>1
  <2>. QED  BY <1>3, <2>1, <2>3, <2>4 DEF FindAll, L, o
<1>. QED  BY <1>2, <1>3

----------------------------------------------------------------------------
(* The scanner's inductive invariant.                                      *)

ScanTyped ==
  /\ memory \in [Addresses -> Bytes]
  /\ pattern \in Seq(Bytes \cup {Wildcard}) /\ Size \in 1 .. MaxPattern
  /\ regions \in Layouts
  /\ range \in Ranges
  /\ state \in {"region", "chunk", "done"}
  /\ at \in 0 .. Len(regions)
  /\ cursor \in Nat
  /\ carry \in Nat
  /\ matches \in Seq(Nat)
  /\ seen \subseteq Nat

\* The scanner is within a region that counts; what it carries was read right
\* before the cursor, and is short only if the byte before was not read.
Carried ==
  state = "chunk" =>
    /\ at >= 1 /\ regions[at].candidate
    /\ Start(regions[at]) <= cursor - carry
    /\ cursor < End(regions[at])
    /\ \A b \in (cursor - carry) .. (cursor - 1) : b \in seen
    /\ \A b \in seen : b < cursor
    /\ \/ carry = Size - 1
       \/ carry = 0 /\ (cursor = Start(regions[at]) \/ cursor - 1 \notin seen)

\* Nothing was read of the regions that are still to come.
Ahead == \A b \in seen : \A j \in (at + 1) .. Len(regions) : b < Start(regions[j])

\* A match whose bytes were all read is reported as soon as they were.
Found ==
  \A a \in Nat : IsMatch(a) /\ BytesOf(a) \subseteq seen => \E i \in DOMAIN matches : matches[i] = a

SInv == ScanTyped /\ Carried /\ Ahead /\ MatchesRight /\ Found

----------------------------------------------------------------------------
(* Regions.                                                                *)

LEMMA RegionsApart ==
  ASSUME ScanTyped
  PROVE  /\ Len(regions) \in Nat
         /\ \A i \in DOMAIN regions :
              /\ Start(regions[i]) \in Nat /\ End(regions[i]) \in Nat
              /\ End(regions[i]) <= MemorySize
         /\ \A i, j \in DOMAIN regions : i < j => End(regions[i]) <= Start(regions[j])
<1>1. /\ regions \in Seq([base : Nat, end : 0 .. MemorySize, candidate : BOOLEAN])
      /\ \A i, j \in DOMAIN regions : i < j => regions[i].end <= regions[j].base
  BY RegionsAssumption DEF ScanTyped
<1>2. MemorySize \in Nat
  BY ScannerAssumption
<1>3. range.start \in Nat /\ range.end \in Nat
  BY RegionsAssumption DEF ScanTyped
<1>4. ASSUME NEW i \in DOMAIN regions
      PROVE  regions[i].base \in Nat /\ regions[i].end \in 0 .. MemorySize
  <2>1. i \in 1 .. Len(regions)
    BY <1>1
  <2>2. regions[i] \in [base : Nat, end : 0 .. MemorySize, candidate : BOOLEAN]
    BY <1>1, <2>1, ElementOfSeq
  <2>. QED  BY <2>2
<1>5. \A i \in DOMAIN regions :
        /\ Start(regions[i]) \in Nat /\ End(regions[i]) \in Nat
        /\ End(regions[i]) <= MemorySize
        /\ regions[i].base <= Start(regions[i]) /\ End(regions[i]) <= regions[i].end
  BY <1>2, <1>3, <1>4 DEF Start, End
<1>6. ASSUME NEW i \in DOMAIN regions, NEW j \in DOMAIN regions, i < j
      PROVE  End(regions[i]) <= Start(regions[j])
  <2>1. regions[i].end <= regions[j].base
    BY <1>1, <1>6
  <2>. QED  BY <1>4, <1>5, <2>1
<1>7. Len(regions) \in Nat
  BY <1>1
<1>. QED  BY <1>5, <1>6, <1>7

\* What a read of n bytes may add: its bytes are in the region, and a match
\* that is completed by them begins no earlier than the buffer.
LEMMA ReadReaches ==
  ASSUME SInv, state = "chunk", NEW n \in 0 .. ToRead
  PROVE  /\ at \in DOMAIN regions
         /\ ToRead \in Nat
         /\ cursor + ToRead <= End(regions[at])
         /\ cursor + n <= End(regions[at])
         /\ ToRead < ChunkSize => cursor + ToRead = End(regions[at])
         /\ \A b \in seen \cup (cursor .. (cursor + n - 1)) : b \in Nat /\ b < cursor + n
         /\ \A a \in Nat :
              /\ IsMatch(a)
              /\ BytesOf(a) \subseteq seen \cup (cursor .. (cursor + n - 1))
              /\ ~ (BytesOf(a) \subseteq seen)
              => /\ cursor - carry <= a
                 /\ cursor < a + Size
                 /\ a + Size <= cursor + n
<1> DEFINE r == regions[at]
           now == seen \cup (cursor .. (cursor + n - 1))
<1>1. /\ at \in DOMAIN regions /\ Start(r) \in Nat /\ End(r) \in Nat
      /\ cursor \in Nat /\ carry \in Nat /\ Size \in Nat \ {0} /\ seen \subseteq Nat
      /\ Start(r) <= cursor - carry /\ cursor < End(r)
      /\ \A b \in seen : b < cursor
      /\ carry = Size - 1 \/ (carry = 0 /\ (cursor = Start(r) \/ cursor - 1 \notin seen))
  <2>1. ScanTyped /\ Carried
    BY DEF SInv
  <2>2. at \in 1 .. Len(regions) /\ Len(regions) \in Nat
    BY <2>1, RegionsApart DEF ScanTyped, Carried
  <2>3. at \in DOMAIN regions
    <3>1. regions \in Seq([base : Nat, end : 0 .. MemorySize, candidate : BOOLEAN])
      BY <2>1, RegionsAssumption DEF ScanTyped
    <3>. QED  BY <2>2, <3>1
  <2>4. Size \in Nat \ {0}
    BY <2>1, ScannerAssumption DEF ScanTyped
  <2>. QED  BY <2>1, <2>3, <2>4, RegionsApart DEF ScanTyped, Carried
<1>2. ChunkSize \in Nat
  BY ScannerAssumption
<1>3. /\ ToRead \in Nat /\ cursor + ToRead <= End(r)
      /\ ToRead < ChunkSize => cursor + ToRead = End(r)
  BY <1>1, <1>2 DEF ToRead
<1>4. n \in Nat /\ n <= ToRead
  BY <1>3
<1>5. cursor + n <= End(r)
  BY <1>1, <1>3, <1>4
<1>6. \A b \in now : b \in Nat /\ b < cursor + n
  BY <1>1, <1>4
<1>7. ASSUME NEW a \in Nat, IsMatch(a), BytesOf(a) \subseteq now, ~ (BytesOf(a) \subseteq seen)
      PROVE  cursor - carry <= a /\ cursor < a + Size /\ a + Size <= cursor + n
  <2>1. PICK b \in BytesOf(a) : b \notin seen
    BY <1>7
  <2>2. b \in Nat /\ cursor <= b /\ b < cursor + n
    BY <1>1, <1>4, <1>7, <2>1
  <2>3. a <= b /\ b <= a + Size - 1
    BY <1>1, <2>1 DEF BytesOf
  <2>4. a + Size - 1 \in BytesOf(a)
    BY <1>1 DEF BytesOf
  <2>5. a + Size - 1 < cursor + n
    BY <1>6, <1>7, <2>4
  <2>6. PICK i \in DOMAIN regions : Start(regions[i]) <= a /\ a + Size <= End(regions[i])
    BY <1>7 DEF IsMatch
  <2>7. /\ Start(regions[i]) \in Nat /\ End(regions[i]) \in Nat
        /\ i < at => End(regions[i]) <= Start(r)
        /\ at < i => End(r) <= Start(regions[i])
    BY <1>1, RegionsApart DEF SInv
  <2>8. i \in Nat /\ at \in Nat
    <3>1. regions \in Seq([base : Nat, end : 0 .. MemorySize, candidate : BOOLEAN])
      BY RegionsAssumption DEF SInv, ScanTyped
    <3>. QED  BY <1>1, <3>1
  <2>9. i = at
    BY <1>1, <1>5, <2>2, <2>3, <2>6, <2>7, <2>8
  <2>10. Start(r) <= a
    BY <2>6, <2>9
  <2>11. ASSUME a < cursor - carry PROVE FALSE
    <3>1. CASE carry = Size - 1
      BY <1>1, <2>2, <2>3, <2>11, <3>1
    <3>2. CASE carry = 0 /\ cursor - 1 \notin seen
      <4>1. cursor - 1 \in BytesOf(a)
        BY <1>1, <2>2, <2>3, <2>11, <3>2 DEF BytesOf
      <4>2. cursor - 1 \notin cursor .. (cursor + n - 1)
        BY <1>1
      <4>. QED  BY <1>7, <3>2, <4>1, <4>2
    <3>3. CASE carry = 0 /\ cursor = Start(r)
      BY <1>1, <2>10, <2>11, <3>3
    <3>. QED  BY <1>1, <3>1, <3>2, <3>3
  <2>. QED  BY <1>1, <1>4, <2>2, <2>3, <2>5, <2>11
<1>. QED  BY <1>1, <1>3, <1>5, <1>6, <1>7

\* A read that leaves enough to search reports the matches that end in it,
\* each once and from the lowest to the highest.
LEMMA SearchReports ==
  ASSUME SInv, state = "chunk", NEW n \in 0 .. ToRead, carry + n >= Size,
         NEW hits,
         hits \in Ascending({cursor - carry + offset : offset \in
                    {o \in FindAll(Buffer(cursor - carry, cursor + n), pattern) : o + Size > carry}})
  PROVE  /\ hits \in Seq(Nat)
         /\ \A i, j \in DOMAIN hits : i < j => hits[i] < hits[j]
         /\ \A i \in DOMAIN hits :
              /\ IsMatch(hits[i])
              /\ cursor - carry <= hits[i]
              /\ cursor < hits[i] + Size
              /\ hits[i] + Size <= cursor + n
         /\ \A a \in Nat :
              /\ IsMatch(a)
              /\ cursor - carry <= a
              /\ cursor < a + Size
              /\ a + Size <= cursor + n
              => \E i \in DOMAIN hits : hits[i] = a
<1> DEFINE first == cursor - carry
           bytes == Buffer(first, cursor + n)
           offsets == {o \in FindAll(bytes, pattern) : o + Size > carry}
           found == {first + offset : offset \in offsets}
           Here(a) == \A k \in DOMAIN pattern : pattern[k] = Wildcard \/ memory[a + k - 1] = pattern[k]
<1>1. /\ at \in DOMAIN regions /\ regions[at].candidate
      /\ cursor \in Nat /\ carry \in Nat /\ first \in Nat /\ first <= cursor
      /\ Start(regions[at]) <= first
      /\ cursor + n <= End(regions[at]) /\ End(regions[at]) <= MemorySize
      /\ Start(regions[at]) \in Nat /\ End(regions[at]) \in Nat /\ MemorySize \in Nat
      /\ n \in Nat
  <2>1. at \in DOMAIN regions /\ cursor + n <= End(regions[at]) /\ n \in Nat
    BY ReadReaches
  <2>2. /\ End(regions[at]) <= MemorySize
        /\ Start(regions[at]) \in Nat /\ End(regions[at]) \in Nat
    BY <2>1, RegionsApart DEF SInv
  <2>3. cursor \in Nat /\ carry \in Nat
    BY DEF SInv, ScanTyped
  <2>4. regions[at].candidate /\ Start(regions[at]) <= first
    BY DEF SInv, Carried
  <2>. QED  BY <2>1, <2>2, <2>3, <2>4, ScannerAssumption
<1>2. /\ Size \in Nat \ {0} /\ DOMAIN pattern = 1 .. Size
      /\ pattern \in Seq(Bytes \cup {Wildcard})
      /\ memory \in [Addresses -> Bytes]
  BY ScannerAssumption DEF SInv, ScanTyped, Size
<1>. HIDE DEF first
<1>3. /\ bytes \in Seq(Bytes)
      /\ Len(bytes) = carry + n
      /\ \A i \in 1 .. (carry + n) : bytes[i] = memory[first + i - 1]
  <2>1. carry + n = (cursor + n) - first /\ carry + n \in Nat
    BY <1>1 DEF first
  <2>2. bytes = [i \in 1 .. (carry + n) |-> memory[first + i - 1]]
    BY <2>1 DEF Buffer
  <2>3. \A i \in 1 .. (carry + n) : first + i - 1 \in Addresses
    BY <1>1, <2>1 DEF Addresses
  <2>4. \A i \in 1 .. (carry + n) : memory[first + i - 1] \in Bytes
    BY <1>2, <2>3
  <2>. HIDE DEF bytes
  <2>. QED  BY <2>1, <2>2, <2>4
<1>. HIDE DEF bytes
<1>4. \A o : o \in FindAll(bytes, pattern) <=> o \in 0 .. (carry + n) /\ MatchesAt(bytes, pattern, o)
  BY <1>2, <1>3, FindAllExact
<1>5. ASSUME NEW o \in Int, o >= 0, o + Size <= carry + n
      PROVE  MatchesAt(bytes, pattern, o) <=> Here(first + o)
  <2>1. \A k \in DOMAIN pattern : bytes[o + k] = memory[first + o + k - 1]
    <3>1. SUFFICES ASSUME NEW k \in DOMAIN pattern PROVE bytes[o + k] = memory[first + o + k - 1]
      OBVIOUS
    <3>2. k \in 1 .. Size /\ k \in Int /\ first \in Int /\ carry + n \in Int /\ Size \in Nat
      BY <1>1, <1>2
    <3>3. o + k \in 1 .. (carry + n)
      BY <1>5, <3>2
    <3>4. first + (o + k) - 1 = first + o + k - 1
      BY <3>2
    <3>5. bytes[o + k] = memory[first + (o + k) - 1]
      BY <1>3, <3>3
    <3>. QED  BY <3>4, <3>5
  <2>. QED  BY <1>3, <1>5, <2>1 DEF MatchesAt, Size
<1>6. \A a \in Int :
        a \in found <=> first <= a /\ cursor < a + Size /\ a + Size <= cursor + n /\ Here(a)
  <2>1. SUFFICES ASSUME NEW a \in Int
                 PROVE  a \in found <=>
                          first <= a /\ cursor < a + Size /\ a + Size <= cursor + n /\ Here(a)
    OBVIOUS
  <2>2. first = cursor - carry
    BY DEF first
  <2>3. ASSUME a \in found
        PROVE  first <= a /\ cursor < a + Size /\ a + Size <= cursor + n /\ Here(a)
    <3>1. PICK o \in offsets : a = first + o
      BY <2>3
    <3>2. o \in 0 .. (carry + n) /\ MatchesAt(bytes, pattern, o) /\ o + Size > carry
      BY <1>4, <3>1
    <3>3. o + Size <= carry + n
      BY <1>3, <3>2 DEF MatchesAt, Size
    <3>4. Here(first + o)
      BY <1>1, <1>5, <3>2, <3>3
    <3>. QED  BY <1>1, <1>2, <2>2, <3>1, <3>2, <3>3, <3>4
  <2>4. ASSUME first <= a, cursor < a + Size, a + Size <= cursor + n, Here(a)
        PROVE  a \in found
    <3> DEFINE o == a - first
    <3>0. a \in Int /\ first \in Int /\ cursor \in Int /\ carry \in Int /\ n \in Int /\ Size \in Nat
      BY <1>1, <1>2
    <3>1. o \in 0 .. (carry + n) /\ o + Size > carry /\ o + Size <= carry + n /\ first + o = a
      BY <2>2, <2>4, <3>0
    <3>. HIDE DEF o
    <3>2. MatchesAt(bytes, pattern, o)
      BY <1>1, <1>5, <2>4, <3>1
    <3>. QED  BY <1>4, <3>1, <3>2
  <2>. QED  BY <2>3, <2>4
<1>7. found \subseteq first .. (cursor + n)
  <2>1. \A o \in offsets : o \in Int
    BY <1>4
  <2>2. \A a \in found : a \in Int
    BY <1>1, <2>1
  <2>. HIDE DEF found
  <2>. QED  BY <1>1, <1>2, <1>6, <2>2
<1>8. Cardinality(found) \in Nat
  <2>1. IsFiniteSet(first .. (cursor + n))
    BY <1>1, FS_Interval
  <2>. HIDE DEF found
  <2>2. IsFiniteSet(found)
    BY <1>7, <2>1, FS_Subset
  <2>. QED  BY <2>2, FS_CardinalityType
<1>9. /\ hits \in [1 .. Cardinality(found) -> found]
      /\ \A a \in found : \E i \in 1 .. Cardinality(found) : hits[i] = a
      /\ \A i, j \in DOMAIN hits : i < j => hits[i] < hits[j]
  BY DEF Ascending, Bijection, Injection, Surjection, first, bytes
<1>. HIDE DEF found
<1>10. hits \in Seq(Nat)
  <2>1. found \subseteq Nat
    BY <1>1, <1>7
  <2>2. hits \in [1 .. Cardinality(found) -> Nat]
    BY <1>9, <2>1
  <2>. QED  BY <1>8, <2>2
<1>11. \A a \in Int : Here(a) /\ first <= a /\ a + Size <= cursor + n => IsMatch(a)
  BY <1>1, <1>2 DEF IsMatch
<1>12. ASSUME NEW i \in DOMAIN hits
       PROVE  IsMatch(hits[i]) /\ first <= hits[i] /\ cursor < hits[i] + Size /\ hits[i] + Size <= cursor + n
  <2>1. hits[i] \in found
    BY <1>9
  <2>2. hits[i] \in first .. (cursor + n)
    BY <1>7, <2>1
  <2>3. hits[i] \in Int
    BY <1>1, <2>2
  <2>. QED  BY <1>6, <1>11, <2>1, <2>3
<1>13. ASSUME NEW a \in Nat, IsMatch(a), first <= a, cursor < a + Size, a + Size <= cursor + n
       PROVE  \E i \in DOMAIN hits : hits[i] = a
  <2>1. Here(a)
    BY <1>13 DEF IsMatch
  <2>2. a \in found
    BY <1>6, <1>13, <2>1
  <2>. QED  BY <1>9, <2>2
<1>. QED  BY <1>9, <1>10, <1>12, <1>13 DEF first

----------------------------------------------------------------------------
(* The scanner's invariant holds of its behaviours.                        *)

LEMMA ScanStarts == ScanInit => SInv
<1>1. SUFFICES ASSUME ScanInit PROVE SInv
  OBVIOUS
<1>2. PICK n \in 1 .. MaxPattern : pattern \in [1 .. n -> Bytes \cup {Wildcard}]
  BY <1>1 DEF ScanInit
<1>3. pattern \in Seq(Bytes \cup {Wildcard}) /\ Size \in 1 .. MaxPattern
  <2>1. n \in Nat
    BY ScannerAssumption
  <2>. QED  BY <1>2, <2>1 DEF Size
<1>4. regions \in Seq([base : Nat, end : 0 .. MemorySize, candidate : BOOLEAN])
  BY <1>1, RegionsAssumption DEF ScanInit
<1>5. ScanTyped
  <2>1. Len(regions) \in Nat
    BY <1>4
  <2>2. matches \in Seq(Nat)
    BY <1>1 DEF ScanInit
  <2>. QED  BY <1>1, <1>3, <2>1, <2>2 DEF ScanInit, ScanTyped
<1>6. Carried /\ Ahead
  BY <1>1 DEF ScanInit, Carried, Ahead
<1>7. MatchesRight
  BY <1>1 DEF ScanInit, MatchesRight
<1>8. Found
  <2>1. \A a \in Nat : a \in BytesOf(a)
    BY <1>3, ScannerAssumption DEF BytesOf
  <2>. QED  BY <1>1, <2>1 DEF ScanInit, Found
<1>. QED  BY <1>5, <1>6, <1>7, <1>8 DEF SInv

\* What is reported stays right, and complete, while nothing is read.
LEMMA ReportsKept ==
  ASSUME SInv, UNCHANGED <<memory, pattern, regions, range, matches, seen>>
  PROVE  MatchesRight' /\ Found'
<1>1. /\ \A a : IsMatch(a)' <=> IsMatch(a)
      /\ \A a : BytesOf(a)' = BytesOf(a)
  BY DEF IsMatch, BytesOf, Start, End, Size
<1>. QED  BY <1>1 DEF SInv, MatchesRight, Found

LEMMA EnterRegionKeeps ==
  ASSUME SInv, EnterRegion
  PROVE  SInv'
<1>1. UNCHANGED <<memory, pattern, regions, range, matches, seen>>
  BY DEF EnterRegion
<1>2. MatchesRight' /\ Found'
  BY <1>1, ReportsKept
<1>3. /\ Len(regions) \in Nat /\ at \in Nat /\ at' = at + 1 /\ at' \in 1 .. Len(regions)
      /\ regions \in Seq([base : Nat, end : 0 .. MemorySize, candidate : BOOLEAN])
      /\ at' \in DOMAIN regions
  <2>1. regions \in Seq([base : Nat, end : 0 .. MemorySize, candidate : BOOLEAN])
    BY RegionsAssumption DEF SInv, ScanTyped
  <2>2. Len(regions) \in Nat /\ DOMAIN regions = 1 .. Len(regions)
    BY <2>1
  <2>3. at \in Nat /\ at' = at + 1 /\ at' \in 1 .. Len(regions)
    BY <2>2 DEF SInv, ScanTyped, EnterRegion
  <2>. QED  BY <2>1, <2>2, <2>3
<1> DEFINE region == regions[at + 1]
<1>4. \A r : Start(r)' = Start(r) /\ End(r)' = End(r)
  BY <1>1 DEF Start, End
<1>5. Ahead'
  <2>1. \A b \in seen : \A j \in (at + 1 + 1) .. Len(regions) : b < Start(regions[j])
    BY <1>3 DEF SInv, Ahead
  <2>. QED  BY <1>1, <1>3, <1>4, <2>1 DEF Ahead
<1>6. CASE region.candidate /\ End(region) - Start(region) >= Size
  <2>1. state' = "chunk" /\ cursor' = Start(region) /\ carry' = 0
    BY <1>6 DEF EnterRegion
  <2>2. Start(region) \in Nat /\ End(region) \in Nat
    BY <1>3, RegionsApart DEF SInv
  <2>3. Size \in Nat \ {0} /\ Size' = Size
    BY <1>1, ScannerAssumption DEF SInv, ScanTyped, Size
  <2>4. ScanTyped'
    BY <1>1, <1>3, <2>1, <2>2, <2>3 DEF SInv, ScanTyped
  <2>5. \A b \in seen : b < Start(region)
    BY <1>3 DEF SInv, Ahead
  <2>6. Start(region) < End(region)
    BY <1>6, <2>2, <2>3
  <2>7. \A b \in (Start(region) - 0) .. (Start(region) - 1) : b \in seen
    BY <2>2
  <2>8. Carried'
    BY <1>1, <1>3, <1>4, <1>6, <2>1, <2>2, <2>5, <2>6, <2>7 DEF Carried
  <2>. QED  BY <1>2, <1>5, <2>4, <2>8 DEF SInv
<1>7. CASE ~ (region.candidate /\ End(region) - Start(region) >= Size)
  <2>1. state' = "region" /\ UNCHANGED <<cursor, carry>>
    BY <1>7 DEF EnterRegion
  <2>2. Size' = Size
    BY <1>1 DEF Size
  <2>3. ScanTyped'
    BY <1>1, <1>3, <2>1, <2>2 DEF SInv, ScanTyped
  <2>4. Carried'
    BY <2>1 DEF Carried
  <2>. QED  BY <1>2, <1>5, <2>3, <2>4 DEF SInv
<1>. QED  BY <1>6, <1>7

LEMMA FinishKeeps ==
  ASSUME SInv, Finish
  PROVE  SInv'
<1>1. /\ UNCHANGED <<memory, pattern, regions, range, matches, seen>>
      /\ UNCHANGED <<at, cursor, carry>>
      /\ state' = "done"
  BY DEF Finish
<1>2. MatchesRight' /\ Found'
  BY <1>1, ReportsKept
<1>3. ScanTyped'
  BY <1>1 DEF SInv, ScanTyped, Size
<1>4. Carried'
  BY <1>1 DEF Carried
<1>5. Ahead'
  BY <1>1 DEF SInv, Ahead, Start
<1>. QED  BY <1>2, <1>3, <1>4, <1>5 DEF SInv

LEMMA ScanStutterKeeps ==
  ASSUME SInv, UNCHANGED scanVars
  PROVE  SInv'
<1>1. /\ UNCHANGED <<memory, pattern, regions, range, matches, seen>>
      /\ UNCHANGED <<at, cursor, carry, state>>
  BY DEF scanVars
<1>2. MatchesRight' /\ Found'
  BY <1>1, ReportsKept
<1>3. ScanTyped'
  BY <1>1 DEF SInv, ScanTyped, Size
<1>4. Carried'
  BY <1>1 DEF SInv, Carried, Start, End, Size
<1>5. Ahead'
  BY <1>1 DEF SInv, Ahead, Start
<1>. QED  BY <1>2, <1>3, <1>4, <1>5 DEF SInv

\* Every way a read can end: what it read, and where the cursor goes.
LEMMA ReadMoves ==
  ASSUME SInv, state = "chunk", NEW n \in 0 .. ToRead,
         UNCHANGED <<memory, pattern, regions, range, at>>,
         seen' = seen \cup (cursor .. (cursor + n - 1))
  PROVE  /\ Ahead'
         /\ \A a : IsMatch(a)' <=> IsMatch(a)
         /\ \A a : BytesOf(a)' = BytesOf(a)
         /\ \A r : Start(r)' = Start(r) /\ End(r)' = End(r)
         /\ Size' = Size /\ Size \in Nat \ {0}
<1>1. /\ at \in DOMAIN regions
      /\ cursor + n <= End(regions[at])
      /\ \A b \in seen \cup (cursor .. (cursor + n - 1)) : b \in Nat /\ b < cursor + n
  BY ReadReaches
<1>2. \A r : Start(r)' = Start(r) /\ End(r)' = End(r)
  BY DEF Start, End
<1>3. Size' = Size /\ Size \in Nat \ {0}
  BY ScannerAssumption DEF SInv, ScanTyped, Size
<1>4. \A a : (IsMatch(a)' <=> IsMatch(a)) /\ BytesOf(a)' = BytesOf(a)
  BY DEF IsMatch, BytesOf, Start, End, Size
<1>5. regions \in Seq([base : Nat, end : 0 .. MemorySize, candidate : BOOLEAN])
  BY RegionsAssumption DEF SInv, ScanTyped
<1>6. ASSUME NEW b \in seen', NEW j \in (at + 1) .. Len(regions)
      PROVE  b < Start(regions[j])
  <2>1. CASE b \in seen
    BY <2>1 DEF SInv, Ahead
  <2>2. CASE b \in cursor .. (cursor + n - 1)
    <3>1. j \in DOMAIN regions /\ at < j
      BY <1>1, <1>5
    <3>2. End(regions[at]) <= Start(regions[j])
      BY <1>1, <3>1, RegionsApart DEF SInv
    <3>3. End(regions[at]) \in Nat /\ Start(regions[j]) \in Nat
      BY <1>1, <3>1, RegionsApart DEF SInv
    <3>4. cursor + n \in Nat /\ b \in Nat /\ b < cursor + n
      <4>1. cursor \in Nat /\ n \in Nat
        BY ReadReaches DEF SInv, ScanTyped
      <4>. QED  BY <1>1, <2>2, <4>1
    <3>. QED  BY <1>1, <3>2, <3>3, <3>4
  <2>. QED  BY <2>1, <2>2
<1>7. Ahead'
  BY <1>2, <1>6 DEF Ahead
<1>. QED  BY <1>2, <1>3, <1>4, <1>7

LEMMA SkipKeeps ==
  ASSUME SInv, state = "chunk", NEW n \in 0 .. ToRead, SkipChunk(n),
         UNCHANGED <<memory, pattern, regions, range, at>>,
         seen' = seen \cup (cursor .. (cursor + n - 1))
  PROVE  SInv'
<1>1. /\ Ahead'
      /\ \A a : IsMatch(a)' <=> IsMatch(a)
      /\ \A a : BytesOf(a)' = BytesOf(a)
      /\ \A r : Start(r)' = Start(r) /\ End(r)' = End(r)
      /\ Size' = Size /\ Size \in Nat \ {0}
  BY ReadMoves
<1>2. /\ ToRead \in Nat /\ cursor + ToRead <= End(regions[at])
      /\ ToRead < ChunkSize => cursor + ToRead = End(regions[at])
      /\ \A b \in seen' : b \in Nat /\ b < cursor + n
      /\ at \in DOMAIN regions
  BY ReadReaches
<1>3. /\ carry + n < Size /\ carry' = 0 /\ matches' = matches
      /\ cursor' = cursor + ToRead
      /\ state' = IF cursor + ToRead < End(regions[at]) THEN "chunk" ELSE "region"
  BY DEF SkipChunk, MoveTo
<1>4. /\ cursor \in Nat /\ carry \in Nat /\ n \in Nat /\ n <= ToRead
      /\ End(regions[at]) \in Nat
      /\ Size <= ChunkSize /\ ChunkSize \in Nat
  BY <1>2, RegionsApart, ScannerAssumption DEF SInv, ScanTyped
<1>5. ScanTyped'
  <2>1. cursor' \in Nat /\ carry' \in Nat /\ state' \in {"region", "chunk", "done"}
    BY <1>2, <1>3, <1>4
  <2>2. seen' \subseteq Nat
    BY <1>2
  <2>. QED  BY <1>1, <1>3, <2>1, <2>2 DEF SInv, ScanTyped
<1>6. Carried'
  <2>1. SUFFICES ASSUME state' = "chunk" PROVE Carried'
    BY DEF Carried
  <2>2. cursor' < End(regions[at]) /\ ToRead >= ChunkSize
    BY <1>2, <1>3, <1>4, <2>1
  <2>3. n < ToRead
    BY <1>1, <1>2, <1>3, <1>4, <2>2
  <2>4. cursor' - 1 \notin seen' /\ \A b \in seen' : b < cursor'
    BY <1>2, <1>3, <1>4, <2>3
  <2>5. at >= 1 /\ regions[at].candidate /\ Start(regions[at]) <= cursor - carry
    BY DEF SInv, Carried
  <2>6. Start(regions[at]) \in Nat
    BY <1>2, RegionsApart DEF SInv
  <2>7. Start(regions[at]) <= cursor' - carry'
    BY <1>2, <1>3, <1>4, <2>5, <2>6
  <2>8. \A b \in (cursor' - carry') .. (cursor' - 1) : b \in seen'
    BY <1>2, <1>3, <1>4
  <2>. QED  BY <1>1, <1>3, <2>2, <2>4, <2>5, <2>7, <2>8 DEF Carried
<1>7. MatchesRight'
  BY <1>1, <1>3 DEF SInv, MatchesRight
<1>8. Found'
  <2>1. SUFFICES ASSUME NEW a \in Nat, IsMatch(a), BytesOf(a) \subseteq seen'
                 PROVE  \E i \in DOMAIN matches : matches[i] = a
    BY <1>1, <1>3 DEF Found
  <2>2. CASE BytesOf(a) \subseteq seen
    BY <2>1, <2>2 DEF SInv, Found
  <2>3. CASE ~ (BytesOf(a) \subseteq seen)
    <3>1. cursor - carry <= a /\ a + Size <= cursor + n
      BY <2>1, <2>3, ReadReaches
    <3>. QED  BY <1>1, <1>3, <1>4, <3>1
  <2>. QED  BY <2>2, <2>3
<1>. QED  BY <1>1, <1>5, <1>6, <1>7, <1>8 DEF SInv

LEMMA SearchKeeps ==
  ASSUME SInv, state = "chunk", NEW n \in 0 .. ToRead, SearchChunk(n),
         UNCHANGED <<memory, pattern, regions, range, at>>,
         seen' = seen \cup (cursor .. (cursor + n - 1))
  PROVE  SInv'
<1>1. /\ Ahead'
      /\ \A a : IsMatch(a)' <=> IsMatch(a)
      /\ \A a : BytesOf(a)' = BytesOf(a)
      /\ \A r : Start(r)' = Start(r) /\ End(r)' = End(r)
      /\ Size' = Size /\ Size \in Nat \ {0}
  BY ReadMoves
<1>2. /\ ToRead \in Nat /\ cursor + n <= End(regions[at])
      /\ \A b \in seen' : b \in Nat /\ b < cursor + n
      /\ at \in DOMAIN regions
  BY ReadReaches
<1>3. /\ carry + n >= Size /\ carry' = Overlap(carry + n)
      /\ cursor' = cursor + n
      /\ state' = IF cursor + n < End(regions[at]) THEN "chunk" ELSE "region"
  BY DEF SearchChunk, MoveTo
<1>4. /\ cursor \in Nat /\ carry \in Nat /\ n \in Nat
      /\ Start(regions[at]) \in Nat /\ End(regions[at]) \in Nat
      /\ at >= 1 /\ regions[at].candidate /\ Start(regions[at]) <= cursor - carry
      /\ \A b \in (cursor - carry) .. (cursor - 1) : b \in seen
      /\ \A b \in seen : b < cursor
  BY <1>2, RegionsApart DEF SInv, ScanTyped, Carried
<1>5. carry' = Size - 1
  BY <1>1, <1>3, <1>4 DEF Overlap
<1>6. PICK hits : /\ matches' = matches \o hits
                  /\ hits \in Ascending({cursor - carry + offset : offset \in
                       {o \in FindAll(Buffer(cursor - carry, cursor + n), pattern) : o + Size > carry}})
  BY DEF SearchChunk
<1>7. /\ hits \in Seq(Nat)
      /\ \A i, j \in DOMAIN hits : i < j => hits[i] < hits[j]
      /\ \A i \in DOMAIN hits :
           /\ IsMatch(hits[i])
           /\ cursor - carry <= hits[i]
           /\ cursor < hits[i] + Size
           /\ hits[i] + Size <= cursor + n
      /\ \A a \in Nat :
           /\ IsMatch(a)
           /\ cursor - carry <= a
           /\ cursor < a + Size
           /\ a + Size <= cursor + n
           => \E i \in DOMAIN hits : hits[i] = a
  BY <1>3, <1>6, SearchReports
<1> DEFINE m == Len(matches)
           k == Len(hits)
<1>8. /\ matches \in Seq(Nat) /\ m \in Nat /\ k \in Nat
      /\ matches' \in Seq(Nat) /\ Len(matches') = m + k
      /\ DOMAIN matches = 1 .. m /\ DOMAIN hits = 1 .. k /\ DOMAIN matches' = 1 .. (m + k)
      /\ \A i \in 1 .. m : matches'[i] = matches[i]
      /\ \A i \in 1 .. k : matches'[m + i] = hits[i]
  <2>1. matches \in Seq(Nat)
    BY DEF SInv, ScanTyped
  <2>. QED  BY <1>6, <1>7, <2>1
<1>. HIDE DEF m, k
<1>9. ScanTyped'
  <2>1. cursor' \in Nat /\ carry' \in Nat /\ state' \in {"region", "chunk", "done"}
    BY <1>1, <1>3, <1>4, <1>5
  <2>2. seen' \subseteq Nat
    BY <1>2
  <2>. QED  BY <1>1, <1>8, <2>1, <2>2 DEF SInv, ScanTyped
<1>10. \A b \in (cursor - carry) .. (cursor + n - 1) : b \in seen'
  BY <1>4
<1>11. Carried'
  <2>1. SUFFICES ASSUME state' = "chunk" PROVE Carried'
    BY DEF Carried
  <2>2. cursor' < End(regions[at]) /\ cursor' = cursor + n
    BY <1>3, <2>1
  <2>3. Start(regions[at]) <= cursor' - carry' /\ cursor - carry <= cursor' - carry'
    BY <1>1, <1>3, <1>4, <1>5
  <2>4. \A b \in (cursor' - carry') .. (cursor' - 1) : b \in seen'
    <3>1. SUFFICES ASSUME NEW b \in (cursor' - carry') .. (cursor' - 1) PROVE b \in seen'
      OBVIOUS
    <3>2. b \in (cursor - carry) .. (cursor + n - 1)
      BY <1>1, <1>4, <1>5, <2>2, <2>3
    <3>. QED  BY <1>10, <3>2
  <2>5. \A b \in seen' : b < cursor'
    BY <1>2, <2>2
  <2>. QED  BY <1>1, <1>4, <1>5, <2>2, <2>3, <2>4, <2>5 DEF Carried
<1>12. \A i \in 1 .. m :
         /\ matches[i] \in Nat /\ IsMatch(matches[i]) /\ BytesOf(matches[i]) \subseteq seen
         /\ matches[i] + Size <= cursor
  <2>1. SUFFICES ASSUME NEW i \in 1 .. m
                 PROVE  /\ matches[i] \in Nat /\ IsMatch(matches[i])
                        /\ BytesOf(matches[i]) \subseteq seen
                        /\ matches[i] + Size <= cursor
    OBVIOUS
  <2>2. i \in DOMAIN matches
    BY <1>8
  <2>3. matches[i] \in Nat
    BY <1>8, <2>2, ElementOfSeq DEF m
  <2>4. matches[i] \in Nat /\ IsMatch(matches[i]) /\ BytesOf(matches[i]) \subseteq seen
    BY <2>2, <2>3 DEF SInv, MatchesRight
  <2>5. matches[i] + Size - 1 \in BytesOf(matches[i])
    BY <1>1, <2>4 DEF BytesOf
  <2>6. matches[i] + Size - 1 < cursor
    BY <1>4, <2>4, <2>5
  <2>. QED  BY <1>1, <1>4, <2>4, <2>6
<1>13. \A i \in 1 .. k :
         /\ hits[i] \in Nat /\ IsMatch(hits[i]) /\ BytesOf(hits[i]) \subseteq seen'
         /\ cursor < hits[i] + Size
  <2>1. SUFFICES ASSUME NEW i \in 1 .. k
                 PROVE  /\ hits[i] \in Nat /\ IsMatch(hits[i])
                        /\ BytesOf(hits[i]) \subseteq seen'
                        /\ cursor < hits[i] + Size
    OBVIOUS
  <2>2. i \in DOMAIN hits
    BY <1>8
  <2>3. hits[i] \in Nat
    BY <1>7, <1>8, <2>2, ElementOfSeq DEF k
  <2>4. /\ hits[i] \in Nat /\ IsMatch(hits[i]) /\ cursor < hits[i] + Size
        /\ cursor - carry <= hits[i] /\ hits[i] + Size <= cursor + n
    BY <1>7, <2>2, <2>3
  <2>5. BytesOf(hits[i]) \subseteq (cursor - carry) .. (cursor + n - 1)
    BY <1>1, <1>4, <2>4 DEF BytesOf
  <2>. QED  BY <1>10, <2>4, <2>5
<1>14. MatchesRight'
  <2>1. ASSUME NEW i \in 1 .. (m + k)
        PROVE  IsMatch(matches'[i]) /\ BytesOf(matches'[i]) \subseteq seen'
    <3>1. CASE i <= m
      BY <1>8, <1>12, <3>1
    <3>2. CASE i > m
      <4>1. i - m \in 1 .. k /\ i = m + (i - m)
        BY <1>8, <3>2
      <4>2. matches'[i] = hits[i - m]
        BY <1>8, <4>1
      <4>. QED  BY <1>13, <4>1, <4>2
    <3>. QED  BY <1>8, <3>1, <3>2
  <2>2. ASSUME NEW i \in 1 .. (m + k - 1)
        PROVE  matches'[i] < matches'[i + 1]
    <3>1. CASE i < m
      <4>1. i \in 1 .. (Len(matches) - 1) /\ i \in 1 .. m /\ i + 1 \in 1 .. m
        BY <1>8, <3>1 DEF m
      <4>. QED  BY <1>8, <4>1 DEF SInv, MatchesRight
    <3>2. CASE i = m
      <4>1. i \in 1 .. m /\ 1 \in 1 .. k
        BY <1>8, <3>2
      <4>2. matches'[i] = matches[i] /\ matches'[i + 1] = hits[1]
        BY <1>8, <3>2, <4>1
      <4>. QED  BY <1>1, <1>4, <1>12, <1>13, <4>1, <4>2
    <3>3. CASE i > m
      <4>1. /\ i - m \in 1 .. k /\ i = m + (i - m)
            /\ i + 1 - m \in 1 .. k /\ i + 1 = m + (i + 1 - m)
            /\ i - m < i + 1 - m
        BY <1>8, <3>3
      <4>2. matches'[i] = hits[i - m]
        BY <1>8, <4>1
      <4>3. matches'[i + 1] = hits[i + 1 - m]
        BY <1>8, <4>1
      <4>4. hits[i - m] < hits[i + 1 - m]
        BY <1>7, <1>8, <4>1
      <4>. QED  BY <4>2, <4>3, <4>4
    <3>. QED  BY <1>8, <3>1, <3>2, <3>3
  <2>. QED  BY <1>1, <1>8, <2>1, <2>2 DEF MatchesRight
<1>15. Found'
  <2>1. SUFFICES ASSUME NEW a \in Nat, IsMatch(a), BytesOf(a) \subseteq seen'
                 PROVE  \E i \in DOMAIN matches' : matches'[i] = a
    BY <1>1 DEF Found
  <2>2. CASE BytesOf(a) \subseteq seen
    <3>1. PICK i \in DOMAIN matches : matches[i] = a
      BY <2>1, <2>2 DEF SInv, Found
    <3>2. i \in DOMAIN matches' /\ matches'[i] = a
      BY <1>8, <3>1
    <3>. QED  BY <3>2
  <2>3. CASE ~ (BytesOf(a) \subseteq seen)
    <3>1. cursor - carry <= a /\ cursor < a + Size /\ a + Size <= cursor + n
      BY <2>1, <2>3, ReadReaches
    <3>2. PICK i \in 1 .. k : hits[i] = a
      BY <1>7, <1>8, <2>1, <3>1
    <3>3. m + i \in DOMAIN matches' /\ matches'[m + i] = a
      BY <1>8, <3>2
    <3>. QED  BY <3>3
  <2>. QED  BY <2>2, <2>3
<1>. QED  BY <1>1, <1>9, <1>11, <1>14, <1>15 DEF SInv

LEMMA ReadChunkKeeps ==
  ASSUME SInv, ReadChunk
  PROVE  SInv'
<1>1. state = "chunk" /\ UNCHANGED <<memory, pattern, regions, range, at>>
  BY DEF ReadChunk
<1>2. PICK n \in 0 .. ToRead :
        /\ SkipChunk(n) \/ SearchChunk(n)
        /\ seen' = seen \cup (cursor .. (cursor + n - 1))
  BY DEF ReadChunk
<1>3. CASE SkipChunk(n)
  BY <1>1, <1>2, <1>3, SkipKeeps
<1>4. CASE SearchChunk(n)
  BY <1>1, <1>2, <1>4, SearchKeeps
<1>. QED  BY <1>2, <1>3, <1>4

\* Every behaviour of the scanner keeps its inductive invariant
\* (process_scanner.cpp:22).
THEOREM ScanInvariant == ScanSpec => []SInv
<1>1. ScanInit => SInv
  BY ScanStarts
<1>2. SInv /\ [ScanNext]_scanVars => SInv'
  BY EnterRegionKeeps, ReadChunkKeeps, FinishKeeps, ScanStutterKeeps DEF ScanNext
<1>. QED  BY <1>1, <1>2, PTL DEF ScanSpec

\* What a scan reports is right: each a match, within one region, whose bytes
\* were all read, once and in ascending order (process_scanner.cpp:57).
THEOREM ScanReportsRight == ScanSpec => []MatchesRight
<1>1. SInv => MatchesRight
  BY DEF SInv
<1>. QED  BY <1>1, ScanInvariant, PTL

\* What a scan reports is complete: no match whose bytes were read is lost
\* where two chunks meet, where a read stops short, or for the anchor that was
\* chosen (process_scanner.cpp:73).
THEOREM ScanFindsAll == ScanSpec => []ReadMatchesFound
<1>1. SInv => ReadMatchesFound
  <2>1. SUFFICES ASSUME SInv, NEW a \in Addresses, IsMatch(a), BytesOf(a) \subseteq seen
                 PROVE  \E i \in DOMAIN matches : matches[i] = a
    BY DEF ReadMatchesFound
  <2>2. a \in Nat
    BY ScannerAssumption DEF Addresses
  <2>. QED  BY <2>1, <2>2 DEF SInv, Found
<1>. QED  BY <1>1, ScanInvariant, PTL

----------------------------------------------------------------------------
(* Rounding to a multiple.                                                 *)

LEMMA ProductIsMultiple ==
  ASSUME NEW m \in Nat \ {0}, NEW k \in Nat
  PROVE  (m * k) % m = 0
OBVIOUS

\* The multiples of a number are that number apart.
LEMMA MultiplesApart ==
  ASSUME NEW m \in Nat \ {0}, NEW a \in Nat, NEW b \in Nat, a % m = 0, b % m = 0, a < b
  PROVE  a + m <= b
<1>1. a = m * (a \div m) /\ a \div m \in Nat
  OBVIOUS
<1>2. b = m * (b \div m) /\ b \div m \in Nat
  OBVIOUS
<1>3. a \div m < b \div m
  BY <1>1, <1>2
<1>4. m * ((b \div m) - (a \div m)) >= m
  BY <1>1, <1>2, <1>3
<1>. QED  BY <1>1, <1>2, <1>4

LEMMA RoundedDown ==
  ASSUME NEW m \in Nat \ {0}, NEW x \in Nat
  PROVE  /\ alignDown(x, m) \in Nat
         /\ alignDown(x, m) <= x /\ x < alignDown(x, m) + m
         /\ alignDown(x, m) % m = 0
         /\ \A c \in Nat : c % m = 0 /\ c <= x => c <= alignDown(x, m)
<1>1. /\ x % m \in Nat /\ x % m < m
      /\ x \div m \in Nat
      /\ x = m * (x \div m) + (x % m)
  OBVIOUS
<1>2. alignDown(x, m) = m * (x \div m)
  BY <1>1 DEF alignDown
<1>3. (m * (x \div m)) % m = 0
  BY <1>1, ProductIsMultiple
<1>4. alignDown(x, m) \in Nat /\ alignDown(x, m) <= x /\ x < alignDown(x, m) + m
  BY <1>1 DEF alignDown
<1>5. ASSUME NEW c \in Nat, c % m = 0, c <= x PROVE c <= alignDown(x, m)
  <2>1. CASE alignDown(x, m) < c
    <3>1. alignDown(x, m) % m = 0
      BY <1>2, <1>3
    <3>2. alignDown(x, m) + m <= c
      BY <1>4, <1>5, <2>1, <3>1, MultiplesApart
    <3>. QED  BY <1>4, <1>5, <3>2
  <2>. QED  BY <1>4, <2>1
<1>. QED  BY <1>2, <1>3, <1>4, <1>5

LEMMA RoundedUp ==
  ASSUME NEW m \in Nat \ {0}, NEW x \in Nat
  PROVE  /\ alignUp(x, m) \in Nat
         /\ x <= alignUp(x, m) /\ alignUp(x, m) < x + m
         /\ alignUp(x, m) % m = 0
         /\ \A c \in Nat : c % m = 0 /\ x <= c => alignUp(x, m) <= c
<1>1. /\ x % m \in Nat /\ x % m < m
      /\ x \div m \in Nat
      /\ x = m * (x \div m) + (x % m)
  OBVIOUS
<1>2. alignUp(x, m) \in Nat /\ x <= alignUp(x, m) /\ alignUp(x, m) < x + m
  BY <1>1 DEF alignUp
<1>3. alignUp(x, m) % m = 0
  <2>1. CASE x % m = 0
    BY <2>1 DEF alignUp
  <2>2. CASE x % m # 0
    <3>1. alignUp(x, m) = m * (x \div m) + m
      BY <1>1, <2>2 DEF alignUp
    <3>2. m * (x \div m) + m = m * ((x \div m) + 1)
      BY <1>1
    <3>3. (m * ((x \div m) + 1)) % m = 0
      BY <1>1, ProductIsMultiple
    <3>. QED  BY <3>1, <3>2, <3>3
  <2>. QED  BY <2>1, <2>2
<1>4. ASSUME NEW c \in Nat, c % m = 0, x <= c PROVE alignUp(x, m) <= c
  <2>1. CASE c < alignUp(x, m)
    <3>1. c + m <= alignUp(x, m)
      BY <1>2, <1>3, <1>4, <2>1, MultiplesApart
    <3>. QED  BY <1>2, <1>4, <3>1
  <2>. QED  BY <1>2, <2>1
<1>. QED  BY <1>2, <1>3, <1>4

\* A multiple of the granularity is a multiple of the page size.
LEMMA GranulesArePages ==
  ASSUME NEW c \in Nat, c % Granularity = 0
  PROVE  c % Page = 0
<1>1. Page \in Nat \ {0} /\ Granularity \in Nat \ {0} /\ Granularity % Page = 0
  BY NearAssumption
<1> DEFINE k == c \div Granularity
           j == Granularity \div Page
<1>2. k \in Nat /\ c = Granularity * k
  BY <1>1
<1>3. j \in Nat /\ Granularity = Page * j
  BY <1>1
<1>. HIDE DEF k, j
<1>4. c = Page * (j * k) /\ j * k \in Nat
  <2>1. j * k \in Nat
    BY <1>2, <1>3
  <2>2. c = (Page * j) * k
    BY <1>2, <1>3
  <2>3. (Page * j) * k = Page * (j * k)
    BY <1>1, <1>2, <1>3
  <2>. QED  BY <2>1, <2>2, <2>3
<1>5. (Page * (j * k)) % Page = 0
  BY <1>1, <1>4, ProductIsMultiple
<1>. QED  BY <1>4, <1>5

----------------------------------------------------------------------------
(* The near allocation's inductive invariant.                              *)

NearTyped ==
  /\ free \subseteq Pages
  /\ near \in Nat
  /\ size \in Nat \ {0}
  /\ forward \in Nat \cup {None}
  /\ backward \in Nat \cup {None}
  /\ outcome \in {"idle", "searching", "placed", "failed"}

\* All pages from q to c are free.
Joined(q, c) == \A p \in Pages : q <= p /\ p <= c => p \in free

\* Where the forward cursor has not been yet.
Frontier == IF forward = None THEN searchEnd(near) ELSE alignDown(forward, Page)

\* The cursors are within the window; the forward one is never below the
\* target but at the last page, and the backward one is below it.
CursorsBound ==
  /\ forward # None =>
       /\ searchStart(near) <= forward /\ forward < searchEnd(near)
       /\ near <= forward \/ Highest - 1 <= forward
  /\ backward # None => searchStart(near) <= backward /\ backward < near

\* No place from the target on whose run of free pages begins, from the
\* target's page on, below the forward cursor: it would have been taken.
ForwardTried ==
  \A c, q \in Pages :
    Fits(c) /\ near <= c /\ near < q + Page /\ q <= c /\ Joined(q, c) => Frontier <= q

\* No place below the target but at the backward cursor's page or below.
BackwardTried ==
  /\ backward # None =>
       \A c \in Pages : Fits(c) /\ c < near => c <= alignDown(backward, Page)
  /\ backward = None /\ near \in Pages =>
       ~ \E c \in Pages : Fits(c) /\ searchStart(near) <= c /\ c < near

NInv ==
  /\ NearTyped
  /\ outcome = "searching" => CursorsBound /\ ForwardTried /\ BackwardTried
  /\ PlacedWell
  /\ PageTargetsServed

----------------------------------------------------------------------------
(* Regions of the target, and the place chosen in one.                     *)

\* The constants, and the edges of the search window.
LEMMA NearSizes ==
  /\ Page \in Nat \ {0} /\ Granularity \in Nat \ {0} /\ MaxDistance \in Nat \ {0}
  /\ Lowest \in Nat /\ Lowest % Page = 0
  /\ Highest \in Nat /\ Highest % Page = 0 /\ Lowest < Highest
<1>1. Lowest % Page = 0
  BY NearAssumption, GranulesArePages
<1>. QED  BY <1>1, NearAssumption

LEMMA WindowEdges ==
  ASSUME NEW t \in Nat
  PROVE  /\ searchStart(t) \in Nat /\ searchStart(t) % Page = 0 /\ Lowest <= searchStart(t)
         /\ searchStart(t) <= t \/ searchStart(t) = Lowest
         /\ searchEnd(t) \in Nat /\ searchEnd(t) <= Highest
         /\ searchEnd(t) = Highest \/ t < searchEnd(t)
         /\ \A x, c \in Nat :
              /\ x <= t \/ x < searchEnd(t)
              /\ c <= alignUp(x, Granularity) /\ c <= Highest
              => c <= searchEnd(t)
<1>. USE NearSizes
<1> DEFINE lo == subtractSaturated(t, MaxDistance)
           down == alignDown(lo, Granularity)
           up == alignUp(t + MaxDistance, Granularity)
<1>1. lo \in Nat /\ lo <= t
  BY DEF subtractSaturated
<1>. HIDE DEF lo
<1>2. down \in Nat /\ down <= lo /\ down % Granularity = 0
  BY <1>1, RoundedDown
<1>3. t + MaxDistance \in Nat
  OBVIOUS
<1>4. /\ up \in Nat /\ t + MaxDistance <= up /\ up % Granularity = 0
  BY <1>3, RoundedUp
<1>5. down % Page = 0
  BY <1>2, GranulesArePages
<1>. HIDE DEF down, up
<1>6. searchStart(t) = IF Lowest < down THEN down ELSE Lowest
  BY DEF searchStart, Larger, down, lo
<1>7. searchEnd(t) = IF Highest < up THEN Highest ELSE up
  BY DEF searchEnd, Smaller, up
<1>8. ASSUME NEW x \in Nat, NEW c \in Nat, x <= t \/ x < searchEnd(t),
             c <= alignUp(x, Granularity), c <= Highest
      PROVE  c <= searchEnd(t)
  <2>1. x <= up
    BY <1>4, <1>7, <1>8
  <2>2. alignUp(x, Granularity) <= up
    BY <1>4, <2>1, RoundedUp
  <2>3. alignUp(x, Granularity) \in Nat
    BY RoundedUp
  <2>4. c <= up
    BY <1>4, <1>8, <2>2, <2>3
  <2>. QED  BY <1>7, <1>8, <2>4
<1>9. /\ searchStart(t) \in Nat /\ searchStart(t) % Page = 0 /\ Lowest <= searchStart(t)
      /\ searchStart(t) <= t \/ searchStart(t) = Lowest
  BY <1>1, <1>2, <1>5, <1>6
<1>10. /\ searchEnd(t) \in Nat /\ searchEnd(t) <= Highest
       /\ searchEnd(t) = Highest \/ t < searchEnd(t)
  BY <1>4, <1>7
<1>. QED  BY <1>8, <1>9, <1>10

\* What VirtualQueryEx says of an address of the process.
LEMMA QueryRight ==
  ASSUME NearTyped, NEW a \in Nat, Lowest <= a, a < Highest
  PROVE  LET base == alignDown(a, Page)
             region == Query(a)
         IN /\ region = [base |-> base, end |-> region.end]
            /\ base \in Pages /\ base <= a
            /\ region.end \in Nat /\ region.end % Page = 0
            /\ a < region.end /\ region.end <= Highest
            /\ \A p \in Pages : base <= p /\ p < region.end => (p \in free <=> base \in free)
            /\ region.end # Highest =>
                 region.end \in Pages /\ ~ (region.end \in free <=> base \in free)
<1>. USE NearSizes
<1> DEFINE base == alignDown(a, Page)
           Ends == {p \in Pages \union {Highest} :
                      p > base /\ (p = Highest \/ (p \in free) # (base \in free))}
           e == CHOOSE x \in Ends : \A f \in Ends : x <= f
<1>1. /\ base \in Nat /\ base <= a /\ a < base + Page /\ base % Page = 0
      /\ Lowest <= base
  BY RoundedDown
<1>2. base \in Pages
  BY <1>1 DEF Pages
<1>. HIDE DEF base
<1>3. Ends \subseteq Nat /\ Highest \in Ends
  BY <1>1 DEF Pages
<1>4. \E x \in Ends : \A f \in Ends : x <= f
  BY <1>3, Least
<1>5. e \in Ends /\ \A f \in Ends : e <= f
  BY <1>4
<1>6. Query(a) = [base |-> base, end |-> e]
  BY DEF Query, base, None
<1>. HIDE DEF e
<1>7. e \in Nat /\ e % Page = 0 /\ base < e /\ e <= Highest
  <2>1. e > base /\ (e = Highest \/ e \in Pages)
    BY <1>5
  <2>2. e \in Pages => e \in Lowest .. (Highest - 1) /\ e % Page = 0
    BY DEF Pages
  <2>3. e \in Nat /\ e <= Highest
    BY <2>1, <2>2
  <2>4. e % Page = 0
    <3>1. CASE e = Highest
      BY <3>1
    <3>2. CASE e \in Pages
      BY <2>2, <3>2
    <3>. QED  BY <2>1, <3>1, <3>2
  <2>5. base < e
    BY <1>1, <2>1, <2>3
  <2>. QED  BY <2>3, <2>4, <2>5
<1>8. a < e
  <2>1. base + Page <= e
    BY <1>1, <1>7, MultiplesApart
  <2>. QED  BY <1>1, <1>7, <2>1
<1>9. ASSUME NEW p \in Pages, base <= p, p < e
      PROVE  p \in free <=> base \in free
  <2>1. CASE p = base
    BY <2>1
  <2>2. CASE p # base
    <3>1. p \in Nat /\ p > base
      BY <1>1, <1>9, <2>2 DEF Pages
    <3>2. p \notin Ends
      BY <1>5, <1>7, <1>9, <3>1
    <3>. QED  BY <3>1, <3>2
  <2>. QED  BY <2>1, <2>2
<1>10. e # Highest => e \in Pages /\ ~ (e \in free <=> base \in free)
  BY <1>5
<1>11. Query(a) = [base |-> base, end |-> Query(a).end] /\ Query(a).end = e
  BY <1>6
<1>. QED  BY <1>1, <1>2, <1>7, <1>8, <1>9, <1>10, <1>11 DEF base

\* nearestAllocBaseInFreeRegion: the nearest multiple of the granularity the
\* block fits at in a free region, if there is one.
LEMMA CandidateRight ==
  ASSUME NearTyped, NEW b \in Nat, NEW e \in Nat, b < e, b \in free
  PROVE  LET c == nearestAllocBaseInFreeRegion([base |-> b, end |-> e])
         IN /\ c # None =>
                 /\ c \in Nat /\ c % Granularity = 0
                 /\ b <= c /\ c + size <= e
                 /\ c <= alignUp(Larger(near, b), Granularity)
            /\ \A d \in Nat :
                 d % Granularity = 0 /\ b <= d /\ d + size <= e
                   => c # None /\ Distance(c, near) <= Distance(d, near)
<1>. USE NearSizes
<1> DEFINE c == nearestAllocBaseInFreeRegion([base |-> b, end |-> e])
           first == alignUp(b, Granularity)
           last == alignDown(e - size, Granularity)
           target == Clamp(near, first, last)
           lower == alignDown(target, Granularity)
           upper == alignUp(target, Granularity)
           Within(x) == first <= x /\ x <= last
<1>1. /\ first \in Nat /\ b <= first /\ first % Granularity = 0
      /\ \A x \in Nat : x % Granularity = 0 /\ b <= x => first <= x
  BY RoundedUp
<1>2. size \in Nat \ {0} /\ near \in Nat
  BY DEF NearTyped
<1>3. [base |-> b, end |-> e].base = b /\ [base |-> b, end |-> e].end = e
  OBVIOUS
<1>4. c = IF \/ b \notin free
             \/ size > e - b
             \/ first > e \/ size > e - first
             \/ last < first
            THEN None
          ELSE IF ~ Within(lower) \/ (Within(upper) /\ Distance(upper, near) < Distance(lower, near))
            THEN upper
          ELSE lower
  BY <1>3 DEF nearestAllocBaseInFreeRegion, lastCandidate
<1>. HIDE DEF c, first
<1>5. CASE size > e - b
  <2>1. c = None
    BY <1>4, <1>5
  <2>2. \A d \in Nat : ~ (b <= d /\ d + size <= e)
    BY <1>2, <1>5
  <2>. QED  BY <2>1, <2>2 DEF c
<1>6. CASE ~ (size > e - b)
  <2>1. /\ e - size \in Nat
        /\ last \in Nat /\ last <= e - size /\ last % Granularity = 0
        /\ \A x \in Nat : x % Granularity = 0 /\ x <= e - size => x <= last
    <3>1. e - size \in Nat
      BY <1>2, <1>6
    <3>. QED  BY <3>1, RoundedDown
  <2>. HIDE DEF last
  <2>2. CASE last < first
    <3>1. c = None
      BY <1>4, <2>2
    <3>2. ASSUME NEW d \in Nat, d % Granularity = 0, b <= d, d + size <= e PROVE FALSE
      <4>1. first <= d
        BY <1>1, <3>2
      <4>2. d <= e - size
        BY <1>2, <3>2
      <4>3. d <= last
        BY <2>1, <3>2, <4>2
      <4>4. first \in Nat /\ last \in Nat
        BY <1>1, <2>1
      <4>. QED  BY <2>2, <4>1, <4>3, <4>4
    <3>. QED  BY <3>1, <3>2 DEF c
  <2>3. CASE first <= last
    <3>1. /\ target \in Nat /\ first <= target /\ target <= last
          /\ near < first => target = first
          /\ last < near => target = last
          /\ first <= near /\ near <= last => target = near
      BY <1>1, <1>2, <2>1, <2>3 DEF Clamp, Larger, Smaller
    <3>. HIDE DEF target
    <3>2. /\ lower \in Nat /\ lower <= target /\ lower % Granularity = 0
          /\ \A x \in Nat : x % Granularity = 0 /\ x <= target => x <= lower
      BY <3>1, RoundedDown
    <3>3. /\ upper \in Nat /\ target <= upper /\ upper % Granularity = 0
          /\ \A x \in Nat : x % Granularity = 0 /\ target <= x => upper <= x
      BY <3>1, RoundedUp
    <3>. HIDE DEF lower, upper
    <3>4. first <= lower /\ lower <= last
      BY <1>1, <2>1, <3>1, <3>2
    <3>5. first <= upper /\ upper <= last
      BY <1>1, <2>1, <3>1, <3>3
    <3>6. ~ (first > e \/ size > e - first \/ last < first)
      BY <1>1, <1>2, <2>1, <2>3
    <3>7. /\ c = lower \/ c = upper
          /\ Distance(c, near) <= Distance(lower, near)
          /\ Distance(c, near) <= Distance(upper, near)
      <4>1. /\ Distance(lower, near) \in Nat /\ Distance(upper, near) \in Nat
        BY <1>2, <3>2, <3>3 DEF Distance
      <4>2. c = IF Distance(upper, near) < Distance(lower, near) THEN upper ELSE lower
        BY <1>4, <1>6, <3>4, <3>5, <3>6
      <4>. QED  BY <4>1, <4>2
    <3>8. c \in Nat /\ c % Granularity = 0 /\ first <= c /\ c <= last
      BY <3>2, <3>3, <3>4, <3>5, <3>7
    <3>9. c # None
      BY <3>8 DEF None
    <3>10. b <= c /\ c + size <= e
      BY <1>1, <1>2, <2>1, <3>8
    <3>11. c <= alignUp(Larger(near, b), Granularity)
      <4> DEFINE x == Larger(near, b)
                 top == alignUp(x, Granularity)
      <4>1. x \in Nat /\ near <= x /\ b <= x
        BY <1>2 DEF Larger
      <4>. HIDE DEF x
      <4>2. top \in Nat /\ x <= top /\ top % Granularity = 0
        BY <4>1, RoundedUp
      <4>. HIDE DEF top
      <4>3. b <= top
        BY <4>1, <4>2
      <4>4. first <= top
        BY <1>1, <4>2, <4>3
      <4>5. target <= top
        BY <1>1, <1>2, <2>1, <3>1, <4>1, <4>2, <4>4
      <4>6. upper <= top /\ lower <= top
        BY <3>1, <3>2, <3>3, <4>2, <4>5
      <4>7. c <= top
        BY <3>7, <4>6
      <4>. QED  BY <4>7 DEF top, x
    <3>12. ASSUME NEW d \in Nat, d % Granularity = 0, b <= d, d + size <= e
           PROVE  Distance(c, near) <= Distance(d, near)
      <4>1. first <= d /\ d <= last
        <5>1. d <= e - size
          BY <1>2, <3>12
        <5>. QED  BY <1>1, <2>1, <3>12, <5>1
      <4>2. d <= lower \/ upper <= d
        BY <3>1, <3>2, <3>3, <3>12
      <4>3. near \in Nat /\ lower \in Nat /\ upper \in Nat /\ target \in Nat /\ first \in Nat /\ last \in Nat
        BY <1>1, <1>2, <2>1, <3>1, <3>2, <3>3
      <4>4. Distance(c, near) \in Nat /\ Distance(d, near) \in Nat
        BY <3>8, <4>3 DEF Distance
      <4>5. /\ Distance(lower, near) \in Nat
            /\ Distance(upper, near) \in Nat
        BY <4>3 DEF Distance
      <4>6. Distance(lower, near) <= Distance(d, near) \/ Distance(upper, near) <= Distance(d, near)
        <5>1. CASE near < first
          <6>1. target = first /\ lower = first
            BY <3>1, <3>2, <3>4, <4>3, <5>1
          <6>. QED  BY <4>1, <4>3, <5>1, <6>1 DEF Distance
        <5>2. CASE last < near
          <6>1. target = last /\ upper = last
            BY <3>1, <3>3, <3>5, <4>3, <5>2
          <6>. QED  BY <4>1, <4>3, <5>2, <6>1 DEF Distance
        <5>3. CASE first <= near /\ near <= last
          <6>1. target = near /\ lower <= near /\ near <= upper
            BY <3>1, <3>2, <3>3, <5>3
          <6>. QED  BY <4>2, <4>3, <6>1 DEF Distance
        <5>. QED  BY <4>3, <5>1, <5>2, <5>3
      <4>7. CASE Distance(lower, near) <= Distance(d, near)
        BY <3>7, <4>4, <4>5, <4>7
      <4>8. CASE Distance(upper, near) <= Distance(d, near)
        BY <3>7, <4>4, <4>5, <4>8
      <4>. QED  BY <4>6, <4>7, <4>8
    <3>. QED  BY <3>8, <3>9, <3>10, <3>11, <3>12 DEF c
  <2>. QED  BY <1>1, <2>1, <2>2, <2>3
<1>. QED  BY <1>5, <1>6

\* tryAllocateInRegion, of the region an address of the process is in: what it
\* takes fits, and it takes something if there is a place the free pages lead
\* to from the address's page.
LEMMA TryRight ==
  ASSUME NearTyped, NEW a \in Nat, Lowest <= a, a < Highest
  PROVE  LET base == alignDown(a, Page)
             c == TryRegion(Query(a))
         IN /\ Query(a) # NoRegion
            /\ c # None =>
                 /\ c \in Nat /\ Fits(c)
                 /\ base <= c /\ c < Highest
                 /\ c <= alignUp(Larger(near, base), Granularity)
                 /\ Joined(base, c)
            /\ \A d \in Pages :
                 Fits(d) /\ base <= d /\ Joined(base, d)
                   => c # None /\ d < Query(a).end /\ Distance(c, near) <= Distance(d, near)
<1>. USE NearSizes
<1> DEFINE base == alignDown(a, Page)
           end == Query(a).end
           c == TryRegion(Query(a))
<1>1. /\ Query(a) = [base |-> base, end |-> end]
      /\ base \in Pages /\ base <= a
      /\ end \in Nat /\ end % Page = 0
      /\ a < end /\ end <= Highest
      /\ \A p \in Pages : base <= p /\ p < end => (p \in free <=> base \in free)
      /\ end # Highest => end \in Pages /\ ~ (end \in free <=> base \in free)
  BY QueryRight
<1>2. base \in Nat /\ base % Page = 0 /\ Lowest <= base
  BY <1>1 DEF Pages
<1>. HIDE DEF base, end
<1>3. base < end
  BY <1>1, <1>2
<1>4. Query(a) # NoRegion
  <2>1. [base |-> base, end |-> end].base = base /\ NoRegion.base = None
    BY DEF NoRegion
  <2>2. base # None
    BY <1>2 DEF None
  <2>. QED  BY <1>1, <2>1, <2>2
<1>5. c = nearestAllocBaseInFreeRegion([base |-> base, end |-> end])
  BY <1>1, <1>4 DEF TryRegion
<1>. HIDE DEF c
<1>6. size \in Nat \ {0} /\ near \in Nat
  BY DEF NearTyped
<1>7. ASSUME base \notin free
      PROVE  c = None
  <2>1. [base |-> base, end |-> end].base = base
    OBVIOUS
  <2>. QED  BY <1>5, <1>7, <2>1 DEF nearestAllocBaseInFreeRegion
<1>8. ASSUME base \in free
      PROVE  /\ c # None =>
                  /\ c \in Nat /\ c % Granularity = 0
                  /\ base <= c /\ c + size <= end
                  /\ c <= alignUp(Larger(near, base), Granularity)
             /\ \A d \in Nat :
                  d % Granularity = 0 /\ base <= d /\ d + size <= end
                    => c # None /\ Distance(c, near) <= Distance(d, near)
  BY <1>1, <1>2, <1>3, <1>5, <1>8, CandidateRight
<1>9. ASSUME c # None
      PROVE  /\ c \in Nat /\ Fits(c)
             /\ base <= c /\ c < Highest
             /\ c <= alignUp(Larger(near, base), Granularity)
             /\ Joined(base, c)
  <2>1. base \in free
    BY <1>7, <1>9
  <2>2. /\ c \in Nat /\ c % Granularity = 0
        /\ base <= c /\ c + size <= end
        /\ c <= alignUp(Larger(near, base), Granularity)
    BY <1>8, <1>9, <2>1
  <2>3. Lowest <= c /\ c + size <= Highest /\ c < end /\ c < Highest
    BY <1>1, <1>2, <1>6, <2>2
  <2>4. ASSUME NEW p \in Pages, p + Page > c, p < c + size
        PROVE  p \in free
    <3>1. p \in Nat /\ p % Page = 0
      BY DEF Pages
    <3>2. p < end
      BY <1>1, <1>6, <2>2, <2>4, <3>1
    <3>3. base <= p
      <4>1. CASE p < base
        <5>1. p + Page <= base
          BY <1>2, <3>1, <4>1, MultiplesApart
        <5>. QED  BY <1>2, <2>2, <2>4, <3>1, <5>1
      <4>. QED  BY <1>2, <3>1, <4>1
    <3>. QED  BY <1>1, <2>1, <3>2, <3>3
  <2>5. Fits(c)
    BY <2>2, <2>3, <2>4 DEF Fits
  <2>6. Joined(base, c)
    <3>1. SUFFICES ASSUME NEW p \in Pages, base <= p, p <= c PROVE p \in free
      BY DEF Joined
    <3>2. p \in Nat
      BY DEF Pages
    <3>3. p < end
      BY <1>1, <2>2, <2>3, <3>1, <3>2
    <3>. QED  BY <1>1, <2>1, <3>1, <3>3
  <2>. QED  BY <2>2, <2>3, <2>5, <2>6
<1>10. ASSUME NEW d \in Pages, Fits(d), base <= d, Joined(base, d)
       PROVE  c # None /\ d < end /\ Distance(c, near) <= Distance(d, near)
  <2>1. d \in Nat /\ d < Highest
    BY DEF Pages
  <2>2. base \in free
    BY <1>1, <1>2, <1>10 DEF Joined
  <2>3. d < end
    <3>1. CASE end <= d
      <4>1. end # Highest
        BY <2>1, <3>1
      <4>2. end \in Pages /\ end \notin free
        BY <1>1, <2>2, <4>1
      <4>3. base <= end
        BY <1>1, <1>2, <1>3
      <4>. QED  BY <1>10, <3>1, <4>2, <4>3 DEF Joined
    <3>. QED  BY <1>1, <2>1, <3>1
  <2>4. d + size <= end
    <3>1. CASE end = Highest
      BY <1>10, <3>1 DEF Fits
    <3>2. CASE end # Highest /\ end < d + size
      <4>1. end \in Pages /\ end \notin free
        BY <1>1, <2>2, <3>2
      <4>2. end + Page > d
        BY <1>1, <2>1, <2>3
      <4>. QED  BY <1>10, <3>2, <4>1, <4>2 DEF Fits
    <3>. QED  BY <1>1, <1>6, <2>1, <3>1, <3>2
  <2>5. d % Granularity = 0
    BY <1>10 DEF Fits
  <2>. QED  BY <1>8, <1>10, <2>1, <2>2, <2>3, <2>4, <2>5
<1>. QED  BY <1>4, <1>9, <1>10 DEF base, end, c

----------------------------------------------------------------------------
(* A turn of the loop.                                                     *)

\* What the cursors see.
LEMMA CursorsSee ==
  ASSUME NearTyped, CursorsBound
  PROVE  /\ forward = None => ForwardRegion = NoRegion
         /\ forward # None =>
              /\ forward \in Nat /\ Lowest <= forward /\ forward < Highest
              /\ ForwardRegion = Query(forward)
         /\ BackwardRegion # NoRegion =>
              /\ backward \in Nat /\ Lowest <= backward /\ backward < Highest
              /\ searchStart(near) <= backward /\ backward < near
              /\ BackwardRegion = Query(backward)
<1>. USE NearSizes
<1>1. near \in Nat /\ forward \in Nat \cup {None} /\ backward \in Nat \cup {None}
  BY DEF NearTyped
<1>2. /\ searchStart(near) \in Nat /\ Lowest <= searchStart(near)
      /\ searchEnd(near) \in Nat /\ searchEnd(near) <= Highest
  BY <1>1, WindowEdges
<1>3. Query(None) = NoRegion
  BY DEF Query
<1>4. ASSUME forward = None PROVE ForwardRegion = NoRegion
  BY <1>3, <1>4 DEF ForwardRegion
<1>5. ASSUME forward # None
      PROVE  /\ forward \in Nat /\ Lowest <= forward /\ forward < Highest
             /\ ForwardRegion = Query(forward)
  <2>1. forward \in Nat /\ searchStart(near) <= forward /\ forward < searchEnd(near)
    BY <1>1, <1>5 DEF CursorsBound
  <2>2. ForwardRegion = Query(forward)
    BY <2>1 DEF ForwardRegion
  <2>. QED  BY <1>2, <2>1, <2>2
<1>6. ASSUME BackwardRegion # NoRegion
      PROVE  /\ backward \in Nat /\ Lowest <= backward /\ backward < Highest
             /\ searchStart(near) <= backward /\ backward < near
             /\ BackwardRegion = Query(backward)
  <2>1. backward >= searchStart(near)
    BY <1>6 DEF BackwardRegion
  <2>2. BackwardRegion = Query(backward)
    BY <1>6, <2>1 DEF BackwardRegion
  <2>3. backward # None
    BY <1>3, <1>6, <2>2
  <2>4. backward \in Nat /\ searchStart(near) <= backward /\ backward < near
    BY <1>1, <2>3 DEF CursorsBound
  <2>5. Lowest <= backward /\ backward < Highest
    <3>1. ~ (backward < Lowest \/ backward >= Highest)
      BY <1>6, <2>2 DEF Query
    <3>. QED  BY <2>4, <3>1
  <2>. QED  BY <2>2, <2>4, <2>5
<1>. QED  BY <1>4, <1>5, <1>6

\* Both regions are tried before the cursors go on.
LEMMA NoChoice ==
  ASSUME Choice = None
  PROVE  TryRegion(ForwardRegion) = None /\ TryRegion(BackwardRegion) = None
BY DEF Choice

\* Pages below the target are not above the forward cursor's.
LEMMA BelowForward ==
  ASSUME NearTyped, CursorsBound, forward # None, NEW p \in Pages, p < near
  PROVE  p <= alignDown(forward, Page)
<1>. USE NearSizes
<1>1. forward \in Nat /\ near \in Nat /\ p \in Nat /\ p % Page = 0 /\ p < Highest
  BY DEF NearTyped, Pages
<1>2. near <= forward \/ Highest - 1 <= forward
  BY DEF CursorsBound
<1>3. p <= forward
  BY <1>1, <1>2
<1>. QED  BY <1>1, <1>3, RoundedDown

\* The places of the forward cursor: nothing nearer is passed over.
LEMMA ForwardPlaces ==
  ASSUME NearTyped, CursorsBound, ForwardTried, NEW c, c = TryRegion(ForwardRegion), c # None
  PROVE  /\ Fits(c)
         /\ searchStart(near) <= c /\ c <= searchEnd(near)
         /\ \A d \in Pages :
              Fits(d) /\ (near <= c <=> near <= d) => Distance(c, near) <= Distance(d, near)
<1>. USE NearSizes
<1> DEFINE base == alignDown(forward, Page)
<1>1. near \in Nat /\ size \in Nat \ {0}
  BY DEF NearTyped
<1>2. forward # None
  BY CursorsSee DEF TryRegion
<1>3. /\ forward \in Nat /\ Lowest <= forward /\ forward < Highest
      /\ ForwardRegion = Query(forward)
  BY <1>2, CursorsSee
<1>4. /\ c \in Nat /\ Fits(c)
      /\ base <= c /\ c < Highest
      /\ c <= alignUp(Larger(near, base), Granularity)
      /\ Joined(base, c)
      /\ \A d \in Pages :
           Fits(d) /\ base <= d /\ Joined(base, d) => Distance(c, near) <= Distance(d, near)
  BY <1>3, TryRight
<1>5. /\ base \in Nat /\ base <= forward
      /\ \A x \in Nat : x % Page = 0 /\ x <= forward => x <= base
  BY <1>3, RoundedDown
<1>. HIDE DEF base
<1>6. /\ searchStart(near) \in Nat /\ searchStart(near) % Page = 0
      /\ searchEnd(near) \in Nat
      /\ \A x, y \in Nat :
           /\ x <= near \/ x < searchEnd(near)
           /\ y <= alignUp(x, Granularity) /\ y <= Highest
           => y <= searchEnd(near)
  BY <1>1, WindowEdges
<1>7. searchStart(near) <= forward /\ forward < searchEnd(near)
  BY <1>2 DEF CursorsBound
<1>8. searchStart(near) <= c
  BY <1>4, <1>5, <1>6, <1>7
<1>9. c <= searchEnd(near)
  <2>1. Larger(near, base) \in Nat
    BY <1>1, <1>5 DEF Larger
  <2>2. Larger(near, base) <= near \/ Larger(near, base) < searchEnd(near)
    BY <1>1, <1>3, <1>5, <1>6, <1>7 DEF Larger
  <2>3. c <= Highest
    BY <1>4
  <2>. QED  BY <1>4, <1>6, <2>1, <2>2, <2>3
<1>10. ASSUME NEW d \in Pages, Fits(d), near <= c <=> near <= d
       PROVE  Distance(c, near) <= Distance(d, near)
  <2>1. d \in Nat
    BY DEF Pages
  <2>2. CASE near <= c /\ near <= d /\ c <= d
    BY <1>1, <1>4, <2>1, <2>2 DEF Distance
  <2>3. CASE near <= c /\ near <= d /\ d < c
    <3>1. Joined(d, d)
      <4>1. SUFFICES ASSUME NEW p \in Pages, d <= p, p <= d PROVE p \in free
        BY DEF Joined
      <4>2. p = d
        BY <2>1, <4>1 DEF Pages
      <4>3. d + Page > d /\ d < d + size
        BY <1>1, <2>1
      <4>. QED  BY <1>10, <4>2, <4>3 DEF Fits
    <3>2. near < d + Page /\ d <= d
      BY <1>1, <2>1, <2>3
    <3>3. Frontier <= d
      BY <1>10, <2>3, <3>1, <3>2 DEF ForwardTried
    <3>4. base <= d
      BY <1>2, <3>3 DEF Frontier, base
    <3>5. Joined(base, d)
      <4>1. SUFFICES ASSUME NEW p \in Pages, base <= p, p <= d PROVE p \in free
        BY DEF Joined
      <4>2. p <= c
        BY <1>4, <2>1, <2>3, <4>1 DEF Pages
      <4>. QED  BY <1>4, <4>1, <4>2 DEF Joined
    <3>. QED  BY <1>4, <1>10, <3>4, <3>5
  <2>4. CASE c < near /\ d < near
    <3>1. d <= base
      BY <1>2, <2>4, BelowForward DEF base
    <3>. QED  BY <1>1, <1>4, <1>5, <2>1, <2>4, <3>1 DEF Distance
  <2>. QED  BY <1>1, <1>4, <1>10, <2>1, <2>2, <2>3, <2>4
<1>. QED  BY <1>4, <1>8, <1>9, <1>10

\* The places of the backward cursor: it takes none at or above the target, as
\* the forward cursor had its page first.
LEMMA BackwardPlaces ==
  ASSUME NearTyped, CursorsBound, ForwardTried, BackwardTried,
         NEW c, c = TryRegion(BackwardRegion), c # None,
         \/ TryRegion(ForwardRegion) = None
         \/ ~ (distanceToRegion(ForwardRegion) <= distanceToRegion(BackwardRegion))
  PROVE  /\ Fits(c)
         /\ searchStart(near) <= c /\ c <= searchEnd(near)
         /\ \A d \in Pages :
              Fits(d) /\ (near <= c <=> near <= d) => Distance(c, near) <= Distance(d, near)
<1>. USE NearSizes
<1> DEFINE base == alignDown(backward, Page)
<1>1. near \in Nat /\ size \in Nat \ {0}
  BY DEF NearTyped
<1>2. BackwardRegion # NoRegion
  BY DEF TryRegion
<1>3. /\ backward \in Nat /\ Lowest <= backward /\ backward < Highest
      /\ searchStart(near) <= backward /\ backward < near
      /\ BackwardRegion = Query(backward)
  BY <1>2, CursorsSee
<1>4. /\ c \in Nat /\ Fits(c)
      /\ base <= c /\ c < Highest
      /\ c <= alignUp(Larger(near, base), Granularity)
      /\ Joined(base, c)
  BY <1>3, TryRight
<1>5. /\ base \in Nat /\ base <= backward /\ base % Page = 0 /\ base \in Pages
      /\ \A x \in Nat : x % Page = 0 /\ x <= backward => x <= base
  BY <1>3, RoundedDown, QueryRight
<1>6. /\ BackwardRegion.base = base /\ BackwardRegion.end \in Nat
  BY <1>3, QueryRight
<1>. HIDE DEF base
<1>7. /\ searchStart(near) \in Nat /\ searchStart(near) % Page = 0
      /\ searchEnd(near) \in Nat
      /\ searchEnd(near) = Highest \/ near < searchEnd(near)
      /\ \A x, y \in Nat :
           /\ x <= near \/ x < searchEnd(near)
           /\ y <= alignUp(x, Granularity) /\ y <= Highest
           => y <= searchEnd(near)
  BY <1>1, WindowEdges
<1>8. searchStart(near) <= c
  BY <1>3, <1>4, <1>5, <1>7
<1>9. c <= searchEnd(near)
  <2>1. Larger(near, base) = near
    BY <1>1, <1>3, <1>5 DEF Larger
  <2>2. c <= Highest
    BY <1>4
  <2>. QED  BY <1>1, <1>4, <1>7, <2>1, <2>2
<1>10. c < near
  <2>1. SUFFICES ASSUME near <= c PROVE FALSE
    BY <1>1, <1>4
  <2> DEFINE page == alignDown(near, Page)
  <2>2. /\ page \in Nat /\ page <= near /\ near < page + Page /\ page % Page = 0
        /\ \A x \in Nat : x % Page = 0 /\ x <= near => x <= page
    BY <1>1, RoundedDown
  <2>. HIDE DEF page
  <2>3. base <= page
    BY <1>1, <1>3, <1>5, <2>2
  <2>4. page \in Pages
    <3>1. Lowest <= base
      BY <1>5 DEF Pages
    <3>2. Lowest <= page /\ page < Highest
      BY <1>1, <1>4, <1>5, <2>1, <2>2, <2>3, <3>1
    <3>. QED  BY <2>2, <3>2 DEF Pages
  <2>5. Joined(page, c)
    <3>1. SUFFICES ASSUME NEW p \in Pages, page <= p, p <= c PROVE p \in free
      BY DEF Joined
    <3>2. base <= p
      BY <1>5, <2>2, <2>3, <3>1 DEF Pages
    <3>. QED  BY <1>4, <3>1, <3>2 DEF Joined
  <2>6. c \in Pages
    <3>1. c % Page = 0
      BY <1>4, GranulesArePages DEF Fits
    <3>2. Lowest <= c
      BY <1>4 DEF Fits
    <3>. QED  BY <1>4, <3>1, <3>2 DEF Pages
  <2>7. page <= c
    BY <1>1, <1>4, <2>1, <2>2
  <2>8. Frontier <= page
    BY <1>4, <2>1, <2>2, <2>4, <2>5, <2>6, <2>7 DEF ForwardTried
  <2>9. forward # None
    <3>1. SUFFICES ASSUME forward = None PROVE FALSE
      OBVIOUS
    <3>2. searchEnd(near) <= near
      BY <1>1, <1>7, <2>2, <2>8, <3>1 DEF Frontier
    <3>. QED  BY <1>1, <1>4, <1>7, <2>1, <3>2
  <2> DEFINE first == alignDown(forward, Page)
  <2>10. /\ forward \in Nat /\ Lowest <= forward /\ forward < Highest
         /\ ForwardRegion = Query(forward)
    BY <2>9, CursorsSee
  <2>11. /\ first \in Nat
         /\ Query(forward).base = first /\ Query(forward).end \in Nat
    BY <2>10, RoundedDown, QueryRight
  <2>12. base <= first
    BY <1>1, <1>3, <1>5, <2>9, BelowForward
  <2>13. first <= page
    BY <2>8, <2>9 DEF Frontier
  <2>14. Joined(first, c) /\ first <= c
    <3>1. first <= c
      BY <1>4, <2>2, <2>7, <2>11, <2>13
    <3>2. ASSUME NEW p \in Pages, first <= p, p <= c PROVE p \in free
      <4>1. base <= p
        BY <1>5, <2>11, <2>12, <3>2 DEF Pages
      <4>. QED  BY <1>4, <3>2, <4>1 DEF Joined
    <3>. QED  BY <3>1, <3>2 DEF Joined
  <2>15. TryRegion(ForwardRegion) # None /\ c < Query(forward).end
    BY <1>4, <2>6, <2>10, <2>14, TryRight
  <2>. HIDE DEF first
  <2>16. distanceToRegion(ForwardRegion) = 0
    <3>1. ~ (near < first)
      BY <1>1, <2>2, <2>11, <2>13
    <3>2. ~ (near >= Query(forward).end)
      BY <1>1, <1>4, <2>1, <2>11, <2>15
    <3>. QED  BY <2>10, <2>11, <3>1, <3>2 DEF distanceToRegion
  <2>17. distanceToRegion(BackwardRegion) \in Nat
    BY <1>1, <1>5, <1>6 DEF distanceToRegion
  <2>. QED  BY <2>15, <2>16, <2>17
<1>11. ASSUME NEW d \in Pages, Fits(d), near <= c <=> near <= d
       PROVE  Distance(c, near) <= Distance(d, near)
  <2>1. d \in Nat
    BY DEF Pages
  <2>2. d < near
    BY <1>1, <1>4, <1>10, <1>11, <2>1
  <2>3. backward # None
    BY <1>3 DEF None
  <2>4. d <= base
    BY <1>11, <2>2, <2>3 DEF BackwardTried, base
  <2>. QED  BY <1>1, <1>4, <1>5, <1>10, <2>1, <2>2, <2>4 DEF Distance
<1>. QED  BY <1>4, <1>8, <1>9, <1>11

\* What does not change while a place is sought.
LEMMA NearKept ==
  ASSUME UNCHANGED <<free, near, size>>
  PROVE  /\ \A c : Fits(c)' <=> Fits(c)
         /\ \A q, c : Joined(q, c)' <=> Joined(q, c)
BY DEF Fits, Joined

LEMMA PlaceKeeps ==
  ASSUME NInv, Place
  PROVE  NInv'
<1>1. /\ outcome = "searching" /\ outcome' = "placed" /\ placed' = Choice /\ Choice # None
      /\ UNCHANGED <<free, near, size>>
      /\ UNCHANGED <<forward, backward>>
  BY DEF Place
<1>2. NearTyped /\ CursorsBound /\ ForwardTried /\ BackwardTried
  BY <1>1 DEF NInv
<1>3. /\ Fits(Choice)
      /\ searchStart(near) <= Choice /\ Choice <= searchEnd(near)
      /\ \A d \in Pages :
           Fits(d) /\ (near <= Choice <=> near <= d) => Distance(Choice, near) <= Distance(d, near)
  <2> DEFINE ahead == TryRegion(ForwardRegion)
             behind == TryRegion(BackwardRegion)
  <2>1. CASE Choice = ahead
    BY <1>1, <1>2, <2>1, ForwardPlaces
  <2>2. CASE Choice # ahead
    <3>1. Choice = behind
      BY <2>2 DEF Choice
    <3>2. \/ ahead = None
          \/ ~ (distanceToRegion(ForwardRegion) <= distanceToRegion(BackwardRegion))
      <4>1. ASSUME ahead # None
            PROVE  ~ (distanceToRegion(ForwardRegion) <= distanceToRegion(BackwardRegion))
        <5>1. ForwardRegion # NoRegion
          BY <4>1 DEF TryRegion
        <5>. QED  BY <2>2, <4>1, <5>1 DEF Choice
      <4>. QED  BY <4>1
    <3>. QED  BY <1>1, <1>2, <3>1, <3>2, BackwardPlaces
  <2>. QED  BY <2>1, <2>2
<1>4. NearTyped'
  BY <1>1, <1>2 DEF NearTyped
<1>5. PlacedWell'
  <2>1. \A c : Fits(c)' <=> Fits(c)
    BY <1>1, NearKept
  <2>. QED  BY <1>1, <1>3, <2>1 DEF PlacedWell
<1>6. PageTargetsServed'
  BY <1>1 DEF PageTargetsServed
<1>. QED  BY <1>1, <1>4, <1>5, <1>6 DEF NInv

LEMMA GiveUpKeeps ==
  ASSUME NInv, GiveUp
  PROVE  NInv'
<1>. USE NearSizes
<1>1. /\ outcome = "searching" /\ outcome' = "failed" /\ forward = None /\ backward = None
      /\ UNCHANGED <<free, near, size>>
      /\ UNCHANGED <<forward, backward>>
  BY DEF GiveUp
<1>2. NearTyped /\ ForwardTried /\ BackwardTried
  BY <1>1 DEF NInv
<1>3. near \in Nat /\ size \in Nat \ {0} /\ searchEnd(near) \in Nat
  BY <1>2, WindowEdges DEF NearTyped
<1>4. NearTyped'
  BY <1>1, <1>2 DEF NearTyped
<1>5. ASSUME near \in Pages, NEW c \in Pages, InWindow(c), Fits(c)
      PROVE  FALSE
  <2>1. c \in Nat
    BY DEF Pages
  <2>2. CASE c < near
    BY <1>1, <1>2, <1>5, <2>2 DEF BackwardTried, InWindow
  <2>3. CASE near <= c
    <3>1. Joined(c, c)
      <4>1. SUFFICES ASSUME NEW p \in Pages, c <= p, p <= c PROVE p \in free
        BY DEF Joined
      <4>2. p = c
        BY <2>1, <4>1 DEF Pages
      <4>3. c + Page > c /\ c < c + size
        BY <1>3, <2>1
      <4>. QED  BY <1>5, <4>2, <4>3 DEF Fits
    <3>2. near < c + Page /\ c <= c
      BY <1>3, <2>1, <2>3
    <3>3. searchEnd(near) <= c
      BY <1>1, <1>2, <1>5, <2>3, <3>1, <3>2 DEF ForwardTried, Frontier
    <3>. QED  BY <1>3, <1>5, <2>1, <3>3 DEF InWindow
  <2>. QED  BY <1>3, <2>1, <2>2, <2>3
<1>6. PageTargetsServed'
  <2>1. \A c : (Fits(c)' <=> Fits(c)) /\ (InWindow(c)' <=> InWindow(c))
    BY <1>1, NearKept DEF InWindow
  <2>. QED  BY <1>1, <1>5, <2>1 DEF PageTargetsServed
<1>7. PlacedWell'
  BY <1>1 DEF PlacedWell
<1>. QED  BY <1>1, <1>4, <1>6, <1>7 DEF NInv

LEMMA AllocateKeeps ==
  ASSUME NInv, Allocate
  PROVE  NInv'
<1>. USE NearSizes
<1>1. outcome = "idle" /\ UNCHANGED <<free, near, size>>
  BY DEF Allocate
<1>2. near \in Nat /\ size \in Nat \ {0} /\ NearTyped
  BY DEF NInv, NearTyped
<1>3. /\ searchStart(near) \in Nat /\ searchStart(near) % Page = 0 /\ Lowest <= searchStart(near)
      /\ searchStart(near) <= near \/ searchStart(near) = Lowest
      /\ searchEnd(near) \in Nat /\ searchEnd(near) <= Highest
      /\ searchEnd(near) = Highest \/ near < searchEnd(near)
  BY <1>2, WindowEdges
<1>4. CASE searchEnd(near) <= searchStart(near)
  <2>1. outcome' = "failed" /\ UNCHANGED <<forward, backward>>
    BY <1>4 DEF Allocate
  <2>2. NearTyped'
    BY <1>1, <1>2, <2>1 DEF NearTyped
  <2>3. \A c \in Pages : ~ InWindow(c)
    BY <1>3, <1>4 DEF InWindow, Pages
  <2>4. PageTargetsServed'
    BY <1>1, <2>3 DEF PageTargetsServed, InWindow
  <2>5. PlacedWell'
    BY <2>1 DEF PlacedWell
  <2>. QED  BY <2>1, <2>2, <2>4, <2>5 DEF NInv
<1>5. CASE ~ (searchEnd(near) <= searchStart(near))
  <2>1. /\ outcome' = "searching"
        /\ forward' = Clamp(near, searchStart(near), searchEnd(near) - 1)
        /\ backward' = IF near > searchStart(near) THEN near - 1 ELSE None
    BY <1>5 DEF Allocate
  <2>2. searchStart(near) < searchEnd(near)
    BY <1>3, <1>5
  <2>3. /\ forward' \in Nat
        /\ searchStart(near) <= forward' /\ forward' < searchEnd(near)
        /\ near <= forward' \/ Highest - 1 <= forward'
        /\ forward' <= near \/ forward' = searchStart(near)
    BY <1>2, <1>3, <2>1, <2>2 DEF Clamp, Larger, Smaller
  <2>4. /\ backward' \in Nat \cup {None}
        /\ backward' # None => searchStart(near) <= backward' /\ backward' = near - 1 /\ backward' \in Nat
        /\ backward' = None => near <= searchStart(near)
    BY <1>2, <1>3, <2>1 DEF None
  <2>5. NearTyped'
    BY <1>1, <1>2, <2>1, <2>3, <2>4 DEF NearTyped
  <2>6. CursorsBound'
    BY <1>1, <1>2, <1>3, <2>3, <2>4 DEF CursorsBound
  <2>7. /\ \A c : Fits(c)' <=> Fits(c)
        /\ \A q, c : Joined(q, c)' <=> Joined(q, c)
    BY <1>1, NearKept
  <2>8. forward' # None
    BY <2>3 DEF None
  <2>9. ASSUME NEW c \in Pages, NEW q \in Pages, near <= c, near < q + Page, q <= c
        PROVE  alignDown(forward', Page) <= q
    <3>1. q \in Nat /\ q % Page = 0 /\ Lowest <= q /\ c \in Nat /\ c < Highest
      BY DEF Pages
    <3> DEFINE first == alignDown(forward', Page)
    <3>2. /\ first \in Nat /\ first <= forward' /\ first % Page = 0
      BY <2>3, RoundedDown
    <3>. HIDE DEF first
    <3>3. CASE forward' <= near
      <4>1. CASE q < first
        <5>1. q + Page <= first
          BY <3>1, <3>2, <4>1, MultiplesApart
        <5>. QED  BY <1>2, <2>3, <2>9, <3>1, <3>2, <3>3, <5>1
      <4>. QED  BY <3>1, <3>2, <4>1 DEF first
    <3>4. CASE near < forward'
      <4>1. forward' = searchStart(near) /\ searchStart(near) = Lowest
        BY <1>2, <1>3, <2>3, <3>4
      <4>. QED  BY <2>3, <3>1, <3>2, <4>1 DEF first
    <3>. QED  BY <1>2, <2>3, <3>3, <3>4
  <2>10. ForwardTried'
    BY <1>1, <2>7, <2>8, <2>9 DEF ForwardTried, Frontier
  <2>11. BackwardTried'
    <3>1. ASSUME backward' # None, NEW c \in Pages, c < near
          PROVE  c <= alignDown(backward', Page)
      <4>1. c \in Nat /\ c % Page = 0
        BY DEF Pages
      <4>2. backward' \in Nat /\ c <= backward'
        BY <1>2, <2>4, <3>1, <4>1
      <4>. QED  BY <4>1, <4>2, RoundedDown
    <3>2. ASSUME backward' = None, NEW c \in Pages, searchStart(near) <= c, c < near
          PROVE  FALSE
      <4>1. c \in Nat
        BY DEF Pages
      <4>. QED  BY <1>2, <1>3, <2>4, <3>2, <4>1
    <3>. QED  BY <1>1, <2>7, <3>1, <3>2 DEF BackwardTried
  <2>12. PlacedWell' /\ PageTargetsServed'
    BY <2>1 DEF PlacedWell, PageTargetsServed
  <2>. QED  BY <2>5, <2>6, <2>10, <2>11, <2>12 DEF NInv
<1>. QED  BY <1>4, <1>5

\* The forward cursor goes past a run of free pages only if nothing in it fits.
LEMMA ForwardWalks ==
  ASSUME NearTyped, CursorsBound, ForwardTried, TryRegion(ForwardRegion) = None
  PROVE  /\ NextForward \in Nat \cup {None}
         /\ NextForward # None =>
              /\ searchStart(near) <= NextForward /\ NextForward < searchEnd(near)
              /\ near <= NextForward \/ Highest - 1 <= NextForward
         /\ \A c, q \in Pages :
              Fits(c) /\ near <= c /\ near < q + Page /\ q <= c /\ Joined(q, c)
                => IF NextForward = None THEN searchEnd(near) <= q
                   ELSE alignDown(NextForward, Page) <= q
<1>. USE NearSizes
<1>1. near \in Nat /\ searchStart(near) \in Nat /\ searchEnd(near) \in Nat /\ searchEnd(near) <= Highest
  BY WindowEdges DEF NearTyped
<1>2. CASE forward = None
  <2>1. NextForward = None
    BY <1>2, CursorsSee DEF NextForward
  <2>2. Frontier = searchEnd(near)
    BY <1>2 DEF Frontier
  <2>. QED  BY <2>1, <2>2 DEF ForwardTried
<1>3. CASE forward # None
  <2> DEFINE base == alignDown(forward, Page)
             end == ForwardRegion.end
  <2>1. /\ forward \in Nat /\ Lowest <= forward /\ forward < Highest
        /\ ForwardRegion = Query(forward)
    BY <1>3, CursorsSee
  <2>2. /\ base \in Pages /\ base <= forward
        /\ end \in Nat /\ end % Page = 0
        /\ forward < end /\ end <= Highest
        /\ \A p \in Pages : base <= p /\ p < end => (p \in free <=> base \in free)
    BY <2>1, QueryRight
  <2>3. ForwardRegion # NoRegion
    BY <2>1, TryRight
  <2>4. \A d \in Pages : Fits(d) /\ base <= d => ~ Joined(base, d)
    BY <2>1, TryRight
  <2>5. Frontier = base
    BY <1>3 DEF Frontier
  <2>6. base \in Nat /\ base < end
    BY <2>1, <2>2 DEF Pages
  <2>. HIDE DEF base, end
  <2>7. NextForward = IF end >= searchEnd(near) THEN None ELSE end
    BY <2>3 DEF NextForward, end
  <2>8. /\ searchStart(near) <= forward
        /\ near <= forward \/ Highest - 1 <= forward
    BY <1>3 DEF CursorsBound
  <2>9. ASSUME NEW c \in Pages, NEW q \in Pages,
               Fits(c), near <= c, near < q + Page, q <= c, Joined(q, c)
        PROVE  end <= q
    <3>1. q \in Nat /\ c \in Nat
      BY DEF Pages
    <3>2. base <= q
      BY <2>5, <2>9 DEF ForwardTried
    <3>3. SUFFICES ASSUME q < end PROVE FALSE
      BY <2>2, <3>1
    <3>4. base \in free
      <4>1. q \in free
        BY <2>9, <3>1 DEF Joined
      <4>. QED  BY <2>2, <3>2, <3>3, <4>1
    <3>5. Joined(base, c)
      <4>1. SUFFICES ASSUME NEW p \in Pages, base <= p, p <= c PROVE p \in free
        BY DEF Joined
      <4>2. p \in Nat
        BY DEF Pages
      <4>3. CASE p < end
        BY <2>2, <3>4, <4>1, <4>3
      <4>4. CASE q <= p
        BY <2>9, <4>1, <4>4 DEF Joined
      <4>. QED  BY <2>2, <3>1, <3>3, <4>2, <4>3, <4>4
    <3>6. base <= c
      BY <2>6, <2>9, <3>1, <3>2
    <3>. QED  BY <2>4, <2>9, <3>5, <3>6
  <2>10. CASE end >= searchEnd(near)
    <3>1. NextForward = None
      BY <2>7, <2>10
    <3>2. ASSUME NEW q \in Pages, end <= q PROVE searchEnd(near) <= q
      <4>1. q \in Nat
        BY DEF Pages
      <4>. QED  BY <1>1, <2>2, <2>10, <3>2, <4>1
    <3>. QED  BY <2>9, <3>1, <3>2
  <2>11. CASE ~ (end >= searchEnd(near))
    <3>1. NextForward = end /\ end \in Nat /\ end < searchEnd(near)
      BY <1>1, <2>2, <2>7, <2>11
    <3>2. end # None
      BY <3>1 DEF None
    <3>3. alignDown(end, Page) = end
      BY <2>2 DEF alignDown
    <3>4. searchStart(near) <= end /\ near <= end
      BY <1>1, <2>1, <2>2, <2>8, <3>1
    <3>. QED  BY <2>9, <3>1, <3>2, <3>3, <3>4
  <2>. QED  BY <2>10, <2>11
<1>. QED  BY <1>2, <1>3

\* The backward cursor goes down page by page.
LEMMA BackwardWalks ==
  ASSUME NearTyped, CursorsBound, BackwardTried, TryRegion(BackwardRegion) = None
  PROVE  /\ NextBackward \in Nat \cup {None}
         /\ NextBackward # None =>
              /\ searchStart(near) <= NextBackward /\ NextBackward < near
              /\ \A c \in Pages : Fits(c) /\ c < near => c <= alignDown(NextBackward, Page)
         /\ NextBackward = None /\ near \in Pages =>
              ~ \E c \in Pages : Fits(c) /\ searchStart(near) <= c /\ c < near
<1>. USE NearSizes
<1>1. /\ near \in Nat /\ size \in Nat \ {0}
      /\ searchStart(near) \in Nat /\ Lowest <= searchStart(near)
      /\ searchStart(near) % Page = 0
      /\ searchEnd(near) \in Nat /\ searchEnd(near) <= Highest
      /\ searchEnd(near) = Highest \/ near < searchEnd(near)
  BY WindowEdges DEF NearTyped
<1>2. CASE BackwardRegion = NoRegion
  <2>1. NextBackward = None
    BY <1>2 DEF NextBackward
  <2>2. ASSUME near \in Pages, backward # None PROVE FALSE
    <3>1. near < Highest /\ near % Page = 0
      BY <2>2 DEF Pages
    <3>2. backward \in Nat /\ searchStart(near) <= backward /\ backward < near
      BY <2>2 DEF NearTyped, CursorsBound
    <3>3. Lowest <= backward /\ backward < Highest
      BY <1>1, <3>1, <3>2
    <3> DEFINE below == alignDown(backward, Page)
    <3>4. /\ Query(backward) # NoRegion
          /\ Query(backward).base = below
          /\ below \in Nat /\ below <= backward
      BY <3>2, <3>3, TryRight, QueryRight, RoundedDown
    <3>. HIDE DEF below
    <3>5. Query(backward).base = ForwardRegion.base
      BY <1>1, <1>2, <3>2, <3>4 DEF BackwardRegion
    <3>6. CASE forward = None
      <4>1. ForwardRegion.base = None
        BY <3>6, CursorsSee DEF NoRegion
      <4>. QED  BY <3>4, <3>5, <4>1 DEF None
    <3>7. CASE forward # None
      <4> DEFINE above == alignDown(forward, Page)
      <4>1. /\ forward \in Nat /\ Lowest <= forward /\ forward < Highest
            /\ ForwardRegion = Query(forward)
        BY <3>7, CursorsSee
      <4>2. ForwardRegion.base = above
        BY <4>1, QueryRight
      <4>3. near <= forward
        <5>1. near <= forward \/ Highest - 1 <= forward
          BY <3>7 DEF CursorsBound
        <5>. QED  BY <1>1, <3>1, <4>1, <5>1
      <4>4. near <= above
        BY <1>1, <3>1, <4>1, <4>3, RoundedDown
      <4>. QED  BY <1>1, <3>2, <3>4, <3>5, <4>2, <4>4
    <3>. QED  BY <3>6, <3>7
  <2>. QED  BY <2>1, <2>2 DEF BackwardTried
<1>3. CASE BackwardRegion # NoRegion
  <2> DEFINE base == alignDown(backward, Page)
  <2>1. /\ backward \in Nat /\ Lowest <= backward /\ backward < Highest
        /\ searchStart(near) <= backward /\ backward < near
        /\ BackwardRegion = Query(backward)
    BY <1>3, CursorsSee
  <2>2. /\ BackwardRegion.base = base /\ base \in Pages /\ base <= backward
        /\ \A d \in Pages : Fits(d) /\ base <= d => ~ Joined(base, d)
    BY <2>1, QueryRight, TryRight
  <2>3. backward # None
    BY <2>1 DEF None
  <2>4. \A c \in Pages : Fits(c) /\ c < near => c <= base
    BY <2>3 DEF BackwardTried
  <2>5. base \in Nat /\ base % Page = 0
    BY <2>2 DEF Pages
  <2>6. searchStart(near) <= base
    BY <1>1, <2>1, RoundedDown
  <2>. HIDE DEF base
  <2>7. NextBackward = IF base <= searchStart(near) THEN None ELSE base - 1
    BY <1>3, <2>2 DEF NextBackward
  <2>8. ~ Fits(base)
    <3>1. SUFFICES ASSUME Fits(base) PROVE FALSE
      OBVIOUS
    <3>2. Joined(base, base)
      <4>1. SUFFICES ASSUME NEW p \in Pages, base <= p, p <= base PROVE p \in free
        BY DEF Joined
      <4>2. p = base
        BY <2>5, <4>1 DEF Pages
      <4>3. base + Page > base /\ base < base + size
        BY <1>1, <2>5
      <4>. QED  BY <2>2, <3>1, <4>2, <4>3 DEF Fits
    <3>3. base <= base
      BY <2>5
    <3>. QED  BY <2>2, <3>1, <3>2, <3>3
  <2>9. ASSUME NEW c \in Pages, Fits(c), c < near PROVE c < base
    <3>1. c \in Nat /\ c <= base
      BY <2>4, <2>9 DEF Pages
    <3>2. c # base
      BY <2>8, <2>9
    <3>. QED  BY <2>5, <3>1, <3>2
  <2>10. CASE base <= searchStart(near)
    <3>1. NextBackward = None
      BY <2>7, <2>10
    <3>2. ASSUME NEW c \in Pages, Fits(c), searchStart(near) <= c, c < near PROVE FALSE
      <4>1. c \in Nat /\ c < base
        BY <2>9, <3>2 DEF Pages
      <4>. QED  BY <1>1, <2>5, <2>10, <3>2, <4>1
    <3>. QED  BY <3>1, <3>2
  <2>11. CASE ~ (base <= searchStart(near))
    <3>1. NextBackward = base - 1 /\ base - 1 \in Nat /\ searchStart(near) <= base - 1 /\ base - 1 < near
      BY <1>1, <2>1, <2>2, <2>5, <2>7, <2>11
    <3>2. NextBackward # None
      BY <3>1 DEF None
    <3>3. ASSUME NEW c \in Pages, Fits(c), c < near PROVE c <= alignDown(base - 1, Page)
      <4>1. c \in Nat /\ c % Page = 0
        BY DEF Pages
      <4>2. c <= base - 1
        BY <2>5, <2>9, <3>3, <4>1
      <4>. QED  BY <3>1, <4>1, <4>2, RoundedDown
    <3>. QED  BY <3>1, <3>2, <3>3
  <2>. QED  BY <2>10, <2>11
<1>. QED  BY <1>2, <1>3

LEMMA WalkOnKeeps ==
  ASSUME NInv, WalkOn
  PROVE  NInv'
<1>1. /\ outcome = "searching" /\ Choice = None
      /\ forward' = NextForward /\ backward' = NextBackward
      /\ UNCHANGED <<free, near, size>>
      /\ UNCHANGED <<placed, outcome>>
  BY DEF WalkOn
<1>2. NearTyped /\ CursorsBound /\ ForwardTried /\ BackwardTried
  BY <1>1 DEF NInv
<1>3. TryRegion(ForwardRegion) = None /\ TryRegion(BackwardRegion) = None
  BY <1>1, NoChoice
<1>4. /\ \A c : Fits(c)' <=> Fits(c)
      /\ \A q, c : Joined(q, c)' <=> Joined(q, c)
  BY <1>1, NearKept
<1>5. /\ forward' \in Nat \cup {None}
      /\ forward' # None =>
           /\ searchStart(near) <= forward' /\ forward' < searchEnd(near)
           /\ near <= forward' \/ Highest - 1 <= forward'
      /\ \A c, q \in Pages :
           Fits(c) /\ near <= c /\ near < q + Page /\ q <= c /\ Joined(q, c)
             => IF forward' = None THEN searchEnd(near) <= q ELSE alignDown(forward', Page) <= q
  BY <1>1, <1>2, <1>3, ForwardWalks
<1>6. /\ backward' \in Nat \cup {None}
      /\ backward' # None =>
           /\ searchStart(near) <= backward' /\ backward' < near
           /\ \A c \in Pages : Fits(c) /\ c < near => c <= alignDown(backward', Page)
      /\ backward' = None /\ near \in Pages =>
           ~ \E c \in Pages : Fits(c) /\ searchStart(near) <= c /\ c < near
  BY <1>1, <1>2, <1>3, BackwardWalks
<1>7. NearTyped'
  BY <1>1, <1>2, <1>5, <1>6 DEF NearTyped
<1>8. CursorsBound'
  BY <1>1, <1>5, <1>6 DEF CursorsBound
<1>9. ForwardTried'
  BY <1>1, <1>4, <1>5 DEF ForwardTried, Frontier
<1>10. BackwardTried'
  BY <1>1, <1>4, <1>6 DEF BackwardTried
<1>11. PlacedWell' /\ PageTargetsServed'
  BY <1>1 DEF PlacedWell, PageTargetsServed
<1>. QED  BY <1>7, <1>8, <1>9, <1>10, <1>11 DEF NInv

LEMMA NearStutterKeeps ==
  ASSUME NInv, UNCHANGED nearVars
  PROVE  NInv'
<1>1. UNCHANGED <<free, near, size>> /\ UNCHANGED <<forward, backward, placed, outcome>>
  BY DEF nearVars
<1>2. /\ \A c : Fits(c)' <=> Fits(c)
      /\ \A q, c : Joined(q, c)' <=> Joined(q, c)
  BY <1>1, NearKept
<1>3. NearTyped'
  BY <1>1 DEF NInv, NearTyped
<1>4. outcome = "searching" => CursorsBound' /\ ForwardTried' /\ BackwardTried'
  BY <1>1, <1>2 DEF NInv, CursorsBound, ForwardTried, BackwardTried, Frontier
<1>5. PlacedWell' /\ PageTargetsServed'
  BY <1>1, <1>2 DEF NInv, PlacedWell, PageTargetsServed, InWindow
<1>. QED  BY <1>1, <1>3, <1>4, <1>5 DEF NInv

----------------------------------------------------------------------------
(* The near allocation's theorems.                                         *)

\* Every behaviour of the near allocation keeps its inductive invariant
\* (win32_process_backend.cpp:613).
THEOREM NearInvariant == NearSpec => []NInv
<1>1. NearInit => NInv
  <2>1. SUFFICES ASSUME NearInit PROVE NInv
    OBVIOUS
  <2>2. NearTyped
    BY <2>1, NearAssumption, NearSizes DEF NearInit, NearTyped
  <2>3. PlacedWell /\ PageTargetsServed /\ outcome # "searching"
    BY <2>1 DEF NearInit, PlacedWell, PageTargetsServed
  <2>. QED  BY <2>2, <2>3 DEF NInv
<1>2. NInv /\ [NearNext]_nearVars => NInv'
  BY AllocateKeeps, PlaceKeeps, WalkOnKeeps, GiveUpKeeps, NearStutterKeeps DEF NearNext
<1>. QED  BY <1>1, <1>2, PTL DEF NearSpec

\* A block is placed where it fits, within the window and as near as can be on
\* its side of the target (win32_process_backend.cpp:274).
THEOREM NearPlacesWell == NearSpec => []PlacedWell
<1>1. NInv => PlacedWell
  BY DEF NInv
<1>. QED  BY <1>1, NearInvariant, PTL

\* For a target at the start of a page the search fails only if its window has
\* no place (win32_process_backend.cpp:640).
THEOREM NearServesPages == NearSpec => []PageTargetsServed
<1>1. NInv => PageTargetsServed
  BY DEF NInv
<1>. QED  BY <1>1, NearInvariant, PTL
=============================================================================
