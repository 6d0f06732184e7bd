------------------------- MODULE AssemblyScriptProofs -------------------------
(***************************************************************************)
(* Safety of AssemblyScript for any names, any capacity and any number of  *)
(* lines.                                                                  *)
(*                                                                         *)
(* The inductive invariant is AInv.  That a written jump lands rests on    *)
(* ExportsOpen: a label some unwritten segment is to bind has no address,  *)
(* so nothing that was written can refer to it, unless it is bound twice.  *)
(* That draining goes on to the end rests on PassedOver: as long as a pass *)
(* has written nothing, what it went past is still put off.                *)
(***************************************************************************)
EXTENDS AssemblyScript, SequenceTheorems, FiniteSetTheorems, TLAPS

\* AssemblyScriptSegment, and the addresses its jumps were given.
Results ==
  [line : 1 .. MaxLines, address : Addresses, capped : BOOLEAN,
   targets : UNION {[X -> Addresses] : X \in SUBSET Labels}, size : Nat]

\* What a line asks for after the flush.
Requests ==
  [op : {"end"}] \cup [op : {"label"}, name : Labels]
    \cup [op : {"aobScan"}, name : Scanned]
    \cup [op : {"alloc", "dealloc", "createThread"}, name : Blocks]
    \cup [op : {"start"}, name : Labels \cup Blocks \cup Sites, segment : Segments]

Runs ==
  [at : {"read", "flush", "drain", "step"} \cup Idle,
   active : Segments \cup {None}, pending : Seq(Segments), cursor : Nat,
   moved : BOOLEAN, next : Requests \cup {None}, bound : SUBSET Labels,
   result : Seq(Results), started : SUBSET Nat,
   declared : [Labels -> Nat]]

\* The line that was read begins a segment.
Opening == run.at \in {"flush", "drain", "step"} /\ run.next # None /\ run.next.op = "start"

\* A label's address is no further from its place than the lines read so far.
Near(a) == a \in Addresses => a[2] <= line

\* What a segment exports is defined in it.
Defines(s) ==
  \A i \in DOMAIN s.exports :
    \E j \in DOMAIN s.code : s.code[j] = [op |-> "define", name |-> s.exports[i]]

\* Each instruction of a segment took a line of the script.
Sound(s, n) == Defines(s) /\ s.address[2] + Size(s, Len(s.code)) <= n

Typed ==
  /\ line \in 0 .. MaxLines
  /\ labels \in [Labels -> Addresses \cup {Unbound, None}]
  /\ live \subseteq Blocks
  /\ run \in Runs
  /\ run.cursor \in 1 .. Len(run.pending) + 1
  /\ run.at \in {"drain", "step"} \cup Idle => run.active = None
  /\ \A i \in DOMAIN run.result :
       run.result[i].capped => run.result[i].size <= Capacity

Offsets ==
  /\ \A x \in Labels : Near(labels[x])
  /\ run.active # None => Sound(run.active, line)
  /\ \A i \in DOMAIN run.pending : Sound(run.pending[i], line)
  /\ Opening => Sound(run.next.segment, line)

\* No two segments, pending or written, begin at the same line.
Apart ==
  /\ \A i, j \in DOMAIN run.pending : run.pending[i].line = run.pending[j].line => i = j
  /\ \A i, j \in DOMAIN run.result : run.result[i].line = run.result[j].line => i = j
  /\ \A i \in DOMAIN run.pending, j \in DOMAIN run.result :
       run.pending[i].line # run.result[j].line
  /\ run.active # None =>
       /\ \A i \in DOMAIN run.pending : run.pending[i].line # run.active.line
       /\ \A i \in DOMAIN run.result : run.result[i].line # run.active.line

LinesOf(segments) == {segments[i].line : i \in DOMAIN segments}

Begun ==
  /\ run.started \subseteq 1 .. line
  /\ run.started = (IF run.active = None THEN {} ELSE {run.active.line})
                      \cup LinesOf(run.pending) \cup LinesOf(run.result)
  /\ Opening => run.next.segment.line = line /\ line \notin run.started
  /\ run.at = "done" =>
       /\ run.pending = <<>>
       /\ \A i \in 2 .. Len(run.result) : run.result[i - 1].line < run.result[i].line

\* A label that a segment is still to bind has no address.
OpenIn(s) ==
  \A i \in DOMAIN s.exports :
    s.exports[i] \notin run.bound \cup Scanned => labels[s.exports[i]] = Unbound

ExportsOpen ==
  /\ run.active # None => OpenIn(run.active)
  /\ \A i \in DOMAIN run.pending : OpenIn(run.pending[i])
  /\ Opening => run.next.segment.exports = <<>>

PassedOver ==
  run.at = "drain" /\ ~run.moved =>
    \A i \in 1 .. run.cursor - 1 : Deferred(run.pending[i])

TInv == Typed /\ Offsets

AInv ==
  TInv /\ Apart /\ Begun /\ ExportsOpen /\ PassedOver
    /\ DrainedToTheEnd /\ JumpsLand

USE NamesAssumption, BoundsAssumption, NoneAssumption

-----------------------------------------------------------------------------
(* Lemmas about the operators.                                             *)

LEMMA Splice ==
  ASSUME NEW S, NEW s \in Seq(S), NEW i \in 1 .. Len(s)
  PROVE  /\ RemoveAt(s, i) \in Seq(S)
         /\ Len(RemoveAt(s, i)) = Len(s) - 1
         /\ \A j \in 1 .. Len(s) - 1 :
              RemoveAt(s, i)[j] = IF j < i THEN s[j] ELSE s[j + 1]
<1> DEFINE a == SubSeq(s, 1, i - 1)
           b == SubSeq(s, i + 1, Len(s))
<1>1. a \in Seq(S) /\ Len(a) = i - 1 /\ \A j \in 1 .. i - 1 : a[j] = s[j]
  <2>1. \A j \in 1 .. i - 1 : s[j] \in S
    BY ElementOfSeq
  <2>2. QED
    BY <2>1, SubSeqProperties
<1>2. b \in Seq(S) /\ Len(b) = Len(s) - i /\ \A j \in 1 .. Len(s) - i : b[j] = s[i + j]
  <2>1. \A j \in i + 1 .. Len(s) : s[j] \in S
    BY ElementOfSeq
  <2>2. QED
    BY <2>1, SubSeqProperties
<1>3. RemoveAt(s, i) = a \o b
  BY DEF RemoveAt
<1> HIDE DEF a, b
<1>4. /\ a \o b \in Seq(S) /\ Len(a \o b) = Len(a) + Len(b)
      /\ \A j \in 1 .. Len(a) + Len(b) :
           (a \o b)[j] = IF j <= Len(a) THEN a[j] ELSE b[j - Len(a)]
  <2>1. a \in Seq(S) /\ b \in Seq(S)
    BY <1>1, <1>2
  <2>2. QED
    BY ONLY <2>1, ConcatProperties, Zenon
<1>5. Len(s) \in Nat /\ Len(a) = i - 1 /\ Len(b) = Len(s) - i
  BY <1>1, <1>2
<1>6. ASSUME NEW j \in 1 .. Len(s) - 1
      PROVE  (a \o b)[j] = IF j < i THEN s[j] ELSE s[j + 1]
  <2>1. CASE j < i
    BY <2>1, <1>1, <1>4, <1>5
  <2>2. CASE ~(j < i)
    <3>1. (a \o b)[j] = b[j - (i - 1)]
      BY <2>2, <1>4, <1>5
    <3>2. b[j - (i - 1)] = s[i + (j - (i - 1))]
      BY <2>2, <1>2, <1>5
    <3>3. i + (j - (i - 1)) = j + 1
      BY <1>5
    <3>4. QED
      BY <2>2, <3>1, <3>2, <3>3
  <2>3. QED
    BY <2>1, <2>2
<1>7. QED
  BY <1>3, <1>4, <1>5, <1>6

LEMMA Counted ==
  ASSUME NEW n \in Nat, NEW U \in SUBSET (1 .. n)
  PROVE  IsFiniteSet(U) /\ Cardinality(U) \in Nat /\ Cardinality(U) <= n
<1>1. IsFiniteSet(1 .. n) /\ Cardinality(1 .. n) = n
  BY FS_Interval
<1>2. IsFiniteSet(U) /\ Cardinality(U) <= Cardinality(1 .. n)
  BY <1>1, FS_Subset
<1>3. QED
  BY <1>1, <1>2, FS_CardinalityType

LEMMA SizeBounds ==
  ASSUME NEW s, NEW m \in Nat, NEW n \in Nat, m <= n
  PROVE  Size(s, m) \in Nat /\ Size(s, n) \in Nat /\ Size(s, m) <= Size(s, n)
<1> DEFINE U(k) == {i \in 1 .. k : Uses(s, i)}
<1>1. IsFiniteSet(1 .. n) /\ U(n) \subseteq 1 .. n /\ U(m) \subseteq U(n)
  BY FS_Interval
<1>2. IsFiniteSet(U(n)) /\ IsFiniteSet(U(m)) /\ Cardinality(U(m)) <= Cardinality(U(n))
  BY <1>1, FS_Subset
<1>3. QED
  BY <1>2, FS_CardinalityType DEF Size

LEMMA SizeGrows ==
  ASSUME NEW s, NEW t, s.code \in Seq(Lines), NEW e \in Lines,
         t.code = Append(s.code, e)
  PROVE  Size(t, Len(t.code)) <= Size(s, Len(s.code)) + 1
<1> DEFINE n == Len(s.code)
           U == {i \in 1 .. n : Uses(s, i)}
           V == {i \in 1 .. n + 1 : Uses(t, i)}
<1>1. n \in Nat /\ Len(t.code) = n + 1 /\ \A i \in 1 .. n : t.code[i] = s.code[i]
  BY AppendProperties
<1>2. V \subseteq U \cup {n + 1}
  BY <1>1 DEF Uses
<1>3. IsFiniteSet(U) /\ Cardinality(U) \in Nat
  <2>1. U \in SUBSET (1 .. n)
    OBVIOUS
  <2> HIDE DEF U
  <2>2. QED
    BY <2>1, <1>1, Counted
<1> DEFINE W == U \cup {n + 1}
<1>4. IsFiniteSet(W) /\ Cardinality(W) \in Nat /\ Cardinality(W) <= Cardinality(U) + 1
  <2>1. IsFiniteSet(W) /\ Cardinality(W) = IF n + 1 \in U THEN Cardinality(U)
                                           ELSE Cardinality(U) + 1
    BY <1>3, FS_AddElement
  <2> HIDE DEF U, W
  <2>2. QED
    BY <1>3, <2>1
<1>5. Cardinality(V) \in Nat /\ Cardinality(V) <= Cardinality(W)
  <2>1. V \in SUBSET W
    BY <1>2
  <2> HIDE DEF V, W
  <2>2. QED
    BY <2>1, <1>4, FS_Subset, FS_CardinalityType
<1>6. Size(t, Len(t.code)) = Cardinality(V) /\ Size(s, Len(s.code)) = Cardinality(U)
  BY <1>1 DEF Size
<1> HIDE DEF U, V, W
<1>7. QED
  BY <1>3, <1>4, <1>5, <1>6

LEMMA SizeAtMost ==
  ASSUME NEW s, NEW n \in Nat
  PROVE  Size(s, n) \in Nat /\ Size(s, n) <= n
<1> DEFINE U == {i \in 1 .. n : Uses(s, i)}
<1>1. U \in SUBSET (1 .. n)
  OBVIOUS
<1>2. Size(s, n) = Cardinality(U)
  BY DEF Size
<1> HIDE DEF U
<1>3. QED
  BY <1>1, <1>2, Counted

\* A segment stays sound when a line is added.
LEMMA SoundGrows ==
  ASSUME NEW s \in Segments, NEW n \in Nat, Sound(s, n),
         NEW e \in Lines, NEW t \in Segments,
         t.address = s.address, t.code = Append(s.code, e),
         \/ t.exports = s.exports
         \/ e.op = "define" /\ t.exports = Append(s.exports, e.name)
  PROVE  Sound(t, n + 1)
<1>1. s.code \in Seq(Lines) /\ s.exports \in Seq(Labels) /\ s.address \in Addresses
  BY DEF Segments
<1>2. s.address[2] \in Nat
  BY <1>1 DEF Addresses
<1>3. Len(s.code) \in Nat /\ Len(t.code) \in Nat
  BY DEF Segments
<1>4. Size(t, Len(t.code)) <= Size(s, Len(s.code)) + 1
  BY <1>1, SizeGrows
<1>5. Size(t, Len(t.code)) \in Nat /\ Size(s, Len(s.code)) \in Nat
  BY <1>3, SizeAtMost
<1>6. t.address[2] + Size(t, Len(t.code)) <= n + 1
  BY <1>2, <1>4, <1>5 DEF Sound
<1>7. Defines(t)
  <2>1. \A j \in DOMAIN s.code : j \in DOMAIN t.code /\ t.code[j] = s.code[j]
    BY <1>1, AppendProperties
  <2>2. Len(s.code) + 1 \in DOMAIN t.code /\ t.code[Len(s.code) + 1] = e
    BY <1>1, AppendProperties
  <2>3. ASSUME NEW i \in DOMAIN s.exports
        PROVE  \E j \in DOMAIN t.code :
                 t.code[j] = [op |-> "define", name |-> s.exports[i]]
    BY <2>1 DEF Sound, Defines
  <2>4. CASE t.exports = s.exports
    BY <2>3, <2>4 DEF Defines
  <2>5. CASE e.op = "define" /\ t.exports = Append(s.exports, e.name)
    <3>1. e = [op |-> "define", name |-> e.name]
      BY <2>5 DEF Lines
    <3>2. \A i \in DOMAIN t.exports :
            \/ i \in DOMAIN s.exports /\ t.exports[i] = s.exports[i]
            \/ t.exports[i] = e.name
      BY <1>1, <2>5, AppendProperties
    <3>3. QED
      BY <2>2, <2>3, <3>1, <3>2 DEF Defines
  <2>6. QED
    BY <2>4, <2>5
<1>8. QED
  BY <1>6, <1>7 DEF Sound

\* The labels a sound segment binds are addresses near enough.
LEMMA ExportsTyped ==
  ASSUME Typed, Offsets, NEW s \in Segments, Sound(s, line), BindExports(s)
  PROVE  /\ labels' \in [Labels -> Addresses \cup {Unbound, None}]
         /\ \A x \in Labels : labels'[x] \in Addresses => labels'[x][2] <= line
<1>1. labels' = [x \in Labels |-> IF x \in Exported(s) THEN LabelAddress(s, x)
                                 ELSE labels[x]]
  BY DEF BindExports
<1>2. ASSUME NEW x \in Exported(s)
      PROVE  LabelAddress(s, x) \in Addresses /\ LabelAddress(s, x)[2] <= line
  <2>1. PICK k \in DOMAIN s.exports : s.exports[k] = x
    BY DEF Exported
  <2>2. \E j \in DOMAIN s.code : s.code[j] = [op |-> "define", name |-> x]
    BY <2>1 DEF Sound, Defines
  <2> DEFINE at == CHOOSE j \in DOMAIN s.code : s.code[j] = [op |-> "define", name |-> x]
  <2>3. at \in DOMAIN s.code
    BY <2>2
  <2>4. LabelAddress(s, x) = <<s.address[1], s.address[2] + Size(s, at)>>
    BY DEF LabelAddress
  <2> HIDE DEF at
  <2>5. at \in Nat /\ Len(s.code) \in Nat /\ at <= Len(s.code)
    BY <2>3 DEF Segments
  <2>6. /\ Size(s, at) \in Nat /\ Size(s, Len(s.code)) \in Nat
        /\ Size(s, at) <= Size(s, Len(s.code))
    BY <2>5, SizeBounds
  <2>7. s.address[1] \in Blocks \cup Sites /\ s.address[2] \in Nat
    BY DEF Segments, Addresses
  <2>8. s.address[2] + Size(s, at) \in 0 .. MaxLines /\ s.address[2] + Size(s, at) <= line
    BY <2>6, <2>7 DEF Sound, Typed
  <2>9. QED
    BY <2>4, <2>7, <2>8 DEF Addresses
<1>3. QED
  BY <1>1, <1>2 DEF Typed, Offsets, Near

-----------------------------------------------------------------------------
(* Types and offsets.                                                      *)

LEMMA EmptyRun ==
  ASSUME NEW a \in {"read"} \cup Idle
  PROVE  Empty(a) \in Runs
<1>1. <<>> \in Seq(Segments) /\ <<>> \in Seq(Results)
  BY EmptySeq
<1>2. QED
  BY <1>1 DEF Runs, Empty, Idle

LEMMA InitTyped == Init => TInv
<1> SUFFICES ASSUME Init PROVE TInv
  OBVIOUS
<1>1. run = Empty("done")
  BY DEF Init
<1>2. /\ run.pending = <<>> /\ run.active = None /\ run.result = <<>> /\ run.next = None
      /\ run.cursor = 1
  BY <1>1 DEF Empty
<1>3. run \in Runs
  BY <1>1, EmptyRun DEF Idle
<1>4. Typed
  <2>1. Len(run.pending) = 0 /\ DOMAIN run.result = {}
    BY <1>2
  <2>2. run.cursor \in 1 .. Len(run.pending) + 1
    BY <1>2, <2>1
  <2>3. labels \in [Labels -> Addresses \cup {Unbound, None}] /\ live \subseteq Blocks
        /\ line \in 0 .. MaxLines
    BY DEF Init
  <2>4. QED
    BY <1>2, <1>3, <2>1, <2>2, <2>3 DEF Typed
<1>5. Offsets
  <2>1. \A x \in Labels : labels[x] \in {None, Unbound}
    BY DEF Init
  <2>2. Unbound \notin Addresses
    BY DEF Addresses, Unbound
  <2>3. QED
    BY <1>2, <2>1, <2>2 DEF Offsets, Near, Opening
<1>6. QED
  BY <1>4, <1>5 DEF TInv

\* A run begins or ends with nothing in hand.
LEMMA EmptyTyped ==
  ASSUME TInv, NEW a \in {"read"} \cup Idle, run' = Empty(a),
         line' = line \/ (line < MaxLines /\ line' = line + 1),
         live' \subseteq Blocks,
         labels' \in [Labels -> Addresses \cup {Unbound, None}],
         \A x \in Labels : labels'[x] \in Addresses => labels'[x][2] <= line
  PROVE  TInv'
<1>1. run' \in Runs
  BY EmptyRun
<1>2. /\ run'.pending = <<>> /\ run'.active = None /\ run'.result = <<>>
      /\ run'.next = None /\ run'.cursor = 1
  BY DEF Empty
<1>3. Len(run'.pending) = 0 /\ DOMAIN run'.result = {} /\ DOMAIN run'.pending = {}
  BY <1>2
<1>4. line \in 0 .. MaxLines /\ line' \in 0 .. MaxLines /\ line <= line'
  BY DEF TInv, Typed
<1>5. Typed'
  BY <1>1, <1>2, <1>3, <1>4 DEF Typed, Runs
<1>6. \A x \in Labels : labels'[x] \in Addresses => labels'[x][2] <= line'
  BY <1>4 DEF Addresses
<1>7. Offsets'
  BY <1>2, <1>3, <1>6 DEF Offsets, Near, Opening
<1>8. QED
  BY <1>5, <1>7 DEF TInv

\* What was sound stays so while lines are read.
LEMMA SoundLater ==
  ASSUME NEW s \in Segments, NEW m \in Nat, NEW n \in Nat, m <= n, Sound(s, m)
  PROVE  Sound(s, n)
<1>1. s.address[2] \in Nat /\ Len(s.code) \in Nat
  BY DEF Segments, Addresses
<1>2. Size(s, Len(s.code)) \in Nat
  BY <1>1, SizeAtMost
<1>3. QED
  BY <1>1, <1>2 DEF Sound

LEMMA ReadTyped ==
  ASSUME TInv, Read
  PROVE  TInv'
<1>1. /\ line \in 0 .. MaxLines /\ live \subseteq Blocks /\ run \in Runs
      /\ labels \in [Labels -> Addresses \cup {Unbound, None}]
      /\ run.cursor \in 1 .. Len(run.pending) + 1
      /\ \A i \in DOMAIN run.result :
           run.result[i].capped => run.result[i].size <= Capacity
  BY DEF TInv, Typed
<1>2. /\ \A x \in Labels : labels[x] \in Addresses => labels[x][2] <= line
      /\ run.active # None => Sound(run.active, line)
      /\ \A i \in DOMAIN run.pending : Sound(run.pending[i], line)
  BY DEF TInv, Offsets, Near
<1>3. ASSUME ReadLine
      PROVE  /\ line' = line + 1 /\ line' \in 1 .. MaxLines /\ line <= line'
             /\ labels' = labels /\ live' = live /\ run.at = "read"
             /\ \A x \in Labels : labels'[x] \in Addresses => labels'[x][2] <= line'
             /\ \A s \in Segments : Sound(s, line) => Sound(s, line')
  <2>1. line' = line + 1 /\ line' \in 1 .. MaxLines /\ line <= line'
        /\ labels' = labels /\ live' = live /\ run.at = "read"
    BY <1>1, <1>3 DEF ReadLine
  <2>2. \A s \in Segments : Sound(s, line) => Sound(s, line')
    BY <1>1, <2>1, SoundLater
  <2>3. \A x \in Labels : labels'[x] \in Addresses => labels'[x][2] <= line'
    BY <1>1, <1>2, <2>1 DEF Addresses
  <2>4. QED
    BY <2>1, <2>2, <2>3
<1>4. \A i \in DOMAIN run.pending : run.pending[i] \in Segments
  BY <1>1 DEF Runs
<1>5. ASSUME ReadLine, Fails
      PROVE  TInv'
  BY <1>1, <1>2, <1>3, <1>5, EmptyTyped DEF Fails, Failed, Idle
\* A line that goes into the active segment.
<1>6. ASSUME ReadLine, run.active # None, NEW t \in Segments, Sound(t, line'),
             run' = [run EXCEPT !.active = t]
      PROVE  TInv'
  <2>1. /\ run' \in Runs /\ run'.at = "read" /\ run'.active = t
        /\ run'.pending = run.pending /\ run'.cursor = run.cursor
        /\ run'.result = run.result
    BY <1>1, <1>3, <1>6 DEF Runs
  <2>2. Typed'
    BY <1>1, <1>3, <1>6, <2>1 DEF Typed, Idle
  <2>3. Offsets'
    BY <1>2, <1>3, <1>4, <1>6, <2>1 DEF Offsets, Near, Opening
  <2>4. QED
    BY <2>2, <2>3 DEF TInv
\* A line that has to wait for a flush.
<1>7. ASSUME ReadLine, NEW n \in Requests, ThenDo(n),
             n.op = "start" => Sound(n.segment, line')
      PROVE  TInv'
  <2>1. /\ run' \in Runs /\ run'.at = "flush" /\ run'.active = run.active
        /\ run'.pending = run.pending /\ run'.cursor = run.cursor
        /\ run'.result = run.result /\ run'.next = n
    BY <1>1, <1>7 DEF Runs, ThenDo
  <2>2. Typed'
    BY <1>1, <1>3, <1>7, <2>1 DEF Typed, Idle, Runs
  <2>3. run.active \in Segments \cup {None}
    BY <1>1 DEF Runs
  <2>4. Offsets'
    BY <1>2, <1>3, <1>4, <1>7, <2>1, <2>3 DEF Offsets, Near, Opening
  <2>5. QED
    BY <2>2, <2>4 DEF TInv
<1>8. ASSUME NEW x \in Labels \cup Blocks, ReadInstruction(x)
      PROVE  TInv'
  <2>1. ReadLine
    BY <1>8 DEF ReadInstruction
  <2>2. CASE run.active = None
    BY <1>5, <1>8, <2>1, <2>2 DEF ReadInstruction
  <2>3. CASE run.active # None
    <3> DEFINE s == run.active
               t == [s EXCEPT !.code = s.code \o Operation(x)]
    <3>1. s \in Segments /\ s.code \in Seq(Lines)
      BY <1>1, <2>3 DEF Runs, Segments
    <3>2. run' = [run EXCEPT !.active = t]
      BY <1>8, <2>3 DEF ReadInstruction
    <3>3. CASE x = None
      <4>1. s.code \o Operation(x) = s.code
        BY <3>1, <3>3, ConcatEmptySeq DEF Operation
      <4>2. t = s
        BY <3>1, <4>1 DEF Segments
      <4>3. QED
        BY <1>2, <1>3, <1>6, <2>1, <2>3, <3>1, <3>2, <4>2
    <3>4. CASE x # None
      <4> DEFINE e == [op |-> "use", name |-> x]
      <4>1. e \in Lines
        BY DEF Lines
      <4>2. s.code \o Operation(x) = Append(s.code, e)
        BY <3>1, <3>4, <4>1, AppendIsConcat DEF Operation
      <4>3. Append(s.code, e) \in Seq(Lines)
        BY <3>1, <4>1
      <4>4. /\ t \in Segments /\ t.address = s.address /\ t.exports = s.exports
            /\ t.code = Append(s.code, e)
        BY <3>1, <4>2, <4>3 DEF Segments
      <4>5. Sound(t, line + 1)
        <5> HIDE DEF s, t, e
        <5>1. line \in Nat
          BY <1>1
        <5>2. Sound(s, line)
          BY <1>2, <2>3 DEF s
        <5>3. QED
          BY <3>1, <4>1, <4>4, <5>1, <5>2, SoundGrows
      <4>6. QED
        BY <1>3, <1>6, <2>1, <2>3, <3>2, <4>4, <4>5
    <3>5. QED
      BY <3>3, <3>4
  <2>4. QED
    BY <2>2, <2>3
<1>9. ASSUME NEW x \in Labels \cup Blocks, ReadLabel(x)
      PROVE  TInv'
  <2>1. ReadLine /\ x \in Labels \cup Blocks
    BY <1>9 DEF ReadLabel
  <2>2. CASE run.active = None
    BY <1>5, <1>9, <2>1, <2>2 DEF ReadLabel
  <2>3. CASE run.active # None
    <3> DEFINE s == run.active
               e == [op |-> "define", name |-> x]
               more == IF Declared(x) /\ ~Contains(s.exports, x)
                       THEN Append(s.exports, x) ELSE s.exports
               t == [s EXCEPT !.code = Append(s.code, e), !.exports = more]
    <3>1. s \in Segments /\ s.code \in Seq(Lines) /\ s.exports \in Seq(Labels)
      BY <1>1, <2>3 DEF Runs, Segments
    <3>2. run' = [run EXCEPT !.active = t]
      BY <1>9, <2>3, <1>1, <3>1 DEF ReadLabel, Runs, Segments
    <3>3. e \in Lines /\ e.op = "define" /\ e.name = x
      BY DEF Lines
    <3>4. Declared(x) => x \in Labels
      BY <1>9 DEF ReadLabel, Resolves, Declared
    <3>5. /\ Append(s.code, e) \in Seq(Lines) /\ more \in Seq(Labels)
          /\ more = s.exports \/ more = Append(s.exports, x)
      BY <3>1, <3>3, <3>4
    <3>6. /\ t \in Segments /\ t.address = s.address /\ t.exports = more
          /\ t.code = Append(s.code, e)
      BY <3>1, <3>5 DEF Segments
    <3>7. Sound(t, line + 1)
      <4>1. line \in Nat
        BY <1>1
      <4>2. Sound(s, line)
        BY <1>2, <2>3
      <4> HIDE DEF s, t, e, more
      <4>3. QED
        BY <3>1, <3>3, <3>5, <3>6, <4>1, <4>2, SoundGrows
    <3>8. QED
      BY <1>3, <1>6, <2>1, <2>3, <3>2, <3>6, <3>7
  <2>4. QED
    BY <2>2, <2>3
<1>10. ASSUME NEW x \in Labels \cup Blocks \cup Sites,
              NEW rest \in Labels \cup Blocks \cup {None}, ReadTarget(x, rest)
       PROVE  TInv'
  <2> DEFINE s == [line |-> line + 1, address |-> AddressOf(x), capped |-> x \in live,
                   code |-> Operation(rest), exports |-> <<>>]
             n == [op |-> "start", name |-> x, segment |-> s]
  <2>1. ReadLine /\ ThenDo(n) /\ Resolves(x)
    BY <1>10 DEF ReadTarget
  <2>2. AddressOf(x) \in Addresses /\ AddressOf(x)[2] <= line
    <3>1. CASE x \in Labels
      BY <1>1, <1>2, <2>1, <3>1 DEF Resolves, AddressOf
    <3>2. CASE x \notin Labels
      BY <1>1, <3>2 DEF AddressOf, Addresses
    <3>3. QED
      BY <3>1, <3>2
  <2>3. /\ Operation(rest) \in Seq(Lines)
        /\ Len(Operation(rest)) \in Nat /\ Len(Operation(rest)) <= 1
    <3>1. CASE rest = None
      BY <3>1, EmptySeq DEF Operation
    <3>2. CASE rest # None
      <4>1. [op |-> "use", name |-> rest] \in Lines
        BY <3>2 DEF Lines
      <4>2. QED
        BY <3>2, <4>1 DEF Operation
    <3>3. QED
      BY <3>1, <3>2
  <2>4. s \in Segments /\ n \in Requests
    <3>1. line + 1 \in 1 .. MaxLines /\ <<>> \in Seq(Labels)
      BY <1>1, <1>3, <2>1, EmptySeq
    <3>2. s \in Segments
      BY <2>2, <2>3, <3>1 DEF Segments
    <3> HIDE DEF s
    <3>3. QED
      BY <3>2 DEF Requests
  <2>5. Sound(s, line')
    <3>1. Size(s, Len(s.code)) \in Nat /\ Size(s, Len(s.code)) <= 1
      <4>1. s.code = Operation(rest)
        OBVIOUS
      <4> HIDE DEF s
      <4>2. Len(s.code) \in Nat /\ Len(s.code) <= 1
        BY ONLY <2>3, <4>1, Zenon
      <4>3. QED
        BY <4>2, SizeAtMost
    <3>2. Defines(s)
      BY DEF Defines
    <3>3. s.address[2] \in Nat /\ s.address[2] <= line /\ line' = line + 1
      BY <1>1, <1>3, <2>1, <2>2 DEF Addresses
    <3> HIDE DEF s
    <3>4. QED
      BY <1>1, <3>1, <3>2, <3>3 DEF Sound
  <2>6. n.segment = s
    OBVIOUS
  <2> HIDE DEF s, n
  <2>7. QED
    BY <1>7, <2>1, <2>4, <2>5, <2>6
<1>11. ASSUME NEW op, NEW x, ReadDirective(op, x), [op |-> op, name |-> x] \in Requests,
              op # "start"
       PROVE  TInv'
  BY <1>7, <1>11 DEF ReadDirective
<1>12. ASSUME EndOfScript
       PROVE  TInv'
  <2> DEFINE n == [op |-> "end"]
  <2>1. n \in Requests /\ n.op = "end"
    BY DEF Requests
  <2> HIDE DEF n
  <2>2. /\ run' \in Runs /\ run'.at = "flush" /\ run'.active = run.active
        /\ run'.pending = run.pending /\ run'.cursor = run.cursor
        /\ run'.result = run.result /\ run'.next = n
    BY <1>1, <1>12, <2>1 DEF Runs, ThenDo, EndOfScript, n
  <2>3. Typed'
    BY <1>1, <1>12, <2>2 DEF Typed, Idle, EndOfScript
  <2>4. Offsets'
    BY <1>2, <1>12, <2>1, <2>2 DEF Offsets, Near, Opening, EndOfScript
  <2>5. QED
    BY <2>3, <2>4 DEF TInv
<1>13. /\ \A x \in Labels : [op |-> "label", name |-> x] \in Requests
       /\ \A x \in Scanned : [op |-> "aobScan", name |-> x] \in Requests
       /\ \A x \in Blocks, op \in {"alloc", "dealloc", "createThread"} :
            [op |-> op, name |-> x] \in Requests
  BY DEF Requests
<1>14. QED
  BY <1>8, <1>9, <1>10, <1>11, <1>12, <1>13 DEF Read

\* The segment that is tried is the active or a pending one.
LEMMA AttemptHeld ==
  ASSUME TInv, Trying
  PROVE  /\ Attempt \in Segments /\ Sound(Attempt, line)
         /\ \/ run.at = "flush" /\ run.active # None /\ Attempt = run.active
            \/ /\ run.at = "drain" /\ run.active = None
               /\ run.cursor \in 1 .. Len(run.pending)
               /\ run.cursor \in DOMAIN run.pending
               /\ Attempt = run.pending[run.cursor]
<1>1. /\ run \in Runs /\ run.cursor \in 1 .. Len(run.pending) + 1
      /\ run.at = "drain" => run.active = None
      /\ run.active # None => Sound(run.active, line)
      /\ \A i \in DOMAIN run.pending : Sound(run.pending[i], line)
  BY DEF TInv, Typed, Offsets
<1>2. /\ run.active \in Segments \cup {None} /\ run.pending \in Seq(Segments)
      /\ run.cursor \in Nat
  BY <1>1 DEF Runs
<1>3. CASE run.at = "flush" /\ run.active # None
  BY <1>1, <1>2, <1>3 DEF Attempt
<1>4. CASE run.at = "drain" /\ run.cursor <= Len(run.pending)
  <2>1. run.cursor \in 1 .. Len(run.pending) /\ run.cursor \in DOMAIN run.pending
    BY <1>1, <1>2, <1>4
  <2>2. Attempt = run.pending[run.cursor] /\ run.pending[run.cursor] \in Segments
    BY <1>2, <1>4, <2>1 DEF Attempt
  <2>3. QED
    BY <1>1, <1>4, <2>1, <2>2
<1>5. QED
  BY <1>3, <1>4 DEF Trying

\* The sequence of the pending segments after one was written.
LEMMA PendingAfter ==
  ASSUME run \in Runs, NEW k \in 1 .. Len(run.pending)
  PROVE  /\ RemoveAt(run.pending, k) \in Seq(Segments)
         /\ Len(RemoveAt(run.pending, k)) = Len(run.pending) - 1
         /\ \A i \in DOMAIN RemoveAt(run.pending, k) :
              \/ /\ i < k /\ i \in DOMAIN run.pending
                 /\ RemoveAt(run.pending, k)[i] = run.pending[i]
              \/ /\ ~(i < k) /\ i + 1 \in DOMAIN run.pending /\ i + 1 # k
                 /\ RemoveAt(run.pending, k)[i] = run.pending[i + 1]
<1>1. run.pending \in Seq(Segments)
  BY DEF Runs
<1>2. /\ RemoveAt(run.pending, k) \in Seq(Segments)
      /\ Len(RemoveAt(run.pending, k)) = Len(run.pending) - 1
      /\ \A j \in 1 .. Len(run.pending) - 1 :
           RemoveAt(run.pending, k)[j] =
             IF j < k THEN run.pending[j] ELSE run.pending[j + 1]
  BY <1>1, Splice
<1>3. Len(run.pending) \in Nat
  BY <1>1
<1>4. QED
  BY <1>1, <1>2, <1>3

LEMMA PendingLeft ==
  ASSUME run \in Runs, NEW k \in 1 .. Len(run.pending)
  PROVE  \A i \in DOMAIN RemoveAt(run.pending, k) :
           \E j \in DOMAIN run.pending :
             j # k /\ RemoveAt(run.pending, k)[i] = run.pending[j]
<1> DEFINE left == RemoveAt(run.pending, k)
<1>1. \A i \in DOMAIN left :
        \/ i < k /\ i \in DOMAIN run.pending /\ left[i] = run.pending[i]
        \/ /\ ~(i < k) /\ i + 1 \in DOMAIN run.pending /\ i + 1 # k
           /\ left[i] = run.pending[i + 1]
  BY PendingAfter
<1>2. k \in Nat /\ DOMAIN run.pending \subseteq Nat
  <2>1. run.pending \in Seq(Segments)
    BY DEF Runs
  <2>2. QED
    BY <2>1
<1> HIDE DEF left
<1>3. ASSUME NEW i \in DOMAIN left
      PROVE  \E j \in DOMAIN run.pending : j # k /\ left[i] = run.pending[j]
  <2>1. CASE i < k /\ i \in DOMAIN run.pending /\ left[i] = run.pending[i]
    BY <1>2, <2>1
  <2>2. CASE i + 1 \in DOMAIN run.pending /\ i + 1 # k /\ left[i] = run.pending[i + 1]
    BY <2>2
  <2>3. QED
    BY <1>1, <2>1, <2>2
<1>4. QED
  BY <1>3 DEF left

\* What a written segment leaves in the result.
ResultOf(s) ==
  [line |-> s.line, address |-> s.address, capped |-> s.capped,
   targets |-> Targets(s), size |-> Size(s, Len(s.code))]

LEMMA ResultTyped ==
  ASSUME TInv, NEW s \in Segments, Assembles(s)
  PROVE  /\ ResultOf(s) \in Results
         /\ ResultOf(s).capped => ResultOf(s).size <= Capacity
         /\ \A x \in DOMAIN Targets(s) :
              x \in Labels /\ Targets(s)[x] = labels[x] /\ labels[x] # Unbound
<1>1. s.code \in Seq(Lines) /\ Len(s.code) \in Nat
  BY DEF Segments
<1>2. Size(s, Len(s.code)) \in Nat
  BY <1>1, SizeAtMost
<1>3. \A i \in DOMAIN s.code : ~Redefines(s, i) /\ ~IsStuck(s, i)
  <2>1. \A i \in DOMAIN s.code : ~Redefines(s, i)
    BY DEF Assembles, Rejected
  <2>2. \A i \in DOMAIN s.code : \A j \in 1 .. i - 1 : j \in DOMAIN s.code
    BY <1>1
  <2>3. QED
    BY <2>1, <2>2 DEF Assembles, Deferred
<1>4. \A x \in DOMAIN Targets(s) :
        /\ x \in Labels /\ Targets(s)[x] = labels[x] /\ labels[x] # Unbound
        /\ labels[x] # None
  BY <1>3 DEF Targets, IsStuck
<1>5. labels \in [Labels -> Addresses \cup {Unbound, None}]
  BY DEF TInv, Typed
<1>6. Targets(s) \in UNION {[X -> Addresses] : X \in SUBSET Labels}
  <2> DEFINE X == {s.code[i].name : i \in {j \in DOMAIN s.code : Unknown(s, j)}}
                     \cap {y \in Labels : labels[y] # None}
  <2>1. Targets(s) = [x \in X |-> labels[x]]
    BY DEF Targets
  <2> HIDE DEF X
  <2>2. DOMAIN Targets(s) = X
    BY <2>1
  <2>3. Targets(s) \in [X -> Addresses]
    BY <1>4, <1>5, <2>1, <2>2
  <2>4. X \in SUBSET Labels
    BY <1>4, <2>2
  <2>5. QED
    BY <2>3, <2>4
<1>7. ResultOf(s) \in Results
  BY <1>2, <1>6 DEF ResultOf, Results, Segments
<1>8. s.capped => Size(s, Len(s.code)) <= Capacity
  BY <1>2 DEF Assembles, Rejected, Overflows
<1>9. QED
  BY <1>4, <1>7, <1>8 DEF ResultOf

\* The fields of run after a segment was written.
Written(s) ==
  /\ run'.bound = run.bound \cup Exported(s)
  /\ run'.result = Append(run.result, ResultOf(s))
  /\ run'.started = run.started /\ run'.declared = run.declared
  /\ run'.next = run.next /\ run'.at = "drain" /\ run'.active = None
  /\ \/ /\ run.at = "flush" /\ s = run.active /\ run.active # None
        /\ run'.pending = run.pending /\ run'.cursor = 1
     \/ /\ run.at = "drain" /\ run.cursor \in 1 .. Len(run.pending)
        /\ run.active = None
        /\ s = run.pending[run.cursor]
        /\ run'.pending = RemoveAt(run.pending, run.cursor)
        /\ run'.cursor = run.cursor /\ run'.moved = TRUE

LEMMA CompleteWrites ==
  ASSUME TInv, Complete
  PROVE  /\ Attempt \in Segments /\ Sound(Attempt, line) /\ Assembles(Attempt)
         /\ Clashes(Attempt) = {} /\ BindExports(Attempt)
         /\ live' = live /\ line' = line
         /\ run' \in Runs /\ Written(Attempt)
<1> DEFINE s == Attempt
<1>1. /\ Trying /\ Assembles(s) /\ Clashes(s) = {} /\ BindExports(s)
      /\ live' = live /\ line' = line
      /\ run' = IF run.at = "flush"
                THEN StartDrain([Completed(s) EXCEPT !.active = None])
                ELSE [Completed(s) EXCEPT !.pending = RemoveAt(@, run.cursor),
                                          !.moved = TRUE]
  BY DEF Complete
<1>2. s \in Segments /\ Sound(s, line)
  BY <1>1, AttemptHeld
<1>3. \/ run.at = "flush" /\ run.active # None /\ s = run.active
      \/ /\ run.at = "drain" /\ run.active = None
         /\ run.cursor \in 1 .. Len(run.pending)
         /\ s = run.pending[run.cursor]
  BY <1>1, AttemptHeld
<1> HIDE DEF s
<1>4. run \in Runs
  BY DEF TInv, Typed
<1>5. ResultOf(s) \in Results
  BY <1>1, <1>2, ResultTyped
<1>6. Append(run.result, ResultOf(s)) \in Seq(Results)
  BY <1>4, <1>5 DEF Runs
<1>7. Exported(s) \subseteq Labels
  BY <1>2 DEF Exported, Segments
<1> DEFINE c == Completed(s)
<1>8. /\ c \in Runs /\ c.at = run.at /\ c.active = run.active
      /\ c.pending = run.pending /\ c.cursor = run.cursor /\ c.moved = run.moved
      /\ c.next = run.next /\ c.bound = run.bound \cup Exported(s)
      /\ c.result = Append(run.result, ResultOf(s))
      /\ c.started = run.started /\ c.declared = run.declared
  BY <1>4, <1>6, <1>7 DEF Completed, ResultOf, Runs
<1> HIDE DEF c
<1>9. CASE run.at = "flush"
  <2> DEFINE r == [c EXCEPT !.active = None]
  <2>1. run' = StartDrain(r)
    BY <1>1, <1>9 DEF c
  <2>2. /\ r \in Runs /\ r.active = None /\ r.pending = c.pending /\ r.next = c.next
        /\ r.bound = c.bound /\ r.result = c.result /\ r.started = c.started
        /\ r.declared = c.declared
    BY <1>8 DEF Runs
  <2> HIDE DEF r
  <2>3. /\ run' \in Runs /\ run'.at = "drain" /\ run'.active = None
        /\ run'.pending = run.pending /\ run'.cursor = 1 /\ run'.next = run.next
        /\ run'.bound = c.bound /\ run'.result = c.result
        /\ run'.started = run.started /\ run'.declared = run.declared
    BY <1>8, <2>1, <2>2 DEF StartDrain, Runs
  <2>4. QED
    BY <1>1, <1>2, <1>3, <1>8, <1>9, <2>3 DEF Written, s
<1>10. CASE run.at # "flush"
  <2>1. RemoveAt(run.pending, run.cursor) \in Seq(Segments)
    BY <1>3, <1>4, <1>10, PendingAfter
  <2>2. run' = [c EXCEPT !.pending = RemoveAt(run.pending, run.cursor), !.moved = TRUE]
    BY <1>1, <1>8, <1>10 DEF c
  <2>3. QED
    BY <1>1, <1>2, <1>3, <1>8, <1>10, <2>1, <2>2 DEF Runs, Written, s
<1>11. QED
  BY <1>9, <1>10

-----------------------------------------------------------------------------
(* The shapes a step has: what the invariant needs to know of each action. *)

Kept ==
  run'.result = run.result /\ run'.started = run.started /\ run'.bound = run.bound

Still == Kept /\ run'.declared = run.declared /\ labels' = labels

\* A run begins, or ends with an exception.
Resets == \E a \in {"read"} \cup Idle : run' = Empty(a)

\* A line goes into the active segment.
Extends ==
  /\ run.at = "read" /\ run'.at = "read" /\ Still /\ line' = line + 1
  /\ run'.pending = run.pending
  /\ run.active # None /\ run'.active # None /\ run'.active.line = run.active.line
  /\ \A i \in DOMAIN run'.active.exports :
       \/ /\ i \in DOMAIN run.active.exports
          /\ run'.active.exports[i] = run.active.exports[i]
       \/ labels[run'.active.exports[i]] = Unbound

\* A line, or the end of the script, asks for a flush.
Asks ==
  /\ run.at = "read" /\ run'.at = "flush" /\ Still /\ line \in 0 .. line'
  /\ run'.pending = run.pending /\ run'.active = run.active
  /\ run'.next.op = "start" =>
       /\ line' = line + 1 /\ run'.next.segment.line = line'
       /\ run'.next.segment.exports = <<>>

\* A pass over the pending segments begins.
Drains ==
  /\ run'.at = "drain" /\ run'.cursor = 1 /\ run'.moved = FALSE
  /\ Kept /\ run'.pending = run.pending /\ line' = line
  /\ run.active = None /\ run'.active = None
  /\ \/ /\ run'.next = run.next /\ run.at \in {"flush", "drain"}
        /\ labels' = labels /\ run'.declared = run.declared
     \/ /\ run'.next = None /\ labels' = labels /\ run'.declared = run.declared
     \/ /\ run'.next = None
        /\ \E x \in Labels : /\ labels' = [labels EXCEPT ![x] = Unbound]
                             /\ run'.declared = [run.declared EXCEPT ![x] = line]
     \/ /\ run'.next = None /\ run'.declared = run.declared
        /\ \E x \in Scanned, a \in Addresses : labels' = [labels EXCEPT ![x] = a]

\* The active segment is put off.
PutsOff ==
  /\ run.at = "flush" /\ run'.at = "drain" /\ run'.cursor = 1 /\ run'.moved = FALSE
  /\ Still /\ line' = line /\ run'.next = run.next
  /\ run.active # None /\ run'.active = None
  /\ run'.pending = Append(run.pending, run.active)

\* A pending segment is put off again.
Passes ==
  /\ run.at = "drain" /\ run'.at = "drain" /\ Deferred(run.pending[run.cursor])
  /\ run.cursor \in 1 .. Len(run.pending)
  /\ run'.cursor = run.cursor + 1 /\ run'.moved = run.moved
  /\ Still /\ line' = line /\ run'.next = run.next
  /\ run.active = None /\ run'.active = None /\ run'.pending = run.pending

\* A segment is written.
Writes(s) ==
  /\ s \in Segments /\ Sound(s, line) /\ Assembles(s) /\ Clashes(s) = {}
  /\ BindExports(s) /\ line' = line /\ Written(s)

\* Nothing pending can be written any more.
Settles ==
  /\ run.at = "drain" /\ run.cursor > Len(run.pending) /\ ~run.moved
  /\ run'.at = "step" /\ Still /\ line' = line /\ run'.next = run.next
  /\ run.active = None /\ run'.active = None
  /\ run'.pending = run.pending /\ run'.cursor = run.cursor

\* A segment becomes the active one.
Opens ==
  /\ run.at = "step" /\ Opening /\ run'.at = "read" /\ line' = line
  /\ run'.result = run.result /\ run'.bound = run.bound
  /\ run'.declared = run.declared /\ labels' = labels
  /\ run.active = None /\ run'.active = run.next.segment /\ run'.active # None
  /\ run'.started = run.started \cup {run.next.segment.line}
  /\ run'.pending = run.pending /\ run'.cursor = run.cursor

Resumes ==
  /\ run.at = "step" /\ run'.at = "read" /\ Still /\ line' = line
  /\ run.active = None /\ run'.active = None
  /\ run'.pending = run.pending /\ run'.cursor = run.cursor

\* The result is sorted.
Finishes ==
  /\ run.at = "step" /\ run'.at = "done" /\ labels' = labels /\ line' = line
  /\ run'.started = run.started /\ run'.bound = run.bound
  /\ run'.declared = run.declared
  /\ run.active = None /\ run'.active = None
  /\ run.pending = <<>> /\ run'.pending = <<>> /\ run'.cursor = run.cursor
  /\ DOMAIN run'.result = DOMAIN run.result
  /\ \E order \in Bijection(DOMAIN run.result, DOMAIN run.result) :
       \A i \in DOMAIN run.result : run'.result[i] = run.result[order[i]]
  /\ \A i, j \in DOMAIN run.result :
       i < j => run'.result[i].line <= run'.result[j].line

Shape ==
  \/ Resets \/ Extends \/ Asks \/ Drains \/ PutsOff \/ Passes
  \/ Settles \/ Opens \/ Resumes \/ Finishes
  \/ \E s \in Segments : Writes(s)

LEMMA DrainStarts ==
  ASSUME NEW r \in Runs, r.active = None
  PROVE  /\ StartDrain(r) \in Runs /\ StartDrain(r).active = None
         /\ StartDrain(r).at = "drain" /\ StartDrain(r).cursor = 1
         /\ StartDrain(r).moved = FALSE /\ StartDrain(r).next = r.next
         /\ StartDrain(r).pending = r.pending /\ StartDrain(r).result = r.result
         /\ StartDrain(r).started = r.started /\ StartDrain(r).bound = r.bound
         /\ StartDrain(r).declared = r.declared
  BY DEF StartDrain, Runs

\* A step of a shape keeps types if its new run is one.
LEMMA Keeps ==
  ASSUME TInv, run' \in Runs, line' = line, live' \subseteq Blocks,
         labels' \in [Labels -> Addresses \cup {Unbound, None}],
         \A x \in Labels : labels'[x] \in Addresses => labels'[x][2] <= line,
         run'.result = run.result,
         run'.cursor \in 1 .. Len(run'.pending) + 1,
         run'.at \in {"drain", "step"} \cup Idle => run'.active = None,
         run'.active # None => Sound(run'.active, line),
         \A i \in DOMAIN run'.pending : Sound(run'.pending[i], line),
         Opening' => run'.next = run.next /\ Opening
  PROVE  TInv'
<1>1. Typed'
  BY DEF TInv, Typed
<1>2. Offsets'
  BY DEF TInv, Offsets, Near, Opening
<1>3. QED
  BY <1>1, <1>2 DEF TInv

LEMMA TryShape ==
  ASSUME TInv, Try
  PROVE  TInv' /\ Shape
<1>1. /\ line \in 0 .. MaxLines /\ live \subseteq Blocks /\ run \in Runs
      /\ labels \in [Labels -> Addresses \cup {Unbound, None}]
      /\ run.cursor \in 1 .. Len(run.pending) + 1
      /\ run.at \in {"drain", "step"} \cup Idle => run.active = None
      /\ \A i \in DOMAIN run.result :
           run.result[i].capped => run.result[i].size <= Capacity
  BY DEF TInv, Typed
<1>2. /\ \A x \in Labels : labels[x] \in Addresses => labels[x][2] <= line
      /\ run.active # None => Sound(run.active, line)
      /\ \A i \in DOMAIN run.pending : Sound(run.pending[i], line)
  BY DEF TInv, Offsets, Near
<1>3. 1 \in 1 .. Len(run.pending) + 1
  BY <1>1 DEF Runs
<1>4. CASE FlushNothing
  <2>1. /\ run.at = "flush" /\ run.active = None /\ run' = StartDrain(run)
        /\ labels' = labels /\ live' = live /\ line' = line
    BY <1>4 DEF FlushNothing
  <2>2. Drains /\ run' \in Runs
    BY <1>1, <2>1, DrainStarts DEF Drains, Kept
  <2>3. TInv'
    BY <1>1, <1>2, <1>3, <2>1, <2>2, Keeps DEF Drains, Kept, Opening
  <2>4. QED
    BY <2>2, <2>3 DEF Shape
<1>5. CASE PassEnds
  <2>1. /\ run.at = "drain" /\ run.cursor > Len(run.pending) /\ run.active = None
        /\ run' = IF run.moved THEN StartDrain(run) ELSE [run EXCEPT !.at = "step"]
        /\ labels' = labels /\ live' = live /\ line' = line
    BY <1>1, <1>5 DEF PassEnds, Passed
  <2>2. CASE run.moved
    <3>1. Drains /\ run' \in Runs
      BY <1>1, <2>1, <2>2, DrainStarts DEF Drains, Kept
    <3>2. TInv'
      BY <1>1, <1>2, <1>3, <2>1, <3>1, Keeps DEF Drains, Kept, Opening
    <3>3. QED
      BY <3>1, <3>2 DEF Shape
  <2>3. CASE ~run.moved
    <3>1. Settles /\ run' \in Runs
      BY <1>1, <2>1, <2>3 DEF Settles, Still, Kept, Runs
    <3>2. TInv'
      BY <1>1, <1>2, <2>1, <3>1, Keeps DEF Settles, Still, Kept, Opening
    <3>3. QED
      BY <3>1, <3>2 DEF Shape
  <2>4. QED
    BY <2>2, <2>3
<1>6. CASE AttemptFails
  <2>1. run' = Empty("failed") /\ labels' = labels /\ live' = live /\ line' = line
    BY <1>6 DEF AttemptFails, Fails, Failed
  <2>2. QED
    BY <1>1, <1>2, <2>1, EmptyTyped DEF Idle, Shape, Resets
<1>7. CASE DefinedTwice
  <2>1. /\ run' = Empty("failed") /\ live' = live /\ line' = line
        /\ BindExports(Attempt) /\ Trying
    BY <1>7 DEF DefinedTwice, Fails, Failed
  <2>2. /\ labels' \in [Labels -> Addresses \cup {Unbound, None}]
        /\ \A x \in Labels : labels'[x] \in Addresses => labels'[x][2] <= line
    BY <2>1, AttemptHeld, ExportsTyped DEF TInv
  <2>3. QED
    BY <1>1, <2>1, <2>2, EmptyTyped DEF Idle, Shape, Resets
<1>8. CASE PutOff
  <2>1. /\ Trying /\ Deferred(Attempt)
        /\ run' = IF run.at = "flush"
                  THEN StartDrain([run EXCEPT !.pending = Append(@, run.active),
                                              !.active = None])
                  ELSE [run EXCEPT !.cursor = @ + 1]
        /\ labels' = labels /\ live' = live /\ line' = line
    BY <1>8 DEF PutOff
  <2>2. CASE run.at = "flush"
    <3> DEFINE r == [run EXCEPT !.pending = Append(run.pending, run.active),
                                !.active = None]
    <3>1. run.active # None /\ run.active \in Segments /\ run.pending \in Seq(Segments)
      BY <1>1, <2>1, <2>2, AttemptHeld
         DEF Runs
    <3>2. Append(run.pending, run.active) \in Seq(Segments)
      BY <3>1
    <3>3. /\ r \in Runs /\ r.active = None /\ r.next = run.next
          /\ r.pending = Append(run.pending, run.active) /\ r.result = run.result
          /\ r.started = run.started /\ r.bound = run.bound
          /\ r.declared = run.declared
      BY <1>1, <3>2 DEF Runs
    <3>4. run' = StartDrain(r)
      BY <2>1, <2>2
    <3> HIDE DEF r
    <3>5. run' \in Runs /\ PutsOff
      BY <2>1, <2>2, <3>1, <3>3, <3>4, DrainStarts DEF PutsOff, Still, Kept
    <3>6. /\ 1 \in 1 .. Len(run'.pending) + 1
          /\ \A i \in DOMAIN run'.pending :
               \/ i \in DOMAIN run.pending /\ run'.pending[i] = run.pending[i]
               \/ run'.pending[i] = run.active
      BY <3>1, <3>5, AppendProperties DEF PutsOff
    <3>7. TInv'
      BY <1>1, <1>2, <2>1, <2>2, <3>1, <3>5, <3>6, Keeps
         DEF PutsOff, Still, Kept, Opening
    <3>8. QED
      BY <3>5, <3>7 DEF Shape
  <2>3. CASE run.at # "flush"
    <3>1. /\ run.at = "drain" /\ run.active = None
          /\ run.cursor \in 1 .. Len(run.pending)
          /\ Attempt = run.pending[run.cursor]
      BY <2>1, <2>3, AttemptHeld
    <3> DEFINE r == [run EXCEPT !.cursor = run.cursor + 1]
    <3>a. /\ r \in Runs /\ r.at = "drain" /\ r.active = None /\ r.next = run.next
          /\ r.pending = run.pending /\ r.result = run.result
          /\ r.started = run.started /\ r.bound = run.bound /\ r.moved = run.moved
          /\ r.declared = run.declared /\ r.cursor = run.cursor + 1
      <4>1. run \in Runs /\ run.cursor + 1 \in Nat
        BY <1>1, <3>1
      <4>2. r \in Runs
        BY <4>1 DEF Runs
      <4>3. QED
        BY <3>1, <4>1, <4>2 DEF Runs
    <3>b. run' = r
      BY <2>1, <2>3
    <3> HIDE DEF r
    <3>c. Deferred(run.pending[run.cursor])
      BY <2>1, <3>1
    <3>2. run' \in Runs /\ Passes
      BY <2>1, <3>1, <3>a, <3>b, <3>c DEF Passes, Still, Kept
    <3>3. TInv'
      BY <1>1, <1>2, <2>1, <3>1, <3>2, Keeps DEF Passes, Still, Kept, Opening
    <3>4. QED
      BY <3>2, <3>3 DEF Shape
  <2>4. QED
    BY <2>2, <2>3
<1>9. CASE Complete
  <2> DEFINE s == Attempt
  <2>1. /\ s \in Segments /\ Sound(s, line) /\ Assembles(s) /\ Clashes(s) = {}
        /\ BindExports(s) /\ live' = live /\ line' = line
        /\ run' \in Runs /\ Written(s)
    BY <1>9, CompleteWrites
  <2> HIDE DEF s
  <2>2. Writes(s)
    BY <2>1 DEF Writes
  <2>3. /\ labels' \in [Labels -> Addresses \cup {Unbound, None}]
        /\ \A x \in Labels : labels'[x] \in Addresses => labels'[x][2] <= line
    BY <2>1, ExportsTyped DEF TInv
  <2>4. /\ run'.active = None /\ run'.next = run.next /\ run'.at = "drain"
        /\ run'.result = Append(run.result, ResultOf(s))
        /\ run.at \in {"flush", "drain"}
    BY <2>1 DEF Written
  <2>5. /\ run'.cursor \in 1 .. Len(run'.pending) + 1
        /\ \A i \in DOMAIN run'.pending : Sound(run'.pending[i], line)
    <3>1. CASE run'.pending = run.pending /\ run'.cursor = 1
      BY <1>2, <1>3, <3>1
    <3>2. CASE /\ run.cursor \in 1 .. Len(run.pending)
               /\ run'.pending = RemoveAt(run.pending, run.cursor)
               /\ run'.cursor = run.cursor
      <4>1. /\ Len(run.pending) \in Nat
            /\ Len(RemoveAt(run.pending, run.cursor)) = Len(run.pending) - 1
        BY <1>1, <3>2, PendingAfter DEF Runs
      <4>2. \A i \in DOMAIN run'.pending : Sound(run'.pending[i], line)
        <5> DEFINE left == RemoveAt(run.pending, run.cursor)
        <5>1. \A i \in DOMAIN left : \E j \in DOMAIN run.pending : left[i] = run.pending[j]
          BY <1>1, <3>2, PendingAfter
        <5>2. run'.pending = left
          BY <3>2
        <5> HIDE DEF left
        <5>3. QED
          BY <1>2, <5>1, <5>2
      <4>3. Len(run'.pending) = Len(run.pending) - 1
        BY <3>2, <4>1
      <4>4. run'.cursor \in 1 .. Len(run'.pending) + 1
        BY <3>2, <4>1, <4>3
      <4>5. QED
        BY <4>2, <4>4
    <3>3. QED
      BY <2>1, <3>1, <3>2 DEF Written
  <2>6. \A i \in DOMAIN run'.result :
          run'.result[i].capped => run'.result[i].size <= Capacity
    <3>1. run.result \in Seq(Results)
      BY <1>1 DEF Runs
    <3>2. ResultOf(s) \in Results /\ (ResultOf(s).capped => ResultOf(s).size <= Capacity)
      BY <2>1, ResultTyped
    <3>3. \A i \in DOMAIN run'.result :
            \/ i \in DOMAIN run.result /\ run'.result[i] = run.result[i]
            \/ run'.result[i] = ResultOf(s)
      BY <2>4, <3>1, <3>2, AppendProperties
    <3>4. QED
      BY <1>1, <3>2, <3>3
  <2>7. Typed'
    BY <1>1, <2>1, <2>3, <2>4, <2>5, <2>6 DEF Typed
  <2>8. Opening' => Opening /\ run'.next = run.next
    BY <2>4 DEF Opening
  <2>9. Offsets'
    BY <2>1, <2>3, <2>4, <2>5, <2>8 DEF TInv, Offsets, Near
  <2>10. QED
    BY <2>1, <2>2, <2>7, <2>9 DEF TInv, Shape
<1>10. QED
  BY <1>4, <1>5, <1>6, <1>7, <1>8, <1>9 DEF Try

LEMMA ReadShape ==
  ASSUME TInv, Read
  PROVE  Shape
<1>1. line \in 0 .. MaxLines /\ run \in Runs
  BY DEF TInv, Typed
<1>2. ASSUME ReadLine
      PROVE  /\ line' = line + 1 /\ labels' = labels /\ run.at = "read"
             /\ line \in 0 .. line'
  BY <1>1, <1>2 DEF ReadLine
<1>3. ASSUME Fails
      PROVE  Shape
  BY <1>3 DEF Fails, Failed, Idle, Shape, Resets
\* The new line of the active segment exports an open label, if anything.
<1>4. ASSUME ReadLine, run.active # None, NEW t \in Segments,
             t.line = run.active.line, run' = [run EXCEPT !.active = t],
             \A i \in DOMAIN t.exports :
               \/ i \in DOMAIN run.active.exports /\ t.exports[i] = run.active.exports[i]
               \/ labels[t.exports[i]] = Unbound
      PROVE  Shape
  <2>1. /\ run'.at = "read" /\ run'.active = t /\ run'.pending = run.pending
        /\ run'.result = run.result /\ run'.started = run.started
        /\ run'.bound = run.bound /\ run'.declared = run.declared
    BY <1>1, <1>2, <1>4 DEF Runs
  <2>2. Extends
    BY <1>2, <1>4, <2>1 DEF Extends, Still, Kept
  <2>3. QED
    BY <2>2 DEF Shape
<1>5. ASSUME run.at = "read", labels' = labels, line \in 0 .. line', NEW n, ThenDo(n),
             n.op = "start" => /\ line' = line + 1 /\ n.segment.line = line'
                               /\ n.segment.exports = <<>>
      PROVE  Shape
  <2>1. /\ run'.at = "flush" /\ run'.active = run.active /\ run'.pending = run.pending
        /\ run'.result = run.result /\ run'.started = run.started
        /\ run'.bound = run.bound /\ run'.declared = run.declared /\ run'.next = n
    BY <1>1, <1>5 DEF Runs, ThenDo
  <2>2. Asks
    BY <1>5, <2>1 DEF Asks, Still, Kept
  <2>3. QED
    BY <2>2 DEF Shape
<1>6. ASSUME NEW x \in Labels \cup Blocks, ReadInstruction(x)
      PROVE  Shape
  <2>1. CASE run.active = None
    BY <1>3, <1>6, <2>1 DEF ReadInstruction
  <2>2. CASE run.active # None
    <3> DEFINE s == run.active
               t == [s EXCEPT !.code = s.code \o Operation(x)]
    <3>1. s \in Segments /\ s.code \in Seq(Lines)
      BY <1>1, <2>2 DEF Runs, Segments
    <3>2. ReadLine /\ run' = [run EXCEPT !.active = t]
      BY <1>6, <2>2 DEF ReadInstruction
    <3>3. s.code \o Operation(x) \in Seq(Lines)
      <4>1. CASE x = None
        BY <3>1, <4>1, ConcatEmptySeq DEF Operation
      <4>2. CASE x # None
        <5>1. [op |-> "use", name |-> x] \in Lines
          BY DEF Lines
        <5>2. QED
          BY <3>1, <4>2, <5>1 DEF Operation
      <4>3. QED
        BY <4>1, <4>2
    <3>4. t \in Segments /\ t.line = s.line /\ t.exports = s.exports
      BY <3>1, <3>3 DEF Segments
    <3> HIDE DEF t
    <3>5. QED
      BY <1>4, <2>2, <3>2, <3>4
  <2>3. QED
    BY <2>1, <2>2
<1>7. ASSUME NEW x \in Labels \cup Blocks, ReadLabel(x)
      PROVE  Shape
  <2>1. CASE run.active = None
    BY <1>3, <1>7, <2>1 DEF ReadLabel
  <2>2. CASE run.active # None
    <3> DEFINE s == run.active
               e == [op |-> "define", name |-> x]
               more == IF Declared(x) /\ ~Contains(s.exports, x)
                       THEN Append(s.exports, x) ELSE s.exports
               t == [s EXCEPT !.code = Append(s.code, e), !.exports = more]
    <3>1. s \in Segments /\ s.code \in Seq(Lines) /\ s.exports \in Seq(Labels)
      BY <1>1, <2>2 DEF Runs, Segments
    <3>2. ReadLine /\ run' = [run EXCEPT !.active = t]
      BY <1>7, <2>2, <1>1, <3>1 DEF ReadLabel, Runs, Segments
    <3>3. Declared(x) => x \in Labels /\ labels[x] = Unbound
      BY <1>7 DEF ReadLabel, Resolves, Declared
    <3>4. Append(s.code, e) \in Seq(Lines)
      BY <3>1 DEF Lines
    <3>5. /\ more \in Seq(Labels)
          /\ \A i \in DOMAIN more :
               (i \in DOMAIN s.exports /\ more[i] = s.exports[i]) \/ labels[more[i]] = Unbound
      <4>1. CASE Declared(x) /\ ~Contains(s.exports, x)
        <5>1. more = Append(s.exports, x) /\ x \in Labels /\ labels[x] = Unbound
          BY <3>3, <4>1
        <5> HIDE DEF more, s
        <5>2. QED
          BY <3>1, <5>1, AppendProperties
      <4>2. CASE ~(Declared(x) /\ ~Contains(s.exports, x))
        BY <3>1, <4>2
      <4>3. QED
        BY <4>1, <4>2
    <3>6. t \in Segments /\ t.line = s.line /\ t.exports = more
      BY <3>1, <3>4, <3>5 DEF Segments
    <3> HIDE DEF t, more
    <3>7. QED
      BY <1>4, <2>2, <3>2, <3>5, <3>6
  <2>3. QED
    BY <2>1, <2>2
<1>8. ASSUME NEW x \in Labels \cup Blocks \cup Sites,
             NEW rest \in Labels \cup Blocks \cup {None}, ReadTarget(x, rest)
      PROVE  Shape
  <2> DEFINE n == [op |-> "start", name |-> x,
                   segment |-> [line |-> line + 1, address |-> AddressOf(x),
                                capped |-> x \in live, code |-> Operation(rest),
                                exports |-> <<>>]]
  <2>1. ReadLine /\ ThenDo(n)
    BY <1>8 DEF ReadTarget
  <2>2. n.segment.line = line + 1 /\ n.segment.exports = <<>>
    OBVIOUS
  <2> HIDE DEF n
  <2>3. QED
    BY <1>2, <1>5, <2>1, <2>2
<1>9. ASSUME NEW op, NEW x, ReadDirective(op, x), op # "start"
      PROVE  Shape
  BY <1>2, <1>5, <1>9 DEF ReadDirective
<1>10. CASE EndOfScript
  <2>1. line \in 0 .. line
    BY <1>1
  <2>2. QED
    BY <1>5, <1>10, <2>1 DEF EndOfScript
<1>11. QED
  BY <1>6, <1>7, <1>8, <1>9, <1>10 DEF Read

LEMMA OtherShape ==
  ASSUME TInv, Begin \/ StartSegment \/ Resume \/ Directive \/ Finish
  PROVE  TInv' /\ Shape
<1>1. /\ line \in 0 .. MaxLines /\ live \subseteq Blocks /\ run \in Runs
      /\ labels \in [Labels -> Addresses \cup {Unbound, None}]
      /\ run.cursor \in 1 .. Len(run.pending) + 1
      /\ run.at \in {"drain", "step"} \cup Idle => run.active = None
  BY DEF TInv, Typed
<1>2. /\ \A x \in Labels : labels[x] \in Addresses => labels[x][2] <= line
      /\ \A i \in DOMAIN run.pending : Sound(run.pending[i], line)
      /\ Opening => Sound(run.next.segment, line)
  BY DEF TInv, Offsets, Near
<1>3. 1 \in 1 .. Len(run.pending) + 1
  BY <1>1 DEF Runs
<1>4. ASSUME NEW a \in {"read"} \cup Idle, run' = Empty(a),
             labels' = labels, live' = live, line' = line
      PROVE  TInv' /\ Shape
  <2>1. TInv'
    BY <1>1, <1>2, <1>4, EmptyTyped
  <2>2. QED
    BY <1>4, <2>1 DEF Shape, Resets
<1>5. CASE Begin
  BY <1>4, <1>5 DEF Begin
<1>6. CASE StartSegment
  <2>1. /\ run.at = "step" /\ Opening /\ run.next \in Requests /\ run.active = None
        /\ run' = [run EXCEPT !.at = "read", !.active = run.next.segment,
                              !.started = @ \cup {run.next.segment.line}]
        /\ labels' = labels /\ live' = live /\ line' = line
    BY <1>1, <1>6 DEF StartSegment, Doing, Opening, Runs
  <2>2. run.next.segment \in Segments
    BY <2>1 DEF Requests, Opening
  <2>3. run.next.segment # None /\ run.next.segment.line \in Nat
    BY <2>2 DEF Segments
  <2>4. /\ run' \in Runs /\ run'.at = "read" /\ run'.active = run.next.segment
        /\ run'.started = run.started \cup {run.next.segment.line}
        /\ run'.pending = run.pending /\ run'.cursor = run.cursor
        /\ run'.result = run.result /\ run'.bound = run.bound
        /\ run'.declared = run.declared
    BY <1>1, <2>1, <2>2, <2>3 DEF Runs
  <2>5. Opens
    BY <2>1, <2>3, <2>4 DEF Opens
  <2>6. TInv'
    BY <1>1, <1>2, <2>1, <2>4, Keeps DEF Opening, Idle
  <2>7. QED
    BY <2>5, <2>6 DEF Shape
<1>7. CASE Resume
  <2>1. /\ run.at = "step" /\ run.active = None
        /\ run' = [run EXCEPT !.at = "read"]
        /\ labels' = labels /\ live' = live /\ line' = line
    BY <1>1, <1>7 DEF Resume
  <2>2. /\ run' \in Runs /\ run'.at = "read" /\ run'.active = None
        /\ run'.pending = run.pending /\ run'.cursor = run.cursor
        /\ run'.result = run.result /\ run'.bound = run.bound
        /\ run'.declared = run.declared /\ run'.started = run.started
    BY <1>1, <2>1 DEF Runs
  <2>3. Resumes
    BY <2>1, <2>2 DEF Resumes, Still, Kept
  <2>4. TInv'
    BY <1>1, <1>2, <2>1, <2>2, Keeps DEF Opening, Idle
  <2>5. QED
    BY <2>3, <2>4 DEF Shape
\* The pending segments are drained again.
<1>8. ASSUME run.at = "step", run.next # None, NEW r \in Runs, DirectiveDone(r),
             r.active = None, r.pending = run.pending, r.result = run.result,
             r.started = run.started, r.bound = run.bound,
             line' = line, live' \subseteq Blocks,
             \/ labels' = labels /\ r.declared = run.declared
             \/ \E x \in Labels : /\ labels' = [labels EXCEPT ![x] = Unbound]
                                  /\ r.declared = [run.declared EXCEPT ![x] = line]
             \/ /\ r.declared = run.declared
                /\ \E x \in Scanned, site \in Sites : labels' = [labels EXCEPT ![x] = <<site, 0>>]
      PROVE  TInv' /\ Shape
  <2> DEFINE q == [r EXCEPT !.next = None]
  <2>1. /\ q \in Runs /\ q.active = None /\ q.pending = run.pending
        /\ q.result = run.result /\ q.started = run.started /\ q.bound = run.bound
        /\ q.declared = r.declared /\ q.next = None
    BY <1>8 DEF Runs
  <2>2. run' = StartDrain(q)
    BY <1>8 DEF DirectiveDone
  <2> HIDE DEF q
  <2>3. /\ run' \in Runs /\ run'.active = None /\ run'.at = "drain" /\ run'.cursor = 1
        /\ run'.moved = FALSE /\ run'.next = None /\ run'.pending = run.pending
        /\ run'.result = run.result /\ run'.started = run.started
        /\ run'.bound = run.bound /\ run'.declared = r.declared
    BY <2>1, <2>2, DrainStarts
  <2>4. \A site \in Sites : <<site, 0>> \in Addresses /\ <<site, 0>>[2] <= line
    BY <1>1 DEF Addresses
  <2>5. run.active = None
    BY <1>1, <1>8
  <2>6. Drains
    <3>1. CASE labels' = labels /\ r.declared = run.declared
      BY <1>8, <2>3, <2>5, <3>1 DEF Drains, Kept
    <3>2. CASE \E x \in Labels : /\ labels' = [labels EXCEPT ![x] = Unbound]
                                 /\ r.declared = [run.declared EXCEPT ![x] = line]
      BY <1>8, <2>3, <2>5, <3>2 DEF Drains, Kept
    <3>3. CASE /\ r.declared = run.declared
               /\ \E x \in Scanned, site \in Sites :
                    labels' = [labels EXCEPT ![x] = <<site, 0>>]
      BY <1>8, <2>3, <2>4, <2>5, <3>3 DEF Drains, Kept
    <3>4. QED
      BY <1>8, <3>1, <3>2, <3>3
  <2>7. /\ labels' \in [Labels -> Addresses \cup {Unbound, None}]
        /\ \A x \in Labels : labels'[x] \in Addresses => labels'[x][2] <= line
    <3>1. Unbound \notin Addresses
      BY DEF Addresses, Unbound
    <3>2. QED
      BY <1>1, <1>2, <1>8, <2>4, <3>1
  <2>8. TInv'
    BY <1>1, <1>2, <1>3, <1>8, <2>3, <2>7, Keeps DEF Opening
  <2>9. QED
    BY <2>6, <2>8 DEF Shape
<1>9. CASE Directive
  <2>1. ASSUME NEW op, Doing(op)
        PROVE  /\ run.at = "step" /\ run.next # None /\ run.active = None
               /\ run.next \in Requests /\ run.next.op = op
    BY <1>1, <2>1 DEF Doing, Runs
  <2>2. CASE Label
    <3>1. /\ run.at = "step" /\ run.next # None /\ run.active = None
          /\ Name \in Labels
      BY <2>1, <2>2 DEF Label, Name, Requests
    <3>2. labels' = [labels EXCEPT ![Name] = Unbound] /\ live' = live /\ line' = line
      BY <2>2 DEF Label
    <3> DEFINE d == [run.declared EXCEPT ![Name] = line]
               r == [run EXCEPT !.declared = d]
    <3>3. DirectiveDone(r)
      BY <1>1, <2>2 DEF Label, Runs
    <3>4. d \in [Labels -> Nat]
      BY <1>1, <3>1 DEF Runs
    <3>5. /\ r \in Runs /\ r.active = None /\ r.pending = run.pending
          /\ r.result = run.result /\ r.started = run.started /\ r.bound = run.bound
          /\ r.declared = d
      BY <1>1, <3>1, <3>4 DEF Runs
    <3> HIDE DEF r
    <3>6. QED
      BY <1>1, <1>8, <3>1, <3>2, <3>3, <3>5
  <2>3. CASE Alloc
    <3>1. /\ run.at = "step" /\ run.next # None /\ run.active = None
          /\ Name \in Blocks
      BY <2>1, <2>3 DEF Alloc, Name, Requests
    <3>2. /\ labels' = labels /\ live' \subseteq Blocks /\ line' = line
          /\ DirectiveDone(run)
      BY <1>1, <2>3, <3>1 DEF Alloc
    <3>3. QED
      BY <1>1, <1>8, <3>1, <3>2
  <2>4. CASE Dealloc
    <3>1. run.at = "step" /\ run.next # None /\ run.active = None
      BY <2>1, <2>4 DEF Dealloc
    <3>2. /\ labels' = labels /\ live' \subseteq Blocks /\ line' = line
          /\ DirectiveDone(run)
      BY <1>1, <2>4 DEF Dealloc
    <3>3. QED
      BY <1>1, <1>8, <3>1, <3>2
  <2>5. CASE Scan
    <3>1. /\ run.at = "step" /\ run.next # None /\ run.active = None
          /\ Name \in Scanned
      BY <2>1, <2>5 DEF Scan, Name, Requests
    <3>2. /\ \E site \in Sites : labels' = [labels EXCEPT ![Name] = <<site, 0>>]
          /\ live' = live /\ line' = line /\ DirectiveDone(run)
      BY <2>5 DEF Scan
    <3>3. QED
      BY <1>1, <1>8, <3>1, <3>2
  <2>6. CASE CreateThread
    <3>1. run.at = "step" /\ run.next # None /\ run.active = None
      BY <2>1, <2>6 DEF CreateThread
    <3>2. labels' = labels /\ live' = live /\ line' = line /\ DirectiveDone(run)
      BY <2>6 DEF CreateThread
    <3>3. QED
      BY <1>1, <1>8, <3>1, <3>2
  <2>7. CASE DirectiveFails
    BY <1>4, <2>7 DEF DirectiveFails, Fails, Failed, Idle
  <2>8. QED
    BY <1>9, <2>2, <2>3, <2>4, <2>5, <2>6, <2>7 DEF Directive
<1>10. CASE Finish
  <2>1. /\ run.at = "step" /\ run.active = None
        /\ labels' = labels /\ live' = live /\ line' = line
    BY <1>1, <1>10 DEF Finish, Doing
  <2>2. CASE run.pending # <<>> /\ Fails
    BY <1>4, <2>1, <2>2 DEF Fails, Failed, Idle
  <2>3. CASE FinishWhole
    <3>1. run.pending = <<>>
      BY <2>3 DEF FinishWhole
    <3>2. PICK sorted \in Sorted(run.result) :
            run' = [run EXCEPT !.at = "done", !.result = sorted]
      BY <2>3 DEF FinishWhole
    <3>3. PICK order \in Bijection(DOMAIN run.result, DOMAIN run.result) :
            /\ sorted = [i \in DOMAIN run.result |-> run.result[order[i]]]
            /\ \A i, j \in DOMAIN run.result : i < j => sorted[i].line <= sorted[j].line
      BY <3>2 DEF Sorted
    <3>4. run.result \in Seq(Results) /\ \A i \in DOMAIN run.result : order[i] \in DOMAIN run.result
      BY <1>1 DEF Runs, Bijection, Injection
    <3>5. DOMAIN sorted = DOMAIN run.result /\ sorted \in Seq(Results)
      <4>1. DOMAIN run.result = 1 .. Len(run.result) /\ Len(run.result) \in Nat
        BY <3>4
      <4>2. \A i \in 1 .. Len(run.result) : run.result[order[i]] \in Results
        BY <3>4, <4>1
      <4>3. sorted = [i \in 1 .. Len(run.result) |-> run.result[order[i]]]
        BY <3>3, <4>1
      <4>4. QED
        BY <4>1, <4>2, <4>3, IsASeq
    <3>6. /\ run' \in Runs /\ run'.at = "done" /\ run'.result = sorted
          /\ run'.active = None /\ run'.pending = <<>> /\ run'.cursor = run.cursor
          /\ run'.started = run.started /\ run'.bound = run.bound
          /\ run'.declared = run.declared
      <4> DEFINE r == [run EXCEPT !.at = "done", !.result = sorted]
      <4>1. r \in Runs
        BY <1>1, <3>5 DEF Runs, Idle
      <4>2. run' = r
        BY <3>2
      <4>3. QED
        BY <1>1, <2>1, <3>1, <4>1, <4>2 DEF Runs
    <3>7. Finishes
      <4>1. \A i \in DOMAIN run.result : run'.result[i] = run.result[order[i]]
        BY <3>3, <3>6
      <4>2. \E o \in Bijection(DOMAIN run.result, DOMAIN run.result) :
              \A i \in DOMAIN run.result : run'.result[i] = run.result[o[i]]
        BY <4>1
      <4>3. \A i, j \in DOMAIN run.result :
              i < j => run'.result[i].line <= run'.result[j].line
        BY <3>3, <3>6
      <4>4. QED
        BY <2>1, <3>1, <3>5, <3>6, <4>2, <4>3 DEF Finishes
    <3>8. \A i \in DOMAIN run'.result :
            run'.result[i].capped => run'.result[i].size <= Capacity
      BY <3>3, <3>4, <3>5, <3>6 DEF TInv, Typed
    <3>9. Typed'
      BY <1>1, <2>1, <3>1, <3>6, <3>8 DEF Typed
    <3>10. Offsets'
      BY <1>2, <2>1, <3>1, <3>6 DEF Offsets, Near, Opening
    <3>11. QED
      BY <3>7, <3>9, <3>10 DEF TInv, Shape
  <2>4. QED
    BY <1>10, <2>2, <2>3 DEF Finish
<1>11. QED
  BY <1>5, <1>6, <1>7, <1>9, <1>10

LEMMA StepShape ==
  ASSUME TInv, Next
  PROVE  TInv' /\ Shape
<1>1. CASE Read
  BY <1>1, ReadTyped, ReadShape
<1>2. CASE Try
  BY <1>2, TryShape
<1>3. CASE Begin \/ StartSegment \/ Resume \/ Directive \/ Finish
  BY <1>3, OtherShape
<1>4. QED
  BY <1>1, <1>2, <1>3 DEF Next, Step

-----------------------------------------------------------------------------
(* Each segment is in one place.                                           *)

LEMMA BegunStep ==
  ASSUME TInv, TInv', Apart, Begun, Shape
  PROVE  Apart' /\ Begun'
<1>1. /\ run \in Runs /\ run' \in Runs /\ line \in Nat /\ line' \in Nat
      /\ run.at \in {"drain", "step"} \cup Idle => run.active = None
  BY DEF TInv, Typed
<1>2. /\ run.pending \in Seq(Segments) /\ run.result \in Seq(Results)
      /\ run'.pending \in Seq(Segments) /\ run'.result \in Seq(Results)
  BY <1>1 DEF Runs
<1>3. CASE Resets
  <2>1. PICK a \in {"read"} \cup Idle : run' = Empty(a)
    BY <1>3 DEF Resets
  <2>2. /\ run'.active = None /\ run'.pending = <<>> /\ run'.result = <<>>
        /\ run'.next = None /\ run'.started = {}
    BY <2>1 DEF Empty
  <2>3. /\ DOMAIN run'.pending = {} /\ DOMAIN run'.result = {}
        /\ \A i \in 2 .. Len(run'.result) : FALSE
    BY <2>2
  <2>4. LinesOf(run'.pending) = {} /\ LinesOf(run'.result) = {}
    BY <2>3 DEF LinesOf
  <2>5. Apart'
    BY <2>2, <2>3 DEF Apart
  <2>6. Begun'
    BY <2>2, <2>3, <2>4 DEF Begun, Opening
  <2>7. QED
    BY <2>5, <2>6
\* Nothing moves: the line of the active segment, the pending ones and the
\* result are what they were.
<1>4. ASSUME run'.pending = run.pending, run'.result = run.result,
             run'.started = run.started, line \in 0 .. line', run'.at # "done",
             \/ run.active = None /\ run'.active = None
             \/ /\ run.active # None /\ run'.active # None
                /\ run'.active.line = run.active.line,
             Opening' => \/ Opening /\ run'.next = run.next /\ line' = line
                         \/ run'.next.segment.line = line' /\ line' = line + 1
      PROVE  Apart' /\ Begun'
  <2>1. Apart'
    BY <1>4 DEF Apart
  <2>2. run'.started \subseteq 1 .. line'
    BY <1>1, <1>4 DEF Begun
  <2>3. run'.started = (IF run'.active = None THEN {} ELSE {run'.active.line})
                          \cup LinesOf(run'.pending) \cup LinesOf(run'.result)
    BY <1>4 DEF Begun
  <2>4. Opening' => run'.next.segment.line = line' /\ line' \notin run'.started
    BY <1>1, <1>4 DEF Begun
  <2>5. Begun'
    BY <1>4, <2>2, <2>3, <2>4 DEF Begun
  <2>6. QED
    BY <2>1, <2>5
<1>5. CASE Extends
  BY <1>1, <1>4, <1>5 DEF Extends, Still, Kept, Opening
<1>6. CASE Asks
  BY <1>1, <1>4, <1>6 DEF Asks, Still, Kept, Opening
<1>7. CASE Drains
  BY <1>1, <1>4, <1>7 DEF Drains, Kept, Opening
<1>8. CASE Passes
  BY <1>1, <1>4, <1>8 DEF Passes, Still, Kept, Opening
<1>9. CASE Settles
  BY <1>1, <1>4, <1>9 DEF Settles, Still, Kept, Opening
<1>10. CASE Resumes
  BY <1>1, <1>4, <1>10 DEF Resumes, Still, Kept, Opening
<1>11. CASE PutsOff
  <2>1. /\ run.active \in Segments /\ run'.active = None
        /\ run'.pending = Append(run.pending, run.active)
        /\ run'.result = run.result /\ run'.started = run.started /\ line' = line
        /\ run'.next = run.next /\ run.at = "flush" /\ run'.at = "drain"
        /\ run.active # None
    BY <1>1, <1>11 DEF PutsOff, Still, Kept, Runs
  <2>2. /\ DOMAIN run.pending = 1 .. Len(run.pending) /\ Len(run.pending) \in Nat
        /\ DOMAIN run'.pending = 1 .. Len(run.pending) + 1
        /\ \A i \in DOMAIN run.pending : run'.pending[i] = run.pending[i]
        /\ run'.pending[Len(run.pending) + 1] = run.active
    BY <1>2, <2>1, AppendProperties
  <2>3. \A i \in DOMAIN run'.pending :
          \/ i \in DOMAIN run.pending /\ run'.pending[i] = run.pending[i]
          \/ i = Len(run.pending) + 1 /\ run'.pending[i] = run.active
    BY <2>2
  <2>4. Apart'
    BY <2>1, <2>3 DEF Apart
  <2>5. LinesOf(run'.pending) = {run.active.line} \cup LinesOf(run.pending)
    <3>1. LinesOf(run'.pending) \subseteq {run.active.line} \cup LinesOf(run.pending)
      BY <2>3 DEF LinesOf
    <3>2. \A i \in DOMAIN run.pending : i \in DOMAIN run'.pending
      BY <2>2
    <3>3. Len(run.pending) + 1 \in DOMAIN run'.pending
      BY <2>2
    <3>4. {run.active.line} \cup LinesOf(run.pending) \subseteq LinesOf(run'.pending)
      BY <2>2, <3>2, <3>3 DEF LinesOf
    <3>5. QED
      BY <3>1, <3>4
  <2>6. Begun'
    <3>1. Opening' => Opening
      BY <2>1 DEF Opening
    <3>2. QED
      BY <2>1, <2>5, <3>1 DEF Begun
  <2>7. QED
    BY <2>4, <2>6
<1>12. CASE Opens
  <2> DEFINE s == run.next.segment
  <2>1. /\ Opening /\ run.active = None /\ run'.active = s /\ run'.active # None
        /\ run'.pending = run.pending /\ run'.result = run.result /\ line' = line
        /\ run'.started = run.started \cup {s.line} /\ run'.at = "read"
    BY <1>12 DEF Opens
  <2>2. s.line = line /\ line \notin run.started
    BY <2>1 DEF Begun
  <2>3. /\ run.started \subseteq 1 .. line
        /\ run.started = LinesOf(run.pending) \cup LinesOf(run.result)
    BY <2>1 DEF Begun
  <2> HIDE DEF s
  <2>4. Apart'
    BY <2>1, <2>2, <2>3 DEF Apart, LinesOf
  <2>5. run'.active \in Segments
    BY <1>1, <2>1 DEF Runs
  <2>6. run'.started \subseteq 1 .. line'
    BY <1>1, <2>1, <2>2, <2>3, <2>5 DEF Segments
  <2>7. Begun'
    BY <2>1, <2>3, <2>6 DEF Begun, Opening
  <2>8. QED
    BY <2>4, <2>7
<1>13. CASE \E s \in Segments : Writes(s)
  <2>1. PICK s \in Segments : Writes(s)
    BY <1>13
  <2>2. /\ run'.result = Append(run.result, ResultOf(s)) /\ ResultOf(s) \in Results
        /\ run'.started = run.started /\ run'.next = run.next /\ line' = line
        /\ run'.at = "drain" /\ run'.active = None
    BY <2>1, ResultTyped DEF Writes, Written
  <2>3. ResultOf(s).line = s.line
    BY DEF ResultOf
  <2>4. /\ \A i \in DOMAIN run'.result :
             \/ i \in DOMAIN run.result /\ run'.result[i] = run.result[i]
             \/ i = Len(run.result) + 1 /\ run'.result[i].line = s.line
        /\ \A i \in DOMAIN run.result : i \in DOMAIN run'.result
        /\ \A i \in DOMAIN run.result : run'.result[i] = run.result[i]
        /\ Len(run.result) + 1 \in DOMAIN run'.result
        /\ run'.result[Len(run.result) + 1].line = s.line
    <3>1. /\ DOMAIN run.result = 1 .. Len(run.result) /\ Len(run.result) \in Nat
          /\ DOMAIN run'.result = 1 .. Len(run.result) + 1
          /\ \A i \in DOMAIN run.result : run'.result[i] = run.result[i]
          /\ run'.result[Len(run.result) + 1] = ResultOf(s)
      BY <1>2, <2>2, AppendProperties
    <3>2. QED
      BY <2>3, <3>1
  <2>5. LinesOf(run'.result) = {s.line} \cup LinesOf(run.result)
    <3>1. LinesOf(run'.result) \subseteq {s.line} \cup LinesOf(run.result)
      BY <2>4 DEF LinesOf
    <3>2. {s.line} \cup LinesOf(run.result) \subseteq LinesOf(run'.result)
      BY <2>4 DEF LinesOf
    <3>3. QED
      BY <3>1, <3>2
  <2>6. Opening' => Opening
    BY <2>1, <2>2 DEF Opening, Writes, Written
  <2>7. CASE run.at = "flush" /\ s = run.active /\ run.active # None
             /\ run'.pending = run.pending
    <3>1. Apart'
      BY <2>2, <2>4, <2>7 DEF Apart
    <3>2. Begun'
      BY <2>2, <2>5, <2>6, <2>7 DEF Begun
    <3>3. QED
      BY <3>1, <3>2
  <2>8. CASE /\ run.at = "drain" /\ run.cursor \in 1 .. Len(run.pending)
             /\ run.active = None /\ s = run.pending[run.cursor]
             /\ run'.pending = RemoveAt(run.pending, run.cursor)
    <3> DEFINE k == run.cursor
               left == RemoveAt(run.pending, k)
    <3>1. /\ k \in DOMAIN run.pending /\ k \in Nat
          /\ DOMAIN run.pending = 1 .. Len(run.pending) /\ Len(run.pending) \in Nat
      BY <1>2, <2>8
    <3>2. /\ DOMAIN left = 1 .. Len(run.pending) - 1
          /\ \A i \in DOMAIN left :
               \/ i < k /\ i \in DOMAIN run.pending /\ left[i] = run.pending[i]
               \/ /\ ~(i < k) /\ i + 1 \in DOMAIN run.pending /\ i + 1 # k
                  /\ left[i] = run.pending[i + 1]
      <4>1. k \in 1 .. Len(run.pending)
        BY <2>8
      <4>2. left \in Seq(Segments) /\ Len(left) = Len(run.pending) - 1
        BY <1>1, <4>1, PendingAfter
      <4>3. \A i \in DOMAIN left :
               \/ i < k /\ i \in DOMAIN run.pending /\ left[i] = run.pending[i]
               \/ /\ ~(i < k) /\ i + 1 \in DOMAIN run.pending /\ i + 1 # k
                  /\ left[i] = run.pending[i + 1]
        BY <1>1, <4>1, PendingAfter
      <4> HIDE DEF left, k
      <4>4. QED
        BY <4>2, <4>3
    <3>3. run'.pending = left /\ s = run.pending[k]
      BY <2>8
    <3> HIDE DEF k, left
    <3>4. \A i, j \in DOMAIN run.pending : run.pending[i].line = run.pending[j].line => i = j
      BY DEF Apart
    <3>5. ASSUME NEW i \in DOMAIN left, NEW j \in DOMAIN left, left[i].line = left[j].line
          PROVE  i = j
      <4>1. i \in Nat /\ j \in Nat
        BY <3>2
      <4>2. CASE i < k /\ j < k
        BY <3>1, <3>2, <3>4, <3>5, <4>1, <4>2
      <4>3. CASE i < k /\ ~(j < k)
        <5>1. /\ i \in DOMAIN run.pending /\ left[i] = run.pending[i]
              /\ j + 1 \in DOMAIN run.pending /\ left[j] = run.pending[j + 1]
          BY <3>2, <4>3
        <5>2. i = j + 1
          BY <3>4, <3>5, <5>1
        <5>3. QED
          BY <3>1, <4>1, <4>3, <5>2
      <4>4. CASE ~(i < k) /\ j < k
        <5>1. /\ j \in DOMAIN run.pending /\ left[j] = run.pending[j]
              /\ i + 1 \in DOMAIN run.pending /\ left[i] = run.pending[i + 1]
          BY <3>2, <4>4
        <5>2. j = i + 1
          BY <3>4, <3>5, <5>1
        <5>3. QED
          BY <3>1, <4>1, <4>4, <5>2
      <4>5. CASE ~(i < k) /\ ~(j < k)
        <5>1. /\ j + 1 \in DOMAIN run.pending /\ left[j] = run.pending[j + 1]
              /\ i + 1 \in DOMAIN run.pending /\ left[i] = run.pending[i + 1]
          BY <3>2, <4>5
        <5>2. i + 1 = j + 1
          BY <3>4, <3>5, <5>1
        <5>3. QED
          BY <4>1, <5>2
      <4>6. QED
        BY <4>2, <4>3, <4>4, <4>5
    <3>6. \A i \in DOMAIN left : \E j \in DOMAIN run.pending : j # k /\ left[i] = run.pending[j]
      BY <3>1, <3>2
    <3>7. \A i \in DOMAIN left : left[i].line # s.line
      BY <3>1, <3>3, <3>4, <3>6
    <3>8. Apart'
      <4>1. \A i, j \in DOMAIN run'.result :
              run'.result[i].line = run'.result[j].line => i = j
        BY <2>4, <2>8, <3>1, <3>3 DEF Apart
      <4>2. \A i \in DOMAIN left, j \in DOMAIN run'.result : left[i].line # run'.result[j].line
        BY <2>4, <3>6, <3>7 DEF Apart
      <4>3. QED
        BY <2>2, <3>3, <3>5, <4>1, <4>2 DEF Apart
    <3>9. LinesOf(run.pending) = {s.line} \cup LinesOf(left)
      <4>1. \A i \in DOMAIN run.pending : i # k => \E j \in DOMAIN left : left[j] = run.pending[i]
        <5>1. TAKE i \in DOMAIN run.pending
        <5>2. HAVE i # k
        <5>3. CASE i < k
          <6>1. i \in DOMAIN left
            BY <3>1, <3>2, <5>3
          <6>2. QED
            BY <3>2, <5>3, <6>1
        <5>4. CASE i > k
          <6>1. i - 1 \in DOMAIN left /\ ~(i - 1 < k) /\ i - 1 + 1 = i
            BY <3>1, <3>2, <5>4
          <6>2. QED
            BY <3>2, <6>1
        <5>5. QED
          BY <3>1, <5>2, <5>3, <5>4
      <4>2. LinesOf(run.pending) \subseteq {s.line} \cup LinesOf(left)
        BY <3>3, <4>1 DEF LinesOf
      <4>3. {s.line} \cup LinesOf(left) \subseteq LinesOf(run.pending)
        BY <3>1, <3>3, <3>6 DEF LinesOf
      <4>4. QED
        BY <4>2, <4>3
    <3>10. Begun'
      BY <2>2, <2>5, <2>6, <2>8, <3>3, <3>9 DEF Begun
    <3>11. QED
      BY <3>8, <3>10
  <2>9. QED
    BY <2>1, <2>7, <2>8 DEF Writes, Written
<1>14. CASE Finishes
  <2>1. /\ run.pending = <<>> /\ run'.pending = <<>> /\ run.active = None
        /\ run'.active = None /\ DOMAIN run'.result = DOMAIN run.result
        /\ run'.started = run.started /\ line' = line /\ run'.at = "done"
        /\ \A i, j \in DOMAIN run.result :
             i < j => run'.result[i].line <= run'.result[j].line
    BY <1>14 DEF Finishes
  <2>2. PICK order \in Bijection(DOMAIN run.result, DOMAIN run.result) :
          \A i \in DOMAIN run.result : run'.result[i] = run.result[order[i]]
    BY <1>14 DEF Finishes
  <2>3. /\ \A i \in DOMAIN run.result : order[i] \in DOMAIN run.result
        /\ \A i, j \in DOMAIN run.result : order[i] = order[j] => i = j
        /\ \A j \in DOMAIN run.result : \E i \in DOMAIN run.result : order[i] = j
    <3> DEFINE D == DOMAIN run.result
    <3>1. order \in Injection(D, D) /\ order \in Surjection(D, D)
      BY DEF Bijection
    <3> HIDE DEF D
    <3>2. order \in [D -> D] /\ IsInjective(order)
      BY <3>1 DEF Injection
    <3>3. \A j \in D : \E i \in D : order[i] = j
      BY <3>1 DEF Surjection
    <3>4. QED
      BY <3>2, <3>3 DEF IsInjective, D
  <2>4. Apart'
    <3>1. ASSUME NEW i \in DOMAIN run.result, NEW j \in DOMAIN run.result,
                 run'.result[i].line = run'.result[j].line
          PROVE  i = j
      <4>1. order[i] \in DOMAIN run.result /\ order[j] \in DOMAIN run.result
        BY <2>3
      <4>2. run.result[order[i]].line = run.result[order[j]].line
        BY <2>2, <3>1
      <4>3. order[i] = order[j]
        BY <4>1, <4>2 DEF Apart
      <4>4. QED
        BY <2>3, <4>3
    <3>2. DOMAIN run'.pending = {}
      BY <2>1
    <3>3. QED
      BY <2>1, <3>1, <3>2 DEF Apart
  <2>5. LinesOf(run'.result) = LinesOf(run.result)
    <3>1. LinesOf(run'.result) \subseteq LinesOf(run.result)
      <4>1. \A i \in DOMAIN run.result :
              /\ order[i] \in DOMAIN run.result
              /\ run'.result[i].line = run.result[order[i]].line
        BY <2>2, <2>3
      <4>2. QED
        BY <2>1, <4>1 DEF LinesOf
    <3>2. ASSUME NEW j \in DOMAIN run.result
          PROVE  \E i \in DOMAIN run.result : run'.result[i] = run.result[j]
      <4>1. PICK i \in DOMAIN run.result : order[i] = j
        BY <2>3
      <4>2. run'.result[i] = run.result[j]
        BY <2>2, <4>1
      <4>3. QED
        BY <4>2
    <3>3. LinesOf(run.result) \subseteq LinesOf(run'.result)
      BY <2>1, <3>2 DEF LinesOf
    <3>4. QED
      BY <3>1, <3>3
  <2>6. \A i \in 2 .. Len(run'.result) : run'.result[i - 1].line < run'.result[i].line
    <3>1. TAKE i \in 2 .. Len(run'.result)
    <3>2. i - 1 \in DOMAIN run'.result /\ i \in DOMAIN run'.result /\ i - 1 < i /\ i - 1 # i
      BY <1>2
    <3>3. run'.result[i - 1].line <= run'.result[i].line
      BY <2>1, <3>2
    <3>4. run'.result[i - 1].line # run'.result[i].line
      BY <2>4, <3>2 DEF Apart
    <3>5. run'.result[i - 1].line \in Nat /\ run'.result[i].line \in Nat
      <4>1. run'.result[i - 1] \in Results /\ run'.result[i] \in Results
        BY <1>2, <3>2
      <4>2. QED
        BY <4>1 DEF Results
    <3>6. QED
      BY <3>3, <3>4, <3>5
  <2>7. Begun'
    BY <2>1, <2>5, <2>6 DEF Begun, Opening
  <2>8. QED
    BY <2>4, <2>7
<1>15. QED
  BY <1>3, <1>5, <1>6, <1>7, <1>8, <1>9, <1>10, <1>11, <1>12, <1>13, <1>14 DEF Shape

-----------------------------------------------------------------------------
(* Draining.                                                               *)

LEMMA DrainStep ==
  ASSUME TInv, TInv', PassedOver, DrainedToTheEnd, Shape
  PROVE  PassedOver' /\ DrainedToTheEnd'
<1>1. /\ run \in Runs /\ run' \in Runs
      /\ run.cursor \in 1 .. Len(run.pending) + 1
  BY DEF TInv, Typed
<1>2. run.pending \in Seq(Segments) /\ run'.pending \in Seq(Segments)
  BY <1>1 DEF Runs
\* What a segment waits for is in the labels only.
<1>3. ASSUME labels' = labels, NEW i, Deferred(run.pending[i]),
             NEW j, run'.pending[j] = run.pending[i]
      PROVE  Deferred(run.pending[j])'
  BY <1>3 DEF Deferred, IsStuck, Unknown, Redefines, DefinedBefore, DefinedIn, Uses
<1>4. CASE Resets
  <2>1. run'.pending = <<>> /\ run'.at # "drain"
    BY <1>4 DEF Resets, Empty, Idle
  <2>2. QED
    BY <2>1 DEF PassedOver, DrainedToTheEnd
<1>5. CASE /\ run.at \in {"read", "step"} /\ labels' = labels
           /\ run'.pending = run.pending /\ run'.at # "drain"
  BY <1>3, <1>5 DEF PassedOver, DrainedToTheEnd
<1>6. CASE run'.at = "drain" /\ (run'.cursor = 1 \/ run'.moved = TRUE)
  <2>1. \A i \in 1 .. 1 - 1 : FALSE
    OBVIOUS
  <2>2. QED
    BY <1>6, <2>1 DEF PassedOver, DrainedToTheEnd
<1>7. CASE Passes
  <2>1. /\ run.at = "drain" /\ run'.at = "drain" /\ Deferred(run.pending[run.cursor])
        /\ run'.cursor = run.cursor + 1 /\ run'.moved = run.moved
        /\ labels' = labels /\ run'.pending = run.pending
    BY <1>7 DEF Passes, Still
  <2>2. ASSUME ~run.moved, NEW i \in 1 .. run.cursor
        PROVE  Deferred(run.pending[i])
    BY <1>1, <2>1, <2>2 DEF PassedOver
  <2>3. ASSUME ~run'.moved, NEW i \in 1 .. run'.cursor - 1
        PROVE  Deferred(run.pending[i])'
    <3>1. i \in 1 .. run.cursor
      BY <1>1, <2>1
    <3>2. Deferred(run.pending[i])
      BY <2>1, <2>2, <2>3, <3>1
    <3>3. QED
      BY <1>3, <2>1, <3>2
  <2>4. QED
    BY <2>1, <2>3 DEF PassedOver, DrainedToTheEnd
<1>8. CASE Settles
  <2>1. /\ run.at = "drain" /\ run.cursor > Len(run.pending) /\ ~run.moved
        /\ run'.at = "step" /\ labels' = labels /\ run'.pending = run.pending
    BY <1>8 DEF Settles, Still
  <2>2. \A i \in DOMAIN run.pending : i \in 1 .. run.cursor - 1
    BY <1>1, <1>2, <2>1
  <2>3. \A i \in DOMAIN run.pending : Deferred(run.pending[i])
    BY <2>1, <2>2 DEF PassedOver
  <2>4. QED
    BY <1>3, <2>1, <2>3 DEF PassedOver, DrainedToTheEnd
<1>9. Extends \/ Asks \/ Opens \/ Resumes =>
        /\ run.at \in {"read", "step"} /\ labels' = labels
        /\ run'.pending = run.pending /\ run'.at # "drain"
  BY DEF Extends, Asks, Opens, Resumes, Still
<1>10. Drains \/ PutsOff => run'.at = "drain" /\ run'.cursor = 1
  BY DEF Drains, PutsOff
<1>11. (\E s \in Segments : Writes(s)) =>
         run'.at = "drain" /\ (run'.cursor = 1 \/ run'.moved = TRUE)
  BY DEF Writes, Written
<1>12. CASE Finishes
  BY <1>12 DEF Finishes, PassedOver, DrainedToTheEnd
<1>13. QED
  BY <1>4, <1>5, <1>6, <1>7, <1>8, <1>9, <1>10, <1>11, <1>12 DEF Shape

-----------------------------------------------------------------------------
(* Jumps.                                                                  *)

\* What was written refers to addresses.
LEMMA TargetsAreAddresses ==
  ASSUME run \in Runs, NEW i \in DOMAIN run.result, NEW x \in DOMAIN run.result[i].targets
  PROVE  x \in Labels /\ run.result[i].targets[x] # Unbound
<1>1. run.result[i] \in Results
  BY DEF Runs
<1>2. PICK X \in SUBSET Labels : run.result[i].targets \in [X -> Addresses]
  BY <1>1 DEF Results
<1>3. Unbound \notin Addresses
  BY DEF Addresses, Unbound
<1>4. QED
  BY <1>2, <1>3

\* A result begins at a line that was read.
LEMMA ResultsRead ==
  ASSUME Begun, NEW i \in DOMAIN run.result
  PROVE  run.result[i].line <= line
<1>1. run.result[i].line \in LinesOf(run.result)
  BY DEF LinesOf
<1>2. run.result[i].line \in 1 .. line
  BY <1>1 DEF Begun
<1>3. QED
  BY <1>2

LEMMA JumpStep ==
  ASSUME TInv, TInv', Begun, ExportsOpen, JumpsLand, Shape
  PROVE  ExportsOpen' /\ JumpsLand'
<1>1. /\ run \in Runs /\ run' \in Runs /\ line \in Nat
      /\ labels \in [Labels -> Addresses \cup {Unbound, None}]
      /\ run.at \in {"drain", "step"} \cup Idle => run.active = None
  BY DEF TInv, Typed
<1>2. /\ run.pending \in Seq(Segments) /\ run.result \in Seq(Results)
      /\ run'.result \in Seq(Results)
      /\ run.active \in Segments \cup {None} /\ run.declared \in [Labels -> Nat]
  BY <1>1 DEF Runs
<1>17. /\ \A i \in DOMAIN run.pending : run.pending[i] \in Segments
      /\ \A i \in DOMAIN run.result : run.result[i] \in Results
  BY <1>2
<1>18. \A i \in DOMAIN run.pending : run.pending[i].exports \in Seq(Labels)
  BY <1>17 DEF Segments
<1>3. Unbound \notin Addresses
  BY DEF Addresses, Unbound
<1>4. CASE Resets
  <2>1. PICK a \in {"read"} \cup Idle : run' = Empty(a)
    BY <1>4 DEF Resets
  <2>2. /\ run'.active = None /\ run'.next = None
        /\ DOMAIN run'.pending = {} /\ DOMAIN run'.result = {}
    BY <2>1 DEF Empty
  <2>3. QED
    BY <2>2 DEF ExportsOpen, JumpsLand, Opening
\* The labels and the result are as before.
<1>5. ASSUME Still
      PROVE  JumpsLand'
  BY <1>5 DEF Still, Kept, JumpsLand
<1>6. ASSUME Still, NEW s \in Segments, OpenIn(s), NEW t, t = s
      PROVE  OpenIn(t)'
  BY <1>6 DEF Still, Kept, OpenIn
<1>7. ASSUME Still, run'.pending = run.pending,
             \/ run'.active = None
             \/ run.active # None /\ run'.active = run.active,
             Opening' => \/ Opening /\ run'.next = run.next
                         \/ run'.next.segment.exports = <<>>
      PROVE  ExportsOpen'
  <2>1. \A i \in DOMAIN run'.pending : OpenIn(run.pending[i])'
    BY <1>2, <1>7 DEF ExportsOpen, OpenIn, Still, Kept
  <2>2. run'.active # None => OpenIn(run.active)'
    BY <1>2, <1>7 DEF ExportsOpen, OpenIn, Still, Kept
  <2>3. Opening' => run'.next.segment.exports = <<>>
    BY <1>7 DEF ExportsOpen
  <2>4. QED
    BY <2>1, <2>2, <2>3 DEF ExportsOpen
<1>8. CASE Extends
  <2>1. /\ Still /\ run'.pending = run.pending /\ run.active # None
        /\ run'.at = "read"
        /\ \A i \in DOMAIN run'.active.exports :
             \/ /\ i \in DOMAIN run.active.exports
                /\ run'.active.exports[i] = run.active.exports[i]
             \/ labels[run'.active.exports[i]] = Unbound
    BY <1>8 DEF Extends
  <2>2. OpenIn(run.active)'
    BY <2>1 DEF ExportsOpen, OpenIn, Still, Kept
  <2>3. \A i \in DOMAIN run'.pending : OpenIn(run.pending[i])'
    BY <2>1 DEF ExportsOpen, OpenIn, Still, Kept
  <2>4. ExportsOpen'
    BY <2>1, <2>2, <2>3 DEF ExportsOpen, Opening
  <2>5. QED
    BY <1>5, <2>1, <2>4
<1>9. CASE Asks
  <2>1. Still /\ run'.pending = run.pending /\ run'.active = run.active
        /\ (run'.next.op = "start" => run'.next.segment.exports = <<>>)
    BY <1>9 DEF Asks
  <2>2. QED
    BY <1>5, <1>7, <2>1 DEF Opening
<1>10. CASE Passes \/ Settles \/ Resumes
  <2>1. /\ Still /\ run'.pending = run.pending /\ run'.active = None
        /\ Opening' => Opening /\ run'.next = run.next
    BY <1>10 DEF Passes, Settles, Resumes, Opening
  <2>2. QED
    BY <1>5, <1>7, <2>1
<1>11. CASE PutsOff
  <2>1. /\ Still /\ run'.active = None /\ run.active # None
        /\ run'.pending = Append(run.pending, run.active)
        /\ Opening' => Opening /\ run'.next = run.next
    BY <1>11 DEF PutsOff, Opening
  <2>2. \A i \in DOMAIN run'.pending :
          \/ i \in DOMAIN run.pending /\ run'.pending[i] = run.pending[i]
          \/ run'.pending[i] = run.active
    BY <1>2, <2>1, AppendProperties
  <2>3. \A i \in DOMAIN run'.pending : OpenIn(run.pending[i])'
    BY <2>1, <2>2 DEF ExportsOpen, OpenIn, Still, Kept
  <2>4. ExportsOpen'
    BY <2>1, <2>3 DEF ExportsOpen
  <2>5. QED
    BY <1>5, <2>1, <2>4
<1>12. CASE Opens
  <2>1. /\ Opening /\ Opening' = FALSE /\ run'.pending = run.pending
        /\ run'.active = run.next.segment
        /\ run'.result = run.result /\ run'.bound = run.bound
        /\ run'.declared = run.declared /\ labels' = labels
    BY <1>12 DEF Opens, Opening
  <2>2. OpenIn(run.active)'
    BY <2>1 DEF ExportsOpen, OpenIn
  <2>3. \A i \in DOMAIN run'.pending : OpenIn(run.pending[i])'
    BY <2>1 DEF ExportsOpen, OpenIn
  <2>4. ExportsOpen'
    BY <2>1, <2>2, <2>3 DEF ExportsOpen
  <2>5. JumpsLand'
    BY <2>1 DEF JumpsLand
  <2>6. QED
    BY <2>4, <2>5
<1>13. CASE Finishes
  <2>1. /\ run'.active = None /\ run'.pending = <<>> /\ run'.at = "done"
        /\ labels' = labels /\ run'.declared = run.declared
        /\ DOMAIN run'.result = DOMAIN run.result
    BY <1>13 DEF Finishes
  <2>2. PICK order \in Bijection(DOMAIN run.result, DOMAIN run.result) :
          \A i \in DOMAIN run.result : run'.result[i] = run.result[order[i]]
    BY <1>13 DEF Finishes
  <2>3. \A i \in DOMAIN run.result : order[i] \in DOMAIN run.result
    BY DEF Bijection, Injection
  <2>4. \A i \in DOMAIN run'.result : \E j \in DOMAIN run.result : run'.result[i] = run.result[j]
    BY <2>1, <2>2, <2>3
  <2>5. ExportsOpen'
    BY <2>1 DEF ExportsOpen, Opening
  <2>6. JumpsLand'
    BY <2>1, <2>4 DEF JumpsLand
  <2>7. QED
    BY <2>5, <2>6
<1>14. CASE Drains
  <2>1. /\ run'.result = run.result /\ run'.bound = run.bound
        /\ run'.pending = run.pending /\ run'.active = None
    BY <1>14 DEF Drains, Kept
  <2>2. Opening' => Opening /\ run'.next = run.next
    BY <1>14 DEF Drains, Opening
  <2>3. CASE labels' = labels /\ run'.declared = run.declared
    <3>1. Still
      BY <1>14, <2>3 DEF Drains, Still
    <3>2. QED
      BY <1>5, <1>7, <2>1, <2>2, <3>1
  <2>4. CASE \E x \in Labels : /\ labels' = [labels EXCEPT ![x] = Unbound]
                               /\ run'.declared = [run.declared EXCEPT ![x] = line]
    <3>1. PICK x \in Labels : /\ labels' = [labels EXCEPT ![x] = Unbound]
                              /\ run'.declared = [run.declared EXCEPT ![x] = line]
      BY <2>4
    <3>2. /\ labels'[x] = Unbound /\ run'.declared[x] = line
          /\ \A y \in Labels : y # x => /\ labels'[y] = labels[y]
                                        /\ run'.declared[y] = run.declared[y]
      BY <1>1, <1>2, <3>1
    <3>3. \A i \in DOMAIN run'.pending : OpenIn(run.pending[i])'
      <4>2. \A y \in Labels : labels[y] = Unbound => labels'[y] = Unbound
        BY <3>2
      <4>3. QED
        BY <2>1, <1>18, <4>2 DEF ExportsOpen, OpenIn
    <3>4. ExportsOpen'
      BY <2>1, <2>2, <3>3 DEF ExportsOpen
    <3>5. ASSUME NEW i \in DOMAIN run.result,
                 NEW y \in DOMAIN run.result[i].targets \ Scanned,
                 run.result[i].line > run'.declared[y]
          PROVE  run.result[i].targets[y] = labels'[y]
      <4>1. y \in Labels
        BY <1>1, TargetsAreAddresses
      <4>2. run.result[i].line <= line /\ run.result[i].line \in Nat
        BY <1>17, ResultsRead DEF Results
      <4>3. y # x
        BY <1>1, <3>2, <3>5, <4>2
      <4>4. QED
        BY <3>2, <3>5, <4>1, <4>3 DEF JumpsLand
    <3>6. JumpsLand'
      BY <2>1, <3>5 DEF JumpsLand
    <3>7. QED
      BY <3>4, <3>6
  <2>5. CASE /\ run'.declared = run.declared
             /\ \E x \in Scanned, a \in Addresses : labels' = [labels EXCEPT ![x] = a]
    <3>1. \A y \in Labels \ Scanned : labels'[y] = labels[y]
      BY <1>1, <2>5
    <3>2. \A i \in DOMAIN run'.pending : OpenIn(run.pending[i])'
      BY <1>18, <2>1, <3>1 DEF ExportsOpen, OpenIn
    <3>3. ExportsOpen'
      BY <2>1, <2>2, <3>2 DEF ExportsOpen
    <3>4. ASSUME NEW i \in DOMAIN run.result,
                 NEW y \in DOMAIN run.result[i].targets \ Scanned
          PROVE  labels'[y] = labels[y]
      BY <1>1, <3>1, TargetsAreAddresses
    <3>5. JumpsLand'
      BY <2>1, <2>5, <3>4 DEF JumpsLand
    <3>6. QED
      BY <3>3, <3>5
  <2>6. QED
    BY <1>14, <2>3, <2>4, <2>5 DEF Drains
<1>15. CASE \E s \in Segments : Writes(s)
  <2>1. PICK s \in Segments : Writes(s)
    BY <1>15
  <2>2. /\ run'.result = Append(run.result, ResultOf(s)) /\ ResultOf(s) \in Results
        /\ run'.bound = run.bound \cup Exported(s) /\ run'.declared = run.declared
        /\ run'.next = run.next /\ run'.at = "drain" /\ run'.active = None
        /\ BindExports(s) /\ Clashes(s) = {} /\ Assembles(s)
    BY <2>1, ResultTyped DEF Writes, Written
  <2>3. \A i \in DOMAIN run'.pending : \E j \in DOMAIN run.pending :
          run'.pending[i] = run.pending[j]
    <3>1. CASE run'.pending = run.pending
      BY <3>1
    <3>2. CASE /\ run.cursor \in 1 .. Len(run.pending)
               /\ run'.pending = RemoveAt(run.pending, run.cursor)
      <4> DEFINE left == RemoveAt(run.pending, run.cursor)
      <4>1. \A i \in DOMAIN left : \E j \in DOMAIN run.pending : left[i] = run.pending[j]
        BY <1>1, <3>2, PendingLeft
      <4>2. run'.pending = left
        BY <3>2
      <4> HIDE DEF left
      <4>3. QED
        BY <4>1, <4>2
    <3>3. QED
      BY <2>1, <3>1, <3>2 DEF Writes, Written
  <2>4. OpenIn(s)
    <3>1. \/ s = run.active /\ run.active # None
          \/ /\ run.cursor \in 1 .. Len(run.pending) /\ s = run.pending[run.cursor]
      BY <2>1 DEF Writes, Written
    <3>2. run.cursor \in 1 .. Len(run.pending) => run.cursor \in DOMAIN run.pending
      BY <1>2
    <3>3. QED
      BY <3>1, <3>2 DEF ExportsOpen
  \* Every label s exports is bound now, and had no address before.
  <2>5. \A x \in Exported(s) : x \in Labels /\ (x \notin Scanned => labels[x] = Unbound)
    <3>1. \A i \in DOMAIN s.exports : s.exports[i] \notin run.bound /\ s.exports[i] \in Labels
      BY <2>2 DEF Clashes, Segments
    <3>2. QED
      BY <2>4, <3>1 DEF Exported, OpenIn
  <2>6. \A x \in Labels : x \notin Exported(s) => labels'[x] = labels[x]
    BY <2>2 DEF BindExports
  <2>7. \A i \in DOMAIN run'.pending : OpenIn(run.pending[i])'
    <3>1. ASSUME NEW i \in DOMAIN run'.pending
          PROVE  OpenIn(run.pending[i])'
      <4>1. PICK j \in DOMAIN run.pending : run'.pending[i] = run.pending[j]
        BY <2>3
      <4>2. OpenIn(run.pending[j]) /\ run.pending[j].exports \in Seq(Labels)
        BY <1>18 DEF ExportsOpen
      <4>3. QED
        BY <2>2, <2>6, <4>1, <4>2 DEF OpenIn
    <3>2. QED
      BY <3>1
  <2>8. Opening' => Opening /\ run'.next = run.next
    BY <2>1, <2>2 DEF Opening, Writes, Written
  <2>9. ExportsOpen'
    BY <2>2, <2>7, <2>8 DEF ExportsOpen
  <2>10. ASSUME NEW i \in DOMAIN run'.result,
                NEW x \in DOMAIN run'.result[i].targets \ Scanned,
                run'.result[i].line > run'.declared[x]
         PROVE  run'.result[i].targets[x] = labels'[x]
    <3>1. \/ i \in DOMAIN run.result /\ run'.result[i] = run.result[i]
          \/ run'.result[i] = ResultOf(s)
      BY <1>2, <2>2, AppendProperties
    <3>2. CASE i \in DOMAIN run.result /\ run'.result[i] = run.result[i]
      <4>1. x \in Labels /\ run.result[i].targets[x] # Unbound
        BY <1>1, <3>2, TargetsAreAddresses
      <4>2. run.result[i].targets[x] = labels[x]
        BY <2>2, <2>10, <3>2 DEF JumpsLand
      <4>3. x \notin Exported(s)
        BY <2>5, <4>1, <4>2
      <4>4. QED
        BY <2>6, <3>2, <4>1, <4>2, <4>3
    <3>3. CASE run'.result[i] = ResultOf(s)
      <4>1. run'.result[i].targets = Targets(s)
        BY <3>3 DEF ResultOf
      <4>2. x \in Labels /\ Targets(s)[x] = labels[x] /\ labels[x] # Unbound
        BY <2>2, <4>1, ResultTyped
      <4>3. x \notin Exported(s)
        BY <2>5, <4>2
      <4>4. QED
        BY <2>6, <4>1, <4>2, <4>3
    <3>4. QED
      BY <3>1, <3>2, <3>3
  <2>11. JumpsLand'
    BY <2>10 DEF JumpsLand
  <2>12. QED
    BY <2>9, <2>11
<1>16. QED
  BY <1>4, <1>8, <1>9, <1>10, <1>11, <1>12, <1>13, <1>14, <1>15 DEF Shape

-----------------------------------------------------------------------------
(* The theorems.                                                           *)

LEMMA Concatenated ==
  ASSUME NEW a \in Seq(Nat), NEW b \in Seq(Nat), IsInjective(a), IsInjective(b),
         \A i \in DOMAIN a, j \in DOMAIN b : a[i] # b[j]
  PROVE  IsInjective(a \o b) /\ ToSet(a \o b) = ToSet(a) \cup ToSet(b)
<1> DEFINE c == a \o b
           m == Len(a)
           n == Len(b)
<1>1. /\ m \in Nat /\ n \in Nat /\ DOMAIN a = 1 .. m /\ DOMAIN b = 1 .. n
      /\ DOMAIN c = 1 .. m + n
      /\ \A i \in 1 .. m + n : c[i] = IF i <= m THEN a[i] ELSE b[i - m]
  BY ConcatProperties
<1> HIDE DEF c, m, n
<1>2. \A i \in DOMAIN c :
        \/ i \in 1 .. m /\ c[i] = a[i]
        \/ i - m \in 1 .. n /\ c[i] = b[i - m]
  BY <1>1
<1>3. ASSUME NEW i \in DOMAIN c, NEW j \in DOMAIN c, c[i] = c[j]
      PROVE  i = j
  <2>1. i \in Nat /\ j \in Nat
    BY <1>1
  <2>2. CASE i \in 1 .. m /\ c[i] = a[i] /\ j \in 1 .. m /\ c[j] = a[j]
    BY <1>1, <1>3, <2>2 DEF IsInjective
  <2>3. CASE i - m \in 1 .. n /\ c[i] = b[i - m] /\ j - m \in 1 .. n /\ c[j] = b[j - m]
    <3>1. i - m = j - m
      BY <1>1, <1>3, <2>3 DEF IsInjective
    <3>2. QED
      BY <1>1, <2>1, <3>1
  <2>4. QED
    BY <1>1, <1>2, <1>3, <2>2, <2>3
<1>4. ToSet(c) \subseteq ToSet(a) \cup ToSet(b)
  BY <1>1, <1>2 DEF ToSet
<1>5. \A i \in 1 .. m : i \in DOMAIN c /\ c[i] = a[i]
  BY <1>1
<1>6. ASSUME NEW i \in 1 .. n
      PROVE  m + i \in DOMAIN c /\ c[m + i] = b[i]
  <2>1. m + i \in 1 .. m + n /\ ~(m + i <= m) /\ m + i - m = i
    BY <1>1
  <2>2. QED
    BY <1>1, <2>1
<1>7. ToSet(a) \cup ToSet(b) \subseteq ToSet(c)
  BY <1>1, <1>5, <1>6 DEF ToSet
<1>8. QED
  BY <1>3, <1>4, <1>7 DEF IsInjective, c

LEMMA OnceFollows ==
  ASSUME TInv, Apart, Begun
  PROVE  EachSegmentOnce
<1> DEFINE S == SegmentsNow
           R == run.result
           a == [i \in DOMAIN S |-> S[i].line]
           b == [i \in DOMAIN R |-> R[i].line]
           P == run.pending
<1>1. /\ P \in Seq(Segments) /\ R \in Seq(Results)
      /\ run.active \in Segments \cup {None}
  BY DEF TInv, Typed, Runs
<1>2. /\ S \in Seq(Segments)
      /\ LinesOf(S) = (IF run.active = None THEN {} ELSE {run.active.line}) \cup LinesOf(P)
      /\ \A i, j \in DOMAIN S : S[i].line = S[j].line => i = j
      /\ \A i \in DOMAIN S, j \in DOMAIN R : S[i].line # R[j].line
  <2>1. CASE run.active = None
    <3>1. S = P
      BY <1>1, <2>1, ConcatEmptySeq DEF SegmentsNow
    <3>2. QED
      BY <1>1, <2>1, <3>1 DEF Apart
  <2>2. CASE run.active # None
    <3>1. S = <<run.active>> \o P /\ run.active \in Segments
      BY <1>1, <2>2 DEF SegmentsNow
    <3>2. /\ S \in Seq(Segments) /\ DOMAIN S = 1 .. 1 + Len(P) /\ Len(P) \in Nat
          /\ DOMAIN P = 1 .. Len(P)
          /\ \A i \in 1 .. 1 + Len(P) : S[i] = IF i <= 1 THEN run.active ELSE P[i - 1]
      <4>1. <<run.active>> \in Seq(Segments) /\ Len(<<run.active>>) = 1
            /\ <<run.active>>[1] = run.active
        BY <3>1
      <4> DEFINE h == <<run.active>>
      <4> HIDE DEF S, P, h
      <4>2. /\ h \o P \in Seq(Segments) /\ Len(h \o P) = Len(h) + Len(P)
            /\ \A i \in 1 .. Len(h) + Len(P) :
                 (h \o P)[i] = IF i <= Len(h) THEN h[i] ELSE P[i - Len(h)]
        BY <1>1, <4>1, ConcatProperties DEF h
      <4>3. S = h \o P /\ Len(h) = 1 /\ h[1] = run.active
        BY <3>1, <4>1 DEF h
      <4>4. Len(P) \in Nat /\ DOMAIN P = 1 .. Len(P)
        BY <1>1
      <4>5. S \in Seq(Segments) /\ DOMAIN S = 1 .. 1 + Len(P)
        BY <4>2, <4>3, <4>4
      <4>6. ASSUME NEW i \in 1 .. 1 + Len(P)
            PROVE  S[i] = IF i <= 1 THEN run.active ELSE P[i - 1]
        BY <4>2, <4>3, <4>4
      <4>7. QED
        BY <4>4, <4>5, <4>6
    <3> HIDE DEF S, P
    <3>3. \A i \in DOMAIN S :
            \/ i = 1 /\ S[i] = run.active
            \/ i - 1 \in DOMAIN P /\ S[i] = P[i - 1]
      BY <3>2
    <3>4. 1 \in DOMAIN S /\ S[1] = run.active
      BY <3>2
    <3>5. \A i \in DOMAIN P : i + 1 \in DOMAIN S /\ S[i + 1] = P[i]
      BY <3>2
    <3>6. /\ \A i, j \in DOMAIN P : P[i].line = P[j].line => i = j
          /\ \A i \in DOMAIN P : P[i].line # run.active.line
          /\ \A i \in DOMAIN P, j \in DOMAIN R : P[i].line # R[j].line
          /\ \A i \in DOMAIN R : R[i].line # run.active.line
      BY <2>2 DEF Apart, P
    <3>7. LinesOf(S) \subseteq {run.active.line} \cup LinesOf(P)
      BY <3>3 DEF LinesOf
    <3>8. {run.active.line} \cup LinesOf(P) \subseteq LinesOf(S)
      BY <3>4, <3>5 DEF LinesOf
    <3>9. ASSUME NEW i \in DOMAIN S, NEW j \in DOMAIN S, S[i].line = S[j].line
          PROVE  i = j
      <4>1. i \in Nat /\ j \in Nat
        BY <3>2
      <4>2. CASE i = 1 /\ S[i] = run.active
        BY <3>3, <3>6, <3>9, <4>2
      <4>3. CASE j = 1 /\ S[j] = run.active
        BY <3>3, <3>6, <3>9, <4>3
      <4>4. CASE i - 1 \in DOMAIN P /\ S[i] = P[i - 1] /\ j - 1 \in DOMAIN P /\ S[j] = P[j - 1]
        <5>1. i - 1 = j - 1
          BY <3>6, <3>9, <4>4
        <5>2. QED
          BY <4>1, <5>1
      <4>5. QED
        BY <3>3, <4>2, <4>3, <4>4
    <3>10. \A i \in DOMAIN S, j \in DOMAIN R : S[i].line # R[j].line
      BY <3>3, <3>6
    <3>11. QED
      BY <2>2, <3>2, <3>7, <3>8, <3>9, <3>10
  <2>3. QED
    BY <2>1, <2>2
<1>3. a \in Seq(Nat) /\ DOMAIN a = DOMAIN S /\ \A i \in DOMAIN a : a[i] = S[i].line
  <2> HIDE DEF S
  <2>1. DOMAIN S = 1 .. Len(S) /\ Len(S) \in Nat
    BY <1>2
  <2>2. \A i \in 1 .. Len(S) : S[i] \in Segments
    BY <1>2
  <2>3. \A i \in 1 .. Len(S) : S[i].line \in Nat
    BY <2>2 DEF Segments
  <2>4. [i \in 1 .. Len(S) |-> S[i].line] \in Seq(Nat)
    BY <2>1, <2>3, IsASeq
  <2>5. QED
    BY <2>1, <2>4
<1>4. b \in Seq(Nat) /\ DOMAIN b = DOMAIN R /\ \A i \in DOMAIN b : b[i] = R[i].line
  <2> HIDE DEF R
  <2>1. DOMAIN R = 1 .. Len(R) /\ Len(R) \in Nat
    BY <1>1
  <2>2. \A i \in 1 .. Len(R) : R[i] \in Results
    BY <1>1
  <2>3. \A i \in 1 .. Len(R) : R[i].line \in Nat
    BY <2>2 DEF Results
  <2>4. [i \in 1 .. Len(R) |-> R[i].line] \in Seq(Nat)
    BY <2>1, <2>3, IsASeq
  <2>5. QED
    BY <2>1, <2>4
<1> HIDE DEF a, b
<1>5. IsInjective(a \o b) /\ ToSet(a \o b) = ToSet(a) \cup ToSet(b)
  <2>1. IsInjective(a) /\ IsInjective(b)
    BY <1>2, <1>3, <1>4 DEF IsInjective, Apart
  <2>2. \A i \in DOMAIN a, j \in DOMAIN b : a[i] # b[j]
    BY <1>2, <1>3, <1>4
  <2>3. QED
    BY <1>3, <1>4, <2>1, <2>2, Concatenated
<1>6. ToSet(a) = LinesOf(S) /\ ToSet(b) = LinesOf(R)
  <2> HIDE DEF S, R
  <2>1. QED
    BY <1>3, <1>4 DEF ToSet, LinesOf
<1>7. ToSet(a \o b) = run.started
  BY <1>2, <1>5, <1>6 DEF Begun
<1>8. ASSUME run.at = "done"
      PROVE  /\ SegmentsNow = <<>>
             /\ \A i \in 2 .. Len(a \o b) : (a \o b)[i - 1] < (a \o b)[i]
  <2>1. run.active = None /\ run.pending = <<>>
    BY <1>8 DEF TInv, Typed, Begun, Idle
  <2>2. SegmentsNow = <<>>
    BY <1>1, <2>1, ConcatEmptySeq DEF SegmentsNow
  <2>3. a = <<>>
    <3>1. DOMAIN a = {}
      BY <1>3, <2>2
    <3>2. QED
      BY <1>3, <3>1
  <2>4. a \o b = b
    BY <1>4, <2>3, ConcatEmptySeq
  <2>5. \A i \in 2 .. Len(R) : R[i - 1].line < R[i].line
    BY <1>8 DEF Begun
  <2>6. Len(b) = Len(R)
    BY <1>1, <1>4
  <2>7. \A i \in 2 .. Len(b) : b[i - 1] < b[i]
    <3>1. TAKE i \in 2 .. Len(b)
    <3>2. i \in DOMAIN b /\ i - 1 \in DOMAIN b
      BY <1>4
    <3>3. QED
      BY <1>4, <2>5, <2>6, <3>2
  <2>8. QED
    BY <2>2, <2>4, <2>7
<1>9. QED
  BY <1>5, <1>7, <1>8 DEF EachSegmentOnce, a, b

LEMMA TInvAlways == Spec => []TInv
<1>1. TInv /\ [Next]_vars => TInv'
  <2> SUFFICES ASSUME TInv, [Next]_vars PROVE TInv'
    OBVIOUS
  <2>1. CASE Next
    BY <2>1, StepShape
  <2>2. CASE UNCHANGED vars
    BY <2>2 DEF vars, TInv, Typed, Offsets, Near, Opening
  <2>3. QED
    BY <2>1, <2>2
<1>2. QED
  BY <1>1, InitTyped, PTL DEF Spec

LEMMA BegunAlways == Spec => [](Apart /\ Begun)
<1>1. Init => Apart /\ Begun
  <2> SUFFICES ASSUME Init PROVE Apart /\ Begun
    OBVIOUS
  <2>1. /\ run.active = None /\ run.pending = <<>> /\ run.result = <<>>
        /\ run.next = None /\ run.started = {}
    BY DEF Init, Empty
  <2>2. /\ DOMAIN run.pending = {} /\ DOMAIN run.result = {}
        /\ \A i \in 2 .. Len(run.result) : FALSE
    BY <2>1
  <2>3. LinesOf(run.pending) = {} /\ LinesOf(run.result) = {}
    BY <2>2 DEF LinesOf
  <2>4. QED
    BY <2>1, <2>2, <2>3 DEF Apart, Begun, Opening
<1>2. TInv /\ TInv' /\ Apart /\ Begun /\ [Next]_vars => (Apart /\ Begun)'
  <2> SUFFICES ASSUME TInv, TInv', Apart, Begun, [Next]_vars PROVE Apart' /\ Begun'
    OBVIOUS
  <2>1. CASE Next
    BY <2>1, StepShape, BegunStep
  <2>2. CASE UNCHANGED vars
    BY <2>2 DEF vars, Apart, Begun, Opening, LinesOf
  <2>3. QED
    BY <2>1, <2>2
<1>3. QED
  BY <1>1, <1>2, TInvAlways, PTL DEF Spec

\* The types of the script's state, and no segment longer than its block: what
\* RemoteAssembler::flush checks before it writes.
THEOREM ScriptTyped == Spec => []TypeOK
<1>1. TInv => TypeOK
  BY DEF TInv, Typed, TypeOK, Runs
<1>2. QED
  BY <1>1, TInvAlways, PTL

\* Deferral loses no segment of a script and writes none twice, and a result
\* is in the order of the script.
THEOREM SegmentsOnce == Spec => []EachSegmentOnce
<1>1. TInv /\ Apart /\ Begun => EachSegmentOnce
  BY OnceFollows
<1>2. QED
  BY <1>1, TInvAlways, BegunAlways, PTL

\* When a directive is carried out or the next line is read, a segment is
\* pending only because one of its labels has no address.
THEOREM Drained == Spec => []DrainedToTheEnd
<1>1. Init => PassedOver /\ DrainedToTheEnd
  BY DEF Init, Empty, PassedOver, DrainedToTheEnd
<1>2. TInv /\ TInv' /\ PassedOver /\ DrainedToTheEnd /\ [Next]_vars
        => (PassedOver /\ DrainedToTheEnd)'
  <2> SUFFICES ASSUME TInv, TInv', PassedOver, DrainedToTheEnd, [Next]_vars
               PROVE  PassedOver' /\ DrainedToTheEnd'
    OBVIOUS
  <2>1. CASE Next
    BY <2>1, StepShape, DrainStep
  <2>2. CASE UNCHANGED vars
    BY <2>2 DEF vars, PassedOver, DrainedToTheEnd, Deferred, IsStuck, Unknown,
                Redefines, DefinedBefore, DefinedIn, Uses
  <2>3. QED
    BY <2>1, <2>2
<1>3. QED
  BY <1>1, <1>2, TInvAlways, PTL DEF Spec

\* Written code refers to a label's address as it still is, unless label(..)
\* declares the label again later or a scan binds it.
THEOREM WrittenJumpsLand == Spec => []JumpsLand
<1>1. Init => ExportsOpen /\ JumpsLand
  BY DEF Init, Empty, ExportsOpen, JumpsLand, Opening
<1>2. TInv /\ TInv' /\ Begun /\ ExportsOpen /\ JumpsLand /\ [Next]_vars
        => (ExportsOpen /\ JumpsLand)'
  <2> SUFFICES ASSUME TInv, TInv', Begun, ExportsOpen, JumpsLand, [Next]_vars
               PROVE  ExportsOpen' /\ JumpsLand'
    OBVIOUS
  <2>1. CASE Next
    BY <2>1, StepShape, JumpStep
  <2>2. CASE UNCHANGED vars
    BY <2>2 DEF vars, ExportsOpen, OpenIn, JumpsLand, Opening
  <2>3. QED
    BY <2>1, <2>2
<1>3. QED
  BY <1>1, <1>2, TInvAlways, BegunAlways, PTL DEF Spec
===============================================================================
