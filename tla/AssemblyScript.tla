---------------------------- MODULE AssemblyScript ----------------------------
(***************************************************************************)
(* AssemblyScript::execute (src/src/engine/assembly_script.cpp): a script   *)
(* of directives, `name:` headers and instructions is cut into segments,    *)
(* each assembled and written on its own by a TextAssembler                 *)
(* (text_assembler.cpp).  A segment that refers to a declared label with no *)
(* address yet is put off, and tried again around every directive, at every *)
(* new segment and at the end of the script.                                *)
(*                                                                         *)
(* The script is not fixed: each step that reads a line takes any line, so  *)
(* the runs go through every script of up to MaxLines lines, and through    *)
(* several scripts run one after the other in the same ScriptContext.  One  *)
(* step is one line read, one attempt to assemble a segment, or one         *)
(* directive.  An instruction is the name its operand refers to; an address *)
(* is a place, a block or a site of the program, and an offset, every       *)
(* instruction having length one.                                          *)
(*                                                                         *)
(* A definition marked "Fault" is a variant with a plausible bug, used to   *)
(* show that a property would notice it; no specification uses it.          *)
(***************************************************************************)
EXTENDS Naturals, FiniteSets, SequencesExt

CONSTANTS Labels,    \* names for label(..) and plain `name:` lines
          Scanned,   \* names for aobScan(..)
          Blocks,    \* names for alloc(..)
          Sites,     \* expressions such as game.exe+0x240, always resolved
          Capacity,  \* the size of every block
          MaxLines,  \* how many lines are read, over all scripts
          None       \* std::nullopt, and a label that is not in the context

ASSUME NamesAssumption ==
  /\ Scanned \subseteq Labels
  /\ Labels \cap (Blocks \cup Sites) = {} /\ Blocks \cap Sites = {}
ASSUME BoundsAssumption == Capacity \in Nat \ {0} /\ MaxLines \in Nat

Addresses == (Blocks \cup Sites) \X (0 .. MaxLines)

\* A line of a segment: a label defined, or an instruction that refers to a name.
Lines == [op : {"define", "use"}, name : Labels \cup Blocks]

\* ActiveSegment and PendingSegment.
Segments == [line : 1 .. MaxLines, address : Addresses, capped : BOOLEAN,
             code : Seq(Lines), exports : Seq(Labels)]

ASSUME NoneAssumption == None \notin Addresses /\ None \notin Segments

VARIABLES labels,  \* ScriptContext's labels: name -> address, Unbound or None
          live,    \* ScriptContext's local allocations
          line,    \* lines read so far
          run      \* the state of execute

vars == <<labels, live, line, run>>

Unbound == <<>>

Declared(x) == x \in live \/ (x \in Labels /\ labels[x] # None)

Resolves(x) ==
  x \in live \cup Sites \/ (x \in Labels /\ labels[x] \notin {None, Unbound})

AddressOf(x) == IF x \in Labels THEN labels[x] ELSE <<x, 0>>

Idle == {"done", "failed"}

\* execute with no segment in hand.
Empty(at) == [at |-> at, active |-> None, pending |-> <<>>, cursor |-> 1,
              moved |-> FALSE, next |-> None, bound |-> {}, result |-> <<>>,
              started |-> {}, declared |-> [x \in Labels |-> 0]]

\* The context may hold labels and allocations from calls made before.
Init ==
  /\ labels \in [Labels -> {None, Unbound}]
  /\ live \in SUBSET Blocks
  /\ line = 0
  /\ run = Empty("done")

Begin == run.at \in Idle /\ run' = Empty("read") /\ UNCHANGED <<labels, live, line>>

\* An exception leaves execute and its locals; what it wrote stays written.
Failed == Empty("failed")

Fails == run' = Failed

-----------------------------------------------------------------------------
(* Reading.  What ends a segment first flushes it and drains the pending    *)
(* ones, and is carried out after that: run.next is what waits.            *)

ReadLine ==
  /\ run.at = "read" /\ line < MaxLines
  /\ line' = line + 1
  /\ UNCHANGED <<labels, live>>

ThenDo(next) == run' = [run EXCEPT !.at = "flush", !.next = next]

\* An instruction, or nothing, after the colon of a header.
Operation(x) == IF x = None THEN <<>> ELSE <<[op |-> "use", name |-> x]>>

\* An instruction needs a segment to go into.
ReadInstruction(x) ==
  /\ ReadLine
  /\ IF run.active = None
     THEN Fails
     ELSE run' = [run EXCEPT !.active.code = @ \o Operation(x)]

\* A name that resolves opens a segment there, capped if it is a block.
ReadTarget(x, rest) ==
  /\ ReadLine
  /\ Resolves(x)
  /\ ThenDo([op |-> "start", name |-> x,
             segment |-> [line |-> line + 1, address |-> AddressOf(x),
                          capped |-> x \in live, code |-> Operation(rest),
                          exports |-> <<>>]])

\* Any other name is a label inside the segment, to be exported if declared.
\* (An instruction after its colon is taken as the next line.)
ReadLabel(x) ==
  /\ ReadLine
  /\ ~Resolves(x)
  /\ IF run.active = None
     THEN Fails
     ELSE run' = [run EXCEPT
            !.active.code = Append(@, [op |-> "define", name |-> x]),
            !.active.exports =
               IF Declared(x) /\ ~Contains(@, x) THEN Append(@, x) ELSE @]

ReadDirective(op, x) == ReadLine /\ ThenDo([op |-> op, name |-> x])

EndOfScript ==
  /\ run.at = "read"
  /\ ThenDo([op |-> "end"])
  /\ UNCHANGED <<labels, live, line>>

-----------------------------------------------------------------------------
(* tryAssembleSegment.                                                     *)

Uses(s, i) == s.code[i].op = "use"

DefinedIn(s, n, x) == \E i \in 1 .. n : s.code[i] = [op |-> "define", name |-> x]

DefinedBefore(s, i) == DefinedIn(s, i - 1, s.code[i].name)

\* Lines are parsed one at a time: only labels defined further up are known.
Unknown(s, i) == Uses(s, i) /\ ~DefinedBefore(s, i)

\* resolveUnknownSymbol: declared, and no address.
IsStuck(s, i) ==
  Unknown(s, i) /\ s.code[i].name \in Labels /\ labels[s.code[i].name] = Unbound

Redefines(s, i) == ~Uses(s, i) /\ DefinedBefore(s, i)

\* The first line that does not parse decides; of a line that defines a label
\* again that is known.
Deferred(s) ==
  \E i \in DOMAIN s.code :
    IsStuck(s, i) /\ \A j \in 1 .. i - 1 : ~Redefines(s, j)

Size(s, n) == Cardinality({i \in 1 .. n : Uses(s, i)})

\* Fault: one byte past the end is accepted.
OverflowsByTwo(s) == s.capped /\ Size(s, Len(s.code)) > Capacity + 1

Overflows(s) == s.capped /\ Size(s, Len(s.code)) > Capacity

\* A line that cannot be parsed, or one of flush's checks.
Rejected(s) ==
  \/ \E i \in DOMAIN s.code : Redefines(s, i)
  \/ \E i \in DOMAIN s.code :
       /\ Unknown(s, i) /\ ~Declared(s.code[i].name) /\ s.code[i].name \notin Sites
       /\ ~DefinedIn(s, Len(s.code), s.code[i].name)
  \/ Overflows(s)

Assembles(s) == ~Deferred(s) /\ ~Rejected(s)

\* The script labels whose addresses are in the bytes.
Targets(s) ==
  [x \in {s.code[i].name : i \in {j \in DOMAIN s.code : Unknown(s, j)}}
           \cap {y \in Labels : labels[y] # None} |-> labels[x]]

LabelAddress(s, x) ==
  LET at == CHOOSE i \in DOMAIN s.code : s.code[i] = [op |-> "define", name |-> x]
  IN <<s.address[1], s.address[2] + Size(s, at)>>

\* Fault: a label may be defined by two segments.
NeverClashes(s) == {}

\* Exported labels another segment of the script has bound.
Clashes(s) == {i \in DOMAIN s.exports : s.exports[i] \in run.bound}

\* The labels are bound in order, up to the first clash.
Exported(s) == {s.exports[i] : i \in {j \in DOMAIN s.exports :
                                        \A k \in Clashes(s) : j < k}}

BindExports(s) ==
  labels' = [x \in Labels |-> IF x \in Exported(s) THEN LabelAddress(s, x)
                              ELSE labels[x]]

-----------------------------------------------------------------------------
(* flushActiveSegment and drainPendingSegments.                            *)

StartDrain(r) == [r EXCEPT !.at = "drain", !.cursor = 1, !.moved = FALSE]

Trying ==
  \/ run.at = "flush" /\ run.active # None
  \/ run.at = "drain" /\ run.cursor <= Len(run.pending)

Attempt == IF run.at = "flush" THEN run.active ELSE run.pending[run.cursor]

FlushNothing ==
  /\ run.at = "flush" /\ run.active = None
  /\ run' = StartDrain(run)
  /\ UNCHANGED <<labels, live, line>>

PutOff ==
  /\ Trying /\ Deferred(Attempt)
  /\ run' = IF run.at = "flush"
            THEN StartDrain([run EXCEPT !.pending = Append(@, run.active),
                                        !.active = None])
            ELSE [run EXCEPT !.cursor = @ + 1]
  /\ UNCHANGED <<labels, live, line>>

Completed(s) ==
  [run EXCEPT !.bound = @ \cup Exported(s),
              !.result = Append(@, [line |-> s.line, address |-> s.address,
                                    capped |-> s.capped, targets |-> Targets(s),
                                    size |-> Size(s, Len(s.code))])]

\* Fault: a pending segment that was written stays in the list.
CompleteKeepsPending ==
  /\ Trying /\ Assembles(Attempt) /\ Clashes(Attempt) = {}
  /\ BindExports(Attempt)
  /\ run' = IF run.at = "flush"
            THEN StartDrain([Completed(Attempt) EXCEPT !.active = None])
            ELSE [Completed(Attempt) EXCEPT !.cursor = @ + 1, !.moved = TRUE]
  /\ UNCHANGED <<live, line>>

\* Written; its exported labels are bound.
Complete ==
  /\ Trying /\ Assembles(Attempt) /\ Clashes(Attempt) = {}
  /\ BindExports(Attempt)
  /\ run' = IF run.at = "flush"
            THEN StartDrain([Completed(Attempt) EXCEPT !.active = None])
            ELSE [Completed(Attempt) EXCEPT !.pending = RemoveAt(@, run.cursor),
                                            !.moved = TRUE]
  /\ UNCHANGED <<live, line>>

\* An exception from flush or from the backend's write, or from the parser at
\* a line that none before it has put off.
AttemptFails ==
  /\ Trying
  /\ \/ ~Deferred(Attempt) /\ Rejected(Attempt)
     \/ \E i \in DOMAIN Attempt.code :
          Uses(Attempt, i) /\ \A j \in 1 .. i : ~IsStuck(Attempt, j)
  /\ Fails
  /\ UNCHANGED <<labels, live, line>>

\* Written, and one of its labels turns out to be bound.
DefinedTwice ==
  /\ Trying /\ Assembles(Attempt) /\ Clashes(Attempt) # {}
  /\ BindExports(Attempt)
  /\ Fails
  /\ UNCHANGED <<live, line>>

Passed == run.at = "drain" /\ run.cursor > Len(run.pending)

\* Fault: one pass over the list is all.
PassEndsOnce ==
  /\ Passed
  /\ run' = [run EXCEPT !.at = "step"]
  /\ UNCHANGED <<labels, live, line>>

\* Fault: progress is never forgotten.
PassEndsRestless ==
  /\ Passed
  /\ run' = IF run.moved THEN [run EXCEPT !.cursor = 1] ELSE [run EXCEPT !.at = "step"]
  /\ UNCHANGED <<labels, live, line>>

\* Another pass if this one wrote a segment.
PassEnds ==
  /\ Passed
  /\ run' = IF run.moved THEN StartDrain(run) ELSE [run EXCEPT !.at = "step"]
  /\ UNCHANGED <<labels, live, line>>

-----------------------------------------------------------------------------
(* What the line asked for.                                                *)

Doing(op) == run.at = "step" /\ run.next # None /\ run.next.op = op

Name == run.next.name

\* After a directive the pending segments are drained again.
DirectiveDone(r) == run' = StartDrain([r EXCEPT !.next = None])

StartSegment ==
  /\ Doing("start")
  /\ run' = [run EXCEPT !.at = "read", !.active = run.next.segment,
                        !.started = @ \cup {run.next.segment.line}]
  /\ UNCHANGED <<labels, live, line>>

Resume ==
  /\ run.at = "step" /\ run.next = None
  /\ run' = [run EXCEPT !.at = "read"]
  /\ UNCHANGED <<labels, live, line>>

\* label(x) forgets the address of an earlier run.
Label ==
  /\ Doing("label")
  /\ labels' = [labels EXCEPT ![Name] = Unbound]
  /\ DirectiveDone([run EXCEPT !.declared[Name] = line])
  /\ UNCHANGED <<live, line>>

Alloc ==
  /\ Doing("alloc") /\ Name \notin live
  /\ live' = live \cup {Name}
  /\ DirectiveDone(run)
  /\ UNCHANGED <<labels, line>>

Dealloc ==
  /\ Doing("dealloc") /\ Name \in live
  /\ live' = live \ {Name}
  /\ DirectiveDone(run)
  /\ UNCHANGED <<labels, line>>

\* aobScan: the first match is the label's address, or has to agree with it.
Scan ==
  /\ Doing("aobScan")
  /\ \E site \in Sites :
       /\ labels[Name] \in {None, Unbound, <<site, 0>>}
       /\ labels' = [labels EXCEPT ![Name] = <<site, 0>>]
  /\ DirectiveDone(run)
  /\ UNCHANGED <<live, line>>

\* The thread itself runs in the target.
CreateThread ==
  /\ Doing("createThread") /\ Resolves(Name)
  /\ DirectiveDone(run)
  /\ UNCHANGED <<labels, live, line>>

\* alloc of a known name, dealloc or createThread of an unknown one, a scan
\* with no match or another match than before, or a call the backend refuses.
DirectiveFails ==
  /\ \E op \in {"alloc", "dealloc", "aobScan", "createThread"} : Doing(op)
  /\ Fails
  /\ UNCHANGED <<labels, live, line>>

\* std::sort by the line: an arrangement of the segments in which no one comes
\* before another that begins on an earlier line.
Sorted(segments) ==
  LET arrangements == {[i \in DOMAIN segments |-> segments[order[i]]] :
                         order \in Bijection(DOMAIN segments, DOMAIN segments)}
  IN {s \in arrangements :
        \A i, j \in DOMAIN segments : i < j => s[i].line <= s[j].line}

\* The segments are reported in the order they began.
FinishWhole ==
  /\ run.pending = <<>>
  /\ \E sorted \in Sorted(run.result) :
       run' = [run EXCEPT !.at = "done", !.result = sorted]

Finish ==
  /\ Doing("end")
  /\ FinishWhole \/ (run.pending # <<>> /\ Fails)
  /\ UNCHANGED <<labels, live, line>>

Read ==
  \/ \E x \in Labels \cup Blocks : ReadInstruction(x) \/ ReadLabel(x)
  \/ \E x \in Labels \cup Blocks \cup Sites, rest \in Labels \cup Blocks \cup {None} :
       ReadTarget(x, rest)
  \/ \E x \in Labels : ReadDirective("label", x)
  \/ \E x \in Scanned : ReadDirective("aobScan", x)
  \/ \E x \in Blocks, op \in {"alloc", "dealloc", "createThread"} : ReadDirective(op, x)
  \/ EndOfScript

Try == FlushNothing \/ PutOff \/ Complete \/ AttemptFails \/ DefinedTwice \/ PassEnds

Directive ==
  Label \/ Alloc \/ Dealloc \/ Scan \/ CreateThread \/ DirectiveFails

Step == Read \/ Try \/ StartSegment \/ Resume \/ Directive \/ Finish

Next == Begin \/ Step

Spec == Init /\ [][Next]_vars

\* execute is a loop of the calling thread.
FairSpec == Spec /\ WF_vars(Step)

-----------------------------------------------------------------------------
(* Properties.                                                             *)

\* Labels are addresses, and no segment in the result is longer than the
\* block it was written to: the check of RemoteAssembler::flush.
TypeOK ==
  /\ labels \in [Labels -> Addresses \cup {Unbound, None}]
  /\ live \subseteq Blocks
  /\ line \in 0 .. MaxLines
  /\ run.at \in {"read", "flush", "drain", "step"} \cup Idle
  /\ run.cursor \in 1 .. Len(run.pending) + 1
  /\ run.bound \subseteq Labels
  /\ \A i \in DOMAIN run.result : run.result[i].capped => run.result[i].size <= Capacity

SegmentsNow ==
  (IF run.active = None THEN <<>> ELSE <<run.active>>) \o run.pending

\* Deferral loses no segment and writes none twice: each segment that was
\* begun is the active one, a pending one or one of the results, and after a
\* successful execute all of them are results, in the order of the script.
EachSegmentOnce ==
  LET lines == [i \in DOMAIN SegmentsNow |-> SegmentsNow[i].line]
               \o [i \in DOMAIN run.result |-> run.result[i].line]
  IN run.at # "failed" =>
       /\ ToSet(lines) = run.started /\ IsInjective(lines)
       /\ run.at = "done" => /\ SegmentsNow = <<>>
                             /\ \A i \in 2 .. Len(lines) : lines[i - 1] < lines[i]

\* Draining goes on as long as it helps: when a directive is carried out or
\* the next line is read, every pending segment is still held up by a label
\* with no address.
DrainedToTheEnd ==
  run.at \in {"read", "step"} => \A i \in DOMAIN run.pending : Deferred(run.pending[i])

\* Code that was written refers to a label's address as it still is, whether
\* or not it was put off, unless label(..) declares the label again later, or
\* a scan binds it.
JumpsLand ==
  \A i \in DOMAIN run.result :
    \A x \in DOMAIN run.result[i].targets \ Scanned :
      run.result[i].line > run.declared[x] => run.result[i].targets[x] = labels[x]

\* execute ends: every pass over the pending segments that is followed by
\* another one has made the list shorter.
Terminates == (run.at \notin Idle) ~> (run.at \in Idle)

\* The tests say of createThread that the code is flushed before it runs; a
\* segment that was put off is not.
ThreadsRunWrittenCode ==
  Doing("createThread") /\ Resolves(Name) =>
    \A i \in DOMAIN run.pending : run.pending[i].address # AddressOf(Name)
=============================================================================
