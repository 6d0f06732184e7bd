-------------------------- MODULE PatchServiceProofs --------------------------
(***************************************************************************)
(* Safety of PatchService for any names, cells, ranges, bytes, protections *)
(* and refusals.  The types hold for any threads; what the records keep    *)
(* and what protections are left is proved for one thread at a time, under *)
(* the assumptions named below.                                            *)
(***************************************************************************)
EXTENDS PatchService, TLAPS

\* One thread calls the session.
OneAtATime == \A t, u \in Threads : t = u

\* Callers patch cells that no patch and no plain write of theirs covers.
Apart ==
  /\ ~Stacking
  /\ \A range \in Ranges, other \in Scratch : range \cap other = {}

\* Nothing that is written crosses the end of a page.
PageLocal == \A range \in Ranges \cup Scratch : PagesOf(range) = {First(range)}

\* A call keeps the bytes of its range, patches only those ranges, and knows how to make it writable.
Sound(call) ==
  /\ DOMAIN call.original = DOMAIN call.bytes
  /\ call.op # "write" => DOMAIN call.bytes \in Ranges
  /\ call.at = "protect" => call.undo # None

\* TypeOK without the protection that goes back.
TInv ==
  /\ memory \in [Cells -> Bytes \cup {Original}]
  /\ protection \in [Pages -> SUBSET Flags]
  /\ records \in [Names -> PatchRecord \cup {None}]
  /\ calls \in [Threads -> CallRecord \cup {None}]
  /\ unrecorded \subseteq Cells /\ exposed \subseteq Pages
  /\ \A n \in Names : records[n] # None =>
       DOMAIN records[n].replacement = DOMAIN records[n].original
  /\ \A t \in Threads : calls[t] # None => Sound(calls[t])

USE CellsAssumption, RangesAssumption, StackingAssumption, RefusalsAssumption,
    NoneAssumption, NativeAssumption

-----------------------------------------------------------------------------
(* Ranges and what they hold.                                              *)

\* A range is cells, and its first cell is one of them.
LEMMA RangeFacts ==
  ASSUME NEW range \in Ranges \cup Scratch
  PROVE  /\ range \subseteq Cells /\ range # {}
         /\ PagesOf(range) \subseteq Pages
         /\ First(range) \in PagesOf(range)
<1>1. PICK first, last \in Cells :
        first <= last /\ range = first .. last /\ range \subseteq Cells
  OBVIOUS
<1>2. first \in range /\ \A c \in range : first =< c
  BY <1>1
<1>3. Min(range) \in range
  BY <1>2 DEF Min
<1>4. QED
  BY <1>1, <1>2, <1>3 DEF PagesOf, Pages, First

\* What a range holds is a function on that range.
LEMMA ContentsFacts ==
  ASSUME NEW ranges, NEW f \in Contents(ranges)
  PROVE  DOMAIN f \in ranges /\ f \in [DOMAIN f -> Bytes \cup {Original}]
BY DEF Contents

\* A function on a range is contents of it.
LEMMA ContentsOf ==
  ASSUME NEW ranges, NEW range \in ranges,
         NEW f \in [range -> Bytes \cup {Original}]
  PROVE  f \in Contents(ranges)
BY DEF Contents

\* A call in progress is a call record, its target a range.
LEMMA CallFacts ==
  ASSUME TInv, NEW t \in Threads, calls[t] # None
  PROVE  /\ calls[t] \in CallRecord
         /\ Target(t) \in Ranges \cup Scratch
         /\ calls[t].bytes \in [Target(t) -> Bytes \cup {Original}]
         /\ calls[t].original \in [Target(t) -> Bytes \cup {Original}]
         /\ DOMAIN calls[t].original = Target(t)
<1>1. calls[t] \in CallRecord /\ DOMAIN calls[t].original = Target(t)
  BY DEF TInv, Sound, Target
<1>2. /\ calls[t].bytes \in Contents(Ranges \cup Scratch)
      /\ calls[t].original \in Contents(Ranges \cup Scratch)
  BY <1>1 DEF CallRecord
<1>3. QED
  BY <1>1, <1>2, ContentsFacts DEF Target

\* A recorded patch keeps contents of one range.
LEMMA RecordFacts ==
  ASSUME TInv, NEW n \in Names, records[n] # None
  PROVE  /\ records[n] \in PatchRecord
         /\ DOMAIN records[n].original \in Ranges
         /\ DOMAIN records[n].replacement = DOMAIN records[n].original
         /\ records[n].original \in Contents(Ranges \cup Scratch)
<1>1. /\ records[n] \in PatchRecord
      /\ DOMAIN records[n].replacement = DOMAIN records[n].original
  BY DEF TInv
<1>2. records[n].original \in Contents(Ranges)
  BY <1>1 DEF PatchRecord
<1>3. QED
  BY <1>1, <1>2, ContentsFacts DEF Contents

\* What a thread's call becomes.
LEMMA CallSet ==
  ASSUME TInv, NEW t \in Threads, NEW call, Call(t, call)
  PROVE  calls'[t] = call /\ \A u \in Threads : u # t => calls'[u] = calls[u]
BY DEF TInv, Call

\* A call that becomes a call record, or ends, leaves the calls typed.
LEMMA CallTyped ==
  ASSUME TInv, NEW t \in Threads, NEW call \in CallRecord \cup {None}, Call(t, call),
         call # None => Sound(call)
  PROVE  /\ calls' \in [Threads -> CallRecord \cup {None}]
         /\ \A u \in Threads : calls'[u] # None => Sound(calls'[u])
BY DEF TInv, Call

\* A call that goes on somewhere else is the same call.
LEMMA CallGoes ==
  ASSUME TInv, NEW t \in Threads, NEW where \in Places \ {"protect"},
         calls[t] # None,
         Goes(t, where)
  PROVE  /\ calls' \in [Threads -> CallRecord \cup {None}]
         /\ \A u \in Threads : calls'[u] # None => Sound(calls'[u])
<1> DEFINE call == [calls[t] EXCEPT !.at = where]
<1>1. calls[t] \in CallRecord
  BY CallFacts
<1>2. call \in CallRecord
  BY <1>1 DEF CallRecord
<1>3. Sound(call)
  BY <1>1 DEF CallRecord, Sound, TInv
<1>4. QED
  BY <1>2, <1>3, CallTyped DEF Goes

-----------------------------------------------------------------------------
(* Types.                                                                  *)

\* Init establishes the types.
LEMMA InitTInv == Init => TInv
<1> SUFFICES ASSUME Init PROVE TInv
  OBVIOUS
<1>1. Native \in [Pages -> SUBSET Flags]
  OBVIOUS
<1>2. QED
  BY <1>1 DEF Init, TInv

\* Calls that only go on, or begin, keep the rest of the types.
LEMMA BeginTInv ==
  ASSUME TInv, NEW t \in Threads,
         \/ \E n \in Names : BeginApply(t, n) \/ BeginRestore(t, n)
         \/ BeginWrite(t)
  PROVE  TInv'
<1>1. UNCHANGED <<memory, protection, records, history>>
  BY DEF BeginApply, BeginRestore, BeginWrite
<1>2. ASSUME NEW range \in Ranges \cup Scratch, NEW byte \in Bytes,
             NEW op \in {"apply", "write"}, NEW name \in Names \cup {None},
             op # "write" => range \in Ranges,
             NEW where \in Places \ {"protect"},
             Call(t, [op |-> op, name |-> name, bytes |-> Filled(range, byte),
                      original |-> Filled(range, Original), undo |-> None,
                      at |-> where])
      PROVE  TInv'
  <2>1. /\ Filled(range, byte) \in [range -> Bytes \cup {Original}]
        /\ Filled(range, Original) \in [range -> Bytes \cup {Original}]
    BY DEF Filled
  <2>2. /\ Filled(range, byte) \in Contents(Ranges \cup Scratch)
        /\ Filled(range, Original) \in Contents(Ranges \cup Scratch)
    BY <2>1, ContentsOf
  <2> DEFINE call == [op |-> op, name |-> name, bytes |-> Filled(range, byte),
                      original |-> Filled(range, Original), undo |-> None,
                      at |-> where]
  <2>3. call \in CallRecord
    BY <2>2 DEF CallRecord
  <2>4. Sound(call)
    BY <1>2 DEF Filled, Sound
  <2>5. QED
    BY <1>1, <1>2, <2>3, <2>4, CallTyped DEF TInv, Target, history
<1>3. ASSUME NEW n \in Names, BeginApply(t, n) PROVE TInv'
  BY <1>2, <1>3 DEF BeginApply, Places
<1>4. CASE BeginWrite(t)
  BY <1>2, <1>4 DEF BeginWrite, Places
<1>5. ASSUME NEW n \in Names, BeginRestore(t, n) PROVE TInv'
  <2> DEFINE call == [op |-> "restore", name |-> n, bytes |-> records[n].original,
                      original |-> records[n].original, undo |-> None,
                      at |-> "query"]
  <2>1. Call(t, call) /\ records[n].original \in Contents(Ranges \cup Scratch)
    BY <1>5, RecordFacts DEF BeginRestore
  <2>2. call \in CallRecord
    BY <2>1 DEF CallRecord, Places
  <2>3. Sound(call)
    BY <1>5, RecordFacts DEF BeginRestore, Sound
  <2>4. QED
    BY <1>1, <2>1, <2>2, <2>3, CallTyped DEF TInv, history
<1>6. QED
  BY <1>3, <1>4, <1>5

\* Changing the protection of a range.
LEMMA ProtectionTyped ==
  ASSUME TInv, NEW range, NEW flags \in SUBSET Flags, SetProtection(range, flags)
  PROVE  protection' \in [Pages -> SUBSET Flags]
<1>1. Effective(flags) \in SUBSET Flags
  BY DEF Effective, Flags
<1>2. QED
  BY <1>1 DEF TInv, SetProtection

\* Writing some of a range.
LEMMA MemoryTyped ==
  ASSUME TInv, NEW range, NEW bytes \in [range -> Bytes \cup {Original}],
         NEW part \in SUBSET range, WriteBytes(part, bytes)
  PROVE  memory' \in [Cells -> Bytes \cup {Original}]
BY DEF TInv, WriteBytes

\* What is put back is a protection.
LEMMA UndoTyped ==
  ASSUME TInv, NEW t \in Threads, calls[t] # None, UndoProtection(t)
  PROVE  protection' \in [Pages -> SUBSET Flags]
<1>1. calls[t].undo \in {None} \cup SUBSET Flags
  BY CallFacts DEF CallRecord
<1>2. QED
  BY <1>1, ProtectionTyped DEF UndoProtection, TInv

\* The steps of the protected write keep the types.
LEMMA WriteTInv ==
  ASSUME TInv, NEW t \in Threads,
         \/ ReadOriginal(t) \/ Query(t) \/ Protect(t) \/ ProtectRefused(t)
         \/ Write(t) \/ WriteRefused(t) \/ Unwind(t) \/ Undo(t) \/ UndoRefused(t)
  PROVE  TInv'
<1>1. calls[t] # None
  BY DEF ReadOriginal, Query, Protect, ProtectRefused, Write, WriteRefused, Unwind,
         Undo, UndoRefused, At
<1>2. /\ calls[t] \in CallRecord /\ Target(t) \in Ranges \cup Scratch
      /\ calls[t].bytes \in [Target(t) -> Bytes \cup {Original}]
      /\ DOMAIN calls[t].original = Target(t)
      /\ Target(t) \subseteq Cells /\ PagesOf(Target(t)) \subseteq Pages
      /\ First(Target(t)) \in Pages
  BY <1>1, CallFacts, RangeFacts
<1>3. ASSUME Ends(t) \/ \E where \in Places \ {"protect"} : Goes(t, where)
      PROVE  /\ calls' \in [Threads -> CallRecord \cup {None}]
             /\ \A u \in Threads : calls'[u] # None => Sound(calls'[u])
  BY <1>1, <1>3, CallGoes, CallTyped DEF Ends
<1>4. ASSUME NEW call, call = [calls[t] EXCEPT !.at = call.at, !.undo = call.undo],
             call.at \in Places, call.undo \in SUBSET Flags, Call(t, call)
      PROVE  /\ calls' \in [Threads -> CallRecord \cup {None}]
             /\ \A u \in Threads : calls'[u] # None => Sound(calls'[u])
  <2>1. /\ call \in CallRecord /\ call.original = calls[t].original
        /\ call.bytes = calls[t].bytes /\ call.op = calls[t].op
    BY <1>2, <1>4 DEF CallRecord
  <2>2. Sound(call)
    BY <1>1, <1>4, <2>1 DEF Sound, TInv
  <2>3. QED
    BY <1>4, <2>1, <2>2, CallTyped
<1>5. CASE ReadOriginal(t)
  <2>1. CASE Ends(t)
    BY <1>3, <1>5, <2>1 DEF ReadOriginal, TInv, Target, history
  <2>2. CASE Call(t, [calls[t] EXCEPT !.original = Snapshot(DOMAIN @), !.at = "query"])
    <3> DEFINE call == [calls[t] EXCEPT !.original = Snapshot(DOMAIN @), !.at = "query"]
    <3>1. Snapshot(Target(t)) \in [Target(t) -> Bytes \cup {Original}]
      BY <1>2 DEF Snapshot, TInv
    <3>2. Snapshot(Target(t)) \in Contents(Ranges \cup Scratch)
      BY <1>2, <3>1, ContentsOf
    <3>3. /\ call \in CallRecord /\ call.bytes = calls[t].bytes
          /\ call.original = Snapshot(Target(t))
      BY <1>2, <3>2 DEF CallRecord, Places
    <3>4. Sound(call)
      BY <1>1, <1>2, <3>1, <3>3 DEF Target, Sound, CallRecord, TInv
    <3>5. QED
      BY <1>5, <2>2, <3>3, <3>4, CallTyped DEF ReadOriginal, TInv, Target, history
  <2>3. QED
    BY <1>5, <2>1, <2>2 DEF ReadOriginal
<1>6. CASE Query(t)
  <2>1. MakeWritable(protection[First(Target(t))]) \in SUBSET Flags
    BY <1>2 DEF TInv, MakeWritable, Flags
  <2> DEFINE call == [calls[t] EXCEPT
                        !.at = "protect",
                        !.undo = MakeWritable(protection[First(Target(t))])]
  <2>2. CASE Call(t, call)
    <3>1. /\ call = [calls[t] EXCEPT !.at = call.at, !.undo = call.undo]
          /\ call.at \in Places /\ call.undo \in SUBSET Flags
      BY <1>2, <2>1 DEF CallRecord, Places
    <3>2. QED
      BY <1>4, <1>6, <2>2, <3>1 DEF Query, TInv, Target, history
  <2>3. CASE Goes(t, "write")
    BY <1>3, <1>6, <2>3 DEF Query, TInv, Target, history, Places
  <2>4. QED
    BY <1>6, <2>2, <2>3 DEF Query
<1>7. CASE Protect(t)
  <2> DEFINE call == [calls[t] EXCEPT !.at = "write",
                                      !.undo = protection[First(Target(t))]]
  <2>1. /\ call = [calls[t] EXCEPT !.at = call.at, !.undo = call.undo]
        /\ call.at \in Places /\ call.undo \in SUBSET Flags
    BY <1>2 DEF CallRecord, Places, TInv
  <2>2. calls[t].undo \in SUBSET Flags
    BY <1>1, <1>2, <1>7 DEF CallRecord, Protect, At, TInv, Sound
  <2>3. protection' \in [Pages -> SUBSET Flags]
    BY <1>7, <2>2, ProtectionTyped DEF Protect
  <2>4. QED
    BY <1>4, <1>7, <2>1, <2>3 DEF Protect, TInv, history
<1>8. CASE ProtectRefused(t)
  BY <1>3, <1>8 DEF ProtectRefused, TInv, Target, history
<1>9. CASE Write(t)
  <2>1. memory' \in [Cells -> Bytes \cup {Original}]
    BY <1>2, <1>9, MemoryTyped DEF Write
  <2>2. QED
    BY <1>3, <1>9, <2>1 DEF Write, TInv, Target, history, Places
<1>10. CASE WriteRefused(t)
  <2>1. PICK part \in SUBSET Target(t) :
          /\ WriteBytes(part, calls[t].bytes)
          /\ unrecorded' \subseteq unrecorded \cup part
    BY <1>10 DEF WriteRefused, Leaves
  <2>2. memory' \in [Cells -> Bytes \cup {Original}]
    BY <1>2, <2>1, MemoryTyped
  <2>3. unrecorded' \subseteq Cells
    BY <1>2, <2>1 DEF TInv
  <2>4. QED
    BY <1>3, <1>10, <2>2, <2>3 DEF WriteRefused, TInv, Target, Places
<1>11. CASE Unwind(t)
  <2>1. protection' \in [Pages -> SUBSET Flags] /\ exposed' \subseteq Pages
    BY <1>1, <1>2, <1>11, UndoTyped DEF Unwind, UndoThrows, TInv
  <2>2. QED
    BY <1>3, <1>11, <2>1 DEF Unwind, TInv, Target
<1>12. CASE Undo(t)
  <2>1. protection' \in [Pages -> SUBSET Flags]
    BY <1>1, <1>12, UndoTyped DEF Undo
  <2>2. QED
    BY <1>3, <1>12, <2>1 DEF Undo, TInv, Target, history, Places
<1>13. CASE UndoRefused(t)
  <2>1. unrecorded' \subseteq Cells /\ exposed' \subseteq Pages
    BY <1>2, <1>13 DEF UndoRefused, UndoThrows, Leaves, TInv
  <2>2. QED
    BY <1>3, <1>13, <2>1 DEF UndoRefused, UndoThrows, TInv, Target
<1>14. QED
  BY <1>5, <1>6, <1>7, <1>8, <1>9, <1>10, <1>11, <1>12, <1>13

\* So do the steps that end with the record table.
LEMMA RecordTInv ==
  ASSUME TInv, NEW t \in Threads,
         RecordPatch(t) \/ ErasePatch(t) \/ FinishWrite(t)
  PROVE  TInv'
<1>1. calls[t] # None /\ Ends(t) /\ UNCHANGED <<memory, protection, history>>
  BY DEF RecordPatch, ErasePatch, FinishWrite, Record, At
<1>2. /\ calls' \in [Threads -> CallRecord \cup {None}]
      /\ \A u \in Threads : calls'[u] # None => Sound(calls'[u])
  BY <1>1, CallTyped DEF Ends
<1>3. CASE FinishWrite(t)
  BY <1>1, <1>2, <1>3 DEF FinishWrite, TInv, history
<1>4. CASE ErasePatch(t)
  BY <1>1, <1>2, <1>4 DEF ErasePatch, Record, TInv, history
<1>5. CASE RecordPatch(t)
  <2> DEFINE record == [original |-> calls[t].original,
                        replacement |-> calls[t].bytes]
  <2>1. /\ calls[t].bytes \in [Target(t) -> Bytes \cup {Original}]
        /\ calls[t].original \in [Target(t) -> Bytes \cup {Original}]
        /\ DOMAIN calls[t].original = Target(t)
    BY <1>1, CallFacts
  <2>2. Target(t) \in Ranges
    BY <1>1, <1>5 DEF RecordPatch, TInv, Sound, Target
  <2>3. record \in PatchRecord /\ DOMAIN record.original = DOMAIN record.replacement
    BY <2>1, <2>2, ContentsOf DEF PatchRecord
  <2>4. records' = [records EXCEPT ![calls[t].name] = record]
    BY <1>5 DEF RecordPatch, Record
  <2>5. /\ records' \in [Names -> PatchRecord \cup {None}]
        /\ \A n \in Names : records'[n] # None =>
             DOMAIN records'[n].replacement = DOMAIN records'[n].original
    BY <2>3, <2>4 DEF TInv
  <2>6. QED
    BY <1>1, <1>2, <2>5 DEF TInv, history
<1>6. QED
  BY <1>3, <1>4, <1>5

\* Every step keeps the types.
LEMMA NextTInv == TInv /\ [Next]_vars => TInv'
<1>1. ASSUME TInv, Next PROVE TInv'
  BY <1>1, BeginTInv, WriteTInv, RecordTInv DEF Next
<1>2. ASSUME TInv, UNCHANGED vars PROVE TInv'
  BY <1>2 DEF TInv, vars, history
<1>3. QED
  BY <1>1, <1>2

-----------------------------------------------------------------------------
(* Protections.                                                            *)

\* The call holds a protection that it will put back.
Lifted(t) == calls[t].at \in {"write", "undo", "unwind"} /\ calls[t].undo # None

\* Nothing is held before the region was looked at; what is held, or about to
\* be, is the protection of a page that was not writable.
HeldReadOnly(t) ==
  /\ calls[t].at \in {"read", "query"} => calls[t].undo = None
  /\ calls[t].at = "protect" => ~IsWritable(protection[First(Target(t))])
  /\ Lifted(t) => ~IsWritable(calls[t].undo)

UInv == TInv /\ \A t \in Threads : calls[t] # None => HeldReadOnly(t)

\* A call that begins holds nothing.
LEMMA BeginHolds ==
  ASSUME TInv, NEW t \in Threads,
         \/ \E n \in Names : BeginApply(t, n) \/ BeginRestore(t, n)
         \/ BeginWrite(t)
  PROVE  /\ calls[t] = None /\ UNCHANGED <<memory, protection, records, history>>
         /\ calls'[t].at \in {"read", "query"} /\ calls'[t].undo = None
<1>1. CASE BeginWrite(t)
  BY <1>1, CallSet DEF BeginWrite
<1>2. ASSUME NEW n \in Names, BeginApply(t, n)
      PROVE  /\ calls[t] = None /\ UNCHANGED <<memory, protection, records, history>>
             /\ calls'[t].at \in {"read", "query"} /\ calls'[t].undo = None
  BY <1>2, CallSet DEF BeginApply
<1>3. ASSUME NEW n \in Names, BeginRestore(t, n)
      PROVE  /\ calls[t] = None /\ UNCHANGED <<memory, protection, records, history>>
             /\ calls'[t].at \in {"read", "query"} /\ calls'[t].undo = None
  BY <1>3, CallSet DEF BeginRestore
<1>4. QED
  BY <1>1, <1>2, <1>3

\* A call that goes on elsewhere keeps all it has.
LEMMA GoesFacts ==
  ASSUME TInv, NEW t \in Threads, calls[t] # None, NEW where, Goes(t, where)
  PROVE  /\ calls'[t].at = where
         /\ calls'[t].op = calls[t].op /\ calls'[t].name = calls[t].name
         /\ calls'[t].bytes = calls[t].bytes
         /\ calls'[t].original = calls[t].original
         /\ calls'[t].undo = calls[t].undo
         /\ Target(t)' = Target(t)
<1>1. calls[t] \in CallRecord /\ calls'[t] = [calls[t] EXCEPT !.at = where]
  BY CallFacts, CallSet DEF Goes
<1>2. QED
  BY <1>1 DEF CallRecord, Target

\* A call that goes on is still a call.
LEMMA GoesOn ==
  ASSUME TInv, NEW t \in Threads, calls[t] # None, NEW where \in Places,
         Goes(t, where)
  PROVE  calls'[t] # None
<1>1. /\ calls[t] \in CallRecord
      /\ calls'[t] = [calls[t] EXCEPT !.at = where]
  BY CallFacts, CallSet DEF Goes
<1>2. calls'[t] \in CallRecord
  BY <1>1 DEF CallRecord
<1>3. QED
  BY <1>2

\* So is one that made its range writable; it remembers the protection of
\* the first page.
LEMMA ProtectFacts ==
  ASSUME TInv, NEW t \in Threads, Protect(t)
  PROVE  /\ calls'[t] # None /\ calls'[t].at = "write"
         /\ calls'[t].undo = protection[First(Target(t))]
         /\ calls'[t].op = calls[t].op /\ calls'[t].name = calls[t].name
         /\ calls'[t].bytes = calls[t].bytes
         /\ calls'[t].original = calls[t].original
         /\ Target(t)' = Target(t)
<1> DEFINE held == protection[First(Target(t))]
<1>1. calls[t] \in CallRecord /\ First(Target(t)) \in Pages
  BY CallFacts, RangeFacts DEF Protect, At
<1>2. held \in SUBSET Flags
  BY <1>1 DEF TInv
<1>3. calls'[t] = [calls[t] EXCEPT !.at = "write", !.undo = held]
  BY CallSet DEF Protect
<1> HIDE DEF held
<1>4. calls'[t] \in CallRecord
  BY <1>1, <1>2, <1>3 DEF CallRecord, Places
<1>5. /\ calls'[t].at = "write" /\ calls'[t].undo = held
      /\ calls'[t].op = calls[t].op /\ calls'[t].name = calls[t].name
      /\ calls'[t].bytes = calls[t].bytes
      /\ calls'[t].original = calls[t].original
  BY <1>1, <1>3 DEF CallRecord
<1>6. QED
  BY <1>4, <1>5 DEF held, Target

\* A call that lifts a protection, or is about to.
LEMMA QueryFacts ==
  ASSUME TInv, NEW t \in Threads, calls[t] # None, NEW where, NEW undo,
         Call(t, [calls[t] EXCEPT !.at = where, !.undo = undo])
  PROVE  /\ calls'[t].at = where /\ calls'[t].undo = undo
         /\ calls'[t].op = calls[t].op /\ calls'[t].name = calls[t].name
         /\ calls'[t].bytes = calls[t].bytes
         /\ calls'[t].original = calls[t].original
         /\ Target(t)' = Target(t)
<1>1. /\ calls[t] \in CallRecord
      /\ calls'[t] = [calls[t] EXCEPT !.at = where, !.undo = undo]
  BY CallFacts, CallSet
<1>2. QED
  BY <1>1 DEF CallRecord, Target

\* ReadOriginal that goes on.
LEMMA ReadFacts ==
  ASSUME TInv, NEW t \in Threads, calls[t] # None,
         Call(t, [calls[t] EXCEPT !.original = Snapshot(DOMAIN @), !.at = "query"])
  PROVE  /\ calls'[t].at = "query" /\ calls'[t].undo = calls[t].undo
         /\ calls'[t].op = calls[t].op /\ calls'[t].name = calls[t].name
         /\ calls'[t].bytes = calls[t].bytes
         /\ calls'[t].original = Snapshot(Target(t))
         /\ Target(t)' = Target(t)
<1>1. /\ calls[t] \in CallRecord /\ DOMAIN calls[t].original = Target(t)
      /\ calls'[t] = [calls[t] EXCEPT !.original = Snapshot(DOMAIN @), !.at = "query"]
  BY CallFacts, CallSet
<1>2. QED
  BY <1>1 DEF CallRecord, Target

\* A thread alone holds the protections it found.
LEMMA NextUInv ==
  ASSUME OneAtATime, UInv, [Next]_vars
  PROVE  UInv'
<1>0. TInv /\ TInv'
  BY NextTInv DEF UInv
<1>1. CASE UNCHANGED vars
  BY <1>0, <1>1 DEF UInv, HeldReadOnly, Lifted, Target, First, vars
<1>2. ASSUME NEW t \in Threads, calls'[t] = None \/ HeldReadOnly(t)'
      PROVE  UInv'
  BY <1>0, <1>2 DEF UInv, OneAtATime
<1>3. ASSUME NEW t \in Threads,
             \/ \E n \in Names : BeginApply(t, n) \/ BeginRestore(t, n)
             \/ BeginWrite(t)
      PROVE  UInv'
  BY <1>0, <1>2, <1>3, BeginHolds DEF HeldReadOnly, Lifted
<1>4. ASSUME NEW t \in Threads, Ends(t)
      PROVE  UInv'
  BY <1>0, <1>2, <1>4, CallSet DEF Ends
<1>5. ASSUME NEW t \in Threads, ReadOriginal(t) PROVE UInv'
  <2>1. CASE Call(t, [calls[t] EXCEPT !.original = Snapshot(DOMAIN @), !.at = "query"])
    BY <1>0, <1>2, <1>5, <2>1, ReadFacts DEF ReadOriginal, At, UInv, HeldReadOnly, Lifted
  <2>2. QED
    BY <1>4, <1>5, <2>1 DEF ReadOriginal
<1>6. ASSUME NEW t \in Threads, Query(t) PROVE UInv'
  <2>0. calls[t] # None /\ calls[t].undo = None
    BY <1>6 DEF Query, At, UInv, HeldReadOnly
  <2>1. CASE Goes(t, "write")
    BY <1>0, <1>2, <2>0, <2>1, GoesFacts DEF HeldReadOnly, Lifted
  <2>2. CASE ~IsWritable(protection[First(Target(t))])
    <3>1. /\ calls'[t].at = "protect" /\ Target(t)' = Target(t)
          /\ UNCHANGED protection
      BY <1>0, <1>6, <2>0, <2>2, QueryFacts DEF Query
    <3>2. QED
      BY <1>2, <2>2, <3>1 DEF HeldReadOnly, Lifted, First
  <2>3. QED
    BY <1>6, <2>1, <2>2 DEF Query
<1>7. ASSUME NEW t \in Threads, Protect(t) PROVE UInv'
  <2>1. /\ calls'[t].at = "write"
        /\ calls'[t].undo = protection[First(Target(t))]
        /\ ~IsWritable(protection[First(Target(t))])
    BY <1>0, <1>7, ProtectFacts DEF Protect, At, UInv, HeldReadOnly
  <2>2. QED
    BY <1>2, <2>1 DEF HeldReadOnly, Lifted
<1>8. ASSUME NEW t \in Threads, Write(t) \/ WriteRefused(t) \/ Undo(t) PROVE UInv'
  <2>1. /\ calls[t] # None /\ calls[t].at \in {"write", "undo"}
        /\ \E where \in {"undo", "unwind", "record"} : Goes(t, where)
    BY <1>8 DEF Write, WriteRefused, Undo, At
  <2>2. /\ calls'[t].at \in {"undo", "unwind", "record"}
        /\ calls'[t].undo = calls[t].undo
    BY <1>0, <2>1, GoesFacts
  <2>3. QED
    BY <1>2, <2>1, <2>2 DEF UInv, HeldReadOnly, Lifted
<1>9. ASSUME NEW t \in Threads,
             \/ ProtectRefused(t) \/ Unwind(t) \/ UndoRefused(t)
             \/ RecordPatch(t) \/ ErasePatch(t) \/ FinishWrite(t)
      PROVE  UInv'
  BY <1>4, <1>9 DEF ProtectRefused, Unwind, UndoRefused, RecordPatch, ErasePatch,
                    Record, FinishWrite
<1>10. QED
  BY <1>1, <1>3, <1>5, <1>6, <1>7, <1>8, <1>9 DEF Next

\* Every variable keeps its type, and a call puts back the protection of a
\* page that was not writable, as long as the calls come one at a time.
THEOREM TypeCorrect == ASSUME OneAtATime PROVE Spec => []TypeOK
<1>1. Init => UInv
  BY InitTInv DEF Init, UInv
<1>2. UInv /\ [Next]_vars => UInv'
  BY NextUInv
<1>3. UInv => TypeOK
  BY DEF UInv, TInv, TypeOK, HeldReadOnly, Lifted, Sound, Target
<1>4. QED
  BY <1>1, <1>2, <1>3, PTL DEF Spec

\* Pages that are lifted are the ones a call is going to put back, and what it
\* puts back is what the program gave them.
PInv ==
  /\ TInv
  /\ \A t \in Threads : calls[t] # None =>
       /\ calls[t].at \in {"read", "query"} => calls[t].undo = None
       /\ Lifted(t) => \A p \in PagesOf(Target(t)) \ exposed : calls[t].undo = Native[p]
  /\ \A p \in Pages \ exposed :
       \/ protection[p] = Native[p]
       \/ \E t \in Threads :
            calls[t] # None /\ Lifted(t) /\ p \in PagesOf(Target(t))

\* Unless it is lifted by this call, a page is as the program has it.
LEMMA AloneNative ==
  ASSUME OneAtATime, PInv, NEW t \in Threads, calls[t] = None \/ ~Lifted(t),
         NEW p \in Pages \ exposed
  PROVE  protection[p] = Native[p]
BY DEF OneAtATime, PInv

\* One call's step keeps PInv if it keeps that call's part.
LEMMA PInvOf ==
  ASSUME OneAtATime, TInv', NEW t \in Threads,
         calls'[t] # None =>
           /\ calls'[t].at \in {"read", "query"} => calls'[t].undo = None
           /\ Lifted(t)' => \A p \in PagesOf(Target(t)') \ exposed' :
                              calls'[t].undo = Native[p],
         \A p \in Pages \ exposed' :
           \/ protection'[p] = Native[p]
           \/ calls'[t] # None /\ Lifted(t)' /\ p \in PagesOf(Target(t)')
  PROVE  PInv'
<1>1. \A u \in Threads : u = t
  BY DEF OneAtATime
<1>2. QED
  BY <1>1 DEF PInv, PagesOf

\* Putting back what was lifted.
LEMMA UndoNative ==
  ASSUME OneAtATime, PInv, NEW t \in Threads, calls[t] # None,
         calls[t].at \in {"undo", "unwind"}, UndoProtection(t),
         NEW p \in Pages \ exposed
  PROVE  protection'[p] = Native[p]
<1>1. CASE calls[t].undo = None
  BY <1>1, AloneNative DEF UndoProtection, Lifted
<1>2. CASE calls[t].undo # None
  <2>1. Lifted(t)
    BY <1>2 DEF Lifted
  <2>2. protection'[p] = IF p \in PagesOf(Target(t)) THEN Effective(calls[t].undo)
                         ELSE protection[p]
    BY <1>2 DEF UndoProtection, SetProtection
  <2>3. p \notin PagesOf(Target(t)) => protection[p] = Native[p]
    BY DEF OneAtATime, PInv
  <2>4. p \in PagesOf(Target(t)) => calls[t].undo = Native[p]
    BY <2>1 DEF PInv
  <2>5. QED
    BY <2>2, <2>3, <2>4
<1>3. QED
  BY <1>1, <1>2

\* A refused undo takes its pages out of the account.
LEMMA ThrowsNative ==
  ASSUME OneAtATime, PInv, NEW t \in Threads, UndoThrows(t),
         NEW p \in Pages \ exposed'
  PROVE  protection'[p] = Native[p]
<1>1. p \notin exposed /\ p \notin PagesOf(Target(t)) /\ UNCHANGED protection
  BY DEF UndoThrows
<1>2. QED
  BY <1>1 DEF OneAtATime, PInv

\* No step of the one call leaves a page lifted that it does not hold.
LEMMA NextPInv ==
  ASSUME OneAtATime, PageLocal, PInv, [Next]_vars
  PROVE  PInv'
<1>0. TInv /\ TInv'
  BY NextTInv DEF PInv
<1>1. CASE UNCHANGED vars
  BY <1>0, <1>1 DEF PInv, Lifted, Target, PagesOf, vars, history
<1>2. ASSUME NEW t \in Threads,
             \/ \E n \in Names : BeginApply(t, n) \/ BeginRestore(t, n)
             \/ BeginWrite(t)
      PROVE  PInv'
  <2>1. /\ calls[t] = None /\ UNCHANGED <<protection, exposed>> /\ ~Lifted(t)'
        /\ calls'[t].undo = None
    BY <1>0, <1>2, BeginHolds DEF history, Lifted
  <2>2. QED
    BY <1>0, <2>1, AloneNative, PInvOf
<1>3. ASSUME NEW t \in Threads, Ends(t), calls[t] # None, ~Lifted(t),
             UNCHANGED <<protection, exposed>>
      PROVE  PInv'
  BY <1>0, <1>3, CallSet, AloneNative, PInvOf DEF Ends
<1>4. ASSUME NEW t \in Threads, ReadOriginal(t) PROVE PInv'
  <2>0. /\ calls[t] # None /\ ~Lifted(t) /\ calls[t].undo = None
        /\ UNCHANGED <<protection, exposed>>
    BY <1>4 DEF ReadOriginal, At, Lifted, PInv, history
  <2>1. CASE Call(t, [calls[t] EXCEPT !.original = Snapshot(DOMAIN @), !.at = "query"])
    <3>1. calls'[t].undo = None /\ ~Lifted(t)'
      BY <1>0, <2>0, <2>1, ReadFacts DEF Lifted
    <3>2. QED
      BY <1>0, <2>0, <3>1, AloneNative, PInvOf
  <2>2. QED
    BY <1>3, <1>4, <2>0, <2>1 DEF ReadOriginal
<1>5. ASSUME NEW t \in Threads, Query(t) PROVE PInv'
  <2>0. /\ calls[t] # None /\ ~Lifted(t) /\ calls[t].undo = None
        /\ UNCHANGED <<protection, exposed>>
    BY <1>5 DEF Query, At, Lifted, PInv, history
  <2>1. ~Lifted(t)' /\ calls'[t].at \in {"write", "protect"}
    <3>1. CASE Goes(t, "write")
      BY <1>0, <2>0, <3>1, GoesFacts DEF Lifted
    <3> DEFINE held == MakeWritable(protection[First(Target(t))])
    <3>2. CASE Call(t, [calls[t] EXCEPT !.at = "protect", !.undo = held])
      <4> HIDE DEF held
      <4>1. calls'[t].at = "protect"
        BY <1>0, <2>0, <3>2, QueryFacts
      <4>2. QED
        BY <4>1 DEF Lifted
    <3>3. QED
      BY <1>5, <3>1, <3>2 DEF Query
  <2>2. QED
    BY <1>0, <2>0, <2>1, AloneNative, PInvOf
<1>6. ASSUME NEW t \in Threads, Protect(t) PROVE PInv'
  <2>0. /\ calls[t] # None /\ ~Lifted(t) /\ UNCHANGED exposed
        /\ SetProtection(Target(t), calls[t].undo)
    BY <1>6 DEF Protect, At, Lifted, history
  <2>1. /\ calls'[t].at = "write" /\ Target(t)' = Target(t)
        /\ calls'[t].undo = protection[First(Target(t))]
    BY <1>0, <1>6, ProtectFacts
  <2>2. /\ Target(t) \in Ranges \cup Scratch
        /\ PagesOf(Target(t)) = {First(Target(t))} /\ First(Target(t)) \in Pages
    BY <1>0, <2>0, CallFacts, RangeFacts DEF PageLocal
  <2>3. protection[First(Target(t))] # None
    BY <1>0, <2>2 DEF TInv
  <2>4. calls'[t] # None /\ Lifted(t)'
    BY <1>0, <1>6, <2>1, <2>3, ProtectFacts DEF Lifted
  <2>5. \A p \in PagesOf(Target(t)') \ exposed' : calls'[t].undo = Native[p]
    BY <2>0, <2>1, <2>2, AloneNative
  <2>6. ASSUME NEW p \in Pages \ exposed', p \notin PagesOf(Target(t)')
        PROVE  protection'[p] = Native[p]
    <3>1. protection'[p] = protection[p]
      BY <2>0, <2>1, <2>6 DEF SetProtection
    <3>2. QED
      BY <2>0, <2>6, <3>1, AloneNative
  <2>7. QED
    BY <1>0, <2>0, <2>1, <2>4, <2>5, <2>6, PInvOf
<1>7. ASSUME NEW t \in Threads, Write(t) \/ WriteRefused(t) PROVE PInv'
  <2>1. /\ calls[t] # None /\ calls[t].at = "write"
        /\ \E where \in {"undo", "unwind"} : Goes(t, where)
        /\ UNCHANGED <<protection, exposed>>
    BY <1>7 DEF Write, WriteRefused, At, history
  <2>2. /\ calls'[t].at \in {"undo", "unwind"} /\ Target(t)' = Target(t)
        /\ calls'[t].undo = calls[t].undo
    BY <1>0, <2>1, GoesFacts
  <2>3. Lifted(t)' = Lifted(t)
    BY <2>1, <2>2 DEF Lifted
  <2>4. ASSUME NEW p \in Pages \ exposed
        PROVE  protection[p] = Native[p] \/ (Lifted(t) /\ p \in PagesOf(Target(t)))
    <3>1. \A u \in Threads : u = t
      BY DEF OneAtATime
    <3>2. QED
      BY <3>1 DEF PInv
  <2>5. Lifted(t) => \A p \in PagesOf(Target(t)) \ exposed : calls[t].undo = Native[p]
    BY <2>1 DEF PInv
  <2>6. calls'[t] # None
    BY <1>0, <2>1, GoesOn DEF Places
  <2>7. QED
    BY <1>0, <2>1, <2>2, <2>3, <2>4, <2>5, <2>6, PInvOf
<1>8. ASSUME NEW t \in Threads, Undo(t) PROVE PInv'
  <2>1. /\ calls[t] # None /\ calls[t].at = "undo" /\ UndoProtection(t)
        /\ Goes(t, "record") /\ UNCHANGED exposed
    BY <1>8 DEF Undo, At, history
  <2>2. calls'[t].at = "record" /\ ~Lifted(t)'
    BY <1>0, <2>1, GoesFacts DEF Lifted
  <2>3. \A p \in Pages \ exposed' : protection'[p] = Native[p]
    BY <2>1, UndoNative
  <2>4. QED
    BY <1>0, <2>2, <2>3, PInvOf
<1>9. ASSUME NEW t \in Threads, Unwind(t) \/ UndoRefused(t) PROVE PInv'
  <2>1. calls'[t] = None
    BY <1>0, <1>9, CallSet DEF Unwind, UndoRefused, Ends
  <2>2. \A p \in Pages \ exposed' : protection'[p] = Native[p]
    BY <1>9, UndoNative, ThrowsNative DEF Unwind, UndoRefused, At
  <2>3. QED
    BY <1>0, <2>1, <2>2, PInvOf
<1>10. ASSUME NEW t \in Threads,
              ProtectRefused(t) \/ RecordPatch(t) \/ ErasePatch(t) \/ FinishWrite(t)
       PROVE  PInv'
  BY <1>3, <1>10 DEF ProtectRefused, RecordPatch, ErasePatch, FinishWrite, Record,
                     At, Lifted, history
<1>11. QED
  BY <1>1, <1>2, <1>4, <1>5, <1>6, <1>7, <1>8, <1>9, <1>10 DEF Next

\* Between calls every page has the protection the program gave it, unless
\* the backend refused to put it back.
THEOREM ProtectionsKept ==
  ASSUME OneAtATime, PageLocal
  PROVE  Spec => []ProtectionUndone
<1>1. Init => PInv
  BY InitTInv DEF Init, PInv
<1>2. PInv /\ [Next]_vars => PInv'
  BY NextPInv
<1>3. PInv => ProtectionUndone
  BY DEF PInv, ProtectionUndone
<1>4. QED
  BY <1>1, <1>2, <1>3, PTL DEF Spec

-----------------------------------------------------------------------------
(* Records.                                                                *)

\* The cells of the call hold what they held before the first patch, but where
\* an apply that threw has left a change.
Unpatched(t) == \A c \in Target(t) : memory[c] = Original <=> c \notin unrecorded

\* What a call knows.  apply: its name is free, its cells no record and no
\* plain write covers, they are unpatched until the write and what is asked
\* for after it, and what it read is what unpatched cells hold, until it throws.
\* restore: its record is there, it writes back what unpatched cells hold, and
\* then its cells are unpatched.
CallOK(t) ==
  /\ calls[t].op = "apply" =>
       /\ calls[t].name \in Names /\ records[calls[t].name] = None
       /\ Target(t) \cap PatchedCells = {}
       /\ Target(t) \cap UNION Scratch = {}
       /\ calls[t].at \notin {"read", "unwind"} =>
            \A c \in Target(t) : calls[t].original[c] = Original <=> c \notin unrecorded
       /\ calls[t].at \notin {"undo", "record"} => Unpatched(t)
       /\ calls[t].at \in {"undo", "record"} =>
            \A c \in Target(t) : memory[c] = calls[t].bytes[c]
  /\ calls[t].op = "restore" =>
       /\ calls[t].name \in Names /\ records[calls[t].name] # None
       /\ DOMAIN records[calls[t].name].original = Target(t)
       /\ \A c \in Target(t) : calls[t].bytes[c] = Original <=> c \notin unrecorded
       /\ calls[t].at \in {"undo", "record"} => Unpatched(t)
  /\ calls[t].op = "write" => Target(t) \in Scratch

\* No two records cover the same cell.
OneRecord ==
  \A n, m \in Names :
    n # m /\ records[n] # None /\ records[m] # None =>
      DOMAIN records[n].original \cap DOMAIN records[m].original = {}

\* What an apply that threw has left changed stays so while no patch and no
\* call covers it.
LeftChanged ==
  \A c \in unrecorded :
    /\ c \notin UNION Scratch
    /\ c \notin PatchedCells \cup BusyCells => memory[c] # Original

RInv ==
  /\ TInv
  /\ LeftChanged
  /\ OneRecord
  /\ ChangesRecorded
  /\ OriginalsKept
  /\ \A t \in Threads : calls[t] # None => CallOK(t)

\* Which cells records cover, and which cells the one call covers.
LEMMA CoverFacts ==
  ASSUME OneAtATime, TInv, NEW t \in Threads
  PROVE  /\ \A c : c \in PatchedCells <=>
              \E n \in Names : records[n] # None /\ c \in DOMAIN records[n].original
         /\ \A c : c \in BusyCells <=> calls[t] # None /\ c \in Target(t)
<1>1. \A c : c \in PatchedCells <=>
        \E n \in Names : records[n] # None /\ c \in DOMAIN records[n].original
  BY DEF PatchedCells, TInv
<1>2. \A u \in Threads : u = t
  BY DEF OneAtATime
<1>3. \A c : c \in BusyCells <=> calls[t] # None /\ c \in Target(t)
  BY <1>2 DEF BusyCells, Target
<1>4. QED
  BY <1>1, <1>3

\* A call that gives up before its write is done, or after its cells were put
\* back, leaves no change that nobody knows of, and takes none away.
LEMMA EndHarmless ==
  ASSUME OneAtATime, RInv, NEW t \in Threads, calls[t] # None,
         calls[t].op = "apply" => calls[t].at \notin {"undo", "record"},
         NEW c \in Cells \ UNION Scratch, c \in Target(t), c \notin PatchedCells
  PROVE  memory[c] = Original <=> c \notin unrecorded
<1>1. CallOK(t) /\ calls[t].op \in {"apply", "restore", "write"}
  BY CallFacts DEF RInv, CallRecord
<1>2. CASE calls[t].op = "apply"
  BY <1>1, <1>2 DEF CallOK, Unpatched
<1>3. CASE calls[t].op = "restore"
  BY <1>1, <1>3, CoverFacts DEF CallOK, RInv
<1>4. CASE calls[t].op = "write"
  BY <1>1, <1>4 DEF CallOK
<1>5. QED
  BY <1>1, <1>2, <1>3, <1>4

\* A step that touches neither memory nor records, of a call that goes on,
\* begins, or ends harmlessly.
LEMMA StepQuiet ==
  ASSUME OneAtATime, RInv, TInv', NEW t \in Threads,
         UNCHANGED <<memory, records, unrecorded>>,
         calls'[t] # None => CallOK(t)',
         calls[t] # None =>
           \/ calls'[t] # None /\ Target(t)' = Target(t)
           \/ calls[t].op = "apply" => calls[t].at \notin {"undo", "record"}
  PROVE  RInv'
<1>1. OneRecord' /\ OriginalsKept' /\ PatchedCells' = PatchedCells
  BY DEF RInv, OneRecord, OriginalsKept, PatchedCells
<1>2. \A u \in Threads : u = t
  BY DEF OneAtATime
<1>3. \A u \in Threads : calls'[u] # None => CallOK(u)'
  BY <1>2
<1>4. \A c : c \in BusyCells <=> calls[t] # None /\ c \in Target(t)
  BY CoverFacts DEF RInv
<1>5. \A c : c \in BusyCells' <=> calls'[t] # None /\ c \in Target(t)'
  BY <1>2 DEF BusyCells, Target
<1>6. ASSUME NEW c \in Cells \ UNION Scratch, c \notin PatchedCells \cup BusyCells'
      PROVE  memory[c] = Original <=> c \notin unrecorded
  <2>1. CASE c \notin BusyCells
    BY <1>6, <2>1 DEF RInv, ChangesRecorded, LeftChanged
  <2>2. CASE c \in BusyCells
    <3>1. calls[t] # None /\ c \in Target(t)
      BY <1>4, <2>2
    <3>2. calls[t].op = "apply" => calls[t].at \notin {"undo", "record"}
      BY <1>5, <1>6, <3>1
    <3>3. QED
      BY <1>6, <3>1, <3>2, EndHarmless
  <2>3. QED
    BY <2>1, <2>2
<1>7. ChangesRecorded'
  BY <1>1, <1>6 DEF ChangesRecorded
<1>8. LeftChanged'
  <2>1. unrecorded \subseteq Cells \ UNION Scratch
    BY DEF RInv, LeftChanged, TInv
  <2>2. QED
    BY <1>1, <1>6, <2>1 DEF LeftChanged
<1>9. QED
  BY <1>1, <1>3, <1>7, <1>8 DEF RInv

\* apply begins on cells that are as they were before the first patch: no
\* record and no other call covers them, and no plain write touches them.
LEMMA BeginRInv ==
  ASSUME OneAtATime, Apart, RInv, TInv', NEW t \in Threads,
         \/ \E n \in Names : BeginApply(t, n) \/ BeginRestore(t, n)
         \/ BeginWrite(t)
  PROVE  RInv'
<1>1. /\ calls[t] = None /\ UNCHANGED <<memory, records, unrecorded>>
      /\ TInv /\ PatchedCells' = PatchedCells
  BY BeginHolds DEF RInv, history, PatchedCells
<1>2. ASSUME NEW n \in Names, NEW range \in Ranges, NEW byte \in Bytes,
             BeginApply(t, n), range \cap (PatchedCells \cup BusyCells) = {},
             calls' = [calls EXCEPT ![t] =
               [op |-> "apply", name |-> n, bytes |-> Filled(range, byte),
                original |-> Filled(range, Original), undo |-> None,
                at |-> "read"]]
      PROVE  CallOK(t)'
  <2>1. /\ calls'[t].op = "apply" /\ calls'[t].name = n /\ calls'[t].at = "read"
        /\ Target(t)' = range /\ calls'[t].original = Filled(range, Original)
    BY <1>1, <1>2 DEF TInv, Target, Filled
  <2>2. range \subseteq Cells /\ range \cap UNION Scratch = {}
    BY RangeFacts DEF Apart
  <2>3. \A c \in range : memory[c] = Original <=> c \notin unrecorded
    BY <1>2, <2>2 DEF RInv, ChangesRecorded, LeftChanged
  <2>4. records'[n] = None
    BY <1>1, <1>2 DEF BeginApply
  <2>5. /\ \A c \in range : memory'[c] = Original <=> c \notin unrecorded'
        /\ range \cap PatchedCells' = {}
    BY <1>1, <1>2, <2>3
  <2>6. QED
    BY <2>1, <2>2, <2>4, <2>5 DEF CallOK, Unpatched
<1>3. ASSUME NEW n \in Names, BeginApply(t, n) PROVE CallOK(t)'
  BY <1>2, <1>3 DEF BeginApply, Call, Apart
<1>4. ASSUME NEW n \in Names, BeginRestore(t, n) PROVE CallOK(t)'
  <2>1. /\ calls'[t].op = "restore" /\ calls'[t].name = n /\ calls'[t].at = "query"
        /\ calls'[t].bytes = records[n].original
        /\ records[n] # None
    BY <1>1, <1>4, CallSet DEF BeginRestore
  <2>2. DOMAIN records[n].original = Target(t)'
    BY <2>1 DEF Target
  <2>3. \A c \in DOMAIN records[n].original :
          records[n].original[c] = Original <=> c \notin unrecorded
    BY <2>1 DEF RInv, OriginalsKept
  <2>4. \A c \in Target(t)' : calls'[t].bytes[c] = Original <=> c \notin unrecorded'
    BY <1>1, <2>1, <2>2, <2>3
  <2>5. QED
    BY <1>1, <2>1, <2>2, <2>4 DEF CallOK
<1>5. ASSUME BeginWrite(t) PROVE CallOK(t)'
  <2>1. PICK range \in Scratch, byte \in Bytes :
          calls' = [calls EXCEPT ![t] =
            [op |-> "write", name |-> None, bytes |-> Filled(range, byte),
             original |-> Filled(range, Original), undo |-> None,
             at |-> "query"]]
    BY <1>5 DEF BeginWrite, Call
  <2>2. calls'[t].op = "write" /\ Target(t)' = range
    BY <1>1, <2>1 DEF TInv, Target, Filled
  <2>3. QED
    BY <2>2 DEF CallOK
<1>6. CallOK(t)'
  BY <1>3, <1>4, <1>5
<1>7. QED
  BY <1>1, <1>6, StepQuiet

\* A call that goes on with the same bytes and the same original, without
\* having written or having done so before, knows what it knew.
LEMMA GoesOK ==
  ASSUME RInv, NEW t \in Threads, calls[t] # None, calls[t].at # "unwind",
         UNCHANGED <<memory, records, unrecorded>>,
         calls'[t].op = calls[t].op, calls'[t].name = calls[t].name,
         calls'[t].bytes = calls[t].bytes, Target(t)' = Target(t),
         \/ calls[t].at # "read" /\ calls'[t].original = calls[t].original
         \/ /\ calls[t].at = "read"
            /\ calls'[t].original = Snapshot(Target(t)),
         calls'[t].at \in {"undo", "record"} <=> calls[t].at \in {"undo", "record"}
  PROVE  CallOK(t)'
<1>1. CallOK(t) /\ PatchedCells' = PatchedCells
  BY DEF RInv, PatchedCells
<1>2. Unpatched(t)' = Unpatched(t)
  BY DEF Unpatched
<1>3. ASSUME calls[t].op = "apply", NEW c \in Target(t)
      PROVE  calls'[t].original[c] = Original <=> c \notin unrecorded
  <2>1. calls[t].at # "read" => (calls[t].original[c] = Original <=> c \notin unrecorded)
    BY <1>1, <1>3 DEF CallOK
  <2>2. calls[t].at = "read" =>
          (Snapshot(Target(t))[c] = Original <=> c \notin unrecorded)
    BY <1>1, <1>3 DEF CallOK, Unpatched, Snapshot
  <2>3. QED
    BY <2>1, <2>2
<1>4. QED
  BY <1>1, <1>2, <1>3 DEF CallOK

\* The write.  The cells are the call's until it ends, so that they are
\* accounted for; a restore makes them unpatched again, and an apply that stops
\* half way counts what it has changed.
LEMMA WriteRInv ==
  ASSUME OneAtATime, RInv, TInv', NEW t \in Threads, Write(t) \/ WriteRefused(t)
  PROVE  RInv'
<1>1. /\ calls[t] # None /\ calls[t].at = "write" /\ TInv /\ UNCHANGED records
      /\ CallOK(t) /\ \A u \in Threads : u = t
  BY DEF Write, WriteRefused, At, RInv, OneAtATime, history
<1>2. PICK part \in SUBSET Target(t) :
        /\ WriteBytes(part, calls[t].bytes)
        /\ \/ part = Target(t) /\ Goes(t, "undo") /\ UNCHANGED unrecorded
           \/ Goes(t, "unwind") /\ Leaves(t, part)
  BY DEF Write, WriteRefused, history
<1>3. /\ calls'[t] # None /\ Target(t)' = Target(t)
      /\ calls'[t].at \in {"undo", "unwind"}
      /\ calls'[t].op = calls[t].op /\ calls'[t].name = calls[t].name
      /\ calls'[t].bytes = calls[t].bytes
      /\ calls'[t].original = calls[t].original
  BY <1>1, <1>2, GoesFacts, GoesOn DEF Places
<1>4. /\ Target(t) \subseteq Cells
      /\ \A c \in Cells \ part : memory'[c] = memory[c]
      /\ \A c \in part : memory'[c] = calls[t].bytes[c]
  BY <1>1, <1>2, CallFacts, RangeFacts DEF WriteBytes
<1>5. /\ \A c : c \notin part => (c \in unrecorded' <=> c \in unrecorded)
      /\ unrecorded' # unrecorded => calls[t].op = "apply"
  BY <1>2 DEF Leaves
<1>6. PatchedCells' = PatchedCells /\ OneRecord'
  BY <1>1 DEF RInv, PatchedCells, OneRecord
<1>7. OriginalsKept'
  <2>1. \A n \in Names : records[n] # None =>
          \A c \in DOMAIN records[n].original : c \in unrecorded' <=> c \in unrecorded
    BY <1>1, <1>5, CoverFacts DEF CallOK
  <2>2. QED
    BY <1>1, <2>1 DEF RInv, OriginalsKept
<1>8. /\ \A c : c \in BusyCells <=> c \in Target(t)
      /\ \A c : c \in BusyCells' <=> c \in Target(t)
  <2>1. \A c : c \in BusyCells <=> c \in Target(t)
    BY <1>1, CoverFacts
  <2>2. \A c : c \in BusyCells' <=> c \in Target(t)
    BY <1>1, <1>3 DEF BusyCells, Target
  <2>3. QED
    BY <2>1, <2>2
<1>9. LeftChanged'
  <2>1. \A c \in unrecorded' : c \notin UNION Scratch
    BY <1>1, <1>5 DEF RInv, LeftChanged, CallOK
  <2>2. ASSUME NEW c \in unrecorded', c \notin PatchedCells \cup Target(t)
        PROVE  memory'[c] # Original
    BY <1>4, <1>5, <1>8, <2>2 DEF RInv, LeftChanged, TInv
  <2>3. QED
    BY <1>6, <1>8, <2>1, <2>2 DEF LeftChanged
<1>10. ChangesRecorded'
  <2>1. ASSUME NEW c \in Cells \ (unrecorded' \cup UNION Scratch),
               c \notin PatchedCells \cup Target(t)
        PROVE  memory'[c] = Original
    BY <1>4, <1>5, <1>8, <2>1 DEF RInv, ChangesRecorded
  <2>2. QED
    BY <1>6, <1>8, <2>1 DEF ChangesRecorded
<1>11. CallOK(t)'
  <2>1. CASE calls[t].op = "apply" /\ part = Target(t) /\ UNCHANGED unrecorded
             /\ calls'[t].at = "undo"
    <3>1. \A c \in Target(t) : memory'[c] = calls[t].bytes[c]
      BY <1>4, <2>1
    <3>2. QED
      BY <1>1, <1>3, <1>6, <2>1, <3>1 DEF CallOK
  <2>2. CASE calls[t].op = "apply" /\ Leaves(t, part) /\ calls'[t].at = "unwind"
    <3>1. unrecorded' = (unrecorded \ part)
                          \cup {c \in part : calls[t].bytes[c] # Original}
      BY <2>2 DEF Leaves
    <3>2. ASSUME NEW c \in Target(t)
          PROVE  memory'[c] = Original <=> c \notin unrecorded'
      <4>1. c \in Cells /\ (memory[c] = Original <=> c \notin unrecorded)
        BY <1>1, <1>4, <2>2 DEF CallOK, Unpatched
      <4>2. CASE c \in part
        <5>1. memory'[c] = calls[t].bytes[c]
          BY <1>4, <4>2
        <5>2. c \in unrecorded' <=> calls[t].bytes[c] # Original
          BY <3>1, <4>2
        <5>3. QED
          BY <5>1, <5>2
      <4>3. CASE c \notin part
        BY <1>4, <1>5, <4>1, <4>3
      <4>4. QED
        BY <4>2, <4>3
    <3>3. QED
      BY <1>1, <1>3, <1>6, <2>2, <3>2 DEF CallOK, Unpatched
  <2>3. CASE calls[t].op = "restore"
    <3>1. unrecorded' = unrecorded
      BY <1>5, <2>3
    <3>2. part = Target(t) =>
            \A c \in Target(t) : memory'[c] = Original <=> c \notin unrecorded
      BY <1>1, <1>4, <2>3 DEF CallOK
    <3>3. calls'[t].at = "undo" => part = Target(t)
      BY <1>1, <1>2, GoesFacts
    <3>4. QED
      BY <1>1, <1>3, <2>3, <3>1, <3>2, <3>3 DEF CallOK, Unpatched
  <2>4. CASE calls[t].op = "write"
    BY <1>1, <1>3, <2>4 DEF CallOK
  <2>5. calls[t].op \in {"apply", "restore", "write"}
    BY <1>1, CallFacts DEF CallRecord
  <2>6. QED
    BY <1>1, <1>2, <2>1, <2>2, <2>3, <2>4, <2>5, GoesFacts
<1>12. QED
  BY <1>1, <1>6, <1>7, <1>9, <1>10, <1>11 DEF RInv

\* A write that is done and whose protection cannot be put back: what an
\* apply has changed is counted, a restore is as good as done and has its
\* record still.
LEMMA UndoRefusedRInv ==
  ASSUME OneAtATime, RInv, TInv', NEW t \in Threads, UndoRefused(t)
  PROVE  RInv'
<1>1. /\ calls[t] # None /\ calls[t].at = "undo" /\ TInv /\ CallOK(t)
      /\ UNCHANGED <<memory, records>> /\ Leaves(t, Target(t))
      /\ calls'[t] = None /\ \A u \in Threads : u = t
  BY CallSet DEF UndoRefused, At, RInv, OneAtATime, Ends
<1>2. OneRecord' /\ PatchedCells' = PatchedCells
  BY <1>1 DEF RInv, PatchedCells, OneRecord
<1>3. CASE calls[t].op = "apply"
  <2>1. /\ \A c : c \notin Target(t) => (c \in unrecorded' <=> c \in unrecorded)
        /\ \A c \in Target(t) : c \in unrecorded' <=> memory[c] # Original
        /\ Target(t) \cap PatchedCells = {} /\ Target(t) \cap UNION Scratch = {}
    BY <1>1, <1>3 DEF Leaves, CallOK
  <2>2. \A c : c \in BusyCells <=> c \in Target(t)
    BY <1>1, CoverFacts
  <2>3. LeftChanged'
    <3>1. \A c \in unrecorded' : c \notin UNION Scratch
      BY <2>1 DEF RInv, LeftChanged
    <3>2. ASSUME NEW c \in unrecorded', c \notin PatchedCells PROVE memory[c] # Original
      BY <2>1, <2>2, <3>2 DEF RInv, LeftChanged
    <3>3. QED
      BY <1>1, <1>2, <3>1, <3>2 DEF LeftChanged
  <2>4. OriginalsKept'
    <3>1. \A n \in Names : records[n] # None =>
            \A c \in DOMAIN records[n].original : c \notin Target(t)
      BY <1>1, <2>1, CoverFacts
    <3>2. QED
      BY <1>1, <2>1, <3>1 DEF RInv, OriginalsKept
  <2>5. ChangesRecorded'
    <3>1. ASSUME NEW c \in Cells \ (unrecorded' \cup UNION Scratch), c \notin PatchedCells
          PROVE  memory[c] = Original
      BY <2>1, <2>2, <3>1 DEF RInv, ChangesRecorded
    <3>2. QED
      BY <1>1, <1>2, <3>1 DEF ChangesRecorded
  <2>6. QED
    BY <1>1, <1>2, <2>3, <2>4, <2>5 DEF RInv
<1>4. CASE calls[t].op # "apply"
  BY <1>1, <1>4, StepQuiet DEF Leaves
<1>5. QED
  BY <1>3, <1>4

\* The record table.  A recorded patch covers what its call covered; an erased
\* one covered cells that are the original again.
LEMMA RecordRInv ==
  ASSUME OneAtATime, RInv, TInv', NEW t \in Threads,
         RecordPatch(t) \/ ErasePatch(t)
  PROVE  RInv'
<1>1. /\ calls[t] # None /\ calls[t].at = "record" /\ TInv /\ CallOK(t)
      /\ calls'[t] = None /\ UNCHANGED <<memory, unrecorded>>
      /\ \A u \in Threads : u = t
  BY CallSet DEF RecordPatch, ErasePatch, Record, At, RInv, OneAtATime, Ends, history
<1>2. \A c : c \in BusyCells <=> c \in Target(t)
  BY <1>1, CoverFacts
<1>3. \A c : c \in PatchedCells <=>
        \E n \in Names : records[n] # None /\ c \in DOMAIN records[n].original
  BY <1>1, CoverFacts
<1>4. \A c : c \in PatchedCells' <=>
        \E n \in Names : records'[n] # None /\ c \in DOMAIN records'[n].original
  BY DEF PatchedCells, TInv
<1>5. CASE RecordPatch(t)
  <2> DEFINE name == calls[t].name
             record == [original |-> calls[t].original,
                        replacement |-> calls[t].bytes]
  <2>1. /\ calls[t].op = "apply" /\ name \in Names /\ records[name] = None
        /\ Target(t) \cap PatchedCells = {}
        /\ \A c \in Target(t) : calls[t].original[c] = Original <=> c \notin unrecorded
    BY <1>1, <1>5 DEF RecordPatch, CallOK
  <2>2. record \in PatchRecord /\ DOMAIN record.original = Target(t)
    <3>1. /\ calls[t].bytes \in [Target(t) -> Bytes \cup {Original}]
          /\ calls[t].original \in [Target(t) -> Bytes \cup {Original}]
          /\ Target(t) \in Ranges
      BY <1>1, <2>1, CallFacts DEF TInv, Sound, Target
    <3>2. QED
      BY <3>1, ContentsOf DEF PatchRecord
  <2>3. /\ \A n \in Names : records'[n] = IF n = name THEN record ELSE records[n]
        /\ record # None
    BY <1>1, <1>5, <2>2 DEF RecordPatch, Record, TInv
  <2>4. OneRecord'
    <3>1. \A n \in Names : records[n] # None =>
            DOMAIN records[n].original \cap Target(t) = {}
      BY <1>3, <2>1
    <3>2. QED
      BY <2>2, <2>3, <3>1 DEF RInv, OneRecord
  <2>5. OriginalsKept'
    BY <1>1, <2>1, <2>2, <2>3 DEF RInv, OriginalsKept
  <2>6. \A c : c \in PatchedCells \/ c \in Target(t) => c \in PatchedCells'
    BY <1>3, <1>4, <2>1, <2>2, <2>3
  <2>7. ChangesRecorded'
    BY <1>1, <1>2, <2>6 DEF RInv, ChangesRecorded
  <2>8. LeftChanged'
    <3>1. ASSUME NEW c \in unrecorded, c \notin PatchedCells'
          PROVE  memory[c] # Original
      BY <1>2, <2>6, <3>1 DEF RInv, LeftChanged
    <3>2. QED
      BY <1>1, <3>1 DEF RInv, LeftChanged
  <2>9. QED
    BY <1>1, <2>4, <2>5, <2>7, <2>8 DEF RInv
<1>6. CASE ErasePatch(t)
  <2> DEFINE name == calls[t].name
  <2>1. /\ calls[t].op = "restore" /\ name \in Names
        /\ DOMAIN records[name].original = Target(t) /\ Unpatched(t)
    BY <1>1, <1>6 DEF ErasePatch, CallOK
  <2>2. \A n \in Names : records'[n] = IF n = name THEN None ELSE records[n]
    BY <1>1, <1>6 DEF ErasePatch, Record, TInv
  <2>3. OneRecord' /\ OriginalsKept'
    BY <1>1, <2>2 DEF RInv, OneRecord, OriginalsKept
  <2>4. \A c : c \in PatchedCells => c \in PatchedCells' \/ c \in Target(t)
    BY <1>3, <1>4, <2>1, <2>2
  <2>5. ChangesRecorded'
    BY <1>1, <1>2, <2>1, <2>4 DEF RInv, ChangesRecorded, Unpatched
  <2>6. LeftChanged'
    <3>1. ASSUME NEW c \in unrecorded, c \notin PatchedCells'
          PROVE  memory[c] # Original
      BY <1>2, <2>1, <2>4, <3>1 DEF RInv, LeftChanged, Unpatched
    <3>2. QED
      BY <1>1, <3>1 DEF RInv, LeftChanged
  <2>7. QED
    BY <1>1, <2>3, <2>5, <2>6 DEF RInv
<1>7. QED
  BY <1>5, <1>6

\* No step of the one call loses an original.
LEMMA NextRInv ==
  ASSUME OneAtATime, Apart, RInv, [Next]_vars
  PROVE  RInv'
<1>0. TInv /\ TInv'
  BY NextTInv DEF RInv
<1>1. CASE UNCHANGED vars
  BY <1>0, <1>1 DEF RInv, OneRecord, ChangesRecorded, OriginalsKept, LeftChanged, CallOK,
                    Unpatched, Target, PatchedCells, BusyCells, vars, history
<1>2. ASSUME NEW t \in Threads, Ends(t), calls[t] # None,
             calls[t].op = "apply" => calls[t].at \notin {"undo", "record"},
             UNCHANGED <<memory, records, unrecorded>>
      PROVE  RInv'
  BY <1>0, <1>2, CallSet, StepQuiet DEF Ends
<1>3. ASSUME NEW t \in Threads, ReadOriginal(t) PROVE RInv'
  <2>0. /\ calls[t] # None /\ calls[t].at = "read"
        /\ UNCHANGED <<memory, records, unrecorded>>
    BY <1>3 DEF ReadOriginal, At, history
  <2>1. CASE Call(t, [calls[t] EXCEPT !.original = Snapshot(DOMAIN @), !.at = "query"])
    <3>1. CallOK(t)' /\ Target(t)' = Target(t)
      BY <1>0, <2>0, <2>1, ReadFacts, GoesOK
    <3>2. QED
      BY <1>0, <2>0, <3>1, StepQuiet
  <2>2. QED
    BY <1>2, <1>3, <2>0, <2>1 DEF ReadOriginal
<1>4. ASSUME NEW t \in Threads, Query(t) PROVE RInv'
  <2>0. /\ calls[t] # None /\ calls[t].at = "query"
        /\ UNCHANGED <<memory, records, unrecorded>>
    BY <1>4 DEF Query, At, history
  <2>1. CASE Goes(t, "write")
    <3>1. CallOK(t)' /\ Target(t)' = Target(t)
      BY <1>0, <2>0, <2>1, GoesFacts, GoesOK
    <3>2. QED
      BY <1>0, <2>0, <3>1, StepQuiet
  <2> DEFINE held == MakeWritable(protection[First(Target(t))])
  <2>2. CASE Call(t, [calls[t] EXCEPT !.at = "protect", !.undo = held])
    <3> HIDE DEF held
    <3>1. /\ calls'[t].at = "protect" /\ Target(t)' = Target(t)
          /\ calls'[t].op = calls[t].op /\ calls'[t].name = calls[t].name
          /\ calls'[t].bytes = calls[t].bytes
          /\ calls'[t].original = calls[t].original
      BY <1>0, <2>0, <2>2, QueryFacts
    <3>2. CallOK(t)'
      BY <2>0, <3>1, GoesOK
    <3>3. QED
      BY <1>0, <2>0, <3>1, <3>2, StepQuiet
  <2>3. QED
    BY <1>4, <2>1, <2>2 DEF Query
<1>5. ASSUME NEW t \in Threads, Protect(t) PROVE RInv'
  <2>0. /\ calls[t] # None /\ calls[t].at = "protect"
        /\ UNCHANGED <<memory, records, unrecorded>>
    BY <1>5 DEF Protect, At, history
  <2>1. CallOK(t)' /\ Target(t)' = Target(t)
    BY <1>0, <1>5, <2>0, ProtectFacts, GoesOK
  <2>2. QED
    BY <1>0, <2>0, <2>1, StepQuiet
<1>6. ASSUME NEW t \in Threads, Undo(t) PROVE RInv'
  <2>0. /\ calls[t] # None /\ calls[t].at = "undo" /\ Goes(t, "record")
        /\ UNCHANGED <<memory, records, unrecorded>>
    BY <1>6 DEF Undo, At, history
  <2>1. CallOK(t)' /\ Target(t)' = Target(t) /\ calls'[t] # None
    BY <1>0, <2>0, GoesFacts, GoesOn, GoesOK DEF Places
  <2>2. QED
    BY <1>0, <2>0, <2>1, StepQuiet
<1>7. ASSUME NEW t \in Threads, ProtectRefused(t) \/ Unwind(t) PROVE RInv'
  BY <1>2, <1>7 DEF ProtectRefused, Unwind, At, history
<1>8. ASSUME NEW t \in Threads, FinishWrite(t) PROVE RInv'
  BY <1>2, <1>8 DEF FinishWrite, At, history
<1>9. QED
  BY <1>0, <1>1, <1>3, <1>4, <1>5, <1>6, <1>7, <1>8, BeginRInv, WriteRInv,
     UndoRefusedRInv, RecordRInv DEF Next

\* At the start nothing is recorded and nothing is changed.
LEMMA InitRInv == Init => RInv
<1> SUFFICES ASSUME Init PROVE RInv
  OBVIOUS
<1>1. ChangesRecorded /\ OriginalsKept /\ OneRecord /\ LeftChanged
  BY DEF Init, ChangesRecorded, OriginalsKept, OneRecord, LeftChanged
<1>2. QED
  BY <1>1, InitTInv DEF Init, RInv

\* Every cell that a patch changed can be restored: a record, or a call that
\* is still running, covers it, unless an apply that threw has left it changed.
THEOREM ChangesOnRecord ==
  ASSUME OneAtATime, Apart
  PROVE  Spec => []ChangesRecorded
<1>1. RInv /\ [Next]_vars => RInv'
  BY NextRInv
<1>2. RInv => ChangesRecorded
  BY DEF RInv
<1>3. QED
  BY <1>1, <1>2, InitRInv, PTL DEF Spec

\* What a record keeps is what was there before the first patch, but in exactly
\* the cells that an apply that threw has left changed: there the record of the
\* apply that is tried again keeps the replacement of the one before.
THEOREM OriginalsOnRecord ==
  ASSUME OneAtATime, Apart
  PROVE  Spec => []OriginalsKept
<1>1. RInv /\ [Next]_vars => RInv'
  BY NextRInv
<1>2. RInv => OriginalsKept
  BY DEF RInv
<1>3. QED
  BY <1>1, <1>2, InitRInv, PTL DEF Spec

=============================================================================
