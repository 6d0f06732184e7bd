----------------------------- MODULE PatchService -----------------------------
(***************************************************************************)
(* Named patches (src/src/engine/patch_service.cpp) and the protected write *)
(* under them (write_with_temporary_protection.hpp), which                  *)
(* EngineSession::writeBytes and the assembler use too.  One action is one  *)
(* call of the backend or of the record table, each of which can be         *)
(* interleaved with the calls of another thread and each of which, where    *)
(* the backend can refuse, can throw and end the call.                      *)
(*                                                                         *)
(* The target's memory is external: cells in pages, a page with one         *)
(* protection, IProcessBackend::protect changing whole pages and reporting  *)
(* what the first of them had, IProcessBackend::write stopping at a page    *)
(* that is not writable.  A protection is what toProtectionFlags tells of   *)
(* it.  The program under inspection writes none of the modelled cells      *)
(* itself.                                                                  *)
(*                                                                         *)
(* A definition marked "Fault" is a variant with a plausible bug, used to   *)
(* show that a property would notice it; no specification uses it.          *)
(***************************************************************************)
EXTENDS Naturals, FiniteSetsExt

CONSTANTS Threads,   \* threads that call into the session
          Names,     \* patch names, up to ASCII case
          Cells,     \* target addresses
          PageSize,  \* cells per page
          Ranges,    \* the runs of cells that are written
          Bytes,     \* what is written: every cell of a range gets one value
          Original,  \* what every cell holds before the first patch
          Native,    \* protection of each page, as the program has it
          Scratch,   \* ranges EngineSession::writeBytes is called for
          Stacking,  \* whether callers patch cells that are patched already
          Refusals,  \* the backend calls that may throw
          None       \* std::nullopt

ASSUME CellsAssumption == Cells \subseteq Nat /\ PageSize \in Nat \ {0}
ASSUME RangesAssumption ==
  \A range \in Ranges \cup Scratch :
    \E first, last \in Cells : first <= last /\ range = first .. last /\ range \subseteq Cells
ASSUME StackingAssumption == Stacking \in BOOLEAN
ASSUME RefusalsAssumption == Refusals \subseteq {"protect", "write", "undo"}

VARIABLES memory,      \* the byte in each cell
          protection,  \* the protection of each page
          records,     \* PatchRepository: name -> record or None
          calls,       \* the call each thread is in, or None
          unrecorded,  \* history: cells that applies that threw left changed
          exposed      \* history: pages whose protection was not put back

history == <<unrecorded, exposed>>
vars == <<memory, protection, records, calls, history>>

Page(c) == c \div PageSize
Pages == {Page(c) : c \in Cells}
PagesOf(range) == {Page(c) : c \in range}
First(range) == Page(Min(range))

\* ProtectionFlags, a set of flags.
Flags == {"Read", "Write", "Execute", "Guard", "NoAccess", "CopyOnWrite"}

\* What toProtectionFlags reports after toWin32Protection(flags) was set.
Effective(flags) ==
  (flags \cap {"Guard"}) \cup
  (IF "NoAccess" \in flags \/ flags \cap {"Read", "Write", "Execute"} = {}
   THEN {"NoAccess"}
   ELSE IF "Write" \in flags
        THEN {"Read"} \cup (flags \cap {"Write", "Execute", "CopyOnWrite"})
        ELSE flags \cap {"Read", "Execute"})

\* The program's pages have protections that Win32 has.
ASSUME NativeAssumption ==
  /\ Native \in [Pages -> SUBSET Flags]
  /\ \A p \in Pages : Effective(Native[p]) = Native[p]

IsWritable(flags) == "Write" \in flags /\ "NoAccess" \notin flags

\* makeWritableProtection
MakeWritable(flags) == (flags \cup {"Read", "Write"}) \ {"NoAccess", "Guard"}

Contents(ranges) == UNION {[range -> Bytes \cup {Original}] : range \in ranges}

\* PatchRecord: the range is the domain of both.
PatchRecord == [original : Contents(Ranges), replacement : Contents(Ranges)]

\* Where a call is.
Places == {"read", "query", "protect", "write", "undo", "unwind", "record"}

CallRecord == [op : {"apply", "restore", "write"},
               name : Names \cup {None},
               bytes : Contents(Ranges \cup Scratch),
               original : Contents(Ranges \cup Scratch),
               undo : {None} \cup SUBSET Flags,
               at : Places]

ASSUME NoneAssumption ==
  /\ None \notin PatchRecord /\ None \notin CallRecord
  /\ \A flags \in SUBSET Flags : flags # None

Filled(range, byte) == [c \in range |-> byte]

Snapshot(range) == [c \in range |-> memory[c]]

Init ==
  /\ memory = [c \in Cells |-> Original]
  /\ protection = Native
  /\ records = [n \in Names |-> None]
  /\ calls = [t \in Threads |-> None]
  /\ unrecorded = {}
  /\ exposed = {}

-----------------------------------------------------------------------------
(* A call of the service, up to the protected write.                       *)

Call(t, call) == calls' = [calls EXCEPT ![t] = call]

At(t, where) == calls[t] # None /\ calls[t].at = where

Goes(t, where) == Call(t, [calls[t] EXCEPT !.at = where])

Ends(t) == Call(t, None)

PatchedCells == UNION {DOMAIN records[n].replacement : n \in {m \in Names : records[m] # None}}

BusyCells == UNION {DOMAIN calls[t].bytes : t \in {u \in Threads : calls[u] # None}}

\* apply, after find: the name is free.  Whether its cells are is up to the
\* callers.
BeginApply(t, n) ==
  /\ calls[t] = None
  /\ records[n] = None
  /\ \E range \in Ranges, byte \in Bytes :
       /\ Stacking \/ range \cap (PatchedCells \cup BusyCells) = {}
       /\ Call(t, [op |-> "apply", name |-> n, bytes |-> Filled(range, byte),
                   original |-> Filled(range, Original), undo |-> None,
                   at |-> "read"])
  /\ UNCHANGED <<memory, protection, records, history>>

\* The current bytes are kept; they go on unless `expected` was given and is
\* something else.
ReadOriginal(t) ==
  /\ At(t, "read")
  /\ \/ Call(t, [calls[t] EXCEPT !.original = Snapshot(DOMAIN @), !.at = "query"])
     \/ Ends(t)
  /\ UNCHANGED <<memory, protection, records, history>>

\* Fault: the record is erased before its bytes are back.
BeginRestoreErases(t, n) ==
  /\ calls[t] = None
  /\ records[n] # None
  /\ Call(t, [op |-> "restore", name |-> n, bytes |-> records[n].original,
              original |-> records[n].original, undo |-> None, at |-> "query"])
  /\ records' = [records EXCEPT ![n] = None]
  /\ UNCHANGED <<memory, protection, history>>

\* restore of a recorded name writes its original bytes.
BeginRestore(t, n) ==
  /\ calls[t] = None
  /\ records[n] # None
  /\ Call(t, [op |-> "restore", name |-> n, bytes |-> records[n].original,
              original |-> records[n].original, undo |-> None, at |-> "query"])
  /\ UNCHANGED <<memory, protection, records, history>>

\* EngineSession::writeBytes keeps no record.
BeginWrite(t) ==
  /\ calls[t] = None
  /\ \E range \in Scratch, byte \in Bytes :
       Call(t, [op |-> "write", name |-> None, bytes |-> Filled(range, byte),
                original |-> Filled(range, Original), undo |-> None,
                at |-> "query"])
  /\ UNCHANGED <<memory, protection, records, history>>

-----------------------------------------------------------------------------
(* writeWithTemporaryProtection.                                           *)

Target(t) == DOMAIN calls[t].bytes

\* Only the region of the first address is looked at.
Query(t) ==
  /\ At(t, "query")
  /\ IF IsWritable(protection[First(Target(t))])
     THEN Goes(t, "write")
     ELSE Call(t, [calls[t] EXCEPT
                     !.at = "protect",
                     !.undo = MakeWritable(protection[First(Target(t))])])
  /\ UNCHANGED <<memory, protection, records, history>>

SetProtection(range, flags) ==
  protection' = [p \in Pages |-> IF p \in PagesOf(range) THEN Effective(flags)
                                ELSE protection[p]]

\* Fault: the new protection is kept as the one to go back to.
ProtectForgetful(t) ==
  /\ At(t, "protect")
  /\ SetProtection(Target(t), calls[t].undo)
  /\ Goes(t, "write")
  /\ UNCHANGED <<memory, records, history>>

\* The backend reports the protection of the first page only.
Protect(t) ==
  /\ At(t, "protect")
  /\ SetProtection(Target(t), calls[t].undo)
  /\ Call(t, [calls[t] EXCEPT !.at = "write",
                              !.undo = protection[First(Target(t))]])
  /\ UNCHANGED <<memory, records, history>>

\* There is no region at the address, or its protection cannot be changed.
ProtectRefused(t) ==
  /\ "protect" \in Refusals
  /\ At(t, "query") \/ At(t, "protect")
  /\ Ends(t)
  /\ UNCHANGED <<memory, protection, records, history>>

Writable(range) == \A p \in PagesOf(range) : IsWritable(protection[p])

WriteBytes(range, bytes) ==
  memory' = [c \in Cells |-> IF c \in range THEN bytes[c] ELSE memory[c]]

Write(t) ==
  /\ At(t, "write")
  /\ Writable(Target(t))
  /\ WriteBytes(Target(t), calls[t].bytes)
  /\ Goes(t, "undo")
  /\ UNCHANGED <<protection, records, history>>

\* No record tells of what an apply that throws has written; a restore that
\* throws leaves its record.
Leaves(t, written) ==
  unrecorded' = IF calls[t].op = "apply"
                THEN (unrecorded \ written)
                       \cup {c \in written : calls[t].bytes[c] # Original}
                ELSE unrecorded

\* A write that throws may have written a first part.
WriteRefused(t) ==
  /\ At(t, "write")
  /\ "write" \in Refusals \/ ~Writable(Target(t))
  /\ \E k \in Target(t) :
       LET part == {c \in Target(t) : c < k} IN
       /\ Writable(part)
       /\ WriteBytes(part, calls[t].bytes)
       /\ Leaves(t, part)
  /\ Goes(t, "unwind")
  /\ UNCHANGED <<protection, records, exposed>>

\* The first protection goes back to every page of the range.
UndoProtection(t) ==
  IF calls[t].undo = None
  THEN UNCHANGED protection
  ELSE SetProtection(Target(t), calls[t].undo)

\* Fault: an exception leaves the range writable.
UnwindNothing(t) ==
  /\ At(t, "unwind")
  /\ Ends(t)
  /\ UNCHANGED <<memory, protection, records, history>>

UndoThrows(t) ==
  /\ "undo" \in Refusals
  /\ calls[t].undo # None
  /\ exposed' = exposed \cup PagesOf(Target(t))
  /\ UNCHANGED protection

\* The handler around the write swallows a second exception.
Unwind(t) ==
  /\ At(t, "unwind")
  /\ \/ UndoProtection(t) /\ UNCHANGED exposed
     \/ UndoThrows(t)
  /\ Ends(t)
  /\ UNCHANGED <<memory, records, unrecorded>>

Undo(t) ==
  /\ At(t, "undo")
  /\ UndoProtection(t)
  /\ Goes(t, "record")
  /\ UNCHANGED <<memory, records, history>>

\* The bytes are written and the call throws: apply records nothing, restore
\* erases nothing.
UndoRefused(t) ==
  /\ At(t, "undo")
  /\ UndoThrows(t)
  /\ Leaves(t, Target(t))
  /\ Ends(t)
  /\ UNCHANGED <<memory, records>>

-----------------------------------------------------------------------------
(* The record table.                                                       *)

Record(t, n, record) ==
  /\ At(t, "record")
  /\ n = calls[t].name
  /\ records' = [records EXCEPT ![n] = record]
  /\ Ends(t)
  /\ UNCHANGED <<memory, protection, history>>

\* Fault: what was written is kept instead of what was there.
RecordReplacement(t) ==
  /\ calls[t] # None /\ calls[t].op = "apply"
  /\ Record(t, calls[t].name, [original |-> calls[t].bytes,
                               replacement |-> calls[t].bytes])

RecordPatch(t) ==
  /\ calls[t] # None /\ calls[t].op = "apply"
  /\ Record(t, calls[t].name, [original |-> calls[t].original,
                               replacement |-> calls[t].bytes])

ErasePatch(t) ==
  /\ calls[t] # None /\ calls[t].op = "restore"
  /\ Record(t, calls[t].name, None)

FinishWrite(t) ==
  /\ At(t, "record")
  /\ calls[t].op = "write"
  /\ Ends(t)
  /\ UNCHANGED <<memory, protection, records, history>>

Next ==
  \E t \in Threads :
    \/ \E n \in Names : BeginApply(t, n) \/ BeginRestore(t, n)
    \/ ReadOriginal(t)
    \/ Query(t)
    \/ Protect(t)
    \/ ProtectRefused(t)
    \/ Write(t)
    \/ WriteRefused(t)
    \/ Unwind(t)
    \/ Undo(t)
    \/ UndoRefused(t)
    \/ RecordPatch(t)
    \/ ErasePatch(t)
    \/ BeginWrite(t)
    \/ FinishWrite(t)

Spec == Init /\ [][Next]_vars

-----------------------------------------------------------------------------
(* Properties.                                                             *)

\* Cell contents are kept per range; what a call will put back is the
\* protection of a page that was not writable.
TypeOK ==
  /\ memory \in [Cells -> Bytes \cup {Original}]
  /\ protection \in [Pages -> SUBSET Flags]
  /\ records \in [Names -> PatchRecord \cup {None}]
  /\ calls \in [Threads -> CallRecord \cup {None}]
  /\ unrecorded \subseteq Cells /\ exposed \subseteq Pages
  /\ \A n \in Names : records[n] # None =>
       DOMAIN records[n].replacement = DOMAIN records[n].original
  /\ \A t \in Threads : calls[t] # None =>
       /\ DOMAIN calls[t].original = Target(t)
       /\ calls[t].at \in {"write", "undo", "unwind"} /\ calls[t].undo # None =>
            ~IsWritable(calls[t].undo)

\* Between calls every page has the protection the program gave it, also
\* after calls that threw, unless the backend refused to put it back.
ProtectionUndone ==
  (\A t \in Threads : calls[t] = None) =>
    \A p \in Pages \ exposed : protection[p] = Native[p]

\* A cell that a patch changed can be restored: a record, or a call that is
\* still running, covers it, also after a restore that threw with its cells
\* half written.  What an apply that threw has left changed (unrecorded) no
\* record covers.
ChangesRecorded ==
  \A c \in Cells \ (unrecorded \cup UNION Scratch) :
    memory[c] # Original => c \in PatchedCells \cup BusyCells

\* A record keeps the bytes from before any patch, in whatever order patches
\* are applied, restored and tried again after an exception, exactly where no
\* apply that threw has left a change; in those cells it keeps the replacement
\* of that apply.  The exception is a limit of the code: when the protection
\* cannot be put back (write_with_temporary_protection.hpp:50), or the write
\* stops half way, apply throws and records nothing, and the next apply reads
\* what was written as the original (patch_service.cpp:51), which
\* docs/patching.md:18, "store the original bytes automatically", does not
\* say.  Patches do not overlap.
OriginalsKept ==
  \A n \in Names : records[n] # None =>
    \A c \in DOMAIN records[n].original :
      records[n].original[c] = Original <=> c \notin unrecorded
=============================================================================
