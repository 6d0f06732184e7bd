# A TLA+ model of hexengine

This directory is a verification project for the process-instrumentation
engine in `src/`: TLA+ modules translated from its C++, C# and JavaScript source, TLC
configurations that check them on small instances, and TLAPS proofs of what
matters most for every instance. Paths below are relative to the repository
root, `src/`.

## 1. Inventory of the system

| Part | State it keeps | Operations | Talks to |
| --- | --- | --- | --- |
| Session registries (`src/engine/engine_session.cpp`, `allocation_service.cpp`, `*_repository.cpp`) | symbols, global allocations with linked symbols, patches, contexts | registerSymbol, unregisterSymbol, globalAlloc, deallocate, createScriptContext, destroyScriptContext | backend; all other parts call it |
| Script context (`script_context.cpp`) | local allocations with linked labels and symbols, labels | alloc, dealloc, declare/bind/reset/setLabel, registerSymbol (by name, by alias), unregisterSymbol | session (publishes into its symbols), backend |
| Patch service (`patch_service.cpp`, `write_with_temporary_protection.hpp`) | patch records; page protections for the length of a write | apply, applyBytes, applyNop, restore, writeBytes | backend query/protect/read/write |
| Assembly scripts (`assembly_script.cpp`) | the active segment, pending segments, exported labels | execute: directives, headers, instructions | script context, text assembler |
| Text and remote assembler | one asmjit code buffer | append, flush | script context for names, protected write |
| Lua runtime (`src/lua/lua_runtime.cpp`) | task queue, worker thread, timers, environments, registry references, the current script | runGlobal, runScript, destroyScript, the Lua bindings, timers, the destructor | session and contexts; host threads call it |
| Scanner and pattern (`process_scanner.cpp`, `core/pattern.cpp`) | none | scan, scanModule, parse | backend tryRead |
| Address and pointer resolvers | none | resolve | session names, modules |
| Win32 backend (`src/backends/win32/win32_process_backend.cpp`) | a process handle; the cursors of a near allocation | query, read, write, protect, allocate, allocateNear, free, executeCode | Windows |
| Host C API (`src/host/host_api.cpp`) | runtime handles, a last-error slot | create, run, destroy | Lua runtime |
| Desktop host (`host/HexEngine.WebViewTest/MainWindow.xaml.cs`, `NativeHexBridge.cs`, `WebAssetExtractor.cs`) | whether the browser is initialised, the panel shown, the bridge, the extracted files | start and Retry, navigation completed, the page's actions, close | WebView2, C API |
| Web UI (`ui/src/App.jsx`, `main.jsx`, `vite.config.js`) | event log, readiness flags, message handlers | effects, receive, post, clear | the desktop host's messages |

What is hard here:

- **Links.** Allocation, label and symbol tables point into each other by name,
  and are cleaned up in several ways; stale links and dangling symbols come
  from long sequences of legal calls, often by two contexts. *Correct when*
  records own disjoint live blocks, an allocation's symbols go with it, and a
  global name means its allocation.
- **One worker, many callers.** The queue, the condition variable, the
  destructor and the timers share one mutex; callbacks change the timer table
  they are called from. *Correct when* accepted calls are answered in order, no
  wakeup is lost, shutdown drains, and timers and registry references keep
  their owners.
- **Half-done work.** `protect`, `write` and `free` may refuse in the middle of
  an operation. *Correct when* the tables still describe the target.
- **Deferral.** Segments are written out of the script's order and tried again.
  *Correct when* none is lost or written twice, and jumps land.
- **Arithmetic on addresses and buffers** in the scanner and the near-allocation
  search: chunk and region boundaries, carries, rounding, two cursors. *Correct
  when* every match whose bytes were read is reported and no other, and a
  block is placed inside the window, where it fits, whenever it can be.
- **A page, a window and a runtime** that live and fail apart: attempts to start
  the browser overlap, files are left half written, documents are loaded again
  while answers are under way, a call runs and its answer is lost. *Correct when*
  a request is answered once and in order, and the page never shows a counter
  that is not the runtime's.

`PROJECT.json` lists every component with its status, and under `hazards` each
of these at its line.

## 2. Modules

| Module | Models | Uses |
| --- | --- | --- |
| `EngineSession` | symbols, global allocations and their links | |
| `SessionSteps` | the session's changing calls write by write, as lookups of other threads see them | extends `EngineSession`, refines it |
| `SessionStepsProofs`, `SessionRefinementProofs` | TLAPS proofs about `SessionSteps`: its invariant, its refinement | `TLAPS` |
| `ScriptContext` | contexts, their allocations, labels, publication | extends `EngineSession` |
| `BlockLedger` | abstract: who owns which block | refined by `ScriptContext` |
| `ScriptContextProofs` | TLAPS proofs about `ScriptContext` | `TLAPS` |
| `LuaRuntime` | callers, queue, worker, timers, destructor, registry | |
| `LuaRuntimeProofs` | TLAPS proofs about `LuaRuntime` | `TLAPS` |
| `SerialCalls` | abstract: calls answered one at a time in order | refined by `LuaRuntime` |
| `PatchService` | patches and the protected write | |
| `PatchServiceProofs` | TLAPS proofs about `PatchService` | `TLAPS` |
| `AssemblyScript` | execute, segments, deferral, labels | |
| `AssemblyScriptProofs` | TLAPS proofs about `AssemblyScript` | `TLAPS` |
| `ProcessScanner` | scan, findAll and its anchor | |
| `NearAllocation` | allocateNear and its two cursors | |
| `SearchProofs` | TLAPS proofs about both searches | extends `ProcessScanner`, `NearAllocation`, `TLAPS` |
| `WebUi` | the React page | |
| `ShellStartup` | the window's attempts to start its browser, the asset folder | |
| `DesktopHost` | window, page, message channels and native counter together | extends `WebUi`, `ShellStartup` |
| `DesktopHostProofs` | TLAPS proofs about `DesktopHost` | `TLAPS` |
| `MCSearch` | the two searches for TLC, side by side | extends `ProcessScanner`, `NearAllocation` |
| other `MC...` | instances for TLC | the module of the same name |

**Session and contexts.** One public operation is one action: each table has a
lock but no operation holds one throughout, and the session is changed by one
thread at a time (the Lua worker, or a program without one). `SessionSteps` takes
the same operations apart, one action a write, for threads that look names up
meanwhile; that the writes add up to the operations is `AtomicSpec`, a
refinement whose mapping shows the session as it was until the last write. A call that throws before it changed anything is a
stuttering step; `free` that throws after symbols and labels were removed has
actions of its own (`DeallocLocalFails`, `DeallocateGlobalFails`). Names are
numbers in the order of their folded spelling, because `list()` sorts and the
link operations stop at the first record that answers. Backend allocation is
external: any block that is not live.

**Lua runtime.** One action is one critical section of `mutex_`, one
notification after it, or one step of the worker outside the lock. `Submit`
and `Notify` are separate because the code notifies after unlocking; the
worker's wait and its wakeups (notified, timed out, spurious) are separate
steps. Time is an order: `due` is the set of timers whose `nextFire` has
passed and `ahead` the order in which they passed. What a chunk computes is not
modelled: while it runs it makes any of the state-changing calls in any order,
then ends, fails, or (in a callback) lets a C++ exception out. The registry of
`luaL_ref` is modelled because a released reference is reused.

**Patches.** One action is one backend call or one table update of `apply`,
`restore` or `writeBytes`, each of which may be refused if `Refusals` says so.
`protect` changes whole pages and reports what the first had; `write` stops at a
page that is not writable. A protection is the set of flags that
`toProtectionFlags` makes of it, and what `toWin32Protection` makes of a set that
is asked for is `Effective`. Two history variables name the cells that an `apply`
that threw left changed (`unrecorded`) and the pages whose protection the backend
refused to put back (`exposed`). A `restore` that throws adds no cell, since its
record stays.

**Assembly scripts.** The script is an adversary: each `Read...` step takes any
line, so a run covers every script of `MaxLines` lines, spread over any number
of `execute` calls in one context. Reading a line that ends a segment leaves
it in `run.next`; `Flush`, the drain passes and then the directive follow, one
attempt to assemble a segment a step. `Deferred` says when a segment is put
off: the first line that does not parse uses a label that is declared, has no
address and is not defined above it in the segment. The write and the label
export after it are one step, except that a label another segment has bound
ends the call after the write (`DefinedTwice`). What an instruction encodes to
is external (asmjit, asmtk); here it is the name it refers to.

**Scanner.** One action enters a region, reads and searches a chunk, or ends the
scan. The target's bytes stand still and each read stops wherever it likes,
which is what `tryRead` allows. The buffer is always the part of memory that
begins `carry` bytes below the cursor, so only that length is kept. `FindAll`
is the search for the anchor and the check of its candidates, and `IsMatch`,
which the properties use, is the definition of a token over the memory. The
offsets found in a chunk are a set; `Ascending` puts them in the order in which
`findAll`, which goes over its buffer once, reports them.

**Near allocation.** One action is a turn of the loop: what both cursors see, the
choice between the regions, and the cursors' next places. `VirtualQueryEx` is
external: the page of the address to the end of the run of pages in its state.
The target's memory does not change meanwhile, and `VirtualAllocEx` succeeds
where the pages are free.

**Desktop shell.** The window's code runs on the UI thread, so one action is what
it does between two awaits, or the whole handling of a message, native call
included. `phase` says where each attempt to start the browser is; the folder of
assets starts in any state that an earlier process, ended anywhere, may leave.
Two queues carry messages; what was on its way to a document that is navigated
away is lost. `request` on a message, `asked` and `answered` are history, and a
counter of 0 is Lua's nil. `Heard` is what the page was told, oldest first: its
log turned round, then what is on its way. That a WebView2 control takes one environment, and
throws when a second one is offered, is external and modelled as its
documentation has it.
An exception after the control has its environment (`ShellSetupFails`) therefore
leaves the fallback for good: every Retry offers a new environment and is refused.
`StartupSettles` asks for no more than that one of the panels is shown.

Definitions whose comment begins with "Fault" are variants with a plausible
bug; no specification uses them.

## 3. Runs

| Run | Shows | Bounds |
| --- | --- | --- |
| contexts | `TypeOK`, `OwnersDisjoint`, `RecordsLive`, `GlobalNameBinding`, `AllocationSymbolsBacked` | 2 contexts, 2 names, 2 blocks, 1 other address |
| session_steps | `TypeOK`, `LookupsBacked`, `RecordsMatchBlocks`, `AtomicSpec` | 3 names, 2 blocks, 1 other address |
| shadowed_global | `LocalDeallocSparesGlobals` is violated | as in contexts |
| lua_calls | `TypeOK`, `NoLostWakeup`, `CallsAccounted`, `OwnersExist`, `RegistryOwned`, `CallsSpec` | 2 callers, 2 scripts, 1 timer, 3 references |
| lua_progress | `CallsAnswered`, `ShutdownCompletes`, `TimersTakeTurns`, `DestroyedTimersStayDestroyed` | 1 caller, 2 timers |
| lua_timer_error | `TimerErrorContained` is violated | 1 caller, 1 timer |
| patches | `TypeOK`, `ChangesRecorded`, `OriginalsKept`, `ProtectionUndone` | 3 names, 6 cells in 2 pages, one thread |
| assembly | `TypeOK`, `EachSegmentOnce`, `DrainedToTheEnd`, `JumpsLand`, `Terminates` | 2 labels, 1 block, 1 site, 4 lines |
| assembly_thread | `ThreadsRunWrittenCode` is violated | 1 label, 5 lines |
| desktop | `TypeOK`, `RepliesInOrder`, `ShownCounterIsCurrent`, `ServedWhenShown`, `ShellStaysShown`, `StartupSettles`, `PostedGetsAnswered` | 3 attempts, 2 clicks, 1 reload, a log of 2 rows |
| search | `MatchesRight`, `ReadMatchesFound`, `PlacedWell`, `PageTargetsServed`, `SearchEnds` | scanner: 6 bytes of 2 values, patterns of 1 to 3 tokens, chunks of 3, 3 layouts, 2 windows; near allocation: pages of 2, granules of 4, distance 8, 16 addresses, 2 sizes |
| near_gives_up | `FailsOnlyWhenFull` is violated | the same pages |

Why the bounds are enough to be interesting: three names let one symbol be linked
to two records, one after the other; two contexts and the session give
three owners for two names, so a name can be local twice and global once while
two blocks are freed and handed out again; two callers queue behind each other,
and race the destructor and the wait; two timers destroy and replace each
other, and references are so few that a released one is soon handed out again;
three patches lie on two pages, one sharing its page with plain writes, and a
patch may write what is there already; four lines hold two segments that each wait for the other's label and
the scan that sets them off, or two segments that define one label. Three attempts let one fail, and two of
Retry overlap with each other; a log of two rows cuts a row off; two clicks and a
reload put an answer to the old document's request before the new one's. Six
bytes in chunks of three make a match begin in one chunk and end in the next,
after a short read or a gap; sixteen addresses in pages of two and granules of
four hold free runs that begin and end off the granularity on both sides of a
target, at the ends of the address space and outside the window.

`MaxTimers`, `MaxLocals` and `MaxLines` bound counters in guards;
`nextTimerId` and the line number only grow. `lua_progress` is without
runScript, and without a second caller, to stay small: the queue is in
`lua_calls`, where `CallsSpec` says it is served in order.

**Fairness.** `LuaRuntime!FairSpec` is weakly fair to the worker's steps (the
thread is scheduled and the mutex handed on), to a wait that was notified or
timed out, to the notification that follows each submit, and to the end of a
chunk or callback. The last is an assumption about scripts: the runtime does not
interrupt one. No caller has to call, and no timer has to fall due.
`AssemblyScript!FairSpec` says that a thread inside `execute` goes on.
`MCSearch!SearchSpec` says the same of a search.
`DesktopHost!FairSpec` says that the window is loaded once the process runs, that
an attempt goes on when what it awaits ends, that the UI thread handles
messages and reports completed navigations, and that the page runs its effects and
handles what it is sent. Nobody has to click, reload or close anything, and no
document has to load.

**What the violated properties are about.** Four properties state what a
document, a test or a message of the repository says, and the code does something
else:

- `LocalDeallocSparesGlobals`: `dealloc` unregisters every linked name; a link
  stays behind when the symbol is withdrawn through the session, and by then the
  name may be a global allocation's.
- `TimerErrorContained`: bindings throw C++ exceptions, `lua_pcall` does not
  catch them, and the worker's last handler sets a promise a second time.
- `ThreadsRunWrittenCode`: `createThread` runs after a flush that may put the
  segment off.
- `FailsOnlyWhenFull`: for a target inside a page both cursors begin in that
  page; the backward one is given up with the region they share, and lower
  addresses are never tried. `PageTargetsServed` says that targets at the start
  of a page do not have the problem.

Five limits of the code show in what the passing properties leave out.

- When an `apply` has written and then throws, because its protection cannot be
  put back (`write_with_temporary_protection.hpp:50`) or because the write stops
  half way, nothing is recorded. The next `apply` there reads the replacement as
  the original (`patch_service.cpp:51`), and `restore` brings the replacement back;
  `docs/patching.md:18`, "store the original bytes automatically", does not say so.
  `OriginalsKept` states the limit exactly: a record holds an original in every
  cell that no such `apply` left changed, and in no other.
- A range over two pages gets the first page's protection on both, so `patches`
  has ranges within a page.
- A declared label used above its definition in one segment counts as unbound,
  since lines are assembled one by one; the segment is put off, and execute then
  fails. `Terminates` says that it does end.
- Two attempts to start the browser can be under way together, because Retry is
  enabled during an await. The second to reach the control fails and shows the
  fallback over a shell that works, and Retry then returns at once.
  `ShellStaysShown` and `ServedWhenShown` say that this overlap is the only way.
- A near block may lie up to a granule beyond 2 GB, because the window is rounded
  outwards; `PlacedWell` states the rounded window.

## 4. Proofs

`ScriptContextProofs` proves, for any sets of names, blocks, contexts and
addresses that satisfy the named assumptions of `EngineSession` and
`ScriptContext`:

- `TypeCorrect`: `Spec => []TypeOK`.
- `BlocksOwned`: `Spec => [](OwnersDisjoint /\ RecordsLive)`. Each is used for the
  other: a fresh block is in no record because records are live, and freeing a
  block leaves the other records live because they are disjoint.
- `GlobalNamesBound`: `Spec => []GlobalNameBinding`.
- `Invariant`: `Spec => []IInv`, where `IInv` adds `LinksComplete` to these.
- `AllocationSymbolsNeverDangle`: `Spec => []AllocationSymbolsBacked`. This
  property is not inductive: that a symbol's block is live after a dealloc needs
  the record of the block to list the symbol, which is `LinksComplete`, and that
  in turn needs disjoint owners, since only one record is told of a new symbol.
- `RefinesLedger`: `Spec => LedgerSpec`; every step of the registries is a step of
  the ledger or leaves it alone. No run repeats this: the proof covers it.

The steps are split by action; lemmas about `LinkSymbol`, `UnlinkSymbols` and
registration carry the parts that several actions share.

`LuaRuntimeProofs` proves, for any callers, scripts, references and number of
timers that satisfy the named assumptions of `LuaRuntime`:

- `TypeCorrect`: `Spec => []TypeOK`. Its invariant `TInv` adds that ids not handed
  out yet name no timer; without that a new timer could be due already.
- `WakeupsKept`: `Spec => []NoLostWakeup`.
- `CallsKept`: `Spec => []CallsAccounted`. The strengthening `CInv` adds that a
  caller with an open promise is still in its call (so its next submit cannot
  queue a second request), that the request being served is unanswered, and that
  only a stopping runtime's worker exits.
- `OwnersKept`: `Spec => []OwnersExist`. `OInv` adds that a script whose code runs has
  its environment: the timer that code makes next will have an owner.
- `RegistryKept`: `Spec => []RegistryOwned`, by counting the holders of each
  reference one by one (`HoldersDistinct`), since a set of references cannot
  say that two timers hold the same one.
- `DestroyedStay`: `Spec => DestroyedTimersStayDestroyed`.
- `RefinesCalls`: `Spec => CallsSpec`. `TakeTask` moves the head of the queue to
  `running`, which the abstract queue does not see; every answer, whichever
  way a task ends, takes the head off.

`SessionStepsProofs` and `SessionRefinementProofs` prove, for any names, blocks
and other addresses:

- `TypeCorrect`: `Spec => []TypeOK`; what a call has read still holds when it
  writes.
- `LookupsSafe`: `Spec => []LookupsBacked`. Its invariant `SInv` adds `Listed`: the
  record of an allocation symbol's block lists the symbol, or the call that
  registers it is about to, and while that block is deallocated the symbol is
  still to be withdrawn. `Distinct` makes the one record that is told the right one.
- `RecordsMatched`: `Spec => []RecordsMatchBlocks`, which is part of `SInv`.
- `RefinesAtomic`: `Spec => AtomicSpec`. `History` says for each place in a call
  how the tables differ from those the call began with; at its last write that
  is the whole operation of `EngineSession` but that write.

`PatchServiceProofs` proves the types for any number of threads, and the rest
under assumptions that the run `patches` meets and that the code leaves to its
callers: `OneAtATime`, a single calling thread; `Apart`, patches overlap neither
each other nor plain writes; `PageLocal`, no range crosses a page. Names, cells,
pages, bytes, protections and the calls the backend refuses are arbitrary.

- `TypeCorrect` (`OneAtATime`): between the query and the change of protection no
  one else makes the page writable, so what is put back is not writable.
- `ProtectionsKept` (`OneAtATime`, `PageLocal`): `Spec => []ProtectionUndone`. Its
  invariant `PInv` says that a page that is not as the program has it is lifted
  by the running call, which holds the protection to put back.
- `ChangesOnRecord` and `OriginalsOnRecord` (`OneAtATime`, `Apart`): what a patch
  changed is covered, and what is recorded is the original, but for the cells in
  `unrecorded`, where a record keeps what the `apply` that threw had written. Neither
  property is inductive without the other. What apply reads is the original, or is
  in `unrecorded`, because a cell that nobody covers is changed just when it is
  there (`LeftChanged` and `ChangesRecorded`), and restore makes a cell so again
  because its record held just that (`Unpatched`); `CallOK` says what a call knows
  at each place.

`AssemblyScriptProofs` proves, for any labels, blocks, sites, capacity and number
of lines, and any number of scripts run in one context; it assumes
(`NoneAssumption`) only that the value for "nothing" is none of the others:

- `ScriptTyped`: `Spec => []TypeOK`, which also says that no segment is written
  longer than its block.
- `SegmentsOnce`: `Spec => []EachSegmentOnce`.
- `Drained`: `Spec => []DrainedToTheEnd`. While a pass has written nothing, what it
  went past is still put off (`PassedOver`), so a pass that moves nothing leaves
  only segments that wait for a label.
- `WrittenJumpsLand`: `Spec => []JumpsLand`. A label that an unwritten segment is to
  bind has no address (`ExportsOpen`), so what was written cannot refer to it.

All four rest on one inductive invariant, `AInv`. None of the properties is
inductive alone: where a jump lands depends on which segments are unwritten, and
that each is written once on where the drain's cursor is.

`DesktopHostProofs` proves, for any number of attempts, clicks and reloads, a log
of any length and any set of asset files, assuming that the number of reloads is
a number (`ReloadsAssumption`) and that the bundle's entry files are files of the
bundle (`BundleAssumption`: `main.jsx` and `App.jsx` import nothing else):

- `ShellTyped`: `Spec => []TypeOK`.
- `RepliesOrdered`: `Spec => []RepliesInOrder`. What the page heard, what is on its
  way to it and what is on its way to the host are one ascending sequence
  (`Ordered`); a step moves something along it, cuts its old end, or adds a
  request that is younger than all of it.
- `CounterCurrent`: `Spec => []ShownCounterIsCurrent`. `Said` follows the last word
  about the counter, while it is on its way and when it is the newest row that
  speaks of the counter: it is true of the runtime's.
- `ShownServed`: `Spec => []ServedWhenShown`. `Startup` says which attempt made the
  files whole, that attempts are in different places, and that only one of them
  holds the control.
- `ShellStays`: `Spec => ShellStaysShown`, an action property, from the same.

Their conjunction is the inductive invariant `HInv`. The proof sorts the actions
by what they do to the sequence (eight shapes), so that the order and the counter
are argued once for each shape and not for each action.

`SearchProofs` proves, of the scanner alone (`ScanSpec`), for memory of any size
and any bytes, any regions that ascend and are disjoint (`RegionsAssumption`:
`Win32ProcessBackend::regions` asks `VirtualQueryEx` of the lowest address first,
then of the end of each region), any window, any pattern that fits a chunk, and
any reads:

- `ScanReportsRight`: `ScanSpec => []MatchesRight`.
- `ScanFindsAll`: `ScanSpec => []ReadMatchesFound`. The property speaks of the end of
  a scan only; `Found`, which says it at every step, is what is inductive. It needs
  `Carried`: what is carried is all but one byte of a pattern, or it is nothing and
  the byte before the cursor was not read, so that no match reaches over the gap. The
  lemma `FindAllExact` says that looking for the anchor first finds every offset the
  pattern matches at, whichever run of exact tokens is the anchor.

And of the near allocation alone (`NearSpec`), for any page size, any granularity
that is a multiple of it, any distance, address space, free pages, target and
block size:

- `NearPlacesWell`: `NearSpec => []PlacedWell`.
- `NearServesPages`: `NearSpec => []PageTargetsServed`. Its invariant `NInv` says what
  the cursors have left behind. `ForwardTried` is about where the run of free pages
  begins that leads to a place: a region is reported from the page asked for to the
  end of its run, so what was passed over is the whole run. The backward cursor
  goes down page by page, and it never takes a place at or above the target,
  because the forward cursor had the target's page first and is preferred when in
  doubt. `CandidateRight` says that the place taken in a region is the nearest, from
  lemmas about rounding to multiples.

Only model-checked: liveness under fairness (`CallsAnswered`, `ShutdownCompletes`,
`TimersTakeTurns`, `Terminates`, `StartupSettles`, `PostedGetsAnswered`,
`SearchEnds`), which is out of the prover's reach. Among it is that steps
of the searches and the drain are possible at all when they should be, for
instance that every finite set of offsets has its `Ascending` list.

## 5. What is not modelled

- Two threads that change the session at once (`AllocationService::allocate`
  checks and inserts in separate calls): `SessionSteps` has one that changes
  and any number that look up. `PatchService` has threads as a constant, but its
  run uses one: with two, protections are not put back, and the code makes no
  promise about it. Windows turning a copy-on-write page into a writable one at the
  first write, and `PAGE_NOCACHE` and `PAGE_WRITECOMBINE`, which
  `toProtectionFlags` drops, so that no protection put back has them.
- Callers that register a symbol of kind `Allocation` at an address no record has:
  no caller in `src/` does, and the calls do not check it.
- Whether a name is valid, how it is folded, and how addresses are parsed.
- The bytes instructions encode to; reading and converting values for Lua.
- The resolvers: they keep no state, and what they compute is one checked
  addition after another. Parsing a pattern, and tokens that mask half a byte.
- A target whose memory changes during a scan or a near allocation, so that
  `VirtualAllocEx` refuses a place that was free when it was looked at; a pattern
  longer than a chunk (64 KiB), which is accepted and never found; and addresses near 2^64, where the saturating
  additions of both searches matter; user addresses end far below.
- A second instance of the desktop program that extracts at the same time, the
  JSON between page and host, requests that no page of this program posts, and
  `www/assets/app.js`, which vite generates from the modelled sources.
- The lifetime of a host API handle, which is its caller's; benchmarks and
  scripts.

## 6. Plan

1. *Next modules.* The resolvers' width arithmetic.
2. *Composition.* Assembly scripts over `ScriptContext` itself, with dealloc of a
   block whose segment is pending and the block's reuse.
3. *Proofs.* `PatchService` with more than one thread: which of its properties hold
   for patches on different pages.
