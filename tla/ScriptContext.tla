---------------------------- MODULE ScriptContext ----------------------------
(***************************************************************************)
(* Script contexts (src/src/engine/script_context.cpp) over the session:   *)
(* each context owns local allocations and labels, publishes names into    *)
(* the session's symbol table, and may be destroyed while blocks are alive.*)
(* EngineSession is the part they share; this module adds the contexts and *)
(* interleaves their operations with the session's own.                    *)
(***************************************************************************)
EXTENDS EngineSession

CONSTANTS Contexts,     \* context ids (case-sensitive keys of scriptContexts_)
          Session,      \* the owner of the global allocations in BlockLedger
          LabelTargets  \* the addresses callers bind labels to

ASSUME ContextsAssumption == Session \notin Contexts
ASSUME LabelTargetsAssumption == LabelTargets \subseteq Addresses

\* A declared label without an address.  LabelRecord.address is nullopt.
Unbound == "unbound"

VARIABLES scriptContexts,  \* ids of the contexts that exist
          locals,          \* localAllocations_ of each context
          labels           \* labels_ of each context: address, Unbound or None

contextVars == <<scriptContexts, locals, labels>>
vars == <<live, symbols, globals, scriptContexts, locals, labels>>

NoEntries == [n \in Names |-> None]

HasLabel(c, n) == labels[c][n] # None
BoundLabel(c, n) == labels[c][n] \in Addresses

Init ==
  /\ SessionInit
  /\ scriptContexts = {}
  /\ locals = [c \in Contexts |-> NoEntries]
  /\ labels = [c \in Contexts |-> NoEntries]

-----------------------------------------------------------------------------
(* Creation and destruction of contexts.                                   *)

CreateScriptContext(c) ==
  /\ c \notin scriptContexts
  /\ scriptContexts' = scriptContexts \cup {c}
  /\ UNCHANGED <<live, symbols, globals, locals, labels>>

\* Fault: a new context of the same id would find the old records.
DestroyScriptContextKeepsRecords(c) ==
  /\ scriptContexts' = scriptContexts \ {c}
  /\ labels' = [labels EXCEPT ![c] = NoEntries]
  /\ UNCHANGED <<live, symbols, globals, locals>>

\* The destructor only logs what is still allocated: blocks and published
\* symbols outlive the context.
DestroyScriptContext(c) ==
  /\ scriptContexts' = scriptContexts \ {c}
  /\ locals' = [locals EXCEPT ![c] = NoEntries]
  /\ labels' = [labels EXCEPT ![c] = NoEntries]
  /\ UNCHANGED sessionVars

-----------------------------------------------------------------------------
(* Local allocations.                                                      *)

Alloc(c, n) ==
  /\ locals[c][n] = None
  /\ ~HasLabel(c, n)
  /\ \E b \in Blocks \ live :
       /\ live' = live \cup {b}
       /\ locals' = [locals EXCEPT ![c][n] =
                       [address |-> b, linkedSymbols |-> {}]]
       /\ labels' = [labels EXCEPT ![c][n] = b]
  /\ UNCHANGED <<symbols, globals, scriptContexts>>

\* What dealloc of a local block does before it reaches the backend: the
\* label of that name goes, and so does every linked symbol, one session
\* unregisterSymbol each.
ForgetLocal(c, n) ==
  /\ locals[c][n] # None
  /\ labels' = [labels EXCEPT ![c][n] = None]
  /\ SessionUnregister(locals[c][n].linkedSymbols)

\* Fault: the record outlives the block.
DeallocLocalKeepsRecord(c, n) ==
  /\ ForgetLocal(c, n)
  /\ live' = live \ {locals[c][n].address}
  /\ UNCHANGED <<locals, scriptContexts>>

DeallocLocal(c, n) ==
  /\ ForgetLocal(c, n)
  /\ live' = live \ {locals[c][n].address}
  /\ locals' = [locals EXCEPT ![c][n] = None]
  /\ UNCHANGED scriptContexts

DeallocLocalFails(c, n) ==
  /\ ForgetLocal(c, n)
  /\ UNCHANGED <<live, locals, scriptContexts>>

-----------------------------------------------------------------------------
(* Labels.                                                                 *)

DeclareLabel(c, n) ==
  /\ ~HasLabel(c, n)
  /\ locals[c][n] = None
  /\ labels' = [labels EXCEPT ![c][n] = Unbound]

\* bindLabel refuses a bound label but never looks at the allocations.
BindLabel(c, n, address) ==
  /\ ~BoundLabel(c, n)
  /\ labels' = [labels EXCEPT ![c][n] = address]

ResetLabel(c, n) == labels' = [labels EXCEPT ![c][n] = Unbound]

SetLabelAddress(c, n, address) ==
  labels' = [labels EXCEPT ![c][n] = address]

LabelStep(c, n) ==
  /\ \/ DeclareLabel(c, n)
     \/ ResetLabel(c, n)
     \/ \E address \in LabelTargets :
          BindLabel(c, n, address) \/ SetLabelAddress(c, n, address)
  /\ UNCHANGED <<live, symbols, globals, scriptContexts, locals>>

-----------------------------------------------------------------------------
(* Symbols published by a context.                                         *)

LinkLocal(c, address, name) ==
  locals' = [locals EXCEPT ![c] = LinkSymbol(@, address, name)]

\* registerSymbol(name) of a local allocation.
PublishLocal(c, n) ==
  /\ locals[c][n] # None
  /\ SessionRegister(n, locals[c][n].address, "Allocation")
  /\ LinkLocal(c, locals[c][n].address, n)

\* registerSymbol(name) of a bound label: no local record is told.
PublishLabel(c, n) ==
  /\ locals[c][n] = None
  /\ BoundLabel(c, n)
  /\ SessionRegister(n, labels[c][n], "Label")
  /\ UNCHANGED locals

\* registerSymbol(name) of a name that only the resolver knows (a module).
\* A declared, unbound label of that name makes the resolver throw, and a
\* registered symbol is returned as it is.
PublishResolved(c, n, address) ==
  /\ locals[c][n] = None
  /\ ~HasLabel(c, n)
  /\ ~Registered(n)
  /\ SessionRegister(n, address, "UserDefined")
  /\ UNCHANGED locals

\* registerSymbol(alias, address, kind); a caller says "Allocation" only of a
\* block that this context or a global record answers for.
PublishAlias(c, n, address, kind) ==
  /\ kind = "Allocation" =>
       RecordsAt(locals[c], address) \cup RecordsAt(globals, address) # {}
  /\ SessionRegister(n, address, kind)
  /\ LinkLocal(c, address, n)

PublishStep(c, n) ==
  /\ \/ PublishLocal(c, n)
     \/ PublishLabel(c, n)
     \/ \E address \in Elsewhere : PublishResolved(c, n, address)
     \/ \E address \in Addresses, kind \in {"UserDefined", "Allocation"} :
          PublishAlias(c, n, address, kind)
  /\ UNCHANGED <<live, scriptContexts, labels>>

\* unregisterSymbol also strikes the name from this context's first holder.
WithdrawSymbol(c, n) ==
  /\ Registered(n)
  /\ SessionUnregister({n})
  /\ locals' = [locals EXCEPT ![c] = UnlinkSymbols(@, {n})]
  /\ UNCHANGED <<live, scriptContexts, labels>>

-----------------------------------------------------------------------------
\* globalAlloc, and dealloc of a name that is no local, are the session's own
\* actions; SessionNext stands for them whoever the caller is.
ContextNext(c) ==
  \/ DestroyScriptContext(c)
  \/ \E n \in Names :
       \/ Alloc(c, n)
       \/ DeallocLocal(c, n)
       \/ DeallocLocalFails(c, n)
       \/ LabelStep(c, n)
       \/ PublishStep(c, n)
       \/ WithdrawSymbol(c, n)

Next ==
  \/ SessionNext /\ UNCHANGED contextVars
  \/ \E c \in Contexts : CreateScriptContext(c)
  \/ \E c \in scriptContexts : ContextNext(c)

Spec == Init /\ [][Next]_vars

-----------------------------------------------------------------------------
(* Properties.                                                             *)

SymbolTable == [Names -> SymbolRecord \cup {None}]
AllocationTable == [Names -> AllocationRecord \cup {None}]

\* The registries hold records of their kind, and only existing contexts hold
\* anything.
TypeOK ==
  /\ live \subseteq Blocks
  /\ symbols \in SymbolTable
  /\ globals \in AllocationTable
  /\ scriptContexts \subseteq Contexts
  /\ locals \in [Contexts -> AllocationTable]
  /\ labels \in [Contexts -> [Names -> Addresses \cup {Unbound, None}]]
  /\ \A c \in Contexts \ scriptContexts :
       locals[c] = NoEntries /\ labels[c] = NoEntries

\* The blocks that a context, or the session, has on record.
Held(records) == {records[n].address : n \in Recorded(records)}

Leaked == live \ (Held(globals) \cup UNION {Held(locals[c]) : c \in Contexts})

\* No repository records one block twice, and no two repositories record the
\* same block: no dealloc, whoever calls it, frees what another record still
\* stands for.
OwnersDisjoint ==
  /\ \A m, n \in Recorded(globals) :
       globals[m].address = globals[n].address => m = n
  /\ \A c \in Contexts : \A m, n \in Recorded(locals[c]) :
       locals[c][m].address = locals[c][n].address => m = n
  /\ \A c \in Contexts : Held(locals[c]) \cap Held(globals) = {}
  /\ \A c, d \in Contexts :
       c # d => Held(locals[c]) \cap Held(locals[d]) = {}

\* Every record, local or global, stands for a block that is still allocated,
\* also after a dealloc whose free failed half way.
RecordsLive ==
  /\ Held(globals) \subseteq live
  /\ \A c \in Contexts : Held(locals[c]) \subseteq live

\* While a global allocation exists, its name means that allocation: the
\* symbol of that name is absent or is the allocation's own.
GlobalNameBinding ==
  \A n \in Recorded(globals) :
    Registered(n) => symbols[n] = [address |-> globals[n].address,
                                   kind |-> "Allocation"]

\* A symbol of kind Allocation is listed by the record of its block, so that
\* the block's dealloc takes the symbol with it; or the block was abandoned by
\* a destroyed context and can never be freed.
LinksComplete ==
  \A n \in Names :
    Registered(n) /\ symbols[n].kind = "Allocation" =>
      \/ symbols[n].address \in Leaked
      \/ \E m \in HoldersOf(globals, n) :
           globals[m].address = symbols[n].address
      \/ \E c \in Contexts : \E m \in HoldersOf(locals[c], n) :
           locals[c][m].address = symbols[n].address

\* A symbol of kind Allocation never dangles: its block is allocated.
AllocationSymbolsBacked ==
  \A n \in Names :
    Registered(n) /\ symbols[n].kind = "Allocation" =>
      symbols[n].address \in live

\* What the tests say of a local allocation that shadows a global one:
\* deallocating the local leaves the global one resolvable.
LocalDeallocSparesGlobals ==
  [][\A c \in Contexts, n \in Names :
       locals[c][n] # None /\ locals'[c][n] = None /\ c \in scriptContexts' =>
         \A g \in Recorded(globals) : Registered(g) => symbols'[g] # None]_vars

\* Who holds which block, as a ledger sees it.
Ledger == INSTANCE BlockLedger WITH
  Owners <- Contexts \cup {Session},
  held <- [o \in Contexts \cup {Session} |->
             IF o = Session THEN Held(globals) ELSE Held(locals[o])],
  leaked <- Leaked

LedgerSpec == Ledger!Spec
=============================================================================
