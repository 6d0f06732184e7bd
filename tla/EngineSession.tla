---------------------------- MODULE EngineSession ----------------------------
(***************************************************************************)
(* The session-wide registries of src/src/engine/engine_session.cpp: the   *)
(* symbol table and the table of global allocations, over the memory of    *)
(* the target process, which is external and seen only through             *)
(* IProcessBackend::allocate and IProcessBackend::free.                    *)
(*                                                                         *)
(* Every public operation is one atomic action: this module is about one   *)
(* thread of control using the session, which is how the Lua worker and    *)
(* the smoke program use it.  A call that throws before it changed         *)
(* anything is a stuttering step and has no action.  A call that throws    *)
(* after it changed something (VirtualFreeEx refuses a block) has one.     *)
(* A definition marked "Fault" is a variant with a plausible bug, used to  *)
(* show that a property would notice it; no specification uses it.         *)
(***************************************************************************)
EXTENDS Naturals

CONSTANTS Names,      \* symbol and allocation names, up to ASCII case, as
                      \* numbers in the order of their folded spelling
          Blocks,     \* base addresses the target can hand out
          Elsewhere,  \* target addresses that are the base of no block
          None        \* std::nullopt: no such entry

ASSUME NamesAssumption == Names \subseteq Nat
ASSUME BlocksAssumption ==
  /\ Blocks \cap Elsewhere = {}
  /\ None \notin Blocks \cup Elsewhere

VARIABLES live,     \* blocks the target has allocated and not freed
          symbols,  \* SymbolRepository: name -> symbol record or None
          globals   \* AllocationRepository: name -> allocation record or None

sessionVars == <<live, symbols, globals>>

Addresses == Blocks \cup Elsewhere

SymbolKind == {"UserDefined", "Label", "Allocation"}

SymbolRecord == [address : Addresses, kind : SymbolKind]

AllocationRecord == [address : Blocks, linkedSymbols : SUBSET Names]

ASSUME NoneAssumption == None \notin SymbolRecord \cup AllocationRecord

\* The entries of an allocation repository, local or global.
Recorded(records) == {n \in Names : records[n] # None}

\* list() sorts by folded name, and the callers that walk it stop at the
\* first record that answers: n is that record among the candidates S.
FirstOf(n, S) == n \in S /\ \A m \in S : n <= m

HoldersOf(records, name) ==
  {n \in Recorded(records) : name \in records[n].linkedSymbols}

RecordsAt(records, address) ==
  {n \in Recorded(records) : records[n].address = address}

\* linkGlobalAllocationSymbol: only the first record at the address learns
\* of the symbol.
LinkSymbol(records, address, name) ==
  [n \in Names |->
     IF FirstOf(n, RecordsAt(records, address))
     THEN [records[n] EXCEPT !.linkedSymbols = @ \cup {name}]
     ELSE records[n]]

\* unlinkGlobalAllocationSymbol for each name of a set: a name is struck from
\* the first record that lists it and stays in the others.
UnlinkSymbols(records, names) ==
  [n \in Names |->
     IF records[n] = None
     THEN None
     ELSE [records[n] EXCEPT !.linkedSymbols =
             {s \in @ : ~(s \in names /\ FirstOf(n, HoldersOf(records, s)))}]]

Registered(name) == symbols[name] # None

WithoutSymbols(names) ==
  [n \in Names |-> IF n \in names THEN None ELSE symbols[n]]

-----------------------------------------------------------------------------
SessionInit ==
  /\ live = {}
  /\ symbols = [n \in Names |-> None]
  /\ globals = [n \in Names |-> None]

\* Fault: the name of a global allocation is registered like any other.
SessionRegisterAnyName(name, address, kind) ==
  /\ symbols' = [symbols EXCEPT ![name] = [address |-> address, kind |-> kind]]
  /\ globals' = LinkSymbol(globals, address, name)

\* The two state changes of registerSymbol; the name of a global allocation
\* is refused.
SessionRegister(name, address, kind) ==
  /\ globals[name] = None
  /\ symbols' = [symbols EXCEPT ![name] = [address |-> address, kind |-> kind]]
  /\ globals' = LinkSymbol(globals, address, name)

\* A caller says "Allocation" only of a block that a global record answers for.
RegisterSymbol(name, address, kind) ==
  /\ kind = "Allocation" => RecordsAt(globals, address) # {}
  /\ SessionRegister(name, address, kind)
  /\ UNCHANGED live

\* The state after unregisterSymbol has run for each of these names.
SessionUnregister(names) ==
  /\ symbols' = WithoutSymbols(names)
  /\ globals' = UnlinkSymbols(globals, {n \in names : Registered(n)})

UnregisterSymbol(name) ==
  /\ Registered(name)
  /\ SessionUnregister({name})
  /\ UNCHANGED live

\* globalAlloc of an unknown name: a symbol of that name is refused.
GlobalAllocNew(name) ==
  /\ globals[name] = None
  /\ ~Registered(name)
  /\ \E b \in Blocks \ live :
       /\ live' = live \cup {b}
       /\ globals' = [globals EXCEPT ![name] =
                        [address |-> b, linkedSymbols |-> {name}]]
       /\ symbols' = [symbols EXCEPT ![name] =
                        [address |-> b, kind |-> "Allocation"]]

\* globalAlloc of a known name that is large enough: the same block again.
GlobalAllocExisting(name) ==
  /\ globals[name] # None
  /\ globals' = [globals EXCEPT ![name].linkedSymbols = @ \cup {name}]
  /\ symbols' = [symbols EXCEPT ![name] =
                   [address |-> globals[name].address, kind |-> "Allocation"]]
  /\ UNCHANGED live

\* Fault: only the allocation's own symbol is dropped.
DeallocateGlobalOwnSymbol(name) ==
  /\ globals[name] # None
  /\ symbols' = WithoutSymbols({name})
  /\ live' = live \ {globals[name].address}
  /\ globals' = [globals EXCEPT ![name] = None]

\* Fault: the record outlives the block.
DeallocateGlobalKeepsRecord(name) ==
  /\ globals[name] # None
  /\ symbols' = WithoutSymbols(globals[name].linkedSymbols)
  /\ live' = live \ {globals[name].address}
  /\ UNCHANGED globals

\* deallocate drops the linked symbols from the table first; the links that
\* other records hold to those names stay as they are.
DeallocateGlobal(name) ==
  /\ globals[name] # None
  /\ symbols' = WithoutSymbols(globals[name].linkedSymbols)
  /\ live' = live \ {globals[name].address}
  /\ globals' = [globals EXCEPT ![name] = None]

\* The same call when the backend's free throws: the record survives.
DeallocateGlobalFails(name) ==
  /\ globals[name] # None
  /\ symbols' = WithoutSymbols(globals[name].linkedSymbols)
  /\ UNCHANGED <<live, globals>>

SessionNext ==
  \E name \in Names :
    \/ \E address \in Addresses, kind \in {"UserDefined", "Allocation"} :
         RegisterSymbol(name, address, kind)
    \/ UnregisterSymbol(name)
    \/ GlobalAllocNew(name)
    \/ GlobalAllocExisting(name)
    \/ DeallocateGlobal(name)
    \/ DeallocateGlobalFails(name)
=============================================================================
