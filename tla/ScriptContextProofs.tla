------------------------- MODULE ScriptContextProofs -------------------------
(***************************************************************************)
(* Safety of ScriptContext for every set of names, blocks and contexts.    *)
(*                                                                         *)
(* The inductive invariant is IInv.  Its parts lean on each other: that a  *)
(* symbol of kind Allocation is backed needs LinksComplete, which needs    *)
(* the records to own different blocks (so that "the first record at this  *)
(* address" is the record), which needs the records to be live (so that a  *)
(* fresh block is nobody's).                                               *)
(***************************************************************************)
EXTENDS ScriptContext, TLAPS

IInv ==
  /\ TypeOK
  /\ OwnersDisjoint
  /\ RecordsLive
  /\ GlobalNameBinding
  /\ LinksComplete

-----------------------------------------------------------------------------
(* The link and unlink helpers.                                            *)

\* linkGlobalAllocationSymbol changes no record but for one more linked name.
LEMMA LinkFacts ==
  ASSUME NEW records \in AllocationTable,
         NEW address \in Addresses, NEW name \in Names
  PROVE  LET new == LinkSymbol(records, address, name)
         IN  /\ new \in AllocationTable
             /\ \A m \in Names :
                  /\ (new[m] = None) <=> (records[m] = None)
                  /\ records[m] # None =>
                       /\ new[m].address = records[m].address
                       /\ records[m].linkedSymbols \subseteq new[m].linkedSymbols
BY NoneAssumption
   DEF LinkSymbol, AllocationTable, AllocationRecord, FirstOf, RecordsAt, Recorded

\* If one record alone stands at the address, that record lists the name.
LEMMA LinkReaches ==
  ASSUME NEW records \in AllocationTable,
         NEW address \in Addresses, NEW name \in Names,
         NEW m \in RecordsAt(records, address),
         \A k \in RecordsAt(records, address) : k = m
  PROVE  name \in LinkSymbol(records, address, name)[m].linkedSymbols
BY NamesAssumption
   DEF LinkSymbol, AllocationTable, AllocationRecord, FirstOf, RecordsAt, Recorded

\* unlinkGlobalAllocationSymbol only ever takes the named symbols off a list.
LEMMA UnlinkFacts ==
  ASSUME NEW records \in AllocationTable, NEW names \in SUBSET Names
  PROVE  LET new == UnlinkSymbols(records, names)
         IN  /\ new \in AllocationTable
             /\ \A m \in Names :
                  /\ (new[m] = None) <=> (records[m] = None)
                  /\ records[m] # None =>
                       /\ new[m].address = records[m].address
                       /\ records[m].linkedSymbols \ names
                            \subseteq new[m].linkedSymbols
BY NoneAssumption
   DEF UnlinkSymbols, AllocationTable, AllocationRecord

\* A change that keeps every record and its address keeps what is held.
LEMMA HeldSame ==
  ASSUME NEW old, NEW new,
         \A m \in Names :
           /\ (new[m] = None) <=> (old[m] = None)
           /\ old[m] # None => new[m].address = old[m].address
  PROVE  Recorded(new) = Recorded(old) /\ Held(new) = Held(old)
BY DEF Held, Recorded

-----------------------------------------------------------------------------
(* Typing.                                                                 *)

\* Init establishes the invariant: everything is empty.
LEMMA InitIInv == Init => IInv
BY NoneAssumption
   DEF Init, SessionInit, IInv, TypeOK, OwnersDisjoint, RecordsLive,
       GlobalNameBinding, LinksComplete, SymbolTable, AllocationTable, NoEntries,
       Held, Recorded, Registered

\* Dropping symbols keeps the table a table.
LEMMA WithoutType ==
  ASSUME TypeOK, NEW names \in SUBSET Names
  PROVE  /\ WithoutSymbols(names) \in SymbolTable
         /\ \A n \in Names : WithoutSymbols(names)[n] =
              IF n \in names THEN None ELSE symbols[n]
BY DEF WithoutSymbols, TypeOK, SymbolTable

\* What the two registration steps of the session do to its tables.
LEMMA RegisterFacts ==
  ASSUME TypeOK, NEW name \in Names, NEW address \in Addresses,
         NEW kind \in SymbolKind, SessionRegister(name, address, kind)
  PROVE  /\ symbols' \in SymbolTable
         /\ globals' \in AllocationTable
         /\ globals[name] = None
         /\ symbols'[name] = [address |-> address, kind |-> kind]
         /\ \A n \in Names \ {name} : symbols'[n] = symbols[n]
         /\ \A m \in Names :
              /\ (globals'[m] = None) <=> (globals[m] = None)
              /\ globals[m] # None =>
                   /\ globals'[m].address = globals[m].address
                   /\ globals[m].linkedSymbols \subseteq globals'[m].linkedSymbols
<1>1. globals' = LinkSymbol(globals, address, name) /\ globals \in AllocationTable
  BY DEF SessionRegister, TypeOK
<1>2. /\ symbols' \in SymbolTable
      /\ symbols'[name] = [address |-> address, kind |-> kind]
      /\ \A n \in Names \ {name} : symbols'[n] = symbols[n]
  BY DEF SessionRegister, TypeOK, SymbolTable, SymbolRecord
<1>3. globals[name] = None
  BY DEF SessionRegister
<1>4. QED
  BY <1>1, <1>2, <1>3, LinkFacts

\* What unregistering a set of names does to them.
LEMMA UnregisterFacts ==
  ASSUME TypeOK, NEW names \in SUBSET Names, SessionUnregister(names)
  PROVE  /\ symbols' \in SymbolTable
         /\ globals' \in AllocationTable
         /\ \A n \in Names : symbols'[n] = IF n \in names THEN None ELSE symbols[n]
         /\ \A m \in Names :
              /\ (globals'[m] = None) <=> (globals[m] = None)
              /\ globals[m] # None =>
                   /\ globals'[m].address = globals[m].address
                   /\ globals[m].linkedSymbols \ names
                        \subseteq globals'[m].linkedSymbols
<1> DEFINE gone == {n \in names : Registered(n)}
<1>1. globals' = UnlinkSymbols(globals, gone) /\ globals \in AllocationTable
  BY DEF SessionUnregister, TypeOK
<1>2. gone \in SUBSET Names /\ gone \subseteq names
  OBVIOUS
<1>3. /\ globals' \in AllocationTable
      /\ \A m \in Names :
           /\ (globals'[m] = None) <=> (globals[m] = None)
           /\ globals[m] # None =>
                /\ globals'[m].address = globals[m].address
                /\ globals[m].linkedSymbols \ gone
                     \subseteq globals'[m].linkedSymbols
  BY <1>1, <1>2, UnlinkFacts
<1>4. QED
  BY <1>2, <1>3, WithoutType DEF SessionUnregister

\* Type correctness is inductive on its own.
LEMMA TypeStep == TypeOK /\ [Next]_vars => TypeOK'
<1> SUFFICES ASSUME TypeOK, [Next]_vars PROVE TypeOK'
  OBVIOUS
<1>1. CASE SessionNext /\ UNCHANGED contextVars
  <2> SUFFICES live' \subseteq Blocks /\ symbols' \in SymbolTable
               /\ globals' \in AllocationTable
    BY <1>1 DEF contextVars, TypeOK
  <2>1. PICK name \in Names :
          \/ \E address \in Addresses, kind \in {"UserDefined", "Allocation"} :
               RegisterSymbol(name, address, kind)
          \/ UnregisterSymbol(name)
          \/ GlobalAllocNew(name)
          \/ GlobalAllocExisting(name)
          \/ DeallocateGlobal(name)
          \/ DeallocateGlobalFails(name)
    BY <1>1 DEF SessionNext
  <2>2. CASE \E address \in Addresses, kind \in {"UserDefined", "Allocation"} :
               RegisterSymbol(name, address, kind)
    BY <2>2, RegisterFacts DEF RegisterSymbol, SymbolKind, TypeOK
  <2>3. CASE UnregisterSymbol(name)
    BY <2>3, UnregisterFacts DEF UnregisterSymbol, TypeOK
  <2>4. CASE GlobalAllocNew(name)
    BY <2>4 DEF GlobalAllocNew, TypeOK, SymbolTable, AllocationTable, SymbolRecord,
                AllocationRecord, SymbolKind, Addresses
  <2>5. CASE GlobalAllocExisting(name)
    BY <2>5 DEF GlobalAllocExisting, TypeOK, SymbolTable, AllocationTable,
                SymbolRecord, AllocationRecord, SymbolKind, Addresses
  <2>6. CASE DeallocateGlobal(name)
    BY <2>6, WithoutType DEF DeallocateGlobal, TypeOK, AllocationTable, AllocationRecord
  <2>7. CASE DeallocateGlobalFails(name)
    BY <2>7, WithoutType DEF DeallocateGlobalFails, TypeOK, AllocationTable,
                             AllocationRecord
  <2>8. QED
    BY <2>1, <2>2, <2>3, <2>4, <2>5, <2>6, <2>7
<1>2. ASSUME NEW c \in Contexts, CreateScriptContext(c) PROVE TypeOK'
  BY <1>2 DEF CreateScriptContext, TypeOK
<1>3. ASSUME NEW c \in scriptContexts, ContextNext(c) PROVE TypeOK'
  <2> c \in Contexts
    BY DEF TypeOK
  <2>1. CASE DestroyScriptContext(c)
    BY <2>1 DEF DestroyScriptContext, TypeOK, NoEntries, sessionVars, AllocationTable
  <2>2. ASSUME NEW n \in Names, Alloc(c, n) PROVE TypeOK'
    BY <2>2 DEF Alloc, TypeOK, AllocationTable, AllocationRecord, Addresses
  <2>3. ASSUME NEW n \in Names, ForgetLocal(c, n)
        PROVE  /\ symbols' \in SymbolTable
               /\ globals' \in AllocationTable
               /\ labels' \in [Contexts -> [Names -> Addresses \cup {Unbound, None}]]
               /\ \A d \in Contexts \ {c} : labels'[d] = labels[d]
    <3>1. locals[c][n].linkedSymbols \in SUBSET Names
      BY <2>3 DEF ForgetLocal, TypeOK, AllocationTable, AllocationRecord
    <3>2. QED
      BY <2>3, <3>1, UnregisterFacts DEF ForgetLocal, TypeOK
  <2>4. ASSUME NEW n \in Names, DeallocLocal(c, n) PROVE TypeOK'
    BY <2>3, <2>4 DEF DeallocLocal, TypeOK, AllocationTable
  <2>5. ASSUME NEW n \in Names, DeallocLocalFails(c, n) PROVE TypeOK'
    BY <2>3, <2>5 DEF DeallocLocalFails, TypeOK
  <2>6. ASSUME NEW n \in Names, LabelStep(c, n) PROVE TypeOK'
    BY <2>6, LabelTargetsAssumption
       DEF LabelStep, DeclareLabel, BindLabel, ResetLabel, SetLabelAddress, TypeOK
  <2>7. ASSUME NEW n \in Names, PublishStep(c, n) PROVE TypeOK'
    <3>1. ASSUME NEW address \in Addresses, NEW kind \in SymbolKind,
                 SessionRegister(n, address, kind),
                 LinkLocal(c, address, n) \/ UNCHANGED locals
          PROVE  TypeOK'
      <4>1. locals' \in [Contexts -> AllocationTable]
            /\ \A d \in Contexts \ {c} : locals'[d] = locals[d]
        BY <3>1, LinkFacts DEF LinkLocal, TypeOK
      <4>2. QED
        BY <2>7, <3>1, <4>1, RegisterFacts DEF PublishStep, TypeOK
    <3>2. CASE PublishLocal(c, n)
      <4>1. locals[c][n].address \in Addresses
        BY <3>2 DEF PublishLocal, TypeOK, AllocationTable, AllocationRecord, Addresses
      <4>2. QED
        BY <3>1, <3>2, <4>1 DEF PublishLocal, SymbolKind
    <3>3. CASE PublishLabel(c, n)
      BY <3>1, <3>3 DEF PublishLabel, BoundLabel, SymbolKind
    <3>4. ASSUME NEW address \in Elsewhere, PublishResolved(c, n, address)
          PROVE  TypeOK'
      BY <3>1, <3>4 DEF PublishResolved, SymbolKind, Addresses
    <3>5. ASSUME NEW address \in Addresses,
                 NEW kind \in {"UserDefined", "Allocation"},
                 PublishAlias(c, n, address, kind)
          PROVE  TypeOK'
      BY <3>1, <3>5 DEF PublishAlias, SymbolKind
    <3>6. QED
      BY <2>7, <3>2, <3>3, <3>4, <3>5 DEF PublishStep
  <2>8. ASSUME NEW n \in Names, WithdrawSymbol(c, n) PROVE TypeOK'
    <3>1. locals' \in [Contexts -> AllocationTable]
          /\ \A d \in Contexts \ {c} : locals'[d] = locals[d]
      BY <2>8, UnlinkFacts DEF WithdrawSymbol, TypeOK
    <3>2. QED
      BY <2>8, <3>1, UnregisterFacts DEF WithdrawSymbol, TypeOK
  <2>9. QED
    BY <1>3, <2>1, <2>2, <2>4, <2>5, <2>6, <2>7, <2>8 DEF ContextNext
<1>4. CASE UNCHANGED vars
  BY <1>4 DEF vars, TypeOK
<1>5. QED
  BY <1>1, <1>2, <1>3, <1>4 DEF Next

\* The registries of script_context.cpp and engine_session.cpp stay well formed.
THEOREM TypeCorrect == Spec => []TypeOK
<1>1. Init => TypeOK
  BY InitIInv DEF IInv
<1>2. QED
  BY <1>1, TypeStep, PTL DEF Spec

-----------------------------------------------------------------------------
(* Ownership of blocks.                                                    *)

\* Two states of a repository record the same blocks under the same names.
SameBlocks(old, new) ==
  \A m \in Names :
    /\ (new[m] = None) <=> (old[m] = None)
    /\ old[m] # None => new[m].address = old[m].address

\* Steps that allocate and free nothing and only touch links keep ownership.
LEMMA OwnershipKept ==
  ASSUME OwnersDisjoint, RecordsLive, live' = live, SameBlocks(globals, globals'),
         \A c \in Contexts : SameBlocks(locals[c], locals'[c])
  PROVE  OwnersDisjoint' /\ RecordsLive' /\ Leaked' = Leaked
<1>1. Recorded(globals') = Recorded(globals) /\ Held(globals') = Held(globals)
  BY HeldSame DEF SameBlocks
<1>2. \A c \in Contexts : /\ Recorded(locals'[c]) = Recorded(locals[c])
                          /\ Held(locals'[c]) = Held(locals[c])
  BY HeldSame DEF SameBlocks
<1>3. \A m \in Recorded(globals) : globals'[m].address = globals[m].address
  BY DEF SameBlocks, Recorded
<1>4. \A c \in Contexts : \A m \in Recorded(locals[c]) :
        locals'[c][m].address = locals[c][m].address
  BY DEF SameBlocks, Recorded
<1>5. UNION {Held(locals'[c]) : c \in Contexts}
        = UNION {Held(locals[c]) : c \in Contexts}
  BY <1>2
<1>6. QED
  BY <1>1, <1>2, <1>3, <1>4, <1>5 DEF OwnersDisjoint, RecordsLive, Leaked

\* The registration steps of a context touch its own links only.
LEMMA LinkLocalFacts ==
  ASSUME TypeOK, NEW c \in Contexts, NEW name \in Names, NEW address \in Addresses,
         LinkLocal(c, address, name)
  PROVE  /\ \A d \in Contexts : SameBlocks(locals[d], locals'[d])
         /\ \A d \in Contexts, m \in Names :
              locals[d][m] # None =>
                locals[d][m].linkedSymbols \subseteq locals'[d][m].linkedSymbols
         /\ locals'[c] = LinkSymbol(locals[c], address, name)
<1>1. /\ locals[c] \in AllocationTable
      /\ locals'[c] = LinkSymbol(locals[c], address, name)
      /\ \A d \in Contexts \ {c} : locals'[d] = locals[d]
  BY DEF LinkLocal, TypeOK
<1>2. SameBlocks(locals[c], locals'[c])
      /\ \A m \in Names : locals[c][m] # None =>
            locals[c][m].linkedSymbols \subseteq locals'[c][m].linkedSymbols
  BY <1>1, LinkFacts DEF SameBlocks
<1>3. QED
  BY <1>1, <1>2 DEF SameBlocks

\* A withdrawn symbol leaves the rest of the registry alone.
LEMMA WithdrawFacts ==
  ASSUME TypeOK, NEW c \in Contexts, NEW name \in Names, WithdrawSymbol(c, name)
  PROVE  /\ \A d \in Contexts : SameBlocks(locals[d], locals'[d])
         /\ \A d \in Contexts, m \in Names :
              locals[d][m] # None =>
                locals[d][m].linkedSymbols \ {name}
                  \subseteq locals'[d][m].linkedSymbols
<1>1. /\ locals[c] \in AllocationTable
      /\ locals'[c] = UnlinkSymbols(locals[c], {name})
      /\ \A d \in Contexts \ {c} : locals'[d] = locals[d]
  BY DEF WithdrawSymbol, TypeOK
<1>2. SameBlocks(locals[c], locals'[c])
      /\ \A m \in Names : locals[c][m] # None =>
            locals[c][m].linkedSymbols \ {name} \subseteq locals'[c][m].linkedSymbols
  BY <1>1, UnlinkFacts DEF SameBlocks
<1>3. QED
  BY <1>1, <1>2 DEF SameBlocks

\* No step lets two records share a block or outlive theirs.
LEMMA OwnershipStep ==
  TypeOK /\ OwnersDisjoint /\ RecordsLive /\ [Next]_vars
    => OwnersDisjoint' /\ RecordsLive'
<1> SUFFICES ASSUME TypeOK, OwnersDisjoint, RecordsLive, [Next]_vars
             PROVE  OwnersDisjoint' /\ RecordsLive'
  OBVIOUS
<1>a. ASSUME UNCHANGED <<live, locals>>, SameBlocks(globals, globals')
      PROVE  OwnersDisjoint' /\ RecordsLive'
  BY <1>a, OwnershipKept DEF SameBlocks
<1>1. CASE SessionNext /\ UNCHANGED contextVars
  <2>1. ASSUME NEW name \in Names, NEW address \in Addresses,
               NEW kind \in {"UserDefined", "Allocation"},
               RegisterSymbol(name, address, kind)
        PROVE  OwnersDisjoint' /\ RecordsLive'
    BY <1>1, <1>a, <2>1, RegisterFacts
       DEF RegisterSymbol, SymbolKind, contextVars, SameBlocks
  <2>2. ASSUME NEW name \in Names, UnregisterSymbol(name)
        PROVE  OwnersDisjoint' /\ RecordsLive'
    BY <1>1, <1>a, <2>2, UnregisterFacts DEF UnregisterSymbol, contextVars, SameBlocks
  <2>3. ASSUME NEW name \in Names, GlobalAllocNew(name)
        PROVE  OwnersDisjoint' /\ RecordsLive'
    <3>1. PICK b \in Blocks \ live :
            /\ live' = live \cup {b}
            /\ globals' = [globals EXCEPT ![name] =
                              [address |-> b, linkedSymbols |-> {name}]]
      BY <2>3 DEF GlobalAllocNew
    <3>2. /\ Recorded(globals') = Recorded(globals) \cup {name}
          /\ Held(globals') = Held(globals) \cup {b}
          /\ name \notin Recorded(globals)
      BY <2>3, <3>1, NoneAssumption
         DEF GlobalAllocNew, Recorded, Held, TypeOK, AllocationTable, AllocationRecord
    <3>3. \A m \in Recorded(globals) : globals'[m] = globals[m]
      BY <3>1, <3>2 DEF TypeOK, AllocationTable, Recorded
    <3>4. globals'[name].address = b /\ locals' = locals
      BY <1>1, <3>1 DEF TypeOK, AllocationTable, contextVars
    <3>5. b \notin Held(globals) /\ \A c \in Contexts : b \notin Held(locals[c])
      BY <3>1 DEF RecordsLive
    <3>6. \A m \in Recorded(globals) : globals[m].address # b
      BY <3>5 DEF Held
    <3>7. RecordsLive'
      BY <3>1, <3>2, <3>4 DEF RecordsLive
    <3>8. ASSUME NEW j \in Recorded(globals'), NEW k \in Recorded(globals'),
                 globals'[j].address = globals'[k].address
          PROVE  j = k
      BY <3>2, <3>3, <3>4, <3>6, <3>8 DEF OwnersDisjoint
    <3>9. QED
      BY <3>2, <3>4, <3>5, <3>7, <3>8 DEF OwnersDisjoint
  <2>4. ASSUME NEW name \in Names, GlobalAllocExisting(name)
        PROVE  OwnersDisjoint' /\ RecordsLive'
    <3>1. SameBlocks(globals, globals')
      BY <2>4, NoneAssumption
         DEF GlobalAllocExisting, SameBlocks, TypeOK, AllocationTable, AllocationRecord
    <3>2. QED
      BY <1>1, <1>a, <2>4, <3>1 DEF GlobalAllocExisting, contextVars
  <2>5. ASSUME NEW name \in Names, DeallocateGlobal(name)
        PROVE  OwnersDisjoint' /\ RecordsLive'
    <3>1. /\ Recorded(globals') = Recorded(globals) \ {name}
          /\ \A m \in Recorded(globals') : globals'[m] = globals[m]
          /\ name \in Recorded(globals)
      BY <2>5 DEF DeallocateGlobal, TypeOK, AllocationTable, Recorded
    <3>2. live' = live \ {globals[name].address} /\ locals' = locals
      BY <1>1, <2>5 DEF DeallocateGlobal, contextVars
    <3>3. globals[name].address \in Held(globals)
          /\ Held(globals') \subseteq Held(globals)
      BY <3>1 DEF Held
    <3>4. globals[name].address \notin Held(globals')
      BY <3>1 DEF Held, OwnersDisjoint
    <3>5. QED
      BY <3>1, <3>2, <3>3, <3>4 DEF OwnersDisjoint, RecordsLive
  <2>6. ASSUME NEW name \in Names, DeallocateGlobalFails(name)
        PROVE  OwnersDisjoint' /\ RecordsLive'
    BY <1>1, <1>a, <2>6 DEF DeallocateGlobalFails, contextVars, SameBlocks
  <2>7. QED
    BY <1>1, <2>1, <2>2, <2>3, <2>4, <2>5, <2>6 DEF SessionNext
<1>2. ASSUME NEW c \in Contexts, CreateScriptContext(c)
      PROVE  OwnersDisjoint' /\ RecordsLive'
  BY <1>2, <1>a DEF CreateScriptContext, SameBlocks
<1>3. ASSUME NEW c \in scriptContexts, ContextNext(c)
      PROVE  OwnersDisjoint' /\ RecordsLive'
  <2> c \in Contexts
    BY DEF TypeOK
  <2>1. CASE DestroyScriptContext(c)
    <3>1. locals'[c] = NoEntries /\ \A d \in Contexts \ {c} : locals'[d] = locals[d]
      BY <2>1 DEF DestroyScriptContext, TypeOK
    <3>2. Recorded(NoEntries) = {} /\ Held(NoEntries) = {}
      BY DEF Recorded, Held, NoEntries
    <3>3. QED
      BY <2>1, <3>1, <3>2
         DEF DestroyScriptContext, sessionVars, OwnersDisjoint, RecordsLive
  <2>2. ASSUME NEW n \in Names, Alloc(c, n)
        PROVE  OwnersDisjoint' /\ RecordsLive'
    <3>1. PICK b \in Blocks \ live :
            /\ live' = live \cup {b}
            /\ locals' = [locals EXCEPT ![c][n] = [address |-> b, linkedSymbols |-> {}]]
      BY <2>2 DEF Alloc
    <3>2. /\ \A d \in Contexts \ {c} : locals'[d] = locals[d]
          /\ \A m \in Names \ {n} : locals'[c][m] = locals[c][m]
          /\ locals'[c][n] = [address |-> b, linkedSymbols |-> {}]
      BY <3>1 DEF TypeOK, AllocationTable
    <3>3. /\ Recorded(locals'[c]) = Recorded(locals[c]) \cup {n}
          /\ n \notin Recorded(locals[c])
      BY <2>2, <3>1, <3>2, NoneAssumption DEF Alloc, Recorded, AllocationRecord
    <3>4. Held(locals'[c]) = Held(locals[c]) \cup {b}
      <4>1. \A m \in Recorded(locals[c]) : locals'[c][m] = locals[c][m]
        BY <3>2, <3>3 DEF Recorded
      <4>2. locals'[c][n].address = b
        BY <3>2
      <4>3. QED
        BY <3>3, <4>1, <4>2 DEF Held
    <3>5. b \notin Held(globals) /\ \A d \in Contexts : b \notin Held(locals[d])
      BY <3>1 DEF RecordsLive
    <3>6. \A m \in Recorded(locals[c]) : locals[c][m].address # b
      BY <3>5 DEF Held
    <3>7. globals' = globals
      BY <2>2 DEF Alloc
    <3>8. RecordsLive'
      BY <3>1, <3>2, <3>4, <3>7 DEF RecordsLive
    <3>9. OwnersDisjoint'
      <4>1. ASSUME NEW j \in Recorded(locals'[c]), NEW k \in Recorded(locals'[c]),
                   locals'[c][j].address = locals'[c][k].address
            PROVE  j = k
        <5>1. \A i \in Recorded(locals[c]) : i # n /\ i \in Names
                                            /\ locals'[c][i] = locals[c][i]
          BY <3>2, <3>3 DEF Recorded
        <5>2. locals'[c][n].address = b
          BY <3>2
        <5>3. QED
          BY <3>3, <3>6, <4>1, <5>1, <5>2 DEF OwnersDisjoint
      <4>2. QED
        BY <3>2, <3>4, <3>5, <3>7, <4>1 DEF OwnersDisjoint
    <3>10. QED
      BY <3>8, <3>9
  <2>3. ASSUME NEW n \in Names, ForgetLocal(c, n)
        PROVE  SameBlocks(globals, globals')
    <3>1. locals[c][n].linkedSymbols \in SUBSET Names
      BY <2>3 DEF ForgetLocal, TypeOK, AllocationTable, AllocationRecord
    <3>2. QED
      BY <2>3, <3>1, UnregisterFacts DEF ForgetLocal, SameBlocks
  <2>4. ASSUME NEW n \in Names, DeallocLocal(c, n)
        PROVE  OwnersDisjoint' /\ RecordsLive'
    <3>1. SameBlocks(globals, globals') /\ locals[c][n] # None
      BY <2>3, <2>4 DEF DeallocLocal, ForgetLocal
    <3>2. /\ Recorded(globals') = Recorded(globals)
          /\ Held(globals') = Held(globals)
          /\ \A m \in Recorded(globals) : globals'[m].address = globals[m].address
      BY <3>1, HeldSame DEF SameBlocks, Recorded
    <3>3. /\ \A d \in Contexts \ {c} : locals'[d] = locals[d]
          /\ Recorded(locals'[c]) = Recorded(locals[c]) \ {n}
          /\ \A m \in Recorded(locals'[c]) : locals'[c][m] = locals[c][m]
          /\ n \in Recorded(locals[c])
      BY <2>4, <3>1 DEF DeallocLocal, TypeOK, AllocationTable, Recorded
    <3>4. /\ locals[c][n].address \in Held(locals[c])
          /\ Held(locals'[c]) \subseteq Held(locals[c])
      BY <3>3 DEF Held
    <3>5. locals[c][n].address \notin Held(locals'[c])
      BY <3>3 DEF Held, OwnersDisjoint
    <3>6. live' = live \ {locals[c][n].address}
      BY <2>4 DEF DeallocLocal
    <3>7. QED
      BY <3>2, <3>3, <3>4, <3>5, <3>6 DEF OwnersDisjoint, RecordsLive
  <2>5. ASSUME NEW n \in Names, DeallocLocalFails(c, n)
        PROVE  OwnersDisjoint' /\ RecordsLive'
    BY <1>a, <2>3, <2>5 DEF DeallocLocalFails
  <2>6. ASSUME NEW n \in Names, LabelStep(c, n)
        PROVE  OwnersDisjoint' /\ RecordsLive'
    BY <1>a, <2>6 DEF LabelStep, SameBlocks
  <2>7. ASSUME NEW n \in Names, PublishStep(c, n)
        PROVE  OwnersDisjoint' /\ RecordsLive'
    <3>1. ASSUME NEW address \in Addresses, NEW kind \in SymbolKind,
                 SessionRegister(n, address, kind),
                 LinkLocal(c, address, n) \/ UNCHANGED locals
          PROVE  OwnersDisjoint' /\ RecordsLive'
      <4>1. SameBlocks(globals, globals')
        BY <3>1, RegisterFacts DEF SameBlocks
      <4>2. \A d \in Contexts : SameBlocks(locals[d], locals'[d])
        BY <3>1, LinkLocalFacts DEF SameBlocks
      <4>3. QED
        BY <2>7, <4>1, <4>2, OwnershipKept DEF PublishStep
    <3>2. CASE PublishLocal(c, n)
      <4>1. locals[c][n].address \in Addresses
        BY <3>2 DEF PublishLocal, TypeOK, AllocationTable, AllocationRecord, Addresses
      <4>2. QED
        BY <3>1, <3>2, <4>1 DEF PublishLocal, SymbolKind
    <3>3. CASE PublishLabel(c, n)
      BY <3>1, <3>3 DEF PublishLabel, BoundLabel, SymbolKind
    <3>4. ASSUME NEW address \in Elsewhere, PublishResolved(c, n, address)
          PROVE  OwnersDisjoint' /\ RecordsLive'
      BY <3>1, <3>4 DEF PublishResolved, SymbolKind, Addresses
    <3>5. ASSUME NEW address \in Addresses,
                 NEW kind \in {"UserDefined", "Allocation"},
                 PublishAlias(c, n, address, kind)
          PROVE  OwnersDisjoint' /\ RecordsLive'
      BY <3>1, <3>5 DEF PublishAlias, SymbolKind
    <3>6. QED
      BY <2>7, <3>2, <3>3, <3>4, <3>5 DEF PublishStep
  <2>8. ASSUME NEW n \in Names, WithdrawSymbol(c, n)
        PROVE  OwnersDisjoint' /\ RecordsLive'
    <3>1. SameBlocks(globals, globals')
      BY <2>8, UnregisterFacts DEF WithdrawSymbol, SameBlocks
    <3>2. QED
      BY <2>8, <3>1, WithdrawFacts, OwnershipKept DEF WithdrawSymbol
  <2>9. QED
    BY <1>3, <2>1, <2>2, <2>4, <2>5, <2>6, <2>7, <2>8 DEF ContextNext
<1>4. CASE UNCHANGED vars
  BY <1>4, <1>a DEF vars, SameBlocks
<1>5. QED
  BY <1>1, <1>2, <1>3, <1>4 DEF Next

\* allocation_service.cpp and script_context.cpp: every record stands for a
\* block of its own that is still allocated, so every free is of a live block
\* and of the caller's.
THEOREM BlocksOwned == Spec => [](OwnersDisjoint /\ RecordsLive)
<1>1. Init => OwnersDisjoint /\ RecordsLive
  BY InitIInv DEF IInv
<1>2. QED
  BY <1>1, TypeCorrect, OwnershipStep, PTL DEF Spec

\* allocation_service.cpp and script_context.cpp: a record goes when its block
\* is given back, and not before, so no call frees a block twice.
THEOREM RecordsStayLive == Spec => []RecordsLive
<1>1. OwnersDisjoint /\ RecordsLive => RecordsLive
  OBVIOUS
<1>2. QED
  BY <1>1, BlocksOwned, PTL

-----------------------------------------------------------------------------
(* The name of a global allocation.                                        *)

\* Steps that register another name, or drop names, keep the binding.
LEMMA BindingKept ==
  ASSUME GlobalNameBinding, SameBlocks(globals, globals'),
         \A n \in Recorded(globals) : symbols'[n] \in {symbols[n], None}
  PROVE  GlobalNameBinding'
<1>1. Recorded(globals') = Recorded(globals)
      /\ \A n \in Recorded(globals) : globals'[n].address = globals[n].address
  BY DEF SameBlocks, Recorded
<1>2. QED
  BY <1>1 DEF GlobalNameBinding, Registered

\* No step rebinds the name of a global allocation that exists.
LEMMA BindingStep ==
  TypeOK /\ GlobalNameBinding /\ [Next]_vars => GlobalNameBinding'
<1> SUFFICES ASSUME TypeOK, GlobalNameBinding, [Next]_vars
             PROVE  GlobalNameBinding'
  OBVIOUS
<1>a. ASSUME NEW name \in Names, NEW address \in Addresses, NEW kind \in SymbolKind,
             SessionRegister(name, address, kind)
      PROVE  GlobalNameBinding'
  BY <1>a, RegisterFacts, BindingKept DEF SameBlocks, Recorded
<1>b. ASSUME NEW names \in SUBSET Names, SessionUnregister(names)
      PROVE  GlobalNameBinding'
  BY <1>b, UnregisterFacts, BindingKept DEF SameBlocks, Recorded
<1>c. ASSUME UNCHANGED <<symbols, globals>> PROVE GlobalNameBinding'
  BY <1>c DEF GlobalNameBinding, Registered
<1>1. ASSUME NEW name \in Names, NEW address \in Addresses,
             NEW kind \in {"UserDefined", "Allocation"},
             RegisterSymbol(name, address, kind)
      PROVE  GlobalNameBinding'
  BY <1>1, <1>a DEF RegisterSymbol, SymbolKind
<1>2. ASSUME NEW name \in Names, UnregisterSymbol(name) PROVE GlobalNameBinding'
  BY <1>2, <1>b DEF UnregisterSymbol
<1>3. ASSUME NEW name \in Names, GlobalAllocNew(name) PROVE GlobalNameBinding'
  BY <1>3 DEF GlobalAllocNew, GlobalNameBinding, Registered, Recorded, TypeOK,
              SymbolTable, AllocationTable
<1>4. ASSUME NEW name \in Names, GlobalAllocExisting(name) PROVE GlobalNameBinding'
  BY <1>4 DEF GlobalAllocExisting, GlobalNameBinding, Registered, Recorded, TypeOK,
              SymbolTable, AllocationTable, AllocationRecord
<1>5. ASSUME NEW name \in Names, DeallocateGlobal(name) PROVE GlobalNameBinding'
  BY <1>5 DEF DeallocateGlobal, WithoutSymbols, GlobalNameBinding, Registered,
              Recorded, TypeOK, AllocationTable
<1>6. ASSUME NEW name \in Names, DeallocateGlobalFails(name) PROVE GlobalNameBinding'
  BY <1>6 DEF DeallocateGlobalFails, WithoutSymbols, GlobalNameBinding, Registered,
              Recorded
<1>7. ASSUME NEW c \in Contexts, NEW n \in Names, ForgetLocal(c, n)
      PROVE  GlobalNameBinding'
  <2>1. locals[c][n].linkedSymbols \in SUBSET Names
    BY <1>7 DEF ForgetLocal, TypeOK, AllocationTable, AllocationRecord
  <2>2. QED
    BY <1>7, <1>b, <2>1 DEF ForgetLocal
<1>8. ASSUME NEW c \in Contexts, NEW n \in Names, PublishStep(c, n)
      PROVE  GlobalNameBinding'
  <2>1. CASE PublishLocal(c, n)
    <3>1. locals[c][n].address \in Addresses
      BY <2>1 DEF PublishLocal, TypeOK, AllocationTable, AllocationRecord, Addresses
    <3>2. QED
      BY <1>a, <2>1, <3>1 DEF PublishLocal, SymbolKind
  <2>2. CASE PublishLabel(c, n)
    BY <1>a, <2>2 DEF PublishLabel, BoundLabel, SymbolKind
  <2>3. ASSUME NEW address \in Elsewhere, PublishResolved(c, n, address)
        PROVE  GlobalNameBinding'
    BY <1>a, <2>3 DEF PublishResolved, SymbolKind, Addresses
  <2>4. ASSUME NEW address \in Addresses, NEW kind \in {"UserDefined", "Allocation"},
               PublishAlias(c, n, address, kind)
        PROVE  GlobalNameBinding'
    BY <1>a, <2>4 DEF PublishAlias, SymbolKind
  <2>5. QED
    BY <1>8, <2>1, <2>2, <2>3, <2>4 DEF PublishStep
<1>9. ASSUME NEW c \in scriptContexts, ContextNext(c) PROVE GlobalNameBinding'
  <2> c \in Contexts
    BY DEF TypeOK
  <2>1. CASE DestroyScriptContext(c)
    BY <1>c, <2>1 DEF DestroyScriptContext, sessionVars
  <2>2. ASSUME NEW n \in Names, Alloc(c, n) \/ LabelStep(c, n)
        PROVE  GlobalNameBinding'
    BY <1>c, <2>2 DEF Alloc, LabelStep
  <2>3. ASSUME NEW n \in Names, DeallocLocal(c, n) \/ DeallocLocalFails(c, n)
        PROVE  GlobalNameBinding'
    BY <1>7, <2>3 DEF DeallocLocal, DeallocLocalFails
  <2>4. ASSUME NEW n \in Names, WithdrawSymbol(c, n) PROVE GlobalNameBinding'
    BY <1>b, <2>4 DEF WithdrawSymbol
  <2>5. QED
    BY <1>8, <1>9, <2>1, <2>2, <2>3, <2>4 DEF ContextNext
<1>10. CASE SessionNext
  BY <1>1, <1>2, <1>3, <1>4, <1>5, <1>6, <1>10 DEF SessionNext
<1>11. CASE UNCHANGED vars
  BY <1>c, <1>11 DEF vars
<1>12. ASSUME NEW c \in Contexts, CreateScriptContext(c) PROVE GlobalNameBinding'
  BY <1>c, <1>12 DEF CreateScriptContext
<1>13. QED
  BY <1>9, <1>10, <1>11, <1>12 DEF Next

\* engine_session.cpp: whatever scripts register, unregister and free, the
\* name of an existing global allocation never means another address.
THEOREM GlobalNamesBound == Spec => []GlobalNameBinding
<1>1. Init => GlobalNameBinding
  BY InitIInv DEF IInv
<1>2. QED
  BY <1>1, TypeCorrect, BindingStep, PTL DEF Spec

-----------------------------------------------------------------------------
(* Symbols of kind Allocation.                                             *)

\* The symbol is listed by the record of its block.
ListedBy(records, n, address) ==
  \E m \in HoldersOf(records, n) : records[m].address = address

\* A record that keeps its block and this link still lists the symbol.
LEMMA ListedKept ==
  ASSUME NEW old, NEW new, NEW n \in Names, NEW address, SameBlocks(old, new),
         \A m \in Names : old[m] # None /\ n \in old[m].linkedSymbols =>
                            n \in new[m].linkedSymbols,
         ListedBy(old, n, address)
  PROVE  ListedBy(new, n, address)
BY DEF ListedBy, HoldersOf, Recorded, SameBlocks

\* Registering an allocation's own address reaches the allocation's record.
LEMMA RegisterListed ==
  ASSUME TypeOK, OwnersDisjoint, NEW c \in Contexts, NEW name \in Names,
         NEW address \in Addresses,
         SessionRegister(name, address, "Allocation"),
         \/ RecordsAt(globals, address) # {}
         \/ RecordsAt(locals[c], address) # {} /\ LinkLocal(c, address, name)
  PROVE  \/ ListedBy(globals', name, address)
         \/ ListedBy(locals'[c], name, address)
<1>1. globals \in AllocationTable /\ locals[c] \in AllocationTable
  BY DEF TypeOK
<1>2. CASE RecordsAt(globals, address) # {}
  <2>1. PICK m \in RecordsAt(globals, address) : TRUE
    BY <1>2
  <2>2. \A k \in RecordsAt(globals, address) : k = m
    BY <2>1 DEF RecordsAt, OwnersDisjoint
  <2>3. globals' = LinkSymbol(globals, address, name)
    BY DEF SessionRegister
  <2>4. name \in globals'[m].linkedSymbols
    BY <1>1, <2>1, <2>2, <2>3, LinkReaches
  <2>5. globals'[m] # None /\ globals'[m].address = address /\ m \in Names
    BY <1>1, <2>1, <2>3, LinkFacts DEF RecordsAt, Recorded
  <2>6. QED
    BY <2>4, <2>5 DEF ListedBy, HoldersOf, Recorded
<1>3. CASE RecordsAt(locals[c], address) # {} /\ LinkLocal(c, address, name)
  <2>1. PICK m \in RecordsAt(locals[c], address) : TRUE
    BY <1>3
  <2>2. \A k \in RecordsAt(locals[c], address) : k = m
    BY <2>1 DEF RecordsAt, OwnersDisjoint
  <2>3. locals'[c] = LinkSymbol(locals[c], address, name)
    BY <1>3, LinkLocalFacts
  <2>4. name \in locals'[c][m].linkedSymbols
    BY <1>1, <2>1, <2>2, <2>3, LinkReaches
  <2>5. locals'[c][m] # None /\ locals'[c][m].address = address /\ m \in Names
    BY <1>1, <2>1, <2>3, LinkFacts DEF RecordsAt, Recorded
  <2>6. QED
    BY <2>4, <2>5 DEF ListedBy, HoldersOf, Recorded
<1>4. QED
  BY <1>2, <1>3

\* Steps that neither allocate nor free: it is enough that no surviving
\* allocation symbol lost its link.
LEMMA LinksKept ==
  ASSUME OwnersDisjoint, RecordsLive, LinksComplete, live' = live,
         SameBlocks(globals, globals'),
         \A c \in Contexts : SameBlocks(locals[c], locals'[c]),
         NEW names \in SUBSET Names,
         \A n \in Names \ names : symbols'[n] = symbols[n],
         \A m \in Names : globals[m] # None =>
           globals[m].linkedSymbols \ names \subseteq globals'[m].linkedSymbols,
         \A c \in Contexts, m \in Names : locals[c][m] # None =>
           locals[c][m].linkedSymbols \ names \subseteq locals'[c][m].linkedSymbols,
         \A n \in names :
           symbols'[n] # None /\ symbols'[n].kind = "Allocation" =>
             \/ ListedBy(globals', n, symbols'[n].address)
             \/ \E c \in Contexts : ListedBy(locals'[c], n, symbols'[n].address)
  PROVE  LinksComplete'
<1> SUFFICES ASSUME NEW n \in Names, symbols'[n] # None,
                    symbols'[n].kind = "Allocation"
             PROVE  \/ symbols'[n].address \in Leaked'
                    \/ ListedBy(globals', n, symbols'[n].address)
                    \/ \E c \in Contexts : ListedBy(locals'[c], n, symbols'[n].address)
  BY DEF LinksComplete, Registered, ListedBy, HoldersOf, Recorded
<1>1. CASE n \in names
  BY <1>1
<1>2. CASE n \notin names
  <2>1. symbols'[n] = symbols[n] /\ Leaked' = Leaked
    BY <1>2, OwnershipKept
  <2>2. \/ symbols[n].address \in Leaked
        \/ ListedBy(globals, n, symbols[n].address)
        \/ \E c \in Contexts : ListedBy(locals[c], n, symbols[n].address)
    BY <2>1 DEF LinksComplete, Registered, ListedBy
  <2>3. ListedBy(globals, n, symbols[n].address)
          => ListedBy(globals', n, symbols[n].address)
    BY <1>2, ListedKept
  <2>4. ASSUME NEW c \in Contexts, ListedBy(locals[c], n, symbols[n].address)
        PROVE  ListedBy(locals'[c], n, symbols[n].address)
    BY <1>2, <2>4, ListedKept
  <2>5. QED
    BY <2>1, <2>2, <2>3, <2>4
<1>3. QED
  BY <1>1, <1>2

\* Registrations, by the session or by a context, leave every allocation
\* symbol listed.
LEMMA RegisterKeepsLinks ==
  ASSUME TypeOK, OwnersDisjoint, RecordsLive, LinksComplete,
         NEW c \in Contexts, NEW name \in Names, NEW address \in Addresses,
         NEW kind \in SymbolKind, SessionRegister(name, address, kind), live' = live,
         LinkLocal(c, address, name) \/ UNCHANGED locals,
         kind = "Allocation" =>
           \/ RecordsAt(globals, address) # {}
           \/ RecordsAt(locals[c], address) # {} /\ LinkLocal(c, address, name)
  PROVE  LinksComplete'
<1>1. /\ SameBlocks(globals, globals')
      /\ \A m \in Names : globals[m] # None =>
           globals[m].linkedSymbols \ {name} \subseteq globals'[m].linkedSymbols
      /\ \A n \in Names \ {name} : symbols'[n] = symbols[n]
      /\ symbols'[name] = [address |-> address, kind |-> kind]
  BY RegisterFacts DEF SameBlocks
<1>2. /\ \A d \in Contexts : SameBlocks(locals[d], locals'[d])
      /\ \A d \in Contexts, m \in Names : locals[d][m] # None =>
           locals[d][m].linkedSymbols \ {name} \subseteq locals'[d][m].linkedSymbols
  BY LinkLocalFacts DEF SameBlocks
<1>3. kind = "Allocation" => \/ ListedBy(globals', name, address)
                             \/ ListedBy(locals'[c], name, address)
  BY RegisterListed
<1>4. \A n \in {name} :
        symbols'[n] # None /\ symbols'[n].kind = "Allocation" =>
          \/ ListedBy(globals', n, symbols'[n].address)
          \/ \E d \in Contexts : ListedBy(locals'[d], n, symbols'[n].address)
  BY <1>1, <1>3
<1>5. {name} \in SUBSET Names
  OBVIOUS
<1>6. QED
  BY <1>1, <1>2, <1>4, <1>5, LinksKept

\* No step leaves an allocation symbol that its block's record does not list.
LEMMA LinksStep ==
  TypeOK /\ OwnersDisjoint /\ RecordsLive /\ LinksComplete /\ [Next]_vars
    => LinksComplete'
<1> SUFFICES ASSUME TypeOK, OwnersDisjoint, RecordsLive, LinksComplete, [Next]_vars
             PROVE  LinksComplete'
  OBVIOUS
<1> DEFINE AllocSymbol(n) == symbols[n] # None /\ symbols[n].kind = "Allocation"
           Excused(n) ==
             \/ symbols[n].address \in Leaked
             \/ ListedBy(globals, n, symbols[n].address)
             \/ \E c \in Contexts : ListedBy(locals[c], n, symbols[n].address)
<1>a. \A n \in Names : AllocSymbol(n) => Excused(n)
  BY DEF LinksComplete, Registered, ListedBy
<1>b. (\A n \in Names : AllocSymbol(n)' => Excused(n)') => LinksComplete'
  BY DEF LinksComplete, Registered, ListedBy, HoldersOf, Recorded
<1>c. ASSUME NEW names \in SUBSET Names, SessionUnregister(names), live' = live,
             \A c \in Contexts : SameBlocks(locals[c], locals'[c]),
             \A c \in Contexts, m \in Names : locals[c][m] # None =>
               locals[c][m].linkedSymbols \ names \subseteq locals'[c][m].linkedSymbols
      PROVE  LinksComplete'
  <2>1. /\ SameBlocks(globals, globals')
        /\ \A m \in Names : globals[m] # None =>
             globals[m].linkedSymbols \ names \subseteq globals'[m].linkedSymbols
        /\ \A n \in Names : symbols'[n] = IF n \in names THEN None ELSE symbols[n]
    BY <1>c, UnregisterFacts DEF SameBlocks
  <2>2. /\ \A n \in Names \ names : symbols'[n] = symbols[n]
        /\ \A n \in names : symbols'[n] = None
    BY <2>1
  <2>3. QED
    BY <1>c, <2>1, <2>2, LinksKept
<1>d. ASSUME UNCHANGED <<live, symbols, globals, locals>> PROVE LinksComplete'
  BY <1>d DEF LinksComplete, Registered, Leaked
<1>1. CASE SessionNext /\ UNCHANGED contextVars
  <2> UNCHANGED locals
    BY <1>1 DEF contextVars
  <2>1. ASSUME NEW name \in Names, NEW address \in Addresses,
               NEW kind \in {"UserDefined", "Allocation"},
               RegisterSymbol(name, address, kind)
        PROVE  LinksComplete'
    <3>1. /\ SameBlocks(globals, globals')
          /\ \A m \in Names : globals[m] # None =>
               globals[m].linkedSymbols \ {name} \subseteq globals'[m].linkedSymbols
          /\ \A n \in Names \ {name} : symbols'[n] = symbols[n]
          /\ symbols'[name] = [address |-> address, kind |-> kind]
      BY <2>1, RegisterFacts DEF RegisterSymbol, SymbolKind, SameBlocks
    <3>2. kind = "Allocation" => ListedBy(globals', name, address)
      <4> SUFFICES ASSUME kind = "Allocation" PROVE ListedBy(globals', name, address)
        OBVIOUS
      <4>1. RecordsAt(globals, address) # {} /\ SessionRegister(name, address, kind)
        BY <2>1 DEF RegisterSymbol
      <4>2. PICK m \in RecordsAt(globals, address) : TRUE
        BY <4>1
      <4>3. \A k \in RecordsAt(globals, address) : k = m
        BY <4>2 DEF RecordsAt, OwnersDisjoint
      <4>4. globals' = LinkSymbol(globals, address, name) /\ globals \in AllocationTable
        BY <4>1 DEF SessionRegister, TypeOK
      <4>5. name \in globals'[m].linkedSymbols
        BY <4>2, <4>3, <4>4, LinkReaches
      <4>6. globals'[m] # None /\ globals'[m].address = address /\ m \in Names
        BY <4>2, <4>4, LinkFacts DEF RecordsAt, Recorded
      <4>7. QED
        BY <4>5, <4>6 DEF ListedBy, HoldersOf, Recorded
    <3>3. live' = live /\ \A d \in Contexts : SameBlocks(locals[d], locals'[d])
      BY <2>1 DEF RegisterSymbol, SameBlocks
    <3>4. \A n \in {name} :
            symbols'[n] # None /\ symbols'[n].kind = "Allocation" =>
              ListedBy(globals', n, symbols'[n].address)
      BY <3>1, <3>2
    <3>5. \A d \in Contexts, m \in Names : locals[d][m] # None =>
            locals[d][m].linkedSymbols \ {name} \subseteq locals'[d][m].linkedSymbols
      OBVIOUS
    <3>6. {name} \in SUBSET Names
      OBVIOUS
    <3>7. QED
      BY <3>1, <3>3, <3>4, <3>5, <3>6, LinksKept
  <2>2. ASSUME NEW name \in Names, UnregisterSymbol(name) PROVE LinksComplete'
    BY <1>c, <2>2 DEF UnregisterSymbol, SameBlocks
  <2>3. ASSUME NEW name \in Names, GlobalAllocNew(name) PROVE LinksComplete'
    <3>1. PICK b \in Blocks \ live :
            /\ live' = live \cup {b}
            /\ globals' = [globals EXCEPT ![name] =
                              [address |-> b, linkedSymbols |-> {name}]]
            /\ symbols' = [symbols EXCEPT ![name] =
                              [address |-> b, kind |-> "Allocation"]]
      BY <2>3 DEF GlobalAllocNew
    <3>2. globals[name] = None /\ \A m \in Names \ {name} : globals'[m] = globals[m]
      BY <2>3, <3>1 DEF GlobalAllocNew, TypeOK, AllocationTable
    <3>3. globals'[name] = [address |-> b, linkedSymbols |-> {name}]
      BY <3>1 DEF TypeOK, AllocationTable
    <3>4. /\ \A n \in Names \ {name} : symbols'[n] = symbols[n]
          /\ symbols'[name] = [address |-> b, kind |-> "Allocation"]
      BY <3>1 DEF TypeOK, SymbolTable
    <3>5. Held(globals') \subseteq Held(globals) \cup {b}
      BY <3>2, <3>3 DEF Held, Recorded
    <3>6. Leaked \subseteq Leaked'
      BY <3>1, <3>5 DEF Leaked
    <3>7. globals'[name] # None
      BY <3>1, <3>3, NoneAssumption DEF AllocationRecord
    <3>8. ListedBy(globals', name, b)
      BY <3>3, <3>7 DEF ListedBy, HoldersOf, Recorded
    <3>9. ASSUME NEW n \in Names \ {name}, ListedBy(globals, n, symbols[n].address)
          PROVE  ListedBy(globals', n, symbols[n].address)
      BY <3>2, <3>9 DEF ListedBy, HoldersOf, Recorded
    <3>10. ASSUME NEW n \in Names, AllocSymbol(n)' PROVE Excused(n)'
      BY <1>a, <3>4, <3>6, <3>8, <3>9, <3>10
    <3>11. QED
      BY <1>b, <3>10
  <2>4. ASSUME NEW name \in Names, GlobalAllocExisting(name) PROVE LinksComplete'
    <3>1. /\ globals[name] # None
          /\ globals[name] \in AllocationRecord
          /\ live' = live
      BY <2>4 DEF GlobalAllocExisting, TypeOK, AllocationTable
    <3>2. globals' = [globals EXCEPT ![name] =
                        [globals[name] EXCEPT !.linkedSymbols = @ \cup {name}]]
      BY <2>4 DEF GlobalAllocExisting
    <3>3. /\ globals'[name].address = globals[name].address
          /\ globals'[name].linkedSymbols = globals[name].linkedSymbols \cup {name}
          /\ globals'[name] \in AllocationRecord
          /\ \A m \in Names \ {name} : globals'[m] = globals[m]
      BY <3>1, <3>2 DEF TypeOK, AllocationTable, AllocationRecord
    <3>4. globals'[name] # None
      BY <3>3, NoneAssumption
    <3>5. SameBlocks(globals, globals')
      BY <3>1, <3>3, <3>4 DEF SameBlocks
    <3>6. \A m \in Names : globals[m] # None =>
            globals[m].linkedSymbols \ {name} \subseteq globals'[m].linkedSymbols
      BY <3>3
    <3>7. /\ \A n \in Names \ {name} : symbols'[n] = symbols[n]
          /\ symbols'[name].address = globals[name].address
      BY <2>4 DEF GlobalAllocExisting, TypeOK, SymbolTable
    <3>8. ListedBy(globals', name, globals[name].address)
      BY <3>3, <3>4 DEF ListedBy, HoldersOf, Recorded
    <3>9. \A d \in Contexts : SameBlocks(locals[d], locals'[d])
      BY DEF SameBlocks
    <3>10. \A n \in {name} :
             symbols'[n] # None /\ symbols'[n].kind = "Allocation" =>
               ListedBy(globals', n, symbols'[n].address)
      BY <3>7, <3>8
    <3>11. \A d \in Contexts, m \in Names : locals[d][m] # None =>
             locals[d][m].linkedSymbols \ {name} \subseteq locals'[d][m].linkedSymbols
      OBVIOUS
    <3>12. {name} \in SUBSET Names
      OBVIOUS
    <3>13. QED
      BY <3>1, <3>5, <3>6, <3>7, <3>9, <3>10, <3>11, <3>12, LinksKept
  <2>5. ASSUME NEW name \in Names, DeallocateGlobal(name) PROVE LinksComplete'
    <3>1. /\ globals[name] # None /\ globals'[name] = None
          /\ \A m \in Names \ {name} : globals'[m] = globals[m]
      BY <2>5 DEF DeallocateGlobal, TypeOK, AllocationTable
    <3>2. live' = live \ {globals[name].address}
      BY <2>5 DEF DeallocateGlobal
    <3>3. \A n \in Names : /\ n \in globals[name].linkedSymbols => symbols'[n] = None
                           /\ n \notin globals[name].linkedSymbols =>
                                symbols'[n] = symbols[n]
      BY <2>5 DEF DeallocateGlobal, WithoutSymbols
    <3>4. globals[name].address \in Held(globals) /\ Held(globals') \subseteq Held(globals)
      BY <3>1 DEF Held, Recorded
    <3>5. Leaked \subseteq Leaked'
      BY <3>2, <3>4 DEF Leaked
    <3>6. ASSUME NEW n \in Names \ globals[name].linkedSymbols,
                 ListedBy(globals, n, symbols[n].address)
          PROVE  ListedBy(globals', n, symbols[n].address)
      BY <3>1, <3>6 DEF ListedBy, HoldersOf, Recorded
    <3>7. ASSUME NEW n \in Names, AllocSymbol(n)' PROVE Excused(n)'
      <4>1. n \notin globals[name].linkedSymbols /\ symbols'[n] = symbols[n]
        BY <3>3, <3>7
      <4>2. QED
        BY <1>a, <3>5, <3>6, <3>7, <4>1
    <3>8. QED
      BY <1>b, <3>7
  <2>6. ASSUME NEW name \in Names, DeallocateGlobalFails(name) PROVE LinksComplete'
    <3>1. UNCHANGED <<live, globals, locals>>
      BY <2>6 DEF DeallocateGlobalFails
    <3>2. \A n \in Names : symbols'[n] \in {symbols[n], None}
      BY <2>6 DEF DeallocateGlobalFails, WithoutSymbols
    <3>3. Leaked' = Leaked
      BY <3>1 DEF Leaked
    <3>4. ASSUME NEW n \in Names, AllocSymbol(n)' PROVE Excused(n)'
      BY <1>a, <3>1, <3>2, <3>3, <3>4
    <3>5. QED
      BY <1>b, <3>4
  <2>7. QED
    BY <1>1, <2>1, <2>2, <2>3, <2>4, <2>5, <2>6 DEF SessionNext
<1>2. ASSUME NEW c \in Contexts, CreateScriptContext(c) PROVE LinksComplete'
  BY <1>2, <1>d DEF CreateScriptContext
<1>3. ASSUME NEW c \in scriptContexts, ContextNext(c) PROVE LinksComplete'
  <2> c \in Contexts
    BY DEF TypeOK
  <2>1. CASE DestroyScriptContext(c)
    <3>1. /\ locals'[c] = NoEntries /\ \A d \in Contexts \ {c} : locals'[d] = locals[d]
          /\ UNCHANGED <<live, symbols, globals>>
      BY <2>1 DEF DestroyScriptContext, TypeOK, sessionVars
    <3>2. Held(NoEntries) = {}
      BY DEF Recorded, Held, NoEntries
    <3>3. Leaked' = Leaked \cup Held(locals[c])
      BY <3>1, <3>2 DEF Leaked, OwnersDisjoint, RecordsLive
    <3>4. ASSUME NEW n \in Names, AllocSymbol(n)' PROVE Excused(n)'
      <4>1. ASSUME ListedBy(locals[c], n, symbols[n].address)
            PROVE  symbols[n].address \in Held(locals[c])
        BY <4>1 DEF ListedBy, HoldersOf, Held
      <4>2. QED
        BY <1>a, <3>1, <3>3, <3>4, <4>1
    <3>5. QED
      BY <1>b, <3>4
  <2>2. ASSUME NEW n \in Names, Alloc(c, n) PROVE LinksComplete'
    <3>1. PICK b \in Blocks \ live :
            /\ live' = live \cup {b}
            /\ locals' = [locals EXCEPT ![c][n] = [address |-> b, linkedSymbols |-> {}]]
      BY <2>2 DEF Alloc
    <3>2. /\ \A d \in Contexts \ {c} : locals'[d] = locals[d]
          /\ \A m \in Names \ {n} : locals'[c][m] = locals[c][m]
          /\ locals'[c][n].address = b
          /\ locals[c][n] = None
      BY <2>2, <3>1 DEF Alloc, TypeOK, AllocationTable
    <3>3. Held(locals'[c]) \subseteq Held(locals[c]) \cup {b}
      BY <3>2 DEF Held, Recorded
    <3>4. UNCHANGED <<symbols, globals>>
      BY <2>2 DEF Alloc
    <3>5. Leaked \subseteq Leaked'
      BY <3>1, <3>2, <3>3, <3>4 DEF Leaked
    <3>6. ASSUME NEW k \in Names, NEW d \in Contexts, NEW address,
                 ListedBy(locals[d], k, address)
          PROVE  ListedBy(locals'[d], k, address)
      BY <3>2, <3>6 DEF ListedBy, HoldersOf, Recorded
    <3>7. ASSUME NEW k \in Names, AllocSymbol(k)' PROVE Excused(k)'
      BY <1>a, <3>4, <3>5, <3>6, <3>7
    <3>8. QED
      BY <1>b, <3>7
  <2>3. ASSUME NEW n \in Names, DeallocLocal(c, n) PROVE LinksComplete'
    <3> DEFINE gone == locals[c][n].linkedSymbols
    <3>1. /\ locals[c][n] # None /\ gone \in SUBSET Names /\ SessionUnregister(gone)
      BY <2>3 DEF DeallocLocal, ForgetLocal, TypeOK, AllocationTable, AllocationRecord
    <3>2. /\ SameBlocks(globals, globals')
          /\ \A m \in Names : globals[m] # None =>
               globals[m].linkedSymbols \ gone \subseteq globals'[m].linkedSymbols
          /\ \A k \in Names : symbols'[k] = IF k \in gone THEN None ELSE symbols[k]
      BY <3>1, UnregisterFacts DEF SameBlocks
    <3>3. /\ \A d \in Contexts \ {c} : locals'[d] = locals[d]
          /\ locals'[c][n] = None
          /\ \A m \in Names \ {n} : locals'[c][m] = locals[c][m]
      BY <2>3 DEF DeallocLocal, TypeOK, AllocationTable
    <3>4. live' = live \ {locals[c][n].address}
      BY <2>3 DEF DeallocLocal
    <3>5. /\ locals[c][n].address \in Held(locals[c])
          /\ Held(locals'[c]) \subseteq Held(locals[c])
      BY <3>1, <3>3 DEF Held, Recorded
    <3>6. Held(globals') = Held(globals)
      BY <3>2, HeldSame DEF SameBlocks
    <3>7. Leaked \subseteq Leaked'
      BY <3>3, <3>4, <3>5, <3>6 DEF Leaked
    <3>8. ASSUME NEW k \in Names \ gone, NEW address, ListedBy(globals, k, address)
          PROVE  ListedBy(globals', k, address)
      BY <3>2, <3>8, ListedKept
    <3>9. ASSUME NEW k \in Names \ gone, NEW d \in Contexts, NEW address,
                 ListedBy(locals[d], k, address)
          PROVE  ListedBy(locals'[d], k, address)
      BY <3>3, <3>9 DEF ListedBy, HoldersOf, Recorded
    <3>10. ASSUME NEW k \in Names, AllocSymbol(k)' PROVE Excused(k)'
      <4>1. k \notin gone /\ symbols'[k] = symbols[k]
        BY <3>2, <3>10
      <4>2. QED
        BY <1>a, <3>7, <3>8, <3>9, <3>10, <4>1
    <3>11. QED
      BY <1>b, <3>10
  <2>4. ASSUME NEW n \in Names, DeallocLocalFails(c, n) PROVE LinksComplete'
    <3>1. /\ locals[c][n].linkedSymbols \in SUBSET Names
          /\ SessionUnregister(locals[c][n].linkedSymbols)
          /\ UNCHANGED <<live, locals>>
      BY <2>4
         DEF DeallocLocalFails, ForgetLocal, TypeOK, AllocationTable, AllocationRecord
    <3>2. QED
      BY <1>c, <3>1 DEF SameBlocks
  <2>5. ASSUME NEW n \in Names, LabelStep(c, n) PROVE LinksComplete'
    BY <1>d, <2>5 DEF LabelStep
  <2>6. ASSUME NEW n \in Names, PublishStep(c, n) PROVE LinksComplete'
    <3>1. live' = live
      BY <2>6 DEF PublishStep
    <3>2. CASE PublishLocal(c, n)
      <4>1. /\ locals[c][n].address \in Addresses
            /\ n \in RecordsAt(locals[c], locals[c][n].address)
        BY <3>2 DEF PublishLocal, TypeOK, AllocationTable, AllocationRecord, Addresses,
                    RecordsAt, Recorded
      <4>2. QED
        BY <3>1, <3>2, <4>1, RegisterKeepsLinks DEF PublishLocal, SymbolKind
    <3>3. CASE PublishLabel(c, n)
      BY <3>1, <3>3, RegisterKeepsLinks DEF PublishLabel, BoundLabel, SymbolKind
    <3>4. ASSUME NEW address \in Elsewhere, PublishResolved(c, n, address)
          PROVE  LinksComplete'
      BY <3>1, <3>4, RegisterKeepsLinks DEF PublishResolved, SymbolKind, Addresses
    <3>5. ASSUME NEW address \in Addresses,
                 NEW kind \in {"UserDefined", "Allocation"},
                 PublishAlias(c, n, address, kind)
          PROVE  LinksComplete'
      BY <3>1, <3>5, RegisterKeepsLinks DEF PublishAlias, SymbolKind
    <3>6. QED
      BY <2>6, <3>2, <3>3, <3>4, <3>5 DEF PublishStep
  <2>7. ASSUME NEW n \in Names, WithdrawSymbol(c, n) PROVE LinksComplete'
    BY <1>c, <2>7, WithdrawFacts DEF WithdrawSymbol
  <2>8. QED
    BY <1>3, <2>1, <2>2, <2>3, <2>4, <2>5, <2>6, <2>7 DEF ContextNext
<1>4. CASE UNCHANGED vars
  BY <1>4, <1>d DEF vars
<1>5. QED
  BY <1>1, <1>2, <1>3, <1>4 DEF Next

\* The inductive invariant holds in every reachable state.
THEOREM Invariant == Spec => []IInv
<1>1. IInv /\ [Next]_vars => IInv'
  BY TypeStep, OwnershipStep, BindingStep, LinksStep DEF IInv
<1>2. QED
  BY InitIInv, <1>1, PTL DEF Spec

\* engine_session.cpp and script_context.cpp: a symbol of kind Allocation never
\* points at a block that was freed, through shadowing, aliases, retries of a
\* failed free and destroyed contexts.
THEOREM AllocationSymbolsNeverDangle == Spec => []AllocationSymbolsBacked
<1>1. IInv => AllocationSymbolsBacked
  BY DEF IInv, LinksComplete, RecordsLive, AllocationSymbolsBacked, Leaked, Held, HoldersOf
<1>2. QED
  BY Invariant, <1>1, PTL

-----------------------------------------------------------------------------
(* Refinement of BlockLedger.                                              *)

LedgerOwners == Contexts \cup {Session}

LedgerHeld == [o \in LedgerOwners |->
                 IF o = Session THEN Held(globals) ELSE Held(locals[o])]

\* What each owner holds before and after a step that leaves others alone.
LEMMA LedgerHeldFacts ==
  /\ LedgerHeld[Session] = Held(globals)
  /\ \A c \in Contexts : LedgerHeld[c] = Held(locals[c])
  /\ Ledger!InUse = Leaked \cup Held(globals)
                     \cup UNION {Held(locals[c]) : c \in Contexts}
<1>1. /\ LedgerHeld[Session] = Held(globals)
      /\ \A c \in Contexts : LedgerHeld[c] = Held(locals[c])
  BY ContextsAssumption DEF LedgerHeld, LedgerOwners
<1>2. UNION {LedgerHeld[o] : o \in LedgerOwners}
        = Held(globals) \cup UNION {Held(locals[c]) : c \in Contexts}
  BY <1>1 DEF LedgerOwners
<1>3. QED
  BY <1>1, <1>2 DEF Ledger!InUse, LedgerHeld, LedgerOwners

\* A step that changes no record's block is no step of the ledger.
LEMMA LedgerStutters ==
  ASSUME OwnersDisjoint, RecordsLive, live' = live, SameBlocks(globals, globals'),
         \A c \in Contexts : SameBlocks(locals[c], locals'[c])
  PROVE  UNCHANGED <<LedgerHeld, Leaked>>
<1>1. Leaked' = Leaked
  BY OwnershipKept
<1>2. Held(globals') = Held(globals)
      /\ \A c \in Contexts : Held(locals'[c]) = Held(locals[c])
  BY HeldSame DEF SameBlocks
<1>3. QED
  BY <1>1, <1>2 DEF LedgerHeld, LedgerOwners

\* The session acquires a fresh block.
LEMMA LedgerGlobalAlloc ==
  ASSUME IInv, NEW name \in Names, GlobalAllocNew(name), UNCHANGED contextVars
  PROVE  \E b \in Blocks : Ledger!Acquire(Session, b)
<1>1. PICK b \in Blocks \ live :
        /\ live' = live \cup {b}
        /\ globals' = [globals EXCEPT ![name] =
                          [address |-> b, linkedSymbols |-> {name}]]
  BY DEF GlobalAllocNew
<1>2. /\ globals[name] = None
      /\ \A m \in Names \ {name} : globals'[m] = globals[m]
      /\ globals'[name] = [address |-> b, linkedSymbols |-> {name}]
      /\ globals'[name] # None
  <2>1. globals[name] = None
    BY DEF GlobalAllocNew
  <2>2. globals \in AllocationTable
    BY DEF IInv, TypeOK
  <2>3. /\ \A m \in Names \ {name} : globals'[m] = globals[m]
        /\ globals'[name] = [address |-> b, linkedSymbols |-> {name}]
    BY <1>1, <2>2 DEF AllocationTable
  <2>4. globals'[name] \in AllocationRecord
    BY <1>1, <2>3 DEF AllocationRecord
  <2>5. QED
    BY <2>1, <2>3, <2>4, NoneAssumption
<1>3. Held(globals') = Held(globals) \cup {b}
  BY <1>2 DEF Held, Recorded
<1>4. b \notin Held(globals) /\ b \notin Leaked
      /\ b \notin UNION {Held(locals[c]) : c \in Contexts}
  BY <1>1 DEF IInv, RecordsLive, Leaked
<1>5. Leaked' = Leaked
  BY <1>1, <1>3, <1>4 DEF Leaked, contextVars
<1>6. LedgerHeld' = [LedgerHeld EXCEPT ![Session] = @ \cup {b}]
  BY <1>3, ContextsAssumption DEF LedgerHeld, LedgerOwners, contextVars
<1>7. b \notin Ledger!InUse
  BY <1>4, LedgerHeldFacts
<1>8. Ledger!Acquire(Session, b)
  BY <1>5, <1>6, <1>7 DEF Ledger!Acquire, LedgerHeld, LedgerOwners
<1>9. QED
  BY <1>8

\* The session gives its block back.
LEMMA LedgerDeallocate ==
  ASSUME IInv, NEW name \in Names, DeallocateGlobal(name), UNCHANGED contextVars
  PROVE  \E b \in Blocks : Ledger!Release(Session, b)
<1>a. PICK b \in Blocks : b = globals[name].address
  BY DEF DeallocateGlobal, IInv, TypeOK, AllocationTable, AllocationRecord
<1>1. /\ globals[name] # None /\ globals'[name] = None
      /\ \A m \in Names \ {name} : globals'[m] = globals[m]
      /\ live' = live \ {b}
  BY <1>a DEF DeallocateGlobal, IInv, TypeOK, AllocationTable
<1>2. b \in Held(globals)
  BY <1>a, <1>1 DEF Held, Recorded
<1>3. Held(globals') = Held(globals) \ {b}
  BY <1>a, <1>1 DEF Held, Recorded, IInv, OwnersDisjoint
<1>4. Leaked' = Leaked
  <2>1. b \notin UNION {Held(locals[c]) : c \in Contexts}
    BY <1>2 DEF IInv, OwnersDisjoint
  <2>2. QED
    BY <1>1, <1>2, <1>3, <2>1 DEF Leaked, contextVars
<1>5. LedgerHeld' = [LedgerHeld EXCEPT ![Session] = @ \ {b}]
  BY <1>3, ContextsAssumption DEF LedgerHeld, LedgerOwners, contextVars
<1>6. Ledger!Release(Session, b)
  BY <1>2, <1>4, <1>5, LedgerHeldFacts DEF Ledger!Release, LedgerHeld, LedgerOwners
<1>7. QED
  BY <1>6

\* A context acquires a fresh block.
LEMMA LedgerAlloc ==
  ASSUME IInv, NEW c \in Contexts, NEW n \in Names, Alloc(c, n)
  PROVE  \E b \in Blocks : Ledger!Acquire(c, b)
<1>1. PICK b \in Blocks \ live :
        /\ live' = live \cup {b}
        /\ locals' = [locals EXCEPT ![c][n] = [address |-> b, linkedSymbols |-> {}]]
  BY DEF Alloc
<1>2. UNCHANGED globals /\ locals[c][n] = None /\ locals \in [Contexts -> AllocationTable]
  BY DEF Alloc, IInv, TypeOK
<1>3. /\ \A d \in Contexts \ {c} : locals'[d] = locals[d]
      /\ \A m \in Names \ {n} : locals'[c][m] = locals[c][m]
      /\ locals'[c][n] = [address |-> b, linkedSymbols |-> {}]
  BY <1>1, <1>2 DEF AllocationTable
<1>4. locals'[c][n] # None
  BY <1>1, <1>3, NoneAssumption DEF AllocationRecord
<1>5. Held(locals'[c]) = Held(locals[c]) \cup {b}
  BY <1>2, <1>3, <1>4 DEF Held, Recorded
<1>6. b \notin Held(globals) /\ b \notin Leaked
      /\ b \notin UNION {Held(locals[d]) : d \in Contexts}
  BY <1>1 DEF IInv, RecordsLive, Leaked
<1>7. \A x : (\E d \in Contexts : x \in Held(locals'[d]))
               <=> x = b \/ \E d \in Contexts : x \in Held(locals[d])
  BY <1>3, <1>5
<1>8. Leaked' = Leaked
  <2>1. \A x : x \in Leaked <=> /\ x \in live /\ x \notin Held(globals)
                                 /\ ~\E d \in Contexts : x \in Held(locals[d])
    BY DEF Leaked
  <2>2. \A x : x \in Leaked' <=> /\ x \in live' /\ x \notin Held(globals)
                                  /\ ~\E d \in Contexts : x \in Held(locals'[d])
    BY <1>2 DEF Leaked
  <2>3. \A x : x \in Leaked' <=> x \in Leaked
    BY <1>1, <1>7, <2>1, <2>2
  <2>4. QED
    BY <2>3
<1>9. LedgerHeld' = [LedgerHeld EXCEPT ![c] = @ \cup {b}]
  BY <1>2, <1>3, <1>5, ContextsAssumption DEF LedgerHeld, LedgerOwners
<1>10. b \notin Ledger!InUse
  BY <1>6, LedgerHeldFacts
<1>11. Ledger!Acquire(c, b)
  BY <1>8, <1>9, <1>10 DEF Ledger!Acquire, LedgerHeld, LedgerOwners
<1>12. QED
  BY <1>11

\* A context gives its own block back.
LEMMA LedgerDealloc ==
  ASSUME IInv, NEW c \in Contexts, NEW n \in Names, DeallocLocal(c, n)
  PROVE  \E b \in Blocks : Ledger!Release(c, b)
<1>1. PICK b \in Blocks : b = locals[c][n].address /\ locals[c][n] # None
  BY DEF DeallocLocal, ForgetLocal, IInv, TypeOK, AllocationTable, AllocationRecord
<1>2. /\ \A d \in Contexts \ {c} : locals'[d] = locals[d]
      /\ locals'[c][n] = None
      /\ \A m \in Names \ {n} : locals'[c][m] = locals[c][m]
      /\ live' = live \ {b}
  BY <1>1 DEF DeallocLocal, IInv, TypeOK, AllocationTable
<1>3. Held(globals') = Held(globals)
  <2>1. locals[c][n].linkedSymbols \in SUBSET Names
    BY <1>1 DEF IInv, TypeOK, AllocationTable, AllocationRecord
  <2>2. SameBlocks(globals, globals')
    BY <2>1, UnregisterFacts DEF DeallocLocal, ForgetLocal, SameBlocks, IInv
  <2>3. QED
    BY <2>2, HeldSame DEF SameBlocks
<1>4. b \in Held(locals[c])
  BY <1>1 DEF Held, Recorded
<1>5. Held(locals'[c]) = Held(locals[c]) \ {b}
  BY <1>1, <1>2 DEF Held, Recorded, IInv, OwnersDisjoint
<1>6. b \notin Held(globals) /\ \A d \in Contexts \ {c} : b \notin Held(locals[d])
  BY <1>4 DEF IInv, OwnersDisjoint
<1>7. \A x : (\E d \in Contexts : x \in Held(locals'[d]))
               <=> x # b /\ \E d \in Contexts : x \in Held(locals[d])
  BY <1>2, <1>5, <1>6
<1>8. Leaked' = Leaked
  <2>1. \A x : x \in Leaked <=> /\ x \in live /\ x \notin Held(globals)
                                 /\ ~\E d \in Contexts : x \in Held(locals[d])
    BY DEF Leaked
  <2>2. \A x : x \in Leaked' <=> /\ x \in live' /\ x \notin Held(globals)
                                  /\ ~\E d \in Contexts : x \in Held(locals'[d])
    BY <1>3 DEF Leaked
  <2>3. \A x : x \in Leaked' <=> x \in Leaked
    BY <1>2, <1>4, <1>7, <2>1, <2>2
  <2>4. QED
    BY <2>3
<1>9. LedgerHeld' = [LedgerHeld EXCEPT ![c] = @ \ {b}]
  BY <1>2, <1>3, <1>5, ContextsAssumption DEF LedgerHeld, LedgerOwners
<1>10. Ledger!Release(c, b)
  BY <1>4, <1>8, <1>9, LedgerHeldFacts DEF Ledger!Release, LedgerHeld, LedgerOwners
<1>11. QED
  BY <1>10

\* A destroyed context abandons everything it held.
LEMMA LedgerDestroy ==
  ASSUME IInv, NEW c \in Contexts, DestroyScriptContext(c)
  PROVE  Ledger!Abandon(c)
<1>1. /\ locals'[c] = NoEntries /\ \A d \in Contexts \ {c} : locals'[d] = locals[d]
      /\ UNCHANGED <<live, globals>>
  BY DEF DestroyScriptContext, IInv, TypeOK, sessionVars
<1>2. Held(NoEntries) = {}
  BY DEF Recorded, Held, NoEntries
<1>3. Leaked' = Leaked \cup Held(locals[c])
  BY <1>1, <1>2 DEF Leaked, IInv, OwnersDisjoint, RecordsLive
<1>4. LedgerHeld' = [LedgerHeld EXCEPT ![c] = {}]
  BY <1>1, <1>2, ContextsAssumption DEF LedgerHeld, LedgerOwners
<1>5. QED
  BY <1>3, <1>4, LedgerHeldFacts, ContextsAssumption
     DEF Ledger!Abandon, LedgerHeld, LedgerOwners

\* Every other step of the session or of a context leaves the ledger alone.
LEMMA LedgerOtherSteps ==
  ASSUME IInv,
         \/ /\ UNCHANGED contextVars
            /\ \E name \in Names :
                 \/ \E address \in Addresses, kind \in {"UserDefined", "Allocation"} :
                      RegisterSymbol(name, address, kind)
                 \/ UnregisterSymbol(name)
                 \/ GlobalAllocExisting(name)
                 \/ DeallocateGlobalFails(name)
         \/ \E c \in Contexts : CreateScriptContext(c)
         \/ \E c \in Contexts, n \in Names :
              \/ DeallocLocalFails(c, n)
              \/ LabelStep(c, n)
              \/ PublishStep(c, n)
              \/ WithdrawSymbol(c, n)
         \/ UNCHANGED vars
  PROVE  UNCHANGED <<LedgerHeld, Leaked>>
<1> USE DEF IInv
<1>a. ASSUME UNCHANGED <<live, locals>>, SameBlocks(globals, globals')
      PROVE  UNCHANGED <<LedgerHeld, Leaked>>
  BY <1>a, LedgerStutters DEF SameBlocks
<1>1. ASSUME UNCHANGED contextVars, NEW name \in Names, NEW address \in Addresses,
             NEW kind \in {"UserDefined", "Allocation"},
             RegisterSymbol(name, address, kind)
      PROVE  UNCHANGED <<LedgerHeld, Leaked>>
  BY <1>1, <1>a, RegisterFacts DEF RegisterSymbol, SymbolKind, contextVars, SameBlocks
<1>2. ASSUME UNCHANGED contextVars, NEW name \in Names, UnregisterSymbol(name)
      PROVE  UNCHANGED <<LedgerHeld, Leaked>>
  BY <1>2, <1>a, UnregisterFacts DEF UnregisterSymbol, contextVars, SameBlocks
<1>3. ASSUME UNCHANGED contextVars, NEW name \in Names, GlobalAllocExisting(name)
      PROVE  UNCHANGED <<LedgerHeld, Leaked>>
  <2>1. SameBlocks(globals, globals')
    BY <1>3, NoneAssumption
       DEF GlobalAllocExisting, SameBlocks, TypeOK, AllocationTable, AllocationRecord
  <2>2. QED
    BY <1>3, <1>a, <2>1 DEF GlobalAllocExisting, contextVars
<1>4. ASSUME UNCHANGED contextVars, NEW name \in Names, DeallocateGlobalFails(name)
      PROVE  UNCHANGED <<LedgerHeld, Leaked>>
  BY <1>4, <1>a DEF DeallocateGlobalFails, contextVars, SameBlocks
<1>5. ASSUME NEW c \in Contexts, CreateScriptContext(c) \/ UNCHANGED vars
      PROVE  UNCHANGED <<LedgerHeld, Leaked>>
  BY <1>5, <1>a DEF CreateScriptContext, vars, SameBlocks
<1>6. ASSUME UNCHANGED vars PROVE UNCHANGED <<LedgerHeld, Leaked>>
  BY <1>6, <1>a DEF vars, SameBlocks
<1>7. ASSUME NEW c \in Contexts, NEW n \in Names,
             DeallocLocalFails(c, n) \/ LabelStep(c, n)
      PROVE  UNCHANGED <<LedgerHeld, Leaked>>
  <2>1. CASE DeallocLocalFails(c, n)
    <3>1. /\ locals[c][n].linkedSymbols \in SUBSET Names
          /\ SessionUnregister(locals[c][n].linkedSymbols)
          /\ UNCHANGED <<live, locals>>
      BY <2>1 DEF DeallocLocalFails, ForgetLocal, TypeOK, AllocationTable, AllocationRecord
    <3>2. SameBlocks(globals, globals')
      BY <3>1, UnregisterFacts DEF SameBlocks
    <3>3. QED
      BY <1>a, <3>1, <3>2
  <2>2. CASE LabelStep(c, n)
    BY <2>2, <1>a DEF LabelStep, SameBlocks
  <2>3. QED
    BY <1>7, <2>1, <2>2
<1>8. ASSUME NEW c \in Contexts, NEW n \in Names, PublishStep(c, n)
      PROVE  UNCHANGED <<LedgerHeld, Leaked>>
  <2>1. ASSUME NEW address \in Addresses, NEW kind \in SymbolKind,
               SessionRegister(n, address, kind),
               LinkLocal(c, address, n) \/ UNCHANGED locals
        PROVE  UNCHANGED <<LedgerHeld, Leaked>>
    <3>1. SameBlocks(globals, globals')
      BY <2>1, RegisterFacts DEF SameBlocks
    <3>2. \A d \in Contexts : SameBlocks(locals[d], locals'[d])
      BY <2>1, LinkLocalFacts DEF SameBlocks
    <3>3. QED
      BY <1>8, <3>1, <3>2, LedgerStutters DEF PublishStep
  <2>2. CASE PublishLocal(c, n)
    <3>1. locals[c][n].address \in Addresses
      BY <2>2 DEF PublishLocal, TypeOK, AllocationTable, AllocationRecord, Addresses
    <3>2. QED
      BY <2>1, <2>2, <3>1 DEF PublishLocal, SymbolKind
  <2>3. CASE PublishLabel(c, n)
    BY <2>1, <2>3 DEF PublishLabel, BoundLabel, SymbolKind
  <2>4. ASSUME NEW address \in Elsewhere, PublishResolved(c, n, address)
        PROVE  UNCHANGED <<LedgerHeld, Leaked>>
    BY <2>1, <2>4 DEF PublishResolved, SymbolKind, Addresses
  <2>5. ASSUME NEW address \in Addresses, NEW kind \in {"UserDefined", "Allocation"},
               PublishAlias(c, n, address, kind)
        PROVE  UNCHANGED <<LedgerHeld, Leaked>>
    BY <2>1, <2>5 DEF PublishAlias, SymbolKind
  <2>6. QED
    BY <1>8, <2>2, <2>3, <2>4, <2>5 DEF PublishStep
<1>9. ASSUME NEW c \in Contexts, NEW n \in Names, WithdrawSymbol(c, n)
      PROVE  UNCHANGED <<LedgerHeld, Leaked>>
  <2>1. SameBlocks(globals, globals')
    BY <1>9, UnregisterFacts DEF WithdrawSymbol, SameBlocks
  <2>2. QED
    BY <1>9, <2>1, WithdrawFacts, LedgerStutters DEF WithdrawSymbol
<1>10. QED
  BY <1>1, <1>2, <1>3, <1>4, <1>5, <1>6, <1>7, <1>8, <1>9

\* The engine keeps the promises of BlockLedger: one owner per block, only the
\* owner frees it, blocks are lost only by destroying a whole context.
THEOREM RefinesLedger == Spec => LedgerSpec
<1>1. Init => Ledger!Init
  <2> SUFFICES ASSUME Init PROVE Ledger!Init
    OBVIOUS
  <2>1. Held(globals) = {} /\ (\A c \in Contexts : Held(locals[c]) = {}) /\ Leaked = {}
    BY DEF Init, SessionInit, NoEntries, Held, Recorded, Leaked
  <2>2. QED
    BY <2>1, LedgerHeldFacts DEF Ledger!Init
<1>2. IInv /\ [Next]_vars => [Ledger!Next]_(Ledger!ledger)
  <2> SUFFICES ASSUME IInv, [Next]_vars PROVE [Ledger!Next]_(Ledger!ledger)
    OBVIOUS
  <2>a. ASSUME UNCHANGED <<LedgerHeld, Leaked>> PROVE UNCHANGED Ledger!ledger
    BY <2>a DEF Ledger!ledger, LedgerHeld, LedgerOwners
  <2>b. ASSUME NEW o \in LedgerOwners, NEW b \in Blocks,
               Ledger!Acquire(o, b) \/ Ledger!Release(o, b)
        PROVE  Ledger!Next
    BY <2>b DEF Ledger!Next, LedgerOwners
  <2>1. CASE SessionNext /\ UNCHANGED contextVars
    <3>1. ASSUME NEW name \in Names, GlobalAllocNew(name) PROVE Ledger!Next
      BY <2>1, <2>b, <3>1, LedgerGlobalAlloc DEF LedgerOwners
    <3>2. ASSUME NEW name \in Names, DeallocateGlobal(name) PROVE Ledger!Next
      BY <2>1, <2>b, <3>2, LedgerDeallocate DEF LedgerOwners
    <3>3. QED
      BY <2>1, <2>a, <3>1, <3>2, LedgerOtherSteps DEF SessionNext
  <2>2. ASSUME NEW c \in scriptContexts, ContextNext(c)
        PROVE  [Ledger!Next]_(Ledger!ledger)
    <3> c \in Contexts /\ c \in LedgerOwners
      BY DEF IInv, TypeOK, LedgerOwners
    <3>1. CASE DestroyScriptContext(c)
      <4>1. Ledger!Abandon(c)
        BY <3>1, LedgerDestroy
      <4>2. QED
        BY <4>1 DEF Ledger!Next, LedgerOwners
    <3>2. ASSUME NEW n \in Names, Alloc(c, n) PROVE Ledger!Next
      BY <2>b, <3>2, LedgerAlloc
    <3>3. ASSUME NEW n \in Names, DeallocLocal(c, n) PROVE Ledger!Next
      BY <2>b, <3>3, LedgerDealloc
    <3>4. QED
      BY <2>2, <2>a, <3>1, <3>2, <3>3, LedgerOtherSteps DEF ContextNext
  <2>3. QED
    BY <2>1, <2>2, <2>a, LedgerOtherSteps DEF Next
<1>3. QED
  BY <1>1, <1>2, Invariant, PTL DEF Spec, LedgerSpec, Ledger!Spec
=============================================================================
