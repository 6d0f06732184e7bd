---------------------------- MODULE SessionSteps ----------------------------
(***************************************************************************)
(* EngineSession's four changing calls, write by write.  Each repository   *)
(* has a lock of its own, so that a thread that looks a name up while      *)
(* another one is inside such a call sees the tables between two writes.   *)
(* One thread changes the session; what it reads between two of its writes *)
(* nobody changes, so one action is one write with the reads before it.    *)
(*                                                                         *)
(* A definition marked "Fault" is a variant with a plausible bug, used to  *)
(* show that a property would notice it; no specification uses it.         *)
(***************************************************************************)
EXTENDS EngineSession

VARIABLES call,    \* the call the changing thread is in, or None
          before   \* history: the session when that call began

vars == <<sessionVars, call, before>>

\* Which write comes next, and what the call needs for it.
CallRecord ==
  [at : {"link", "insert", "self", "publish"}, name : Names, address : Addresses]
    \cup [at : {"unlink", "erase"}, name : Names]
    \cup [at : {"withdraw"}, name : Names, todo : SUBSET Names]

Session == [live |-> live, symbols |-> symbols, globals |-> globals]

SessionRecord ==
  [live : SUBSET Blocks, symbols : [Names -> SymbolRecord \cup {None}],
   globals : [Names -> AllocationRecord \cup {None}]]

ASSUME CallAssumption == None \notin CallRecord \cup SessionRecord

Init == SessionInit /\ call = None /\ before = None

\* The call goes on with what is left to do; its last write ends it.
Goes(next) ==
  /\ call' = next
  /\ before' = IF next = None THEN None
               ELSE IF call = None THEN Session ELSE before

At(where) == call # None /\ call.at = where

PutSymbol(name, address, kind) ==
  symbols' = [symbols EXCEPT ![name] = [address |-> address, kind |-> kind]]

Upsert(name, record) == globals' = [globals EXCEPT ![name] = record]

-----------------------------------------------------------------------------
(* registerSymbol and unregisterSymbol.                                    *)

\* The name of a global allocation is refused; a caller says "Allocation"
\* only of a block that a record answers for.
RegisterPut(name, address, kind) ==
  /\ call = None
  /\ globals[name] = None
  /\ kind = "Allocation" => RecordsAt(globals, address) # {}
  /\ PutSymbol(name, address, kind)
  /\ Goes(IF RecordsAt(globals, address) = {} THEN None
          ELSE [at |-> "link", name |-> name, address |-> address])
  /\ UNCHANGED <<live, globals>>

\* linkGlobalAllocationSymbol: the first record at the address learns of it.
RegisterLink ==
  /\ At("link")
  /\ \E n \in Names :
       /\ FirstOf(n, RecordsAt(globals, call.address))
       /\ Upsert(n, [globals[n] EXCEPT !.linkedSymbols = @ \cup {call.name}])
  /\ Goes(None)
  /\ UNCHANGED <<live, symbols>>

\* Fault: the walk is not told whether anything lists the name.
UnregisterEraseBlind(name) ==
  /\ call = None
  /\ Registered(name)
  /\ symbols' = WithoutSymbols({name})
  /\ Goes([at |-> "unlink", name |-> name])
  /\ UNCHANGED <<live, globals>>

UnregisterErase(name) ==
  /\ call = None
  /\ Registered(name)
  /\ symbols' = WithoutSymbols({name})
  /\ Goes(IF HoldersOf(globals, name) = {} THEN None
          ELSE [at |-> "unlink", name |-> name])
  /\ UNCHANGED <<live, globals>>

\* Fault: every record that lists the name forgets it.
UnregisterUnlinkAll ==
  /\ At("unlink")
  /\ globals' = [n \in Names |->
                   IF globals[n] = None THEN None
                   ELSE [globals[n] EXCEPT !.linkedSymbols = @ \ {call.name}]]
  /\ Goes(None)
  /\ UNCHANGED <<live, symbols>>

\* unlinkGlobalAllocationSymbol: the first record that lists it forgets it.
UnregisterUnlink ==
  /\ At("unlink")
  /\ \E n \in Names :
       /\ FirstOf(n, HoldersOf(globals, call.name))
       /\ Upsert(n, [globals[n] EXCEPT !.linkedSymbols = @ \ {call.name}])
  /\ Goes(None)
  /\ UNCHANGED <<live, symbols>>

-----------------------------------------------------------------------------
(* globalAlloc.                                                            *)

\* A new name gets a block; the record is stored by AllocationService first,
\* without links.
AllocBlock(name) ==
  /\ call = None
  /\ globals[name] = None
  /\ ~Registered(name)
  /\ \E b \in Blocks \ live :
       /\ live' = live \cup {b}
       /\ Goes([at |-> "insert", name |-> name, address |-> b])
  /\ UNCHANGED <<symbols, globals>>

AllocInsert ==
  /\ At("insert")
  /\ Upsert(call.name, [address |-> call.address, linkedSymbols |-> {}])
  /\ Goes([call EXCEPT !.at = "self"])
  /\ UNCHANGED <<live, symbols>>

\* The stored record, new or large enough already, lists its own name.
SelfLink(name) ==
  /\ \/ At("self") /\ name = call.name
     \/ call = None /\ globals[name] # None
  /\ Upsert(name, [globals[name] EXCEPT !.linkedSymbols = @ \cup {name}])
  /\ Goes([at |-> "publish", name |-> name, address |-> globals[name].address])
  /\ UNCHANGED <<live, symbols>>

AllocPublish ==
  /\ At("publish")
  /\ PutSymbol(call.name, call.address, "Allocation")
  /\ Goes(None)
  /\ UNCHANGED <<live, globals>>

-----------------------------------------------------------------------------
(* deallocate.                                                             *)

DeallocBegin(name) ==
  /\ call = None
  /\ globals[name] # None
  /\ Goes([at |-> "withdraw", name |-> name, todo |-> globals[name].linkedSymbols])
  /\ UNCHANGED sessionVars

\* The linked symbols go one by one.
DeallocWithdraw ==
  /\ At("withdraw")
  /\ \E symbol \in call.todo :
       /\ symbols' = WithoutSymbols({symbol})
       /\ Goes([call EXCEPT !.todo = @ \ {symbol}])
  /\ UNCHANGED <<live, globals>>

\* Fault: the block goes first.
DeallocFreeEarly ==
  /\ At("withdraw")
  /\ live' = live \ {globals[call.name].address}
  /\ Goes(IF call.todo = {} THEN [at |-> "erase", name |-> call.name] ELSE call)
  /\ UNCHANGED <<symbols, globals>>

DeallocFree ==
  /\ At("withdraw") /\ call.todo = {}
  /\ live' = live \ {globals[call.name].address}
  /\ Goes([at |-> "erase", name |-> call.name])
  /\ UNCHANGED <<symbols, globals>>

\* Fault: the record goes although the block stays.
DeallocFailsErases ==
  /\ At("withdraw") /\ call.todo = {}
  /\ Goes(None)
  /\ Upsert(call.name, None)
  /\ UNCHANGED <<live, symbols>>

\* The backend refuses: the record stays, without its symbols.
DeallocFreeFails ==
  /\ At("withdraw") /\ call.todo = {}
  /\ Goes(None)
  /\ UNCHANGED sessionVars

DeallocErase ==
  /\ At("erase")
  /\ Upsert(call.name, None)
  /\ Goes(None)
  /\ UNCHANGED <<live, symbols>>

Next ==
  \/ \E name \in Names :
       \/ \E address \in Addresses, kind \in {"UserDefined", "Allocation"} :
            RegisterPut(name, address, kind)
       \/ UnregisterErase(name)
       \/ AllocBlock(name)
       \/ SelfLink(name)
       \/ DeallocBegin(name)
  \/ RegisterLink
  \/ UnregisterUnlink
  \/ AllocInsert
  \/ AllocPublish
  \/ DeallocWithdraw
  \/ DeallocFree
  \/ DeallocFreeFails
  \/ DeallocErase

Spec == Init /\ [][Next]_vars

-----------------------------------------------------------------------------
(* Properties.                                                             *)

\* Tables are of their types, and what a call has read still holds at its next
\* write.
TypeOK ==
  /\ live \subseteq Blocks
  /\ symbols \in [Names -> SymbolRecord \cup {None}]
  /\ globals \in [Names -> AllocationRecord \cup {None}]
  /\ call \in CallRecord \cup {None}
  /\ call = None <=> before = None
  /\ At("link") => RecordsAt(globals, call.address) # {}
  /\ At("unlink") => HoldersOf(globals, call.name) # {}
  /\ At("insert") => globals[call.name] = None /\ call.address \in live
  /\ At("self") \/ At("publish") => globals[call.name].address = call.address
  /\ At("withdraw") => call.todo \subseteq globals[call.name].linkedSymbols

\* A thread that looks a symbol of kind Allocation up at any moment, between
\* any two writes of a call, gets the address of a live block.
LookupsBacked ==
  \A n \in Names :
    symbols[n] # None /\ symbols[n].kind = "Allocation" => symbols[n].address \in live

\* A record names a freed block only while deallocate is about to erase that
\* record, and a live block has a record unless globalAlloc is about to store
\* it: a lookup of a record is wrong in no other window.
RecordsMatchBlocks ==
  /\ \A n \in Names :
       globals[n] # None /\ globals[n].address \notin live =>
         At("erase") /\ call.name = n
  /\ \A b \in live :
       \/ RecordsAt(globals, b) # {}
       \/ At("insert") /\ call.address = b

\* Seen from outside, a call happens at its last write: the writes add up to
\* the operation that EngineSession has as one step.
Atomic == INSTANCE EngineSession WITH
  live <- IF before = None THEN live ELSE before.live,
  symbols <- IF before = None THEN symbols ELSE before.symbols,
  globals <- IF before = None THEN globals ELSE before.globals

AtomicSpec == Atomic!SessionInit /\ [][Atomic!SessionNext]_(Atomic!sessionVars)
=============================================================================
