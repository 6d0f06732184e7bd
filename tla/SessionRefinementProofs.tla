----------------------- MODULE SessionRefinementProofs -----------------------
(***************************************************************************)
(* The writes of SessionSteps add up to the operations of EngineSession,   *)
(* for any names, blocks and other addresses: every write but a call's     *)
(* last is a stuttering step, and the last one is the operation.           *)
(*                                                                         *)
(* History says how far the tables have come from what they were when the  *)
(* call began; at a call's last write that is all but the operation.       *)
(***************************************************************************)
EXTENDS SessionStepsProofs

\* What globalAlloc of an unknown name has done before it stores the record.
Fresh ==
  /\ before.globals[call.name] = None
  /\ symbols[call.name] = None
  /\ call.address \in Blocks \ before.live
  /\ live = before.live \cup {call.address}

\* Each call's writes so far, from the session of before the call.
History ==
  /\ At("link") =>
       /\ live = before.live /\ globals = before.globals
       /\ globals[call.name] = None
       /\ \E kind \in {"UserDefined", "Allocation"} :
            symbols = [before.symbols EXCEPT ![call.name] =
                         [address |-> call.address, kind |-> kind]]
  /\ At("unlink") =>
       /\ live = before.live /\ globals = before.globals
       /\ before.symbols[call.name] # None
       /\ symbols = [n \in Names |->
                       IF n \in {call.name} THEN None ELSE before.symbols[n]]
  /\ At("insert") =>
       Fresh /\ symbols = before.symbols /\ globals = before.globals
  /\ At("self") =>
       /\ Fresh /\ symbols = before.symbols
       /\ globals = [before.globals EXCEPT ![call.name] =
                       [address |-> call.address, linkedSymbols |-> {}]]
  /\ At("publish") =>
       /\ symbols = before.symbols
       /\ \/ /\ Fresh
             /\ globals = [before.globals EXCEPT ![call.name] =
                             [address |-> call.address, linkedSymbols |-> {call.name}]]
          \/ /\ live = before.live
             /\ before.globals[call.name] # None
             /\ before.globals[call.name].address = call.address
             /\ globals = [before.globals EXCEPT ![call.name].linkedSymbols =
                             @ \cup {call.name}]
  /\ At("withdraw") =>
       /\ live = before.live /\ globals = before.globals
       /\ symbols = [n \in Names |->
                       IF n \in globals[call.name].linkedSymbols \ call.todo
                       THEN None ELSE before.symbols[n]]
  /\ At("erase") =>
       /\ live = before.live \ {globals[call.name].address}
       /\ globals = before.globals
       /\ symbols = [n \in Names |->
                       IF n \in globals[call.name].linkedSymbols
                       THEN None ELSE before.symbols[n]]

USE NamesAssumption, BlocksAssumption, NoneAssumption, CallAssumption

-----------------------------------------------------------------------------
(* Helpers.                                                                *)

\* Only one of a set of names is the first.
LEMMA FirstIsOne ==
  ASSUME NEW S \in SUBSET Names, NEW k \in S, FirstOf(k, S), NEW m \in Names
  PROVE  FirstOf(m, S) <=> m = k
BY DEF FirstOf

\* Linking changes the first record at the address.
LEMMA LinkIsUpsert ==
  ASSUME NEW records \in [Names -> AllocationRecord \cup {None}],
         NEW address \in Addresses, NEW name \in Names,
         NEW k \in Names, FirstOf(k, RecordsAt(records, address))
  PROVE  LinkSymbol(records, address, name)
           = [records EXCEPT ![k] =
                [records[k] EXCEPT !.linkedSymbols = @ \cup {name}]]
<1>1. RecordsAt(records, address) \in SUBSET Names /\ k \in RecordsAt(records, address)
  BY DEF RecordsAt, Recorded, FirstOf
<1>2. \A m \in Names : FirstOf(m, RecordsAt(records, address)) <=> m = k
  BY <1>1, FirstIsOne
<1>3. QED
  BY <1>2 DEF LinkSymbol

\* Linking changes nothing where no record is.
LEMMA LinkNone ==
  ASSUME NEW records \in [Names -> AllocationRecord \cup {None}],
         NEW address \in Addresses, NEW name \in Names,
         RecordsAt(records, address) = {}
  PROVE  LinkSymbol(records, address, name) = records
BY DEF LinkSymbol, FirstOf

\* A record written back with the links it has is the same record.
LEMMA SameLinks ==
  ASSUME NEW record \in AllocationRecord, NEW links, links = record.linkedSymbols
  PROVE  [record EXCEPT !.linkedSymbols = links] = record
BY DEF AllocationRecord

\* Unlinking one name changes the first record that lists it.
LEMMA UnlinkIsUpsert ==
  ASSUME NEW records \in [Names -> AllocationRecord \cup {None}],
         NEW name \in Names,
         NEW k \in Names, FirstOf(k, HoldersOf(records, name))
  PROVE  UnlinkSymbols(records, {name})
           = [records EXCEPT ![k] =
                [records[k] EXCEPT !.linkedSymbols = @ \ {name}]]
<1>1. HoldersOf(records, name) \in SUBSET Names /\ k \in HoldersOf(records, name)
  BY DEF HoldersOf, Recorded, FirstOf
<1>2. \A m \in Names : FirstOf(m, HoldersOf(records, name)) <=> m = k
  BY <1>1, FirstIsOne
<1>3. ASSUME NEW m \in Names, records[m] # None
      PROVE  UnlinkSymbols(records, {name})[m]
               = IF m = k THEN [records[k] EXCEPT !.linkedSymbols = @ \ {name}]
                 ELSE records[m]
  <2> DEFINE links == {s \in records[m].linkedSymbols :
                         ~(s \in {name} /\ FirstOf(m, HoldersOf(records, s)))}
  <2>1. UnlinkSymbols(records, {name})[m] = [records[m] EXCEPT !.linkedSymbols = links]
    BY <1>3 DEF UnlinkSymbols
  <2>2. links = IF m = k THEN records[m].linkedSymbols \ {name}
                ELSE records[m].linkedSymbols
    BY <1>2
  <2>3. records[m] \in AllocationRecord
    BY <1>3
  <2>4. QED
    BY <2>1, <2>2, <2>3, SameLinks
<1>4. records[k] # None
  BY <1>1 DEF HoldersOf, Recorded
<1>5. QED
  BY <1>3, <1>4 DEF UnlinkSymbols

\* Unlinking a name that no record lists changes nothing.
LEMMA UnlinkNone ==
  ASSUME NEW records \in [Names -> AllocationRecord \cup {None}],
         NEW name \in Names, HoldersOf(records, name) = {}
  PROVE  UnlinkSymbols(records, {name}) = records
<1>1. ASSUME NEW m \in Names, records[m] # None
      PROVE  UnlinkSymbols(records, {name})[m] = records[m]
  <2> DEFINE links == {s \in records[m].linkedSymbols :
                         ~(s \in {name} /\ FirstOf(m, HoldersOf(records, s)))}
  <2>1. UnlinkSymbols(records, {name})[m] = [records[m] EXCEPT !.linkedSymbols = links]
    BY <1>1 DEF UnlinkSymbols
  <2>2. links = records[m].linkedSymbols
    BY DEF FirstOf
  <2>3. QED
    BY <1>1, <2>1, <2>2, SameLinks
<1>2. QED
  BY <1>1 DEF UnlinkSymbols

\* The helpers of the two instances are the same.
LEMMA SameHelpers ==
  ASSUME NEW records, NEW address, NEW name, NEW names
  PROVE  /\ Atomic!LinkSymbol(records, address, name)
              = LinkSymbol(records, address, name)
         /\ Atomic!UnlinkSymbols(records, names) = UnlinkSymbols(records, names)
         /\ Atomic!RecordsAt(records, address) = RecordsAt(records, address)
         /\ Atomic!Addresses = Addresses
BY DEF LinkSymbol, Atomic!LinkSymbol, UnlinkSymbols, Atomic!UnlinkSymbols, RecordsAt,
       Atomic!RecordsAt, HoldersOf, Atomic!HoldersOf, FirstOf, Atomic!FirstOf,
       Recorded, Atomic!Recorded, Addresses, Atomic!Addresses

\* The session of before a call has tables of the right types.
LEMMA BeforeFacts ==
  ASSUME Tables, call # None
  PROVE  /\ before # None /\ before.live \subseteq Blocks
         /\ before.symbols \in [Names -> SymbolRecord \cup {None}]
         /\ before.globals \in [Names -> AllocationRecord \cup {None}]
BY DEF Tables, SessionRecord

\* A write that is not the last one is not seen from outside.
LEMMA NotLast ==
  ASSUME Tables, NEW next \in CallRecord, Goes(next)
  PROVE  /\ UNCHANGED Atomic!sessionVars
         /\ call' = next /\ call' # None
         /\ call = None => /\ before'.live = live /\ before'.symbols = symbols
                           /\ before'.globals = globals
         /\ call # None => before' = before
<1>1. next # None /\ Session \in SessionRecord /\ Session # None
  BY DEF Session, SessionRecord, Tables
<1>2. call' = next /\ before' # None /\ (call = None => before' = Session)
      /\ (call # None => before' = before)
  BY <1>1 DEF Goes, Tables
<1>3. /\ Session.live = live /\ Session.symbols = symbols
      /\ Session.globals = globals
  BY DEF Session
<1>4. call = None <=> before = None
  BY DEF Tables
<1>5. UNCHANGED Atomic!sessionVars
  BY <1>2, <1>3, <1>4 DEF Atomic!sessionVars
<1>6. QED
  BY <1>1, <1>2, <1>3, <1>5

\* The last write of a call is seen as the change from before the call.
LEMMA Last ==
  ASSUME Tables, call # None, Goes(None)
  PROVE  /\ before # None /\ before' = None /\ call' = None
BY DEF Goes, Tables
-----------------------------------------------------------------------------
(* registerSymbol and unregisterSymbol.                                    *)

\* A registered symbol at an address without a record ends the call at once.
LEMMA RegisterPutRefines ==
  ASSUME SInv, NEW name \in Names, NEW address \in Addresses,
         NEW kind \in {"UserDefined", "Allocation"}, RegisterPut(name, address, kind)
  PROVE  History' /\ [Atomic!SessionNext]_(Atomic!sessionVars)
<1>1. /\ call = None /\ before = None /\ Tables /\ UNCHANGED <<live, globals>>
      /\ PutSymbol(name, address, kind) /\ globals[name] = None
      /\ kind = "Allocation" => RecordsAt(globals, address) # {}
  BY DEF RegisterPut, SInv, Tables
<1>2. CASE RecordsAt(globals, address) = {}
  <2>1. Goes(None)
    BY <1>2 DEF RegisterPut
  <2>2. call' = None /\ before' = None
    BY <2>1 DEF Goes
  <2>3. LinkSymbol(globals, address, name) = globals
    BY <1>1, <1>2, LinkNone DEF Tables
  <2>4. Atomic!SessionRegister(name, address, kind)
    BY <1>1, <2>2, <2>3, SameHelpers DEF Atomic!SessionRegister, PutSymbol
  <2>5. Atomic!RegisterSymbol(name, address, kind)
    BY <1>1, <1>2, <2>2, <2>4 DEF Atomic!RegisterSymbol
  <2>6. Atomic!SessionNext
    BY <2>5, SameHelpers DEF Atomic!SessionNext
  <2>7. QED
    BY <2>2, <2>6 DEF History, At
<1>3. CASE RecordsAt(globals, address) # {}
  <2> DEFINE next == [at |-> "link", name |-> name, address |-> address]
  <2>1. Goes(next) /\ next \in CallRecord
    BY <1>3 DEF RegisterPut, CallRecord
  <2>2. /\ UNCHANGED Atomic!sessionVars /\ call' = next
        /\ before'.live = live /\ before'.symbols = symbols /\ before'.globals = globals
    BY <1>1, <2>1, NotLast
  <2>3. History'
    BY <1>1, <2>2 DEF History, At, PutSymbol
  <2>4. QED
    BY <2>2, <2>3
<1>4. QED
  BY <1>2, <1>3

\* When the record has learned of the symbol, the symbol is registered.
LEMMA RegisterLinkRefines ==
  ASSUME SInv, History, RegisterLink
  PROVE  History' /\ Atomic!SessionNext
<1> DEFINE name == call.name
           address == call.address
<1>1. /\ At("link") /\ call # None /\ Tables /\ UNCHANGED <<live, symbols>>
      /\ Goes(None) /\ RecordsAt(globals, address) # {}
  BY DEF RegisterLink, At, SInv, InCall
<1>2. name \in Names /\ address \in Addresses
  BY <1>1, CallFields
<1>3. before # None /\ before' = None /\ call' = None
  BY <1>1, Last
<1>4. PICK k \in Names :
        /\ FirstOf(k, RecordsAt(globals, address))
        /\ globals' = [globals EXCEPT ![k] =
                         [globals[k] EXCEPT !.linkedSymbols = @ \cup {name}]]
  BY DEF RegisterLink, Upsert
<1>5. globals' = LinkSymbol(globals, address, name)
  BY <1>1, <1>2, <1>4, LinkIsUpsert DEF Tables
<1>6. PICK kind \in {"UserDefined", "Allocation"} :
        symbols = [before.symbols EXCEPT ![name] = [address |-> address, kind |-> kind]]
  BY <1>1 DEF History
<1>7. live = before.live /\ globals = before.globals /\ globals[name] = None
  BY <1>1 DEF History
<1>8. Atomic!SessionRegister(name, address, kind)
  BY <1>1, <1>3, <1>5, <1>6, <1>7, SameHelpers DEF Atomic!SessionRegister
<1>9. Atomic!RegisterSymbol(name, address, kind)
  BY <1>1, <1>3, <1>7, <1>8, SameHelpers DEF Atomic!RegisterSymbol
<1>10. QED
  BY <1>2, <1>3, <1>9, SameHelpers DEF Atomic!SessionNext, History, At

\* A symbol that no record lists is gone at once.
LEMMA UnregisterEraseRefines ==
  ASSUME SInv, NEW name \in Names, UnregisterErase(name)
  PROVE  History' /\ [Atomic!SessionNext]_(Atomic!sessionVars)
<1>1. /\ call = None /\ before = None /\ Tables /\ UNCHANGED <<live, globals>>
      /\ symbols[name] # None /\ symbols' = WithoutSymbols({name})
  BY DEF UnregisterErase, SInv, Tables, Registered
<1>2. CASE HoldersOf(globals, name) = {}
  <2>1. Goes(None)
    BY <1>2 DEF UnregisterErase
  <2>2. call' = None /\ before' = None
    BY <2>1 DEF Goes
  <2>3. UnlinkSymbols(globals, {name}) = globals
    BY <1>1, <1>2, UnlinkNone DEF Tables
  <2>4. {n \in {name} : Atomic!Registered(n)} = {name}
    BY <1>1 DEF Atomic!Registered
  <2>5. Atomic!SessionUnregister({name})
    BY <1>1, <2>2, <2>3, <2>4, SameHelpers
       DEF Atomic!SessionUnregister, Atomic!WithoutSymbols, WithoutSymbols
  <2>6. Atomic!UnregisterSymbol(name)
    BY <1>1, <2>2, <2>5 DEF Atomic!UnregisterSymbol, Atomic!Registered
  <2>7. QED
    BY <2>2, <2>6 DEF Atomic!SessionNext, History, At
<1>3. CASE HoldersOf(globals, name) # {}
  <2> DEFINE next == [at |-> "unlink", name |-> name]
  <2>1. Goes(next) /\ next \in CallRecord
    BY <1>3 DEF UnregisterErase, CallRecord
  <2>2. /\ UNCHANGED Atomic!sessionVars /\ call' = next
        /\ before'.live = live /\ before'.symbols = symbols /\ before'.globals = globals
    BY <1>1, <2>1, NotLast
  <2>3. History'
    BY <1>1, <2>2 DEF History, At, WithoutSymbols
  <2>4. QED
    BY <2>2, <2>3
<1>4. QED
  BY <1>2, <1>3

\* When the first record that lists the symbol forgot it, it is unregistered.
LEMMA UnregisterUnlinkRefines ==
  ASSUME SInv, History, UnregisterUnlink
  PROVE  History' /\ Atomic!SessionNext
<1> DEFINE name == call.name
<1>1. /\ At("unlink") /\ call # None /\ Tables /\ UNCHANGED <<live, symbols>>
      /\ Goes(None)
  BY DEF UnregisterUnlink, At, SInv
<1>2. name \in Names
  BY <1>1, CallFields
<1>3. before # None /\ before' = None /\ call' = None
  BY <1>1, Last
<1>4. PICK k \in Names :
        /\ FirstOf(k, HoldersOf(globals, name))
        /\ globals' = [globals EXCEPT ![k] =
                         [globals[k] EXCEPT !.linkedSymbols = @ \ {name}]]
  BY DEF UnregisterUnlink, Upsert
<1>5. globals' = UnlinkSymbols(globals, {name})
  BY <1>1, <1>2, <1>4, UnlinkIsUpsert DEF Tables
<1>6. /\ live = before.live /\ globals = before.globals
      /\ before.symbols[name] # None
      /\ symbols = [n \in Names |-> IF n \in {name} THEN None ELSE before.symbols[n]]
  BY <1>1 DEF History
<1>7. {n \in {name} : Atomic!Registered(n)} = {name}
  BY <1>3, <1>6 DEF Atomic!Registered
<1>8. Atomic!SessionUnregister({name})
  BY <1>1, <1>3, <1>5, <1>6, <1>7, SameHelpers
     DEF Atomic!SessionUnregister, Atomic!WithoutSymbols
<1>9. Atomic!UnregisterSymbol(name)
  BY <1>1, <1>3, <1>6, <1>8 DEF Atomic!UnregisterSymbol, Atomic!Registered
<1>10. QED
  BY <1>2, <1>3, <1>9 DEF Atomic!SessionNext, History, At
-----------------------------------------------------------------------------
(* globalAlloc.                                                            *)

\* Taking a block is not seen.
LEMMA AllocBlockRefines ==
  ASSUME SInv, NEW name \in Names, AllocBlock(name)
  PROVE  History' /\ UNCHANGED Atomic!sessionVars
<1>1. PICK b \in Blocks \ live :
        /\ live' = live \cup {b}
        /\ Goes([at |-> "insert", name |-> name, address |-> b])
  BY DEF AllocBlock
<1> DEFINE next == [at |-> "insert", name |-> name, address |-> b]
<1>2. /\ call = None /\ Tables /\ UNCHANGED <<symbols, globals>>
      /\ globals[name] = None /\ symbols[name] = None
  BY DEF AllocBlock, SInv, Registered
<1>3. next \in CallRecord
  BY DEF CallRecord, Addresses
<1>4. /\ UNCHANGED Atomic!sessionVars /\ call' = next
      /\ before'.live = live /\ before'.symbols = symbols /\ before'.globals = globals
  BY <1>1, <1>2, <1>3, NotLast
<1>5. QED
  BY <1>1, <1>2, <1>4 DEF History, Fresh, At

\* Storing the record is not seen.
LEMMA AllocInsertRefines ==
  ASSUME SInv, History, AllocInsert
  PROVE  History' /\ UNCHANGED Atomic!sessionVars
<1> DEFINE next == [call EXCEPT !.at = "self"]
<1>1. /\ At("insert") /\ call # None /\ Tables /\ UNCHANGED <<live, symbols>>
      /\ Goes(next)
      /\ globals' = [globals EXCEPT ![call.name] =
                       [address |-> call.address, linkedSymbols |-> {}]]
  BY DEF AllocInsert, At, SInv, Upsert
<1>2. next \in CallRecord /\ next.at = "self" /\ next.name = call.name
      /\ next.address = call.address
  BY <1>1 DEF At, Tables, CallRecord
<1> HIDE DEF next
<1>3. UNCHANGED Atomic!sessionVars /\ call' = next /\ before' = before
  BY <1>1, <1>2, NotLast
<1>4. Fresh /\ symbols = before.symbols /\ globals = before.globals
  BY <1>1 DEF History
<1>5. QED
  BY <1>1, <1>2, <1>3, <1>4 DEF History, Fresh, At

\* Listing the own name is not seen.
LEMMA SelfLinkRefines ==
  ASSUME SInv, History, NEW name \in Names, SelfLink(name)
  PROVE  History' /\ UNCHANGED Atomic!sessionVars
<1> DEFINE links == globals[name].linkedSymbols \cup {name}
           next == [at |-> "publish", name |-> name, address |-> globals[name].address]
<1>1. /\ (At("self") /\ name = call.name) \/ call = None
      /\ Tables /\ UNCHANGED <<live, symbols>>
      /\ globals' = [globals EXCEPT ![name] = [globals[name] EXCEPT !.linkedSymbols = links]]
      /\ Goes(next) /\ globals[name] # None
  BY DEF SelfLink, SInv, InCall, Upsert
<1>2. globals[name] \in AllocationRecord
  BY <1>1, RecordedFacts
<1>3. next \in CallRecord
  BY <1>2 DEF CallRecord, AllocationRecord, Addresses
<1>4. UNCHANGED Atomic!sessionVars /\ call' = next
  BY <1>1, <1>3, NotLast
<1>5. CASE At("self") /\ name = call.name
  <2>1. before' = before
    BY <1>1, <1>3, <1>5, NotLast DEF At
  <2>2. /\ Fresh /\ symbols = before.symbols
        /\ globals = [before.globals EXCEPT ![name] =
                        [address |-> call.address, linkedSymbols |-> {}]]
    BY <1>5 DEF History
  <2>3. before.globals \in [Names -> AllocationRecord \cup {None}]
    BY <1>1, <1>5, BeforeFacts DEF At
  <2>4. globals[name] = [address |-> call.address, linkedSymbols |-> {}]
    BY <2>2, <2>3
  <2>5. [globals[name] EXCEPT !.linkedSymbols = links]
          = [address |-> call.address, linkedSymbols |-> {name}]
    BY <2>4
  <2>6. globals' = [before.globals EXCEPT ![name] =
                      [address |-> call.address, linkedSymbols |-> {name}]]
    BY <1>1, <2>2, <2>3, <2>5
  <2>7. Fresh' /\ call'.name = name /\ call'.address = call.address
    BY <1>1, <1>4, <1>5, <2>1, <2>2, <2>4 DEF Fresh
  <2>8. History'
    BY <1>1, <1>4, <2>1, <2>2, <2>6, <2>7 DEF History, At
  <2>9. QED
    BY <1>4, <2>8
<1>6. CASE call = None
  <2>1. before'.live = live /\ before'.symbols = symbols /\ before'.globals = globals
    BY <1>1, <1>3, <1>6, NotLast
  <2>2. History'
    BY <1>1, <1>4, <2>1 DEF History, At
  <2>3. QED
    BY <1>4, <2>2
<1>7. QED
  BY <1>1, <1>5, <1>6

\* When the symbol is published, the block is allocated, or given again.
LEMMA AllocPublishRefines ==
  ASSUME SInv, History, AllocPublish
  PROVE  History' /\ Atomic!SessionNext
<1> DEFINE name == call.name
<1>1. /\ At("publish") /\ call # None /\ Tables /\ UNCHANGED <<live, globals>>
      /\ Goes(None)
      /\ symbols' = [symbols EXCEPT ![name] =
                       [address |-> call.address, kind |-> "Allocation"]]
  BY DEF AllocPublish, At, SInv, PutSymbol
<1>2. name \in Names
  BY <1>1, CallFields
<1>3. before # None /\ before' = None /\ call' = None
  BY <1>1, Last
<1>4. symbols = before.symbols
  BY <1>1 DEF History
<1>5. CASE /\ Fresh
           /\ globals = [before.globals EXCEPT ![name] =
                           [address |-> call.address, linkedSymbols |-> {name}]]
  <2>1. Atomic!GlobalAllocNew(name)
    BY <1>1, <1>3, <1>4, <1>5 DEF Fresh, Atomic!GlobalAllocNew, Atomic!Registered
  <2>2. QED
    BY <1>2, <1>3, <2>1 DEF Atomic!SessionNext, History, At
<1>6. CASE /\ live = before.live
           /\ before.globals[name] # None
           /\ before.globals[name].address = call.address
           /\ globals = [before.globals EXCEPT ![name].linkedSymbols = @ \cup {name}]
  <2>1. Atomic!GlobalAllocExisting(name)
    BY <1>1, <1>3, <1>4, <1>6 DEF Atomic!GlobalAllocExisting
  <2>2. QED
    BY <1>2, <1>3, <2>1 DEF Atomic!SessionNext, History, At
<1>7. QED
  BY <1>1, <1>5, <1>6 DEF History

-----------------------------------------------------------------------------
(* deallocate.                                                             *)

\* Reading the links is not seen.
LEMMA DeallocBeginRefines ==
  ASSUME SInv, NEW name \in Names, DeallocBegin(name)
  PROVE  History' /\ UNCHANGED Atomic!sessionVars
<1> DEFINE next == [at |-> "withdraw", name |-> name,
                    todo |-> globals[name].linkedSymbols]
<1>1. /\ call = None /\ Tables /\ UNCHANGED <<live, symbols, globals>>
      /\ globals[name] # None /\ Goes(next)
  BY DEF DeallocBegin, SInv, sessionVars
<1>2. next \in CallRecord
  BY <1>1, RecordedFacts DEF CallRecord, AllocationRecord
<1>3. /\ UNCHANGED Atomic!sessionVars /\ call' = next
      /\ before'.live = live /\ before'.symbols = symbols /\ before'.globals = globals
  BY <1>1, <1>2, NotLast
<1>4. symbols = [n \in Names |->
                   IF n \in globals[name].linkedSymbols \ globals[name].linkedSymbols
                   THEN None ELSE symbols[n]]
  BY <1>1 DEF Tables
<1>5. QED
  BY <1>1, <1>3, <1>4 DEF History, At

\* Withdrawing a symbol is not seen.
LEMMA DeallocWithdrawRefines ==
  ASSUME SInv, History, DeallocWithdraw
  PROVE  History' /\ UNCHANGED Atomic!sessionVars
<1>1. PICK symbol \in call.todo :
        /\ symbols' = WithoutSymbols({symbol})
        /\ Goes([call EXCEPT !.todo = @ \ {symbol}])
  BY DEF DeallocWithdraw
<1> DEFINE next == [call EXCEPT !.todo = @ \ {symbol}]
           linked == globals[call.name].linkedSymbols
<1>2. /\ At("withdraw") /\ call # None /\ Tables /\ UNCHANGED <<live, globals>>
      /\ Goes(next) /\ call.todo \subseteq linked
  BY <1>1 DEF DeallocWithdraw, SInv, InCall, At
<1>3. next \in CallRecord /\ next.at = "withdraw" /\ next.name = call.name
      /\ next.todo = call.todo \ {symbol}
  BY <1>2 DEF At, Tables, CallRecord
<1> HIDE DEF next
<1>4. UNCHANGED Atomic!sessionVars /\ call' = next /\ before' = before
  BY <1>2, <1>3, NotLast
<1>5. /\ live = before.live /\ globals = before.globals
      /\ symbols = [n \in Names |->
                      IF n \in linked \ call.todo THEN None ELSE before.symbols[n]]
  BY <1>2 DEF History
<1>6. symbols' = [n \in Names |->
                    IF n \in linked \ next.todo THEN None ELSE before.symbols[n]]
  BY <1>1, <1>2, <1>3, <1>5 DEF WithoutSymbols
<1>7. QED
  BY <1>2, <1>3, <1>4, <1>5, <1>6 DEF History, At

\* Freeing the block is not seen.
LEMMA DeallocFreeRefines ==
  ASSUME SInv, History, DeallocFree
  PROVE  History' /\ UNCHANGED Atomic!sessionVars
<1> DEFINE name == call.name
           next == [at |-> "erase", name |-> name]
<1>1. /\ At("withdraw") /\ call # None /\ call.todo = {} /\ Tables
      /\ UNCHANGED <<symbols, globals>>
      /\ live' = live \ {globals[name].address} /\ Goes(next)
  BY DEF DeallocFree, At, SInv
<1>2. next \in CallRecord
  BY <1>1, CallFields DEF CallRecord
<1>3. UNCHANGED Atomic!sessionVars /\ call' = next /\ before' = before
  BY <1>1, <1>2, NotLast
<1>4. /\ live = before.live /\ globals = before.globals
      /\ symbols = [n \in Names |-> IF n \in globals[name].linkedSymbols \ {}
                                    THEN None ELSE before.symbols[n]]
  BY <1>1 DEF History
<1>5. symbols = [n \in Names |-> IF n \in globals[name].linkedSymbols
                                 THEN None ELSE before.symbols[n]]
  BY <1>4
<1>6. QED
  BY <1>1, <1>3, <1>4, <1>5 DEF History, At

\* A deallocation that fails has withdrawn the symbols and done nothing else.
LEMMA DeallocFreeFailsRefines ==
  ASSUME SInv, History, DeallocFreeFails
  PROVE  History' /\ Atomic!SessionNext
<1> DEFINE name == call.name
<1>1. /\ At("withdraw") /\ call # None /\ call.todo = {} /\ Tables /\ Goes(None)
      /\ UNCHANGED <<live, symbols, globals>> /\ globals[name] # None
  BY DEF DeallocFreeFails, At, SInv, InCall, sessionVars
<1>2. before # None /\ before' = None /\ call' = None /\ name \in Names
  BY <1>1, Last, CallFields
<1>3. /\ live = before.live /\ globals = before.globals
      /\ symbols = [n \in Names |-> IF n \in globals[name].linkedSymbols \ {}
                                    THEN None ELSE before.symbols[n]]
  BY <1>1 DEF History
<1>4. symbols = [n \in Names |-> IF n \in globals[name].linkedSymbols
                                 THEN None ELSE before.symbols[n]]
  BY <1>3
<1>5. Atomic!DeallocateGlobalFails(name)
  BY <1>1, <1>2, <1>3, <1>4 DEF Atomic!DeallocateGlobalFails, Atomic!WithoutSymbols
<1>6. QED
  BY <1>2, <1>5 DEF Atomic!SessionNext, History, At

\* When the record is erased, the block is deallocated.
LEMMA DeallocEraseRefines ==
  ASSUME SInv, History, DeallocErase
  PROVE  History' /\ Atomic!SessionNext
<1> DEFINE name == call.name
<1>1. /\ At("erase") /\ call # None /\ Tables /\ Goes(None)
      /\ UNCHANGED <<live, symbols>> /\ globals' = [globals EXCEPT ![name] = None]
      /\ globals[name] # None
  BY DEF DeallocErase, At, SInv, InCall, Upsert
<1>2. before # None /\ before' = None /\ call' = None /\ name \in Names
  BY <1>1, Last, CallFields
<1>3. /\ live = before.live \ {globals[name].address} /\ globals = before.globals
      /\ symbols = [n \in Names |-> IF n \in globals[name].linkedSymbols
                                    THEN None ELSE before.symbols[n]]
  BY <1>1 DEF History
<1>4. Atomic!DeallocateGlobal(name)
  BY <1>1, <1>2, <1>3 DEF Atomic!DeallocateGlobal, Atomic!WithoutSymbols
<1>5. QED
  BY <1>2, <1>4 DEF Atomic!SessionNext, History, At

-----------------------------------------------------------------------------
(* The specification.                                                      *)

\* Every write is a stuttering step or the whole operation.
LEMMA RefinesStep ==
  SInv /\ History /\ [Next]_vars => History' /\ [Atomic!SessionNext]_(Atomic!sessionVars)
<1> SUFFICES ASSUME SInv, History, [Next]_vars
             PROVE  History' /\ [Atomic!SessionNext]_(Atomic!sessionVars)
  OBVIOUS
<1>1. ASSUME NEW name \in Names,
             \/ \E address \in Addresses, kind \in {"UserDefined", "Allocation"} :
                  RegisterPut(name, address, kind)
             \/ UnregisterErase(name)
             \/ AllocBlock(name)
             \/ SelfLink(name)
             \/ DeallocBegin(name)
      PROVE  History' /\ [Atomic!SessionNext]_(Atomic!sessionVars)
  BY <1>1, RegisterPutRefines, UnregisterEraseRefines, AllocBlockRefines,
     SelfLinkRefines, DeallocBeginRefines
<1>2. CASE RegisterLink \/ UnregisterUnlink
  BY <1>2, RegisterLinkRefines, UnregisterUnlinkRefines
<1>3. CASE AllocInsert \/ AllocPublish
  BY <1>3, AllocInsertRefines, AllocPublishRefines
<1>4. CASE DeallocWithdraw \/ DeallocFree \/ DeallocFreeFails \/ DeallocErase
  BY <1>4, DeallocWithdrawRefines, DeallocFreeRefines, DeallocFreeFailsRefines,
     DeallocEraseRefines
<1>5. CASE UNCHANGED vars
  BY <1>5 DEF vars, sessionVars, History, Fresh, At, Atomic!sessionVars
<1>6. QED
  BY <1>1, <1>2, <1>3, <1>4, <1>5 DEF Next

\* A thread that could not look between the writes of a call would see the
\* operations of EngineSession: the writes of registerSymbol, unregisterSymbol,
\* globalAlloc and deallocate add up to them.
THEOREM RefinesAtomic == Spec => AtomicSpec
<1>1. Init => Atomic!SessionInit /\ History
  BY DEF Init, SessionInit, Atomic!SessionInit, History, At
<1>2. QED
  BY <1>1, InitSInv, SInvStep, RefinesStep, PTL DEF Spec, AtomicSpec
=============================================================================
