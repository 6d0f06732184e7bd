-------------------------- MODULE SessionStepsProofs --------------------------
(***************************************************************************)
(* Safety of SessionSteps for any names, blocks and other addresses.       *)
(*                                                                         *)
(* The inductive invariant is SInv. That a symbol of kind Allocation names *)
(* a live block rests on Listed: the record of its block lists it, or is   *)
(* about to. That only the first record at an address learns of a symbol   *)
(* is enough because no two records stand for one block.                   *)
(***************************************************************************)
EXTENDS SessionSteps, TLAPS

\* The tables, the call and the session of before the call are of their types.
Tables ==
  /\ live \subseteq Blocks
  /\ symbols \in [Names -> SymbolRecord \cup {None}]
  /\ globals \in [Names -> AllocationRecord \cup {None}]
  /\ call \in CallRecord \cup {None}
  /\ before \in SessionRecord \cup {None}
  /\ call = None <=> before = None

\* What a call that is under way knows of the tables.
InCall ==
  /\ At("link") => RecordsAt(globals, call.address) # {}
  /\ At("unlink") => HoldersOf(globals, call.name) # {} /\ symbols[call.name] = None
  /\ At("insert") => /\ globals[call.name] = None
                     /\ call.address \in live
                     /\ RecordsAt(globals, call.address) = {}
  /\ At("self") \/ At("publish") => /\ globals[call.name] # None
                                    /\ globals[call.name].address = call.address
  /\ At("publish") => call.name \in globals[call.name].linkedSymbols
  /\ At("withdraw") \/ At("erase") => globals[call.name] # None
  /\ At("withdraw") => call.todo \subseteq globals[call.name].linkedSymbols
  /\ At("erase") => globals[call.name].address \notin live

\* No two records stand for one block.
Distinct ==
  \A m, n \in Recorded(globals) : globals[m].address = globals[n].address => m = n

\* Record m will take symbol n along when its block goes.
Answers(m, n) ==
  /\ globals[m].address = symbols[n].address
  /\ \/ n \in globals[m].linkedSymbols
     \/ At("link") /\ call.name = n /\ call.address = symbols[n].address
  /\ ~(At("erase") /\ call.name = m)
  /\ At("withdraw") /\ call.name = m => n \in call.todo

AllocationSymbol(n) == symbols[n] # None /\ symbols[n].kind = "Allocation"

Listed ==
  \A n \in Names : AllocationSymbol(n) => \E m \in Recorded(globals) : Answers(m, n)

SInv == Tables /\ InCall /\ Distinct /\ RecordsMatchBlocks /\ Listed

USE NamesAssumption, BlocksAssumption, NoneAssumption, CallAssumption

-----------------------------------------------------------------------------
(* Helpers.                                                                *)

\* A step that keeps the tables tables and goes on with a call keeps types.
LEMMA GoesTyped ==
  ASSUME Tables, NEW next \in CallRecord \cup {None}, Goes(next),
         live' \subseteq Blocks,
         symbols' \in [Names -> SymbolRecord \cup {None}],
         globals' \in [Names -> AllocationRecord \cup {None}]
  PROVE  Tables' /\ call' = next
<1>1. Session \in SessionRecord
  BY DEF Session, SessionRecord, Tables
<1>2. QED
  BY <1>1 DEF Goes, Tables

\* The only candidate is the first one.
LEMMA FirstExists ==
  ASSUME NEW S \in SUBSET Names, NEW m \in S, \A k \in S : k = m
  PROVE  FirstOf(m, S)
BY DEF FirstOf

\* Dropping symbols keeps the table a table.
LEMMA WithoutFacts ==
  ASSUME Tables, NEW names \in SUBSET Names
  PROVE  /\ WithoutSymbols(names) \in [Names -> SymbolRecord \cup {None}]
         /\ \A n \in Names :
              WithoutSymbols(names)[n] = IF n \in names THEN None ELSE symbols[n]
BY DEF WithoutSymbols, Tables

\* A stored symbol is found again, and the others are what they were.
LEMMA PutFacts ==
  ASSUME Tables, NEW name \in Names, NEW address \in Addresses,
         NEW kind \in SymbolKind, PutSymbol(name, address, kind)
  PROVE  /\ symbols' \in [Names -> SymbolRecord \cup {None}]
         /\ symbols'[name] = [address |-> address, kind |-> kind]
         /\ symbols'[name] # None
         /\ \A n \in Names \ {name} : symbols'[n] = symbols[n]
<1>1. [address |-> address, kind |-> kind] \in SymbolRecord
  BY DEF SymbolRecord
<1>2. QED
  BY <1>1 DEF PutSymbol, Tables

\* A stored record is found again, and the others are what they were.
LEMMA UpsertFacts ==
  ASSUME Tables, NEW name \in Names,
         NEW record \in AllocationRecord \cup {None}, Upsert(name, record)
  PROVE  /\ globals' \in [Names -> AllocationRecord \cup {None}]
         /\ globals'[name] = record
         /\ \A n \in Names \ {name} : globals'[n] = globals[n]
BY DEF Upsert, Tables

\* A record with other links is a record of the same block.
LEMMA LinksFacts ==
  ASSUME NEW record \in AllocationRecord, NEW links \in SUBSET Names
  PROVE  LET new == [record EXCEPT !.linkedSymbols = links]
         IN  /\ new \in AllocationRecord /\ new # None
             /\ new.address = record.address /\ new.linkedSymbols = links
BY DEF AllocationRecord

\* Records are members of Names with an entry of the record type.
LEMMA RecordedFacts ==
  ASSUME Tables
  PROVE  /\ Recorded(globals) \subseteq Names
         /\ \A n \in Names : globals[n] # None => globals[n] \in AllocationRecord
         /\ \A n \in Names : n \in Recorded(globals) <=> globals[n] # None
BY DEF Tables, Recorded

\* A record stored with other links is still the record of its block.
LEMMA RelinkFacts ==
  ASSUME Tables, NEW k \in Names, globals[k] # None, NEW links \in SUBSET Names,
         Upsert(k, [globals[k] EXCEPT !.linkedSymbols = links])
  PROVE  /\ globals' \in [Names -> AllocationRecord \cup {None}]
         /\ globals'[k] # None /\ globals'[k].address = globals[k].address
         /\ globals'[k].linkedSymbols = links
         /\ \A n \in Names \ {k} : globals'[n] = globals[n]
<1> DEFINE record == [globals[k] EXCEPT !.linkedSymbols = links]
<1>1. globals[k] \in AllocationRecord
  BY RecordedFacts
<1>2. /\ record \in AllocationRecord /\ record # None
      /\ record.address = globals[k].address /\ record.linkedSymbols = links
  BY <1>1, LinksFacts
<1>3. Upsert(k, record)
  OBVIOUS
<1> HIDE DEF record
<1>4. /\ globals' \in [Names -> AllocationRecord \cup {None}]
      /\ globals'[k] = record
      /\ \A n \in Names \ {k} : globals'[n] = globals[n]
  BY <1>2, <1>3, UpsertFacts
<1>5. QED
  BY <1>2, <1>4

\* Which fields a call has.
LEMMA CallFields ==
  ASSUME Tables
  PROVE  /\ call # None => call.name \in Names
         /\ At("link") \/ At("insert") \/ At("self") \/ At("publish")
              => call.address \in Addresses
         /\ At("withdraw") => call.todo \in SUBSET Names
BY DEF Tables, CallRecord, At

\* Steps that move no block and no record, and in which nobody waits for a
\* record to come or go, keep blocks and records matched.
LEMMA SameRecordsKept ==
  ASSUME SInv, live' = live, ~At("insert"), ~At("erase"),
         \A n \in Names : /\ globals'[n] = None <=> globals[n] = None
                         /\ globals'[n].address = globals[n].address
  PROVE  Distinct' /\ RecordsMatchBlocks'
<1>1. Recorded(globals') = Recorded(globals)
  BY DEF Recorded
<1>2. Distinct'
  BY <1>1 DEF SInv, Distinct, Recorded
<1>3. \A n \in Names : globals'[n] # None => globals'[n].address \in live'
  BY DEF SInv, RecordsMatchBlocks
<1>4. ASSUME NEW b \in live' PROVE RecordsAt(globals', b) # {}
  <2>1. PICK m \in Recorded(globals) : globals[m].address = b
    BY <1>4 DEF SInv, RecordsMatchBlocks, RecordsAt
  <2>2. QED
    BY <1>1, <2>1 DEF RecordsAt, Recorded
<1>5. QED
  BY <1>2, <1>3, <1>4 DEF RecordsMatchBlocks

-----------------------------------------------------------------------------
\* Before the first call nothing is allocated, named or under way.
LEMMA InitSInv == Init => SInv
<1> SUFFICES ASSUME Init PROVE SInv
  OBVIOUS
<1>1. /\ live = {} /\ symbols = [n \in Names |-> None]
      /\ globals = [n \in Names |-> None] /\ call = None /\ before = None
  BY DEF Init, SessionInit
<1>2. Tables
  BY <1>1 DEF Tables
<1>3. QED
  BY <1>1, <1>2 DEF SInv, InCall, Distinct, RecordsMatchBlocks, Listed, Recorded,
                    AllocationSymbol, At
-----------------------------------------------------------------------------
(* registerSymbol and unregisterSymbol.                                    *)

\* A registered symbol is listed, or about to be linked.
LEMMA RegisterPutStep ==
  ASSUME SInv, NEW name \in Names, NEW address \in Addresses,
         NEW kind \in {"UserDefined", "Allocation"}, RegisterPut(name, address, kind)
  PROVE  SInv'
<1> DEFINE next == IF RecordsAt(globals, address) = {} THEN None
                   ELSE [at |-> "link", name |-> name, address |-> address]
<1>1. /\ call = None /\ Tables /\ UNCHANGED <<live, globals>>
      /\ PutSymbol(name, address, kind) /\ Goes(next)
      /\ kind = "Allocation" => RecordsAt(globals, address) # {}
  BY DEF RegisterPut, SInv
<1>2. next \in CallRecord \cup {None}
  BY DEF CallRecord
<1>3. /\ symbols' \in [Names -> SymbolRecord \cup {None}]
      /\ symbols'[name] = [address |-> address, kind |-> kind]
      /\ \A n \in Names \ {name} : symbols'[n] = symbols[n]
  BY <1>1, PutFacts DEF SymbolKind
<1>4. Tables' /\ call' = next
  BY <1>1, <1>2, <1>3, GoesTyped DEF Tables
<1>5. InCall'
  BY <1>1, <1>4 DEF InCall, At, RecordsAt
<1>6. Distinct' /\ RecordsMatchBlocks'
  BY <1>1, <1>4 DEF SInv, Distinct, RecordsMatchBlocks, At, RecordsAt, Recorded
<1>7. ASSUME NEW n \in Names, AllocationSymbol(n)'
      PROVE  \E m \in Recorded(globals)' : Answers(m, n)'
  <2>1. CASE n = name
    <3>1. symbols'[n].address = address /\ kind = "Allocation"
      BY <1>3, <1>7, <2>1 DEF AllocationSymbol
    <3>2. PICK m \in Recorded(globals) : globals[m].address = address
      BY <1>1, <3>1 DEF RecordsAt
    <3>3. At("link")' /\ call'.name = n /\ call'.address = address
      <4>1. call' = [at |-> "link", name |-> name, address |-> address]
        BY <1>4, <3>2 DEF RecordsAt
      <4>2. call' # None
        BY <4>1 DEF CallRecord
      <4>3. QED
        BY <2>1, <4>1, <4>2 DEF At
    <3>4. QED
      BY <1>1, <3>1, <3>2, <3>3 DEF Answers, At, Recorded
  <2>2. CASE n # name
    <3>1. AllocationSymbol(n) /\ symbols'[n] = symbols[n]
      BY <1>3, <1>7, <2>2 DEF AllocationSymbol
    <3>2. PICK m \in Recorded(globals) : Answers(m, n)
      BY <3>1 DEF SInv, Listed
    <3>3. globals[m].address = symbols'[n].address /\ n \in globals[m].linkedSymbols
      BY <1>1, <3>1, <3>2 DEF Answers, At
    <3>4. QED
      BY <1>1, <1>4, <3>2, <3>3 DEF Answers, At, Recorded
  <2>3. QED
    BY <2>1, <2>2
<1>8. QED
  BY <1>4, <1>5, <1>6, <1>7 DEF SInv, Listed

\* The first record at the address is the only one there.
LEMMA RegisterLinkStep ==
  ASSUME SInv, RegisterLink
  PROVE  SInv'
<1>1. /\ At("link") /\ Tables /\ UNCHANGED <<live, symbols>> /\ Goes(None)
      /\ call.name \in Names
  BY CallFields DEF RegisterLink, SInv, At
<1>2. PICK k \in Names :
        /\ FirstOf(k, RecordsAt(globals, call.address))
        /\ Upsert(k, [globals[k] EXCEPT !.linkedSymbols = @ \cup {call.name}])
  BY DEF RegisterLink
<1> DEFINE links == globals[k].linkedSymbols \cup {call.name}
<1>3. /\ globals[k] \in AllocationRecord /\ globals[k] # None
      /\ globals[k].address = call.address
  BY <1>1, <1>2, RecordedFacts DEF FirstOf, RecordsAt
<1>4. links \in SUBSET Names
  BY <1>1, <1>3 DEF AllocationRecord
<1>5. Upsert(k, [globals[k] EXCEPT !.linkedSymbols = links])
  BY <1>2
<1>6. /\ globals' \in [Names -> AllocationRecord \cup {None}]
      /\ globals'[k] # None /\ globals'[k].address = globals[k].address
      /\ globals'[k].linkedSymbols = links
      /\ \A n \in Names \ {k} : globals'[n] = globals[n]
  BY <1>1, <1>3, <1>4, <1>5, RelinkFacts
<1>7. Tables' /\ call' = None
  BY <1>1, <1>6, GoesTyped DEF Tables
<1>8. \A n \in Names : /\ globals'[n] = None <=> globals[n] = None
                      /\ globals'[n].address = globals[n].address
  BY <1>3, <1>6
<1>9. InCall'
  BY <1>7 DEF InCall, At
<1>10. Distinct' /\ RecordsMatchBlocks'
  BY <1>1, <1>7, <1>8, SameRecordsKept DEF At
<1>11. ASSUME NEW n \in Names, AllocationSymbol(n)'
       PROVE  \E m \in Recorded(globals)' : Answers(m, n)'
  <2>1. AllocationSymbol(n)
    BY <1>1, <1>11 DEF AllocationSymbol
  <2>2. PICK m \in Recorded(globals) : Answers(m, n)
    BY <2>1 DEF SInv, Listed
  <2>3. m \in Names /\ k \in Recorded(globals)
    BY <1>3 DEF Recorded
  <2>4. n \in globals'[m].linkedSymbols
    <3>1. CASE n \in globals[m].linkedSymbols
      BY <1>6, <2>3, <3>1
    <3>2. CASE n \notin globals[m].linkedSymbols
      <4>1. call.name = n /\ globals[m].address = call.address
        BY <2>2, <3>2 DEF Answers
      <4>2. m = k
        BY <1>3, <2>3, <4>1 DEF SInv, Distinct
      <4>3. QED
        BY <1>6, <4>1, <4>2
    <3>3. QED
      BY <3>1, <3>2
  <2>5. QED
    BY <1>1, <1>7, <1>8, <2>2, <2>3, <2>4 DEF Answers, At, Recorded
<1>12. QED
  BY <1>7, <1>9, <1>10, <1>11 DEF SInv, Listed

\* An unregistered symbol needs no record.
LEMMA UnregisterEraseStep ==
  ASSUME SInv, NEW name \in Names, UnregisterErase(name)
  PROVE  SInv'
<1> DEFINE next == IF HoldersOf(globals, name) = {} THEN None
                   ELSE [at |-> "unlink", name |-> name]
<1>1. /\ call = None /\ Tables /\ UNCHANGED <<live, globals>> /\ Goes(next)
      /\ symbols' = WithoutSymbols({name})
  BY DEF UnregisterErase, SInv
<1>2. next \in CallRecord \cup {None}
  BY DEF CallRecord
<1>3. /\ symbols' \in [Names -> SymbolRecord \cup {None}]
      /\ \A n \in Names : symbols'[n] = IF n = name THEN None ELSE symbols[n]
  BY <1>1, WithoutFacts
<1>4. Tables' /\ call' = next
  BY <1>1, <1>2, <1>3, GoesTyped DEF Tables
<1>5. InCall'
  BY <1>1, <1>3, <1>4 DEF InCall, At
<1>6. Distinct' /\ RecordsMatchBlocks'
  BY <1>1, <1>4 DEF SInv, Distinct, RecordsMatchBlocks, At, RecordsAt, Recorded
<1>7. ASSUME NEW n \in Names, AllocationSymbol(n)'
      PROVE  \E m \in Recorded(globals)' : Answers(m, n)'
  <2>1. AllocationSymbol(n) /\ symbols'[n] = symbols[n]
    BY <1>3, <1>7 DEF AllocationSymbol
  <2>2. PICK m \in Recorded(globals) : Answers(m, n)
    BY <2>1 DEF SInv, Listed
  <2>3. globals[m].address = symbols'[n].address /\ n \in globals[m].linkedSymbols
    BY <1>1, <2>1, <2>2 DEF Answers, At
  <2>4. QED
    BY <1>1, <1>4, <2>2, <2>3 DEF Answers, At, Recorded
<1>8. QED
  BY <1>4, <1>5, <1>6, <1>7 DEF SInv, Listed

\* The record that forgets a name is not asked for it any more.
LEMMA UnregisterUnlinkStep ==
  ASSUME SInv, UnregisterUnlink
  PROVE  SInv'
<1>1. /\ At("unlink") /\ Tables /\ UNCHANGED <<live, symbols>> /\ Goes(None)
      /\ call.name \in Names /\ symbols[call.name] = None
  BY CallFields DEF UnregisterUnlink, SInv, InCall, At
<1>2. PICK k \in Names :
        /\ FirstOf(k, HoldersOf(globals, call.name))
        /\ Upsert(k, [globals[k] EXCEPT !.linkedSymbols = @ \ {call.name}])
  BY DEF UnregisterUnlink
<1> DEFINE links == globals[k].linkedSymbols \ {call.name}
<1>3. globals[k] \in AllocationRecord /\ globals[k] # None
  BY <1>1, <1>2, RecordedFacts DEF FirstOf, HoldersOf
<1>4. links \in SUBSET Names
  BY <1>3 DEF AllocationRecord
<1>5. Upsert(k, [globals[k] EXCEPT !.linkedSymbols = links])
  BY <1>2
<1>6. /\ globals' \in [Names -> AllocationRecord \cup {None}]
      /\ globals'[k] # None /\ globals'[k].address = globals[k].address
      /\ globals'[k].linkedSymbols = links
      /\ \A n \in Names \ {k} : globals'[n] = globals[n]
  BY <1>1, <1>3, <1>4, <1>5, RelinkFacts
<1>7. Tables' /\ call' = None
  BY <1>1, <1>6, GoesTyped DEF Tables
<1>8. \A n \in Names : /\ globals'[n] = None <=> globals[n] = None
                      /\ globals'[n].address = globals[n].address
  BY <1>3, <1>6
<1>9. InCall'
  BY <1>7 DEF InCall, At
<1>10. Distinct' /\ RecordsMatchBlocks'
  BY <1>1, <1>7, <1>8, SameRecordsKept DEF At
<1>11. ASSUME NEW n \in Names, AllocationSymbol(n)'
       PROVE  \E m \in Recorded(globals)' : Answers(m, n)'
  <2>1. AllocationSymbol(n) /\ n # call.name
    BY <1>1, <1>11 DEF AllocationSymbol
  <2>2. PICK m \in Recorded(globals) : Answers(m, n)
    BY <2>1 DEF SInv, Listed
  <2>3. n \in globals[m].linkedSymbols
    BY <1>1, <2>2 DEF Answers, At
  <2>4. n \in globals'[m].linkedSymbols
    BY <1>6, <2>1, <2>3 DEF Recorded
  <2>5. QED
    BY <1>1, <1>7, <1>8, <2>2, <2>4 DEF Answers, At, Recorded
<1>12. QED
  BY <1>7, <1>9, <1>10, <1>11 DEF SInv, Listed

-----------------------------------------------------------------------------
(* globalAlloc.                                                            *)

\* A fresh block is in no record.
LEMMA AllocBlockStep ==
  ASSUME SInv, NEW name \in Names, AllocBlock(name)
  PROVE  SInv'
<1>1. PICK b \in Blocks \ live :
        /\ live' = live \cup {b}
        /\ Goes([at |-> "insert", name |-> name, address |-> b])
  BY DEF AllocBlock
<1> DEFINE next == [at |-> "insert", name |-> name, address |-> b]
<1>2. /\ call = None /\ Tables /\ UNCHANGED <<symbols, globals>>
      /\ globals[name] = None
  BY DEF AllocBlock, SInv
<1>3. next \in CallRecord
  BY DEF CallRecord, Addresses
<1>4. Tables' /\ call' = next /\ call' # None
  BY <1>1, <1>2, <1>3, GoesTyped DEF Tables
<1>5. /\ \A m \in Recorded(globals) : globals[m].address \in live
      /\ \A c \in live : RecordsAt(globals, c) # {}
  BY <1>2 DEF SInv, RecordsMatchBlocks, Recorded, At
<1>6. RecordsAt(globals, b) = {}
  BY <1>1, <1>5 DEF RecordsAt
<1>7. InCall'
  BY <1>1, <1>2, <1>4, <1>6 DEF InCall, At
<1>8. Distinct'
  BY <1>2 DEF SInv, Distinct
<1>9. RecordsMatchBlocks'
  BY <1>1, <1>2, <1>4, <1>5 DEF RecordsMatchBlocks, Recorded, At
<1>10. ASSUME NEW n \in Names, AllocationSymbol(n)'
       PROVE  \E m \in Recorded(globals)' : Answers(m, n)'
  <2>1. AllocationSymbol(n)
    BY <1>2, <1>10 DEF AllocationSymbol
  <2>2. PICK m \in Recorded(globals) : Answers(m, n)
    BY <2>1 DEF SInv, Listed
  <2>3. QED
    BY <1>2, <1>4, <2>2 DEF Answers, At, Recorded
<1>11. QED
  BY <1>4, <1>7, <1>8, <1>9, <1>10 DEF SInv, Listed

\* The new record is the only one of its block.
LEMMA AllocInsertStep ==
  ASSUME SInv, AllocInsert
  PROVE  SInv'
<1> DEFINE name == call.name
           record == [address |-> call.address, linkedSymbols |-> {}]
           next == [call EXCEPT !.at = "self"]
<1>1. /\ At("insert") /\ Tables /\ UNCHANGED <<live, symbols>>
      /\ Upsert(name, record) /\ Goes(next)
      /\ globals[name] = None /\ call.address \in live
      /\ RecordsAt(globals, call.address) = {}
  BY DEF AllocInsert, SInv, InCall
<1>2. name \in Names /\ call.address \in Blocks
  BY <1>1, CallFields DEF At, Tables
<1>3. next \in CallRecord /\ next.at = "self" /\ next.name = name
      /\ next.address = call.address
  BY <1>1 DEF At, Tables, CallRecord
<1>4. record \in AllocationRecord
  BY <1>2 DEF AllocationRecord
<1>5. /\ globals' \in [Names -> AllocationRecord \cup {None}]
      /\ globals'[name] = record /\ record # None
      /\ \A n \in Names \ {name} : globals'[n] = globals[n]
  BY <1>1, <1>2, <1>4, UpsertFacts
<1>6. Tables' /\ call' = next /\ call' # None
  BY <1>1, <1>3, <1>5, GoesTyped DEF Tables
<1>7. InCall'
  BY <1>3, <1>5, <1>6 DEF InCall, At
<1>8. \A m \in Recorded(globals) :
        /\ m # name /\ m \in Names /\ globals'[m] = globals[m]
        /\ globals[m].address # call.address
  BY <1>1, <1>5 DEF Recorded, RecordsAt
<1>9. Recorded(globals') = Recorded(globals) \cup {name}
  BY <1>2, <1>5 DEF Recorded
<1>10. Distinct'
  <2> SUFFICES ASSUME NEW m \in Recorded(globals'), NEW n \in Recorded(globals'),
                      globals'[m].address = globals'[n].address
               PROVE  m = n
    BY DEF Distinct
  <2>1. CASE m = name \/ n = name
    BY <1>5, <1>8, <1>9, <2>1
  <2>2. CASE m # name /\ n # name
    BY <1>8, <1>9, <2>2 DEF SInv, Distinct
  <2>3. QED
    BY <2>1, <2>2
<1>11. RecordsMatchBlocks'
  <2>1. \A n \in Names : globals'[n] # None => globals'[n].address \in live'
    BY <1>1, <1>5 DEF SInv, RecordsMatchBlocks, At
  <2>2. ASSUME NEW b \in live' PROVE RecordsAt(globals', b) # {}
    <3>1. CASE b = call.address
      BY <1>5, <1>9, <3>1 DEF RecordsAt
    <3>2. CASE b # call.address
      <4>1. PICK m \in Recorded(globals) : globals[m].address = b
        BY <1>1, <2>2, <3>2 DEF SInv, RecordsMatchBlocks, RecordsAt, At
      <4>2. QED
        BY <1>8, <1>9, <4>1 DEF RecordsAt
    <3>3. QED
      BY <3>1, <3>2
  <2>3. QED
    BY <2>1, <2>2 DEF RecordsMatchBlocks
<1>12. ASSUME NEW n \in Names, AllocationSymbol(n)'
       PROVE  \E m \in Recorded(globals)' : Answers(m, n)'
  <2>1. AllocationSymbol(n)
    BY <1>1, <1>12 DEF AllocationSymbol
  <2>2. PICK m \in Recorded(globals) : Answers(m, n)
    BY <2>1 DEF SInv, Listed
  <2>3. n \in globals[m].linkedSymbols /\ globals[m].address = symbols[n].address
    BY <1>1, <2>2 DEF Answers, At
  <2>4. QED
    BY <1>1, <1>3, <1>6, <1>8, <1>9, <2>2, <2>3 DEF Answers, At
<1>13. QED
  BY <1>6, <1>7, <1>10, <1>11, <1>12 DEF SInv, Listed

\* A record that lists its own name answers for it.
LEMMA SelfLinkStep ==
  ASSUME SInv, NEW name \in Names, SelfLink(name)
  PROVE  SInv'
<1> DEFINE links == globals[name].linkedSymbols \cup {name}
           next == [at |-> "publish", name |-> name, address |-> globals[name].address]
<1>1. /\ At("self") \/ call = None
      /\ Tables /\ UNCHANGED <<live, symbols>>
      /\ Upsert(name, [globals[name] EXCEPT !.linkedSymbols = links])
      /\ Goes(next) /\ globals[name] # None
  BY DEF SelfLink, SInv, InCall
<1>2. globals[name] \in AllocationRecord
  BY <1>1, RecordedFacts
<1>3. links \in SUBSET Names /\ globals[name].address \in Addresses
  BY <1>2 DEF AllocationRecord, Addresses
<1>5. /\ globals' \in [Names -> AllocationRecord \cup {None}]
      /\ globals'[name] # None /\ globals'[name].address = globals[name].address
      /\ globals'[name].linkedSymbols = links
      /\ \A n \in Names \ {name} : globals'[n] = globals[n]
  BY <1>1, <1>3, RelinkFacts
<1>6. next \in CallRecord
  BY <1>3 DEF CallRecord
<1>7. Tables' /\ call' = next /\ call' # None
  BY <1>1, <1>5, <1>6, GoesTyped DEF Tables
<1>8. \A n \in Names : /\ globals'[n] = None <=> globals[n] = None
                      /\ globals'[n].address = globals[n].address
  BY <1>1, <1>5
<1>9. InCall'
  BY <1>5, <1>7 DEF InCall, At
<1>10. Distinct' /\ RecordsMatchBlocks'
  BY <1>1, <1>8, SameRecordsKept DEF At
<1>11. ASSUME NEW n \in Names, AllocationSymbol(n)'
       PROVE  \E m \in Recorded(globals)' : Answers(m, n)'
  <2>1. AllocationSymbol(n)
    BY <1>1, <1>11 DEF AllocationSymbol
  <2>2. PICK m \in Recorded(globals) : Answers(m, n)
    BY <2>1 DEF SInv, Listed
  <2>3. n \in globals[m].linkedSymbols
    BY <1>1, <2>2 DEF Answers, At
  <2>4. n \in globals'[m].linkedSymbols
    BY <1>5, <2>3 DEF Recorded
  <2>5. QED
    BY <1>1, <1>7, <1>8, <2>2, <2>4 DEF Answers, At, Recorded
<1>12. QED
  BY <1>7, <1>9, <1>10, <1>11 DEF SInv, Listed

\* The published symbol is listed by its record.
LEMMA AllocPublishStep ==
  ASSUME SInv, AllocPublish
  PROVE  SInv'
<1>1. /\ At("publish") /\ Tables /\ UNCHANGED <<live, globals>> /\ Goes(None)
      /\ PutSymbol(call.name, call.address, "Allocation")
      /\ globals[call.name] # None /\ globals[call.name].address = call.address
      /\ call.name \in globals[call.name].linkedSymbols
  BY DEF AllocPublish, SInv, InCall
<1>2. call.name \in Names /\ call.address \in Addresses
  BY <1>1, CallFields DEF At
<1>3. /\ symbols' \in [Names -> SymbolRecord \cup {None}]
      /\ symbols'[call.name].address = call.address
      /\ \A n \in Names \ {call.name} : symbols'[n] = symbols[n]
  <2>1. "Allocation" \in SymbolKind
    BY DEF SymbolKind
  <2>2. /\ symbols' \in [Names -> SymbolRecord \cup {None}]
        /\ symbols'[call.name] = [address |-> call.address, kind |-> "Allocation"]
        /\ \A n \in Names \ {call.name} : symbols'[n] = symbols[n]
    BY <1>1, <1>2, <2>1, PutFacts
  <2>3. QED
    BY <2>2
<1>4. Tables' /\ call' = None
  BY <1>1, <1>3, GoesTyped DEF Tables
<1>5. InCall'
  BY <1>4 DEF InCall, At
<1>6. Distinct' /\ RecordsMatchBlocks'
  BY <1>1, SameRecordsKept DEF At
<1>7. ASSUME NEW n \in Names, AllocationSymbol(n)'
      PROVE  \E m \in Recorded(globals)' : Answers(m, n)'
  <2>1. CASE n = call.name
    BY <1>1, <1>2, <1>3, <1>4, <2>1 DEF Answers, At, Recorded
  <2>2. CASE n # call.name
    <3>1. AllocationSymbol(n) /\ symbols'[n] = symbols[n]
      BY <1>3, <1>7, <2>2 DEF AllocationSymbol
    <3>2. PICK m \in Recorded(globals) : Answers(m, n)
      BY <3>1 DEF SInv, Listed
    <3>3. QED
      BY <1>1, <1>4, <3>1, <3>2 DEF Answers, At, Recorded
  <2>3. QED
    BY <2>1, <2>2
<1>8. QED
  BY <1>4, <1>5, <1>6, <1>7 DEF SInv, Listed

-----------------------------------------------------------------------------
(* deallocate.                                                             *)

\* Every linked symbol is still to be withdrawn.
LEMMA DeallocBeginStep ==
  ASSUME SInv, NEW name \in Names, DeallocBegin(name)
  PROVE  SInv'
<1> DEFINE next == [at |-> "withdraw", name |-> name,
                    todo |-> globals[name].linkedSymbols]
<1>1. /\ call = None /\ Tables /\ UNCHANGED <<live, symbols, globals>>
      /\ globals[name] # None /\ Goes(next)
  BY DEF DeallocBegin, SInv, sessionVars
<1>2. next \in CallRecord
  BY <1>1, RecordedFacts DEF CallRecord, AllocationRecord
<1>3. Tables' /\ call' = next /\ call' # None
  BY <1>1, <1>2, GoesTyped DEF Tables
<1>4. InCall'
  BY <1>1, <1>3 DEF InCall, At
<1>5. Distinct' /\ RecordsMatchBlocks'
  BY <1>1, SameRecordsKept DEF At
<1>6. ASSUME NEW n \in Names, AllocationSymbol(n)'
      PROVE  \E m \in Recorded(globals)' : Answers(m, n)'
  <2>1. PICK m \in Recorded(globals) : Answers(m, n)
    BY <1>1, <1>6 DEF SInv, Listed, AllocationSymbol
  <2>2. QED
    BY <1>1, <1>3, <2>1 DEF Answers, At, Recorded
<1>7. QED
  BY <1>3, <1>4, <1>5, <1>6 DEF SInv, Listed

\* What is not withdrawn yet is still to be withdrawn.
LEMMA DeallocWithdrawStep ==
  ASSUME SInv, DeallocWithdraw
  PROVE  SInv'
<1>1. PICK symbol \in call.todo :
        /\ symbols' = WithoutSymbols({symbol})
        /\ Goes([call EXCEPT !.todo = @ \ {symbol}])
  BY DEF DeallocWithdraw
<1> DEFINE next == [call EXCEPT !.todo = @ \ {symbol}]
<1>2. /\ At("withdraw") /\ Tables /\ UNCHANGED <<live, globals>>
      /\ globals[call.name] # None /\ Goes(next)
      /\ call.todo \subseteq globals[call.name].linkedSymbols
  BY <1>1 DEF DeallocWithdraw, SInv, InCall
<1>3. symbol \in Names
  BY <1>2, CallFields
<1>4. next \in CallRecord /\ next.at = "withdraw" /\ next.name = call.name
      /\ next.todo = call.todo \ {symbol}
  BY <1>2 DEF At, Tables, CallRecord
<1> HIDE DEF next
<1>5. /\ symbols' \in [Names -> SymbolRecord \cup {None}]
      /\ \A n \in Names : symbols'[n] = IF n = symbol THEN None ELSE symbols[n]
  BY <1>1, <1>2, <1>3, WithoutFacts
<1>6. Tables' /\ call' = next /\ call' # None
  BY <1>1, <1>2, <1>4, <1>5, GoesTyped DEF Tables
<1>7. InCall'
  BY <1>2, <1>4, <1>6 DEF InCall, At
<1>8. Distinct' /\ RecordsMatchBlocks'
  BY <1>2, SameRecordsKept DEF At
<1>9. ASSUME NEW n \in Names, AllocationSymbol(n)'
      PROVE  \E m \in Recorded(globals)' : Answers(m, n)'
  <2>1. AllocationSymbol(n) /\ n # symbol /\ symbols'[n] = symbols[n]
    BY <1>5, <1>9 DEF AllocationSymbol
  <2>2. PICK m \in Recorded(globals) : Answers(m, n)
    BY <2>1 DEF SInv, Listed
  <2>3. QED
    BY <1>2, <1>4, <1>6, <2>1, <2>2 DEF Answers, At, Recorded
<1>10. QED
  BY <1>6, <1>7, <1>8, <1>9 DEF SInv, Listed

\* The block goes when no symbol of its record is left.
LEMMA DeallocFreeStep ==
  ASSUME SInv, DeallocFree
  PROVE  SInv'
<1> DEFINE name == call.name
           next == [at |-> "erase", name |-> name]
<1>1. /\ At("withdraw") /\ call.todo = {} /\ Tables /\ UNCHANGED <<symbols, globals>>
      /\ live' = live \ {globals[name].address} /\ Goes(next)
      /\ globals[name] # None
  BY DEF DeallocFree, SInv, InCall
<1>2. name \in Names
  BY <1>1, CallFields DEF At
<1>3. next \in CallRecord
  BY <1>2 DEF CallRecord
<1>4. Tables' /\ call' = next /\ call' # None
  BY <1>1, <1>3, GoesTyped DEF Tables
<1>5. InCall'
  BY <1>1, <1>4 DEF InCall, At
<1>6. Distinct'
  BY <1>1 DEF SInv, Distinct
<1>7. RecordsMatchBlocks'
  <2>1. ASSUME NEW n \in Names, globals[n] # None, n # name
        PROVE  globals[n].address \in live'
    <3>1. globals[n].address \in live
      BY <1>1, <2>1 DEF SInv, RecordsMatchBlocks, At
    <3>2. globals[n].address # globals[name].address
      BY <1>1, <1>2, <2>1 DEF SInv, Distinct, Recorded
    <3>3. QED
      BY <1>1, <3>1, <3>2
  <2>2. \A b \in live' : RecordsAt(globals, b) # {}
    BY <1>1 DEF SInv, RecordsMatchBlocks, At
  <2>3. QED
    BY <1>1, <1>4, <2>1, <2>2 DEF RecordsMatchBlocks, At
<1>8. ASSUME NEW n \in Names, AllocationSymbol(n)'
      PROVE  \E m \in Recorded(globals)' : Answers(m, n)'
  <2>1. PICK m \in Recorded(globals) : Answers(m, n)
    BY <1>1, <1>8 DEF SInv, Listed, AllocationSymbol
  <2>2. m # name
    BY <1>1, <2>1 DEF Answers
  <2>3. QED
    BY <1>1, <1>4, <2>1, <2>2 DEF Answers, At, Recorded
<1>9. QED
  BY <1>4, <1>5, <1>6, <1>7, <1>8 DEF SInv, Listed

\* A block that stays keeps its record.
LEMMA DeallocFreeFailsStep ==
  ASSUME SInv, DeallocFreeFails
  PROVE  SInv'
<1>1. /\ At("withdraw") /\ call.todo = {} /\ Tables
      /\ UNCHANGED <<live, symbols, globals>> /\ Goes(None)
  BY DEF DeallocFreeFails, SInv, sessionVars
<1>2. Tables' /\ call' = None
  BY <1>1, GoesTyped DEF Tables
<1>3. InCall'
  BY <1>2 DEF InCall, At
<1>4. Distinct' /\ RecordsMatchBlocks'
  BY <1>1, SameRecordsKept DEF At
<1>5. ASSUME NEW n \in Names, AllocationSymbol(n)'
      PROVE  \E m \in Recorded(globals)' : Answers(m, n)'
  <2>1. PICK m \in Recorded(globals) : Answers(m, n)
    BY <1>1, <1>5 DEF SInv, Listed, AllocationSymbol
  <2>2. QED
    BY <1>1, <1>2, <2>1 DEF Answers, At, Recorded
<1>6. QED
  BY <1>2, <1>3, <1>4, <1>5 DEF SInv, Listed

\* The erased record is the one whose block is gone.
LEMMA DeallocEraseStep ==
  ASSUME SInv, DeallocErase
  PROVE  SInv'
<1> DEFINE name == call.name
<1>1. /\ At("erase") /\ Tables /\ UNCHANGED <<live, symbols>> /\ Goes(None)
      /\ Upsert(name, None) /\ globals[name].address \notin live
  BY DEF DeallocErase, SInv, InCall
<1>2. name \in Names
  BY <1>1, CallFields DEF At
<1>3. /\ globals' \in [Names -> AllocationRecord \cup {None}]
      /\ globals'[name] = None
      /\ \A n \in Names \ {name} : globals'[n] = globals[n]
  BY <1>1, <1>2, UpsertFacts
<1>4. Tables' /\ call' = None
  BY <1>1, <1>3, GoesTyped DEF Tables
<1>5. InCall'
  BY <1>4 DEF InCall, At
<1>6. \A m \in Recorded(globals') :
        m \in Recorded(globals) /\ m # name /\ globals'[m] = globals[m]
  BY <1>3 DEF Recorded
<1>7. Distinct'
  BY <1>6 DEF SInv, Distinct
<1>8. RecordsMatchBlocks'
  <2>1. \A n \in Names : globals'[n] # None => globals'[n].address \in live'
    BY <1>1, <1>3 DEF SInv, RecordsMatchBlocks, At
  <2>2. ASSUME NEW b \in live' PROVE RecordsAt(globals', b) # {}
    <3>1. PICK m \in Recorded(globals) : globals[m].address = b
      BY <1>1, <2>2 DEF SInv, RecordsMatchBlocks, RecordsAt, At
    <3>2. m # name /\ m \in Names /\ globals[m] # None
      BY <1>1, <2>2, <3>1 DEF Recorded
    <3>3. QED
      BY <1>3, <3>1, <3>2 DEF RecordsAt, Recorded
  <2>3. QED
    BY <2>1, <2>2 DEF RecordsMatchBlocks
<1>9. ASSUME NEW n \in Names, AllocationSymbol(n)'
      PROVE  \E m \in Recorded(globals)' : Answers(m, n)'
  <2>1. PICK m \in Recorded(globals) : Answers(m, n)
    BY <1>1, <1>9 DEF SInv, Listed, AllocationSymbol
  <2>2. /\ m # name /\ m \in Names /\ globals[m] # None
        /\ n \in globals[m].linkedSymbols
    BY <1>1, <2>1 DEF Answers, At, Recorded
  <2>3. QED
    BY <1>1, <1>3, <1>4, <2>1, <2>2 DEF Answers, At, Recorded
<1>10. QED
  BY <1>4, <1>5, <1>7, <1>8, <1>9 DEF SInv, Listed

-----------------------------------------------------------------------------
(* The specification.                                                      *)

\* The invariant is inductive.
LEMMA SInvStep == SInv /\ [Next]_vars => SInv'
<1> SUFFICES ASSUME SInv, [Next]_vars PROVE SInv'
  OBVIOUS
<1>1. ASSUME NEW name \in Names,
             \/ \E address \in Addresses, kind \in {"UserDefined", "Allocation"} :
                  RegisterPut(name, address, kind)
             \/ UnregisterErase(name)
             \/ AllocBlock(name)
             \/ SelfLink(name)
             \/ DeallocBegin(name)
      PROVE  SInv'
  BY <1>1, RegisterPutStep, UnregisterEraseStep, AllocBlockStep, SelfLinkStep,
     DeallocBeginStep
<1>2. CASE RegisterLink \/ UnregisterUnlink
  BY <1>2, RegisterLinkStep, UnregisterUnlinkStep
<1>3. CASE AllocInsert \/ AllocPublish
  BY <1>3, AllocInsertStep, AllocPublishStep
<1>4. CASE DeallocWithdraw \/ DeallocFree \/ DeallocFreeFails \/ DeallocErase
  BY <1>4, DeallocWithdrawStep, DeallocFreeStep, DeallocFreeFailsStep,
     DeallocEraseStep
<1>5. CASE UNCHANGED vars
  BY <1>5 DEF vars, sessionVars, SInv, Tables, InCall, Distinct, RecordsMatchBlocks,
              Listed, Answers, AllocationSymbol, At
<1>6. QED
  BY <1>1, <1>2, <1>3, <1>4, <1>5 DEF Next

\* The invariant holds between any two writes of any calls.
THEOREM Invariant == Spec => []SInv
BY InitSInv, SInvStep, PTL DEF Spec

\* The tables are of their types, and what a call has read still holds at its
\* next write.
THEOREM TypeCorrect == Spec => []TypeOK
<1>1. SInv => TypeOK
  BY DEF SInv, Tables, InCall, TypeOK
<1>2. QED
  BY <1>1, Invariant, PTL

\* A thread that looks up a symbol of kind Allocation while another one is
\* inside registerSymbol, globalAlloc or deallocate gets the address of a
\* block that is allocated.
THEOREM LookupsSafe == Spec => []LookupsBacked
<1>1. SInv => LookupsBacked
  <2> SUFFICES ASSUME SInv, NEW n \in Names, AllocationSymbol(n)
               PROVE  symbols[n].address \in live
    BY DEF LookupsBacked, AllocationSymbol
  <2>1. PICK m \in Recorded(globals) : Answers(m, n)
    BY DEF SInv, Listed
  <2>2. QED
    BY <2>1 DEF SInv, RecordsMatchBlocks, Answers, Recorded
<1>2. QED
  BY <1>1, Invariant, PTL

\* Records and blocks match but for the record deallocate is about to erase
\* and the block globalAlloc is about to record.
THEOREM RecordsMatched == Spec => []RecordsMatchBlocks
<1>1. SInv => RecordsMatchBlocks
  BY DEF SInv
<1>2. QED
  BY <1>1, Invariant, PTL
=============================================================================
