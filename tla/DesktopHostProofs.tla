------------------------- MODULE DesktopHostProofs -------------------------
(* Proofs about the desktop shell, for logs of any length, any number of    *)
(* clicks, attempts and reloads. The invariant HInv has two halves: how far *)
(* the attempts to start the browser are (Startup), and what is between the *)
(* page's log and the host (Ui). A step of the second half is first reduced *)
(* to one of eight shapes, which say what happens to the log and the two    *)
(* channels index by index.                                                 *)
EXTENDS DesktopHost, SequenceTheorems, TLAPS

-----------------------------------------------------------------------------
(* The folder of assets.                                                    *)

Paths == {AssetPaths[i] : i \in DOMAIN AssetPaths}

Folder(folder) ==
  /\ DOMAIN folder \subseteq Paths
  /\ \A file \in DOMAIN folder : folder[file] \in {"partial", "whole"}

AllWhole(folder) ==
  \A file \in Paths : file \in DOMAIN folder /\ folder[file] = "whole"

LEMMA TwoAssets ==
  /\ DOMAIN AssetPaths = 1..2
  /\ Len(AssetPaths) = 2
  /\ Paths = {AssetPaths[1], AssetPaths[2]}
<1>1. DOMAIN AssetPaths = 1..2 /\ Len(AssetPaths) = 2
  BY DEF AssetPaths
<1>2. QED
  BY <1>1 DEF Paths

LEMMA WrittenFolder ==
  ASSUME NEW folder, Folder(folder), NEW n \in 0..2, NEW opened \in 0..2
  PROVE  Folder(Written(folder, n, opened))
<1> DEFINE files == DOMAIN folder \union {AssetPaths[i] : i \in 1..opened}
           written == Written(folder, n, opened)
<1>1. DOMAIN written = files
  BY DEF Written
<1>2. files \subseteq Paths
  BY TwoAssets DEF Paths, Folder
<1>3. ASSUME NEW file \in files
      PROVE  written[file] \in {"partial", "whole"}
  <2>1. written[file] = IF \E i \in 1..n : AssetPaths[i] = file THEN "whole"
                        ELSE IF \E i \in 1..opened : AssetPaths[i] = file THEN "partial"
                        ELSE folder[file]
    BY <1>3 DEF Written
  <2>2. file \in DOMAIN folder \/ \E i \in 1..opened : AssetPaths[i] = file
    BY <1>3
  <2>3. QED
    BY <2>1, <2>2 DEF Folder
<1>4. QED
  BY <1>1, <1>2, <1>3 DEF Folder

\* An extraction that ends well leaves every asset whole, whatever was there.
LEMMA ExtractedFolder ==
  ASSUME NEW folder, Folder(folder)
  PROVE  Folder(Extracted(folder)) /\ AllWhole(Extracted(folder))
<1>1. Folder(Extracted(folder))
  BY WrittenFolder, TwoAssets DEF Extracted
<1>2. ASSUME NEW file \in Paths
      PROVE  file \in DOMAIN Extracted(folder) /\ Extracted(folder)[file] = "whole"
  <2>1. PICK i \in 1..2 : AssetPaths[i] = file
    BY <1>2, TwoAssets DEF Paths
  <2>2. QED
    BY <2>1, TwoAssets DEF Extracted, Written
<1>3. QED
  BY <1>1, <1>2 DEF AllWhole

LEMMA InterruptedFolder ==
  ASSUME NEW folder, Folder(folder), NEW left \in Interrupted(folder)
  PROVE  Folder(left)
<1>1. \E n, opened \in 0..2 : left = Written(folder, n, opened)
  BY TwoAssets DEF Interrupted
<1>2. QED
  BY <1>1, WrittenFolder

LEMMA EmptyFolder == Folder(<<>>)
BY DEF Folder

-----------------------------------------------------------------------------
(* The attempts to start the browser.                                       *)

InOrder ==
  \A a \in Attempts :
    phase[a] # "idle" => \A b \in 1..(a - 1) : phase[b] # "idle"

\* The control takes one environment at a time, and the flag stays with it.
OneControl ==
  /\ \A a \in Attempts : phase[a] = "ensuring" => control = "initializing"
  /\ \A a, b \in Attempts : phase[a] = "ensuring" /\ phase[b] = "ensuring" => a = b
  /\ browserInitialized =>
       control = "ready" /\ \E a \in Attempts : phase[a] = "done"

\* An attempt under way that no later one overtook has the assets it wrote.
LatestWhole ==
  \A a \in Attempts :
    /\ phase[a] \in {"creating", "ensuring"}
    /\ \A b \in Attempts : b > a => phase[b] = "idle"
    => AllWhole(disk)

Startup == StartupTypeOK /\ InOrder /\ OneControl /\ LatestWhole

USE UiAssumption, StartupAssumption, ReloadsAssumption

LEMMA StartupTyped ==
  StartupTypeOK <=>
    /\ process \in {"new", "running", "ended"}
    /\ Folder(disk)
    /\ phase \in [Attempts -> Phases]
    /\ control \in {"fresh", "initializing", "ready"}
    /\ panel \in {"none", "browser", "fallback"}
    /\ browserInitialized \in BOOLEAN
BY DEF StartupTypeOK, Folder, Paths

LEMMA InitStartup == StartupInit => Startup
<1> SUFFICES ASSUME StartupInit
             PROVE  Startup
  OBVIOUS
<1>1. Folder(disk)
  BY EmptyFolder, ExtractedFolder, InterruptedFolder DEF StartupInit
<1>2. StartupTypeOK
  BY <1>1, StartupTyped DEF StartupInit, Phases
<1>3. InOrder /\ OneControl /\ LatestWhole
  BY DEF StartupInit, InOrder, OneControl, LatestWhole
<1>4. QED
  BY <1>2, <1>3 DEF Startup

\* An attempt begins: it is the first idle one, so no later one has begun.
LEMMA BeginsLast ==
  ASSUME Startup, NEW a \in Attempts, MayBegin(a)
  PROVE  /\ phase[a] = "idle"
         /\ \A b \in Attempts : b > a => phase[b] = "idle"
         /\ \A b \in Attempts : b < a => phase[b] # "idle"
<1>1. ASSUME NEW b \in Attempts, b > a, phase[b] # "idle"
      PROVE  FALSE
  <2>1. a \in 1..(b - 1)
    BY <1>1 DEF Attempts
  <2>2. QED
    BY <1>1, <2>1 DEF Startup, InOrder, MayBegin
<1>2. \A b \in Attempts : b < a => b \in 1..(a - 1)
  BY DEF Attempts
<1>3. QED
  BY <1>1, <1>2 DEF MayBegin

LEMMA OrderKept ==
  ASSUME Startup, NEW a \in Attempts, NEW next \in Phases \ {"idle"}, Phase(a, next),
         phase[a] # "idle" \/ MayBegin(a)
  PROVE  /\ phase' \in [Attempts -> Phases]
         /\ InOrder'
         /\ \A b \in Attempts : phase'[b] = IF b = a THEN next ELSE phase[b]
<1>1. phase \in [Attempts -> Phases]
  BY StartupTyped DEF Startup
<1>2. phase' \in [Attempts -> Phases]
  BY <1>1 DEF Phase
<1>3. \A b \in Attempts : phase'[b] = IF b = a THEN next ELSE phase[b]
  BY <1>1 DEF Phase
<1>4. ASSUME NEW b \in Attempts, phase'[b] # "idle", NEW c \in 1..(b - 1)
      PROVE  phase'[c] # "idle"
  <2>1. c \in Attempts
    BY <1>4 DEF Attempts
  <2>2. phase[c] # "idle"
    BY <1>3, <1>4 DEF Startup, InOrder, MayBegin
  <2>3. QED
    BY <1>3, <2>1, <2>2 DEF Phases
<1>5. QED
  BY <1>2, <1>3, <1>4 DEF InOrder

LEMMA StartupStep ==
  ASSUME Startup,
         \/ UNCHANGED startupVars
         \/ LaunchProcess \/ EndProcess
         \/ \E a \in Attempts : AttemptStep(a) \/ ControllerReady(a)
  PROVE  Startup'
<1>0. /\ process' \in {"new", "running", "ended"}
      /\ Folder(disk')
      /\ phase' \in [Attempts -> Phases]
      /\ control' \in {"fresh", "initializing", "ready"}
      /\ panel' \in {"none", "browser", "fallback"}
      /\ browserInitialized' \in BOOLEAN
      => StartupTypeOK'
  BY DEF StartupTypeOK, Folder, Paths
<1>1. CASE UNCHANGED startupVars
  BY <1>1 DEF startupVars, Startup, StartupTypeOK, InOrder, OneControl, LatestWhole
<1>2. CASE LaunchProcess \/ EndProcess
  BY <1>2 DEF LaunchProcess, EndProcess, Startup, StartupTypeOK, InOrder, OneControl,
     LatestWhole
<1>3. ASSUME NEW a \in Attempts, AttemptStep(a) \/ ControllerReady(a)
      PROVE  Startup'
  <2> USE DEF Startup, Phases
  <2>1. CASE ExtractAssets(a)
    <3>1. MayBegin(a)
      BY <2>1 DEF ExtractAssets
    <3>2. CASE browserInitialized
      <4>1. /\ Phase(a, "done")
            /\ UNCHANGED <<process, disk, control, panel, browserInitialized>>
        BY <2>1, <3>2 DEF ExtractAssets
      <4>2. StartupTypeOK'
        BY <3>1, <4>1, OrderKept, StartupTyped, <1>0
      <4>3. QED
        BY <3>1, <4>1, <4>2, OrderKept, BeginsLast DEF OneControl, LatestWhole
    <3>3. CASE ~browserInitialized
      <4>1. /\ Phase(a, "creating")
            /\ disk' = Extracted(disk)
            /\ UNCHANGED <<process, control, panel, browserInitialized>>
        BY <2>1, <3>3 DEF ExtractAssets
      <4>2. Folder(disk') /\ AllWhole(disk')
        BY <4>1, StartupTyped, ExtractedFolder
      <4>3. StartupTypeOK'
        BY <3>1, <4>1, <4>2, OrderKept, StartupTyped, <1>0
      <4>4. OneControl' /\ LatestWhole'
        BY <3>1, <3>3, <4>1, <4>2, OrderKept, BeginsLast DEF OneControl, LatestWhole
      <4>5. QED
        BY <3>1, <4>1, <4>3, <4>4, OrderKept
    <3>4. QED
      BY <3>2, <3>3, StartupTyped
  <2>2. CASE ExtractAssetsFails(a)
    <3>1. /\ MayBegin(a)
          /\ ~browserInitialized
          /\ disk' \in Interrupted(disk)
          /\ Phase(a, "done")
          /\ panel' = "fallback"
          /\ UNCHANGED <<process, control, browserInitialized>>
      BY <2>2 DEF ExtractAssetsFails, ShowFallback
    <3>2. Folder(disk')
      BY <3>1, StartupTyped, InterruptedFolder
    <3>3. StartupTypeOK'
      BY <3>1, <3>2, OrderKept, StartupTyped, <1>0
    <3>4. OneControl'
      BY <3>1, OrderKept DEF OneControl
    <3>5. ASSUME NEW b \in Attempts, phase'[b] \in {"creating", "ensuring"}
          PROVE  ~\A c \in Attempts : c > b => phase'[c] = "idle"
      <4>1. b # a /\ phase[b] # "idle" /\ phase'[a] = "done"
        BY <3>1, <3>5, OrderKept
      <4>2. a > b
        BY <3>1, <4>1, BeginsLast DEF Attempts
      <4>3. QED
        BY <4>1, <4>2
    <3>6. LatestWhole'
      BY <3>5 DEF LatestWhole
    <3>7. QED
      BY <3>1, <3>3, <3>4, <3>6, OrderKept
  <2>3. CASE CreateFails(a) \/ EnsureBrowserRefused(a)
    <3>1. /\ phase[a] = "creating"
          /\ Phase(a, "done")
          /\ panel' = "fallback"
          /\ UNCHANGED <<process, disk, control, browserInitialized>>
      BY <2>3 DEF CreateFails, EnsureBrowserRefused, ShowFallback
    <3>2. StartupTypeOK'
      BY <3>1, OrderKept, StartupTyped, <1>0
    <3>3. OneControl' /\ LatestWhole'
      BY <3>1, OrderKept DEF OneControl, LatestWhole
    <3>4. QED
      BY <3>1, <3>2, <3>3, OrderKept
  <2>4. CASE EnsureBrowser(a)
    <3>1. /\ phase[a] = "creating"
          /\ control = "fresh"
          /\ control' = "initializing"
          /\ Phase(a, "ensuring")
          /\ UNCHANGED <<process, disk, panel, browserInitialized>>
      BY <2>4 DEF EnsureBrowser
    <3>2. StartupTypeOK'
      BY <3>1, OrderKept, StartupTyped, <1>0
    <3>3. OneControl' /\ LatestWhole'
      BY <3>1, OrderKept DEF OneControl, LatestWhole
    <3>4. QED
      BY <3>1, <3>2, <3>3, OrderKept
  <2>5. CASE ControllerFails(a)
    <3>1. /\ phase[a] = "ensuring"
          /\ control' = "fresh"
          /\ Phase(a, "done")
          /\ panel' = "fallback"
          /\ UNCHANGED <<process, disk, browserInitialized>>
      BY <2>5 DEF ControllerFails, ShowFallback
    <3>2. StartupTypeOK'
      BY <3>1, OrderKept, StartupTyped, <1>0
    <3>3. OneControl' /\ LatestWhole'
      BY <3>1, OrderKept DEF OneControl, LatestWhole
    <3>4. QED
      BY <3>1, <3>2, <3>3, OrderKept
  <2>6. CASE ControllerReady(a)
    <3>1. /\ phase[a] = "ensuring"
          /\ control' = "ready"
          /\ Phase(a, "done")
          /\ panel' = "browser"
          /\ browserInitialized' = TRUE
          /\ UNCHANGED <<process, disk>>
      BY <2>6 DEF ControllerReady
    <3>2. StartupTypeOK'
      BY <3>1, OrderKept, StartupTyped, <1>0
    <3>3. OneControl' /\ LatestWhole'
      BY <3>1, OrderKept DEF OneControl, LatestWhole
    <3>4. QED
      BY <3>1, <3>2, <3>3, OrderKept
  <2>7. CASE ShellSetupFails(a)
    <3>1. /\ phase[a] = "ensuring"
          /\ control' = "ready"
          /\ Phase(a, "done")
          /\ panel' = "fallback"
          /\ UNCHANGED <<process, disk, browserInitialized>>
      BY <2>7 DEF ShellSetupFails, ShowFallback
    <3>2. StartupTypeOK'
      BY <3>1, OrderKept, StartupTyped, <1>0
    <3>3. OneControl' /\ LatestWhole'
      BY <3>1, OrderKept DEF OneControl, LatestWhole
    <3>4. QED
      BY <3>1, <3>2, <3>3, OrderKept
  <2>8. QED
    BY <1>3, <2>1, <2>2, <2>3, <2>4, <2>5, <2>6, <2>7 DEF AttemptStep
<1>4. QED
  BY <1>1, <1>2, <1>3

-----------------------------------------------------------------------------
(* Sequences, index by index.                                               *)

\* longer is shorter with m at its end.
Grows(longer, shorter, m) ==
  /\ Len(longer) = Len(shorter) + 1
  /\ \A i \in 1..Len(shorter) : longer[i] = shorter[i]
  /\ longer[Len(shorter) + 1] = m

\* rest is whole without its head.
Shrinks(rest, whole) ==
  /\ Len(whole) = Len(rest) + 1
  /\ \A i \in 1..Len(rest) : rest[i] = whole[i + 1]

\* log is m before the newest of current.
Stacks(log, current, m) ==
  /\ Len(log) \in 1..(Len(current) + 1)
  /\ log[1] = m
  /\ \A i \in 2..Len(log) : log[i] = current[i - 1]

LEMMA AppendGrows ==
  ASSUME NEW S, NEW s \in Seq(S), NEW m \in S
  PROVE  Append(s, m) \in Seq(S) /\ Grows(Append(s, m), s, m)
BY AppendProperties DEF Grows

LEMMA TailShrinks ==
  ASSUME NEW S, NEW s \in Seq(S), s # <<>>
  PROVE  Tail(s) \in Seq(S) /\ Shrinks(Tail(s), s) /\ Head(s) = s[1] /\ Head(s) \in S
BY HeadTailProperties, ElementOfSeq, EmptySeq, LenProperties DEF Shrinks

LEMMA LogStacks ==
  ASSUME NEW S, NEW s \in Seq(S), NEW m \in S
  PROVE  /\ Logged(1, s, m) \in Seq(S)
         /\ Len(Logged(1, s, m)) <= Kept
         /\ Stacks(Logged(1, s, m), s, m)
<1> DEFINE one == [i \in 1..1 |-> m]
           log == one \o s
           cut == IF Len(log) < Kept THEN Len(log) ELSE Kept
<1>1. one \in Seq(S) /\ Len(one) = 1 /\ one[1] = m
  OBVIOUS
<1>2. log \in Seq(S) /\ Len(log) = 1 + Len(s)
  BY <1>1, ConcatProperties
<1>3. \A i \in 1..Len(log) : log[i] = IF i = 1 THEN m ELSE s[i - 1]
  BY <1>1, ConcatProperties
<1>4. Len(s) \in Nat
  BY LenProperties
<1>5. cut \in 1..Len(log) /\ cut <= Kept
  BY <1>2, <1>4
<1>6. Logged(1, s, m) = SubSeq(log, 1, cut)
  BY ONLY Zenon DEF Logged
<1> HIDE DEF log, cut
<1>7. /\ SubSeq(log, 1, cut) \in Seq(S)
      /\ Len(SubSeq(log, 1, cut)) = cut
      /\ \A i \in 1..cut : SubSeq(log, 1, cut)[i] = log[i]
  BY <1>2, <1>5
<1> DEFINE logged == Logged(1, s, m)
<1> HIDE DEF logged
<1>8. logged \in Seq(S) /\ Len(logged) = cut /\ \A i \in 1..cut : logged[i] = log[i]
  BY <1>6, <1>7 DEF logged
<1>9. \A i \in 1..cut : i \in 1..Len(log) /\ logged[i] = IF i = 1 THEN m ELSE s[i - 1]
  BY <1>2, <1>3, <1>4, <1>5, <1>8
<1>10. cut \in 1..(Len(s) + 1)
  BY <1>2, <1>4, <1>5
<1>11. Stacks(logged, s, m)
  BY <1>5, <1>8, <1>9, <1>10 DEF Stacks
<1>12. QED
  BY <1>5, <1>8, <1>11 DEF logged

LEMMA PrependStacks ==
  ASSUME NEW S, NEW s \in Seq(S), NEW m \in S
  PROVE  <<m>> \o s \in Seq(S) /\ Stacks(<<m>> \o s, s, m)
<1>1. <<m>> \in Seq(S) /\ Len(<<m>>) = 1 /\ <<m>>[1] = m
  OBVIOUS
<1>2. <<m>> \o s \in Seq(S) /\ Len(<<m>> \o s) = 1 + Len(s)
  BY <1>1, ConcatProperties
<1>3. \A i \in 1..Len(<<m>> \o s) : (<<m>> \o s)[i] = IF i = 1 THEN m ELSE s[i - 1]
  BY <1>1, ConcatProperties
<1>4. Len(s) \in Nat
  BY LenProperties
<1>5. QED
  BY <1>2, <1>3, <1>4 DEF Stacks

-----------------------------------------------------------------------------
(* The page, the channels and the counter.                                  *)

Requests == [action : Buttons, request : 1..MaxRequests]

\* The counter goes up only for a request that is taken off, and a control
\* shows the page once.
UiTypes ==
  /\ UiTypeOK
  /\ bridge \in BOOLEAN
  /\ script \in BOOLEAN
  /\ reloads \in 0..MaxReloads
  /\ navigating \in Nat
  /\ navigating <= reloads + (IF control = "ready" THEN 1 ELSE 0)
  /\ counter \in Nat
  /\ counter + Len(toHost) <= asked

\* In a plain browser nothing is on its way, and nobody hears a document
\* without handlers.
Reach ==
  /\ ~webview => process = "new" /\ toHost = <<>> /\ toPage = <<>> /\ navigating = 0
  /\ webview /\ page # "mounted" => events = <<>>

SameCounter == counter' = counter /\ script' = script

\* What a step does to the log and the channels.
Rests ==
  UNCHANGED <<events, toPage, toHost, asked>> /\ SameCounter

Forgets ==
  /\ events' = <<>>
  /\ toPage' \in {<<>>, toPage}
  /\ toHost' \in {<<>>, toHost}
  /\ asked' = asked
  /\ SameCounter \/ toPage' = <<>>

Announces(m) ==
  /\ m.request = 0 /\ ~AboutCounter(m)
  /\ Grows(toPage', toPage, m)
  /\ UNCHANGED <<events, toHost, asked>> /\ SameCounter

Answers(m) ==
  /\ m.request = toHost[1].request
  /\ \/ AboutCounter(m) /\ Agrees(m)'
     \/ ~AboutCounter(m) /\ SameCounter
  /\ Grows(toPage', toPage, m)
  /\ Shrinks(toHost', toHost)
  /\ UNCHANGED <<events, asked>>

Hears ==
  /\ Shrinks(toPage', toPage)
  /\ Stacks(events', events, toPage[1])
  /\ UNCHANGED <<toHost, asked>> /\ SameCounter

Misses ==
  /\ Shrinks(toPage', toPage)
  /\ events = <<>> /\ events' = <<>>
  /\ UNCHANGED <<toHost, asked>> /\ SameCounter

Requested(r) ==
  /\ r.request = asked + 1 /\ asked' = asked + 1
  /\ Grows(toHost', toHost, r)
  /\ UNCHANGED <<events, toPage>> /\ SameCounter

Complains(m) ==
  /\ m.request = asked + 1 /\ asked' = asked + 1
  /\ m.type = "error"
  /\ toPage = <<>> /\ toHost = <<>>
  /\ Stacks(events', events, m)
  /\ UNCHANGED <<toPage, toHost>> /\ SameCounter

Shape ==
  \/ Rests \/ Forgets \/ Hears \/ Misses
  \/ \E m \in Messages : Announces(m) \/ Answers(m) \/ Complains(m)
  \/ \E r \in Requests : Requested(r)

ValueLists == {<<>>} \union {<<n>> : n \in 0..MaxRequests}

LEMMA MessageTyped ==
  ASSUME NEW type \in ReplyTypes, NEW values \in ValueLists,
         NEW request \in 0..MaxRequests
  PROVE  /\ Message(type, values, request) \in Messages
         /\ Message(type, values, request).type = type
         /\ Message(type, values, request).values = values
         /\ Message(type, values, request).request = request
BY DEF Message, Messages, ValueLists

LEMMA FieldsTyped ==
  /\ \A m \in Messages : m.request \in 0..MaxRequests
  /\ \A r \in Requests : r.request \in 1..MaxRequests
BY DEF Messages, Requests

\* OnWebMessageReceived answers the oldest request, and what it says of the
\* counter is true when it returns.
LEMMA HostReplies ==
  ASSUME UiTypes, OnWebMessageReceived
  PROVE  /\ Running /\ toHost # <<>>
         /\ script' \in BOOLEAN /\ counter' \in Nat /\ counter' <= counter + 1
         /\ \E type \in ReplyTypes, values \in {<<>>, <<0>>, <<counter'>>} :
              /\ Reply(type, values)
              /\ \/ type = "error"
                 \/ type = "native-script-counter" /\ values = <<counter'>>
                 \/ type = "native-script-reset" /\ ~script' /\ counter' = 0
                 \/ type \in {"pong", "host-info", "native-global"} /\ SameCounter
<1> USE DEF ReplyTypes, SameCounter, UiTypes
<1>0. OnWebMessageReceived => \E action \in Buttons : Asks(action)
  BY DEF OnWebMessageReceived, Ping, GetHostInfo, RunNativeGlobal,
     RunNativeScriptCounter, RunNativeScriptCounterFails, ResetNativeScriptCounter,
     ResetNativeScriptCounterFails, Buttons
<1>1. Running /\ toHost # <<>>
  BY <1>0 DEF Asks
<1>2. CASE Ping \/ GetHostInfo \/ RunNativeGlobal
  <2>1. SameCounter
    BY <1>2 DEF Ping, GetHostInfo, RunNativeGlobal
  <2>2. \/ Reply("pong", <<>>) \/ Reply("host-info", <<>>) \/ Reply("native-global", <<0>>)
        \/ Reply("error", <<>>)
    BY <1>2 DEF Ping, GetHostInfo, RunNativeGlobal, ReplyError
  <2>3. QED
    BY <1>1, <2>1, <2>2
<1>3. CASE RunNativeScriptCounter
  <2>1. script' = TRUE /\ counter' = counter + 1
    BY <1>3 DEF RunNativeScriptCounter, CountUp
  <2>2. Reply("native-script-counter", <<counter'>>)
    BY <1>3 DEF RunNativeScriptCounter
  <2>3. script' \in BOOLEAN
    BY <2>1
  <2>4. counter' \in Nat /\ counter' <= counter + 1
    BY <2>1
  <2>5. QED
    BY <1>1, <2>2, <2>3, <2>4
<1>4. CASE RunNativeScriptCounterFails
  <2>1. script' = TRUE \/ script' = script
    BY <1>4 DEF RunNativeScriptCounterFails, CountUp
  <2>2. counter' = counter \/ counter' = counter + 1
    BY <1>4 DEF RunNativeScriptCounterFails, CountUp
  <2>3. Reply("error", <<>>)
    BY <1>4 DEF RunNativeScriptCounterFails, ReplyError
  <2>4. script' \in BOOLEAN
    BY <2>1
  <2>5. counter' \in Nat /\ counter' <= counter + 1
    BY <2>2
  <2>6. QED
    BY <1>1, <2>3, <2>4, <2>5
<1>5. CASE ResetNativeScriptCounter
  <2>1. script' = FALSE /\ counter' = 0
    BY <1>5 DEF ResetNativeScriptCounter
  <2>2. Reply("native-script-reset", <<>>)
    BY <1>5 DEF ResetNativeScriptCounter
  <2>3. script' \in BOOLEAN /\ ~script'
    BY <2>1
  <2>4. counter' \in Nat /\ counter' <= counter + 1 /\ counter' = 0
    BY <2>1
  <2>5. QED
    BY <1>1, <2>2, <2>3, <2>4
<1>6. CASE ResetNativeScriptCounterFails
  BY <1>1, <1>6 DEF ResetNativeScriptCounterFails, ReplyError
<1>7. QED
  BY <1>2, <1>3, <1>4, <1>5, <1>6 DEF OnWebMessageReceived

\* The startup's steps leave the page alone and never take the control back.
LEMMA AttemptKeepsControl ==
  ASSUME Startup, NEW a \in Attempts, AttemptStep(a)
  PROVE  Running /\ process' = process /\ (control = "ready" => control' = "ready")
<1> USE DEF Startup, OneControl
<1>1. Running /\ process' = process
  BY DEF AttemptStep, ExtractAssets, ExtractAssetsFails, CreateFails, EnsureBrowser,
     EnsureBrowserRefused, ControllerFails, ShellSetupFails, MayBegin
<1>2. control' = control \/ control = "fresh" \/ phase[a] = "ensuring"
  BY DEF AttemptStep, ExtractAssets, ExtractAssetsFails, CreateFails, EnsureBrowser,
     EnsureBrowserRefused, ControllerFails, ShellSetupFails
<1>3. QED
  BY <1>1, <1>2

LEMMA NewDocumentForgets ==
  ASSUME UiTypes, NEW state \in PageStates \ {"mounted"}, NewDocument(state),
         webview' = webview, asked' = asked, answered' = answered,
         toHost' \in {<<>>, toHost}
  PROVE  UiTypeOK' /\ events' = <<>> /\ toPage' = <<>> /\ page' # "mounted"
<1> USE DEF NewDocument
<1>1. UiTypeOK
  BY DEF UiTypes
<1>2. page' \in PageStates /\ page' # "mounted" /\ listeners' = 0
  OBVIOUS
<1>3. webview' \in BOOLEAN /\ bridgeReady' \in BOOLEAN /\ hostReady' \in BOOLEAN
  BY <1>1 DEF UiTypeOK
<1>4. <<>> \in Seq(Messages) /\ Len(<<>>) = 0 /\ events' = <<>> /\ toPage' = <<>>
  OBVIOUS
<1>5. toHost' \in Seq([action : Buttons, request : 1..MaxRequests])
  <2>1. toHost \in Seq([action : Buttons, request : 1..MaxRequests])
    BY <1>1 DEF UiTypeOK
  <2>2. <<>> \in Seq([action : Buttons, request : 1..MaxRequests])
    BY EmptySeq
  <2>3. QED
    BY <2>1, <2>2
<1>6. asked' \in 0..MaxRequests /\ answered' \subseteq 0..MaxRequests
  BY <1>1 DEF UiTypeOK
<1>7. UiTypeOK'
  BY <1>2, <1>3, <1>4, <1>5, <1>6 DEF UiTypeOK
<1>8. QED
  BY <1>2, <1>4, <1>7

LEMMA UiStepHost ==
  ASSUME Startup, UiTypes, Reach,
         \/ Launch \/ Exit \/ Reload
         \/ \E a \in Attempts : Attempt(a) \/ ShowBrowser(a)
  PROVE  UiTypes' /\ Reach' /\ Shape
<1> USE DEF SameCounter
<1>1. CASE Launch
  <2>1. /\ UNCHANGED <<uiVars, navigating, reloads, script, counter, control>>
        /\ webview /\ bridge' \in BOOLEAN
    BY <1>1 DEF Launch, LaunchProcess
  <2>2. UiTypeOK'
    BY <2>1 DEF uiVars, UiTypes, UiTypeOK
  <2>3. UiTypes'
    BY <2>1, <2>2 DEF uiVars, UiTypes
  <2>4. Reach' /\ Rests
    BY <2>1 DEF uiVars, Reach, Rests
  <2>5. QED
    BY <2>3, <2>4 DEF Shape
<1>2. CASE Exit
  <2>1. /\ Running /\ NewDocument("none") /\ toHost' = <<>> /\ bridge' = FALSE
        /\ navigating' = 0 /\ script' = FALSE /\ counter' = 0
        /\ UNCHANGED <<webview, asked, answered, reloads, control>>
    BY <1>2 DEF Exit, EndProcess
  <2>2. /\ UiTypeOK' /\ events' = <<>> /\ toPage' = <<>> /\ page' # "mounted"
    BY <2>1, NewDocumentForgets DEF PageStates
  <2>3. webview' = TRUE
    BY <2>1 DEF Reach, Running, UiTypes, UiTypeOK
  <2>4. /\ Len(toHost') = 0
        /\ asked' \in Nat
        /\ script' \in BOOLEAN /\ bridge' \in BOOLEAN
    <3>1. asked' \in Nat
      BY <2>1 DEF UiTypes, UiTypeOK
    <3>2. script' \in BOOLEAN /\ bridge' \in BOOLEAN
      BY <2>1
    <3>3. QED
      BY <2>1, <3>1, <3>2, EmptySeq
  <2>5. UiTypes'
    BY <2>1, <2>2, <2>4 DEF UiTypes
  <2>6. Reach' /\ Forgets
    BY <2>1, <2>2, <2>3 DEF Reach, Forgets
  <2>7. QED
    BY <2>5, <2>6 DEF Shape
<1>3. CASE Reload
  <2>1. /\ Running /\ NewDocument("loading")
        /\ reloads < MaxReloads /\ reloads' = reloads + 1 /\ navigating' = navigating + 1
        /\ UNCHANGED <<webview, toHost, asked, answered, control, process, bridge, script, counter>>
    BY <1>3 DEF Reload, startupVars
  <2>2. /\ UiTypeOK' /\ events' = <<>> /\ toPage' = <<>> /\ page' # "mounted"
    BY <2>1, NewDocumentForgets DEF PageStates
  <2>3. webview' = TRUE
    BY <2>1 DEF Reach, Running, UiTypes, UiTypeOK
  <2>4. UiTypes'
    BY <2>1, <2>2 DEF UiTypes
  <2>5. Reach' /\ Forgets
    BY <2>1, <2>2, <2>3 DEF Reach, Forgets
  <2>6. QED
    BY <2>4, <2>5 DEF Shape
<1>4. ASSUME NEW a \in Attempts, Attempt(a)
      PROVE  UiTypes' /\ Reach' /\ Shape
  <2>1. UNCHANGED <<uiVars, hostVars>> /\ Running /\ (control = "ready" => control' = "ready")
    BY <1>4, AttemptKeepsControl DEF Attempt
  <2>2. UiTypeOK'
    BY <2>1 DEF uiVars, UiTypes, UiTypeOK
  <2>3. UiTypes'
    BY <2>1, <2>2 DEF uiVars, hostVars, UiTypes
  <2>4. Reach' /\ Rests
    BY <2>1 DEF uiVars, hostVars, Reach, Rests, Running
  <2>5. QED
    BY <2>3, <2>4 DEF Shape
<1>5. ASSUME NEW a \in Attempts, ShowBrowser(a)
      PROVE  UiTypes' /\ Reach' /\ Shape
  <2>1. /\ Running /\ NewDocument("loading") /\ phase[a] = "ensuring" /\ control' = "ready"
        /\ navigating' = navigating + 1 /\ process' = process
        /\ UNCHANGED <<webview, toHost, asked, answered, bridge, reloads, script, counter>>
    BY <1>5 DEF ShowBrowser, ControllerReady
  <2>2. /\ UiTypeOK' /\ events' = <<>> /\ toPage' = <<>> /\ page' # "mounted"
    BY <2>1, NewDocumentForgets DEF PageStates
  <2>3. webview' = TRUE
    BY <2>1 DEF Reach, Running, UiTypes, UiTypeOK
  <2>4. control = "initializing"
    BY <2>1 DEF Startup, OneControl
  <2>5. UiTypes'
    BY <2>1, <2>2, <2>4 DEF UiTypes
  <2>6. Reach' /\ Forgets
    BY <2>1, <2>2, <2>3 DEF Reach, Forgets
  <2>7. QED
    BY <2>5, <2>6 DEF Shape
<1>6. QED
  BY <1>1, <1>2, <1>3, <1>4, <1>5

LEMMA ChannelsTyped ==
  ASSUME UiTypes
  PROVE  /\ events \in Seq(Messages) /\ toPage \in Seq(Messages)
         /\ toHost \in Seq(Requests)
         /\ asked \in 0..MaxRequests
         /\ Len(events) \in Nat /\ Len(toPage) \in Nat /\ Len(toHost) \in Nat
<1>1. /\ events \in Seq(Messages) /\ toPage \in Seq(Messages)
      /\ toHost \in Seq(Requests)
      /\ asked \in 0..MaxRequests
  BY DEF UiTypes, UiTypeOK, Requests
<1>2. QED
  BY <1>1, LenProperties

\* What a step may change of the page, when it leaves the host alone.
LEMMA UiTypesKept ==
  ASSUME UiTypes,
         UNCHANGED <<webview, page, listeners, bridge, control, reloads>>,
         bridgeReady' \in BOOLEAN, hostReady' \in BOOLEAN, script' \in BOOLEAN,
         events' \in Seq(Messages), webview => Len(events') <= Kept,
         toPage' \in Seq(Messages), toHost' \in Seq(Requests),
         asked' \in 0..MaxRequests, answered' \subseteq 0..MaxRequests,
         navigating' \in 0..navigating,
         counter' \in Nat, counter' + Len(toHost') <= asked'
  PROVE  UiTypes'
<1>1. UiTypeOK'
  BY DEF UiTypes, UiTypeOK, Requests
<1>2. bridge' \in BOOLEAN /\ reloads' \in 0..MaxReloads
  BY DEF UiTypes
<1>3. navigating' \in Nat /\ navigating' <= reloads' + (IF control' = "ready" THEN 1 ELSE 0)
  BY DEF UiTypes
<1>4. QED
  BY <1>1, <1>2, <1>3 DEF UiTypes

LEMMA UiStepMessages ==
  ASSUME UiTypes, Reach, NavigationCompleted \/ OnWebMessageReceived
  PROVE  UiTypes' /\ Reach' /\ Shape
<1> USE DEF SameCounter
<1>0. /\ bridgeReady \in BOOLEAN /\ hostReady \in BOOLEAN /\ script \in BOOLEAN
      /\ answered \subseteq 0..MaxRequests /\ counter \in Nat /\ navigating \in Nat
      /\ counter + Len(toHost) <= asked
      /\ webview => Len(events) <= Kept
  BY DEF UiTypes, UiTypeOK
<1>1. CASE NavigationCompleted
  <2> DEFINE m == Message("host-ready", <<>>, 0)
  <2>1. /\ navigating > 0 /\ navigating' = navigating - 1
        /\ toPage' = Append(toPage, m)
        /\ UNCHANGED <<webview, page, listeners, bridgeReady, hostReady, events, toHost,
                       asked, answered, bridge, reloads, script, counter, process, control>>
    BY <1>1 DEF NavigationCompleted, startupVars
  <2>2. m \in Messages /\ m.request = 0 /\ ~AboutCounter(m)
    <3>1. "host-ready" \in ReplyTypes /\ 0 \in 0..MaxRequests /\ <<>> \in ValueLists
      BY DEF ReplyTypes, ValueLists
    <3>2. QED
      BY <3>1, MessageTyped DEF AboutCounter
  <2> HIDE DEF m
  <2>3. toPage' \in Seq(Messages) /\ Grows(toPage', toPage, m)
    BY <2>1, <2>2, AppendGrows, ChannelsTyped
  <2>4. UiTypes'
    BY <1>0, <2>1, <2>3, UiTypesKept, ChannelsTyped
  <2>5. Reach'
    BY <2>1 DEF Reach
  <2>6. Announces(m)
    BY <2>1, <2>2, <2>3 DEF Announces
  <2>7. QED
    BY <2>2, <2>4, <2>5, <2>6 DEF Shape
<1>2. CASE OnWebMessageReceived
  <2>1. /\ Running /\ toHost # <<>>
        /\ script' \in BOOLEAN /\ counter' \in Nat /\ counter' <= counter + 1
    BY <1>2, HostReplies
  <2>2. PICK type \in ReplyTypes, values \in {<<>>, <<0>>, <<counter'>>} :
          /\ Reply(type, values)
          /\ \/ type = "error"
             \/ type = "native-script-counter" /\ values = <<counter'>>
             \/ type = "native-script-reset" /\ ~script' /\ counter' = 0
             \/ type \in {"pong", "host-info", "native-global"} /\ SameCounter
    BY <1>2, HostReplies
  <2>3. /\ toPage' = Append(toPage, Message(type, values, Head(toHost).request))
        /\ toHost' = Tail(toHost)
        /\ UNCHANGED <<webview, page, listeners, bridgeReady, hostReady, events, asked,
                       answered, bridge, navigating, reloads, process, control>>
    BY <2>2 DEF Reply, startupVars
  <2>4. /\ toHost' \in Seq(Requests) /\ Shrinks(toHost', toHost)
        /\ Head(toHost) = toHost[1] /\ Head(toHost) \in Requests
    BY <2>1, <2>3, TailShrinks, ChannelsTyped
  <2>5. Head(toHost).request \in 0..MaxRequests
    BY <2>4, FieldsTyped
  <2>6. counter' + Len(toHost') <= asked /\ counter' \in 0..MaxRequests
    <3>1. Len(toHost) = Len(toHost') + 1 /\ Len(toHost') \in Nat
      BY <2>4, LenProperties DEF Shrinks
    <3>2. QED
      BY <1>0, <2>1, <3>1, ChannelsTyped
  <2>7. PICK m \in Messages :
          /\ m = Message(type, values, Head(toHost).request)
          /\ m.type = type /\ m.values = values
          /\ m.request = Head(toHost).request
    <3>1. values \in ValueLists
      BY <2>2, <2>6 DEF ValueLists
    <3>2. QED
      BY <2>5, <3>1, MessageTyped
  <2>8. toPage' \in Seq(Messages) /\ Grows(toPage', toPage, m)
    BY <2>3, <2>7, AppendGrows, ChannelsTyped
  <2>9. UiTypes'
    BY <1>0, <2>1, <2>3, <2>4, <2>6, <2>8, UiTypesKept, ChannelsTyped
  <2>10. webview
    BY <2>1 DEF Reach, Running
  <2>11. Reach'
    BY <2>3, <2>10 DEF Reach
  <2>12. \/ AboutCounter(m) /\ Agrees(m)'
         \/ ~AboutCounter(m) /\ SameCounter
    <3>1. CASE type = "error"
      BY <2>7, <3>1 DEF AboutCounter, Agrees
    <3>2. CASE type = "native-script-counter" /\ values = <<counter'>>
      BY <2>7, <3>2 DEF AboutCounter, Agrees
    <3>3. CASE type = "native-script-reset" /\ ~script' /\ counter' = 0
      BY <2>7, <3>3 DEF AboutCounter, Agrees
    <3>4. CASE type \in {"pong", "host-info", "native-global"} /\ SameCounter
      BY <2>7, <3>4 DEF AboutCounter
    <3>5. QED
      BY <2>2, <3>1, <3>2, <3>3, <3>4
  <2>13. Answers(m)
    BY <2>3, <2>4, <2>7, <2>8, <2>12 DEF Answers
  <2>14. QED
    BY <2>7, <2>9, <2>11, <2>13 DEF Shape
<1>3. QED
  BY <1>1, <1>2

\* What a step may change of the document, when it sends nothing.
LEMMA DocumentKept ==
  ASSUME UiTypes,
         UNCHANGED <<webview, toHost, asked, answered, startupVars, hostVars>>,
         page' \in PageStates,
         listeners' = IF webview /\ page' = "mounted" THEN 1 ELSE 0,
         bridgeReady' \in BOOLEAN, hostReady' \in BOOLEAN,
         events' = <<>> \/ events' = events, toPage' = <<>> \/ toPage' = toPage
  PROVE  UiTypes'
<1>0. UiTypeOK
  BY DEF UiTypes
<1>1. events' \in Seq(Messages) /\ (webview => Len(events') <= Kept)
  <2>1. CASE events' = <<>>
    BY <2>1, EmptySeq
  <2>2. CASE events' = events
    BY <1>0, <2>2 DEF UiTypeOK
  <2>3. QED
    BY <2>1, <2>2
<1>2. toPage' \in Seq(Messages)
  BY <1>0, EmptySeq DEF UiTypeOK
<1>3. UiTypeOK'
  BY <1>0, <1>1, <1>2 DEF UiTypeOK
<1>4. QED
  BY <1>3 DEF UiTypes, hostVars, startupVars

LEMMA UiStepDocument ==
  ASSUME UiTypes, Reach,
         \/ Page(OpenInBrowser) \/ Page(RenderRoot) \/ Page(LoadFails)
         \/ Page(RunEffects) \/ Page(ClearLog)
  PROVE  UiTypes' /\ Reach' /\ Shape
<1> USE DEF SameCounter
<1>0. /\ webview \in BOOLEAN /\ bridgeReady \in BOOLEAN /\ hostReady \in BOOLEAN
      /\ page \in PageStates
      /\ listeners = IF webview /\ page = "mounted" THEN 1 ELSE 0
  BY DEF UiTypes, UiTypeOK
<1>1. CASE Page(OpenInBrowser)
  <2>1. /\ ~webview /\ page' = "loading" /\ listeners' = 0
        /\ bridgeReady' = FALSE /\ hostReady' = FALSE /\ events' = <<>> /\ toPage' = <<>>
        /\ UNCHANGED <<webview, toHost, asked, answered, startupVars, hostVars>>
    BY <1>1 DEF Page, OpenInBrowser, NewDocument
  <2>2. UiTypes'
    BY <1>0, <2>1, DocumentKept DEF PageStates
  <2>3. Reach' /\ Forgets
    BY <2>1 DEF Reach, Forgets, hostVars, startupVars
  <2>4. QED
    BY <2>2, <2>3 DEF Shape
<1>2. CASE Page(RenderRoot)
  <2>1. /\ page = "loading" /\ page' = "rendered" /\ bridgeReady' = webview
        /\ hostReady' = FALSE /\ events' = <<>>
        /\ UNCHANGED <<webview, listeners, toHost, toPage, asked, answered, startupVars,
                       hostVars>>
    BY <1>2 DEF Page, RenderRoot
  <2>2. bridgeReady' \in BOOLEAN /\ hostReady' \in BOOLEAN
    BY <1>0, <2>1
  <2>3. UiTypes'
    BY <1>0, <2>1, <2>2, DocumentKept DEF PageStates
  <2>4. Reach' /\ Forgets
    BY <2>1 DEF Reach, Forgets, hostVars, startupVars
  <2>5. QED
    BY <2>3, <2>4 DEF Shape
<1>3. CASE Page(LoadFails)
  <2>1. /\ page = "loading" /\ page' = "failed"
        /\ UNCHANGED <<webview, listeners, bridgeReady, hostReady, events, toHost, toPage,
                       asked, answered, startupVars, hostVars>>
    BY <1>3 DEF Page, LoadFails
  <2>2. UiTypes'
    BY <1>0, <2>1, DocumentKept DEF PageStates
  <2>3. Reach' /\ Rests
    BY <2>1 DEF Reach, Rests, hostVars, startupVars
  <2>4. QED
    BY <2>2, <2>3 DEF Shape
<1>4. CASE Page(RunEffects)
  <2>1. /\ page = "rendered" /\ page' = "mounted"
        /\ listeners' = IF StrictEffects
                          THEN AddListener(RemoveListener(AddListener(listeners)))
                          ELSE AddListener(listeners)
        /\ UNCHANGED <<webview, bridgeReady, hostReady, events, toHost, toPage,
                       asked, answered, startupVars, hostVars>>
    BY <1>4 DEF Page, RunEffects
  <2>2. listeners = 0
    BY <1>0, <2>1
  <2>3. listeners' = IF webview THEN 1 ELSE 0
    BY <2>1, <2>2 DEF AddListener, RemoveListener
  <2>4. UiTypes'
    BY <1>0, <2>1, <2>3, DocumentKept DEF PageStates
  <2>5. Reach' /\ Rests
    BY <2>1 DEF Reach, Rests, hostVars, startupVars
  <2>6. QED
    BY <2>4, <2>5 DEF Shape
<1>5. CASE Page(ClearLog)
  <2>1. /\ events' = <<>>
        /\ UNCHANGED <<webview, page, listeners, bridgeReady, hostReady, toHost, toPage,
                       asked, answered, startupVars, hostVars>>
    BY <1>5 DEF Page, ClearLog
  <2>2. UiTypes'
    BY <1>0, <2>1, DocumentKept DEF PageStates
  <2>3. Reach' /\ Forgets
    BY <2>1 DEF Reach, Forgets, hostVars, startupVars
  <2>4. QED
    BY <2>2, <2>3 DEF Shape
<1>6. QED
  BY <1>1, <1>2, <1>3, <1>4, <1>5

LEMMA UiStepPage ==
  ASSUME UiTypes, Reach,
         Page(ReceiveMessage) \/ \E action \in Buttons : Page(Post(action))
  PROVE  UiTypes' /\ Reach' /\ Shape
<1> USE DEF SameCounter
<1>0. /\ webview \in BOOLEAN /\ bridgeReady \in BOOLEAN /\ hostReady \in BOOLEAN
      /\ script \in BOOLEAN
      /\ answered \subseteq 0..MaxRequests /\ counter \in Nat /\ navigating \in Nat
      /\ counter + Len(toHost) <= asked
      /\ webview => Len(events) <= Kept
      /\ listeners = IF webview /\ page = "mounted" THEN 1 ELSE 0
  BY DEF UiTypes, UiTypeOK
<1>1. CASE Page(ReceiveMessage)
  <2>1. /\ toPage # <<>>
        /\ toPage' = Tail(toPage)
        /\ UNCHANGED <<webview, page, listeners, bridgeReady, toHost, asked>>
        /\ UNCHANGED <<bridge, navigating, reloads, script, counter, process, control>>
    BY <1>1 DEF Page, ReceiveMessage, startupVars, hostVars
  <2>2. webview
    BY <2>1 DEF Reach
  <2>3. /\ toPage' \in Seq(Messages) /\ Shrinks(toPage', toPage)
        /\ Head(toPage) = toPage[1] /\ Head(toPage) \in Messages
    BY <2>1, TailShrinks, ChannelsTyped
  <2>4. CASE page = "mounted"
    <3>1. listeners = 1
      BY <1>0, <2>2, <2>4
    <3>2. /\ hostReady' = (hostReady \/ Head(toPage).type = "host-ready")
          /\ events' = Logged(1, events, Head(toPage))
          /\ answered' = answered \union {Head(toPage).request}
      BY <1>1, <3>1 DEF Page, ReceiveMessage
    <3>3. /\ events' \in Seq(Messages) /\ Len(events') <= Kept
          /\ Stacks(events', events, toPage[1])
      BY <2>3, <3>2, LogStacks, ChannelsTyped
    <3>4. answered' \subseteq 0..MaxRequests
      BY <1>0, <2>3, <3>2, FieldsTyped
    <3>5. hostReady' \in BOOLEAN
      BY <3>2
    <3>6. UiTypes'
      BY <1>0, <2>1, <2>3, <3>3, <3>4, <3>5, UiTypesKept, ChannelsTyped
    <3>7. Reach' /\ Hears
      BY <2>1, <2>2, <2>3, <2>4, <3>3 DEF Reach, Hears
    <3>8. QED
      BY <3>6, <3>7 DEF Shape
  <2>5. CASE page # "mounted"
    <3>1. listeners = 0 /\ events = <<>>
      BY <1>0, <2>2, <2>5 DEF Reach
    <3>2. UNCHANGED <<hostReady, events, answered>>
      BY <1>1, <3>1 DEF Page, ReceiveMessage
    <3>3. UiTypes'
      BY <1>0, <2>1, <2>3, <3>2, UiTypesKept, ChannelsTyped
    <3>4. Reach' /\ Misses
      BY <2>1, <2>2, <2>3, <3>1, <3>2 DEF Reach, Misses
    <3>5. QED
      BY <3>3, <3>4 DEF Shape
  <2>6. QED
    BY <2>4, <2>5
<1>2. ASSUME NEW action \in Buttons, Page(Post(action))
      PROVE  UiTypes' /\ Reach' /\ Shape
  <2>1. /\ asked < MaxRequests /\ asked' = asked + 1
        /\ UNCHANGED <<webview, page, listeners, bridgeReady, hostReady, toPage, answered>>
        /\ UNCHANGED <<bridge, navigating, reloads, script, counter, process, control>>
    BY <1>2 DEF Page, Post, startupVars, hostVars
  <2>2. asked + 1 \in 1..MaxRequests /\ asked' \in 0..MaxRequests
    BY <2>1, ChannelsTyped
  <2>3. CASE webview
    <3> DEFINE r == [action |-> action, request |-> asked + 1]
    <3>1. toHost' = Append(toHost, r) /\ events' = events
      BY <1>2, <2>3 DEF Page, Post
    <3>2. r \in Requests /\ r.request = asked + 1
      BY <2>2 DEF Requests
    <3> HIDE DEF r
    <3>3. toHost' \in Seq(Requests) /\ Grows(toHost', toHost, r)
      BY <3>1, <3>2, AppendGrows, ChannelsTyped
    <3>4. counter + Len(toHost') <= asked'
      BY <1>0, <2>1, <3>3, ChannelsTyped DEF Grows
    <3>5. UiTypes'
      BY <1>0, <2>1, <2>2, <3>1, <3>3, <3>4, UiTypesKept, ChannelsTyped
    <3>6. Reach' /\ Requested(r)
      BY <2>1, <2>3, <3>1, <3>2, <3>3 DEF Reach, Requested
    <3>7. QED
      BY <3>2, <3>5, <3>6 DEF Shape
  <2>4. CASE ~webview
    <3> DEFINE m == Message("error", <<>>, asked + 1)
    <3>1. events' = <<m>> \o events /\ toHost' = toHost
      BY <1>2, <2>4 DEF Page, Post
    <3>2. m \in Messages /\ m.request = asked + 1 /\ m.type = "error"
      <4>1. "error" \in ReplyTypes /\ <<>> \in ValueLists /\ asked + 1 \in 0..MaxRequests
        BY <2>2 DEF ReplyTypes, ValueLists
      <4>2. QED
        BY <4>1, MessageTyped
    <3> HIDE DEF m
    <3>3. events' \in Seq(Messages) /\ Stacks(events', events, m)
      BY <3>1, <3>2, PrependStacks, ChannelsTyped
    <3>4. counter + Len(toHost') <= asked'
      BY <1>0, <2>1, <3>1, ChannelsTyped
    <3>5. UiTypes'
      BY <1>0, <2>1, <2>2, <2>4, <3>1, <3>3, <3>4, UiTypesKept, ChannelsTyped
    <3>6. Reach' /\ Complains(m)
      BY <2>1, <2>4, <3>1, <3>2, <3>3 DEF Reach, Complains
    <3>7. QED
      BY <3>2, <3>5, <3>6 DEF Shape
  <2>5. QED
    BY <2>3, <2>4
<1>3. QED
  BY <1>1, <1>2

LEMMA UiStep ==
  Startup /\ UiTypes /\ Reach /\ [Next]_vars => UiTypes' /\ Reach' /\ Shape
<1> SUFFICES ASSUME Startup, UiTypes, Reach, [Next]_vars
             PROVE  UiTypes' /\ Reach' /\ Shape
  OBVIOUS
<1>1. CASE UNCHANGED vars
  <2>1. UNCHANGED <<uiVars, hostVars, process, control>>
    BY <1>1 DEF vars, startupVars
  <2>2. UiTypeOK'
    BY <2>1 DEF UiTypes, UiTypeOK, uiVars
  <2>3. UiTypes'
    BY <2>1, <2>2 DEF UiTypes, uiVars, hostVars
  <2>4. Reach' /\ Rests
    BY <2>1 DEF Reach, Rests, SameCounter, uiVars, hostVars
  <2>5. QED
    BY <2>3, <2>4 DEF Shape
<1>2. CASE Launch \/ Exit \/ Reload \/ \E a \in Attempts : Attempt(a) \/ ShowBrowser(a)
  BY <1>2, UiStepHost
<1>3. CASE NavigationCompleted \/ OnWebMessageReceived
  BY <1>3, UiStepMessages
<1>4. CASE \/ Page(OpenInBrowser) \/ Page(RenderRoot) \/ Page(LoadFails)
           \/ Page(RunEffects) \/ Page(ClearLog)
  BY <1>4, UiStepDocument
<1>5. CASE Page(ReceiveMessage) \/ \E action \in Buttons : Page(Post(action))
  BY <1>5, UiStepPage
<1>6. QED
  BY <1>1, <1>2, <1>3, <1>4, <1>5 DEF Next, PageStep, UserStep

\* The attempts' half does not look at the page.
LEMMA StartupKept ==
  ASSUME Startup, [Next]_vars
  PROVE  Startup'
<1>1. CASE Launch \/ Exit
  BY <1>1, StartupStep DEF Launch, Exit
<1>2. ASSUME NEW a \in Attempts, Attempt(a) \/ ShowBrowser(a)
      PROVE  Startup'
  BY <1>2, StartupStep DEF Attempt, ShowBrowser
<1>3. CASE \/ UNCHANGED vars \/ Reload \/ NavigationCompleted
           \/ OnWebMessageReceived \/ PageStep \/ UserStep
  <2>1. UNCHANGED startupVars
    BY <1>3 DEF vars, Reload, NavigationCompleted, OnWebMessageReceived, Ping,
       GetHostInfo, RunNativeGlobal, RunNativeScriptCounter,
       RunNativeScriptCounterFails, ResetNativeScriptCounter,
       ResetNativeScriptCounterFails, Reply, ReplyError, PageStep, UserStep, Page
  <2>2. QED
    BY <2>1, StartupStep
<1>4. QED
  BY <1>1, <1>2, <1>3 DEF Next

-----------------------------------------------------------------------------
(* The order of the replies.                                                *)

UpTo(s, n) == \A i \in 1..Len(s) : s[i].request <= n

Rising(s) ==
  \A i, j \in 1..Len(s) :
    i < j /\ s[i].request # 0 /\ s[j].request # 0 => s[i].request < s[j].request

Falling(s) ==
  \A i, j \in 1..Len(s) :
    i < j /\ s[i].request # 0 /\ s[j].request # 0 => s[j].request < s[i].request

Before(s, t) ==
  \A i \in 1..Len(s), j \in 1..Len(t) :
    t[j].request # 0 => s[i].request < t[j].request

\* No message has a number that was not asked yet, and RepliesInOrder, within
\* the log and each channel and from one to the next.
Ordered ==
  /\ UpTo(events, asked) /\ UpTo(toPage, asked) /\ UpTo(toHost, asked)
  /\ Falling(events) /\ Rising(toPage) /\ Rising(toHost)
  /\ Before(events, toPage) /\ Before(events, toHost) /\ Before(toPage, toHost)

Counts(s) == Len(s) \in Nat /\ \A i \in 1..Len(s) : s[i].request \in Nat

LEMMA Growing ==
  ASSUME NEW s, NEW t, NEW m, Counts(s), Counts(t), Grows(t, s, m), m.request \in Nat
  PROVE  /\ \A n \in Nat : UpTo(s, n) /\ m.request <= n => UpTo(t, n)
         /\ Rising(s) /\ (m.request = 0 \/ UpTo(s, m.request - 1)) => Rising(t)
<1> USE DEF Counts, Grows
<1>0. /\ \A i \in 1..Len(t) : i \in 1..Len(s) \/ i = Len(s) + 1
      /\ Len(s) \in Nat /\ Len(t) = Len(s) + 1
  OBVIOUS
<1>1. \A n \in Nat : UpTo(s, n) /\ m.request <= n => UpTo(t, n)
  BY <1>0 DEF UpTo
<1>2. ASSUME Rising(s), m.request = 0 \/ UpTo(s, m.request - 1),
             NEW i \in 1..Len(t), NEW j \in 1..Len(t),
             i < j, t[i].request # 0, t[j].request # 0
      PROVE  t[i].request < t[j].request
  <2>1. i \in 1..Len(s) /\ t[i] = s[i]
    BY <1>0, <1>2
  <2>2. CASE j \in 1..Len(s)
    BY <1>2, <2>1, <2>2 DEF Rising
  <2>3. CASE j = Len(s) + 1
    BY <1>2, <2>1, <2>3 DEF UpTo
  <2>4. QED
    BY <1>0, <2>2, <2>3
<1>3. QED
  BY <1>1, <1>2 DEF Rising

LEMMA GrowingBefore ==
  ASSUME NEW s, NEW t, NEW m, Counts(s), Counts(t), Grows(t, s, m), m.request \in Nat,
         NEW r, Counts(r)
  PROVE  /\ Before(r, s) /\ (m.request = 0 \/ UpTo(r, m.request - 1)) => Before(r, t)
         /\ Before(s, r) /\ Before(<<m>>, r) => Before(t, r)
<1> USE DEF Counts, Grows
<1>0. /\ \A i \in 1..Len(t) : i \in 1..Len(s) \/ i = Len(s) + 1
      /\ Len(s) \in Nat /\ Len(t) = Len(s) + 1
  OBVIOUS
<1>1. ASSUME Before(r, s), m.request = 0 \/ UpTo(r, m.request - 1),
             NEW i \in 1..Len(r), NEW j \in 1..Len(t), t[j].request # 0
      PROVE  r[i].request < t[j].request
  <2>1. CASE j \in 1..Len(s)
    BY <1>1, <2>1 DEF Before
  <2>2. CASE j = Len(s) + 1
    BY <1>1, <2>2 DEF UpTo
  <2>3. QED
    BY <1>0, <2>1, <2>2
<1>2. ASSUME Before(s, r), Before(<<m>>, r),
             NEW i \in 1..Len(t), NEW j \in 1..Len(r), r[j].request # 0
      PROVE  t[i].request < r[j].request
  <2>1. CASE i \in 1..Len(s)
    BY <1>2, <2>1 DEF Before
  <2>2. CASE i = Len(s) + 1
    <3>1. 1 \in 1..Len(<<m>>) /\ <<m>>[1] = m
      OBVIOUS
    <3>2. QED
      BY <1>2, <2>2, <3>1 DEF Before
  <2>3. QED
    BY <1>0, <2>1, <2>2
<1>3. QED
  BY <1>1, <1>2 DEF Before

LEMMA Shrinking ==
  ASSUME NEW s, NEW t, Counts(s), Counts(t), Shrinks(t, s)
  PROVE  /\ \A n \in Nat : UpTo(s, n) => UpTo(t, n)
         /\ Rising(s) => Rising(t)
         /\ \A r : Counts(r) /\ Before(r, s) => Before(r, t)
         /\ \A r : Counts(r) /\ Before(s, r) => Before(t, r)
<1> USE DEF Counts, Shrinks
<1>0. \A i \in 1..Len(t) : i + 1 \in 1..Len(s) /\ t[i] = s[i + 1]
  OBVIOUS
<1>1. \A n \in Nat : UpTo(s, n) => UpTo(t, n)
  BY <1>0 DEF UpTo
<1>2. Rising(s) => Rising(t)
  <2> SUFFICES ASSUME Rising(s), NEW i \in 1..Len(t), NEW j \in 1..Len(t), i < j,
                      t[i].request # 0, t[j].request # 0
               PROVE  t[i].request < t[j].request
    BY DEF Rising
  <2>1. i + 1 < j + 1
    OBVIOUS
  <2>2. QED
    BY <1>0, <2>1 DEF Rising
<1>3. \A r : Counts(r) /\ Before(r, s) => Before(r, t)
  BY <1>0 DEF Before
<1>4. \A r : Counts(r) /\ Before(s, r) => Before(t, r)
  BY <1>0 DEF Before
<1>5. QED
  BY <1>1, <1>2, <1>3, <1>4

LEMMA Stacking ==
  ASSUME NEW s, NEW t, NEW m, Counts(s), Counts(t), Stacks(t, s, m), m.request \in Nat
  PROVE  /\ \A n \in Nat : UpTo(s, n) /\ m.request <= n => UpTo(t, n)
         /\ Falling(s) /\ (m.request = 0 \/ UpTo(s, m.request - 1)) => Falling(t)
         /\ \A r : Counts(r) /\ Before(s, r) /\ Before(<<m>>, r) => Before(t, r)
<1> USE DEF Counts
<1>0. \A i \in 1..Len(t) : \/ i = 1 /\ t[i] = m
                           \/ i > 1 /\ i - 1 \in 1..Len(s) /\ t[i] = s[i - 1]
  BY DEF Stacks
<1>1. \A n \in Nat : UpTo(s, n) /\ m.request <= n => UpTo(t, n)
  BY <1>0 DEF UpTo
<1>2. ASSUME Falling(s), m.request = 0 \/ UpTo(s, m.request - 1),
             NEW i \in 1..Len(t), NEW j \in 1..Len(t),
             i < j, t[i].request # 0, t[j].request # 0
      PROVE  t[j].request < t[i].request
  <2>1. j > 1 /\ j - 1 \in 1..Len(s) /\ t[j] = s[j - 1]
    BY <1>0, <1>2
  <2>2. CASE i = 1 /\ t[i] = m
    BY <1>2, <2>1, <2>2 DEF UpTo
  <2>3. CASE i > 1 /\ i - 1 \in 1..Len(s) /\ t[i] = s[i - 1]
    <3>1. i - 1 < j - 1
      BY <1>2
    <3>2. QED
      BY <1>2, <2>1, <2>3, <3>1 DEF Falling
  <2>4. QED
    BY <1>0, <2>2, <2>3
<1>3. ASSUME NEW r, Counts(r), Before(s, r), Before(<<m>>, r),
             NEW i \in 1..Len(t), NEW j \in 1..Len(r), r[j].request # 0
      PROVE  t[i].request < r[j].request
  <2>1. CASE i = 1 /\ t[i] = m
    <3>1. 1 \in 1..Len(<<m>>) /\ <<m>>[1] = m
      OBVIOUS
    <3>2. QED
      BY <1>3, <2>1, <3>1 DEF Before
  <2>2. CASE i > 1 /\ i - 1 \in 1..Len(s) /\ t[i] = s[i - 1]
    BY <1>3, <2>2 DEF Before
  <2>3. QED
    BY <1>0, <2>1, <2>2
<1>4. QED
  BY <1>1, <1>2, <1>3 DEF Falling, Before

LEMMA OneBefore ==
  ASSUME NEW m, NEW r, Counts(r)
  PROVE  (\A j \in 1..Len(r) : r[j].request # 0 => m.request < r[j].request)
           => Before(<<m>>, r)
<1>1. Len(<<m>>) = 1 /\ <<m>>[1] = m
  OBVIOUS
<1>2. QED
  BY <1>1 DEF Before

LEMMA ChannelsCount ==
  ASSUME UiTypes
  PROVE  /\ Counts(events) /\ Counts(toPage) /\ Counts(toHost)
         /\ asked \in Nat
         /\ \A i \in 1..Len(toHost) : toHost[i].request > 0
<1>1. \A i \in 1..Len(events) : events[i] \in Messages
  BY ChannelsTyped, ElementOfSeq
<1>2. \A i \in 1..Len(toPage) : toPage[i] \in Messages
  BY ChannelsTyped, ElementOfSeq
<1>3. \A i \in 1..Len(toHost) : toHost[i] \in Requests
  BY ChannelsTyped, ElementOfSeq
<1>4. QED
  BY <1>1, <1>2, <1>3, FieldsTyped, ChannelsTyped DEF Counts

LEMMA ChannelsCountNext ==
  ASSUME UiTypes'
  PROVE  Counts(events') /\ Counts(toPage') /\ Counts(toHost')
<1>1. /\ events' \in Seq(Messages) /\ toPage' \in Seq(Messages)
      /\ toHost' \in Seq(Requests)
  BY DEF UiTypes, UiTypeOK, Requests
<1>2. \A i \in 1..Len(events') : events'[i] \in Messages
  BY <1>1, ElementOfSeq
<1>3. \A i \in 1..Len(toPage') : toPage'[i] \in Messages
  BY <1>1, ElementOfSeq
<1>4. \A i \in 1..Len(toHost') : toHost'[i] \in Requests
  BY <1>1, ElementOfSeq
<1>5. QED
  BY <1>1, <1>2, <1>3, <1>4, FieldsTyped, LenProperties DEF Counts

LEMMA NothingOrdered ==
  ASSUME NEW s, Counts(s)
  PROVE  /\ \A n \in Nat : UpTo(<<>>, n)
         /\ Falling(<<>>) /\ Rising(<<>>) /\ Before(<<>>, s) /\ Before(s, <<>>)
         /\ Counts(<<>>)
<1>1. Len(<<>>) = 0
  BY EmptySeq
<1>2. QED
  BY <1>1 DEF UpTo, Falling, Rising, Before, Counts

LEMMA OrderStep ==
  ASSUME UiTypes, UiTypes', Ordered, Shape
  PROVE  Ordered'
<1>0. /\ Counts(events) /\ Counts(toPage) /\ Counts(toHost) /\ asked \in Nat
      /\ Counts(events') /\ Counts(toPage') /\ Counts(toHost')
      /\ \A i \in 1..Len(toHost) : toHost[i].request > 0
  BY ChannelsCount, ChannelsCountNext
<1>1. /\ UpTo(events, asked) /\ UpTo(toPage, asked) /\ UpTo(toHost, asked)
      /\ Falling(events) /\ Rising(toPage) /\ Rising(toHost)
      /\ Before(events, toPage) /\ Before(events, toHost) /\ Before(toPage, toHost)
  BY DEF Ordered
<1> DEFINE OrderedNext ==
        /\ UpTo(events', asked') /\ UpTo(toPage', asked') /\ UpTo(toHost', asked')
        /\ Falling(events') /\ Rising(toPage') /\ Rising(toHost')
        /\ Before(events', toPage') /\ Before(events', toHost') /\ Before(toPage', toHost')
<1>2. SUFFICES OrderedNext
  BY DEF Ordered, UpTo, Falling, Rising, Before
<1>3. CASE Rests
  BY <1>1, <1>3 DEF Rests
<1>4. CASE Forgets
  BY <1>0, <1>1, <1>4, NothingOrdered DEF Forgets
<1>5. CASE Hears
  <2> DEFINE m == toPage[1]
  <2>1. Shrinks(toPage', toPage) /\ Stacks(events', events, m) /\ UNCHANGED <<toHost, asked>>
    BY <1>5 DEF Hears
  <2>2. 1 \in 1..Len(toPage) /\ m.request \in Nat
    BY <1>0, <2>1 DEF Shrinks, Counts
  <2>3. m.request <= asked /\ (m.request = 0 \/ UpTo(events, m.request - 1))
    BY <1>0, <1>1, <2>2 DEF UpTo, Before, Counts
  <2>4. Before(<<m>>, toHost)
    BY <1>0, <1>1, <2>2, OneBefore DEF Before
  <2>5. Before(<<m>>, toPage')
    <3>1. \A j \in 1..Len(toPage') : j + 1 \in 1..Len(toPage) /\ toPage'[j] = toPage[j + 1]
      BY <1>0, <2>1 DEF Shrinks, Counts
    <3>2. ASSUME NEW j \in 1..Len(toPage'), toPage'[j].request # 0
          PROVE  m.request < toPage'[j].request
      <4>1. toPage[j + 1].request \in Nat /\ toPage'[j] = toPage[j + 1] /\ 1 < j + 1
        BY <1>0, <3>1 DEF Counts
      <4>2. CASE m.request = 0
        BY <3>2, <4>1, <4>2
      <4>3. CASE m.request # 0
        BY <1>1, <2>2, <3>1, <3>2, <4>1, <4>3 DEF Rising
      <4>4. QED
        BY <4>2, <4>3
    <3>3. QED
      BY <1>0, <3>2, OneBefore
  <2> HIDE DEF m
  <2>6. Before(events, toPage')
    BY <1>0, <1>1, <2>1, Shrinking
  <2>7. UpTo(toPage', asked) /\ Rising(toPage') /\ Before(toPage', toHost)
    BY <1>0, <1>1, <2>1, Shrinking
  <2>8. /\ UpTo(events', asked) /\ Falling(events')
        /\ Before(events', toPage') /\ Before(events', toHost)
    BY <1>0, <1>1, <2>1, <2>2, <2>3, <2>4, <2>5, <2>6, Stacking
  <2>9. QED
    BY <1>1, <2>1, <2>7, <2>8
<1>6. CASE Misses
  BY <1>0, <1>1, <1>6, NothingOrdered, Shrinking DEF Misses
<1>7. ASSUME NEW m \in Messages, Announces(m)
      PROVE  OrderedNext
  <2>1. m.request = 0 /\ Grows(toPage', toPage, m) /\ UNCHANGED <<events, toHost, asked>>
    BY <1>7 DEF Announces
  <2>2. Before(<<m>>, toHost)
    BY <1>0, <2>1, OneBefore
  <2>3. UpTo(toPage', asked) /\ Rising(toPage')
    BY <1>0, <1>1, <2>1, Growing
  <2>4. Before(events, toPage') /\ Before(toPage', toHost)
    BY <1>0, <1>1, <2>1, <2>2, GrowingBefore
  <2>5. QED
    BY <1>1, <2>1, <2>3, <2>4
<1>8. ASSUME NEW m \in Messages, Answers(m)
      PROVE  OrderedNext
  <2>1. /\ m.request = toHost[1].request /\ Grows(toPage', toPage, m)
        /\ Shrinks(toHost', toHost) /\ UNCHANGED <<events, asked>>
    BY <1>8 DEF Answers
  <2>2. 1 \in 1..Len(toHost) /\ m.request \in Nat \ {0}
    BY <1>0, <2>1 DEF Shrinks, Counts
  <2>3. m.request <= asked /\ UpTo(events, m.request - 1) /\ UpTo(toPage, m.request - 1)
    BY <1>0, <1>1, <2>1, <2>2 DEF UpTo, Before, Counts
  <2>4. Before(<<m>>, toHost')
    <3>1. \A j \in 1..Len(toHost') :
            j + 1 \in 1..Len(toHost) /\ 1 < j + 1 /\ toHost'[j] = toHost[j + 1]
      BY <1>0, <2>1 DEF Shrinks, Counts
    <3>2. ASSUME NEW j \in 1..Len(toHost'), toHost'[j].request # 0
          PROVE  m.request < toHost'[j].request
      BY <1>1, <2>1, <2>2, <3>1, <3>2 DEF Rising
    <3>3. QED
      BY <1>0, <3>2, OneBefore
  <2>5. /\ UpTo(toHost', asked) /\ Rising(toHost')
        /\ Before(events, toHost') /\ Before(toPage, toHost')
    BY <1>0, <1>1, <2>1, Shrinking
  <2>6. UpTo(toPage', asked) /\ Rising(toPage')
    BY <1>0, <1>1, <2>1, <2>2, <2>3, Growing
  <2>7. Before(events, toPage') /\ Before(toPage', toHost')
    BY <1>0, <1>1, <2>1, <2>2, <2>3, <2>4, <2>5, GrowingBefore
  <2>8. QED
    BY <1>1, <2>1, <2>5, <2>6, <2>7
<1>9. ASSUME NEW m \in Messages, Complains(m)
      PROVE  OrderedNext
  <2>1. /\ m.request = asked + 1 /\ asked' = asked + 1 /\ Stacks(events', events, m)
        /\ toPage' = <<>> /\ toHost' = <<>>
    BY <1>9 DEF Complains
  <2>2. UpTo(events', asked') /\ Falling(events')
    <3>1. m.request \in Nat /\ m.request - 1 = asked /\ asked + 1 \in Nat
      BY <1>0, <2>1
    <3>2. UpTo(events, m.request - 1) /\ UpTo(events, asked + 1)
      BY <1>0, <1>1, <3>1 DEF UpTo, Counts
    <3>3. m.request <= asked + 1
      BY <1>0, <2>1
    <3>4. QED
      BY <1>0, <1>1, <2>1, <3>1, <3>2, <3>3, Stacking
  <2>3. QED
    BY <1>0, <2>1, <2>2, NothingOrdered
<1>10. ASSUME NEW r \in Requests, Requested(r)
      PROVE  OrderedNext
  <2>1. /\ r.request = asked + 1 /\ asked' = asked + 1 /\ Grows(toHost', toHost, r)
        /\ UNCHANGED <<events, toPage>>
    BY <1>10 DEF Requested
  <2>2. /\ UpTo(events, asked + 1) /\ UpTo(toPage, asked + 1) /\ UpTo(toHost, asked + 1)
        /\ r.request \in Nat /\ r.request - 1 = asked
    BY <1>0, <1>1, <2>1 DEF UpTo, Counts
  <2>3. UpTo(toHost', asked') /\ Rising(toHost')
    BY <1>0, <1>1, <2>1, <2>2, Growing
  <2>4. Before(events, toHost') /\ Before(toPage, toHost')
    BY <1>0, <1>1, <2>1, <2>2, GrowingBefore
  <2>5. QED
    BY <1>1, <2>1, <2>2, <2>3, <2>4
<1>11. QED
  BY <1>3, <1>4, <1>5, <1>6, <1>7, <1>8, <1>9, <1>10 DEF Shape

-----------------------------------------------------------------------------
(* What the page is told of the counter.                                    *)

\* Agrees, of a counter c and a context that exists or not.
TrueOf(m, c, b) ==
  CASE m.type = "native-script-counter" -> m.values = <<c>>
    [] m.type = "native-script-reset" -> ~b /\ c = 0
    [] OTHER -> TRUE

Silent(s) == \A i \in 1..Len(s) : ~AboutCounter(s[i])

LastTrue(s, c, b) ==
  \A i \in 1..Len(s) :
    AboutCounter(s[i]) /\ (\A j \in (i + 1)..Len(s) : ~AboutCounter(s[j]))
      => TrueOf(s[i], c, b)

FirstTrue(s, c, b) ==
  \A i \in 1..Len(s) :
    AboutCounter(s[i]) /\ (\A j \in 1..(i - 1) : ~AboutCounter(s[j]))
      => TrueOf(s[i], c, b)

\* ShownCounterIsCurrent, of the channel and then of the log.
Said ==
  /\ LastTrue(toPage, counter, script)
  /\ Silent(toPage) => FirstTrue(events, counter, script)

LEMMA GrowingSaid ==
  ASSUME NEW s, NEW t, NEW m, Len(s) \in Nat, Len(t) \in Nat, Grows(t, s, m), NEW c, NEW b
  PROVE  /\ AboutCounter(m) /\ TrueOf(m, c, b) => LastTrue(t, c, b) /\ ~Silent(t)
         /\ ~AboutCounter(m) /\ LastTrue(s, c, b) => LastTrue(t, c, b)
         /\ Silent(t) => Silent(s)
<1>0. /\ \A i \in 1..Len(s) : i \in 1..Len(t) /\ t[i] = s[i]
      /\ Len(t) \in 1..Len(t) /\ t[Len(t)] = m
      /\ \A i \in 1..Len(t) : i \in 1..Len(s) \/ i = Len(t)
      /\ Len(t) = Len(s) + 1
  BY DEF Grows
<1>1. ASSUME AboutCounter(m), TrueOf(m, c, b)
      PROVE  LastTrue(t, c, b) /\ ~Silent(t)
  <2>1. ASSUME NEW i \in 1..Len(t), \A j \in (i + 1)..Len(t) : ~AboutCounter(t[j])
        PROVE  TrueOf(t[i], c, b)
    <3>1. Len(t) \notin (i + 1)..Len(t)
      BY <1>0, <1>1, <2>1
    <3>2. i = Len(t)
      BY <3>1
    <3>3. QED
      BY <1>0, <1>1, <3>2
  <2>2. QED
    BY <1>0, <1>1, <2>1 DEF LastTrue, Silent
<1>2. ASSUME ~AboutCounter(m), LastTrue(s, c, b)
      PROVE  LastTrue(t, c, b)
  <2>1. ASSUME NEW i \in 1..Len(t), AboutCounter(t[i]),
               \A j \in (i + 1)..Len(t) : ~AboutCounter(t[j])
        PROVE  TrueOf(t[i], c, b)
    <3>1. i \in 1..Len(s) /\ t[i] = s[i]
      BY <1>0, <1>2, <2>1
    <3>2. \A j \in (i + 1)..Len(s) : j \in (i + 1)..Len(t) /\ t[j] = s[j]
      BY <1>0, <3>1
    <3>3. QED
      BY <1>2, <2>1, <3>1, <3>2 DEF LastTrue
  <2>2. QED
    BY <2>1 DEF LastTrue
<1>3. Silent(t) => Silent(s)
  BY <1>0 DEF Silent
<1>4. QED
  BY <1>1, <1>2, <1>3

LEMMA ShrinkingSaid ==
  ASSUME NEW s, NEW t, Len(s) \in Nat, Len(t) \in Nat, Shrinks(t, s), NEW c, NEW b,
         LastTrue(s, c, b)
  PROVE  /\ LastTrue(t, c, b)
         /\ Silent(t) => \/ Silent(s) /\ ~AboutCounter(s[1])
                         \/ AboutCounter(s[1]) /\ TrueOf(s[1], c, b)
<1>0. /\ \A i \in 1..Len(t) : i + 1 \in 1..Len(s) /\ t[i] = s[i + 1]
      /\ \A i \in 1..Len(s) : i = 1 \/ (i - 1 \in 1..Len(t) /\ s[i] = t[i - 1])
      /\ 1 \in 1..Len(s)
  BY DEF Shrinks
<1>1. ASSUME NEW i \in 1..Len(t), AboutCounter(t[i]),
             \A j \in (i + 1)..Len(t) : ~AboutCounter(t[j])
      PROVE  TrueOf(t[i], c, b)
  <2>1. i + 1 \in 1..Len(s) /\ t[i] = s[i + 1]
    BY <1>0
  <2>2. ASSUME NEW j \in (i + 1 + 1)..Len(s)
        PROVE  ~AboutCounter(s[j])
    <3>1. j - 1 \in (i + 1)..Len(t) /\ s[j] = t[j - 1]
      BY <1>0, <2>1
    <3>2. QED
      BY <1>1, <3>1
  <2>3. QED
    BY <1>1, <2>1, <2>2 DEF LastTrue
<1>2. ASSUME Silent(t)
      PROVE  \/ Silent(s) /\ ~AboutCounter(s[1])
             \/ AboutCounter(s[1]) /\ TrueOf(s[1], c, b)
  <2>1. \A i \in 1..Len(s) : i # 1 => ~AboutCounter(s[i])
    BY <1>0, <1>2 DEF Silent
  <2>2. \A j \in (1 + 1)..Len(s) : ~AboutCounter(s[j])
    BY <2>1
  <2>3. QED
    BY <1>0, <2>1, <2>2 DEF LastTrue, Silent
<1>3. QED
  BY <1>1, <1>2 DEF LastTrue

LEMMA StackingSaid ==
  ASSUME NEW s, NEW t, NEW m, Len(s) \in Nat, Stacks(t, s, m), NEW c, NEW b,
         \/ AboutCounter(m) /\ TrueOf(m, c, b)
         \/ ~AboutCounter(m) /\ FirstTrue(s, c, b)
  PROVE  FirstTrue(t, c, b)
<1> SUFFICES ASSUME NEW i \in 1..Len(t), AboutCounter(t[i]),
                    \A j \in 1..(i - 1) : ~AboutCounter(t[j])
             PROVE  TrueOf(t[i], c, b)
  BY DEF FirstTrue
<1>0. t[1] = m /\ \A k \in 2..Len(t) : k - 1 \in 1..Len(s) /\ t[k] = s[k - 1]
  BY DEF Stacks
<1>1. CASE AboutCounter(m) /\ TrueOf(m, c, b)
  <2>1. 1 \notin 1..(i - 1)
    BY <1>0, <1>1
  <2>2. i = 1
    BY <2>1
  <2>3. QED
    BY <1>0, <1>1, <2>2
<1>2. CASE ~AboutCounter(m) /\ FirstTrue(s, c, b)
  <2>1. i \in 2..Len(t)
    BY <1>0, <1>2
  <2>2. i - 1 \in 1..Len(s) /\ t[i] = s[i - 1]
    BY <1>0, <2>1
  <2>3. ASSUME NEW j \in 1..(i - 1 - 1)
        PROVE  ~AboutCounter(s[j])
    <3>1. j + 1 \in 1..(i - 1) /\ j + 1 \in 2..Len(t) /\ j + 1 - 1 = j
      BY <2>1
    <3>2. t[j + 1] = s[j]
      BY <1>0, <3>1
    <3>3. QED
      BY <3>1, <3>2
  <2>4. QED
    BY <1>2, <2>2, <2>3 DEF FirstTrue
<1>3. QED
  BY <1>1, <1>2

LEMMA SaidStep ==
  ASSUME UiTypes, UiTypes', Said, Shape
  PROVE  Said'
<1>0. /\ Len(events) \in Nat /\ Len(toPage) \in Nat /\ Len(toPage') \in Nat
  BY ChannelsCount, ChannelsCountNext DEF Counts
<1>1. LastTrue(toPage, counter, script) /\ (Silent(toPage) => FirstTrue(events, counter, script))
  BY DEF Said
<1>2. ASSUME NEW c, NEW b
      PROVE  LastTrue(<<>>, c, b) /\ FirstTrue(<<>>, c, b) /\ Silent(<<>>)
  BY EmptySeq DEF LastTrue, FirstTrue, Silent
<1> DEFINE SaidNext ==
       /\ LastTrue(toPage', counter', script')
       /\ Silent(toPage') => FirstTrue(events', counter', script')
<1>3. SUFFICES SaidNext
  BY DEF Said, LastTrue, FirstTrue, Silent, AboutCounter, TrueOf
<1>4. CASE Rests
  BY <1>1, <1>4 DEF Rests, SameCounter
<1>5. CASE Forgets
  <2>1. CASE toPage' = <<>>
    BY <1>2, <1>5, <2>1 DEF Forgets
  <2>2. CASE toPage' # <<>>
    BY <1>1, <1>2, <1>5, <2>2 DEF Forgets, SameCounter
  <2>3. QED
    BY <2>1, <2>2
<1>6. CASE Hears
  <2> DEFINE m == toPage[1]
  <2>1. /\ Shrinks(toPage', toPage) /\ Stacks(events', events, m)
        /\ counter' = counter /\ script' = script
    BY <1>6 DEF Hears, SameCounter
  <2> HIDE DEF m
  <2>2. LastTrue(toPage', counter, script)
    BY <1>0, <1>1, <2>1, ShrinkingSaid
  <2>3. ASSUME Silent(toPage')
        PROVE  FirstTrue(events', counter, script)
    <3>1. \/ Silent(toPage) /\ ~AboutCounter(m)
          \/ AboutCounter(m) /\ TrueOf(m, counter, script)
      BY <1>0, <1>1, <2>1, <2>3, ShrinkingSaid DEF m
    <3>2. QED
      BY <1>0, <1>1, <2>1, <3>1, StackingSaid
  <2>4. QED
    BY <2>1, <2>2, <2>3
<1>7. CASE Misses
  <2>1. /\ Shrinks(toPage', toPage) /\ events' = <<>>
        /\ counter' = counter /\ script' = script
    BY <1>7 DEF Misses, SameCounter
  <2>2. QED
    BY <1>0, <1>1, <1>2, <2>1, ShrinkingSaid
<1>8. ASSUME NEW m \in Messages, Announces(m)
      PROVE  SaidNext
  <2>1. /\ ~AboutCounter(m) /\ Grows(toPage', toPage, m) /\ events' = events
        /\ counter' = counter /\ script' = script
    BY <1>8 DEF Announces, SameCounter
  <2>2. QED
    BY <1>0, <1>1, <2>1, GrowingSaid
<1>9. ASSUME NEW m \in Messages, Answers(m)
      PROVE  SaidNext
  <2>1. Grows(toPage', toPage, m) /\ events' = events
    BY <1>9 DEF Answers
  <2>2. CASE AboutCounter(m) /\ Agrees(m)'
    <3>1. TrueOf(m, counter', script')
      BY <2>2 DEF Agrees, TrueOf
    <3>2. QED
      BY <1>0, <2>1, <2>2, <3>1, GrowingSaid
  <2>3. CASE ~AboutCounter(m) /\ SameCounter
    BY <1>0, <1>1, <2>1, <2>3, GrowingSaid DEF SameCounter
  <2>4. QED
    BY <1>9, <2>2, <2>3 DEF Answers
<1>10. ASSUME NEW m \in Messages, Complains(m)
       PROVE  SaidNext
  <2>1. Stacks(events', events, m) /\ toPage' = <<>>
    BY <1>10 DEF Complains
  <2>2. AboutCounter(m) /\ TrueOf(m, counter', script')
    BY <1>10 DEF Complains, AboutCounter, TrueOf
  <2>3. QED
    BY <1>0, <1>2, <2>1, <2>2, StackingSaid
<1>11. ASSUME NEW r \in Requests, Requested(r)
       PROVE  SaidNext
  BY <1>1, <1>11 DEF Requested, SameCounter
<1>12. QED
  BY <1>4, <1>5, <1>6, <1>7, <1>8, <1>9, <1>10, <1>11 DEF Shape

-----------------------------------------------------------------------------
(* From the parts to the properties.                                        *)

LEMMA ReverseProperties ==
  ASSUME NEW S, NEW s \in Seq(S)
  PROVE  /\ Reverse(s) \in Seq(S)
         /\ Len(Reverse(s)) = Len(s)
         /\ \A i \in 1..Len(s) : Reverse(s)[i] = s[Len(s) - i + 1]
<1>1. Len(s) \in Nat /\ \A i \in 1..Len(s) : s[i] \in S
  BY ElementOfSeq, LenProperties
<1>2. \A i \in 1..Len(s) : Len(s) - i + 1 \in 1..Len(s)
  BY <1>1
<1>3. QED
  BY <1>1, <1>2 DEF Reverse

LEMMA HeardByIndex ==
  ASSUME UiTypes
  PROVE  /\ Heard \in Seq(Messages)
         /\ Len(Heard) = Len(events) + Len(toPage)
         /\ \A i \in 1..Len(events) : Heard[i] = events[Len(events) - i + 1]
         /\ \A i \in (Len(events) + 1)..Len(Heard) : Heard[i] = toPage[i - Len(events)]
<1> DEFINE log == Reverse(events)
<1>1. log \in Seq(Messages) /\ Len(log) = Len(events)
      /\ \A i \in 1..Len(events) : log[i] = events[Len(events) - i + 1]
  BY ChannelsTyped, ReverseProperties
<1> HIDE DEF log
<1>2. /\ log \o toPage \in Seq(Messages)
      /\ Len(log \o toPage) = Len(log) + Len(toPage)
      /\ \A i \in 1..(Len(log) + Len(toPage)) :
           (log \o toPage)[i] = IF i <= Len(log) THEN log[i] ELSE toPage[i - Len(log)]
  BY <1>1, ChannelsTyped, ConcatProperties
<1>3. Heard = log \o toPage
  BY DEF Heard, Rows, log
<1>4. QED
  BY <1>1, <1>2, <1>3, ChannelsTyped

LEMMA OrderedReplies ==
  ASSUME UiTypes, Ordered
  PROVE  RepliesInOrder
<1> DEFINE line == Heard \o toHost
           n == Len(events)
           h == Len(Heard)
<1>1. /\ n \in Nat /\ h = n + Len(toPage) /\ Len(toPage) \in Nat /\ Len(toHost) \in Nat
      /\ Heard \in Seq(Messages)
      /\ \A i \in 1..n : Heard[i] = events[n - i + 1]
      /\ \A i \in (n + 1)..h : Heard[i] = toPage[i - n]
  BY HeardByIndex, ChannelsTyped
<1>2. /\ DOMAIN line = 1..(h + Len(toHost))
      /\ \A i \in 1..(h + Len(toHost)) :
           line[i] = IF i <= h THEN Heard[i] ELSE toHost[i - h]
  <2>1. Heard \in Seq(Messages \union Requests) /\ toHost \in Seq(Messages \union Requests)
    BY <1>1, ChannelsTyped, SeqMonotonic
  <2>2. QED
    BY <2>1, ConcatProperties, LenProperties
<1>3. ASSUME NEW i \in DOMAIN line
      PROVE  \/ i <= n /\ n - i + 1 \in 1..n /\ line[i] = events[n - i + 1]
             \/ n < i /\ i <= h /\ i - n \in 1..Len(toPage) /\ line[i] = toPage[i - n]
             \/ h < i /\ i - h \in 1..Len(toHost) /\ line[i] = toHost[i - h]
  <2>1. /\ i \in 1..(h + Len(toHost))
        /\ line[i] = IF i <= h THEN Heard[i] ELSE toHost[i - h]
    BY <1>2
  <2> HIDE DEF line, n, h
  <2>2. CASE i <= n
    <3>0. i \in 1..n
      BY <1>1, <2>1, <2>2
    <3>1. i <= h /\ n - i + 1 \in 1..n /\ Heard[i] = events[n - i + 1]
      BY <1>1, <3>0
    <3>2. QED
      BY <2>1, <2>2, <3>1
  <2>3. CASE n < i /\ i <= h
    <3>1. i \in (n + 1)..h /\ i - n \in 1..Len(toPage)
      BY <1>1, <2>1, <2>3
    <3>2. QED
      BY <1>1, <2>1, <2>3, <3>1
  <2>4. CASE h < i
    BY <1>1, <2>1, <2>4
  <2>5. QED
    BY <1>1, <2>1, <2>2, <2>3, <2>4
<1>4. /\ Falling(events) /\ Rising(toPage) /\ Rising(toHost)
      /\ Before(events, toPage) /\ Before(events, toHost) /\ Before(toPage, toHost)
  BY DEF Ordered
<1>5. ASSUME NEW i \in DOMAIN line, NEW j \in DOMAIN line, i < j,
             line[i].request # 0, line[j].request # 0
      PROVE  line[i].request < line[j].request
  <2>0. i \in Int /\ j \in Int
    BY <1>1, <1>2
  <2> HIDE DEF line, n, h
  <2>1. CASE i <= n /\ n - i + 1 \in 1..n /\ line[i] = events[n - i + 1]
    <3>1. CASE j <= n /\ n - j + 1 \in 1..n /\ line[j] = events[n - j + 1]
      <4>1. n - j + 1 < n - i + 1
        BY <1>1, <1>5, <2>0
      <4>2. QED
        BY <1>4, <1>5, <2>1, <3>1, <4>1 DEF Falling, n
    <3>2. CASE j - n \in 1..Len(toPage) /\ line[j] = toPage[j - n]
      BY <1>4, <1>5, <2>1, <3>2 DEF Before, n
    <3>3. CASE j - h \in 1..Len(toHost) /\ line[j] = toHost[j - h]
      BY <1>4, <1>5, <2>1, <3>3 DEF Before, n
    <3>4. QED
      BY <1>3, <3>1, <3>2, <3>3
  <2>2. CASE n < i /\ i <= h /\ i - n \in 1..Len(toPage) /\ line[i] = toPage[i - n]
    <3>1. CASE j - n \in 1..Len(toPage) /\ line[j] = toPage[j - n]
      <4>1. i - n < j - n
        BY <1>1, <1>5, <2>0
      <4>2. QED
        BY <1>4, <1>5, <2>2, <3>1, <4>1 DEF Rising
    <3>2. CASE j - h \in 1..Len(toHost) /\ line[j] = toHost[j - h]
      BY <1>4, <1>5, <2>2, <3>2 DEF Before
    <3>3. n < j
      BY <1>1, <1>5, <2>0, <2>2
    <3>4. QED
      BY <1>1, <1>3, <2>0, <3>1, <3>2, <3>3
  <2>3. CASE h < i /\ i - h \in 1..Len(toHost) /\ line[i] = toHost[i - h]
    <3>1. h < j
      BY <1>1, <1>5, <2>0, <2>3
    <3>2. j - h \in 1..Len(toHost) /\ line[j] = toHost[j - h]
      BY <1>1, <1>3, <2>0, <3>1
    <3>3. i - h < j - h
      BY <1>1, <1>5, <2>0
    <3>4. QED
      BY <1>4, <1>5, <2>3, <3>2, <3>3 DEF Rising
  <2>4. QED
    BY <1>3, <2>1, <2>2, <2>3
<1>6. QED
  BY <1>5 DEF RepliesInOrder

LEMMA SaidCurrent ==
  ASSUME UiTypes, Said
  PROVE  ShownCounterIsCurrent
<1> DEFINE n == Len(events)
           h == Len(Heard)
<1>1. /\ n \in Nat /\ h = n + Len(toPage) /\ Len(toPage) \in Nat
      /\ Heard \in Seq(Messages) /\ DOMAIN Heard = 1..h
      /\ \A i \in 1..n : Heard[i] = events[n - i + 1]
      /\ \A i \in (n + 1)..h : Heard[i] = toPage[i - n]
  BY HeardByIndex, ChannelsTyped, LenProperties
<1>2. LastTrue(toPage, counter, script) /\ (Silent(toPage) => FirstTrue(events, counter, script))
  BY DEF Said
<1>3. \A m : TrueOf(m, counter, script) <=> Agrees(m)
  BY DEF TrueOf, Agrees
<1>4. ASSUME NEW i \in 1..h, AboutCounter(Heard[i]),
             \A j \in (i + 1)..h : ~AboutCounter(Heard[j])
      PROVE  TrueOf(Heard[i], counter, script)
  <2> HIDE DEF n, h
  <2>1. CASE i > n
    <3>1. i - n \in 1..Len(toPage) /\ Heard[i] = toPage[i - n]
      BY <1>1, <2>1
    <3>2. ASSUME NEW j \in (i - n + 1)..Len(toPage)
          PROVE  ~AboutCounter(toPage[j])
      <4>1. j + n \in (i + 1)..h /\ j + n \in (n + 1)..h /\ j + n - n = j
        BY <1>1, <2>1
      <4>2. Heard[j + n] = toPage[j]
        BY <1>1, <4>1
      <4>3. QED
        BY <1>4, <4>1, <4>2
    <3>3. QED
      BY <1>2, <1>4, <3>1, <3>2 DEF LastTrue
  <2>2. CASE i <= n
    <3>1. n - i + 1 \in 1..n /\ Heard[i] = events[n - i + 1]
      BY <1>1, <2>2
    <3>2. ASSUME NEW j \in 1..Len(toPage)
          PROVE  ~AboutCounter(toPage[j])
      <4>1. j + n \in (i + 1)..h /\ j + n \in (n + 1)..h /\ j + n - n = j
        BY <1>1, <2>2
      <4>2. Heard[j + n] = toPage[j]
        BY <1>1, <4>1
      <4>3. QED
        BY <1>4, <4>1, <4>2
    <3>3. ASSUME NEW j \in 1..(n - i + 1 - 1)
          PROVE  ~AboutCounter(events[j])
      <4>1. n - j + 1 \in (i + 1)..h /\ n - j + 1 \in 1..n /\ n - (n - j + 1) + 1 = j
        BY <1>1, <2>2
      <4>2. Heard[n - j + 1] = events[j]
        BY <1>1, <4>1
      <4>3. QED
        BY <1>4, <4>1, <4>2
    <3>4. Silent(toPage)
      BY <3>2 DEF Silent
    <3>5. QED
      BY <1>2, <1>4, <3>1, <3>3, <3>4 DEF FirstTrue, n
  <2>3. QED
    BY <1>1, <2>1, <2>2
<1>5. ASSUME toPage = <<>>, AlertBox.title = "native-script-counter"
      PROVE  AlertBox.text = [form |-> "values", of |-> <<counter>>]
  <2>1. events # <<>>
    BY <1>5 DEF AlertBox
  <2>2. 1 \in 1..n /\ Head(events) = events[1]
    BY <2>1, ChannelsTyped, EmptySeq, HeadTailProperties
  <2>3. AlertBox = [severity |-> IF Head(events).type = "error" THEN "error" ELSE "info",
                    title |-> Head(events).type,
                    text |-> eventSummary(Head(events))]
    BY <2>1 DEF AlertBox
  <2>4. AlertBox.title = Head(events).type /\ AlertBox.text = eventSummary(Head(events))
    BY <2>3
  <2>5. AboutCounter(events[1])
    BY <1>5, <2>2, <2>4 DEF AboutCounter
  <2>6. Silent(toPage)
    BY <1>5, EmptySeq DEF Silent
  <2>7. TrueOf(events[1], counter, script)
    BY <1>2, <2>2, <2>5, <2>6 DEF FirstTrue
  <2>8. events[1].values = <<counter>>
    BY <1>5, <2>2, <2>4, <2>7 DEF TrueOf
  <2>9. <<counter>> # <<>>
    OBVIOUS
  <2>10. QED
    BY <2>2, <2>4, <2>8, <2>9 DEF eventSummary
<1>6. QED
  BY <1>1, <1>3, <1>4, <1>5 DEF ShownCounterIsCurrent

-----------------------------------------------------------------------------
(* The invariant and the theorems.                                          *)

HInv == Startup /\ UiTypes /\ Reach /\ Ordered /\ Said

LEMMA InitHInv == Init => HInv
<1> SUFFICES ASSUME Init
             PROVE  HInv
  OBVIOUS
<1>1. Startup
  BY InitStartup DEF Init
<1>2. /\ events = <<>> /\ toPage = <<>> /\ toHost = <<>> /\ asked = 0
      /\ page = "none" /\ listeners = 0 /\ webview \in BOOLEAN
      /\ bridgeReady = FALSE /\ hostReady = FALSE /\ answered = {} /\ process = "new"
      /\ bridge = FALSE /\ navigating = 0 /\ reloads = 0 /\ script = FALSE /\ counter = 0
  BY DEF Init, UiInit, StartupInit
<1>3. Len(<<>>) = 0 /\ \A S : <<>> \in Seq(S)
  BY EmptySeq
<1>4. /\ bridgeReady \in BOOLEAN /\ hostReady \in BOOLEAN
      /\ bridge \in BOOLEAN /\ script \in BOOLEAN
  BY <1>2
<1>5. UiTypes
  <2>1. /\ events \in Seq(Messages) /\ toPage \in Seq(Messages)
        /\ toHost \in Seq([action : Buttons, request : 1..MaxRequests])
        /\ Len(events) <= Kept /\ Len(toHost) = 0
    BY <1>2, <1>3
  <2>2. page \in PageStates /\ listeners = IF webview /\ page = "mounted" THEN 1 ELSE 0
    BY <1>2 DEF PageStates
  <2>3. UiTypeOK
    BY <1>2, <1>4, <2>1, <2>2 DEF UiTypeOK
  <2>4. QED
    BY <1>2, <1>4, <2>1, <2>3 DEF UiTypes
<1>6. Reach
  BY <1>2 DEF Reach
<1>7. Ordered /\ Said
  BY <1>2, <1>3 DEF Ordered, Said, UpTo, Falling, Rising, Before, LastTrue, FirstTrue
<1>8. QED
  BY <1>1, <1>5, <1>6, <1>7 DEF HInv

LEMMA HInvStep == HInv /\ [Next]_vars => HInv'
<1> SUFFICES ASSUME HInv, [Next]_vars
             PROVE  HInv'
  OBVIOUS
<1>1. Startup /\ UiTypes /\ Reach /\ Ordered /\ Said
  BY DEF HInv
<1>2. Startup' /\ UiTypes' /\ Reach' /\ Shape
  BY <1>1, StartupKept, UiStep
<1>3. Ordered' /\ Said'
  BY <1>1, <1>2, OrderStep, SaidStep
<1>4. QED
  BY <1>2, <1>3 DEF HInv

\* What the theorems below rest on, in every reachable state.
THEOREM ShellInvariant == Spec => []HInv
BY InitHInv, HInvStep, PTL DEF Spec

\* MainWindow.xaml.cs, App.jsx: every variable keeps its type, a mounted
\* document of the shell has one message handler (App.jsx:103), the log never
\* outgrows Kept, and a document is navigated to once for the control and once
\* for each reload.
THEOREM ShellTyped == Spec => []TypeOK
<1>1. HInv => TypeOK
  <2> SUFFICES ASSUME HInv
               PROVE  TypeOK
    OBVIOUS
  <2>1. UiTypes /\ StartupTypeOK
    BY DEF HInv, Startup
  <2>2. counter \in 0..MaxRequests
    BY <2>1, ChannelsTyped DEF UiTypes
  <2>3. navigating \in 0..(MaxReloads + 1)
    BY <2>1 DEF UiTypes
  <2>4. QED
    BY <2>1, <2>2, <2>3 DEF TypeOK, UiTypes
<1>2. QED
  BY <1>1, ShellInvariant, PTL

\* Browser_OnWebMessageReceived and the page's handler: replies are posted and
\* logged in the order of the requests, and none twice, whatever is cleared,
\* cut or navigated away in between.
THEOREM RepliesOrdered == Spec => []RepliesInOrder
<1>1. HInv => RepliesInOrder
  BY OrderedReplies DEF HInv
<1>2. QED
  BY <1>1, ShellInvariant, PTL

\* App.jsx and RunNativeScriptCounter: the last the page heard of the counter
\* is true of it, and so is the number in the alert.
THEOREM CounterCurrent == Spec => []ShownCounterIsCurrent
<1>1. HInv => ShownCounterIsCurrent
  BY SaidCurrent DEF HInv
<1>2. QED
  BY <1>1, ShellInvariant, PTL

\* WebAssetExtractor and TryInitializeBrowserAsync: an attempt that no later
\* one overtook shows a browser whose page finds all its files whole.
THEOREM ShownServed == Spec => ServedWhenShown
<1> DEFINE Serves ==
      \A a \in Attempts :
        ShowBrowser(a) /\ (\A b \in Attempts : b > a => phase[b] = "idle") => Served'
<1>1. HInv => Serves
  <2> SUFFICES ASSUME HInv, NEW a \in Attempts, ShowBrowser(a),
                      \A b \in Attempts : b > a => phase[b] = "idle"
               PROVE  Served'
    OBVIOUS
  <2>1. phase[a] = "ensuring" /\ disk' = disk
    BY DEF ShowBrowser, ControllerReady
  <2>2. AllWhole(disk)
    BY <2>1 DEF HInv, Startup, LatestWhole
  <2>3. BundleFiles \subseteq Paths
    BY BundleAssumption DEF Paths
  <2>4. QED
    BY <2>1, <2>2, <2>3 DEF Served, AllWhole
<1>2. HInv => [Serves]_vars
  BY <1>1
<1>3. QED
  BY <1>2, ShellInvariant, PTL DEF ServedWhenShown

\* TryInitializeBrowserAsync: the fallback hides a started shell only when an
\* attempt that began before the shell was started fails.
THEOREM ShellStays == Spec => ShellStaysShown
<1> DEFINE Stays ==
      browserInitialized /\ panel # "fallback" /\ panel' = "fallback" =>
         \E late, first \in Attempts :
           phase[late] = "creating" /\ phase[first] = "done"
<1>1. HInv /\ [Next]_vars => [Stays]_vars
  <2> SUFFICES ASSUME HInv, Next, browserInitialized, panel # "fallback",
                      panel' = "fallback"
               PROVE  \E late, first \in Attempts :
                        phase[late] = "creating" /\ phase[first] = "done"
    OBVIOUS
  <2>1. /\ control = "ready"
        /\ \E first \in Attempts : phase[first] = "done"
        /\ \A a \in Attempts : phase[a] # "ensuring"
    BY DEF HInv, Startup, OneControl
  <2>2. PICK a \in Attempts : Attempt(a)
    <3>1. CASE Launch \/ Exit
      BY <3>1 DEF Launch, Exit, LaunchProcess, EndProcess
    <3>2. CASE \/ Reload \/ NavigationCompleted \/ OnWebMessageReceived
               \/ PageStep \/ UserStep
      BY <3>2 DEF startupVars, Reload, NavigationCompleted, OnWebMessageReceived, Ping,
         GetHostInfo, RunNativeGlobal, RunNativeScriptCounter,
         RunNativeScriptCounterFails, ResetNativeScriptCounter,
         ResetNativeScriptCounterFails, Reply, ReplyError, PageStep, UserStep, Page
    <3>3. ASSUME NEW a \in Attempts, ShowBrowser(a)
          PROVE  FALSE
      BY <3>3 DEF ShowBrowser, ControllerReady
    <3>4. QED
      BY <3>1, <3>2, <3>3 DEF Next
  <2>3. phase[a] = "creating"
    BY <2>1, <2>2 DEF Attempt, AttemptStep, ExtractAssets, ExtractAssetsFails,
       CreateFails, EnsureBrowser, EnsureBrowserRefused, ControllerFails,
       ShellSetupFails
  <2>4. QED
    BY <2>1, <2>3
<1>2. QED
  BY <1>1, ShellInvariant, PTL DEF Spec, ShellStaysShown

=============================================================================
