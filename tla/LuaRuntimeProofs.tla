--------------------------- MODULE LuaRuntimeProofs ---------------------------
(***************************************************************************)
(* Safety of LuaRuntime for any callers, scripts, references and number of *)
(* timers.  Types are proved part by part, since a step of the host leaves *)
(* the Lua side alone and the other way round; the other invariants rest   *)
(* on them.                                                                *)
(***************************************************************************)
EXTENDS LuaRuntime, SequenceTheorems, TLAPS

\* What the worker is at goes with what it has in hand.
WorkerOK ==
  /\ worker \in WorkerAt
  /\ signalled \in BOOLEAN
  /\ running \in Request \cup {None}
  /\ running # None <=> worker \in {"task", "chunk"}
  /\ firing \in TimerIds \cup {None}
  /\ worker = "callback" => firing # None
  /\ currentScriptId \in Scripts \cup {None}

\* The host's side: queue, promises and the destructor.
HostOK ==
  /\ tasks \in Seq(Request)
  /\ stopping \in BOOLEAN
  /\ promised \subseteq Callers
  /\ destructor \in {"none", "notifying", "joining", "joined"}
  /\ callers \in [Callers -> {"idle", "notifying", "waiting"}]

\* Ids that were not handed out name no timer, so that a new timer is not due.
TimersOK ==
  /\ timers \in [TimerIds -> TimerRecord \cup {None}]
  /\ nextTimerId \in 1 .. MaxTimers + 1
  /\ due \subseteq TimerIds
  /\ ahead \subseteq due \X due
  /\ \A id \in due : Enabled(id)
  /\ \A id \in TimerIds : id >= nextTimerId => timers[id] = None

\* Lua references.
RefsOK ==
  /\ registry \subseteq Refs
  /\ environments \in [Scripts -> Refs \cup {NoRef}]

\* What the worker's scripts keep in the session.
SessionOK ==
  /\ contexts \subseteq Scripts
  /\ allocations \in [Scripts -> 0 .. MaxLocals]

\* The type invariant, part by part.
TInv == WorkerOK /\ HostOK /\ TimersOK /\ RefsOK /\ SessionOK

USE OperationsAssumption, ScriptsAssumption, RefsAssumption, BoundsAssumption,
    NoneAssumption

-----------------------------------------------------------------------------
(* Types.                                                                  *)

\* Init establishes the types: nothing is queued, no timer exists.
LEMMA InitTInv == Init => TInv
<1> SUFFICES ASSUME Init PROVE TInv
  OBVIOUS
<1>1. WorkerOK
  BY DEF Init, WorkerOK, WorkerAt
<1>2. HostOK
  BY EmptySeq DEF Init, HostOK
<1>3. TimersOK
  BY DEF Init, TimersOK
<1>4. RefsOK /\ SessionOK
  BY DEF Init, RefsOK, SessionOK
<1>5. QED
  BY <1>1, <1>2, <1>3, <1>4 DEF TInv

\* A timer that exists has a record.
LEMMA RecordOf ==
  ASSUME TimersOK, NEW id \in TimerIds, timers[id] # None
  PROVE  /\ timers[id] \in TimerRecord
         /\ id < nextTimerId
<1>1. timers[id] \in TimerRecord
  BY DEF TimersOK
<1>2. id < nextTimerId
  BY DEF TimersOK, TimerIds
<1>3. QED
  BY <1>1, <1>2

\* destroyTimer leaves the timer table well formed.
LEMMA DestroyTimersTyped ==
  ASSUME TimersOK, NEW ids, DestroyTimers(ids), UNCHANGED nextTimerId
  PROVE  TimersOK'
BY DEF TimersOK, DestroyTimers, NotDue, Enabled

\* Scheduling timers anew leaves the timer table well formed.
LEMMA NotDueTyped ==
  ASSUME TimersOK, NEW ids, NotDue(ids), UNCHANGED <<timers, nextTimerId>>
  PROVE  TimersOK'
BY DEF TimersOK, NotDue, Enabled

\* So does a change of one timer that exists and is not due any more, or that
\* stays as enabled as it was.
LEMMA ChangeTyped ==
  ASSUME TimersOK, NEW id \in TimerIds, timers[id] # None,
         NEW r \in TimerRecord, Timer(id, r), UNCHANGED nextTimerId,
         \/ NotDue({id})
         \/ UNCHANGED <<due, ahead>> /\ r.enabled = timers[id].enabled
  PROVE  TimersOK'
<1>1. /\ timers' \in [TimerIds -> TimerRecord \cup {None}]
      /\ \A other \in TimerIds : timers'[other] = IF other = id THEN r ELSE timers[other]
  BY DEF TimersOK, Timer
<1>2. r # None
  OBVIOUS
<1>3. \A other \in TimerIds : other >= nextTimerId' => timers'[other] = None
  BY <1>1 DEF TimersOK
<1>4. due' \subseteq TimerIds /\ ahead' \subseteq due' \X due'
  BY DEF TimersOK, NotDue
<1>5. \A other \in due' : Enabled(other)'
  BY <1>1, <1>2 DEF TimersOK, NotDue, Enabled
<1>6. QED
  BY <1>1, <1>3, <1>4, <1>5 DEF TimersOK

\* createTimer takes an id that names no timer.
LEMMA CreateTyped ==
  ASSUME TInv, CreateTimer
  PROVE  TimersOK' /\ RefsOK'
<1>1. nextTimerId \in TimerIds /\ timers[nextTimerId] = None /\ nextTimerId \notin due
  BY DEF TInv, TimersOK, CreateTimer, TimerIds, Enabled
<1>2. ASSUME NEW r \in TimerRecord, Timer(nextTimerId, r)
      PROVE  TimersOK'
  <2>1. /\ timers' \in [TimerIds -> TimerRecord \cup {None}]
        /\ \A other \in TimerIds :
             timers'[other] = IF other = nextTimerId THEN r ELSE timers[other]
    BY <1>2 DEF TInv, TimersOK, Timer
  <2>2. nextTimerId' = nextTimerId + 1 /\ UNCHANGED <<due, ahead>>
    BY DEF CreateTimer
  <2>3. QED
    BY <1>1, <2>1, <2>2 DEF TInv, TimersOK, Enabled, TimerIds
<1>3. currentScriptId \in Scripts \cup {None}
  BY DEF TInv, WorkerOK
<1>4. CASE UNCHANGED <<timers, registry>>
  <2>1. TimersOK'
    BY <1>1, <1>4 DEF TInv, TimersOK, CreateTimer, TimerIds, Enabled
  <2>2. QED
    BY <2>1, <1>4 DEF TInv, RefsOK, CreateTimer
<1>5. ASSUME NEW e \in BOOLEAN, UNCHANGED registry,
             Timer(nextTimerId, [owner |-> currentScriptId, enabled |-> e,
                                 oneshot |-> FALSE, callback |-> NoRef])
      PROVE  TimersOK' /\ RefsOK'
  <2>1. [owner |-> currentScriptId, enabled |-> e,
         oneshot |-> FALSE, callback |-> NoRef] \in TimerRecord
    BY <1>3 DEF TimerRecord
  <2>2. QED
    BY <1>2, <1>5, <2>1 DEF TInv, RefsOK, CreateTimer
<1>6. ASSUME NEW r \in Refs \ registry, registry' = registry \cup {r},
             Timer(nextTimerId, [owner |-> currentScriptId, enabled |-> TRUE,
                                 oneshot |-> TRUE, callback |-> r])
      PROVE  TimersOK' /\ RefsOK'
  <2>1. [owner |-> currentScriptId, enabled |-> TRUE,
         oneshot |-> TRUE, callback |-> r] \in TimerRecord
    BY <1>3 DEF TimerRecord
  <2>2. QED
    BY <1>2, <1>6, <2>1 DEF TInv, RefsOK, CreateTimer
<1>7. QED
  BY <1>4, <1>5, <1>6 DEF CreateTimer

\* What Lua code does keeps timers, references and contexts well formed.
LEMMA LuaStepTyped ==
  ASSUME TInv, LuaStep
  PROVE  TInv'
<1> USE DEF TInv
<1>a. WorkerOK' /\ HostOK'
  BY DEF LuaStep, workerVars, queueVars, hostVars, WorkerOK, HostOK
<1>1. CASE CreateTimer
  <2>1. SessionOK'
    BY <1>1 DEF CreateTimer, sessionVars, SessionOK
  <2>2. QED
    BY <1>a, <1>1, <2>1, CreateTyped
<1>2. CASE UseContext
  <2>1. TimersOK' /\ RefsOK'
    BY <1>2 DEF UseContext, luaVars, TimersOK, RefsOK, Enabled
  <2>2. CurrentContext \in Scripts
    BY DEF CurrentContext, WorkerOK
  <2>3. SessionOK'
    BY <1>2, <2>2 DEF UseContext, SessionOK
  <2>4. QED
    BY <1>a, <2>1, <2>3
<1>3. ASSUME NEW id \in TimerIds, timers[id] # None,
             \/ SetInterval(id)
             \/ \E enabled \in BOOLEAN : SetEnabled(id, enabled)
             \/ ClearOnTimer(id)
             \/ SetOnTimer(id)
             \/ DestroyTimer(id)
      PROVE  TInv'
  <2> /\ timers[id].owner \in Scripts \cup {None}
      /\ timers[id].enabled \in BOOLEAN
      /\ timers[id].oneshot \in BOOLEAN
      /\ timers[id].callback \in Refs \cup {NoRef}
      /\ timers[id] \in TimerRecord
    BY <1>3, RecordOf DEF TimerRecord
  <2>1. SessionOK'
    BY <1>3 DEF SetInterval, SetEnabled, ClearOnTimer, SetOnTimer, DestroyTimer,
                sessionVars, SessionOK
  <2>2. CASE SetInterval(id)
    BY <1>a, <2>1, <2>2, NotDueTyped DEF SetInterval, RefsOK
  <2>3. ASSUME NEW enabled \in BOOLEAN, SetEnabled(id, enabled)
        PROVE  TInv'
    <3>1. [timers[id] EXCEPT !.enabled = enabled] \in TimerRecord
      BY DEF TimerRecord
    <3>2. TimersOK'
      BY <1>3, <2>3, <3>1, ChangeTyped DEF SetEnabled
    <3>3. QED
      BY <1>a, <2>1, <2>3, <3>2 DEF SetEnabled, RefsOK
  <2>4. CASE ClearOnTimer(id)
    <3>1. /\ [timers[id] EXCEPT !.callback = NoRef] \in TimerRecord
          /\ [timers[id] EXCEPT !.callback = NoRef].enabled = timers[id].enabled
      BY DEF TimerRecord
    <3>2. TimersOK'
      BY <1>3, <2>4, <3>1, ChangeTyped DEF ClearOnTimer
    <3>3. QED
      BY <1>a, <2>1, <2>4, <3>2 DEF ClearOnTimer, RefsOK, Without
  <2>5. CASE SetOnTimer(id)
    <3>1. PICK r \in Refs \ Without(timers[id].callback) :
            /\ registry' = Without(timers[id].callback) \cup {r}
            /\ Timer(id, [timers[id] EXCEPT !.callback = r])
      BY <2>5 DEF SetOnTimer
    <3>2. /\ [timers[id] EXCEPT !.callback = r] \in TimerRecord
          /\ [timers[id] EXCEPT !.callback = r].enabled = timers[id].enabled
      BY DEF TimerRecord
    <3>3. TimersOK'
      BY <1>3, <2>5, <3>1, <3>2, ChangeTyped DEF SetOnTimer
    <3>4. QED
      BY <1>a, <2>1, <2>5, <3>1, <3>3 DEF SetOnTimer, RefsOK, Without
  <2>6. CASE DestroyTimer(id)
    BY <1>a, <2>1, <2>6, DestroyTimersTyped DEF DestroyTimer, RefsOK
  <2>7. QED
    BY <1>3, <2>2, <2>3, <2>4, <2>5, <2>6
<1>4. QED
  BY <1>1, <1>2, <1>3 DEF LuaStep

\* Calls, notifications and the destructor touch nothing of Lua's.
LEMMA HostStepTyped ==
  ASSUME TInv, HostStep
  PROVE  TInv'
<1> USE DEF TInv
<1>a. ASSUME UNCHANGED <<luaVars, sessionVars>>
      PROVE  TimersOK' /\ RefsOK' /\ SessionOK'
  BY <1>a DEF luaVars, sessionVars, TimersOK, RefsOK, SessionOK, Enabled
<1>b. UNCHANGED <<luaVars, sessionVars>>
  BY DEF HostStep, Submit, Notify, Return, Stop, NotifyStop, Join
<1>c. WorkerOK'
  BY DEF HostStep, Submit, Notify, Return, Stop, NotifyStop, Join,
         Notification, workerVars, WorkerOK
<1>1. ASSUME NEW c \in Callers, Submit(c) PROVE HostOK'
  <2>1. PICK request \in Request : tasks' = Append(tasks, request)
    BY <1>1 DEF Submit
  <2>2. tasks' \in Seq(Request)
    BY <2>1, AppendProperties DEF HostOK
  <2>3. QED
    BY <1>1, <2>2 DEF Submit, HostOK
<1>2. ASSUME NEW c \in Callers, Notify(c) \/ Return(c) PROVE HostOK'
  BY <1>2 DEF Notify, Return, HostOK, queueVars
<1>3. ASSUME Stop PROVE HostOK'
  BY <1>3 DEF Stop, HostOK
<1>4. ASSUME NotifyStop \/ Join PROVE HostOK'
  BY <1>4 DEF NotifyStop, Join, HostOK, queueVars
<1>5. QED
  BY <1>a, <1>b, <1>c, <1>1, <1>2, <1>3, <1>4 DEF HostStep

\* The worker's steps between calls: it starts, sleeps, wakes and exits.
LEMMA IdleStepTyped ==
  ASSUME TInv,
         \/ Start \/ StartFails \/ Sleep \/ Wake \/ Timeout \/ SpuriousWake
         \/ CallbackThrows
  PROVE  TInv'
<1> USE DEF TInv
<1>1. HostOK' /\ TimersOK' /\ RefsOK' /\ SessionOK'
  BY DEF Start, StartFails, Sleep, Wake, Timeout, SpuriousWake, WakeUnsignalled,
         CallbackThrows, queueVars, hostVars, luaVars, sessionVars,
         HostOK, TimersOK, RefsOK, SessionOK, Enabled
<1>2. CASE Start \/ StartFails \/ Sleep \/ CallbackThrows
  BY <1>1, <1>2 DEF Start, StartFails, Sleep, CallbackThrows, WorkerOK, WorkerAt
<1>3. CASE Wake \/ Timeout \/ SpuriousWake
  BY <1>1, <1>3 DEF Wake, Timeout, SpuriousWake, WakeUnsignalled, WorkerOK, WorkerAt
<1>4. QED
  BY <1>2, <1>3

\* Taking a call off the queue.
LEMMA TakeTyped ==
  ASSUME TInv, TakeTask
  PROVE  TInv'
<1> USE DEF TInv
<1>1. Head(tasks) \in Request /\ Tail(tasks) \in Seq(Request)
  BY HeadTailProperties DEF TakeTask, HostOK
<1>2. WorkerOK'
  BY <1>1 DEF TakeTask, WorkerOK, WorkerAt
<1>3. HostOK'
  BY <1>1 DEF TakeTask, HostOK, hostVars
<1>4. TimersOK' /\ RefsOK' /\ SessionOK'
  BY DEF TakeTask, luaVars, sessionVars, TimersOK, RefsOK, SessionOK, Enabled
<1>5. QED
  BY <1>2, <1>3, <1>4

\* The end of the loop forgets every timer and reference.
LEMMA ExitTyped ==
  ASSUME TInv, Exit
  PROVE  TInv'
<1> USE DEF TInv, Exit, CloseState
<1>1. WorkerOK'
  BY DEF WorkerOK, WorkerAt
<1>2. HostOK'
  BY DEF HostOK, queueVars, hostVars
<1>3. TimersOK'
  BY DEF TimersOK
<1>4. RefsOK' /\ SessionOK'
  BY DEF RefsOK, SessionOK, sessionVars
<1>5. QED
  BY <1>1, <1>2, <1>3, <1>4

\* A due timer fires, with or without a callback.
LEMMA FireTyped ==
  ASSUME TInv, NEW id \in TimerIds, FireSilent(id) \/ FireCallback(id)
  PROVE  TInv'
<1> USE DEF TInv
<1>1. HostOK' /\ RefsOK' /\ SessionOK'
  BY DEF FireSilent, FireCallback, Fire, queueVars, hostVars, sessionVars,
         HostOK, RefsOK, SessionOK
<1>2. CASE FireSilent(id)
  <2>1. WorkerOK'
    BY <1>2 DEF FireSilent, Fire, WorkerOK
  <2>2. TimersOK'
    BY <1>2, NotDueTyped DEF FireSilent, Fire
  <2>3. QED
    BY <1>1, <2>1, <2>2
<1>3. CASE FireCallback(id)
  <2>1. timers[id] # None
    BY <1>3 DEF FireCallback, Fire, TimersOK, Enabled
  <2>2. timers[id].owner \in Scripts \cup {None}
    BY <2>1, RecordOf DEF TimerRecord
  <2>3. WorkerOK'
    BY <1>3, <2>2 DEF FireCallback, Fire, WorkerOK, WorkerAt
  <2>4. TimersOK'
    BY <1>3 DEF FireCallback, Fire, TimersOK, Enabled
  <2>5. QED
    BY <1>1, <2>3, <2>4
<1>4. QED
  BY <1>2, <1>3

\* A callback returns or fails.
LEMMA CallbackDoneTyped ==
  ASSUME TInv, CallbackReturns \/ CallbackFails
  PROVE  TInv'
<1> USE DEF TInv
<1>1. HostOK' /\ SessionOK' /\ WorkerOK'
  BY DEF CallbackReturns, CallbackFails, CallbackEnds, queueVars, hostVars,
         sessionVars, HostOK, SessionOK, WorkerOK, WorkerAt
<1>2. firing \in TimerIds
  BY DEF CallbackReturns, CallbackFails, CallbackEnds, WorkerOK
<1>3. RefsOK'
  BY DEF CallbackReturns, CallbackFails, CallbackEnds, RefsOK
<1>4. CASE CallbackReturns
  <2>1. CASE UNCHANGED <<timers, due, ahead, registry>>
    BY <1>1, <1>3, <1>4, <2>1 DEF CallbackReturns, CallbackEnds, TimersOK, Enabled
  <2>2. CASE DestroyTimers({firing})
    BY <1>1, <1>3, <1>4, <2>2, DestroyTimersTyped DEF CallbackReturns, CallbackEnds
  <2>3. CASE NotDue({firing}) /\ UNCHANGED <<timers, registry>>
    BY <1>1, <1>3, <1>4, <2>3, NotDueTyped DEF CallbackReturns, CallbackEnds
  <2>4. QED
    BY <1>4, <2>1, <2>2, <2>3 DEF CallbackReturns
<1>5. CASE CallbackFails
  <2>1. CASE timers[firing] = None
    <3>1. UNCHANGED timers
      BY <1>5, <2>1 DEF CallbackFails, TimersOK
    <3>2. QED
      BY <1>1, <1>3, <1>5, <3>1, NotDueTyped DEF CallbackFails, CallbackEnds
  <2>2. CASE timers[firing] # None
    <3>1. [timers[firing] EXCEPT !.enabled = FALSE] \in TimerRecord
      BY <1>2, <2>2, RecordOf DEF TimerRecord
    <3>2. Timer(firing, [timers[firing] EXCEPT !.enabled = FALSE])
      BY <1>2, <1>5, <2>2 DEF CallbackFails, Timer, TimersOK
    <3>3. TimersOK'
      BY <1>2, <1>5, <2>2, <3>1, <3>2, ChangeTyped DEF CallbackFails, CallbackEnds
    <3>4. QED
      BY <1>1, <1>3, <3>3
  <2>3. QED
    BY <2>1, <2>2
<1>6. QED
  BY <1>4, <1>5

\* The end of a call, and the start of a chunk.
LEMMA AnswerTyped ==
  ASSUME TInv, worker \in {"task", "chunk"}, NEW s \in Scripts \cup {None},
         Answer \/ EnterChunk(s)
  PROVE  WorkerOK' /\ HostOK'
<1> USE DEF TInv
<1>1. WorkerOK'
  BY DEF Answer, EnterChunk, WorkerOK, WorkerAt
<1>2. HostOK'
  BY DEF Answer, EnterChunk, queueVars, hostVars, HostOK
<1>3. QED
  BY <1>1, <1>2

\* What the worker serves is a request.
LEMMA ServedRequest ==
  ASSUME TInv, worker \in {"task", "chunk"}
  PROVE  /\ running \in Request /\ running.caller \in Callers
         /\ running.script \in Scripts /\ running # None
BY DEF TInv, WorkerOK, Request

\* Calls keep the types.
LEMMA TaskTyped ==
  ASSUME TInv, Task \/ ChunkEnds
  PROVE  TInv'
<1> USE DEF TInv
<1>a. worker \in {"task", "chunk"}
  BY DEF Task, ChunkEnds, RunGlobal, RunScript, DestroyScript,
         DestroyGlobalRefused, Serving
<1>b. running.script \in Scripts
  BY <1>a, ServedRequest
<1>1. CASE RunGlobal \/ DestroyGlobalRefused \/ ChunkEnds
  <2>1. WorkerOK' /\ HostOK'
    BY <1>1, <1>a, AnswerTyped DEF RunGlobal, DestroyGlobalRefused, ChunkEnds
  <2>2. TimersOK' /\ RefsOK' /\ SessionOK'
    BY <1>1 DEF RunGlobal, DestroyGlobalRefused, ChunkEnds, luaVars, sessionVars,
                TimersOK, RefsOK, SessionOK, Enabled
  <2>3. QED
    BY <2>1, <2>2
<1>2. CASE RunScript
  <2>1. WorkerOK' /\ HostOK'
    BY <1>2, <1>a, <1>b, AnswerTyped DEF RunScript
  <2>2. TimersOK' /\ SessionOK'
    BY <1>2, <1>b DEF RunScript, TimersOK, SessionOK, Enabled
  <2>3. RefsOK'
    BY <1>2, <1>b DEF RunScript, EnsureEnvironment, RefsOK
  <2>4. QED
    BY <2>1, <2>2, <2>3
<1>3. CASE DestroyScript
  <2>1. WorkerOK' /\ HostOK'
    BY <1>3, <1>a, AnswerTyped DEF DestroyScript
  <2>2. TimersOK'
    BY <1>3, DestroyTimersTyped DEF DestroyScript
  <2>3. RefsOK'
    BY <1>3, <1>b DEF DestroyScript, RefsOK
  <2>4. SessionOK'
    BY <1>3, <1>b DEF DestroyScript, ReleaseContext, SessionOK
  <2>5. QED
    BY <2>1, <2>2, <2>3, <2>4
<1>4. QED
  BY <1>1, <1>2, <1>3 DEF Task

\* Time passes.
LEMMA ExpireTyped ==
  ASSUME TInv, NEW id \in TimerIds, Expire(id)
  PROVE  TInv'
<1> USE DEF TInv, Expire
<1>1. WorkerOK' /\ HostOK' /\ RefsOK' /\ SessionOK'
  BY DEF workerVars, queueVars, hostVars, sessionVars,
         WorkerOK, HostOK, RefsOK, SessionOK
<1>2. TimersOK'
  BY DEF TimersOK, Enabled
<1>3. QED
  BY <1>1, <1>2

\* Every step keeps the types.
LEMMA NextTInv == TInv /\ [Next]_vars => TInv'
<1> SUFFICES ASSUME TInv, [Next]_vars PROVE TInv'
  OBVIOUS
<1>1. CASE Over \/ UNCHANGED vars
  BY <1>1 DEF Over, vars, workerVars, queueVars, hostVars, luaVars, sessionVars,
              TInv, WorkerOK, HostOK, TimersOK, RefsOK, SessionOK, Enabled
<1>2. CASE WorkerStep
  <2>1. CASE Loop
    BY <2>1, TakeTyped, IdleStepTyped, ExitTyped, FireTyped DEF Loop
  <2>2. CASE CallbackDone
    BY <2>2, CallbackDoneTyped, IdleStepTyped DEF CallbackDone
  <2>3. QED
    BY <1>2, <2>1, <2>2, IdleStepTyped, TaskTyped, LuaStepTyped DEF WorkerStep
<1>3. QED
  BY <1>1, <1>2, HostStepTyped, ExpireTyped DEF Next

\* Every variable of the runtime keeps its type, for any number of callers,
\* scripts, references and timers.
THEOREM TypeCorrect == Spec => []TypeOK
<1>1. TInv => TypeOK
  BY DEF TInv, WorkerOK, HostOK, TimersOK, RefsOK, SessionOK, TypeOK
<1>2. QED
  BY <1>1, InitTInv, NextTInv, PTL DEF Spec

-----------------------------------------------------------------------------
(* Wakeups.                                                                *)

\* Only the host makes the awaited predicate true, and it notifies later; only
\* the worker takes its own notification back, and looks again.
LEMMA NextNoLostWakeup ==
  ASSUME TInv, NoLostWakeup, [Next]_vars
  PROVE  NoLostWakeup'
<1> USE DEF NoLostWakeup
<1>1. ASSUME NEW c \in Callers, Submit(c) PROVE NoLostWakeup'
  <2>1. callers'[c] = "notifying"
    BY <1>1 DEF Submit, TInv, HostOK
  <2>2. QED
    BY <2>1
<1>2. ASSUME NEW c \in Callers, Notify(c) PROVE NoLostWakeup'
  BY <1>2 DEF Notify, Notification
<1>3. ASSUME NEW c \in Callers, Return(c) PROVE NoLostWakeup'
  <2>1. \A d \in Callers : callers[d] = "notifying" => callers'[d] = "notifying"
    BY <1>3 DEF Return, TInv, HostOK
  <2>2. QED
    BY <1>3, <2>1 DEF Return, workerVars, queueVars, Awaited
<1>4. CASE Stop
  BY <1>4 DEF Stop
<1>5. CASE NotifyStop
  BY <1>5 DEF NotifyStop, Notification
<1>6. CASE Join
  BY <1>6 DEF Join, workerVars
<1>7. CASE WorkerStep
  <2>1. CASE Sleep \/ Wake
    BY <2>1 DEF Sleep, Wake, Awaited, queueVars, hostVars
  <2>2. CASE Start \/ StartFails \/ TakeTask \/ Exit \/ Timeout \/ SpuriousWake
    BY <2>2 DEF Start, StartFails, TakeTask, Exit, CloseState, Timeout,
                SpuriousWake, WakeUnsignalled
  <2>3. ASSUME NEW id \in TimerIds, FireSilent(id) \/ FireCallback(id)
        PROVE  NoLostWakeup'
    BY <2>3 DEF FireSilent, FireCallback, Fire
  <2>4. CASE Task \/ ChunkEnds
    BY <2>4 DEF Task, ChunkEnds, RunGlobal, RunScript, DestroyScript,
                DestroyGlobalRefused, Answer, EnterChunk
  <2>5. CASE LuaStep
    BY <2>5 DEF LuaStep, InLua, workerVars
  <2>6. CASE CallbackDone
    BY <2>6 DEF CallbackDone, CallbackReturns, CallbackFails, CallbackThrows,
                CallbackEnds
  <2>7. QED
    BY <1>7, <2>1, <2>2, <2>3, <2>4, <2>5, <2>6 DEF WorkerStep, Loop
<1>8. CASE UNCHANGED vars \/ Over \/ \E id \in TimerIds : Expire(id)
  BY <1>8 DEF Over, Expire, vars, workerVars, queueVars, hostVars, Awaited
<1>9. QED
  BY <1>1, <1>2, <1>3, <1>4, <1>5, <1>6, <1>7, <1>8 DEF Next, HostStep

\* No wakeup is lost, however many threads call.
THEOREM WakeupsKept == Spec => []NoLostWakeup
<1>1. Init => NoLostWakeup
  BY DEF Init, NoLostWakeup
<1>2. QED
  BY <1>1, InitTInv, NextTInv, NextNoLostWakeup, PTL DEF Spec

-----------------------------------------------------------------------------
(* Calls.                                                                  *)

\* A caller with an open promise is still in its call, what is served was not
\* answered, and the loop is left only by a runtime that stops.
PromisesOpen ==
  /\ \A c \in promised : callers[c] # "idle"
  /\ running # None => running.caller \in promised
  /\ worker = "exited" => stopping

\* Calls: the strengthening of CallsAccounted, with its types.
CInv == TInv /\ CallsAccounted /\ PromisesOpen

\* Whose calls are open, in the order of service, is all that CallsAccounted
\* looks at besides the worker's place.
LEMMA CallsUntouched ==
  ASSUME CInv, UNCHANGED <<tasks, running, promised, callers, stopping>>,
         worker' = "exited" => worker = "exited"
  PROVE  CallsAccounted' /\ PromisesOpen'
BY DEF CInv, CallsAccounted, PromisesOpen

\* submit opens one promise and queues one request for it.
LEMMA SubmitAccounted ==
  ASSUME CInv, NEW c \in Callers, Submit(c)
  PROVE  CallsAccounted' /\ PromisesOpen'
<1>1. PICK request \in Request :
        request.caller = c /\ tasks' = Append(tasks, request)
  BY DEF Submit
<1>2. tasks \in Seq(Request)
  BY DEF CInv, TInv, HostOK
<1>3. /\ Len(tasks) \in Nat /\ Len(tasks') = Len(tasks) + 1
      /\ DOMAIN tasks = 1 .. Len(tasks) /\ DOMAIN tasks' = 1 .. Len(tasks) + 1
      /\ \A i \in 1 .. Len(tasks) : tasks'[i] = tasks[i]
      /\ tasks'[Len(tasks) + 1] = request
  BY <1>1, <1>2, AppendProperties, LenProperties
<1>4. /\ UNCHANGED <<worker, running, stopping>> /\ ~stopping
      /\ promised' = promised \cup {c} /\ c \notin promised
      /\ callers' = [callers EXCEPT ![c] = "notifying"]
  BY DEF Submit, workerVars, CInv, PromisesOpen
<1>5. \A i \in 1 .. Len(tasks) : tasks[i].caller \in promised
  BY <1>3 DEF CInv, CallsAccounted
<1>6. running # None => running.caller \in promised
  BY DEF CInv, PromisesOpen
<1>7. PromisesOpen'
  BY <1>4, <1>6 DEF CInv, PromisesOpen, TInv, HostOK
<1>8. \A d \in promised' :
        \/ running' # None /\ running'.caller = d
        \/ \E i \in DOMAIN tasks' : tasks'[i].caller = d
  <2>1. ASSUME NEW d \in promised
        PROVE  \/ running' # None /\ running'.caller = d
               \/ \E i \in DOMAIN tasks' : tasks'[i].caller = d
    BY <1>3, <1>4, <2>1 DEF CInv, CallsAccounted
  <2>2. tasks'[Len(tasks) + 1].caller = c
    BY <1>1, <1>3
  <2>3. QED
    BY <1>3, <1>4, <2>1, <2>2
<1>9. \A i \in DOMAIN tasks' :
        /\ tasks'[i].caller \in promised'
        /\ running' # None => running'.caller # tasks'[i].caller
  BY <1>1, <1>3, <1>4, <1>5, <1>6 DEF CInv, CallsAccounted
<1>10. \A i, j \in DOMAIN tasks' : tasks'[i].caller = tasks'[j].caller => i = j
  BY <1>1, <1>3, <1>4, <1>5 DEF CInv, CallsAccounted
<1>11. worker' # "exited"
  BY <1>4 DEF CInv, PromisesOpen
<1>12. QED
  BY <1>7, <1>8, <1>9, <1>10, <1>11 DEF CallsAccounted

\* The request that leaves the queue becomes the running one.
LEMMA TakeAccounted ==
  ASSUME CInv, TakeTask
  PROVE  CallsAccounted' /\ PromisesOpen'
<1>1. /\ tasks \in Seq(Request) /\ tasks # <<>> /\ running = None
      /\ running' = Head(tasks) /\ tasks' = Tail(tasks)
      /\ worker' = "task" /\ UNCHANGED <<promised, callers, stopping>>
  BY DEF TakeTask, CInv, TInv, WorkerOK, HostOK, hostVars
<1>2. /\ Len(tasks) \in Nat \ {0} /\ running' = tasks[1]
      /\ DOMAIN tasks = 1 .. Len(tasks) /\ DOMAIN tasks' = 1 .. Len(tasks) - 1
      /\ \A i \in 1 .. Len(tasks) - 1 : tasks'[i] = tasks[i + 1]
  <2>1. Tail(tasks) \in Seq(Request) /\ Len(Tail(tasks)) = Len(tasks) - 1
    BY <1>1, HeadTailProperties
  <2>2. QED
    BY <1>1, <2>1, HeadTailProperties, LenProperties, EmptySeq
<1>3. 1 \in DOMAIN tasks /\ running' \in Request /\ running' # None
  BY <1>1, <1>2, ElementOfSeq
<1>4. \A i \in DOMAIN tasks' : i + 1 \in DOMAIN tasks /\ i + 1 # 1
  BY <1>2
<1>5. \A c \in promised' :
        \/ running'.caller = c
        \/ \E i \in DOMAIN tasks' : tasks'[i].caller = c
  <2>1. SUFFICES ASSUME NEW c \in promised, tasks[1].caller # c
                 PROVE  \E i \in DOMAIN tasks' : tasks'[i].caller = c
    BY <1>1, <1>2
  <2>2. PICK j \in DOMAIN tasks : tasks[j].caller = c
    BY <1>1 DEF CInv, CallsAccounted
  <2>3. j - 1 \in DOMAIN tasks' /\ tasks'[j - 1] = tasks[j]
    BY <1>2, <2>1, <2>2
  <2>4. QED
    BY <2>2, <2>3
<1>6. \A i \in DOMAIN tasks' :
        /\ tasks'[i].caller \in promised'
        /\ running'.caller # tasks'[i].caller
  BY <1>1, <1>2, <1>3, <1>4 DEF CInv, CallsAccounted
<1>7. \A i, j \in DOMAIN tasks' : tasks'[i].caller = tasks'[j].caller => i = j
  <2>1. SUFFICES ASSUME NEW i \in DOMAIN tasks', NEW j \in DOMAIN tasks',
                        tasks'[i].caller = tasks'[j].caller
                 PROVE  i = j
    OBVIOUS
  <2>2. i + 1 = j + 1
    BY <1>2, <1>4, <2>1 DEF CInv, CallsAccounted
  <2>3. QED
    BY <1>2, <2>1, <2>2
<1>8. running'.caller \in promised'
  BY <1>1, <1>2, <1>3 DEF CInv, CallsAccounted
<1>9. QED
  BY <1>1, <1>3, <1>5, <1>6, <1>7, <1>8 DEF CallsAccounted, PromisesOpen, CInv

\* An answer closes the promise of the running request.
LEMMA AnswerAccounted ==
  ASSUME CInv, worker \in {"task", "chunk"}, NEW s,
         Answer \/ EnterChunk(s)
  PROVE  CallsAccounted' /\ PromisesOpen'
<1>1. running # None /\ running.caller \in promised
  BY DEF CInv, TInv, WorkerOK, PromisesOpen
<1>2. CASE Answer
  <2>1. /\ promised' = promised \ {running.caller} /\ running' = None
        /\ worker' = "loop" /\ UNCHANGED <<tasks, callers, stopping>>
    BY <1>2 DEF Answer, hostVars
  <2>2. QED
    BY <1>1, <2>1 DEF CInv, CallsAccounted, PromisesOpen
<1>3. CASE EnterChunk(s)
  BY <1>3, CallsUntouched DEF EnterChunk, queueVars, hostVars
<1>4. QED
  BY <1>2, <1>3

\* The worker leaves with nothing queued, so no promise is open.
LEMMA ExitAccounted ==
  ASSUME CInv, Exit
  PROVE  CallsAccounted' /\ PromisesOpen'
<1>1. running = None /\ tasks = <<>> /\ stopping
  BY DEF Exit, CInv, TInv, WorkerOK
<1>2. promised = {}
  BY <1>1 DEF CInv, CallsAccounted
<1>3. UNCHANGED <<tasks, running, promised, callers, stopping>>
  BY DEF Exit, CloseState, queueVars, hostVars
<1>4. QED
  BY <1>1, <1>2, <1>3 DEF CInv, CallsAccounted, PromisesOpen

\* No step loses a request or answers one twice.
LEMMA NextAccounted ==
  ASSUME CInv, [Next]_vars
  PROVE  CallsAccounted' /\ PromisesOpen'
<1>1. ASSUME NEW c \in Callers, Notify(c) \/ Return(c)
      PROVE  CallsAccounted' /\ PromisesOpen'
  <2>1. UNCHANGED <<worker, running, tasks, promised, stopping>>
    BY <1>1 DEF Notify, Return, workerVars, queueVars
  <2>2. \A d \in promised : callers'[d] # "idle"
    BY <1>1 DEF Notify, Return, CInv, PromisesOpen, TInv, HostOK
  <2>3. QED
    BY <2>1, <2>2 DEF CInv, CallsAccounted, PromisesOpen
<1>2. CASE Stop
  BY <1>2 DEF Stop, workerVars, CInv, CallsAccounted, PromisesOpen
<1>3. CASE NotifyStop \/ Join
  BY <1>3, CallsUntouched DEF NotifyStop, Join, workerVars, queueVars
<1>4. CASE WorkerStep
  <2>1. CASE \/ Start \/ StartFails \/ Sleep \/ Wake \/ Timeout \/ SpuriousWake
             \/ CallbackDone \/ LuaStep
    <3>1. UNCHANGED <<tasks, running, promised, callers, stopping>>
      BY <2>1 DEF Start, StartFails, Sleep, Wake, Timeout, SpuriousWake,
             WakeUnsignalled, CallbackDone, CallbackReturns, CallbackFails,
             CallbackThrows, CallbackEnds, LuaStep, workerVars, queueVars, hostVars
    <3>2. worker' = "exited" => worker = "exited"
      BY <2>1 DEF Start, StartFails, Sleep, Wake, Timeout, SpuriousWake,
             WakeUnsignalled, CallbackDone, CallbackReturns, CallbackFails,
             CallbackThrows, CallbackEnds, LuaStep, workerVars
    <3>3. QED
      BY <3>1, <3>2, CallsUntouched
  <2>2. ASSUME NEW id \in TimerIds, FireSilent(id) \/ FireCallback(id)
        PROVE  CallsAccounted' /\ PromisesOpen'
    BY <2>2, CallsUntouched DEF FireSilent, FireCallback, Fire, queueVars, hostVars
  <2>3. CASE Task \/ ChunkEnds
    <3>1. worker \in {"task", "chunk"} /\ \E s : Answer \/ EnterChunk(s)
      BY <2>3 DEF Task, ChunkEnds, RunGlobal, RunScript, DestroyScript,
                  DestroyGlobalRefused, Serving
    <3>2. QED
      BY <3>1, AnswerAccounted
  <2>4. QED
    BY <1>4, <2>1, <2>2, <2>3, TakeAccounted, ExitAccounted DEF WorkerStep, Loop
<1>5. CASE UNCHANGED vars \/ Over \/ \E id \in TimerIds : Expire(id)
  BY <1>5, CallsUntouched DEF Over, Expire, vars, workerVars, queueVars, hostVars
<1>6. QED
  BY <1>1, <1>2, <1>3, <1>4, <1>5, SubmitAccounted DEF Next, HostStep

\* The strengthened invariant of calls is inductive.
LEMMA CallsInvariant == Spec => []CInv
<1>1. Init => CInv
  <2>1. Init => CallsAccounted /\ PromisesOpen
    BY DEF Init, CallsAccounted, PromisesOpen
  <2>2. QED
    BY <2>1, InitTInv DEF CInv
<1>2. CInv /\ [Next]_vars => CInv'
  BY NextTInv, NextAccounted DEF CInv
<1>3. QED
  BY <1>1, <1>2, PTL DEF Spec

\* An accepted call is in the queue or being served, once, until it is
\* answered, and nobody waits for a worker that has gone.
THEOREM CallsKept == Spec => []CallsAccounted
<1>1. CInv => CallsAccounted
  BY DEF CInv
<1>2. QED
  BY <1>1, CallsInvariant, PTL

-----------------------------------------------------------------------------
(* Timers and their owners.                                                *)

\* The script that Lua code runs for has its environment: a timer made now
\* will have an owner.
OwnerRuns ==
  InLua /\ currentScriptId # None => environments[currentScriptId] # NoRef

\* Timers and scripts: the strengthening of OwnersExist, with its types.
OInv == TInv /\ OwnersExist /\ OwnerRuns

\* Owners stay when timers come and go but keep the owner they have, and
\* nothing else of theirs changes.
LEMMA OwnersUntouched ==
  ASSUME OInv, UNCHANGED <<environments, contexts, allocations>>,
         \A id \in TimerIds : timers'[id] # None =>
           timers[id] # None /\ timers'[id].owner = timers[id].owner,
         worker = "exited" => worker' = "exited"
  PROVE  OwnersExist'
BY DEF OInv, OwnersExist

\* What a Lua step does to a timer that exists keeps its owner.
LEMMA LuaStepOwners ==
  ASSUME OInv, LuaStep
  PROVE  OwnersExist' /\ OwnerRuns'
<1>a. UNCHANGED worker /\ UNCHANGED currentScriptId /\ InLua /\ worker # "exited"
  BY DEF LuaStep, workerVars, InLua
<1>b. UNCHANGED environments
  BY DEF LuaStep, CreateTimer, UseContext, luaVars, SetInterval, SetEnabled,
         ClearOnTimer, SetOnTimer, DestroyTimer
<1>c. OwnerRuns'
  BY <1>a, <1>b DEF OInv, OwnerRuns, InLua
<1>1. CASE UseContext
  <2>1. contexts' = contexts \cup {CurrentContext} /\ UNCHANGED timers
    BY <1>1 DEF UseContext, luaVars
  <2>2. PICK k \in 0 .. MaxLocals :
          allocations' = [allocations EXCEPT ![CurrentContext] = k]
    BY <1>1 DEF UseContext
  <2>3. \A s \in Scripts : s # CurrentContext => allocations'[s] = allocations[s]
    BY <2>2 DEF OInv, TInv, SessionOK
  <2>4. QED
    BY <1>a, <1>b, <1>c, <2>1, <2>3 DEF OInv, OwnersExist
<1>2. CASE CreateTimer
  <2>1. \A id \in TimerIds : timers'[id] # None =>
          timers'[id] = timers[id] \/ timers'[id].owner = currentScriptId
    BY <1>2 DEF CreateTimer, Timer, OInv, TInv, TimersOK
  <2>2. UNCHANGED <<contexts, allocations>>
    BY <1>2 DEF CreateTimer, sessionVars
  <2>3. QED
    BY <1>a, <1>b, <1>c, <2>1, <2>2 DEF OInv, OwnersExist, OwnerRuns
<1>3. ASSUME NEW id \in TimerIds, timers[id] # None,
             \/ SetInterval(id)
             \/ \E enabled \in BOOLEAN : SetEnabled(id, enabled)
             \/ ClearOnTimer(id)
             \/ SetOnTimer(id)
             \/ DestroyTimer(id)
      PROVE  OwnersExist'
  <2>0. timers[id] \in TimerRecord /\ timers \in [TimerIds -> TimerRecord \cup {None}]
    BY <1>3, RecordOf DEF OInv, TInv, TimersOK
  <2>1. UNCHANGED <<contexts, allocations>>
    BY <1>3 DEF SetInterval, SetEnabled, ClearOnTimer, SetOnTimer, DestroyTimer,
                sessionVars
  <2>2. \A other \in TimerIds : timers'[other] # None =>
          timers[other] # None /\ timers'[other].owner = timers[other].owner
    <3>1. CASE SetInterval(id) \/ DestroyTimer(id)
      BY <3>1 DEF SetInterval, DestroyTimer, DestroyTimers
    <3>2. CASE \/ \E enabled \in BOOLEAN : SetEnabled(id, enabled)
               \/ ClearOnTimer(id) \/ SetOnTimer(id)
      BY <1>3, <2>0, <3>2 DEF SetEnabled, ClearOnTimer, SetOnTimer, Timer, TimerRecord
    <3>3. QED
      BY <1>3, <3>1, <3>2
  <2>3. QED
    BY <1>a, <1>b, <2>1, <2>2, OwnersUntouched
<1>4. QED
  BY <1>c, <1>1, <1>2, <1>3 DEF LuaStep

\* runScript creates the context that the script's timers will need.
LEMMA RunScriptOwners ==
  ASSUME OInv, RunScript
  PROVE  OwnersExist' /\ OwnerRuns'
<1>1. worker = "task" /\ running.script \in Scripts
  BY ServedRequest DEF RunScript, Serving, OInv
<1>2. /\ environments'[running.script] # NoRef
      /\ \A s \in Scripts : s # running.script => environments'[s] = environments[s]
      /\ \A s \in Scripts : environments[s] # NoRef => environments'[s] # NoRef
  BY <1>1 DEF RunScript, EnsureEnvironment, OInv, TInv, RefsOK
<1>3. /\ contexts' = contexts \cup {running.script}
      /\ UNCHANGED <<timers, allocations>>
  BY DEF RunScript
<1>4. OwnersExist'
  BY <1>1, <1>2, <1>3 DEF OInv, OwnersExist, TInv, TimersOK, TimerRecord
<1>5. OwnerRuns'
  BY <1>1, <1>2 DEF RunScript, Answer, EnterChunk, OwnerRuns, InLua
<1>6. QED
  BY <1>4, <1>5

\* destroyScript takes the timers of the context with it.
LEMMA DestroyScriptOwners ==
  ASSUME OInv, DestroyScript
  PROVE  OwnersExist' /\ OwnerRuns'
<1> DEFINE s == running.script
<1>1. worker = "task" /\ s \in Scripts /\ worker' = "loop"
  BY ServedRequest DEF DestroyScript, Serving, Answer, OInv
<1>2. /\ environments'[s] = NoRef
      /\ \A t \in Scripts : t # s => environments'[t] = environments[t]
  BY <1>1 DEF DestroyScript, OInv, TInv, RefsOK
<1>3. \A id \in TimerIds : timers'[id] # None =>
        timers'[id] = timers[id] /\ timers[id].owner # s
  BY DEF DestroyScript, DestroyTimers, TimersOf
<1>4. \A id \in TimerIds : timers[id] # None =>
        timers[id].owner \in Scripts \cup {None}
  BY RecordOf DEF TimerRecord, OInv, TInv
<1>5. /\ \A t \in Scripts : allocations'[t] > 0 => allocations[t] > 0 /\ (t \in contexts')
      /\ \A t \in Scripts : t # s /\ t \in contexts => t \in contexts'
  BY <1>1 DEF DestroyScript, ReleaseContext, OInv, OwnersExist, TInv, SessionOK
<1>6. OwnersExist'
  BY <1>1, <1>2, <1>3, <1>4, <1>5 DEF OInv, OwnersExist
<1>7. OwnerRuns'
  BY <1>1 DEF OwnerRuns, InLua
<1>8. QED
  BY <1>6, <1>7

\* A callback that ends only removes timers.
LEMMA CallbackOwners ==
  ASSUME OInv, CallbackReturns \/ CallbackFails
  PROVE  OwnersExist' /\ OwnerRuns'
<1>1. /\ worker = "callback" /\ worker' = "loop" /\ firing \in TimerIds
      /\ UNCHANGED <<environments, contexts, allocations>>
  BY DEF CallbackReturns, CallbackFails, CallbackEnds, sessionVars, OInv, TInv,
         WorkerOK
<1>2. CASE CallbackReturns
  <2>1. \A id \in TimerIds : timers'[id] # None => timers'[id] = timers[id]
    BY <1>2 DEF CallbackReturns, DestroyTimers
  <2>2. QED
    BY <1>1, <2>1, OwnersUntouched DEF OwnerRuns, InLua
<1>3. CASE CallbackFails
  <2>1. \A id \in TimerIds : timers'[id] # None =>
          timers[id] # None /\ timers'[id].owner = timers[id].owner
    <3>1. \A id \in TimerIds : timers[id] # None => timers[id] \in TimerRecord
      BY RecordOf DEF OInv, TInv
    <3>2. QED
      BY <1>3, <3>1 DEF CallbackFails, TimerRecord
  <2>2. QED
    BY <1>1, <2>1, OwnersUntouched DEF OwnerRuns, InLua
<1>4. QED
  BY <1>2, <1>3

\* No step leaves a timer behind whose script is gone.
LEMMA NextOwners ==
  ASSUME OInv, [Next]_vars
  PROVE  OwnersExist' /\ OwnerRuns'
<1>1. ASSUME UNCHANGED <<timers, environments, contexts, allocations>>,
             worker = "exited" => worker' = "exited",
             InLua' => InLua /\ UNCHANGED currentScriptId
      PROVE  OwnersExist' /\ OwnerRuns'
  BY <1>1, OwnersUntouched DEF OInv, OwnerRuns
<1>2. CASE HostStep \/ UNCHANGED vars \/ Over \/ \E id \in TimerIds : Expire(id)
  BY <1>1, <1>2 DEF HostStep, Submit, Notify, Return, Stop, NotifyStop, Join,
                    Over, Expire, vars, workerVars, luaVars, sessionVars, InLua
<1>3. CASE \/ Start \/ StartFails \/ TakeTask \/ Sleep \/ Wake \/ Timeout
           \/ SpuriousWake \/ CallbackThrows \/ ChunkEnds \/ DestroyGlobalRefused
  BY <1>1, <1>3 DEF Start, StartFails, TakeTask, Sleep, Wake, Timeout, SpuriousWake,
                    WakeUnsignalled, CallbackThrows, ChunkEnds,
                    DestroyGlobalRefused, Serving, Answer, luaVars, sessionVars, InLua
<1>4. CASE RunGlobal
  BY <1>4 DEF RunGlobal, Serving, Answer, EnterChunk, luaVars, sessionVars, InLua,
              OInv, OwnersExist, OwnerRuns
<1>5. CASE Exit
  BY <1>5 DEF Exit, CloseState, OwnersExist, OwnerRuns, InLua
<1>6. ASSUME NEW id \in TimerIds, FireSilent(id) PROVE OwnersExist' /\ OwnerRuns'
  BY <1>1, <1>6 DEF FireSilent, Fire, sessionVars, InLua
<1>7. ASSUME NEW id \in TimerIds, FireCallback(id) PROVE OwnersExist' /\ OwnerRuns'
  <2>1. /\ UNCHANGED <<timers, environments, contexts, allocations>>
        /\ worker # "exited" /\ timers[id] # None
        /\ currentScriptId' = timers[id].owner
    BY <1>7 DEF FireCallback, Fire, sessionVars, OInv, TInv, TimersOK, Enabled
  <2>2. QED
    BY <2>1 DEF OInv, OwnersExist, OwnerRuns
<1>8. QED
  BY <1>2, <1>3, <1>4, <1>5, <1>6, <1>7, LuaStepOwners, RunScriptOwners,
     DestroyScriptOwners, CallbackOwners
     DEF Next, WorkerStep, Loop, Task, CallbackDone

\* Timers belong to scripts that have their environment, environments and
\* allocations to scripts that have their context.
THEOREM OwnersKept == Spec => []OwnersExist
<1>1. Init => OInv
  <2>1. Init => OwnersExist /\ OwnerRuns
    BY DEF Init, OwnersExist, OwnerRuns, InLua
  <2>2. QED
    BY <2>1, InitTInv DEF OInv
<1>2. OInv /\ [Next]_vars => OInv'
  BY NextTInv, NextOwners DEF OInv
<1>3. OInv => OwnersExist
  BY DEF OInv
<1>4. QED
  BY <1>1, <1>2, <1>3, PTL DEF Spec

\* No step changes a timer's slot once its timer is gone: new timers get new
\* ids, and whoever holds a handle is told that the timer does not exist.
THEOREM DestroyedStay == Spec => DestroyedTimersStayDestroyed
<1>1. TInv /\ [Next]_vars =>
        [\A id \in TimerIds :
           id < nextTimerId /\ timers[id] = None => timers'[id] = None]_vars
  <2> SUFFICES ASSUME TInv, Next, NEW id \in TimerIds,
                      id < nextTimerId, timers[id] = None
               PROVE  timers'[id] = None
    OBVIOUS
  <2>0. timers \in [TimerIds -> TimerRecord \cup {None}] /\ nextTimerId \in Nat
    BY DEF TInv, TimersOK
  <2>1. CASE LuaStep
    <3>1. CASE CreateTimer
      BY <2>0, <3>1 DEF CreateTimer, Timer, TimerIds
    <3>2. CASE UseContext
      BY <3>2 DEF UseContext, luaVars
    <3>3. ASSUME NEW other \in TimerIds, timers[other] # None,
                 \/ SetInterval(other)
                 \/ \E enabled \in BOOLEAN : SetEnabled(other, enabled)
                 \/ ClearOnTimer(other)
                 \/ SetOnTimer(other)
                 \/ DestroyTimer(other)
          PROVE  timers'[id] = None
      <4>1. other # id
        BY <3>3
      <4>2. QED
        BY <2>0, <3>3, <4>1 DEF SetInterval, SetEnabled, ClearOnTimer, SetOnTimer,
                                DestroyTimer, DestroyTimers, Timer
    <3>4. QED
      BY <2>1, <3>1, <3>2, <3>3 DEF LuaStep
  <2>2. CASE CallbackDone
    BY <2>2 DEF CallbackDone, CallbackReturns, CallbackFails, CallbackThrows,
                DestroyTimers, luaVars
  <2>3. CASE Task \/ ChunkEnds \/ Exit
    BY <2>3 DEF Task, ChunkEnds, RunGlobal, RunScript, DestroyScript, DestroyTimers,
                DestroyGlobalRefused, Exit, CloseState, luaVars
  <2>4. CASE HostStep \/ Over \/ \E other \in TimerIds : Expire(other)
    BY <2>4 DEF HostStep, Submit, Notify, Return, Stop, NotifyStop, Join, Over,
                Expire, vars, luaVars
  <2>5. CASE \/ Start \/ StartFails \/ TakeTask \/ Sleep \/ Wake \/ Timeout
             \/ SpuriousWake
    BY <2>5 DEF Start, StartFails, TakeTask, Sleep, Wake, Timeout, SpuriousWake,
                WakeUnsignalled, luaVars
  <2>6. CASE \E other \in TimerIds : FireSilent(other) \/ FireCallback(other)
    BY <2>6 DEF FireSilent, FireCallback, Fire
  <2>7. QED
    BY <2>1, <2>2, <2>3, <2>4, <2>5, <2>6 DEF Next, WorkerStep, Loop
<1>2. QED
  BY <1>1, InitTInv, NextTInv, PTL DEF Spec, DestroyedTimersStayDestroyed

-----------------------------------------------------------------------------
(* The Lua registry.                                                       *)

\* What a timer's slot holds of the registry.
CallbackOf(id) == IF timers[id] = None THEN NoRef ELSE timers[id].callback

\* RegistryOwned, holder by holder.
HoldersDistinct ==
  /\ \A s \in Scripts : environments[s] # NoRef => environments[s] \in registry
  /\ \A id \in TimerIds : CallbackOf(id) # NoRef => CallbackOf(id) \in registry
  /\ \A r \in registry : \/ \E s \in Scripts : environments[s] = r
                         \/ \E id \in TimerIds : CallbackOf(id) = r
  /\ NoRef \notin registry
  /\ \A s \in Scripts, id \in TimerIds :
       environments[s] # NoRef => environments[s] # CallbackOf(id)
  /\ \A s, t \in Scripts :
       environments[s] = environments[t] /\ environments[s] # NoRef => s = t
  /\ \A i, j \in TimerIds :
       CallbackOf(i) = CallbackOf(j) /\ CallbackOf(i) # NoRef => i = j

\* What CallbacksOf collects.
LEMMA CallbacksMembers ==
  ASSUME NEW ids \in SUBSET TimerIds
  PROVE  \A r : r \in CallbacksOf(ids) <=>
                  r # NoRef /\ \E id \in ids : CallbackOf(id) = r
BY DEF CallbacksOf, CallbackOf

\* Counted holder by holder, the registry is as RegistryOwned says.
LEMMA RegistryByHolders == HoldersDistinct => RegistryOwned
<1> SUFFICES ASSUME HoldersDistinct PROVE RegistryOwned
  OBVIOUS
<1>1. \A r : r \in CallbacksOf(TimerIds) <=>
               r # NoRef /\ \E id \in TimerIds : CallbackOf(id) = r
  BY CallbacksMembers
<1>2. \A r : r \in EnvironmentRefs <=>
               r # NoRef /\ \E s \in Scripts : environments[s] = r
  BY DEF EnvironmentRefs
<1>3. registry = EnvironmentRefs \cup CallbacksOf(TimerIds)
  BY <1>1, <1>2 DEF HoldersDistinct
<1>4. EnvironmentRefs \cap CallbacksOf(TimerIds) = {}
  BY <1>1, <1>2 DEF HoldersDistinct
<1>5. \A i, j \in TimerIds :
        /\ timers[i] # None /\ timers[j] # None
        /\ timers[i].callback = timers[j].callback
        /\ timers[i].callback # NoRef
        => i = j
  BY DEF HoldersDistinct, CallbackOf
<1>6. QED
  BY <1>3, <1>4, <1>5 DEF HoldersDistinct, RegistryOwned

\* Nobody holds anything else than before.
LEMMA HoldersSame ==
  ASSUME HoldersDistinct, UNCHANGED <<registry, environments>>,
         \A id \in TimerIds : CallbackOf(id)' = CallbackOf(id)
  PROVE  HoldersDistinct'
BY DEF HoldersDistinct

\* Some timers, and perhaps a script, let go of what they hold.
LEMMA HoldersRelease ==
  ASSUME HoldersDistinct, NEW ids \in SUBSET TimerIds, NEW gone \in SUBSET Scripts,
         \A id \in TimerIds : CallbackOf(id)' = IF id \in ids THEN NoRef ELSE CallbackOf(id),
         \A s \in Scripts : environments'[s] = IF s \in gone THEN NoRef ELSE environments[s],
         registry' = registry \ (CallbacksOf(ids) \cup {environments[s] : s \in gone})
  PROVE  HoldersDistinct'
<1>1. \A r : r \in CallbacksOf(ids) <=>
               r # NoRef /\ \E id \in ids : CallbackOf(id) = r
  BY CallbacksMembers
<1>2. \A r : r \in registry' <=>
        /\ r \in registry
        /\ \A id \in ids : CallbackOf(id) # r
        /\ \A s \in gone : environments[s] # r
  BY <1>1 DEF HoldersDistinct
<1>3. \A s \in Scripts : environments'[s] # NoRef => environments'[s] \in registry'
  BY <1>2 DEF HoldersDistinct
<1>4. \A id \in TimerIds : CallbackOf(id)' # NoRef => CallbackOf(id)' \in registry'
  BY <1>2 DEF HoldersDistinct
<1>5. \A r \in registry' : \/ \E s \in Scripts : environments'[s] = r
                           \/ \E id \in TimerIds : CallbackOf(id)' = r
  BY <1>2 DEF HoldersDistinct
<1>6. QED
  BY <1>2, <1>3, <1>4, <1>5 DEF HoldersDistinct

\* A timer trades what it holds, or nothing, for a reference nobody else has.
LEMMA HoldersTrade ==
  ASSUME HoldersDistinct, NEW id \in TimerIds,
         NEW r \in Refs \ (registry \ {CallbackOf(id)}),
         CallbackOf(id)' = r,
         \A other \in TimerIds : other # id => CallbackOf(other)' = CallbackOf(other),
         UNCHANGED environments,
         registry' = (registry \ {CallbackOf(id)}) \cup {r}
  PROVE  HoldersDistinct'
<1>1. \A other \in TimerIds : other # id /\ CallbackOf(other) # NoRef =>
        CallbackOf(other) # CallbackOf(id) /\ CallbackOf(other) # r
  BY DEF HoldersDistinct
<1>2. \A s \in Scripts : environments[s] # NoRef =>
        environments[s] # CallbackOf(id) /\ environments[s] # r
  BY DEF HoldersDistinct
<1>3. QED
  BY <1>1, <1>2 DEF HoldersDistinct

\* The same with timers alone.
LEMMA TimersRelease ==
  ASSUME HoldersDistinct, NEW ids \in SUBSET TimerIds,
         \A id \in TimerIds : CallbackOf(id)' = IF id \in ids THEN NoRef ELSE CallbackOf(id),
         UNCHANGED environments,
         registry' = registry \ CallbacksOf(ids)
  PROVE  HoldersDistinct'
<1>1. \A r : r \in CallbacksOf(ids) <=>
               r # NoRef /\ \E id \in ids : CallbackOf(id) = r
  BY CallbacksMembers
<1>2. \A r : r \in registry' <=>
        r \in registry /\ \A id \in ids : CallbackOf(id) # r
  BY <1>1 DEF HoldersDistinct
<1>3. \A s \in Scripts : environments'[s] # NoRef => environments'[s] \in registry'
  BY <1>2 DEF HoldersDistinct
<1>4. \A id \in TimerIds : CallbackOf(id)' # NoRef => CallbackOf(id)' \in registry'
  BY <1>2 DEF HoldersDistinct
<1>5. \A r \in registry' : \/ \E s \in Scripts : environments'[s] = r
                           \/ \E id \in TimerIds : CallbackOf(id)' = r
  BY <1>2 DEF HoldersDistinct
<1>6. QED
  BY <1>2, <1>3, <1>4, <1>5 DEF HoldersDistinct

\* References: the strengthening of RegistryOwned, with its types.
RInv == TInv /\ HoldersDistinct

\* ensureEnvironment takes a reference that nobody holds.
LEMMA EnvironmentHolds ==
  ASSUME RInv, NEW s \in Scripts, EnsureEnvironment(s), UNCHANGED timers
  PROVE  HoldersDistinct'
<1>1. \A id \in TimerIds : CallbackOf(id)' = CallbackOf(id)
  BY DEF CallbackOf
<1>2. CASE UNCHANGED <<environments, registry>>
  BY <1>1, <1>2, HoldersSame DEF RInv
<1>3. ASSUME NEW r \in Refs \ registry, environments[s] = NoRef,
             environments' = [environments EXCEPT ![s] = r],
             registry' = registry \cup {r}
      PROVE  HoldersDistinct'
  <2>1. \A t \in Scripts : environments'[t] = IF t = s THEN r ELSE environments[t]
    BY <1>3 DEF RInv, TInv, RefsOK
  <2>2. QED
    BY <1>1, <1>3, <2>1 DEF RInv, HoldersDistinct
<1>4. QED
  BY <1>2, <1>3 DEF EnsureEnvironment

\* What Lua code does with timers leaves one holder per reference.
LEMMA LuaStepHolders ==
  ASSUME RInv, LuaStep
  PROVE  HoldersDistinct'
<1>a. timers \in [TimerIds -> TimerRecord \cup {None}]
  BY DEF RInv, TInv, TimersOK
<1>b. ASSUME NEW id \in TimerIds, NEW r \in TimerRecord, Timer(id, r)
      PROVE  /\ CallbackOf(id)' = r.callback
             /\ \A other \in TimerIds : other # id =>
                  CallbackOf(other)' = CallbackOf(other)
  BY <1>a, <1>b DEF Timer, CallbackOf
<1>1. CASE UseContext
  BY <1>1, HoldersSame DEF UseContext, luaVars, CallbackOf, RInv
<1>2. CASE CreateTimer
  <2>1. /\ nextTimerId \in TimerIds /\ timers[nextTimerId] = None
        /\ CallbackOf(nextTimerId) = NoRef /\ UNCHANGED environments
        /\ currentScriptId \in Scripts \cup {None}
    BY <1>2 DEF RInv, TInv, WorkerOK, TimersOK, CreateTimer, TimerIds, CallbackOf
  <2>2. CASE UNCHANGED <<timers, registry>>
    BY <2>1, <2>2, HoldersSame DEF CallbackOf, RInv
  <2>3. ASSUME NEW e \in BOOLEAN, UNCHANGED registry,
               Timer(nextTimerId, [owner |-> currentScriptId, enabled |-> e,
                                   oneshot |-> FALSE, callback |-> NoRef])
        PROVE  HoldersDistinct'
    <3>1. [owner |-> currentScriptId, enabled |-> e,
           oneshot |-> FALSE, callback |-> NoRef] \in TimerRecord
      BY <2>1 DEF TimerRecord
    <3>2. \A id \in TimerIds : CallbackOf(id)' = CallbackOf(id)
      BY <1>b, <2>1, <2>3, <3>1
    <3>3. QED
      BY <2>1, <2>3, <3>2, HoldersSame DEF RInv
  <2>4. ASSUME NEW r \in Refs \ registry, registry' = registry \cup {r},
               Timer(nextTimerId, [owner |-> currentScriptId, enabled |-> TRUE,
                                   oneshot |-> TRUE, callback |-> r])
        PROVE  HoldersDistinct'
    <3>1. /\ [owner |-> currentScriptId, enabled |-> TRUE,
              oneshot |-> TRUE, callback |-> r] \in TimerRecord
          /\ [owner |-> currentScriptId, enabled |-> TRUE,
              oneshot |-> TRUE, callback |-> r].callback = r
      BY <2>1 DEF TimerRecord
    <3>2. PICK new \in TimerIds : new = nextTimerId
      BY <2>1
    <3>3. /\ CallbackOf(new)' = r
          /\ \A other \in TimerIds : other # new =>
               CallbackOf(other)' = CallbackOf(other)
      BY <1>b, <2>4, <3>1, <3>2
    <3>4. /\ r \in Refs \ (registry \ {CallbackOf(new)})
          /\ registry' = (registry \ {CallbackOf(new)}) \cup {r}
      BY <2>1, <2>4, <3>2 DEF RInv, HoldersDistinct
    <3>5. QED
      BY <2>1, <3>3, <3>4, HoldersTrade DEF RInv
  <2>5. QED
    BY <1>2, <2>2, <2>3, <2>4 DEF CreateTimer
<1>3. ASSUME NEW id \in TimerIds, timers[id] # None,
             \/ SetInterval(id)
             \/ \E enabled \in BOOLEAN : SetEnabled(id, enabled)
             \/ ClearOnTimer(id)
             \/ SetOnTimer(id)
             \/ DestroyTimer(id)
      PROVE  HoldersDistinct'
  <2>0. timers[id] \in TimerRecord /\ CallbackOf(id) = timers[id].callback
    BY <1>3, RecordOf DEF CallbackOf, RInv, TInv
  <2>1. CASE SetInterval(id)
    BY <2>1, HoldersSame DEF SetInterval, CallbackOf, RInv
  <2>2. ASSUME NEW enabled \in BOOLEAN, SetEnabled(id, enabled)
        PROVE  HoldersDistinct'
    <3>1. /\ [timers[id] EXCEPT !.enabled = enabled] \in TimerRecord
          /\ [timers[id] EXCEPT !.enabled = enabled].callback = timers[id].callback
      BY <2>0 DEF TimerRecord
    <3>2. \A other \in TimerIds : CallbackOf(other)' = CallbackOf(other)
      BY <1>b, <2>0, <2>2, <3>1 DEF SetEnabled
    <3>3. QED
      BY <2>2, <3>2, HoldersSame DEF SetEnabled, RInv
  <2>3. CASE ClearOnTimer(id)
    <3>1. /\ [timers[id] EXCEPT !.callback = NoRef] \in TimerRecord
          /\ [timers[id] EXCEPT !.callback = NoRef].callback = NoRef
      BY <2>0 DEF TimerRecord
    <3>2. \A other \in TimerIds :
            CallbackOf(other)' = IF other \in {id} THEN NoRef ELSE CallbackOf(other)
      BY <1>b, <2>3, <3>1 DEF ClearOnTimer
    <3>3. registry' = registry \ CallbacksOf({id})
      BY <2>0, <2>3, CallbacksMembers
         DEF ClearOnTimer, Without, RInv, HoldersDistinct
    <3>4. UNCHANGED environments
      BY <2>3 DEF ClearOnTimer
    <3>5. QED
      BY <3>2, <3>3, <3>4, TimersRelease DEF RInv
  <2>4. CASE SetOnTimer(id)
    <3>1. PICK r \in Refs \ Without(timers[id].callback) :
            /\ registry' = Without(timers[id].callback) \cup {r}
            /\ Timer(id, [timers[id] EXCEPT !.callback = r])
      BY <2>4 DEF SetOnTimer
    <3>2. /\ [timers[id] EXCEPT !.callback = r] \in TimerRecord
          /\ [timers[id] EXCEPT !.callback = r].callback = r
      BY <2>0 DEF TimerRecord
    <3>3. QED
      BY <1>b, <2>0, <2>4, <3>1, <3>2, HoldersTrade DEF SetOnTimer, Without, RInv
  <2>5. CASE DestroyTimer(id)
    <3>1. \A other \in TimerIds :
            CallbackOf(other)' = IF other \in {id} THEN NoRef ELSE CallbackOf(other)
      BY <2>5 DEF DestroyTimer, DestroyTimers, CallbackOf
    <3>2. QED
      BY <2>5, <3>1, TimersRelease DEF DestroyTimer, RInv
  <2>6. QED
    BY <1>3, <2>1, <2>2, <2>3, <2>4, <2>5
<1>4. QED
  BY <1>1, <1>2, <1>3 DEF LuaStep

\* destroyScript releases what the script and its timers held.
LEMMA DestroyScriptHolders ==
  ASSUME RInv, DestroyScript
  PROVE  HoldersDistinct'
<1> DEFINE ids == TimersOf(running.script)
<1>1. running.script \in Scripts /\ ids \subseteq TimerIds
  BY ServedRequest DEF DestroyScript, Serving, RInv, TimersOf
<1>2. \A id \in TimerIds :
        CallbackOf(id)' = IF id \in ids THEN NoRef ELSE CallbackOf(id)
  BY DEF DestroyScript, DestroyTimers, CallbackOf
<1>3. \A s \in Scripts :
        environments'[s] = IF s \in {running.script} THEN NoRef ELSE environments[s]
  BY <1>1 DEF DestroyScript, RInv, TInv, RefsOK
<1>4. registry' = registry \ (CallbacksOf(ids)
                                \cup {environments[s] : s \in {running.script}})
  BY DEF DestroyScript
<1>5. QED
  BY <1>1, <1>2, <1>3, <1>4, HoldersRelease DEF RInv

\* A one-shot timer releases its callback when it returns.
LEMMA CallbackHolders ==
  ASSUME RInv, CallbackReturns \/ CallbackFails
  PROVE  HoldersDistinct'
<1>1. firing \in TimerIds /\ UNCHANGED environments
  BY DEF CallbackReturns, CallbackFails, CallbackEnds, RInv, TInv, WorkerOK
<1>2. CASE UNCHANGED <<timers, registry>>
  BY <1>1, <1>2, HoldersSame DEF CallbackOf, RInv
<1>3. CASE DestroyTimers({firing}) /\ registry' = registry \ CallbacksOf({firing})
  <2>1. \A id \in TimerIds :
          CallbackOf(id)' = IF id \in {firing} THEN NoRef ELSE CallbackOf(id)
    BY <1>3 DEF DestroyTimers, CallbackOf
  <2>2. QED
    BY <1>1, <1>3, <2>1, TimersRelease DEF RInv
<1>4. CASE CallbackFails
  <2>1. \A id \in TimerIds : CallbackOf(id)' = CallbackOf(id)
    <3>1. \A id \in TimerIds : timers[id] # None => timers[id] \in TimerRecord
      BY RecordOf DEF RInv, TInv
    <3>2. QED
      BY <1>4, <3>1 DEF CallbackFails, CallbackOf, TimerRecord
  <2>2. QED
    BY <1>1, <1>4, <2>1, HoldersSame DEF CallbackFails, RInv
<1>5. QED
  BY <1>2, <1>3, <1>4 DEF CallbackReturns

\* No step leaks a reference or releases it for another holder.
LEMMA NextHolders ==
  ASSUME RInv, [Next]_vars
  PROVE  HoldersDistinct'
<1>1. ASSUME UNCHANGED <<timers, environments, registry>>
      PROVE  HoldersDistinct'
  BY <1>1, HoldersSame DEF RInv, CallbackOf
<1>2. CASE HostStep \/ UNCHANGED vars \/ Over \/ \E id \in TimerIds : Expire(id)
  BY <1>1, <1>2 DEF HostStep, Submit, Notify, Return, Stop, NotifyStop, Join,
                    Over, Expire, vars, luaVars
<1>3. CASE \/ Start \/ StartFails \/ TakeTask \/ Sleep \/ Wake \/ Timeout
           \/ SpuriousWake \/ CallbackThrows \/ ChunkEnds \/ DestroyGlobalRefused
           \/ RunGlobal
  BY <1>1, <1>3 DEF Start, StartFails, TakeTask, Sleep, Wake, Timeout, SpuriousWake,
                    WakeUnsignalled, CallbackThrows, ChunkEnds,
                    DestroyGlobalRefused, RunGlobal, luaVars
<1>4. ASSUME NEW id \in TimerIds, FireSilent(id) \/ FireCallback(id)
      PROVE  HoldersDistinct'
  BY <1>1, <1>4 DEF FireSilent, FireCallback, Fire
<1>5. CASE Exit
  BY <1>5 DEF Exit, CloseState, HoldersDistinct, CallbackOf
<1>6. CASE RunScript
  BY <1>6, ServedRequest, EnvironmentHolds DEF RunScript, Serving, RInv
<1>7. QED
  BY <1>2, <1>3, <1>4, <1>5, <1>6, LuaStepHolders, DestroyScriptHolders,
     CallbackHolders DEF Next, WorkerStep, Loop, Task, CallbackDone

\* Every reference of the Lua registry has one holder.
THEOREM RegistryKept == Spec => []RegistryOwned
<1>1. Init => RInv
  <2>1. Init => HoldersDistinct
    BY DEF Init, HoldersDistinct, CallbackOf
  <2>2. QED
    BY <2>1, InitTInv DEF RInv
<1>2. RInv /\ [Next]_vars => RInv'
  BY NextTInv, NextHolders DEF RInv
<1>3. RInv => RegistryOwned
  BY RegistryByHolders DEF RInv
<1>4. QED
  BY <1>1, <1>2, <1>3, PTL DEF Spec

-----------------------------------------------------------------------------
(* Order of service.                                                       *)

\* The callers of a sequence of requests.
CallersOf(requests) == [i \in DOMAIN requests |-> requests[i].caller]

\* The queue that SerialCalls sees.
CallQueue ==
  IF running = None THEN CallersOf(tasks) ELSE <<running.caller>> \o CallersOf(tasks)

\* CallersOf keeps length and order.
LEMMA CallersTyped ==
  ASSUME NEW requests \in Seq(Request)
  PROVE  /\ CallersOf(requests) \in Seq(Callers)
         /\ Len(CallersOf(requests)) = Len(requests)
         /\ \A i \in 1 .. Len(requests) : CallersOf(requests)[i] = requests[i].caller
<1>1. Len(requests) \in Nat /\ DOMAIN requests = 1 .. Len(requests)
  BY LenProperties
<1>2. \A i \in 1 .. Len(requests) : requests[i].caller \in Callers
  BY ElementOfSeq DEF Request
<1>3. CallersOf(requests) \in [1 .. Len(requests) -> Callers]
  BY <1>1, <1>2 DEF CallersOf
<1>4. CallersOf(requests) \in Seq(Callers)
  BY <1>1, <1>3, SeqDef
<1>5. QED
  BY <1>1, <1>3, <1>4, LenProperties DEF CallersOf

\* A sequence with one element before it.
LEMMA ConsFacts ==
  ASSUME NEW S, NEW x \in S, NEW s \in Seq(S)
  PROVE  /\ <<x>> \o s \in Seq(S)
         /\ <<x>> \o s # <<>>
         /\ Tail(<<x>> \o s) = s
         /\ Len(<<x>> \o s) = Len(s) + 1
         /\ (<<x>> \o s)[1] = x
         /\ \A i \in 1 .. Len(s) : (<<x>> \o s)[i + 1] = s[i]
<1>1. <<x>> \in Seq(S) /\ Len(<<x>>) = 1 /\ <<x>>[1] = x /\ Len(s) \in Nat
  BY LenProperties
<1>2. /\ <<x>> \o s \in Seq(S) /\ Len(<<x>> \o s) = 1 + Len(s)
      /\ \A i \in 1 .. 1 + Len(s) :
           (<<x>> \o s)[i] = IF i <= 1 THEN <<x>>[i] ELSE s[i - 1]
  BY <1>1, ConcatProperties
<1>3. <<x>> \o s # <<>>
  BY <1>1, <1>2, EmptySeq
<1>4. (<<x>> \o s)[1] = x /\ \A i \in 1 .. Len(s) : (<<x>> \o s)[i + 1] = s[i]
  BY <1>1, <1>2
<1>5. /\ Tail(<<x>> \o s) \in Seq(S) /\ Len(Tail(<<x>> \o s)) = Len(s)
      /\ \A i \in 1 .. Len(s) : Tail(<<x>> \o s)[i] = s[i]
  <2>1. /\ Tail(<<x>> \o s) \in Seq(S)
        /\ Len(Tail(<<x>> \o s)) = Len(<<x>> \o s) - 1
        /\ \A i \in 1 .. Len(Tail(<<x>> \o s)) :
             Tail(<<x>> \o s)[i] = (<<x>> \o s)[i + 1]
    BY <1>2, <1>3, HeadTailProperties
  <2>2. QED
    BY <1>1, <1>2, <1>4, <2>1
<1>6. Tail(<<x>> \o s) = s
  BY <1>5, SeqEqual
<1>7. QED
  BY <1>1, <1>2, <1>3, <1>4, <1>6

\* What SerialCalls sees is a queue of callers with open promises.
LEMMA QueueFacts ==
  ASSUME CInv
  PROVE  /\ CallQueue \in Seq(Callers)
         /\ \A i \in DOMAIN CallQueue : CallQueue[i] \in promised
<1>1. tasks \in Seq(Request)
  BY DEF CInv, TInv, HostOK
<1>2. /\ CallersOf(tasks) \in Seq(Callers)
      /\ Len(CallersOf(tasks)) = Len(tasks) /\ Len(tasks) \in Nat
      /\ DOMAIN CallersOf(tasks) = 1 .. Len(tasks) /\ DOMAIN tasks = 1 .. Len(tasks)
      /\ \A i \in 1 .. Len(tasks) : CallersOf(tasks)[i] = tasks[i].caller
  BY <1>1, CallersTyped, LenProperties
<1>3. \A i \in 1 .. Len(tasks) : CallersOf(tasks)[i] \in promised
  BY <1>2 DEF CInv, CallsAccounted
<1>4. CASE running = None
  BY <1>2, <1>3, <1>4 DEF CallQueue
<1>5. CASE running # None
  <2>1. running.caller \in Callers /\ running.caller \in promised
    BY <1>5 DEF CInv, PromisesOpen, TInv, HostOK
  <2>2. /\ CallQueue \in Seq(Callers) /\ Len(CallQueue) = Len(tasks) + 1
        /\ CallQueue[1] = running.caller
        /\ \A i \in 1 .. Len(tasks) : CallQueue[i + 1] = CallersOf(tasks)[i]
    BY <1>2, <1>5, <2>1, ConsFacts DEF CallQueue
  <2>3. DOMAIN CallQueue = 1 .. Len(tasks) + 1
    BY <1>2, <2>2, LenProperties
  <2>4. ASSUME NEW i \in 1 .. Len(tasks) + 1 PROVE CallQueue[i] \in promised
    <3>1. CASE i = 1
      BY <2>1, <2>2, <3>1
    <3>2. CASE i # 1
      <4>1. i - 1 \in 1 .. Len(tasks) /\ (i - 1) + 1 = i
        BY <1>2, <3>2
      <4>2. QED
        BY <1>3, <2>2, <4>1
    <3>3. QED
      BY <3>1, <3>2
  <2>5. QED
    BY <2>2, <2>3, <2>4
<1>6. QED
  BY <1>4, <1>5

\* submit adds the caller at the end, and it was not there.
LEMMA SubmitAccepts ==
  ASSUME CInv, NEW c \in Callers, Submit(c)
  PROVE  ~stopping /\ c \notin promised /\ CallQueue' = Append(CallQueue, c)
<1>1. PICK request \in Request :
        request.caller = c /\ tasks' = Append(tasks, request)
  BY DEF Submit
<1>2. tasks \in Seq(Request) /\ UNCHANGED running
  BY DEF Submit, workerVars, CInv, TInv, HostOK
<1>3. /\ tasks' \in Seq(Request) /\ Len(tasks') = Len(tasks) + 1 /\ Len(tasks) \in Nat
      /\ \A i \in 1 .. Len(tasks) : tasks'[i] = tasks[i]
      /\ tasks'[Len(tasks) + 1] = request
  BY <1>1, <1>2, AppendProperties, LenProperties
<1>4. /\ CallersOf(tasks) \in Seq(Callers) /\ Len(CallersOf(tasks)) = Len(tasks)
      /\ \A i \in 1 .. Len(tasks) : CallersOf(tasks)[i] = tasks[i].caller
  BY <1>2, CallersTyped
<1>5. /\ CallersOf(tasks') \in Seq(Callers) /\ Len(CallersOf(tasks')) = Len(tasks')
      /\ \A i \in 1 .. Len(tasks') : CallersOf(tasks')[i] = tasks'[i].caller
  BY <1>3, CallersTyped
<1>6. CallersOf(tasks') = Append(CallersOf(tasks), c)
  <2>1. /\ Append(CallersOf(tasks), c) \in Seq(Callers)
        /\ Len(Append(CallersOf(tasks), c)) = Len(tasks) + 1
        /\ \A i \in 1 .. Len(tasks) :
             Append(CallersOf(tasks), c)[i] = CallersOf(tasks)[i]
        /\ Append(CallersOf(tasks), c)[Len(tasks) + 1] = c
    BY <1>4, AppendProperties
  <2>2. \A i \in 1 .. Len(tasks) + 1 :
          CallersOf(tasks')[i] = Append(CallersOf(tasks), c)[i]
    <3>1. SUFFICES ASSUME NEW i \in 1 .. Len(tasks) + 1
                   PROVE  CallersOf(tasks')[i] = Append(CallersOf(tasks), c)[i]
      OBVIOUS
    <3>2. CASE i = Len(tasks) + 1
      BY <1>1, <1>3, <1>5, <2>1, <3>2
    <3>3. CASE i # Len(tasks) + 1
      <4>1. i \in 1 .. Len(tasks)
        BY <1>3, <3>3
      <4>2. QED
        BY <1>3, <1>4, <1>5, <2>1, <4>1
    <3>4. QED
      BY <3>2, <3>3
  <2>3. QED
    BY <1>3, <1>5, <2>1, <2>2, SeqEqual
<1>7. CASE running = None
  BY <1>2, <1>6, <1>7 DEF CallQueue, Submit, CInv, PromisesOpen
<1>8. CASE running # None
  <2>1. running.caller \in Callers
    BY <1>8 DEF CInv, PromisesOpen, TInv, HostOK
  <2>2. <<running.caller>> \in Seq(Callers) /\ <<c>> \in Seq(Callers)
    BY <2>1
  <2>3. <<running.caller>> \o Append(CallersOf(tasks), c)
          = Append(<<running.caller>> \o CallersOf(tasks), c)
    <3>1. Append(CallersOf(tasks), c) = CallersOf(tasks) \o <<c>>
      BY <1>4, AppendIsConcat
    <3>2. Append(<<running.caller>> \o CallersOf(tasks), c)
            = (<<running.caller>> \o CallersOf(tasks)) \o <<c>>
      BY <1>4, <2>1, ConsFacts, AppendIsConcat
    <3>3. QED
      BY <1>4, <2>2, <3>1, <3>2, ConcatAssociative
  <2>4. QED
    BY <1>2, <1>6, <1>8, <2>3 DEF CallQueue, Submit, CInv, PromisesOpen
<1>9. QED
  BY <1>7, <1>8

\* Taking a call off the queue is not seen: it is still the oldest.
LEMMA TakeUnseen ==
  ASSUME CInv, TakeTask
  PROVE  CallQueue' = CallQueue
<1>1. /\ tasks \in Seq(Request) /\ tasks # <<>> /\ running = None
      /\ running' = Head(tasks) /\ tasks' = Tail(tasks)
  BY DEF TakeTask, CInv, TInv, WorkerOK, HostOK
<1>2. /\ Len(tasks) \in Nat \ {0} /\ running' = tasks[1] /\ running' \in Request
      /\ tasks' \in Seq(Request) /\ Len(tasks') = Len(tasks) - 1
      /\ \A i \in 1 .. Len(tasks) - 1 : tasks'[i] = tasks[i + 1]
  BY <1>1, HeadTailProperties, EmptySeq
<1>3. /\ CallersOf(tasks) \in Seq(Callers) /\ Len(CallersOf(tasks)) = Len(tasks)
      /\ \A i \in 1 .. Len(tasks) : CallersOf(tasks)[i] = tasks[i].caller
  BY <1>1, CallersTyped
<1>4. /\ CallersOf(tasks') \in Seq(Callers) /\ Len(CallersOf(tasks')) = Len(tasks) - 1
      /\ \A i \in 1 .. Len(tasks) - 1 : CallersOf(tasks')[i] = tasks'[i].caller
  BY <1>2, CallersTyped
<1>5. running' # None /\ running'.caller \in Callers
  BY <1>2 DEF Request
<1>6. /\ CallQueue' = <<running'.caller>> \o CallersOf(tasks')
      /\ CallQueue' \in Seq(Callers) /\ Len(CallQueue') = Len(tasks)
      /\ CallQueue'[1] = running'.caller
      /\ \A i \in 1 .. Len(tasks) - 1 : CallQueue'[i + 1] = CallersOf(tasks')[i]
  <2>1. CallQueue' = <<running'.caller>> \o CallersOf(tasks')
    BY <1>5 DEF CallQueue
  <2>2. QED
    BY <1>2, <1>4, <1>5, <2>1, ConsFacts
<1>7. ASSUME NEW i \in 1 .. Len(tasks)
      PROVE  CallQueue'[i] = CallersOf(tasks)[i]
  <2>1. CASE i = 1
    BY <1>2, <1>3, <1>6, <2>1
  <2>2. CASE i # 1
    <3>1. i - 1 \in 1 .. Len(tasks) - 1 /\ (i - 1) + 1 = i
      BY <1>2, <2>2
    <3>2. CallQueue'[i] = CallersOf(tasks')[i - 1]
      BY <1>6, <3>1
    <3>3. CallersOf(tasks')[i - 1] = tasks[i].caller
      BY <1>2, <1>4, <3>1
    <3>4. QED
      BY <1>3, <3>2, <3>3
  <2>3. QED
    BY <2>1, <2>2
<1>8. CallQueue' = CallersOf(tasks)
  BY <1>3, <1>6, <1>7, SeqEqual
<1>9. QED
  BY <1>1, <1>8 DEF CallQueue

\* Answering takes the oldest caller off.
LEMMA AnswerTakes ==
  ASSUME CInv, worker \in {"task", "chunk"}, Answer
  PROVE  CallQueue # <<>> /\ CallQueue' = Tail(CallQueue)
<1>1. running # None /\ running.caller \in Callers /\ tasks \in Seq(Request)
  BY DEF CInv, TInv, WorkerOK, HostOK, PromisesOpen
<1>2. CallersOf(tasks) \in Seq(Callers)
  BY <1>1, CallersTyped
<1>3. running' = None /\ tasks' = tasks
  BY DEF Answer
<1>4. CallQueue' = CallersOf(tasks)
  BY <1>3 DEF CallQueue, CallersOf
<1>5. QED
  BY <1>1, <1>2, <1>4, ConsFacts DEF CallQueue

\* The runtime serves calls one at a time in the order of their acceptance,
\* and keeps accepted calls when it stops: it implements SerialCalls.
THEOREM RefinesCalls == Spec => CallsSpec
<1>a. CallQueue = IF running = None
                  THEN [i \in DOMAIN tasks |-> tasks[i].caller]
                  ELSE <<running.caller>> \o [i \in DOMAIN tasks |-> tasks[i].caller]
  BY DEF CallQueue, CallersOf
<1>b. CInv => /\ CallQueue \in Seq(Callers)
              /\ \A i \in DOMAIN CallQueue : CallQueue[i] \in promised
  BY QueueFacts
<1>1. Init => Calls!Init
  BY DEF Init, Calls!Init
<1>2. CInv /\ [Next]_vars => [Calls!Next]_(Calls!service)
  <2> SUFFICES ASSUME CInv, [Next]_vars PROVE [Calls!Next]_(Calls!service)
    OBVIOUS
  <2>a. ASSUME CallQueue' = CallQueue, UNCHANGED stopping
        PROVE  UNCHANGED Calls!service
    BY <2>a DEF Calls!service, CallQueue, CallersOf
  <2>b. ASSUME UNCHANGED <<tasks, running, stopping>>
        PROVE  UNCHANGED Calls!service
    BY <2>a, <2>b DEF CallQueue, CallersOf
  <2>1. ASSUME NEW c \in Callers, Submit(c) PROVE Calls!Accept(c)
    <3>1. ~stopping /\ c \notin promised /\ CallQueue' = Append(CallQueue, c)
      BY <2>1, SubmitAccepts
    <3>2. \A i \in DOMAIN CallQueue : CallQueue[i] # c
      BY <1>b, <3>1
    <3>3. UNCHANGED stopping
      BY <2>1 DEF Submit
    <3>4. QED
      BY <3>1, <3>2, <3>3 DEF Calls!Accept, Calls!Waiting, CallQueue, CallersOf
  <2>2. CASE Stop
    BY <2>2 DEF Stop, workerVars, Calls!Next, Calls!Close
  <2>3. ASSUME NEW c \in Callers, Notify(c) \/ Return(c)
        PROVE  UNCHANGED Calls!service
    BY <2>3, <2>b DEF Notify, Return, workerVars, queueVars
  <2>4. CASE NotifyStop \/ Join
    BY <2>4, <2>b DEF NotifyStop, Join, workerVars, queueVars
  <2>5. CASE TakeTask
    BY <2>5, <2>a, TakeUnseen DEF TakeTask
  <2>6. ASSUME worker \in {"task", "chunk"}, Answer PROVE Calls!AnswerOldest
    <3>1. CallQueue # <<>> /\ CallQueue' = Tail(CallQueue) /\ UNCHANGED stopping
      BY <2>6, AnswerTakes DEF Answer
    <3>2. QED
      BY <3>1 DEF Calls!AnswerOldest, CallQueue, CallersOf
  <2>7. CASE Task \/ ChunkEnds
    <3>1. worker \in {"task", "chunk"} /\ (Answer \/ \E s : EnterChunk(s))
      BY <2>7 DEF Task, ChunkEnds, RunGlobal, RunScript, DestroyScript,
                  DestroyGlobalRefused, Serving
    <3>2. CASE Answer
      BY <2>6, <3>1, <3>2 DEF Calls!Next
    <3>3. CASE \E s : EnterChunk(s)
      BY <2>b, <3>3 DEF EnterChunk, queueVars
    <3>4. QED
      BY <3>1, <3>2, <3>3
  <2>8. CASE \/ Start \/ StartFails \/ Sleep \/ Exit \/ Wake \/ Timeout
             \/ SpuriousWake \/ CallbackDone \/ LuaStep
    BY <2>8, <2>b DEF Start, StartFails, Sleep, Exit, CloseState, Wake, Timeout,
           SpuriousWake, WakeUnsignalled, CallbackDone, CallbackReturns,
           CallbackFails, CallbackThrows, CallbackEnds, LuaStep, workerVars, queueVars
  <2>9. ASSUME NEW id \in TimerIds, FireSilent(id) \/ FireCallback(id)
        PROVE  UNCHANGED Calls!service
    BY <2>9, <2>b DEF FireSilent, FireCallback, Fire, queueVars
  <2>10. CASE UNCHANGED vars \/ Over \/ \E id \in TimerIds : Expire(id)
    BY <2>10, <2>b DEF Over, Expire, vars, workerVars, queueVars
  <2>11. QED
    BY <2>1, <2>2, <2>3, <2>4, <2>5, <2>7, <2>8, <2>9, <2>10
       DEF Next, HostStep, WorkerStep, Loop, Calls!Next
<1>3. QED
  BY <1>1, <1>2, CallsInvariant, PTL DEF Spec, CallsSpec, Calls!Spec
=============================================================================
