------------------------------ MODULE LuaRuntime ------------------------------
(***************************************************************************)
(* The Lua runtime (src/src/lua/lua_runtime.cpp): host threads submit calls *)
(* to one worker thread through a mutex-guarded queue and block on a        *)
(* promise; the worker serves calls and due timers and owns the Lua state;  *)
(* the destructor stops it.  One action is one critical section of mutex_,  *)
(* one notification after it, or one step of the worker outside the lock.   *)
(*                                                                         *)
(* Time is abstract: `due` holds the enabled timers whose nextFire has      *)
(* passed and `ahead` the order in which it passed.  What Lua code computes *)
(* is abstract too: a running chunk or callback makes any of the calls that *)
(* change the runtime, in any order, and then ends.  The luaL_ref registry  *)
(* is kept, because a reference used after luaL_unref is another function.  *)
(*                                                                         *)
(* A definition marked "Fault" is a variant with a plausible bug, used to   *)
(* show that a property would notice it; no specification uses it.          *)
(***************************************************************************)
EXTENDS Naturals, Sequences

CONSTANTS Callers,    \* host threads inside the public API
          Operations, \* the members of the public API the host calls
          Scripts,    \* script ids
          Global,     \* kGlobalScriptContextId
          Refs,       \* integers luaL_ref can return
          NoRef,      \* LUA_NOREF
          MaxTimers,  \* bound on the timer ids handed out
          MaxLocals,  \* bound on the local allocations of one context
          None        \* std::nullopt: no script, no timer, no request

ASSUME OperationsAssumption ==
  Operations \subseteq {"runGlobal", "runScript", "destroyScript"}
ASSUME ScriptsAssumption == Global \in Scripts /\ None \notin Scripts
ASSUME RefsAssumption == NoRef \notin Refs
ASSUME BoundsAssumption == MaxTimers \in Nat /\ MaxLocals \in Nat

VARIABLES
  worker,           \* where the worker thread is
  signalled,        \* the sleeping worker has been notified
  tasks,            \* tasks_
  running,          \* the request the worker serves
  firing,           \* the timer whose callback runs
  currentScriptId,  \* currentScriptId_
  stopping,         \* stopping_
  destructor,       \* where ~Impl is
  callers,          \* where each host thread is
  promised,         \* callers whose promise is not satisfied yet
  timers,           \* timers_: id -> record or None
  nextTimerId,      \* nextTimerId_
  due,              \* enabled timers past their nextFire
  ahead,            \* pairs of due timers: the first has the earlier nextFire
  registry,         \* references luaL_ref has handed out and not taken back
  environments,     \* scriptEnvironments_: script -> reference or NoRef
  contexts,         \* script contexts the session holds for Lua
  allocations       \* how many local allocations each of them has

hostVars == <<destructor, callers>>
queueVars == <<tasks, stopping, promised>>
luaVars == <<timers, nextTimerId, due, ahead, registry, environments>>
sessionVars == <<contexts, allocations>>
workerVars == <<worker, signalled, running, firing, currentScriptId>>
vars == <<workerVars, queueVars, hostVars, luaVars, sessionVars>>

TimerIds == 1 .. MaxTimers

TimerRecord == [owner : Scripts \cup {None}, enabled : BOOLEAN,
                oneshot : BOOLEAN, callback : Refs \cup {NoRef}]

Request == [caller : Callers, op : Operations, script : Scripts]

ASSUME NoneAssumption == None \notin TimerRecord \cup Request \cup TimerIds

Init ==
  /\ worker = "starting" /\ signalled = FALSE
  /\ running = None /\ firing = None /\ currentScriptId = None
  /\ tasks = <<>> /\ stopping = FALSE /\ promised = {}
  /\ destructor = "none" /\ callers = [c \in Callers |-> "idle"]
  /\ timers = [id \in TimerIds |-> None] /\ nextTimerId = 1
  /\ due = {} /\ ahead = {}
  /\ registry = {} /\ environments = [s \in Scripts |-> NoRef]
  /\ contexts = {} /\ allocations = [s \in Scripts |-> 0]

-----------------------------------------------------------------------------
(* The host's side: submit and the destructor.                             *)

\* The constructor has returned and the process still runs.
Usable == worker \notin {"starting", "terminated"}

\* cv_.notify_all: it reaches the worker only while that is waiting.
Notification == signalled' = (signalled \/ worker = "asleep")

\* The critical section of submit; a stopping runtime throws.
Submit(c) ==
  /\ Usable
  /\ callers[c] = "idle"
  /\ ~stopping
  /\ \E request \in Request :
       /\ request.caller = c
       /\ request.op = "runGlobal" => request.script = Global
       /\ tasks' = Append(tasks, request)
  /\ promised' = promised \cup {c}
  /\ callers' = [callers EXCEPT ![c] = "notifying"]
  /\ UNCHANGED <<workerVars, stopping, destructor, luaVars, sessionVars>>

\* Fault: the worker is not notified.
NotifyForgotten(c) ==
  /\ Usable
  /\ callers[c] = "notifying"
  /\ callers' = [callers EXCEPT ![c] = "waiting"]
  /\ UNCHANGED <<workerVars, queueVars, destructor, luaVars, sessionVars>>

\* The lock is released before the worker is notified.
Notify(c) ==
  /\ Usable
  /\ callers[c] = "notifying"
  /\ Notification
  /\ callers' = [callers EXCEPT ![c] = "waiting"]
  /\ UNCHANGED <<worker, running, firing, currentScriptId, queueVars,
                 destructor, luaVars, sessionVars>>

\* future.get() returns or rethrows.
Return(c) ==
  /\ Usable
  /\ callers[c] = "waiting"
  /\ c \notin promised
  /\ callers' = [callers EXCEPT ![c] = "idle"]
  /\ UNCHANGED <<workerVars, queueVars, destructor, luaVars, sessionVars>>

Stop ==
  /\ Usable
  /\ destructor = "none"
  /\ stopping' = TRUE
  /\ destructor' = "notifying"
  /\ UNCHANGED <<workerVars, tasks, promised, callers, luaVars, sessionVars>>

\* Fault: the destructor joins a worker it never woke.
NotifyStopForgotten ==
  /\ Usable
  /\ destructor = "notifying"
  /\ destructor' = "joining"
  /\ UNCHANGED <<workerVars, queueVars, callers, luaVars, sessionVars>>

NotifyStop ==
  /\ Usable
  /\ destructor = "notifying"
  /\ Notification
  /\ destructor' = "joining"
  /\ UNCHANGED <<worker, running, firing, currentScriptId, queueVars, callers,
                 luaVars, sessionVars>>

Join ==
  /\ destructor = "joining"
  /\ worker = "exited"
  /\ destructor' = "joined"
  /\ UNCHANGED <<workerVars, queueVars, callers, luaVars, sessionVars>>

-----------------------------------------------------------------------------
(* The worker's loop.                                                      *)

Start ==
  /\ worker = "starting"
  /\ worker' = "loop"
  /\ UNCHANGED <<signalled, running, firing, currentScriptId, queueVars,
                 hostVars, luaVars, sessionVars>>

\* initialize() throws (mainModule of a process that has gone): ready.get()
\* rethrows in the constructor, whose worker_ is still joinable, and the
\* thread's destructor calls std::terminate.
StartFails ==
  /\ worker = "starting"
  /\ worker' = "terminated"
  /\ UNCHANGED <<signalled, running, firing, currentScriptId, queueVars,
                 hostVars, luaVars, sessionVars>>

\* Fault: a late call overtakes those that wait.
TakeNewestTask ==
  /\ worker = "loop"
  /\ tasks # <<>>
  /\ running' = tasks[Len(tasks)]
  /\ tasks' = SubSeq(tasks, 1, Len(tasks) - 1)
  /\ worker' = "task"
  /\ UNCHANGED <<signalled, firing, currentScriptId, stopping, promised,
                 hostVars, luaVars, sessionVars>>

\* A waiting call always goes before a due timer, also while stopping.
TakeTask ==
  /\ worker = "loop"
  /\ tasks # <<>>
  /\ running' = Head(tasks)
  /\ tasks' = Tail(tasks)
  /\ worker' = "task"
  /\ UNCHANGED <<signalled, firing, currentScriptId, stopping, promised,
                 hostVars, luaVars, sessionVars>>

\* The predicate the worker waits for.
Awaited == stopping \/ tasks # <<>>

Sleep ==
  /\ worker = "loop"
  /\ ~Awaited
  /\ due = {}
  /\ worker' = "asleep"
  /\ UNCHANGED <<signalled, running, firing, currentScriptId, queueVars,
                 hostVars, luaVars, sessionVars>>

\* wait re-evaluates the predicate and goes back to sleep when it is false.
Wake ==
  /\ worker = "asleep"
  /\ signalled
  /\ worker' = IF Awaited THEN "loop" ELSE "asleep"
  /\ signalled' = FALSE
  /\ UNCHANGED <<running, firing, currentScriptId, queueVars, hostVars,
                 luaVars, sessionVars>>

WakeUnsignalled ==
  /\ worker = "asleep"
  /\ worker' = "loop"
  /\ signalled' = FALSE
  /\ UNCHANGED <<running, firing, currentScriptId, queueVars, hostVars,
                 luaVars, sessionVars>>

\* wait_until passes the earliest nextFire.
Timeout == due # {} /\ WakeUnsignalled

\* A wait may end for no reason at all; only a true predicate leaves it.
SpuriousWake == Awaited /\ WakeUnsignalled

\* The worker's loop is left: the references of timers and environments are
\* given back and the Lua state is closed.
CloseState ==
  /\ worker' = "exited"
  /\ timers' = [id \in TimerIds |-> None]
  /\ due' = {} /\ ahead' = {}
  /\ environments' = [s \in Scripts |-> NoRef]
  /\ registry' = {}
  /\ UNCHANGED <<signalled, running, firing, currentScriptId, queueVars,
                 hostVars, nextTimerId, sessionVars>>

\* Fault: calls still in the queue are forgotten.
ExitUndrained == worker = "loop" /\ stopping /\ CloseState

Exit == worker = "loop" /\ stopping /\ tasks = <<>> /\ CloseState

-----------------------------------------------------------------------------
(* Timers.                                                                 *)

Enabled(id) == timers[id] # None /\ timers[id].enabled

\* Time passes nextFire of an enabled timer.
Expire(id) ==
  /\ worker # "terminated"
  /\ Enabled(id)
  /\ id \notin due
  /\ due' = due \cup {id}
  /\ ahead' = ahead \cup (due \X {id})
  /\ UNCHANGED <<workerVars, queueVars, hostVars, timers, nextTimerId,
                 registry, environments, sessionVars>>

\* nextFire of these timers is set again, or nobody looks at it any more.
NotDue(ids) ==
  /\ due' = due \ ids
  /\ ahead' = {p \in ahead : p[1] \notin ids /\ p[2] \notin ids}

Without(ref) == registry \ {ref}

Timer(id, r) == timers' = [timers EXCEPT ![id] = r]

\* destroyTimer for each timer of a set; unknown ids are ignored.
DestroyTimers(ids) ==
  /\ timers' = [id \in TimerIds |-> IF id \in ids THEN None ELSE timers[id]]
  /\ NotDue(ids)

CallbacksOf(ids) ==
  {timers[id].callback : id \in {i \in ids : timers[i] # None}} \ {NoRef}

\* Fault: the map's first timer that is due goes first.
NextDueByOrder(id) == \A other \in due : id <= other

\* findNextDueTimer
NextDue(id) == \A other \in due : <<other, id>> \notin ahead

Fire(id) ==
  /\ worker = "loop"
  /\ ~Awaited
  /\ id \in due
  /\ NextDue(id)
  /\ UNCHANGED <<signalled, running, queueVars, hostVars, timers, nextTimerId,
                 registry, environments, sessionVars>>

\* fireTimer of a timer without a callback: it is only scheduled again.
FireSilent(id) ==
  /\ Fire(id)
  /\ timers[id].callback = NoRef
  /\ NotDue({id})
  /\ UNCHANGED <<worker, firing, currentScriptId>>

FireCallback(id) ==
  /\ Fire(id)
  /\ timers[id].callback # NoRef
  /\ worker' = "callback"
  /\ firing' = id
  /\ currentScriptId' = timers[id].owner
  /\ UNCHANGED <<due, ahead>>

CallbackEnds ==
  /\ worker = "callback"
  /\ worker' = "loop"
  /\ firing' = None
  /\ currentScriptId' = None
  /\ UNCHANGED <<signalled, running, queueVars, hostVars, nextTimerId,
                 environments, sessionVars>>

\* Fault: the record from before the callback is written back.
CallbackReturnsStale ==
  /\ CallbackEnds
  /\ Timer(firing, [owner |-> currentScriptId, enabled |-> TRUE,
                    oneshot |-> FALSE, callback |-> NoRef])
  /\ NotDue({firing})
  /\ UNCHANGED registry

\* The record is looked up again: the callback may have destroyed the timer
\* or switched it off.
CallbackReturns ==
  /\ CallbackEnds
  /\ \/ /\ ~Enabled(firing)
        /\ UNCHANGED <<timers, due, ahead, registry>>
     \/ /\ Enabled(firing) /\ timers[firing].oneshot
        /\ DestroyTimers({firing})
        /\ registry' = registry \ CallbacksOf({firing})
     \/ /\ Enabled(firing) /\ ~timers[firing].oneshot
        /\ NotDue({firing})
        /\ UNCHANGED <<timers, registry>>

\* lua_pcall reports a Lua error: a timer that still exists is switched off.
CallbackFails ==
  /\ CallbackEnds
  /\ timers' = [id \in TimerIds |->
                  IF id = firing /\ timers[id] # None
                  THEN [timers[id] EXCEPT !.enabled = FALSE]
                  ELSE timers[id]]
  /\ NotDue({firing})
  /\ UNCHANGED registry

\* A binding throws a C++ exception, which lua_pcall, compiled as C, does not
\* stop.  It leaves fireTimer and workerLoop; the thread's handler calls
\* set_exception on a promise that has its value, and that throw terminates.
CallbackThrows ==
  /\ worker = "callback"
  /\ worker' = "terminated"
  /\ UNCHANGED <<signalled, running, firing, currentScriptId, queueVars,
                 hostVars, luaVars, sessionVars>>

-----------------------------------------------------------------------------
(* What Lua code, in a chunk or in a callback, can do.                     *)

InLua == worker \in {"chunk", "callback"}

\* The three forms of createTimer; a refused call has used an id up.
CreateTimer ==
  /\ nextTimerId <= MaxTimers
  /\ nextTimerId' = nextTimerId + 1
  /\ \/ UNCHANGED <<timers, registry>>
     \/ /\ \E e \in BOOLEAN :
             Timer(nextTimerId, [owner |-> currentScriptId, enabled |-> e,
                                 oneshot |-> FALSE, callback |-> NoRef])
        /\ UNCHANGED registry
     \/ \E r \in Refs \ registry :
          /\ Timer(nextTimerId, [owner |-> currentScriptId, enabled |-> TRUE,
                                 oneshot |-> TRUE, callback |-> r])
          /\ registry' = registry \cup {r}
  /\ UNCHANGED <<due, ahead, environments, sessionVars>>

\* Timer handles outlive the chunk that made them, so any Lua code may hold
\* one of any timer; a destroyed timer answers with an error.
SetInterval(id) ==
  /\ Enabled(id)
  /\ NotDue({id})
  /\ UNCHANGED <<timers, nextTimerId, registry, environments, sessionVars>>

\* Fault: a timer that is switched off stays scheduled.
SetEnabledOnly(id, enabled) ==
  /\ Timer(id, [timers[id] EXCEPT !.enabled = enabled])
  /\ UNCHANGED <<nextTimerId, due, ahead, registry, environments, sessionVars>>

SetEnabled(id, enabled) ==
  /\ Timer(id, [timers[id] EXCEPT !.enabled = enabled])
  /\ NotDue({id})
  /\ UNCHANGED <<nextTimerId, registry, environments, sessionVars>>

\* Fault: the reference is given back and stays in the record.
ClearOnTimerDangling(id) ==
  /\ registry' = Without(timers[id].callback)
  /\ UNCHANGED <<timers, nextTimerId, due, ahead, environments, sessionVars>>

\* nil, or a value that is no function: the error comes after the unref.
ClearOnTimer(id) ==
  /\ registry' = Without(timers[id].callback)
  /\ Timer(id, [timers[id] EXCEPT !.callback = NoRef])
  /\ UNCHANGED <<nextTimerId, due, ahead, environments, sessionVars>>

SetOnTimer(id) ==
  /\ \E r \in Refs \ Without(timers[id].callback) :
       /\ registry' = Without(timers[id].callback) \cup {r}
       /\ Timer(id, [timers[id] EXCEPT !.callback = r])
  /\ UNCHANGED <<nextTimerId, due, ahead, environments, sessionVars>>

DestroyTimer(id) ==
  /\ DestroyTimers({id})
  /\ registry' = registry \ CallbacksOf({id})
  /\ UNCHANGED <<nextTimerId, environments, sessionVars>>

\* currentScriptContextId: the script that runs, or the hidden global one.
CurrentContext == IF currentScriptId = None THEN Global ELSE currentScriptId

\* Any binding that resolves a name or assembles creates the context; an
\* assembly script leaves it with more or fewer local allocations.
UseContext ==
  /\ contexts' = contexts \cup {CurrentContext}
  /\ \E k \in 0 .. MaxLocals :
       allocations' = [allocations EXCEPT ![CurrentContext] = k]
  /\ UNCHANGED luaVars

LuaStep ==
  /\ InLua
  /\ \/ CreateTimer
     \/ UseContext
     \/ \E id \in TimerIds :
          /\ timers[id] # None
          /\ \/ SetInterval(id)
             \/ \E enabled \in BOOLEAN : SetEnabled(id, enabled)
             \/ ClearOnTimer(id)
             \/ SetOnTimer(id)
             \/ DestroyTimer(id)
  /\ UNCHANGED <<workerVars, queueVars, hostVars>>
-----------------------------------------------------------------------------
(* Serving calls.                                                          *)

Serving(op) == worker = "task" /\ running.op = op

\* The task ends, with a value or an exception: the caller's promise is set.
Answer ==
  /\ worker' = "loop"
  /\ running' = None
  /\ currentScriptId' = None
  /\ promised' = promised \ {running.caller}
  /\ UNCHANGED <<signalled, firing, tasks, stopping, hostVars>>

EnterChunk(scriptId) ==
  /\ worker' = "chunk"
  /\ currentScriptId' = scriptId
  /\ UNCHANGED <<signalled, running, firing, queueVars, hostVars>>

\* The chunk does not compile, or it runs.
RunGlobal ==
  /\ Serving("runGlobal")
  /\ Answer \/ EnterChunk(None)
  /\ UNCHANGED <<luaVars, sessionVars>>

\* getOrCreateScriptEnv
EnsureEnvironment(s) ==
  \/ /\ environments[s] # NoRef
     /\ UNCHANGED <<environments, registry>>
  \/ /\ environments[s] = NoRef
     /\ \E r \in Refs \ registry :
          /\ environments' = [environments EXCEPT ![s] = r]
          /\ registry' = registry \cup {r}

\* Context and environment exist before the chunk is compiled, and stay when
\* that fails.
RunScript ==
  /\ Serving("runScript")
  /\ contexts' = contexts \cup {running.script}
  /\ EnsureEnvironment(running.script)
  /\ Answer \/ EnterChunk(running.script)
  /\ UNCHANGED <<timers, nextTimerId, due, ahead, allocations>>

TimersOf(s) == {id \in TimerIds : timers[id] # None /\ timers[id].owner = s}

\* The last part of destroyScript: the allocations are freed one by one, and
\* a free that throws leaves the rest of them and the context.
ReleaseContext(s) ==
  \/ /\ contexts' = contexts \ {s}
     /\ allocations' = [allocations EXCEPT ![s] = 0]
  \/ \E k \in 1 .. allocations[s] :
       /\ allocations' = [allocations EXCEPT ![s] = k]
       /\ UNCHANGED contexts

\* Fault: the script's timers go on.
DestroyScriptKeepsTimers ==
  /\ Serving("destroyScript")
  /\ running.script # Global
  /\ registry' = registry \ {environments[running.script]}
  /\ environments' = [environments EXCEPT ![running.script] = NoRef]
  /\ ReleaseContext(running.script)
  /\ Answer
  /\ UNCHANGED <<timers, due, ahead, nextTimerId>>

DestroyScript ==
  /\ Serving("destroyScript")
  /\ running.script # Global
  /\ DestroyTimers(TimersOf(running.script))
  /\ registry' = registry \ (CallbacksOf(TimersOf(running.script))
                               \cup {environments[running.script]})
  /\ environments' = [environments EXCEPT ![running.script] = NoRef]
  /\ ReleaseContext(running.script)
  /\ Answer
  /\ UNCHANGED nextTimerId

DestroyGlobalRefused ==
  /\ Serving("destroyScript")
  /\ running.script = Global
  /\ Answer
  /\ UNCHANGED <<luaVars, sessionVars>>

\* The chunk returns or raises; a C++ exception of a binding arrives in
\* submit's handler all the same.
ChunkEnds ==
  /\ worker = "chunk"
  /\ Answer
  /\ UNCHANGED <<luaVars, sessionVars>>

-----------------------------------------------------------------------------
Loop ==
  \/ TakeTask
  \/ Sleep
  \/ Exit
  \/ \E id \in TimerIds : FireSilent(id) \/ FireCallback(id)

Task == RunGlobal \/ RunScript \/ DestroyScript \/ DestroyGlobalRefused

CallbackDone == CallbackReturns \/ CallbackFails \/ CallbackThrows

HostStep ==
  \/ \E c \in Callers : Submit(c) \/ Notify(c) \/ Return(c)
  \/ Stop
  \/ NotifyStop
  \/ Join

WorkerStep ==
  \/ Start
  \/ StartFails
  \/ Loop
  \/ Wake
  \/ Timeout
  \/ SpuriousWake
  \/ Task
  \/ LuaStep
  \/ ChunkEnds
  \/ CallbackDone

\* The runtime object is gone, or the process is.
Over ==
  /\ worker = "terminated" \/ destructor = "joined"
  /\ UNCHANGED vars

Next ==
  \/ HostStep
  \/ WorkerStep
  \/ \E id \in TimerIds : Expire(id)
  \/ Over

Spec == Init /\ [][Next]_vars

\* The mutex is handed on, a thread that can run does, a notified waiter
\* wakes, and a wait with a deadline ends at it.  Chunks and callbacks end:
\* that is a demand on the scripts, the runtime has no way to enforce it.
\* No thread has to call, to stop the runtime, or to wake spuriously.
Fairness ==
  /\ WF_vars(Loop)
  /\ WF_vars(Wake)
  /\ WF_vars(Timeout)
  /\ WF_vars(Task)
  /\ WF_vars(ChunkEnds)
  /\ WF_vars(CallbackDone)
  /\ \A c \in Callers : WF_vars(Notify(c)) /\ WF_vars(Return(c))
  /\ WF_vars(NotifyStop)
  /\ WF_vars(Join)

FairSpec == Spec /\ Fairness

-----------------------------------------------------------------------------
(* Properties.                                                             *)

WorkerAt == {"starting", "loop", "asleep", "task", "chunk", "callback",
             "exited", "terminated"}

\* Every variable is of its type; what the worker serves fits where it is; the
\* due timers are enabled ones.
TypeOK ==
  /\ worker \in WorkerAt
  /\ signalled \in BOOLEAN
  /\ running \in Request \cup {None}
  /\ running # None <=> worker \in {"task", "chunk"}
  /\ firing \in TimerIds \cup {None}
  /\ worker = "callback" => firing # None
  /\ currentScriptId \in Scripts \cup {None}
  /\ tasks \in Seq(Request)
  /\ stopping \in BOOLEAN
  /\ promised \subseteq Callers
  /\ destructor \in {"none", "notifying", "joining", "joined"}
  /\ callers \in [Callers -> {"idle", "notifying", "waiting"}]
  /\ timers \in [TimerIds -> TimerRecord \cup {None}]
  /\ nextTimerId \in 1 .. MaxTimers + 1
  /\ due \subseteq TimerIds
  /\ ahead \subseteq due \X due
  /\ \A id \in due : Enabled(id)
  /\ registry \subseteq Refs
  /\ environments \in [Scripts -> Refs \cup {NoRef}]
  /\ contexts \subseteq Scripts
  /\ allocations \in [Scripts -> 0 .. MaxLocals]

\* A sleeping worker that has something to do has been notified, or the host
\* thread that gave it the work is about to notify it: no wakeup is lost
\* between the unlock in submit, or in the destructor, and cv_.notify_all.
NoLostWakeup ==
  worker = "asleep" /\ Awaited =>
    \/ signalled
    \/ destructor = "notifying"
    \/ \E c \in Callers : callers[c] = "notifying"

\* A caller whose promise is open has exactly one request, in the queue or
\* being served, and a worker that has exited owes nobody an answer: a call
\* accepted before the runtime stopped is never dropped.
CallsAccounted ==
  /\ \A c \in promised :
       \/ running # None /\ running.caller = c
       \/ \E i \in DOMAIN tasks : tasks[i].caller = c
  /\ \A i \in DOMAIN tasks :
       /\ tasks[i].caller \in promised
       /\ running # None => running.caller # tasks[i].caller
       /\ \A j \in DOMAIN tasks : tasks[i].caller = tasks[j].caller => i = j
  /\ worker = "exited" => promised = {}

\* Script-owned state has its owner: a timer's script has its environment, a
\* script with an environment or with allocations has its context.  So no
\* timer of a destroyed script is left to fire.
OwnersExist ==
  /\ \A id \in TimerIds :
       timers[id] # None /\ timers[id].owner # None =>
         environments[timers[id].owner] # NoRef
  /\ worker # "exited" =>
       \A s \in Scripts :
         environments[s] # NoRef \/ allocations[s] > 0 => s \in contexts

EnvironmentRefs == {environments[s] : s \in Scripts} \ {NoRef}

\* The Lua registry holds exactly the references that timers and environments
\* name, each named once: none leaks, and none is used after it was given back
\* and reused for another function.
RegistryOwned ==
  /\ registry = EnvironmentRefs \cup CallbacksOf(TimerIds)
  /\ EnvironmentRefs \cap CallbacksOf(TimerIds) = {}
  /\ \A s, t \in Scripts :
       environments[s] = environments[t] /\ environments[s] # NoRef => s = t
  /\ \A i, j \in TimerIds :
       /\ timers[i] # None /\ timers[j] # None
       /\ timers[i].callback = timers[j].callback
       /\ timers[i].callback # NoRef
       => i = j

\* A timer that was destroyed, by its own callback for instance, does not come
\* back: fireTimer looks it up again before it reschedules it.
DestroyedTimersStayDestroyed ==
  [][\A id \in TimerIds :
       id < nextTimerId /\ timers[id] = None => timers'[id] = None]_vars

\* An accepted call is answered, whatever timers and other callers do and also
\* when the runtime is being stopped, unless the process dies.
CallsAnswered ==
  \A c \in Callers :
    c \in promised ~> c \notin promised \/ worker = "terminated"

\* A runtime that is being destroyed reaches the end of its destructor.
ShutdownCompletes ==
  stopping ~> destructor = "joined" \/ worker = "terminated"

\* When no more calls come, a timer that is due gets its turn however often
\* the other timers fall due: the earliest nextFire goes first.
TimersTakeTurns ==
  <>[](promised = {}) =>
    \A id \in TimerIds :
      id \in due ~> id \notin due \/ firing = id \/ worker = "terminated"

\* A timer callback that goes wrong costs that timer and nothing else.
TimerErrorContained ==
  [][worker = "callback" => worker' # "terminated"]_vars

\* Calls are answered one at a time in the order of their acceptance.
Calls == INSTANCE SerialCalls WITH
  queue <- IF running = None
           THEN [i \in DOMAIN tasks |-> tasks[i].caller]
           ELSE <<running.caller>> \o [i \in DOMAIN tasks |-> tasks[i].caller],
  closed <- stopping

CallsSpec == Calls!Spec
=============================================================================
