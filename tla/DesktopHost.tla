---------------------------- MODULE DesktopHost ----------------------------
(* The desktop shell: the window's startup, the React page it shows and the *)
(* native counter behind the host API (MainWindow.xaml.cs,                  *)
(* NativeHexBridge.cs, src/host/host_api.cpp). The window's code runs on    *)
(* the UI thread, which also waits for the native call, so a message is     *)
(* handled in one step. WebView2, external, delivers messages in order in   *)
(* both directions and drops those for a document that was navigated away.  *)
EXTENDS WebUi, ShellStartup

CONSTANT MaxReloads   \* bound: how often the document is loaded again

ASSUME ReloadsAssumption == MaxReloads \in Nat

\* main.jsx and App.jsx import no style sheet and no asset, so vite makes no
\* file that the extractor does not ship.
ASSUME BundleAssumption ==
    BundleFiles \subseteq {AssetPaths[i] : i \in DOMAIN AssetPaths}

VARIABLES
    bridge,         \* nativeBridge is not null
    navigating,     \* navigations whose completion was not reported
    reloads,
    script,         \* the counter's script context exists
    counter         \* the global counter of its environment; 0 stands for nil

hostVars == <<bridge, navigating, reloads, script, counter>>
vars == <<uiVars, startupVars, hostVars>>

Init ==
    /\ UiInit
    /\ StartupInit
    /\ bridge = FALSE
    /\ navigating = 0
    /\ reloads = 0
    /\ script = FALSE
    /\ counter = 0

----------------------------------------------------------------------------
\* Process and window.
Launch ==
    /\ webview
    /\ LaunchProcess
    /\ bridge' \in BOOLEAN
    /\ UNCHANGED <<uiVars, navigating, reloads, script, counter>>

\* Closing the window destroys the runtime and ends the process.
Exit ==
    /\ EndProcess
    /\ NewDocument("none")
    /\ toHost' = <<>>
    /\ bridge' = FALSE
    /\ navigating' = 0
    /\ script' = FALSE
    /\ counter' = 0
    /\ UNCHANGED <<webview, asked, answered, reloads>>

Attempt(a) == AttemptStep(a) /\ UNCHANGED <<uiVars, hostVars>>

ShowBrowser(a) ==
    /\ ControllerReady(a)
    /\ NewDocument("loading")
    /\ navigating' = navigating + 1
    /\ UNCHANGED <<webview, toHost, asked, answered, bridge, reloads, script, counter>>

\* The user or the developer tools load the document again. Messages the old
\* document posted still reach the host.
Reload ==
    /\ Running
    /\ page \notin {"none", "loading"}
    /\ reloads < MaxReloads
    /\ reloads' = reloads + 1
    /\ NewDocument("loading")
    /\ navigating' = navigating + 1
    /\ UNCHANGED <<webview, toHost, asked, answered, startupVars, bridge, script, counter>>

\* Whether the navigation succeeded or not.
NavigationCompleted ==
    /\ navigating > 0
    /\ navigating' = navigating - 1
    /\ toPage' = Append(toPage, Message("host-ready", <<>>, 0))
    /\ UNCHANGED <<webview, page, listeners, bridgeReady, hostReady, events, toHost,
                   asked, answered, startupVars, bridge, reloads, script, counter>>

----------------------------------------------------------------------------
\* The host handles the oldest request.
Asks(action) ==
    /\ Running /\ browserInitialized
    /\ toHost # <<>>
    /\ Head(toHost).action = action

\* Fault: a reply is posted before the request is taken off.
ReplyAgain(type, values) ==
    /\ toPage' = Append(toPage, Message(type, values, Head(toHost).request))
    /\ \/ toHost' = Tail(toHost) \/ toHost' = toHost
    /\ UNCHANGED <<webview, page, listeners, bridgeReady, hostReady, events, asked,
                   answered, startupVars, bridge, navigating, reloads>>

Reply(type, values) ==
    /\ toPage' = Append(toPage, Message(type, values, Head(toHost).request))
    /\ toHost' = Tail(toHost)
    /\ UNCHANGED <<webview, page, listeners, bridgeReady, hostReady, events, asked,
                   answered, startupVars, bridge, navigating, reloads>>

\* Fault: the catch block only logs.
ReplyNothing ==
    /\ toHost' = Tail(toHost)
    /\ UNCHANGED <<webview, page, listeners, bridgeReady, hostReady, events, toPage,
                   asked, answered, startupVars, bridge, navigating, reloads>>

ReplyError == Reply("error", <<>>)

Ping == Asks("ping") /\ Reply("pong", <<>>) /\ UNCHANGED <<script, counter>>

GetHostInfo ==
    /\ Asks("getHostInfo")
    /\ Reply("host-info", <<>>) \/ ReplyError
    /\ UNCHANGED <<script, counter>>

\* The demo chunk runs in the global environment and changes nothing.
RunNativeGlobal ==
    /\ Asks("runNativeGlobal")
    /\ (bridge /\ Reply("native-global", <<0>>)) \/ ReplyError
    /\ UNCHANGED <<script, counter>>

\* counter = (counter or 0) + 1; return counter, process
CountUp ==
    /\ bridge
    /\ script' = TRUE
    /\ counter' = counter + 1

RunNativeScriptCounter ==
    /\ Asks("runNativeScriptCounter")
    /\ CountUp
    /\ Reply("native-script-counter", <<counter'>>)

\* The call throws: there is no bridge, the chunk fails with or without having
\* made its context, or it ran and its result cannot be handed over.
RunNativeScriptCounterFails ==
    /\ Asks("runNativeScriptCounter")
    /\ ReplyError
    /\ \/ CountUp
       \/ bridge /\ script' = TRUE /\ UNCHANGED counter
       \/ UNCHANGED <<script, counter>>

\* Fault: the environment stays.
ResetContextOnly ==
    /\ Asks("resetNativeScriptCounter")
    /\ bridge /\ script
    /\ script' = FALSE
    /\ Reply("native-script-reset", <<>>)
    /\ UNCHANGED counter

\* destroyScript takes the environment away and then the context.
ResetNativeScriptCounter ==
    /\ Asks("resetNativeScriptCounter")
    /\ bridge /\ script
    /\ script' = FALSE
    /\ counter' = 0
    /\ Reply("native-script-reset", <<>>)

\* Without a bridge or a context; or it throws on the way.
ResetNativeScriptCounterFails ==
    /\ Asks("resetNativeScriptCounter")
    /\ ReplyError
    /\ \/ UNCHANGED <<script, counter>>
       \/ bridge /\ script /\ counter' = 0 /\ UNCHANGED script

OnWebMessageReceived ==
    \/ Ping \/ GetHostInfo \/ RunNativeGlobal
    \/ RunNativeScriptCounter \/ RunNativeScriptCounterFails
    \/ ResetNativeScriptCounter \/ ResetNativeScriptCounterFails

----------------------------------------------------------------------------
\* Every file the page asks for is there in one piece.
Served == webview => \A file \in BundleFiles : file \in DOMAIN disk /\ disk[file] = "whole"

Page(step) == step /\ UNCHANGED <<startupVars, hostVars>>

PageStep ==
    \/ Page(OpenInBrowser)
    \/ Served /\ Page(RenderRoot)
    \/ Page(LoadFails)
    \/ Page(RunEffects)
    \/ Page(ReceiveMessage)

UserStep == Page(ClearLog) \/ \E action \in Buttons : Page(Post(action))

Next ==
    \/ Launch \/ Exit \/ Reload
    \/ \E a \in Attempts : Attempt(a) \/ ShowBrowser(a)
    \/ NavigationCompleted
    \/ OnWebMessageReceived
    \/ PageStep
    \/ UserStep

Spec == Init /\ [][Next]_vars

\* An attempt under way goes on when what it awaits ends.
AttemptGoesOn(a) ==
    /\ phase[a] # "idle"
    /\ Attempt(a) \/ ShowBrowser(a)

\* The UI thread and the page's event loop go on, and what they await ends;
\* the window is loaded. Nobody has to click, reload or close anything, and
\* the document need not load.
FairSpec ==
    /\ Spec
    /\ WF_vars(Attempt(1))
    /\ \A a \in Attempts : WF_vars(AttemptGoesOn(a))
    /\ WF_vars(NavigationCompleted)
    /\ WF_vars(OnWebMessageReceived)
    /\ WF_vars(Page(RunEffects))
    /\ WF_vars(Page(ReceiveMessage))

----------------------------------------------------------------------------
\* Every variable has values of its type, and a mounted document one handler.
TypeOK ==
    /\ UiTypeOK
    /\ StartupTypeOK
    /\ bridge \in BOOLEAN
    /\ navigating \in 0..(MaxReloads + 1)
    /\ reloads \in 0..MaxReloads
    /\ script \in BOOLEAN
    /\ counter \in 0..MaxRequests

\* What the page heard, or is about to hear, oldest first.
Heard == Reverse(Rows) \o toPage

\* Requests are answered in the order in which they were posted and none
\* twice: from the oldest row of the log to the newest request under way the
\* numbers go up, through the page and both channels (App.jsx:108,
\* MainWindow.xaml.cs:116). What answers no request has the number 0.
RepliesInOrder ==
    LET line == Heard \o toHost
    IN \A i, j \in DOMAIN line :
         i < j /\ line[i].request # 0 /\ line[j].request # 0
           => line[i].request < line[j].request

AboutCounter(message) ==
    message.type \in {"native-script-counter", "native-script-reset", "error"}

Agrees(message) ==
    CASE message.type = "native-script-counter" -> message.values = <<counter>>
      [] message.type = "native-script-reset" -> ~script /\ counter = 0
      [] OTHER -> TRUE

\* The last thing the page heard, or is about to hear, of the native counter
\* is true of it now, across reloads, cleared and cut logs and failed calls;
\* and so is the number in the alert once nothing is on its way
\* (App.jsx:280, MainWindow.xaml.cs:159). An error says nothing of the counter.
ShownCounterIsCurrent ==
    /\ \A i \in DOMAIN Heard :
         AboutCounter(Heard[i]) /\ (\A j \in (i + 1)..Len(Heard) : ~AboutCounter(Heard[j]))
           => Agrees(Heard[i])
    /\ toPage = <<>> /\ AlertBox.title = "native-script-counter"
         => AlertBox.text = [form |-> "values", of |-> <<counter>>]

\* An attempt to start the browser that no later one overtook finds all files
\* its page asks for in one piece, whatever an earlier attempt or process that
\* failed half way left in the folder (WebAssetExtractor.cs:23).
ServedWhenShown ==
    [][\A a \in Attempts :
         ShowBrowser(a) /\ (\A b \in Attempts : b > a => phase[b] = "idle")
           => Served']_vars

\* A started program comes to show the browser or the fallback
\* (MainWindow.xaml.cs:47).
StartupSettles == Running ~> (panel # "none" \/ ~Running)

\* A request that waits for the host while its page listens is answered in the
\* page's log, unless the page goes first (MainWindow.xaml.cs:116).
PostedGetsAnswered ==
    \A r \in 1..MaxRequests :
      (page = "mounted" /\ \E i \in DOMAIN toHost : toHost[i].request = r)
        ~> (r \in answered \/ page # "mounted")

\* A shell that was started is not hidden by the fallback, whatever fails and
\* whoever presses Retry, unless another attempt was still under way when it
\* was started: that attempt fails and hides the shell, and Retry, which does
\* nothing any more, cannot bring it back (MainWindow.xaml.cs:49,
\* MainWindow.xaml.cs:85).
ShellStaysShown ==
    [][browserInitialized /\ panel # "fallback" /\ panel' = "fallback" =>
         \E late, first \in Attempts :
           phase[late] = "creating" /\ phase[first] = "done"]_vars
=============================================================================
