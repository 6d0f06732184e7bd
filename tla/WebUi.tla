------------------------------- MODULE WebUi -------------------------------
(* The React page of the desktop shell: host/HexEngine.WebViewTest/ui.      *)
(* The page keeps an event log and two readiness flags, posts actions to    *)
(* the host and logs what the host posts back. In a plain browser there is  *)
(* no window.chrome.webview, and posting logs an error instead.             *)
EXTENDS Naturals, Sequences, SequencesExt

CONSTANTS
    Kept,           \* how many events the log keeps (20 in the code)
    MaxRequests,    \* bound: how often the user clicks an action button
    StrictEffects,  \* React.StrictMode of a development build mounts twice
    BuildInputs     \* what vite bundles: records of a kind and a name

ASSUME UiAssumption ==
    /\ Kept \in Nat \ {0}
    /\ MaxRequests \in Nat
    /\ StrictEffects \in BOOLEAN

VARIABLES
    webview,        \* window.chrome.webview exists
    page,           \* how far the document is
    listeners,      \* how many message handlers the document has registered
    bridgeReady, hostReady, events, \* the component's state; newest event first
    toHost, toPage, \* messages on their way
    asked,          \* history: how many requests were posted so far
    answered        \* history: the requests whose reply a handler logged

uiVars == <<webview, page, listeners, bridgeReady, hostReady, events, toHost,
            toPage, asked, answered>>

PageStates == {"none", "loading", "failed", "rendered", "mounted"}

\* The buttons that post an action. "Clear event log" posts nothing.
Buttons == {"runNativeGlobal", "runNativeScriptCounter",
            "resetNativeScriptCounter", "getHostInfo", "ping"}

ReplyTypes == {"host-ready", "pong", "host-info", "native-global",
               "native-script-counter", "native-script-reset", "error"}

\* values is payload.values.values, empty when the payload has none; request
\* is history: the request answered, or 0.
Messages == [type : ReplyTypes,
             values : {<<>>} \union {<<n>> : n \in 0..MaxRequests},
             request : 0..MaxRequests]

Message(type, values, request) ==
    [type |-> type, values |-> values, request |-> request]

----------------------------------------------------------------------------
\* The build: the name vite gives to each output file, and so the files the
\* page asks for.
OutputName(input) ==
    IF input.kind = "entry" THEN "assets/app.js"
    ELSE IF input.kind = "css" THEN "assets/app.css"
    ELSE input.name

BundleFiles == {"index.html"} \union {OutputName(input) : input \in BuildInputs}

----------------------------------------------------------------------------
\* What is on the screen.
Chips == [bridge |-> IF bridgeReady THEN "connected" ELSE "missing",
          host |-> IF hostReady THEN "ready" ELSE "booting",
          events |-> Len(events)]

eventSummary(event) ==
    IF event.values # <<>> THEN [form |-> "values", of |-> event.values]
    ELSE [form |-> "json", of |-> <<>>]

AlertBox ==
    IF events = <<>> THEN [severity |-> "info", title |-> "none",
                           text |-> [form |-> "text", of |-> <<>>]]
    ELSE LET lastEvent == Head(events)
         IN [severity |-> IF lastEvent.type = "error" THEN "error" ELSE "info",
             title |-> lastEvent.type,
             text |-> eventSummary(lastEvent)]

\* The event stream: a row an event, the newest on top.
Rows == events

----------------------------------------------------------------------------
UiInit ==
    /\ webview \in BOOLEAN
    /\ page = "none"
    /\ listeners = 0
    /\ bridgeReady = FALSE
    /\ hostReady = FALSE
    /\ events = <<>>
    /\ toHost = <<>>
    /\ toPage = <<>>
    /\ asked = 0
    /\ answered = {}

\* A document without a component: what navigation leaves of the old one.
\* Messages on their way to the old document are dropped.
NewDocument(state) ==
    /\ page' = state
    /\ listeners' = 0
    /\ bridgeReady' = FALSE
    /\ hostReady' = FALSE
    /\ events' = <<>>
    /\ toPage' = <<>>

\* A developer serves the page to a plain browser.
OpenInBrowser ==
    /\ ~webview
    /\ page = "none"
    /\ NewDocument("loading")
    /\ UNCHANGED <<webview, toHost, asked, answered>>

\* main.jsx: the root renders App for the first time.
RenderRoot ==
    /\ page = "loading"
    /\ page' = "rendered"
    /\ bridgeReady' = webview
    /\ hostReady' = FALSE
    /\ events' = <<>>
    /\ UNCHANGED <<webview, listeners, toHost, toPage, asked, answered>>

\* The document or its script does not load.
LoadFails ==
    /\ page = "loading"
    /\ page' = "failed"
    /\ UNCHANGED <<webview, listeners, bridgeReady, hostReady, events, toHost,
                   toPage, asked, answered>>

\* Fault: the effect returns no cleanup.
RemoveNoListener(n) == n

AddListener(n) == IF webview THEN n + 1 ELSE n
RemoveListener(n) == IF webview THEN n - 1 ELSE n

\* The effect, and under StrictMode its cleanup and the effect again.
RunEffects ==
    /\ page = "rendered"
    /\ page' = "mounted"
    /\ listeners' = IF StrictEffects
                      THEN AddListener(RemoveListener(AddListener(listeners)))
                      ELSE AddListener(listeners)
    /\ UNCHANGED <<webview, bridgeReady, hostReady, events, toHost, toPage,
                   asked, answered>>

\* The log after each of n handlers logged the message:
\* [envelope, ...current].slice(0, 20), n times.
Logged(n, current, envelope) ==
    LET log == [i \in 1..n |-> envelope] \o current
    IN SubSeq(log, 1, IF Len(log) < Kept THEN Len(log) ELSE Kept)

\* The host's next message reaches the document; every handler logs it.
ReceiveMessage ==
    /\ toPage # <<>>
    /\ LET message == Head(toPage)
       IN IF listeners = 0 THEN UNCHANGED <<hostReady, events, answered>>
          ELSE /\ hostReady' = (hostReady \/ message.type = "host-ready")
               /\ events' = Logged(listeners, events, message)
               /\ answered' = answered \union {message.request}
    /\ toPage' = Tail(toPage)
    /\ UNCHANGED <<webview, page, listeners, bridgeReady, toHost, asked>>

\* post(action): a message to the host, or an error in the log. The log is
\* not cut to its length here.
Post(action) ==
    /\ page \in {"rendered", "mounted"}
    /\ asked < MaxRequests
    /\ asked' = asked + 1
    /\ IF webview
         THEN /\ toHost' = Append(toHost, [action |-> action, request |-> asked + 1])
              /\ UNCHANGED events
         ELSE /\ events' = <<Message("error", <<>>, asked + 1)>> \o events
              /\ UNCHANGED toHost
    /\ UNCHANGED <<webview, page, listeners, bridgeReady, hostReady, toPage, answered>>

ClearLog ==
    /\ page \in {"rendered", "mounted"}
    /\ events' = <<>>
    /\ UNCHANGED <<webview, page, listeners, bridgeReady, hostReady, toHost,
                   toPage, asked, answered>>

----------------------------------------------------------------------------
\* The page's state is of the right type; a document has one handler once its
\* effect ran in the shell, and never more (App.jsx:103).
UiTypeOK ==
    /\ webview \in BOOLEAN
    /\ page \in PageStates
    /\ listeners = IF webview /\ page = "mounted" THEN 1 ELSE 0
    /\ bridgeReady \in BOOLEAN /\ hostReady \in BOOLEAN
    /\ events \in Seq(Messages)
    /\ webview => Len(events) <= Kept
    /\ toHost \in Seq([action : Buttons, request : 1..MaxRequests])
    /\ toPage \in Seq(Messages)
    /\ asked \in 0..MaxRequests
    /\ answered \subseteq 0..MaxRequests
=============================================================================
