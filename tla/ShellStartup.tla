---------------------------- MODULE ShellStartup ----------------------------
(* How MainWindow starts its browser: MainWindow.xaml.cs, lines 27 to 99,   *)
(* and WebAssetExtractor.cs. Each attempt is an async method: it runs on    *)
(* the UI thread up to an await and goes on when the awaited task ends, and *)
(* other events are handled in between. The WebView2 control, external, is  *)
(* initialised with one environment: a call with another one throws unless  *)
(* the initialisation before it failed.                                     *)
(* One process is modelled. All that an earlier one leaves behind is files, *)
(* so the folder is in any state such a process can have left it in.        *)
EXTENDS Naturals, Sequences

CONSTANT MaxAttempts    \* bound: the first attempt and the retries

ASSUME StartupAssumption == MaxAttempts \in Nat \ {0}

VARIABLES
    process,        \* "new", "running" or "ended"
    disk,           \* the files of web-assets
    phase,          \* where each attempt of this process is
    control,        \* the WebView2 control
    panel,          \* what the window shows
    browserInitialized

startupVars == <<process, disk, phase, control, panel, browserInitialized>>

Attempts == 1..MaxAttempts
Phases == {"idle", "creating", "ensuring", "done"}

AssetPaths == <<"index.html", "assets/app.js">>

Running == process = "running"

\* Fault: a file that exists is taken for written.
WrittenIfMissing(folder, n, opened) ==
    [file \in DOMAIN folder \union {AssetPaths[i] : i \in 1..opened} |->
        IF file \in DOMAIN folder THEN folder[file]
        ELSE IF \E i \in 1..n : AssetPaths[i] = file THEN "whole"
        ELSE "partial"]

\* The folder after n assets were written whole and as many, or one more,
\* were opened, which empties the file.
Written(folder, n, opened) ==
    [file \in DOMAIN folder \union {AssetPaths[i] : i \in 1..opened} |->
        IF \E i \in 1..n : AssetPaths[i] = file THEN "whole"
        ELSE IF \E i \in 1..opened : AssetPaths[i] = file THEN "partial"
        ELSE folder[file]]

\* How far an extraction that does not end well may come.
Interrupted(folder) ==
    {Written(folder, n, n) : n \in 0..Len(AssetPaths)}
      \union {Written(folder, n - 1, n) : n \in 1..Len(AssetPaths)}

Extracted(folder) == Written(folder, Len(AssetPaths), Len(AssetPaths))

StartupInit ==
    /\ process = "new"
    /\ disk \in Interrupted(<<>>) \union Interrupted(Extracted(<<>>))
    /\ phase = [a \in Attempts |-> "idle"]
    /\ control = "fresh"
    /\ panel = "none"
    /\ browserInitialized = FALSE

\* The window is made and loaded.
LaunchProcess ==
    /\ process = "new"
    /\ process' = "running"
    /\ UNCHANGED <<disk, phase, control, panel, browserInitialized>>

\* The window is closed, or the process is ended.
EndProcess ==
    /\ Running
    /\ process' = "ended"
    /\ UNCHANGED <<disk, phase, control, panel, browserInitialized>>

ShowFallback == panel' = "fallback"

\* The first attempt begins when the window is loaded, others by Retry, which
\* is a button of the fallback panel.
MayBegin(a) ==
    /\ Running
    /\ phase[a] = "idle"
    /\ \A b \in 1..(a - 1) : phase[b] # "idle"
    /\ a = 1 \/ panel = "fallback"

Phase(a, next) == phase' = [phase EXCEPT ![a] = next]

\* An attempt after the browser was initialised does nothing.
ExtractAssets(a) ==
    /\ MayBegin(a)
    /\ IF browserInitialized THEN Phase(a, "done") /\ UNCHANGED disk
       ELSE Phase(a, "creating") /\ disk' = Extracted(disk)
    /\ UNCHANGED <<process, control, panel, browserInitialized>>

\* Extraction throws, or the folder for user data cannot be created.
ExtractAssetsFails(a) ==
    /\ MayBegin(a)
    /\ ~browserInitialized
    /\ disk' \in Interrupted(disk)
    /\ Phase(a, "done")
    /\ ShowFallback
    /\ UNCHANGED <<process, control, browserInitialized>>

\* Fault: the exception is lost in the async method.
CreateFailsSilently(a) ==
    /\ Running
    /\ phase[a] = "creating"
    /\ Phase(a, "done")
    /\ UNCHANGED <<process, disk, control, panel, browserInitialized>>

CreateFails(a) ==
    /\ Running
    /\ phase[a] = "creating"
    /\ Phase(a, "done")
    /\ ShowFallback
    /\ UNCHANGED <<process, disk, control, browserInitialized>>

\* Fault: the flag is set before the browser was awaited.
EnsureBrowserFlagged(a) ==
    /\ Running
    /\ phase[a] = "creating"
    /\ control = "fresh"
    /\ control' = "initializing"
    /\ Phase(a, "ensuring")
    /\ browserInitialized' = TRUE
    /\ UNCHANGED <<process, disk, panel>>

\* CreateAsync has ended: EnsureCoreWebView2Async is called with the new
\* environment, and throws if the control has or is getting another one.
EnsureBrowser(a) ==
    /\ Running
    /\ phase[a] = "creating"
    /\ control = "fresh"
    /\ control' = "initializing"
    /\ Phase(a, "ensuring")
    /\ UNCHANGED <<process, disk, panel, browserInitialized>>

EnsureBrowserRefused(a) ==
    /\ Running
    /\ phase[a] = "creating"
    /\ control # "fresh"
    /\ Phase(a, "done")
    /\ ShowFallback
    /\ UNCHANGED <<process, disk, control, browserInitialized>>

ControllerFails(a) ==
    /\ Running
    /\ phase[a] = "ensuring"
    /\ control' = "fresh"
    /\ Phase(a, "done")
    /\ ShowFallback
    /\ UNCHANGED <<process, disk, browserInitialized>>

\* The control is there, and the mapping, a setting or the navigation throws.
ShellSetupFails(a) ==
    /\ Running
    /\ phase[a] = "ensuring"
    /\ control' = "ready"
    /\ Phase(a, "done")
    /\ ShowFallback
    /\ UNCHANGED <<process, disk, browserInitialized>>

\* The rest of the method: mapping, handlers, navigation, the flag.
ControllerReady(a) ==
    /\ Running
    /\ phase[a] = "ensuring"
    /\ control' = "ready"
    /\ Phase(a, "done")
    /\ panel' = "browser"
    /\ browserInitialized' = TRUE
    /\ UNCHANGED <<process, disk>>

\* An attempt begins or goes on, short of showing the browser.
AttemptStep(a) ==
    \/ ExtractAssets(a) \/ ExtractAssetsFails(a)
    \/ CreateFails(a) \/ EnsureBrowser(a) \/ EnsureBrowserRefused(a)
    \/ ControllerFails(a) \/ ShellSetupFails(a)

\* The state of the startup is of the right type.
StartupTypeOK ==
    /\ process \in {"new", "running", "ended"}
    /\ DOMAIN disk \subseteq {AssetPaths[i] : i \in DOMAIN AssetPaths}
    /\ \A file \in DOMAIN disk : disk[file] \in {"partial", "whole"}
    /\ phase \in [Attempts -> Phases]
    /\ control \in {"fresh", "initializing", "ready"}
    /\ panel \in {"none", "browser", "fallback"}
    /\ browserInitialized \in BOOLEAN
=============================================================================
