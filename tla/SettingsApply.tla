---------------------------- MODULE SettingsApply ----------------------------
(***************************************************************************)
(* How settings reach the data plane: the requests that change them        *)
(* (RuntimeSettings, NativeSettings), the channel of one place by which    *)
(* they ask for a reconcile, the loop that makes one (runtime.go), and the *)
(* status the gateway reports meanwhile (runtime_reconcile_status.go).     *)
(*                                                                         *)
(* A reconcile first writes Mihomo's nodes to their file, importing the    *)
(* file when none are stored, then reads the settings, then has the driver *)
(* apply both. It may fail at each step; it is then not asked for again.   *)
(* The driver compares a rendering only with the one it recorded last, and *)
(* a call that fails may have changed what Mihomo runs; lease operations   *)
(* call it, too. The steps of a call are in MihomoDriver; here is what it  *)
(* leaves behind. Mihomo does not exit by itself.                          *)
(***************************************************************************)
EXTENDS NativeSettings

CONSTANTS
  InitialStores,   \* what was kept by an earlier run: [doc, secrets, native, file]
  Ticking,         \* whether a refresh interval is configured
  MaxUpdates,      \* BOUND: updates of either kind and route changes that are begun
  MaxFaults        \* BOUND: failures and restarts

\* A request is for the settings or for the nodes.
ASSUME ApplyAssumption == Updater \cap NativeUpdater = {}

\* An earlier run left what this one would have.
ASSUME StoresAssumption ==
  \A s \in InitialStores :
    /\ DOMAIN s.doc = DOMAIN EmptyDoc /\ Profiled(s.doc.profiles) /\ Resolving(s.doc)
    /\ KeysStored(s.doc, s.secrets)

VARIABLES
  queued,    \* the channel: somebody asked for a reconcile
  rec,       \* [pending, running, failed]: of reconciles, as reported
  app,       \* the same for the application of settings
  loop,      \* where the loop is and what it has read
  driver,    \* [given, recorded, runs, canonical]: the settings the driver was
             \* given last; the configuration its signatures name, the one
             \* Mihomo runs, the one in the canonical file
  mark,      \* mark[x] = steps left of the request for a reconcile by x
  begun, faults,
  cleared,   \* HISTORY: an update removed all the nodes, and none was saved since
  silent,    \* HISTORY: an update failed after it had saved, and no reconcile
             \* was started since
  strayed    \* HISTORY: a call of the driver failed after it had changed what
             \* Mihomo runs, and none has loaded a configuration since

dataPlane == <<driver, strayed>>
applyVars == <<queued, rec, app, loop, dataPlane, mark, begun, faults, cleared, silent>>
allVars == <<settingsVars, nativeVars, applyVars>>

Requester == Updater \cup NativeUpdater
Status == [pending |-> FALSE, running |-> FALSE, failed |-> FALSE]
IdleLoop == [at |-> "idle", view |-> NoNodes, doc |-> EmptyDoc, settings |-> FALSE]
\* A configuration is the settings and the nodes it was made of.
StoredInputs == <<doc, native>>
NoneYet == <<>>
NewDriver == [given |-> NoneYet, recorded |-> NoneYet, runs |-> NoneYet, canonical |-> NoneYet]

\* Run asks for the first reconcile itself.
ApplyInit ==
  /\ \E s \in InitialStores :
       doc = s.doc /\ secrets = s.secrets /\ native = s.native /\ file = s.file
  /\ SettingsInit /\ NativeInit
  /\ queued = TRUE /\ rec = [Status EXCEPT !.pending = TRUE] /\ app = Status
  /\ loop = IdleLoop /\ driver = NewDriver /\ strayed = FALSE
  /\ mark = [x \in Requester |-> "none"]
  /\ begun = 0 /\ faults = 0 /\ silent = FALSE /\ cleared = FALSE

-----------------------------------------------------------------------------
(* Requests: the steps of an update, then the request for a reconcile.    *)

\* The two marks are one step; the send is another, and the loop may come
\* between them.
MarkPending(x) ==
  /\ mark[x] = "pending"
  /\ app' = [app EXCEPT !.pending = TRUE] /\ rec' = [rec EXCEPT !.pending = TRUE]
  /\ mark' = [mark EXCEPT ![x] = "send"]
  /\ UNCHANGED <<settingsVars, nativeVars, queued, loop, dataPlane, begun, faults, cleared, silent>>

SendWhenIdle(x) ==
  /\ mark[x] = "send"
  /\ queued' = (queued \/ loop.at = "idle")
  /\ mark' = [mark EXCEPT ![x] = "none"]
  /\ UNCHANGED <<settingsVars, nativeVars, rec, app, loop, dataPlane, begun, faults, cleared, silent>>

\* A request that finds the channel full is dropped: one is on its way.
SendRequest(x) ==
  /\ mark[x] = "send"
  /\ queued' = TRUE
  /\ mark' = [mark EXCEPT ![x] = "none"]
  /\ UNCHANGED <<settingsVars, nativeVars, rec, app, loop, dataPlane, begun, faults, cleared, silent>>

Begin(x) == mark[x] = "none" /\ begun < MaxUpdates /\ begun' = begun + 1
Fault == faults < MaxFaults /\ faults' = faults + 1

SettingsRequest(u) ==
  /\ \/ Begin(u) /\ UNCHANGED <<faults, mark, silent>>
        /\ \E r \in SettingsRequests : BeginUpdate(u, r)
     \/ (ApplyUpdate(u, ResourceIds) \/ Compare(u)) /\ UNCHANGED <<begun, faults, mark, silent>>
     \/ Fault /\ CompareFails(u) /\ UNCHANGED <<begun, mark, silent>>
     \/ Fault /\ ApplyFails(u, ResourceIds) /\ UNCHANGED <<begun, mark>>
        /\ silent' = (silent \/ doc' # doc)
     \/ Schedule(u) /\ mark' = [mark EXCEPT ![u] = "pending"] /\ UNCHANGED <<begun, faults, silent>>
  /\ UNCHANGED <<nativeVars, queued, rec, app, loop, dataPlane, cleared>>

\* AfterApply: the answer is given when a reconcile has been asked for.
AnswerNative(n) ==
  /\ nat[n].at = "replaced"
  /\ nat' = [nat EXCEPT ![n] = IdleNative]
  /\ mark' = [mark EXCEPT ![n] = "pending"]
  /\ UNCHANGED <<native, file, settingsVars, begun, faults, silent>>

NativeRequest(n) ==
  /\ \/ Begin(n) /\ UNCHANGED <<faults, mark, silent>>
        /\ \E r \in NativeRequests : BeginNative(n, r)
     \/ (SaveNative(n) \/ WriteNative(n) \/ ReplaceRefs(n)) /\ UNCHANGED <<begun, faults, mark, silent>>
     \/ Fault /\ NativeFails(n) /\ UNCHANGED <<begun, mark>>
        /\ silent' = (silent \/ nat[n].at # "planned")
     \/ AnswerNative(n)
  /\ cleared' = IF native' = native THEN cleared ELSE native' = NoNodes
  /\ UNCHANGED <<queued, rec, app, loop, dataPlane>>

-----------------------------------------------------------------------------
(* The loop.                                                              *)

StartedIfPending(s) == IF s.pending THEN [s EXCEPT !.pending = FALSE, !.running = TRUE] ELSE s

StartReconcile ==
  /\ loop.at = "idle"
  /\ queued \/ Ticking
  /\ queued' \in {FALSE} \cup {q \in {queued} : Ticking}
  /\ rec' = [rec EXCEPT !.pending = FALSE, !.running = TRUE]
  /\ app' = StartedIfPending(app)
  /\ loop' = [IdleLoop EXCEPT !.at = "load", !.settings = app.pending]
  /\ silent' = FALSE
  /\ UNCHANGED <<settingsVars, nativeVars, dataPlane, mark, begun, faults, cleared>>

Goes(at, changes) == loop' = [changes EXCEPT !.at = at]

LoadNodes ==
  /\ loop.at = "load"
  /\ Goes(IF native = NoNodes THEN "import" ELSE "write", [loop EXCEPT !.view = native])
  /\ UNCHANGED <<settingsVars, nativeVars, queued, rec, app, dataPlane, mark, begun, faults, cleared, silent>>

\* None are stored: what the file holds is taken over.
ReadFile ==
  /\ loop.at = "import"
  /\ Goes(IF file = NoNodes THEN "write" ELSE "adopt", [loop EXCEPT !.view = file])
  /\ UNCHANGED <<settingsVars, nativeVars, queued, rec, app, dataPlane, mark, begun, faults, cleared, silent>>

Adopt ==
  /\ loop.at = "adopt"
  /\ native' = loop.view
  /\ Goes("write", loop)
  /\ UNCHANGED <<settingsVars, file, nat, queued, rec, app, dataPlane, mark, begun, faults, cleared, silent>>

WriteFile ==
  /\ loop.at = "write"
  /\ \A k \in Kind : \A i \in Items(loop.view[k]) : i.uri \notin Malformed
  /\ file' = loop.view
  /\ Goes("read", loop)
  /\ UNCHANGED <<settingsVars, native, nat, queued, rec, app, dataPlane, mark, begun, faults, cleared, silent>>

ReadSettings ==
  /\ loop.at = "read"
  /\ Goes("apply", [loop EXCEPT !.doc = doc])
  /\ UNCHANGED <<settingsVars, nativeVars, queued, rec, app, dataPlane, mark, begun, faults, cleared, silent>>

\* The driver reads the file again and renders what it is given with it. What
\* it recorded last it does not load again.
Desired == <<loop.doc, file>>

Loads(b) ==
  /\ driver' = [given |-> b, recorded |-> <<b, file>>, runs |-> <<b, file>>, canonical |-> <<b, file>>]
  /\ strayed' = FALSE

ApplyDesired ==
  /\ loop.at = "apply"
  /\ \/ driver.recorded # Desired /\ Loads(loop.doc)
     \/ /\ driver.recorded = Desired
        /\ driver' = [driver EXCEPT !.given = loop.doc] /\ UNCHANGED strayed
  /\ Goes("done", loop)
  /\ UNCHANGED <<settingsVars, nativeVars, queued, rec, app, mark, begun, faults, cleared, silent>>

\* A call that fails puts back what was desired and records nothing. Mihomo may
\* go on as before; run the new configuration, whose base was loaded and whose
\* final reload failed, or which it took without the caller being told; be back
\* at the canonical file; or not have been started.
LoadFails(c) ==
  /\ \/ UNCHANGED driver
     \/ driver' = [driver EXCEPT !.runs = c]
     \/ driver' = [driver EXCEPT !.runs = c, !.canonical = c]
     \/ driver' = [driver EXCEPT !.runs = driver.canonical]
     \/ /\ NoneYet \in {driver.given, driver.runs}
        /\ driver' = [driver EXCEPT !.runs = NoneYet, !.canonical = c]
  /\ strayed' = (strayed \/ driver'.runs # driver.runs)

\* Something on the way fails, or the nodes taken over cannot be rendered.
ReconcileFails ==
  /\ loop.at \notin {"idle", "done", "failed"}
  /\ \/ /\ Fault
        /\ \/ loop.at = "apply" /\ driver.recorded # Desired /\ LoadFails(Desired)
           \/ UNCHANGED dataPlane
     \/ /\ loop.at = "write" /\ \E k \in Kind : \E i \in Items(loop.view[k]) : i.uri \in Malformed
        /\ UNCHANGED <<faults, dataPlane>>
  /\ Goes("failed", loop)
  /\ UNCHANGED <<settingsVars, nativeVars, queued, rec, app, mark, begun, cleared, silent>>

\* A lease operation puts or removes a session route, which is part of the
\* configuration: it is loaded with the settings the driver was given last.
RouteChange ==
  /\ begun < MaxUpdates /\ begun' = begun + 1
  /\ \/ Loads(driver.given) /\ UNCHANGED faults
     \/ Fault /\ LoadFails(<<driver.given, file>>)
  /\ UNCHANGED <<settingsVars, nativeVars, queued, rec, app, loop, mark, cleared, silent>>

FinishedAnew(s) == [Status EXCEPT !.failed = loop.at = "failed"]
Finished(s) == [s EXCEPT !.running = FALSE, !.failed = loop.at = "failed"]

FinishReconcile ==
  /\ loop.at \in {"done", "failed"}
  /\ rec' = Finished(rec)
  /\ app' = IF loop.settings THEN Finished(app) ELSE app
  /\ loop' = IdleLoop
  /\ UNCHANGED <<settingsVars, nativeVars, queued, dataPlane, mark, begun, faults, cleared, silent>>

ReconcileStep ==
  \/ StartReconcile \/ LoadNodes \/ ReadFile \/ Adopt \/ WriteFile
  \/ ReadSettings \/ ApplyDesired \/ ReconcileFails \/ FinishReconcile

\* The process ends and starts again; what is stored and the file stay.
RestartGateway ==
  /\ Fault
  /\ upd' = [u \in Updater |-> IdleUpdate]
  /\ nat' = [n \in NativeUpdater |-> IdleNative]
  /\ queued' = TRUE /\ rec' = [Status EXCEPT !.pending = TRUE] /\ app' = Status
  /\ loop' = IdleLoop /\ driver' = NewDriver /\ strayed' = FALSE
  /\ mark' = [x \in Requester |-> "none"]
  /\ silent' = FALSE
  /\ UNCHANGED <<doc, secrets, native, file, begun, cleared>>

ApplyNext ==
  \/ \E u \in Updater : SettingsRequest(u)
  \/ \E n \in NativeUpdater : NativeRequest(n)
  \/ \E x \in Requester : MarkPending(x) \/ SendRequest(x)
  \/ ReconcileStep \/ RouteChange \/ RestartGateway

ApplySpec == ApplyInit /\ [][ApplyNext]_allVars

\* What callers are told, as far as reconciles and settings make it.
RuntimeStatusLabel ==
  IF rec.running \/ rec.pending \/ app.running \/ app.pending THEN "applying"
  ELSE IF rec.failed \/ app.failed THEN "degraded" ELSE "running"

-----------------------------------------------------------------------------
(* Properties.                                                            *)

ApplyTypeOK ==
  /\ SettingsTypeOK
  /\ rec \in [{"pending", "running", "failed"} -> BOOLEAN] /\ DOMAIN app = DOMAIN rec
  /\ loop.at \in {"idle", "load", "import", "adopt", "write", "read", "apply", "done", "failed"}
  /\ \A n \in NativeUpdater : nat[n].at \in {"idle", "planned", "saved", "written", "replaced"}

\* Between an update's save and its mark.
Midway ==
  \/ \E u \in Updater : upd[u].at \in {"saved", "compared", "blind"}
  \/ \E n \in NativeUpdater : nat[n].at \in {"saved", "written", "replaced"}
  \/ \E x \in Requester : mark[x] = "pending"

\* When the gateway reports that it is running, and not applying or degraded,
\* the driver has recorded what is stored as applied, and Mihomo runs it; unless
\* an update failed after it had saved, or is just between its save and its mark.
\* Mihomo may run something else where a call of the driver failed half way,
\* until the next that loads a configuration: those in between, which find
\* what is desired recorded, do nothing and succeed (runtime.go:198-209,
\* runtime_status_application.go:80-91, driver_reconcile_decision.go:39-60).
SettledIsApplied ==
  RuntimeStatusLabel = "running" /\ ~Midway /\ ~silent =>
    driver.recorded = StoredInputs /\ (driver.runs = StoredInputs \/ strayed)

\* No request is lost, though the channel has one place, a request that finds
\* it full is dropped, and the loop may take one between the mark and the send
\* of another: what is reported as pending has been asked for, or is about to
\* be (runtime.go:154-196).
PendingIsAsked ==
  rec.pending \/ app.pending => queued \/ \E x \in Requester : mark[x] = "send"

\* Nodes that were stored and all removed come back by an update only: the
\* file is made of what is stored and is no source of its own (plan.md).
FileIsOnlyProjection ==
  [][cleared /\ native' # native => \E n \in NativeUpdater : nat[n].at = "planned"]_allVars
=============================================================================
