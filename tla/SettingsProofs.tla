--------------------------- MODULE SettingsProofs ---------------------------
(* Settings and how they reach the data plane: what the document promises   *)
(* after any mix of updates, whom an update disconnects, whose keys it may  *)
(* touch, and how the reconciles it asks for are reported and applied.      *)
EXTENDS SettingsApply, TLAPS

-----------------------------------------------------------------------------
(* Reconciles: requests, their status, and what they apply.                 *)

\* What the proofs need to know of the shape of the variables.
UpdateFields == {"at", "request", "before", "names", "alone"}
ApplyShape ==
  /\ DOMAIN upd = Updater /\ \A u \in Updater : DOMAIN upd[u] = UpdateFields
  /\ DOMAIN nat = NativeUpdater /\ \A n \in NativeUpdater : DOMAIN nat[n] = {"at", "plan", "base"}
  /\ mark \in [Requester -> {"none", "pending", "send"}]
  /\ rec \in [pending : BOOLEAN, running : BOOLEAN, failed : BOOLEAN]
  /\ app \in [pending : BOOLEAN, running : BOOLEAN, failed : BOOLEAN]
  /\ DOMAIN loop = {"at", "view", "doc", "settings"}
  /\ queued \in BOOLEAN /\ silent \in BOOLEAN
  /\ strayed \in BOOLEAN /\ DOMAIN driver = {"given", "recorded", "runs", "canonical"}

\* A requester asks for one reconcile after the other.
OneRequest ==
  /\ \A u \in Updater : upd[u].at # "idle" => mark[u] = "none"
  /\ \A n \in NativeUpdater : nat[n].at # "idle" => mark[n] = "none"

\* What is stored may have changed since the last reconcile was started.
Dirty == Midway \/ silent \/ rec.pending

\* The driver has what is stored, and recorded it.
Settled == driver.recorded = StoredInputs /\ driver.given = doc /\ file = native

\* How far the loop is with what is stored.
LoopInv ==
  CASE loop.at = "idle"   -> ~rec.failed => Settled
    [] loop.at = "import" -> native = NoNodes
    [] loop.at = "write"  -> loop.view = native
    [] loop.at = "read"   -> file = native
    [] loop.at = "apply"  -> file = native /\ loop.doc = doc
    [] loop.at = "done"   -> Settled
    [] OTHER -> TRUE

ApplyInv ==
  /\ ApplyShape /\ OneRequest /\ PendingIsAsked
  /\ loop.at # "idle" => rec.running
  /\ driver.runs = driver.recorded \/ strayed
  /\ ~Dirty => LoopInv

LEMMA ApplyStart == ApplyInit => ApplyInv
<1>. SUFFICES ASSUME ApplyInit PROVE ApplyInv
  OBVIOUS
<1>1. ApplyShape
  BY DEF ApplyInit, SettingsInit, NativeInit, ApplyShape, UpdateFields, Requester,
     IdleUpdate, IdleNative, IdleLoop, Status, NewDriver
<1>2. /\ OneRequest /\ PendingIsAsked /\ loop.at = "idle"
      /\ driver.runs = driver.recorded
  BY DEF ApplyInit, OneRequest, PendingIsAsked, Requester, IdleLoop, NewDriver
<1>3. Dirty
  BY DEF ApplyInit, Dirty, Status
<1>. QED
  BY <1>1, <1>2, <1>3 DEF ApplyInv

\* The steps of an update of the settings.
UpdateStep(u) ==
  \/ \E r \in SettingsRequests : BeginUpdate(u, r)
  \/ ApplyUpdate(u, ResourceIds) \/ ApplyFails(u, ResourceIds)
  \/ Compare(u) \/ CompareFails(u) \/ Schedule(u)

LEMMA ShapeUpdate ==
  ASSUME ApplyShape, NEW u \in Updater, UpdateStep(u)
  PROVE  /\ DOMAIN upd' = Updater /\ \A v \in Updater : DOMAIN upd'[v] = UpdateFields
         /\ \A v \in Updater \ {u} : upd'[v].at = upd[v].at
<1> USE DEF ApplyShape, UpdateFields
<1>1. CASE \E r \in SettingsRequests : BeginUpdate(u, r)
  BY <1>1 DEF BeginUpdate, IdleUpdate
<1>2. CASE ApplyUpdate(u, ResourceIds)
  BY <1>2 DEF ApplyUpdate, IdleUpdate
<1>3. CASE ApplyFails(u, ResourceIds)
  BY <1>3 DEF ApplyFails, IdleUpdate
<1>4. CASE Compare(u) \/ CompareFails(u) \/ Schedule(u)
  BY <1>4 DEF Compare, CompareFails, Schedule, IdleUpdate
<1>. QED
  BY <1>1, <1>2, <1>3, <1>4 DEF UpdateStep

\* The invariant goes through a step that leaves the loop where it is, and
\* the statuses too, when a change of what is stored is noted.
LEMMA Noted ==
  ASSUME ApplyInv, ApplyShape', OneRequest', PendingIsAsked',
         UNCHANGED <<loop, rec, driver, strayed>>,
         Dirty => Dirty', UNCHANGED <<doc, native, file>> \/ Dirty'
  PROVE  ApplyInv'
<1>1. (loop.at # "idle" => rec.running)'
  BY DEF ApplyInv
<1>2. ASSUME ~Dirty' PROVE LoopInv'
  <2>1. UNCHANGED <<doc, native, file>> /\ LoopInv
    BY <1>2 DEF ApplyInv
  <2>. QED
    BY <2>1 DEF LoopInv, Settled, StoredInputs
<1>3. (driver.runs = driver.recorded \/ strayed)'
  BY DEF ApplyInv
<1>. QED
  BY <1>1, <1>2, <1>3 DEF ApplyInv

LEMMA SettingsRequestKeeps ==
  ASSUME ApplyInv, NEW u \in Updater, SettingsRequest(u)
  PROVE  ApplyInv'
<1>1. UpdateStep(u)
  BY DEF SettingsRequest, UpdateStep
<1>2. /\ DOMAIN upd' = Updater /\ \A v \in Updater : DOMAIN upd'[v] = UpdateFields
      /\ \A v \in Updater \ {u} : upd'[v].at = upd[v].at
  BY <1>1, ShapeUpdate DEF ApplyInv
<1>3. UNCHANGED <<native, file, nat, queued, rec, app, loop, driver, strayed>>
  BY DEF SettingsRequest, nativeVars, dataPlane
<1>4. /\ u \in Requester /\ ApplyShape /\ OneRequest
      /\ \A n \in NativeUpdater : n # u
  BY ApplyAssumption DEF Requester, ApplyInv
<1>5. CASE Begin(u) /\ UNCHANGED <<mark, silent>> /\ \E r \in SettingsRequests : BeginUpdate(u, r)
  <2>1. mark[u] = "none" /\ upd[u].at = "idle" /\ UNCHANGED <<mark, silent, doc>>
    BY <1>5 DEF Begin, BeginUpdate
  <2>2. ApplyShape'
    BY <1>2, <1>3, <1>4, <2>1 DEF ApplyShape
  <2>3. OneRequest'
    BY <1>2, <1>3, <1>4, <2>1 DEF OneRequest
  <2>4. PendingIsAsked'
    BY <1>3, <2>1 DEF PendingIsAsked, ApplyInv
  <2>5. Dirty => Dirty'
    BY <1>2, <1>3, <2>1 DEF Dirty, Midway
  <2>. QED
    BY <1>3, <2>1, <2>2, <2>3, <2>4, <2>5, Noted
<1>6. CASE ApplyUpdate(u, ResourceIds) /\ UNCHANGED <<mark, silent>>
  <2>1. upd[u].at = "loaded" /\ UNCHANGED <<mark, silent>>
    BY <1>6 DEF ApplyUpdate
  <2>2. doc' = doc \/ upd'[u].at = "saved"
    BY <1>4, <1>6 DEF ApplyUpdate, ApplyShape, UpdateFields
  <2>3. ApplyShape'
    BY <1>2, <1>3, <1>4, <2>1 DEF ApplyShape
  <2>4. OneRequest'
    BY <1>2, <1>3, <1>4, <2>1 DEF OneRequest
  <2>5. PendingIsAsked'
    BY <1>3, <2>1 DEF PendingIsAsked, ApplyInv
  <2>6. (Dirty => Dirty') /\ (doc' = doc \/ Dirty')
    BY <1>2, <1>3, <2>1, <2>2 DEF Dirty, Midway
  <2>. QED
    BY <1>3, <2>3, <2>4, <2>5, <2>6, Noted
<1>7. CASE ApplyFails(u, ResourceIds) /\ UNCHANGED mark /\ silent' = (silent \/ doc' # doc)
  <2>1. upd[u].at = "loaded" /\ UNCHANGED mark
    BY <1>7 DEF ApplyFails
  <2>3. ApplyShape'
    BY <1>2, <1>3, <1>4, <1>7, <2>1 DEF ApplyShape
  <2>4. OneRequest'
    BY <1>2, <1>3, <1>4, <2>1 DEF OneRequest
  <2>5. PendingIsAsked'
    BY <1>3, <2>1 DEF PendingIsAsked, ApplyInv
  <2>6. (Dirty => Dirty') /\ (doc' = doc \/ Dirty')
    BY <1>2, <1>3, <1>7, <2>1 DEF Dirty, Midway
  <2>. QED
    BY <1>3, <2>3, <2>4, <2>5, <2>6, Noted
<1>8. CASE (Compare(u) \/ CompareFails(u)) /\ UNCHANGED <<mark, silent>>
  <2>1. /\ upd[u].at = "saved" /\ upd'[u].at \in {"compared", "blind"}
        /\ UNCHANGED <<mark, silent, doc>>
    BY <1>4, <1>8 DEF Compare, CompareFails, ApplyShape, UpdateFields
  <2>3. ApplyShape'
    BY <1>2, <1>3, <1>4, <2>1 DEF ApplyShape
  <2>4. OneRequest'
    BY <1>2, <1>3, <1>4, <2>1 DEF OneRequest
  <2>5. PendingIsAsked'
    BY <1>3, <2>1 DEF PendingIsAsked, ApplyInv
  <2>6. Dirty'
    BY <2>1 DEF Dirty, Midway
  <2>. QED
    BY <1>3, <2>3, <2>4, <2>5, <2>6, Noted
<1>9. CASE Schedule(u) /\ mark' = [mark EXCEPT ![u] = "pending"] /\ UNCHANGED silent
  <2>1. upd[u].at # "idle" /\ upd'[u].at = "idle" /\ mark[u] = "none"
    BY <1>4, <1>9 DEF Schedule, ApplyShape, OneRequest, IdleUpdate
  <2>2. mark'[u] = "pending" /\ \A x \in Requester \ {u} : mark'[x] = mark[x]
    BY <1>4, <1>9 DEF ApplyShape
  <2>3. ApplyShape'
    BY <1>2, <1>3, <1>4, <1>9 DEF ApplyShape
  <2>4. OneRequest'
    BY <1>2, <1>3, <1>4, <2>1, <2>2 DEF OneRequest, Requester
  <2>5. PendingIsAsked'
    BY <1>3, <2>1, <2>2 DEF PendingIsAsked, ApplyInv
  <2>6. Dirty'
    BY <1>4, <2>2 DEF Dirty, Midway
  <2>. QED
    BY <1>3, <2>3, <2>4, <2>5, <2>6, Noted
<1>. QED
  BY <1>5, <1>6, <1>7, <1>8, <1>9 DEF SettingsRequest

LEMMA NativeRequestKeeps ==
  ASSUME ApplyInv, NEW n \in NativeUpdater, NativeRequest(n)
  PROVE  ApplyInv'
<1>1. UNCHANGED <<queued, rec, app, loop, driver, strayed>>
  BY DEF NativeRequest, dataPlane
<1>2. /\ n \in Requester /\ ApplyShape /\ OneRequest
      /\ \A u \in Updater : n # u
  BY ApplyAssumption DEF Requester, ApplyInv
<1>3. /\ DOMAIN upd' = Updater /\ \A u \in Updater : DOMAIN upd'[u] = UpdateFields
      /\ \A u \in Updater : upd'[u].at = upd[u].at
  <2>1. CASE ReplaceRefs(n)
    BY <1>2, <2>1 DEF ReplaceRefs, ApplyShape, UpdateFields
  <2>2. CASE upd' = upd
    BY <1>2, <2>2 DEF ApplyShape
  <2>. QED
    BY <2>1, <2>2 DEF NativeRequest, BeginNative, SaveNative, WriteNative, NativeFails,
       AnswerNative, settingsVars
<1>4. CASE (\E r \in NativeRequests : BeginNative(n, r)) /\ Begin(n) /\ UNCHANGED <<mark, silent>>
  <2>1. PICK r \in NativeRequests : BeginNative(n, r)
    BY <1>4
  <2>2. /\ nat[n].at = "idle" /\ mark[n] = "none" /\ nat'[n].at = "planned"
        /\ DOMAIN nat'[n] = {"at", "plan", "base"}
        /\ DOMAIN nat' = NativeUpdater /\ \A m \in NativeUpdater \ {n} : nat'[m] = nat[m]
        /\ UNCHANGED <<mark, silent, doc, native, file>>
    BY <1>2, <1>4, <2>1 DEF Begin, BeginNative, ApplyShape, settingsVars
  <2>3. ApplyShape'
    BY <1>1, <1>2, <1>3, <2>2 DEF ApplyShape
  <2>4. OneRequest'
    BY <1>2, <1>3, <2>2 DEF OneRequest
  <2>5. PendingIsAsked'
    BY <1>1, <2>2 DEF PendingIsAsked, ApplyInv
  <2>6. Dirty => Dirty'
    BY <1>1, <1>2, <1>3, <2>2 DEF Dirty, Midway
  <2>. QED
    BY <1>1, <2>2, <2>3, <2>4, <2>5, <2>6, Noted
<1>5. CASE (SaveNative(n) \/ WriteNative(n) \/ ReplaceRefs(n)) /\ UNCHANGED <<mark, silent>>
  <2>1. /\ nat[n].at # "idle" /\ nat'[n].at \in {"saved", "written", "replaced"}
        /\ DOMAIN nat'[n] = {"at", "plan", "base"}
        /\ DOMAIN nat' = NativeUpdater /\ \A m \in NativeUpdater \ {n} : nat'[m] = nat[m]
        /\ UNCHANGED <<mark, silent>>
    BY <1>2, <1>5 DEF SaveNative, WriteNative, ReplaceRefs, ApplyShape
  <2>3. ApplyShape'
    BY <1>1, <1>2, <1>3, <2>1 DEF ApplyShape
  <2>4. OneRequest'
    BY <1>2, <1>3, <2>1 DEF OneRequest
  <2>5. PendingIsAsked'
    BY <1>1, <2>1 DEF PendingIsAsked, ApplyInv
  <2>6. Dirty'
    BY <2>1 DEF Dirty, Midway
  <2>. QED
    BY <1>1, <2>3, <2>4, <2>5, <2>6, Noted
<1>6. CASE NativeFails(n) /\ UNCHANGED mark /\ silent' = (silent \/ nat[n].at # "planned")
  <2>1. /\ nat[n].at # "idle" /\ nat'[n].at = "idle" /\ nat'[n] = IdleNative
        /\ DOMAIN nat' = NativeUpdater /\ \A m \in NativeUpdater \ {n} : nat'[m] = nat[m]
        /\ UNCHANGED <<mark, doc, native, file>>
    BY <1>2, <1>6 DEF NativeFails, ApplyShape, settingsVars, IdleNative
  <2>3. ApplyShape'
    BY <1>1, <1>2, <1>3, <1>6, <2>1 DEF ApplyShape, IdleNative
  <2>4. OneRequest'
    BY <1>2, <1>3, <2>1 DEF OneRequest
  <2>5. PendingIsAsked'
    BY <1>1, <2>1 DEF PendingIsAsked, ApplyInv
  <2>6. Dirty => Dirty'
    <3>1. CASE nat[n].at = "planned"
      BY <1>1, <1>2, <1>3, <1>6, <2>1, <3>1 DEF Dirty, Midway
    <3>2. CASE nat[n].at # "planned"
      BY <1>6, <3>2 DEF Dirty
    <3>. QED
      BY <3>1, <3>2
  <2>. QED
    BY <1>1, <2>1, <2>3, <2>4, <2>5, <2>6, Noted
<1>7. CASE AnswerNative(n)
  <2>1. /\ nat[n].at # "idle" /\ nat'[n].at = "idle" /\ nat'[n] = IdleNative
        /\ DOMAIN nat' = NativeUpdater /\ \A m \in NativeUpdater \ {n} : nat'[m] = nat[m]
        /\ UNCHANGED silent
    BY <1>2, <1>7 DEF AnswerNative, ApplyShape, IdleNative
  <2>2. /\ mark[n] = "none" /\ mark'[n] = "pending"
        /\ \A x \in Requester \ {n} : mark'[x] = mark[x]
    BY <1>2, <1>7, <2>1 DEF AnswerNative, ApplyShape, OneRequest
  <2>3. ApplyShape'
    BY <1>1, <1>2, <1>3, <1>7, <2>1 DEF ApplyShape, IdleNative, AnswerNative
  <2>4. OneRequest'
    BY <1>2, <1>3, <2>1, <2>2 DEF OneRequest, Requester
  <2>5. PendingIsAsked'
    BY <1>1, <2>1, <2>2 DEF PendingIsAsked, ApplyInv
  <2>6. Dirty'
    BY <1>2, <2>2 DEF Dirty, Midway
  <2>. QED
    BY <1>1, <2>3, <2>4, <2>5, <2>6, Noted
<1>. QED
  BY <1>4, <1>5, <1>6, <1>7 DEF NativeRequest

LEMMA AskingKeeps ==
  ASSUME ApplyInv, NEW x \in Requester, MarkPending(x) \/ SendRequest(x)
  PROVE  ApplyInv'
<1>1. UNCHANGED <<doc, secrets, upd, native, file, nat, loop, driver, strayed, silent>>
  BY DEF MarkPending, SendRequest, settingsVars, nativeVars, dataPlane
<1>2. ApplyShape /\ OneRequest /\ PendingIsAsked
  BY DEF ApplyInv
<1>3. OneRequest'
  <2>1. \A y \in Requester : mark[y] = "none" => mark'[y] = "none"
    BY <1>2 DEF MarkPending, SendRequest, ApplyShape
  <2>. QED
    BY <1>1, <1>2, <2>1 DEF OneRequest, Requester
<1>4. CASE MarkPending(x)
  <2>1. mark'[x] = "send" /\ rec'.pending /\ rec'.running = rec.running /\ rec'.failed = rec.failed
    BY <1>2, <1>4 DEF MarkPending, ApplyShape
  <2>2. ApplyShape'
    BY <1>1, <1>2, <1>4 DEF MarkPending, ApplyShape
  <2>3. PendingIsAsked'
    BY <2>1 DEF PendingIsAsked
  <2>4. Dirty'
    BY <2>1 DEF Dirty
  <2>. QED
    BY <1>1, <1>3, <2>1, <2>2, <2>3, <2>4 DEF ApplyInv
<1>5. CASE SendRequest(x)
  <2>1. queued' /\ mark[x] = "send" /\ mark'[x] = "none" /\ UNCHANGED <<rec, app>>
        /\ \A y \in Requester \ {x} : mark'[y] = mark[y]
    BY <1>2, <1>5 DEF SendRequest, ApplyShape
  <2>2. ApplyShape'
    BY <1>1, <1>2, <1>5 DEF SendRequest, ApplyShape
  <2>3. PendingIsAsked'
    BY <2>1 DEF PendingIsAsked
  <2>4. Dirty => Dirty'
    BY <1>1, <2>1 DEF Dirty, Midway
  <2>. QED
    BY <1>1, <1>3, <2>1, <2>2, <2>3, <2>4, Noted
<1>. QED
  BY <1>4, <1>5

\* What the driver does when it loads a configuration, and when that fails.
LEMMA DriverLoads ==
  ASSUME NEW b, Loads(b)
  PROVE  /\ driver'.given = b /\ driver'.recorded = <<b, file>> /\ driver'.runs = driver'.recorded
         /\ strayed' \in BOOLEAN /\ DOMAIN driver' = {"given", "recorded", "runs", "canonical"}
BY DEF Loads

LEMMA DriverFails ==
  ASSUME ApplyInv, NEW c, LoadFails(c)
  PROVE  /\ driver'.given = driver.given /\ driver'.recorded = driver.recorded
         /\ strayed' \in BOOLEAN /\ DOMAIN driver' = {"given", "recorded", "runs", "canonical"}
         /\ driver'.runs = driver'.recorded \/ strayed'
<1>1. /\ DOMAIN driver = {"given", "recorded", "runs", "canonical"} /\ strayed \in BOOLEAN
      /\ driver.runs = driver.recorded \/ strayed
  BY DEF ApplyInv, ApplyShape
<1>2. /\ driver'.given = driver.given /\ driver'.recorded = driver.recorded
      /\ DOMAIN driver' = {"given", "recorded", "runs", "canonical"}
  BY <1>1 DEF LoadFails
<1>3. strayed' = (strayed \/ driver'.runs # driver.runs)
  BY DEF LoadFails
<1>. QED
  BY <1>1, <1>2, <1>3

\* The loop between its start and its end: what is reported stays, and while
\* nothing is saved the loop gets one step further.
LEMMA OnItsWay ==
  ASSUME ApplyInv,
         LoadNodes \/ ReadFile \/ Adopt \/ WriteFile \/ ReadSettings \/ ApplyDesired \/ ReconcileFails
  PROVE  ApplyInv'
<1>1. /\ UNCHANGED <<doc, secrets, upd, nat, queued, rec, app, mark, silent>>
      /\ loop.at # "idle"
  BY DEF LoadNodes, ReadFile, Adopt, WriteFile, ReadSettings, ApplyDesired, ReconcileFails,
     settingsVars, nativeVars
<1>2. ApplyShape /\ OneRequest /\ PendingIsAsked /\ rec.running
  BY <1>1 DEF ApplyInv
<1>3. DOMAIN loop' = {"at", "view", "doc", "settings"}
  BY <1>2 DEF LoadNodes, ReadFile, Adopt, WriteFile, ReadSettings, ApplyDesired, ReconcileFails,
     Goes, ApplyShape
<1>6. /\ strayed' \in BOOLEAN /\ DOMAIN driver' = {"given", "recorded", "runs", "canonical"}
      /\ driver'.runs = driver'.recorded \/ strayed'
  <2>1. CASE UNCHANGED dataPlane
    BY <1>2, <2>1 DEF dataPlane, ApplyInv, ApplyShape
  <2>2. CASE ApplyDesired
    <3>1. CASE Loads(loop.doc)
      BY <3>1, DriverLoads
    <3>2. CASE driver' = [driver EXCEPT !.given = loop.doc] /\ UNCHANGED strayed
      BY <1>2, <3>2 DEF ApplyInv, ApplyShape
    <3>. QED
      BY <2>2, <3>1, <3>2 DEF ApplyDesired
  <2>3. CASE ReconcileFails
    BY <2>1, <2>3, DriverFails DEF ReconcileFails
  <2>. QED
    BY <2>1, <2>2, <2>3 DEF LoadNodes, ReadFile, Adopt, WriteFile, ReadSettings
<1>4. ApplyShape' /\ OneRequest' /\ PendingIsAsked' /\ (Dirty' = Dirty)
  BY <1>1, <1>2, <1>3, <1>6 DEF ApplyShape, OneRequest, PendingIsAsked, Dirty, Midway
<1>5. ASSUME LoopInv PROVE LoopInv'
  <2>1. CASE LoadNodes
    BY <1>1, <1>2, <1>5, <2>1 DEF LoadNodes, Goes, ApplyShape, LoopInv, nativeVars
  <2>2. CASE ReadFile
    BY <1>1, <1>2, <1>5, <2>2 DEF ReadFile, Goes, ApplyShape, LoopInv, nativeVars
  <2>3. CASE Adopt
    BY <1>1, <1>2, <1>5, <2>3 DEF Adopt, Goes, ApplyShape, LoopInv
  <2>4. CASE WriteFile
    BY <1>1, <1>2, <1>5, <2>4 DEF WriteFile, Goes, ApplyShape, LoopInv
  <2>5. CASE ReadSettings
    BY <1>1, <1>2, <1>5, <2>5 DEF ReadSettings, Goes, ApplyShape, LoopInv, nativeVars
  <2>6. CASE ApplyDesired
    <3>1. loop'.at = "done" /\ loop.at = "apply" /\ UNCHANGED <<doc, native, file>>
      BY <1>1, <1>2, <2>6 DEF ApplyDesired, Goes, ApplyShape, nativeVars
    <3>2. file = native /\ loop.doc = doc
      BY <1>5, <3>1 DEF LoopInv
    <3>3. driver'.recorded = Desired /\ driver'.given = loop.doc
      BY <1>2, <2>6, DriverLoads DEF ApplyDesired, Desired, ApplyShape
    <3>. QED
      BY <3>1, <3>2, <3>3 DEF LoopInv, Settled, StoredInputs, Desired
  <2>7. CASE ReconcileFails
    BY <1>1, <1>2, <1>5, <2>7 DEF ReconcileFails, Goes, ApplyShape, LoopInv
  <2>. QED
    BY <2>1, <2>2, <2>3, <2>4, <2>5, <2>6, <2>7
<1>. QED
  BY <1>1, <1>2, <1>4, <1>5, <1>6 DEF ApplyInv

LEMMA LoopKeeps == ASSUME ApplyInv, ReconcileStep PROVE ApplyInv'
<1>1. ApplyShape /\ OneRequest /\ PendingIsAsked
  BY DEF ApplyInv
<1>2. CASE StartReconcile
  <2>1. UNCHANGED <<doc, secrets, upd, nat, mark, driver, strayed>>
    BY <1>2 DEF StartReconcile, settingsVars, nativeVars, dataPlane
  <2>2. /\ rec' \in [pending : BOOLEAN, running : BOOLEAN, failed : BOOLEAN]
        /\ rec'.running /\ ~rec'.pending
    BY <1>1, <1>2 DEF StartReconcile, ApplyShape
  <2>3. app' \in [pending : BOOLEAN, running : BOOLEAN, failed : BOOLEAN] /\ ~app'.pending
    BY <1>1, <1>2 DEF StartReconcile, StartedIfPending, ApplyShape
  <2>4. queued' \in BOOLEAN /\ silent' \in BOOLEAN
    BY <1>1, <1>2 DEF StartReconcile, ApplyShape
  <2>5. loop'.at = "load" /\ DOMAIN loop' = {"at", "view", "doc", "settings"}
    BY <1>2 DEF StartReconcile, IdleLoop
  <2>6. ApplyShape' /\ OneRequest'
    BY <1>1, <2>1, <2>2, <2>3, <2>4, <2>5 DEF ApplyShape, OneRequest
  <2>7. PendingIsAsked' /\ LoopInv'
    BY <2>2, <2>3, <2>5 DEF PendingIsAsked, LoopInv
  <2>. QED
    BY <2>1, <2>2, <2>6, <2>7 DEF ApplyInv
<1>3. CASE FinishReconcile
  <2>1. UNCHANGED <<doc, secrets, upd, native, file, nat, mark, queued, driver, strayed, silent>>
    BY <1>3 DEF FinishReconcile, settingsVars, nativeVars, dataPlane
  <2>2. /\ rec' \in [pending : BOOLEAN, running : BOOLEAN, failed : BOOLEAN]
        /\ rec'.pending = rec.pending /\ rec'.failed = (loop.at = "failed")
    BY <1>1, <1>3 DEF FinishReconcile, Finished, ApplyShape
  <2>3. /\ app' \in [pending : BOOLEAN, running : BOOLEAN, failed : BOOLEAN]
        /\ app'.pending = app.pending
    BY <1>1, <1>3 DEF FinishReconcile, Finished, ApplyShape
  <2>4. loop'.at = "idle" /\ DOMAIN loop' = {"at", "view", "doc", "settings"}
    BY <1>3 DEF FinishReconcile, IdleLoop
  <2>5. ApplyShape' /\ OneRequest' /\ PendingIsAsked' /\ (Dirty' = Dirty)
    BY <1>1, <2>1, <2>2, <2>3, <2>4 DEF ApplyShape, OneRequest, PendingIsAsked, Dirty, Midway
  <2>6. ASSUME LoopInv PROVE LoopInv'
    BY <1>3, <2>1, <2>2, <2>4, <2>6 DEF FinishReconcile, LoopInv, Settled, StoredInputs
  <2>. QED
    BY <2>1, <2>4, <2>5, <2>6 DEF ApplyInv
<1>. QED
  BY <1>2, <1>3, OnItsWay DEF ReconcileStep

LEMMA RestartKeeps == ASSUME ApplyInv, RestartGateway PROVE ApplyInv'
<1>1. ApplyShape'
  BY DEF RestartGateway, ApplyShape, UpdateFields, Requester, IdleUpdate, IdleNative, IdleLoop,
     Status, NewDriver
<1>2. /\ OneRequest' /\ PendingIsAsked' /\ loop'.at = "idle"
      /\ driver'.runs = driver'.recorded
  BY DEF RestartGateway, OneRequest, PendingIsAsked, Requester, IdleLoop, NewDriver
<1>3. Dirty'
  BY DEF RestartGateway, Dirty, Status
<1>. QED
  BY <1>1, <1>2, <1>3 DEF ApplyInv

\* A lease operation loads what the driver was given last, with the nodes of
\* the file: no reconcile was needed for that.
LEMMA RouteChangeKeeps == ASSUME ApplyInv, RouteChange PROVE ApplyInv'
<1>1. UNCHANGED <<doc, secrets, upd, native, file, nat, queued, rec, app, loop, mark, silent>>
  BY DEF RouteChange, settingsVars, nativeVars
<1>2. /\ strayed' \in BOOLEAN /\ DOMAIN driver' = {"given", "recorded", "runs", "canonical"}
      /\ driver'.runs = driver'.recorded \/ strayed'
  BY DriverLoads, DriverFails DEF RouteChange
<1>3. /\ driver'.given = driver.given
      /\ driver'.recorded \in {driver.recorded, <<driver.given, file>>}
  BY DriverLoads, DriverFails DEF RouteChange
<1>4. Settled => Settled'
  BY <1>1, <1>3 DEF Settled, StoredInputs
<1>5. LoopInv => LoopInv'
  BY <1>1, <1>4 DEF LoopInv
<1>6. ApplyShape' /\ OneRequest' /\ PendingIsAsked' /\ Dirty' = Dirty
  BY <1>1, <1>2 DEF ApplyInv, ApplyShape, OneRequest, PendingIsAsked, Dirty, Midway
<1>. QED
  BY <1>1, <1>2, <1>5, <1>6 DEF ApplyInv

LEMMA ApplyInvHolds == ApplySpec => []ApplyInv
<1>1. ApplyInv /\ [ApplyNext]_allVars => ApplyInv'
  <2>. SUFFICES ASSUME ApplyInv, [ApplyNext]_allVars PROVE ApplyInv'
    OBVIOUS
  <2>1. CASE UNCHANGED allVars
    BY <2>1 DEF allVars, settingsVars, nativeVars, applyVars, ApplyInv, ApplyShape, OneRequest,
       PendingIsAsked, Dirty, Midway, LoopInv, dataPlane, Settled, StoredInputs
  <2>2. CASE ApplyNext
    BY <2>2, SettingsRequestKeeps, NativeRequestKeeps, AskingKeeps, LoopKeeps, RouteChangeKeeps,
       RestartKeeps
       DEF ApplyNext
  <2>. QED
    BY <2>1, <2>2
<1>. QED
  BY <1>1, ApplyStart, PTL DEF ApplySpec

\* No request for a reconcile is lost: what is reported as pending is in the
\* channel of one place, or is about to be sent (runtime.go:154-196).
THEOREM NoRequestLost == ApplySpec => []PendingIsAsked
<1>1. ApplyInv => PendingIsAsked
  BY DEF ApplyInv
<1>. QED
  BY <1>1, ApplyInvHolds, PTL

\* When the gateway reports that it is running, no update is between its save
\* and its mark and none failed after its save, the driver has recorded what is
\* stored, and Mihomo runs it, or a call of the driver failed half way and none
\* has loaded a configuration since (runtime.go:198-209,
\* runtime_status_application.go:80-91, driver_reconcile_decision.go:39-60).
THEOREM RunningIsApplied == ApplySpec => []SettledIsApplied
<1>1. ApplyInv => SettledIsApplied
  <2>. SUFFICES ASSUME ApplyInv, RuntimeStatusLabel = "running", ~Midway, ~silent
                PROVE  driver.recorded = StoredInputs /\ (driver.runs = StoredInputs \/ strayed)
    BY DEF SettledIsApplied
  <2>1. ~rec.running /\ ~rec.pending /\ ~rec.failed
    BY DEF RuntimeStatusLabel
  <2>2. loop.at = "idle" /\ LoopInv
    BY <2>1 DEF ApplyInv, Dirty
  <2>. QED
    BY <2>1, <2>2 DEF LoopInv, Settled, ApplyInv
<1>. QED
  BY <1>1, ApplyInvHolds, PTL

-----------------------------------------------------------------------------
(* What an update makes of the document.                                    *)

SameIds(ps, qs) ==
  /\ DOMAIN qs = DOMAIN ps
  /\ \A i \in DOMAIN ps : qs[i].id = ps[i].id /\ qs[i].enabled = ps[i].enabled

LEMMA SameIdsResolve ==
  ASSUME NEW ps, NEW qs, NEW rs, SameIds(ps, qs)
  PROVE  /\ RulesOK(rs, ps) => RulesOK(rs, qs)
         /\ Distinct(ps, LAMBDA p : p.id) => Distinct(qs, LAMBDA p : p.id)
<1>1. EnabledProfiles(qs) = EnabledProfiles(ps)
  BY DEF SameIds, EnabledProfiles, Items
<1>2. RulesOK(rs, ps) => RulesOK(rs, qs)
  BY <1>1 DEF RulesOK
<1>3. Distinct(ps, LAMBDA p : p.id) => Distinct(qs, LAMBDA p : p.id)
  BY DEF Distinct, SameIds
<1>. QED
  BY <1>2, <1>3

LEMMA SessionsKeepIds ==
  ASSUME NEW ps, NEW rs, Profiled(ps)
  PROVE  SameIds(ps, WithSessions(ps, rs)) /\ Profiled(WithSessions(ps, rs))
BY DEF Profiled, ProfileFields, SameIds, WithSessions

LEMMA NormalKeepsShape ==
  ASSUME NEW ps, Profiled(ps) PROVE Profiled(NormalProfiles(ps))
BY DEF Profiled, ProfileFields, NormalProfiles, NormalProfile

LEMMA RefsKeepIds ==
  ASSUME NEW d, NEW ps, NEW base, DOMAIN d = DOMAIN EmptyDoc, Profiled(d.profiles)
  PROVE  /\ DOMAIN ReplacedRefs(d, ps, base) = DOMAIN EmptyDoc /\ ReplacedRefs(d, ps, base).rules = d.rules
         /\ SameIds(d.profiles, ReplacedRefs(d, ps, base).profiles)
         /\ Profiled(ReplacedRefs(d, ps, base).profiles)
BY DEF Profiled, ProfileFields, SameIds, ReplacedRefs, EmptyDoc

DocInv == DOMAIN doc = DOMAIN EmptyDoc /\ Profiled(doc.profiles) /\ RulesResolve

LEMMA OutcomeResolves ==
  ASSUME DocInv, NEW r \in SettingsRequests, NEW resources, Outcome(r, resources).ok
  PROVE  LET d == Outcome(r, resources).doc
         IN DOMAIN d = DOMAIN EmptyDoc /\ Profiled(d.profiles) /\ Resolving(d)
<1> DEFINE d == Outcome(r, resources).doc
           Good == DOMAIN d = DOMAIN EmptyDoc /\ Profiled(d.profiles) /\ Resolving(d)
<1>1. r.api \in {"all", "profiles", "rules", "inUser", "dynamic"} /\ Profiled(r.profiles)
  BY SettingsAssumption
<1>2. Profiled(NormalProfiles(r.profiles))
  BY <1>1, NormalKeepsShape
<1>3. DOMAIN doc = {"edge", "keys", "dynamic", "profiles", "rules"}
  BY DEF DocInv, EmptyDoc
<1>4. CASE r.api = "all"
  BY <1>2, <1>4 DEF Outcome, UpdateAll, EmptyDoc, Resolving, ProfilesOK
<1>5. CASE r.api = "profiles"
  <2> DEFINE ps == NormalProfiles(r.profiles)
  <2>1. /\ d = [doc EXCEPT !.profiles = WithSessions(ps, doc.rules)]
        /\ RulesOK(doc.rules, ps) /\ Distinct(ps, LAMBDA p : p.id)
    BY <1>5 DEF Outcome, UpdateProfiles, ProfilesOK
  <2>2. d.rules = doc.rules /\ d.profiles = WithSessions(ps, doc.rules) /\ DOMAIN d = DOMAIN EmptyDoc
    BY <1>3, <2>1 DEF EmptyDoc
  <2>3. SameIds(ps, d.profiles) /\ Profiled(d.profiles)
    BY <1>2, <2>2, SessionsKeepIds
  <2>. QED
    BY <2>1, <2>2, <2>3, SameIdsResolve DEF Resolving
<1>6. CASE r.api = "rules"
  <2> DEFINE rules == NormalRules(r.rules)
  <2>1. /\ d = [doc EXCEPT !.rules = rules, !.profiles = WithSessions(doc.profiles, rules)]
        /\ RulesOK(rules, doc.profiles)
    BY <1>6 DEF Outcome, UpdateRules
  <2>2. d.rules = rules /\ d.profiles = WithSessions(doc.profiles, rules) /\ DOMAIN d = DOMAIN EmptyDoc
    BY <1>3, <2>1 DEF EmptyDoc
  <2>3. SameIds(doc.profiles, d.profiles) /\ Profiled(d.profiles)
    BY <2>2, SessionsKeepIds DEF DocInv
  <2>. QED
    BY <2>1, <2>2, <2>3, SameIdsResolve DEF DocInv, RulesResolve, Resolving
<1>7. CASE r.api = "inUser"
  <2> DEFINE ps == NormalProfiles(r.profiles)
             rules == NormalRules(r.rules)
  <2>1. /\ d = [doc EXCEPT !.rules = rules, !.profiles = WithSessions(ps, rules)]
        /\ RulesOK(rules, ps) /\ Distinct(ps, LAMBDA p : p.id)
    BY <1>7 DEF Outcome, UpdateInUser, ProfilesOK
  <2>2. d.rules = rules /\ d.profiles = WithSessions(ps, rules) /\ DOMAIN d = DOMAIN EmptyDoc
    BY <1>3, <2>1 DEF EmptyDoc
  <2>3. SameIds(ps, d.profiles) /\ Profiled(d.profiles)
    BY <1>2, <2>2, SessionsKeepIds
  <2>. QED
    BY <2>1, <2>2, <2>3, SameIdsResolve DEF Resolving
<1>8. CASE r.api = "dynamic"
  BY <1>3, <1>8 DEF Outcome, UpdateDynamic, EmptyDoc, Resolving, DocInv, RulesResolve
<1>. QED
  BY <1>1, <1>4, <1>5, <1>6, <1>7, <1>8

LEMMA ChangedAreNamed ==
  ASSUME NEW before, NEW after, NEW user, user # "", RouteOf(before, user) # RouteOf(after, user)
  PROVE  user \in ChangedUsers(before, after)
<1> DEFINE old == Items(before.rules)
           new == Items(after.rules)
<1>1. ASSUME NEW r \in old, r.user = user, r.enabled,
             <<r.password, ProfileOf(before, r.profile)>> \notin RouteOf(after, user)
      PROVE  user \in ChangedUsers(before, after)
  <2>1. CASE \A s \in new : s.id # r.id
    BY <1>1, <2>1 DEF ChangedUsers
  <2>2. ASSUME NEW s \in new, s.id = r.id PROVE user \in ChangedUsers(before, after)
    <3>1. RuleChanged(r, s, before, after)
      BY <1>1, <2>2 DEF RuleChanged, RuleItselfChanged, RouteOf
    <3>2. <<r, s>> \in old \X new /\ <<r, s>>[1] = r /\ <<r, s>>[2] = s
      OBVIOUS
    <3>. QED
      BY <1>1, <2>2, <3>1, <3>2 DEF ChangedUsers
  <2>. QED
    BY <2>1, <2>2
<1>2. ASSUME NEW s \in new, s.user = user, s.enabled,
             <<s.password, ProfileOf(after, s.profile)>> \notin RouteOf(before, user)
      PROVE  user \in ChangedUsers(before, after)
  <2>1. CASE \A r \in old : r.id # s.id
    BY <1>2, <2>1 DEF ChangedUsers
  <2>2. ASSUME NEW r \in old, r.id = s.id PROVE user \in ChangedUsers(before, after)
    <3>1. RuleChanged(r, s, before, after)
      BY <1>2, <2>2 DEF RuleChanged, RuleItselfChanged, RouteOf
    <3>2. <<r, s>> \in old \X new /\ <<r, s>>[1] = r /\ <<r, s>>[2] = s
      OBVIOUS
    <3>. QED
      BY <1>2, <2>2, <3>1, <3>2 DEF ChangedUsers
  <2>. QED
    BY <2>1, <2>2
<1>. QED
  BY <1>1, <1>2 DEF RouteOf
-----------------------------------------------------------------------------
(* What a step does to the document and the secrets.                        *)

\* An update is taken, or writes secrets and is refused.
Taken(u) ==
  LET out == Outcome(upd[u].request, ResourceIds) IN
  /\ upd[u].at = "loaded"
  /\ \/ doc' = doc
     \/ out.ok /\ doc' = out.doc /\ secrets' = Over(secrets, out.written)
  /\ \E w : DOMAIN w \subseteq DOMAIN out.written /\ secrets' = Over(secrets, w)

Followed == UNCHANGED secrets /\ \E ps, base : doc' = ReplacedRefs(doc, ps, base)

LEMMA DocumentSteps ==
  ASSUME [ApplyNext]_allVars
  PROVE  UNCHANGED <<doc, secrets>> \/ Followed \/ \E u \in Updater : Taken(u)
<1>1. CASE UNCHANGED allVars
  BY <1>1 DEF allVars, settingsVars
<1>2. ASSUME NEW u \in Updater, SettingsRequest(u)
      PROVE  UNCHANGED <<doc, secrets>> \/ Taken(u)
  <2>1. CASE ApplyUpdate(u, ResourceIds)
    <3>1. upd[u].at = "loaded" /\ secrets' = Over(secrets, Outcome(upd[u].request, ResourceIds).written)
      BY <2>1 DEF ApplyUpdate
    <3>. QED
      BY <2>1, <3>1 DEF ApplyUpdate, Taken
  <2>2. CASE ApplyFails(u, ResourceIds)
    <3> DEFINE out == Outcome(upd[u].request, ResourceIds)
    <3>1. ASSUME NEW s \in SUBSET DOMAIN out.written, UNCHANGED doc,
                 secrets' = Over(secrets, [x \in s |-> out.written[x]])
          PROVE  Taken(u)
      <4>1. DOMAIN [x \in s |-> out.written[x]] \subseteq DOMAIN out.written
        OBVIOUS
      <4>. QED
        BY <2>2, <3>1, <4>1 DEF Taken, ApplyFails
    <3>2. CASE out.ok /\ doc' = out.doc /\ secrets' = Over(secrets, out.written)
      BY <2>2, <3>2 DEF Taken, ApplyFails
    <3>. QED
      BY <2>2, <3>1, <3>2 DEF ApplyFails
  <2>3. CASE \/ \E r \in SettingsRequests : BeginUpdate(u, r)
             \/ Compare(u) \/ CompareFails(u) \/ Schedule(u)
    BY <2>3 DEF BeginUpdate, Compare, CompareFails, Schedule
  <2>. QED
    BY <1>2, <2>1, <2>2, <2>3 DEF SettingsRequest
<1>3. ASSUME NEW n \in NativeUpdater, NativeRequest(n)
      PROVE  UNCHANGED <<doc, secrets>> \/ Followed
  <2>1. CASE ReplaceRefs(n)
    BY <2>1 DEF ReplaceRefs, Followed
  <2>2. CASE \/ \E r \in NativeRequests : BeginNative(n, r)
             \/ SaveNative(n) \/ WriteNative(n) \/ NativeFails(n) \/ AnswerNative(n)
    BY <2>2 DEF BeginNative, SaveNative, WriteNative, NativeFails, AnswerNative, settingsVars
  <2>. QED
    BY <1>3, <2>1, <2>2 DEF NativeRequest
<1>4. CASE \E x \in Requester : MarkPending(x) \/ SendRequest(x)
  BY <1>4 DEF MarkPending, SendRequest, settingsVars
<1>5. CASE ReconcileStep \/ RouteChange \/ RestartGateway
  BY <1>5 DEF ReconcileStep, StartReconcile, LoadNodes, ReadFile, Adopt, WriteFile, ReadSettings,
     ApplyDesired, ReconcileFails, FinishReconcile, RouteChange, RestartGateway, settingsVars
<1>. QED
  BY <1>1, <1>2, <1>3, <1>4, <1>5 DEF ApplyNext

-----------------------------------------------------------------------------
(* The updates: what they ask for, and whom they disconnect.                *)

UpdatesInv ==
  \A u \in Updater :
    /\ upd[u].at = "loaded" => upd[u].request \in SettingsRequests
    /\ upd[u].at = "compared" /\ upd[u].alone /\ upd[u].request.api # "dynamic" =>
         upd[u].names = ChangedUsers(upd[u].before, doc)

LEMMA UpdatesStep ==
  ASSUME ApplyShape, UpdatesInv, [ApplyNext]_allVars
  PROVE  UpdatesInv'
<1> USE DEF ApplyShape, UpdateFields
<1>1. CASE UNCHANGED <<upd, doc>>
  BY <1>1 DEF UpdatesInv
<1>2. ASSUME NEW u \in Updater, SettingsRequest(u) PROVE UpdatesInv'
  <2>1. ASSUME NEW r \in SettingsRequests, BeginUpdate(u, r) PROVE UpdatesInv'
    <3>1. /\ UNCHANGED doc /\ upd'[u].at = "loaded" /\ upd'[u].request = r
          /\ \A v \in Updater \ {u} : upd'[v] = upd[v]
      BY <2>1 DEF BeginUpdate, IdleUpdate
    <3>. QED
      BY <3>1 DEF UpdatesInv
  <2>2. CASE ApplyUpdate(u, ResourceIds)
    <3>1. upd'[u].at \in {"saved", "idle"}
      BY <2>2 DEF ApplyUpdate, IdleUpdate
    <3>2. ASSUME NEW v \in Updater \ {u}
          PROVE  \/ upd'[v] = upd[v] /\ (doc' = doc \/ upd[v].at = "idle")
                 \/ upd'[v].at = upd[v].at /\ upd'[v].request = upd[v].request /\ ~upd'[v].alone
      BY <2>2 DEF ApplyUpdate
    <3>. QED
      BY <3>1, <3>2 DEF UpdatesInv
  <2>3. CASE ApplyFails(u, ResourceIds)
    <3>1. upd'[u].at = "idle"
      BY <2>3 DEF ApplyFails, IdleUpdate
    <3>2. ASSUME NEW v \in Updater \ {u}
          PROVE  \/ upd'[v] = upd[v] /\ (doc' = doc \/ upd[v].at = "idle")
                 \/ upd'[v].at = upd[v].at /\ upd'[v].request = upd[v].request /\ ~upd'[v].alone
      BY <2>3 DEF ApplyFails
    <3>. QED
      BY <3>1, <3>2 DEF UpdatesInv
  <2>4. CASE Compare(u)
    <3>1. /\ UNCHANGED doc /\ upd'[u].at = "compared"
          /\ upd'[u].request = upd[u].request /\ upd'[u].before = upd[u].before
          /\ upd[u].request.api # "dynamic" => upd'[u].names = ChangedUsers(upd[u].before, doc)
          /\ \A v \in Updater \ {u} : upd'[v] = upd[v]
      BY <2>4 DEF Compare
    <3>. QED
      BY <3>1 DEF UpdatesInv
  <2>5. CASE CompareFails(u) \/ Schedule(u)
    <3>1. /\ UNCHANGED doc /\ upd'[u].at \in {"blind", "idle"}
          /\ \A v \in Updater \ {u} : upd'[v] = upd[v]
      BY <2>5 DEF CompareFails, Schedule, IdleUpdate
    <3>. QED
      BY <3>1 DEF UpdatesInv
  <2>. QED
    BY <1>2, <2>1, <2>2, <2>3, <2>4, <2>5 DEF SettingsRequest
<1>3. ASSUME NEW n \in NativeUpdater, NativeRequest(n) PROVE UpdatesInv'
  <2>1. CASE ReplaceRefs(n)
    <3>1. ASSUME NEW v \in Updater
          PROVE  \/ upd'[v] = upd[v] /\ (doc' = doc \/ upd[v].at = "idle")
                 \/ upd'[v].at = upd[v].at /\ upd'[v].request = upd[v].request /\ ~upd'[v].alone
      BY <2>1 DEF ReplaceRefs
    <3>. QED
      BY <3>1 DEF UpdatesInv
  <2>2. CASE \/ \E r \in NativeRequests : BeginNative(n, r)
             \/ SaveNative(n) \/ WriteNative(n) \/ NativeFails(n) \/ AnswerNative(n)
    BY <1>1, <2>2 DEF BeginNative, SaveNative, WriteNative, NativeFails, AnswerNative, settingsVars
  <2>. QED
    BY <1>3, <2>1, <2>2 DEF NativeRequest
<1>4. CASE UNCHANGED allVars \/ \E x \in Requester : MarkPending(x) \/ SendRequest(x)
  BY <1>1, <1>4 DEF MarkPending, SendRequest, allVars, settingsVars
<1>5. CASE ReconcileStep \/ RouteChange
  BY <1>1, <1>5 DEF ReconcileStep, StartReconcile, LoadNodes, ReadFile, Adopt, WriteFile, ReadSettings,
     ApplyDesired, ReconcileFails, FinishReconcile, RouteChange, settingsVars
<1>6. CASE RestartGateway
  BY <1>6 DEF RestartGateway, UpdatesInv, IdleUpdate
<1>. QED
  BY <1>2, <1>3, <1>4, <1>5, <1>6 DEF ApplyNext

LEMMA UpdatesHold == ApplySpec => []UpdatesInv
<1>1. ApplyInit => UpdatesInv
  BY DEF ApplyInit, SettingsInit, UpdatesInv, IdleUpdate
<1>2. ApplyInv /\ UpdatesInv /\ [ApplyNext]_allVars => UpdatesInv'
  BY UpdatesStep DEF ApplyInv
<1>. QED
  BY <1>1, <1>2, ApplyInvHolds, PTL DEF ApplySpec

\* An update nobody interferes with disconnects every user whose route it
\* changed, for any documents: rules are compared by id, and a rule that is not
\* changed gives its user the route it had (connection_cleanup.go,
\* update_flow.go).
THEOREM ChangedUsersDisconnected == ApplySpec => []ChangedRoutesDisconnected
<1>1. UpdatesInv => ChangedRoutesDisconnected
  <2>. SUFFICES ASSUME UpdatesInv, NEW u \in Updater, upd[u].at = "compared", upd[u].alone,
                       upd[u].request.api # "dynamic", NEW user \in DOMAIN SessionOf \ {""},
                       RouteOf(upd[u].before, user) # RouteOf(doc, user)
                PROVE  user \in upd[u].names
    BY DEF ChangedRoutesDisconnected
  <2>1. upd[u].names = ChangedUsers(upd[u].before, doc)
    BY DEF UpdatesInv
  <2>2. user \in ChangedUsers(upd[u].before, doc)
    BY ChangedAreNamed
  <2>. QED
    BY <2>1, <2>2
<1>. QED
  BY <1>1, UpdatesHold, PTL

-----------------------------------------------------------------------------
(* The document: rules that resolve.                                        *)

LEMMA DocStep ==
  ASSUME DocInv, UpdatesInv, [ApplyNext]_allVars
  PROVE  DocInv'
<1>1. CASE UNCHANGED doc
  <2>1. DOMAIN doc' = DOMAIN EmptyDoc /\ Profiled(doc'.profiles) /\ Resolving(doc')
    BY <1>1 DEF DocInv, RulesResolve
  <2>. QED
    BY <2>1 DEF DocInv, RulesResolve
<1>2. CASE Followed
  <2>1. PICK ps, base : doc' = ReplacedRefs(doc, ps, base)
    BY <1>2 DEF Followed
  <2>2. /\ DOMAIN doc' = DOMAIN EmptyDoc /\ doc'.rules = doc.rules
        /\ SameIds(doc.profiles, doc'.profiles) /\ Profiled(doc'.profiles)
    BY <2>1, RefsKeepIds DEF DocInv
  <2>3. Resolving(doc')
    BY <2>2, SameIdsResolve DEF DocInv, RulesResolve, Resolving
  <2>. QED
    BY <2>2, <2>3 DEF DocInv, RulesResolve
<1>3. ASSUME NEW u \in Updater, Taken(u), doc' # doc PROVE DocInv'
  <2>1. /\ upd[u].request \in SettingsRequests /\ Outcome(upd[u].request, ResourceIds).ok
        /\ doc' = Outcome(upd[u].request, ResourceIds).doc
    BY <1>3 DEF Taken, UpdatesInv
  <2>. QED
    BY <2>1, OutcomeResolves DEF DocInv, RulesResolve
<1>. QED
  BY <1>1, <1>2, <1>3, DocumentSteps

LEMMA DocHolds == ApplySpec => []DocInv
<1>1. ApplyInit => DocInv
  BY StoresAssumption DEF ApplyInit, DocInv, RulesResolve
<1>2. DocInv /\ UpdatesInv /\ [ApplyNext]_allVars => DocInv'
  BY DocStep
<1>. QED
  BY <1>1, <1>2, UpdatesHold, PTL DEF ApplySpec

\* Whatever mix of updates is applied, failed and interleaved, every enabled
\* rule leads to an enabled profile, and ids and users are there once
\* (egress_update.go, in_user.go, update.go).
THEOREM RulesAlwaysResolve == ApplySpec => []RulesResolve
<1>1. DocInv => RulesResolve
  BY DEF DocInv
<1>. QED
  BY <1>1, DocHolds, PTL

-----------------------------------------------------------------------------
(* The keys of the providers of lookups.                                    *)

OwnRefs ==
  \A r \in SettingsRequests, f \in Family : \A in \in Items(r.keys[f]) : \A s \in in.refs :
    /\ OwnSecret(f, in.kind, IdOf(in), s)
    /\ \A store \in InitialStores : s \in DOMAIN store.secrets

\* Secrets that a request names are kept, as long as the service runs.
RequestRefsKept ==
  \A r \in SettingsRequests, f \in Family : \A in \in Items(r.keys[f]) : in.refs \subseteq DOMAIN secrets

LEMMA Overwritten ==
  ASSUME NEW old, NEW new
  PROVE  /\ DOMAIN Over(old, new) = DOMAIN old \cup DOMAIN new
         /\ \A s \in DOMAIN old \ DOMAIN new : Over(old, new)[s] = old[s]
BY DEF Over

\* Of the keys in a list only those that it gives values are written.
LEMMA WrittenAreGiven ==
  ASSUME NEW f, NEW ins, NEW s \in DOMAIN KeysWritten(f, ins)
  PROVE  \E i \in DOMAIN ins : \E n \in DOMAIN ins[i].values :
           ins[i].refs = {} /\ s = SecretId(f, ins[i], n)
BY DEF KeysWritten

WrittenFor(r, f, s) ==
  \E in \in Items(r.keys[f]) : \E n \in DOMAIN in.values : s = SecretId(f, in, n)

TokenWritten(r) == [x \in {y \in {EdgeToken} : r.edge.token # ""} |-> r.edge.token]
GivenKeys(r, f) == KeysWritten(f, r.keys[f])

\* What an update writes: up to the check that refuses it, or everything.
LEMMA WrittenInTurn ==
  ASSUME NEW r, NEW resources, r.api = "all"
  PROVE  LET token == TokenWritten(r)
             fraud == GivenKeys(r, "fraud")
             geo == GivenKeys(r, "geo")
             out == Outcome(r, resources)
         IN /\ out.written \in {token, Over(token, fraud), Over(Over(token, fraud), geo)}
            /\ out.ok => out.written = Over(Over(token, fraud), geo)
BY DEF Outcome, UpdateAll, TokenWritten, GivenKeys

LEMMA OutcomeWrites ==
  ASSUME NEW r \in SettingsRequests, NEW resources,
         NEW s \in DOMAIN Outcome(r, resources).written
  PROVE  r.api = "all" /\ (s = EdgeToken \/ \E f \in Family : WrittenFor(r, f, s))
<1>1. r.api \in {"all", "profiles", "rules", "inUser", "dynamic"}
  BY SettingsAssumption
<1>2. r.api = "all"
  BY <1>1 DEF Outcome, UpdateProfiles, UpdateRules, UpdateInUser, UpdateDynamic
<1>3. s \in DOMAIN TokenWritten(r) \cup DOMAIN GivenKeys(r, "fraud") \cup DOMAIN GivenKeys(r, "geo")
  <2>1. CASE Outcome(r, resources).written = TokenWritten(r)
    BY <2>1
  <2>2. CASE Outcome(r, resources).written = Over(TokenWritten(r), GivenKeys(r, "fraud"))
    BY <2>2 DEF Over
  <2>3. CASE Outcome(r, resources).written =
               Over(Over(TokenWritten(r), GivenKeys(r, "fraud")), GivenKeys(r, "geo"))
    BY <2>3 DEF Over
  <2>. QED
    BY <1>2, <2>1, <2>2, <2>3, WrittenInTurn
<1>4. s \in DOMAIN TokenWritten(r) => s = EdgeToken
  BY DEF TokenWritten
<1>5. ASSUME NEW f \in Family, s \in DOMAIN GivenKeys(r, f) PROVE WrittenFor(r, f, s)
  BY <1>5, WrittenAreGiven DEF GivenKeys, WrittenFor, Items
<1>. QED
  BY <1>2, <1>3, <1>4, <1>5 DEF Family

\* A request writes no key of a provider that it does not name.
LEMMA UntouchedNotWritten ==
  ASSUME KeysStored(doc, secrets), NEW r \in SettingsRequests, NEW resources,
         NEW f \in Family, NEW p \in Items(doc.keys[f]), ~Touches(r, f, p), NEW s \in p.refs
  PROVE  s \notin DOMAIN Outcome(r, resources).written
<1>. SUFFICES ASSUME s \in DOMAIN Outcome(r, resources).written PROVE FALSE
  OBVIOUS
<1>1. r.api = "all" /\ (s = EdgeToken \/ \E g \in Family : WrittenFor(r, g, s))
  BY OutcomeWrites
<1>2. OwnSecret(f, p.kind, p.id, s)
  BY DEF KeysStored
<1>3. s # EdgeToken
  BY <1>2 DEF OwnSecret, EdgeToken, Family
<1>4. PICK g \in Family : \E in \in Items(r.keys[g]) : \E n \in DOMAIN in.values : s = SecretId(g, in, n)
  BY <1>1, <1>3 DEF WrittenFor
<1>7. PICK in \in Items(r.keys[g]) : \E n \in DOMAIN in.values : s = SecretId(g, in, n)
  BY <1>4
<1>5. g = f /\ in.kind = p.kind /\ IdOf(in) = p.id
  BY <1>2, <1>7 DEF OwnSecret, SecretId
<1>6. in.values # <<>>
  BY <1>7
<1>. QED
  BY <1>1, <1>5, <1>6 DEF Touches

\* What is stored of a list that is taken.
LEMMA TakenList ==
  ASSUME NEW r \in SettingsRequests, NEW f \in Family, KeysOK(f, r.keys[f])
  PROVE  LET ins == r.keys[f]
             new == StoredLookups(f, ins)
         IN /\ DOMAIN new = DOMAIN ins
            /\ \A i \in DOMAIN ins : /\ new[i].kind = ins[i].kind /\ new[i].id = IdOf(ins[i])
                                     /\ new[i].refs = Refs(f, ins[i]) /\ ins[i].kind \in LookupKinds
                                     /\ ins[i] \in Items(ins)
            /\ \A i, j \in DOMAIN ins :
                 ins[i].kind = ins[j].kind /\ IdOf(ins[i]) = IdOf(ins[j]) => i = j
            /\ \A i \in DOMAIN ins : \A n \in DOMAIN ins[i].values :
                 ins[i].refs = {} => SecretId(f, ins[i], n) \in DOMAIN KeysWritten(f, ins)
<1> DEFINE ins == r.keys[f]
           new == StoredLookups(f, ins)
<1>1. Len(ins) \in Nat /\ DOMAIN ins = 1..Len(ins)
  BY SettingsAssumption
<1>2. Barred(f, ins) = {} /\ Stop(f, ins) = Len(ins) + 1
  BY DEF KeysOK, Stop
<1>3. /\ DOMAIN new = DOMAIN ins
      /\ \A i \in DOMAIN ins : /\ new[i].kind = ins[i].kind /\ new[i].id = IdOf(ins[i])
                               /\ new[i].refs = Refs(f, ins[i])
  BY DEF StoredLookups
<1>4. \A i \in DOMAIN ins : ins[i].kind \in LookupKinds /\ ins[i] \in Items(ins)
  BY <1>2 DEF Barred, LookupOK, Items
<1>5. ASSUME NEW i \in DOMAIN ins, NEW j \in DOMAIN ins,
             ins[i].kind = ins[j].kind, IdOf(ins[i]) = IdOf(ins[j])
      PROVE  i = j
  <2>1. i \in Nat /\ j \in Nat /\ i >= 1 /\ j >= 1
    BY <1>1
  <2>2. ~(j < i)
    BY <1>2, <1>5, <2>1 DEF Barred
  <2>3. ~(i < j)
    BY <1>2, <1>5, <2>1 DEF Barred
  <2>. QED
    BY <2>1, <2>2, <2>3
<1>6. ASSUME NEW i \in DOMAIN ins, NEW n \in DOMAIN ins[i].values, ins[i].refs = {}
      PROVE  SecretId(f, ins[i], n) \in DOMAIN KeysWritten(f, ins)
  <2>1. i <= Stop(f, ins)
    BY <1>1, <1>2
  <2>. QED
    BY <1>6, <2>1 DEF KeysWritten
<1>. QED
  BY <1>3, <1>4, <1>5, <1>6

\* The keys of a document that an update makes.
LEMMA KeysOfOutcome ==
  ASSUME KeysStored(doc, secrets), DOMAIN doc = DOMAIN EmptyDoc,
         NEW r \in SettingsRequests, NEW resources, Outcome(r, resources).ok
  PROVE  LET new == Outcome(r, resources).doc.keys
         IN IF r.api = "all"
            THEN \A f \in Family : KeysOK(f, r.keys[f]) /\ new[f] = StoredLookups(f, r.keys[f])
            ELSE new = doc.keys
<1>1. r.api \in {"all", "profiles", "rules", "inUser", "dynamic"}
  BY SettingsAssumption
<1>2. DOMAIN doc = {"edge", "keys", "dynamic", "profiles", "rules"}
  BY DEF EmptyDoc
<1>3. CASE r.api = "all"
  BY <1>3 DEF Outcome, UpdateAll, Family
<1>4. CASE r.api # "all"
  BY <1>1, <1>2, <1>4 DEF Outcome, UpdateProfiles, UpdateRules, UpdateInUser, UpdateDynamic
<1>. QED
  BY <1>3, <1>4

LEMMA AllWritten ==
  ASSUME NEW r \in SettingsRequests, NEW resources, Outcome(r, resources).ok, r.api = "all",
         NEW f \in Family
  PROVE  DOMAIN KeysWritten(f, r.keys[f]) \subseteq DOMAIN Outcome(r, resources).written
<1>1. DOMAIN Outcome(r, resources).written =
        DOMAIN TokenWritten(r) \cup DOMAIN GivenKeys(r, "fraud") \cup DOMAIN GivenKeys(r, "geo")
  <2>1. Outcome(r, resources).written =
          Over(Over(TokenWritten(r), GivenKeys(r, "fraud")), GivenKeys(r, "geo"))
    BY WrittenInTurn
  <2>. QED
    BY <2>1 DEF Over
<1>2. DOMAIN GivenKeys(r, f) \subseteq DOMAIN Outcome(r, resources).written
  BY <1>1 DEF Family
<1>. QED
  BY <1>2 DEF GivenKeys

LEMMA StoredRefsOf ==
  ASSUME KeysStored(doc, secrets), NEW f \in Family, NEW in
  PROVE  /\ StoredRefs(f, in) \subseteq DOMAIN secrets
         /\ \A s \in StoredRefs(f, in) : OwnSecret(f, in.kind, IdOf(in), s)
         /\ \A p \in Items(doc.keys[f]) :
              p.kind = in.kind /\ p.id = IdOf(in) => StoredRefs(f, in) = p.refs
<1>1. \A p, q \in Items(doc.keys[f]) : p.kind = q.kind /\ p.id = q.id => p = q
  BY DEF KeysStored, Items
<1>2. \A p \in Items(doc.keys[f]) :
        /\ p.kind \in LookupKinds /\ p.refs \subseteq DOMAIN secrets
        /\ \A s \in p.refs : OwnSecret(f, p.kind, p.id, s)
  BY DEF KeysStored
<1>. QED
  BY <1>1, <1>2 DEF StoredRefs

\* The keys of an outcome are stored with what it writes.
LEMMA OutcomeKeysStored ==
  ASSUME OwnRefs, RequestRefsKept, KeysStored(doc, secrets), DOMAIN doc = DOMAIN EmptyDoc,
         NEW r \in SettingsRequests, NEW resources, Outcome(r, resources).ok
  PROVE  KeysStored(Outcome(r, resources).doc, Over(secrets, Outcome(r, resources).written))
<1> DEFINE new == Outcome(r, resources).doc
           written == Outcome(r, resources).written
           kept == Over(secrets, written)
<1>1. DOMAIN kept = DOMAIN secrets \cup DOMAIN written
  BY Overwritten
<1>2. CASE r.api # "all"
  <2>1. new.keys = doc.keys
    BY <1>2, KeysOfOutcome
  <2>2. \A f \in Family : new.keys[f] = doc.keys[f]
    BY <2>1
  <2> HIDE DEF new, kept
  <2>3. KeysStored(new, kept)
    BY <1>1, <2>2 DEF KeysStored
  <2>. QED
    BY <2>3 DEF new, kept
<1>3. CASE r.api = "all"
  <2>. SUFFICES ASSUME NEW f \in Family
                PROVE  /\ \A i, j \in DOMAIN new.keys[f] :
                            /\ new.keys[f][i].kind = new.keys[f][j].kind
                            /\ new.keys[f][i].id = new.keys[f][j].id
                            => i = j
                       /\ \A p \in Items(new.keys[f]) :
                            /\ p.kind \in LookupKinds /\ p.refs \subseteq DOMAIN kept
                            /\ \A s \in p.refs : OwnSecret(f, p.kind, p.id, s)
    BY DEF KeysStored
  <2> DEFINE ins == r.keys[f]
             list == new.keys[f]
  <2>1. KeysOK(f, ins) /\ list = StoredLookups(f, ins)
    BY <1>3, KeysOfOutcome
  <2>2. /\ DOMAIN list = DOMAIN ins
        /\ \A i \in DOMAIN ins : /\ list[i].kind = ins[i].kind /\ list[i].id = IdOf(ins[i])
                                 /\ list[i].refs = Refs(f, ins[i]) /\ ins[i].kind \in LookupKinds
                                 /\ ins[i] \in Items(ins)
        /\ \A i, j \in DOMAIN ins :
             ins[i].kind = ins[j].kind /\ IdOf(ins[i]) = IdOf(ins[j]) => i = j
        /\ \A i \in DOMAIN ins : \A n \in DOMAIN ins[i].values :
             ins[i].refs = {} => SecretId(f, ins[i], n) \in DOMAIN KeysWritten(f, ins)
    BY <2>1, TakenList
  <2>3. DOMAIN KeysWritten(f, ins) \subseteq DOMAIN written
    BY <1>3, AllWritten
  <2> HIDE DEF list, written
  <2>4. ASSUME NEW i \in DOMAIN ins
        PROVE  /\ Refs(f, ins[i]) \subseteq DOMAIN kept
               /\ \A s \in Refs(f, ins[i]) : OwnSecret(f, ins[i].kind, IdOf(ins[i]), s)
    <3>1. ins[i] \in Items(ins)
      BY <2>2
    <3>2. \A s \in ins[i].refs : OwnSecret(f, ins[i].kind, IdOf(ins[i]), s) /\ s \in DOMAIN secrets
      BY <3>1 DEF OwnRefs, RequestRefsKept
    <3>3. \A n \in DOMAIN ins[i].values :
            /\ OwnSecret(f, ins[i].kind, IdOf(ins[i]), SecretId(f, ins[i], n))
            /\ ins[i].refs = {} => SecretId(f, ins[i], n) \in DOMAIN written
      BY <2>2, <2>3 DEF OwnSecret, SecretId
    <3>4. /\ StoredRefs(f, ins[i]) \subseteq DOMAIN secrets
          /\ \A s \in StoredRefs(f, ins[i]) : OwnSecret(f, ins[i].kind, IdOf(ins[i]), s)
      BY StoredRefsOf
    <3> HIDE DEF ins
    <3>. QED
      BY <1>1, <3>2, <3>3, <3>4 DEF Refs, GivenRefs
  <2> HIDE DEF ins, kept
  <2>5. \A i, j \in DOMAIN list : list[i].kind = list[j].kind /\ list[i].id = list[j].id => i = j
    BY <2>2
  <2>6. ASSUME NEW p \in Items(list)
        PROVE  /\ p.kind \in LookupKinds /\ p.refs \subseteq DOMAIN kept
               /\ \A s \in p.refs : OwnSecret(f, p.kind, p.id, s)
    <3>1. PICK i \in DOMAIN ins : p = list[i]
      BY <2>2 DEF Items
    <3>. QED
      BY <2>2, <2>4, <3>1
  <2>. QED
    BY <2>5, <2>6 DEF list
<1>. QED
  BY <1>2, <1>3

\* What a provider is called with is kept by an update that does not name it.
LEMMA OutcomeKeepsKeys ==
  ASSUME KeysStored(doc, secrets), DOMAIN doc = DOMAIN EmptyDoc,
         NEW r \in SettingsRequests, NEW resources,
         NEW f \in Family, NEW p \in Items(doc.keys[f]), ~Touches(r, f, p)
  PROVE  Outcome(r, resources).ok =>
           \A q \in Items(Outcome(r, resources).doc.keys[f]) :
             p.kind = q.kind /\ p.id = q.id => q.refs = p.refs
<1>1. \A q \in Items(doc.keys[f]) : p.kind = q.kind /\ p.id = q.id => q = p
  BY DEF KeysStored, Items
<1>2. ASSUME Outcome(r, resources).ok, NEW q \in Items(Outcome(r, resources).doc.keys[f]),
             p.kind = q.kind, p.id = q.id
      PROVE  q.refs = p.refs
  <2>1. CASE r.api # "all"
    BY <1>1, <1>2, <2>1, KeysOfOutcome
  <2>2. CASE r.api = "all"
    <3> DEFINE ins == r.keys[f]
    <3>1. KeysOK(f, ins) /\ q \in Items(StoredLookups(f, ins))
      BY <1>2, <2>2, KeysOfOutcome
    <3> HIDE DEF ins
    <3>2. PICK i \in DOMAIN ins : q.kind = ins[i].kind /\ q.id = IdOf(ins[i]) /\ q.refs = Refs(f, ins[i])
      BY <3>1 DEF Items, StoredLookups
    <3>3. ins[i] \in Items(ins)
      BY DEF Items
    <3>4. /\ ins[i].values = <<>> /\ ins[i].refs = {}
          /\ ~ins[i].clear /\ ~ins[i].anonymous
      BY <1>2, <2>2, <3>2, <3>3 DEF Touches, ins
    <3>5. GivenRefs(f, ins[i]) = {}
      BY <3>4 DEF GivenRefs
    <3>6. q.refs = StoredRefs(f, ins[i])
      BY <3>2, <3>4, <3>5 DEF Refs
    <3>. QED
      BY <1>2, <3>2, <3>6, StoredRefsOf
  <2>. QED
    BY <2>1, <2>2
<1>. QED
  BY <1>2

KeysInv == KeysStored(doc, secrets) /\ RequestRefsKept

LEMMA KeysStep ==
  ASSUME OwnRefs, KeysInv, DocInv, UpdatesInv, [ApplyNext]_allVars
  PROVE  KeysInv'
<1>1. CASE UNCHANGED <<doc, secrets>>
  BY <1>1 DEF KeysInv, KeysStored, RequestRefsKept, OwnSecret
<1>2. CASE Followed
  <2>1. doc'.keys = doc.keys /\ secrets' = secrets
    BY <1>2 DEF Followed, ReplacedRefs, DocInv, EmptyDoc
  <2>. QED
    BY <2>1 DEF KeysInv, KeysStored, RequestRefsKept, OwnSecret
<1>3. ASSUME NEW u \in Updater, Taken(u) PROVE KeysInv'
  <2>1. upd[u].request \in SettingsRequests
    BY <1>3 DEF Taken, UpdatesInv
  <2>2. DOMAIN secrets \subseteq DOMAIN secrets'
    BY <1>3 DEF Taken, Over
  <2>3. RequestRefsKept'
    BY <2>2 DEF KeysInv, RequestRefsKept
  <2>4. CASE doc' = doc
    BY <2>2, <2>3, <2>4 DEF KeysInv, KeysStored
  <2>5. CASE doc' # doc
    BY <1>3, <2>1, <2>3, <2>5, OutcomeKeysStored DEF KeysInv, Taken, DocInv
  <2>. QED
    BY <2>4, <2>5
<1>. QED
  BY <1>1, <1>2, <1>3, DocumentSteps

LEMMA KeysHold == ASSUME OwnRefs PROVE ApplySpec => []KeysInv
<1>1. ApplyInit => KeysInv
  BY StoresAssumption DEF OwnRefs, ApplyInit, KeysInv, RequestRefsKept
<1>2. KeysInv /\ DocInv /\ UpdatesInv /\ [ApplyNext]_allVars => KeysInv'
  BY KeysStep
<1>. QED
  BY <1>1, <1>2, DocHolds, UpdatesHold, PTL DEF ApplySpec

\* The keys a provider is called with do not change unless a request under way
\* names that provider with keys, refuses them or clears them: whatever fails in
\* the middle, and when requests for it name secrets of its own
\* (ip_fraud_request.go, ip_geo_request.go).
THEOREM OtherKeysKept == ASSUME OwnRefs PROVE ApplySpec => UnnamedKeysKept
<1>1. KeysInv /\ DocInv /\ UpdatesInv /\ [ApplyNext]_allVars =>
        [\A f \in Family : \A p \in Items(doc.keys[f]), q \in Items(doc'.keys[f]) :
           /\ p.kind = q.kind /\ p.id = q.id
           /\ \A u \in Updater : upd[u].at = "loaded" => ~Touches(upd[u].request, f, p)
           => KeysOf(f, p) = [s \in q.refs |-> secrets'[s]]]_<<doc, secrets>>
  <2>. SUFFICES ASSUME KeysInv, DocInv, UpdatesInv, [ApplyNext]_allVars,
                       ~UNCHANGED <<doc, secrets>>,
                       NEW f \in Family, NEW p \in Items(doc.keys[f]), NEW q \in Items(doc'.keys[f]),
                       p.kind = q.kind, p.id = q.id,
                       \A u \in Updater : upd[u].at = "loaded" => ~Touches(upd[u].request, f, p)
                PROVE  KeysOf(f, p) = [s \in q.refs |-> secrets'[s]]
    OBVIOUS
  <2>0. p.refs \subseteq DOMAIN secrets
    BY DEF KeysInv, KeysStored
  <2>1. CASE Followed
    <3>1. doc'.keys = doc.keys /\ secrets' = secrets
      BY <2>1 DEF Followed, ReplacedRefs, DocInv, EmptyDoc
    <3>2. q \in Items(doc.keys[f])
      BY <3>1
    <3>3. q = p
      BY <3>2 DEF KeysInv, KeysStored, Items
    <3>. QED
      BY <3>1, <3>3 DEF KeysOf
  <2>2. ASSUME NEW u \in Updater, Taken(u) PROVE KeysOf(f, p) = [s \in q.refs |-> secrets'[s]]
    <3>1. upd[u].request \in SettingsRequests /\ ~Touches(upd[u].request, f, p)
      BY <2>2 DEF Taken, UpdatesInv
    <3>2. \A s \in p.refs : s \notin DOMAIN Outcome(upd[u].request, ResourceIds).written
      BY <3>1, UntouchedNotWritten DEF KeysInv
    <3>3. PICK w : /\ DOMAIN w \subseteq DOMAIN Outcome(upd[u].request, ResourceIds).written
                   /\ secrets' = Over(secrets, w)
      BY <2>2 DEF Taken
    <3>4. \A s \in p.refs : secrets'[s] = secrets[s]
      BY <2>0, <3>2, <3>3 DEF Over
    <3>5. \A o \in Items(doc.keys[f]) : p.kind = o.kind /\ p.id = o.id => o = p
      BY DEF KeysInv, KeysStored, Items
    <3>6. Outcome(upd[u].request, ResourceIds).ok =>
            \A o \in Items(Outcome(upd[u].request, ResourceIds).doc.keys[f]) :
              p.kind = o.kind /\ p.id = o.id => o.refs = p.refs
      BY <3>1, OutcomeKeepsKeys DEF KeysInv, DocInv
    <3>7. q.refs = p.refs
      <4>1. CASE doc' = doc
        BY <3>5, <4>1
      <4>2. CASE doc' # doc
        BY <2>2, <3>6, <4>2 DEF Taken
      <4>. QED
        BY <4>1, <4>2
    <3>. QED
      BY <3>4, <3>7 DEF KeysOf
  <2>. QED
    BY <2>1, <2>2, DocumentSteps
<1>. QED
  BY <1>1, KeysHold, DocHolds, UpdatesHold, PTL DEF ApplySpec, UnnamedKeysKept

-----------------------------------------------------------------------------
(* References to nodes, and the nodes they follow.                          *)

Listed(plan) == PlanOK(plan) /\ \A k \in Kind : DOMAIN plan[k] \subseteq Nat

LEMMA BearsName ==
  ASSUME NEW config, NEW names, NEW k \in Kind, NEW i \in DOMAIN config[k],
         {config[k][i].id, config[k][i].name} \cap names # {}
  PROVE  <<k, config[k][i].id>> \in Bearing(names, config)
<1>1. config[k][i] \in {x \in Items(config[k]) : {x.id, x.name} \cap names # {}}
  BY DEF Items
<1>2. <<k, config[k][i].id>> \in
        {<<k, x.id>> : x \in {y \in Items(config[k]) : {y.id, y.name} \cap names # {}}}
  BY <1>1
<1>. QED
  BY <1>2 DEF Bearing

LEMMA OvertakesIt ==
  ASSUME NEW plan, NEW base, NEW k \in Kind, NEW i \in DOMAIN plan[k],
         NEW c \in Former(k, plan[k][i].id, base), c \in Items(base[k]), c.id # plan[k][i].id
  PROVE  <<k, c.id>> \in NameTaken(plan, base)
<1>. DEFINE of(x) == Former(k, x.id, base) \ {y \in Items(base[k]) : y.id = x.id}
<1>1. c \in of(plan[k][i]) /\ plan[k][i] \in Items(plan[k])
  BY DEF Items
<1>2. c \in UNION {of(x) : x \in Items(plan[k])}
  BY <1>1
<1>3. <<k, c.id>> \in {<<k, d.id>> : d \in UNION {of(x) : x \in Items(plan[k])}}
  BY <1>2
<1>. QED
  BY <1>3 DEF NameTaken

\* A name that stands for one node only leads to it.
LEMMA LeadsToBearer ==
  ASSUME NEW plan, Listed(plan), NEW k \in Kind, NEW j \in DOMAIN plan[k], NEW ref,
         ref.resource \in {plan[k][j].id, plan[k][j].name},
         Bearing({ref.resource}, plan) \subseteq {<<k, plan[k][j].id>>}
  PROVE  Resolved(ref, plan) = <<k, plan[k][j].id>>
<1>. DEFINE hits(m) == {i \in DOMAIN plan[m] : ref.resource \in {plan[m][i].id, plan[m][i].name}}
            first(m) == CHOOSE i \in hits(m) : \A h \in hits(m) : i <= h
<1>1. ASSUME NEW m \in Kind, NEW i \in hits(m) PROVE m = k /\ i = j
  <2>1. <<m, plan[m][i].id>> \in Bearing({ref.resource}, plan)
    BY BearsName
  <2>2. m = k /\ plan[m][i].id = plan[k][j].id
    BY <2>1
  <2>. QED
    BY <2>2 DEF Listed, PlanOK, Distinct
<1>2. hits(k) = {j} /\ \A m \in Kind \ {k} : hits(m) = {}
  BY <1>1
<1>3. first(k) = j
  <2>. j \in Nat
    BY DEF Listed
  <2>. QED
    BY <1>2
<1>4. CASE k = "fixed"
  BY <1>2, <1>3, <1>4 DEF Resolved
<1>5. CASE k = "sub"
  <2>1. hits("fixed") = {} /\ hits("sub") # {}
    BY <1>2, <1>5 DEF Kind
  <2>. QED
    BY <2>1, <1>3, <1>5 DEF Resolved
<1>. QED
  BY <1>4, <1>5 DEF Kind

LEMMA FormerOwn ==
  ASSUME NEW base, NEW k, NEW id, NEW i \in DOMAIN base[k], base[k][i].id = id
  PROVE  base[k][i] \in Former(k, id, base)
BY DEF Former, Items

LEMMA FormerStored ==
  ASSUME NEW base, NEW k, NEW id PROVE Former(k, id, base) \subseteq Items(base[k])
BY DEF Former, Items

\* A node that bears the name alone, or bore it, and is not overtaken, is the
\* only one to which references by that name are taken.
LEMMA TakenToBearer ==
  ASSUME NEW plan, Listed(plan), NEW base, NEW k \in Kind, NEW j \in DOMAIN plan[k],
         NEW name, NEW names, name \in names,
         Bearing(names, base) \cup Bearing(names, plan) = {<<k, plan[k][j].id>>},
         <<k, plan[k][j].id>> \notin NameTaken(plan, base)
  PROVE  /\ Renamed(k, name, plan, base) \subseteq {j}
         /\ \A m \in Kind \ {k} : Renamed(m, name, plan, base) = {}
<1>1. ASSUME NEW m \in Kind, NEW i \in Renamed(m, name, plan, base) PROVE m = k /\ i = j
  <2>0. i \in DOMAIN plan[m]
    BY DEF Renamed
  <2>1. CASE name = plan[m][i].name
    <3>1. <<m, plan[m][i].id>> \in Bearing(names, plan)
      BY <2>0, <2>1, BearsName
    <3>2. m = k /\ plan[m][i].id = plan[k][j].id
      BY <3>1
    <3>. QED
      BY <2>0, <3>2 DEF Listed, PlanOK, Distinct
  <2>2. CASE \E c \in Former(m, plan[m][i].id, base) : c.name = name
    <3>1. PICK c \in Former(m, plan[m][i].id, base) : c.name = name
      BY <2>2
    <3>2. c \in Items(base[m])
      BY FormerStored
    <3>3. PICK h \in DOMAIN base[m] : c = base[m][h]
      BY <3>2 DEF Items
    <3>4. <<m, c.id>> \in Bearing(names, base)
      BY <3>1, <3>3, BearsName
    <3>5. m = k /\ c.id = plan[k][j].id
      BY <3>4
    <3>6. c.id = plan[m][i].id
      BY <2>0, <3>2, <3>5, OvertakesIt
    <3>. QED
      BY <2>0, <3>5, <3>6 DEF Listed, PlanOK, Distinct
  <2>. QED
    BY <2>1, <2>2 DEF Renamed
<1>. QED
  BY <1>1

LEMMA ReplacedByLast ==
  ASSUME NEW plan, Listed(plan), NEW base, NEW k \in Kind, NEW j \in DOMAIN plan[k], NEW ref,
         Renamed(k, ref.resource, plan, base) \subseteq {j},
         \A m \in Kind \ {k} : Renamed(m, ref.resource, plan, base) = {}
  PROVE  IF j \in Renamed(k, ref.resource, plan, base)
         THEN ReplacedRef(ref, plan, base).resource = plan[k][j].id
         ELSE ReplacedRef(ref, plan, base) = ref
<1>. DEFINE at(m) == Renamed(m, ref.resource, plan, base)
            of(m) == {[id |-> plan[m][i].id, fixed |-> m = "fixed"] :
                        i \in {x \in at(m) : \A y \in at(m) : y <= x}}
            w == [id |-> plan[k][j].id, fixed |-> k = "fixed"]
            by == Replacement(ref.resource, plan, base)
<1>1. by = IF of("sub") # {} THEN of("sub") ELSE of("fixed")
  BY DEF Replacement
<1>2. \A m \in Kind \ {k} : of(m) = {}
  OBVIOUS
<1>3. CASE j \in at(k)
  <2>1. at(k) = {j} /\ j \in Nat
    BY <1>3 DEF Listed
  <2>2. {x \in at(k) : \A y \in at(k) : y <= x} = {j}
    BY <2>1
  <2>3. of(k) = {w}
    BY <2>2
  <2>4. by = {w}
    BY <1>1, <1>2, <2>3 DEF Kind
  <2>5. (CHOOSE x \in by : TRUE) = w /\ by # {}
    BY <2>4
  <2>6. ReplacedRef(ref, plan, base).resource = w.id
    BY <2>5 DEF ReplacedRef
  <2>. QED
    BY <1>3, <2>6
<1>4. CASE j \notin at(k)
  <2>1. at(k) = {}
    BY <1>4
  <2>2. of("sub") = {} /\ of("fixed") = {}
    BY <1>2, <2>1 DEF Kind
  <2>3. by = {}
    BY <1>1, <2>2
  <2>. QED
    BY <1>4, <2>3 DEF ReplacedRef
<1>. QED
  BY <1>3, <1>4

\* Where a reference led to while its names stood for that node alone.
LEMMA LedToBearer ==
  ASSUME NEW base, NEW k \in Kind, NEW id, NEW ref, Resolved(ref, base) = <<k, id>>,
         Bearing({ref.resource, id}, base) \subseteq {<<k, id>>}
  PROVE  \E i \in DOMAIN base[k] : base[k][i].id = id /\ ref.resource \in {id, base[k][i].name}
<1>. DEFINE hits(m) == {i \in DOMAIN base[m] : ref.resource \in {base[m][i].id, base[m][i].name}}
<1>1. PICK m \in Kind : hits(m) # {}
  BY DEF Resolved, Kind
<1>2. PICK i \in hits(m) : TRUE
  BY <1>1
<1>3. <<m, base[m][i].id>> \in Bearing({ref.resource, id}, base)
  BY <1>2, BearsName
<1>4. m = k /\ base[m][i].id = id
  BY <1>3
<1>. QED
  BY <1>2, <1>4

LEMMA ReplacedFollows ==
  ASSUME NEW plan, Listed(plan), NEW base, NEW ref, NEW k \in Kind, NEW j \in DOMAIN plan[k],
         Resolved(ref, base) = <<k, plan[k][j].id>>,
         Bearing({ref.resource, plan[k][j].id}, base) \cup
           Bearing({ref.resource, plan[k][j].id}, plan) = {<<k, plan[k][j].id>>},
         <<k, plan[k][j].id>> \notin NameTaken(plan, base)
  PROVE  Resolved(ReplacedRef(ref, plan, base), plan) = <<k, plan[k][j].id>>
<1>. DEFINE id == plan[k][j].id
            new == ReplacedRef(ref, plan, base)
<1>1. /\ Renamed(k, ref.resource, plan, base) \subseteq {j}
      /\ \A m \in Kind \ {k} : Renamed(m, ref.resource, plan, base) = {}
  <2>. DEFINE names == {ref.resource, id}
  <2>1. ref.resource \in names
    OBVIOUS
  <2>2. Bearing(names, base) \cup Bearing(names, plan) = {<<k, plan[k][j].id>>}
    OBVIOUS
  <2>. HIDE DEF names, id
  <2>. QED
    BY <2>1, <2>2, TakenToBearer
<1>2. IF j \in Renamed(k, ref.resource, plan, base) THEN new.resource = id ELSE new = ref
  BY <1>1, ReplacedByLast
<1>3. new.resource = id
  <2>1. CASE j \in Renamed(k, ref.resource, plan, base)
    BY <1>2, <2>1
  <2>2. CASE j \notin Renamed(k, ref.resource, plan, base)
    <3>1. PICK i \in DOMAIN base[k] : base[k][i].id = id /\ ref.resource \in {id, base[k][i].name}
      BY LedToBearer
    <3>2. base[k][i] \in Former(k, id, base)
      BY <3>1, FormerOwn
    <3>3. ref.resource # base[k][i].name
      BY <2>2, <3>2 DEF Renamed
    <3>. QED
      BY <1>2, <2>2, <3>1, <3>3
  <2>. QED
    BY <2>1, <2>2
<1>4. Bearing({new.resource}, plan) \subseteq {<<k, id>>}
  <2>1. Bearing({id}, plan) \subseteq Bearing({ref.resource, id}, plan)
    BY DEF Bearing
  <2>. QED
    BY <1>3, <2>1
<1>5. new.resource \in {plan[k][j].id, plan[k][j].name}
  BY <1>3
<1>6. Resolved(new, plan) = <<k, plan[k][j].id>>
  <2>. HIDE DEF new
  <2>. QED
    BY <1>4, <1>5, LeadsToBearer
<1>. QED
  BY <1>6

\* The plan an update goes by is one it may go by.
PlansInv == \A n \in NativeUpdater : nat[n].at # "idle" => Listed(nat[n].plan)

LEMMA PlanListed == ASSUME NEW r \in NativeRequests, NEW c, PlanOK(Planned(r, c))
                    PROVE  Listed(Planned(r, c))
<1>1. \A k \in Kind : DOMAIN Planned(r, c)[k] = DOMAIN r[k]
  BY DEF Planned
<1>2. \A k \in Kind : DOMAIN r[k] \subseteq Nat
  BY NativeAssumption
<1>. QED
  BY <1>1, <1>2 DEF Listed

LEMMA PlansStep == ASSUME PlansInv, ApplyShape, [ApplyNext]_allVars PROVE PlansInv'
<1>. USE DEF ApplyShape
<1>1. ASSUME NEW n \in NativeUpdater, NativeRequest(n) PROVE PlansInv'
  <2>1. ASSUME NEW r \in NativeRequests, BeginNative(n, r) PROVE PlansInv'
    <3>1. Listed(Planned(r, native))
      BY <2>1, PlanListed DEF BeginNative
    <3>. QED
      BY <2>1, <3>1 DEF BeginNative, PlansInv
  <2>2. CASE SaveNative(n) \/ WriteNative(n) \/ ReplaceRefs(n)
    <3>1. nat[n].at # "idle" /\ nat'[n].plan = nat[n].plan /\ \A m \in NativeUpdater \ {n} : nat'[m] = nat[m]
      BY <2>2 DEF SaveNative, WriteNative, ReplaceRefs
    <3>. QED
      BY <3>1 DEF PlansInv
  <2>3. CASE NativeFails(n) \/ AnswerNative(n)
    BY <2>3 DEF NativeFails, AnswerNative, PlansInv, IdleNative
  <2>. QED
    BY <1>1, <2>1, <2>2, <2>3 DEF NativeRequest
<1>2. CASE RestartGateway
  BY <1>2 DEF RestartGateway, PlansInv, IdleNative
<1>3. CASE UNCHANGED nat
  BY <1>3 DEF PlansInv
<1>4. ASSUME NEW u \in Updater, SettingsRequest(u) PROVE UNCHANGED nat
  BY <1>4 DEF SettingsRequest, nativeVars
<1>5. ASSUME NEW x, MarkPending(x) \/ SendRequest(x) PROVE UNCHANGED nat
  BY <1>5 DEF MarkPending, SendRequest, nativeVars
<1>6. ASSUME ReconcileStep \/ RouteChange PROVE UNCHANGED nat
  BY <1>6 DEF ReconcileStep, StartReconcile, LoadNodes, ReadFile, Adopt, WriteFile,
     ReadSettings, ApplyDesired, ReconcileFails, FinishReconcile, RouteChange, nativeVars
<1>7. ASSUME UNCHANGED allVars PROVE UNCHANGED nat
  BY <1>7 DEF allVars, nativeVars
<1>. QED
  BY <1>1, <1>2, <1>3, <1>4, <1>5, <1>6, <1>7 DEF ApplyNext

LEMMA PlansHold == ApplySpec => []PlansInv
<1>1. ApplyInit => PlansInv
  BY DEF ApplyInit, NativeInit, IdleNative, PlansInv
<1>2. PlansInv /\ ApplyInv /\ [ApplyNext]_allVars => PlansInv'
  BY PlansStep DEF ApplyInv
<1>. QED
  BY <1>1, <1>2, ApplyInvHolds, PTL DEF ApplySpec

\* What a step that replaces references does to each.
LEMMA ReferencesStep ==
  ASSUME ApplyInv, DocInv, [ApplyNext]_allVars, NEW n \in NativeUpdater,
         nat[n].at = "written", nat'[n].at = "replaced",
         NEW i \in DOMAIN doc.profiles, NEW f \in {"lineRef", "exitRef"}
  PROVE  doc'.profiles[i][f] = ReplacedRef(doc.profiles[i][f], nat[n].plan, nat[n].base)
<1>1. ReplaceRefs(n)
  <2>1. ASSUME NEW m \in NativeUpdater, NativeRequest(m) PROVE ReplaceRefs(n)
    <3>1. m = n
      <4>1. CASE m # n
        BY <2>1, <4>1 DEF NativeRequest, BeginNative, SaveNative, WriteNative, ReplaceRefs,
           NativeFails, AnswerNative, ApplyInv, ApplyShape
      <4>. QED
        BY <4>1
    <3>. QED
      BY <2>1, <3>1 DEF NativeRequest, BeginNative, SaveNative, WriteNative,
         NativeFails, AnswerNative, IdleNative, ApplyInv, ApplyShape
  <2>2. ~RestartGateway
    BY DEF RestartGateway, IdleNative
  <2>3. nat' # nat
    OBVIOUS
  <2>4. ASSUME NEW u \in Updater, SettingsRequest(u) PROVE UNCHANGED nat
    BY <2>4 DEF SettingsRequest, nativeVars
  <2>5. ASSUME NEW x, MarkPending(x) \/ SendRequest(x) PROVE UNCHANGED nat
    BY <2>5 DEF MarkPending, SendRequest, nativeVars
  <2>6. ASSUME ReconcileStep \/ RouteChange PROVE UNCHANGED nat
    BY <2>6 DEF ReconcileStep, StartReconcile, LoadNodes, ReadFile, Adopt, WriteFile,
       ReadSettings, ApplyDesired, ReconcileFails, FinishReconcile, RouteChange, nativeVars
  <2>7. ASSUME UNCHANGED allVars PROVE UNCHANGED nat
    BY <2>7 DEF allVars, nativeVars
  <2>. QED
    BY <2>1, <2>2, <2>3, <2>4, <2>5, <2>6, <2>7 DEF ApplyNext
<1>2. doc' = ReplacedRefs(doc, nat[n].plan, nat[n].base)
  BY <1>1 DEF ReplaceRefs
<1>3. DOMAIN doc.profiles[i] = ProfileFields /\ "profiles" \in DOMAIN doc
  BY DEF DocInv, Profiled, EmptyDoc
<1>4. doc'.profiles[i] = [doc.profiles[i] EXCEPT
         !.lineRef = ReplacedRef(doc.profiles[i].lineRef, nat[n].plan, nat[n].base),
         !.exitRef = ReplacedRef(doc.profiles[i].exitRef, nat[n].plan, nat[n].base)]
  BY <1>2, <1>3 DEF ReplacedRefs
<1>. QED
  BY <1>3, <1>4 DEF ProfileFields

LEMMA RefFollows ==
  ASSUME NEW plan, Listed(plan), NEW base, NEW ref
  PROVE  LET was   == Resolved(ref, base)
             names == {ref.resource, was[2]}
         IN /\ Bearing(names, base) \cup Bearing(names, plan) = {was}
            /\ was[2] \in {x.id : x \in Items(plan[was[1]])}
            /\ was \notin NameTaken(plan, base)
            => Resolved(ReplacedRef(ref, plan, base), plan) = was
<1>1. ASSUME NEW was, was = Resolved(ref, base),
             Bearing({ref.resource, was[2]}, base) \cup Bearing({ref.resource, was[2]}, plan) = {was},
             was[2] \in {x.id : x \in Items(plan[was[1]])}, was \notin NameTaken(plan, base)
      PROVE  Resolved(ReplacedRef(ref, plan, base), plan) = was
  <2>1. PICK k \in Kind : \E id : was = <<k, id>>
    <3>1. was \in Bearing({ref.resource, was[2]}, base) \cup Bearing({ref.resource, was[2]}, plan)
      BY <1>1
    <3>2. ASSUME NEW names, NEW c, NEW x \in Bearing(names, c)
          PROVE  \E k \in Kind : \E id : x = <<k, id>>
      <4>1. PICK k \in Kind : x \in {<<k, i.id>> : i \in {y \in Items(c[k]) : {y.id, y.name} \cap names # {}}}
        BY <3>2 DEF Bearing
      <4>. QED
        BY <4>1
    <3>. QED
      BY <3>1, <3>2
  <2>2. was[1] = k /\ was = <<k, was[2]>>
    BY <2>1
  <2>3. PICK j \in DOMAIN plan[k] : plan[k][j].id = was[2]
    BY <1>1, <2>2 DEF Items
  <2>4. was = <<k, plan[k][j].id>> /\ was[2] = plan[k][j].id
    BY <2>2, <2>3
  <2>5. Bearing({ref.resource, plan[k][j].id}, base) \cup
          Bearing({ref.resource, plan[k][j].id}, plan) = {<<k, plan[k][j].id>>}
    BY <1>1, <2>4
  <2>6. Resolved(ref, base) = <<k, plan[k][j].id>> /\ <<k, plan[k][j].id>> \notin NameTaken(plan, base)
    BY <1>1, <2>4
  <2>7. Resolved(ReplacedRef(ref, plan, base), plan) = <<k, plan[k][j].id>>
    BY <2>5, <2>6, ReplacedFollows
  <2>. QED
    BY <2>4, <2>7
<1>. QED
  BY <1>1

\* A reference of an egress profile follows its node through an update that
\* renames nodes, drops some and brings others, whatever ids and uris they have:
\* as long as the node keeps its id, its names stand for no other, and no other
\* takes over its uri (update_plan_fixed.go, update_plan_subscription.go,
\* mihomo_refs.go).
THEOREM ReferencesFollow == ApplySpec => RefsFollowNodes
<1>1. PlansInv /\ ApplyInv /\ DocInv /\ [ApplyNext]_allVars =>
        [\A n \in NativeUpdater :
           nat[n].at = "written" /\ nat'[n].at = "replaced" =>
             \A i \in DOMAIN doc.profiles, f \in {"lineRef", "exitRef"} :
               LET ref   == doc.profiles[i][f]
                   was   == Resolved(ref, nat[n].base)
                   names == {ref.resource, was[2]}
               IN /\ Bearing(names, nat[n].base) \cup Bearing(names, nat[n].plan) = {was}
                  /\ was[2] \in {x.id : x \in Items(nat[n].plan[was[1]])}
                  /\ was \notin NameTaken(nat[n].plan, nat[n].base)
                  => Resolved(doc'.profiles[i][f], nat[n].plan) = was]_<<doc, nat>>
  <2>1. ASSUME PlansInv, ApplyInv, DocInv, [ApplyNext]_allVars,
               NEW n \in NativeUpdater, nat[n].at = "written", nat'[n].at = "replaced",
               NEW i \in DOMAIN doc.profiles, NEW f \in {"lineRef", "exitRef"}
        PROVE  LET ref   == doc.profiles[i][f]
                   was   == Resolved(ref, nat[n].base)
                   names == {ref.resource, was[2]}
               IN /\ Bearing(names, nat[n].base) \cup Bearing(names, nat[n].plan) = {was}
                  /\ was[2] \in {x.id : x \in Items(nat[n].plan[was[1]])}
                  /\ was \notin NameTaken(nat[n].plan, nat[n].base)
                  => Resolved(doc'.profiles[i][f], nat[n].plan) = was
    <3>1. Listed(nat[n].plan)
      BY <2>1 DEF PlansInv
    <3>2. doc'.profiles[i][f] = ReplacedRef(doc.profiles[i][f], nat[n].plan, nat[n].base)
      BY <2>1, ReferencesStep
    <3>. QED
      BY <3>1, <3>2, RefFollows
  <2>. QED
    BY <2>1
<1>. QED
  BY <1>1, PlansHold, ApplyInvHolds, DocHolds, PTL DEF ApplySpec, RefsFollowNodes
-----------------------------------------------------------------------------
(* Types.                                                                   *)

\* Where the loop, the updates of nodes and those of the settings may be.
PlacesInv ==
  /\ loop.at \in {"idle", "load", "import", "adopt", "write", "read", "apply", "done", "failed"}
  /\ \A n \in NativeUpdater : nat[n].at \in {"idle", "planned", "saved", "written", "replaced"}
  /\ \A u \in Updater : /\ upd[u].at \in {"idle", "loaded", "saved", "compared", "blind"}
                        /\ upd[u].request \in SettingsRequests \cup {NoUpdate}

LEMMA PlacesStep == ASSUME ApplyShape, PlacesInv, [ApplyNext]_allVars PROVE PlacesInv'
<1>. USE DEF ApplyShape, UpdateFields
<1>1. ASSUME NEW u \in Updater, SettingsRequest(u) PROVE PlacesInv'
  <2>1. UNCHANGED <<loop, nat>>
    BY <1>1 DEF SettingsRequest, nativeVars
  <2>2. ASSUME NEW r \in SettingsRequests, BeginUpdate(u, r) PROVE PlacesInv'
    <3>1. /\ upd'[u].at = "loaded" /\ upd'[u].request = r
          /\ \A v \in Updater \ {u} : upd'[v] = upd[v]
      BY <2>2 DEF BeginUpdate, IdleUpdate
    <3>. QED
      BY <2>1, <3>1 DEF PlacesInv
  <2>3. CASE ApplyUpdate(u, ResourceIds) \/ ApplyFails(u, ResourceIds)
    <3>1. /\ upd'[u] = IdleUpdate \/ (upd'[u].at = "saved" /\ upd'[u].request = upd[u].request)
          /\ \A v \in Updater \ {u} : upd'[v].at = upd[v].at /\ upd'[v].request = upd[v].request
      BY <2>3 DEF ApplyUpdate, ApplyFails
    <3>. QED
      BY <2>1, <3>1 DEF PlacesInv, IdleUpdate
  <2>4. CASE Compare(u) \/ CompareFails(u) \/ Schedule(u)
    <3>1. /\ \/ upd'[u] = IdleUpdate
             \/ upd'[u].at \in {"compared", "blind"} /\ upd'[u].request = upd[u].request
          /\ \A v \in Updater \ {u} : upd'[v] = upd[v]
      BY <2>4 DEF Compare, CompareFails, Schedule
    <3>. QED
      BY <2>1, <3>1 DEF PlacesInv, IdleUpdate
  <2>. QED
    BY <1>1, <2>2, <2>3, <2>4 DEF SettingsRequest
<1>2. ASSUME NEW n \in NativeUpdater, NativeRequest(n) PROVE PlacesInv'
  <2>1. UNCHANGED loop
    BY <1>2 DEF NativeRequest
  <2>2. \A u \in Updater : upd'[u].at = upd[u].at /\ upd'[u].request = upd[u].request
    <3>1. CASE ReplaceRefs(n)
      BY <3>1 DEF ReplaceRefs
    <3>. QED
      BY <1>2, <3>1 DEF NativeRequest, BeginNative, SaveNative, WriteNative, NativeFails,
         AnswerNative, settingsVars
  <2>3. /\ nat'[n].at \in {"idle", "planned", "saved", "written", "replaced"}
        /\ \A m \in NativeUpdater \ {n} : nat'[m] = nat[m]
    BY <1>2 DEF NativeRequest, BeginNative, SaveNative, WriteNative, ReplaceRefs, NativeFails,
       AnswerNative, IdleNative
  <2>. QED
    BY <2>1, <2>2, <2>3 DEF PlacesInv
<1>3. CASE ReconcileStep
  <2>1. UNCHANGED <<upd, nat>>
    BY <1>3 DEF ReconcileStep, StartReconcile, LoadNodes, ReadFile, Adopt, WriteFile, ReadSettings,
       ApplyDesired, ReconcileFails, FinishReconcile, settingsVars, nativeVars
  <2>2. loop'.at \in {"idle", "load", "import", "adopt", "write", "read", "apply", "done", "failed"}
    <3>0. CASE StartReconcile
      <4>1. loop'.at = "load"
        BY <3>0 DEF StartReconcile, IdleLoop
      <4>. QED
        BY <4>1
    <3>1. CASE FinishReconcile
      BY <3>1 DEF FinishReconcile, IdleLoop
    <3>2. CASE LoadNodes \/ ReadFile
      BY <3>2 DEF LoadNodes, ReadFile, Goes
    <3>3. CASE Adopt \/ WriteFile \/ ReadSettings
      BY <3>3 DEF Adopt, WriteFile, ReadSettings, Goes
    <3>4. CASE ApplyDesired \/ ReconcileFails
      BY <3>4 DEF ApplyDesired, ReconcileFails, Goes
    <3>. QED
      BY <1>3, <3>0, <3>1, <3>2, <3>3, <3>4 DEF ReconcileStep
  <2>. QED
    BY <2>1, <2>2 DEF PlacesInv
<1>4. CASE RestartGateway
  BY <1>4 DEF RestartGateway, PlacesInv, IdleUpdate, IdleNative, IdleLoop
<1>5. CASE UNCHANGED allVars \/ RouteChange \/ \E x \in Requester : MarkPending(x) \/ SendRequest(x)
  BY <1>5 DEF MarkPending, SendRequest, RouteChange, allVars, settingsVars, nativeVars, applyVars, PlacesInv
<1>. QED
  BY <1>1, <1>2, <1>3, <1>4, <1>5 DEF ApplyNext

\* The types of settings and reconciles, with every key of a stored provider
\* kept as long as the provider is, though updates, restarts and failures leave
\* documents and keys in any mix (settings/store.go, ip_fraud_request.go).
THEOREM ApplyTypeCorrect == ASSUME OwnRefs PROVE ApplySpec => []ApplyTypeOK
<1>1. ApplyInit => PlacesInv
  BY DEF ApplyInit, SettingsInit, NativeInit, PlacesInv, IdleUpdate, IdleNative, IdleLoop
<1>2. PlacesInv /\ ApplyInv /\ [ApplyNext]_allVars => PlacesInv'
  BY PlacesStep DEF ApplyInv
<1>3. PlacesInv /\ ApplyInv /\ DocInv /\ KeysInv => ApplyTypeOK
  <2>. SUFFICES ASSUME PlacesInv, ApplyInv, DocInv, KeysInv PROVE ApplyTypeOK
    OBVIOUS
  <2>1. SettingsTypeOK
    BY DEF SettingsTypeOK, PlacesInv, DocInv, KeysInv, KeysStored
  <2>2. /\ rec \in [{"pending", "running", "failed"} -> BOOLEAN]
        /\ DOMAIN app = DOMAIN rec
    BY DEF ApplyInv, ApplyShape
  <2>. QED
    BY <2>1, <2>2 DEF PlacesInv, ApplyTypeOK
<1>. QED
  BY <1>1, <1>2, <1>3, ApplyInvHolds, DocHolds, KeysHold, PTL DEF ApplySpec
=============================================================================
