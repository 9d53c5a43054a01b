---------------------------- MODULE MihomoDriver ----------------------------
(***************************************************************************)
(* The driver of the Mihomo data plane and the loop that feeds it.         *)
(*                                                                         *)
(* Lease operations upsert and delete session routes, the reconcile loop   *)
(* applies the settings. Each call holds the driver's mutex while it       *)
(* renders the whole desired configuration, starts or reloads Mihomo and   *)
(* records what was applied. Below the mutex Mihomo may exit at any        *)
(* moment, and the goroutine that waits for its exit wants the mutex too.  *)
(*                                                                         *)
(* The base and the final configuration are rendered from the same         *)
(* options, so one call applies the same rendering twice.                  *)
(***************************************************************************)
EXTENDS Naturals, FiniteSets

CONSTANTS
  Setting,      \* versions of the stored settings
  Empty,        \* the configuration of a driver that was given none
  Broken,       \* versions that Mihomo does not accept
  Route,        \* session routes
  Caller,       \* lease operations, each under a context of its own
  Loop,         \* the reconcile loop, under the context of the process
  Nobody,       \* no holder of the mutex, no context
  Proc,         \* identities of Mihomo processes
  NoProc,       \* no process
  NoConfig,     \* no configuration applied
  Moved,        \* the gateway endpoint is not the driver's default endpoint
  Environments  \* [ticking, faults] the runtime may find itself in

FaultKind ==
  { "settings",  \* the settings are not loaded
    "file",      \* a file is not read or written
    "start",     \* the process is not started
    "exit",      \* Mihomo exits by itself
    "refuse",    \* a reload is refused
    "lost",      \* a reload takes effect, its caller is told it did not
    "listener",  \* the listener is not ready in time
    "rollback" } \* the reload of the rollback fails

Holder  == Caller \cup {Loop}
Version == Setting \cup {Empty}

ASSUME DriverAssumption ==
  /\ Broken \subseteq Setting /\ Empty \notin Setting
  /\ Loop \notin Caller /\ Nobody \notin Holder /\ NoProc \notin Proc
  /\ Moved \in BOOLEAN
  /\ Environments \subseteq [ticking : BOOLEAN, faults : SUBSET FaultKind]

\* A rendered configuration, and the signature that stands for it.
Config == [base : Version, routes : SUBSET Route]
ASSUME NoConfigAssumption == NoConfig \notin Config

Render(b, rs) == [base |-> b, routes |-> rs]
Accepted(c)   == c.base \notin Broken

\* Variant with a bug: an endpoint that is not given stays empty.
UnnormalizedEndpointOf(b) == IF b = Empty THEN "empty" ELSE "gateway"

\* normalizeEndpoint: an empty configuration has the default endpoint.
EndpointOf(b) == IF b = Empty /\ Moved THEN "default" ELSE "gateway"

VARIABLES
  env,       \* whether the refresh ticker runs, and what may go wrong
  stored,    \* the settings in the store
  edit,      \* an update is saved and its reconcile not yet requested
  asked,     \* the reconcile channel holds a request
  got,       \* the settings the loop loaded
  at,        \* where the loop is
  lock,      \* holder of the driver's mutex
  base,      \* baseCfg
  routes,    \* sessions
  undo,      \* baseCfg and sessions before the call that holds the mutex
  stage,     \* it applies the base or the final configuration
  step,      \* its next step
  signature, \* of the final configuration that was last recorded
  baseSig,   \* of the base configuration that was last recorded
  lastEndpoint, \* the endpoint that was last recorded
  running,   \* d.running
  process,   \* d.process
  proc,      \* proc[q]: process q is free, alive, or exited and not yet noticed
  ctx,       \* ctx[q]: holder under whose context q was started
  loaded,    \* the configuration Mihomo runs
  canonical  \* the configuration in the canonical file

settings == <<env, stored, edit, asked>>
loop     == <<got, at>>
desired  == <<base, routes, undo>>
recorded == <<signature, baseSig, lastEndpoint>>
mihomo   == <<running, process, proc, ctx, loaded, canonical>>
call     == <<lock, stage, step>>
vars     == <<settings, loop, desired, recorded, mihomo, call>>

Step == {"none", "decide", "listen", "reload", "ready", "rollback", "record"}

FlagsOK == edit \in BOOLEAN /\ asked \in BOOLEAN /\ running \in BOOLEAN
DataOK ==
  /\ env \in [ticking : BOOLEAN, faults : SUBSET FaultKind]
  /\ stored \in Setting /\ got \in Version
  /\ at \in {"idle", "load", "apply", "held"}
  /\ lock \in Holder \cup {Nobody}
  /\ base \in Version /\ routes \subseteq Route
  /\ undo \in [base : Version, routes : SUBSET Route]
  /\ stage \in {"base", "final"} /\ step \in Step
  /\ signature \in Config \cup {NoConfig} /\ baseSig \in Config \cup {NoConfig}
  /\ lastEndpoint \in {"none", "default", "gateway"}
  /\ process \in Proc \cup {NoProc}
  /\ proc \in [Proc -> {"free", "alive", "exited"}]
  /\ ctx \in [Proc -> Holder \cup {Nobody}]
  /\ loaded \in Config \cup {NoConfig} /\ canonical \in Config \cup {NoConfig}
TypeOK == FlagsOK /\ DataOK

\* Run: Mihomo is not started yet, the first reconcile is requested.
Init ==
  /\ env \in Environments
  /\ stored \in Setting /\ edit = FALSE /\ asked = TRUE
  /\ got = Empty /\ at = "idle"
  /\ lock = Nobody /\ stage = "base" /\ step = "none"
  /\ base = Empty /\ routes = {} /\ undo = [base |-> Empty, routes |-> {}]
  /\ signature = NoConfig /\ baseSig = NoConfig
  /\ lastEndpoint = "none"
  /\ running = FALSE /\ process = NoProc
  /\ proc = [q \in Proc |-> "free"] /\ ctx = [q \in Proc |-> Nobody]
  /\ loaded = NoConfig /\ canonical = NoConfig

Fault(f) == f \in env.faults

\* The controller and the listener of the current process answer.
Up == process # NoProc /\ proc[process] = "alive" /\ Accepted(loaded)

-----------------------------------------------------------------------------
(* Settings: an update is saved, then a reconcile is requested.            *)

SaveSettings(s) ==
  /\ ~edit /\ s # stored
  /\ stored' = s /\ edit' = TRUE
  /\ UNCHANGED <<env, asked, loop, desired, recorded, mihomo, call>>

\* Variant with a bug: without a buffer only a loop that waits is told.
RequestUnbuffered ==
  /\ edit
  /\ asked' = (asked \/ at = "idle") /\ edit' = FALSE
  /\ UNCHANGED <<env, stored, loop, desired, recorded, mihomo, call>>

\* requestReconcile: a full channel drops the request.
RequestReconcile ==
  /\ edit
  /\ asked' = TRUE /\ edit' = FALSE
  /\ UNCHANGED <<env, stored, loop, desired, recorded, mihomo, call>>

-----------------------------------------------------------------------------
(* The reconcile loop.                                                     *)

\* A request is taken, also by the inner loop that drains the channel.
LoopRequest ==
  /\ at = "idle" /\ asked
  /\ asked' = FALSE /\ at' = "load"
  /\ UNCHANGED <<env, stored, edit, got, desired, recorded, mihomo, call>>

LoopTick ==
  /\ at = "idle" /\ env.ticking
  /\ at' = "load"
  /\ UNCHANGED <<settings, got, desired, recorded, mihomo, call>>

\* dataPlaneConfig; the nodes of the base provider are optional.
LoopLoad ==
  /\ at = "load"
  /\ \/ got' = stored /\ at' = "apply"
     \/ Fault("settings") /\ at' = "idle" /\ UNCHANGED got
  /\ UNCHANGED <<settings, desired, recorded, mihomo, call>>

-----------------------------------------------------------------------------
(* Calls of the driver. BOUND: a call is made while an identity for a new  *)
(* process is left.                                                        *)

\* The base and the final configuration of the call that holds the mutex.
Rendered == Render(base, routes)

\* Lock, change what is desired.
Enter(p, b, rs) ==
  /\ lock = Nobody /\ \E q \in Proc : proc[q] = "free"
  /\ lock' = p
  /\ undo' = [base |-> base, routes |-> routes]
  /\ base' = b /\ routes' = rs
  /\ step' = "decide"
  /\ UNCHANGED <<settings, got, recorded, mihomo, stage>>

ApplyDesiredConfig ==
  /\ at = "apply" /\ Enter(Loop, got, routes)
  /\ at' = "held"
UpsertSessionRoute(p, r) == Enter(p, base, routes \cup {r}) /\ UNCHANGED at
DeleteSessionRoute(p, r) == Enter(p, base, routes \ {r}) /\ UNCHANGED at

Unlock(p) ==
  /\ lock' = Nobody /\ stage' = "base" /\ step' = "none"
  /\ undo' = [base |-> Empty, routes |-> {}]
  /\ IF p = Loop THEN at' = "idle" /\ got' = Empty ELSE UNCHANGED loop

\* The call fails: what was desired before it is desired again.
Fail(p) ==
  /\ Unlock(p)
  /\ base' = undo.base /\ routes' = undo.routes

\* recordAppliedConfigProjection, and the call succeeds.
Record(p) ==
  /\ lock = p /\ step = "record"
  /\ Unlock(p)
  /\ signature' = Rendered /\ baseSig' = Rendered
  /\ lastEndpoint' = EndpointOf(base)
  /\ UNCHANGED <<settings, base, routes, mihomo>>

At(p, s) == lock = p /\ step = s
Goto(s)  == step' = s /\ UNCHANGED <<lock, stage, loop, desired>>

\* The base configuration is applied (c: and not by skipping it), or the
\* final one: decideFinalConfigProjectionApply.
Applied(c) ==
  /\ UNCHANGED <<lock, loop, desired>>
  /\ IF stage = "base" /\ (c \/ signature # Rendered)
       THEN stage' = "final" /\ step' = "reload"
       ELSE step' = "record" /\ UNCHANGED stage

\* decideBaseConfigProjectionApply.
Mode ==
  CASE ~running \/ lastEndpoint # EndpointOf(base) -> "restart"
    [] baseSig # Rendered -> "reload"
    [] OTHER          -> "noop"

Decide(p) ==
  /\ At(p, "decide")
  /\ \/ Mode = "noop"   /\ Applied(FALSE)
     \/ Mode = "reload" /\ Goto("reload")
     \/ Fault("file") /\ Fail(p)
  /\ UNCHANGED <<settings, recorded, mihomo>>

\* Variant with a bug: the old process is left alone.
StoppedNot == proc

\* stopLocked waits until the process has exited.
Stopped ==
  [q \in Proc |-> IF q = process /\ proc[q] = "alive" THEN "exited" ELSE proc[q]]

\* The identity of the next process; they are interchangeable.
NewProc == CHOOSE q \in Proc : proc[q] = "free"

\* restartConfigProjectionLocked: write, stop, start.
Restart(p) ==
  /\ At(p, "decide") /\ Mode = "restart"
  /\ canonical' = Rendered
  /\ \/ /\ Fault("start") /\ Fail(p)
        /\ process' = NoProc /\ running' = FALSE /\ proc' = Stopped
        /\ ctx' = [q \in Proc |-> Nobody] /\ UNCHANGED loaded
     \/ /\ process' = NewProc /\ running' = TRUE
        /\ proc' = [Stopped EXCEPT ![NewProc] = "alive"]
        /\ ctx' = [q \in Proc |-> IF q = NewProc THEN p ELSE Nobody]
        /\ loaded' = Rendered /\ Goto("listen")
  /\ UNCHANGED <<settings, recorded>>

\* ... wait for the listener.
Listen(p) ==
  /\ At(p, "listen")
  /\ \/ Up /\ Applied(TRUE)
     \/ (~Up \/ Fault("listener")) /\ Fail(p)
  /\ UNCHANGED <<settings, recorded, mihomo>>

\* reloadConfigDataLocked: write the candidate, put it to the controller.
Reload(p) ==
  /\ At(p, "reload")
  /\ \/ Up /\ Accepted(Rendered) /\ loaded' = Rendered /\ Goto("ready")
     \/ Up /\ Accepted(Rendered) /\ loaded' = Rendered /\ Fault("lost") /\ Fail(p)
     \/ /\ ~Up \/ ~Accepted(Rendered) \/ Fault("refuse") \/ Fault("file")
        /\ Fail(p) /\ UNCHANGED loaded
  /\ UNCHANGED <<settings, recorded, running, process, proc, ctx, canonical>>

\* ... wait for the listener, keep the file.
Ready(p) ==
  /\ At(p, "ready")
  /\ \/ Up /\ canonical' = Rendered /\ Applied(TRUE)
     \/ /\ ~Up \/ Fault("listener") \/ Fault("file")
        /\ Goto("rollback") /\ UNCHANGED canonical
  /\ UNCHANGED <<settings, recorded, running, process, proc, ctx, loaded>>

\* Variant with a bug: a rollback that succeeds hides the error.
RolledBackSilently(p) == Applied(TRUE)

\* The error that caused the rollback is returned.
RolledBack(p) == Fail(p)

\* rollbackConfigReloadLocked.
Rollback(p) ==
  /\ At(p, "rollback")
  /\ \/ Up /\ Accepted(canonical) /\ loaded' = canonical /\ RolledBack(p)
     \/ /\ ~Up \/ ~Accepted(canonical) \/ Fault("rollback")
        /\ Fail(p) /\ UNCHANGED loaded
  /\ UNCHANGED <<settings, recorded, running, process, proc, ctx, canonical>>

-----------------------------------------------------------------------------
(* The process.                                                            *)

\* Mihomo exits by itself, is killed because the operation it was started
\* for returned, was cancelled or ran out of time, or does not come up with its
\* configuration.
Exit(q) ==
  /\ proc[q] = "alive"
  /\ Fault("exit") \/ ctx[q] \in Caller \/ (q = process /\ ~Accepted(loaded))
  /\ proc' = [proc EXCEPT ![q] = "exited"] /\ ctx' = [ctx EXCEPT ![q] = Nobody]
  /\ UNCHANGED <<settings, loop, desired, recorded, running, process, loaded,
                 canonical, call>>

\* Variant with a bug: the exit of any process is taken for the current one's.
Gone(q) == TRUE

\* Variant with a bug: no exit is taken notice of.
Ignored(q) == FALSE

\* wait: the exit of a process that was replaced says nothing.
Current(q) == q = process

\* The waiting goroutine obtains the mutex.
Wait(q) ==
  /\ proc[q] = "exited" /\ lock = Nobody
  /\ proc' = [proc EXCEPT ![q] = "free"]
  /\ running' = IF Current(q) THEN FALSE ELSE running
  /\ UNCHANGED <<settings, loop, desired, recorded, process, ctx, loaded,
                 canonical, call>>

\* What goes wrong stops going wrong.
Calm ==
  /\ env.faults # {}
  /\ env' = [env EXCEPT !.faults = {}]
  /\ UNCHANGED <<stored, edit, asked, loop, desired, recorded, mihomo, call>>

-----------------------------------------------------------------------------
Settings   == RequestReconcile \/ \E s \in Setting : SaveSettings(s)
Looping    == LoopRequest \/ LoopTick \/ LoopLoad \/ ApplyDesiredConfig
Calling(p) ==
  \E r \in Route : UpsertSessionRoute(p, r) \/ DeleteSessionRoute(p, r)
Holding(p) ==
  \/ Decide(p) \/ Restart(p) \/ Listen(p) \/ Reload(p) \/ Ready(p)
  \/ Rollback(p) \/ Record(p)

Next ==
  \/ Settings \/ Looping
  \/ \E p \in Caller : Calling(p)
  \/ \E p \in Holder : Holding(p)
  \/ \E q \in Proc : Exit(q) \/ Wait(q)
  \/ Calm

Spec == Init /\ [][Next]_vars

\* Goroutines run on, Go's mutex starves nobody, faults do not last for ever.
Fairness ==
  /\ WF_vars(RequestReconcile) /\ WF_vars(Calm)
  /\ WF_vars(LoopRequest \/ LoopTick) /\ WF_vars(LoopLoad)
  /\ SF_vars(ApplyDesiredConfig)
  /\ \A p \in Holder : WF_vars(Holding(p))
  /\ \A q \in Proc : WF_vars(Exit(q)) /\ SF_vars(Wait(q))

FairSpec == Spec /\ Fairness

-----------------------------------------------------------------------------
(* Properties.                                                             *)

\* Two Mihomo processes are never alive at once: they would fight for the
\* listener, the controller and the files (stopLocked, then startLocked).
OneMihomo == \A q, r \in Proc : proc[q] = "alive" /\ proc[r] = "alive" => q = r

\* A driver that believes Mihomo is not running is right: the exit of a
\* process that was replaced meanwhile never marks its successor as gone, or
\* the next call would restart a working data plane (wait).
StoppedIsStopped == ~running => \A q \in Proc : proc[q] # "alive"

Succeeds == lock # Nobody /\ signature' # signature

\* A call that changes what was recorded and succeeds has Mihomo run exactly
\* what it asked for, whatever went wrong in this call or in earlier ones.
ChangeIsServed == [][Succeeds /\ Up => loaded = signature']_vars

\* Every call that succeeds leaves Mihomo with the whole desired state.
ReconcileRenders ==
  [][\A p \in Holder : Record(p) /\ Up => loaded = Rendered]_vars

\* Settings that Mihomo accepts are applied at last unless they are replaced:
\* no request is lost between a save, the channel and the loop.
SettingsApplied ==
  \A s \in Setting \ Broken :
    stored = s ~> (signature # NoConfig /\ signature.base = s) \/ stored # s

\* With the refresh ticker, a data plane that is down comes up again.
MihomoRecovers == env.ticking /\ ~Up ~> Up \/ stored \in Broken
=============================================================================
