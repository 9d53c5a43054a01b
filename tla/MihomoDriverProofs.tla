------------------------- MODULE MihomoDriverProofs -------------------------
(* Type correctness of MihomoDriver, that one Mihomo runs at most, and that *)
(* a call that succeeds after a change has it run what was asked for.       *)
EXTENDS MihomoDriver, TLAPS

USE DriverAssumption DEF DriverAssumption, Holder, Version

-----------------------------------------------------------------------------
(* Type correctness. A new process is found an identity because the call    *)
(* began while one was left and none is taken while the mutex is held.      *)

IdleInv == lock = Nobody => step = "none"
FreeInv == step = "decide" => \E q \in Proc : proc[q] = "free"
DataInv == DataOK /\ IdleInv /\ FreeInv

LEMMA RenderedType == ASSUME DataOK PROVE Rendered \in Config
BY DEF DataOK, Rendered, Render, Config

LEMMA StoppedType ==
  ASSUME DataOK PROVE Stopped \in [Proc -> {"free", "alive", "exited"}]
BY DEF DataOK, Stopped

LEMMA NewProcType ==
  ASSUME DataInv, step = "decide" PROVE NewProc \in Proc /\ proc[NewProc] = "free"
BY DEF DataInv, FreeInv, NewProc

LEMMA DataInit == Init => DataInv
BY DEF Init, DataInv, DataOK, IdleInv, FreeInv, Step

LEMMA EnterTypes ==
  ASSUME DataInv, NEW p \in Holder, NEW b \in Version, NEW rs \in SUBSET Route,
         Enter(p, b, rs), at' \in {"idle", "load", "apply", "held"}
  PROVE  DataInv'
BY DEF DataInv, DataOK, IdleInv, FreeInv, Enter, Step, settings, recorded, mihomo

LEMMA FailTypes ==
  ASSUME DataInv, NEW p \in Holder, Fail(p)
  PROVE  /\ lock' = Nobody /\ stage' = "base" /\ step' = "none"
         /\ base' \in Version /\ routes' \subseteq Route
         /\ undo' \in [base : Version, routes : SUBSET Route]
         /\ got' \in Version /\ at' \in {"idle", "load", "apply", "held"}
BY DEF DataInv, DataOK, Fail, Unlock, loop

LEMMA AppliedTypes ==
  ASSUME DataInv, Applied(TRUE) \/ Applied(FALSE)
  PROVE  /\ stage' \in {"base", "final"} /\ step' \in {"reload", "record"}
         /\ UNCHANGED <<lock, loop, desired>>
BY DEF DataInv, DataOK, Applied

LEMMA DataStep == DataInv /\ [Next]_vars => DataInv'
<1>. SUFFICES ASSUME DataInv, [Next]_vars PROVE DataInv'
  OBVIOUS
<1>. USE DEF settings, loop, desired, recorded, mihomo, call
<1>1. CASE Settings
  BY <1>1 DEF Settings, RequestReconcile, SaveSettings, DataInv, DataOK, IdleInv,
              FreeInv
<1>2. CASE Looping
  <2>1. CASE LoopRequest \/ LoopTick \/ LoopLoad
    BY <2>1 DEF LoopRequest, LoopTick, LoopLoad, DataInv, DataOK, IdleInv, FreeInv
  <2>2. CASE ApplyDesiredConfig
    BY <2>2, EnterTypes DEF ApplyDesiredConfig, DataInv, DataOK
  <2>. QED
    BY <1>2, <2>1, <2>2 DEF Looping
<1>3. ASSUME NEW p \in Caller, Calling(p) PROVE DataInv'
  BY <1>3, EnterTypes DEF Calling, UpsertSessionRoute, DeleteSessionRoute, DataInv,
                          DataOK
<1>4. ASSUME NEW p \in Holder, Holding(p) PROVE DataInv'
  <2>0. Rendered \in Config
    BY RenderedType DEF DataInv
  <2>1. CASE Decide(p)
    <3>1. CASE Applied(FALSE)
      <4>1. /\ stage' \in {"base", "final"} /\ step' \in {"reload", "record"}
            /\ UNCHANGED <<lock, loop, desired>>
        BY <3>1, AppliedTypes
      <4>. QED
        BY <2>1, <4>1
        DEF Decide, At, Step, DataInv, DataOK, IdleInv, FreeInv
    <3>2. CASE Goto("reload")
      BY <2>1, <3>2 DEF Decide, At, Goto, Step, DataInv, DataOK, IdleInv, FreeInv
    <3>3. CASE Fail(p)
      BY <2>1, <3>3, FailTypes DEF Decide, Step, DataInv, DataOK, IdleInv, FreeInv
    <3>. QED
      BY <2>1, <3>1, <3>2, <3>3 DEF Decide
  <2>2. CASE Restart(p)
    <3>1. NewProc \in Proc /\ Stopped \in [Proc -> {"free", "alive", "exited"}]
      BY <2>2, NewProcType, StoppedType DEF Restart, At, DataInv
    <3>2. CASE Fail(p) /\ process' = NoProc /\ running' = FALSE /\ proc' = Stopped
               /\ ctx' = [q \in Proc |-> Nobody] /\ UNCHANGED loaded
      BY <2>0, <2>2, <3>1, <3>2, FailTypes
      DEF Restart, Step, DataInv, DataOK, IdleInv, FreeInv
    <3>3. CASE /\ process' = NewProc /\ running' = TRUE
               /\ proc' = [Stopped EXCEPT ![NewProc] = "alive"]
               /\ ctx' = [q \in Proc |-> IF q = NewProc THEN p ELSE Nobody]
               /\ loaded' = Rendered /\ Goto("listen")
      BY <2>0, <2>2, <3>1, <3>3
      DEF Restart, At, Goto, Step, DataInv, DataOK, IdleInv, FreeInv
    <3>. QED
      BY <2>2, <3>2, <3>3 DEF Restart
  <2>3. CASE Listen(p)
    <3>1. CASE Applied(TRUE)
      <4>1. /\ stage' \in {"base", "final"} /\ step' \in {"reload", "record"}
            /\ UNCHANGED <<lock, loop, desired>>
        BY <3>1, AppliedTypes
      <4>. QED
        BY <2>3, <4>1
        DEF Listen, At, Step, DataInv, DataOK, IdleInv, FreeInv
    <3>2. CASE Fail(p)
      BY <2>3, <3>2, FailTypes DEF Listen, Step, DataInv, DataOK, IdleInv, FreeInv
    <3>. QED
      BY <2>3, <3>1, <3>2 DEF Listen
  <2>4. CASE Reload(p)
    BY <2>0, <2>4, FailTypes
    DEF Reload, Goto, Step, DataInv, DataOK, IdleInv, FreeInv, At
  <2>5. CASE Ready(p)
    <3>1. CASE canonical' = Rendered /\ Applied(TRUE)
      BY <2>0, <2>5, <3>1, AppliedTypes
      DEF Ready, At, Step, DataInv, DataOK, IdleInv, FreeInv
    <3>2. CASE Goto("rollback") /\ UNCHANGED canonical
      BY <2>5, <3>2 DEF Ready, At, Goto, Step, DataInv, DataOK, IdleInv, FreeInv
    <3>. QED
      BY <2>5, <3>1, <3>2 DEF Ready
  <2>6. CASE Rollback(p)
    BY <2>6, FailTypes
    DEF Rollback, RolledBack, Step, DataInv, DataOK, IdleInv, FreeInv
  <2>7. CASE Record(p)
    BY <2>0, <2>7
    DEF Record, Unlock, EndpointOf, Step, DataInv, DataOK, IdleInv, FreeInv
  <2>. QED
    BY <1>4, <2>1, <2>2, <2>3, <2>4, <2>5, <2>6, <2>7 DEF Holding
<1>5. ASSUME NEW q \in Proc, Exit(q) \/ Wait(q) PROVE DataInv'
  BY <1>5 DEF Exit, Wait, DataInv, DataOK, IdleInv, FreeInv
<1>6. CASE Calm
  BY <1>6 DEF Calm, DataInv, DataOK, IdleInv, FreeInv
<1>7. CASE UNCHANGED vars
  BY <1>7 DEF vars, DataInv, DataOK, IdleInv, FreeInv
<1>. QED
  BY <1>1, <1>2, <1>3, <1>4, <1>5, <1>6, <1>7 DEF Next

\* The flags, apart: the SMT backend does not take Booleans among other data.
LEMMA FlagsStep == FlagsOK /\ [Next]_vars => FlagsOK'
<1>. SUFFICES ASSUME FlagsOK, [Next]_vars PROVE FlagsOK'
  OBVIOUS
<1>. USE DEF FlagsOK, settings, mihomo
<1>1. CASE Settings \/ Looping \/ Calm \/ UNCHANGED vars
  BY <1>1 DEF Settings, RequestReconcile, SaveSettings, Looping, LoopRequest,
              LoopTick, LoopLoad, ApplyDesiredConfig, Enter, Calm, vars
<1>2. ASSUME NEW p \in Caller, Calling(p) PROVE FlagsOK'
  BY <1>2 DEF Calling, UpsertSessionRoute, DeleteSessionRoute, Enter
<1>3. ASSUME NEW p \in Holder, Holding(p) PROVE FlagsOK'
  BY <1>3 DEF Holding, Decide, Restart, Listen, Reload, Ready, Rollback, Record
<1>4. ASSUME NEW q \in Proc, Exit(q) \/ Wait(q) PROVE FlagsOK'
  BY <1>4 DEF Exit, Wait
<1>. QED
  BY <1>1, <1>2, <1>3, <1>4 DEF Next

TypeInv == FlagsOK /\ DataInv

LEMMA TypeInit == Init => TypeInv
BY DataInit DEF Init, FlagsOK, TypeInv

LEMMA TypeStep == TypeInv /\ [Next]_vars => TypeInv'
BY DataStep, FlagsStep DEF TypeInv

\* Every variable of the driver and of the loop keeps its type.
THEOREM DriverTypeCorrect == Spec => []TypeOK
<1>1. TypeInv => TypeOK
  BY DEF TypeInv, DataInv, TypeOK
<1>. QED
  BY <1>1, TypeInit, TypeStep, PTL DEF Spec

-----------------------------------------------------------------------------
(* One process.                                                            *)

\* A process that is alive is the one the driver knows and believes running.
AliveInv == \A q \in Proc : proc[q] = "alive" => q = process /\ running

LEMMA AliveInit == Init => AliveInv
BY DEF Init, AliveInv

LEMMA AliveStep == TypeInv /\ AliveInv /\ [Next]_vars => AliveInv'
<1>. SUFFICES ASSUME TypeInv, AliveInv, [Next]_vars PROVE AliveInv'
  OBVIOUS
<1>. USE DEF mihomo
<1>1. CASE UNCHANGED <<proc, process, running>>
  BY <1>1 DEF AliveInv
<1>2. ASSUME NEW p \in Holder, Restart(p) PROVE AliveInv'
  <2>1. \A q \in Proc : Stopped[q] # "alive"
    BY DEF Stopped, AliveInv
  <2>2. NewProc \in Proc /\ Stopped \in [Proc -> {"free", "alive", "exited"}]
    BY <1>2, NewProcType, StoppedType DEF Restart, At, TypeInv, DataInv
  <2>. QED
    BY <1>2, <2>1, <2>2 DEF Restart, AliveInv
<1>3. ASSUME NEW q \in Proc, Exit(q) PROVE AliveInv'
  BY <1>3 DEF Exit, AliveInv, TypeInv, DataInv, DataOK
<1>4. ASSUME NEW q \in Proc, Wait(q) PROVE AliveInv'
  BY <1>4 DEF Wait, Current, AliveInv, TypeInv, DataInv, DataOK
<1>5. ASSUME NEW p \in Holder, Holding(p), ~Restart(p)
      PROVE  UNCHANGED <<proc, process, running>>
  BY <1>5 DEF Holding, Decide, Listen, Reload, Ready, Rollback, Record
<1>6. ASSUME NEW p \in Caller, Calling(p) PROVE UNCHANGED <<proc, process, running>>
  BY <1>6 DEF Calling, UpsertSessionRoute, DeleteSessionRoute, Enter
<1>7. ASSUME Settings \/ Looping \/ Calm \/ UNCHANGED vars
      PROVE  UNCHANGED <<proc, process, running>>
  BY <1>7 DEF Settings, RequestReconcile, SaveSettings, Looping, LoopRequest,
              LoopTick, LoopLoad, ApplyDesiredConfig, Enter, Calm, vars
<1>. QED
  BY <1>1, <1>2, <1>3, <1>4, <1>5, <1>6, <1>7 DEF Next

\* stopLocked waits for the old process before startLocked: two Mihomo
\* processes are never alive at once.
THEOREM OneMihomoAlive == Spec => []OneMihomo
<1>1. AliveInv => OneMihomo
  BY DEF AliveInv, OneMihomo
<1>. QED
  BY <1>1, TypeInit, TypeStep, AliveInit, AliveStep, PTL DEF Spec

\* A driver that takes Mihomo for stopped is right: the late news of an exit
\* never marks a successor as gone.
THEOREM StoppedIsTrue == Spec => []StoppedIsStopped
<1>1. AliveInv => StoppedIsStopped
  BY DEF AliveInv, StoppedIsStopped
<1>. QED
  BY <1>1, TypeInit, TypeStep, AliveInit, AliveStep, PTL DEF Spec

-----------------------------------------------------------------------------
(* What a change that succeeds leaves behind.                              *)

\* A call begins with the base configuration.
\* Mihomo was given the rendered configuration before the call waits for the
\* listener, and again before it is recorded unless it was recorded already.
ServedInv ==
  /\ step \in {"none", "decide"} => stage = "base"
  /\ step \in {"listen", "ready"} => loaded = Rendered
  /\ step = "record" => loaded = Rendered \/ signature = Rendered

LEMMA ServedInit == Init => ServedInv
BY DEF Init, ServedInv

LEMMA ServedStep == TypeInv /\ ServedInv /\ [Next]_vars => ServedInv'
<1>. SUFFICES ASSUME TypeInv, ServedInv, [Next]_vars PROVE ServedInv'
  OBVIOUS
<1>. USE DEF desired, recorded, mihomo, call, Rendered, Render
<1>1. ASSUME \/ step' \in {"reload", "rollback"}
             \/ step' \in {"none", "decide"} /\ stage' = "base"
      PROVE ServedInv'
  BY <1>1 DEF ServedInv
<1>2. CASE UNCHANGED <<base, routes, signature, stage, step, loaded>>
  BY <1>2 DEF ServedInv
<1>3. ASSUME NEW p \in Holder, Holding(p) PROVE ServedInv'
  <2>0. Fail(p) => ServedInv'
    BY <1>1 DEF Fail, Unlock
  <2>1. CASE Decide(p)
    BY <1>1, <2>0, <2>1 DEF Decide, At, Applied, Goto, ServedInv
  <2>2. CASE Restart(p)
    BY <2>0, <2>2 DEF Restart, Goto, ServedInv
  <2>3. CASE Listen(p)
    BY <2>0, <2>3 DEF Listen, At, Applied, ServedInv
  <2>4. CASE Reload(p)
    BY <2>0, <2>4 DEF Reload, Goto, ServedInv
  <2>5. CASE Ready(p)
    BY <1>1, <2>5 DEF Ready, At, Goto, Applied, ServedInv
  <2>6. CASE Rollback(p)
    BY <2>0, <2>6 DEF Rollback, RolledBack
  <2>7. CASE Record(p)
    BY <1>1, <2>7 DEF Record, Unlock
  <2>. QED
    BY <1>3, <2>1, <2>2, <2>3, <2>4, <2>5, <2>6, <2>7 DEF Holding
<1>4. ASSUME NEW p \in Caller, Calling(p) PROVE ServedInv'
  BY <1>1, <1>4 DEF TypeInv, DataInv, IdleInv, ServedInv, Calling, UpsertSessionRoute, DeleteSessionRoute, Enter
<1>5. CASE ApplyDesiredConfig
  BY <1>1, <1>5 DEF TypeInv, DataInv, IdleInv, ServedInv, ApplyDesiredConfig, Enter
<1>6. ASSUME NEW q \in Proc, Exit(q) \/ Wait(q) PROVE ServedInv'
  BY <1>2, <1>6 DEF Exit, Wait
<1>7. CASE Settings \/ LoopRequest \/ LoopTick \/ LoopLoad \/ Calm \/ UNCHANGED vars
  BY <1>2, <1>7 DEF Settings, RequestReconcile, SaveSettings, LoopRequest, LoopTick,
                    LoopLoad, Calm, vars
<1>. QED
  BY <1>3, <1>4, <1>5, <1>6, <1>7 DEF Next, Looping

LEMMA RecordServes ==
  TypeInv /\ ServedInv /\ [Next]_vars => (Succeeds /\ Up => loaded = signature')
<1>. SUFFICES ASSUME ServedInv, [Next]_vars, signature' # signature
              PROVE  loaded = signature'
  BY DEF Succeeds
<1>. USE DEF recorded
<1>1. ASSUME NEW p \in Holder, Record(p) PROVE loaded = signature'
  BY <1>1 DEF Record, ServedInv
<1>2. ASSUME NEW p \in Holder, Holding(p) PROVE Record(p)
  BY <1>2 DEF Holding, Decide, Restart, Listen, Reload, Ready, Rollback
<1>3. ASSUME NEW p \in Caller PROVE ~Calling(p)
  BY DEF Calling, UpsertSessionRoute, DeleteSessionRoute, Enter
<1>4. ~(Settings \/ Looping \/ Calm \/ UNCHANGED vars)
  BY DEF Settings, RequestReconcile, SaveSettings, Looping, LoopRequest, LoopTick,
         LoopLoad, ApplyDesiredConfig, Enter, Calm, vars
<1>5. ASSUME NEW q \in Proc PROVE ~(Exit(q) \/ Wait(q))
  BY DEF Exit, Wait
<1>. QED
  BY <1>1, <1>2, <1>3, <1>4, <1>5 DEF Next

\* Every reload, restart and rollback considered, a call that changes what is
\* recorded leaves Mihomo with exactly the configuration it records.
THEOREM ChangeServed == Spec => ChangeIsServed
<1>1. Init => TypeInv /\ ServedInv
  BY TypeInit, ServedInit
<1>2. TypeInv /\ ServedInv /\ [Next]_vars => (TypeInv /\ ServedInv)'
  BY TypeStep, ServedStep
<1>3. TypeInv /\ ServedInv /\ [Next]_vars
      => [Succeeds /\ Up => loaded = signature']_vars
  BY RecordServes
<1>. QED
  BY <1>1, <1>2, <1>3, PTL DEF Spec, ChangeIsServed
=============================================================================
