--------------------------- MODULE SpawnChildProofs ---------------------------
(***************************************************************************)
(* Proofs about SpawnChild, for every set of requests and of steps that    *)
(* may fail, in the forked image and in the cold-started one.              *)
(***************************************************************************)
EXTENDS SpawnChild, TLAPS

(***************************************************************************)
(* The hook table.                                                         *)
(***************************************************************************)
Places == 1..17

LEMMA Table ==
  /\ DOMAIN HookTable = Places
  /\ \A i \in Places : HookTable[i].prio \in Nat
  /\ HookTable[1] = [stage |-> "PRE_COLDBOOT", prio |-> 1000, hook |-> "SpawnInitSpawningEnv"]
  /\ HookTable[4] = [stage |-> "EXECUTE", prio |-> 4000, hook |-> "SpawnSetProperties"]
  /\ HookTable[6] = [stage |-> "PRE_COLDBOOT", prio |-> 1000, hook |-> "SetFdEnv"]
  /\ HookTable[14] = [stage |-> "EXECUTE", prio |-> 3000, hook |-> "SetAppSandboxProperty"]
  /\ HookTable[16] = [stage |-> "PRE_RELY", prio |-> 1000, hook |-> "DupNwebRenderFdsBeforeRunHook"]
  /\ \A i \in Places :
       /\ HookTable[i].hook = "SpawnInitSpawningEnv" => i = 1
       /\ HookTable[i].hook = "SpawnSetProperties" => i = 4
       /\ HookTable[i].hook = "SetAppSandboxProperty" => i = 14
       /\ HookTable[i].hook = "DupNwebRenderFdsBeforeRunHook" => i = 16
       /\ HookTable[i].hook \notin {"SetUid", "SetCapabilities", "SetGroups", "SetGid"}
       /\ HookTable[i].stage \in {"PRE_COLDBOOT", "EXECUTE", "PRE_RELY", "POST_RELY", "PRE_RUN"}
  BY DEF HookTable, Places, Reg, Highest, Common, DfxPreload, Sandbox, MarkPath, Property, Lowest

LEMMA PropertyOrder ==
  /\ Len(PropertySteps) = 13 /\ DOMAIN PropertySteps = 1..13
  /\ PropertySteps[2] = "SetKeepCapabilities" /\ PropertySteps[6] = "SetGroups"
  /\ PropertySteps[7] = "SetGid" /\ PropertySteps[8] = "SetSeccompFilter"
  /\ PropertySteps[9] = "SetUid" /\ PropertySteps[10] = "SetFileDescriptors"
  /\ PropertySteps[11] = "SetCapabilities" /\ PropertySteps[12] = "SetSelinuxCon"
  /\ \A n \in 1..13 :
       /\ PropertySteps[n] = "SetUid" => n = 9
       /\ PropertySteps[n] = "SetCapabilities" => n = 11
       /\ PropertySteps[n] = "SetGroups" => n = 6
       /\ PropertySteps[n] = "SetGid" => n = 7
       /\ PropertySteps[n] \notin {"SetAppSandboxProperty", "DupNwebRenderFdsBeforeRunHook"}
  BY DEF PropertySteps

\* The steps of a hook.
LEMMA Steps ==
  ASSUME NEW i \in Places
  PROVE  /\ Len(StepsAt(i)) \in Nat \ {0} /\ DOMAIN StepsAt(i) = 1..Len(StepsAt(i))
         /\ \A n \in 1..Len(StepsAt(i)) :
              /\ StepsAt(i)[n] = "SetUid" => i = 4 /\ n = 9
              /\ StepsAt(i)[n] = "SetCapabilities" => i = 4 /\ n = 11
              /\ StepsAt(i)[n] = "SetGroups" => i = 4 /\ n = 6
              /\ StepsAt(i)[n] = "SetGid" => i = 4 /\ n = 7
              /\ StepsAt(i)[n] = "SetAppSandboxProperty" => i = 14
              /\ StepsAt(i)[n] = "DupNwebRenderFdsBeforeRunHook" => i = 16
<1>1. CASE HookTable[i].hook \in {"SpawnInitSpawningEnv", "SpawnEnableCache", "SpawnSetAppEnv",
                                  "SpawnSetEncapsPermissions"}
  <2>1. \/ StepsAt(i) = <<"SetProcessName", "SetAppAccessToken", "SpawnSetPreInstalledFlag">>
        \/ StepsAt(i) = <<"SetInternetPermission">>
        \/ StepsAt(i) = <<"SetEnvInfo">>
        \/ StepsAt(i) = <<"BuildEncaps", "WriteEncaps">>
    BY <1>1 DEF StepsAt, StepsOf
  <2>2. QED
    BY <2>1, SMTT(30)
<1>2. CASE HookTable[i].hook = "SpawnSetProperties"
  <2>1. i = 4
    BY <1>2, Table
  <2>2. StepsAt(i) = PropertySteps
    BY <1>2 DEF StepsAt, StepsOf
  <2>3. Len(StepsAt(i)) = 13 /\ DOMAIN StepsAt(i) = 1..13 /\ \A n \in 1..13 : StepsAt(i)[n] = PropertySteps[n]
    <3>1. Len(PropertySteps) = 13 /\ DOMAIN PropertySteps = 1..13
      BY PropertyOrder
    <3>2. QED
      BY <2>2, <3>1, Zenon
  <2>4. ASSUME NEW n \in 1..13
        PROVE  /\ StepsAt(i)[n] = "SetUid" => n = 9
               /\ StepsAt(i)[n] = "SetCapabilities" => n = 11
               /\ StepsAt(i)[n] = "SetGroups" => n = 6
               /\ StepsAt(i)[n] = "SetGid" => n = 7
               /\ StepsAt(i)[n] \notin {"SetAppSandboxProperty", "DupNwebRenderFdsBeforeRunHook"}
    <3>1. PICK x : x = PropertySteps[n]
      OBVIOUS
    <3>2. StepsAt(i)[n] = x
      BY <2>3, <3>1
    <3>3. QED
      BY <3>1, <3>2, PropertyOrder
  <2>5. 13 \in Nat \ {0}
    OBVIOUS
  <2>6. QED
    BY <2>1, <2>3, <2>4, <2>5, Zenon
<1>3. CASE HookTable[i].hook \notin {"SpawnInitSpawningEnv", "SpawnEnableCache", "SpawnSetAppEnv",
                                     "SpawnSetEncapsPermissions", "SpawnSetProperties"}
  <2>1. StepsAt(i) = <<HookTable[i].hook>>
    BY <1>3 DEF StepsAt, StepsOf
  <2>2. QED
    BY <2>1, Table
<1>4. QED
  BY <1>1, <1>2, <1>3

\* The steps the confinement consists of.
LEMMA StepsOfHooks ==
  /\ StepsAt(1) = <<"SetProcessName", "SetAppAccessToken", "SpawnSetPreInstalledFlag">>
  /\ StepsAt(4) = PropertySteps
  /\ StepsAt(6) = <<"SetFdEnv">>
  /\ StepsAt(14) = <<"SetAppSandboxProperty">>
  /\ StepsAt(16) = <<"DupNwebRenderFdsBeforeRunHook">>
  BY Table DEF StepsAt, StepsOf

(***************************************************************************)
(* The order of the hooks.                                                 *)
(***************************************************************************)
AllStages == {"PRE_COLDBOOT", "cold", "map", "EXECUTE", "PRE_RELY", "POST_RELY", "run", "PRE_RUN"}

LEMMA Order ==
  ASSUME NEW i \in Places, NEW j \in Places
  PROVE  /\ RunsBefore(i, j) => ~RunsBefore(j, i)
         /\ ~RunsBefore(i, i)
         /\ i = j \/ RunsBefore(i, j) \/ RunsBefore(j, i)
<1>1. HookTable[i].prio \in Nat /\ HookTable[j].prio \in Nat /\ i \in Nat /\ j \in Nat
  BY Table DEF Places
<1>2. QED
  BY <1>1 DEF RunsBefore

\* Step n of hook i of the stage has been taken.
Executed(i, n) == hook = NoHook \/ RunsBefore(i, hook) \/ (i = hook /\ n < pc)

Shape ==
  /\ stage \in AllStages /\ ret \in {"ok", "err"}
  /\ hook \in Hooks(stage) \union {NoHook}
  /\ hook # NoHook => pc \in 1..Len(StepsAt(hook)) /\ ret = "ok"

LEMMA HookPlaces ==
  ASSUME NEW st
  PROVE  Hooks(st) \subseteq Places /\ NoHook \notin Places
  BY Table DEF Hooks, NoHook, Places

\* The steps taken after the hook is left for the next one.
LEMMA NextHookExecutes ==
  ASSUME Shape, hook # NoHook, NextHook, stage' = stage, ret' = "ok"
  PROVE  /\ Shape'
         /\ \A i \in Hooks(stage) : \A n \in 1..Len(StepsAt(i)) :
              Executed(i, n)' <=> RunsBefore(i, hook) \/ i = hook
<1>1. hook \in Hooks(stage) /\ hook \in Places
  BY HookPlaces DEF Shape
<1>2. PICK S : S = {i \in Hooks(stage) : RunsBefore(hook, i)}
  OBVIOUS
<1>3. pc' = 1 /\ ((S = {} /\ hook' = NoHook) \/ \E i \in S : IsFirst(i, S) /\ hook' = i)
  BY <1>2 DEF NextHook, GoTo
<1>4. \A i \in Hooks(stage) : i \in S <=> ~(RunsBefore(i, hook) \/ i = hook)
  BY <1>1, <1>2, Order, HookPlaces
<1>5. CASE S = {} /\ hook' = NoHook
  BY <1>4, <1>5 DEF Shape, Executed, NoHook
<1>6. ASSUME NEW m \in S, IsFirst(m, S), hook' = m
      PROVE  /\ Shape'
             /\ \A i \in Hooks(stage) : \A n \in 1..Len(StepsAt(i)) :
                  Executed(i, n)' <=> RunsBefore(i, hook) \/ i = hook
  <2>1. m \in Hooks(stage) /\ m \in Places /\ m # NoHook /\ 1 \in 1..Len(StepsAt(m))
    <3>1. m \in Hooks(stage) /\ m \in Places /\ m # NoHook
      BY <1>2, HookPlaces
    <3>2. Len(StepsAt(m)) \in Nat \ {0}
      BY <3>1, Steps
    <3>3. QED
      BY <3>1, <3>2
  <2>2. Shape'
    BY <1>3, <1>6, <2>1 DEF Shape
  <2>3. ASSUME NEW i \in Hooks(stage), NEW n \in 1..Len(StepsAt(i))
        PROVE  Executed(i, n)' <=> RunsBefore(i, m)
    <3>1. Executed(i, n)' <=> (m = NoHook \/ RunsBefore(i, m) \/ (i = m /\ n < 1))
      BY <1>3, <1>6 DEF Executed, RunsBefore
    <3>2. ~(n < 1)
      BY HookPlaces, Steps
    <3>3. QED
      BY <2>1, <3>1, <3>2
  <2>4. \A i \in Hooks(stage) : RunsBefore(i, m) <=> i \notin S
    <3>1. \A i \in S : i # m => RunsBefore(m, i)
      BY <1>6 DEF IsFirst
    <3>2. \A i \in S : ~RunsBefore(i, m)
      BY <1>2, <2>1, <3>1, Order, HookPlaces
    <3>3. ASSUME NEW i \in Hooks(stage), i \notin S
          PROVE  RunsBefore(i, m)
      <4>1. RunsBefore(hook, m) /\ (RunsBefore(i, hook) \/ i = hook) /\ i \in Places
        BY <1>2, <1>4, <3>3, HookPlaces
      <4>2. HookTable[i].prio \in Nat /\ HookTable[m].prio \in Nat /\ HookTable[hook].prio \in Nat
        BY <1>1, <2>1, <4>1, Table
      <4>3. i \in Nat /\ m \in Nat /\ hook \in Nat
        BY <1>1, <2>1, <4>1 DEF Places
      <4>4. QED
        BY <4>1, <4>2, <4>3 DEF RunsBefore
    <3>4. QED
      BY <3>2, <3>3
  <2>5. QED
    BY <1>4, <2>2, <2>3, <2>4
<1>7. QED
  BY <1>3, <1>5, <1>6

\* A step that is taken adds itself.
LEMMA OkExecutes ==
  ASSUME Shape, hook # NoHook, Ok, stage' = stage
  PROVE  /\ Shape' /\ ret' = "ok" /\ ret = "ok"
         /\ \A i \in Hooks(stage) : \A n \in 1..Len(StepsAt(i)) :
              Executed(i, n)' <=> Executed(i, n) \/ (i = hook /\ n = pc)
<1>1. hook \in Hooks(stage) /\ hook \in Places /\ pc \in 1..Len(StepsAt(hook)) /\ ret = "ok" /\ ret' = "ok"
  BY HookPlaces DEF Shape, Ok
<1>2. Len(StepsAt(hook)) \in Nat
  BY <1>1, Steps
<1>3. CASE pc < Len(StepsAt(hook))
  <2>1. pc' = pc + 1 /\ hook' = hook
    BY <1>3 DEF Ok
  <2>2. Shape'
    BY <1>1, <1>2, <1>3, <2>1 DEF Shape
  <2>3. ASSUME NEW i \in Hooks(stage), NEW n \in 1..Len(StepsAt(i))
        PROVE  Executed(i, n)' <=> Executed(i, n) \/ (i = hook /\ n = pc)
    <3>1. n < pc + 1 <=> n < pc \/ n = pc
      BY <1>1
    <3>2. QED
      BY <2>1, <3>1 DEF Executed, RunsBefore
  <2>4. QED
    BY <1>1, <2>2, <2>3
<1>4. CASE ~(pc < Len(StepsAt(hook)))
  <2>1. NextHook
    BY <1>4 DEF Ok
  <2>2. /\ Shape'
        /\ \A i \in Hooks(stage) : \A n \in 1..Len(StepsAt(i)) :
             Executed(i, n)' <=> RunsBefore(i, hook) \/ i = hook
    BY <1>1, <2>1, NextHookExecutes
  <2>3. \A n \in 1..Len(StepsAt(hook)) : n < pc \/ n = pc
    BY <1>1, <1>2, <1>4
  <2>4. QED
    BY <1>1, <2>2, <2>3 DEF Executed
<1>5. QED
  BY <1>3, <1>4

\* A step that fails ends the stage, or only its hook in PRE_RUN.
LEMMA ErrEnds ==
  ASSUME Shape, hook # NoHook, Err, stage' = stage
  PROVE  Shape' /\ ((stage = "PRE_RUN" /\ ret' = "ok") \/ (ret' = "err" /\ hook' = NoHook))
<1>1. CASE stage = "PRE_RUN"
  BY <1>1, NextHookExecutes DEF Err, Shape
<1>2. CASE stage # "PRE_RUN"
  BY <1>2 DEF Err, Shape
<1>3. QED
  BY <1>1, <1>2

\* Nothing of a stage that was just entered has been taken.
LEMMA EnterStarts ==
  ASSUME NEW st \in AllStages, Enter(st)
  PROVE  /\ Shape' /\ stage' = st /\ ret' = "ok"
         /\ \A i \in Hooks(st) : \A n \in 1..Len(StepsAt(i)) : ~Executed(i, n)'
<1>1. /\ stage' = st /\ ret' = "ok" /\ pc' = 1
      /\ (Hooks(st) = {} /\ hook' = NoHook) \/ \E i \in Hooks(st) : IsFirst(i, Hooks(st)) /\ hook' = i
  BY DEF Enter, GoTo
<1>2. CASE Hooks(st) = {} /\ hook' = NoHook
  BY <1>1, <1>2 DEF Shape
<1>3. ASSUME NEW m \in Hooks(st), IsFirst(m, Hooks(st)), hook' = m
      PROVE  Shape' /\ \A i \in Hooks(st) : \A n \in 1..Len(StepsAt(i)) : ~Executed(i, n)'
  <2>1. m \in Places /\ m # NoHook
    BY HookPlaces
  <2>2. Len(StepsAt(m)) \in Nat \ {0}
    BY <2>1, Steps
  <2>3. Shape'
    BY <1>1, <1>3, <2>2 DEF Shape
  <2>4. ASSUME NEW i \in Hooks(st), NEW n \in 1..Len(StepsAt(i))
        PROVE  ~Executed(i, n)'
    <3>1. Executed(i, n)' <=> (m = NoHook \/ RunsBefore(i, m) \/ (i = m /\ n < 1))
      BY <1>1, <1>3 DEF Executed, RunsBefore
    <3>2. ~(n < 1)
      BY HookPlaces, Steps
    <3>3. ~RunsBefore(i, m)
      BY <1>3, <2>1, HookPlaces, Order DEF IsFirst
    <3>4. QED
      BY <2>1, <3>1, <3>2, <3>3
  <2>5. QED
    BY <2>3, <2>4
<1>4. QED
  BY <1>1, <1>2, <1>3

(***************************************************************************)
(* What a step achieves.                                                   *)
(***************************************************************************)
Policies == {"none", "allow_iouring", "app_atomic", "imf_extension", "app_custom", "app", "renderer"}
ProcType ==
  [name : {"spawner", "app"}, token : {"none", "render", "hap"}, uid : {"root", "app"},
   gid : {"root", "app"}, groups : {"root", "app"}, keepcaps : BOOLEAN,
   caps : SUBSET {"all", "dac_override", "kill", "fowner"}, seccomp : Policies, selinux : {"none", "hap"},
   root : {"system", "sandbox"}, xpm : BOOLEAN, stdio : {"inherited", "null"}, ipc : {"none", "dup"}]

Dupped == Mode({"nweb"}) /\ Len(SentFds) >= 3 /\ ~Has("m114") => proc.ipc = "dup"

Effect(s) ==
  /\ s = "SetProcessName" => proc.name = "app"
  /\ s = "SetAppAccessToken" => proc.token # "none"
  /\ s = "SetFdEnv" => req.prefork \/ fdEnv = SentFds
  /\ s = "SetAppSandboxProperty" => proc.root = "sandbox" \/ Has("no_sandbox") \/ Has("ignore_sandbox")
  /\ s = "SetKeepCapabilities" => proc.keepcaps
  /\ s = "SetGroups" => proc.groups = "app"
  /\ s = "SetGid" => proc.gid = "app"
  /\ s = "SetSeccompFilter" => IsRenderer \/ proc.seccomp # "none"
  /\ s = "SetUid" => proc.uid = "app"
  /\ s = "SetFileDescriptors" => proc.stdio = "null"
  /\ s = "SetCapabilities" => proc.caps = BaseCaps
  /\ s = "SetSelinuxCon" => proc.selinux = "hap" \/ req.type = "nativeproc"
  /\ s = "DupNwebRenderFdsBeforeRunHook" => Dupped
  /\ s = "AnyFilter" => proc.seccomp # "none"     \* not a step: the adapter has a filter too

\* The steps taken have achieved what they are for.
EffectInv ==
  ret = "ok" /\ stage # "PRE_RUN" =>
    \A i \in Hooks(stage) : \A n \in 1..Len(StepsAt(i)) : Executed(i, n) => Effect(StepsAt(i)[n])

\* The process is root until setresuid and has every capability until capset.
RootInv ==
  /\ stage \in {"PRE_COLDBOOT", "cold", "map"} => proc.uid = "root" /\ proc.caps = {"all"}
  /\ stage = "EXECUTE" /\ ret = "ok" /\ ~Executed(4, 9) => proc.uid = "root" /\ proc.caps = {"all"}
  /\ stage = "EXECUTE" /\ ret = "ok" /\ ~Executed(4, 11) => proc.caps = {"all"}

\* What the steps of STAGE_CHILD_PRE_COLDBOOT are for.
Booted == Effect("SetProcessName") /\ Effect("SetAppAccessToken") /\ Effect("SetFdEnv")

BasicInv ==
  /\ Shape /\ req \in Requests /\ proc \in ProcType
  /\ fdEnv = <<>> \/ fdEnv = SentFds
  /\ image \in {"fork", "cold"} /\ failed \in BOOLEAN
  /\ EffectInv /\ RootInv
  /\ stage \in {"cold", "map", "EXECUTE", "PRE_RELY", "POST_RELY", "run"} => Booted

\* A step, taken or failed.
TakesStep(s) ==
  /\ At(s) /\ UNCHANGED <<req, image, stage, after, fdMap, told, pipe>>
  /\ proc' \in ProcType /\ (fdEnv' = fdEnv \/ fdEnv' = SentFds) /\ failed' \in BOOLEAN
  /\ \/ Ok /\ life' = life /\ failed' = failed /\ Effect(s)'
     \/ Err /\ life' = life /\ failed' = TRUE
     \/ life' = "shell" /\ UNCHANGED <<hook, pc, ret, proc, fdEnv, failed>>
  /\ \A t : Effect(t) => Effect(t)' \/ (s = "SetUid" /\ t = "SetCapabilities")
  /\ proc'.uid # proc.uid => s = "SetUid"
  /\ proc'.caps # proc.caps => s = "SetCapabilities" \/ (s = "SetUid" /\ proc'.caps = {"all"})

\* What depends on the request alone.
LEMMA OfTheRequest ==
  ASSUME req' = req
  PROVE  /\ BaseCaps' = BaseCaps /\ SentFds' = SentFds /\ (IsRenderer' <=> IsRenderer)
         /\ \A f : Has(f)' <=> Has(f)
         /\ \A m : Mode(m)' <=> Mode(m)
  BY DEF BaseCaps, SentFds, IsRenderer, Has, Mode

\* A step that leaves the process and the environment alone.
LEMMA Unaffected ==
  ASSUME UNCHANGED <<req, proc, fdEnv>>, NEW t
  PROVE  Effect(t)' <=> Effect(t)
  BY OfTheRequest DEF Effect, Dupped

\* Where a step stands.
LEMMA Where ==
  ASSUME Shape, NEW s, At(s)
  PROVE  /\ hook \in Places /\ hook \in Hooks(stage) /\ pc \in 1..Len(StepsAt(hook)) /\ ret = "ok"
         /\ hook # NoHook /\ StepsAt(hook)[pc] = s /\ stage = HookTable[hook].stage
  BY HookPlaces DEF Shape, At, Hooks

\* What needs root is done while the process is root.
LEMMA RootWhenNeeded ==
  ASSUME BasicInv, NEW s \in {"SetGroups", "SetGid", "SetUid", "SetAppSandboxProperty"}, At(s)
  PROVE  Root /\ proc.caps = {"all"}
<1>1. Shape /\ RootInv
  BY DEF BasicInv
<1>2. /\ hook \in Places /\ pc \in 1..Len(StepsAt(hook)) /\ ret = "ok"
      /\ hook # NoHook /\ StepsAt(hook)[pc] = s /\ stage = HookTable[hook].stage
  BY <1>1, Where
<1>3. (hook = 4 /\ pc \in {6, 7, 9}) \/ hook = 14
  BY <1>2, Steps
<1>4. stage = "EXECUTE"
  BY <1>2, <1>3, Table
<1>5. ~RunsBefore(4, hook)
  BY <1>3, Table DEF RunsBefore
<1>6. ~(4 = hook /\ 9 < pc)
  BY <1>3
<1>7. ~Executed(4, 9)
  BY <1>2, <1>5, <1>6 DEF Executed
<1>8. QED
  BY <1>1, <1>2, <1>4, <1>7 DEF RootInv, Root

\* The capabilities are kept before the user id is left.
LEMMA KeptBefore ==
  ASSUME BasicInv, At("SetUid")
  PROVE  proc.keepcaps
<1>1. Shape /\ EffectInv
  BY DEF BasicInv
<1>2. /\ hook \in Places /\ pc \in 1..Len(StepsAt(hook)) /\ ret = "ok" /\ hook \in Hooks(stage)
      /\ StepsAt(hook)[pc] = "SetUid" /\ stage = HookTable[hook].stage
  BY <1>1, Where
<1>3. hook = 4 /\ pc = 9 /\ stage = "EXECUTE"
  BY <1>2, Steps, Table
<1>4. Len(StepsAt(4)) = 13 /\ StepsAt(4)[2] = "SetKeepCapabilities"
  BY StepsOfHooks, PropertyOrder
<1>5. Executed(4, 2) /\ 2 \in 1..Len(StepsAt(4))
  BY <1>3, <1>4 DEF Executed
<1>6. Effect("SetKeepCapabilities")
  BY <1>1, <1>2, <1>3, <1>4, <1>5 DEF EffectInv
<1>7. QED
  BY <1>6 DEF Effect

\* capset finds every capability permitted.
LEMMA CapsWhenNeeded ==
  ASSUME BasicInv, At("SetCapabilities")
  PROVE  proc.caps = {"all"}
<1>1. Shape /\ RootInv
  BY DEF BasicInv
<1>2. /\ hook \in Places /\ pc \in 1..Len(StepsAt(hook)) /\ ret = "ok" /\ hook # NoHook
      /\ StepsAt(hook)[pc] = "SetCapabilities" /\ stage = HookTable[hook].stage
  BY <1>1, Where
<1>3. hook = 4 /\ pc = 11
  BY <1>2, Steps
<1>4. stage = "EXECUTE"
  BY <1>2, <1>3, Table
<1>5. ~Executed(4, 11)
  BY <1>2, <1>3, Table DEF Executed, RunsBefore
<1>6. QED
  BY <1>1, <1>2, <1>4, <1>5 DEF RootInv

\* Steps that set nothing Effect is about.
LEMMA OtherSteps ==
  ASSUME BasicInv, NEW s, At(s), UNCHANGED <<req, image, stage, after, fdMap, told, pipe, proc, fdEnv>>,
         Effect(s),
         \/ Ok /\ life' = life /\ failed' = failed
         \/ Err /\ life' = life /\ failed' = TRUE
         \/ life' = "shell" /\ UNCHANGED <<hook, pc, ret, failed>>
  PROVE  TakesStep(s)
<1>1. \A t : Effect(t)' <=> Effect(t)
  BY Unaffected
<1>2. QED
  BY <1>1 DEF TakesStep, BasicInv

Neutral == {"SpawnSetIsolateDir", "SpawnSetCustomSandboxEnv", "SetInternetPermission",
            "MarkSandboxMounts", "LoadSilk", "SetSchedPriority", "SpawnComplete", "RecordStartTime",
            "WaitForDebugger", "SpawnSetPreInstalledFlag", "SetEnvInfo", "AsanSpawnInitSpawningEnv",
            "SetDfxPreloadEnableEnv", "BuildEncaps", "WriteEncaps", "RunBegetctlBootApp",
            "AppSpawnClearEnv"}

LEMMA NeutralEffect == \A s \in Neutral : Effect(s)
  BY DEF Neutral, Effect

LEMMA NeutralSteps ==
  ASSUME BasicInv,
         \/ SpawnSetPreInstalledFlag \/ SetEnvInfo \/ SpawnSetIsolateDir \/ SpawnSetCustomSandboxEnv
         \/ AsanSpawnInitSpawningEnv \/ SetDfxPreloadEnableEnv
         \/ SetInternetPermission \/ BuildEncaps \/ WriteEncaps \/ MarkSandboxMounts \/ LoadSilk
         \/ SetSchedPriority \/ WaitForDebugger \/ DebuggerAttaches \/ SpawnComplete
         \/ RecordStartTime \/ RunBegetctlBootApp \/ AppSpawnClearEnv
  PROVE  \E s : TakesStep(s)
<1> DEFINE Plainly(s) ==
      /\ At(s) /\ UNCHANGED <<req, image, stage, after, fdMap, told, pipe, proc, fdEnv>>
      /\ \/ Ok /\ life' = life /\ failed' = failed
         \/ Err /\ life' = life /\ failed' = TRUE
         \/ life' = "shell" /\ UNCHANGED <<hook, pc, ret, failed>>
<1>1. ASSUME NEW s \in Neutral, Logged(s) \/ Plain(s)
      PROVE  Plainly(s)
  BY <1>1 DEF Logged, Plain, Fault, AllButProc
<1>2. ASSUME AsanSpawnInitSpawningEnv \/ SetDfxPreloadEnableEnv \/ BuildEncaps \/ WriteEncaps
             \/ WaitForDebugger \/ DebuggerAttaches \/ RunBegetctlBootApp \/ AppSpawnClearEnv
      PROVE  \E s \in Neutral : Plainly(s)
  <2> HIDE DEF Plainly
  <2>1. \A s : /\ At(s) /\ Ok /\ UNCHANGED <<req, image, stage, after, fdMap, told, pipe, proc, fdEnv, life, failed>>
               => Plainly(s)
    BY DEF Plainly
  <2>2. CASE AsanSpawnInitSpawningEnv
    BY <2>1, <2>2 DEF AsanSpawnInitSpawningEnv, Neutral
  <2>3. CASE SetDfxPreloadEnableEnv
    BY <2>1, <2>3 DEF SetDfxPreloadEnableEnv, Neutral
  <2>4. CASE BuildEncaps
    BY <2>1, <2>4 DEF BuildEncaps, Neutral
  <2>5. CASE WriteEncaps
    BY <2>1, <2>5 DEF WriteEncaps, Neutral
  <2>6. CASE WaitForDebugger \/ DebuggerAttaches
    BY <2>1, <2>6 DEF WaitForDebugger, DebuggerAttaches, AllButProc, Neutral
  <2>7. CASE RunBegetctlBootApp
    <3>1. Plainly("RunBegetctlBootApp")
      BY <2>7 DEF RunBegetctlBootApp, Plainly
    <3>2. QED
      BY <3>1 DEF Neutral
  <2>8. CASE AppSpawnClearEnv
    BY <2>1, <2>8 DEF AppSpawnClearEnv, Neutral
  <2>9. QED
    BY <1>2, <2>2, <2>3, <2>4, <2>5, <2>6, <2>7, <2>8
<1>3. \E s \in Neutral : Plainly(s)
  <2> HIDE DEF Plainly
  <2>1. CASE \/ SpawnSetPreInstalledFlag \/ SetEnvInfo \/ SpawnSetIsolateDir \/ SpawnSetCustomSandboxEnv
             \/ SetInternetPermission \/ MarkSandboxMounts \/ LoadSilk \/ SetSchedPriority
             \/ SpawnComplete \/ RecordStartTime
    BY <1>1, <2>1 DEF SpawnSetPreInstalledFlag, SetEnvInfo, SpawnSetIsolateDir, SpawnSetCustomSandboxEnv,
       SetInternetPermission, MarkSandboxMounts, LoadSilk, SetSchedPriority, SpawnComplete,
       RecordStartTime, Neutral
  <2>2. QED
    BY <1>2, <2>1
<1>4. QED
  BY <1>3, NeutralEffect, OtherSteps

\* A step that sets one attribute, or fails without setting it.
SetsProc(s, p) ==
  /\ At(s) /\ UNCHANGED AllButProc
  /\ \/ Ok /\ failed' = failed /\ proc' = p
     \/ Err /\ failed' = TRUE /\ proc' = proc

LEMMA ProcSteps ==
  ASSUME BasicInv, NEW s, NEW p \in ProcType, SetsProc(s, p),
         proc' = p => /\ Effect(s)'
                      /\ \A t : Effect(t) => Effect(t)' \/ (s = "SetUid" /\ t = "SetCapabilities"),
         p.uid # proc.uid => s = "SetUid",
         p.caps # proc.caps => s = "SetCapabilities" \/ (s = "SetUid" /\ p.caps = {"all"})
  PROVE  TakesStep(s)
<1>1. At(s) /\ UNCHANGED <<req, image, stage, after, fdMap, told, pipe, fdEnv, life>>
  BY DEF SetsProc, AllButProc
<1>2. proc \in ProcType /\ failed \in BOOLEAN
  BY DEF BasicInv
<1>3. CASE Ok /\ failed' = failed /\ proc' = p
  BY <1>1, <1>2, <1>3 DEF TakesStep
<1>4. CASE Err /\ failed' = TRUE /\ proc' = proc
  <2>1. \A t : Effect(t)' <=> Effect(t)
    BY <1>1, <1>4, Unaffected
  <2>2. QED
    BY <1>1, <1>2, <1>4, <2>1 DEF TakesStep
<1>5. QED
  BY <1>3, <1>4 DEF SetsProc

LEMMA AttributeSteps ==
  ASSUME BasicInv,
         \/ SetProcessName \/ SetAppAccessToken \/ SetKeepCapabilities \/ SetXpmConfig
         \/ SetSeccompFilter \/ SetFileDescriptors \/ SetSelinuxCon
  PROVE  \E s : TakesStep(s)
<1>1. proc \in ProcType
  BY DEF BasicInv
<1>2. CASE SetProcessName
  <2>1. PICK p : p = [proc EXCEPT !.name = "app"]
    OBVIOUS
  <2>2. p \in ProcType /\ p.uid = proc.uid /\ p.caps = proc.caps
    BY <1>1, <2>1 DEF ProcType
  <2>3. SetsProc("SetProcessName", p) /\ req' = req /\ fdEnv' = fdEnv
    BY <1>2, <2>1 DEF SetProcessName, SetsProc, Fault, AllButProc
  <2>4. proc' = p => Effect("SetProcessName")' /\ \A t : Effect(t) => Effect(t)'
    BY <1>1, <2>1, <2>3, OfTheRequest DEF ProcType, Effect, Dupped
  <2>5. QED
    BY <2>2, <2>3, <2>4, ProcSteps
<1>3. CASE SetAppAccessToken
  <2>1. PICK p \in {[proc EXCEPT !.token = "render"], [proc EXCEPT !.token = "hap"]} :
          SetsProc("SetAppAccessToken", p)
    BY <1>3 DEF SetAppAccessToken, SetsProc, Fault, AllButProc
  <2>2. p \in ProcType /\ p.uid = proc.uid /\ p.caps = proc.caps
    BY <1>1, <2>1 DEF ProcType
  <2>3. req' = req /\ fdEnv' = fdEnv
    BY <2>1 DEF SetsProc, AllButProc
  <2>4. proc' = p => Effect("SetAppAccessToken")' /\ \A t : Effect(t) => Effect(t)'
    BY <1>1, <2>1, <2>3, OfTheRequest DEF ProcType, Effect, Dupped
  <2>5. QED
    BY <2>1, <2>2, <2>4, ProcSteps
<1>4. CASE SetKeepCapabilities
  <2>1. PICK p : p = [proc EXCEPT !.keepcaps = TRUE]
    OBVIOUS
  <2>2. p \in ProcType /\ p.uid = proc.uid /\ p.caps = proc.caps
    BY <1>1, <2>1 DEF ProcType
  <2>3. SetsProc("SetKeepCapabilities", p) /\ req' = req /\ fdEnv' = fdEnv
    BY <1>4, <2>1 DEF SetKeepCapabilities, SetsProc, Fault, AllButProc
  <2>4. proc' = p => Effect("SetKeepCapabilities")' /\ \A t : Effect(t) => Effect(t)'
    BY <1>1, <2>1, <2>3, OfTheRequest DEF ProcType, Effect, Dupped
  <2>5. QED
    BY <2>2, <2>3, <2>4, ProcSteps
<1>5. CASE SetXpmConfig
  <2>1. PICK p : p = [proc EXCEPT !.xpm = ~Mode({"nweb"})]
    OBVIOUS
  <2>2. p \in ProcType /\ p.uid = proc.uid /\ p.caps = proc.caps
    BY <1>1, <2>1 DEF ProcType, Mode
  <2>3. SetsProc("SetXpmConfig", p) /\ req' = req /\ fdEnv' = fdEnv
    BY <1>5, <2>1 DEF SetXpmConfig, SetsProc, Fault, AllButProc
  <2>4. proc' = p => Effect("SetXpmConfig")' /\ \A t : Effect(t) => Effect(t)'
    BY <1>1, <2>1, <2>3, OfTheRequest DEF ProcType, Effect, Dupped
  <2>5. QED
    BY <2>2, <2>3, <2>4, ProcSteps
<1>6. CASE SetSeccompFilter
  <2>1. SeccompPolicy \in Policies \ {"none"}
    BY DEF SeccompPolicy, Policies
  <2>2. PICK p : p = IF IsRenderer THEN proc ELSE [proc EXCEPT !.seccomp = SeccompPolicy]
    OBVIOUS
  <2>3. p \in ProcType /\ p.uid = proc.uid /\ p.caps = proc.caps
    BY <1>1, <2>1, <2>2 DEF ProcType
  <2>4. SetsProc("SetSeccompFilter", p) /\ req' = req /\ fdEnv' = fdEnv
    BY <1>6, <2>2 DEF SetSeccompFilter, SetsProc, Fault, AllButProc
  <2>5. proc' = p => Effect("SetSeccompFilter")' /\ \A t : Effect(t) => Effect(t)'
    BY <1>1, <2>1, <2>2, <2>4, OfTheRequest DEF ProcType, Effect, Dupped
  <2>6. QED
    BY <2>3, <2>4, <2>5, ProcSteps
<1>7. CASE SetFileDescriptors
  <2>1. PICK p : p = [proc EXCEPT !.stdio = "null"]
    OBVIOUS
  <2>2. p \in ProcType /\ p.uid = proc.uid /\ p.caps = proc.caps
    BY <1>1, <2>1 DEF ProcType
  <2>3. SetsProc("SetFileDescriptors", p) /\ req' = req /\ fdEnv' = fdEnv
    BY <1>7, <2>1 DEF SetFileDescriptors, SetsProc, Fault, AllButProc
  <2>4. proc' = p => Effect("SetFileDescriptors")' /\ \A t : Effect(t) => Effect(t)'
    BY <1>1, <2>1, <2>3, OfTheRequest DEF ProcType, Effect, Dupped
  <2>5. QED
    BY <2>2, <2>3, <2>4, ProcSteps
<1>8. CASE SetSelinuxCon
  <2>1. PICK p : p = IF req.type = "nativeproc" THEN proc ELSE [proc EXCEPT !.selinux = "hap"]
    OBVIOUS
  <2>2. p \in ProcType /\ p.uid = proc.uid /\ p.caps = proc.caps
    BY <1>1, <2>1 DEF ProcType
  <2>3. SetsProc("SetSelinuxCon", p) /\ req' = req /\ fdEnv' = fdEnv
    BY <1>8, <2>1 DEF SetSelinuxCon, SetsProc, Fault, AllButProc
  <2>4. proc' = p => Effect("SetSelinuxCon")' /\ \A t : Effect(t) => Effect(t)'
    BY <1>1, <2>1, <2>3, OfTheRequest DEF ProcType, Effect, Dupped
  <2>5. QED
    BY <2>2, <2>3, <2>4, ProcSteps
<1>9. QED
  BY <1>2, <1>3, <1>4, <1>5, <1>6, <1>7, <1>8

\* The steps that ask something of the kernel do not ask in vain.
LEMMA PrivilegedSteps ==
  ASSUME BasicInv,
         \/ SetGroups \/ SetGid \/ SetUid \/ SetCapabilities
  PROVE  \E s : TakesStep(s)
<1>1. proc \in ProcType
  BY DEF BasicInv
<1>2. ASSUME NEW s, NEW p, Root, AsRoot(s, p)
      PROVE  SetsProc(s, p) /\ req' = req /\ fdEnv' = fdEnv
  BY <1>2 DEF AsRoot, SetsProc, Fault, AllButProc
<1>3. CASE SetGroups
  <2>1. At("SetGroups")
    BY <1>3 DEF SetGroups, AsRoot
  <2>2. PICK p : p = [proc EXCEPT !.groups = "app"]
    OBVIOUS
  <2>3. Root
    BY <2>1, RootWhenNeeded
  <2>4. SetsProc("SetGroups", p) /\ req' = req /\ fdEnv' = fdEnv
    <3>1. AsRoot("SetGroups", p)
      BY <1>3, <2>2, Zenon DEF SetGroups
    <3>2. QED
      BY <1>2, <2>3, <3>1, Zenon
  <2>5. p \in ProcType /\ p.uid = proc.uid /\ p.caps = proc.caps
    BY <1>1, <2>2 DEF ProcType
  <2>6. proc' = p => Effect("SetGroups")' /\ \A t : Effect(t) => Effect(t)'
    BY <1>1, <2>2, <2>4, OfTheRequest DEF ProcType, Effect, Dupped
  <2>7. QED
    BY <2>4, <2>5, <2>6, ProcSteps
<1>4. CASE SetGid
  <2>1. At("SetGid")
    BY <1>4 DEF SetGid, AsRoot
  <2>2. PICK p : p = [proc EXCEPT !.gid = "app"]
    OBVIOUS
  <2>3. Root
    BY <2>1, RootWhenNeeded
  <2>4. SetsProc("SetGid", p) /\ req' = req /\ fdEnv' = fdEnv
    <3>1. AsRoot("SetGid", p)
      BY <1>4, <2>2, Zenon DEF SetGid
    <3>2. QED
      BY <1>2, <2>3, <3>1, Zenon
  <2>5. p \in ProcType /\ p.uid = proc.uid /\ p.caps = proc.caps
    BY <1>1, <2>2 DEF ProcType
  <2>6. proc' = p => Effect("SetGid")' /\ \A t : Effect(t) => Effect(t)'
    BY <1>1, <2>2, <2>4, OfTheRequest DEF ProcType, Effect, Dupped
  <2>7. QED
    BY <2>4, <2>5, <2>6, ProcSteps
<1>5. CASE SetUid
  <2>1. At("SetUid")
    BY <1>5 DEF SetUid, AsRoot
  <2>2. PICK p : p = [proc EXCEPT !.uid = "app", !.caps = IF proc.keepcaps THEN {"all"} ELSE {}]
    OBVIOUS
  <2>3. Root /\ proc.keepcaps
    BY <2>1, RootWhenNeeded, KeptBefore
  <2>4. SetsProc("SetUid", p) /\ req' = req /\ fdEnv' = fdEnv
    <3>1. AsRoot("SetUid", p)
      BY <1>5, <2>2, Zenon DEF SetUid
    <3>2. QED
      BY <1>2, <2>3, <3>1, Zenon
  <2>5. p \in ProcType /\ p.caps = {"all"}
    BY <1>1, <2>2, <2>3 DEF ProcType
  <2>6. proc' = p => Effect("SetUid")' /\ \A t : Effect(t) => Effect(t)' \/ t = "SetCapabilities"
    BY <1>1, <2>2, <2>4, OfTheRequest DEF ProcType, Effect, Dupped
  <2>7. QED
    BY <2>4, <2>5, <2>6, ProcSteps
<1>6. CASE SetCapabilities
  <2>1. At("SetCapabilities")
    BY <1>6 DEF SetCapabilities
  <2>2. PICK p : p = [proc EXCEPT !.caps = BaseCaps]
    OBVIOUS
  <2>3. "all" \in proc.caps
    BY <2>1, CapsWhenNeeded
  <2>4. SetsProc("SetCapabilities", p) /\ req' = req /\ fdEnv' = fdEnv
    <3>1. /\ UNCHANGED AllButProc
          /\ \/ Ok /\ proc' = p /\ UNCHANGED failed
             \/ Fault("SetCapabilities") /\ UNCHANGED proc
      BY <1>6, <2>2, <2>3 DEF SetCapabilities
    <3>2. QED
      BY <2>1, <3>1 DEF SetsProc, Fault, AllButProc
  <2>5. BaseCaps \in SUBSET {"all", "dac_override", "kill", "fowner"}
    BY DEF BaseCaps
  <2>6. p \in ProcType /\ p.uid = proc.uid
    BY <1>1, <2>2, <2>5 DEF ProcType
  <2>7. proc' = p => Effect("SetCapabilities")' /\ \A t : Effect(t) => Effect(t)'
    BY <1>1, <2>2, <2>4, OfTheRequest DEF ProcType, Effect, Dupped
  <2>8. QED
    BY <2>4, <2>6, <2>7, ProcSteps
<1>7. QED
  BY <1>3, <1>4, <1>5, <1>6

\* An ignored failure of the sandbox counts as entered.
LEMMA SandboxStep ==
  ASSUME BasicInv, SetAppSandboxProperty
  PROVE  \E s : TakesStep(s)
<1>1. proc \in ProcType
  BY DEF BasicInv
<1>2. At("SetAppSandboxProperty")
  BY DEF SetAppSandboxProperty
<1>3. Root
  BY <1>2, RootWhenNeeded
<1>4. CASE Ok /\ failed' = failed /\ proc' = [proc EXCEPT !.root = "sandbox"]
  <2>1. PICK p : p = [proc EXCEPT !.root = "sandbox"]
    OBVIOUS
  <2>2. p \in ProcType /\ p.uid = proc.uid /\ p.caps = proc.caps
    BY <1>1, <2>1 DEF ProcType
  <2>3. SetsProc("SetAppSandboxProperty", p) /\ req' = req /\ fdEnv' = fdEnv
    BY <1>2, <1>4, <2>1 DEF SetAppSandboxProperty, SetsProc, AllButProc
  <2>4. proc' = p => Effect("SetAppSandboxProperty")' /\ \A t : Effect(t) => Effect(t)'
    BY <1>1, <2>1, <2>3, OfTheRequest DEF ProcType, Effect, Dupped
  <2>5. QED
    BY <2>2, <2>3, <2>4, ProcSteps
<1>5. CASE Ok /\ failed' = failed /\ proc' = proc /\ (Has("no_sandbox") \/ Has("ignore_sandbox"))
  <2>1. Effect("SetAppSandboxProperty")
    BY <1>5 DEF Effect
  <2>2. UNCHANGED <<req, image, stage, after, fdMap, told, pipe, proc, fdEnv, life>>
    BY <1>5 DEF SetAppSandboxProperty, AllButProc
  <2>3. QED
    BY <1>2, <1>5, <2>1, <2>2, OtherSteps
<1>6. CASE Err /\ failed' = TRUE /\ proc' = proc
  <2>1. SetsProc("SetAppSandboxProperty", proc)
    BY <1>2, <1>6 DEF SetAppSandboxProperty, SetsProc, AllButProc
  <2>2. PICK p : p = [proc EXCEPT !.root = "sandbox"]
    OBVIOUS
  <2>3. p \in ProcType /\ p.uid = proc.uid /\ p.caps = proc.caps
    BY <1>1, <2>2 DEF ProcType
  <2>4. SetsProc("SetAppSandboxProperty", p) /\ req' = req /\ fdEnv' = fdEnv
    BY <1>2, <1>6 DEF SetAppSandboxProperty, SetsProc, AllButProc
  <2>5. proc' = p => Effect("SetAppSandboxProperty")' /\ \A t : Effect(t) => Effect(t)'
    BY <1>1, <2>2, <2>4, OfTheRequest DEF ProcType, Effect, Dupped
  <2>6. QED
    BY <2>3, <2>4, <2>5, ProcSteps
<1>7. QED
  BY <1>3, <1>4, <1>5, <1>6 DEF SetAppSandboxProperty, Fault

\* The descriptors of the request go into the environment.
LEMMA FdEnvStep ==
  ASSUME BasicInv, SetFdEnv
  PROVE  \E s : TakesStep(s)
<1>1. /\ At("SetFdEnv") /\ proc \in ProcType /\ failed \in BOOLEAN
      /\ UNCHANGED <<req, image, stage, after, fdMap, told, pipe, proc, life>>
  BY DEF SetFdEnv, BasicInv
<1>2. req.fds = <<>> => SentFds = <<>>
  <2>1. req.tlvs \in Nat
    BY RequestsAssumption DEF BasicInv
  <2>2. QED
    BY <2>1 DEF SentFds
<1>3. (fdEnv' = fdEnv \/ fdEnv' = SentFds) /\ SentFds' = SentFds
  BY <1>1, OfTheRequest DEF SetFdEnv
<1>4. \A t : Effect(t) => Effect(t)'
  BY <1>1, <1>3, OfTheRequest DEF Effect, Dupped
<1>5. \/ Ok /\ failed' = failed /\ (req.prefork \/ req.fds = <<>>) /\ fdEnv' = fdEnv
      \/ Ok /\ failed' = failed /\ fdEnv' = SentFds
      \/ Err /\ failed' = TRUE
  BY DEF SetFdEnv
<1>6. Ok /\ failed' = failed => Effect("SetFdEnv")' \/ (Err /\ failed' = TRUE)
  <2>1. req.fds = <<>> => fdEnv = SentFds
    BY <1>2 DEF BasicInv
  <2>2. QED
    BY <1>1, <1>3, <1>5, <2>1 DEF Effect
<1>7. QED
  BY <1>1, <1>3, <1>4, <1>5, <1>6 DEF TakesStep

\* The renderer's descriptors are there when the hook needs them.
LEMMA DupStep ==
  ASSUME BasicInv, DupNwebRenderFdsBeforeRunHook
  PROVE  /\ \E s : TakesStep(s)
         /\ ret' = "err" => Mode({"nweb"})
<1>1. At("DupNwebRenderFdsBeforeRunHook") /\ proc \in ProcType /\ failed \in BOOLEAN
  BY DEF DupNwebRenderFdsBeforeRunHook, BasicInv
<1>2. UNCHANGED <<req, image, stage, after, fdMap, told, pipe, fdEnv, life>>
  BY DEF DupNwebRenderFdsBeforeRunHook, AllButProc
<1>3. stage = "PRE_RELY" /\ ret = "ok"
  <2>1. Shape
    BY DEF BasicInv
  <2>2. QED
    BY <1>1, <2>1, Where, Steps, Table, SMTT(30)
<1>4. Mode({"nweb"}) => fdEnv = SentFds /\ ~req.prefork
  <2>1. Effect("SetFdEnv")
    BY <1>3 DEF BasicInv, Booted
  <2>2. Mode({"nweb"}) => ~req.prefork
    BY RequestsAssumption DEF Mode, BasicInv
  <2>3. QED
    BY <2>1, <2>2 DEF Effect
<1>5. req.fds = <<>> => ~(Len(SentFds) >= 3)
  <2>1. req.tlvs \in Nat
    BY RequestsAssumption DEF BasicInv
  <2>2. QED
    BY <2>1 DEF SentFds
<1>6. PICK p : p = [proc EXCEPT !.ipc = "dup"]
  OBVIOUS
<1>7. \/ Ok /\ failed' = failed /\ proc' = proc /\ Dupped
      \/ Ok /\ failed' = failed /\ proc' = p
      \/ Err /\ failed' = TRUE /\ proc' = proc /\ Mode({"nweb"})
  <2>1. Len(SentFds) < 3 => ~(Len(SentFds) >= 3)
    <3>1. Len(SentFds) \in Nat
      <4>1. req.fds \in Seq(Nat) /\ req.tlvs \in Nat
        BY RequestsAssumption DEF BasicInv
      <4>2. SentFds \in Seq(Nat)
        BY <4>1 DEF SentFds
      <4>3. QED
        BY <4>2
    <3>2. QED
      BY <3>1
  <2>2. QED
    BY <1>4, <1>5, <1>6, <2>1 DEF DupNwebRenderFdsBeforeRunHook, Fault, Dupped
<1>8. CASE Ok /\ failed' = failed /\ proc' = proc /\ Dupped
  <2>1. Effect("DupNwebRenderFdsBeforeRunHook")
    BY <1>8 DEF Effect
  <2>2. QED
    BY <1>1, <1>2, <1>3, <1>8, <2>1, OtherSteps DEF Ok
<1>9. CASE (Ok /\ failed' = failed /\ proc' = p) \/ (Err /\ failed' = TRUE /\ proc' = proc /\ Mode({"nweb"}))
  <2>1. p \in ProcType /\ p.uid = proc.uid /\ p.caps = proc.caps
    BY <1>1, <1>6 DEF ProcType
  <2>2. SetsProc("DupNwebRenderFdsBeforeRunHook", p)
    BY <1>1, <1>9 DEF DupNwebRenderFdsBeforeRunHook, SetsProc, AllButProc
  <2>3. proc' = p => Effect("DupNwebRenderFdsBeforeRunHook")' /\ \A t : Effect(t) => Effect(t)'
    BY <1>1, <1>2, <1>6, OfTheRequest DEF ProcType, Effect, Dupped
  <2>4. \E s : TakesStep(s)
    BY <2>1, <2>2, <2>3, ProcSteps
  <2>5. QED
    BY <1>3, <1>9, <2>4 DEF Ok
<1>10. QED
  BY <1>7, <1>8, <1>9

\* Every step of a hook.
StepActions ==
  \/ SetProcessName \/ SetAppAccessToken \/ SpawnSetPreInstalledFlag \/ SetEnvInfo
  \/ SpawnSetIsolateDir \/ SpawnSetCustomSandboxEnv \/ SetFdEnv
  \/ AsanSpawnInitSpawningEnv \/ SetDfxPreloadEnableEnv
  \/ SetInternetPermission \/ BuildEncaps \/ WriteEncaps
  \/ SetAppSandboxProperty \/ MarkSandboxMounts
  \/ LoadSilk \/ SetKeepCapabilities \/ SetXpmConfig \/ SetSchedPriority
  \/ SetGroups \/ SetGid \/ SetSeccompFilter \/ SetUid
  \/ SetFileDescriptors \/ SetCapabilities \/ SetSelinuxCon
  \/ WaitForDebugger \/ DebuggerAttaches
  \/ DupNwebRenderFdsBeforeRunHook \/ SpawnComplete
  \/ RecordStartTime \/ RunBegetctlBootApp \/ AppSpawnClearEnv

LEMMA StepTaken ==
  ASSUME BasicInv, StepActions
  PROVE  \E s : TakesStep(s)
  BY NeutralSteps, AttributeSteps, PrivilegedSteps, SandboxStep, FdEnvStep, DupStep DEF StepActions

\* Which steps of which stage.
LEMMA ExecuteSteps ==
  ASSUME Shape, NEW s \in {"SetUid", "SetCapabilities"}, At(s)
  PROVE  /\ stage = "EXECUTE" /\ hook = 4 /\ ret = "ok" /\ hook # NoHook
         /\ s = "SetUid" => pc = 9
         /\ s = "SetCapabilities" => pc = 11
<1>1. /\ hook \in Places /\ pc \in 1..Len(StepsAt(hook)) /\ ret = "ok" /\ hook # NoHook
      /\ StepsAt(hook)[pc] = s /\ stage = HookTable[hook].stage
  BY Where
<1>2. QED
  BY <1>1, Steps, Table

LEMMA StepBasic ==
  ASSUME BasicInv, NEW s, TakesStep(s)
  PROVE  BasicInv'
<1>1. /\ Shape /\ req \in Requests /\ EffectInv /\ RootInv /\ At(s)
      /\ UNCHANGED <<req, image, stage>> /\ proc' \in ProcType /\ failed' \in BOOLEAN
  BY DEF BasicInv, TakesStep
<1>2. hook # NoHook /\ hook \in Hooks(stage) /\ ret = "ok" /\ StepsAt(hook)[pc] = s
  BY <1>1, Where
<1>3. fdEnv' = <<>> \/ fdEnv' = SentFds'
  BY <1>1, OfTheRequest DEF BasicInv, TakesStep
<1>4. \A t : Effect(t) => Effect(t)' \/ (s = "SetUid" /\ t = "SetCapabilities")
  BY DEF TakesStep
<1>5. stage \in {"cold", "map", "EXECUTE", "PRE_RELY", "POST_RELY", "run"} => Booted'
  BY <1>4 DEF BasicInv, Booted
<1>6. ~RunsBefore(4, 4)
  BY Table DEF RunsBefore
<1>7. CASE Ok /\ Effect(s)'
  <2>1. /\ Shape' /\ ret' = "ok"
        /\ \A i \in Hooks(stage) : \A n \in 1..Len(StepsAt(i)) :
             Executed(i, n)' <=> Executed(i, n) \/ (i = hook /\ n = pc)
    BY <1>1, <1>2, <1>7, OkExecutes
  <2>2. ASSUME stage # "PRE_RUN", NEW i \in Hooks(stage), NEW n \in 1..Len(StepsAt(i)), Executed(i, n)'
        PROVE  Effect(StepsAt(i)[n])'
    <3>1. CASE i = hook /\ n = pc
      BY <1>2, <1>7, <3>1
    <3>2. CASE Executed(i, n)
      <4>1. PICK t : t = StepsAt(i)[n]
        OBVIOUS
      <4>2. Effect(t)
        BY <1>1, <1>2, <2>2, <3>2, <4>1 DEF EffectInv
      <4>3. ~(s = "SetUid" /\ t = "SetCapabilities")
        <5> SUFFICES ASSUME s = "SetUid", t = "SetCapabilities" PROVE FALSE
          OBVIOUS
        <5>1. hook = 4 /\ pc = 9
          BY <1>1, ExecuteSteps
        <5>2. i = 4 /\ n = 11
          BY <4>1, HookPlaces, Steps
        <5>3. QED
          BY <1>2, <1>6, <3>2, <5>1, <5>2 DEF Executed
      <4>4. Effect(t)'
        BY <1>4, <4>2, <4>3
      <4>5. QED
        BY <4>1, <4>4
    <3>3. QED
      BY <2>1, <2>2, <3>1, <3>2
  <2>3. EffectInv'
    BY <1>1, <2>2 DEF EffectInv
  <2>4. RootInv'
    <3>1. CASE stage # "EXECUTE"
      <4>1. s # "SetUid" /\ s # "SetCapabilities"
        BY <1>1, <3>1, ExecuteSteps
      <4>2. proc'.uid = proc.uid /\ proc'.caps = proc.caps
        BY <4>1 DEF TakesStep
      <4>3. QED
        BY <1>1, <3>1, <4>2 DEF RootInv
    <3>2. CASE stage = "EXECUTE"
      <4>1. 4 \in Hooks(stage) /\ Len(StepsAt(4)) = 13
        BY <3>2, Table, StepsOfHooks, PropertyOrder DEF Hooks, Places
      <4>2. /\ Executed(4, 9)' <=> Executed(4, 9) \/ (hook = 4 /\ pc = 9)
            /\ Executed(4, 11)' <=> Executed(4, 11) \/ (hook = 4 /\ pc = 11)
        <5>1. 9 \in 1..Len(StepsAt(4)) /\ 11 \in 1..Len(StepsAt(4))
          <6>1. PICK l : l = Len(StepsAt(4)) /\ l = 13
            BY <4>1
          <6>2. 9 \in 1..l /\ 11 \in 1..l
            BY <6>1
          <6>3. QED
            BY <6>1, <6>2, Zenon
        <5>2. /\ Executed(4, 9)' <=> Executed(4, 9) \/ (4 = hook /\ 9 = pc)
              /\ Executed(4, 11)' <=> Executed(4, 11) \/ (4 = hook /\ 11 = pc)
          BY <2>1, <4>1, <5>1, Zenon
        <5>3. QED
          BY <5>2
      <4>3. s = "SetUid" => hook = 4 /\ pc = 9
        BY <1>1, ExecuteSteps
      <4>4. s = "SetCapabilities" => hook = 4 /\ pc = 11 /\ Executed(4, 9)
        BY <1>1, ExecuteSteps DEF Executed
      <4>5. /\ proc'.uid # proc.uid => s = "SetUid"
            /\ proc'.caps # proc.caps => s = "SetCapabilities" \/ (s = "SetUid" /\ proc'.caps = {"all"})
        BY DEF TakesStep
      <4>6. ~Executed(4, 9)' => proc'.uid = "root" /\ proc'.caps = {"all"}
        BY <1>1, <1>2, <3>2, <4>2, <4>3, <4>4, <4>5 DEF RootInv
      <4>7. ~Executed(4, 11)' => proc'.caps = {"all"}
        BY <1>1, <1>2, <3>2, <4>2, <4>4, <4>5 DEF RootInv
      <4>8. QED
        BY <1>1, <3>2, <4>6, <4>7 DEF RootInv
    <3>3. QED
      BY <3>1, <3>2
  <2>5. QED
    BY <1>1, <1>3, <1>5, <2>1, <2>3, <2>4 DEF BasicInv
<1>8. CASE Err
  <2>1. Shape' /\ ((stage = "PRE_RUN" /\ ret' = "ok") \/ (ret' = "err" /\ hook' = NoHook))
    BY <1>1, <1>2, <1>8, ErrEnds
  <2>2. EffectInv'
    BY <1>1, <2>1 DEF EffectInv
  <2>3. RootInv'
    <3>1. stage \in {"PRE_COLDBOOT", "cold", "map"} => proc'.uid = "root" /\ proc'.caps = {"all"}
      <4> SUFFICES ASSUME stage \in {"PRE_COLDBOOT", "cold", "map"}
                   PROVE  proc'.uid = "root" /\ proc'.caps = {"all"}
        OBVIOUS
      <4>1. s # "SetUid" /\ s # "SetCapabilities"
        BY <1>1, ExecuteSteps
      <4>2. proc'.uid = proc.uid /\ proc'.caps = proc.caps
        BY <4>1 DEF TakesStep
      <4>3. QED
        BY <1>1, <4>2 DEF RootInv
    <3>2. QED
      BY <1>1, <2>1, <3>1 DEF RootInv
  <2>4. QED
    BY <1>1, <1>3, <1>5, <2>1, <2>2, <2>3 DEF BasicInv
<1>9. CASE UNCHANGED <<hook, pc, ret, proc, fdEnv>>
  <2>1. \A i, n : Executed(i, n)' <=> Executed(i, n)
    BY <1>9 DEF Executed, RunsBefore
  <2>2. \A t : Effect(t)' <=> Effect(t)
    BY <1>1, <1>9, Unaffected
  <2>3. Shape' /\ EffectInv' /\ RootInv'
    BY <1>1, <1>9, <2>1, <2>2 DEF Shape, EffectInv, RootInv
  <2>4. QED
    BY <1>1, <1>3, <1>5, <2>3 DEF BasicInv
<1>10. QED
  BY <1>7, <1>8, <1>9 DEF TakesStep

(***************************************************************************)
(* The stages in sequence.                                                 *)
(***************************************************************************)
Early == {"PRE_COLDBOOT", "cold", "map", "EXECUTE", "PRE_RELY"}
OnTheWay == stage = "PRE_RUN" /\ after # "exit"

Secured == Confined /\ Effect("SetSeccompFilter")
Answered == Dupped \/ told = <<"err">>
FdsGiven == req.type = "child" /\ ~Mode({"nweb"}) => fdMap = SentFds

SecureInv ==
  /\ stage \in {"PRE_RELY", "POST_RELY", "run"} => Secured
  /\ stage \in {"POST_RELY", "run"} => Answered
  /\ OnTheWay => Secured /\ proc.seccomp # "none" /\ Answered /\ FdsGiven
  /\ told = <<"ok">> => Confined

\* The pipe is open until the first answer, and that has been given when the
\* child ends.
ToldInv ==
  /\ pipe \in BOOLEAN /\ told \in {<<>>, <<"ok">>, <<"err">>} /\ (pipe <=> told = <<>>)
  /\ stage \in Early /\ life = "setup" => pipe
  /\ stage \in {"POST_RELY", "run"} /\ ~ToldByAdapter => ~pipe
  /\ stage = "PRE_RUN" => after \in {"exit", "answer", "execvp", "app"}
  /\ stage = "PRE_RUN" /\ after \in {"exit", "app"} => ~pipe
  /\ stage \in {"POST_RELY", "run"} \/ OnTheWay => told # <<"err">> \/ (image = "cold" /\ Mode({"nweb"}))
  /\ stage = "PRE_RELY" /\ ret = "err" => Mode({"nweb"})
  /\ life = "app" => OnTheWay /\ ~pipe
  /\ life = "exited" => ~pipe \/ stage = "cold"

\* A child gives up only because a step failed.
FailedInv ==
  /\ life \in {"setup", "app", "shell", "exited"}
  /\ ret = "err" => failed
  /\ stage = "PRE_RUN" /\ after = "exit" => failed
  /\ life = "exited" => failed \/ (Mode({"native"}) /\ req.type # "child")

ChildInv == BasicInv /\ SecureInv /\ ToldInv /\ FailedInv

\* Confinement is what nine steps achieve.
LEMMA ConfinedIs ==
  Confined <=> /\ Effect("SetProcessName") /\ Effect("SetAppAccessToken") /\ Effect("SetGroups")
               /\ Effect("SetGid") /\ Effect("SetUid") /\ Effect("SetCapabilities")
               /\ Effect("SetSelinuxCon") /\ Effect("SetAppSandboxProperty") /\ Effect("SetFileDescriptors")
  BY DEF Confined, Effect

LEMMA ChildInit == Init => ChildInv
<1> SUFFICES ASSUME Init PROVE ChildInv
  OBVIOUS
<1>1. PICK m \in Hooks("PRE_COLDBOOT") : IsFirst(m, Hooks("PRE_COLDBOOT")) /\ hook = m
  BY DEF Init
<1>2. stage = "PRE_COLDBOOT" /\ pc = 1 /\ ret = "ok"
  BY DEF Init
<1>3. m \in Places /\ m # NoHook /\ Len(StepsAt(m)) \in Nat \ {0}
  BY HookPlaces, Steps
<1>4. Shape
  BY <1>1, <1>2, <1>3 DEF Shape, AllStages
<1>5. ASSUME NEW i \in Hooks("PRE_COLDBOOT"), NEW n \in 1..Len(StepsAt(i))
      PROVE  ~Executed(i, n)
  <2>1. ~(n < 1)
    BY HookPlaces, Steps
  <2>2. ~RunsBefore(i, m)
    BY <1>1, <1>3, HookPlaces, Order DEF IsFirst
  <2>3. QED
    BY <1>1, <1>2, <1>3, <2>1, <2>2 DEF Executed
<1>6. EffectInv
  BY <1>2, <1>5 DEF EffectInv
<1>7. proc \in ProcType /\ proc.uid = "root" /\ proc.caps = {"all"}
  BY DEF Init, ProcType, Policies
<1>8. RootInv
  BY <1>2, <1>7 DEF RootInv
<1>9. BasicInv
  BY <1>2, <1>4, <1>6, <1>7, <1>8 DEF Init, BasicInv
<1>10. SecureInv /\ ToldInv /\ FailedInv
  BY <1>2 DEF Init, SecureInv, ToldInv, FailedInv, Early, OnTheWay
<1>11. QED
  BY <1>9, <1>10 DEF ChildInv

LEMMA PreRelyHook == \A i \in Places : HookTable[i].stage = "PRE_RELY" => i = 16
  BY DEF HookTable, Places, Reg

\* No other action takes the step of that name.
LEMMA OnlyDup ==
  ASSUME StepActions, At("DupNwebRenderFdsBeforeRunHook")
  PROVE  DupNwebRenderFdsBeforeRunHook
<1>1. ASSUME NEW x, At(x)
      PROVE  x = "DupNwebRenderFdsBeforeRunHook"
  BY <1>1 DEF At
<1>2. CASE \/ SetProcessName \/ SetAppAccessToken \/ SetFdEnv \/ AsanSpawnInitSpawningEnv
           \/ SetDfxPreloadEnableEnv \/ BuildEncaps \/ WriteEncaps \/ SetAppSandboxProperty
           \/ SetKeepCapabilities \/ SetXpmConfig \/ SetSeccompFilter \/ SetFileDescriptors
           \/ SetCapabilities \/ SetSelinuxCon \/ WaitForDebugger \/ DebuggerAttaches
           \/ RunBegetctlBootApp \/ AppSpawnClearEnv
  BY <1>1, <1>2 DEF SetProcessName, SetAppAccessToken, SetFdEnv, AsanSpawnInitSpawningEnv,
     SetDfxPreloadEnableEnv, BuildEncaps, WriteEncaps, SetAppSandboxProperty, SetKeepCapabilities,
     SetXpmConfig, SetSeccompFilter, SetFileDescriptors, SetCapabilities, SetSelinuxCon,
     WaitForDebugger, DebuggerAttaches, RunBegetctlBootApp, AppSpawnClearEnv
<1>3. CASE SetGroups \/ SetGid \/ SetUid
  BY <1>1, <1>3 DEF SetGroups, SetGid, SetUid, AsRoot
<1>4. CASE \/ SpawnSetPreInstalledFlag \/ SetEnvInfo \/ SpawnSetIsolateDir \/ SpawnSetCustomSandboxEnv
           \/ SetInternetPermission \/ MarkSandboxMounts \/ LoadSilk \/ SetSchedPriority
           \/ SpawnComplete \/ RecordStartTime
  BY <1>1, <1>4 DEF SpawnSetPreInstalledFlag, SetEnvInfo, SpawnSetIsolateDir, SpawnSetCustomSandboxEnv,
     SetInternetPermission, MarkSandboxMounts, LoadSilk, SetSchedPriority, SpawnComplete,
     RecordStartTime, Logged, Plain
<1>5. QED
  BY <1>2, <1>3, <1>4 DEF StepActions

\* A step of a hook.
LEMMA StepChild ==
  ASSUME ChildInv, StepActions
  PROVE  ChildInv'
<1>1. BasicInv
  BY DEF ChildInv
<1>2. PICK s : TakesStep(s)
  BY <1>1, StepTaken
<1>3. BasicInv'
  BY <1>1, <1>2, StepBasic
<1>4. /\ At(s) /\ life = "setup" /\ UNCHANGED <<req, image, stage, after, fdMap, told, pipe>>
      /\ \A t : Effect(t) => Effect(t)' \/ (s = "SetUid" /\ t = "SetCapabilities")
      /\ (Err /\ failed' = TRUE) \/ ret' = ret
      /\ life' = "setup" \/ life' = "shell"
      /\ failed => failed'
  BY <1>2 DEF TakesStep, At, Ok
<1>5. /\ OnTheWay' <=> OnTheWay
      /\ \A m : Mode(m)' <=> Mode(m)
      /\ ToldByAdapter' <=> ToldByAdapter
      /\ SentFds' = SentFds
  BY <1>4, OfTheRequest DEF OnTheWay, ToldByAdapter
<1>6. stage # "EXECUTE" => s # "SetUid"
  BY <1>1, <1>4, ExecuteSteps DEF BasicInv
<1>7. stage # "EXECUTE" => /\ Confined => Confined'
                           /\ Effect("SetSeccompFilter") => Effect("SetSeccompFilter")'
                           /\ proc.seccomp # "none" => proc'.seccomp # "none"
                           /\ Dupped => Dupped'
  <2>1. /\ Effect("AnyFilter") <=> proc.seccomp # "none"
        /\ Effect("DupNwebRenderFdsBeforeRunHook") <=> Dupped
    BY DEF Effect
  <2>2. /\ Effect("AnyFilter")' <=> proc'.seccomp # "none"
        /\ Effect("DupNwebRenderFdsBeforeRunHook")' <=> Dupped'
    BY DEF Effect
  <2>3. Confined' <=> /\ Effect("SetProcessName")' /\ Effect("SetAppAccessToken")' /\ Effect("SetGroups")'
               /\ Effect("SetGid")' /\ Effect("SetUid")' /\ Effect("SetCapabilities")'
               /\ Effect("SetSelinuxCon")' /\ Effect("SetAppSandboxProperty")' /\ Effect("SetFileDescriptors")'
    BY DEF Confined, Effect
  <2>4. QED
    BY <1>4, <1>6, <2>1, <2>2, <2>3, ConfinedIs
<1>8. told = <<"ok">> => stage \notin Early
  BY <1>4 DEF ChildInv, ToldInv
<1>9. SecureInv'
  <2>1. told = <<"ok">> => stage # "EXECUTE"
    BY <1>8 DEF Early
  <2>2. SecureInv
    BY DEF ChildInv
  <2>3. stage # "EXECUTE" => (Secured => Secured') /\ (Answered => Answered')
    BY <1>4, <1>7 DEF Secured, Answered
  <2>4. FdsGiven' <=> FdsGiven
    BY <1>4, <1>5 DEF FdsGiven
  <2>5. OnTheWay => stage # "EXECUTE"
    BY DEF OnTheWay
  <2>6. QED
    BY <1>4, <1>5, <1>7, <2>1, <2>2, <2>3, <2>4, <2>5 DEF SecureInv
<1>10. stage = "PRE_RELY" /\ ret' = "err" => Mode({"nweb"})
  <2> SUFFICES ASSUME stage = "PRE_RELY", ret' = "err" PROVE Mode({"nweb"})
    OBVIOUS
  <2>1. CASE ret = "err"
    BY <2>1 DEF ChildInv, ToldInv
  <2>2. CASE ret # "err"
    <3>1. hook \in Places /\ HookTable[hook].stage = "PRE_RELY" /\ pc \in 1..Len(StepsAt(hook))
          /\ StepsAt(hook)[pc] = s
      BY <1>1, <1>4, Where DEF BasicInv
    <3>2. hook = 16
      BY <3>1, PreRelyHook
    <3>3. s = "DupNwebRenderFdsBeforeRunHook"
      BY <3>1, <3>2, StepsOfHooks
    <3>4. DupNwebRenderFdsBeforeRunHook
      BY <1>4, <3>3, OnlyDup
    <3>5. QED
      BY <1>1, <3>4, DupStep
  <2>3. QED
    BY <2>1, <2>2
<1>11. ToldInv'
  BY <1>4, <1>5, <1>10 DEF ChildInv, ToldInv
<1>12. FailedInv'
  BY <1>4, <1>5 DEF ChildInv, FailedInv
<1>13. QED
  BY <1>3, <1>9, <1>11, <1>12 DEF ChildInv

\* A stage that ended well has achieved what its steps are for.
LEMMA StageEnds ==
  ASSUME BasicInv, hook = NoHook, ret = "ok"
  PROVE  /\ stage = "PRE_COLDBOOT" => Booted
         /\ stage = "EXECUTE" => Secured
         /\ stage = "PRE_RELY" => Dupped
<1>1. EffectInv
  BY DEF BasicInv
<1>2. stage # "PRE_RUN" => \A i \in Hooks(stage) : \A n \in 1..Len(StepsAt(i)) : Effect(StepsAt(i)[n])
  BY <1>1 DEF EffectInv, Executed
<1>3. ASSUME stage = "PRE_COLDBOOT" PROVE Booted
  <2>1. 1 \in Hooks(stage) /\ 6 \in Hooks(stage)
    BY <1>3, Table DEF Hooks, Places
  <2>2. /\ \A n \in 1..Len(StepsAt(1)) : Effect(StepsAt(1)[n])
        /\ \A n \in 1..Len(StepsAt(6)) : Effect(StepsAt(6)[n])
    BY <1>2, <1>3, <2>1
  <2>3. /\ 1 \in 1..Len(StepsAt(1)) /\ 2 \in 1..Len(StepsAt(1)) /\ 1 \in 1..Len(StepsAt(6))
        /\ StepsAt(1)[1] = "SetProcessName" /\ StepsAt(1)[2] = "SetAppAccessToken"
        /\ StepsAt(6)[1] = "SetFdEnv"
    BY StepsOfHooks
  <2>4. QED
    BY <2>2, <2>3, Zenon DEF Booted
<1>4. ASSUME stage = "EXECUTE" PROVE Secured
  <2>1. 4 \in Hooks(stage) /\ 14 \in Hooks(stage)
    BY <1>4, Table DEF Hooks, Places
  <2>2. /\ \A n \in 1..Len(StepsAt(4)) : Effect(StepsAt(4)[n])
        /\ \A n \in 1..Len(StepsAt(14)) : Effect(StepsAt(14)[n])
    BY <1>2, <1>4, <2>1
  <2>3. 1 \in 1..Len(StepsAt(14)) /\ StepsAt(14)[1] = "SetAppSandboxProperty"
    BY StepsOfHooks
  <2>4. \A n \in 1..13 : Effect(PropertySteps[n])
    <3>1. StepsAt(4) = PropertySteps /\ Len(PropertySteps) = 13
      BY StepsOfHooks, PropertyOrder
    <3>2. QED
      BY <2>2, <3>1, Zenon
  <2>5. /\ Effect("SetGroups") /\ Effect("SetGid") /\ Effect("SetSeccompFilter") /\ Effect("SetUid")
        /\ Effect("SetFileDescriptors") /\ Effect("SetCapabilities") /\ Effect("SetSelinuxCon")
    <3>1. {6, 7, 8, 9, 10, 11, 12} \subseteq 1..13
      OBVIOUS
    <3>2. \A n \in {6, 7, 8, 9, 10, 11, 12} : Effect(PropertySteps[n])
      BY <2>4, <3>1, Zenon
    <3>3. QED
      BY <3>2, PropertyOrder
  <2>6. Effect("SetAppSandboxProperty")
    BY <2>2, <2>3, Zenon
  <2>7. Effect("SetProcessName") /\ Effect("SetAppAccessToken")
    BY <1>4 DEF BasicInv, Booted
  <2>8. QED
    BY <2>5, <2>6, <2>7, ConfinedIs DEF Secured
<1>5. ASSUME stage = "PRE_RELY" PROVE Dupped
  <2>1. 16 \in Hooks(stage)
    BY <1>5, Table DEF Hooks, Places
  <2>2. \A n \in 1..Len(StepsAt(16)) : Effect(StepsAt(16)[n])
    BY <1>2, <1>5, <2>1
  <2>3. 1 \in 1..Len(StepsAt(16)) /\ StepsAt(16)[1] = "DupNwebRenderFdsBeforeRunHook"
    BY StepsOfHooks
  <2>4. Effect("DupNwebRenderFdsBeforeRunHook")
    BY <2>2, <2>3, Zenon
  <2>5. QED
    BY <2>4 DEF Effect
<1>6. QED
  BY <1>3, <1>4, <1>5

\* A stage is entered.
LEMMA BasicEnters ==
  ASSUME BasicInv, NEW st \in AllStages, Enter(st), UNCHANGED <<req, fdEnv>>, image' \in {"fork", "cold"},
         failed' \in BOOLEAN, proc' \in ProcType,
         st # "PRE_RUN" => UNCHANGED proc,
         st \in {"cold", "map", "EXECUTE", "PRE_RELY", "POST_RELY", "run"} => Booted,
         st \in {"PRE_COLDBOOT", "cold", "map", "EXECUTE"} => proc.uid = "root" /\ proc.caps = {"all"}
  PROVE  BasicInv' /\ stage' = st /\ ret' = "ok"
<1>1. /\ Shape' /\ stage' = st /\ ret' = "ok"
      /\ \A i \in Hooks(st) : \A n \in 1..Len(StepsAt(i)) : ~Executed(i, n)'
  BY EnterStarts
<1>2. EffectInv'
  BY <1>1 DEF EffectInv
<1>3. RootInv'
  BY <1>1 DEF RootInv
<1>4. st # "PRE_RUN" => \A t : Effect(t)' <=> Effect(t)
  BY Unaffected
<1>5. st \in {"cold", "map", "EXECUTE", "PRE_RELY", "POST_RELY", "run"} => Booted'
  BY <1>4 DEF Booted
<1>6. SentFds' = SentFds
  BY OfTheRequest
<1>7. QED
  BY <1>1, <1>2, <1>3, <1>5, <1>6 DEF BasicInv

\* The stage stays what it is.
LEMMA BasicStays ==
  ASSUME BasicInv, UNCHANGED <<req, image, stage, hook, pc, ret, proc, fdEnv>>, failed' \in BOOLEAN
  PROVE  BasicInv'
<1>1. \A i, n : Executed(i, n)' <=> Executed(i, n)
  BY DEF Executed, RunsBefore
<1>2. \A t : Effect(t)' <=> Effect(t)
  BY Unaffected
<1>3. Shape' /\ EffectInv' /\ RootInv' /\ (Booted => Booted')
  BY <1>1, <1>2 DEF BasicInv, Shape, EffectInv, RootInv, Booted
<1>4. SentFds' = SentFds
  BY OfTheRequest
<1>5. QED
  BY <1>3, <1>4 DEF BasicInv

\* What the process and the request decide is kept with them.
LEMMA SecureStays ==
  ASSUME UNCHANGED <<req, proc, fdEnv>>
  PROVE  /\ Confined' <=> Confined
         /\ Secured' <=> Secured
         /\ Dupped' <=> Dupped
         /\ \A m : Mode(m)' <=> Mode(m)
         /\ SentFds' = SentFds
<1>1. Confined' <=> Confined
  BY OfTheRequest DEF Confined
<1>2. Effect("SetSeccompFilter")' <=> Effect("SetSeccompFilter")
  BY Unaffected
<1>3. Dupped' <=> Dupped
  BY OfTheRequest DEF Dupped
<1>4. QED
  BY <1>1, <1>2, <1>3, OfTheRequest DEF Secured

\* An answer closes the pipe.
LEMMA NotifyOnce ==
  ASSUME ToldInv, NEW r \in {"ok", "err"}, Notify(r)
  PROVE  /\ pipe' = FALSE /\ told' \in {<<"ok">>, <<"err">>}
         /\ pipe => told' = <<r>>
         /\ ~pipe => told' = told
<1>1. pipe \in BOOLEAN /\ told \in {<<>>, <<"ok">>, <<"err">>} /\ (pipe <=> told = <<>>)
  BY DEF ToldInv
<1>2. CASE pipe
  BY <1>1, <1>2 DEF Notify
<1>3. CASE ~pipe
  BY <1>1, <1>3 DEF Notify
<1>4. QED
  BY <1>2, <1>3

\* A stage failed.
LEMMA GivesUp ==
  ASSUME ChildInv, life = "setup", stage \in Early, ret = "err", GiveUp
  PROVE  ChildInv'
<1>1. BasicInv /\ SecureInv /\ ToldInv /\ FailedInv
  BY DEF ChildInv
<1>2. pipe
  BY <1>1 DEF ToldInv
<1>3. /\ Enter("PRE_RUN") /\ after' = "exit" /\ Notify("err")
      /\ UNCHANGED <<req, image, proc, cold, fdEnv, fdMap, encaps, ctx, failed, life>>
  BY DEF GiveUp, EnvClear
<1>4. pipe' = FALSE /\ told' = <<"err">>
  BY <1>1, <1>2, <1>3, NotifyOnce
<1>5. BasicInv' /\ stage' = "PRE_RUN" /\ ret' = "ok"
  <2>1. proc \in ProcType /\ failed \in BOOLEAN /\ image \in {"fork", "cold"}
    BY <1>1 DEF BasicInv
  <2>2. QED
    BY <1>1, <1>3, <2>1, BasicEnters DEF AllStages
<1>6. ~OnTheWay' /\ failed'
  BY <1>1, <1>3 DEF OnTheWay, FailedInv
<1>7. SecureInv'
  BY <1>4, <1>5, <1>6 DEF SecureInv
<1>8. ToldInv'
  BY <1>3, <1>4, <1>5, <1>6 DEF ToldInv, Early
<1>9. FailedInv'
  BY <1>3, <1>5, <1>6 DEF FailedInv
<1>10. QED
  BY <1>5, <1>7, <1>8, <1>9 DEF ChildInv

\* STAGE_CHILD_PRE_COLDBOOT ended.
LEMMA AfterPreColdBootKeeps ==
  ASSUME ChildInv, AfterPreColdBoot
  PROVE  ChildInv'
<1>1. /\ BasicInv /\ SecureInv /\ ToldInv /\ FailedInv
      /\ life = "setup" /\ stage = "PRE_COLDBOOT" /\ hook = NoHook
  BY DEF ChildInv, AfterPreColdBoot, StageDone
<1>2. CASE ret = "err" /\ GiveUp
  BY <1>1, <1>2, GivesUp DEF Early
<1>3. ASSUME ret = "ok", NEW st \in {"cold", "EXECUTE"}, Enter(st),
             UNCHANGED <<req, image, after, proc, cold, fdEnv, fdMap, encaps, ctx, told, pipe, failed, life>>
      PROVE  ChildInv'
  <2>1. Booted
    BY <1>1, <1>3, StageEnds
  <2>2. proc.uid = "root" /\ proc.caps = {"all"} /\ proc \in ProcType /\ failed \in BOOLEAN
        /\ image \in {"fork", "cold"}
    BY <1>1 DEF BasicInv, RootInv
  <2>3. BasicInv' /\ stage' = st /\ ret' = "ok"
    BY <1>1, <1>3, <2>1, <2>2, BasicEnters DEF AllStages
  <2>4. pipe /\ told = <<>>
    BY <1>1 DEF ToldInv, Early
  <2>5. SecureInv' /\ ToldInv' /\ FailedInv'
    BY <1>1, <1>3, <2>3, <2>4 DEF SecureInv, ToldInv, FailedInv, OnTheWay, Early
  <2>6. QED
    BY <2>3, <2>5 DEF ChildInv
<1>4. QED
  BY <1>2, <1>3 DEF AfterPreColdBoot

\* The cold start executes, is given up, or ends the child.
LEMMA ColdStartKeeps ==
  ASSUME ChildInv, AppSpawnColdStartApp
  PROVE  ChildInv'
<1>1. /\ BasicInv /\ SecureInv /\ ToldInv /\ FailedInv
      /\ life = "setup" /\ stage = "cold"
      /\ UNCHANGED <<req, after, proc, fdEnv, fdMap, encaps, ctx, told, pipe>>
  BY DEF ChildInv, AppSpawnColdStartApp
<1>2. /\ Booted /\ proc.uid = "root" /\ proc.caps = {"all"} /\ proc \in ProcType /\ failed \in BOOLEAN
      /\ image \in {"fork", "cold"}
  BY <1>1 DEF BasicInv, RootInv
<1>3. pipe /\ told = <<>>
  BY <1>1 DEF ToldInv, Early
<1>4. ASSUME NEW st \in {"map", "EXECUTE"}, Enter(st), image' \in {"fork", "cold"}, life' = life,
             failed' = TRUE \/ failed' = failed
      PROVE  ChildInv'
  <2>1. BasicInv' /\ stage' = st /\ ret' = "ok"
    BY <1>1, <1>2, <1>4, BasicEnters DEF AllStages
  <2>2. SecureInv' /\ ToldInv' /\ FailedInv'
    BY <1>1, <1>3, <1>4, <2>1 DEF SecureInv, ToldInv, FailedInv, OnTheWay, Early
  <2>3. QED
    BY <2>1, <2>2 DEF ChildInv
<1>5. CASE failed' = TRUE /\ life' = "exited" /\ UNCHANGED <<image, cold, stage, hook, pc, ret>>
  <2>1. BasicInv'
    BY <1>1, <1>5, BasicStays
  <2>2. SecureInv' /\ ToldInv' /\ FailedInv'
    BY <1>1, <1>3, <1>5 DEF SecureInv, ToldInv, FailedInv, OnTheWay, Early
  <2>3. QED
    BY <2>1, <2>2 DEF ChildInv
<1>6. QED
  BY <1>2, <1>4, <1>5 DEF AppSpawnColdStartApp

\* The new image reads the message, or answers and ends.
LEMMA ColdRunKeeps ==
  ASSUME ChildInv, ColdRunStart
  PROVE  ChildInv'
<1>1. /\ BasicInv /\ SecureInv /\ ToldInv /\ FailedInv
      /\ life = "setup" /\ stage = "map"
      /\ UNCHANGED <<req, image, after, proc, cold, fdEnv, fdMap, encaps, ctx>>
  BY DEF ChildInv, ColdRunStart
<1>2. /\ Booted /\ proc.uid = "root" /\ proc.caps = {"all"} /\ proc \in ProcType /\ failed \in BOOLEAN
      /\ image \in {"fork", "cold"}
  BY <1>1 DEF BasicInv, RootInv
<1>3. pipe /\ told = <<>>
  BY <1>1 DEF ToldInv, Early
<1>4. CASE Enter("EXECUTE") /\ UNCHANGED <<told, pipe, failed, life>>
  <2>1. BasicInv' /\ stage' = "EXECUTE" /\ ret' = "ok"
    BY <1>1, <1>2, <1>4, BasicEnters DEF AllStages
  <2>2. SecureInv' /\ ToldInv' /\ FailedInv'
    BY <1>1, <1>3, <1>4, <2>1 DEF SecureInv, ToldInv, FailedInv, OnTheWay, Early
  <2>3. QED
    BY <2>1, <2>2 DEF ChildInv
<1>5. CASE failed' = TRUE /\ Notify("err") /\ life' = "exited" /\ UNCHANGED <<stage, hook, pc, ret>>
  <2>1. BasicInv'
    BY <1>1, <1>5, BasicStays
  <2>2. pipe' = FALSE /\ told' = <<"err">>
    BY <1>1, <1>3, <1>5, NotifyOnce
  <2>3. SecureInv' /\ ToldInv' /\ FailedInv'
    BY <1>1, <1>5, <2>2 DEF SecureInv, ToldInv, FailedInv, OnTheWay, Early
  <2>4. QED
    BY <2>1, <2>3 DEF ChildInv
<1>6. QED
  BY <1>4, <1>5 DEF ColdRunStart

\* STAGE_CHILD_EXECUTE ended: the process is confined.
LEMMA AfterExecuteKeeps ==
  ASSUME ChildInv, AfterExecute
  PROVE  ChildInv'
<1>1. /\ BasicInv /\ SecureInv /\ ToldInv /\ FailedInv
      /\ life = "setup" /\ stage = "EXECUTE" /\ hook = NoHook
  BY DEF ChildInv, AfterExecute, StageDone
<1>2. CASE ret = "err" /\ GiveUp
  BY <1>1, <1>2, GivesUp DEF Early
<1>3. CASE /\ ret = "ok" /\ Enter("PRE_RELY")
           /\ UNCHANGED <<req, image, after, proc, cold, fdEnv, fdMap, encaps, ctx, told, pipe, failed, life>>
  <2>1. Secured
    BY <1>1, <1>3, StageEnds
  <2>2. /\ Booted /\ proc \in ProcType /\ failed \in BOOLEAN /\ image \in {"fork", "cold"}
    BY <1>1 DEF BasicInv
  <2>3. BasicInv' /\ stage' = "PRE_RELY" /\ ret' = "ok"
    BY <1>1, <1>3, <2>2, BasicEnters DEF AllStages
  <2>4. pipe /\ told = <<>>
    BY <1>1 DEF ToldInv, Early
  <2>5. Secured'
    BY <1>3, <2>1, SecureStays
  <2>6. SecureInv' /\ ToldInv' /\ FailedInv'
    BY <1>1, <1>3, <2>3, <2>4, <2>5 DEF SecureInv, ToldInv, FailedInv, OnTheWay, Early
  <2>7. QED
    BY <2>3, <2>6 DEF ChildInv
<1>4. QED
  BY <1>2, <1>3 DEF AfterExecute

\* STAGE_CHILD_PRE_RELY ended: the parent is told, or the adapter will tell it.
LEMMA AfterPreRelyKeeps ==
  ASSUME ChildInv, AfterPreRely
  PROVE  ChildInv'
<1>1. /\ BasicInv /\ SecureInv /\ ToldInv /\ FailedInv
      /\ life = "setup" /\ stage = "PRE_RELY" /\ hook = NoHook
  BY DEF ChildInv, AfterPreRely, StageDone
<1>2. CASE image = "fork" /\ ret = "err" /\ GiveUp
  BY <1>1, <1>2, GivesUp DEF Early
<1>3. CASE /\ image = "cold" \/ ret = "ok"
           /\ IF ToldByAdapter THEN UNCHANGED <<told, pipe>> ELSE Notify(ret)
           /\ Enter("POST_RELY")
           /\ UNCHANGED <<req, image, after, proc, cold, fdEnv, fdMap, encaps, ctx, failed, life>>
  <2>1. /\ Secured /\ Booted /\ proc \in ProcType /\ failed \in BOOLEAN /\ image \in {"fork", "cold"}
        /\ ret \in {"ok", "err"}
    BY <1>1 DEF BasicInv, SecureInv, Shape
  <2>2. BasicInv' /\ stage' = "POST_RELY" /\ ret' = "ok"
    BY <1>1, <1>3, <2>1, BasicEnters DEF AllStages
  <2>3. pipe /\ told = <<>>
    BY <1>1 DEF ToldInv, Early
  <2>4. ret = "ok" => Dupped
    BY <1>1, StageEnds
  <2>5. ret = "err" => image = "cold" /\ Mode({"nweb"}) /\ ~ToldByAdapter
    BY <1>1, <1>3 DEF ToldInv, ToldByAdapter
  <2>6. /\ ToldByAdapter => told' = <<>> /\ pipe' = TRUE /\ ret = "ok"
        /\ ~ToldByAdapter => told' = <<ret>> /\ pipe' = FALSE
    <3>1. pipe = TRUE
      BY <1>1, <2>3 DEF ToldInv
    <3>2. ToldByAdapter => told' = <<>> /\ pipe' = TRUE
      BY <1>3, <2>3, <3>1
    <3>3. ~ToldByAdapter => told' = <<ret>> /\ pipe' = FALSE
      BY <1>1, <1>3, <2>1, <2>3, NotifyOnce
    <3>4. QED
      BY <2>1, <2>5, <3>2, <3>3
  <2>7. Secured' /\ (Dupped => Dupped') /\ (Confined => Confined')
    BY <1>3, <2>1, SecureStays
  <2>8. SecureInv'
    <3>1. Confined
      BY <2>1 DEF Secured
    <3>2. Dupped' \/ told' = <<"err">>
      BY <2>1, <2>4, <2>6, <2>7
    <3>3. QED
      BY <2>2, <2>7, <3>1, <3>2 DEF SecureInv, Answered, OnTheWay
  <2>9. ToldInv'
    <3>1. (Mode({"nweb"})' <=> Mode({"nweb"})) /\ (ToldByAdapter' <=> ToldByAdapter)
      BY <1>3, OfTheRequest DEF ToldByAdapter
    <3>2. pipe' \in BOOLEAN /\ told' \in {<<>>, <<"ok">>, <<"err">>} /\ (pipe' <=> told' = <<>>)
      <4>1. <<"ok">> # <<>> /\ <<"err">> # <<>>
        OBVIOUS
      <4>2. CASE ToldByAdapter
        BY <2>6, <4>2
      <4>3. CASE ~ToldByAdapter /\ ret = "ok"
        BY <2>6, <4>1, <4>3
      <4>4. CASE ~ToldByAdapter /\ ret = "err"
        BY <2>6, <4>1, <4>4
      <4>5. QED
        BY <2>1, <4>2, <4>3, <4>4
    <3>3. told' = <<"err">> => image' = "cold" /\ Mode({"nweb"})'
      BY <1>3, <2>1, <2>5, <2>6, <3>1
    <3>4. QED
      BY <1>1, <1>3, <2>2, <2>6, <3>1, <3>2, <3>3 DEF ToldInv, OnTheWay, Early
  <2>10. FailedInv'
    BY <1>1, <1>3, <2>2 DEF FailedInv
  <2>11. QED
    BY <2>2, <2>8, <2>9, <2>10 DEF ChildInv
<1>4. QED
  BY <1>2, <1>3 DEF AfterPreRely

LEMMA AfterPostRelyKeeps ==
  ASSUME ChildInv, AfterPostRely
  PROVE  ChildInv'
<1>1. /\ BasicInv /\ SecureInv /\ ToldInv /\ FailedInv
      /\ life = "setup" /\ stage = "POST_RELY" /\ Enter("run")
      /\ UNCHANGED <<req, image, after, proc, cold, fdEnv, fdMap, encaps, ctx, told, pipe, failed, life>>
  BY DEF ChildInv, AfterPostRely, StageDone
<1>2. /\ Secured /\ Booted /\ Answered /\ proc \in ProcType /\ failed \in BOOLEAN /\ image \in {"fork", "cold"}
  BY <1>1 DEF BasicInv, SecureInv
<1>3. BasicInv' /\ stage' = "run" /\ ret' = "ok"
  BY <1>1, <1>2, BasicEnters DEF AllStages
<1>4. Secured' /\ Answered' /\ (Confined' <=> Confined) /\ (Mode({"nweb"})' <=> Mode({"nweb"}))
  BY <1>1, <1>2, SecureStays DEF Answered
<1>5. ToldByAdapter' <=> ToldByAdapter
  BY <1>1, OfTheRequest DEF ToldByAdapter
<1>6. SecureInv'
  BY <1>1, <1>3, <1>4 DEF SecureInv, OnTheWay
<1>7. ToldInv'
  BY <1>1, <1>3, <1>4, <1>5 DEF ToldInv, OnTheWay, Early
<1>8. FailedInv'
  BY <1>1, <1>3 DEF FailedInv
<1>9. QED
  BY <1>3, <1>6, <1>7, <1>8 DEF ChildInv

\* An adapter hands over: the environment is cleared on the way to what.
LEMMA HandsOver ==
  ASSUME ChildInv, life = "setup", stage = "run", NEW what \in {"answer", "execvp", "app"}, EnvClear(what),
         what = "app" => ~ToldByAdapter,
         Secured', proc' \in ProcType, proc'.seccomp # "none", Dupped => Dupped',
         FdsGiven',
         UNCHANGED <<req, image, cold, fdEnv, encaps, ctx, told, pipe, failed, life>>
  PROVE  ChildInv'
<1>1. /\ BasicInv /\ SecureInv /\ ToldInv /\ FailedInv
      /\ Enter("PRE_RUN") /\ after' = what
  BY DEF ChildInv, EnvClear
<1>2. Answered /\ failed \in BOOLEAN /\ image \in {"fork", "cold"}
  BY <1>1 DEF BasicInv, SecureInv
<1>3. BasicInv' /\ stage' = "PRE_RUN" /\ ret' = "ok"
  BY <1>1, <1>2, BasicEnters DEF AllStages
<1>4. Confined' /\ Answered' /\ OnTheWay' /\ (Mode({"nweb"})' <=> Mode({"nweb"}))
  <2>1. Confined'
    BY DEF Secured
  <2>2. Answered'
    BY <1>2 DEF Answered
  <2>3. OnTheWay'
    BY <1>1, <1>3 DEF OnTheWay
  <2>4. QED
    BY <2>1, <2>2, <2>3, OfTheRequest
<1>5. SecureInv'
  BY <1>3, <1>4 DEF SecureInv
<1>6. ToldInv'
  BY <1>1, <1>3, <1>4 DEF ToldInv, Early
<1>7. FailedInv'
  BY <1>1, <1>3 DEF FailedInv
<1>8. QED
  BY <1>3, <1>5, <1>6, <1>7 DEF ChildInv

\* An adapter fails.
LEMMA RunFails ==
  ASSUME ChildInv, life = "setup", stage = "run", failed' = TRUE, RunFailed
  PROVE  ChildInv'
<1>1. /\ BasicInv /\ SecureInv /\ ToldInv /\ FailedInv
      /\ Enter("PRE_RUN") /\ after' = "exit"
      /\ UNCHANGED <<req, image, proc, cold, fdEnv, fdMap, encaps, ctx, life>>
  BY DEF ChildInv, RunFailed, EnvClear
<1>2. pipe' = FALSE /\ told' \in {<<"ok">>, <<"err">>} /\ (told' = <<"ok">> => Confined)
  <2>1. Confined
    BY <1>1 DEF SecureInv, Secured
  <2>2. CASE ToldByAdapter
    BY <1>1, <2>1, <2>2, NotifyOnce DEF RunFailed
  <2>3. CASE ~ToldByAdapter
    BY <1>1, <2>1, <2>3 DEF RunFailed, ToldInv
  <2>4. QED
    BY <2>2, <2>3
<1>3. proc \in ProcType /\ image \in {"fork", "cold"}
  BY <1>1 DEF BasicInv
<1>4. BasicInv' /\ stage' = "PRE_RUN" /\ ret' = "ok"
  BY <1>1, <1>3, BasicEnters DEF AllStages
<1>5. Confined' <=> Confined
  BY <1>1, SecureStays
<1>6. SecureInv'
  BY <1>1, <1>2, <1>4, <1>5 DEF SecureInv, OnTheWay
<1>7. ToldInv'
  <2>1. <<"ok">> # <<>> /\ <<"err">> # <<>>
    OBVIOUS
  <2>2. QED
    BY <1>1, <1>2, <1>4, <2>1 DEF ToldInv, Early, OnTheWay
<1>8. FailedInv'
  BY <1>1, <1>4 DEF FailedInv
<1>9. QED
  BY <1>4, <1>6, <1>7, <1>8 DEF ChildInv

\* The descriptors a child process finds are those of its request.
LEMMA MapOfTheRequest ==
  ASSUME BasicInv, stage = "run", req \in Requests, req.type = "child"
  PROVE  BuildFdInfoMap = SentFds
<1>1. ~req.prefork
  BY RequestsAssumption
<1>2. image = "cold" => fdEnv = SentFds
  BY <1>1 DEF BasicInv, Booted, Effect
<1>3. QED
  BY <1>1, <1>2 DEF BuildFdInfoMap

LEMMA RunChildThreadKeeps ==
  ASSUME ChildInv, RunChildThread
  PROVE  ChildInv'
<1>1. /\ BasicInv /\ SecureInv /\ life = "setup" /\ stage = "run" /\ Mode({"app", "hybrid"})
      /\ fdMap' = (IF req.type = "child" THEN BuildFdInfoMap ELSE <<>>) /\ EnvClear("answer")
      /\ UNCHANGED <<req, image, proc, cold, fdEnv, encaps, ctx, told, pipe, failed, life>>
  BY DEF ChildInv, RunChildThread
<1>2. Secured /\ req \in Requests /\ proc \in ProcType
  BY <1>1 DEF SecureInv, BasicInv
<1>3. Secured' /\ (Dupped => Dupped') /\ SentFds' = SentFds
  BY <1>1, <1>2, SecureStays
<1>4. proc.seccomp # "none"
  BY <1>1, <1>2 DEF Secured, Effect, IsRenderer, Mode
<1>5. FdsGiven'
  BY <1>1, <1>2, <1>3, MapOfTheRequest DEF FdsGiven
<1>6. QED
  BY <1>1, <1>2, <1>3, <1>4, <1>5, HandsOver

LEMMA RunChildByRenderCmdKeeps ==
  ASSUME ChildInv, RunChildByRenderCmd
  PROVE  ChildInv'
<1>1. /\ BasicInv /\ SecureInv /\ life = "setup" /\ stage = "run" /\ Mode({"app", "hybrid"})
      /\ req.type = "nativeproc"
  BY DEF ChildInv, RunChildByRenderCmd
<1>2. CASE /\ EnvClear("execvp")
           /\ UNCHANGED <<req, image, proc, cold, fdEnv, fdMap, encaps, ctx, told, pipe, failed, life>>
  <2>1. Secured /\ proc \in ProcType
    BY <1>1 DEF SecureInv, BasicInv
  <2>2. Secured' /\ (Dupped => Dupped')
    BY <1>2, <2>1, SecureStays
  <2>3. proc.seccomp # "none"
    BY <1>1, <2>1 DEF Secured, Effect, IsRenderer, Mode
  <2>4. FdsGiven'
    BY <1>1, <1>2 DEF FdsGiven
  <2>5. QED
    BY <1>1, <1>2, <2>1, <2>2, <2>3, <2>4, HandsOver
<1>3. CASE failed' = TRUE /\ RunFailed
  BY <1>1, <1>3, RunFails
<1>4. QED
  BY <1>2, <1>3 DEF RunChildByRenderCmd

LEMMA RunNativeChildKeeps ==
  ASSUME ChildInv, RunNativeChild
  PROVE  ChildInv'
<1>1. /\ BasicInv /\ SecureInv /\ ToldInv /\ FailedInv
      /\ life = "setup" /\ stage = "run" /\ Mode({"native"}) /\ ~ToldByAdapter
      /\ UNCHANGED <<req, image, proc, cold, fdEnv, encaps, ctx, told, pipe, failed>>
  BY DEF ChildInv, RunNativeChild, ToldByAdapter, Mode
<1>2. Secured /\ req \in Requests /\ proc \in ProcType /\ ~pipe
  BY <1>1 DEF SecureInv, BasicInv, ToldInv
<1>3. Secured' /\ (Dupped => Dupped') /\ SentFds' = SentFds /\ (Confined' <=> Confined)
      /\ \A m : Mode(m)' <=> Mode(m)
  BY <1>1, <1>2, SecureStays
<1>4. CASE req.type = "child" /\ fdMap' = BuildFdInfoMap /\ EnvClear("app") /\ UNCHANGED life
  <2>1. proc.seccomp # "none"
    BY <1>1, <1>2 DEF Secured, Effect, IsRenderer, Mode
  <2>2. FdsGiven'
    BY <1>1, <1>2, <1>3, <1>4, MapOfTheRequest DEF FdsGiven
  <2>3. QED
    BY <1>1, <1>2, <1>3, <1>4, <2>1, <2>2, HandsOver
<1>5. CASE req.type # "child" /\ life' = "exited" /\ UNCHANGED <<fdMap, stage, hook, pc, ret, after>>
  <2>1. failed' \in BOOLEAN
    BY <1>1 DEF BasicInv
  <2>2. BasicInv'
    BY <1>1, <1>5, <2>1, BasicStays
  <2>3. SecureInv'
    <3>1. Answered => Answered'
      BY <1>1, <1>3 DEF Answered
    <3>2. QED
      BY <1>1, <1>2, <1>3, <1>5, <3>1 DEF SecureInv, OnTheWay
  <2>4. ToldInv'
    BY <1>1, <1>2, <1>3, <1>5 DEF ToldInv, OnTheWay, Early
  <2>5. FailedInv'
    BY <1>1, <1>3, <1>5 DEF FailedInv
  <2>6. QED
    BY <2>2, <2>3, <2>4, <2>5 DEF ChildInv
<1>6. QED
  BY <1>4, <1>5 DEF RunNativeChild

\* A renderer gets its filter from the adapter.
LEMMA RunNwebChildKeeps ==
  ASSUME ChildInv, RunNwebChild
  PROVE  ChildInv'
<1>1. /\ BasicInv /\ SecureInv
      /\ life = "setup" /\ stage = "run" /\ Mode({"nweb"}) /\ ~ToldByAdapter
  BY DEF ChildInv, RunNwebChild, ToldByAdapter, Mode
<1>2. Secured /\ proc \in ProcType
  BY <1>1 DEF SecureInv, BasicInv
<1>3. CASE /\ proc' = IF Has("render") THEN [proc EXCEPT !.seccomp = "renderer"] ELSE proc
           /\ EnvClear("app")
           /\ UNCHANGED <<req, image, cold, fdEnv, fdMap, encaps, ctx, told, pipe, failed, life>>
  <2>1. proc' \in ProcType
    BY <1>2, <1>3 DEF ProcType, Policies
  <2>2. /\ proc'.name = proc.name /\ proc'.token = proc.token /\ proc'.groups = proc.groups
        /\ proc'.gid = proc.gid /\ proc'.uid = proc.uid /\ proc'.caps = proc.caps
        /\ proc'.selinux = proc.selinux /\ proc'.root = proc.root /\ proc'.stdio = proc.stdio
        /\ proc'.ipc = proc.ipc
    BY <1>2, <1>3 DEF ProcType
  <2>3. proc'.seccomp # "none"
    <3>1. CASE Has("render")
      BY <1>2, <1>3, <3>1 DEF ProcType
    <3>2. CASE ~Has("render")
      BY <1>2, <1>3, <3>2 DEF Secured, Effect, IsRenderer
    <3>3. QED
      BY <3>1, <3>2
  <2>4. Confined' /\ (Dupped => Dupped')
    <3>1. Confined
      BY <1>2 DEF Secured
    <3>2. QED
      BY <1>3, <2>2, <3>1, OfTheRequest DEF Confined, Dupped
  <2>5. Secured'
    BY <2>3, <2>4 DEF Secured, Effect
  <2>6. FdsGiven'
    BY <1>1, <1>3, OfTheRequest DEF FdsGiven
  <2>7. QED
    BY <1>1, <1>3, <2>1, <2>3, <2>4, <2>5, <2>6, HandsOver
<1>4. CASE failed' = TRUE /\ RunFailed
  BY <1>1, <1>4, RunFails
<1>5. QED
  BY <1>3, <1>4 DEF RunNwebChild

\* The environment is clear: the application starts or the child ends.
LEMMA AfterEnvClearKeeps ==
  ASSUME ChildInv, AfterEnvClear
  PROVE  ChildInv'
<1>1. /\ BasicInv /\ SecureInv /\ ToldInv /\ FailedInv
      /\ life = "setup" /\ stage = "PRE_RUN" /\ after \in {"exit", "answer", "execvp", "app"}
      /\ UNCHANGED <<req, image, stage, hook, pc, ret, after, proc, cold, fdEnv, fdMap, encaps, ctx>>
  BY DEF ChildInv, AfterEnvClear, StageDone, ToldInv
<1>2. \/ after # "exit" /\ life' = "app" /\ failed' = failed
      \/ after = "exit" /\ life' = "exited" /\ failed' = failed
      \/ after = "execvp" /\ failed' = TRUE /\ life' = "exited"
  BY DEF AfterEnvClear
<1>3. /\ pipe' = FALSE /\ told' \in {<<"ok">>, <<"err">>}
      /\ told' = <<"ok">> => OnTheWay \/ told = <<"ok">>
      /\ told' = <<"err">> => told = <<"err">>
  <2>1. CASE after \in {"answer", "execvp"}
    <3>1. Notify("ok") /\ OnTheWay
      BY <1>1, <2>1 DEF AfterEnvClear, OnTheWay
    <3>2. /\ pipe' = FALSE /\ told' \in {<<"ok">>, <<"err">>}
          /\ pipe => told' = <<"ok">>
          /\ ~pipe => told' = told
      BY <1>1, <3>1, NotifyOnce
    <3>3. <<"ok">> # <<"err">>
      OBVIOUS
    <3>4. QED
      BY <1>1, <3>1, <3>2, <3>3 DEF ToldInv
  <2>2. CASE after \in {"exit", "app"}
    <3>1. UNCHANGED <<told, pipe>> /\ ~pipe
      BY <1>1, <2>2 DEF AfterEnvClear, ToldInv
    <3>2. QED
      BY <1>1, <3>1 DEF ToldInv
  <2>3. QED
    BY <1>1, <2>1, <2>2
<1>4. BasicInv'
  <2>1. failed' \in BOOLEAN
    BY <1>1, <1>2 DEF BasicInv
  <2>2. QED
    BY <1>1, <2>1, BasicStays
<1>5. /\ Secured' <=> Secured
      /\ Confined' <=> Confined
      /\ Dupped' <=> Dupped
      /\ SentFds' = SentFds
      /\ \A m : Mode(m)' <=> Mode(m)
      /\ OnTheWay' <=> OnTheWay
  BY <1>1, SecureStays DEF OnTheWay
<1>6. (FdsGiven' <=> FdsGiven) /\ (ToldByAdapter' <=> ToldByAdapter)
  BY <1>1, <1>5 DEF FdsGiven, ToldByAdapter
<1>7. SecureInv'
  <2>1. OnTheWay => Secured /\ Confined /\ proc.seccomp # "none" /\ Answered /\ FdsGiven
    BY <1>1 DEF SecureInv, Secured
  <2>2. OnTheWay => Answered'
    <3>1. CASE told = <<"err">>
      <4>1. ~pipe
        BY <1>1, <3>1 DEF ToldInv
      <4>2. told' = told
        BY <4>1 DEF AfterEnvClear, Notify
      <4>3. QED
        BY <3>1, <4>2 DEF Answered
    <3>2. CASE told # <<"err">>
      BY <1>5, <2>1, <3>2 DEF Answered
    <3>3. QED
      BY <3>1, <3>2
  <2>3. QED
    BY <1>1, <1>3, <1>5, <1>6, <2>1, <2>2 DEF SecureInv
<1>8. ToldInv'
  <2>1. <<"ok">> # <<>> /\ <<"err">> # <<>>
    OBVIOUS
  <2>2. life' = "app" => OnTheWay
    BY <1>1, <1>2 DEF OnTheWay
  <2>3. QED
    BY <1>1, <1>2, <1>3, <1>5, <1>6, <2>1, <2>2 DEF ToldInv, Early
<1>9. FailedInv'
  BY <1>1, <1>2, <1>5 DEF FailedInv
<1>10. QED
  BY <1>4, <1>7, <1>8, <1>9 DEF ChildInv

LEMMA ChildStutters ==
  ASSUME ChildInv, UNCHANGED vars
  PROVE  ChildInv'
<1>1. /\ BasicInv /\ SecureInv /\ ToldInv /\ FailedInv
      /\ UNCHANGED <<req, image, stage, hook, pc, ret, after, proc, fdEnv, fdMap, told, pipe, failed, life>>
  BY DEF ChildInv, vars
<1>2. BasicInv'
  <2>1. failed' \in BOOLEAN
    BY <1>1 DEF BasicInv
  <2>2. QED
    BY <1>1, <2>1, BasicStays
<1>3. /\ (Secured' <=> Secured) /\ (Confined' <=> Confined) /\ (Dupped' <=> Dupped)
      /\ SentFds' = SentFds /\ (OnTheWay' <=> OnTheWay)
      /\ \A m : Mode(m)' <=> Mode(m)
  BY <1>1, SecureStays DEF OnTheWay
<1>4. (FdsGiven' <=> FdsGiven) /\ (ToldByAdapter' <=> ToldByAdapter) /\ (Answered' <=> Answered)
  BY <1>1, <1>3 DEF FdsGiven, ToldByAdapter, Answered
<1>5. SecureInv'
  BY <1>1, <1>3, <1>4 DEF SecureInv
<1>6. ToldInv' /\ FailedInv'
  BY <1>1, <1>3, <1>4 DEF ToldInv, FailedInv
<1>7. QED
  BY <1>2, <1>5, <1>6 DEF ChildInv

LEMMA ChildNext == ChildInv /\ [Next]_vars => ChildInv'
<1> SUFFICES ASSUME ChildInv, [Next]_vars PROVE ChildInv'
  OBVIOUS
<1>1. CASE StepActions
  BY <1>1, StepChild
<1>2. CASE AfterPreColdBoot \/ AppSpawnColdStartApp \/ ColdRunStart
  BY <1>2, AfterPreColdBootKeeps, ColdStartKeeps, ColdRunKeeps
<1>3. CASE AfterExecute \/ AfterPreRely \/ AfterPostRely
  BY <1>3, AfterExecuteKeeps, AfterPreRelyKeeps, AfterPostRelyKeeps
<1>4. CASE RunChildThread \/ RunChildByRenderCmd \/ RunNativeChild \/ RunNwebChild
  BY <1>4, RunChildThreadKeeps, RunChildByRenderCmdKeeps, RunNativeChildKeeps, RunNwebChildKeeps
<1>5. CASE AfterEnvClear
  BY <1>5, AfterEnvClearKeeps
<1>6. CASE UNCHANGED vars
  BY <1>6, ChildStutters
<1>7. QED
  BY <1>1, <1>2, <1>3, <1>4, <1>5, <1>6 DEF Next, StepActions, Ended

LEMMA ChildInvariant == Spec => []ChildInv
  BY ChildInit, ChildNext, PTL DEF Spec

\* Whatever the request, whichever steps fail and whether or not the child is
\* started cold, application code runs only under its own ids, token,
\* capabilities, SELinux context, sandbox and seccomp filter.
THEOREM AppsRunConfined == Spec => []AppRunsConfined
<1>1. ChildInv => AppRunsConfined
  BY DEF ChildInv, SecureInv, ToldInv, Secured, AppRunsConfined
<1>2. QED
  BY <1>1, ChildInvariant, PTL

\* AppSpawnChild, AppSpawnColdRun and the adapters together tell the parent
\* exactly once, and success only of a confined child.
THEOREM ParentToldOnce == Spec => []ToldOnce
<1>1. ChildInv => ToldOnce
  <2> SUFFICES ASSUME ChildInv PROVE ToldOnce
    OBVIOUS
  <2>1. SecureInv /\ ToldInv
    BY DEF ChildInv
  <2>2. /\ told \in {<<>>, <<"ok">>, <<"err">>} /\ (pipe <=> told = <<>>)
        /\ Len(<<>>) = 0 /\ Len(<<"ok">>) = 1 /\ Len(<<"err">>) = 1
    BY <2>1 DEF ToldInv
  <2>3. Len(told) <= 1 /\ (~pipe => Len(told) = 1)
    <3>1. CASE told = <<>>
      BY <2>2, <3>1
    <3>2. CASE told = <<"ok">>
      BY <3>2
    <3>3. CASE told = <<"err">>
      BY <3>3
    <3>4. QED
      BY <2>2, <3>1, <3>2, <3>3
  <2>4. life \in {"app", "exited"} => Len(told) = 1 \/ (life = "exited" /\ stage = "cold")
    BY <2>1, <2>3 DEF ToldInv
  <2>5. life = "app" => told = <<"ok">> \/ (image = "cold" /\ Mode({"nweb"}))
    BY <2>1, <2>2 DEF ToldInv
  <2>6. QED
    BY <2>1, <2>3, <2>4, <2>5 DEF SecureInv, ToldOnce
<1>2. QED
  BY <1>1, ChildInvariant, PTL

\* The order of the hooks and of their calls never takes a privilege away
\* before the step that needs it: a child exits only because a step failed.
THEOREM ExitsOnlyByFailure == Spec => []RunsUnlessFailed
<1>1. ChildInv => RunsUnlessFailed
  BY DEF ChildInv, FailedInv, RunsUnlessFailed
<1>2. QED
  BY <1>1, ChildInvariant, PTL

\* A child process has the descriptors of its request, through a cold start
\* too, and a renderer its duplicates or an error was reported.
THEOREM FdsDelivered == Spec => []DescriptorsDelivered
<1>1. ChildInv => DescriptorsDelivered
  BY DEF ChildInv, SecureInv, ToldInv, FdsGiven, Answered, Dupped, DescriptorsDelivered
<1>2. QED
  BY <1>1, ChildInvariant, PTL

=============================================================================
