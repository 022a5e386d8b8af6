------------------------------ MODULE SpawnChild ------------------------------
(***************************************************************************)
(* The forked child between fork() and the application's own code:         *)
(* AppSpawnChild (or, after a cold start, AppSpawnColdRun) executes the    *)
(* hooks of the CHILD stages in priority order, tells the parent through   *)
(* the pipe how it went and hands over to the adapter of its mode (ace,    *)
(* native or nweb).  Each hook is the sequence of the steps it calls; a    *)
(* step that fails ends its hook, and the stage with it unless the stage   *)
(* ignores errors.  What a step needs of the kernel (root for groups and   *)
(* mounts, kept capabilities for capset) is modelled, so an order of steps *)
(* that cannot work fails here as it would on a device.                    *)
(***************************************************************************)
EXTENDS Naturals, Sequences

CONSTANTS
    Requests,      \* the requests a child may have been forked for
    Faults,        \* steps that may fail in the forked image
    ColdFaults,    \* steps that may fail in the image a cold start executes
    MaxFdNumber,   \* largest number SetFdEnv's value buffer can hold
    EncapsMax      \* OH_ENCAPS_MAX_COUNT

\* Prefork serves neither child processes nor other spawners (IsSupportPrefork).
ASSUME RequestsAssumption ==
    \A r \in Requests :
        /\ r.fds \in Seq(Nat) /\ r.tlvs \in Nat
        /\ r.prefork => r.mode = "app" /\ r.type # "child"

VARIABLES
    req,      \* the request: mode, type, flags (of the message, the device and
              \* the build), descriptors, permissions
    image,    \* "fork", or "cold" once a cold start has executed
    stage,    \* the stage (or the statement of AppSpawnChild) being executed
    hook,     \* the hook being executed: its place in HookTable, NoHook at the end
    pc,       \* the next step of the hook
    ret,      \* result of the stage so far
    after,    \* what follows STAGE_CHILD_PRE_RUN
    proc,     \* attributes of the process the kernel keeps
    cold,     \* APP_COLD_START in client.flags
    fdEnv,    \* descriptors put into the environment by SetFdEnv
    fdMap,    \* descriptors handed to the application
    encaps,   \* UserEncaps: slots allocated, entries filled, entries written
    ctx,      \* the AppSpawningCtx with its message: "live" or "freed"
    told,     \* results written to the parent's pipe
    pipe,     \* forkCtx.fd[1] is open
    failed,   \* some step failed by itself
    life      \* "setup", "app", "shell" or "exited"

vars == <<req, image, stage, hook, pc, ret, after, proc, cold, fdEnv, fdMap, encaps,
          ctx, told, pipe, failed, life>>

\* What a step that sets an attribute of the process leaves alone.
AllButProc == <<req, image, stage, after, cold, fdEnv, fdMap, encaps, ctx, told, pipe, life>>

(***************************************************************************)
(* Hooks.                                                                  *)
(***************************************************************************)
\* Priorities of TagAppSpawnHookPrio; lower runs first.
Highest == 1000
Common == 2000
DfxPreload == 2500
Sandbox == 3000
MarkPath == 3500
Property == 4000
Lowest == 5000

Reg(st, prio, h) == [stage |-> st, prio |-> prio, hook |-> h]

\* AddAppSpawnHook calls in the order the modules are loaded: the common
\* library, then asan, then the mode's own modules, and AppSpawnClearEnv when
\* StartSpawnService is done loading.
HookTable ==
    <<Reg("PRE_COLDBOOT", Highest, "SpawnInitSpawningEnv"),
      Reg("PRE_COLDBOOT", Common + 1, "SpawnSetAppEnv"),
      Reg("EXECUTE", Highest, "SpawnEnableCache"),
      Reg("EXECUTE", Property, "SpawnSetProperties"),
      Reg("POST_RELY", Highest, "SpawnComplete"),
      Reg("PRE_COLDBOOT", Highest, "SetFdEnv"),
      Reg("PRE_RUN", Highest, "RecordStartTime"),
      Reg("EXECUTE", Common, "SpawnSetEncapsPermissions"),
      Reg("PRE_RUN", Lowest, "RunBegetctlBootApp"),
      Reg("PRE_COLDBOOT", Highest, "SpawnSetIsolateDir"),
      Reg("EXECUTE", MarkPath, "MarkSandboxMounts"),
      Reg("PRE_COLDBOOT", Common + 2, "SpawnSetCustomSandboxEnv"),
      Reg("PRE_COLDBOOT", Common, "AsanSpawnInitSpawningEnv"),
      Reg("EXECUTE", Sandbox, "SetAppSandboxProperty"),
      Reg("PRE_COLDBOOT", DfxPreload, "SetDfxPreloadEnableEnv"),
      Reg("PRE_RELY", Highest, "DupNwebRenderFdsBeforeRunHook"),
      Reg("PRE_RUN", Lowest, "AppSpawnClearEnv")>>

\* HookMgrAddEx keeps a stage's hooks by priority, and in order of
\* registration within a priority.
RunsBefore(i, j) ==
    \/ HookTable[i].prio < HookTable[j].prio
    \/ HookTable[i].prio = HookTable[j].prio /\ i < j

Hooks(st) == {i \in DOMAIN HookTable : HookTable[i].stage = st}
IsFirst(i, S) == \A j \in S \ {i} : RunsBefore(i, j)

\* Mutant: the user id is dropped before the group ids are set.
UidFirstSteps ==
    <<"LoadSilk", "SetKeepCapabilities", "SetXpmConfig", "SetProcessName",
      "SetSchedPriority", "SetUid", "SetGroups", "SetGid", "SetSeccompFilter",
      "SetFileDescriptors", "SetCapabilities", "SetSelinuxCon", "WaitForDebugger">>

\* The steps of SpawnSetProperties, in the order the function calls them;
\* SetUidGid is the four steps from setgroups to setresuid.
PropertySteps ==
    <<"LoadSilk", "SetKeepCapabilities", "SetXpmConfig", "SetProcessName",
      "SetSchedPriority", "SetGroups", "SetGid", "SetSeccompFilter", "SetUid",
      "SetFileDescriptors", "SetCapabilities", "SetSelinuxCon", "WaitForDebugger">>

StepsOf(h) ==
    CASE h = "SpawnInitSpawningEnv" ->
             <<"SetProcessName", "SetAppAccessToken", "SpawnSetPreInstalledFlag">>
      [] h = "SpawnEnableCache" -> <<"SetInternetPermission">>
      [] h = "SpawnSetAppEnv" -> <<"SetEnvInfo">>
      [] h = "SpawnSetProperties" -> PropertySteps
      [] h = "SpawnSetEncapsPermissions" -> <<"BuildEncaps", "WriteEncaps">>
      [] OTHER -> <<h>>

NoHook == 0
StepsAt(i) == StepsOf(HookTable[i].hook)

\* Go on with the first of the hooks of S.
GoTo(S) ==
    /\ pc' = 1
    /\ \/ S = {} /\ hook' = NoHook
       \/ \E i \in S : IsFirst(i, S) /\ hook' = i

Enter(st) == stage' = st /\ ret' = "ok" /\ GoTo(Hooks(st))

At(step) ==
    /\ life = "setup"
    /\ hook # NoHook
    /\ StepsAt(hook)[pc] = step

StageDone(st) ==
    /\ life = "setup"
    /\ stage = st
    /\ hook = NoHook

\* The rest of the hook, then the hooks of the stage behind it.
NextHook == GoTo({i \in Hooks(stage) : RunsBefore(hook, i)})

Ok ==
    /\ IF pc < Len(StepsAt(hook)) THEN pc' = pc + 1 /\ UNCHANGED hook ELSE NextHook
    /\ UNCHANGED ret

\* HOOK_STOP_WHEN_ERROR for every stage but STAGE_CHILD_PRE_RUN.
Err ==
    IF stage = "PRE_RUN" THEN NextHook /\ UNCHANGED ret
    ELSE hook' = NoHook /\ pc' = 1 /\ ret' = "err"

CanFail(step) == step \in (IF image = "fork" THEN Faults ELSE ColdFaults)

Fault(step) == CanFail(step) /\ failed' = TRUE /\ Err

Has(flag) == flag \in req.flags
Mode(m) == req.mode \in m

(***************************************************************************)
(* What the kernel asks of a step.                                         *)
(***************************************************************************)
Root == proc.uid = "root"

\* The capabilities SetCapabilities leaves an application: a build without
\* GRAPHIC_PERMISSION_CHECK takes none away; with it CAP_DAC_OVERRIDE is kept, in
\* a custom sandbox CAP_KILL and by permission CAP_FOWNER, only with nosharefs.
BaseCaps ==
    IF Has("no_graphic_check") THEN {"all"}
    ELSE IF Has("nosharefs") /\ ~Has("isolated_type") /\ Mode({"app", "native"})
    THEN {"dac_override"} \union (IF Has("custom") THEN {"kill"} ELSE {})
                           \union (IF Has("fowner") THEN {"fowner"} ELSE {})
    ELSE {}

(***************************************************************************)
(* STAGE_CHILD_PRE_COLDBOOT.                                               *)
(***************************************************************************)
Init ==
    /\ req \in Requests
    /\ image = "fork" /\ stage = "PRE_COLDBOOT" /\ pc = 1 /\ ret = "ok" /\ after = "none"
    /\ \E i \in Hooks("PRE_COLDBOOT") : IsFirst(i, Hooks("PRE_COLDBOOT")) /\ hook = i
    /\ proc = [name |-> "spawner", token |-> "none", uid |-> "root", gid |-> "root",
               groups |-> "root", keepcaps |-> FALSE, caps |-> {"all"},
               seccomp |-> "none", selinux |-> "none", root |-> "system",
               xpm |-> FALSE, stdio |-> "inherited", ipc |-> "none"]
    /\ cold = Has("cold")      \* SpawnGetSpawningFlag, before the fork
    /\ fdEnv = <<>> /\ fdMap = <<>>
    /\ encaps = [alloc |-> 0, filled |-> 0, written |-> 0]
    /\ ctx = "live" /\ told = <<>> /\ pipe = TRUE
    /\ failed = FALSE /\ life = "setup"

SetProcessName ==
    /\ At("SetProcessName")
    /\ \/ Ok /\ proc' = [proc EXCEPT !.name = "app"] /\ UNCHANGED failed
       \/ Fault("SetProcessName") /\ UNCHANGED proc
    /\ UNCHANGED AllButProc

\* Render processes get the render token of the application's token.
SetAppAccessToken ==
    /\ At("SetAppAccessToken")
    /\ LET render == Mode({"nweb"}) \/ (Mode({"native"}) /\ Has("isolated_type"))
       IN  \/ /\ Ok /\ UNCHANGED failed
              /\ proc' = [proc EXCEPT !.token = IF render THEN "render" ELSE "hap"]
           \/ Fault("SetAppAccessToken") /\ UNCHANGED proc
    /\ UNCHANGED AllButProc

\* A step that changes nothing the properties tell apart and may fail.
Plain(step) ==
    /\ At(step)
    /\ \/ Ok /\ UNCHANGED failed
       \/ Fault(step)
    /\ UNCHANGED <<proc, AllButProc>>

SpawnSetPreInstalledFlag == Plain("SpawnSetPreInstalledFlag")
SetEnvInfo == Plain("SetEnvInfo")

\* Steps whose errors are only logged.
Logged(step) ==
    /\ At(step) /\ Ok
    /\ UNCHANGED <<proc, failed, AllButProc>>

SpawnSetIsolateDir == Logged("SpawnSetIsolateDir")
SpawnSetCustomSandboxEnv == Logged("SpawnSetCustomSandboxEnv")

\* Descriptor i belongs to the i-th AppFd of the message; one that does not
\* fit the value buffer fails the spawn.  A prefork child has no connection.
SentFds == SubSeq(req.fds, 1, IF req.tlvs < Len(req.fds) THEN req.tlvs ELSE Len(req.fds))

SetFdEnv ==
    /\ At("SetFdEnv")
    /\ IF req.prefork \/ req.fds = <<>> THEN Ok /\ UNCHANGED <<fdEnv, failed>>
       ELSE IF \E i \in DOMAIN SentFds : SentFds[i] > MaxFdNumber
       THEN Err /\ failed' = TRUE /\ UNCHANGED fdEnv
       ELSE Ok /\ fdEnv' = SentFds /\ UNCHANGED failed
    /\ UNCHANGED <<req, image, stage, after, proc, cold, fdMap, encaps, ctx, told, pipe, life>>

\* A sanitizer asks for a cold start, except for a native process.
AsanSpawnInitSpawningEnv ==
    /\ At("AsanSpawnInitSpawningEnv") /\ Ok
    /\ cold' = (cold \/ (req.type # "nativeproc" /\ Has("asan")))
    /\ UNCHANGED <<req, image, stage, after, proc, fdEnv, fdMap, encaps, ctx, told, pipe,
                   failed, life>>

\* The profiler's preload library does too, unless a cold start is asked for.
SetDfxPreloadEnableEnv ==
    /\ At("SetDfxPreloadEnableEnv") /\ Ok
    /\ cold' = (cold \/ (req.type # "nativeproc" /\ Has("dfx")))
    /\ UNCHANGED <<req, image, stage, after, proc, fdEnv, fdMap, encaps, ctx, told, pipe,
                   failed, life>>

(***************************************************************************)
(* STAGE_CHILD_EXECUTE.                                                    *)
(***************************************************************************)
SetInternetPermission == Logged("SetInternetPermission")

\* Modes that use encaps; a missing /dev/encaps or a failing ioctl skips it.
UsesEncaps == Mode({"app", "hybrid", "native"}) /\ "Encaps" \notin req.absent

\* GetEncapsPermissions takes the permissions only when the count the message
\* states is theirs and in range; an isolated sandbox has none.
PermissionCount ==
    IF ~Has("isolated") /\ req.perms \in 1..EncapsMax THEN req.perms ELSE 0

\* Slots SpawnSetPermissions allocates: one more than there are permissions.
EncapsSlots == PermissionCount + 1

\* SpawnSetMaxPids adds the fork limit after the permissions.
WantsForkLimit == req.type # "nativeproc" /\ Has("maxpids")

\* How many permissions are converted: one that cannot be ends the list.
AddMembersToEncapsInfo ==
    IF CanFail("BuildEncaps") THEN 0..PermissionCount ELSE {PermissionCount}

\* SpawnSetPermissions: no room for the fork limit gives everything up.
BuildEncaps ==
    /\ At("BuildEncaps") /\ Ok
    /\ IF ~UsesEncaps THEN UNCHANGED encaps
       ELSE \E n \in AddMembersToEncapsInfo :
              encaps' = IF ~WantsForkLimit
                        THEN [alloc |-> EncapsSlots, filled |-> n, written |-> 0]
                        ELSE IF n < EncapsMax
                        THEN [alloc |-> EncapsSlots, filled |-> n + 1, written |-> 0]
                        ELSE [alloc |-> 0, filled |-> 0, written |-> 0]
    /\ UNCHANGED <<req, image, stage, after, proc, cold, fdEnv, fdMap, ctx, told, pipe,
                   failed, life>>

\* The result of the ioctl is ignored.
WriteEncaps ==
    /\ At("WriteEncaps") /\ Ok
    /\ encaps' = [encaps EXCEPT !.written = encaps.filled]
    /\ UNCHANGED <<req, image, stage, after, proc, cold, fdEnv, fdMap, ctx, told, pipe,
                   failed, life>>

\* Entering the sandbox takes root: unshare, mounts and pivot_root (AppSandbox
\* has the steps).  A module test may do without, or ignore the result.
SetAppSandboxProperty ==
    /\ At("SetAppSandboxProperty")
    /\ \/ /\ Root /\ Ok /\ UNCHANGED failed
          /\ proc' = IF Has("no_sandbox") THEN proc ELSE [proc EXCEPT !.root = "sandbox"]
       \/ ~Root /\ Err /\ UNCHANGED <<proc, failed>>
       \/ /\ ~Has("no_sandbox") /\ UNCHANGED proc
          /\ IF Has("ignore_sandbox") THEN Ok /\ UNCHANGED failed
             ELSE Fault("SetAppSandboxProperty")
    /\ UNCHANGED AllButProc

MarkSandboxMounts == Logged("MarkSandboxMounts")

LoadSilk == Logged("LoadSilk")

SetKeepCapabilities ==
    /\ At("SetKeepCapabilities")
    /\ \/ Ok /\ proc' = [proc EXCEPT !.keepcaps = TRUE] /\ UNCHANGED failed
       \/ Fault("SetKeepCapabilities") /\ UNCHANGED proc
    /\ UNCHANGED AllButProc

\* nwebspawn has no permission to set the xpm region.
SetXpmConfig ==
    /\ At("SetXpmConfig")
    /\ \/ Ok /\ proc' = [proc EXCEPT !.xpm = ~Mode({"nweb"})] /\ UNCHANGED failed
       \/ ~Mode({"nweb"}) /\ Fault("SetXpmConfig") /\ UNCHANGED proc
    /\ UNCHANGED AllButProc

SetSchedPriority == Logged("SetSchedPriority")

\* A step of SetUidGid that only root may take.
AsRoot(step, attributes) ==
    /\ At(step)
    /\ \/ Root /\ Ok /\ proc' = attributes /\ UNCHANGED failed
       \/ ~Root /\ Err /\ UNCHANGED <<proc, failed>>
       \/ Fault(step) /\ UNCHANGED proc
    /\ UNCHANGED AllButProc

SetGroups == AsRoot("SetGroups", [proc EXCEPT !.groups = "app"])
SetGid == AsRoot("SetGid", [proc EXCEPT !.gid = "app"])

\* Leaving root clears the capabilities, all of them unless they are kept.
SetUid == AsRoot("SetUid", [proc EXCEPT !.uid = "app",
                                         !.caps = IF proc.keepcaps THEN {"all"} ELSE {}])

\* The last matching flag names the policy; a renderer gets its own policy
\* from the nweb adapter later.
SeccompPolicy ==
    IF Has("iouring") THEN "allow_iouring"
    ELSE IF Has("atomic") THEN "app_atomic"
    ELSE IF Has("isolated") THEN "imf_extension"
    ELSE IF Has("custom") THEN "app_custom"
    ELSE "app"

IsRenderer == Mode({"nweb"}) /\ Has("render")

\* Mutant: a filter that cannot be installed is only logged.
SetSeccompFilterLogged ==
    /\ At("SetSeccompFilter")
    /\ Ok /\ UNCHANGED failed
    /\ proc' \in {proc, [proc EXCEPT !.seccomp = SeccompPolicy]}
    /\ UNCHANGED AllButProc

SetSeccompFilter ==
    /\ At("SetSeccompFilter")
    /\ \/ /\ Ok /\ UNCHANGED failed
          /\ proc' = IF IsRenderer THEN proc ELSE [proc EXCEPT !.seccomp = SeccompPolicy]
       \/ ~IsRenderer /\ Fault("SetSeccompFilter") /\ UNCHANGED proc
    /\ UNCHANGED AllButProc

SetFileDescriptors ==
    /\ At("SetFileDescriptors")
    /\ \/ Ok /\ proc' = [proc EXCEPT !.stdio = "null"] /\ UNCHANGED failed
       \/ Fault("SetFileDescriptors") /\ UNCHANGED proc
    /\ UNCHANGED AllButProc

\* capset cannot add a capability that is not permitted any more.
SetCapabilities ==
    /\ At("SetCapabilities")
    /\ LET permitted == "all" \in proc.caps \/ BaseCaps = {}
       IN  \/ permitted /\ Ok /\ proc' = [proc EXCEPT !.caps = BaseCaps] /\ UNCHANGED failed
           \/ ~permitted /\ Err /\ UNCHANGED <<proc, failed>>
           \/ Fault("SetCapabilities") /\ UNCHANGED proc
    /\ UNCHANGED AllButProc

\* A native process keeps the spawner's context and needs developer mode.
SetSelinuxCon ==
    /\ At("SetSelinuxCon")
    /\ IF req.type = "nativeproc"
       THEN /\ IF Has("developer") THEN Ok /\ UNCHANGED failed ELSE Err /\ failed' = TRUE
            /\ UNCHANGED proc
       ELSE \/ Ok /\ proc' = [proc EXCEPT !.selinux = "hap"] /\ UNCHANGED failed
            \/ Fault("SetSelinuxCon") /\ UNCHANGED proc
    /\ UNCHANGED AllButProc

\* Polls /proc/self/status until a debugger is attached.
WaitForDebugger ==
    /\ At("WaitForDebugger")
    /\ ~(Has("nativedebug") /\ Has("debuggable"))
    /\ Ok
    /\ UNCHANGED <<proc, failed, AllButProc>>

DebuggerAttaches ==
    /\ At("WaitForDebugger")
    /\ Has("nativedebug") /\ Has("debuggable")
    /\ Ok
    /\ UNCHANGED <<proc, failed, AllButProc>>

(***************************************************************************)
(* STAGE_CHILD_PRE_RELY and STAGE_CHILD_POST_RELY.                         *)
(***************************************************************************)
\* The renderer's three descriptors are duplicated before the parent is told;
\* after a cold start they come from the environment and may be missing.
DupNwebRenderFdsBeforeRunHook ==
    /\ At("DupNwebRenderFdsBeforeRunHook")
    /\ LET fds == IF image = "cold" THEN fdEnv ELSE SentFds
       IN  IF ~Mode({"nweb"}) \/ Has("m114") \/ req.fds = <<>>
              \/ (image = "cold" /\ Len(fds) < 3)
           THEN Ok /\ UNCHANGED <<proc, failed>>
           ELSE IF Len(fds) < 3 THEN Err /\ failed' = TRUE /\ UNCHANGED proc
           ELSE \/ Ok /\ proc' = [proc EXCEPT !.ipc = "dup"] /\ UNCHANGED failed
                \/ Fault("DupNwebRenderFdsBeforeRunHook") /\ UNCHANGED proc
    /\ UNCHANGED AllButProc

SpawnComplete == Logged("SpawnComplete")

(***************************************************************************)
(* STAGE_CHILD_PRE_RUN (AppSpawnEnvClear).                                 *)
(***************************************************************************)
RecordStartTime == Logged("RecordStartTime")

\* The debug shell replaces the process when begetctl asked for one.
RunBegetctlBootApp ==
    /\ At("RunBegetctlBootApp")
    /\ \/ /\ Has("begetctl")
          /\ life' = "shell"
          /\ UNCHANGED <<hook, pc, ret>>
       \/ /\ ~Has("begetctl")
          /\ Ok /\ UNCHANGED life
    /\ UNCHANGED <<req, image, stage, after, proc, cold, fdEnv, fdMap, encaps, ctx, told,
                   pipe, failed>>

\* Frees the context with its message and the manager's content.
AppSpawnClearEnv ==
    /\ At("AppSpawnClearEnv")
    /\ ctx' = "freed"
    /\ Ok
    /\ UNCHANGED <<req, image, stage, after, proc, cold, fdEnv, fdMap, encaps, told, pipe,
                   failed, life>>

(***************************************************************************)
(* AppSpawnChild and AppSpawnColdRun: the stages in sequence.              *)
(***************************************************************************)
\* Mutant: the pipe stays open after an answer.
NotifyKeepsPipe(r) == told' = Append(told, r) /\ UNCHANGED pipe

Notify(r) ==
    IF pipe THEN told' = Append(told, r) /\ pipe' = FALSE
    ELSE UNCHANGED <<told, pipe>>

\* Run the PRE_RUN hooks, then go on with what.
EnvClear(what) == Enter("PRE_RUN") /\ after' = what

\* Modes whose parent is told by the ace adapter, right before the
\* application starts (AppSpawnChild: isAppspawn).
ToldByAdapter == Mode({"app"}) /\ image = "fork"

GiveUp ==
    /\ Notify("err")
    /\ EnvClear("exit")
    /\ UNCHANGED <<req, image, proc, cold, fdEnv, fdMap, encaps, ctx, failed, life>>

AfterPreColdBoot ==
    /\ StageDone("PRE_COLDBOOT")
    /\ \/ ret = "err" /\ GiveUp
       \/ /\ ret = "ok"
          /\ IF cold THEN Enter("cold") ELSE Enter("EXECUTE")
          /\ UNCHANGED <<req, image, after, proc, cold, fdEnv, fdMap, encaps, ctx, told,
                         pipe, failed, life>>

\* AppSpawnColdStartApp executes the spawner anew; it reports success even
\* when execv fails, and the child then exits.
AppSpawnColdStartApp ==
    /\ life = "setup" /\ stage = "cold"
    /\ \/ /\ image' = "cold" /\ cold' = FALSE
          /\ Enter("map") /\ UNCHANGED <<failed, life>>
       \/ /\ CanFail("WriteMsgToChild") /\ failed' = TRUE
          /\ Enter("EXECUTE") /\ UNCHANGED <<image, cold, life>>
       \/ /\ CanFail("execv") /\ failed' = TRUE /\ life' = "exited"
          /\ UNCHANGED <<image, cold, stage, hook, pc, ret>>
    /\ UNCHANGED <<req, after, proc, fdEnv, fdMap, encaps, ctx, told, pipe>>

\* GetAppSpawningCtxFromArg maps and decodes the message the parent image left.
ColdRunStart ==
    /\ life = "setup" /\ stage = "map"
    /\ \/ /\ Enter("EXECUTE")
          /\ UNCHANGED <<told, pipe, failed, life>>
       \/ /\ CanFail("GetMapMem") /\ failed' = TRUE
          /\ Notify("err") /\ life' = "exited"
          /\ UNCHANGED <<stage, hook, pc, ret>>
    /\ UNCHANGED <<req, image, after, proc, cold, fdEnv, fdMap, encaps, ctx>>

AfterExecute ==
    /\ StageDone("EXECUTE")
    /\ \/ ret = "err" /\ GiveUp
       \/ /\ ret = "ok"
          /\ Enter("PRE_RELY")
          /\ UNCHANGED <<req, image, after, proc, cold, fdEnv, fdMap, encaps, ctx, told,
                         pipe, failed, life>>

\* AppSpawnColdRun tells the parent and goes on whatever the hook returned.
AfterPreRely ==
    /\ StageDone("PRE_RELY")
    /\ \/ image = "fork" /\ ret = "err" /\ GiveUp
       \/ /\ image = "cold" \/ ret = "ok"
          /\ IF ToldByAdapter THEN UNCHANGED <<told, pipe>> ELSE Notify(ret)
          /\ Enter("POST_RELY")
          /\ UNCHANGED <<req, image, after, proc, cold, fdEnv, fdMap, encaps, ctx, failed, life>>

AfterPostRely ==
    /\ StageDone("POST_RELY")
    /\ Enter("run")
    /\ UNCHANGED <<req, image, after, proc, cold, fdEnv, fdMap, encaps, ctx, told, pipe,
                   failed, life>>

\* AppSpawnChild and AppSpawnColdRun after runChildProcessor failed.
RunFailed ==
    /\ IF ToldByAdapter THEN Notify("err") ELSE UNCHANGED <<told, pipe>>
    /\ EnvClear("exit")
    /\ UNCHANGED <<req, image, proc, cold, fdEnv, fdMap, encaps, ctx, life>>

\* Mutant: the environment of a cold start is not read back.
FdInfoMapOfConnection == IF image = "cold" \/ req.prefork THEN <<>> ELSE SentFds

\* BuildFdInfoMap of the ace and native adapters.
BuildFdInfoMap ==
    IF image = "cold" THEN fdEnv
    ELSE IF req.prefork THEN <<>>
    ELSE SentFds

\* RunChildThread of the ace adapter: clear the environment, then answer.
RunChildThread ==
    /\ life = "setup" /\ stage = "run"
    /\ Mode({"app", "hybrid"}) /\ req.type # "nativeproc"
    /\ fdMap' = IF req.type = "child" THEN BuildFdInfoMap ELSE <<>>
    /\ EnvClear("answer")
    /\ UNCHANGED <<req, image, proc, cold, fdEnv, encaps, ctx, told, pipe, failed, life>>

\* RunChildByRenderCmd of the ace adapter.
RunChildByRenderCmd ==
    /\ life = "setup" /\ stage = "run"
    /\ Mode({"app", "hybrid"}) /\ req.type = "nativeproc"
    /\ \/ /\ Has("developer")
          /\ EnvClear("execvp")
          /\ UNCHANGED <<req, image, proc, cold, fdEnv, fdMap, encaps, ctx, told, pipe, failed, life>>
       \/ /\ ~Has("developer") \/ CanFail("CommandLexer")
          /\ failed' = TRUE
          /\ RunFailed

\* RunChildThread of the native adapter, which only knows child processes.
RunNativeChild ==
    /\ life = "setup" /\ stage = "run"
    /\ Mode({"native"})
    /\ IF req.type = "child"
       THEN fdMap' = BuildFdInfoMap /\ EnvClear("app") /\ UNCHANGED life
       ELSE life' = "exited" /\ UNCHANGED <<fdMap, stage, hook, pc, ret, after>>
    /\ UNCHANGED <<req, image, proc, cold, fdEnv, encaps, ctx, told, pipe, failed>>

\* RunChildProcessor of the nweb adapter: load the engine, and for a renderer
\* set its seccomp policy.
RunNwebChild ==
    /\ life = "setup" /\ stage = "run"
    /\ Mode({"nweb"})
    /\ \/ /\ proc' = IF Has("render") THEN [proc EXCEPT !.seccomp = "renderer"] ELSE proc
          /\ EnvClear("app")
          /\ UNCHANGED <<req, image, cold, fdEnv, fdMap, encaps, ctx, told, pipe, failed, life>>
       \/ /\ CanFail("dlopen")
          /\ failed' = TRUE
          /\ RunFailed

\* The PRE_RUN hooks are done: ClearEnvAndReturnSuccess answers, the
\* application starts, or the process exits.
AfterEnvClear ==
    /\ StageDone("PRE_RUN")
    /\ IF after \in {"answer", "execvp"} THEN Notify("ok") ELSE UNCHANGED <<told, pipe>>
    /\ \/ /\ after # "exit" /\ life' = "app" /\ UNCHANGED failed
       \/ /\ after = "exit" /\ life' = "exited" /\ UNCHANGED failed
       \/ /\ after = "execvp" /\ CanFail("execvp")
          /\ failed' = TRUE /\ life' = "exited"
    /\ UNCHANGED <<req, image, stage, hook, pc, ret, after, proc, cold, fdEnv, fdMap, encaps, ctx>>

Ended == life # "setup" /\ UNCHANGED vars

Next ==
    \/ SetProcessName \/ SetAppAccessToken \/ SpawnSetPreInstalledFlag \/ SetEnvInfo
    \/ SpawnSetIsolateDir \/ SpawnSetCustomSandboxEnv \/ SetFdEnv
    \/ AsanSpawnInitSpawningEnv \/ SetDfxPreloadEnableEnv
    \/ SetInternetPermission \/ BuildEncaps \/ WriteEncaps
    \/ SetAppSandboxProperty \/ MarkSandboxMounts
    \/ LoadSilk \/ SetKeepCapabilities \/ SetXpmConfig \/ SetSchedPriority
    \/ SetGroups \/ SetGid \/ SetSeccompFilter \/ SetUid
    \/ SetFileDescriptors \/ SetCapabilities \/ SetSelinuxCon
    \/ WaitForDebugger \/ DebuggerAttaches
    \/ DupNwebRenderFdsBeforeRunHook \/ SpawnComplete
    \/ RecordStartTime \/ RunBegetctlBootApp \/ AppSpawnClearEnv
    \/ AfterPreColdBoot \/ AppSpawnColdStartApp \/ ColdRunStart
    \/ AfterExecute \/ AfterPreRely \/ AfterPostRely
    \/ RunChildThread \/ RunChildByRenderCmd \/ RunNativeChild \/ RunNwebChild
    \/ AfterEnvClear
    \/ Ended

Spec == Init /\ [][Next]_vars

(***************************************************************************)
(* Properties.  Besides these TLC checks that no state but that of a child *)
(* that ended is a deadlock: every step of every hook can be taken.        *)
(***************************************************************************)

\* Everything that has to be in force before foreign code runs, the seccomp
\* filter apart.  What a build without GRAPHIC_PERMISSION_CHECK leaves of the
\* capabilities is all of them.
Confined ==
    /\ proc.name = "app" /\ proc.token # "none"
    /\ proc.groups = "app" /\ proc.gid = "app" /\ proc.uid = "app"
    /\ proc.caps = BaseCaps
    /\ proc.selinux = "hap" \/ req.type = "nativeproc"
    /\ proc.root = "sandbox" \/ Has("no_sandbox") \/ Has("ignore_sandbox")
    /\ proc.stdio = "null"

\* Application code runs only in a process that has its token, ids,
\* capabilities, SELinux context, sandbox and seccomp filter: no path through
\* a failed hook, a cold start or an adapter gets around one of them.
AppRunsConfined == life = "app" => Confined /\ proc.seccomp # "none"

\* The parent is told exactly once by every child that ends or becomes an
\* application, and told success only by a confined child: the pipe is closed
\* by the first answer, whoever of AppSpawnChild, AppSpawnColdRun and the
\* adapter gives it.  The one child that leaves in silence is that whose
\* execv failed in AppSpawnColdStartApp: the parent learns it from SIGCHLD.
\* The one that runs although it reported an error is a cold-started renderer
\* that could not duplicate its descriptors, for AppSpawnColdRun goes on.
ToldOnce ==
    /\ Len(told) <= 1
    /\ life \in {"app", "exited"} => Len(told) = 1 \/ (life = "exited" /\ stage = "cold")
    /\ told = <<"ok">> => Confined
    /\ life = "app" => told = <<"ok">> \/ (image = "cold" /\ Mode({"nweb"}))

\* Without a failure of a step the order of the hooks and of their calls always
\* leads to the application: no step comes after the privilege it needs is
\* gone.  (nativespawn refuses what is not a child process.)
RunsUnlessFailed ==
    life = "exited" => failed \/ (Mode({"native"}) /\ req.type # "child")

\* A child process gets the descriptors its request carried, by name, through
\* a cold start too; a renderer has them duplicated before success is reported.
DescriptorsDelivered ==
    life = "app" =>
      /\ req.type = "child" /\ ~Mode({"nweb"}) => fdMap = SentFds
      /\ Mode({"nweb"}) /\ Len(SentFds) >= 3 /\ ~Has("m114") =>
           proc.ipc = "dup" \/ told = <<"err">>

=============================================================================
