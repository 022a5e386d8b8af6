------------------------------ MODULE AppSandbox ------------------------------
(***************************************************************************)
(* The normal (json) sandbox.  Before the fork the spawner decides whether *)
(* the application is a controlled one (the list the DLP service writes)   *)
(* and, in developer mode, builds the debug sandbox of its bundle in the   *)
(* host's mount namespace.  The child then enters a mount namespace of its *)
(* own, makes the mounts, links and groups the configuration asks for, in  *)
(* the order of the configuration, changes its root and sends the data     *)
(* access (DEC) policies it collected to the kernel.                       *)
(*                                                                         *)
(* The configuration is a constant.  What a request makes of it is a plan: *)
(* a sequence of steps, each with the scopes it lies in and the scope that *)
(* the code leaves when the step fails.                                    *)
(*                                                                         *)
(* The model is of one spawner; the others share with it the list's file   *)
(* and the parameter that announces it.  Memory is not exhausted: an       *)
(* allocation that failed in SetDecPolicyInfos would empty the table, as   *)
(* an overflow does.                                                       *)
(***************************************************************************)
EXTENDS Naturals, Sequences, FiniteSets, SequencesExt

CONSTANTS
    Dirs,          \* the policy directories: the app and the isolated document of each
    NoDoc,         \* a document that is missing or not an object
    NoSection,     \* a section that is missing from a document
    Requests,      \* the spawn requests
    Modes,         \* modes of the spawner: "app", "nweb"
    Owners,        \* owner ids the DLP service may put on its list
    NoShareFs,     \* IsNoShareFsEnable()
    PidNsSupport,  \* const.sandbox.pidns.support
    AppMaxGids,    \* APP_MAX_GIDS
    MaxPolicyNum,  \* MAX_POLICY_NUM
    BatchSize,     \* KERNEL_BATCH_SIZE
    MaxFaults,     \* bound: system calls that fail
    MaxUpdates,    \* bound: lists the DLP service writes
    MaxSpawns      \* bound: spawn requests

VARIABLES
    mode,      \* the spawner's mode
    dlp,       \* file: the list, status: the parameter, pending: written and not notified, fuse
    cache,     \* controlledApps_, cacheLoaded; missed: another spawner has answered since the load
    debug,     \* dirs, mounts: of debug points; share: bundles with a sharefs; gone: uninstalled
    req,       \* the request being spawned
    phase,     \* what is executed next
    crypto,    \* the status ComputeForSpawn read
    flags,     \* TLV_MSG_FLAGS of the message
    ns,        \* namespaces of the child and whether its tree is a slave
    todo,      \* steps of the plan that are left
    mnt,       \* mounts of the child's namespace: [at, from, sect]
    lost,      \* the scopes that a failing step has left
    leaked,    \* mounts of the child that reached the host's namespace
    rootMnt,   \* the sandbox root is a mount point
    root,      \* "host", "pivoted" (the old root still attached) or "sandbox"
    gids,      \* dacInfo->gidTable
    links,     \* symbolic links made
    noted,     \* an overlay mount failed
    dec,       \* g_decPolicyInfos: the policies collected, or <<>> when there is none
    kernel,    \* the batches of policies, a batch the kernel refused empty
    result,    \* of SetAppSandboxProperty
    faults, spawns

\* A configuration is what the parser has let through: the lists of a document
\* are sequences wherever the code walks them.
IsSeq(s) == s \in Seq(Range(s))

HasPoints(s) ==
    /\ IsSeq(s.mounts) /\ IsSeq(s.links)
    /\ \A pt \in Range(s.mounts) : IsSeq(pt.dec.rw) /\ IsSeq(pt.dec.ro)

IsSection(s) ==
    /\ HasPoints(s) /\ IsSeq(s.gids) /\ IsSeq(s.flagPoints)
    /\ \A p \in Range(s.flagPoints) : HasPoints(p)

IsDocument(d) ==
    /\ \A s \in {d.base, d.resources, d.daemon, d.nocheck} \ {NoSection} : IsSection(s)
    /\ \A b \in DOMAIN d.private : IsSection(d.private[b])
    /\ IsSeq(d.permission)
    /\ \A p \in Range(d.permission) : HasPoints(p) /\ IsSeq(p.gids)
    /\ d.debug # NoSection =>
          /\ IsSeq(d.debug.common) /\ IsSeq(d.debug.permission)
          /\ \A p \in Range(d.debug.permission) : IsSeq(p.mounts)

\* No isolated document that is shipped (appdata-sandbox-isolated.json,
\* appdata-sandbox-isolated-new.json) has a debug section.
ASSUME ConfigAssumption ==
    /\ IsSeq(Dirs)
    /\ \A d \in Range(Dirs) :
          /\ d.app # NoDoc => IsDocument(d.app)
          /\ d.isolated # NoDoc => IsDocument(d.isolated) /\ d.isolated.debug = NoSection

\* The flags with an index above 31 (appspawn.h): a message whose TLV_MSG_FLAGS
\* has one word only (r.wide is FALSE) cannot carry them.
SecondWord == {"CONTROLLED", "ALLOW_IOURING", "FILE_CROSS_APP", "FILE_ACCESS_COMMON_DIR"}

ASSUME RequestsAssumption ==
    \A r \in Requests : /\ IsSeq(r.hsp) /\ IsSeq(r.groups) /\ IsSeq(r.overlays)
                        /\ ~r.wide => r.flags \cap SecondWord = {}

\* DEC_DENY_PATH_MAP, by permission.
DenyMap == <<"DOWNLOAD", "DESKTOP", "DOCUMENTS">>

\* KERNEL_BATCH_SIZE is 8: the denials fit into one request to the kernel.
ASSUME LimitsAssumption == MaxPolicyNum \in Nat /\ BatchSize \in Nat /\ BatchSize >= Len(DenyMap)

child == <<ns, todo, mnt, lost, leaked, rootMnt, root, gids, links, noted, dec, kernel, result>>
vars == <<mode, dlp, cache, debug, req, phase, crypto, flags, child, faults, spawns>>

(***************************************************************************)
(* The configuration.                                                      *)
(***************************************************************************)
Each(s, F(_)) == FlattenSeq([i \in DOMAIN s |-> F(s[i])])
EachDoc(docs, F(_, _)) == FlattenSeq([i \in DOMAIN docs |-> F(docs[i], i)])

\* LoadAppSandboxConfigCJson: a directory without an app document is passed
\* over together with its isolated document.
AppDirs == Each(Dirs, LAMBDA d : IF d.app = NoDoc THEN <<>> ELSE <<d>>)
IsolatedDirs == Each(AppDirs, LAMBDA d : IF d.isolated = NoDoc THEN <<>> ELSE <<d>>)
Documents(isolated) ==
    IF isolated THEN [i \in DOMAIN IsolatedDirs |-> IsolatedDirs[i].isolated]
    ELSE [i \in DOMAIN AppDirs |-> AppDirs[i].app]

Docs(f) == Documents("ISOLATED_TYPE" \in f)

\* IsTotalSandboxEnabled: the first document with a common section decides.
IsTotalSandboxEnabled(docs) ==
    LET with == {i \in DOMAIN docs : docs[i].common}
    IN  with = {} \/ docs[CHOOSE i \in with : \A j \in with : i <= j].switch

\* GetSandboxNsFlags reads the app documents up to the first without the array
\* it looks in; LoadAppSandboxConfigCJson keeps the result unless pid
\* namespaces are not supported.
NsFlags ==
    LET docs == Documents(FALSE)
        Has(i) == IF mode = "nweb" THEN docs[i].individual ELSE docs[i].common
        read == {i \in DOMAIN docs : \A j \in 1..i : Has(j)}
        of(i) == IF mode = "nweb" THEN docs[i].renderNs ELSE docs[i].ns
    IN  IF ~IsTotalSandboxEnabled(docs) \/ (mode # "nweb" /\ ~PidNsSupport) THEN {}
        ELSE UNION {of(i) : i \in read}

\* NeedNetworkIsolated.
NeedNetworkIsolated(r) ==
    \/ "ISOLATED" \in r.flags /\ ~r.developer
    \/ "ISOLATED_NETWORK" \in r.flags /\ (~r.extension \/ ~r.developer)

(***************************************************************************)
(* The plan of a request.                                                  *)
(***************************************************************************)
\* What a failing step leaves: everything, nothing, or nothing until the end of
\* the overlays; any other scope is one that the following steps may lie in.
Abort == <<"abort">>
OnlyLogged == <<"logged">>
Note == <<"noted">>

Step(op, arg, sect, scopes, fail) ==
    [op |-> op, arg |-> arg, sect |-> sect, scopes |-> scopes, fail |-> fail]

\* A mount without DEC paths.
NoDec == [rw |-> <<>>, ro |-> <<>>]

Controlled(f) == "CONTROLLED" \in f

\* ResolveMountSrcPath: what the point is mounted from.
MountSrc(pt, f) == IF Controlled(f) /\ pt.fuse THEN "fuse" ELSE pt.src

\* HandleFlagsPoint with the two flags of preinstalled applications.
FlagHolds(flag, f) ==
    CASE flag = "PREINSTALLED_HAP" -> {"PREINSTALLED"} \subseteq f /\ "CUSTOM_SANDBOX" \notin f
      [] flag = "PREINSTALLED_SHELL_HAP" -> {"PREINSTALLED", "CUSTOM_SANDBOX"} \subseteq f
      [] OTHER -> flag \in f

\* CheckMountFlag: the special case of wps bundles.
CheckMountFlag(s, r, f) == r.wps /\ FlagHolds(s.flag, f)

\* TryControlledSkip.
TryControlledSkip(pt, f) == Controlled(f) /\ pt.skip

\* IsValidMountConfig: a point for another privilege level, which a wps bundle
\* does not get for its own data directories.
IsValidMountConfig(pt, r, checkFlag) ==
    /\ r.domain # "none"
    /\ pt.apl # r.domain
    /\ ~(checkFlag /\ pt.appData)

\* The early returns of ProcessMountPointCommmon: the points that are mounted
\* at all; the configuration is not validated for a fuse path.
ProcessMountPoint(pt, r, f, checkFlag) ==
    /\ ~TryControlledSkip(pt, f)
    /\ MountSrc(pt, f) # "none"
    /\ MountSrc(pt, f) = "fuse" \/ IsValidMountConfig(pt, r, checkFlag)
    /\ pt.ifExists => pt.exists

\* IsMountSuccessful, or the fuse path of a controlled application.
IsMountCritical(pt, f) == pt.must \/ MountSrc(pt, f) = "fuse"

\* ExecuteMountOnce of one point that applies; a critical failure leaves scope.
MountSteps(pt, s, sect, r, f, scopes, scope) ==
    IF ~ProcessMountPoint(pt, r, f, CheckMountFlag(s, r, f)) THEN <<>>
    ELSE <<Step("mount", [at |-> pt.at, from |-> MountSrc(pt, f), dec |-> pt.dec],
                sect, scopes, IF IsMountCritical(pt, f) THEN scope ELSE OnlyLogged)>>

\* DoAllMntPointsMount and its Nocheck form.
DoAllMntPointsMount(s, sect, r, f, scopes, scope) ==
    Each(s.mounts, LAMBDA pt : MountSteps(pt, s, sect, r, f, scopes, scope))

\* DoAllCreateOnDaemonMount: the source directory is made first; when that
\* fails, or the point does not say whose directory it is (pt.info), the point
\* is passed over, a critical one too.
DoAllCreateOnDaemonMount(s, r, f) ==
    Each(s.mounts, LAMBDA pt :
        IF pt.src = "none" THEN <<>>
        ELSE <<Step("mkdir", pt.info, "create-on-daemon", {<<pt.at>>}, <<pt.at>>)>>
             \o MountSteps(pt, s, "create-on-daemon", r, f, {<<pt.at>>}, Abort))

DoAllSymlinkPointslink(s, scopes, scope) ==
    Each(s.links, LAMBDA l :
        <<Step("symlink", l.name, "symlink", scopes, IF l.must THEN scope ELSE OnlyLogged)>>)

DoAddGid(s, sect) == Each(s.gids, LAMBDA g : IF g = 0 THEN <<>> ELSE <<Step("gid", g, sect, {}, OnlyLogged)>>)

\* HandleFlagsPoint: for a preinstalled application only the mounts are made.
HandleFlagsPoint(s, sect, r, f, scopes, scope) ==
    Each(s.flagPoints, LAMBDA p :
        IF ~FlagHolds(p.flag, f) THEN <<>>
        ELSE (IF p.flag \in {"PREINSTALLED_HAP", "PREINSTALLED_SHELL_HAP"} THEN <<>>
              ELSE DoAllSymlinkPointslink(p, scopes \cup {<<sect, p.flag>>}, <<sect, p.flag>>))
             \o DoAllMntPointsMount(p, sect, r, f, scopes, scope))

\* GetFirstSubConfig: the first common section that is missing ends the walk.
Reaches(d, k) ==
    d.common /\ \A j \in 1..k : <<d.base, d.resources, d.daemon, d.nocheck>>[j] # NoSection

DoSandboxFileCommonBind(d, r, f) ==
    (IF Reaches(d, 1) THEN DoAllMntPointsMount(d.base, "app-base", r, f, {}, Abort) ELSE <<>>)
    \o (IF Reaches(d, 2) THEN DoAllMntPointsMount(d.resources, "app-resources", r, f, {}, Abort) ELSE <<>>)
    \o (IF Reaches(d, 3) THEN DoAllCreateOnDaemonMount(d.daemon, r, f) ELSE <<>>)
    \o (IF Reaches(d, 4) THEN DoAllMntPointsMount(d.nocheck, "app-nocheck", r, f, {}, Abort) ELSE <<>>)

DoSandboxFileCommonSymlink(d) ==
    (IF Reaches(d, 1) THEN DoAllSymlinkPointslink(d.base, {}, Abort) ELSE <<>>)
    \o (IF Reaches(d, 2) THEN DoAllSymlinkPointslink(d.resources, {}, Abort) ELSE <<>>)

\* SetCommonAppSandboxProperty_.  IsAppSandboxEnabled looks for the bundle in
\* the array "individual" itself, where no entry has a name, so it always
\* answers yes and only the total switch counts.
CommonSteps(d, r, f) ==
    DoSandboxFileCommonBind(d, r, f)
    \o (IF IsTotalSandboxEnabled(Docs(f)) THEN DoSandboxFileCommonSymlink(d) ELSE <<>>)
    \o (IF d.common /\ d.resources # NoSection
        THEN HandleFlagsPoint(d.resources, "flags-point", r, f, {}, Abort) ELSE <<>>)

\* An entry of the hsp or the data group list: mounted, passed over or malformed.
ListEntry(e, sect, r) ==
    CASE e = "bad" -> <<Step("malformed", e, sect, {}, Abort)>>
      [] e = "el5" /\ "SCREEN_LOCK" \notin r.perms -> <<>>
      [] OTHER -> <<Step("mount", [at |-> e, from |-> e, dec |-> NoDec], sect, {}, OnlyLogged)>>

MountAllHsp(r) == Each(r.hsp, LAMBDA e : ListEntry(e, "hsp", r))
MountAllGroup(r) == Each(r.groups, LAMBDA e : ListEntry(e, "group", r))

\* SetCommonAppSandboxProperty after the documents: libraries, groups, and the
\* bundle directory for system applications.
SetCommonAppSandboxProperty(r, f) ==
    EachDoc(Docs(f), LAMBDA d, i : CommonSteps(d, r, f))
    \o MountAllHsp(r) \o MountAllGroup(r)
    \o (CASE r.domain = "none" -> <<Step("malformed", "domain", "common", {}, Abort)>>
          [] r.domain \in {"system_basic", "system_core"} \/ "ACCESS_BUNDLE_DIR" \in f ->
                <<Step("mount", [at |-> "bundles", from |-> "bundles", dec |-> NoDec], "common", {}, OnlyLogged)>>
          [] OTHER -> <<>>)

\* CheckSystemAppByTokenId or CheckPrivateOwnerId.
OwnsPrivate(s, r) == r.system \/ (r.owner # "none" /\ r.owner = s.owner)

\* SetPrivateAppSandboxProperty_: mounts and groups only for the owner; the
\* links and the flag points of the section are not asked who owns them.
PrivateSteps(d, i, r, f) ==
    IF ~d.individual \/ r.bundle \notin DOMAIN d.private THEN <<>>
    ELSE LET s == d.private[r.bundle] IN
         (IF OwnsPrivate(s, r)
          THEN DoAddGid(s, "individual") \o DoAllMntPointsMount(s, "individual", r, f, {}, Abort)
          ELSE <<>>)
         \o DoAllSymlinkPointslink(s, {<<"private", i>>}, <<"private", i>>)
         \o HandleFlagsPoint(s, "individual-flags", r, f, {}, Abort)

\* DoSandboxFilePermissionBind.
PermissionSteps(d, i, r, f) ==
    Each(d.permission, LAMBDA p :
        IF p.perm \notin r.perms THEN <<>>
        ELSE DoAddGid(p, "permission") \o DoAllMntPointsMount(p, "permission", r, f, {}, Abort)
             \o DoAllSymlinkPointslink(p, {<<p.perm, i>>}, <<p.perm, i>>))

\* SetOverlayAppSandboxProperty: every directory once; a failure is returned
\* after all of them have been tried.
SetOverlayAppSandboxProperty(r, f) ==
    IF "OVERLAY" \notin f THEN <<>>
    ELSE Each(r.overlays, LAMBDA o :
             <<Step("mount", [at |-> o, from |-> o, dec |-> NoDec], "overlay", {}, Note)>>)
         \o <<Step("noted", "overlay", "overlay", {}, Abort)>>

SetBundleResourceAppSandboxProperty(f) ==
    IF "BUNDLE_RESOURCES" \notin f THEN <<>>
    ELSE <<Step("mount", [at |-> "resources", from |-> "resources", dec |-> NoDec], "bundle", {}, Abort)>>

\* SetSandboxProperty.
SetSandboxProperty(r, f) ==
    SetCommonAppSandboxProperty(r, f)
    \o (IF r.internal THEN <<>> ELSE EachDoc(Docs(f), LAMBDA d, i : PrivateSteps(d, i, r, f)))
    \o EachDoc(Docs(f), LAMBDA d, i : PermissionSteps(d, i, r, f))
    \o SetOverlayAppSandboxProperty(r, f) \o SetBundleResourceAppSandboxProperty(f)

\* SetRenderSandboxPropertyNweb: a failing flag point ends only that document's
\* flag points.
RenderSteps(d, i, r, f) ==
    LET s == d.private[r.processType] IN
    IF ~d.individual \/ r.processType \notin DOMAIN d.private THEN <<>>
    ELSE DoAllMntPointsMount(s, r.processType, r, f, {}, Abort)
         \o DoAllSymlinkPointslink(s, {}, Abort)
         \o HandleFlagsPoint(s, "individual-flags", r, f, {<<"flags", i>>}, <<"flags", i>>)

SetRenderSandboxPropertyNweb(r, f) ==
    (IF r.processType = "none" THEN <<Step("malformed", "processType", "nweb", {}, Abort)>>
     ELSE EachDoc(Docs(f), LAMBDA d, i : RenderSteps(d, i, r, f)))
    \o SetOverlayAppSandboxProperty(r, f) \o SetBundleResourceAppSandboxProperty(f)

PlanOf(r, f) == IF mode = "nweb" THEN SetRenderSandboxPropertyNweb(r, f) ELSE SetSandboxProperty(r, f)

(***************************************************************************)
(* The controlled application list.  The DLP service writes the file and   *)
(* then sets security.dlp.transparent.crypto.status to 2; the spawner that *)
(* reads 2 answers with 1 and reads the file into its own cache.           *)
(***************************************************************************)
Fault == faults < MaxFaults /\ faults' = faults + 1
NoFault == UNCHANGED faults

NoRequest == CHOOSE r \in Requests : TRUE

NoList == [apps |-> {}, loaded |-> FALSE, missed |-> FALSE]

Init ==
    /\ mode \in Modes
    /\ dlp = [file |-> {}, status |-> 0, pending |-> FALSE, n |-> 0, fuse |-> FALSE]
    /\ cache = NoList
    /\ debug = [dirs |-> {}, mounts |-> {}, share |-> {}, gone |-> {}]
    /\ req = NoRequest /\ phase = "idle" /\ crypto = 0 /\ flags = {}
    /\ ns = {} /\ todo = <<>> /\ mnt = {} /\ lost = {} /\ leaked = {}
    /\ rootMnt = FALSE /\ root = "host" /\ gids = <<>> /\ links = {} /\ noted = FALSE
    /\ dec = <<>> /\ kernel = <<>> /\ result = "none"
    /\ faults = 0 /\ spawns = 0

\* The list matters to the spawner only while it decides; a write or a notice
\* at any later moment has the effect of one at the next of these phases.
DlpPhases == {"idle", "ack", "load", "match"}

WriteList(apps) ==
    /\ phase \in DlpPhases
    /\ dlp.n < MaxUpdates /\ ~dlp.pending
    /\ dlp' = [dlp EXCEPT !.file = apps, !.pending = TRUE, !.n = @ + 1]
    /\ UNCHANGED <<mode, cache, debug, req, phase, crypto, flags, child, faults, spawns>>

Notify ==
    /\ phase \in DlpPhases
    /\ dlp.pending
    /\ dlp' = [dlp EXCEPT !.status = 2, !.pending = FALSE]
    /\ UNCHANGED <<mode, cache, debug, req, phase, crypto, flags, child, faults, spawns>>

\* The spawner is restarted: the cache is gone, the parameter is not.
Restart ==
    /\ phase = "idle" /\ cache.loaded
    /\ cache' = NoList
    /\ UNCHANGED <<mode, dlp, debug, req, phase, crypto, flags, child, faults, spawns>>

\* Another spawner, with a cache of its own, reads the parameter first and
\* answers the announcement, for itself only.
OtherAcks ==
    /\ phase \in DlpPhases /\ dlp.status = 2
    /\ dlp' = [dlp EXCEPT !.status = 1]
    /\ cache' = [cache EXCEPT !.missed = TRUE]
    /\ UNCHANGED <<mode, debug, req, phase, crypto, flags, child, faults, spawns>>

\* A spawn request reaches STAGE_PARENT_PRE_FORK; ComputeForSpawn clears the
\* client's flag and reads the parameter.
ComputeForSpawn(r) ==
    /\ phase = "idle" /\ spawns < MaxSpawns
    /\ r.mode = mode
    /\ req' = r
    /\ spawns' = spawns + 1
    /\ flags' = r.flags \ {"CONTROLLED"}
    /\ crypto' = dlp.status
    /\ gids' = r.gids
    /\ phase' = CASE dlp.status = 0 -> "install"
                  [] dlp.status = 2 -> "ack"
                  [] OTHER -> IF cache.loaded THEN "match" ELSE "load"
    /\ UNCHANGED <<mode, dlp, cache, debug, ns, todo, mnt, lost, leaked, rootMnt, root, links,
                   noted, dec, kernel, result, faults>>

\* Mutant: the file is read before the parameter is set.
LoadThenAck ==
    /\ phase \in {"ack", "load"}
    /\ \/ /\ phase = "ack" /\ NoFault
          /\ cache' = [apps |-> dlp.file, loaded |-> TRUE, missed |-> FALSE]
          /\ phase' = "load" /\ UNCHANGED dlp
       \/ /\ phase = "load" /\ NoFault /\ crypto = 2
          /\ dlp' = [dlp EXCEPT !.status = 1]
          /\ phase' = "match" /\ UNCHANGED cache
    /\ UNCHANGED <<mode, debug, req, crypto, flags, child, spawns>>

\* EnsureCacheLoaded, CRYPTO_UPDATE: the parameter is set before the file is read.
AckUpdate ==
    /\ phase = "ack"
    /\ phase' = "load"
    /\ \/ NoFault /\ dlp' = [dlp EXCEPT !.status = 1]
       \/ Fault /\ UNCHANGED dlp
    /\ UNCHANGED <<mode, cache, debug, req, crypto, flags, child, spawns>>

\* LoadFromJsonLocked; without the list the application is spawned uncontrolled.
LoadFromJson ==
    /\ phase = "load"
    /\ \/ /\ NoFault
          /\ cache' = [apps |-> dlp.file, loaded |-> TRUE, missed |-> FALSE]
          /\ phase' = "match"
       \/ /\ Fault
          /\ cache' = [cache EXCEPT !.loaded = FALSE]
          /\ phase' = "install"
    /\ UNCHANGED <<mode, dlp, debug, req, crypto, flags, child, spawns>>

Ended == phase' = "ended"

\* The rest of ComputeForSpawn: without the security context, or room for the
\* flag of a controlled application, the spawn is refused.
MatchControlled ==
    /\ phase = "match"
    /\ IF ~req.dac \/ req.owner = "none" \/ (req.owner \in cache.apps /\ ~req.wide) THEN
            /\ Ended /\ result' = "refused"
            /\ UNCHANGED flags
       ELSE /\ flags' = IF req.owner \in cache.apps THEN flags \cup {"CONTROLLED"} ELSE flags
            /\ phase' = "install" /\ UNCHANGED result
    /\ UNCHANGED <<mode, dlp, cache, debug, req, crypto, ns, todo, mnt, lost, leaked, rootMnt, root,
                   gids, links, noted, dec, kernel, faults, spawns>>

(***************************************************************************)
(* The debug sandbox of a bundle, in the host's mount namespace.           *)
(***************************************************************************)
\* The sections a request's debug points come from.
DebugSections(docs, perms) ==
    FlattenSeq([i \in DOMAIN docs |->
        IF docs[i].debug = NoSection THEN <<>>
        ELSE <<docs[i].debug.common>>
             \o Each(docs[i].debug.permission, LAMBDA p : IF p.perm \in perms THEN <<p.mounts>> ELSE <<>>)])

\* One point of DoMountDebugPoints.  A path that exists is left alone, or is
\* unmounted (which fails when nothing is mounted there) and mounted again for
\* an atomic service; a failing mount (left half done when only the change of
\* propagation failed) ends the section.
MountDebugPoint(g, p, atomic, failing, half) ==
    CASE g.stop -> g
      [] p \in g.dirs /\ (~atomic \/ p \notin g.mounts) -> g
      [] OTHER -> [dirs |-> g.dirs \cup {p},
                   mounts |-> IF p \in failing /\ ~half THEN g.mounts \ {p} ELSE g.mounts \cup {p},
                   stop |-> p \in failing]

DoMountDebugPoints(g, b, section, atomic, failing, half) ==
    LET after[k \in 0..Len(section)] ==
          IF k = 0 THEN [dirs |-> g.dirs, mounts |-> g.mounts, stop |-> FALSE]
          ELSE MountDebugPoint(after[k - 1], <<b, section[k]>>, atomic, failing, half)
    IN  after[Len(section)]

\* The sections one after another, each whatever became of the one before.
MountDebugSections(g, b, sections, atomic, failing, half) ==
    LET after[k \in 0..Len(sections)] ==
          IF k = 0 THEN g ELSE DoMountDebugPoints(after[k - 1], b, sections[k], atomic, failing, half)
    IN  after[Len(sections)]

\* InstallDebugSandbox, with the sharefs of MountDebugSharefs at its end: made
\* once, from a directory that the points have created.
InstallDebugSandbox ==
    /\ phase = "install"
    /\ phase' = "child"
    /\ IF ~req.developer \/ req.provision # "debug" THEN UNCHANGED <<debug, faults>>
       ELSE \E failing \in {{}} \cup {{<<req.bundle, pt>>} : pt \in Range(FlattenSeq(
                                DebugSections(Docs(flags), req.perms)))},
               half, sharefs \in BOOLEAN :
              LET g == MountDebugSections([dirs |-> debug.dirs, mounts |-> debug.mounts, stop |-> FALSE],
                                          req.bundle, DebugSections(Docs(flags), req.perms),
                                          "ATOMIC" \in flags, failing, half)
                  made == \E p \in g.dirs : p[1] = req.bundle
              IN  /\ IF failing = {} /\ sharefs THEN NoFault ELSE Fault
                  /\ failing = {} => ~half
                  /\ ~sharefs => failing = {} /\ made /\ req.bundle \notin debug.share
                  /\ debug' = [dirs |-> g.dirs, mounts |-> g.mounts,
                               share |-> IF sharefs /\ made THEN debug.share \cup {req.bundle} ELSE debug.share,
                               gone |-> debug.gone \ {req.bundle}]
    /\ UNCHANGED <<mode, dlp, cache, req, crypto, flags, child, spawns>>

AllPerms == UNION {r.perms : r \in Requests}

\* Mutant: only the common section's points are unmounted.
CommonPoints(b, isolated) ==
    {<<b, pt>> : pt \in Range(FlattenSeq(DebugSections(Documents(isolated), {})))}

\* DoUninstallDebugSandbox for every section, whatever permissions are held.
\* It unmounts the sandbox-path as it is written, an installation mounts at the
\* one ConvertDebugRealPath makes of it: no shipped debug point has a variable
\* in its sandbox-path, so the two agree, and a point has one name here.
UninstallPoints(b, isolated) ==
    {<<b, pt>> : pt \in Range(FlattenSeq(DebugSections(Documents(isolated), AllPerms)))}

\* UninstallDebugSandbox of one bundle, or of every bundle that has a
\* directory when the message names none; the message's flag, not that of the
\* installation, selects the documents.  A path whose unmount fails stays.
UninstallDebugSandbox(bundles, isolated) ==
    /\ phase = "idle"
    /\ \E stuck \in {{}} \cup {{p} : p \in debug.mounts} :
          LET points == (UNION {UninstallPoints(b, isolated) : b \in bundles}) \cap debug.dirs IN
          /\ IF stuck = {} THEN NoFault ELSE Fault
          /\ debug' = [dirs |-> debug.dirs \ (points \ stuck),
                       mounts |-> debug.mounts \ (points \ stuck),
                       share |-> debug.share \ bundles,
                       gone |-> IF stuck = {} /\ ~isolated THEN debug.gone \cup bundles ELSE debug.gone]
    /\ UNCHANGED <<mode, dlp, cache, req, phase, crypto, flags, child, spawns>>

(***************************************************************************)
(* The child.                                                              *)
(***************************************************************************)
host == <<mode, dlp, cache, debug, req, crypto, spawns>>

\* SetAppSandboxProperty ignores the result for a test that asks for it.
Fail == Ended /\ result' = IF "IGNORE_SANDBOX" \in flags THEN "ignored" ELSE "failed"

\* A system call that may fail and then ends SetAppSandboxProperty.
OrFail(ok) == (NoFault /\ ok) \/ (Fault /\ Fail)

\* SetAppSandboxProperty of the manager: no sandbox, or getprocpid first.
StartSandbox ==
    /\ phase = "child"
    /\ CASE "NO_SANDBOX" \in flags -> NoFault /\ Ended /\ result' = "none"
         [] "NO_SANDBOX" \notin flags /\ "pid" \in NsFlags ->
                OrFail(phase' = "check" /\ UNCHANGED result)
         [] OTHER -> NoFault /\ phase' = "check" /\ UNCHANGED result
    /\ UNCHANGED <<host, flags, ns, todo, mnt, lost, leaked, rootMnt, root, gids, links, noted, dec, kernel>>

\* CheckBundleName and the dac info; the directory is made, with or without success.
CheckProperty ==
    /\ phase = "check"
    /\ IF req.bundle = "invalid" \/ (mode # "nweb" /\ ~req.dac) THEN Fail
       ELSE phase' = (IF mode # "nweb" /\ req.dlp THEN "dlp" ELSE "unshare") /\ UNCHANGED result
    /\ UNCHANGED <<host, faults, flags, ns, todo, mnt, lost, leaked, rootMnt, root, gids, links,
                   noted, dec, kernel>>

FuseMount == [at |-> "fuse", from |-> "fuse", sect |-> "dlp"]

\* HandleDlpMount, still in the host's namespace: the fuse mount of the user is
\* detached, made again there and shared; a failure, before the mount or of the
\* sharing, is only logged.
HandleDlpMount ==
    /\ phase = "dlp"
    /\ phase' = "unshare"
    /\ \/ NoFault /\ dlp' = [dlp EXCEPT !.fuse = TRUE] /\ leaked' = leaked \cup {FuseMount}
       \/ Fault /\ dlp' = [dlp EXCEPT !.fuse = FALSE] /\ leaked' \in {leaked, leaked \cup {FuseMount}}
    /\ UNCHANGED <<mode, cache, debug, req, crypto, flags, spawns, ns, todo, mnt, lost, rootMnt, root,
                   gids, links, noted, dec, kernel, result>>

\* EnableSandboxNamespace; setting up the network namespace may fail unnoticed.
EnableSandboxNamespace ==
    /\ phase = "unshare"
    /\ LET net == IF NeedNetworkIsolated(req) THEN NsFlags \cap {"net"} ELSE {}
       IN  \/ /\ NoFault /\ ns' = {"mnt"} \cup net
              /\ phase' = (IF mode = "nweb" THEN "root" ELSE "flags") /\ UNCHANGED result
           \/ Fault /\ Fail /\ UNCHANGED ns
    /\ UNCHANGED <<host, flags, todo, mnt, lost, leaked, rootMnt, root, gids, links, noted, dec, kernel>>

\* UpdatePointFlags, which fails without room for its flag, and
\* UpdateMsgFlagsWithPermission, which then only logs.
UpdatePointFlags ==
    /\ phase = "flags"
    /\ LET points == IF "FILE_ACCESS_MANAGER" \in req.perms THEN {}
                     ELSE {IF NoShareFs THEN "FILE_CROSS_APP" ELSE "FILE_ACCESS_COMMON_DIR"}
           perms == {"GET_ALL_PROCESSES", "ALLOW_IOURING"} \cap req.perms
       IN  IF points # {} /\ ~req.wide THEN Fail /\ UNCHANGED flags
           ELSE /\ flags' = flags \cup points \cup (IF req.wide THEN perms ELSE perms \ SecondWord)
                /\ phase' = "root" /\ UNCHANGED result
    /\ UNCHANGED <<host, faults, ns, todo, mnt, lost, leaked, rootMnt, root, gids, links, noted, dec, kernel>>

\* Mutant: the tree is left shared with the host.
KeepSharedTree ==
    /\ phase = "root"
    /\ NoFault /\ rootMnt' = TRUE /\ todo' = PlanOf(req, flags) /\ phase' = "plan"
    /\ UNCHANGED <<host, flags, result, ns, mnt, lost, leaked, root, gids, links, noted, dec, kernel>>

\* DoSandboxRootFolderCreate, or its Adapt form with the switch off.  "/" must
\* become a slave; only the Adapt form looks at the mount of the root.
DoSandboxRootFolderCreate ==
    /\ phase = "root"
    /\ \/ Fault /\ Fail /\ UNCHANGED <<ns, rootMnt, todo>>
       \/ \E mounted \in BOOLEAN :
            /\ IF mounted THEN NoFault ELSE Fault
            /\ ns' = ns \cup {"slave"}
            /\ rootMnt' = mounted
            /\ IF ~mounted /\ ~IsTotalSandboxEnabled(Docs(flags)) THEN Fail /\ UNCHANGED todo
               ELSE todo' = PlanOf(req, flags) /\ phase' = "plan" /\ UNCHANGED result
    /\ UNCHANGED <<host, flags, mnt, lost, leaked, root, gids, links, noted, dec, kernel>>

AtStep(op) == phase = "plan" /\ todo # <<>> /\ Head(todo).op = op

Go == todo' = Tail(todo) /\ UNCHANGED <<phase, result, noted, lost>>

\* Mutant: a failing step is logged and the plan goes on.
LogAndGo == Go

\* What the code does when the step at the head fails.
Leave ==
    LET s == Head(todo)
        rest == Tail(todo)
        later == {i \in DOMAIN rest : s.fail \notin rest[i].scopes}
        next == IF later = {} THEN Len(rest) + 1 ELSE CHOOSE i \in later : \A j \in later : i <= j
    IN  CASE s.fail = Abort -> Fail /\ UNCHANGED <<todo, noted, lost>>
          [] s.fail \in {OnlyLogged, Note} -> /\ todo' = rest /\ noted' = (noted \/ s.fail = Note)
                                         /\ UNCHANGED <<phase, result, lost>>
          [] OTHER -> /\ todo' = SubSeq(rest, next, Len(rest)) /\ lost' = lost \cup {s.fail}
                      /\ UNCHANGED <<phase, result, noted>>

\* SetDecPolicyInfos: a table that would overflow is thrown away, with what it
\* held and what was to be added.
SetDecPolicyInfos(table, new) ==
    IF new = <<>> THEN table
    ELSE IF Len(table) + Len(new) > MaxPolicyNum THEN <<>> ELSE table \o new

\* GetSandboxMountConfig: the sections whose DEC paths count.
GetSandboxMountConfig(s) ==
    s.sect \in {"permission", "flags-point", "individual-flags"} \/ NoShareFs

\* SetDecPolicyWithPermission and its read-only form.
DecPaths(s) ==
    LET has == GetSandboxMountConfig(s)
        rw == IF has /\ req.token /\ Len(s.arg.dec.rw) <= BatchSize THEN s.arg.dec.rw ELSE <<>>
        ro == IF has /\ req.token /\ Len(s.arg.dec.ro) <= BatchSize THEN s.arg.dec.ro ELSE <<>>
    IN  <<[i \in DOMAIN rw |-> <<rw[i], "rw">>], [i \in DOMAIN ro |-> <<ro[i], "ro">>]>>

\* DoAppSandboxMountOnce: the mount, then its propagation; what is mounted in
\* a tree that is still shared is mounted in the host too.
DoAppSandboxMountOnce ==
    /\ AtStep("mount")
    /\ LET s == Head(todo)
           m == {[at |-> s.arg.at, from |-> s.arg.from, sect |-> s.sect]}
           d == DecPaths(s)
       IN  \E ok, bound \in BOOLEAN :
             /\ ok => bound
             /\ IF ok THEN NoFault ELSE Fault
             /\ mnt' = IF bound THEN mnt \cup m ELSE mnt
             /\ leaked' = IF bound /\ ~({"mnt", "slave"} \subseteq ns) THEN leaked \cup m ELSE leaked
             /\ dec' = IF ok \/ s.fail = OnlyLogged
                       THEN SetDecPolicyInfos(SetDecPolicyInfos(dec, d[1]), d[2]) ELSE dec
             /\ IF ok THEN Go ELSE Leave
    /\ UNCHANGED <<host, flags, ns, rootMnt, root, gids, links, kernel>>

\* ProcessCreateOnDaemonMount up to the mount; a failing chmod or chown is logged.
MakeDir ==
    /\ AtStep("mkdir")
    /\ \/ Head(todo).arg /\ NoFault /\ Go
       \/ Head(todo).arg /\ Fault /\ Leave
       \/ ~Head(todo).arg /\ NoFault /\ Leave
    /\ UNCHANGED <<host, flags, ns, mnt, leaked, rootMnt, root, gids, links, dec, kernel>>

MakeSymlink ==
    /\ AtStep("symlink")
    /\ \/ NoFault /\ Go /\ links' = links \cup {Head(todo).arg}
       \/ Fault /\ Leave /\ UNCHANGED links
    /\ UNCHANGED <<host, flags, ns, mnt, leaked, rootMnt, root, gids, dec, kernel>>

\* DoAddGid: what does not fit into the table is dropped.
AddGid ==
    /\ AtStep("gid")
    /\ gids' = IF Len(gids) < AppMaxGids THEN Append(gids, Head(todo).arg) ELSE gids
    /\ Go
    /\ UNCHANGED <<host, faults, flags, ns, mnt, leaked, rootMnt, root, links, dec, kernel>>

\* A malformed list, or an overlay that failed before.
StopAtError ==
    /\ AtStep("malformed") \/ AtStep("noted")
    /\ IF Head(todo).op = "malformed" \/ noted THEN Leave ELSE Go
    /\ UNCHANGED <<host, faults, flags, ns, mnt, leaked, rootMnt, root, gids, links, dec, kernel>>

\* ChangeCurrentDir: chdir, pivot_root (the new root has to be a mount point)
\* and the old root detached.
ChangeCurrentDir ==
    /\ phase = "plan" /\ todo = <<>>
    /\ \/ Fault /\ Fail /\ UNCHANGED root
       \/ ~rootMnt /\ NoFault /\ Fail /\ UNCHANGED root
       \/ rootMnt /\ Fault /\ Fail /\ root' = "pivoted"
       \/ /\ rootMnt /\ NoFault /\ root' = "sandbox"
          /\ IF mode = "nweb" THEN Ended /\ result' = "ok" ELSE phase' = "dec" /\ UNCHANGED result
    /\ UNCHANGED <<host, flags, ns, todo, mnt, lost, leaked, rootMnt, gids, links, noted, dec, kernel>>

\* SetDecWithDir: the application's own directory in Download.
SetDecWithDir(table) ==
    IF req.token THEN SetDecPolicyInfos(table, <<<<"own", "rw">>>>) ELSE table

\* SetDecDenyWithDir: a denial of every user directory whose permission is
\* missing when the permission for user files is held; more denials than fit
\* into a request to the kernel, and none is added.
SetDecDenyWithDir(table) ==
    LET deny == Each(DenyMap, LAMBDA p : IF p \in req.perms THEN <<>> ELSE <<<<p, "deny">>>>)
    IN  IF "USER_FILE" \in req.perms /\ req.token /\ Len(deny) <= BatchSize
        THEN SetDecPolicyInfos(table, deny) ELSE table

\* What SetDecPolicy finds in the table.
AllPolicies == SetDecDenyWithDir(SetDecWithDir(dec))

\* Mutant: a last batch that is not full is not sent.
FullBatches(n) == n \div BatchSize

Batches(n) == (n + BatchSize - 1) \div BatchSize

\* SetDecPolicy: without /dev/dec the table is dropped; otherwise batch after
\* batch is sent, and those the kernel refuses are not tried again.
SetDecPolicy ==
    /\ phase = "dec"
    /\ \/ AllPolicies # <<>> /\ Fault /\ kernel' = <<>>
       \/ \E bad \in SUBSET (1..Batches(Len(AllPolicies))) :
            LET table == AllPolicies
                Batch(k) == SubSeq(table, (k - 1) * BatchSize + 1,
                                   IF k * BatchSize > Len(table) THEN Len(table) ELSE k * BatchSize)
            IN  /\ IF bad = {} THEN NoFault ELSE Fault
                /\ kernel' = [k \in 1..Batches(Len(table)) |-> IF k \in bad THEN <<>> ELSE Batch(k)]
    /\ dec' = <<>>
    /\ Ended /\ result' = "ok"
    /\ UNCHANGED <<host, flags, ns, todo, mnt, lost, leaked, rootMnt, root, gids, links, noted>>

\* The child runs on, or is gone; the spawner turns to the next request.
NextRequest ==
    /\ phase = "ended"
    /\ phase' = "idle" /\ req' = NoRequest /\ crypto' = 0 /\ flags' = {}
    /\ ns' = {} /\ todo' = <<>> /\ mnt' = {} /\ lost' = {} /\ leaked' = {}
    /\ rootMnt' = FALSE /\ root' = "host" /\ gids' = <<>> /\ links' = {} /\ noted' = FALSE
    /\ dec' = <<>> /\ kernel' = <<>> /\ result' = "none"
    /\ UNCHANGED <<mode, dlp, cache, debug, faults, spawns>>

Bundles == {r.bundle : r \in Requests}

Next ==
    \/ \E apps \in SUBSET Owners : WriteList(apps)
    \/ Notify \/ OtherAcks \/ Restart
    \/ \E r \in Requests : ComputeForSpawn(r)
    \/ AckUpdate \/ LoadFromJson \/ MatchControlled
    \/ InstallDebugSandbox
    \/ \E b \in Bundles, isolated \in BOOLEAN : UninstallDebugSandbox({b}, isolated)
    \/ \E isolated \in BOOLEAN :
          debug.dirs # {} /\ UninstallDebugSandbox({p[1] : p \in debug.dirs} \cup debug.share, isolated)
    \/ StartSandbox \/ CheckProperty \/ HandleDlpMount \/ EnableSandboxNamespace \/ UpdatePointFlags
    \/ DoSandboxRootFolderCreate
    \/ DoAppSandboxMountOnce \/ MakeDir \/ MakeSymlink \/ AddGid \/ StopAtError
    \/ ChangeCurrentDir \/ SetDecPolicy \/ NextRequest

Spec == Init /\ [][Next]_vars

(***************************************************************************)
(* Properties.                                                             *)
(***************************************************************************)
\* A child whose root is its sandbox has every mount that the configuration
\* calls critical or that the bundle's resources are, whatever failed on the
\* way, with the two exceptions the code makes: a create-on-daemon point whose
\* directory could not be made or is not described (ProcessCreateOnDaemonMount),
\* and the flag points of a render or gpu process after one of the same document
\* failed (SetRenderSandboxPropertyNweb only logs it).
EnteredMeansComplete ==
    root # "host" =>
        \A s \in Range(PlanOf(req, flags)) :
            s.op = "mount" /\ s.fail \notin {OnlyLogged, Note} =>
                \/ \E m \in mnt : m.at = s.arg.at /\ m.from = s.arg.from
                \/ s.sect = "create-on-daemon" /\ <<s.arg.at>> \in lost
                \/ mode = "nweb" /\ s.sect = "individual-flags" /\ s.fail \in lost

\* The one mount a child ever makes in the host's mount namespace is the fuse
\* mount of an application that may use DLP files: for every other one the
\* namespace has been unshared and its tree made a slave, whichever of the
\* calls failed (SetAppSandboxProperty, EnableSandboxNamespace,
\* DoSandboxRootFolderCreate).
OnlyFuseOnHost == leaked # {} => leaked = {FuseMount} /\ req.dlp

\* Between two spawns a list that the spawner has loaded is the list the DLP
\* service last announced, unless another spawner has answered an announcement
\* since the load: the answer is given before the file is read, so an
\* announcement that races with it is not lost (EnsureCacheLoaded).
ControlledListFresh ==
    phase \in {"idle", "match"} /\ cache.loaded /\ ~cache.missed /\ dlp.status = 1 /\ ~dlp.pending =>
        cache.apps = dlp.file

\* After an uninstall in which no unmount failed and whose message does not ask
\* for the isolated documents, nothing of the bundle's debug sandbox is mounted
\* until it is installed again, whatever permissions, failed mounts and remounts
\* its installations had (UninstallDebugSandbox).
DebugSandboxRemoved ==
    \A b \in debug.gone : b \notin debug.share /\ ~\E p \in debug.dirs : p[1] = b

\* What the kernel has of an application that may use user files includes the
\* denial of every directory it has no permission for, the grants and denials
\* having been collected in a table that may overflow and sent in batches of
\* which the last is short.  Without /dev/dec, or after an overflow at the
\* denials, the kernel has no grant either; a batch that the kernel refuses is
\* the exception (SetDecDenyWithDir, SetDecPolicyInfos, SetDecPolicy).
DenialsGoWithGrants ==
    phase = "ended" /\ result = "ok" /\ mode = "app" /\ req.token /\ "USER_FILE" \in req.perms
      /\ kernel # <<>> /\ <<>> \notin Range(kernel) =>
        \A p \in Range(DenyMap) \ req.perms : <<p, "deny">> \in Range(FlattenSeq(kernel))

====
