--------------------------- MODULE HnpInstaller ---------------------------
(***************************************************************************)
(* The hnp command (service/hnp): installation and removal of the native   *)
(* packages of a HAP for one user, started by NativeInstallHnp and         *)
(* NativeUnInstallHnp, one process per command.                            *)
(*                                                                         *)
(* What survives the process is modelled piece by piece: the version       *)
(* directories hnppublic/<name>.org/<name>_<version>, the name             *)
(* directories, the private directories, the links of hnppublic/bin, the   *)
(* record hnp_info_<uid>.json, the code signatures and the entries of the  *)
(* binary security service.  Every step changes one of them, so that a     *)
(* failure or a crash may fall between any two.  The file is rewritten in  *)
(* place (fopen "wb"): a crash or a full disk leaves it empty or damaged.  *)
(* Files are written through buffered stdio and the result of fclose is    *)
(* ignored, so that a full disk may go unnoticed.                          *)
(*                                                                         *)
(* Commands run one at a time here.  StartHnpProcess waits for its own     *)
(* process, but nothing in the code keeps two callers from running two hnp *)
(* processes at once: that they do not is an assumption on the callers.    *)
(***************************************************************************)
EXTENDS Integers, Sequences, SequencesExt, FiniteSets

CONSTANTS
    Haps,          \* the applications (hap package names)
    Bundles,       \* what a HAP may carry: sequences of packages
    Links,         \* link names in hnppublic/bin
    Names,         \* hnp names
    Versions,      \* versions of a package
    NoVer,         \* "none" of install_version, and no version (NULL)
    Legacy,        \* what hnp_info.json and the disk may hold before migration
    MaxOps,        \* bound: commands started
    MaxFaults,     \* bound: system calls and services that fail, crashes
    MaxStarts      \* bound: processes started from installed packages

\* A package, an entry of the record, and what earlier releases left behind: a
\* record that names every version on disk and gives all HAPs of a name the
\* same current version.
Packages == [name : Names, ver : Versions, public : BOOLEAN, links : Seq(Links), elf : BOOLEAN]
Entries == [hap : Haps, name : Names, cur : Versions, inst : Versions \cup {NoVer}]
Dirs == Names \X Versions
NoLink == <<>>

ASSUME HnpAssumption ==
    /\ NoVer \notin Versions
    /\ Bundles \subseteq Seq(Packages)
    /\ \A b, c \in Bundles : \A i \in DOMAIN b, j \in DOMAIN c :
         b[i].name = c[j].name /\ b[i].ver = c[j].ver /\ b[i].public /\ c[j].public
            => b[i].elf = c[j].elf
    /\ \A s \in Legacy :
         /\ s.dirs \subseteq Dirs /\ s.links \in [Links -> Dirs \cup {NoLink}]
         /\ s.old = NoVer => s.dirs = {}
         /\ s.old # NoVer =>
              /\ s.old \subseteq Entries
              /\ \A e, f \in s.old : e.name = f.name => e.cur = f.cur
              /\ \A d \in s.dirs : \E e \in s.old : e.name = d[1] /\ d[2] \in {e.cur, e.inst}

VARIABLES
    info,          \* hnp_info_<uid>.json: [st, ents]
    old,           \* hnp_info.json of earlier releases: NoVer or its entries
    dirs,          \* public version directories
    nameDirs,      \* names whose <name>.org directory exists
    priv,          \* private version directories
    links,         \* hnppublic/bin: where each link points
    signed,        \* public versions whose binaries have been code signed
    bss,           \* HAPs known to the binary security service
    running,       \* names a process has files open of (lsof)
    pc, op,        \* the command being executed
    rm,            \* the call of HnpUnInstallPublicHnp being executed
    un,            \* the call of HnpUnInstall being executed
    last,          \* the result of the last command, as its caller sees it
    ops, faults, starts,
    harm           \* history: what happened that a later property depends on

disk == <<dirs, nameDirs, priv, links, signed, bss>>
bounds == <<ops, starts>>
vars == <<info, old, disk, running, pc, op, rm, un, last, bounds, faults, harm>>

NoOp == [kind |-> "none", hap |-> NoVer, bundle |-> <<>>, todo |-> <<>>,
         force |-> FALSE, skip |-> FALSE, map |-> {}, ret |-> "ok"]
NoRm == [name |-> NoVer, ver |-> NoVer, keep |-> FALSE, back |-> "none"]
NoUn == [caller |-> "none", list |-> {}]
NoResult == [kind |-> "none", hap |-> NoVer, bundle |-> <<>>, ret |-> "ok"]

\* The configuration of the package being installed and its directory.
Package == Head(op.todo)
Target == <<Package.name, Package.ver>>

\* A step succeeds, or fails in one of the ways of S while the budget lasts.
Outcomes(S) == {"ok"} \cup (IF faults < MaxFaults THEN S ELSE {})
Spend(o) == faults' = IF o = "ok" THEN faults ELSE faults + 1
Harm(S) == harm' = harm \cup S

---------------------------------------------------------------------------
(* The record (hnp_json.c).  Order in its arrays does not matter: a HAP    *)
(* has one entry per name and all entries of a name share the current      *)
(* version (HnpPackageVersionUpdateAll).                                   *)

Readable == info.st \in {"missing", "empty", "ok"}
OfName(n) == {e \in info.ents : e.name = n}

\* The file is truncated before its text is made and written.  fwrite only
\* reports what it could not buffer ("short"); what fails in fclose is lost
\* while the caller is told that the record was written ("silent").
HnpHapJsonWrite(ents, o) ==
    \/ o = "ok" /\ info' = [st |-> "ok", ents |-> ents]
    \/ o = "open" /\ UNCHANGED info
    \/ /\ o \in {"short", "silent"}
       /\ \E st \in {"empty", "damaged"} : info' = [st |-> st, ents |-> {}]

WriteOutcomes == Outcomes({"open", "short", "silent"})
WriteOk(o) == o \in {"ok", "silent"}
LostIf(o) == CASE o = "short"  -> {"lost"}
               [] o = "silent" -> {"lost", "unnoticed"}
               [] OTHER        -> {}

\* CanRecovery: only the HAP that installed the name may set its links.
CanRecovery(h, n) ==
    /\ Readable
    /\ OfName(n) = {} \/ \E e \in OfName(n) : e.hap = h

\* Mutant: an old version is never removed.
OldVersionKept(n) == NoVer

\* HnpCurrentVersionUninstallCheck, then HnpCurrentVersionGet: the version
\* the installation of a new one removes.
OldVersion(n) ==
    IF info.st # "ok" \/ OfName(n) = {} \/ \E e \in OfName(n) : e.cur = e.inst
    THEN NoVer
    ELSE (CHOOSE e \in OfName(n) : TRUE).cur

HnpPackageVersionUpdateAll(ents, n, v) ==
    {IF e.name = n THEN [e EXCEPT !.cur = v] ELSE e : e \in ents}

\* Mutant: a known name keeps its current version.
JsonWriteAddOnly(h, n, v) ==
    IF \E e \in OfName(n) : e.hap = h THEN info.ents
    ELSE info.ents \cup {[hap |-> h, name |-> n, cur |-> v, inst |-> v]}

\* HnpInstallInfoJsonWrite: a known name only gets a new current version, in
\* the entries of every HAP; otherwise an entry is added.
HnpInstallInfoJsonWrite(h, n, v) ==
    LET known == \E e \in OfName(n) : e.hap = h
        added == IF known THEN info.ents
                 ELSE info.ents \cup
                      {[hap |-> h, name |-> n, cur |-> v, inst |-> v]}
    IN  HnpPackageVersionUpdateAll(added, n, v)

HnpPackageInfoHnpDelete(h, n, v) ==
    {e \in info.ents : ~(e.hap = h /\ e.name = n /\ e.cur = v)}

HnpPackageInfoDelete(h) == {e \in info.ents : e.hap # h}

\* Mutant: another HAP counts only if it installed the version itself.
OtherPackageByInstall(e) ==
    \E f \in info.ents : f.hap # e.hap /\ f.name = e.name /\ f.inst = e.cur

\* HnpPackageInfoGet: what HnpUnInstall has to remove, with hnpExist.
HnpOtherPackageInstallCheck(e) ==
    \E f \in info.ents : f.hap # e.hap /\ f.name = e.name /\ f.cur = e.cur

HnpPackageInfoGet(h) ==
    {[name |-> e.name, cur |-> e.cur, inst |-> e.inst,
      exist |-> HnpOtherPackageInstallCheck(e), half |-> FALSE] :
        e \in {f \in info.ents : f.hap = h /\
                 (~HnpOtherPackageInstallCheck(f) \/ f.inst # NoVer)}}

\* DoRebuildHnpInfoCfg: entries whose installed version is on disk for this
\* user move from the common file to the user's own.
DoRebuildHnpInfoCfg ==
    {e \in old : e.inst # NoVer /\ dirs[<<e.name, e.inst>>] # "absent"}

RebuildHnpInfoCfg ==
    IF info.st = "missing" /\ old # NoVer
    THEN \E o \in WriteOutcomes :
            /\ HnpHapJsonWrite(DoRebuildHnpInfoCfg, o)
            /\ Spend(o)
            /\ Harm((IF o = "open" THEN {"lost"} ELSE LostIf(o)) \cup
                    IF DoRebuildHnpInfoCfg # old THEN {"dropped"} ELSE {})
    ELSE UNCHANGED <<info, faults, harm>>

---------------------------------------------------------------------------
(* The links (hnp_sal.c)                                                   *)

\* CheckSymlink: a link may be replaced when it is missing, when its source
\* is gone, or when it is a link of the same hnp.  A partly written
\* directory may lack the source: gone says which do.
CheckSymlink(n, l, gone) ==
    \/ links[l] = NoLink
    \/ dirs[links[l]] = "absent"
    \/ l \in gone
    \/ links[l][1] = n

PartialLinks == {l \in Links : links[l] # NoLink /\ dirs[links[l]] = "partial"}

\* HnpGenerateSoftLinkAll, HnpGenerateSoftLinkAllByJson: the links in order,
\* up to the first that HnpSymlink refuses or that fails (bad).
LinksMade(p, gone, bad) ==
    LET fails(i) == \/ ~CanRecovery(op.hap, p.name)
                    \/ ~CheckSymlink(p.name, p.links[i], gone)
                    \/ i = bad
        before(i) == \A j \in 1..i : ~fails(j)
    IN  {p.links[i] : i \in {j \in DOMAIN p.links : before(j)}}

HnpGenerateSoftLink(made) ==
    links' = [l \in Links |-> IF l \in made THEN Target ELSE links[l]]

\* ClearSoftLink: every link whose source is gone.
ClearSoftLink ==
    links' = [l \in Links |->
                IF links[l] # NoLink /\ dirs[links[l]] = "absent"
                THEN NoLink ELSE links[l]]

---------------------------------------------------------------------------
(* Commands                                                                *)

Finish(ret) ==
    /\ pc' = "idle" /\ op' = NoOp /\ rm' = NoRm /\ un' = NoUn
    /\ last' = [kind |-> op.kind, hap |-> op.hap, bundle |-> op.bundle,
                ret |-> ret]

\* StartHnpProcess for "hnp install".
NativeInstallHnp(h, b, f) ==
    /\ pc = "idle" /\ ops < MaxOps
    /\ ops' = ops + 1
    /\ op' = [NoOp EXCEPT !.kind = "install", !.hap = h, !.bundle = b,
                          !.todo = b, !.force = f]
    /\ pc' = "start"
    /\ last' = NoResult
    /\ UNCHANGED <<info, old, disk, running, rm, un, starts, faults, harm>>

NativeUnInstallHnp(h) ==
    /\ pc = "idle" /\ ops < MaxOps
    /\ ops' = ops + 1
    /\ op' = [NoOp EXCEPT !.kind = "uninstall", !.hap = h]
    /\ un' = [NoUn EXCEPT !.caller = "cmd"]
    /\ pc' = "un_start"
    /\ last' = NoResult
    /\ UNCHANGED <<info, old, disk, running, rm, starts, faults, harm>>

\* No process: installation is disabled, or pipe, fork or execve fail.
CommandRefused(h) ==
    /\ pc = "idle" /\ faults < MaxFaults /\ ops < MaxOps
    /\ ops' = ops + 1 /\ faults' = faults + 1
    /\ last' = [NoResult EXCEPT !.kind = "install", !.hap = h, !.ret = "lost"]
    /\ UNCHANGED <<info, old, disk, running, pc, op, rm, un, starts, harm>>

HnpCmdInstall ==
    /\ pc = "start"
    /\ RebuildHnpInfoCfg
    /\ pc' = "prepare"
    /\ UNCHANGED <<old, disk, running, op, rm, un, last, bounds>>

\* The process rejects its arguments and writes no result to the pipe.
ArgumentsRefused ==
    /\ pc = "start" /\ faults < MaxFaults
    /\ faults' = faults + 1
    /\ Finish("lost")
    /\ UNCHANGED <<info, old, disk, running, bounds, harm>>

\* The user's directories are made and labelled, then the archives counted.
CheckInstallPath == Outcomes({"path"})

\* HnpInstallPre up to HapReadAndInstall; its end follows the packages.
HnpInstallPre ==
    /\ pc = "prepare"
    /\ \E o \in CheckInstallPath :
          /\ Spend(o)
          /\ IF o = "ok" THEN pc' = "next" /\ UNCHANGED <<op, rm, un, last>>
             ELSE Finish(o)
    /\ UNCHANGED <<info, old, disk, running, bounds, harm>>

---------------------------------------------------------------------------
(* One package of the bundle (HnpReadAndInstall)                           *)

\* The batch stops at the first error and keeps what it installed before,
\* without signing it.
Stop(ret) ==
    /\ Finish(ret)
    /\ Harm(IF op.map # {} THEN {"batch"} ELSE {})

\* The archive cannot be opened, has no hnp.json, or names a path with "..".
ReadConfigFails ==
    /\ pc = "next" /\ op.todo # <<>> /\ faults < MaxFaults
    /\ faults' = faults + 1
    /\ Stop("cfg")
    /\ UNCHANGED <<info, old, disk, running, bounds>>

\* The version is installed already: only the links are refreshed.
SkipInstalled ==
    /\ pc = "next" /\ op.todo # <<>>
    /\ Package.public /\ dirs[Target] # "absent"
    /\ \E gone \in SUBSET PartialLinks, bad \in 0..Len(Package.links) :
          LET made == LinksMade(Package, gone, bad)
              ok == made = ToSet(Package.links)
          IN  /\ bad # 0 => faults < MaxFaults
              /\ faults' = IF bad = 0 THEN faults ELSE faults + 1
              /\ HnpGenerateSoftLink(made)
              /\ IF ok
                 THEN /\ pc' = "deal" /\ op' = [op EXCEPT !.skip = TRUE]
                      /\ UNCHANGED <<rm, un, last, harm>>
                 ELSE Stop("symlink")
    /\ UNCHANGED <<info, old, dirs, nameDirs, priv, signed, bss, running, bounds>>

SoftwareExists ==
    IF Package.public THEN Package.name \in nameDirs
    ELSE \E d \in priv : d.hap = op.hap /\ d.name = Package.name

PathIsExist ==
    /\ pc = "next" /\ op.todo # <<>>
    /\ ~(Package.public /\ dirs[Target] # "absent")
    /\ SoftwareExists /\ ~op.force
    /\ Stop("exist")
    /\ UNCHANGED <<info, old, disk, running, bounds, faults>>

\* HnpCreateFolder makes <name>.org on the way to the version's directory.
HnpCreateFolder(ok) ==
    IF Package.public
    THEN /\ nameDirs' = nameDirs \cup {Package.name}
         /\ dirs' = IF ok THEN [dirs EXCEPT ![Target] = "partial"] ELSE dirs
         /\ UNCHANGED priv
    ELSE /\ priv' = IF ok
                    THEN {d \in priv : d.hap # op.hap \/ d.name # Package.name}
                         \cup {[hap |-> op.hap, name |-> Package.name,
                                ver |-> Package.ver, full |-> FALSE]}
                    ELSE priv
         /\ UNCHANGED <<nameDirs, dirs>>

\* HnpInstallForceCheck.  A private directory goes first; when it cannot be
\* deleted the code goes on without creating the version's, as it does when
\* that cannot be created.
HnpInstallForceCheck ==
    /\ pc = "next" /\ op.todo # <<>>
    /\ ~(Package.public /\ dirs[Target] # "absent")
    /\ SoftwareExists => op.force
    /\ \E o \in Outcomes({"folder"}) : Spend(o) /\ HnpCreateFolder(o = "ok")
    /\ op' = [op EXCEPT !.skip = FALSE]
    /\ pc' = "unzip"
    /\ UNCHANGED <<info, old, links, signed, bss, running, rm, un, last,
                   bounds, harm>>

\* The directory the archive is unpacked into exists.
TargetExists ==
    IF Package.public THEN dirs[Target] # "absent"
    ELSE \E d \in priv : d.hap = op.hap /\ d.name = Package.name /\
                         d.ver = Package.ver

\* HnpInstallAddSignMap: the ELF files of the archive.
SignMap == IF Package.elf THEN {<<Package.public, Target>>} ELSE {}

\* HnpUnZip; the binaries found are remembered for signing.  HnpUnZipForFile
\* ignores the results of fwrite and fclose: on a full disk files are cut
\* short unnoticed, and one that lost its header is no binary any more.
HnpUnZip ==
    /\ pc = "unzip" /\ TargetExists
    /\ \E o \in Outcomes({"silent"}), found \in SUBSET SignMap :
          /\ Spend(o)
          /\ o = "ok" => found = SignMap
          /\ dirs' = IF Package.public
                     THEN [dirs EXCEPT ![Target] = IF o = "ok" THEN "full" ELSE "partial"]
                     ELSE dirs
          /\ priv' = IF Package.public THEN priv
                     ELSE {IF d.hap = op.hap /\ d.name = Package.name
                           THEN [d EXCEPT !.full = (o = "ok")] ELSE d : d \in priv}
          /\ op' = [op EXCEPT !.map = @ \cup found]
          /\ Harm(IF o = "ok" THEN {} ELSE {"unnoticed"})
    /\ signed' = IF Package.public THEN signed \ {Target} ELSE signed
    /\ pc' = "link"
    /\ UNCHANGED <<info, old, nameDirs, links, bss, running, rm, un, last, bounds>>

\* Both failures of HnpInstall are undone by HnpUnInstallPublicHnp, whose
\* path is the public one also for a private package.
RollBack(why) ==
    /\ rm' = [name |-> Package.name, ver |-> Package.ver, keep |-> FALSE,
              back |-> "stop"]
    /\ pc' = "rm_check"
    /\ Harm(why \cup (IF Package.public THEN {} ELSE {"private"})
                \cup IF \E e \in OfName(Package.name) :
                          e.hap = op.hap /\ e.cur = Package.ver /\ e.inst # e.cur
                     THEN {"undone"} ELSE {})

HnpUnZipFails ==
    /\ pc = "unzip"
    /\ TargetExists => faults < MaxFaults
    /\ faults' = IF TargetExists THEN faults + 1 ELSE faults
    /\ op' = [op EXCEPT !.ret = "unzip"]
    /\ RollBack({})
    /\ UNCHANGED <<info, old, disk, running, un, last, bounds>>

\* HnpGenerateSoftLink; private links are not shared and always replaced.
LinkInstalled ==
    /\ pc = "link"
    /\ \E gone \in SUBSET PartialLinks, bad \in 0..Len(Package.links) :
          LET made == IF Package.public THEN LinksMade(Package, gone, bad) ELSE {}
              ok == IF Package.public THEN made = ToSet(Package.links) ELSE bad = 0
          IN  /\ bad # 0 => faults < MaxFaults
              /\ faults' = IF bad = 0 THEN faults ELSE faults + 1
              /\ HnpGenerateSoftLink(made)
              /\ CASE ok /\ Package.public ->
                        pc' = "deal" /\ UNCHANGED <<op, rm, harm>>
                   [] ok /\ ~Package.public ->
                        /\ pc' = "next" /\ op' = [op EXCEPT !.todo = Tail(@)]
                        /\ UNCHANGED <<rm, harm>>
                   [] ~ok -> /\ op' = [op EXCEPT !.ret = "symlink"]
                             /\ RollBack({})
    /\ UNCHANGED <<info, old, dirs, nameDirs, priv, signed, bss, running, un,
                   last, bounds>>

\* HnpPublicDealAfterInstall: the version in use goes, unless it is one that
\* some HAP installed itself.
RemoveOldVersion ==
    /\ pc = "deal"
    /\ IF OldVersion(Package.name) # NoVer
       THEN /\ rm' = [name |-> Package.name, ver |-> OldVersion(Package.name),
                      keep |-> TRUE, back |-> "write"]
            /\ pc' = "rm_check"
            /\ Harm(IF OldVersion(Package.name) = Package.ver
                    THEN {"self"} ELSE {})
       ELSE pc' = "write" /\ UNCHANGED <<rm, harm>>
    /\ UNCHANGED <<info, old, disk, running, op, un, last, bounds, faults>>

\* HnpInstallInfoJsonWrite; a failure is undone unless nothing was unpacked.
RecordVersion ==
    /\ pc = "write"
    /\ \E o \in IF Readable THEN WriteOutcomes ELSE {"parse"} :
        /\ faults' = IF o \in {"ok", "parse"} THEN faults ELSE faults + 1
        /\ IF o = "parse" THEN UNCHANGED info
           ELSE HnpHapJsonWrite(
                  HnpInstallInfoJsonWrite(op.hap, Package.name, Package.ver), o)
        /\ CASE WriteOk(o) ->
                  /\ pc' = "next" /\ op' = [op EXCEPT !.todo = Tail(@)]
                  /\ Harm(LostIf(o)) /\ UNCHANGED <<rm, un, last>>
             [] ~WriteOk(o) /\ op.skip ->
                  /\ Finish("json")
                  /\ Harm(LostIf(o) \cup IF op.map # {} THEN {"batch"} ELSE {})
             [] ~WriteOk(o) /\ ~op.skip ->
                  /\ op' = [op EXCEPT !.ret = "json"]
                  /\ RollBack(LostIf(o))
                  /\ UNCHANGED <<un, last>>
    /\ UNCHANGED <<old, disk, running, bounds>>

---------------------------------------------------------------------------
(* HnpUnInstallPublicHnp: its caller goes on at rm.back                    *)

\* What the caller does with the result: the removal of an old version and
\* the undoing of a failed installation ignore it, HnpUnInstall stops.
Return(ok, why) ==
    CASE rm.back = "write" ->
            /\ pc' = "write" /\ rm' = NoRm /\ UNCHANGED <<op, un, last>>
            /\ Harm(why)
      [] rm.back = "stop" ->
            /\ Finish(op.ret)
            /\ Harm(why \cup IF op.map \ {<<Package.public, Target>>} # {}
                            THEN {"batch"} ELSE {})
      [] rm.back = "un_next" ->
            /\ IF ok THEN pc' = "un_next" /\ rm' = NoRm /\ UNCHANGED <<op, un, last>>
               ELSE Finish(IF un.caller = "cmd" THEN "remove" ELSE un.caller)
            /\ Harm(why)

Returns == Return(TRUE, {})
Refused == Return(FALSE, {"refused"})

\* HnpProcessRunCheck looks for open files below the name's directory.
RunCheck ==
    /\ pc = "rm_check"
    /\ \E o \in Outcomes({"lsof"}) :
          /\ Spend(o)
          /\ IF o # "ok" \/ rm.name \in running THEN Refused
             ELSE /\ pc' = IF rm.keep THEN "rm_dir" ELSE "rm_json"
                  /\ UNCHANGED <<op, rm, un, last, harm>>
    /\ UNCHANGED <<info, old, disk, running, bounds>>

\* The record is written only when it holds the HAP.
RemoveRecord ==
    /\ pc = "rm_json"
    /\ IF info.st = "damaged" THEN Refused /\ UNCHANGED <<info, faults>>
       ELSE \E o \in IF \E e \in info.ents : e.hap = op.hap
                     THEN WriteOutcomes ELSE {"ok"} :
              /\ Spend(o)
              /\ IF info.st = "ok"
                 THEN HnpHapJsonWrite(
                        HnpPackageInfoHnpDelete(op.hap, rm.name, rm.ver), o)
                 ELSE UNCHANGED info
              /\ IF WriteOk(o)
                 THEN pc' = "rm_dir" /\ Harm(LostIf(o)) /\ UNCHANGED <<op, rm, un, last>>
                 ELSE Return(FALSE, {"refused"} \cup LostIf(o))
    /\ UNCHANGED <<old, disk, running, bounds>>

RemoveVersion ==
    /\ pc = "rm_dir"
    /\ \E o \in Outcomes({"unlink"}) :
        LET d == <<rm.name, rm.ver>> IN
        /\ Spend(o)
        /\ dirs' = IF dirs[d] = "absent" THEN dirs
                   ELSE [dirs EXCEPT ![d] = IF o = "ok" THEN "absent" ELSE "partial"]
        /\ signed' = IF o = "ok" THEN signed \ {d} ELSE signed
        /\ IF o = "ok" THEN pc' = "rm_name" /\ UNCHANGED <<op, rm, un, last, harm>>
           ELSE Refused
    /\ UNCHANGED <<info, old, nameDirs, priv, links, bss, running, bounds>>

HnpPathFileCount(n) ==
    IF n \in nameDirs THEN Cardinality({v \in Versions : dirs[<<n, v>>] # "absent"})
    ELSE -1

\* The last version gone: dead links and the name's directory.
RemoveName ==
    /\ pc = "rm_name"
    /\ IF HnpPathFileCount(rm.name) = 0
       THEN \E o \in Outcomes({"rmdir"}) :
              /\ Spend(o)
              /\ ClearSoftLink
              /\ nameDirs' = IF o = "ok" THEN nameDirs \ {rm.name} ELSE nameDirs
              /\ IF o = "ok" THEN Returns ELSE Refused
       ELSE Returns /\ UNCHANGED <<links, nameDirs, faults>>
    /\ UNCHANGED <<info, old, dirs, priv, signed, bss, running, bounds>>

---------------------------------------------------------------------------
(* HnpUnInstall                                                            *)

UnReturn(ret) == Finish(IF un.caller = "cmd" THEN ret ELSE un.caller)

\* The rebuild, then HnpPackageInfoGet in the record it left.
StartUnInstall ==
    /\ pc = "un_start"
    /\ RebuildHnpInfoCfg
    /\ pc' = "un_get"
    /\ UNCHANGED <<old, disk, running, op, rm, un, last, bounds>>

GetPackageInfo ==
    /\ pc = "un_get"
    /\ \E o \in Outcomes({"path"}) :
        /\ Spend(o)
        /\ IF o = "ok" /\ Readable
           THEN /\ un' = [un EXCEPT !.list = HnpPackageInfoGet(op.hap)]
                /\ pc' = "un_next" /\ UNCHANGED <<op, rm, last, harm>>
           ELSE /\ UnReturn(IF o = "ok" THEN "json" ELSE o)
                /\ Harm(IF un.caller = "cmd" THEN {} ELSE {"refused"})
    /\ UNCHANGED <<info, old, disk, running, bounds>>

\* HnpNativeUnInstall for one entry: the current version unless another HAP
\* uses it, then the installed one if it differs.
HnpNativeUnInstall ==
    /\ pc = "un_next"
    /\ \E e \in un.list :
          LET cur == ~e.exist /\ ~e.half
              inst == e.inst # NoVer /\ e.inst # e.cur
              call(v, keep) ==
                 /\ rm' = [name |-> e.name, ver |-> v, keep |-> keep,
                           back |-> "un_next"]
                 /\ pc' = "rm_check"
          IN  /\ (\E f \in un.list : f.half) => e.half
              /\ un' = [un EXCEPT !.list = (@ \ {e}) \cup
                          IF cur /\ inst THEN {[e EXCEPT !.half = TRUE]} ELSE {}]
              /\ CASE cur          -> call(e.cur, FALSE)
                   [] ~cur /\ inst -> call(e.inst, TRUE)
                   [] OTHER        -> UNCHANGED <<pc, rm>>
    /\ UNCHANGED <<info, old, disk, running, op, last, bounds, faults, harm>>

\* HnpPackageInfoDelete writes the record even when nothing changes.
DeletePackageInfo ==
    /\ pc = "un_next" /\ un.list = {}
    /\ IF info.st \in {"missing", "empty"}
       THEN pc' = "un_priv" /\ UNCHANGED <<info, op, rm, un, last, faults, harm>>
       ELSE \E o \in WriteOutcomes :
              /\ Spend(o)
              /\ HnpHapJsonWrite(HnpPackageInfoDelete(op.hap), o)
              /\ Harm(LostIf(o))
              /\ IF WriteOk(o) THEN pc' = "un_priv" /\ UNCHANGED <<op, rm, un, last>>
                 ELSE UnReturn("json")
    /\ UNCHANGED <<old, disk, running, bounds>>

\* The private directories (errors ignored) and BssUninstall.
DeletePrivate ==
    /\ pc = "un_priv"
    /\ \E o \in Outcomes({"folder", "bss"}) :
          /\ Spend(o)
          /\ priv' = IF o = "folder" THEN priv ELSE {d \in priv : d.hap # op.hap}
          /\ bss' = IF o = "bss" THEN bss ELSE bss \ {op.hap}
          /\ UnReturn(IF o = "bss" THEN "bss" ELSE "ok")
    /\ UNCHANGED <<info, old, dirs, nameDirs, links, signed, running, bounds, harm>>

---------------------------------------------------------------------------
(* The end of an installation (HnpInstallPre)                              *)

\* Mutant: the failure is reported and nothing is removed.
ReportOnly(caller) == Finish(caller)

CallUnInstall(caller) ==
    /\ un' = [NoUn EXCEPT !.caller = caller]
    /\ pc' = "un_start" /\ UNCHANGED <<op, rm, last>>

\* Nothing unpacked, nothing to sign.
NothingToSign ==
    /\ pc = "next" /\ op.todo = <<>> /\ op.map = {}
    /\ Finish("ok")
    /\ UNCHANGED <<info, old, disk, running, bounds, faults, harm>>

\* EnforceCodeSignForApp over everything this command unpacked.
EnforceCodeSign ==
    /\ pc = "next" /\ op.todo = <<>> /\ op.map # {}
    /\ \E o \in Outcomes({"sign"}) :
          /\ Spend(o)
          /\ IF o = "ok"
             THEN /\ signed' = signed \cup {m[2] : m \in {x \in op.map : x[1]}}
                  /\ pc' = "bss" /\ UNCHANGED <<op, rm, un, last>>
             ELSE CallUnInstall("sign") /\ UNCHANGED signed
    /\ UNCHANGED <<info, old, dirs, nameDirs, priv, links, bss, running, bounds, harm>>

BssInstall ==
    /\ pc = "bss"
    /\ \E o \in Outcomes({"bss"}) :
          /\ Spend(o)
          /\ IF o = "ok" THEN bss' = bss \cup {op.hap} /\ Finish("ok")
             ELSE CallUnInstall("bss") /\ UNCHANGED bss
    /\ UNCHANGED <<info, old, dirs, nameDirs, priv, links, signed, running, bounds, harm>>

---------------------------------------------------------------------------
(* The environment                                                         *)

\* A binary of an installed package is executed, or its process ends.
ProcessStart(n) ==
    /\ starts < MaxStarts /\ n \notin running
    /\ \E l \in Links : links[l] # NoLink /\ links[l][1] = n
                                          /\ dirs[links[l]] = "full"
    /\ running' = running \cup {n} /\ starts' = starts + 1
    /\ UNCHANGED <<info, old, disk, pc, op, rm, un, last, ops, faults, harm>>

ProcessEnd(n) ==
    /\ n \in running
    /\ running' = running \ {n}
    /\ UNCHANGED <<info, old, disk, pc, op, rm, un, last, bounds, faults, harm>>

\* The process dies (power loss, kill); what it was writing may be lost.
\* Its caller reads nothing from the pipe.
WritingInfo ==
    \/ pc \in {"write", "rm_json"} /\ Readable
    \/ pc = "un_next" /\ un.list = {} /\ info.st = "ok"
    \/ pc \in {"start", "un_start"} /\ info.st = "missing" /\ old # NoVer

Crash ==
    /\ pc # "idle" /\ faults < MaxFaults
    /\ faults' = faults + 1
    /\ Finish("lost")
    /\ \/ UNCHANGED <<info, dirs>>
       \/ /\ WritingInfo
          /\ info' = [st |-> "empty", ents |-> {}] /\ UNCHANGED dirs
       \/ /\ pc = "rm_dir" /\ dirs[<<rm.name, rm.ver>>] = "full"
          /\ dirs' = [dirs EXCEPT ![<<rm.name, rm.ver>>] = "partial"]
          /\ UNCHANGED info
    /\ Harm({"crash"})
    /\ UNCHANGED <<old, nameDirs, priv, links, signed, bss, running, bounds>>

---------------------------------------------------------------------------
Init ==
    /\ \E s \in Legacy :
          /\ old = s.old
          /\ dirs = [d \in Dirs |-> IF d \in s.dirs THEN "full" ELSE "absent"]
          /\ nameDirs = {d[1] : d \in s.dirs}
          /\ links = s.links
          /\ signed = s.dirs
    /\ info = [st |-> "missing", ents |-> {}]
    /\ priv = {} /\ bss = {} /\ running = {}
    /\ pc = "idle" /\ op = NoOp /\ rm = NoRm /\ un = NoUn /\ last = NoResult
    /\ ops = 0 /\ faults = 0 /\ starts = 0 /\ harm = {}

Command ==
    \/ \E h \in Haps, b \in Bundles, f \in BOOLEAN : NativeInstallHnp(h, b, f)
    \/ \E h \in Haps : NativeUnInstallHnp(h) \/ CommandRefused(h)

Install ==
    \/ ArgumentsRefused \/ HnpCmdInstall \/ HnpInstallPre \/ ReadConfigFails \/ SkipInstalled \/ PathIsExist
    \/ HnpInstallForceCheck \/ HnpUnZip \/ HnpUnZipFails \/ LinkInstalled
    \/ RemoveOldVersion \/ RecordVersion
    \/ NothingToSign \/ EnforceCodeSign \/ BssInstall

UnInstall ==
    \/ RunCheck \/ RemoveRecord \/ RemoveVersion \/ RemoveName
    \/ StartUnInstall \/ GetPackageInfo \/ HnpNativeUnInstall
    \/ DeletePackageInfo \/ DeletePrivate

Environment ==
    \/ \E n \in Names : ProcessStart(n) \/ ProcessEnd(n)
    \/ Crash

Next == Command \/ Install \/ UnInstall \/ Environment

Spec == Init /\ [][Next]_vars

---------------------------------------------------------------------------
(* Correctness                                                             *)

\* None of these has happened.
Without(S) == harm \cap S = {}

\* Names all of whose packages have links: the ones CanRecovery guards.
Carried == UNION {ToSet(b) : b \in Bundles}
LinkedNames ==
    {n \in Names :
        /\ \A p \in Carried : p.public /\ p.name = n => p.links # <<>>
        /\ \A s \in Legacy : s.old # NoVer =>
             \A e, f \in s.old : e.name = n /\ f.name = n /\ NoVer \notin {e.inst, f.inst}
                                    => e.hap = f.hap}

\* Uninstalling a HAP, by command or because its binaries could not be signed,
\* never deletes a version that another HAP has as its current one
\* (HnpOtherPackageInstallCheck, hnpExist).
ForeignVersionsIntact ==
    [][\A d \in Dirs :
         dirs[d] = "full" /\ dirs'[d] # "full" /\ rm.back = "un_next"
            => ~\E e \in info.ents : e.hap # op.hap /\ e.name = d[1] /\ e.cur = d[2]]_vars

\* After an installation that reports success every public package of the
\* bundle (the last one of a name) is recorded as current, unless a full disk
\* went unnoticed (HnpHapJsonWrite and HnpUnZipForFile ignore fclose); if
\* moreover no command crashed, no removal was refused and the current version
\* was not installed again, it is complete on disk with all its links in place.
LastOfName(b, i) ==
    /\ b[i].public
    /\ \A j \in DOMAIN b : j > i => ~(b[j].public /\ b[j].name = b[i].name)
InstallOkMeansUsable ==
    pc = "idle" /\ last.kind = "install" /\ last.ret = "ok" =>
        \A i \in DOMAIN last.bundle : LastOfName(last.bundle, i) =>
            LET p == last.bundle[i] IN
            /\ Without({"unnoticed"}) =>
                  \E e \in info.ents : e.hap = last.hap /\ e.name = p.name /\ e.cur = p.ver
            /\ Without({"unnoticed", "crash", "refused", "self"}) =>
                  /\ dirs[<<p.name, p.ver>>] = "full"
                  /\ \A l \in ToSet(p.links) : links[l] = <<p.name, p.ver>>

\* A signing failure removes every package of the HAP again (HnpInstallPre):
\* its binaries are found through the record, whatever was upgraded, shared
\* or uninstalled before.  Of a name that several HAPs share, the version
\* stays as the others' current one.  Unsigned binaries do stay after a crash,
\* after a removal that was refused, when a batch stops at a later package
\* before anything is signed, and when a full disk went unnoticed, because
\* the record is gone or the cut file is no binary.
NothingLeftUnsigned ==
    pc = "idle" /\ Without({"crash", "refused", "batch", "unnoticed"}) =>
        \A p \in Carried : p.public /\ p.elf /\ p.name \in LinkedNames /\
                         dirs[<<p.name, p.ver>>] # "absent"
            => <<p.name, p.ver>> \in signed

\* Every version on disk is the current or the installed version of some
\* HAP, so that uninstalling the HAPs removes all of them.
NoOrphanVersions ==
    /\ pc = "idle" /\ info.st # "missing"
    /\ Without({"crash", "refused", "lost", "dropped", "private", "self", "undone"})
    =>
        \A d \in Dirs : dirs[d] # "absent" =>
            \E e \in info.ents : e.name = d[1] /\ d[2] \in {e.cur, e.inst}

\* The current version ("the version in effect") is on disk.
CurrentVersionOnDisk ==
    pc = "idle" => \A e \in info.ents : dirs[<<e.name, e.cur>>] # "absent"
=============================================================================
