------------------------ MODULE HnpInstallerProofs ------------------------
(***************************************************************************)
(* Proofs about HnpInstaller, for all applications, packages, links and    *)
(* records of earlier releases that HnpAssumption admits, and for every    *)
(* number of commands and failures.                                        *)
(*                                                                         *)
(* Typed says which stage of which call a program counter stands for, and  *)
(* every theorem rests on it.  A theorem then adds what its property needs *)
(* to know at the stages in between: who owns the versions on the list of  *)
(* HnpUnInstall (ForeignInv), which entry, list or call accounts for a     *)
(* version on disk (OrphanInv), that the package about to be recorded is   *)
(* in place (PlacedInv) and the ones before it usable (DoneInv), and who   *)
(* is going to sign or remove what was unpacked (SignInv).                 *)
(***************************************************************************)
EXTENDS HnpInstaller, TLAPS

---------------------------------------------------------------------------
(* Types and control                                                       *)

\* The stages of HnpUnInstallPublicHnp, of one package, of HnpUnInstall and
\* of the command around them.
RmPcs == {"rm_check", "rm_json", "rm_dir", "rm_name"}
PkgPcs == {"unzip", "link", "deal", "write"}
UnPcs == {"un_start", "un_get", "un_next", "un_priv"}
InstPcs == {"start", "prepare", "next", "bss"}
\* HnpUnInstallPublicHnp is being executed for the caller that goes on at x.
Back(x) == pc \in RmPcs /\ rm.back = x

MaybeVersions == Versions \cup {NoVer}
Items == [name : Names, cur : Versions, inst : MaybeVersions, exist : BOOLEAN, half : BOOLEAN]
Records == [st : {"missing", "empty", "ok", "damaged"}, ents : SUBSET Entries]
Operations == [kind : {"none", "install", "uninstall"}, hap : Haps \cup {NoVer},
               bundle : Bundles \cup {<<>>}, todo : Seq(Packages), force : BOOLEAN,
               skip : BOOLEAN, map : SUBSET (BOOLEAN \X Dirs), ret : {"ok", "unzip", "symlink", "json"}]
Removals == [name : Names \cup {NoVer}, ver : MaybeVersions, keep : BOOLEAN,
             back : {"none", "write", "stop", "un_next"}]

DataInv ==
  /\ info \in Records
  /\ info.st # "ok" => info.ents = {}
  /\ \E s \in Legacy : old = s.old
  /\ dirs \in [Dirs -> {"absent", "partial", "full"}]
  /\ links \in [Links -> Dirs \cup {NoLink}]
CommandInv ==
  /\ op \in Operations
  /\ rm \in Removals
  /\ un \in [caller : {"none", "cmd", "sign", "bss"}, list : SUBSET Items]
  /\ pc \in {"idle"} \cup RmPcs \cup PkgPcs \cup UnPcs \cup InstPcs
  /\ pc # "idle" => op.hap \in Haps
TypeInv == DataInv /\ CommandInv

\* The packages still to do are the last ones of the bundle.
TodoInv ==
  /\ Len(op.todo) <= Len(op.bundle)
  /\ \A i \in 1..Len(op.todo) : op.todo[i] = op.bundle[Len(op.bundle) - Len(op.todo) + i]

\* What the program counter says of the command and of the calls in it.
ControlInv ==
  /\ pc \notin RmPcs => rm = NoRm
  /\ pc = "idle" => op = NoOp /\ un = NoUn
  /\ pc \in RmPcs => rm.back # "none" /\ rm.name \in Names /\ rm.ver \in Versions
  /\ pc \in PkgPcs \cup InstPcs \/ Back("write") \/ Back("stop") => op.kind = "install" /\ un = NoUn
  /\ pc \in {"start", "prepare"} => op.map = {} /\ op.todo = op.bundle
  /\ pc \in PkgPcs \/ Back("write") \/ Back("stop") => op.todo # <<>>
  /\ pc = "bss" => op.todo = <<>>
  /\ pc \in UnPcs \/ Back("un_next") =>
       /\ un.caller # "none"
       /\ un.caller = "cmd" <=> op.kind = "uninstall"
       /\ un.caller = "cmd" => op.map = {}
  /\ Back("write") => Package.public /\ rm.name = Package.name /\ rm.keep /\ pc # "rm_json"
  /\ Back("stop") => rm.name = Package.name /\ rm.ver = Package.ver /\ ~rm.keep /\ op.ret # "ok"
  /\ pc \in {"deal", "write"} => Package.public
  /\ pc \notin {"un_next"} \cup RmPcs => un.list = {}

USE DEF NoLink

\* The values of a state without a command are well typed.
LEMMA NoValues ==
  /\ NoOp \in Operations /\ NoRm \in Removals
  /\ NoUn \in [caller : {"none", "cmd", "sign", "bss"}, list : SUBSET Items]
<1>1. <<>> \in Seq(Packages)
  OBVIOUS
<1>2. NoOp \in Operations
  BY <1>1 DEF NoOp, Operations
<1>3. NoRm \in Removals
  BY DEF NoRm, Removals, MaybeVersions
<1> QED
  BY <1>2, <1>3 DEF NoUn

\* A device before the first command.
LEMMA TypeInit == Init => TypeInv /\ TodoInv /\ ControlInv
<1> SUFFICES ASSUME Init PROVE TypeInv /\ TodoInv /\ ControlInv
  OBVIOUS
<1>1. PICK s \in Legacy : /\ old = s.old
          /\ dirs = [d \in Dirs |-> IF d \in s.dirs THEN "full" ELSE "absent"]
          /\ links = s.links
  BY DEF Init
<1>2. s.links \in [Links -> Dirs \cup {NoLink}]
  BY HnpAssumption
<1>3. /\ op = NoOp /\ rm = NoRm /\ un = NoUn /\ pc = "idle" /\ info = [st |-> "missing", ents |-> {}]
  BY DEF Init
<1>4. op \in Operations /\ rm \in Removals /\ un \in [caller : {"none", "cmd", "sign", "bss"}, list : SUBSET Items]
  BY <1>3, NoValues
<1>5. TypeInv
  BY <1>1, <1>2, <1>3, <1>4 DEF TypeInv, DataInv, CommandInv, Records
<1>6. TodoInv /\ ControlInv
  BY <1>3 DEF TodoInv, ControlInv, NoOp, NoRm, NoUn, Back, RmPcs, PkgPcs, UnPcs, InstPcs
<1> QED
  BY <1>5, <1>6

\* The record, the disk and the links keep their types.
LEMMA OldEntries == ASSUME DataInv PROVE old = NoVer \/ old \subseteq Entries
  BY HnpAssumption DEF DataInv

\* HnpHapJsonWrite leaves a well-typed record.
LEMMA WriteType ==
  ASSUME DataInv, NEW ents \in SUBSET Entries, NEW o \in {"ok", "open", "short", "silent"},
         HnpHapJsonWrite(ents, o)
  PROVE  info' \in Records /\ (info'.st # "ok" => info'.ents = {})
  BY DEF DataInv, HnpHapJsonWrite, Records

\* The ways a write can end.
LEMMA OutcomeSets ==
  /\ WriteOutcomes \subseteq {"ok", "open", "short", "silent"}
  /\ \A x : Outcomes({x}) \subseteq {"ok", x}
  BY DEF WriteOutcomes, Outcomes

\* The migration leaves a well-typed record.
LEMMA RebuildType ==
  ASSUME DataInv, RebuildHnpInfoCfg
  PROVE  info' \in Records /\ (info'.st # "ok" => info'.ents = {})
<1>1. CASE info.st = "missing" /\ old # NoVer
  <2>1. DoRebuildHnpInfoCfg \in SUBSET Entries
    BY <1>1, OldEntries DEF DoRebuildHnpInfoCfg
  <2>2. PICK o \in WriteOutcomes : HnpHapJsonWrite(DoRebuildHnpInfoCfg, o)
    BY <1>1 DEF RebuildHnpInfoCfg
  <2> QED
    BY <2>1, <2>2, OutcomeSets, WriteType
<1>2. CASE ~(info.st = "missing" /\ old # NoVer)
  BY <1>2 DEF RebuildHnpInfoCfg, DataInv
<1> QED
  BY <1>1, <1>2

\* The packages of the bundle.
LEMMA PackageType ==
  ASSUME op \in Operations, op.todo # <<>>
  PROVE  /\ Package \in Packages /\ Target \in Dirs
         /\ Package.name \in Names /\ Package.ver \in Versions /\ Package.public \in BOOLEAN
         /\ Package.links \in Seq(Links)
<1>1. op.todo \in Seq(Packages)
  BY DEF Operations
<1>2. Package \in Packages
  BY <1>1 DEF Package
<1> QED
  BY <1>2 DEF Packages, Target, Dirs

\* What an archive leaves on disk, and what is remembered of it for signing.
LEMMA UnZipCases ==
  ASSUME HnpUnZip
  PROVE  /\ pc = "unzip" /\ pc' = "link" /\ TargetExists /\ harm \subseteq harm'
         /\ UNCHANGED <<info, old, links, rm, un, last>>
         /\ \E found \in SUBSET SignMap :
              /\ op' = [op EXCEPT !.map = @ \cup found]
              /\ "unnoticed" \in harm' \/ found = SignMap
         /\ \E x \in {"full", "partial"} :
              /\ dirs' = IF Package.public THEN [dirs EXCEPT ![Target] = x] ELSE dirs
              /\ "unnoticed" \in harm' \/ x = "full"
         /\ signed' = IF Package.public THEN signed \ {Target} ELSE signed
<1>1. PICK o \in Outcomes({"silent"}), found \in SUBSET SignMap :
          /\ o = "ok" => found = SignMap
          /\ dirs' = IF Package.public
                     THEN [dirs EXCEPT ![Target] = IF o = "ok" THEN "full" ELSE "partial"]
                     ELSE dirs
          /\ op' = [op EXCEPT !.map = @ \cup found]
          /\ harm' = harm \cup (IF o = "ok" THEN {} ELSE {"unnoticed"})
  BY DEF HnpUnZip, Harm
<1>2. /\ pc = "unzip" /\ pc' = "link" /\ TargetExists
      /\ UNCHANGED <<info, old, links, rm, un, last>>
      /\ signed' = IF Package.public THEN signed \ {Target} ELSE signed
  BY DEF HnpUnZip
<1>3. o = "ok" \/ "unnoticed" \in harm'
  BY <1>1
<1>4. \E x \in {"full", "partial"} :
         /\ dirs' = IF Package.public THEN [dirs EXCEPT ![Target] = x] ELSE dirs
         /\ "unnoticed" \in harm' \/ x = "full"
  BY <1>1, <1>3
<1> QED
  BY <1>1, <1>2, <1>3, <1>4

\* HnpInstallInfoJsonWrite makes well-typed entries.
LEMMA JsonWriteType ==
  ASSUME DataInv, NEW h \in Haps, NEW n \in Names, NEW v \in Versions
  PROVE  HnpInstallInfoJsonWrite(h, n, v) \in SUBSET Entries
<1> DEFINE new == [hap |-> h, name |-> n, cur |-> v, inst |-> v]
<1>1. info.ents \in SUBSET Entries
  BY DEF DataInv, Records
<1>2. new \in Entries
  BY DEF Entries
<1>3. ASSUME NEW e \in Entries PROVE [e EXCEPT !.cur = v] \in Entries
  BY <1>3 DEF Entries
<1>4. PICK added : /\ added \in SUBSET Entries
                   /\ HnpInstallInfoJsonWrite(h, n, v) = HnpPackageVersionUpdateAll(added, n, v)
  BY <1>1, <1>2 DEF HnpInstallInfoJsonWrite
<1> QED
  BY <1>3, <1>4 DEF HnpPackageVersionUpdateAll

\* Links point to version directories or nowhere.
LEMMA LinkType ==
  ASSUME DataInv, Target \in Dirs, NEW made, HnpGenerateSoftLink(made)
  PROVE  links' \in [Links -> Dirs \cup {NoLink}]
  BY DEF DataInv, HnpGenerateSoftLink

\* No step breaks a type of what is on disk.
LEMMA DataNext ==
  TypeInv /\ ControlInv /\ [Next]_vars => DataInv'
<1> SUFFICES ASSUME DataInv, CommandInv, ControlInv, [Next]_vars PROVE DataInv'
  BY DEF TypeInv
<1> USE DEF disk
<1>1. CASE UNCHANGED <<info, old, dirs, links>>
  BY <1>1 DEF DataInv
<1>2. ASSUME info' \in Records, info'.st # "ok" => info'.ents = {},
             UNCHANGED <<old, dirs, links>>
      PROVE DataInv'
  BY <1>2 DEF DataInv
<1>3. ASSUME dirs' \in [Dirs -> {"absent", "partial", "full"}], UNCHANGED <<info, old, links>>
      PROVE DataInv'
  BY <1>3 DEF DataInv
<1>4. ASSUME links' \in [Links -> Dirs \cup {NoLink}], UNCHANGED <<info, old, dirs>>
      PROVE DataInv'
  BY <1>4 DEF DataInv
<1>5. CASE UNCHANGED vars
  BY <1>1, <1>5 DEF vars
<1>6. ASSUME NEW h \in Haps, NEW b \in Bundles, NEW f \in BOOLEAN, NativeInstallHnp(h, b, f)
      PROVE DataInv'
  BY <1>1, <1>6 DEF NativeInstallHnp
<1>7. ASSUME NEW h \in Haps, NativeUnInstallHnp(h) \/ CommandRefused(h) PROVE DataInv'
  BY <1>1, <1>7 DEF NativeUnInstallHnp, CommandRefused
<1>8. CASE HnpCmdInstall
  BY <1>2, <1>8, RebuildType DEF HnpCmdInstall
<1>9. CASE ArgumentsRefused \/ HnpInstallPre \/ ReadConfigFails \/ PathIsExist
  BY <1>1, <1>9 DEF ArgumentsRefused, HnpInstallPre, ReadConfigFails, PathIsExist
<1>10. CASE SkipInstalled
  BY <1>4, <1>10, LinkType, PackageType DEF SkipInstalled, CommandInv
<1>11. CASE HnpInstallForceCheck
  <2>1. Target \in Dirs
    BY <1>11, PackageType DEF HnpInstallForceCheck, CommandInv
  <2>2. dirs' = dirs \/ dirs' = [dirs EXCEPT ![Target] = "partial"]
    BY <1>11 DEF HnpInstallForceCheck, HnpCreateFolder
  <2> QED
    BY <1>3, <1>11, <2>1, <2>2 DEF HnpInstallForceCheck, DataInv
<1>12. CASE HnpUnZip
  <2>1. PICK x \in {"full", "partial"} : dirs' = dirs \/ dirs' = [dirs EXCEPT ![Target] = x]
    BY <1>12, UnZipCases
  <2>2. dirs' \in [Dirs -> {"absent", "partial", "full"}]
    BY <2>1 DEF DataInv
  <2> QED
    BY <1>3, <1>12, <2>2, UnZipCases
<1>13. CASE HnpUnZipFails
  BY <1>1, <1>13 DEF HnpUnZipFails
<1>14. CASE LinkInstalled
  <2>1. op.todo # <<>>
    BY <1>14 DEF LinkInstalled, ControlInv, PkgPcs
  <2> QED
    BY <1>4, <1>14, <2>1, LinkType, PackageType DEF LinkInstalled, CommandInv
<1>15. CASE RemoveOldVersion
  BY <1>1, <1>15 DEF RemoveOldVersion
<1>16. CASE RecordVersion
  <2>1. op.todo # <<>> /\ op.hap \in Haps
    BY <1>16 DEF RecordVersion, ControlInv, PkgPcs, CommandInv
  <2>2. HnpInstallInfoJsonWrite(op.hap, Package.name, Package.ver) \in SUBSET Entries
    BY <2>1, PackageType, JsonWriteType DEF CommandInv
  <2>3. \/ info' = info
        \/ \E o \in WriteOutcomes :
             HnpHapJsonWrite(HnpInstallInfoJsonWrite(op.hap, Package.name, Package.ver), o)
    BY <1>16 DEF RecordVersion
  <2>4. UNCHANGED <<old, dirs, links>>
    BY <1>16 DEF RecordVersion
  <2> QED
    BY <1>1, <1>2, <2>2, <2>3, <2>4, WriteType, OutcomeSets
<1>17. CASE NothingToSign \/ EnforceCodeSign \/ BssInstall
  BY <1>1, <1>17 DEF NothingToSign, EnforceCodeSign, BssInstall
<1>18. CASE RunCheck
  BY <1>1, <1>18 DEF RunCheck
<1>19. CASE RemoveRecord
  <2>1. \/ info' = info
        \/ \E o \in {"ok", "open", "short", "silent"} :
             HnpHapJsonWrite(HnpPackageInfoHnpDelete(op.hap, rm.name, rm.ver), o)
    <3>1. CASE info.st = "damaged"
      BY <1>19, <3>1 DEF RemoveRecord
    <3>2. CASE info.st # "damaged"
      <4>1. PICK o \in IF \E e \in info.ents : e.hap = op.hap THEN WriteOutcomes ELSE {"ok"} :
               IF info.st = "ok"
                 THEN HnpHapJsonWrite(
                        HnpPackageInfoHnpDelete(op.hap, rm.name, rm.ver), o)
                 ELSE UNCHANGED info
        BY <1>19, <3>2 DEF RemoveRecord
      <4> QED
        BY <4>1, OutcomeSets
    <3> QED
      BY <3>1, <3>2
  <2>2. HnpPackageInfoHnpDelete(op.hap, rm.name, rm.ver) \in SUBSET Entries
    BY DEF HnpPackageInfoHnpDelete, DataInv, Records
  <2>3. UNCHANGED <<old, dirs, links>>
    BY <1>19 DEF RemoveRecord
  <2> QED
    BY <1>1, <1>2, <2>1, <2>2, <2>3, WriteType
<1>20. CASE RemoveVersion
  <2>1. \/ dirs' = dirs
        \/ \E x \in {"absent", "partial"} : dirs' = [dirs EXCEPT ![<<rm.name, rm.ver>>] = x]
    BY <1>20 DEF RemoveVersion
  <2> QED
    BY <1>3, <1>20, <2>1 DEF RemoveVersion, DataInv
<1>21. CASE RemoveName
  <2>1. links' \in [Links -> Dirs \cup {NoLink}]
    BY <1>21 DEF RemoveName, ClearSoftLink, DataInv
  <2> QED
    BY <1>4, <1>21, <2>1 DEF RemoveName
<1>22. CASE StartUnInstall
  BY <1>2, <1>22, RebuildType DEF StartUnInstall
<1>23. CASE GetPackageInfo
  BY <1>1, <1>23 DEF GetPackageInfo
<1>24. CASE HnpNativeUnInstall
  BY <1>1, <1>24 DEF HnpNativeUnInstall
<1>25. CASE DeletePackageInfo
  <2>1. HnpPackageInfoDelete(op.hap) \in SUBSET Entries
    BY DEF HnpPackageInfoDelete, DataInv, Records
  <2>2. \/ info' = info
        \/ \E o \in WriteOutcomes : HnpHapJsonWrite(HnpPackageInfoDelete(op.hap), o)
    BY <1>25 DEF DeletePackageInfo
  <2>3. UNCHANGED <<old, dirs, links>>
    BY <1>25 DEF DeletePackageInfo
  <2> QED
    BY <1>1, <1>2, <2>1, <2>2, <2>3, WriteType, OutcomeSets
<1>26. CASE DeletePrivate
  BY <1>1, <1>26 DEF DeletePrivate
<1>27. ASSUME NEW n \in Names, ProcessStart(n) \/ ProcessEnd(n) PROVE DataInv'
  BY <1>1, <1>27 DEF ProcessStart, ProcessEnd
<1>28. CASE Crash
  <2>1. CASE UNCHANGED <<info, dirs>>
    BY <1>1, <1>28, <2>1 DEF Crash
  <2>2. CASE info' = [st |-> "empty", ents |-> {}] /\ UNCHANGED dirs
    BY <1>2, <1>28, <2>2 DEF Crash, Records
  <2>3. CASE dirs' = [dirs EXCEPT ![<<rm.name, rm.ver>>] = "partial"] /\ UNCHANGED info
    BY <1>3, <1>28, <2>3 DEF Crash, DataInv
  <2> QED
    BY <1>28, <2>1, <2>2, <2>3 DEF Crash
<1> QED
  BY <1>5, <1>6, <1>7, <1>8, <1>9, <1>10, <1>11, <1>12, <1>13, <1>14, <1>15, <1>16, <1>17,
     <1>18, <1>19, <1>20, <1>21, <1>22, <1>23, <1>24, <1>25, <1>26, <1>27, <1>28
  DEF Next, Command, Install, UnInstall, Environment

\* A command that ends.
Ends == pc' = "idle" /\ op' = NoOp /\ rm' = NoRm /\ un' = NoUn

\* A command that finishes leaves no call behind.
LEMMA FinishEnds == \A ret : Finish(ret) => Ends
  BY DEF Finish, Ends

\* The state after a command satisfies the control invariant.
LEMMA EndsControl == Ends => CommandInv' /\ TodoInv' /\ ControlInv'
<1> SUFFICES ASSUME Ends PROVE CommandInv' /\ TodoInv' /\ ControlInv'
  OBVIOUS
<1>1. CommandInv'
  BY NoValues DEF Ends, CommandInv
<1>2. TodoInv' /\ ControlInv'
  BY DEF Ends, TodoInv, ControlInv, NoOp, NoRm, NoUn, Back, RmPcs, PkgPcs, UnPcs, InstPcs
<1> QED
  BY <1>1, <1>2

\* What Return does, by caller.
LEMMA ReturnCases ==
  ASSUME CommandInv, ControlInv, pc \in RmPcs, NEW ok, NEW why, Return(ok, why)
  PROVE  \/ Ends /\ rm.back \in {"stop", "un_next"}
         \/ /\ pc' = rm.back /\ rm' = NoRm /\ op' = op /\ un' = un
            /\ rm.back \in {"write", "un_next"}
<1>1. rm.back \in {"write", "stop", "un_next"}
  BY DEF ControlInv, CommandInv, Removals
<1>2. CASE rm.back = "write"
  BY <1>2 DEF Return
<1>3. CASE rm.back = "stop"
  BY <1>3, FinishEnds DEF Return
<1>4. CASE rm.back = "un_next"
  BY <1>4, FinishEnds DEF Return
<1> QED
  BY <1>1, <1>2, <1>3, <1>4

CommandOk == CommandInv /\ TodoInv /\ ControlInv

\* HnpUnInstallPublicHnp returns to a stage of its caller.
LEMMA ReturnControl ==
  ASSUME CommandOk, pc \in RmPcs, NEW ok, NEW why, Return(ok, why)
  PROVE  CommandOk'
<1>1. CASE Ends
  BY <1>1, EndsControl DEF CommandOk
<1>2. CASE /\ pc' = rm.back /\ rm' = NoRm /\ op' = op /\ un' = un
           /\ rm.back \in {"write", "un_next"}
  <2>1. CommandInv'
    BY <1>2, NoValues DEF CommandOk, CommandInv, RmPcs, PkgPcs, UnPcs
  <2>2. TodoInv'
    BY <1>2 DEF CommandOk, TodoInv
  <2>3. ControlInv'
    <3>1. CASE rm.back = "write"
      BY <1>2, <3>1 DEF CommandOk, ControlInv, Back, RmPcs, PkgPcs, UnPcs, InstPcs, Package, NoUn
    <3>2. CASE rm.back = "un_next"
      BY <1>2, <3>2 DEF CommandOk, ControlInv, Back, RmPcs, PkgPcs, UnPcs, InstPcs, Package
    <3> QED
      BY <1>2, <3>1, <3>2
  <2> QED
    BY <2>1, <2>2, <2>3 DEF CommandOk
<1> QED
  BY <1>1, <1>2, ReturnCases DEF CommandOk

\* The packages left after the first are the last ones of the bundle.
LEMMA TailType ==
  ASSUME op \in Operations, op.todo # <<>>, TodoInv
  PROVE  LET new == [op EXCEPT !.todo = Tail(@)] IN
         /\ new \in Operations
         /\ Len(new.todo) <= Len(new.bundle)
         /\ \A i \in 1..Len(new.todo) :
              new.todo[i] = new.bundle[Len(new.bundle) - Len(new.todo) + i]
<1> DEFINE new == [op EXCEPT !.todo = Tail(@)]
<1>1. op.todo \in Seq(Packages)
  BY DEF Operations
<1>2. Tail(op.todo) \in Seq(Packages) /\ Len(Tail(op.todo)) = Len(op.todo) - 1
  BY <1>1
<1>3. new.todo = Tail(op.todo) /\ new.bundle = op.bundle /\ new \in Operations
  BY <1>2 DEF Operations
<1>5. \A i \in 1..Len(Tail(op.todo)) : Tail(op.todo)[i] = op.todo[i + 1]
  BY <1>1
<1>6. PICK n \in Nat : n = Len(op.todo)
  BY <1>1
<1>7. op.bundle \in Seq(Packages)
  <2>1. op.bundle \in Bundles \/ op.bundle = <<>>
    BY DEF Operations
  <2>2. <<>> \in Seq(Packages)
    OBVIOUS
  <2> QED
    BY <2>1, <2>2, HnpAssumption
<1>8. PICK m \in Nat : m = Len(op.bundle)
  BY <1>7
<1>9. n <= m /\ \A i \in 1..n : op.todo[i] = op.bundle[m - n + i]
  BY <1>6, <1>8 DEF TodoInv
<1>10. \A i \in 1..(n - 1) : Tail(op.todo)[i] = op.bundle[m - (n - 1) + i]
  <2> SUFFICES ASSUME NEW i \in 1..(n - 1) PROVE Tail(op.todo)[i] = op.bundle[m - (n - 1) + i]
    OBVIOUS
  <2>1. i + 1 \in 1..n /\ m - n + (i + 1) = m - (n - 1) + i
    BY <1>9
  <2>2. op.todo[i + 1] = op.bundle[m - n + (i + 1)]
    BY <2>1, <1>9
  <2> QED
    BY <2>1, <2>2, <1>2, <1>5, <1>6
<1>11. Len(new.todo) = n - 1 /\ Len(new.bundle) = m
  BY <1>2, <1>3, <1>6, <1>8
<1> HIDE DEF new
<1>12. Len(new.todo) <= Len(new.bundle)
  BY <1>9, <1>11
<1>13. \A i \in 1..Len(new.todo) : new.todo[i] = new.bundle[Len(new.bundle) - Len(new.todo) + i]
  BY <1>3, <1>10, <1>11
<1> QED
  BY <1>3, <1>12, <1>13 DEF new

\* HnpPackageInfoGet lists well-typed items.
LEMMA GetInfoType ==
  ASSUME DataInv, NEW h
  PROVE  HnpPackageInfoGet(h) \in SUBSET Items
<1>1. info.ents \subseteq Entries
  BY DEF DataInv, Records
<1>2. \A e \in info.ents : HnpOtherPackageInstallCheck(e) \in BOOLEAN
  BY DEF HnpOtherPackageInstallCheck
<1>3. ASSUME NEW e \in info.ents
      PROVE [name |-> e.name, cur |-> e.cur, inst |-> e.inst,
             exist |-> HnpOtherPackageInstallCheck(e), half |-> FALSE] \in Items
  BY <1>1, <1>2, <1>3 DEF Items, Entries, MaybeVersions
<1> QED
  BY <1>3 DEF HnpPackageInfoGet

\* The old version is the current one of an entry of the name, or none.
LEMMA OldVersionType ==
  ASSUME DataInv, NEW n, OldVersion(n) # NoVer
  PROVE  /\ OldVersion(n) \in Versions
         /\ info.st = "ok" /\ ~\E e \in OfName(n) : e.cur = e.inst
         /\ \E e \in OfName(n) : e.cur = OldVersion(n)
<1>1. info.ents \subseteq Entries
  BY DEF DataInv, Records
<1>2. OfName(n) # {} /\ info.st = "ok" /\ ~\E e \in OfName(n) : e.cur = e.inst
  BY DEF OldVersion
<1>3. PICK e : e = CHOOSE f \in OfName(n) : TRUE
  OBVIOUS
<1>4. e \in OfName(n)
  BY <1>2, <1>3
<1>5. OldVersion(n) = e.cur
  BY <1>2, <1>3 DEF OldVersion
<1> QED
  BY <1>1, <1>2, <1>4, <1>5 DEF OfName, Entries


\* Undoing an installation begins in a consistent stage.
LEMMA RollBackControl ==
  ASSUME CommandOk, pc \in {"unzip", "link", "write"}, NEW x \in {"unzip", "symlink", "json"},
         op' = [op EXCEPT !.ret = x], un' = un, NEW why, RollBack(why)
  PROVE  CommandOk'
<1>1. op.todo # <<>> /\ op \in Operations
  BY DEF CommandOk, CommandInv, ControlInv, PkgPcs
<1>2. op' \in Operations /\ op'.ret = x /\ op'.todo = op.todo /\ op'.bundle = op.bundle
      /\ op'.hap = op.hap /\ op'.kind = op.kind
  BY <1>1 DEF Operations
<1>3. /\ rm' = [name |-> Package.name, ver |-> Package.ver, keep |-> FALSE, back |-> "stop"]
      /\ pc' = "rm_check"
  BY DEF RollBack
<1>4. Package.name \in Names /\ Package.ver \in Versions
  BY <1>1, PackageType
<1>5. rm' \in Removals
  BY <1>3, <1>4 DEF Removals, MaybeVersions
<1>6. CommandInv'
  BY <1>2, <1>3, <1>5 DEF CommandOk, CommandInv, RmPcs
<1>7. TodoInv'
  BY <1>2 DEF CommandOk, TodoInv
<1>8. ControlInv'
  BY <1>1, <1>2, <1>3, <1>4 DEF CommandOk, ControlInv, Back, RmPcs, PkgPcs, UnPcs, InstPcs, Package
<1> QED
  BY <1>6, <1>7, <1>8 DEF CommandOk

\* The next package of the bundle.
LEMMA TailControl ==
  ASSUME CommandOk, pc \in {"link", "write"}, pc' = "next", op' = [op EXCEPT !.todo = Tail(@)],
         un' = un, rm' = rm
  PROVE  CommandOk'
<1>1. op.todo # <<>> /\ op \in Operations /\ op.hap \in Haps
  BY DEF CommandOk, CommandInv, ControlInv, PkgPcs
<1>2. op' \in Operations /\ TodoInv'
  BY <1>1, TailType DEF CommandOk, TodoInv
<1>3. op'.kind = op.kind /\ op'.hap = op.hap
  BY <1>1 DEF Operations
<1>4. CommandInv'
  BY <1>1, <1>2, <1>3 DEF CommandOk, CommandInv, RmPcs, InstPcs
<1>5. ControlInv'
  BY <1>3 DEF CommandOk, ControlInv, Back, RmPcs, PkgPcs, UnPcs, InstPcs
<1> QED
  BY <1>2, <1>4, <1>5 DEF CommandOk

\* No step breaks a type or the control of the command.
LEMMA CommandNext ==
  DataInv /\ CommandOk /\ [Next]_vars => CommandOk'
<1> SUFFICES ASSUME DataInv, CommandOk, [Next]_vars PROVE CommandOk'
  OBVIOUS
<1> USE DEF disk
<1>1. CASE UNCHANGED <<pc, op, rm, un>>
  <2>1. CommandInv' /\ TodoInv'
    BY <1>1 DEF CommandOk, CommandInv, TodoInv
  <2>2. ControlInv'
    BY <1>1, Zenon DEF CommandOk, ControlInv, Back, Package
  <2> QED
    BY <2>1, <2>2 DEF CommandOk
<1>2. ASSUME NEW ret, Finish(ret) PROVE CommandOk'
  BY <1>2, FinishEnds, EndsControl DEF CommandOk
<1>3. CommandInv /\ TodoInv /\ ControlInv
  BY DEF CommandOk
<1>5. CASE UNCHANGED vars
  BY <1>1, <1>5 DEF vars
<1>6. ASSUME NEW h \in Haps, NEW b \in Bundles, NEW f \in BOOLEAN, NativeInstallHnp(h, b, f)
      PROVE CommandOk'
  <2>1. b \in Seq(Packages)
    BY HnpAssumption
  <2>2. op' = [kind |-> "install", hap |-> h, bundle |-> b, todo |-> b,
               force |-> f, skip |-> FALSE, map |-> {}, ret |-> "ok"]
    BY <1>6 DEF NativeInstallHnp, NoOp
  <2>3. op' \in Operations
    BY <2>1, <2>2 DEF Operations
  <2>4. pc' = "start" /\ rm' = NoRm /\ un' = NoUn
    BY <1>3, <1>6 DEF NativeInstallHnp, ControlInv, RmPcs
  <2>5. CommandInv'
    BY <2>2, <2>3, <2>4, NoValues DEF CommandInv, InstPcs
  <2>6. TodoInv'
    BY <2>1, <2>2 DEF TodoInv
  <2>7. ControlInv'
    BY <2>2, <2>4 DEF ControlInv, Back, RmPcs, PkgPcs, UnPcs, InstPcs, NoUn
  <2> QED
    BY <2>5, <2>6, <2>7 DEF CommandOk
<1>7. ASSUME NEW h \in Haps, NativeUnInstallHnp(h) PROVE CommandOk'
  <2>1. op' = [kind |-> "uninstall", hap |-> h, bundle |-> <<>>, todo |-> <<>>,
               force |-> FALSE, skip |-> FALSE, map |-> {}, ret |-> "ok"]
    BY <1>7 DEF NativeUnInstallHnp, NoOp
  <2>2. <<>> \in Seq(Packages)
    OBVIOUS
  <2>3. op' \in Operations
    BY <2>1, <2>2 DEF Operations
  <2>4. pc' = "un_start" /\ rm' = NoRm /\ un' = [caller |-> "cmd", list |-> {}]
    BY <1>3, <1>7 DEF NativeUnInstallHnp, ControlInv, RmPcs, NoUn
  <2>5. CommandInv'
    BY <2>1, <2>3, <2>4, NoValues DEF CommandInv, UnPcs
  <2>6. TodoInv'
    BY <2>1 DEF TodoInv
  <2>7. ControlInv'
    BY <2>1, <2>4 DEF ControlInv, Back, RmPcs, PkgPcs, UnPcs, InstPcs
  <2> QED
    BY <2>5, <2>6, <2>7 DEF CommandOk
<1>8. ASSUME NEW h \in Haps, CommandRefused(h) PROVE CommandOk'
  BY <1>1, <1>8 DEF CommandRefused
<1>9. CASE HnpCmdInstall
  <2>1. pc = "start" /\ pc' = "prepare" /\ UNCHANGED <<op, rm, un>>
    BY <1>9 DEF HnpCmdInstall
  <2> QED
    BY <1>3, <2>1 DEF CommandOk, CommandInv, TodoInv, ControlInv, Back, RmPcs, PkgPcs, UnPcs, InstPcs, Package
<1>10. CASE ArgumentsRefused \/ ReadConfigFails \/ PathIsExist \/ NothingToSign
  BY <1>2, <1>10 DEF ArgumentsRefused, ReadConfigFails, PathIsExist, NothingToSign, Stop
<1>11. CASE HnpInstallPre
  <2>1. CASE pc' = "next" /\ UNCHANGED <<op, rm, un>>
    <3>1. pc = "prepare"
      BY <1>11 DEF HnpInstallPre
    <3> QED
      BY <1>3, <2>1, <3>1 DEF CommandOk, CommandInv, TodoInv, ControlInv, Back, RmPcs, PkgPcs, UnPcs, InstPcs, Package
  <2> QED
    BY <1>2, <1>11, <2>1 DEF HnpInstallPre
<1>12. CASE SkipInstalled
  <2>1. CASE pc' = "deal" /\ op' = [op EXCEPT !.skip = TRUE] /\ UNCHANGED <<rm, un>>
    <3>1. pc = "next" /\ op.todo # <<>> /\ Package.public
      BY <1>12 DEF SkipInstalled
    <3>2. op' \in Operations /\ op'.todo = op.todo /\ op'.bundle = op.bundle
          /\ op'.hap = op.hap /\ op'.kind = op.kind /\ op'.map = op.map
      BY <1>3, <2>1 DEF CommandInv, Operations
    <3> QED
      BY <1>3, <2>1, <3>1, <3>2 DEF CommandOk, CommandInv, TodoInv, ControlInv, Back, RmPcs, PkgPcs, UnPcs, InstPcs, Package
  <2> QED
    BY <1>2, <1>12, <2>1 DEF SkipInstalled, Stop
<1>13. CASE HnpInstallForceCheck
  <2>1. pc = "next" /\ op.todo # <<>> /\ pc' = "unzip" /\ op' = [op EXCEPT !.skip = FALSE] /\ UNCHANGED <<rm, un>>
    BY <1>13 DEF HnpInstallForceCheck
  <2>2. op' \in Operations /\ op'.todo = op.todo /\ op'.bundle = op.bundle
        /\ op'.hap = op.hap /\ op'.kind = op.kind /\ op'.map = op.map
    BY <1>3, <2>1 DEF CommandInv, Operations
  <2> QED
    BY <1>3, <2>1, <2>2 DEF CommandOk, CommandInv, TodoInv, ControlInv, Back, RmPcs, PkgPcs, UnPcs, InstPcs, Package
<1>14. CASE HnpUnZip
  <2>1. pc = "unzip" /\ pc' = "link" /\ UNCHANGED <<rm, un>>
    BY <1>14, UnZipCases
  <2>0. PICK found \in SUBSET SignMap : op' = [op EXCEPT !.map = @ \cup found]
    BY <1>14, UnZipCases
  <2>2. op.todo # <<>>
    BY <1>3, <2>1 DEF ControlInv, PkgPcs
  <2>3. SignMap \subseteq BOOLEAN \X Dirs
    BY <1>3, <2>2, PackageType DEF SignMap, CommandInv
  <2>4. op' \in Operations /\ op'.todo = op.todo /\ op'.bundle = op.bundle
        /\ op'.hap = op.hap /\ op'.kind = op.kind
    BY <1>3, <2>0, <2>3 DEF CommandInv, Operations
  <2> QED
    BY <1>3, <2>1, <2>4 DEF CommandOk, CommandInv, TodoInv, ControlInv, Back, RmPcs, PkgPcs, UnPcs, InstPcs, Package
<1>15. CASE HnpUnZipFails
  BY <1>15, RollBackControl DEF HnpUnZipFails
<1>16. CASE LinkInstalled
  <2>1. pc = "link" /\ un' = un
    BY <1>16 DEF LinkInstalled
  <2>2. \/ Package.public /\ pc' = "deal" /\ UNCHANGED <<op, rm>>
        \/ pc' = "next" /\ op' = [op EXCEPT !.todo = Tail(@)] /\ UNCHANGED rm
        \/ op' = [op EXCEPT !.ret = "symlink"] /\ RollBack({})
    BY <1>16 DEF LinkInstalled
  <2>3. CASE Package.public /\ pc' = "deal" /\ UNCHANGED <<op, rm>>
    BY <1>3, <2>1, <2>3 DEF CommandOk, CommandInv, TodoInv, ControlInv, Back, RmPcs, PkgPcs, UnPcs, InstPcs, Package
  <2> QED
    BY <2>1, <2>2, <2>3, TailControl, RollBackControl
<1>17. CASE RemoveOldVersion
  <2>1. pc = "deal" /\ UNCHANGED <<op, un>>
    BY <1>17 DEF RemoveOldVersion
  <2>2. CASE OldVersion(Package.name) # NoVer
    <3>1. PICK v \in Versions : v = OldVersion(Package.name)
      BY <2>2, OldVersionType
    <3>2. pc' = "rm_check" /\ rm' = [name |-> Package.name, ver |-> v, keep |-> TRUE, back |-> "write"]
      BY <1>17, <2>2, <3>1 DEF RemoveOldVersion
    <3>3. Package.name \in Names /\ Package.public /\ op.todo # <<>>
      BY <1>3, <2>1, PackageType DEF ControlInv, PkgPcs, CommandInv
    <3>4. rm' \in Removals
      BY <3>1, <3>2, <3>3 DEF Removals, MaybeVersions
    <3>5. CommandInv' /\ TodoInv'
      BY <1>3, <2>1, <3>2, <3>4 DEF CommandInv, RmPcs, TodoInv
    <3>6. ControlInv'
      BY <1>3, <2>1, <3>2, <3>3 DEF ControlInv, Back, RmPcs, PkgPcs, UnPcs, InstPcs, Package
    <3> QED
      BY <3>5, <3>6 DEF CommandOk
  <2>3. CASE OldVersion(Package.name) = NoVer
    <3>1. pc' = "write" /\ rm' = rm
      BY <1>17, <2>3 DEF RemoveOldVersion
    <3> QED
      BY <1>3, <2>1, <3>1 DEF CommandOk, CommandInv, TodoInv, ControlInv, Back, RmPcs, PkgPcs, UnPcs, InstPcs, Package
  <2> QED
    BY <2>2, <2>3
<1>18. CASE RecordVersion
  <2>1. \/ pc' = "next" /\ op' = [op EXCEPT !.todo = Tail(@)] /\ UNCHANGED <<rm, un>>
        \/ Finish("json")
        \/ \E why : op' = [op EXCEPT !.ret = "json"] /\ RollBack(why) /\ UNCHANGED un
    BY <1>18 DEF RecordVersion
  <2>2. pc = "write"
    BY <1>18 DEF RecordVersion
  <2> QED
    BY <1>2, <2>1, <2>2, TailControl, RollBackControl
<1>19. CASE EnforceCodeSign
  <2>1. pc = "next" /\ op.todo = <<>>
    BY <1>19 DEF EnforceCodeSign
  <2>2. CASE pc' = "bss" /\ UNCHANGED <<op, rm, un>>
    BY <1>3, <2>1, <2>2 DEF CommandOk, CommandInv, TodoInv, ControlInv, Back, RmPcs, PkgPcs, UnPcs, InstPcs, Package
  <2>3. CASE CallUnInstall("sign")
    BY <1>3, <2>1, <2>3 DEF CallUnInstall, NoUn, CommandOk, CommandInv, TodoInv, ControlInv, Back, RmPcs, PkgPcs, UnPcs, InstPcs, Package
  <2> QED
    BY <1>19, <2>2, <2>3 DEF EnforceCodeSign
<1>20. CASE BssInstall
  <2>1. pc = "bss"
    BY <1>20 DEF BssInstall
  <2>3. CASE CallUnInstall("bss")
    BY <1>3, <2>1, <2>3 DEF CallUnInstall, NoUn, CommandOk, CommandInv, TodoInv, ControlInv, Back, RmPcs, PkgPcs, UnPcs, InstPcs, Package
  <2> QED
    BY <1>2, <1>20, <2>3 DEF BssInstall
<1>21. CASE RunCheck
  <2>1. pc = "rm_check"
    BY <1>21 DEF RunCheck
  <2>2. CASE pc' = (IF rm.keep THEN "rm_dir" ELSE "rm_json") /\ UNCHANGED <<op, rm, un>>
    BY <1>3, <2>1, <2>2 DEF CommandOk, CommandInv, TodoInv, ControlInv, Back, RmPcs, PkgPcs, UnPcs, InstPcs, Package
  <2> QED
    BY <1>21, <2>1, <2>2, ReturnControl DEF RunCheck, Refused, RmPcs
<1>22. CASE RemoveRecord
  <2>1. pc = "rm_json"
    BY <1>22 DEF RemoveRecord
  <2>2. CASE pc' = "rm_dir" /\ UNCHANGED <<op, rm, un>>
    BY <1>3, <2>1, <2>2 DEF CommandOk, CommandInv, TodoInv, ControlInv, Back, RmPcs, PkgPcs, UnPcs, InstPcs, Package
  <2>3. \/ pc' = "rm_dir" /\ UNCHANGED <<op, rm, un>>
        \/ \E why : Return(FALSE, why)
    BY <1>22 DEF RemoveRecord, Refused
  <2> QED
    BY <2>1, <2>2, <2>3, ReturnControl DEF RmPcs
<1>23. CASE RemoveVersion
  <2>1. pc = "rm_dir"
    BY <1>23 DEF RemoveVersion
  <2>2. CASE pc' = "rm_name" /\ UNCHANGED <<op, rm, un>>
    BY <1>3, <2>1, <2>2 DEF CommandOk, CommandInv, TodoInv, ControlInv, Back, RmPcs, PkgPcs, UnPcs, InstPcs, Package
  <2> QED
    BY <1>23, <2>1, <2>2, ReturnControl DEF RemoveVersion, Refused, RmPcs
<1>24. CASE RemoveName
  BY <1>24, ReturnControl DEF RemoveName, Refused, Returns, RmPcs
<1>25. CASE StartUnInstall
  <2>1. pc = "un_start" /\ pc' = "un_get" /\ UNCHANGED <<op, rm, un>>
    BY <1>25 DEF StartUnInstall
  <2> QED
    BY <1>3, <2>1 DEF CommandOk, CommandInv, TodoInv, ControlInv, Back, RmPcs, PkgPcs, UnPcs, InstPcs, Package
<1>26. CASE GetPackageInfo
  <2>1. CASE un' = [un EXCEPT !.list = HnpPackageInfoGet(op.hap)] /\ pc' = "un_next" /\ UNCHANGED <<op, rm>>
    <3>1. HnpPackageInfoGet(op.hap) \in SUBSET Items /\ pc = "un_get"
      BY <1>26, GetInfoType DEF GetPackageInfo
    <3>2. un' \in [caller : {"none", "cmd", "sign", "bss"}, list : SUBSET Items] /\ un'.caller = un.caller
      BY <1>3, <2>1, <3>1 DEF CommandInv
    <3> QED
      BY <1>3, <2>1, <3>1, <3>2 DEF CommandOk, CommandInv, TodoInv, ControlInv, Back, RmPcs, PkgPcs, UnPcs, InstPcs, Package
  <2> QED
    BY <1>2, <1>26, <2>1 DEF GetPackageInfo, UnReturn
<1>27. CASE HnpNativeUnInstall
  <2>0. PICK e \in un.list :
          /\ un' = [un EXCEPT !.list = (@ \ {e}) \cup
                      IF (~e.exist /\ ~e.half) /\ (e.inst # NoVer /\ e.inst # e.cur)
                      THEN {[e EXCEPT !.half = TRUE]} ELSE {}]
          /\ CASE ~e.exist /\ ~e.half ->
                    /\ rm' = [name |-> e.name, ver |-> e.cur, keep |-> FALSE, back |-> "un_next"]
                    /\ pc' = "rm_check"
               [] ~(~e.exist /\ ~e.half) /\ (e.inst # NoVer /\ e.inst # e.cur) ->
                    /\ rm' = [name |-> e.name, ver |-> e.inst, keep |-> TRUE, back |-> "un_next"]
                    /\ pc' = "rm_check"
               [] OTHER -> UNCHANGED <<pc, rm>>
    BY <1>27, Zenon DEF HnpNativeUnInstall
  <2>e. e.cur \in Versions /\ e.cur # NoVer
    BY <1>3, <2>0, HnpAssumption DEF CommandInv, Items
  <2>1. /\ un' = [un EXCEPT !.list = (@ \ {e}) \cup
                      IF (~e.exist /\ ~e.half) /\ (e.inst # NoVer /\ e.inst # e.cur)
                      THEN {[e EXCEPT !.half = TRUE]} ELSE {}]
        /\ \/ UNCHANGED <<pc, rm>>
           \/ \E v \in {e.cur, e.inst} \ {NoVer}, keep \in BOOLEAN :
                  /\ rm' = [name |-> e.name, ver |-> v, keep |-> keep, back |-> "un_next"]
                  /\ pc' = "rm_check"
    BY <2>0, <2>e
  <2>2. pc = "un_next" /\ op' = op /\ e \in Items
    BY <1>3, <1>27, <2>1 DEF HnpNativeUnInstall, CommandInv
  <2>3. [e EXCEPT !.half = TRUE] \in Items
    BY <2>2 DEF Items
  <2>4. un' \in [caller : {"none", "cmd", "sign", "bss"}, list : SUBSET Items] /\ un'.caller = un.caller
    BY <1>3, <2>1, <2>3 DEF CommandInv
  <2>5. CASE UNCHANGED <<pc, rm>>
    BY <1>3, <2>2, <2>4, <2>5 DEF CommandOk, CommandInv, TodoInv, ControlInv, Back, RmPcs, PkgPcs, UnPcs, InstPcs, Package
  <2>6. ASSUME NEW v \in {e.cur, e.inst} \ {NoVer}, NEW keep \in BOOLEAN,
               rm' = [name |-> e.name, ver |-> v, keep |-> keep, back |-> "un_next"], pc' = "rm_check"
        PROVE CommandOk'
    <3>1. v \in Versions /\ e.name \in Names
      BY <2>2 DEF Items, MaybeVersions
    <3>2. rm' \in Removals /\ rm'.back = "un_next" /\ rm'.name \in Names /\ rm'.ver \in Versions
      BY <2>6, <3>1 DEF Removals, MaybeVersions
    <3> QED
      BY <1>3, <2>2, <2>4, <2>6, <3>2 DEF CommandOk, CommandInv, TodoInv, ControlInv, Back, RmPcs, PkgPcs, UnPcs, InstPcs, Package
  <2> QED
    BY <2>1, <2>5, <2>6
<1>28. CASE DeletePackageInfo
  <2>1. pc = "un_next" /\ un.list = {}
    BY <1>28 DEF DeletePackageInfo
  <2>2. CASE pc' = "un_priv" /\ UNCHANGED <<op, rm, un>>
    BY <1>3, <2>1, <2>2 DEF CommandOk, CommandInv, TodoInv, ControlInv, Back, RmPcs, PkgPcs, UnPcs, InstPcs, Package
  <2> QED
    BY <1>2, <1>28, <2>2 DEF DeletePackageInfo, UnReturn
<1>29. CASE DeletePrivate
  BY <1>2, <1>29 DEF DeletePrivate, UnReturn
<1>30. ASSUME NEW n \in Names, ProcessStart(n) \/ ProcessEnd(n) PROVE CommandOk'
  BY <1>1, <1>30 DEF ProcessStart, ProcessEnd
<1>31. CASE Crash
  BY <1>2, <1>31 DEF Crash
<1> QED
  BY <1>5, <1>6, <1>7, <1>8, <1>9, <1>10, <1>11, <1>12, <1>13, <1>14, <1>15, <1>16, <1>17,
     <1>18, <1>19, <1>20, <1>21, <1>22, <1>23, <1>24, <1>25, <1>26, <1>27, <1>28, <1>29, <1>30, <1>31
  DEF Next, Command, Install, UnInstall, Environment

Typed == DataInv /\ CommandOk

\* The first state has its types.
LEMMA TypedInit == Init => Typed
  BY TypeInit DEF Typed, TypeInv, CommandOk

\* Every step keeps the types and the control.
LEMMA TypedNext == Typed /\ [Next]_vars => Typed'
  BY DataNext, CommandNext DEF Typed, TypeInv, CommandOk

---------------------------------------------------------------------------
(* The record                                                              *)

\* What a step may do to the record.
RecordGrows ==
  /\ pc = "write" /\ info' = [st |-> "ok", ents |-> HnpInstallInfoJsonWrite(op.hap, Package.name, Package.ver)]
  /\ pc' = "next" /\ op' = [op EXCEPT !.todo = Tail(@)] /\ un' = un /\ rm' = rm /\ harm' = harm
  /\ UNCHANGED <<old, disk, last>>
RecordMigrates ==
  /\ info.st = "missing" /\ old # NoVer
  /\ info' = [st |-> "ok", ents |-> DoRebuildHnpInfoCfg]
  /\ \/ pc = "start" /\ pc' = "prepare"
     \/ pc = "un_start" /\ pc' = "un_get"
  /\ UNCHANGED <<op, un, rm, old, disk, last>>

\* The migration keeps the record, loses it or takes over the old entries.
LEMMA RebuildCases ==
  ASSUME DataInv, RebuildHnpInfoCfg
  PROVE  \/ info' = info
         \/ info'.ents = {}
         \/ /\ info.st = "missing" /\ old # NoVer
            /\ info' = [st |-> "ok", ents |-> DoRebuildHnpInfoCfg]
<1>1. CASE info.st = "missing" /\ old # NoVer
  <2>1. PICK o \in WriteOutcomes : HnpHapJsonWrite(DoRebuildHnpInfoCfg, o)
    BY <1>1 DEF RebuildHnpInfoCfg
  <2>2. o \in {"ok", "open", "short", "silent"}
    BY OutcomeSets
  <2> QED
    BY <1>1, <2>1, <2>2 DEF HnpHapJsonWrite
<1>2. CASE ~(info.st = "missing" /\ old # NoVer)
  BY <1>2 DEF RebuildHnpInfoCfg
<1> QED
  BY <1>1, <1>2

\* Only recording a version and the migration add entries.
LEMMA RecordCases ==
  ASSUME Typed, [Next]_vars
  PROVE  info'.ents \subseteq info.ents \/ RecordGrows \/ RecordMigrates
<1> USE DEF disk
<1>1. DataInv /\ CommandOk
  BY DEF Typed
<1>2. CASE info' = info
  BY <1>2
<1>3. CASE info'.ents = {}
  BY <1>3
<1>5. CASE UNCHANGED vars
  BY <1>2, <1>5 DEF vars
<1>4. ASSUME NEW h \in Haps, NEW b \in Bundles, NEW f \in BOOLEAN, NativeInstallHnp(h, b, f)
      PROVE  info' = info
  BY <1>4 DEF NativeInstallHnp
<1>6. ASSUME NEW h \in Haps, NativeUnInstallHnp(h) \/ CommandRefused(h)
      PROVE  info' = info
  BY <1>6 DEF NativeUnInstallHnp, CommandRefused
<1>7. CASE HnpCmdInstall
  BY <1>1, <1>2, <1>3, <1>7, RebuildCases DEF HnpCmdInstall, RecordMigrates
<1>8. CASE StartUnInstall
  BY <1>1, <1>2, <1>3, <1>8, RebuildCases DEF StartUnInstall, RecordMigrates
<1>9. CASE \/ ArgumentsRefused \/ HnpInstallPre \/ ReadConfigFails \/ PathIsExist \/ SkipInstalled
           \/ HnpInstallForceCheck \/ HnpUnZip \/ HnpUnZipFails \/ LinkInstalled \/ RemoveOldVersion
  BY <1>2, <1>9 DEF ArgumentsRefused, HnpInstallPre, ReadConfigFails, PathIsExist, SkipInstalled,
       HnpInstallForceCheck, HnpUnZip, HnpUnZipFails, LinkInstalled, RemoveOldVersion
<1>10. CASE \/ NothingToSign \/ EnforceCodeSign \/ BssInstall \/ RunCheck \/ RemoveVersion \/ RemoveName
            \/ GetPackageInfo \/ HnpNativeUnInstall \/ DeletePrivate
  BY <1>2, <1>10 DEF NothingToSign, EnforceCodeSign, BssInstall, RunCheck, RemoveVersion, RemoveName,
       GetPackageInfo, HnpNativeUnInstall, DeletePrivate
<1>11. CASE RecordVersion
  <2> DEFINE new == HnpInstallInfoJsonWrite(op.hap, Package.name, Package.ver)
  <2> HIDE DEF new
  <2>1. PICK o \in IF Readable THEN WriteOutcomes ELSE {"parse"} :
        /\ IF o = "parse" THEN UNCHANGED info ELSE HnpHapJsonWrite(new, o)
        /\ WriteOk(o) => /\ pc' = "next" /\ op' = [op EXCEPT !.todo = Tail(@)]
                         /\ Harm(LostIf(o)) /\ UNCHANGED <<rm, un, last>>
    BY <1>11, Zenon DEF RecordVersion, new
  <2>2. o \in {"ok", "open", "short", "silent", "parse"}
    BY OutcomeSets
  <2>3. o # "ok" => info' = info \/ info'.ents = {}
    BY <2>1, <2>2 DEF HnpHapJsonWrite
  <2>4. o = "ok" => info' = [st |-> "ok", ents |-> new]
    BY <2>1 DEF HnpHapJsonWrite
  <2>6. o = "ok" => /\ pc' = "next" /\ op' = [op EXCEPT !.todo = Tail(@)]
                    /\ harm' = harm /\ UNCHANGED <<rm, un, last>>
    BY <2>1 DEF WriteOk, Harm, LostIf
  <2>5. UNCHANGED <<old, disk>> /\ pc = "write"
    BY <1>11 DEF RecordVersion
  <2> QED
    BY <1>2, <1>3, <2>3, <2>4, <2>5, <2>6 DEF RecordGrows, new
<1>12. CASE RemoveRecord
  <2>1. \/ info' = info
        \/ \E o \in {"ok", "open", "short", "silent"} :
             HnpHapJsonWrite(HnpPackageInfoHnpDelete(op.hap, rm.name, rm.ver), o)
    BY <1>12, OutcomeSets DEF RemoveRecord
  <2> QED
    BY <2>1 DEF HnpHapJsonWrite, HnpPackageInfoHnpDelete
<1>13. CASE DeletePackageInfo
  <2>1. \/ info' = info
        \/ \E o \in {"ok", "open", "short", "silent"} :
             HnpHapJsonWrite(HnpPackageInfoDelete(op.hap), o)
    BY <1>13, OutcomeSets DEF DeletePackageInfo
  <2> QED
    BY <2>1 DEF HnpHapJsonWrite, HnpPackageInfoDelete
<1>14. ASSUME NEW n \in Names, ProcessStart(n) \/ ProcessEnd(n) PROVE info' = info
  BY <1>14 DEF ProcessStart, ProcessEnd
<1>15. CASE Crash
  BY <1>2, <1>3, <1>15 DEF Crash
<1> QED
  BY <1>2, <1>4, <1>5, <1>6, <1>7, <1>8, <1>9, <1>10, <1>11, <1>12, <1>13, <1>14, <1>15
  DEF Next, Command, Install, UnInstall, Environment

\* All entries of a name share the current version.
SameCurrent == \A e, f \in info.ents : e.name = f.name => e.cur = f.cur

\* What HnpInstallInfoJsonWrite leaves of an entry.
LEMMA WrittenEntries ==
  ASSUME DataInv, NEW h \in Haps, NEW n \in Names, NEW v \in Versions
  PROVE  /\ \A e \in HnpInstallInfoJsonWrite(h, n, v) :
              \/ e.name # n /\ e \in info.ents
              \/ /\ e.name = n /\ e.cur = v
                 /\ \/ e.hap = h
                    \/ \E f \in info.ents : f.name = n /\ f.hap = e.hap
         /\ \A e \in info.ents : \E f \in HnpInstallInfoJsonWrite(h, n, v) :
              /\ f.hap = e.hap /\ f.name = e.name /\ f.inst = e.inst
              /\ f.cur = IF e.name = n THEN v ELSE e.cur
         /\ \E e \in HnpInstallInfoJsonWrite(h, n, v) : e.hap = h /\ e.name = n /\ e.cur = v
<1> DEFINE new == [hap |-> h, name |-> n, cur |-> v, inst |-> v]
<1>1. info.ents \in SUBSET Entries
  BY DEF DataInv, Records
<1>2. new \in Entries
  BY DEF Entries
<1>3. PICK added : /\ added \in SUBSET Entries /\ info.ents \subseteq added
                   /\ \A e \in added : e \in info.ents \/ e = new
                   /\ \E e \in added : e.hap = h /\ e.name = n
                   /\ HnpInstallInfoJsonWrite(h, n, v) = HnpPackageVersionUpdateAll(added, n, v)
  BY <1>1, <1>2 DEF HnpInstallInfoJsonWrite, OfName
<1> DEFINE upd(e) == IF e.name = n THEN [e EXCEPT !.cur = v] ELSE e
<1>11. HnpInstallInfoJsonWrite(h, n, v) = {upd(e) : e \in added}
  BY <1>3 DEF HnpPackageVersionUpdateAll
<1>4. ASSUME NEW e \in Entries
      PROVE  /\ upd(e).hap = e.hap /\ upd(e).name = e.name /\ upd(e).inst = e.inst
             /\ upd(e).cur = IF e.name = n THEN v ELSE e.cur
             /\ e.name # n => upd(e) = e
  BY <1>4 DEF Entries
<1> HIDE DEF upd
<1>5. ASSUME NEW f \in HnpInstallInfoJsonWrite(h, n, v)
      PROVE  \E e \in added : /\ f.hap = e.hap /\ f.name = e.name /\ f.inst = e.inst
                              /\ f.cur = IF e.name = n THEN v ELSE e.cur
                              /\ e.name # n => f = e
  BY <1>3, <1>4, <1>5, <1>11
<1>6. ASSUME NEW e \in added
      PROVE  \E f \in HnpInstallInfoJsonWrite(h, n, v) :
                 /\ f.hap = e.hap /\ f.name = e.name /\ f.inst = e.inst
                 /\ f.cur = IF e.name = n THEN v ELSE e.cur
  BY <1>3, <1>4, <1>6, <1>11
<1>7. new.hap = h /\ new.name = n
  OBVIOUS
<1> HIDE DEF new
<1>8. ASSUME NEW f \in HnpInstallInfoJsonWrite(h, n, v)
      PROVE  \/ f.name # n /\ f \in info.ents
             \/ /\ f.name = n /\ f.cur = v
                /\ \/ f.hap = h
                   \/ \E g \in info.ents : g.name = n /\ g.hap = f.hap
  BY <1>3, <1>5, <1>7, <1>8
<1>9. \A e \in info.ents : \E f \in HnpInstallInfoJsonWrite(h, n, v) :
              /\ f.hap = e.hap /\ f.name = e.name /\ f.inst = e.inst
              /\ f.cur = IF e.name = n THEN v ELSE e.cur
  BY <1>3, <1>6
<1>10. \E e \in HnpInstallInfoJsonWrite(h, n, v) : e.hap = h /\ e.name = n /\ e.cur = v
  BY <1>3, <1>6
<1> QED
  BY <1>8, <1>9, <1>10

\* The package a record is written for.
LEMMA PackageWritten ==
  ASSUME Typed, pc \in PkgPcs \/ Back("write") \/ Back("stop")
  PROVE  /\ op.hap \in Haps /\ op.todo # <<>>
         /\ Package \in Packages /\ Target \in Dirs
         /\ Package.name \in Names /\ Package.ver \in Versions /\ Package.public \in BOOLEAN
         /\ Package.links \in Seq(Links)
<1>1. pc # "idle" /\ op.todo # <<>> /\ op \in Operations
  BY DEF Typed, CommandOk, CommandInv, ControlInv, PkgPcs, Back, RmPcs
<1> QED
  BY <1>1, PackageType DEF Typed, CommandOk, CommandInv

\* An empty record.
LEMMA SameInit == Init => SameCurrent
  BY DEF Init, SameCurrent

\* HnpPackageVersionUpdateAll keeps the current versions of a name equal.
LEMMA SameNext == Typed /\ SameCurrent /\ [Next]_vars => SameCurrent'
<1> SUFFICES ASSUME Typed, SameCurrent, [Next]_vars PROVE SameCurrent'
  OBVIOUS
<1>1. CASE info'.ents \subseteq info.ents
  BY <1>1 DEF SameCurrent
<1>2. CASE RecordGrows
  <2>1. info'.ents = HnpInstallInfoJsonWrite(op.hap, Package.name, Package.ver)
    BY <1>2 DEF RecordGrows
  <2>2. op.hap \in Haps /\ Package.name \in Names /\ Package.ver \in Versions
    BY <1>2, PackageWritten DEF RecordGrows, PkgPcs
  <2> QED
    BY <2>1, <2>2, WrittenEntries DEF SameCurrent, Typed
<1>3. CASE RecordMigrates
  <2>1. \A e, f \in old : e.name = f.name => e.cur = f.cur
    BY <1>3, HnpAssumption DEF RecordMigrates, Typed, DataInv
  <2>2. info'.ents \subseteq old
    BY <1>3 DEF RecordMigrates, DoRebuildHnpInfoCfg
  <2> QED
    BY <2>1, <2>2 DEF SameCurrent
<1> QED
  BY <1>1, <1>2, <1>3, RecordCases

---------------------------------------------------------------------------
(* Which steps lead into the stages of a command                           *)

\* HnpPublicDealAfterInstall: a public package is unpacked or was there.
Dealing == pc \in {"deal", "write"} \/ Back("write")
\* HnpUnInstall is working on its list.
Unlisting == pc = "un_next" \/ Back("un_next")

\* Which ends of a step are outside the two loops.
LEMMA NoDealing ==
  /\ Ends => ~Dealing' /\ ~Unlisting'
  /\ \A why : RollBack(why) => ~Dealing' /\ ~Unlisting'
  /\ pc' \notin {"deal", "write", "un_next"} \cup RmPcs => ~Dealing' /\ ~Unlisting'
<1>1. Ends => ~Dealing' /\ ~Unlisting'
  BY DEF Ends, Dealing, Unlisting, Back, RmPcs
<1>2. ASSUME NEW why, RollBack(why) PROVE ~Dealing' /\ ~Unlisting'
  <2>1. pc' = "rm_check" /\ rm'.back = "stop"
    BY <1>2 DEF RollBack
  <2> QED
    BY <2>1 DEF Dealing, Unlisting, Back, RmPcs
<1>3. pc' \notin {"deal", "write", "un_next"} \cup RmPcs => ~Dealing' /\ ~Unlisting'
  BY DEF Dealing, Unlisting, Back, RmPcs
<1> QED
  BY <1>1, <1>2, <1>3

\* HnpUnInstallPublicHnp, step by step or back to its caller.
LEMMA RemovalSteps ==
  ASSUME Typed, RunCheck \/ RemoveRecord \/ RemoveVersion \/ RemoveName
  PROVE  /\ pc \in RmPcs
         /\ \/ Ends /\ rm.back \in {"stop", "un_next"}
            \/ pc' = rm.back /\ rm' = NoRm /\ op' = op /\ un' = un /\ rm.back \in {"write", "un_next"}
            \/ pc' \in RmPcs /\ op' = op /\ un' = un /\ rm' = rm /\ harm \subseteq harm'
<1> USE DEF disk
<1>1. pc \in RmPcs
  BY DEF RunCheck, RemoveRecord, RemoveVersion, RemoveName, RmPcs
<1>2. \/ \E ok, why : Return(ok, why)
      \/ pc' \in RmPcs /\ op' = op /\ un' = un /\ rm' = rm /\ harm \subseteq harm'
  <2>1. CASE RunCheck
    BY <2>1 DEF RunCheck, Refused, RmPcs
  <2>2. CASE RemoveRecord
    BY <2>2 DEF RemoveRecord, Refused, RmPcs, Harm
  <2>3. CASE RemoveVersion
    BY <2>3 DEF RemoveVersion, Refused, RmPcs
  <2>4. CASE RemoveName
    BY <2>4 DEF RemoveName, Refused, Returns
  <2> QED
    BY <2>1, <2>2, <2>3, <2>4
<1>3. CommandInv /\ ControlInv
  BY DEF Typed, CommandOk
<1> QED
  BY <1>1, <1>2, <1>3, ReturnCases

\* The steps on the way from the links to the record.
LEMMA DealSteps ==
  ASSUME Typed, [Next]_vars, Dealing'
  PROVE  \/ (SkipInstalled \/ LinkInstalled) /\ pc' = "deal"
         \/ /\ Dealing /\ info' = info /\ op' = op /\ un' = un
            /\ \/ RemoveOldVersion
               \/ Back("write") /\ (RunCheck \/ RemoveVersion \/ RemoveName)
               \/ UNCHANGED <<old, disk, pc, rm, harm>>
<1> USE DEF disk
<1>0. CommandInv /\ ControlInv
  BY DEF Typed, CommandOk
<1>1. \A ret : ~Finish(ret)
  BY NoDealing, FinishEnds
<1>2. \A why : ~RollBack(why)
  BY NoDealing
<1>5. CASE UNCHANGED vars
  BY <1>5 DEF vars, Dealing, Back
<1>6. ASSUME NEW h \in Haps, NEW b \in Bundles, NEW f \in BOOLEAN, NativeInstallHnp(h, b, f) PROVE FALSE
  BY <1>6, NoDealing DEF NativeInstallHnp, RmPcs
<1>7. ASSUME NEW h \in Haps, NativeUnInstallHnp(h) PROVE FALSE
  BY <1>7, NoDealing DEF NativeUnInstallHnp, RmPcs
<1>8. ASSUME NEW h \in Haps, CommandRefused(h) PROVE FALSE
  BY <1>8, NoDealing DEF CommandRefused, RmPcs
<1>9. CASE HnpCmdInstall \/ HnpInstallPre \/ HnpInstallForceCheck \/ HnpUnZip
  BY <1>1, <1>9, NoDealing DEF HnpCmdInstall, HnpInstallPre, HnpInstallForceCheck, HnpUnZip, RmPcs
<1>10. CASE ArgumentsRefused \/ ReadConfigFails \/ PathIsExist \/ NothingToSign
  BY <1>1, <1>10 DEF ArgumentsRefused, ReadConfigFails, PathIsExist, NothingToSign, Stop
<1>11. CASE SkipInstalled
  BY <1>1, <1>11 DEF SkipInstalled, Stop
<1>12. CASE HnpUnZipFails
  BY <1>2, <1>12 DEF HnpUnZipFails
<1>13. CASE LinkInstalled
  BY <1>2, <1>13, NoDealing DEF LinkInstalled, RmPcs
<1>14. CASE RemoveOldVersion
  BY <1>14 DEF RemoveOldVersion, Dealing
<1>15. CASE RecordVersion
  BY <1>1, <1>2, <1>15, NoDealing DEF RecordVersion, RmPcs
<1>16. CASE EnforceCodeSign \/ BssInstall
  BY <1>1, <1>16, NoDealing DEF EnforceCodeSign, BssInstall, CallUnInstall, RmPcs
<1>17. CASE RunCheck \/ RemoveRecord \/ RemoveVersion \/ RemoveName
  <2>1. op' = op /\ un' = un /\ rm.back = "write" /\ pc \in RmPcs
    BY <1>17, RemovalSteps, NoDealing DEF Dealing, Back, RmPcs
  <2>2. ~RemoveRecord
    BY <1>0, <2>1 DEF ControlInv, Back, RemoveRecord, RmPcs
  <2> QED
    BY <1>17, <2>1, <2>2 DEF RunCheck, RemoveVersion, RemoveName, Dealing, Back
<1>18. CASE StartUnInstall \/ DeletePrivate
  BY <1>1, <1>18, NoDealing DEF StartUnInstall, DeletePrivate, UnReturn, RmPcs
<1>19. CASE GetPackageInfo \/ DeletePackageInfo
  BY <1>1, <1>19 DEF GetPackageInfo, DeletePackageInfo, UnReturn, Dealing, Back, RmPcs
<1>20. CASE HnpNativeUnInstall
  BY <1>20 DEF HnpNativeUnInstall, Dealing, Back, RmPcs
<1>21. ASSUME NEW n \in Names, ProcessStart(n) \/ ProcessEnd(n)
       PROVE  Dealing /\ UNCHANGED <<info, op, un, old, disk, pc, rm, harm>>
  BY <1>21 DEF ProcessStart, ProcessEnd, Dealing, Back
<1>22. CASE Crash
  BY <1>1, <1>22 DEF Crash
<1> QED
  BY <1>5, <1>6, <1>7, <1>8, <1>9, <1>10, <1>11, <1>12, <1>13, <1>14, <1>15, <1>16, <1>17,
     <1>18, <1>19, <1>20, <1>21, <1>22
  DEF Next, Command, Install, UnInstall, Environment

\* The steps of HnpUnInstall's loop.
LEMMA UnlistSteps ==
  ASSUME Typed, [Next]_vars, Unlisting'
  PROVE  /\ op' = op
         /\ \/ GetPackageInfo /\ Readable /\ un' = [un EXCEPT !.list = HnpPackageInfoGet(op.hap)]
            \/ HnpNativeUnInstall
            \/ /\ Unlisting /\ un' = un
               /\ \/ RunCheck \/ RemoveRecord \/ RemoveVersion \/ RemoveName
                  \/ UNCHANGED <<info, old, disk, pc, rm, harm>>
<1> USE DEF disk
<1>1. \A ret : ~Finish(ret)
  BY NoDealing, FinishEnds
<1>2. \A why : ~RollBack(why)
  BY NoDealing
<1>5. CASE UNCHANGED vars
  BY <1>5 DEF vars, Unlisting, Back
<1>6. ASSUME NEW h \in Haps, NEW b \in Bundles, NEW f \in BOOLEAN, NativeInstallHnp(h, b, f) PROVE FALSE
  BY <1>6, NoDealing DEF NativeInstallHnp, RmPcs
<1>7. ASSUME NEW h \in Haps, NativeUnInstallHnp(h) PROVE FALSE
  BY <1>7, NoDealing DEF NativeUnInstallHnp, RmPcs
<1>8. ASSUME NEW h \in Haps, CommandRefused(h) PROVE FALSE
  BY <1>8, NoDealing DEF CommandRefused, RmPcs
<1>9. CASE HnpCmdInstall \/ HnpInstallPre \/ HnpInstallForceCheck \/ HnpUnZip
  BY <1>1, <1>9, NoDealing DEF HnpCmdInstall, HnpInstallPre, HnpInstallForceCheck, HnpUnZip, RmPcs
<1>10. CASE ArgumentsRefused \/ ReadConfigFails \/ PathIsExist \/ NothingToSign
  BY <1>1, <1>10 DEF ArgumentsRefused, ReadConfigFails, PathIsExist, NothingToSign, Stop
<1>11. CASE SkipInstalled
  BY <1>1, <1>11 DEF SkipInstalled, Stop, Unlisting, Back, RmPcs
<1>12. CASE HnpUnZipFails
  BY <1>2, <1>12 DEF HnpUnZipFails
<1>13. CASE LinkInstalled
  BY <1>2, <1>13 DEF LinkInstalled, Unlisting, Back, RmPcs
<1>14. CASE RemoveOldVersion
  BY <1>14 DEF RemoveOldVersion, Unlisting, Back, RmPcs
<1>15. CASE RecordVersion
  BY <1>1, <1>2, <1>15, NoDealing DEF RecordVersion, RmPcs
<1>16. CASE EnforceCodeSign \/ BssInstall
  BY <1>1, <1>16, NoDealing DEF EnforceCodeSign, BssInstall, CallUnInstall, RmPcs
<1>17. CASE RunCheck \/ RemoveRecord \/ RemoveVersion \/ RemoveName
  <2>1. op' = op /\ un' = un /\ rm.back = "un_next" /\ pc \in RmPcs
    BY <1>17, RemovalSteps, NoDealing DEF Unlisting, Back, RmPcs
  <2> QED
    BY <1>17, <2>1 DEF Unlisting, Back
<1>18. CASE StartUnInstall \/ DeletePrivate
  BY <1>1, <1>18, NoDealing DEF StartUnInstall, DeletePrivate, UnReturn, RmPcs
<1>19. CASE GetPackageInfo
  BY <1>1, <1>19 DEF GetPackageInfo, UnReturn
<1>20. CASE DeletePackageInfo
  BY <1>1, <1>20, NoDealing DEF DeletePackageInfo, UnReturn, RmPcs
<1>21. CASE HnpNativeUnInstall
  BY <1>21 DEF HnpNativeUnInstall
<1>22. ASSUME NEW n \in Names, ProcessStart(n) \/ ProcessEnd(n)
       PROVE  Unlisting /\ UNCHANGED <<op, un, info, old, disk, pc, rm, harm>>
  BY <1>22 DEF ProcessStart, ProcessEnd, Unlisting, Back
<1>23. CASE Crash
  BY <1>1, <1>23 DEF Crash
<1> QED
  BY <1>5, <1>6, <1>7, <1>8, <1>9, <1>10, <1>11, <1>12, <1>13, <1>14, <1>15, <1>16, <1>17,
     <1>18, <1>19, <1>20, <1>21, <1>22, <1>23
  DEF Next, Command, Install, UnInstall, Environment

---------------------------------------------------------------------------
(* Who may change what a name's HAPs share                                 *)

\* All links of the package were made, so CanRecovery let this HAP.
LEMMA MadeRecovers ==
  ASSUME NEW p, p.links \in Seq(Links), p.links # <<>>, NEW gone, NEW bad,
         LinksMade(p, gone, bad) = ToSet(p.links)
  PROVE  CanRecovery(op.hap, p.name)
<1>1. 1 \in DOMAIN p.links
  OBVIOUS
<1>2. p.links[1] \in LinksMade(p, gone, bad)
  BY <1>1 DEF ToSet
<1>3. PICK i \in DOMAIN p.links : \A j \in 1..i : CanRecovery(op.hap, p.name)
  BY <1>2 DEF LinksMade
<1>4. 1 \in 1..i
  BY <1>3
<1> QED
  BY <1>3, <1>4

\* The package being installed is the next one of the bundle.
LEMMA PackageCarried ==
  ASSUME Typed, op.todo # <<>>
  PROVE  /\ Package \in Carried
         /\ op.bundle \in Bundles
         /\ Len(op.bundle) - Len(op.todo) + 1 \in DOMAIN op.bundle
         /\ Package = op.bundle[Len(op.bundle) - Len(op.todo) + 1]
<1>1. op \in Operations /\ TodoInv
  BY DEF Typed, CommandOk, CommandInv
<1>2. op.todo \in Seq(Packages) /\ op.bundle \in Bundles \cup {<<>>}
  BY <1>1 DEF Operations
<1>3. PICK n \in Nat : n = Len(op.todo) /\ n >= 1
  BY <1>2
<1>4. op.bundle \in Bundles
  BY <1>1, <1>2, <1>3 DEF TodoInv
<1>5. op.bundle \in Seq(Packages)
  BY <1>4, HnpAssumption
<1>6. PICK m \in Nat : m = Len(op.bundle)
  BY <1>5
<1>11. n <= m /\ \A i \in 1..n : op.todo[i] = op.bundle[m - n + i]
  BY <1>1, <1>3, <1>6 DEF TodoInv
<1>7. 1 \in 1..n /\ m - n + 1 \in 1..m
  BY <1>3, <1>11
<1>8. m - n + 1 \in DOMAIN op.bundle
  BY <1>5, <1>6, <1>7
<1>9. Package = op.bundle[m - n + 1]
  BY <1>2, <1>7, <1>11 DEF Package
<1>10. Package \in ToSet(op.bundle)
  BY <1>8, <1>9 DEF ToSet
<1> QED
  BY <1>3, <1>4, <1>6, <1>8, <1>9, <1>10 DEF Carried

\* A package whose links were set belongs to a name this HAP may change.
Linkable ==
  Dealing =>
    \/ Package.links = <<>>
    \/ OfName(Package.name) = {}
    \/ \E e \in OfName(Package.name) : e.hap = op.hap

\* A name whose packages all have links has the entries of one HAP.
OneHap == \A e, f \in info.ents : e.name = f.name /\ e.name \in LinkedNames => e.hap = f.hap

\* No package is being installed and no name has entries.
LEMMA LinkableInit == Init => Linkable /\ OneHap
  BY DEF Init, Linkable, OneHap, Dealing, Back, RmPcs

\* Links are set only for a HAP that CanRecovery admits.
LEMMA LinkableNext == Typed /\ Linkable /\ [Next]_vars => Linkable'
<1> SUFFICES ASSUME Typed, Linkable, [Next]_vars, Dealing' PROVE Linkable'
  BY DEF Linkable
<1>5. ASSUME \/ Package.links = <<>>
             \/ OfName(Package.name) = {}
             \/ \E e \in OfName(Package.name) : e.hap = op.hap,
             info' = info, op'.todo = op.todo, op'.hap = op.hap
      PROVE  Linkable'
  BY <1>5 DEF Linkable, Package, OfName
<1>1. CASE Dealing /\ info' = info /\ op' = op
  BY <1>1, <1>5 DEF Linkable
<1>2. CASE SkipInstalled /\ pc' = "deal"
  <2>1. Package.links \in Seq(Links)
    BY <1>2, PackageType DEF SkipInstalled, Typed, CommandOk, CommandInv
  <2>2. /\ \E gone, bad : LinksMade(Package, gone, bad) = ToSet(Package.links)
        /\ op' = [op EXCEPT !.skip = TRUE] /\ info' = info
    BY <1>2 DEF SkipInstalled, Stop, Finish
  <2>3. op'.todo = op.todo /\ op'.hap = op.hap
    BY <2>2 DEF Typed, CommandOk, CommandInv, Operations
  <2> QED
    BY <1>5, <2>1, <2>2, <2>3, MadeRecovers DEF CanRecovery
<1>3. CASE LinkInstalled /\ pc' = "deal"
  <2>1. Package.links \in Seq(Links)
    BY <1>3, PackageWritten DEF LinkInstalled, PkgPcs
  <2>2. /\ \E gone, bad : LinksMade(Package, gone, bad) = ToSet(Package.links)
        /\ op' = op /\ info' = info
    BY <1>3 DEF LinkInstalled, RollBack
  <2> QED
    BY <1>5, <2>1, <2>2, MadeRecovers DEF CanRecovery
<1> QED
  BY <1>1, <1>2, <1>3, DealSteps

\* So no second HAP gets an entry of a linked name.
LEMMA OneHapNext == Typed /\ Linkable /\ OneHap /\ [Next]_vars => OneHap'
<1> SUFFICES ASSUME Typed, Linkable, OneHap, [Next]_vars PROVE OneHap'
  OBVIOUS
<1>1. CASE info'.ents \subseteq info.ents
  BY <1>1 DEF OneHap
<1>2. CASE RecordGrows
  <2>1. info'.ents = HnpInstallInfoJsonWrite(op.hap, Package.name, Package.ver) /\ pc = "write"
    BY <1>2 DEF RecordGrows
  <2>2. op.hap \in Haps /\ Package.name \in Names /\ Package.ver \in Versions /\ op.todo # <<>>
    BY <1>2, PackageWritten DEF RecordGrows, PkgPcs
  <2>3. Package.public /\ Dealing
    BY <2>1 DEF Typed, CommandOk, ControlInv, Dealing
  <2>4. Package.links = <<>> => Package.name \notin LinkedNames
    BY <2>2, <2>3, PackageCarried DEF LinkedNames
  <2>5. ASSUME Package.name \in LinkedNames, NEW f \in info.ents, f.name = Package.name
        PROVE  f.hap = op.hap
    BY <2>3, <2>4, <2>5 DEF Linkable, OneHap, OfName
  <2> QED
    BY <2>1, <2>2, <2>5, WrittenEntries DEF OneHap, Typed
<1>3. CASE RecordMigrates
  <2>1. PICK s \in Legacy : old = s.old
    BY DEF Typed, DataInv
  <2>2. ASSUME NEW e \in info'.ents PROVE e \in s.old /\ e.inst # NoVer
    BY <1>3, <2>1, <2>2 DEF RecordMigrates, DoRebuildHnpInfoCfg
  <2>3. s.old # NoVer
    BY <1>3, <2>1 DEF RecordMigrates
  <2> QED
    BY <2>2, <2>3 DEF OneHap, LinkedNames
<1> QED
  BY <1>1, <1>2, <1>3, RecordCases

\* One item of the list: its two removals.
RemovesCurrent(e) == ~e.exist /\ ~e.half
RemovesInstalled(e) == e.inst # NoVer /\ e.inst # e.cur
\* HnpNativeUnInstall, item by item.
LEMMA NativeCases ==
  ASSUME Typed, HnpNativeUnInstall
  PROVE  /\ pc = "un_next" /\ rm = NoRm /\ UNCHANGED <<info, old, disk, op, last, harm>>
         /\ \E e \in un.list : \E h \in Items :
              /\ (\E f \in un.list : f.half) => e.half
              /\ e \in Items
              /\ h.half /\ h.name = e.name /\ h.inst = e.inst /\ h.cur = e.cur /\ h.exist = e.exist
              /\ un'.caller = un.caller
              /\ un'.list = (un.list \ {e}) \cup
                   IF RemovesCurrent(e) /\ RemovesInstalled(e) THEN {h} ELSE {}
              /\ \/ /\ RemovesCurrent(e) /\ pc' = "rm_check"
                    /\ rm'.name = e.name /\ rm'.ver = e.cur /\ ~rm'.keep /\ rm'.back = "un_next"
                 \/ /\ ~RemovesCurrent(e) /\ RemovesInstalled(e) /\ pc' = "rm_check"
                    /\ rm'.name = e.name /\ rm'.ver = e.inst /\ rm'.keep /\ rm'.back = "un_next"
                 \/ ~RemovesCurrent(e) /\ ~RemovesInstalled(e) /\ UNCHANGED <<pc, rm>>
<1>1. /\ pc = "un_next" /\ rm = NoRm /\ UNCHANGED <<info, old, disk, op, last, harm>>
      /\ un \in [caller : {"none", "cmd", "sign", "bss"}, list : SUBSET Items]
  BY DEF HnpNativeUnInstall, Typed, CommandOk, CommandInv, ControlInv, disk, RmPcs
<1>2. PICK e \in un.list :
        /\ (\E f \in un.list : f.half) => e.half
        /\ un' = [un EXCEPT !.list = (@ \ {e}) \cup
               IF RemovesCurrent(e) /\ RemovesInstalled(e) THEN {[e EXCEPT !.half = TRUE]} ELSE {}]
        /\ CASE RemovesCurrent(e) ->
                  /\ rm' = [name |-> e.name, ver |-> e.cur, keep |-> FALSE, back |-> "un_next"]
                  /\ pc' = "rm_check"
             [] ~RemovesCurrent(e) /\ RemovesInstalled(e) ->
                  /\ rm' = [name |-> e.name, ver |-> e.inst, keep |-> TRUE, back |-> "un_next"]
                  /\ pc' = "rm_check"
             [] OTHER -> UNCHANGED <<pc, rm>>
  BY Zenon DEF HnpNativeUnInstall, RemovesCurrent, RemovesInstalled
<1>3. e \in Items
  BY <1>1
<1>4. PICK h \in Items : h = [e EXCEPT !.half = TRUE]
  BY <1>3 DEF Items
<1>5. h.half /\ h.name = e.name /\ h.inst = e.inst /\ h.cur = e.cur /\ h.exist = e.exist
  BY <1>3, <1>4 DEF Items
<1>6. un'.caller = un.caller /\ un'.list = (un.list \ {e}) \cup
                   IF RemovesCurrent(e) /\ RemovesInstalled(e) THEN {h} ELSE {}
  BY <1>1, <1>2, <1>4
<1>7. \/ /\ RemovesCurrent(e) /\ pc' = "rm_check"
         /\ rm'.name = e.name /\ rm'.ver = e.cur /\ ~rm'.keep /\ rm'.back = "un_next"
      \/ /\ ~RemovesCurrent(e) /\ RemovesInstalled(e) /\ pc' = "rm_check"
         /\ rm'.name = e.name /\ rm'.ver = e.inst /\ rm'.keep /\ rm'.back = "un_next"
      \/ ~RemovesCurrent(e) /\ ~RemovesInstalled(e) /\ UNCHANGED <<pc, rm>>
  BY <1>2
<1> QED
  BY <1>1, <1>2, <1>3, <1>5, <1>6, <1>7

---------------------------------------------------------------------------
(* Versions of other HAPs                                                  *)

\* Another HAP than the command's has version v of n as its current one.
Foreign(n, v) == \E f \in info.ents : f.hap # op.hap /\ f.name = n /\ f.cur = v

\* What HnpUnInstall still means to delete is nobody else's current version.
ForeignInv ==
  /\ \A x \in un.list : /\ ~x.exist /\ ~x.half => ~Foreign(x.name, x.cur)
                        /\ x.inst # NoVer /\ x.inst # x.cur => ~Foreign(x.name, x.inst)
  /\ Back("un_next") => \A f \in info.ents :
       f.hap # op.hap /\ f.name = rm.name => f.cur # rm.ver

\* Nothing is being uninstalled.
LEMMA ForeignInit == Init => ForeignInv
  BY DEF Init, ForeignInv, NoUn, Back, RmPcs

\* hnpExist keeps the versions of other HAPs off the list, and the list does not age.
LEMMA ForeignNext == Typed /\ SameCurrent /\ ForeignInv /\ [Next]_vars => ForeignInv'
<1> SUFFICES ASSUME Typed, SameCurrent, ForeignInv, [Next]_vars PROVE ForeignInv'
  OBVIOUS
<1>1. Typed'
  BY TypedNext
<1>2. CASE ~Unlisting'
  <2>1. un'.list = {} /\ ~Back("un_next")'
    BY <1>1, <1>2 DEF Typed, CommandOk, CommandInv, Removals, ControlInv, Unlisting, Back, NoUn, RmPcs
  <2> QED
    BY <2>1 DEF ForeignInv
<1>3. CASE GetPackageInfo /\ un' = [un EXCEPT !.list = HnpPackageInfoGet(op.hap)] /\ op' = op /\ Unlisting'
  <2>1. un'.list = HnpPackageInfoGet(op.hap) /\ info' = info
    BY <1>3 DEF GetPackageInfo, Typed, CommandOk, CommandInv
  <2>2. ~Back("un_next")'
    BY <1>3 DEF GetPackageInfo, UnReturn, Finish, Back, RmPcs
  <2>3. ASSUME NEW x \in HnpPackageInfoGet(op.hap)
        PROVE  /\ ~x.exist => ~Foreign(x.name, x.cur)
               /\ x.inst # x.cur => ~Foreign(x.name, x.inst)
    <3>1. PICK e \in info.ents : /\ e.hap = op.hap
            /\ x = [name |-> e.name, cur |-> e.cur, inst |-> e.inst,
                    exist |-> HnpOtherPackageInstallCheck(e), half |-> FALSE]
      BY <2>3 DEF HnpPackageInfoGet
    <3>2. x.name = e.name /\ x.cur = e.cur /\ x.inst = e.inst /\ x.exist = HnpOtherPackageInstallCheck(e)
      BY <3>1
    <3> QED
      BY <3>1, <3>2 DEF SameCurrent, Foreign, HnpOtherPackageInstallCheck
  <2> QED
    BY <1>3, <2>1, <2>2, <2>3 DEF ForeignInv, Foreign
<1>4. CASE HnpNativeUnInstall /\ op' = op
  <2>1. PICK e \in un.list, h \in Items :
          /\ h.half /\ h.name = e.name /\ h.inst = e.inst /\ h.cur = e.cur
          /\ \A x \in un'.list : x \in un.list \/ x = h
          /\ \/ pc' = "un_next"
             \/ rm'.name = e.name /\ rm'.ver = e.cur /\ RemovesCurrent(e)
             \/ rm'.name = e.name /\ rm'.ver = e.inst /\ RemovesInstalled(e)
    BY <1>4, NativeCases
  <2>2. info' = info
    BY <1>4, NativeCases
  <2>5. ASSUME NEW x \in un'.list
        PROVE  /\ ~x.exist /\ ~x.half => ~Foreign(x.name, x.cur)
               /\ x.inst # NoVer /\ x.inst # x.cur => ~Foreign(x.name, x.inst)
    BY <2>1, <2>5 DEF ForeignInv
  <2>6. Back("un_next")' => ~Foreign(rm'.name, rm'.ver)
    BY <2>1 DEF ForeignInv, Back, RmPcs, RemovesCurrent, RemovesInstalled
  <2> QED
    BY <1>4, <2>2, <2>5, <2>6 DEF ForeignInv, Foreign
<1>5. CASE Unlisting /\ un' = un /\ op' = op /\ (RunCheck \/ RemoveRecord \/ RemoveVersion \/ RemoveName)
  <2>1. info'.ents \subseteq info.ents
    <3>1. ~RecordGrows /\ ~RecordMigrates
      BY <1>5 DEF RecordGrows, RecordMigrates, RunCheck, RemoveRecord, RemoveVersion, RemoveName
    <3> QED
      BY <3>1, RecordCases
  <2>2. Back("un_next")' => Back("un_next") /\ rm' = rm
    BY <1>5, RemovalSteps DEF Back, NoRm, Ends, RmPcs
  <2> QED
    BY <1>5, <2>1, <2>2 DEF ForeignInv, Foreign
<1>6. CASE un' = un /\ op' = op /\ UNCHANGED <<info, pc, rm>>
  BY <1>6 DEF ForeignInv, Foreign, Back
<1> QED
  BY <1>2, <1>3, <1>4, <1>5, <1>6, UnlistSteps

\* A deletion by HnpUnInstall hits no version that is current for another HAP.
LEMMA ForeignStep ==
  ASSUME Typed, ForeignInv, [Next]_vars
  PROVE  \A d \in Dirs :
           dirs[d] = "full" /\ dirs'[d] # "full" /\ rm.back = "un_next"
             => ~\E e \in info.ents : e.hap # op.hap /\ e.name = d[1] /\ e.cur = d[2]
<1> SUFFICES ASSUME NEW d \in Dirs, dirs[d] = "full", dirs'[d] # "full", rm.back = "un_next"
             PROVE  ~\E e \in info.ents : e.hap # op.hap /\ e.name = d[1] /\ e.cur = d[2]
  OBVIOUS
<1> USE DEF disk
<1>1. Back("un_next")
  BY DEF Typed, CommandOk, ControlInv, NoRm, Back
<1>2. RemoveVersion \/ Crash
  BY <1>1 DEF Next, Command, Install, UnInstall, Environment, vars,
       NativeInstallHnp, NativeUnInstallHnp, CommandRefused, HnpCmdInstall, ArgumentsRefused, HnpInstallPre,
       ReadConfigFails, PathIsExist, SkipInstalled, HnpInstallForceCheck, HnpUnZip, HnpUnZipFails,
       LinkInstalled, RemoveOldVersion, RecordVersion, NothingToSign, EnforceCodeSign, BssInstall,
       RunCheck, RemoveRecord, RemoveName, StartUnInstall, GetPackageInfo, HnpNativeUnInstall,
       DeletePackageInfo, DeletePrivate, ProcessStart, ProcessEnd, Back, RmPcs
<1>3. \E x : dirs' = [dirs EXCEPT ![<<rm.name, rm.ver>>] = x]
  BY <1>2 DEF RemoveVersion, Crash
<1>4. d = <<rm.name, rm.ver>>
  BY <1>3 DEF Typed, DataInv
<1> QED
  BY <1>1, <1>4 DEF ForeignInv

\* Uninstalling a HAP never deletes a version that another HAP has as its
\* current one, for every set of HAPs, bundles and faults: what HnpUnInstall
\* has listed was checked by HnpOtherPackageInstallCheck, and all entries of
\* a name share their current version.
THEOREM ForeignVersionsKept == Spec => ForeignVersionsIntact
<1> DEFINE Inv == Typed /\ SameCurrent /\ ForeignInv
<1>1. Init => Inv
  BY TypedInit, SameInit, ForeignInit
<1>2. Inv /\ [Next]_vars => Inv'
  BY TypedNext, SameNext, ForeignNext
<1>3. Inv /\ [Next]_vars => [\A d \in Dirs :
         dirs[d] = "full" /\ dirs'[d] # "full" /\ rm.back = "un_next"
            => ~\E e \in info.ents : e.hap # op.hap /\ e.name = d[1] /\ e.cur = d[2]]_vars
  BY ForeignStep
<1> QED
  BY <1>1, <1>2, <1>3, PTL DEF Spec, ForeignVersionsIntact

---------------------------------------------------------------------------
(* Undoing a failed installation, and the history                          *)

\* The history is never rewritten.
LEMMA HarmGrows == ASSUME Typed, [Next]_vars PROVE harm \subseteq harm'
<1> USE DEF disk
<1>1. CASE harm' = harm
  BY <1>1
<1>2. ASSUME NEW S, Harm(S) PROVE harm \subseteq harm'
  BY <1>2 DEF Harm
<1>5. CASE UNCHANGED vars
  BY <1>5 DEF vars
<1>6. ASSUME NEW h \in Haps, NEW b \in Bundles, NEW f \in BOOLEAN, NativeInstallHnp(h, b, f) PROVE harm' = harm
  BY <1>6 DEF NativeInstallHnp
<1>7. ASSUME NEW h \in Haps, NativeUnInstallHnp(h) \/ CommandRefused(h) PROVE harm' = harm
  BY <1>7 DEF NativeUnInstallHnp, CommandRefused
<1>8. CASE HnpCmdInstall \/ StartUnInstall
  BY <1>1, <1>2, <1>8 DEF HnpCmdInstall, StartUnInstall, RebuildHnpInfoCfg
<1>9. CASE \/ ArgumentsRefused \/ HnpInstallPre \/ HnpInstallForceCheck \/ HnpUnZip \/ NothingToSign
           \/ EnforceCodeSign \/ BssInstall \/ HnpNativeUnInstall \/ DeletePrivate
  BY <1>9, UnZipCases DEF ArgumentsRefused, HnpInstallPre, HnpInstallForceCheck, NothingToSign,
       EnforceCodeSign, BssInstall, HnpNativeUnInstall, DeletePrivate
<1>10. CASE ReadConfigFails \/ PathIsExist \/ SkipInstalled
  BY <1>2, <1>10 DEF ReadConfigFails, PathIsExist, SkipInstalled, Stop
<1>11. CASE HnpUnZipFails \/ LinkInstalled
  BY <1>2, <1>11 DEF HnpUnZipFails, LinkInstalled, RollBack
<1>12. CASE RemoveOldVersion
  BY <1>2, <1>12 DEF RemoveOldVersion
<1>13. CASE RecordVersion
  BY <1>2, <1>13 DEF RecordVersion, RollBack
<1>14. CASE RunCheck \/ RemoveRecord \/ RemoveVersion \/ RemoveName
  <2>1. \/ harm \subseteq harm'
        \/ \E ok, why : Return(ok, why)
    BY <1>14 DEF RunCheck, RemoveRecord, RemoveVersion, RemoveName, Returns, Refused, Harm
  <2>2. ASSUME NEW ok, NEW why, Return(ok, why) PROVE harm \subseteq harm'
    <3>1. rm.back \in {"write", "stop", "un_next"}
      BY <1>14, RemovalSteps DEF Typed, CommandOk, ControlInv, CommandInv, Removals
    <3> QED
      BY <1>2, <2>2, <3>1 DEF Return
  <2> QED
    BY <2>1, <2>2
<1>15. CASE GetPackageInfo \/ DeletePackageInfo
  BY <1>2, <1>15 DEF GetPackageInfo, DeletePackageInfo
<1>16. ASSUME NEW n \in Names, ProcessStart(n) \/ ProcessEnd(n) PROVE harm' = harm
  BY <1>16 DEF ProcessStart, ProcessEnd
<1>17. CASE Crash
  BY <1>2, <1>17 DEF Crash
<1> QED
  BY <1>5, <1>6, <1>7, <1>8, <1>9, <1>10, <1>11, <1>12, <1>13, <1>14, <1>15, <1>16, <1>17
  DEF Next, Command, Install, UnInstall, Environment

\* The steps that undo an installation, or begin to.
LEMMA StopSteps ==
  ASSUME Typed, [Next]_vars, Back("stop")'
  PROVE  \/ /\ HnpUnZipFails \/ LinkInstalled \/ (RecordVersion /\ ~op.skip)
            /\ \E why : RollBack(why)
            /\ \E x : op' = [op EXCEPT !.ret = x]
         \/ /\ Back("stop") /\ op' = op /\ un' = un /\ rm' = rm /\ harm \subseteq harm'
            /\ \/ RunCheck \/ RemoveRecord \/ RemoveVersion
               \/ UNCHANGED <<info, old, disk, pc>>
<1> USE DEF disk
<1>1. \A ret : ~Finish(ret)
  BY DEF Finish, Back, RmPcs
<1>2. pc' \in RmPcs /\ rm'.back = "stop"
  BY DEF Back
<1>3. rm # NoRm => pc \in RmPcs
  BY DEF Typed, CommandOk, ControlInv
<1>4. rm' = rm => Back("stop")
  BY <1>2, <1>3 DEF NoRm, Back
<1>5. CASE UNCHANGED vars
  BY <1>4, <1>5 DEF vars
<1>6. ASSUME NEW h \in Haps, NEW b \in Bundles, NEW f \in BOOLEAN, NativeInstallHnp(h, b, f) PROVE FALSE
  BY <1>2, <1>6 DEF NativeInstallHnp, RmPcs
<1>7. ASSUME NEW h \in Haps, NativeUnInstallHnp(h) PROVE FALSE
  BY <1>2, <1>7 DEF NativeUnInstallHnp, RmPcs
<1>8. ASSUME NEW h \in Haps, CommandRefused(h) PROVE FALSE
  BY <1>2, <1>8 DEF CommandRefused, RmPcs
<1>9. CASE HnpCmdInstall \/ HnpInstallPre \/ HnpInstallForceCheck \/ HnpUnZip
  BY <1>1, <1>2, <1>9 DEF HnpCmdInstall, HnpInstallPre, HnpInstallForceCheck, HnpUnZip, RmPcs
<1>10. CASE ArgumentsRefused \/ ReadConfigFails \/ PathIsExist \/ NothingToSign
  BY <1>1, <1>10 DEF ArgumentsRefused, ReadConfigFails, PathIsExist, NothingToSign, Stop
<1>11. CASE SkipInstalled
  BY <1>1, <1>2, <1>11 DEF SkipInstalled, Stop, RmPcs
<1>12. CASE HnpUnZipFails
  BY <1>12 DEF HnpUnZipFails
<1>13. CASE LinkInstalled
  BY <1>2, <1>13 DEF LinkInstalled, RmPcs
<1>14. CASE RemoveOldVersion
  BY <1>2, <1>14 DEF RemoveOldVersion, RmPcs
<1>15. CASE RecordVersion
  BY <1>1, <1>2, <1>15 DEF RecordVersion, RmPcs
<1>16. CASE EnforceCodeSign \/ BssInstall
  BY <1>1, <1>2, <1>16 DEF EnforceCodeSign, BssInstall, CallUnInstall, RmPcs
<1>17. CASE RunCheck \/ RemoveRecord \/ RemoveVersion \/ RemoveName
  <2>1. op' = op /\ un' = un /\ rm' = rm /\ harm \subseteq harm' /\ pc \in RmPcs
    BY <1>2, <1>17, RemovalSteps DEF RmPcs, Ends
  <2>2. ~RemoveName
    <3>1. CommandInv /\ ControlInv
      BY DEF Typed, CommandOk
    <3>2. RemoveName => \E ok, why : Return(ok, why)
      BY DEF RemoveName, Returns, Refused
    <3> QED
      BY <1>2, <2>1, <3>1, <3>2, ReturnCases DEF RmPcs, Ends
  <2> QED
    BY <1>4, <1>17, <2>1, <2>2
<1>18. CASE StartUnInstall \/ DeletePrivate \/ GetPackageInfo \/ DeletePackageInfo
  BY <1>1, <1>2, <1>18 DEF StartUnInstall, DeletePrivate, GetPackageInfo, DeletePackageInfo, UnReturn, RmPcs
<1>20. CASE HnpNativeUnInstall
  BY <1>2, <1>20, NativeCases DEF NoRm
<1>21. ASSUME NEW n \in Names, ProcessStart(n) \/ ProcessEnd(n)
       PROVE  UNCHANGED <<info, op, un, old, disk, pc, rm, harm>>
  BY <1>21 DEF ProcessStart, ProcessEnd
<1>22. CASE Crash
  BY <1>1, <1>22 DEF Crash
<1> QED
  BY <1>4, <1>5, <1>6, <1>7, <1>8, <1>9, <1>10, <1>11, <1>12, <1>13, <1>14, <1>15, <1>16, <1>17,
     <1>18, <1>20, <1>21, <1>22
  DEF Next, Command, Install, UnInstall, Environment

\* What is undone was unpacked by this command, and unless the history says
\* so it is neither private nor the current version next to another installed.
StopInv ==
  /\ pc \in {"unzip", "link"} => ~op.skip
  /\ Back("stop") =>
       /\ ~op.skip
       /\ Without({"private"}) => Package.public
       /\ Without({"undone"}) =>
            \A e \in info.ents : e.hap = op.hap /\ e.name = rm.name /\ e.cur = rm.ver => e.inst = e.cur

\* The old version that is being removed is the current one of its name, and
\* unless its removal was refused it is gone when the new one is recorded.
GoneInv ==
  /\ Back("write") => \A e \in OfName(rm.name) : e.cur = rm.ver
  /\ Without({"refused"}) /\ (pc = "write" \/ (Back("write") /\ pc = "rm_name")) =>
       \/ \A e \in OfName(Package.name) : e.cur # Package.ver => dirs[<<e.name, e.cur>>] = "absent"
       \/ \E e \in OfName(Package.name) : e.cur = e.inst

\* Nothing is being undone or replaced.
LEMMA StopInit == Init => StopInv /\ GoneInv
  BY DEF Init, StopInv, GoneInv, Back, RmPcs

\* Only what this command unpacked is undone.
LEMMA StopNext == Typed /\ StopInv /\ [Next]_vars => StopInv'
<1> SUFFICES ASSUME Typed, StopInv, [Next]_vars PROVE StopInv'
  OBVIOUS
<1> USE DEF disk
<1>0. op \in Operations
  BY DEF Typed, CommandOk, CommandInv
<1>1. pc' \in {"unzip", "link"} => ~op'.skip
  <2> SUFFICES ASSUME pc' \in {"unzip", "link"} PROVE ~op'.skip
    OBVIOUS
  <2>1. HnpInstallForceCheck \/ HnpUnZip \/ UNCHANGED <<pc, op>>
    <3>1. \A ret : ~Finish(ret)
      BY DEF Finish
    <3>2. \A why : ~RollBack(why)
      BY DEF RollBack
    <3>3. CASE RunCheck \/ RemoveRecord \/ RemoveVersion \/ RemoveName
      BY <3>3, RemovalSteps DEF RmPcs, Ends
    <3>4. CASE HnpNativeUnInstall
      BY <3>4, NativeCases
    <3> QED
      BY <3>1, <3>2, <3>3, <3>4 DEF Next, Command, Install, UnInstall, Environment, vars,
       NativeInstallHnp, NativeUnInstallHnp, CommandRefused, HnpCmdInstall, ArgumentsRefused, HnpInstallPre,
       ReadConfigFails, PathIsExist, SkipInstalled, HnpUnZipFails, Stop,
       LinkInstalled, RemoveOldVersion, RecordVersion, NothingToSign, EnforceCodeSign, BssInstall, CallUnInstall,
       StartUnInstall, GetPackageInfo, DeletePackageInfo, DeletePrivate, UnReturn, ProcessStart, ProcessEnd, Crash
  <2>2. CASE HnpInstallForceCheck
    BY <1>0, <2>2 DEF HnpInstallForceCheck, Operations
  <2>3. CASE HnpUnZip
    BY <1>0, <2>3 DEF HnpUnZip, Operations, StopInv
  <2> QED
    BY <2>1, <2>2, <2>3 DEF StopInv
<1>2. ASSUME Back("stop")' PROVE StopInv'
  <2>1. CASE /\ HnpUnZipFails \/ LinkInstalled \/ (RecordVersion /\ ~op.skip)
             /\ \E why : RollBack(why)
             /\ \E x : op' = [op EXCEPT !.ret = x]
    <3>1. ~op.skip
      BY <2>1 DEF HnpUnZipFails, LinkInstalled, StopInv
    <3>2. op'.skip = op.skip /\ op'.todo = op.todo /\ op'.hap = op.hap
      BY <1>0, <2>1 DEF Operations
    <3>3. PICK why : RollBack(why)
      BY <2>1
    <3>4. info'.ents \subseteq info.ents
      <4>1. ~RecordGrows /\ ~RecordMigrates
        BY <2>1, <1>2 DEF RecordGrows, RecordMigrates, Back, RmPcs
      <4> QED
        BY <4>1, RecordCases
    <3>5. Package' = Package
      BY <3>2 DEF Package
    <3>6. rm'.name = Package.name /\ rm'.ver = Package.ver
      BY <3>3 DEF RollBack
    <3>7. Without({"private"})' => Package.public
      BY <3>3 DEF RollBack, Harm, Without
    <3>8. Without({"undone"})' => \A e \in info.ents :
             e.hap = op.hap /\ e.name = Package.name /\ e.cur = Package.ver => e.inst = e.cur
      BY <3>3 DEF RollBack, Harm, Without, OfName
    <3> QED
      BY <1>1, <3>1, <3>2, <3>4, <3>5, <3>6, <3>7, <3>8 DEF StopInv
  <2>2. CASE /\ Back("stop") /\ op' = op /\ un' = un /\ rm' = rm /\ harm \subseteq harm'
             /\ \/ RunCheck \/ RemoveRecord \/ RemoveVersion
                \/ UNCHANGED <<info, old, disk, pc>>
    <3>1. info'.ents \subseteq info.ents
      <4>1. ~RecordGrows /\ ~RecordMigrates
        BY <2>2, <1>2 DEF RecordGrows, RecordMigrates, Back, RmPcs
      <4> QED
        BY <4>1, RecordCases
    <3>2. Package' = Package
      BY <2>2 DEF Package
    <3> QED
      BY <1>1, <2>2, <3>1, <3>2 DEF StopInv, Without
  <2> QED
    BY <1>2, <2>1, <2>2, StopSteps
<1> QED
  BY <1>1, <1>2 DEF StopInv

\* A refusal is remembered.
LEMMA ReturnHarm ==
  ASSUME Typed, pc \in RmPcs, NEW ok, NEW why, Return(ok, why)
  PROVE  why \subseteq harm'
<1>1. rm.back \in {"write", "stop", "un_next"}
  BY DEF Typed, CommandOk, ControlInv, CommandInv, Removals
<1> QED
  BY <1>1 DEF Return, Harm

\* HnpUnInstallPublicHnp when none of its steps reports a failure.
RemovalGoesOn ==
  \/ /\ pc = "rm_check" /\ pc' = IF rm.keep THEN "rm_dir" ELSE "rm_json"
     /\ UNCHANGED <<info, old, disk, op, rm, un, harm>>
  \/ /\ pc = "rm_json" /\ pc' = "rm_dir" /\ info.st # "damaged"
     /\ \/ info' = IF info.st = "ok"
                   THEN [st |-> "ok", ents |-> HnpPackageInfoHnpDelete(op.hap, rm.name, rm.ver)]
                   ELSE info
        \/ "lost" \in harm' /\ "unnoticed" \in harm'
     /\ UNCHANGED <<old, disk, op, rm, un>>
  \/ /\ pc = "rm_dir" /\ pc' = "rm_name"
     /\ dirs' = [dirs EXCEPT ![<<rm.name, rm.ver>>] = "absent"]
     /\ signed' = signed \ {<<rm.name, rm.ver>>}
     /\ UNCHANGED <<info, old, links, op, rm, un, harm>>
  \/ /\ pc = "rm_name" /\ Return(TRUE, {})
     /\ \A l \in Links : links'[l] = links[l] \/ (links[l] # NoLink /\ dirs[links[l]] = "absent")
     /\ UNCHANGED <<info, old, dirs, signed>>

\* A removal of which no step is refused.
LEMMA RemovalOk ==
  ASSUME Typed, Without({"refused"})', RunCheck \/ RemoveRecord \/ RemoveVersion \/ RemoveName
  PROVE  RemovalGoesOn
<1> USE DEF disk
<1>1. pc \in RmPcs
  BY RemovalSteps
<1>2. ASSUME NEW ok, NEW why, "refused" \in why, Return(ok, why) PROVE FALSE
  BY <1>1, <1>2, ReturnHarm DEF Without
<1>3. ~Refused
  BY <1>2 DEF Refused
<1>4. CASE RunCheck
  BY <1>3, <1>4 DEF RunCheck, RemovalGoesOn
<1>5. CASE RemoveRecord
  <2>1. info.st # "damaged"
    BY <1>3, <1>5 DEF RemoveRecord
  <2>2. PICK o \in IF \E e \in info.ents : e.hap = op.hap THEN WriteOutcomes ELSE {"ok"} :
              /\ IF info.st = "ok"
                 THEN HnpHapJsonWrite(
                        HnpPackageInfoHnpDelete(op.hap, rm.name, rm.ver), o)
                 ELSE UNCHANGED info
              /\ IF WriteOk(o)
                 THEN pc' = "rm_dir" /\ Harm(LostIf(o)) /\ UNCHANGED <<op, rm, un, last>>
                 ELSE Return(FALSE, {"refused"} \cup LostIf(o))
    BY <1>5, <2>1, Zenon DEF RemoveRecord
  <2>3. WriteOk(o)
    BY <1>2, <2>2
  <2>5. o = "ok" \/ ("lost" \in harm' /\ "unnoticed" \in harm')
    BY <2>2, <2>3 DEF WriteOk, Harm, LostIf
  <2>4. pc = "rm_json" /\ UNCHANGED <<old, disk>>
    BY <1>5 DEF RemoveRecord
  <2> QED
    BY <2>1, <2>2, <2>3, <2>4, <2>5 DEF RemovalGoesOn, HnpHapJsonWrite
<1>6. CASE RemoveVersion
  <2>1. PICK o \in Outcomes({"unlink"}) :
        LET d == <<rm.name, rm.ver>> IN
        /\ dirs' = IF dirs[d] = "absent" THEN dirs
                   ELSE [dirs EXCEPT ![d] = IF o = "ok" THEN "absent" ELSE "partial"]
        /\ signed' = IF o = "ok" THEN signed \ {d} ELSE signed
        /\ IF o = "ok" THEN pc' = "rm_name" /\ UNCHANGED <<op, rm, un, last, harm>>
           ELSE Refused
    BY <1>6 DEF RemoveVersion
  <2>2. o = "ok"
    BY <1>3, <2>1
  <2>3. dirs' = [dirs EXCEPT ![<<rm.name, rm.ver>>] = "absent"]
    BY <2>1, <2>2 DEF Typed, DataInv
  <2>4. pc = "rm_dir" /\ UNCHANGED <<info, old, links>>
    BY <1>6 DEF RemoveVersion
  <2> QED
    BY <2>1, <2>2, <2>3, <2>4 DEF RemovalGoesOn
<1>7. CASE RemoveName
  <2>1. Return(TRUE, {})
    BY <1>3, <1>7 DEF RemoveName, Returns
  <2>2. \A l \in Links : links'[l] = links[l] \/ (links[l] # NoLink /\ dirs[links[l]] = "absent")
    BY <1>7 DEF RemoveName, ClearSoftLink
  <2> QED
    BY <1>7, <2>1, <2>2 DEF RemovalGoesOn, RemoveName
<1> QED
  BY <1>4, <1>5, <1>6, <1>7

\* The old version is gone before the new one is recorded.
LEMMA GoneNext == Typed /\ SameCurrent /\ GoneInv /\ [Next]_vars => GoneInv'
<1> SUFFICES ASSUME Typed, SameCurrent, GoneInv, [Next]_vars, Dealing' PROVE GoneInv'
  BY DEF GoneInv, Dealing
<1> USE DEF disk
<1>1. Without({"refused"})' => Without({"refused"})
  BY HarmGrows DEF Without
<1>2. CASE (SkipInstalled \/ LinkInstalled) /\ pc' = "deal"
  BY <1>2 DEF GoneInv, Back, RmPcs
<1>3. CASE RemoveOldVersion /\ info' = info /\ op' = op
  <2>1. Package.name' = Package.name /\ Package.ver' = Package.ver /\ UNCHANGED <<info, dirs>> /\ pc = "deal"
    BY <1>3 DEF Package, RemoveOldVersion
  <2>2. CASE OldVersion(Package.name) # NoVer
    <3>1. pc' = "rm_check" /\ rm'.name = Package.name /\ rm'.ver = OldVersion(Package.name)
      BY <1>3, <2>2 DEF RemoveOldVersion
    <3>2. DataInv
      BY DEF Typed
    <3>3. \A e \in OfName(Package.name) : e.cur = OldVersion(Package.name)
      BY <2>2, <3>2, OldVersionType DEF SameCurrent, OfName
    <3> QED
      BY <1>3, <3>1, <3>3 DEF GoneInv, OfName
  <2>3. CASE OldVersion(Package.name) = NoVer
    <3>1. pc' = "write"
      BY <1>3, <2>3 DEF RemoveOldVersion
    <3>2. OfName(Package.name) = {} \/ \E e \in OfName(Package.name) : e.cur = e.inst
      <4> SUFFICES ASSUME OfName(Package.name) # {}, ~\E e \in OfName(Package.name) : e.cur = e.inst
                   PROVE  FALSE
        OBVIOUS
      <4>1. info.st = "ok"
        BY DEF Typed, DataInv, OfName
      <4>2. PICK e \in OfName(Package.name) : e = CHOOSE f \in OfName(Package.name) : TRUE
        OBVIOUS
      <4>3. OldVersion(Package.name) = e.cur
        BY <4>1, <4>2 DEF OldVersion
      <4>4. e.cur \in Versions
        BY <4>2 DEF OfName, Typed, DataInv, Records, Entries
      <4> QED
        BY <2>3, <4>3, <4>4, HnpAssumption
    <3> QED
      BY <1>3, <3>1, <3>2 DEF GoneInv, OfName, Back, RmPcs, Package
  <2> QED
    BY <2>2, <2>3
<1>4. CASE Back("write") /\ info' = info /\ op' = op /\ (RunCheck \/ RemoveVersion \/ RemoveName)
  <2>1. Back("write")' => rm' = rm
    BY <1>4, RemovalSteps DEF NoRm, Ends, Back, RmPcs
  <2>2. Back("write")' => \A e \in OfName(rm.name)' : e.cur = rm'.ver
    BY <1>4, <2>1 DEF GoneInv, OfName
  <2>3. ASSUME Without({"refused"})', pc' = "write" \/ (Back("write")' /\ pc' = "rm_name")
        PROVE  \/ \A e \in OfName(Package.name) : e.cur # Package.ver => dirs'[<<e.name, e.cur>>] = "absent"
               \/ \E e \in OfName(Package.name) : e.cur = e.inst
    <3>1. RemovalGoesOn
      BY <1>4, <2>3, RemovalOk
    <3>2. rm.name = Package.name
      BY <1>4 DEF Typed, CommandOk, ControlInv
    <3>3. CASE pc = "rm_dir" /\ dirs' = [dirs EXCEPT ![<<rm.name, rm.ver>>] = "absent"]
      <4>1. \A e \in OfName(Package.name) : e.cur = rm.ver /\ e.name = rm.name
        BY <1>4, <3>2 DEF GoneInv, OfName
      <4>2. <<rm.name, rm.ver>> \in Dirs
        BY <1>4 DEF Typed, CommandOk, ControlInv, Back, Dirs
      <4>3. dirs'[<<rm.name, rm.ver>>] = "absent"
        BY <3>3, <4>2 DEF Typed, DataInv
      <4> QED
        BY <4>1, <4>3
    <3>4. CASE pc = "rm_name" /\ dirs' = dirs
      BY <1>1, <1>4, <2>3, <3>4 DEF GoneInv
    <3>5. pc \in {"rm_dir", "rm_name"}
      BY <2>3, <3>1 DEF RemovalGoesOn, RmPcs
    <3> QED
      BY <3>1, <3>3, <3>4, <3>5 DEF RemovalGoesOn
  <2>4. Package' = Package
    BY <1>4 DEF Package
  <2> QED
    BY <1>4, <2>2, <2>3, <2>4 DEF GoneInv, OfName
<1>5. CASE UNCHANGED <<info, op, old, disk, pc, rm, harm>>
  <2>1. Package' = Package /\ Back("write")' = Back("write")
    BY <1>5 DEF Package, Back
  <2> QED
    BY <1>5, <2>1 DEF GoneInv, OfName, Without
<1> QED
  BY <1>2, <1>3, <1>4, <1>5, DealSteps

---------------------------------------------------------------------------
(* Orphans                                                                 *)

\* The entry names the version directory d.
NamesDir(e, d) == e.name = d[1] /\ d[2] \in {e.cur, e.inst}
Covered(d) == \E e \in info.ents : NamesDir(e, d)
ByOther(d) == \E e \in info.ents : e.hap # op.hap /\ NamesDir(e, d)
\* HnpUnInstall is still going to delete d.
ToRemove(x, d) ==
  /\ x.name = d[1]
  /\ (RemovesCurrent(x) /\ d[2] = x.cur) \/ (d[2] = x.inst /\ x.inst # x.cur)
Pending(d) ==
  \/ \E x \in un.list : ToRemove(x, d)
  \/ Back("un_next") /\ pc # "rm_name" /\ d = <<rm.name, rm.ver>>
\* d is being installed, or its installation is being undone.
Unpacking(d) ==
  /\ pc \in PkgPcs \/ Back("write") \/ (Back("stop") /\ pc # "rm_name")
  /\ Package.public /\ d = Target /\ ~op.skip
\* The record of earlier releases, which no command has read yet, names d.
OldListed(d) == info.st = "missing" /\ old # NoVer /\ \E e \in old : NamesDir(e, d)

OrphanHarm == {"crash", "refused", "lost", "dropped", "private", "self", "undone"}
Accounted(d) == IF Unlisting THEN ByOther(d) \/ Pending(d)
                ELSE Covered(d) \/ Unpacking(d) \/ OldListed(d)
OrphanInv ==
  Without(OrphanHarm) =>
    /\ info.st = "missing" /\ old # NoVer => pc \in {"idle", "start", "un_start"}
    /\ \A d \in Dirs : dirs[d] # "absent" => Accounted(d)

\* A version directory has a name and a version.
LEMMA DirPair == \A d \in Dirs : d = <<d[1], d[2]>> /\ d[1] \in Names /\ d[2] \in Versions
  BY DEF Dirs

\* A removal drops entries of this HAP's version only.
LEMMA RemovedEntries ==
  ASSUME RemovalGoesOn, "lost" \notin harm'
  PROVE  \/ info' = info
         \/ /\ info'.ents \subseteq info.ents
            /\ \A e \in info.ents : e \in info'.ents \/ (e.hap = op.hap /\ e.name = rm.name /\ e.cur = rm.ver)
<1>1. PICK new : new = HnpPackageInfoHnpDelete(op.hap, rm.name, rm.ver)
  OBVIOUS
<1>2. info' = info \/ info' = [st |-> "ok", ents |-> new]
  BY <1>1 DEF RemovalGoesOn
<1>3. info' = info \/ info'.ents = new
  BY <1>2
<1> QED
  BY <1>1, <1>3 DEF HnpPackageInfoHnpDelete

\* The record of earlier releases names every version on disk.
LEMMA OrphanInit == Init => OrphanInv
<1> SUFFICES ASSUME Init PROVE OrphanInv
  OBVIOUS
<1>1. PICK s \in Legacy : /\ old = s.old
          /\ dirs = [d \in Dirs |-> IF d \in s.dirs THEN "full" ELSE "absent"]
  BY DEF Init
<1>2. info.st = "missing" /\ pc = "idle"
  BY DEF Init
<1>3. ASSUME NEW d \in Dirs, dirs[d] # "absent" PROVE Accounted(d)
  <2>1. d \in s.dirs
    BY <1>1, <1>3
  <2>2. s.old # NoVer /\ \E e \in s.old : e.name = d[1] /\ d[2] \in {e.cur, e.inst}
    BY <2>1, HnpAssumption
  <2> QED
    BY <1>1, <1>2, <2>2 DEF Accounted, Unlisting, Back, RmPcs, OldListed, NamesDir
<1> QED
  BY <1>2, <1>3 DEF OrphanInv

\* A migration that loses nothing.
LEMMA RebuildOk ==
  ASSUME Typed, RebuildHnpInfoCfg, Without({"lost", "dropped"})'
  PROVE  \/ /\ info.st = "missing" /\ old # NoVer
            /\ info' = [st |-> "ok", ents |-> old]
         \/ ~(info.st = "missing" /\ old # NoVer) /\ info' = info
<1>1. CASE info.st = "missing" /\ old # NoVer
  <2>1. PICK o \in WriteOutcomes :
            /\ HnpHapJsonWrite(DoRebuildHnpInfoCfg, o)
            /\ Harm((IF o = "open" THEN {"lost"} ELSE LostIf(o)) \cup
                    IF DoRebuildHnpInfoCfg # old THEN {"dropped"} ELSE {})
    BY <1>1 DEF RebuildHnpInfoCfg
  <2>2. o = "ok" /\ DoRebuildHnpInfoCfg = old
    BY <2>1, OutcomeSets DEF Harm, Without, LostIf
  <2> QED
    BY <1>1, <2>1, <2>2 DEF HnpHapJsonWrite
<1>2. CASE ~(info.st = "missing" /\ old # NoVer)
  BY <1>2 DEF RebuildHnpInfoCfg
<1> QED
  BY <1>1, <1>2

\* Recording a version keeps every version on disk named.
LEMMA RecordedVersion ==
  ASSUME Typed, SameCurrent, GoneInv, Without({"refused"}), RecordGrows,
         NEW d \in Dirs, dirs[d] # "absent", Covered(d) \/ Unpacking(d)
  PROVE  Covered(d)'
<1>1. info'.ents = HnpInstallInfoJsonWrite(op.hap, Package.name, Package.ver) /\ pc = "write"
  BY DEF RecordGrows
<1>2. op.hap \in Haps /\ Package.name \in Names /\ Package.ver \in Versions
  BY PackageWritten DEF RecordGrows, PkgPcs
<1>3. DataInv
  BY DEF Typed
<1>4. CASE Unpacking(d)
  BY <1>1, <1>2, <1>3, <1>4, WrittenEntries DEF Unpacking, Target, Covered, NamesDir
<1>5. ASSUME NEW e \in info.ents, NamesDir(e, d) PROVE Covered(d)'
  <2>1. PICK f \in info'.ents : /\ f.name = e.name /\ f.inst = e.inst
                               /\ f.cur = IF e.name = Package.name THEN Package.ver ELSE e.cur
    BY <1>1, <1>2, <1>3, WrittenEntries
  <2>2. CASE d[2] = e.inst \/ e.name # Package.name \/ e.cur = Package.ver
    BY <1>5, <2>1, <2>2 DEF Covered, NamesDir
  <2>3. CASE d[2] = e.cur /\ e.name = Package.name /\ e.cur # Package.ver
    <3>1. e \in OfName(Package.name) /\ d = <<e.name, e.cur>>
      BY <1>5, <2>3, DirPair DEF OfName, NamesDir
    <3>2. PICK g \in OfName(Package.name) : g.cur = g.inst
      BY <1>1, <2>3, <3>1 DEF GoneInv
    <3>3. g \in info.ents /\ g.name = Package.name /\ g.inst = d[2]
      BY <1>5, <2>3, <3>1, <3>2 DEF OfName, SameCurrent
    <3>4. PICK k \in info'.ents : k.name = g.name /\ k.inst = g.inst
      BY <1>1, <1>2, <1>3, <3>3, WrittenEntries
    <3> QED
      BY <1>5, <2>3, <3>3, <3>4 DEF Covered, NamesDir
  <2> QED
    BY <1>5, <2>2, <2>3 DEF NamesDir
<1> QED
  BY <1>4, <1>5 DEF Covered

\* HnpUnInstallPublicHnp deletes what it drops from the record.
LEMMA OrphanRemoval ==
  ASSUME Typed, StopInv, OrphanInv, Without(OrphanHarm), Without(OrphanHarm)', pc \in RmPcs,
         RemovalGoesOn, NEW d \in Dirs, dirs'[d] # "absent"
  PROVE  Accounted(d)'
<1> USE DEF disk
<1>h. "lost" \notin harm'
  BY DEF Without, OrphanHarm
<1>0. rm.back \in {"write", "stop", "un_next"} /\ <<rm.name, rm.ver>> \in Dirs
  BY DEF Typed, CommandOk, ControlInv, CommandInv, Removals, Dirs
<1>1. dirs[d] # "absent"
  BY <1>0 DEF RemovalGoesOn, Typed, DataInv
<1>2. Accounted(d) /\ ~OldListed(d)
  BY <1>1 DEF OrphanInv, OldListed, RmPcs
<1>3. CASE rm.back = "un_next"
  <2>1. Unlisting /\ (ByOther(d) \/ Pending(d))
    BY <1>2, <1>3 DEF Accounted, Unlisting, Back
  <2>2. Unlisting' /\ op' = op /\ un' = un
    BY <1>3 DEF RemovalGoesOn, Unlisting, Back, RmPcs, Return
  <2>3. CASE ByOther(d)
    <3>1. PICK e \in info.ents : e.hap # op.hap /\ NamesDir(e, d)
      BY <2>3 DEF ByOther
    <3>2. e \in info'.ents
      BY <1>h, <3>1, RemovedEntries
    <3> QED
      BY <2>2, <3>1, <3>2 DEF Accounted, ByOther
  <2>4. CASE Pending(d)
    <3>1. CASE \E x \in un.list : ToRemove(x, d)
      BY <2>2, <3>1, Zenon DEF Accounted, Pending
    <3>2. CASE Back("un_next") /\ pc # "rm_name" /\ d = <<rm.name, rm.ver>>
      <4>1. pc # "rm_dir"
        BY <1>0, <3>2 DEF RemovalGoesOn, Typed, DataInv
      <4>2. pc' \in {"rm_dir", "rm_json"} /\ rm' = rm
        BY <3>2, <4>1 DEF RemovalGoesOn, RmPcs
      <4> QED
        BY <2>2, <3>2, <4>2 DEF Accounted, Pending, Back, RmPcs
    <3> QED
      BY <2>4, <3>1, <3>2, Zenon DEF Pending
  <2> QED
    BY <2>1, <2>3, <2>4
<1>4. CASE rm.back = "write"
  <2>1. ~Unlisting /\ (Covered(d) \/ Unpacking(d))
    BY <1>2, <1>4 DEF Accounted, Unlisting, Back, RmPcs
  <2>2. ~Unlisting' /\ op' = op /\ info' = info /\ (pc' = "write" \/ Back("write")')
    <3>1. pc # "rm_json"
      BY <1>4 DEF Typed, CommandOk, ControlInv, Back
    <3> QED
      BY <1>4, <3>1 DEF RemovalGoesOn, Unlisting, Back, RmPcs, Return
  <2>3. Covered(d) => Covered(d)'
    BY <2>2 DEF Covered
  <2>4. Unpacking(d) => Unpacking(d)'
    BY <2>2 DEF Unpacking, Package, Target, PkgPcs
  <2> QED
    BY <2>1, <2>2, <2>3, <2>4 DEF Accounted
<1>5. CASE rm.back = "stop"
  <2>1. ~Unlisting /\ (Covered(d) \/ Unpacking(d))
    BY <1>2, <1>5 DEF Accounted, Unlisting, Back, RmPcs
  <2>2. Back("stop") /\ rm.name = Package.name /\ rm.ver = Package.ver /\ ~op.skip
    BY <1>5 DEF Back, Typed, CommandOk, ControlInv, StopInv
  <2>3. Package.public /\ \A e \in info.ents :
            e.hap = op.hap /\ e.name = rm.name /\ e.cur = rm.ver => e.inst = e.cur
    BY <2>2 DEF StopInv, Without, OrphanHarm
  <2>4. CASE pc \in {"rm_check", "rm_json"}
    <3>1. pc' \in {"rm_json", "rm_dir"} /\ op' = op /\ rm' = rm
      BY <2>4 DEF RemovalGoesOn
    <3>2. ~Unlisting' /\ Back("stop")'
      BY <1>5, <3>1 DEF Unlisting, Back, RmPcs
    <3>3. Unpacking(d) => Unpacking(d)'
      BY <3>1, <3>2 DEF Unpacking, Package, Target
    <3>4. ASSUME Covered(d) PROVE Covered(d)' \/ Unpacking(d)'
      <4>1. PICK e \in info.ents : NamesDir(e, d)
        BY <3>4 DEF Covered
      <4>2. CASE e \in info'.ents
        BY <4>1, <4>2 DEF Covered
      <4>3. CASE e \notin info'.ents
        <5>1. e.hap = op.hap /\ e.name = rm.name /\ e.cur = rm.ver
          BY <1>h, <4>1, <4>3, RemovedEntries
        <5>2. d = <<rm.name, rm.ver>>
          BY <2>3, <4>1, <5>1, DirPair DEF NamesDir
        <5>3. Package' = Package /\ Target' = Target /\ d = Target
          BY <2>2, <3>1, <5>2 DEF Package, Target
        <5> QED
          BY <2>2, <2>3, <3>1, <3>2, <5>3 DEF Unpacking
      <4> QED
        BY <4>2, <4>3
    <3> QED
      BY <2>1, <3>2, <3>3, <3>4 DEF Accounted
  <2>5. CASE pc \in {"rm_dir", "rm_name"}
    <3>1. info' = info
      BY <2>5 DEF RemovalGoesOn
    <3>2. ~Unlisting'
      BY <1>5, <2>5 DEF RemovalGoesOn, Return, Finish, Unlisting, Back, RmPcs
    <3>3. ~Unpacking(d)
      BY <1>0, <2>2, <2>5, <1>5 DEF RemovalGoesOn, Unpacking, Target, Typed, DataInv, Back, PkgPcs, RmPcs
    <3> QED
      BY <2>1, <3>1, <3>2, <3>3 DEF Accounted, Covered
  <2> QED
    BY <2>4, <2>5 DEF RemovalGoesOn
<1> QED
  BY <1>0, <1>3, <1>4, <1>5

\* What HnpPackageInfoGet lists of the HAP's own versions.
LEMMA ListedOrForeign ==
  ASSUME Typed, NEW d \in Dirs, Covered(d)
  PROVE  ByOther(d) \/ \E x \in HnpPackageInfoGet(op.hap) : ToRemove(x, d)
<1>1. PICK e \in info.ents : NamesDir(e, d)
  BY DEF Covered
<1>2. CASE e.hap # op.hap
  BY <1>1, <1>2 DEF ByOther
<1>3. CASE e.hap = op.hap
  <2>1. e.inst = d[2] => e.inst # NoVer
    BY DirPair, HnpAssumption
  <2>2. CASE HnpOtherPackageInstallCheck(e) /\ d[2] = e.cur
    BY <1>1, <1>3, <2>2 DEF HnpOtherPackageInstallCheck, ByOther, NamesDir
  <2>3. CASE ~(HnpOtherPackageInstallCheck(e) /\ d[2] = e.cur)
    <3>1. ~HnpOtherPackageInstallCheck(e) \/ e.inst # NoVer
      BY <1>1, <2>1, <2>3 DEF NamesDir
    <3>2. PICK x : x = [name |-> e.name, cur |-> e.cur, inst |-> e.inst,
                        exist |-> HnpOtherPackageInstallCheck(e), half |-> FALSE]
      OBVIOUS
    <3>3. x \in HnpPackageInfoGet(op.hap)
      BY <1>3, <3>1, <3>2 DEF HnpPackageInfoGet
    <3>4. x.name = e.name /\ x.cur = e.cur /\ x.inst = e.inst /\ x.exist = HnpOtherPackageInstallCheck(e) /\ ~x.half
      BY <3>2
    <3>5. ToRemove(x, d)
      <4>1. CASE d[2] = e.cur
        BY <1>1, <2>3, <3>4, <4>1 DEF ToRemove, RemovesCurrent, NamesDir
      <4>2. CASE d[2] # e.cur
        BY <1>1, <3>4, <4>2 DEF ToRemove, NamesDir
      <4> QED
        BY <4>1, <4>2
    <3> QED
      BY <3>3, <3>5
  <2> QED
    BY <2>2, <2>3
<1> QED
  BY <1>2, <1>3

\* The next item of the list.
LEMMA StillPending ==
  ASSUME Typed, HnpNativeUnInstall, NEW d \in Dirs, Pending(d)
  PROVE  Pending(d)'
<1>1. PICK e \in un.list, h \in Items :
              /\ h.half /\ h.name = e.name /\ h.inst = e.inst /\ h.cur = e.cur
              /\ un'.list = (un.list \ {e}) \cup
                   IF RemovesCurrent(e) /\ RemovesInstalled(e) THEN {h} ELSE {}
              /\ \/ /\ RemovesCurrent(e) /\ pc' = "rm_check"
                    /\ rm'.name = e.name /\ rm'.ver = e.cur /\ rm'.back = "un_next"
                 \/ /\ ~RemovesCurrent(e) /\ RemovesInstalled(e) /\ pc' = "rm_check"
                    /\ rm'.name = e.name /\ rm'.ver = e.inst /\ rm'.back = "un_next"
                 \/ ~RemovesCurrent(e) /\ ~RemovesInstalled(e)
  BY NativeCases
<1>2. PICK x \in un.list : ToRemove(x, d)
  BY NativeCases DEF Pending, Back, RmPcs
<1>3. CASE x # e
  BY <1>1, <1>2, <1>3 DEF Pending
<1>4. CASE x = e
  <2>0. d = <<d[1], d[2]>> /\ d[2] # NoVer
    BY DirPair, HnpAssumption
  <2>1. CASE RemovesCurrent(e) /\ d[2] = e.cur
    <3>1. rm'.back = "un_next" /\ pc' = "rm_check" /\ d = <<rm'.name, rm'.ver>>
      BY <1>1, <1>2, <1>4, <2>0, <2>1 DEF ToRemove
    <3> QED
      BY <3>1 DEF Pending, Back, RmPcs
  <2>2. CASE d[2] = e.inst /\ e.inst # e.cur
    <3>1. RemovesInstalled(e)
      BY <2>0, <2>2 DEF RemovesInstalled
    <3>2. CASE RemovesCurrent(e)
      <4>1. h \in un'.list
        BY <1>1, <3>1, <3>2
      <4>2. ToRemove(h, d)
        BY <1>1, <1>2, <1>4, <2>2 DEF ToRemove
      <4> QED
        BY <4>1, <4>2 DEF Pending
    <3>3. CASE ~RemovesCurrent(e)
      <4>1. rm'.back = "un_next" /\ pc' = "rm_check" /\ d = <<rm'.name, rm'.ver>>
        BY <1>1, <1>2, <1>4, <2>0, <2>2, <3>1, <3>3 DEF ToRemove
      <4> QED
        BY <4>1 DEF Pending, Back, RmPcs
    <3> QED
      BY <3>2, <3>3
  <2> QED
    BY <1>2, <1>4, <2>1, <2>2 DEF ToRemove
<1> QED
  BY <1>3, <1>4

\* A step outside HnpUnInstall's list that touches neither record nor disk.
LEMMA AccountedKept ==
  ASSUME NEW d, Accounted(d), UNCHANGED <<info, old>>, ~Unlisting, ~Unlisting',
         Unpacking(d) => Unpacking(d)'
  PROVE  Accounted(d)'
  BY DEF Accounted, Covered, OldListed

\* The package is the head of what is still to do.
LEMMA SamePackage == ASSUME op'.todo = op.todo PROVE Package' = Package /\ Target' = Target
  BY DEF Package, Target

Resting == pc \in {"idle"} \cup InstPcs \cup {"un_start", "un_get", "un_priv"}
\* Between the calls nothing is being unpacked or unlisted.
LEMMA RestingFacts == Resting => ~Unlisting /\ \A d : ~Unpacking(d)
  BY DEF Resting, InstPcs, Unlisting, Unpacking, Back, RmPcs, PkgPcs

\* Every step keeps every version on disk accounted for.
LEMMA AccountedNext ==
  ASSUME Typed, SameCurrent, StopInv, GoneInv, OrphanInv, [Next]_vars, Without(OrphanHarm)',
         NEW d \in Dirs, dirs'[d] # "absent"
  PROVE  Accounted(d)'
<1> USE DEF disk
<1>0. Without(OrphanHarm)
  BY HarmGrows DEF Without
<1>w. \A x \in OrphanHarm : x \notin harm /\ x \notin harm'
  BY <1>0 DEF Without
<1>a. dirs[d] # "absent" => Accounted(d)
  BY <1>0 DEF OrphanInv
<1>o. op \in Operations
  BY DEF Typed, CommandOk, CommandInv
<1>r. ASSUME Resting, pc' \notin {"un_next"} \cup RmPcs, UNCHANGED <<info, old, dirs>>
      PROVE  Accounted(d)'
  <2>1. ~Unlisting'
    BY <1>r DEF Unlisting, Back
  <2> QED
    BY <1>a, <1>r, <2>1, RestingFacts, AccountedKept
<1>f. ASSUME Resting, NEW ret, Finish(ret), UNCHANGED <<info, old, dirs>> PROVE Accounted(d)'
  BY <1>f, <1>r DEF Finish, RmPcs
<1>5. CASE UNCHANGED vars
  <2>1. Accounted(d)
    BY <1>5, <1>a DEF vars
  <2>2. Unlisting' = Unlisting /\ Unpacking(d)' = Unpacking(d) /\ Pending(d)' = Pending(d) /\ ByOther(d)' = ByOther(d)
    BY <1>5 DEF vars, Unlisting, Back, Unpacking, Package, Target, Pending, ByOther
  <2> QED
    BY <1>5, <2>1, <2>2 DEF Accounted, Covered, OldListed, vars
<1>6. ASSUME NEW h \in Haps, NEW b \in Bundles, NEW f \in BOOLEAN, NativeInstallHnp(h, b, f) PROVE Accounted(d)'
  BY <1>6, <1>r DEF NativeInstallHnp, Resting, RmPcs
<1>7. ASSUME NEW h \in Haps, NativeUnInstallHnp(h) \/ CommandRefused(h) PROVE Accounted(d)'
  BY <1>7, <1>r DEF NativeUnInstallHnp, CommandRefused, Resting, RmPcs
<1>8. CASE HnpCmdInstall \/ StartUnInstall
  <2>1. /\ RebuildHnpInfoCfg /\ UNCHANGED <<old, dirs, op>>
        /\ Resting /\ pc' \notin {"un_next"} \cup RmPcs
    BY <1>8 DEF HnpCmdInstall, StartUnInstall, Resting, RmPcs, InstPcs
  <2>2. Without({"lost", "dropped"})'
    BY <1>w DEF Without, OrphanHarm
  <2>3. CASE info' = info
    BY <1>r, <2>1, <2>3
  <2>4. CASE info.st = "missing" /\ old # NoVer /\ info' = [st |-> "ok", ents |-> old]
    <3>1. Accounted(d) /\ ~Unlisting /\ ~Unpacking(d) /\ info.ents = {}
      BY <1>a, <2>1, <2>4, RestingFacts DEF Typed, DataInv
    <3>2. OldListed(d)
      BY <3>1 DEF Accounted, Covered
    <3>3. Covered(d)' /\ ~Unlisting'
      BY <2>1, <2>4, <3>2 DEF OldListed, Covered, Unlisting, Back
    <3> QED
      BY <3>3 DEF Accounted
  <2> QED
    BY <2>1, <2>2, <2>3, <2>4, RebuildOk
<1>9. CASE ArgumentsRefused \/ ReadConfigFails \/ PathIsExist \/ NothingToSign
  BY <1>9, <1>f DEF ArgumentsRefused, ReadConfigFails, PathIsExist, NothingToSign, Stop, Resting, InstPcs
<1>10. CASE HnpInstallPre
  BY <1>10, <1>f, <1>r DEF HnpInstallPre, Resting, InstPcs, RmPcs
<1>11. CASE SkipInstalled
  BY <1>11, <1>f, <1>r DEF SkipInstalled, Stop, Resting, InstPcs, RmPcs
<1>12. CASE HnpInstallForceCheck
  <2>1. /\ pc = "next" /\ pc' = "unzip" /\ op' = [op EXCEPT !.skip = FALSE] /\ UNCHANGED <<info, old>>
        /\ dirs' = dirs \/ (Package.public /\ dirs' = [dirs EXCEPT ![Target] = "partial"])
    BY <1>12 DEF HnpInstallForceCheck, HnpCreateFolder
  <2>2. Resting /\ ~Unlisting'
    BY <2>1 DEF Resting, InstPcs, Unlisting, Back, RmPcs
  <2>3. CASE dirs[d] # "absent"
    BY <1>a, <2>1, <2>2, <2>3, RestingFacts, AccountedKept
  <2>4. CASE dirs[d] = "absent"
    <3>1. d = Target /\ Package.public
      BY <2>1, <2>4 DEF Typed, DataInv
    <3>2. ~op'.skip /\ op'.todo = op.todo
      BY <1>o, <2>1 DEF Operations
    <3>3. Unpacking(d)'
      BY <2>1, <3>1, <3>2, SamePackage DEF Unpacking, PkgPcs
    <3> QED
      BY <2>2, <3>3 DEF Accounted
  <2> QED
    BY <2>3, <2>4
<1>13. CASE HnpUnZip
  <2>1. /\ pc = "unzip" /\ pc' = "link" /\ UNCHANGED <<info, old>>
        /\ Package.public => dirs[Target] # "absent"
    BY <1>13, UnZipCases DEF TargetExists
  <2>5. PICK x : dirs' = dirs \/ (Package.public /\ dirs' = [dirs EXCEPT ![Target] = x])
    BY <1>13, UnZipCases
  <2>6. PICK found : op' = [op EXCEPT !.map = @ \cup found]
    BY <1>13, UnZipCases
  <2>2. dirs[d] # "absent"
    BY <2>1, <2>5 DEF Typed, DataInv
  <2>3. op'.skip = op.skip /\ op'.todo = op.todo
    BY <1>o, <2>6 DEF Operations
  <2>4. ~Unlisting /\ ~Unlisting' /\ (Unpacking(d) => Unpacking(d)')
    BY <2>1, <2>3, SamePackage DEF Unlisting, Back, RmPcs, Unpacking, PkgPcs
  <2> QED
    BY <1>a, <2>1, <2>2, <2>4, AccountedKept
<1>k. ASSUME pc \in PkgPcs, NEW x, op' = [op EXCEPT !.ret = x], NEW why, RollBack(why), UNCHANGED <<info, old, dirs>>
      PROVE  Accounted(d)'
  <2>1. pc' = "rm_check" /\ rm'.back = "stop"
    BY <1>k DEF RollBack
  <2>2. op'.skip = op.skip /\ op'.todo = op.todo
    BY <1>o, <1>k DEF Operations
  <2>3. ~Unlisting /\ ~Unlisting' /\ (Unpacking(d) => Unpacking(d)')
    BY <1>k, <2>1, <2>2, SamePackage DEF Unlisting, Back, RmPcs, Unpacking, PkgPcs
  <2> QED
    BY <1>a, <1>k, <2>3, AccountedKept
<1>14. CASE HnpUnZipFails
  BY <1>14, <1>k DEF HnpUnZipFails, PkgPcs
<1>15. CASE LinkInstalled
  <2>1. pc = "link" /\ UNCHANGED <<info, old, dirs>>
    BY <1>15 DEF LinkInstalled
  <2>2. \/ pc' = "deal" /\ op' = op
        \/ ~Package.public /\ pc' = "next"
        \/ op' = [op EXCEPT !.ret = "symlink"] /\ RollBack({})
    BY <1>15 DEF LinkInstalled
  <2>3. CASE pc' = "deal" /\ op' = op
    <3>1. ~Unlisting /\ ~Unlisting' /\ (Unpacking(d) => Unpacking(d)')
      BY <2>1, <2>3, SamePackage DEF Unlisting, Back, RmPcs, Unpacking, PkgPcs
    <3> QED
      BY <1>a, <2>1, <3>1, AccountedKept
  <2>4. CASE ~Package.public /\ pc' = "next"
    <3>1. ~Unlisting /\ ~Unlisting' /\ ~Unpacking(d)
      BY <2>1, <2>4 DEF Unlisting, Back, RmPcs, Unpacking
    <3> QED
      BY <1>a, <2>1, <3>1, AccountedKept
  <2> QED
    BY <1>k, <2>1, <2>2, <2>3, <2>4 DEF PkgPcs
<1>16. CASE RemoveOldVersion
  <2>1. /\ pc = "deal" /\ UNCHANGED <<info, old, dirs, op>>
        /\ pc' = "write" \/ (pc' = "rm_check" /\ rm'.back = "write")
    BY <1>16 DEF RemoveOldVersion
  <2>2. ~Unlisting /\ ~Unlisting' /\ (Unpacking(d) => Unpacking(d)')
    BY <2>1, SamePackage DEF Unlisting, Back, RmPcs, Unpacking, PkgPcs
  <2> QED
    BY <1>a, <2>1, <2>2, AccountedKept
<1>17. CASE RecordVersion
  <2>1. UNCHANGED <<old, dirs>> /\ pc = "write"
    BY <1>17 DEF RecordVersion
  <2>2. PICK o \in IF Readable THEN WriteOutcomes ELSE {"parse"} :
        /\ IF o = "parse" THEN UNCHANGED info
           ELSE HnpHapJsonWrite(
                  HnpInstallInfoJsonWrite(op.hap, Package.name, Package.ver), o)
        /\ CASE WriteOk(o) ->
                  /\ pc' = "next" /\ op' = [op EXCEPT !.todo = Tail(@)]
                  /\ Harm(LostIf(o)) /\ UNCHANGED <<rm, un, last>>
             [] ~WriteOk(o) /\ op.skip ->
                  /\ Finish("json")
                  /\ Harm(LostIf(o) \cup IF op.map # {} THEN {"batch"} ELSE {})
             [] ~WriteOk(o) /\ ~op.skip ->
                  /\ op' = [op EXCEPT !.ret = "json"]
                  /\ RollBack(LostIf(o))
                  /\ UNCHANGED <<un, last>>
    BY <1>17, Zenon DEF RecordVersion
  <2>3. o \in {"ok", "open", "short", "silent", "parse"}
    BY OutcomeSets
  <2>6. ~(o = "silent")
    <3>1. o = "silent" => Harm(LostIf(o))
      BY <2>2 DEF WriteOk
    <3> QED
      BY <3>1, <1>w DEF Harm, LostIf, OrphanHarm
  <2>4. CASE o = "ok"
    <3>0. /\ pc' = "next" /\ op' = [op EXCEPT !.todo = Tail(@)] /\ harm' = harm
          /\ UNCHANGED <<rm, un, last>>
      BY <2>2, <2>4 DEF WriteOk, Harm, LostIf
    <3>1. RecordGrows
      BY <2>1, <2>2, <2>4, <3>0, <1>17 DEF RecordGrows, HnpHapJsonWrite, RecordVersion
    <3>2. ~Unlisting /\ ~OldListed(d) /\ ~Unlisting'
      BY <1>0, <2>1, <3>0 DEF Unlisting, Back, RmPcs, OldListed, OrphanInv
    <3>3. Covered(d) \/ Unpacking(d)
      BY <1>a, <2>1, <3>2 DEF Accounted
    <3>4. Without({"refused"})
      BY <1>w DEF Without, OrphanHarm
    <3>5. Covered(d)'
      BY <2>1, <3>1, <3>3, <3>4, RecordedVersion
    <3> QED
      BY <3>2, <3>5 DEF Accounted
  <2>5. CASE o # "ok"
    <3>1. o # "short"
      <4>1. o = "short" => "lost" \in harm'
        BY <2>2, <2>5 DEF Harm, LostIf, RollBack, WriteOk
      <4> QED
        BY <4>1, <1>w DEF OrphanHarm
    <3>2. info' = info
      BY <2>2, <2>3, <2>5, <2>6, <3>1 DEF HnpHapJsonWrite
    <3>5. ~WriteOk(o)
      BY <2>5, <2>6 DEF WriteOk
    <3>3. CASE op.skip
      <4>1. pc' = "idle"
        BY <2>2, <3>5, <3>3 DEF Finish
      <4>2. ~Unlisting /\ ~Unlisting' /\ ~Unpacking(d)
        BY <2>1, <4>1, <3>3 DEF Unlisting, Back, RmPcs, Unpacking
      <4> QED
        BY <1>a, <2>1, <3>2, <4>2, AccountedKept
    <3>4. CASE ~op.skip
      BY <1>k, <2>1, <2>2, <3>5, <3>2, <3>4 DEF PkgPcs
    <3> QED
      BY <3>3, <3>4
  <2> QED
    BY <2>4, <2>5
<1>18. CASE EnforceCodeSign \/ BssInstall
  BY <1>18, <1>f, <1>r DEF EnforceCodeSign, BssInstall, CallUnInstall, Resting, InstPcs, RmPcs
<1>19. CASE RunCheck \/ RemoveRecord \/ RemoveVersion \/ RemoveName
  <2>1. Without({"refused"})'
    BY <1>w DEF Without, OrphanHarm
  <2> QED
    BY <1>0, <1>19, <2>1, RemovalOk, OrphanRemoval, RemovalSteps
<1>20. CASE GetPackageInfo
  <2>1. pc = "un_get" /\ UNCHANGED <<info, old, dirs>>
    BY <1>20 DEF GetPackageInfo
  <2>2. CASE ~Unlisting'
    BY <1>a, <2>1, <2>2, RestingFacts, AccountedKept DEF Resting
  <2>3. CASE Unlisting'
    <3>1. un' = [un EXCEPT !.list = HnpPackageInfoGet(op.hap)] /\ op' = op
      BY <1>20, <2>3 DEF GetPackageInfo, UnReturn, Finish, Unlisting, Back, RmPcs
    <3>2. un'.list = HnpPackageInfoGet(op.hap)
      BY <3>1 DEF Typed, CommandOk, CommandInv
    <3>3. Covered(d)
      <4>1. ~Unlisting /\ ~Unpacking(d) /\ ~OldListed(d)
        BY <1>0, <2>1, RestingFacts DEF Resting, OldListed, OrphanInv
      <4> QED
        BY <1>a, <2>1, <4>1 DEF Accounted
    <3>4. ByOther(d) \/ \E x \in un'.list : ToRemove(x, d)
      BY <3>2, <3>3, ListedOrForeign
    <3>5. ByOther(d)' \/ Pending(d)'
      BY <2>1, <3>1, <3>4 DEF ByOther, Pending
    <3> QED
      BY <2>3, <3>5 DEF Accounted
  <2> QED
    BY <2>2, <2>3
<1>21. CASE HnpNativeUnInstall
  <2>1. pc = "un_next" /\ UNCHANGED <<info, dirs, op>> /\ Unlisting'
    BY <1>21, NativeCases DEF Unlisting, Back, RmPcs
  <2>2. ByOther(d) \/ Pending(d)
    BY <1>a, <2>1 DEF Accounted, Unlisting
  <2>3. ByOther(d)' \/ Pending(d)'
    BY <1>21, <2>1, <2>2, StillPending DEF ByOther
  <2> QED
    BY <2>1, <2>3 DEF Accounted
<1>22. CASE DeletePackageInfo
  <2>1. pc = "un_next" /\ un.list = {} /\ UNCHANGED <<old, dirs>>
    BY <1>22 DEF DeletePackageInfo
  <2>2. ~Pending(d) /\ Unlisting
    BY <2>1 DEF Pending, Back, RmPcs, Unlisting
  <2>3. PICK e \in info.ents : e.hap # op.hap /\ NamesDir(e, d)
    BY <1>a, <2>1, <2>2 DEF Accounted, ByOther
  <2>4. e \in info'.ents /\ ~Unlisting'
    <3>1. info.st = "ok"
      BY <2>3 DEF Typed, DataInv
    <3>2. PICK o \in WriteOutcomes :
              /\ HnpHapJsonWrite(HnpPackageInfoDelete(op.hap), o)
              /\ Harm(LostIf(o))
              /\ IF WriteOk(o) THEN pc' = "un_priv" /\ UNCHANGED <<op, rm, un, last>>
                 ELSE UnReturn("json")
      BY <1>22, <3>1 DEF DeletePackageInfo
    <3>3. o \in {"ok", "open", "short", "silent"}
      BY OutcomeSets
    <3>4. o \notin {"short", "silent"}
      BY <1>w, <3>2 DEF LostIf, Harm, OrphanHarm
    <3>5. e \in info'.ents
      BY <2>3, <3>2, <3>3, <3>4 DEF HnpHapJsonWrite, HnpPackageInfoDelete
    <3> QED
      BY <3>2, <3>5 DEF UnReturn, Finish, Unlisting, Back, RmPcs
  <2> QED
    BY <2>3, <2>4 DEF Accounted, Covered
<1>23. CASE DeletePrivate
  BY <1>23, <1>f DEF DeletePrivate, UnReturn, Resting
<1>24. ASSUME NEW n \in Names, ProcessStart(n) \/ ProcessEnd(n) PROVE Accounted(d)'
  <2>0. UNCHANGED <<info, old, dirs, op, pc, rm, un>>
    BY <1>24 DEF ProcessStart, ProcessEnd
  <2>1. Accounted(d)
    BY <2>0, <1>a
  <2>2. Unlisting' = Unlisting /\ Unpacking(d)' = Unpacking(d) /\ Pending(d)' = Pending(d) /\ ByOther(d)' = ByOther(d)
    BY <2>0 DEF Unlisting, Back, Unpacking, Package, Target, Pending, ByOther
  <2> QED
    BY <2>0, <2>1, <2>2 DEF Accounted, Covered, OldListed
<1>25. CASE Crash
  BY <1>25, <1>w DEF Crash, Harm, OrphanHarm
<1> QED
  BY <1>5, <1>6, <1>7, <1>8, <1>9, <1>10, <1>11, <1>12, <1>13, <1>14, <1>15, <1>16, <1>17,
     <1>18, <1>19, <1>20, <1>21, <1>22, <1>23, <1>24, <1>25
  DEF Next, Command, Install, UnInstall, Environment

\* The record of earlier releases is read by the first command.
LEMMA MigratedFirst ==
  ASSUME Typed, OrphanInv, [Next]_vars, Without(OrphanHarm)', info'.st = "missing", old' # NoVer
  PROVE  pc' \in {"idle", "start", "un_start"}
<1> USE DEF disk
<1>0. Without(OrphanHarm)
  BY HarmGrows DEF Without
<1>1. old' = old
  BY DEF Next, Command, Install, UnInstall, Environment, vars,
       NativeInstallHnp, NativeUnInstallHnp, CommandRefused, HnpCmdInstall, ArgumentsRefused, HnpInstallPre,
       ReadConfigFails, PathIsExist, SkipInstalled, HnpInstallForceCheck, HnpUnZip, HnpUnZipFails,
       LinkInstalled, RemoveOldVersion, RecordVersion, NothingToSign, EnforceCodeSign, BssInstall,
       RunCheck, RemoveRecord, RemoveVersion, RemoveName, StartUnInstall, GetPackageInfo, HnpNativeUnInstall,
       DeletePackageInfo, DeletePrivate, ProcessStart, ProcessEnd, Crash
<1>2. CASE HnpCmdInstall \/ StartUnInstall
  <2>1. Without({"lost", "dropped"})'
    BY DEF Without, OrphanHarm
  <2>2. RebuildHnpInfoCfg
    BY <1>2 DEF HnpCmdInstall, StartUnInstall
  <2> QED
    BY <1>1, <2>1, <2>2, RebuildOk
<1>3. CASE info.st = "missing"
  <2>1. pc \in {"idle", "start", "un_start"}
    BY <1>0, <1>1, <1>3 DEF OrphanInv
  <2>2. pc \notin RmPcs
    BY <2>1 DEF RmPcs
  <2> QED
    BY <1>2, <2>1 DEF Next, Command, Install, UnInstall, Environment, vars,
       NativeInstallHnp, NativeUnInstallHnp, CommandRefused, ArgumentsRefused, HnpInstallPre,
       ReadConfigFails, PathIsExist, SkipInstalled, HnpInstallForceCheck, HnpUnZip, HnpUnZipFails,
       LinkInstalled, RemoveOldVersion, RecordVersion, NothingToSign, EnforceCodeSign, BssInstall,
       RunCheck, RemoveRecord, RemoveVersion, RemoveName, GetPackageInfo, HnpNativeUnInstall,
       DeletePackageInfo, DeletePrivate, ProcessStart, ProcessEnd, Crash, Finish
<1>4. CASE info.st # "missing"
  <2>1. \A ents, o : o \in {"ok", "short", "silent", "open"} => ~HnpHapJsonWrite(ents, o)
    BY <1>4 DEF HnpHapJsonWrite
  <2>2. CASE RecordVersion
    <3>1. \/ info' = info
          \/ \E ents : \E o \in WriteOutcomes : HnpHapJsonWrite(ents, o)
      BY <2>2 DEF RecordVersion
    <3> QED
      BY <1>4, <2>1, <3>1, OutcomeSets
  <2>3. CASE RemoveRecord
    <3>1. \/ info' = info
          \/ \E ents : \E o \in WriteOutcomes \cup {"ok"} : HnpHapJsonWrite(ents, o)
      BY <2>3 DEF RemoveRecord
    <3> QED
      BY <1>4, <2>1, <3>1, OutcomeSets
  <2>4. CASE DeletePackageInfo
    <3>1. \/ info' = info
          \/ \E ents : \E o \in WriteOutcomes : HnpHapJsonWrite(ents, o)
      BY <2>4 DEF DeletePackageInfo
    <3> QED
      BY <1>4, <2>1, <3>1, OutcomeSets
  <2>5. CASE Crash
    BY <1>4, <2>5 DEF Crash
  <2> QED
    BY <1>2, <1>4, <2>2, <2>3, <2>4, <2>5 DEF Next, Command, Install, UnInstall, Environment, vars,
       NativeInstallHnp, NativeUnInstallHnp, CommandRefused, ArgumentsRefused, HnpInstallPre,
       ReadConfigFails, PathIsExist, SkipInstalled, HnpInstallForceCheck, HnpUnZip, HnpUnZipFails,
       LinkInstalled, RemoveOldVersion, NothingToSign, EnforceCodeSign, BssInstall,
       RunCheck, RemoveVersion, RemoveName, GetPackageInfo, HnpNativeUnInstall,
       DeletePrivate, ProcessStart, ProcessEnd
<1> QED
  BY <1>3, <1>4

\* The two parts of OrphanInv.
LEMMA OrphanNext ==
  Typed /\ SameCurrent /\ StopInv /\ GoneInv /\ OrphanInv /\ [Next]_vars => OrphanInv'
<1> SUFFICES ASSUME Typed, SameCurrent, StopInv, GoneInv, OrphanInv, [Next]_vars PROVE OrphanInv'
  OBVIOUS
<1>1. ASSUME Without(OrphanHarm)', info'.st = "missing", old' # NoVer PROVE pc' \in {"idle", "start", "un_start"}
  BY <1>1, MigratedFirst
<1>2. ASSUME Without(OrphanHarm)', NEW d \in Dirs, dirs'[d] # "absent" PROVE Accounted(d)'
  BY <1>2, AccountedNext
<1> QED
  BY <1>1, <1>2 DEF OrphanInv

\* Every version directory is named by the record whenever no command runs,
\* whatever was installed, replaced, undone and uninstalled before, unless
\* the history names one of the failures the code does not undo.
THEOREM NoVersionOrphaned == Spec => []NoOrphanVersions
<1> DEFINE Inv == Typed /\ SameCurrent /\ StopInv /\ GoneInv /\ OrphanInv
<1>1. Init => Inv
  BY TypedInit, SameInit, StopInit, OrphanInit
<1>2. Inv /\ [Next]_vars => Inv'
  BY TypedNext, SameNext, StopNext, GoneNext, OrphanNext
<1>3. Inv => NoOrphanVersions
  <2> SUFFICES ASSUME Inv, pc = "idle", info.st # "missing", Without(OrphanHarm),
                      NEW d \in Dirs, dirs[d] # "absent"
               PROVE  \E e \in info.ents : e.name = d[1] /\ d[2] \in {e.cur, e.inst}
    BY DEF NoOrphanVersions, OrphanHarm
  <2>1. Accounted(d)
    BY DEF OrphanInv
  <2> QED
    BY <2>1, RestingFacts DEF Accounted, Resting, OldListed, Covered, NamesDir
<1> QED
  BY <1>1, <1>2, <1>3, PTL DEF Spec

---------------------------------------------------------------------------
(* Successful installations                                                *)

\* A partly written version is the one being unpacked or undone, unless a
\* crash, a refused removal or a full disk that went unnoticed left it.
PartialHarm == {"crash", "refused", "unnoticed"}
PartialInv ==
  Without(PartialHarm) =>
    \A d \in Dirs : dirs[d] = "partial" =>
      (pc = "unzip" \/ (Back("stop") /\ pc # "rm_name")) /\ Package.public /\ d = Target

\* Earlier releases left complete directories.
LEMMA PartialInit == Init => PartialInv
<1> SUFFICES ASSUME Init PROVE PartialInv
  OBVIOUS
<1>1. \E S : dirs = [d \in Dirs |-> IF d \in S THEN "full" ELSE "absent"]
  BY DEF Init
<1> QED
  BY <1>1 DEF PartialInv

\* The steps that change a version directory.
LEMMA DirsCases ==
  ASSUME Typed, [Next]_vars
  PROVE  dirs' = dirs \/ HnpInstallForceCheck \/ HnpUnZip \/ RemoveVersion \/ Crash
  BY DEF disk, Next, Command, Install, UnInstall, Environment, vars, NativeInstallHnp, NativeUnInstallHnp,
       CommandRefused, HnpCmdInstall, ArgumentsRefused, HnpInstallPre, ReadConfigFails, PathIsExist,
       SkipInstalled, HnpUnZipFails, LinkInstalled, RemoveOldVersion, RecordVersion, NothingToSign,
       EnforceCodeSign, BssInstall, RunCheck, RemoveRecord, RemoveName, StartUnInstall, GetPackageInfo,
       HnpNativeUnInstall, DeletePackageInfo, DeletePrivate, ProcessStart, ProcessEnd

\* The stage each step belongs to.
LEMMA Stages ==
  /\ \A h, b, f : NativeInstallHnp(h, b, f) => pc = "idle"
  /\ \A h : NativeUnInstallHnp(h) \/ CommandRefused(h) => pc = "idle"
  /\ HnpCmdInstall \/ ArgumentsRefused => pc = "start"
  /\ HnpInstallPre => pc = "prepare"
  /\ ReadConfigFails \/ SkipInstalled \/ PathIsExist \/ HnpInstallForceCheck => pc = "next" /\ op.todo # <<>>
  /\ NothingToSign \/ EnforceCodeSign => pc = "next" /\ op.todo = <<>>
  /\ HnpUnZip \/ HnpUnZipFails => pc = "unzip"
  /\ LinkInstalled => pc = "link"
  /\ RemoveOldVersion => pc = "deal"
  /\ RecordVersion => pc = "write"
  /\ BssInstall => pc = "bss"
  /\ RunCheck => pc = "rm_check"
  /\ RemoveRecord => pc = "rm_json"
  /\ RemoveVersion => pc = "rm_dir"
  /\ RemoveName => pc = "rm_name"
  /\ StartUnInstall => pc = "un_start"
  /\ GetPackageInfo => pc = "un_get"
  /\ HnpNativeUnInstall \/ DeletePackageInfo => pc = "un_next"
  /\ DeletePrivate => pc = "un_priv"
  BY DEF NativeInstallHnp, NativeUnInstallHnp, CommandRefused, HnpCmdInstall, ArgumentsRefused,
       HnpInstallPre, ReadConfigFails, PathIsExist, SkipInstalled, HnpInstallForceCheck, HnpUnZip,
       HnpUnZipFails, LinkInstalled, RemoveOldVersion, RecordVersion, NothingToSign, EnforceCodeSign,
       BssInstall, RunCheck, RemoveRecord, RemoveVersion, RemoveName, StartUnInstall, GetPackageInfo,
       HnpNativeUnInstall, DeletePackageInfo, DeletePrivate

\* Processes start and end at any time and touch nothing of a command.
LEMMA Idling ==
  UNCHANGED vars \/ (\E n \in Names : ProcessStart(n) \/ ProcessEnd(n))
    => UNCHANGED <<info, old, disk, pc, op, rm, un, last, harm>>
  BY DEF vars, disk, ProcessStart, ProcessEnd

\* The steps that leave an unpacked directory, or one being undone, as it is.
LEMMA PartialSteps ==
  ASSUME Typed, [Next]_vars, pc = "unzip" \/ (Back("stop") /\ pc # "rm_name")
  PROVE  \/ HnpUnZip
         \/ HnpUnZipFails
         \/ Back("stop") /\ (RunCheck \/ RemoveRecord \/ RemoveVersion)
         \/ UNCHANGED <<info, old, disk, pc, op, rm, un, harm>>
         \/ Crash
<1>1. pc \in {"unzip", "rm_check", "rm_json", "rm_dir"} /\ (pc # "unzip" => Back("stop"))
  BY DEF Back, RmPcs
<1> QED
  BY <1>1, Stages, Idling DEF Next, Command, Install, UnInstall, Environment

\* A partly written directory is completed or removed.
LEMMA PartialNext == Typed /\ PartialInv /\ [Next]_vars => PartialInv'
<1> SUFFICES ASSUME Typed, PartialInv, [Next]_vars, Without(PartialHarm)',
                    NEW d \in Dirs, dirs'[d] = "partial"
             PROVE  (pc' = "unzip" \/ (Back("stop")' /\ pc' # "rm_name")) /\ Package.public' /\ d = Target'
  BY DEF PartialInv
<1> USE DEF disk
<1>0. /\ Without(PartialHarm) /\ "crash" \notin harm' /\ Without({"refused"})' /\ ~Crash
      /\ "unnoticed" \notin harm'
  BY HarmGrows DEF Without, Crash, Harm, PartialHarm
<1>1. dirs[d] = "partial" =>
        (pc = "unzip" \/ (Back("stop") /\ pc # "rm_name")) /\ Package.public /\ d = Target
  BY <1>0 DEF PartialInv
<1>o. op \in Operations
  BY DEF Typed, CommandOk, CommandInv
<1>2. CASE HnpInstallForceCheck
  <2>1. /\ pc = "next" /\ pc' = "unzip" /\ op' = [op EXCEPT !.skip = FALSE]
        /\ dirs' = dirs \/ (Package.public /\ dirs' = [dirs EXCEPT ![Target] = "partial"])
    BY <1>2 DEF HnpInstallForceCheck, HnpCreateFolder
  <2>2. dirs[d] # "partial"
    BY <1>1, <2>1 DEF Back, RmPcs
  <2>3. Package.public /\ d = Target
    BY <2>1, <2>2 DEF Typed, DataInv
  <2>4. op'.todo = op.todo
    BY <1>o, <2>1 DEF Operations
  <2> QED
    BY <2>1, <2>3, <2>4, SamePackage
<1>3. ASSUME dirs[d] = "partial", HnpUnZip PROVE FALSE
  <2>1. Package.public /\ d = Target
    BY <1>1, <1>3
  <2>2. dirs' = [dirs EXCEPT ![Target] = "full"]
    BY <1>0, <1>3, <2>1, UnZipCases
  <2> QED
    BY <2>1, <2>2 DEF Typed, DataInv
<1>4. CASE HnpUnZip
  <2>1. dirs' = dirs \/ dirs' = [dirs EXCEPT ![Target] = "full"]
    BY <1>0, <1>4, UnZipCases
  <2> QED
    BY <1>3, <1>4, <2>1 DEF Typed, DataInv
<1>5. CASE RemoveVersion
  <2>1. RemovalGoesOn /\ pc = "rm_dir"
    BY <1>0, <1>5, RemovalOk DEF RemoveVersion
  <2>2. dirs' = [dirs EXCEPT ![<<rm.name, rm.ver>>] = "absent"]
    BY <2>1 DEF RemovalGoesOn
  <2>3. d # <<rm.name, rm.ver>> /\ dirs[d] = "partial"
    BY <2>2 DEF Typed, DataInv
  <2>4. Back("stop") /\ d = Target
    BY <1>1, <2>1, <2>3
  <2> QED
    BY <2>3, <2>4 DEF Target, Typed, CommandOk, ControlInv
<1>6. CASE dirs' = dirs /\ ~HnpUnZip /\ ~RemoveVersion
  <2>1. (pc = "unzip" \/ (Back("stop") /\ pc # "rm_name")) /\ Package.public /\ d = Target
    BY <1>1, <1>6
  <2>2. CASE HnpUnZipFails
    <3>1. pc' = "rm_check" /\ rm'.back = "stop" /\ op' = [op EXCEPT !.ret = "unzip"]
      BY <2>2 DEF HnpUnZipFails, RollBack
    <3>2. op'.todo = op.todo
      BY <1>o, <3>1 DEF Operations
    <3> QED
      BY <2>1, <3>1, <3>2, SamePackage DEF Back, RmPcs
  <2>3. CASE Back("stop") /\ (RunCheck \/ RemoveRecord)
    <3>1. RemovalGoesOn /\ pc \in {"rm_check", "rm_json"}
      BY <1>0, <2>3, RemovalOk DEF RunCheck, RemoveRecord
    <3>2. pc' \in {"rm_json", "rm_dir"} /\ op' = op /\ rm' = rm
      BY <3>1 DEF RemovalGoesOn
    <3> QED
      BY <2>1, <2>3, <3>2, SamePackage DEF Back, RmPcs
  <2>4. CASE UNCHANGED <<pc, op, rm>>
    BY <2>1, <2>4, SamePackage DEF Back
  <2> QED
    BY <1>0, <1>6, <2>1, <2>2, <2>3, <2>4, PartialSteps
<1> QED
  BY <1>0, <1>2, <1>4, <1>5, <1>6, DirsCases

UsableHarm == {"unnoticed", "crash", "refused", "self"}

\* The package whose record is about to be written is in place, and the old
\* version that goes is another one.
PlacedInv ==
  /\ pc = "link" /\ Package.public /\ Without({"unnoticed"}) => dirs[Target] = "full"
  /\ Without(UsableHarm) =>
       /\ Dealing => /\ dirs[Target] = "full"
                     /\ \A l \in ToSet(Package.links) : links[l] = Target
       /\ Back("write") => rm.ver # Package.ver

\* No package is being installed.
LEMMA PlacedInit == Init => PlacedInv
  BY DEF Init, PlacedInv, Dealing, Back, RmPcs

\* Links are set after the archive was unpacked.
LEMMA LinkFullNext ==
  ASSUME Typed, PlacedInv, [Next]_vars, pc' = "link", Package.public', Without({"unnoticed"})'
  PROVE  dirs'[Target'] = "full"
<1> USE DEF disk
<1>1. \A ret : ~Finish(ret)
  BY DEF Finish
<1>2. \A why : ~RollBack(why)
  BY DEF RollBack
<1>3. ~(RunCheck \/ RemoveRecord \/ RemoveVersion \/ RemoveName)
  BY RemovalSteps DEF RmPcs, Ends
<1>4. ~HnpNativeUnInstall
  BY NativeCases
<1>5. HnpUnZip \/ UNCHANGED <<pc, op, dirs>>
  BY <1>1, <1>2, <1>3, <1>4 DEF UnReturn, CallUnInstall, Stop, Next, Command, Install, UnInstall, Environment, vars, NativeInstallHnp, NativeUnInstallHnp,
       CommandRefused, HnpCmdInstall, ArgumentsRefused, HnpInstallPre, ReadConfigFails, PathIsExist,
       SkipInstalled, HnpInstallForceCheck, HnpUnZipFails, LinkInstalled, RemoveOldVersion, RecordVersion,
       NothingToSign, EnforceCodeSign, BssInstall, StartUnInstall, GetPackageInfo, DeletePackageInfo,
       DeletePrivate, ProcessStart, ProcessEnd, Crash
<1>6. CASE HnpUnZip
  <2>1. PICK found : op' = [op EXCEPT !.map = @ \cup found] /\ pc = "unzip"
    BY <1>6, UnZipCases
  <2>2. op'.todo = op.todo
    BY <2>1 DEF Typed, CommandOk, CommandInv, Operations
  <2>3. Package.public /\ Target' = Target
    BY <2>2, SamePackage
  <2>4. dirs' = [dirs EXCEPT ![Target] = "full"]
    BY <1>6, <2>3, UnZipCases DEF Without
  <2>5. Target \in Dirs
    BY <2>1, PackageWritten DEF PkgPcs
  <2> QED
    BY <2>3, <2>4, <2>5 DEF Typed, DataInv
<1>7. CASE UNCHANGED <<pc, op, dirs>>
  BY <1>7, SamePackage, HarmGrows DEF PlacedInv, Without
<1> QED
  BY <1>5, <1>6, <1>7

\* Directory and links stay in place until the record is written.
LEMMA PlacedNext == Typed /\ PartialInv /\ PlacedInv /\ [Next]_vars => PlacedInv'
<1> SUFFICES ASSUME Typed, PartialInv, PlacedInv, [Next]_vars PROVE PlacedInv'
  OBVIOUS
<1> USE DEF disk
<1>1. ASSUME Without(UsableHarm)', Dealing'
      PROVE  /\ dirs'[Target'] = "full" /\ \A l \in ToSet(Package.links)' : links'[l] = Target'
             /\ Back("write")' => rm'.ver # Package.ver'
  <2>0. Without(UsableHarm)
    BY <1>1, HarmGrows DEF Without
  <2>o. op \in Operations
    BY DEF Typed, CommandOk, CommandInv
  <2>s. ASSUME op.todo # <<>>, op'.todo = op.todo, dirs[Target] = "full", dirs' = dirs,
               HnpGenerateSoftLink(ToSet(Package.links)), pc' = "deal"
        PROVE  /\ dirs'[Target'] = "full" /\ \A l \in ToSet(Package.links)' : links'[l] = Target'
               /\ Back("write")' => rm'.ver # Package.ver'
    <3>1. Package' = Package /\ Target' = Target
      BY <2>s, SamePackage
    <3>2. ToSet(Package.links) \subseteq Links
      BY <2>o, <2>s, PackageType DEF ToSet
    <3>3. \A l \in ToSet(Package.links) : links'[l] = Target
      BY <2>s, <3>2 DEF HnpGenerateSoftLink
    <3>4. ToSet(Package.links)' = ToSet(Package.links)
      BY <3>1
    <3> QED
      BY <2>s, <3>1, <3>3, <3>4 DEF Back, RmPcs
  <2>1. CASE SkipInstalled /\ pc' = "deal"
    <3>1. /\ op.todo # <<>> /\ dirs[Target] # "absent" /\ pc = "next"
          /\ op' = [op EXCEPT !.skip = TRUE] /\ dirs' = dirs
          /\ HnpGenerateSoftLink(ToSet(Package.links))
      BY <2>1 DEF SkipInstalled, Stop, Finish
    <3>2. Target \in Dirs
      BY <2>o, <3>1, PackageType
    <3>3. Without(PartialHarm)
      BY <2>0 DEF Without, UsableHarm, PartialHarm
    <3>4. dirs[Target] # "partial"
      BY <3>1, <3>2, <3>3 DEF PartialInv, Back, RmPcs
    <3>5. dirs[Target] = "full"
      BY <3>1, <3>2, <3>4 DEF Typed, DataInv
    <3>6. op'.todo = op.todo
      BY <2>o, <3>1 DEF Operations
    <3> QED
      BY <2>1, <2>s, <3>1, <3>5, <3>6
  <2>2. CASE LinkInstalled /\ pc' = "deal"
    <3>1. /\ pc = "link" /\ Package.public /\ op' = op /\ dirs' = dirs
          /\ HnpGenerateSoftLink(ToSet(Package.links))
      BY <2>2 DEF LinkInstalled, RollBack
    <3>2. op.todo # <<>>
      BY <3>1, PackageWritten DEF PkgPcs
    <3>3. Without({"unnoticed"})
      BY <2>0 DEF Without, UsableHarm
    <3> QED
      BY <2>2, <2>s, <3>1, <3>2, <3>3 DEF PlacedInv
  <2>3. CASE Dealing /\ info' = info /\ op' = op
    <3>1. Package' = Package /\ Target' = Target /\ ToSet(Package.links)' = ToSet(Package.links)
      BY <2>3, SamePackage
    <3>2. dirs[Target] = "full" /\ \A l \in ToSet(Package.links) : links[l] = Target
      BY <2>0, <2>3 DEF PlacedInv
    <3>3. CASE RemoveOldVersion
      <4>1. UNCHANGED <<dirs, links>> /\ pc' \in {"write", "rm_check"}
        BY <3>3 DEF RemoveOldVersion
      <4>2. pc' = "rm_check" => rm'.ver # Package.ver
        BY <1>1, <3>3 DEF RemoveOldVersion, Harm, Without, UsableHarm
      <4> QED
        BY <3>1, <3>2, <4>1, <4>2 DEF Back, RmPcs
    <3>4. CASE Back("write") /\ (RunCheck \/ RemoveVersion \/ RemoveName)
      <4>1. Without({"refused"})'
        BY <1>1 DEF Without, UsableHarm
      <4>2. RemovalGoesOn
        BY <3>4, <4>1, RemovalOk
      <4>3. rm.ver # Package.ver
        BY <2>0, <3>4 DEF PlacedInv
      <4>4. Target \in Dirs /\ ToSet(Package.links) \subseteq Links
        BY <3>4, PackageWritten DEF ToSet
      <4>5. dirs'[Target] = "full"
        <5>1. <<rm.name, rm.ver>> # Target
          BY <4>3 DEF Target
        <5>2. dirs' = dirs \/ dirs' = [dirs EXCEPT ![<<rm.name, rm.ver>>] = "absent"]
          BY <4>2 DEF RemovalGoesOn
        <5> QED
          BY <3>2, <4>4, <5>1, <5>2 DEF Typed, DataInv
      <4>6. \A l \in ToSet(Package.links) : links'[l] = Target
        BY <3>2, <4>2, <4>4 DEF RemovalGoesOn
      <4>7. Back("write")' => rm' = rm
        BY <3>4, RemovalSteps DEF Back, RmPcs, Ends
      <4> QED
        BY <3>1, <4>3, <4>5, <4>6, <4>7
    <3>5. CASE UNCHANGED <<disk, pc, rm>>
      BY <2>0, <2>3, <3>1, <3>2, <3>5 DEF PlacedInv, Back
    <3> QED
      BY <1>1, <2>1, <2>2, <3>3, <3>4, <3>5, DealSteps
  <2> QED
    BY <1>1, <2>1, <2>2, <2>3, DealSteps
<1> QED
  BY <1>1, LinkFullNext DEF PlacedInv, Dealing

\* A package of the bundle that is recorded for the HAP h and, if nothing
\* went wrong, in place.
Recorded(h, p) == \E e \in info.ents : e.hap = h /\ e.name = p.name /\ e.cur = p.ver
InPlace(p) == /\ dirs[<<p.name, p.ver>>] = "full"
              /\ \A l \in ToSet(p.links) : links[l] = <<p.name, p.ver>>
Usable(h, p) == /\ Without({"unnoticed"}) => Recorded(h, p)
                /\ Without(UsableHarm) => InPlace(p)
Installing == pc \in InstPcs \cup PkgPcs \/ Back("write")
\* The packages before the one being installed are usable, the last of a name.
DoneInv ==
  Installing => \A b, h, n : b = op.bundle /\ h = op.hap /\ n = Len(op.bundle) - Len(op.todo) =>
     \A i \in 1..n : LastOfName(b, i) => \A p : p = b[i] => Usable(h, p)

\* The record was lost in fclose and the installation goes on.
RecordLost ==
  /\ pc = "write" /\ "unnoticed" \in harm' /\ op' = [op EXCEPT !.todo = Tail(@)]
  /\ UNCHANGED <<dirs, links>>

\* The steps of an installation that goes on.
LEMMA InstallSteps ==
  ASSUME Typed, [Next]_vars, Installing', pc' \notin {"start", "prepare"}
  PROVE  /\ Installing /\ op'.bundle = op.bundle /\ op'.hap = op.hap
         /\ \/ UNCHANGED <<info, dirs, links>> /\ op'.todo = op.todo
            \/ SkipInstalled /\ op'.todo = op.todo
            \/ LinkInstalled /\ op'.todo = op.todo
            \/ LinkInstalled /\ ~Package.public /\ op.todo # <<>> /\ op' = [op EXCEPT !.todo = Tail(@)]
            \/ (HnpInstallForceCheck \/ HnpUnZip) /\ op'.todo = op.todo
            \/ RecordGrows
            \/ RecordLost
            \/ Back("write") /\ (RunCheck \/ RemoveVersion \/ RemoveName) /\ info' = info /\ op' = op
<1> USE DEF disk
<1>o. op \in Operations
  BY DEF Typed, CommandOk, CommandInv
<1>1. ~Ends
  BY DEF Ends, Installing, Back, InstPcs, PkgPcs, RmPcs
<1>2. \A ret : ~Finish(ret)
  BY <1>1, FinishEnds
<1>3. ASSUME NEW why, RollBack(why) PROVE FALSE
  <2>1. pc' = "rm_check" /\ rm'.back = "stop"
    BY <1>3 DEF RollBack
  <2> QED
    BY <2>1 DEF Installing, Back, InstPcs, PkgPcs, RmPcs
<1>4. CASE UNCHANGED vars \/ \E n \in Names : ProcessStart(n) \/ ProcessEnd(n)
  BY <1>4, Idling DEF Installing, Back
<1>5. ASSUME NEW h, NEW b, NEW f, NativeInstallHnp(h, b, f) PROVE FALSE
  BY <1>5 DEF NativeInstallHnp
<1>6. ASSUME NEW h, NativeUnInstallHnp(h) \/ CommandRefused(h) PROVE FALSE
  BY <1>6 DEF NativeUnInstallHnp, CommandRefused, Installing, Back, InstPcs, PkgPcs, RmPcs
<1>7. CASE HnpCmdInstall
  BY <1>7 DEF HnpCmdInstall
<1>8. CASE HnpInstallPre
  BY <1>2, <1>8 DEF HnpInstallPre, Installing, InstPcs
<1>9. CASE ArgumentsRefused \/ ReadConfigFails \/ PathIsExist \/ NothingToSign \/ Crash \/ DeletePrivate
  BY <1>2, <1>9 DEF ArgumentsRefused, ReadConfigFails, PathIsExist, NothingToSign, Stop, Crash, DeletePrivate, UnReturn
<1>10. CASE SkipInstalled
  <2>1. op' = [op EXCEPT !.skip = TRUE] /\ pc = "next"
    BY <1>2, <1>10 DEF SkipInstalled, Stop
  <2>2. op'.todo = op.todo /\ op'.bundle = op.bundle /\ op'.hap = op.hap
    BY <1>o, <2>1 DEF Operations
  <2> QED
    BY <1>10, <2>1, <2>2 DEF Installing, InstPcs
<1>11. CASE HnpInstallForceCheck \/ HnpUnZip
  <2>1. PICK found : /\ op' = [op EXCEPT !.skip = FALSE] \/ op' = [op EXCEPT !.map = @ \cup found]
                     /\ pc \in {"next", "unzip"}
    BY <1>11, UnZipCases DEF HnpInstallForceCheck
  <2>2. op'.todo = op.todo /\ op'.bundle = op.bundle /\ op'.hap = op.hap
    BY <1>o, <2>1 DEF Operations
  <2> QED
    BY <1>11, <2>1, <2>2 DEF Installing, InstPcs, PkgPcs
<1>12. CASE HnpUnZipFails
  BY <1>3, <1>12 DEF HnpUnZipFails
<1>13. CASE LinkInstalled
  <2>1. pc = "link" /\ (op' = op \/ (~Package.public /\ op' = [op EXCEPT !.todo = Tail(@)]))
    BY <1>3, <1>13 DEF LinkInstalled
  <2>2. op'.bundle = op.bundle /\ op'.hap = op.hap
    BY <1>o, <2>1 DEF Operations
  <2>3. op.todo # <<>>
    BY <2>1, PackageWritten DEF PkgPcs
  <2> QED
    BY <1>13, <2>1, <2>2, <2>3 DEF Installing, PkgPcs
<1>14. CASE RemoveOldVersion
  BY <1>14 DEF RemoveOldVersion, Installing, PkgPcs
<1>15. CASE RecordVersion
  <2>1. PICK o : WriteOk(o) /\ HnpHapJsonWrite(HnpInstallInfoJsonWrite(op.hap, Package.name, Package.ver), o)
                /\ pc' = "next" /\ op' = [op EXCEPT !.todo = Tail(@)] /\ UNCHANGED <<rm, un, last>>
                /\ Harm(LostIf(o))
    BY <1>2, <1>3, <1>15 DEF RecordVersion, WriteOk
  <2>2. RecordGrows \/ RecordLost
    <3>1. CASE o = "ok"
      <4>1. harm' = harm
        BY <2>1, <3>1 DEF Harm, LostIf
      <4> QED
        BY <1>15, <2>1, <3>1, <4>1 DEF RecordGrows, RecordVersion, HnpHapJsonWrite
    <3>2. CASE o = "silent"
      <4>1. "unnoticed" \in harm'
        BY <2>1, <3>2 DEF Harm, LostIf
      <4> QED
        BY <1>15, <2>1, <4>1 DEF RecordLost, RecordVersion
    <3> QED
      BY <2>1, <3>1, <3>2 DEF WriteOk
  <2>3. op'.bundle = op.bundle /\ op'.hap = op.hap /\ pc = "write"
    BY <1>o, <2>2 DEF Operations, RecordGrows, RecordLost
  <2> QED
    BY <2>2, <2>3 DEF Installing, PkgPcs
<1>16. CASE EnforceCodeSign
  BY <1>16 DEF EnforceCodeSign, CallUnInstall, Installing, Back, InstPcs, PkgPcs, RmPcs
<1>17. CASE BssInstall \/ StartUnInstall
  BY <1>2, <1>17 DEF BssInstall, StartUnInstall, CallUnInstall, Installing, Back, InstPcs, PkgPcs, RmPcs
<1>18. CASE RunCheck \/ RemoveRecord \/ RemoveVersion \/ RemoveName
  <2>1. op' = op /\ rm.back = "write" /\ pc \in RmPcs
    BY <1>1, <1>18, RemovalSteps DEF Installing, Back, InstPcs, PkgPcs, RmPcs
  <2>2. ~RemoveRecord
    BY <2>1, Stages DEF Typed, CommandOk, ControlInv, Back, RmPcs
  <2> QED
    BY <1>18, <2>1, <2>2 DEF RunCheck, RemoveVersion, RemoveName, Installing, Back
<1>19. CASE GetPackageInfo \/ DeletePackageInfo
  BY <1>2, <1>19 DEF GetPackageInfo, DeletePackageInfo, UnReturn, Installing, Back, InstPcs, PkgPcs, RmPcs
<1>20. CASE HnpNativeUnInstall
  BY <1>20, NativeCases DEF Installing, Back, InstPcs, PkgPcs, RmPcs
<1> QED
  BY <1>4, <1>5, <1>6, <1>7, <1>8, <1>9, <1>10, <1>11, <1>12, <1>13, <1>14, <1>15, <1>16, <1>17,
     <1>18, <1>19, <1>20
  DEF Next, Command, Install, UnInstall, Environment

\* Only a link that points nowhere, or to the same name, is replaced.
LEMMA LinkKept ==
  ASSUME Typed, NEW p, p.links \in Seq(Links), NEW gone \in SUBSET PartialLinks, NEW bad,
         NEW l \in Links, NEW d \in Dirs, links[l] = d, dirs[d] = "full", d[1] # p.name,
         HnpGenerateSoftLink(LinksMade(p, gone, bad))
  PROVE  links'[l] = d
<1>1. d # <<>>
  <2>1. d = <<d[1], d[2]>>
    BY DirPair
  <2>2. \A a, b : <<a, b>> # <<>>
    OBVIOUS
  <2> QED
    BY <2>1, <2>2, Zenon
<1>2. l \notin gone
  BY DEF PartialLinks
<1>3. ~CheckSymlink(p.name, l, gone)
  BY <1>1, <1>2 DEF CheckSymlink
<1>4. l \notin LinksMade(p, gone, bad)
  <2> SUFFICES ASSUME l \in LinksMade(p, gone, bad) PROVE FALSE
    OBVIOUS
  <2>1. PICK i \in DOMAIN p.links : l = p.links[i] /\ \A j \in 1..i : CheckSymlink(p.name, p.links[j], gone)
    BY DEF LinksMade
  <2>2. i \in 1..i
    BY <2>1
  <2> QED
    BY <1>3, <2>1, <2>2
<1> QED
  BY <1>4 DEF HnpGenerateSoftLink

\* A package stays usable while others of the bundle are installed.
LEMMA UsableKept ==
  ASSUME Typed, [Next]_vars, Installing', pc' \notin {"start", "prepare"},
         NEW h, NEW p \in Packages, Usable(h, p),
         op.todo # <<>> /\ Package.public => Package.name # p.name
  PROVE  Usable(h, p)'
<1> USE DEF disk
<1>0. /\ Without(UsableHarm)' => Without(UsableHarm)
      /\ Without({"unnoticed"})' => Without({"unnoticed"})
  BY HarmGrows DEF Without
<1>l. ASSUME RecordLost PROVE Usable(h, p)'
  BY <1>l DEF RecordLost, Usable, Without, UsableHarm
<1>p. p.name \in Names /\ p.ver \in Versions /\ ToSet(p.links) \subseteq Links
  BY DEF Packages, ToSet
<1>d. PICK d \in Dirs : d = <<p.name, p.ver>> /\ d[1] = p.name /\ d[2] = p.ver
  <2>1. <<p.name, p.ver>> \in Dirs /\ <<p.name, p.ver>>[1] = p.name /\ <<p.name, p.ver>>[2] = p.ver
    BY <1>p DEF Dirs
  <2> QED
    BY <2>1
<1>1. ASSUME ~RecordLost, Without({"unnoticed"})' PROVE Recorded(h, p)'
  <2>0. Recorded(h, p)
    BY <1>0, <1>1 DEF Usable
  <2>1. CASE info' = info
    BY <2>0, <2>1 DEF Recorded
  <2>2. CASE RecordGrows
    <3>1. info'.ents = HnpInstallInfoJsonWrite(op.hap, Package.name, Package.ver) /\ pc = "write"
      BY <2>2 DEF RecordGrows
    <3>2. op.hap \in Haps /\ Package.name \in Names /\ Package.ver \in Versions /\ op.todo # <<>> /\ Package.public
      BY <3>1, PackageWritten DEF PkgPcs, Typed, CommandOk, ControlInv
    <3>3. PICK e \in info.ents : e.hap = h /\ e.name = p.name /\ e.cur = p.ver
      BY <2>0 DEF Recorded
    <3>4. PICK f \in info'.ents : /\ f.hap = e.hap /\ f.name = e.name
                                 /\ f.cur = IF e.name = Package.name THEN Package.ver ELSE e.cur
      BY <3>1, <3>2, <3>3, WrittenEntries DEF Typed
    <3> QED
      BY <3>2, <3>3, <3>4 DEF Recorded
  <2> QED
    BY <1>1, <2>1, <2>2, InstallSteps DEF SkipInstalled, LinkInstalled, HnpInstallForceCheck, HnpUnZip
<1>2. ASSUME Without(UsableHarm)' PROVE InPlace(p)'
  <2>1. dirs[d] = "full" /\ \A l \in ToSet(p.links) : links[l] = d
    BY <1>0, <1>2, <1>d DEF Usable, InPlace
  <2>q. ASSUME dirs'[d] = "full", \A l \in ToSet(p.links) : links'[l] = d PROVE InPlace(p)'
    BY <2>q, <1>d DEF InPlace
  <2>t. op.todo # <<>> => Target \in Dirs /\ Package.links \in Seq(Links)
    BY PackageType DEF Typed, CommandOk, CommandInv
  <2>2. CASE UNCHANGED <<dirs, links>>
    BY <2>1, <2>2, <2>q
  <2>3. CASE RecordGrows
    BY <2>2, <2>3 DEF RecordGrows
  <2>4. CASE SkipInstalled
    <3>1. PICK gone, bad : gone \in SUBSET PartialLinks /\ HnpGenerateSoftLink(LinksMade(Package, gone, bad))
      BY <2>4 DEF SkipInstalled
    <3>2. dirs' = dirs /\ Package.public /\ op.todo # <<>>
      BY <2>4 DEF SkipInstalled
    <3>3. \A l \in ToSet(p.links) : links'[l] = d
      BY <1>p, <1>d, <2>1, <2>t, <3>1, <3>2, LinkKept
    <3> QED
      BY <2>1, <2>q, <3>2, <3>3
  <2>5. CASE LinkInstalled
    <3>1. dirs' = dirs /\ op.todo # <<>> /\ pc = "link"
      BY <2>5, Stages, PackageWritten DEF LinkInstalled, PkgPcs
    <3>2. CASE Package.public
      <4>1. PICK gone, bad : gone \in SUBSET PartialLinks /\ HnpGenerateSoftLink(LinksMade(Package, gone, bad))
        BY <2>5, <3>2 DEF LinkInstalled
      <4>2. \A l \in ToSet(p.links) : links'[l] = d
        BY <1>p, <1>d, <2>1, <2>t, <3>1, <3>2, <4>1, LinkKept
      <4> QED
        BY <2>1, <2>q, <3>1, <4>2
    <3>3. CASE ~Package.public
      <4>1. HnpGenerateSoftLink({})
        BY <2>5, <3>3 DEF LinkInstalled
      <4>2. \A l \in ToSet(p.links) : links'[l] = d
        BY <1>p, <2>1, <4>1 DEF HnpGenerateSoftLink
      <4> QED
        BY <2>1, <2>q, <3>1, <4>2
    <3> QED
      BY <3>2, <3>3
  <2>6. CASE HnpInstallForceCheck \/ HnpUnZip
    <3>1. links' = links /\ (dirs' = dirs \/ (Package.public /\ \E x : dirs' = [dirs EXCEPT ![Target] = x]))
      BY <2>6 DEF HnpInstallForceCheck, HnpUnZip, HnpCreateFolder
    <3>2. op.todo # <<>>
      BY <2>6, Stages, PackageWritten DEF PkgPcs
    <3>3. Package.public => d # Target
      BY <1>d, <3>2 DEF Target
    <3>4. dirs'[d] = "full"
      BY <2>1, <3>1, <3>3 DEF Typed, DataInv
    <3> QED
      BY <2>1, <2>q, <3>1, <3>4
  <2>7. CASE Back("write") /\ (RunCheck \/ RemoveVersion \/ RemoveName)
    <3>1. Without({"refused"})'
      BY <1>2 DEF Without, UsableHarm
    <3>2. RemovalGoesOn
      BY <2>7, <3>1, RemovalOk
    <3>3. op.todo # <<>> /\ Package.public /\ rm.name = Package.name
      BY <2>7 DEF Typed, CommandOk, ControlInv
    <3>4. <<rm.name, rm.ver>> # d
      BY <1>d, <3>3
    <3>5. dirs' = dirs \/ dirs' = [dirs EXCEPT ![<<rm.name, rm.ver>>] = "absent"]
      BY <3>2 DEF RemovalGoesOn
    <3>6. dirs'[d] = "full"
      BY <2>1, <3>4, <3>5 DEF Typed, DataInv
    <3>7. \A l \in ToSet(p.links) : links'[l] = d
      BY <1>p, <2>1, <3>2 DEF RemovalGoesOn
    <3> QED
      BY <2>q, <3>6, <3>7
  <2>8. CASE RecordLost
    BY <2>2, <2>8 DEF RecordLost
  <2> QED
    BY <2>2, <2>3, <2>4, <2>5, <2>6, <2>7, <2>8, InstallSteps
<1> QED
  BY <1>l, <1>1, <1>2 DEF Usable

\* No package is being installed.
LEMMA DoneInit == Init => DoneInv
  BY DEF Init, DoneInv, Installing, Back, InstPcs, PkgPcs, RmPcs

\* The lengths of a bundle and of what is still to do of it.
LEMMA Lengths ==
  ASSUME Typed
  PROVE  /\ op.bundle \in Seq(Packages) /\ op.todo \in Seq(Packages)
         /\ Len(op.bundle) \in Nat /\ Len(op.todo) \in Nat
         /\ Len(op.todo) <= Len(op.bundle)
         /\ op.todo # <<>> => Len(op.todo) >= 1
<1>1. op \in Operations /\ TodoInv
  BY DEF Typed, CommandOk, CommandInv
<1>2. op.todo \in Seq(Packages) /\ op.bundle \in Bundles \cup {<<>>}
  BY <1>1 DEF Operations
<1>3. <<>> \in Seq(Packages)
  OBVIOUS
<1>4. op.bundle \in Seq(Packages)
  BY <1>2, <1>3, HnpAssumption
<1> QED
  BY <1>1, <1>2, <1>4 DEF TodoInv

\* The packages done, and the one being done.
LEMMA Indices ==
  \A i, m, k \in Nat : /\ i \in 1..(m - k) => m - k + 1 > i /\ 1 <= i /\ i <= m
                       /\ 1 <= i /\ i <= m - (k - 1) => i \in 1..(m - k) \/ i = m - k + 1
  OBVIOUS

\* The package that is recorded joins the usable ones.
LEMMA DoneNext == Typed /\ PlacedInv /\ DoneInv /\ [Next]_vars => DoneInv'
<1> SUFFICES ASSUME Typed, PlacedInv, DoneInv, [Next]_vars, Installing',
                    NEW b, NEW h, NEW n, b = op'.bundle, h = op'.hap, n = Len(op'.bundle) - Len(op'.todo),
                    NEW i \in 1..n, LastOfName(b, i), NEW q, q = b[i]
             PROVE  Usable(h, q)'
  BY DEF DoneInv, LastOfName
<1> USE DEF disk
<1>i. Len(op'.bundle) \in Nat /\ Len(op'.todo) \in Nat
  <2>1. Typed'
    BY TypedNext
  <2>2. op'.todo \in Seq(Packages) /\ op'.bundle \in Bundles \cup {<<>>}
    BY <2>1 DEF Typed, CommandOk, CommandInv, Operations
  <2>3. <<>> \in Seq(Packages)
    OBVIOUS
  <2>4. op'.bundle \in Seq(Packages)
    BY <2>2, <2>3, HnpAssumption
  <2> QED
    BY <2>2, <2>4
<1>n. n \in Int
  BY <1>i
<1>j. i \in Nat /\ 1 <= i /\ i <= n
  BY <1>n
<1>1. CASE pc' \in {"start", "prepare"}
  <2>1. Typed'
    BY TypedNext
  <2>2. op'.todo = op'.bundle
    BY <1>1, <2>1 DEF Typed, CommandOk, ControlInv
  <2>3. Len(op'.bundle) \in Nat
    BY <1>i
  <2>4. n = 0
    BY <2>2, <2>3
  <2> QED
    BY <2>4, <1>j
<1>2. CASE pc' \notin {"start", "prepare"}
  <2>1. Installing /\ b = op.bundle /\ h = op.hap
    BY <1>2, InstallSteps
  <2>2. PICK k \in Nat, m \in Nat : k = Len(op.todo) /\ m = Len(op.bundle) /\ k <= m /\ (op.todo # <<>> => k >= 1)
    BY Lengths
  <2>3. b \in Seq(Packages)
    BY <2>1, Lengths
  <2>p. op.todo # <<>> => m - k + 1 \in DOMAIN b /\ Package = b[m - k + 1]
    BY <2>1, <2>2, PackageCarried
  <2>4. ASSUME i \in 1..(m - k) PROVE Usable(h, q)'
    <3>1. i \in DOMAIN b /\ q \in Packages
      <4>2. 1 <= i /\ i <= m
        BY <1>j, <2>4, Indices
      <4>1. 1 <= i /\ i <= m /\ Len(b) = m
        BY <2>1, <2>2, <4>2
      <4> QED
        BY <1>j, <2>3, <4>1
    <3>2. Usable(h, q)
      BY <2>1, <2>2, <2>4 DEF DoneInv
    <3>3. ASSUME op.todo # <<>>, Package.public PROVE Package.name # q.name
      <4>2. m - k + 1 > i
        BY <1>j, <2>4, Indices
      <4>1. m - k + 1 \in DOMAIN b /\ Package = b[m - k + 1] /\ m - k + 1 > i
        BY <2>p, <3>3, <4>2
      <4> QED
        BY <3>3, <4>1 DEF LastOfName
    <3> QED
      BY <1>2, <3>1, <3>2, <3>3, UsableKept
  <2>5. ASSUME op.todo # <<>>, op'.todo = Tail(op.todo)
        PROVE  i \in 1..(m - k) \/ (i = m - k + 1 /\ q = Package)
    <3>1. Len(Tail(op.todo)) = k - 1
      BY <2>2, <2>5, Lengths
    <3>2. n = m - (k - 1)
      BY <2>1, <2>2, <2>5, <3>1
    <3>3. i \in 1..(m - k) \/ i = m - k + 1
      BY <1>j, <3>2, Indices
    <3>4. i = m - k + 1 => q = Package
      BY <2>5, <2>p
    <3> QED
      BY <3>3, <3>4
  <2>o. op \in Operations
    BY DEF Typed, CommandOk, CommandInv
  <2>6. CASE op'.todo = op.todo
    <3>1. n = m - k
      BY <2>1, <2>2, <2>6
    <3> QED
      BY <2>4, <3>1
  <2>7. CASE LinkInstalled /\ ~Package.public /\ op.todo # <<>> /\ op' = [op EXCEPT !.todo = Tail(@)]
    <3>1. op'.todo = Tail(op.todo)
      BY <2>o, <2>7 DEF Operations
    <3>2. i # m - k + 1
      BY <2>5, <2>7, <3>1 DEF LastOfName
    <3> QED
      BY <2>4, <2>5, <2>7, <3>1, <3>2
  <2>8. CASE RecordGrows
    <3>1. /\ info'.ents = HnpInstallInfoJsonWrite(op.hap, Package.name, Package.ver) /\ pc = "write"
          /\ op' = [op EXCEPT !.todo = Tail(@)]
          /\ UNCHANGED <<dirs, links>>
      BY <2>8 DEF RecordGrows
    <3>2. op.hap \in Haps /\ Package.name \in Names /\ Package.ver \in Versions /\ op.todo # <<>>
      BY <3>1, PackageWritten DEF PkgPcs
    <3>3. op'.todo = Tail(op.todo)
      BY <2>o, <3>1 DEF Operations
    <3>4. ASSUME i = m - k + 1, q = Package PROVE Usable(h, q)'
      <4>0. PICK p : p = Package /\ p = q
        BY <3>4
      <4>1. Recorded(h, p)'
        BY <2>1, <3>1, <3>2, <4>0, WrittenEntries DEF Recorded, Typed
      <4>2. ASSUME Without(UsableHarm)' PROVE InPlace(p)'
        <5>1. Without(UsableHarm)
          BY <4>2, HarmGrows DEF Without
        <5>2. Dealing
          BY <3>1 DEF Dealing
        <5> QED
          BY <3>1, <4>0, <5>1, <5>2 DEF PlacedInv, InPlace, Target
      <4>3. Usable(h, p)'
        BY <4>1, <4>2 DEF Usable
      <4> QED
        BY <4>0, <4>3
    <3> QED
      BY <2>4, <2>5, <3>2, <3>3, <3>4
  <2>9. CASE RecordLost
    BY <2>9 DEF RecordLost, Usable, Without, UsableHarm
  <2> QED
    BY <1>2, <2>6, <2>7, <2>8, <2>9, InstallSteps
<1> QED
  BY <1>1, <1>2

\* The steps after which an installation has reported success.
LEMMA OkEnds ==
  ASSUME Typed, [Next]_vars, pc' = "idle", last'.kind = "install", last'.ret = "ok"
  PROVE  /\ UNCHANGED <<info, dirs, links, harm>>
         /\ \/ pc = "idle" /\ last' = last
            \/ /\ pc \in {"next", "bss"} /\ op.todo = <<>>
               /\ last'.hap = op.hap /\ last'.bundle = op.bundle
<1> USE DEF disk
<1>1. CASE UNCHANGED vars \/ \E n \in Names : ProcessStart(n) \/ ProcessEnd(n)
  BY <1>1, Idling
<1>2. ASSUME NEW ret, Finish(ret) PROVE ret = "ok" /\ op.kind = "install" /\ last'.hap = op.hap /\ last'.bundle = op.bundle
  BY <1>2 DEF Finish
<1>3. ASSUME NEW h, NEW b, NEW f, NativeInstallHnp(h, b, f) PROVE FALSE
  BY <1>3 DEF NativeInstallHnp
<1>4. ASSUME NEW h, NativeUnInstallHnp(h) \/ CommandRefused(h) PROVE FALSE
  BY <1>4 DEF NativeUnInstallHnp, CommandRefused, NoResult
<1>5. CASE HnpCmdInstall \/ ArgumentsRefused \/ ReadConfigFails \/ PathIsExist \/ SkipInstalled \/ HnpInstallForceCheck
           \/ HnpUnZip \/ HnpUnZipFails \/ RemoveOldVersion \/ Crash
  BY <1>2, <1>5 DEF HnpCmdInstall, ArgumentsRefused, ReadConfigFails, PathIsExist, SkipInstalled, HnpInstallForceCheck,
       HnpUnZip, HnpUnZipFails, RemoveOldVersion, Crash, Stop, RollBack
<1>6. CASE HnpInstallPre
  BY <1>2, <1>6 DEF HnpInstallPre
<1>7. CASE LinkInstalled
  BY <1>7 DEF LinkInstalled, RollBack
<1>8. CASE RecordVersion
  BY <1>2, <1>8 DEF RecordVersion, RollBack
<1>9. CASE NothingToSign
  BY <1>2, <1>9 DEF NothingToSign
<1>10. CASE EnforceCodeSign
  BY <1>10 DEF EnforceCodeSign, CallUnInstall
<1>11. CASE BssInstall
  <2>1. pc = "bss" /\ UNCHANGED <<info, dirs, links, harm>>
    BY <1>11 DEF BssInstall
  <2>2. Finish("ok")
    BY <1>11 DEF BssInstall, CallUnInstall
  <2> QED
    BY <1>2, <2>1, <2>2 DEF Typed, CommandOk, ControlInv
<1>u. un.caller \in {"none", "cmd", "sign", "bss"} /\ op.ret \in {"ok", "unzip", "symlink", "json"}
  BY DEF Typed, CommandOk, CommandInv, Operations
<1>12. CASE RunCheck \/ RemoveRecord \/ RemoveVersion \/ RemoveName
  <2>1. pc \in RmPcs
    BY <1>12, RemovalSteps
  <2>2. \E ok, why : Return(ok, why)
    BY <1>12 DEF RunCheck, RemoveRecord, RemoveVersion, RemoveName, Refused, Returns
  <2>3. rm.back \in {"write", "stop", "un_next"}
    BY <2>1 DEF Typed, CommandOk, CommandInv, ControlInv, Removals
  <2>4. \/ rm.back = "stop" /\ Finish(op.ret)
        \/ rm.back = "un_next" /\ Finish(IF un.caller = "cmd" THEN "remove" ELSE un.caller)
    BY <2>2, <2>3 DEF Return
  <2>5. CASE rm.back = "stop" /\ Finish(op.ret)
    BY <1>2, <2>1, <2>5 DEF Typed, CommandOk, ControlInv, Back
  <2>6. CASE rm.back = "un_next" /\ Finish(IF un.caller = "cmd" THEN "remove" ELSE un.caller)
    BY <1>2, <1>u, <2>6
  <2> QED
    BY <2>4, <2>5, <2>6
<1>13. CASE StartUnInstall \/ HnpNativeUnInstall
  <2>1. ~StartUnInstall
    BY DEF StartUnInstall
  <2> QED
    BY <1>13, <2>1, NativeCases
<1>14. CASE GetPackageInfo
  BY <1>2, <1>u, <1>14 DEF GetPackageInfo, UnReturn
<1>15. CASE DeletePackageInfo
  BY <1>2, <1>u, <1>15 DEF DeletePackageInfo, UnReturn
<1>16. CASE DeletePrivate
  <2>1. un.caller # "cmd"
    BY <1>2, <1>16 DEF DeletePrivate, UnReturn, Typed, CommandOk, ControlInv, UnPcs
  <2> QED
    BY <1>2, <1>u, <1>16, <2>1 DEF DeletePrivate, UnReturn
<1> QED
  BY <1>1, <1>3, <1>4, <1>5, <1>6, <1>7, <1>8, <1>9, <1>10, <1>11, <1>12, <1>13, <1>14, <1>15, <1>16
  DEF Next, Command, Install, UnInstall, Environment

\* No command has reported a result.
LEMMA UsableInit == Init => InstallOkMeansUsable
  BY DEF Init, InstallOkMeansUsable, NoResult

\* The last package done, the command reports success.
LEMMA UsableNext == Typed /\ DoneInv /\ InstallOkMeansUsable /\ [Next]_vars => InstallOkMeansUsable'
<1> SUFFICES ASSUME Typed, DoneInv, InstallOkMeansUsable, [Next]_vars,
                    pc' = "idle", last'.kind = "install", last'.ret = "ok",
                    NEW b, NEW h, b = last'.bundle, h = last'.hap,
                    NEW i \in DOMAIN b, LastOfName(b, i),
                    NEW p, p = b[i]
             PROVE  /\ harm' \cap {"unnoticed"} = {} =>
                         \E e \in info'.ents : e.hap = h /\ e.name = p.name /\ e.cur = p.ver
                    /\ harm' \cap UsableHarm = {} =>
                         /\ dirs'[<<p.name, p.ver>>] = "full"
                         /\ \A l \in ToSet(p.links) : links'[l] = <<p.name, p.ver>>
  BY DEF InstallOkMeansUsable, LastOfName, Without, UsableHarm
<1>1. UNCHANGED <<info, dirs, links, harm>>
  BY OkEnds
<1>2. CASE pc = "idle" /\ last' = last
  BY <1>1, <1>2 DEF InstallOkMeansUsable, Without, UsableHarm
<1>3. CASE pc \in {"next", "bss"} /\ op.todo = <<>> /\ h = op.hap /\ b = op.bundle
  <2>1. b \in Seq(Packages) /\ Len(op.todo) = 0
    BY <1>3, Lengths
  <2>2. i \in 1..(Len(op.bundle) - Len(op.todo))
    BY <1>3, <2>1
  <2>3. Usable(h, p)
    BY <1>3, <2>2 DEF DoneInv, Installing, InstPcs
  <2> QED
    BY <1>1, <2>3 DEF Usable, Recorded, InPlace, Without
<1> QED
  BY <1>2, <1>3, OkEnds

\* Unless a full disk went unnoticed (HnpHapJsonWrite, HnpUnZipForFile), an
\* installation that reports success has recorded every public package of its
\* bundle (the last one of a name) for the HAP and, if no crash, refused
\* removal or removal of the version being installed came before either, has
\* it complete on disk with its links (HnpReadAndInstall, HnpInstallPre).
THEOREM SuccessMeansUsable == Spec => []InstallOkMeansUsable
<1> DEFINE Inv == Typed /\ PartialInv /\ PlacedInv /\ DoneInv /\ InstallOkMeansUsable
<1>1. Init => Inv
  BY TypedInit, PartialInit, PlacedInit, DoneInit, UsableInit
<1>2. Inv /\ [Next]_vars => Inv'
  BY TypedNext, PartialNext, PlacedNext, DoneNext, UsableNext
<1> QED
  BY <1>1, <1>2, PTL DEF Spec

---------------------------------------------------------------------------
(* Code signatures                                                         *)

\* d is a version of a package with binaries whose name CanRecovery guards.
ElfLinked(d) ==
  \E p \in Carried : p.public /\ p.elf /\ d = <<p.name, p.ver>> /\ p.name \in LinkedNames
InMap(d) == <<TRUE, d>> \in op.map
Own(d) == \E e \in info.ents : e.hap = op.hap /\ NamesDir(e, d)

\* d was unpacked by this command and is recorded for its HAP.
Unsigned(d) ==
  /\ pc \in {"next", "un_start", "un_get"} \cup PkgPcs \/ Back("write")
  /\ InMap(d) /\ Own(d)
\* d is the version being installed, or its installation is being undone.
Placing(d) ==
  /\ pc \in PkgPcs \/ Back("write") \/ (Back("stop") /\ pc # "rm_name")
  /\ Package.public /\ d = Target
  /\ InMap(d) \/ pc = "unzip" \/ Back("stop")
\* The batch is about to stop with d unpacked.
Stopping(d) == Back("stop") /\ InMap(d) /\ (pc = "rm_name" => d # Target)
Awaiting(d) == Unsigned(d) \/ Placing(d) \/ Stopping(d) \/ (Unlisting /\ Pending(d))

SignHarm == {"crash", "refused", "batch", "unnoticed"}
SignInv ==
  Without(SignHarm) =>
    \A d \in Dirs : ElfLinked(d) /\ dirs[d] # "absent" /\ d \notin signed => Awaiting(d)

\* What earlier releases left is signed.
LEMMA SignInit == Init => SignInv
<1> SUFFICES ASSUME Init PROVE SignInv
  OBVIOUS
<1>1. PICK s \in Legacy : /\ signed = s.dirs
          /\ dirs = [d \in Dirs |-> IF d \in s.dirs THEN "full" ELSE "absent"]
  BY DEF Init
<1> QED
  BY <1>1 DEF SignInv

\* At these stages nothing waits for a signature.
LEMMA NothingAwaits ==
  ASSUME pc \in {"idle", "start", "prepare", "bss", "un_priv"}, NEW d
  PROVE  ~Awaiting(d)
  BY DEF Awaiting, Unsigned, Placing, Stopping, Unlisting, Back, RmPcs, PkgPcs

\* The stages at which a version waits because it was unpacked before.
LEMMA AwaitingStage ==
  ASSUME NEW d, Awaiting(d)
  PROVE  /\ pc \in {"next", "un_start", "un_get", "link", "deal"} => InMap(d)
         /\ pc \in {"next", "un_start", "un_get"} => Own(d)
         /\ pc \in {"next", "un_start", "un_get"} \cup PkgPcs => Unsigned(d) \/ Placing(d)
         /\ pc \in {"link", "deal", "write"} => InMap(d)
  BY DEF Awaiting, Unsigned, Placing, Stopping, Unlisting, Back, RmPcs, PkgPcs

\* The record keeps naming what the HAP has on disk.
LEMMA OwnRecorded ==
  ASSUME Typed, SameCurrent, OneHap, GoneInv, Without({"refused"}), RecordGrows,
         NEW d \in Dirs, d[1] \in LinkedNames, dirs[d] # "absent",
         Own(d) \/ d = Target
  PROVE  Own(d)'
<1>1. info'.ents = HnpInstallInfoJsonWrite(op.hap, Package.name, Package.ver) /\ pc = "write"
  BY DEF RecordGrows
<1>2. op.hap \in Haps /\ Package.name \in Names /\ Package.ver \in Versions
  BY PackageWritten DEF RecordGrows, PkgPcs
<1>3. DataInv /\ op'.hap = op.hap
  BY DEF Typed, RecordGrows, CommandOk, CommandInv, Operations
<1>4. CASE d = Target
  <2>1. PICK f \in info'.ents : f.hap = op.hap /\ f.name = Package.name /\ f.cur = Package.ver
    BY <1>1, <1>2, <1>3, WrittenEntries
  <2> QED
    BY <1>3, <1>4, <2>1 DEF Own, NamesDir, Target
<1>5. ASSUME NEW e \in info.ents, e.hap = op.hap, NamesDir(e, d) PROVE Own(d)'
  <2>1. PICK f \in info'.ents : /\ f.hap = e.hap /\ f.name = e.name /\ f.inst = e.inst
                               /\ f.cur = IF e.name = Package.name THEN Package.ver ELSE e.cur
    BY <1>1, <1>2, <1>3, WrittenEntries
  <2>2. CASE d[2] = e.inst \/ e.name # Package.name \/ e.cur = Package.ver
    BY <1>3, <1>5, <2>1, <2>2 DEF Own, NamesDir
  <2>3. CASE d[2] = e.cur /\ e.name = Package.name /\ e.cur # Package.ver
    <3>1. e \in OfName(Package.name) /\ d = <<e.name, e.cur>>
      BY <1>5, <2>3, DirPair DEF OfName, NamesDir
    <3>2. PICK g \in OfName(Package.name) : g.cur = g.inst
      BY <1>1, <2>3, <3>1 DEF GoneInv
    <3>3. g \in info.ents /\ g.name = Package.name /\ g.inst = d[2]
      BY <1>5, <2>3, <3>1, <3>2 DEF OfName, SameCurrent
    <3>4. g.hap = op.hap
      BY <1>5, <2>3, <3>3 DEF OneHap, NamesDir
    <3>5. PICK k \in info'.ents : k.hap = g.hap /\ k.name = g.name /\ k.inst = g.inst
      BY <1>1, <1>2, <1>3, <3>3, WrittenEntries
    <3> QED
      BY <1>3, <1>5, <2>3, <3>3, <3>4, <3>5 DEF Own, NamesDir
  <2> QED
    BY <1>5, <2>2, <2>3 DEF NamesDir
<1> QED
  BY <1>4, <1>5 DEF Own

\* Of one public version either every package has binaries or none has.
LEMMA ElfPackage ==
  ASSUME Typed, op.todo # <<>>, Package.public, ElfLinked(Target)
  PROVE  Package.elf
<1>1. Package \in Carried /\ Package.name \in Names
  BY PackageCarried, PackageType DEF Typed, CommandOk, CommandInv
<1>2. PICK p \in Carried : p.public /\ p.elf /\ Target = <<p.name, p.ver>>
  BY DEF ElfLinked
<1>3. p.name = Package.name /\ p.ver = Package.ver
  BY <1>2 DEF Target
<1>4. PICK b \in Bundles : \E i \in DOMAIN b : p = b[i]
  BY <1>2 DEF Carried, ToSet
<1>5. PICK c \in Bundles : \E j \in DOMAIN c : Package = c[j]
  BY <1>1 DEF Carried, ToSet
<1> QED
  BY <1>2, <1>3, <1>4, <1>5, HnpAssumption

\* HnpUnInstallPublicHnp on behalf of any of its callers.
LEMMA AwaitingRemoval ==
  ASSUME Typed, Without(SignHarm)', pc \in RmPcs, RemovalGoesOn,
         NEW d \in Dirs, Awaiting(d), dirs'[d] # "absent"
  PROVE  Awaiting(d)'
<1>0. rm.back \in {"write", "stop", "un_next"} /\ <<rm.name, rm.ver>> \in Dirs
  BY DEF Typed, CommandOk, ControlInv, CommandInv, Removals, Dirs
<1>p. pc \notin PkgPcs \cup {"next", "un_start", "un_get", "unzip", "un_next"}
  BY DEF RmPcs, PkgPcs
<1>1. CASE rm.back = "un_next"
  <2>1. Unlisting /\ Pending(d)
    BY <1>1, <1>p DEF Awaiting, Unsigned, Placing, Stopping, Back
  <2>2. Unlisting' /\ op' = op /\ un' = un
    BY <1>1 DEF RemovalGoesOn, Unlisting, Back, RmPcs, Return
  <2>3. CASE \E x \in un.list : ToRemove(x, d)
    BY <2>2, <2>3, Zenon DEF Awaiting, Pending
  <2>4. CASE Back("un_next") /\ pc # "rm_name" /\ d = <<rm.name, rm.ver>>
    <3>1. pc # "rm_dir"
      BY <1>0, <2>4 DEF RemovalGoesOn, Typed, DataInv
    <3>2. pc' \in {"rm_dir", "rm_json"} /\ rm' = rm
      BY <2>4, <3>1 DEF RemovalGoesOn, RmPcs
    <3> QED
      BY <2>2, <2>4, <3>2 DEF Awaiting, Pending, Back, RmPcs
  <2> QED
    BY <2>1, <2>3, <2>4, Zenon DEF Pending
<1>2. CASE rm.back = "write"
  <2>1. Unsigned(d) \/ Placing(d)
    BY <1>2, <1>p DEF Awaiting, Stopping, Unlisting, Back
  <2>2. op' = op /\ info' = info /\ (pc' = "write" \/ Back("write")')
    <3>1. pc # "rm_json"
      BY <1>2 DEF Typed, CommandOk, ControlInv, Back
    <3> QED
      BY <1>2, <3>1 DEF RemovalGoesOn, Back, RmPcs, Return
  <2>3. Unsigned(d) => Unsigned(d)'
    BY <2>2 DEF Unsigned, InMap, Own, PkgPcs
  <2>4. Placing(d) => InMap(d)
    BY <1>2, <1>p DEF Placing, Back
  <2>5. Placing(d) => Placing(d)'
    BY <2>2, <2>4, SamePackage DEF Placing, InMap, PkgPcs
  <2> QED
    BY <2>1, <2>3, <2>5 DEF Awaiting
<1>3. CASE rm.back = "stop"
  <2>1. Placing(d) \/ Stopping(d)
    BY <1>3, <1>p DEF Awaiting, Unsigned, Unlisting, Back
  <2>2. Back("stop") /\ <<rm.name, rm.ver>> = Target
    BY <1>3 DEF Back, Typed, CommandOk, ControlInv, Target
  <2>3. CASE pc \in {"rm_check", "rm_json"}
    <3>1. pc' \in {"rm_json", "rm_dir"} /\ op' = op /\ rm' = rm
      BY <2>3 DEF RemovalGoesOn
    <3>2. Placing(d) => Placing(d)'
      BY <2>2, <3>1, SamePackage DEF Placing, Back, RmPcs
    <3>3. Stopping(d) => Stopping(d)'
      BY <2>2, <3>1 DEF Stopping, InMap, Back, RmPcs
    <3> QED
      BY <2>1, <3>2, <3>3 DEF Awaiting
  <2>4. CASE pc = "rm_dir"
    <3>1. pc' = "rm_name" /\ op' = op /\ rm' = rm /\ dirs' = [dirs EXCEPT ![<<rm.name, rm.ver>>] = "absent"]
      BY <2>4 DEF RemovalGoesOn
    <3>2. d # Target
      BY <1>0, <2>2, <3>1 DEF Typed, DataInv
    <3>3. Stopping(d)
      BY <2>1, <3>2 DEF Placing
    <3>4. Target' = Target
      BY <3>1, SamePackage
    <3>5. Stopping(d)'
      BY <2>2, <3>1, <3>2, <3>3, <3>4 DEF Stopping, InMap, Back, RmPcs
    <3> QED
      BY <3>5 DEF Awaiting
  <2>5. CASE pc = "rm_name"
    <3>1. Return(TRUE, {})
      BY <2>5 DEF RemovalGoesOn
    <3>2. InMap(d) /\ d # Target
      BY <2>1, <2>5, <1>3, <1>p DEF Placing, Stopping, Back
    <3>3. <<TRUE, d>> \in op.map \ {<<Package.public, Target>>}
      BY <3>2 DEF InMap
    <3>4. "batch" \in harm'
      BY <1>3, <3>1, <3>3 DEF Return, Harm
    <3> QED
      BY <3>4 DEF Without, SignHarm
  <2> QED
    BY <2>3, <2>4, <2>5 DEF RemovalGoesOn
<1> QED
  BY <1>0, <1>1, <1>2, <1>3

\* What was unpacked is signed, removed, or waits for one of the two.
LEMMA SignNext ==
  Typed /\ SameCurrent /\ OneHap /\ GoneInv /\ SignInv /\ [Next]_vars => SignInv'
<1> SUFFICES ASSUME Typed, SameCurrent, OneHap, GoneInv, SignInv, [Next]_vars, Without(SignHarm)',
                    NEW d \in Dirs, ElfLinked(d), dirs'[d] # "absent", d \notin signed'
             PROVE  Awaiting(d)'
  BY DEF SignInv, ElfLinked
<1> USE DEF disk
<1>0. Without(SignHarm)
  BY HarmGrows DEF Without
<1>w. \A x \in SignHarm : x \notin harm /\ x \notin harm'
  BY <1>0 DEF Without
<1>a. dirs[d] # "absent" /\ d \notin signed => Awaiting(d)
  BY <1>0 DEF SignInv
<1>o. op \in Operations
  BY DEF Typed, CommandOk, CommandInv
<1>l. d[1] \in LinkedNames
  BY DEF ElfLinked
<1>n. ASSUME pc \in {"idle", "start", "prepare", "bss", "un_priv"}, UNCHANGED <<dirs, signed>> PROVE FALSE
  BY <1>a, <1>n, NothingAwaits
<1>b. ASSUME InMap(d), NEW S, Harm(S \cup IF op.map # {} THEN {"batch"} ELSE {}) PROVE FALSE
  BY <1>b, <1>w DEF InMap, Harm, SignHarm
<1>s. ASSUME InMap(d), NEW ret, Stop(ret) PROVE FALSE
  BY <1>s, <1>w DEF InMap, Harm, SignHarm, Stop
\* The command goes on with the same packages, record and map.
<1>k. ASSUME op'.map = op.map, op'.hap = op.hap, op'.todo = op.todo, info' = info,
             UNCHANGED <<dirs, signed>>, pc' \in PkgPcs \/ Back("write")',
             pc \in {"link", "deal", "write", "next"}
      PROVE  Awaiting(d)'
  <2>1. Awaiting(d)
    BY <1>a, <1>k
  <2>2. InMap(d)' /\ (Own(d) => Own(d)')
    BY <1>k, <2>1, AwaitingStage DEF InMap, Own
  <2>3. Unsigned(d) => Unsigned(d)'
    BY <1>k, <2>2 DEF Unsigned
  <2>4. Placing(d) => Placing(d)'
    BY <1>k, <2>2, SamePackage DEF Placing
  <2> QED
    BY <1>k, <2>1, <2>3, <2>4, AwaitingStage DEF Awaiting, PkgPcs
\* A failed installation begins to be undone.
<1>u. ASSUME pc \in PkgPcs, NEW x, op' = [op EXCEPT !.ret = x], NEW why, RollBack(why), UNCHANGED <<dirs, signed>>
      PROVE  Awaiting(d)'
  <2>1. pc' = "rm_check" /\ rm'.back = "stop"
    BY <1>u DEF RollBack
  <2>2. op'.map = op.map /\ op'.todo = op.todo
    BY <1>o, <1>u DEF Operations
  <2>3. Unsigned(d) \/ Placing(d)
    BY <1>a, <1>u, AwaitingStage
  <2>4. Unsigned(d) => Stopping(d)'
    BY <2>1, <2>2 DEF Unsigned, Stopping, InMap, Back, RmPcs
  <2>5. Placing(d) => Placing(d)'
    BY <2>1, <2>2, SamePackage DEF Placing, Back, RmPcs
  <2> QED
    BY <2>3, <2>4, <2>5 DEF Awaiting
<1>1. CASE UNCHANGED vars \/ \E n \in Names : ProcessStart(n) \/ ProcessEnd(n)
  <2>1. UNCHANGED <<info, dirs, signed, pc, op, rm, un>>
    BY <1>1, Idling
  <2>2. /\ Unsigned(d)' = Unsigned(d) /\ Placing(d)' = Placing(d) /\ Stopping(d)' = Stopping(d)
        /\ Unlisting' = Unlisting /\ Pending(d)' = Pending(d)
    BY <2>1, SamePackage DEF Unsigned, Placing, Stopping, Unlisting, Pending, InMap, Own, Back
  <2> QED
    BY <1>a, <2>1, <2>2 DEF Awaiting
<1>2. ASSUME NEW h, NEW b, NEW f, NativeInstallHnp(h, b, f) PROVE FALSE
  BY <1>2, <1>n DEF NativeInstallHnp
<1>3. ASSUME NEW h, NativeUnInstallHnp(h) \/ CommandRefused(h) PROVE FALSE
  BY <1>3, <1>n DEF NativeUnInstallHnp, CommandRefused
<1>4. CASE HnpCmdInstall \/ ArgumentsRefused \/ HnpInstallPre
  BY <1>4, <1>n DEF HnpCmdInstall, ArgumentsRefused, HnpInstallPre
<1>5. CASE BssInstall
  BY <1>5, <1>n DEF BssInstall
<1>6. CASE DeletePrivate
  BY <1>6, <1>n DEF DeletePrivate
<1>7. CASE Crash
  BY <1>7, <1>w DEF Crash, Harm, SignHarm
<1>8. CASE StartUnInstall
  <2>1. pc = "un_start" /\ pc' = "un_get" /\ RebuildHnpInfoCfg /\ UNCHANGED <<dirs, signed, op>>
    BY <1>8 DEF StartUnInstall
  <2>2. InMap(d) /\ Own(d)
    BY <1>a, <2>1, AwaitingStage
  <2>3. info.st = "ok"
    BY <2>2 DEF Own, Typed, DataInv
  <2>4. info' = info
    BY <2>1, <2>3 DEF RebuildHnpInfoCfg
  <2>5. Unsigned(d)'
    BY <2>1, <2>2, <2>4 DEF Unsigned, InMap, Own
  <2> QED
    BY <2>5 DEF Awaiting
<1>9. CASE ReadConfigFails \/ PathIsExist
  <2>1. pc = "next" /\ UNCHANGED <<dirs, signed>> /\ \E ret : Stop(ret)
    BY <1>9 DEF ReadConfigFails, PathIsExist
  <2> QED
    BY <1>a, <1>s, <2>1, AwaitingStage
<1>10. CASE SkipInstalled
  <2>1. pc = "next" /\ UNCHANGED <<info, dirs, signed>>
    BY <1>10 DEF SkipInstalled
  <2>2. InMap(d)
    BY <1>a, <2>1, AwaitingStage
  <2>3. pc' = "deal" /\ op' = [op EXCEPT !.skip = TRUE]
    BY <1>10, <1>s, <2>2 DEF SkipInstalled
  <2>4. op'.map = op.map /\ op'.hap = op.hap /\ op'.todo = op.todo
    BY <1>o, <2>3 DEF Operations
  <2> QED
    BY <1>k, <2>1, <2>3, <2>4 DEF PkgPcs
<1>11. CASE HnpInstallForceCheck
  <2>1. /\ pc = "next" /\ pc' = "unzip" /\ op' = [op EXCEPT !.skip = FALSE] /\ UNCHANGED <<info, signed>>
        /\ dirs' = dirs \/ (Package.public /\ dirs' = [dirs EXCEPT ![Target] = "partial"])
    BY <1>11 DEF HnpInstallForceCheck, HnpCreateFolder
  <2>2. op'.map = op.map /\ op'.hap = op.hap /\ op'.todo = op.todo
    BY <1>o, <2>1 DEF Operations
  <2>3. CASE dirs[d] # "absent"
    <3>1. InMap(d) /\ Own(d)
      BY <1>a, <2>1, <2>3, AwaitingStage
    <3>2. Unsigned(d)'
      BY <2>1, <2>2, <3>1 DEF Unsigned, InMap, Own, PkgPcs
    <3> QED
      BY <3>2 DEF Awaiting
  <2>4. CASE dirs[d] = "absent"
    <3>1. d = Target /\ Package.public
      BY <2>1, <2>4 DEF Typed, DataInv
    <3>2. Placing(d)'
      BY <2>1, <2>2, <3>1, SamePackage DEF Placing, PkgPcs
    <3> QED
      BY <3>2 DEF Awaiting
  <2> QED
    BY <2>3, <2>4
<1>12. CASE HnpUnZip
  <2>0. "unnoticed" \notin harm'
    BY <1>w DEF SignHarm
  <2>1. /\ pc = "unzip" /\ pc' = "link" /\ op' = [op EXCEPT !.map = @ \cup SignMap] /\ UNCHANGED info
        /\ dirs' = IF Package.public THEN [dirs EXCEPT ![Target] = "full"] ELSE dirs
        /\ signed' = IF Package.public THEN signed \ {Target} ELSE signed
    BY <1>12, <2>0, UnZipCases
  <2>2. op'.map = op.map \cup SignMap /\ op'.hap = op.hap /\ op'.todo = op.todo
    BY <1>o, <2>1 DEF Operations
  <2>3. CASE Package.public /\ d = Target
    <3>1. op.todo # <<>>
      BY <2>1, PackageWritten DEF PkgPcs
    <3>2. Package.elf
      BY <2>3, <3>1, ElfPackage
    <3>3. <<TRUE, Target>> \in SignMap
      <4>1. Package.public = TRUE
        BY <2>1, <2>3, PackageWritten DEF PkgPcs
      <4> QED
        BY <3>2, <4>1 DEF SignMap
    <3>4. InMap(d)'
      BY <2>2, <2>3, <3>3 DEF InMap
    <3>5. Placing(d)'
      BY <2>1, <2>2, <2>3, <3>4, SamePackage DEF Placing, PkgPcs
    <3> QED
      BY <3>5 DEF Awaiting
  <2>4. CASE ~(Package.public /\ d = Target)
    <3>1. dirs[d] # "absent" /\ d \notin signed
      BY <2>1, <2>4 DEF Typed, DataInv
    <3>2. Unsigned(d)
      BY <1>a, <2>1, <2>4, <3>1, AwaitingStage DEF Placing, PkgPcs
    <3>3. Unsigned(d)'
      BY <2>1, <2>2, <3>2 DEF Unsigned, InMap, Own, PkgPcs
    <3> QED
      BY <3>3 DEF Awaiting
  <2> QED
    BY <2>3, <2>4
<1>13. CASE HnpUnZipFails
  BY <1>13, <1>u DEF HnpUnZipFails, PkgPcs
<1>14. CASE LinkInstalled
  <2>1. pc = "link" /\ UNCHANGED <<info, dirs, signed>>
    BY <1>14 DEF LinkInstalled
  <2>2. \/ pc' = "deal" /\ op' = op
        \/ ~Package.public /\ pc' = "next" /\ op' = [op EXCEPT !.todo = Tail(@)]
        \/ op' = [op EXCEPT !.ret = "symlink"] /\ RollBack({})
    BY <1>14 DEF LinkInstalled
  <2>3. CASE pc' = "deal" /\ op' = op
    BY <1>k, <2>1, <2>3 DEF PkgPcs
  <2>4. CASE ~Package.public /\ pc' = "next" /\ op' = [op EXCEPT !.todo = Tail(@)]
    <3>1. Unsigned(d)
      BY <1>a, <2>1, <2>4, AwaitingStage DEF Placing, PkgPcs
    <3>2. op'.map = op.map /\ op'.hap = op.hap
      BY <1>o, <2>4 DEF Operations
    <3>3. Unsigned(d)'
      BY <2>1, <2>4, <3>1, <3>2 DEF Unsigned, InMap, Own
    <3> QED
      BY <3>3 DEF Awaiting
  <2> QED
    BY <1>u, <2>1, <2>2, <2>3, <2>4 DEF PkgPcs
<1>15. CASE RemoveOldVersion
  <2>1. /\ pc = "deal" /\ UNCHANGED <<info, dirs, signed, op>>
        /\ pc' = "write" \/ (pc' = "rm_check" /\ rm'.back = "write")
    BY <1>15 DEF RemoveOldVersion
  <2> QED
    BY <1>k, <2>1 DEF PkgPcs, Back, RmPcs
<1>16. CASE RecordVersion
  <2>1. UNCHANGED <<dirs, signed>> /\ pc = "write"
    BY <1>16 DEF RecordVersion
  <2>2. PICK o \in IF Readable THEN WriteOutcomes ELSE {"parse"} :
        /\ IF o = "parse" THEN UNCHANGED info
           ELSE HnpHapJsonWrite(
                  HnpInstallInfoJsonWrite(op.hap, Package.name, Package.ver), o)
        /\ CASE WriteOk(o) ->
                  /\ pc' = "next" /\ op' = [op EXCEPT !.todo = Tail(@)]
                  /\ Harm(LostIf(o)) /\ UNCHANGED <<rm, un, last>>
             [] ~WriteOk(o) /\ op.skip ->
                  /\ Finish("json")
                  /\ Harm(LostIf(o) \cup IF op.map # {} THEN {"batch"} ELSE {})
             [] ~WriteOk(o) /\ ~op.skip ->
                  /\ op' = [op EXCEPT !.ret = "json"]
                  /\ RollBack(LostIf(o))
                  /\ UNCHANGED <<un, last>>
    BY <1>16, Zenon DEF RecordVersion
  <2>3. Awaiting(d) /\ InMap(d) /\ (Unsigned(d) \/ Placing(d))
    BY <1>a, <2>1, AwaitingStage DEF PkgPcs
  <2>7. ~(o = "silent")
    <3>1. o = "silent" => Harm(LostIf(o))
      BY <2>2 DEF WriteOk
    <3> QED
      BY <3>1, <1>w DEF Harm, LostIf, SignHarm
  <2>4. CASE o = "ok"
    <3>0. /\ pc' = "next" /\ op' = [op EXCEPT !.todo = Tail(@)] /\ harm' = harm
          /\ UNCHANGED <<rm, un, last>>
      BY <2>2, <2>4 DEF WriteOk, Harm, LostIf
    <3>1. RecordGrows
      BY <2>1, <2>2, <2>4, <3>0, <1>16 DEF RecordGrows, HnpHapJsonWrite, RecordVersion
    <3>2. Own(d) \/ d = Target
      BY <2>3 DEF Unsigned, Placing
    <3>3. Without({"refused"})
      BY <1>w DEF Without, SignHarm
    <3>4. Own(d)'
      BY <1>l, <2>1, <3>1, <3>2, <3>3, OwnRecorded
    <3>5. op'.map = op.map /\ pc' = "next"
      BY <1>o, <3>0 DEF Operations
    <3>6. Unsigned(d)'
      BY <2>3, <3>4, <3>5 DEF Unsigned, InMap
    <3> QED
      BY <3>6 DEF Awaiting
  <2>5. CASE o # "ok" /\ op.skip
    <3>1. ~WriteOk(o)
      BY <2>5, <2>7 DEF WriteOk
    <3> QED
      BY <1>b, <2>2, <2>3, <2>5, <3>1
  <2>6. CASE o # "ok" /\ ~op.skip
    <3>1. ~WriteOk(o)
      BY <2>6, <2>7 DEF WriteOk
    <3> QED
      BY <1>u, <2>1, <2>2, <2>6, <3>1 DEF PkgPcs
  <2> QED
    BY <2>4, <2>5, <2>6
<1>17. CASE NothingToSign
  BY <1>a, <1>17, AwaitingStage DEF NothingToSign, InMap
<1>18. CASE EnforceCodeSign
  <2>1. PICK o \in Outcomes({"sign"}) :
          IF o = "ok"
          THEN signed' = signed \cup {m[2] : m \in {x \in op.map : x[1]}}
          ELSE CallUnInstall("sign") /\ UNCHANGED signed
    BY <1>18 DEF EnforceCodeSign
  <2>2. pc = "next" /\ UNCHANGED <<info, dirs>> /\ d \notin signed
    BY <1>18, <2>1 DEF EnforceCodeSign
  <2>3. InMap(d) /\ Own(d)
    BY <1>a, <2>2, AwaitingStage
  <2>4. o # "ok"
    <3>1. PICK m \in op.map : m[1] /\ m[2] = d
      BY <2>3 DEF InMap
    <3> QED
      BY <2>1, <3>1
  <2>5. pc' = "un_start" /\ op' = op
    BY <2>1, <2>4 DEF CallUnInstall
  <2>6. Unsigned(d)'
    BY <2>2, <2>3, <2>5 DEF Unsigned, InMap, Own
  <2> QED
    BY <2>6 DEF Awaiting
<1>19. CASE RunCheck \/ RemoveRecord \/ RemoveVersion \/ RemoveName
  <2>1. Without({"refused"})'
    BY <1>w DEF Without, SignHarm
  <2>2. RemovalGoesOn /\ pc \in RmPcs
    BY <1>19, <2>1, RemovalOk, RemovalSteps
  <2>3. <<rm.name, rm.ver>> \in Dirs
    BY <2>2 DEF Typed, CommandOk, ControlInv, Dirs
  <2>4. /\ dirs' = dirs \/ dirs' = [dirs EXCEPT ![<<rm.name, rm.ver>>] = "absent"]
        /\ signed' = signed \/ (signed' = signed \ {<<rm.name, rm.ver>>} /\ dirs' = [dirs EXCEPT ![<<rm.name, rm.ver>>] = "absent"])
    BY <2>2 DEF RemovalGoesOn
  <2>5. dirs[d] # "absent" /\ d \notin signed
    BY <2>3, <2>4 DEF Typed, DataInv
  <2> QED
    BY <1>a, <2>2, <2>5, AwaitingRemoval
<1>20. CASE GetPackageInfo
  <2>1. pc = "un_get" /\ UNCHANGED <<info, dirs, signed>>
    BY <1>20 DEF GetPackageInfo
  <2>2. InMap(d) /\ Own(d)
    BY <1>a, <2>1, AwaitingStage
  <2>3. un.caller # "cmd"
    BY <2>1, <2>2 DEF InMap, Typed, CommandOk, ControlInv, UnPcs
  <2>4. un' = [un EXCEPT !.list = HnpPackageInfoGet(op.hap)] /\ pc' = "un_next"
    BY <1>20, <1>w, <2>3 DEF GetPackageInfo, Harm, SignHarm
  <2>5. un'.list = HnpPackageInfoGet(op.hap)
    BY <2>4 DEF Typed, CommandOk, CommandInv
  <2>6. Covered(d) /\ ~ByOther(d)
    BY <1>l, <2>2 DEF Own, Covered, ByOther, OneHap, NamesDir
  <2>7. \E x \in un'.list : ToRemove(x, d)
    BY <2>5, <2>6, ListedOrForeign
  <2> QED
    BY <2>4, <2>7 DEF Awaiting, Unlisting, Pending
<1>21. CASE HnpNativeUnInstall
  <2>1. pc = "un_next" /\ UNCHANGED <<dirs, signed>> /\ Unlisting'
    BY <1>21, NativeCases DEF Unlisting, Back, RmPcs
  <2>2. Pending(d)
    BY <1>a, <2>1 DEF Awaiting, Unsigned, Placing, Stopping, Back, RmPcs, PkgPcs
  <2> QED
    BY <1>21, <2>1, <2>2, StillPending DEF Awaiting
<1>22. CASE DeletePackageInfo
  <2>1. pc = "un_next" /\ un.list = {} /\ UNCHANGED <<dirs, signed>>
    BY <1>22 DEF DeletePackageInfo
  <2>2. Pending(d)
    BY <1>a, <2>1 DEF Awaiting, Unsigned, Placing, Stopping, Back, RmPcs, PkgPcs
  <2> QED
    BY <2>1, <2>2 DEF Pending, Back, RmPcs
<1> QED
  BY <1>1, <1>2, <1>3, <1>4, <1>5, <1>6, <1>7, <1>8, <1>9, <1>10, <1>11, <1>12, <1>13, <1>14, <1>15, <1>16,
     <1>17, <1>18, <1>19, <1>20, <1>21, <1>22
  DEF Next, Command, Install, UnInstall, Environment

\* Whenever no command runs, every version on disk whose package has binaries
\* is signed: what EnforceCodeSignForApp refused has been removed again
\* (HnpInstallPre), for every name whose packages all have links, unless a
\* crash, a refused removal, a batch stopped half way or a full disk that
\* went unnoticed came before.
THEOREM NoBinaryUnsigned == Spec => []NothingLeftUnsigned
<1> DEFINE Inv == Typed /\ SameCurrent /\ Linkable /\ OneHap /\ GoneInv /\ SignInv
<1>1. Init => Inv
  BY TypedInit, SameInit, LinkableInit, StopInit, SignInit
<1>2. Inv /\ [Next]_vars => Inv'
  BY TypedNext, SameNext, LinkableNext, OneHapNext, GoneNext, SignNext
<1>3. Inv => NothingLeftUnsigned
  <2> SUFFICES ASSUME Inv, pc = "idle", Without(SignHarm), NEW p \in Carried, p.public, p.elf,
                      p.name \in LinkedNames, dirs[<<p.name, p.ver>>] # "absent"
               PROVE  <<p.name, p.ver>> \in signed
    BY DEF NothingLeftUnsigned, SignHarm
  <2>1. p \in Packages
    BY HnpAssumption DEF Carried, ToSet
  <2>2. PICK d \in Dirs : d = <<p.name, p.ver>>
    BY <2>1 DEF Packages, Dirs
  <2>3. ElfLinked(d) /\ dirs[d] # "absent"
    BY <2>2 DEF ElfLinked
  <2> QED
    BY <2>2, <2>3, NothingAwaits DEF SignInv
<1> QED
  BY <1>1, <1>2, <1>3, PTL DEF Spec
=============================================================================
