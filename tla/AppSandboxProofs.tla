---------------------------- MODULE AppSandboxProofs ----------------------------
(***************************************************************************)
(* Theorems about AppSandbox, for every configuration and every request:   *)
(* the DLP fuse mount is the only mount of a child in the host's tree; the *)
(* list of controlled applications that the spawner decides by is the one  *)
(* announced last, unless another spawner took the announcement; an        *)
(* application in its root has every mount its configuration owes it, but  *)
(* for the two exceptions of the code; the kernel is told what to deny     *)
(* with what it is told to grant; a debug sandbox that was uninstalled is  *)
(* gone.                                                                   *)
(***************************************************************************)
EXTENDS AppSandbox, SequenceTheorems, NaturalsInduction, WellFoundedInduction, TLAPS


(***************************************************************************)
(* The host's mount namespace.                                             *)
(***************************************************************************)
\* What the phase the child has reached says of its namespaces.
NamespaceInv ==
  /\ leaked \subseteq {FuseMount}
  /\ leaked # {} \/ phase = "dlp" => req.dlp
  /\ phase = "idle" => leaked = {}
  /\ phase \in {"flags", "root", "plan"} => "mnt" \in ns
  /\ phase = "plan" => "slave" \in ns

LEMMA NamespaceInit == Init => NamespaceInv
  BY DEF Init, NamespaceInv

\* A step that leaves the child's namespaces and the host's tree alone and
\* does not bring the child into a phase it was not in.
LEMMA NamespaceKept ==
  ASSUME NamespaceInv, UNCHANGED <<ns, leaked, req>>,
         phase' = phase \/ phase' \notin {"idle", "dlp", "flags", "root", "plan"}
  PROVE  NamespaceInv'
  BY DEF NamespaceInv

LEMMA NamespaceNext == NamespaceInv /\ [Next]_vars => NamespaceInv'
<1> SUFFICES ASSUME NamespaceInv, [Next]_vars PROVE NamespaceInv'
  OBVIOUS
<1>1. ASSUME NEW apps \in SUBSET Owners, WriteList(apps) PROVE NamespaceInv'
  BY <1>1, NamespaceKept DEF WriteList, child
<1>2. CASE Notify \/ OtherAcks \/ Restart
  BY <1>2, NamespaceKept DEF Notify, OtherAcks, Restart, child
<1>3. ASSUME NEW r \in Requests, ComputeForSpawn(r) PROVE NamespaceInv'
  <2>1. /\ UNCHANGED <<ns, leaked>> /\ phase = "idle"
        /\ phase' \in {"install", "ack", "match", "load"}
    BY <1>3 DEF ComputeForSpawn
  <2>2. QED
    BY <2>1 DEF NamespaceInv
<1>4. CASE AckUpdate \/ LoadFromJson \/ InstallDebugSandbox
  BY <1>4, NamespaceKept DEF AckUpdate, LoadFromJson, InstallDebugSandbox, child
<1>5. CASE MatchControlled
  BY <1>5, NamespaceKept DEF MatchControlled, Ended
<1>6. ASSUME NEW bundles, NEW isolated, UninstallDebugSandbox(bundles, isolated) PROVE NamespaceInv'
  BY <1>6, NamespaceKept DEF UninstallDebugSandbox, child
<1>7. CASE StartSandbox \/ CheckProperty
  <2>1. CASE StartSandbox
    BY <2>1, NamespaceKept DEF StartSandbox, OrFail, Fail, Ended, host
  <2>2. CASE CheckProperty
    <3>1. /\ UNCHANGED <<ns, leaked, req>> /\ phase = "check"
          /\ phase' \in {"ended", "dlp", "unshare"} /\ (phase' = "dlp" => req.dlp)
      BY <2>2 DEF CheckProperty, Fail, Ended, host
    <3>2. QED
      BY <3>1 DEF NamespaceInv
  <2>3. QED
    BY <1>7, <2>1, <2>2
<1>8. CASE HandleDlpMount
  <2>1. /\ UNCHANGED <<ns, req>> /\ phase = "dlp" /\ phase' = "unshare"
        /\ leaked' \in {leaked, leaked \union {FuseMount}}
    BY <1>8 DEF HandleDlpMount
  <2>2. QED
    BY <2>1 DEF NamespaceInv
<1>9. CASE EnableSandboxNamespace
  BY <1>9 DEF EnableSandboxNamespace, NamespaceInv, Fail, Ended, host
<1>10. CASE UpdatePointFlags
  <2>1. UNCHANGED <<ns, leaked, req>> /\ phase = "flags" /\ phase' \in {"ended", "root"}
    BY <1>10 DEF UpdatePointFlags, Fail, Ended, host
  <2>2. QED
    BY <2>1 DEF NamespaceInv
<1>11. CASE DoSandboxRootFolderCreate
  BY <1>11 DEF DoSandboxRootFolderCreate, NamespaceInv, Fail, Ended, host
<1>12. CASE MakeDir \/ MakeSymlink \/ AddGid \/ StopAtError
  <2>1. /\ UNCHANGED <<ns, leaked, req>>
        /\ Go \/ Leave
    BY <1>12 DEF MakeDir, MakeSymlink, AddGid, StopAtError, host
  <2>2. phase' = phase \/ phase' = "ended"
    BY <2>1 DEF Go, Leave, Fail, Ended
  <2>3. QED
    BY <2>1, <2>2, NamespaceKept
<1>13. CASE DoAppSandboxMountOnce
  <2>1. /\ AtStep("mount") /\ UNCHANGED <<ns, req>>
        /\ Go \/ Leave
        /\ {"mnt", "slave"} \subseteq ns => leaked' = leaked
    BY <1>13 DEF DoAppSandboxMountOnce, host
  <2>2. phase' = phase \/ phase' = "ended"
    BY <2>1 DEF Go, Leave, Fail, Ended
  <2>3. {"mnt", "slave"} \subseteq ns
    BY <2>1 DEF AtStep, NamespaceInv
  <2>4. QED
    BY <2>1, <2>2, <2>3, NamespaceKept
<1>14. CASE ChangeCurrentDir \/ SetDecPolicy
  BY <1>14, NamespaceKept DEF ChangeCurrentDir, SetDecPolicy, Fail, Ended, host
<1>15. CASE NextRequest
  BY <1>15 DEF NextRequest, NamespaceInv
<1>16. CASE UNCHANGED vars
  BY <1>16, NamespaceKept DEF vars, child
<1>17. QED
  BY <1>1, <1>2, <1>3, <1>4, <1>5, <1>6, <1>7, <1>8, <1>9, <1>10, <1>11, <1>12, <1>13, <1>14, <1>15,
     <1>16 DEF Next

\* Whatever the configuration asks for and whichever calls fail, the fuse mount
\* of HandleDlpMount is the only one that a child makes before its mount
\* namespace is unshared and the tree a slave, so no other reaches the host
\* (EnableSandboxNamespace, DoSandboxRootFolderCreate).
THEOREM MountsStayInTheSandbox == Spec => []OnlyFuseOnHost
<1>1. NamespaceInv => OnlyFuseOnHost
  BY DEF NamespaceInv, OnlyFuseOnHost
<1>2. QED
  BY <1>1, NamespaceInit, NamespaceNext, PTL DEF Spec

(***************************************************************************)
(* The list of controlled applications.                                    *)
(***************************************************************************)
DlpType == [file : SUBSET Owners, status : {0, 1, 2}, pending : BOOLEAN, n : Nat, fuse : BOOLEAN]
CacheType == [apps : SUBSET Owners, loaded : BOOLEAN, missed : BOOLEAN]

\* Only between the answer and the reading of the file, or once another spawner
\* has answered, may a loaded list be older than the one announced last.
ListInv ==
  /\ dlp \in DlpType /\ cache \in CacheType
  /\ cache.loaded /\ ~cache.missed /\ dlp.status = 1 /\ ~dlp.pending =>
        phase = "load" \/ cache.apps = dlp.file

LEMMA ListInit == Init => ListInv
  BY DEF Init, ListInv, DlpType, CacheType, NoList

\* A step behind the decision.
LEMMA ListKept ==
  ASSUME ListInv, UNCHANGED <<dlp, cache>>, phase # "load"
  PROVE  ListInv'
  BY DEF ListInv

LEMMA ListNext == ListInv /\ [Next]_vars => ListInv'
<1> SUFFICES ASSUME ListInv, [Next]_vars PROVE ListInv'
  OBVIOUS
<1>1. ASSUME NEW apps \in SUBSET Owners, WriteList(apps) PROVE ListInv'
  <2>1. dlp' \in DlpType /\ dlp'.pending = TRUE /\ UNCHANGED cache
    <3>1. PICK n \in Nat : n = dlp.n + 1
      BY DEF ListInv, DlpType
    <3>2. dlp' = [dlp EXCEPT !.file = apps, !.pending = TRUE, !.n = n] /\ UNCHANGED cache
      BY <1>1, <3>1 DEF WriteList
    <3>3. QED
      BY <1>1, <3>2 DEF ListInv, DlpType
  <2>2. QED
    BY <2>1 DEF ListInv
<1>2. CASE Notify
  <2>1. dlp' \in DlpType /\ dlp'.status = 2 /\ UNCHANGED cache
    BY <1>2 DEF Notify, ListInv, DlpType
  <2>2. QED
    BY <2>1 DEF ListInv
<1>3. CASE Restart
  BY <1>3 DEF Restart, ListInv, CacheType, NoList
<1>4. ASSUME NEW r \in Requests, ComputeForSpawn(r) PROVE ListInv'
  BY <1>4, ListKept DEF ComputeForSpawn
<1>5. CASE AckUpdate
  BY <1>5 DEF AckUpdate, ListInv, DlpType
<1>6. CASE LoadFromJson
  <2>1. UNCHANGED dlp /\ dlp \in DlpType /\ cache \in CacheType
    BY <1>6 DEF LoadFromJson, ListInv
  <2>2. CASE cache' = [apps |-> dlp.file, loaded |-> TRUE, missed |-> FALSE]
    <3>1. cache' \in CacheType /\ cache'.apps = dlp.file
      BY <2>1, <2>2 DEF DlpType, CacheType
    <3>2. QED
      BY <2>1, <3>1 DEF ListInv
  <2>3. CASE cache' = [cache EXCEPT !.loaded = FALSE]
    <3>1. cache' \in CacheType /\ cache'.loaded = FALSE
      BY <2>1, <2>3 DEF CacheType
    <3>2. QED
      BY <2>1, <3>1 DEF ListInv
  <2>4. QED
    BY <1>6, <2>2, <2>3 DEF LoadFromJson
<1>7. CASE MatchControlled \/ InstallDebugSandbox
  BY <1>7, ListKept DEF MatchControlled, InstallDebugSandbox
<1>8. ASSUME NEW bundles, NEW isolated, UninstallDebugSandbox(bundles, isolated) PROVE ListInv'
  BY <1>8, ListKept DEF UninstallDebugSandbox
<1>9. CASE StartSandbox \/ CheckProperty \/ EnableSandboxNamespace \/ UpdatePointFlags
  BY <1>9, ListKept DEF StartSandbox, CheckProperty, EnableSandboxNamespace, UpdatePointFlags, host
<1>10. CASE HandleDlpMount
  BY <1>10 DEF HandleDlpMount, ListInv, DlpType
<1>11. CASE DoSandboxRootFolderCreate \/ ChangeCurrentDir \/ SetDecPolicy
  BY <1>11, ListKept DEF DoSandboxRootFolderCreate, ChangeCurrentDir, SetDecPolicy, host
<1>12. CASE DoAppSandboxMountOnce \/ MakeDir \/ MakeSymlink \/ AddGid \/ StopAtError
  BY <1>12, ListKept DEF DoAppSandboxMountOnce, MakeDir, MakeSymlink, AddGid, StopAtError, AtStep, host
<1>13. CASE NextRequest
  BY <1>13, ListKept DEF NextRequest
<1>14. CASE UNCHANGED vars
  BY <1>14 DEF vars, ListInv
<1>15. CASE OtherAcks
  <2>1. dlp' \in DlpType
    BY <1>15 DEF OtherAcks, ListInv, DlpType
  <2>2. cache' \in CacheType /\ cache'.missed = TRUE
    BY <1>15 DEF OtherAcks, ListInv, CacheType
  <2>3. QED
    BY <2>1, <2>2 DEF ListInv
<1>16. QED
  BY <1>1, <1>2, <1>3, <1>4, <1>5, <1>6, <1>7, <1>8, <1>9, <1>10, <1>11, <1>12, <1>13, <1>14, <1>15 DEF Next

\* An announcement of the DLP service that no other spawner takes is never lost,
\* whenever it comes between two steps of ComputeForSpawn (EnsureCacheLoaded
\* answers before it reads).
THEOREM AnnouncedListUsed == Spec => []ControlledListFresh
<1>1. ListInv => ControlledListFresh
  BY DEF ListInv, ControlledListFresh
<1>2. QED
  BY <1>1, ListInit, ListNext, PTL DEF Spec


(***************************************************************************)
(* Sequences and their ranges.                                             *)
(***************************************************************************)
\* The least element of a set of numbers: the induction theorems of the library
\* have an operator as a parameter, this has none.
LEMMA NatLeast ==
  ASSUME NEW T, T \subseteq Nat, T # {}
  PROVE  \E n \in T : \A m \in T : n <= m
<1>1. \E R : IsWellFoundedOn(R, Nat) /\ \A m, n \in Nat : m < n => <<m, n>> \in R
  <2>1. \A m, n \in Nat : m < n => <<m, n>> \in OpToRel(<, Nat)
    BY Zenon DEF OpToRel
  <2>2. QED
    BY NatLessThanWellFounded, <2>1, Zenon
<1>2. PICK R : IsWellFoundedOn(R, Nat) /\ \A m, n \in Nat : m < n => <<m, n>> \in R
  BY <1>1
<1>3. PICK n \in T : \A m \in T : ~(<<m, n>> \in R)
  <2>1. IsWellFoundedOn(R, Nat) /\ T \subseteq Nat /\ T # {}
    BY <1>2
  <2>2. QED
    BY ONLY <2>1, WFMin
<1>4. ASSUME NEW m \in T PROVE n <= m
  <2>1. m \in Nat /\ n \in Nat
    OBVIOUS
  <2>2. ~(m < n)
    BY <1>2, <1>3, <2>1, Zenon
  <2>3. QED
    BY <2>1, <2>2
<1>5. QED
  BY <1>4

\* Induction for a property that is written as a set.
LEMMA NatInductionBySet ==
  ASSUME NEW S, 0 \in S, \A n \in Nat : n \in S => n + 1 \in S
  PROVE  Nat \subseteq S
<1>1. SUFFICES ASSUME Nat \ S # {} PROVE FALSE
  OBVIOUS
<1>2. PICK n \in Nat \ S : \A m \in Nat \ S : n <= m
  BY <1>1, NatLeast
<1>3. n - 1 \in Nat /\ n - 1 \in S /\ n - 1 + 1 = n
  BY <1>2
<1>4. QED
  BY <1>2, <1>3

\* A sequence is a function on an initial segment.
LEMMA SeqFacts ==
  ASSUME NEW s, IsSeq(s)
  PROVE  /\ Len(s) \in Nat /\ DOMAIN s = 1..Len(s)
         /\ \A i \in 1..Len(s) : s[i] \in Range(s)
         /\ \A x \in Range(s) : \E i \in 1..Len(s) : x = s[i]
<1>1. s \in Seq(Range(s))
  BY DEF IsSeq
<1>2. Len(s) \in Nat /\ DOMAIN s = 1..Len(s)
  BY <1>1, LenProperties
<1>3. QED
  BY <1>2 DEF Range

\* What makes a value a sequence.
LEMMA SeqIntro ==
  ASSUME NEW s, NEW n \in Nat, NEW S, s \in [1..n -> S]
  PROVE  IsSeq(s) /\ Len(s) = n
<1>1. DOMAIN s = 1..n /\ \A i \in 1..n : s[i] \in Range(s)
  BY DEF Range
<1>2. s \in [1..n -> Range(s)]
  BY <1>1
<1>3. s \in Seq(Range(s))
  BY <1>2, SeqDef
<1>4. Len(s) \in Nat /\ DOMAIN s = 1..Len(s)
  BY <1>3, LenProperties
<1>5. Len(s) = n
  BY <1>1, <1>4
<1>6. QED
  BY <1>3, <1>5 DEF IsSeq

\* What a sequence is made of.
LEMMA SeqElems ==
  ASSUME NEW S, NEW s \in Seq(S)
  PROVE  IsSeq(s) /\ Range(s) \subseteq S
<1>1. Len(s) \in Nat /\ s \in [1..Len(s) -> S]
  BY LenProperties
<1>2. IsSeq(s)
  BY <1>1, SeqIntro
<1>3. QED
  BY <1>1, <1>2 DEF Range

\* The empty sequence and the sequence of one element.
LEMMA EmptyFacts == IsSeq(<<>>) /\ Range(<<>>) = {} /\ Len(<<>>) = 0
<1>1. <<>> \in Seq({}) /\ Len(<<>>) = 0
  BY EmptySeq
<1>2. PICK e, none : e = <<>> /\ none = {}
  OBVIOUS
<1>3. e \in Seq(none) /\ Len(e) = 0
  BY <1>1, <1>2
<1>4. IsSeq(e) /\ Range(e) \subseteq none
  BY <1>3, SeqElems
<1>5. QED
  BY <1>2, <1>3, <1>4

\* A sequence of one element.
LEMMA OneFacts ==
  ASSUME NEW x
  PROVE  IsSeq(<<x>>) /\ Range(<<x>>) = {x} /\ Len(<<x>>) = 1
<1>1. <<x>> \in Seq({x}) /\ Len(<<x>>) = 1 /\ <<x>>[1] = x
  OBVIOUS
<1>2. PICK s : s = <<x>>
  OBVIOUS
<1>3. IsSeq(s) /\ Range(s) \subseteq {x} /\ Len(s) = 1 /\ s[1] = x
  BY <1>1, <1>2, SeqElems
<1>4. x \in Range(s)
  BY <1>3, SeqFacts
<1>5. QED
  BY <1>2, <1>3, <1>4

\* A concatenation has the elements of its parts.
LEMMA JoinFacts ==
  ASSUME NEW s, NEW t, IsSeq(s), IsSeq(t)
  PROVE  /\ IsSeq(s \o t) /\ Len(s \o t) = Len(s) + Len(t)
         /\ Range(s \o t) = Range(s) \union Range(t)
<1>1. PICK S, m, n : S = Range(s) \union Range(t) /\ m = Len(s) /\ n = Len(t) /\ m \in Nat /\ n \in Nat
  BY SeqFacts
<1>2. s \in Seq(S) /\ t \in Seq(S)
  BY <1>1, SeqMonotonic DEF IsSeq
<1>3. PICK u : u = s \o t
  OBVIOUS
<1>4. /\ u \in Seq(S) /\ Len(u) = m + n
      /\ \A i \in 1..(m + n) : u[i] = IF i <= m THEN s[i] ELSE t[i - m]
  BY <1>1, <1>2, <1>3, ConcatProperties
<1>5. IsSeq(u) /\ Range(u) \subseteq S
  BY <1>4, SeqElems
<1>6. \A i \in 1..(m + n) : u[i] \in Range(u)
  BY <1>4, <1>5, SeqFacts
<1>7. ASSUME NEW x \in Range(s) PROVE x \in Range(u)
  <2>1. PICK i \in 1..m : x = s[i]
    BY <1>1, SeqFacts
  <2>2. i \in 1..(m + n) /\ i <= m
    BY <1>1
  <2>3. QED
    BY <1>4, <1>6, <2>1, <2>2
<1>8. ASSUME NEW x \in Range(t) PROVE x \in Range(u)
  <2>1. PICK i \in 1..n : x = t[i]
    BY <1>1, SeqFacts
  <2>2. PICK k : k = i + m /\ k \in 1..(m + n) /\ ~(k <= m) /\ k - m = i
    BY <1>1
  <2>3. u[k] = t[k - m] /\ u[k] \in Range(u)
    BY <1>4, <1>6, <2>2
  <2>4. QED
    BY <2>1, <2>2, <2>3
<1>9. QED
  BY <1>1, <1>3, <1>4, <1>5, <1>7, <1>8

\* What FlattenSeq makes of a sequence of sequences.
LEMMA FlattenFacts ==
  ASSUME NEW ss, IsSeq(ss), \A i \in 1..Len(ss) : IsSeq(ss[i])
  PROVE  /\ IsSeq(FlattenSeq(ss))
         /\ Range(FlattenSeq(ss)) = UNION {Range(ss[i]) : i \in 1..Len(ss)}
         /\ (\A i \in 1..Len(ss) : Len(ss[i]) <= 1) => Len(FlattenSeq(ss)) <= Len(ss)
<1>1. PICK N \in Nat : N = Len(ss)
  BY SeqFacts
<1> DEFINE Flat(f, n) == f = [i \in 1..n |-> IF i = 1 THEN ss[i] ELSE f[i - 1] \o ss[i]]
           E == {n \in Nat : n <= N => \E f : Flat(f, n)}
<1>2. CASE N = 0
  <2>1. ss = <<>>
    BY <1>1, <1>2, EmptySeq DEF IsSeq
  <2>2. FlattenSeq(ss) = ss
    BY <1>1, <1>2 DEF FlattenSeq
  <2>3. QED
    BY <1>1, <1>2, <2>1, <2>2, EmptyFacts
<1>3. CASE N # 0
  <2>1. 0 \in E
    <3>1. Flat([i \in 1..0 |-> <<>>], 0)
      OBVIOUS
    <3>2. QED
      BY <3>1
  <2>2. ASSUME NEW n \in Nat, n \in E PROVE n + 1 \in E
    <3> HIDE DEF Flat
    <3>1. SUFFICES ASSUME n + 1 <= N PROVE \E f : Flat(f, n + 1)
      OBVIOUS
    <3>2. PICK f : Flat(f, n)
      BY <1>1, <2>2, <3>1
    <3>3. PICK m \in Nat : m = n + 1 /\ m - 1 = n
      OBVIOUS
    <3>4. PICK x : x = IF m = 1 THEN ss[m] ELSE f[n] \o ss[m]
      OBVIOUS
    <3>5. PICK g : g = [i \in 1..m |-> IF i = m THEN x ELSE f[i]]
      OBVIOUS
    <3>6. \A i \in 1..m : (i = m \/ i \in 1..n) /\ (i # 1 /\ i # m => i - 1 \in 1..m /\ i - 1 # m)
                          /\ (m # 1 => n \in 1..m /\ n # m)
      BY <3>3
    <3>7. \A i \in 1..m : g[i] = IF i = 1 THEN ss[i] ELSE g[i - 1] \o ss[i]
      <4> SUFFICES ASSUME NEW i \in 1..m PROVE g[i] = IF i = 1 THEN ss[i] ELSE g[i - 1] \o ss[i]
        OBVIOUS
      <4>1. CASE i = m
        <5>1. CASE m = 1
          BY <3>4, <3>5, <4>1, <5>1
        <5>2. CASE m # 1
          <6>1. g[n] = f[n] /\ g[m] = x
            BY <3>5, <3>6, <5>2
          <6>2. QED
            BY <3>3, <3>4, <4>1, <5>2, <6>1
        <5>3. QED
          BY <5>1, <5>2
      <4>2. CASE i # m
        <5>1. i \in 1..n /\ g[i] = f[i]
          BY <3>5, <3>6, <4>2
        <5>2. f[i] = IF i = 1 THEN ss[i] ELSE f[i - 1] \o ss[i]
          BY <3>2, <5>1 DEF Flat
        <5>3. i # 1 => g[i - 1] = f[i - 1]
          BY <3>5, <3>6, <4>2
        <5>4. QED
          BY <5>1, <5>2, <5>3
      <4>3. QED
        BY <4>1, <4>2
    <3>8. Flat(g, m)
      BY <3>5, <3>7 DEF Flat
    <3>9. QED
      BY <3>3, <3>8
  <2>3. N \in E
    <3> HIDE DEF E
    <3>1. Nat \subseteq E
      BY <2>1, <2>2, NatInductionBySet
    <3>2. QED
      BY <3>1
  <2>4. \E f : Flat(f, N)
    <3> HIDE DEF Flat
    <3>1. QED
      BY <2>3
  <2>5. PICK fc : fc = CHOOSE f : Flat(f, N)
    OBVIOUS
  <2>6. fc = [i \in 1..N |-> IF i = 1 THEN ss[i] ELSE fc[i - 1] \o ss[i]]
    BY <2>4, <2>5
  <2>7. FlattenSeq(ss) = fc[N]
    BY <1>1, <1>3, <2>5 DEF FlattenSeq
  <2> DEFINE Up(n) == UNION {Range(ss[i]) : i \in 1..n}
             Short == \A i \in 1..N : Len(ss[i]) <= 1
             Good(j) == IsSeq(fc[j]) /\ Range(fc[j]) = Up(j) /\ (Short => Len(fc[j]) <= j)
             S == {n \in Nat : n + 1 <= N => Good(n + 1)}
  <2>8. 0 \in S
    <3>1. fc[1] = ss[1] /\ 1 \in 1..N
      BY <1>3, <2>6
    <3>2. Up(1) = Range(ss[1])
      OBVIOUS
    <3>3. QED
      BY <1>1, <3>1, <3>2
  <2>9. ASSUME NEW n \in Nat, n \in S PROVE n + 1 \in S
    <3>1. SUFFICES ASSUME (n + 1) + 1 <= N
                   PROVE  Good((n + 1) + 1)
      <4> HIDE DEF Good
      <4>1. QED
        OBVIOUS
    <3>2. PICK k, m : /\ k \in Nat /\ m \in Nat /\ k = n + 1 /\ m = k + 1 /\ m - 1 = k
                      /\ m \in 1..N /\ m # 1 /\ k + 1 <= N + 1 /\ n + 1 <= N
      BY <3>1
    <3>3. Good(k)
      <4> HIDE DEF Good
      <4>1. QED
        BY <2>9, <3>2
    <3>4. fc[m] = fc[k] \o ss[m] /\ IsSeq(ss[m])
      BY <1>1, <2>6, <3>2
    <3>5. /\ IsSeq(fc[m]) /\ Range(fc[m]) = Up(k) \union Range(ss[m])
          /\ Len(fc[m]) = Len(fc[k]) + Len(ss[m])
      BY <3>3, <3>4, JoinFacts
    <3>6. 1..m = 1..k \union {m}
      BY <3>2
    <3>7. Up(m) = Up(k) \union Range(ss[m])
      BY <3>6
    <3>8. Short => Len(fc[m]) <= m
      <4> HAVE Short
      <4>1. PICK a, b : a = Len(fc[k]) /\ b = Len(ss[m]) /\ a \in Nat /\ b \in Nat /\ a <= k /\ b <= 1
        BY <3>2, <3>3, <3>4, SeqFacts
      <4>2. k \in Nat /\ m = k + 1 /\ a \in Nat /\ b \in Nat /\ a <= k /\ b <= 1
        BY ONLY <3>2, <4>1
      <4>3. a + b <= m
        BY ONLY <4>2
      <4>4. QED
        BY ONLY <3>5, <4>1, <4>3, Zenon
    <3>9. Good(m)
      <4> HIDE DEF Up, Short
      <4>1. QED
        BY <3>5, <3>7, <3>8
    <3>10. QED
      <4> HIDE DEF Good
      <4>1. QED
        BY <3>2, <3>9
  <2>10. Nat \subseteq S
    <3> HIDE DEF S
    <3>1. QED
      BY <2>8, <2>9, NatInductionBySet
  <2>11. PICK n \in Nat : N = n + 1
    <3>1. N - 1 \in Nat /\ N = (N - 1) + 1
      BY <1>1, <1>3
    <3>2. QED
      BY <3>1
  <2>12. Good(N)
    <3> HIDE DEF Good
    <3>1. QED
      BY <2>10, <2>11
  <2>13. QED
    BY <1>1, <2>7, <2>12
<1>4. QED
  BY <1>2, <1>3

\* The same for a function of the elements of a sequence.
LEMMA EachFacts ==
  ASSUME NEW s, NEW t, IsSeq(s), DOMAIN t = DOMAIN s, t \in [DOMAIN s -> Range(t)],
         \A i \in DOMAIN s : IsSeq(t[i])
  PROVE  /\ IsSeq(FlattenSeq(t))
         /\ Range(FlattenSeq(t)) = UNION {Range(t[i]) : i \in DOMAIN s}
         /\ (\A i \in DOMAIN s : Len(t[i]) <= 1) => Len(FlattenSeq(t)) <= Len(s)
<1>1. PICK n \in Nat : n = Len(s) /\ DOMAIN s = 1..n
  BY SeqFacts
<1>2. IsSeq(t) /\ Len(t) = n
  BY <1>1, SeqIntro
<1>3. QED
  BY <1>1, <1>2, FlattenFacts

(***************************************************************************)
(* What every plan consists of.                                            *)
(***************************************************************************)
\* A critical mount lies in no scope that another step leaves, except that of the
\* directory of its create-on-daemon point and that of the flag points of a
\* document of the nweb spawner.
StepOK(s) ==
  /\ s.op = "mount" => IsSeq(s.arg.dec.rw) /\ IsSeq(s.arg.dec.ro)
  /\ s.op = "mount" /\ s.fail \notin {OnlyLogged, Note} =>
        \/ s.fail = Abort /\ s.scopes = {}
        \/ s.fail = Abort /\ s.sect = "create-on-daemon" /\ s.scopes = {<<s.arg.at>>}
        \/ mode = "nweb" /\ s.sect = "individual-flags" /\ s.scopes = {s.fail}

IsPlan(p) == IsSeq(p) /\ \A s \in Range(p) : StepOK(s)

\* The scopes that the sections hand to their mounts.
GoodScope(sect, scopes, scope) ==
  \/ scope = Abort /\ scopes = {}
  \/ mode = "nweb" /\ sect = "individual-flags" /\ scopes = {scope}

\* Plans are closed under the ways the code puts them together.
LEMMA PlanNil == IsPlan(<<>>)
  BY EmptyFacts DEF IsPlan

LEMMA PlanOne == ASSUME NEW s, StepOK(s) PROVE IsPlan(<<s>>)
  BY OneFacts DEF IsPlan

LEMMA PlanJoin == ASSUME NEW p, NEW q, IsPlan(p), IsPlan(q) PROVE IsPlan(p \o q)
  BY JoinFacts DEF IsPlan

\* A plan for every element of a list, one after another.
LEMMA PlanEach ==
  ASSUME NEW s, NEW t, IsSeq(s), DOMAIN t = DOMAIN s, t \in [DOMAIN s -> Range(t)],
         \A i \in DOMAIN s : IsPlan(t[i])
  PROVE  IsPlan(FlattenSeq(t))
<1>1. \A i \in DOMAIN s : IsSeq(t[i])
  BY DEF IsPlan
<1>2. PICK F : F = FlattenSeq(t)
  OBVIOUS
<1>3. IsSeq(F) /\ Range(F) = UNION {Range(t[i]) : i \in DOMAIN s}
  BY <1>1, <1>2, EachFacts
<1>4. ASSUME NEW x \in Range(F) PROVE StepOK(x)
  <2>1. PICK i \in DOMAIN s : x \in Range(t[i])
    BY <1>3
  <2>2. QED
    BY <2>1 DEF IsPlan
<1>5. QED
  BY <1>2, <1>3, <1>4 DEF IsPlan

\* One mount.
LEMMA PlanMount ==
  ASSUME NEW pt, NEW s, NEW sect, NEW r, NEW f, NEW scopes, NEW scope,
         IsSeq(pt.dec.rw), IsSeq(pt.dec.ro),
         \/ GoodScope(sect, scopes, scope)
         \/ scope = Abort /\ sect = "create-on-daemon" /\ scopes = {<<pt.at>>}
  PROVE  IsPlan(MountSteps(pt, s, sect, r, f, scopes, scope))
<1>1. PICK a : a = [at |-> pt.at, from |-> MountSrc(pt, f), dec |-> pt.dec]
  OBVIOUS
<1>2. PICK fl : fl = (IF IsMountCritical(pt, f) THEN scope ELSE OnlyLogged)
  OBVIOUS
<1>3. PICK x : x = Step("mount", a, sect, scopes, fl)
  OBVIOUS
<1>4. a.at = pt.at /\ a.dec = pt.dec
  BY <1>1
<1>5. x.op = "mount" /\ x.arg = a /\ x.sect = sect /\ x.scopes = scopes /\ x.fail = fl
  BY <1>3 DEF Step
<1>6. fl = scope \/ fl = OnlyLogged
  BY <1>2
<1>7. ASSUME x.fail \notin {OnlyLogged, Note}
      PROVE  \/ GoodScope(x.sect, x.scopes, x.fail)
             \/ x.fail = Abort /\ x.sect = "create-on-daemon" /\ x.scopes = {<<x.arg.at>>}
  <2>1. CASE fl = scope
    <3>1. x.fail = scope /\ x.arg.at = pt.at
      BY <1>4, <1>5, <2>1, Zenon
    <3>2. CASE GoodScope(sect, scopes, scope)
      BY <1>5, <3>1, <3>2, Zenon
    <3>3. CASE scope = Abort /\ sect = "create-on-daemon" /\ scopes = {<<pt.at>>}
      <4>1. x.scopes = {<<x.arg.at>>}
        BY <1>5, <3>1, <3>3
      <4>2. QED
        BY <1>5, <3>1, <3>3, <4>1
    <3>4. QED
      BY <3>2, <3>3
  <2>2. CASE fl = OnlyLogged
    BY <1>5, <1>7, <2>2
  <2>3. QED
    BY <1>6, <2>1, <2>2
<1>8. StepOK(x)
  BY <1>4, <1>5, <1>7 DEF StepOK, GoodScope
<1>9. MountSteps(pt, s, sect, r, f, scopes, scope) = <<>> \/ MountSteps(pt, s, sect, r, f, scopes, scope) = <<x>>
  BY <1>1, <1>2, <1>3, Zenon DEF MountSteps
<1>10. QED
  BY <1>8, <1>9, PlanNil, PlanOne

\* The mounts of a section.
LEMMA PlanMounts ==
  ASSUME NEW s, NEW sect, NEW r, NEW f, NEW scopes, NEW scope, HasPoints(s), GoodScope(sect, scopes, scope)
  PROVE  IsPlan(DoAllMntPointsMount(s, sect, r, f, scopes, scope))
<1>1. PICK t : t = [i \in DOMAIN s.mounts |-> MountSteps(s.mounts[i], s, sect, r, f, scopes, scope)]
  OBVIOUS
<1>2. IsSeq(s.mounts)
  BY DEF HasPoints
<1>3. ASSUME NEW i \in DOMAIN s.mounts PROVE IsPlan(t[i])
  <2>1. PICK pt : pt = s.mounts[i]
    OBVIOUS
  <2>2. IsSeq(pt.dec.rw) /\ IsSeq(pt.dec.ro)
    BY <2>1 DEF HasPoints, Range
  <2>3. t[i] = MountSteps(pt, s, sect, r, f, scopes, scope)
    BY <1>1, <2>1
  <2>4. QED
    BY <2>2, <2>3, PlanMount
<1>4. DOMAIN t = DOMAIN s.mounts /\ t \in [DOMAIN s.mounts -> Range(t)]
  BY <1>1 DEF Range
<1>5. DoAllMntPointsMount(s, sect, r, f, scopes, scope) = FlattenSeq(t)
  BY <1>1 DEF DoAllMntPointsMount, Each
<1>6. QED
  BY <1>2, <1>3, <1>4, <1>5, PlanEach

\* The create-on-daemon mounts.
LEMMA PlanDaemon ==
  ASSUME NEW s, NEW r, NEW f, HasPoints(s)
  PROVE  IsPlan(DoAllCreateOnDaemonMount(s, r, f))
<1> DEFINE Dir(pt) == Step("mkdir", pt.info, "create-on-daemon", {<<pt.at>>}, <<pt.at>>)
           Of(pt) == IF pt.src = "none" THEN <<>>
                     ELSE <<Dir(pt)>> \o MountSteps(pt, s, "create-on-daemon", r, f, {<<pt.at>>}, Abort)
<1>1. PICK t : t = [i \in DOMAIN s.mounts |-> Of(s.mounts[i])]
  OBVIOUS
<1>2. IsSeq(s.mounts)
  BY DEF HasPoints
<1>3. ASSUME NEW i \in DOMAIN s.mounts PROVE IsPlan(t[i])
  <2>1. PICK pt : pt = s.mounts[i]
    OBVIOUS
  <2>2. IsSeq(pt.dec.rw) /\ IsSeq(pt.dec.ro)
    BY <2>1 DEF HasPoints, Range
  <2>3. PICK x : x = Dir(pt)
    OBVIOUS
  <2>4. x.op = "mkdir"
    BY <2>3 DEF Step
  <2>5. IsPlan(<<x>>)
    BY <2>4, PlanOne DEF StepOK
  <2>6. PICK m : m = MountSteps(pt, s, "create-on-daemon", r, f, {<<pt.at>>}, Abort)
    OBVIOUS
  <2>7. IsPlan(m)
    BY <2>2, <2>6, PlanMount
  <2>8. t[i] = <<>> \/ t[i] = <<x>> \o m
    BY <1>1, <2>1, <2>3, <2>6
  <2>9. QED
    BY <2>5, <2>7, <2>8, PlanNil, PlanJoin
<1>4. DOMAIN t = DOMAIN s.mounts /\ t \in [DOMAIN s.mounts -> Range(t)]
  BY <1>1 DEF Range
<1>5. DoAllCreateOnDaemonMount(s, r, f) = FlattenSeq(t)
  BY <1>1 DEF DoAllCreateOnDaemonMount, Each
<1>6. QED
  BY <1>2, <1>3, <1>4, <1>5, PlanEach

\* A step that is no mount.
LEMMA PlanOther ==
  ASSUME NEW op, NEW arg, NEW sect, NEW scopes, NEW fail, op # "mount"
  PROVE  IsPlan(<<Step(op, arg, sect, scopes, fail)>>)
<1>1. PICK x : x = Step(op, arg, sect, scopes, fail)
  OBVIOUS
<1>2. x.op = op
  BY <1>1 DEF Step
<1>3. StepOK(x)
  BY <1>2 DEF StepOK
<1>4. QED
  BY <1>1, <1>3, PlanOne

\* The links of a section.
LEMMA PlanLinks ==
  ASSUME NEW s, NEW scopes, NEW scope, IsSeq(s.links)
  PROVE  IsPlan(DoAllSymlinkPointslink(s, scopes, scope))
<1> DEFINE Of(l) == <<Step("symlink", l.name, "symlink", scopes, IF l.must THEN scope ELSE OnlyLogged)>>
<1>1. PICK t : t = [i \in DOMAIN s.links |-> Of(s.links[i])]
  OBVIOUS
<1>2. ASSUME NEW i \in DOMAIN s.links PROVE IsPlan(t[i])
  <2>1. PICK l : l = s.links[i]
    OBVIOUS
  <2>2. PICK fl : fl = IF l.must THEN scope ELSE OnlyLogged
    OBVIOUS
  <2>3. t[i] = <<Step("symlink", l.name, "symlink", scopes, fl)>>
    BY <1>1, <2>1, <2>2
  <2>4. QED
    BY <2>3, PlanOther
<1>3. DOMAIN t = DOMAIN s.links /\ t \in [DOMAIN s.links -> Range(t)]
  BY <1>1 DEF Range
<1>4. DoAllSymlinkPointslink(s, scopes, scope) = FlattenSeq(t)
  BY <1>1 DEF DoAllSymlinkPointslink, Each
<1>5. QED
  BY <1>2, <1>3, <1>4, PlanEach

\* The groups of a section.
LEMMA PlanGids ==
  ASSUME NEW s, NEW sect, IsSeq(s.gids)
  PROVE  IsPlan(DoAddGid(s, sect))
<1> DEFINE Of(g) == IF g = 0 THEN <<>> ELSE <<Step("gid", g, sect, {}, OnlyLogged)>>
<1>1. PICK t : t = [i \in DOMAIN s.gids |-> Of(s.gids[i])]
  OBVIOUS
<1>2. ASSUME NEW i \in DOMAIN s.gids PROVE IsPlan(t[i])
  <2>1. PICK g : g = s.gids[i]
    OBVIOUS
  <2>2. t[i] = <<>> \/ t[i] = <<Step("gid", g, sect, {}, OnlyLogged)>>
    BY <1>1, <2>1
  <2>3. IsPlan(<<Step("gid", g, sect, {}, OnlyLogged)>>)
    BY PlanOther
  <2>4. QED
    BY <2>2, <2>3, PlanNil
<1>3. DOMAIN t = DOMAIN s.gids /\ t \in [DOMAIN s.gids -> Range(t)]
  BY <1>1 DEF Range
<1>4. DoAddGid(s, sect) = FlattenSeq(t)
  BY <1>1 DEF DoAddGid, Each
<1>5. QED
  BY <1>2, <1>3, <1>4, PlanEach

\* The flag points of a section.
LEMMA PlanFlags ==
  ASSUME NEW s, NEW sect, NEW r, NEW f, NEW scopes, NEW scope, GoodScope(sect, scopes, scope),
         IsSeq(s.flagPoints), \A p \in Range(s.flagPoints) : HasPoints(p)
  PROVE  IsPlan(HandleFlagsPoint(s, sect, r, f, scopes, scope))
<1> DEFINE Lk(p) == DoAllSymlinkPointslink(p, scopes \cup {<<sect, p.flag>>}, <<sect, p.flag>>)
           Mt(p) == DoAllMntPointsMount(p, sect, r, f, scopes, scope)
           Of(p) == IF ~FlagHolds(p.flag, f) THEN <<>>
                    ELSE (IF p.flag \in {"PREINSTALLED_HAP", "PREINSTALLED_SHELL_HAP"} THEN <<>> ELSE Lk(p)) \o Mt(p)
<1>1. PICK t : t = [i \in DOMAIN s.flagPoints |-> Of(s.flagPoints[i])]
  OBVIOUS
<1>2. ASSUME NEW i \in DOMAIN s.flagPoints PROVE IsPlan(t[i])
  <2>1. PICK p : p = s.flagPoints[i]
    OBVIOUS
  <2>2. HasPoints(p)
    BY <2>1 DEF Range
  <2>3. t[i] = Of(p)
    BY <1>1, <2>1
  <2>4. PICK l, m : l = Lk(p) /\ m = Mt(p)
    OBVIOUS
  <2>5. t[i] \in {<<>>, <<>> \o m, l \o m}
    BY <2>3, <2>4, Zenon
  <2>6. IsPlan(m)
    BY <2>2, <2>4, PlanMounts
  <2>7. IsPlan(l)
    BY <2>2, <2>4, PlanLinks DEF HasPoints
  <2>8. IsPlan(<<>> \o m) /\ IsPlan(l \o m)
    BY <2>6, <2>7, PlanNil, PlanJoin
  <2>9. QED
    BY <2>5, <2>8, PlanNil, Zenon
<1>3. DOMAIN t = DOMAIN s.flagPoints /\ t \in [DOMAIN s.flagPoints -> Range(t)]
  BY <1>1 DEF Range
<1>4. HandleFlagsPoint(s, sect, r, f, scopes, scope) = FlattenSeq(t)
  BY <1>1 DEF HandleFlagsPoint, Each
<1>5. QED
  BY <1>2, <1>3, <1>4, PlanEach

\* A selection from a sequence of directories.
LEMMA SelectedDirs ==
  ASSUME NEW s, NEW t, IsSeq(s), DOMAIN t = DOMAIN s, t \in [DOMAIN s -> Range(t)],
         \A i \in DOMAIN s : t[i] = <<>> \/ t[i] = <<s[i]>>
  PROVE  /\ IsSeq(FlattenSeq(t))
         /\ \A x \in Range(FlattenSeq(t)) : \E i \in DOMAIN s : x = s[i] /\ t[i] = <<x>>
<1>1. \A i \in DOMAIN s : IsSeq(t[i])
  BY EmptyFacts, OneFacts
<1>2. PICK F : F = FlattenSeq(t)
  OBVIOUS
<1>3. IsSeq(F) /\ Range(F) = UNION {Range(t[i]) : i \in DOMAIN s}
  BY <1>1, <1>2, EachFacts
<1>4. ASSUME NEW x \in Range(F) PROVE \E i \in DOMAIN s : x = s[i] /\ t[i] = <<x>>
  <2>1. PICK i \in DOMAIN s : x \in Range(t[i])
    BY <1>3
  <2>2. PICK y : y = s[i]
    OBVIOUS
  <2>3. Range(<<>>) = {} /\ Range(<<y>>) = {y}
    BY EmptyFacts, OneFacts
  <2>4. t[i] = <<>> \/ t[i] = <<y>>
    BY <2>2
  <2>5. QED
    BY <2>1, <2>2, <2>3, <2>4, Zenon
<1>5. QED
  BY <1>2, <1>3, <1>4

\* The directories that have an application document.
LEMMA AppDirsFacts ==
  /\ IsSeq(AppDirs)
  /\ \A d \in Range(AppDirs) : d \in Range(Dirs) /\ d.app # NoDoc
<1>1. PICK t : t = [i \in DOMAIN Dirs |-> IF Dirs[i].app = NoDoc THEN <<>> ELSE <<Dirs[i]>>]
  OBVIOUS
<1>2. AppDirs = FlattenSeq(t)
  BY <1>1 DEF AppDirs, Each
<1>3. DOMAIN t = DOMAIN Dirs /\ t \in [DOMAIN Dirs -> Range(t)] /\ IsSeq(Dirs)
  BY <1>1, ConfigAssumption DEF Range
<1>4. \A i \in DOMAIN Dirs : t[i] = <<>> \/ t[i] = <<Dirs[i]>>
  BY <1>1
<1>5. PICK F : F = FlattenSeq(t)
  OBVIOUS
<1>6. IsSeq(F) /\ \A x \in Range(F) : \E i \in DOMAIN Dirs : x = Dirs[i] /\ t[i] = <<x>>
  BY <1>3, <1>4, <1>5, SelectedDirs
<1>7. ASSUME NEW d \in Range(F) PROVE d \in Range(Dirs) /\ d.app # NoDoc
  <2>1. PICK i \in DOMAIN Dirs : d = Dirs[i] /\ t[i] = <<d>>
    BY <1>6
  <2>2. <<d>> # <<>>
    BY EmptyFacts, OneFacts
  <2>3. Dirs[i].app # NoDoc
    BY <1>1, <2>1, <2>2
  <2>4. QED
    BY <2>1, <2>3 DEF Range
<1>8. QED
  BY <1>2, <1>5, <1>6, <1>7

\* And those of them that also have an isolated document.
LEMMA IsolatedDirsFacts ==
  /\ IsSeq(IsolatedDirs)
  /\ \A d \in Range(IsolatedDirs) : d \in Range(Dirs) /\ d.isolated # NoDoc
<1>1. PICK A : A = AppDirs
  OBVIOUS
<1>2. PICK t : t = [i \in DOMAIN A |-> IF A[i].isolated = NoDoc THEN <<>> ELSE <<A[i]>>]
  OBVIOUS
<1>3. IsolatedDirs = FlattenSeq(t)
  BY <1>1, <1>2 DEF IsolatedDirs, Each
<1>4. DOMAIN t = DOMAIN A /\ t \in [DOMAIN A -> Range(t)] /\ IsSeq(A)
  BY <1>1, <1>2, AppDirsFacts DEF Range
<1>5. \A i \in DOMAIN A : t[i] = <<>> \/ t[i] = <<A[i]>>
  BY <1>2
<1>6. PICK F : F = FlattenSeq(t)
  OBVIOUS
<1>7. IsSeq(F) /\ \A x \in Range(F) : \E i \in DOMAIN A : x = A[i] /\ t[i] = <<x>>
  BY <1>4, <1>5, <1>6, SelectedDirs
<1>8. ASSUME NEW d \in Range(F) PROVE d \in Range(Dirs) /\ d.isolated # NoDoc
  <2>1. PICK i \in DOMAIN A : d = A[i] /\ t[i] = <<d>>
    BY <1>7
  <2>2. <<d>> # <<>>
    BY EmptyFacts, OneFacts
  <2>3. A[i].isolated # NoDoc
    BY <1>2, <2>1, <2>2
  <2>4. d \in Range(A)
    BY <2>1 DEF Range
  <2>5. QED
    BY <1>1, <2>1, <2>3, <2>4, AppDirsFacts
<1>9. QED
  BY <1>3, <1>6, <1>7, <1>8

\* The documents that are walked are documents.
LEMMA DocumentsFacts ==
  ASSUME NEW isolated \in BOOLEAN
  PROVE  /\ IsSeq(Documents(isolated))
         /\ \A i \in DOMAIN Documents(isolated) :
               /\ IsDocument(Documents(isolated)[i])
               /\ isolated => Documents(isolated)[i].debug = NoSection
<1>1. PICK t : t = Documents(isolated)
  OBVIOUS
<1>2. CASE isolated
  <2>1. PICK A : A = IsolatedDirs
    OBVIOUS
  <2>2. IsSeq(A) /\ \A d \in Range(A) : d \in Range(Dirs) /\ d.isolated # NoDoc
    BY <2>1, IsolatedDirsFacts
  <2>3. PICK n \in Nat : n = Len(A) /\ DOMAIN A = 1..n
    BY <2>2, SeqFacts
  <2>4. t = [i \in 1..n |-> A[i].isolated]
    BY <1>1, <1>2, <2>1, <2>3 DEF Documents
  <2>5. \A i \in 1..n : IsDocument(t[i]) /\ t[i].debug = NoSection
    <3>1. SUFFICES ASSUME NEW i \in 1..n PROVE IsDocument(t[i]) /\ t[i].debug = NoSection
      OBVIOUS
    <3>2. PICK d : d = A[i] /\ d \in Range(A)
      BY <2>2, <2>3, SeqFacts
    <3>3. t[i] = d.isolated
      BY <2>4, <3>2
    <3>4. QED
      BY <2>2, <3>2, <3>3, ConfigAssumption
  <2>6. t \in [1..n -> Range(t)]
    BY <2>4 DEF Range
  <2>7. IsSeq(t) /\ DOMAIN t = 1..n
    BY <2>4, <2>6, SeqIntro
  <2>8. QED
    BY <1>1, <2>5, <2>7
<1>3. CASE ~isolated
  <2>1. PICK A : A = AppDirs
    OBVIOUS
  <2>2. IsSeq(A) /\ \A d \in Range(A) : d \in Range(Dirs) /\ d.app # NoDoc
    BY <2>1, AppDirsFacts
  <2>3. PICK n \in Nat : n = Len(A) /\ DOMAIN A = 1..n
    BY <2>2, SeqFacts
  <2>4. t = [i \in 1..n |-> A[i].app]
    BY <1>1, <1>3, <2>1, <2>3 DEF Documents
  <2>5. \A i \in 1..n : IsDocument(t[i])
    <3>1. SUFFICES ASSUME NEW i \in 1..n PROVE IsDocument(t[i])
      OBVIOUS
    <3>2. PICK d : d = A[i] /\ d \in Range(A)
      BY <2>2, <2>3, SeqFacts
    <3>3. t[i] = d.app
      BY <2>4, <3>2
    <3>4. QED
      BY <2>2, <3>2, <3>3, ConfigAssumption
  <2>6. t \in [1..n -> Range(t)]
    BY <2>4 DEF Range
  <2>7. IsSeq(t) /\ DOMAIN t = 1..n
    BY <2>4, <2>6, SeqIntro
  <2>8. QED
    BY <1>1, <1>3, <2>5, <2>7
<1>4. QED
  BY <1>2, <1>3

\* The documents a message selects are documents of the configuration.
LEMMA DocsFacts ==
  ASSUME NEW f
  PROVE  IsSeq(Docs(f)) /\ \A i \in DOMAIN Docs(f) : IsDocument(Docs(f)[i])
<1>1. Documents("ISOLATED_TYPE" \in f) = IF "ISOLATED_TYPE" \in f THEN Documents(TRUE) ELSE Documents(FALSE)
  BY DEF Documents
<1>2. Docs(f) = Documents(TRUE) \/ Docs(f) = Documents(FALSE)
  BY <1>1 DEF Docs
<1>3. QED
  BY <1>2, DocumentsFacts

\* The common sections of a document.
LEMMA PlanCommon ==
  ASSUME NEW d, NEW r, NEW f, IsDocument(d)
  PROVE  IsPlan(CommonSteps(d, r, f))
<1>1. /\ Reaches(d, 1) => d.base # NoSection
      /\ Reaches(d, 2) => d.resources # NoSection
      /\ Reaches(d, 3) => d.daemon # NoSection
      /\ Reaches(d, 4) => d.nocheck # NoSection
  <2>1. PICK all : all = <<d.base, d.resources, d.daemon, d.nocheck>>
    OBVIOUS
  <2>2. all[1] = d.base /\ all[2] = d.resources /\ all[3] = d.daemon /\ all[4] = d.nocheck
    BY <2>1
  <2>3. \A k \in 1..4 : Reaches(d, k) => all[k] # NoSection
    BY <2>1 DEF Reaches
  <2>4. QED
    BY <2>2, <2>3
<1>2. \A s \in {d.base, d.resources, d.daemon, d.nocheck} : s # NoSection => IsSection(s)
  BY DEF IsDocument
<1>3. \A s : IsSection(s) => HasPoints(s) /\ IsSeq(s.links)
  BY DEF IsSection, HasPoints
<1>4. \A sect : GoodScope(sect, {}, Abort)
  BY DEF GoodScope
<1>5. PICK b1, b2, b3, b4 :
        /\ b1 = (IF Reaches(d, 1) THEN DoAllMntPointsMount(d.base, "app-base", r, f, {}, Abort) ELSE <<>>)
        /\ b2 = (IF Reaches(d, 2) THEN DoAllMntPointsMount(d.resources, "app-resources", r, f, {}, Abort) ELSE <<>>)
        /\ b3 = (IF Reaches(d, 3) THEN DoAllCreateOnDaemonMount(d.daemon, r, f) ELSE <<>>)
        /\ b4 = (IF Reaches(d, 4) THEN DoAllMntPointsMount(d.nocheck, "app-nocheck", r, f, {}, Abort) ELSE <<>>)
  OBVIOUS
<1>6. IsPlan(b1) /\ IsPlan(b2) /\ IsPlan(b3) /\ IsPlan(b4)
  BY <1>1, <1>2, <1>3, <1>4, <1>5, PlanMounts, PlanDaemon, PlanNil
<1>7. PICK c : c = DoSandboxFileCommonBind(d, r, f)
  OBVIOUS
<1>8. IsPlan(c)
  <2>1. c = b1 \o b2 \o b3 \o b4
    BY <1>5, <1>7, Zenon DEF DoSandboxFileCommonBind
  <2>2. QED
    BY <1>6, <2>1, PlanJoin
<1>9. PICK l1, l2 :
        /\ l1 = (IF Reaches(d, 1) THEN DoAllSymlinkPointslink(d.base, {}, Abort) ELSE <<>>)
        /\ l2 = (IF Reaches(d, 2) THEN DoAllSymlinkPointslink(d.resources, {}, Abort) ELSE <<>>)
  OBVIOUS
<1>10. IsPlan(l1) /\ IsPlan(l2)
  BY <1>1, <1>2, <1>3, <1>9, PlanLinks, PlanNil
<1>11. PICK l : l = IF IsTotalSandboxEnabled(Docs(f)) THEN DoSandboxFileCommonSymlink(d) ELSE <<>>
  OBVIOUS
<1>12. IsPlan(l)
  <2>1. DoSandboxFileCommonSymlink(d) = l1 \o l2
    BY <1>9, Zenon DEF DoSandboxFileCommonSymlink
  <2>2. QED
    BY <1>10, <1>11, <2>1, PlanJoin, PlanNil
<1>13. PICK p : p = IF d.common /\ d.resources # NoSection
                    THEN HandleFlagsPoint(d.resources, "flags-point", r, f, {}, Abort) ELSE <<>>
  OBVIOUS
<1>14. IsPlan(p)
  <2>1. CASE d.resources # NoSection
    <3>1. IsSection(d.resources)
      BY <1>2, <2>1
    <3>2. IsPlan(HandleFlagsPoint(d.resources, "flags-point", r, f, {}, Abort))
      BY <1>4, <3>1, PlanFlags DEF IsSection
    <3>3. QED
      BY <1>13, <3>2, PlanNil
  <2>2. CASE d.resources = NoSection
    BY <1>13, <2>2, PlanNil
  <2>3. QED
    BY <2>1, <2>2
<1>15. CommonSteps(d, r, f) = c \o l \o p
  BY <1>7, <1>11, <1>13, Zenon DEF CommonSteps
<1>16. QED
  BY <1>8, <1>12, <1>14, <1>15, PlanJoin

\* A mount that is not configured; its failure never leaves a scope.
LEMMA PlanPlain ==
  ASSUME NEW at, NEW sect, NEW fail, fail \in {Abort, OnlyLogged, Note}
  PROVE  IsPlan(<<Step("mount", [at |-> at, from |-> at, dec |-> NoDec], sect, {}, fail)>>)
<1>1. PICK a : a = [at |-> at, from |-> at, dec |-> NoDec]
  OBVIOUS
<1>2. PICK x : x = Step("mount", a, sect, {}, fail)
  OBVIOUS
<1>3. x.op = "mount" /\ x.arg = a /\ x.scopes = {} /\ x.fail = fail
  BY <1>2 DEF Step
<1>4. a.dec.rw = <<>> /\ a.dec.ro = <<>>
  BY <1>1 DEF NoDec
<1>5. StepOK(x)
  BY <1>3, <1>4, EmptyFacts DEF StepOK
<1>6. QED
  BY <1>1, <1>2, <1>5, PlanOne

\* An entry of the hsp or the data group list.
LEMMA PlanEntry ==
  ASSUME NEW e, NEW sect, NEW r
  PROVE  IsPlan(ListEntry(e, sect, r))
<1>1. PICK a, b : /\ a = <<Step("malformed", e, sect, {}, Abort)>>
                  /\ b = <<Step("mount", [at |-> e, from |-> e, dec |-> NoDec], sect, {}, OnlyLogged)>>
  OBVIOUS
<1>2. IsPlan(a) /\ IsPlan(b)
  BY <1>1, PlanOther, PlanPlain
<1>3. ListEntry(e, sect, r) \in {a, b, <<>>}
  <2>1. CASE e = "bad"
    BY <1>1, <2>1 DEF ListEntry
  <2>2. CASE e # "bad" /\ e = "el5" /\ "SCREEN_LOCK" \notin r.perms
    BY <1>1, <2>2 DEF ListEntry
  <2>3. CASE e # "bad" /\ ~(e = "el5" /\ "SCREEN_LOCK" \notin r.perms)
    BY <1>1, <2>3 DEF ListEntry
  <2>4. QED
    BY <2>1, <2>2, <2>3
<1>4. QED
  BY <1>2, <1>3, PlanNil, Zenon

\* A whole such list.
LEMMA PlanLists ==
  ASSUME NEW s, NEW sect, NEW r, IsSeq(s)
  PROVE  IsPlan(FlattenSeq([i \in DOMAIN s |-> ListEntry(s[i], sect, r)]))
<1>1. PICK t : t = [i \in DOMAIN s |-> ListEntry(s[i], sect, r)]
  OBVIOUS
<1>2. \A i \in DOMAIN s : IsPlan(t[i])
  BY <1>1, PlanEntry
<1>3. DOMAIN t = DOMAIN s /\ t \in [DOMAIN s -> Range(t)]
  BY <1>1 DEF Range
<1>4. IsPlan(FlattenSeq(t))
  BY <1>2, <1>3, PlanEach
<1>5. QED
  BY <1>1, <1>4

\* The plan of each part of SetAppSandboxProperty.
LEMMA PlanSetCommon ==
  ASSUME NEW r \in Requests, NEW f
  PROVE  IsPlan(SetCommonAppSandboxProperty(r, f))
<1>1. PICK docs : docs = Docs(f)
  OBVIOUS
<1>2. PICK t : t = [i \in DOMAIN docs |-> CommonSteps(docs[i], r, f)]
  OBVIOUS
<1>3. IsSeq(docs) /\ \A i \in DOMAIN docs : IsDocument(docs[i])
  BY <1>1, DocsFacts
<1>4. \A i \in DOMAIN docs : IsPlan(t[i])
  BY <1>2, <1>3, PlanCommon
<1>5. DOMAIN t = DOMAIN docs /\ t \in [DOMAIN docs -> Range(t)]
  BY <1>2 DEF Range
<1>6. PICK a, h, g :
        /\ a = FlattenSeq(t)
        /\ h = MountAllHsp(r) /\ g = MountAllGroup(r)
  OBVIOUS
<1>7. IsPlan(a)
  BY <1>3, <1>4, <1>5, <1>6, PlanEach
<1>8. IsSeq(r.hsp) /\ IsSeq(r.groups)
  BY RequestsAssumption
<1>9. IsPlan(h) /\ IsPlan(g)
  <2>1. PICK hs, gs : hs = r.hsp /\ gs = r.groups
    OBVIOUS
  <2>2. /\ h = FlattenSeq([i \in DOMAIN hs |-> ListEntry(hs[i], "hsp", r)])
        /\ g = FlattenSeq([i \in DOMAIN gs |-> ListEntry(gs[i], "group", r)])
    BY <1>6, <2>1 DEF MountAllHsp, MountAllGroup, Each
  <2>3. QED
    BY <1>8, <2>1, <2>2, PlanLists
<1>10. PICK x, y : /\ x = <<Step("malformed", "domain", "common", {}, Abort)>>
                   /\ y = <<Step("mount", [at |-> "bundles", from |-> "bundles", dec |-> NoDec], "common", {}, OnlyLogged)>>
  OBVIOUS
<1>11. IsPlan(x) /\ IsPlan(y)
  BY <1>10, PlanOther, PlanPlain
<1>12. PICK z : z = CASE r.domain = "none" -> x
                      [] r.domain \in {"system_basic", "system_core"} \/ "ACCESS_BUNDLE_DIR" \in f -> y
                      [] OTHER -> <<>>
  OBVIOUS
<1>13. z \in {x, y, <<>>}
  BY <1>12
<1>14. IsPlan(z)
  BY <1>11, <1>13, PlanNil, Zenon
<1>15. SetCommonAppSandboxProperty(r, f) = a \o h \o g \o z
  BY <1>1, <1>2, <1>6, <1>10, <1>12 DEF SetCommonAppSandboxProperty, EachDoc
<1>16. QED
  BY <1>7, <1>9, <1>14, <1>15, PlanJoin

\* The private sections of the bundle.
LEMMA PlanPrivate ==
  ASSUME NEW d, NEW i, NEW r, NEW f, IsDocument(d)
  PROVE  IsPlan(PrivateSteps(d, i, r, f))
<1>1. CASE ~d.individual \/ r.bundle \notin DOMAIN d.private
  BY <1>1, PlanNil DEF PrivateSteps
<1>2. CASE ~(~d.individual \/ r.bundle \notin DOMAIN d.private)
  <2>1. PICK s : s = d.private[r.bundle]
    OBVIOUS
  <2>2. IsSection(s)
    BY <1>2, <2>1 DEF IsDocument
  <2>3. PICK sc : sc = <<"private", i>>
    OBVIOUS
  <2>4. PICK a, b, l, p :
          /\ a = DoAddGid(s, "individual") /\ b = DoAllMntPointsMount(s, "individual", r, f, {}, Abort)
          /\ l = DoAllSymlinkPointslink(s, {sc}, sc)
          /\ p = HandleFlagsPoint(s, "individual-flags", r, f, {}, Abort)
    OBVIOUS
  <2>5. \A sect : GoodScope(sect, {}, Abort)
    BY DEF GoodScope
  <2>6. HasPoints(s) /\ IsSeq(s.gids) /\ IsSeq(s.links)
    BY <2>2 DEF IsSection, HasPoints
  <2>7. IsPlan(a) /\ IsPlan(b) /\ IsPlan(l)
    BY <2>4, <2>5, <2>6, PlanGids, PlanMounts, PlanLinks
  <2>8. IsPlan(p)
    BY <2>2, <2>4, <2>5, PlanFlags DEF IsSection
  <2>9. PICK o : o = IF OwnsPrivate(s, r) THEN a \o b ELSE <<>>
    OBVIOUS
  <2>10. IsPlan(o)
    BY <2>7, <2>9, PlanJoin, PlanNil
  <2>11. PrivateSteps(d, i, r, f) = o \o l \o p
    BY <1>2, <2>1, <2>3, <2>4, <2>9, Zenon DEF PrivateSteps
  <2>12. QED
    BY <2>7, <2>8, <2>10, <2>11, PlanJoin
<1>3. QED
  BY <1>1, <1>2

\* The sections of the permissions the application holds.
LEMMA PlanPermission ==
  ASSUME NEW d, NEW i, NEW r, NEW f, IsDocument(d)
  PROVE  IsPlan(PermissionSteps(d, i, r, f))
<1> DEFINE Of(p) == IF p.perm \notin r.perms THEN <<>>
                    ELSE DoAddGid(p, "permission") \o DoAllMntPointsMount(p, "permission", r, f, {}, Abort)
                         \o DoAllSymlinkPointslink(p, {<<p.perm, i>>}, <<p.perm, i>>)
<1>1. PICK s : s = d.permission
  OBVIOUS
<1>2. PICK t : t = [k \in DOMAIN s |-> Of(s[k])]
  OBVIOUS
<1>3. IsSeq(s) /\ \A p \in Range(s) : HasPoints(p) /\ IsSeq(p.gids)
  BY <1>1 DEF IsDocument
<1>4. ASSUME NEW k \in DOMAIN s PROVE IsPlan(t[k])
  <2>1. PICK p : p = s[k]
    OBVIOUS
  <2>2. HasPoints(p) /\ IsSeq(p.gids) /\ IsSeq(p.links)
    BY <1>3, <2>1 DEF Range, HasPoints
  <2>3. PICK sc : sc = <<p.perm, i>>
    OBVIOUS
  <2>4. \A sect : GoodScope(sect, {}, Abort)
    BY DEF GoodScope
  <2>5. PICK a, b, l :
          /\ a = DoAddGid(p, "permission") /\ b = DoAllMntPointsMount(p, "permission", r, f, {}, Abort)
          /\ l = DoAllSymlinkPointslink(p, {sc}, sc)
    OBVIOUS
  <2>6. IsPlan(a) /\ IsPlan(b) /\ IsPlan(l)
    BY <2>2, <2>4, <2>5, PlanGids, PlanMounts, PlanLinks
  <2>7. t[k] = <<>> \/ t[k] = a \o b \o l
    BY <1>2, <2>1, <2>3, <2>5
  <2>8. QED
    BY <2>6, <2>7, PlanJoin, PlanNil
<1>5. DOMAIN t = DOMAIN s /\ t \in [DOMAIN s -> Range(t)]
  BY <1>2 DEF Range
<1>6. PermissionSteps(d, i, r, f) = FlattenSeq(t)
  BY <1>1, <1>2 DEF PermissionSteps, Each
<1>7. QED
  BY <1>3, <1>4, <1>5, <1>6, PlanEach

\* The overlays, and the bundle resources.
LEMMA PlanOverlay ==
  ASSUME NEW r \in Requests, NEW f
  PROVE  IsPlan(SetOverlayAppSandboxProperty(r, f)) /\ IsPlan(SetBundleResourceAppSandboxProperty(f))
<1> DEFINE Of(o) == <<Step("mount", [at |-> o, from |-> o, dec |-> NoDec], "overlay", {}, Note)>>
<1>1. PICK s : s = r.overlays
  OBVIOUS
<1>2. PICK t : t = [k \in DOMAIN s |-> Of(s[k])]
  OBVIOUS
<1>3. \A k \in DOMAIN s : IsPlan(t[k])
  BY <1>2, PlanPlain
<1>4. DOMAIN t = DOMAIN s /\ t \in [DOMAIN s -> Range(t)] /\ IsSeq(s)
  BY <1>1, <1>2, RequestsAssumption DEF Range
<1>5. PICK a, b, c : /\ a = FlattenSeq(t) /\ b = <<Step("noted", "overlay", "overlay", {}, Abort)>>
                     /\ c = <<Step("mount", [at |-> "resources", from |-> "resources", dec |-> NoDec], "bundle", {}, Abort)>>
  OBVIOUS
<1>6. IsPlan(a)
  BY <1>3, <1>4, <1>5, PlanEach
<1>7. IsPlan(b) /\ IsPlan(c)
  BY <1>5, PlanOther, PlanPlain
<1>8. SetOverlayAppSandboxProperty(r, f) = <<>> \/ SetOverlayAppSandboxProperty(r, f) = a \o b
  BY <1>1, <1>2, <1>5 DEF SetOverlayAppSandboxProperty, Each
<1>9. SetBundleResourceAppSandboxProperty(f) = <<>> \/ SetBundleResourceAppSandboxProperty(f) = c
  BY <1>5 DEF SetBundleResourceAppSandboxProperty
<1>10. QED
  BY <1>6, <1>7, <1>8, <1>9, PlanJoin, PlanNil

\* The render process.
LEMMA PlanRender ==
  ASSUME mode = "nweb", NEW d, NEW i, NEW r, NEW f, IsDocument(d)
  PROVE  IsPlan(RenderSteps(d, i, r, f))
<1>1. CASE ~d.individual \/ r.processType \notin DOMAIN d.private
  BY <1>1, PlanNil DEF RenderSteps
<1>2. CASE ~(~d.individual \/ r.processType \notin DOMAIN d.private)
  <2>1. PICK s : s = d.private[r.processType]
    OBVIOUS
  <2>2. IsSection(s)
    BY <1>2, <2>1 DEF IsDocument
  <2>3. PICK sc : sc = <<"flags", i>>
    OBVIOUS
  <2>4. PICK b, l, p :
          /\ b = DoAllMntPointsMount(s, r.processType, r, f, {}, Abort)
          /\ l = DoAllSymlinkPointslink(s, {}, Abort)
          /\ p = HandleFlagsPoint(s, "individual-flags", r, f, {sc}, sc)
    OBVIOUS
  <2>5. GoodScope("individual-flags", {sc}, sc) /\ GoodScope(r.processType, {}, Abort)
    BY DEF GoodScope
  <2>6. HasPoints(s) /\ IsSeq(s.links)
    BY <2>2 DEF IsSection, HasPoints
  <2>7. IsPlan(b) /\ IsPlan(l)
    BY <2>4, <2>5, <2>6, PlanMounts, PlanLinks
  <2>8. IsPlan(p)
    BY <2>2, <2>4, <2>5, PlanFlags DEF IsSection
  <2>9. RenderSteps(d, i, r, f) = b \o l \o p
    BY <1>2, <2>1, <2>3, <2>4, Zenon DEF RenderSteps
  <2>10. QED
    BY <2>7, <2>8, <2>9, PlanJoin
<1>3. QED
  BY <1>1, <1>2

\* A whole plan of the nweb spawner.
LEMMA PlanNweb ==
  ASSUME mode = "nweb", NEW r \in Requests, NEW f
  PROVE  IsPlan(SetRenderSandboxPropertyNweb(r, f))
<1>1. PICK docs : docs = Docs(f)
  OBVIOUS
<1>2. PICK t : t = [i \in DOMAIN docs |-> RenderSteps(docs[i], i, r, f)]
  OBVIOUS
<1>3. IsSeq(docs) /\ \A i \in DOMAIN docs : IsDocument(docs[i])
  BY <1>1, DocsFacts
<1>4. \A i \in DOMAIN docs : IsPlan(t[i])
  BY <1>2, <1>3, PlanRender
<1>5. DOMAIN t = DOMAIN docs /\ t \in [DOMAIN docs -> Range(t)]
  BY <1>2 DEF Range
<1>6. PICK a, m, o, b : /\ a = FlattenSeq(t) /\ m = <<Step("malformed", "processType", "nweb", {}, Abort)>>
                        /\ o = SetOverlayAppSandboxProperty(r, f) /\ b = SetBundleResourceAppSandboxProperty(f)
  OBVIOUS
<1>7. IsPlan(a)
  BY <1>3, <1>4, <1>5, <1>6, PlanEach
<1>8. IsPlan(m) /\ IsPlan(o) /\ IsPlan(b)
  BY <1>6, PlanOther, PlanOverlay
<1>9. PICK x : x = IF r.processType = "none" THEN m ELSE a
  OBVIOUS
<1>10. SetRenderSandboxPropertyNweb(r, f) = x \o o \o b
  BY <1>1, <1>2, <1>6, <1>9 DEF SetRenderSandboxPropertyNweb, EachDoc
<1>11. IsPlan(x)
  BY <1>7, <1>8, <1>9
<1>12. QED
  BY <1>8, <1>10, <1>11, PlanJoin

\* A whole plan of appspawn or the native spawner.
LEMMA PlanApp ==
  ASSUME NEW r \in Requests, NEW f
  PROVE  IsPlan(SetSandboxProperty(r, f))
<1>1. PICK docs : docs = Docs(f)
  OBVIOUS
<1>2. PICK t, u : /\ t = [i \in DOMAIN docs |-> PrivateSteps(docs[i], i, r, f)]
                  /\ u = [i \in DOMAIN docs |-> PermissionSteps(docs[i], i, r, f)]
  OBVIOUS
<1>3. IsSeq(docs) /\ \A i \in DOMAIN docs : IsDocument(docs[i])
  BY <1>1, DocsFacts
<1>4. (\A i \in DOMAIN docs : IsPlan(t[i])) /\ (\A i \in DOMAIN docs : IsPlan(u[i]))
  BY <1>2, <1>3, PlanPrivate, PlanPermission
<1>5. /\ DOMAIN t = DOMAIN docs /\ t \in [DOMAIN docs -> Range(t)]
      /\ DOMAIN u = DOMAIN docs /\ u \in [DOMAIN docs -> Range(u)]
  BY <1>2 DEF Range
<1>6. PICK c, a, e, o, b : /\ c = SetCommonAppSandboxProperty(r, f) /\ a = FlattenSeq(t) /\ e = FlattenSeq(u)
                           /\ o = SetOverlayAppSandboxProperty(r, f) /\ b = SetBundleResourceAppSandboxProperty(f)
  OBVIOUS
<1>7. IsPlan(a)
  BY <1>3, <1>4, <1>5, <1>6, PlanEach
<1>8. IsPlan(e)
  BY <1>3, <1>4, <1>5, <1>6, PlanEach
<1>9. IsPlan(c) /\ IsPlan(o) /\ IsPlan(b)
  BY <1>6, PlanSetCommon, PlanOverlay
<1>10. PICK x : x = IF r.internal THEN <<>> ELSE a
  OBVIOUS
<1>11. SetSandboxProperty(r, f) = c \o x \o e \o o \o b
  BY <1>1, <1>2, <1>6, <1>10 DEF SetSandboxProperty, EachDoc
<1>12. IsPlan(x)
  BY <1>7, <1>10, PlanNil
<1>13. QED
  BY <1>8, <1>9, <1>11, <1>12, PlanJoin

\* Every request, in either mode, makes a plan of the configuration.
LEMMA PlanFacts ==
  ASSUME NEW r \in Requests, NEW f
  PROVE  IsPlan(PlanOf(r, f))
  BY PlanNweb, PlanApp DEF PlanOf

(***************************************************************************)
(* A sandbox that is entered is complete.                                  *)
(***************************************************************************)
Critical(s) == s.op = "mount" /\ s.fail \notin {OnlyLogged, Note}

\* The mount was made, or the code has given its point up.
Settled(s, m, l) ==
  \/ \E x \in m : x.at = s.arg.at /\ x.from = s.arg.from
  \/ s.sect = "create-on-daemon" /\ <<s.arg.at>> \in l
  \/ mode = "nweb" /\ s.sect = "individual-flags" /\ s.fail \in l

\* Every critical mount of the plan p is still to be made or settled.
Owed(p, t, m, l) == \A s \in Range(p) : Critical(s) => s \in Range(t) \/ Settled(s, m, l)

\* The phases in which the child's root is still that of the host.
Outside == {"idle", "ack", "load", "match", "install", "child", "check", "dlp", "unshare", "flags", "root", "plan"}

\* What is left of the plan while the steps are taken, and that the root is
\* changed only when nothing is left.
EnterInv ==
  /\ phase # "idle" => req \in Requests
  /\ phase \in Outside => root = "host"
  /\ phase = "plan" => /\ IsPlan(todo)
                       /\ Owed(PlanOf(req, flags), todo, mnt, lost)
  /\ root # "host" => Owed(PlanOf(req, flags), <<>>, mnt, lost)

\* The head of a sequence and what follows it.
LEMMA HeadTail ==
  ASSUME NEW t, IsSeq(t), t # <<>>
  PROVE  /\ Head(t) \in Range(t) /\ IsSeq(Tail(t)) /\ Range(Tail(t)) \subseteq Range(t)
         /\ \A x \in Range(t) : x = Head(t) \/ x \in Range(Tail(t))
<1>1. PICK S, n : S = Range(t) /\ t \in Seq(S) /\ n = Len(t) /\ n \in Nat
  BY SeqFacts DEF IsSeq
<1>2. PICK u, h : u = Tail(t) /\ h = Head(t)
  OBVIOUS
<1>3. /\ h \in S /\ u \in Seq(S) /\ Len(u) = n - 1
      /\ \A i \in 1..(n - 1) : u[i] = t[i + 1]
  BY <1>1, <1>2, HeadTailProperties
<1>4. IsSeq(u) /\ Range(u) \subseteq S
  BY <1>3, SeqElems
<1>5. h = t[1]
  BY <1>1, <1>2
<1>6. ASSUME NEW x \in Range(t) PROVE x = h \/ x \in Range(u)
  <2>1. PICK i \in 1..n : x = t[i]
    BY <1>1, SeqFacts
  <2>2. CASE i = 1
    BY <1>5, <2>1, <2>2
  <2>3. CASE i # 1
    <3>1. PICK k : k = i - 1 /\ k \in 1..(n - 1) /\ k + 1 = i
      BY <1>1, <2>3
    <3>2. u[k] = x
      BY <1>3, <2>1, <3>1
    <3>3. u[k] \in Range(u)
      BY <1>3, <1>4, <3>1, SeqFacts
    <3>4. QED
      BY <3>2, <3>3
  <2>4. QED
    BY <2>2, <2>3
<1>7. QED
  BY <1>1, <1>2, <1>3, <1>4, <1>6

\* A step that is done leaves the rest of the plan owed.
LEMMA GoOwes ==
  ASSUME NEW p, NEW t, NEW m, NEW l, NEW m2, NEW l2, IsPlan(t), t # <<>>, Owed(p, t, m, l),
         m \subseteq m2, l \subseteq l2, Critical(Head(t)) => Settled(Head(t), m2, l2)
  PROVE  IsPlan(Tail(t)) /\ Owed(p, Tail(t), m2, l2)
<1>1. IsPlan(Tail(t))
  BY HeadTail DEF IsPlan
<1>2. \A s : Settled(s, m, l) => Settled(s, m2, l2)
  BY DEF Settled
<1>3. PICK h, u : h = Head(t) /\ u = Tail(t)
  OBVIOUS
<1>4. \A x \in Range(t) : x = h \/ x \in Range(u)
  BY <1>3, HeadTail DEF IsPlan
<1>5. Critical(h) => Settled(h, m2, l2)
  BY <1>3
<1>6. Owed(p, u, m2, l2)
  BY <1>2, <1>4, <1>5 DEF Owed
<1>7. QED
  BY <1>1, <1>3, <1>6

\* Leaving a scope passes over no critical mount but those that are given up
\* with the scope.
LEMMA LeaveOwes ==
  ASSUME NEW p, NEW t, NEW m, NEW l, NEW m2, NEW l2, NEW n, IsPlan(t), t # <<>>, Owed(p, t, m, l),
         m \subseteq m2, l \subseteq l2, Head(t).fail \notin {Abort, OnlyLogged, Note}, Head(t).fail \in l2,
         n \in 1..(Len(Tail(t)) + 1), \A i \in 1..(n - 1) : Head(t).fail \in Tail(t)[i].scopes
  PROVE  /\ IsPlan(SubSeq(Tail(t), n, Len(Tail(t))))
         /\ Owed(p, SubSeq(Tail(t), n, Len(Tail(t))), m2, l2)
<1>1. PICK h, u, k : h = Head(t) /\ u = Tail(t) /\ k = Len(u)
  OBVIOUS
<1>2. IsSeq(u) /\ (\A x \in Range(t) : x = h \/ x \in Range(u)) /\ Range(u) \subseteq Range(t) /\ h \in Range(t)
  BY <1>1, HeadTail DEF IsPlan
<1>3. k \in Nat /\ n \in 1..(k + 1) /\ n \in Nat
  BY <1>1, <1>2, SeqFacts
<1>4. PICK v : v = SubSeq(u, n, k)
  OBVIOUS
<1>5. \A i \in n..k : u[i] \in Range(u)
  <2>1. \A i \in n..k : i \in 1..k
    BY <1>3
  <2>2. \A i \in 1..k : u[i] \in Range(u)
    BY <1>1, <1>2, SeqFacts
  <2>3. QED
    BY <2>1, <2>2
<1>6. /\ v \in Seq(Range(u)) /\ Len(v) = IF n <= k THEN k - n + 1 ELSE 0
      /\ \A i \in 1..(k - n + 1) : v[i] = u[n + i - 1]
  BY <1>3, <1>4, <1>5, SubSeqProperties
<1>7. IsSeq(v) /\ Range(v) \subseteq Range(u)
  BY <1>6, SeqElems
<1>8. IsPlan(v)
  BY <1>2, <1>7 DEF IsPlan
<1>9. StepOK(h) /\ h.fail \notin {Abort, OnlyLogged, Note}
  BY <1>1, <1>2 DEF IsPlan
<1>10. \A s : Settled(s, m, l) => Settled(s, m2, l2)
  BY DEF Settled
<1>11. ASSUME NEW i \in 1..k, i >= n PROVE u[i] \in Range(v)
  <2>1. PICK j : j = i - n + 1 /\ j \in 1..(k - n + 1) /\ n + j - 1 = i /\ n <= k
    BY <1>3, <1>11
  <2>2. v[j] = u[i] /\ j \in 1..Len(v)
    BY <1>6, <2>1
  <2>3. v[j] \in Range(v)
    BY <1>7, <2>2, SeqFacts
  <2>4. QED
    BY <2>2, <2>3
<1>12. ASSUME NEW i \in 1..k, i < n, Critical(u[i]) PROVE Settled(u[i], m2, l2)
  <2>1. PICK d : d = u[i]
    OBVIOUS
  <2>2. h.fail \in d.scopes
    BY <1>1, <1>3, <1>12, <2>1
  <2>3. StepOK(d)
    BY <1>1, <1>2, <2>1, SeqFacts DEF IsPlan
  <2>4. h.fail \in l2
    BY <1>1
  <2>5. \/ d.sect = "create-on-daemon" /\ d.scopes = {<<d.arg.at>>}
        \/ mode = "nweb" /\ d.sect = "individual-flags" /\ d.scopes = {d.fail}
    BY <1>12, <2>1, <2>2, <2>3 DEF StepOK, Critical
  <2>6. QED
    BY <2>1, <2>2, <2>4, <2>5 DEF Settled
<1>13. Critical(h) => Settled(h, m2, l2)
  BY <1>1, <1>9 DEF StepOK, Critical, Settled
<1>14. ASSUME NEW s \in Range(p), Critical(s) PROVE s \in Range(v) \/ Settled(s, m2, l2)
  <2>1. CASE s \in Range(t)
    <3>1. CASE s = h
      BY <1>13, <1>14, <3>1
    <3>2. CASE s \in Range(u)
      <4>1. PICK i \in 1..k : s = u[i]
        BY <1>1, <1>2, <3>2, SeqFacts
      <4>2. i >= n \/ i < n
        BY <1>3
      <4>3. QED
        BY <1>11, <1>12, <1>14, <4>1, <4>2
    <3>3. QED
      BY <1>2, <2>1, <3>1, <3>2
  <2>2. CASE Settled(s, m, l)
    BY <1>10, <2>2
  <2>3. QED
    BY <1>14, <2>1, <2>2 DEF Owed
<1>15. Owed(p, v, m2, l2)
  BY <1>14 DEF Owed
<1>16. QED
  BY <1>1, <1>4, <1>8, <1>15

\* The failure of a step: the child gives up, or what follows is still owed.
LEMMA LeaveKeeps ==
  ASSUME NEW p, IsPlan(todo), todo # <<>>, Owed(p, todo, mnt, lost), Leave,
         mnt \subseteq mnt'
  PROVE  \/ phase' = "ended"
         \/ phase' = phase /\ IsPlan(todo') /\ Owed(p, todo', mnt', lost')
<1>1. PICK s, rest : s = Head(todo) /\ rest = Tail(todo)
  OBVIOUS
<1>2. CASE s.fail = Abort
  <2>1. Abort \notin {OnlyLogged, Note}
    BY DEF OnlyLogged, Note, Abort
  <2>2. Fail
    BY <1>1, <1>2, <2>1 DEF Leave
  <2>3. QED
    BY <2>2 DEF Fail, Ended
<1>3. CASE s.fail \in {OnlyLogged, Note}
  <2>1. OnlyLogged # Abort /\ Note # Abort
    BY DEF OnlyLogged, Note, Abort
  <2>2. s.fail # Abort
    BY <1>3, <2>1
  <2>3. todo' = Tail(todo) /\ phase' = phase /\ lost \subseteq lost'
    BY <1>1, <1>3, <2>2 DEF Leave
  <2>4. ~Critical(Head(todo))
    BY <1>1, <1>3 DEF Critical
  <2>5. IsPlan(Tail(todo)) /\ Owed(p, Tail(todo), mnt', lost')
    BY <2>3, <2>4, GoOwes
  <2>6. QED
    BY <2>3, <2>5
<1>4. CASE s.fail \notin {Abort, OnlyLogged, Note}
  <2> DEFINE later == {i \in DOMAIN rest : s.fail \notin rest[i].scopes}
             next == IF later = {} THEN Len(rest) + 1 ELSE CHOOSE i \in later : \A j \in later : i <= j
  <2>1. phase' = phase /\ todo' = SubSeq(rest, next, Len(rest)) /\ lost' = lost \union {s.fail}
    BY <1>1, <1>4, Zenon DEF Leave
  <2>2. IsSeq(rest)
    BY <1>1, HeadTail DEF IsPlan
  <2>3. PICK k \in Nat : k = Len(rest) /\ DOMAIN rest = 1..k
    BY <2>2, SeqFacts
  <2>4. next \in 1..(k + 1) /\ \A i \in 1..(next - 1) : s.fail \in rest[i].scopes
    <3>1. CASE later = {}
      <4>1. next = k + 1 /\ next \in 1..(k + 1) /\ \A i \in 1..(next - 1) : i \in 1..k
        BY <2>3, <3>1
      <4>2. \A i \in 1..k : s.fail \in rest[i].scopes
        BY <2>3, <3>1
      <4>3. QED
        BY <4>1, <4>2
    <3>2. CASE later # {}
      <4>1. later \subseteq Nat /\ later \subseteq 1..k
        BY <2>3
      <4>2. \E n \in later : \A j \in later : n <= j
        BY <3>2, <4>1, NatLeast
      <4>3. next \in later /\ \A j \in later : next <= j
        BY <3>2, <4>2
      <4>4. PICK n : n = next
        OBVIOUS
      <4>5. n \in 1..k /\ n \in 1..(k + 1) /\ \A i \in 1..(n - 1) : i \in 1..k /\ ~(n <= i)
        BY <4>1, <4>3, <4>4
      <4>6. \A i \in 1..(n - 1) : i \notin later
        BY <4>3, <4>4, <4>5
      <4>7. \A i \in 1..(n - 1) : s.fail \in rest[i].scopes
        BY <2>3, <4>5, <4>6
      <4>8. QED
        BY <4>4, <4>5, <4>7
    <3>3. QED
      BY <3>1, <3>2
  <2>5. PICK n : n = next
    OBVIOUS
  <2> HIDE DEF next, later
  <2>6. n \in 1..(Len(Tail(todo)) + 1) /\ \A i \in 1..(n - 1) : Head(todo).fail \in Tail(todo)[i].scopes
    BY <1>1, <2>3, <2>4, <2>5
  <2>7. Head(todo).fail \notin {Abort, OnlyLogged, Note} /\ Head(todo).fail \in lost' /\ lost \subseteq lost'
    BY <1>1, <1>4, <2>1
  <2>8. todo' = SubSeq(Tail(todo), n, Len(Tail(todo)))
    BY <1>1, <2>1, <2>5
  <2>9. /\ IsPlan(SubSeq(Tail(todo), n, Len(Tail(todo))))
        /\ Owed(p, SubSeq(Tail(todo), n, Len(Tail(todo))), mnt', lost')
    BY <2>6, <2>7, LeaveOwes
  <2>10. QED
    BY <2>1, <2>8, <2>9
<1>5. QED
  BY <1>2, <1>3, <1>4

\* A step that is done.
LEMMA GoKeeps ==
  ASSUME NEW p, IsPlan(todo), todo # <<>>, Owed(p, todo, mnt, lost), Go,
         mnt \subseteq mnt', Critical(Head(todo)) => Settled(Head(todo), mnt', lost')
  PROVE  phase' = phase /\ IsPlan(todo') /\ Owed(p, todo', mnt', lost')
<1>1. todo' = Tail(todo) /\ phase' = phase /\ lost \subseteq lost'
  BY DEF Go
<1>2. IsPlan(Tail(todo)) /\ Owed(p, Tail(todo), mnt', lost')
  BY <1>1, GoOwes
<1>3. QED
  BY <1>1, <1>2

\* The invariant holds before the first request.
LEMMA EnterInit == Init => EnterInv
  BY DEF Init, EnterInv, Outside

\* The plan is that of the same request as long as the request and its flags
\* stay.
LEMMA PlanKept ==
  ASSUME UNCHANGED <<mode, req, flags>>
  PROVE  PlanOf(req, flags)' = PlanOf(req, flags)
  BY DEF PlanOf

\* What is owed is owed by the same spawner.
LEMMA OwedKept ==
  ASSUME UNCHANGED mode, NEW p, NEW t, NEW m, NEW l
  PROVE  IsPlan(t)' = IsPlan(t) /\ Owed(p, t, m, l)' = Owed(p, t, m, l)
  BY DEF IsPlan, StepOK, Owed, Settled

\* A step outside the plan that leaves the root where it is and does not enter
\* the plan.
LEMMA EnterKept ==
  ASSUME EnterInv, phase' \in (Outside \union {"ended"}) \ {"idle", "plan"}, phase # "idle", root = "host",
         UNCHANGED <<req, root>>
  PROVE  EnterInv'
  BY DEF EnterInv, Outside

\* A step outside the child's plan keeps the invariant.
LEMMA EnterSame ==
  ASSUME EnterInv, UNCHANGED <<mode, req, flags, phase, root, todo, mnt, lost>>
  PROVE  EnterInv'
<1>1. PICK p, t, m, l, e : p = PlanOf(req, flags) /\ t = todo /\ m = mnt /\ l = lost /\ e = <<>>
  OBVIOUS
<1>2. PlanOf(req, flags)' = p
  BY <1>1, PlanKept
<1>3. IsPlan(t)' = IsPlan(t) /\ Owed(p, t, m, l)' = Owed(p, t, m, l) /\ Owed(p, e, m, l)' = Owed(p, e, m, l)
  BY OwedKept
<1>4. /\ phase = "plan" => IsPlan(todo)' /\ Owed(PlanOf(req, flags), todo, mnt, lost)'
      /\ root # "host" => Owed(PlanOf(req, flags), <<>>, mnt, lost)'
  BY <1>1, <1>2, <1>3 DEF EnterInv
<1>5. QED
  BY <1>4 DEF EnterInv

\* A step of the plan.
LEMMA EnterStep ==
  ASSUME EnterInv, UNCHANGED <<mode, req, flags, root>>, phase = "plan",
         \/ phase' = "ended"
         \/ phase' = phase /\ IsPlan(todo') /\ Owed(PlanOf(req, flags), todo', mnt', lost')
  PROVE  EnterInv'
<1>1. PlanOf(req, flags)' = PlanOf(req, flags)
  BY PlanKept
<1>2. req' \in Requests /\ root' = "host"
  BY DEF EnterInv, Outside
<1>3. CASE phase' = "ended"
  BY <1>2, <1>3 DEF EnterInv, Outside
<1>4. CASE phase' = phase /\ IsPlan(todo') /\ Owed(PlanOf(req, flags), todo', mnt', lost')
  <2>1. PICK p, t, m, l : p = PlanOf(req, flags) /\ t = todo' /\ m = mnt' /\ l = lost'
    OBVIOUS
  <2>2. IsPlan(t)' /\ Owed(p, t, m, l)'
    BY <1>4, <2>1, OwedKept
  <2>3. IsPlan(todo)' /\ Owed(PlanOf(req, flags), todo, mnt, lost)'
    BY <1>1, <2>1, <2>2
  <2>4. QED
    BY <1>2, <1>4, <2>3 DEF EnterInv
<1>5. QED
  BY <1>3, <1>4

\* Every step keeps it.
LEMMA EnterNext == EnterInv /\ [Next]_vars => EnterInv'
<1> SUFFICES ASSUME EnterInv, [Next]_vars PROVE EnterInv'
  OBVIOUS
<1>1. ASSUME NEW apps \in SUBSET Owners, WriteList(apps) PROVE EnterInv'
  BY <1>1, EnterSame DEF WriteList, child
<1>2. CASE Notify \/ OtherAcks \/ Restart
  BY <1>2, EnterSame DEF Notify, OtherAcks, Restart, child
<1>3. ASSUME NEW r \in Requests, ComputeForSpawn(r) PROVE EnterInv'
  <2>1. /\ req' = r /\ UNCHANGED root /\ phase = "idle"
        /\ phase' \in {"install", "ack", "match", "load"}
    BY <1>3 DEF ComputeForSpawn
  <2>2. QED
    BY <2>1 DEF EnterInv, Outside
<1>4. CASE AckUpdate \/ LoadFromJson
  BY <1>4, EnterKept DEF AckUpdate, LoadFromJson, child, EnterInv, Outside
<1>5. CASE MatchControlled
  BY <1>5, EnterKept DEF MatchControlled, Ended, EnterInv, Outside
<1>6. CASE InstallDebugSandbox
  <2>1. phase = "install" /\ phase' = "child" /\ UNCHANGED <<req, root>>
    BY <1>6 DEF InstallDebugSandbox, child
  <2>2. QED
    BY <2>1, EnterKept DEF EnterInv, Outside
<1>7. ASSUME NEW bundles, NEW isolated, UninstallDebugSandbox(bundles, isolated) PROVE EnterInv'
  BY <1>7, EnterSame DEF UninstallDebugSandbox, child
<1>8. CASE StartSandbox
  <2>1. phase = "child" /\ phase' \in {"ended", "check"} /\ UNCHANGED <<req, root>>
    BY <1>8 DEF StartSandbox, OrFail, Fail, Ended, host
  <2>2. QED
    BY <2>1, EnterKept DEF EnterInv, Outside
<1>9. CASE CheckProperty
  <2>1. phase = "check" /\ phase' \in {"ended", "dlp", "unshare"} /\ UNCHANGED <<req, root>>
    BY <1>9 DEF CheckProperty, Fail, Ended, host
  <2>2. QED
    BY <2>1, EnterKept DEF EnterInv, Outside
<1>10. CASE HandleDlpMount
  <2>1. phase = "dlp" /\ phase' = "unshare" /\ UNCHANGED <<req, root>>
    BY <1>10 DEF HandleDlpMount
  <2>2. QED
    BY <2>1, EnterKept DEF EnterInv, Outside
<1>11. CASE EnableSandboxNamespace
  <2>1. phase = "unshare" /\ phase' \in {"ended", "root", "flags"} /\ UNCHANGED <<req, root>>
    BY <1>11 DEF EnableSandboxNamespace, Fail, Ended, host
  <2>2. QED
    BY <2>1, EnterKept DEF EnterInv, Outside
<1>12. CASE UpdatePointFlags
  <2>1. phase = "flags" /\ phase' \in {"ended", "root"} /\ UNCHANGED <<req, root>>
    BY <1>12 DEF UpdatePointFlags, Fail, Ended, host
  <2>2. QED
    BY <2>1, EnterKept DEF EnterInv, Outside
<1>13. CASE DoSandboxRootFolderCreate
  <2>1. /\ phase = "root" /\ UNCHANGED <<mode, req, flags, root, mnt, lost>>
        /\ phase' = "ended" \/ (phase' = "plan" /\ todo' = PlanOf(req, flags))
    BY <1>13 DEF DoSandboxRootFolderCreate, Fail, Ended, host
  <2>2. req \in Requests /\ root = "host"
    BY <2>1 DEF EnterInv, Outside
  <2>3. CASE phase' = "ended"
    BY <2>1, <2>2, <2>3, EnterKept DEF Outside
  <2>4. CASE phase' = "plan" /\ todo' = PlanOf(req, flags)
    <3>1. IsPlan(todo') /\ Owed(PlanOf(req, flags), todo', mnt', lost')
      BY <2>2, <2>4, PlanFacts DEF Owed
    <3>2. PlanOf(req, flags)' = PlanOf(req, flags)
      BY <2>1, PlanKept
    <3>3. PICK p, t, m, l : p = PlanOf(req, flags) /\ t = todo' /\ m = mnt' /\ l = lost'
      OBVIOUS
    <3>4. IsPlan(t)' /\ Owed(p, t, m, l)'
      BY <2>1, <3>1, <3>3, OwedKept
    <3>5. IsPlan(todo)' /\ Owed(PlanOf(req, flags), todo, mnt, lost)'
      BY <3>2, <3>3, <3>4
    <3>6. QED
      BY <2>1, <2>2, <2>4, <3>5 DEF EnterInv
  <2>5. QED
    BY <2>1, <2>3, <2>4
<1>14. CASE DoAppSandboxMountOnce
  <2>1. PICK m, ok, bound : /\ m = {[at |-> Head(todo).arg.at, from |-> Head(todo).arg.from, sect |-> Head(todo).sect]}
                            /\ ok \in BOOLEAN /\ bound \in BOOLEAN /\ (ok => bound)
                            /\ mnt' = (IF bound THEN mnt \union m ELSE mnt)
                            /\ IF ok THEN Go ELSE Leave
    BY <1>14 DEF DoAppSandboxMountOnce
  <2>2. AtStep("mount") /\ UNCHANGED <<mode, req, flags, root>>
    BY <1>14 DEF DoAppSandboxMountOnce, host
  <2>3. phase = "plan" /\ todo # <<>> /\ Head(todo).op = "mount"
    BY <2>2 DEF AtStep
  <2>4. mnt \subseteq mnt'
    BY <2>1, <2>2
  <2>5. IsPlan(todo) /\ Owed(PlanOf(req, flags), todo, mnt, lost)
    BY <2>3 DEF EnterInv
  <2>6. ok => (phase' = "ended" \/ (phase' = phase /\ IsPlan(todo') /\ Owed(PlanOf(req, flags), todo', mnt', lost')))
    <3> HAVE ok
    <3>1. PICK x : x = [at |-> Head(todo).arg.at, from |-> Head(todo).arg.from, sect |-> Head(todo).sect]
      OBVIOUS
    <3>2. x.at = Head(todo).arg.at /\ x.from = Head(todo).arg.from /\ x \in mnt'
      BY <2>1, <3>1
    <3>3. Settled(Head(todo), mnt', lost')
      BY <3>2 DEF Settled
    <3>4. Go
      BY <2>1
    <3>5. QED
      BY <2>3, <2>4, <2>5, <3>3, <3>4, GoKeeps
  <2>7. ~ok => (phase' = "ended" \/ (phase' = phase /\ IsPlan(todo') /\ Owed(PlanOf(req, flags), todo', mnt', lost')))
    <3> HAVE ~ok
    <3>1. Leave
      BY <2>1
    <3>2. QED
      BY <2>3, <2>4, <2>5, <3>1, LeaveKeeps
  <2>8. phase' = "ended" \/ (phase' = phase /\ IsPlan(todo') /\ Owed(PlanOf(req, flags), todo', mnt', lost'))
    BY <2>1, <2>6, <2>7
  <2>9. QED
    BY <2>2, <2>3, <2>8, EnterStep
<1>15. ASSUME MakeDir \/ MakeSymlink \/ AddGid \/ StopAtError PROVE EnterInv'
  <2>1. /\ phase = "plan" /\ todo # <<>> /\ Head(todo).op # "mount"
        /\ UNCHANGED <<mode, req, flags, root, mnt>> /\ (Go \/ Leave)
    BY <1>15 DEF MakeDir, MakeSymlink, AddGid, StopAtError, AtStep, host
  <2>2. ~Critical(Head(todo))
    BY <2>1 DEF Critical
  <2>3. PICK p : p = PlanOf(req, flags)
    OBVIOUS
  <2>4. IsPlan(todo) /\ Owed(p, todo, mnt, lost)
    BY <2>1, <2>3 DEF EnterInv
  <2>5. mnt \subseteq mnt'
    BY <2>1
  <2>6. \/ phase' = "ended"
        \/ phase' = phase /\ IsPlan(todo') /\ Owed(p, todo', mnt', lost')
    BY <2>1, <2>2, <2>4, <2>5, GoKeeps, LeaveKeeps
  <2>7. QED
    BY <2>1, <2>3, <2>6, EnterStep
<1>16. CASE ChangeCurrentDir
  <2>1. /\ phase = "plan" /\ todo = <<>> /\ phase' \in {"ended", "dec"}
        /\ UNCHANGED <<mode, req, flags, todo, mnt, lost>>
    BY <1>16 DEF ChangeCurrentDir, Fail, Ended, host
  <2>2. PlanOf(req, flags)' = PlanOf(req, flags)
    BY <2>1, PlanKept
  <2>3. Owed(PlanOf(req, flags), <<>>, mnt, lost) /\ req \in Requests
    BY <2>1 DEF EnterInv
  <2>4. PICK p, e, m, l : p = PlanOf(req, flags) /\ e = <<>> /\ m = mnt /\ l = lost
    OBVIOUS
  <2>5. Owed(p, e, m, l)'
    BY <2>1, <2>3, <2>4, OwedKept
  <2>6. Owed(PlanOf(req, flags), <<>>, mnt, lost)'
    BY <2>1, <2>2, <2>4, <2>5
  <2>7. QED
    BY <2>1, <2>3, <2>6 DEF EnterInv, Outside
<1>17. CASE SetDecPolicy
  <2>1. /\ phase = "dec" /\ phase' = "ended"
        /\ UNCHANGED <<mode, req, flags, root, mnt, lost>>
    BY <1>17 DEF SetDecPolicy, Ended, host
  <2>2. PlanOf(req, flags)' = PlanOf(req, flags)
    BY <2>1, PlanKept
  <2>3. PICK p, e, m, l : p = PlanOf(req, flags) /\ e = <<>> /\ m = mnt /\ l = lost
    OBVIOUS
  <2>4. root # "host" => Owed(p, e, m, l)'
    BY <2>1, <2>3, OwedKept DEF EnterInv
  <2>5. root # "host" => Owed(PlanOf(req, flags), <<>>, mnt, lost)'
    BY <2>1, <2>2, <2>3, <2>4
  <2>6. QED
    BY <2>1, <2>5 DEF EnterInv, Outside
<1>18. CASE NextRequest
  BY <1>18 DEF NextRequest, EnterInv, Outside
<1>19. CASE UNCHANGED vars
  BY <1>19, EnterSame DEF vars, child
<1>20. QED
  BY <1>1, <1>2, <1>3, <1>4, <1>5, <1>6, <1>7, <1>8, <1>9, <1>10, <1>11, <1>12, <1>13, <1>14, <1>15,
     <1>16, <1>17, <1>18, <1>19 DEF Next

\* Whatever fails on the way, a child that has entered its sandbox has every
\* mount the configuration calls critical, but for the create-on-daemon points
\* and the nweb flag points that the code passes over (SetAppSandboxProperty,
\* ExecuteMountOnce, HandleArrayForeach).
THEOREM EnteredSandboxComplete == Spec => []EnteredMeansComplete
<1>1. EnterInv => EnteredMeansComplete
  <2>1. Range(<<>>) = {}
    BY EmptyFacts
  <2>2. QED
    BY <2>1 DEF EnterInv, EnteredMeansComplete, Owed, Critical, Settled
<1>2. QED
  BY <1>1, EnterInit, EnterNext, PTL DEF Spec

(***************************************************************************)
(* The policies of the kernel.                                             *)
(***************************************************************************)
LEMMA DivFacts ==
  ASSUME NEW a \in Nat, NEW b \in Nat \ {0}
  PROVE  a \div b \in Nat /\ (a \div b) * b <= a /\ a < (a \div b) * b + b
  OBVIOUS

\* A batch takes the denials.
LEMMA BatchFacts == BatchSize \in Nat \ {0} /\ Len(DenyMap) = 3 /\ 3 <= BatchSize
<1>1. Len(DenyMap) = 3
  BY DEF DenyMap
<1>2. QED
  BY <1>1, LimitsAssumption

\* The batches cover the table.
LEMMA BatchesCover ==
  ASSUME NEW n \in Nat
  PROVE  /\ Batches(n) \in Nat
         /\ n = 0 => Batches(n) = 0
         /\ \A i \in 1..n : \E k \in 1..Batches(n) : (k - 1) * BatchSize + 1 <= i /\ i <= k * BatchSize
<1>1. PICK B : B = BatchSize /\ B \in Nat \ {0}
  BY BatchFacts
<1>2. PICK a \in Nat : a = n + B - 1
  BY <1>1
<1>3. PICK q : q = a \div B
  OBVIOUS
<1>4. q \in Nat /\ q * B <= a /\ a < q * B + B
  BY <1>1, <1>3, DivFacts
<1>5. PICK qb \in Nat : qb = q * B
  BY <1>1, <1>4
<1>6. n <= qb
  BY <1>1, <1>2, <1>4, <1>5
<1>7. Batches(n) = q
  BY <1>1, <1>2, <1>3 DEF Batches
<1>8. n = 0 => q = 0
  <2>1. SUFFICES ASSUME n = 0, q >= 1 PROVE FALSE
    BY <1>4
  <2>2. q * B >= B
    BY <1>1, <1>4, <2>1
  <2>3. QED
    BY <1>1, <1>2, <1>4, <2>1, <2>2
<1>9. ASSUME NEW i \in 1..n PROVE \E k \in 1..q : (k - 1) * B + 1 <= i /\ i <= k * B
  <2> DEFINE T == {k \in Nat : i <= k * B}
  <2>1. q \in T
    BY <1>4, <1>5, <1>6
  <2>2. PICK k \in T : \A m \in T : k <= m
    <3>1. T \subseteq Nat /\ T # {}
      BY <2>1
    <3>2. QED
      BY <3>1, NatLeast
  <2>3. k \in Nat /\ i <= k * B /\ k <= q
    BY <2>1, <2>2
  <2>4. k # 0
    BY <1>1, <2>3
  <2>5. PICK j \in Nat : j = k - 1 /\ j < k
    BY <2>3, <2>4
  <2>6. ~(i <= j * B)
    BY <2>2, <2>5
  <2>7. PICK jb \in Nat : jb = j * B
    BY <1>1
  <2>8. jb + 1 <= i
    BY <2>6, <2>7
  <2>9. QED
    BY <2>3, <2>4, <2>5, <2>7, <2>8
<1>10. QED
  BY <1>1, <1>4, <1>7, <1>8, <1>9

\* What is added to the table keeps it a sequence.
LEMMA DecInfos ==
  ASSUME NEW table, NEW new, IsSeq(table), IsSeq(new)
  PROVE  /\ IsSeq(SetDecPolicyInfos(table, new))
         /\ SetDecPolicyInfos(table, new) # <<>> => Range(new) \subseteq Range(SetDecPolicyInfos(table, new))
<1>1. PICK u : u = table \o new
  OBVIOUS
<1>2. IsSeq(u) /\ Range(u) = Range(table) \union Range(new)
  BY <1>1, JoinFacts
<1>3. CASE new = <<>>
  BY <1>3, EmptyFacts DEF SetDecPolicyInfos
<1>4. CASE new # <<>>
  <2>1. SetDecPolicyInfos(table, new) = <<>> \/ SetDecPolicyInfos(table, new) = u
    BY <1>1, <1>4 DEF SetDecPolicyInfos
  <2>2. QED
    BY <1>2, <2>1, EmptyFacts
<1>5. QED
  BY <1>3, <1>4

\* A sequence built pointwise from another.
LEMMA SeqMap ==
  ASSUME NEW s, NEW t, IsSeq(s), DOMAIN t = DOMAIN s, t \in [DOMAIN s -> Range(t)]
  PROVE  IsSeq(t)
<1>1. PICK n \in Nat : n = Len(s) /\ DOMAIN s = 1..n
  BY SeqFacts
<1>2. QED
  BY <1>1, SeqIntro

\* The paths of a mount that is a step of a plan.
LEMMA DecPathsFacts ==
  ASSUME NEW s, StepOK(s), s.op = "mount"
  PROVE  IsSeq(DecPaths(s)[1]) /\ IsSeq(DecPaths(s)[2])
<1>1. PICK has : has = GetSandboxMountConfig(s)
  OBVIOUS
<1>2. PICK rw : rw = IF has /\ req.token /\ Len(s.arg.dec.rw) <= BatchSize THEN s.arg.dec.rw ELSE <<>>
  OBVIOUS
<1>3. PICK ro : ro = IF has /\ req.token /\ Len(s.arg.dec.ro) <= BatchSize THEN s.arg.dec.ro ELSE <<>>
  OBVIOUS
<1>4. IsSeq(rw) /\ IsSeq(ro)
  BY <1>2, <1>3, EmptyFacts DEF StepOK
<1>5. PICK a, b : a = [i \in DOMAIN rw |-> <<rw[i], "rw">>] /\ b = [i \in DOMAIN ro |-> <<ro[i], "ro">>]
  OBVIOUS
<1>6. DOMAIN a = DOMAIN rw /\ a \in [DOMAIN rw -> Range(a)] /\ DOMAIN b = DOMAIN ro /\ b \in [DOMAIN ro -> Range(b)]
  BY <1>5 DEF Range
<1>7. IsSeq(a) /\ IsSeq(b)
  BY <1>4, <1>6, SeqMap
<1>8. DecPaths(s) = <<a, b>>
  BY <1>1, <1>2, <1>3, <1>5, Zenon DEF DecPaths
<1>9. QED
  BY <1>7, <1>8

\* The denials are in the table unless it was thrown away.
LEMMA PoliciesFacts ==
  ASSUME IsSeq(dec)
  PROVE  /\ IsSeq(AllPolicies)
         /\ req.token /\ "USER_FILE" \in req.perms /\ AllPolicies # <<>> =>
               \A p \in Range(DenyMap) \ req.perms : <<p, "deny">> \in Range(AllPolicies)
<1>1. PICK own : own = SetDecWithDir(dec)
  OBVIOUS
<1>2. IsSeq(own)
  <2>1. IsSeq(<<<<"own", "rw">>>>)
    BY OneFacts
  <2>2. QED
    BY <1>1, <2>1, DecInfos DEF SetDecWithDir
<1>3. PICK M : M = DenyMap
  OBVIOUS
<1>4. IsSeq(M)
  <2>1. DenyMap \in Seq({"DOWNLOAD", "DESKTOP", "DOCUMENTS"})
    BY DEF DenyMap
  <2>2. QED
    BY <1>3, <2>1, SeqElems
<1>5. PICK t : t = [i \in DOMAIN M |-> IF M[i] \in req.perms THEN <<>> ELSE <<<<M[i], "deny">>>>]
  OBVIOUS
<1>6. PICK F : F = FlattenSeq(t)
  OBVIOUS
<1>7. IsSeq(F) /\ Range(F) = UNION {Range(t[i]) : i \in DOMAIN M} /\ Len(F) <= BatchSize
  <2>1. DOMAIN t = DOMAIN M /\ t \in [DOMAIN M -> Range(t)]
    BY <1>5 DEF Range
  <2>2. \A i \in DOMAIN M : IsSeq(t[i]) /\ Len(t[i]) <= 1
    BY <1>5, EmptyFacts, OneFacts
  <2>3. IsSeq(F) /\ Range(F) = UNION {Range(t[i]) : i \in DOMAIN M} /\ Len(F) <= Len(M)
    BY <1>4, <1>6, <2>1, <2>2, EachFacts
  <2>4. PICK n : n = Len(F) /\ n \in Nat
    BY <2>3, SeqFacts
  <2>5. n <= BatchSize
    BY <1>3, <2>3, <2>4, BatchFacts
  <2>6. QED
    BY <2>3, <2>4, <2>5
<1>8. ASSUME NEW p \in Range(M) \ req.perms PROVE <<p, "deny">> \in Range(F)
  <2>1. PICK i \in DOMAIN M : p = M[i]
    BY DEF Range
  <2>2. PICK y : y = <<p, "deny">>
    OBVIOUS
  <2>3. t[i] = <<y>>
    BY <1>5, <1>8, <2>1, <2>2
  <2>4. y \in Range(t[i])
    BY <2>3, OneFacts
  <2>5. QED
    BY <1>7, <2>2, <2>4
<1>9. PICK deny : deny = IF "USER_FILE" \in req.perms /\ req.token THEN F ELSE <<>>
  OBVIOUS
<1>10. AllPolicies = SetDecPolicyInfos(own, deny)
  <2>1. AllPolicies = IF "USER_FILE" \in req.perms /\ req.token /\ Len(F) <= BatchSize
                      THEN SetDecPolicyInfos(own, F) ELSE own
    BY <1>1, <1>3, <1>5, <1>6 DEF AllPolicies, SetDecDenyWithDir, Each
  <2>2. QED
    BY <1>7, <1>9, <2>1 DEF SetDecPolicyInfos
<1>11. IsSeq(deny)
  BY <1>7, <1>9, EmptyFacts
<1>12. /\ IsSeq(AllPolicies)
       /\ AllPolicies # <<>> => Range(deny) \subseteq Range(AllPolicies)
  BY <1>2, <1>10, <1>11, DecInfos
<1>13. QED
  BY <1>3, <1>8, <1>9, <1>12

\* The batches of a table, some of them refused.
Sent(table, bad) ==
  [k \in 1..Batches(Len(table)) |->
     IF k \in bad THEN <<>>
     ELSE SubSeq(table, (k - 1) * BatchSize + 1,
                 IF k * BatchSize > Len(table) THEN Len(table) ELSE k * BatchSize)]

\* What is sent, when no batch is refused, is the table.
LEMMA BatchesSend ==
  ASSUME NEW table, NEW bad, NEW sent, IsSeq(table), sent = Sent(table, bad), <<>> \notin Range(sent)
  PROVE  Range(table) \subseteq Range(FlattenSeq(sent))
<1>1. PICK n, B, q : /\ n = Len(table) /\ n \in Nat /\ B = BatchSize /\ B \in Nat \ {0}
                     /\ q = Batches(n) /\ q \in Nat
  BY SeqFacts, BatchFacts, BatchesCover
<1> DEFINE lo(k) == (k - 1) * B + 1
           hi(k) == IF k * B > n THEN n ELSE k * B
<1>2. DOMAIN sent = 1..q /\ \A k \in 1..q : sent[k] = <<>> \/ sent[k] = SubSeq(table, lo(k), hi(k))
  BY <1>1 DEF Sent
<1>3. \A k \in 1..q : sent[k] # <<>>
  BY <1>2 DEF Range
<1>4. ASSUME NEW k \in 1..q
      PROVE  /\ IsSeq(sent[k])
             /\ \A i \in lo(k)..hi(k) : table[i] \in Range(sent[k])
  <2>1. PICK l, h, u : l = lo(k) /\ h = hi(k) /\ u = SubSeq(table, l, h)
    OBVIOUS
  <2>2. PICK jb, kb : jb = (k - 1) * B /\ kb = k * B /\ jb \in Nat /\ kb \in Nat
    BY <1>1
  <2>3. l \in Nat /\ l >= 1 /\ h \in Nat /\ h <= n
    <3>1. l = jb + 1 /\ h = IF kb > n THEN n ELSE kb
      BY <2>1, <2>2
    <3>2. QED
      BY <1>1, <2>2, <3>1
  <2>4. \A i \in l..h : table[i] \in Range(table)
    <3>1. \A i \in l..h : i \in 1..n
      BY <1>1, <2>3
    <3>2. QED
      BY <1>1, <3>1, SeqFacts
  <2>5. /\ u \in Seq(Range(table)) /\ Len(u) = IF l <= h THEN h - l + 1 ELSE 0
        /\ \A i \in 1..(h - l + 1) : u[i] = table[l + i - 1]
    BY <2>1, <2>3, <2>4, SubSeqProperties
  <2>6. IsSeq(u)
    BY <2>5, SeqElems
  <2>7. ASSUME NEW i \in l..h PROVE table[i] \in Range(u)
    <3>1. PICK j : j = i - l + 1 /\ j \in 1..(h - l + 1) /\ l + j - 1 = i /\ l <= h
      BY <2>3
    <3>2. u[j] = table[i] /\ j \in 1..Len(u)
      BY <2>5, <3>1
    <3>3. u[j] \in Range(u)
      BY <2>6, <3>2, SeqFacts
    <3>4. QED
      BY <3>2, <3>3
  <2>8. sent[k] = u
    BY <1>2, <1>3, <2>1
  <2>9. QED
    BY <2>1, <2>6, <2>7, <2>8
<1>5. IsSeq(sent) /\ Len(sent) = q
  <2>1. sent \in [1..q -> Range(sent)]
    BY <1>1 DEF Range, Sent
  <2>2. QED
    BY <1>1, <2>1, SeqIntro
<1>6. Range(FlattenSeq(sent)) = UNION {Range(sent[k]) : k \in 1..q}
  BY <1>4, <1>5, FlattenFacts
<1>7. ASSUME NEW x \in Range(table) PROVE x \in Range(FlattenSeq(sent))
  <2>1. PICK i \in 1..n : x = table[i]
    BY <1>1, SeqFacts
  <2>2. PICK k \in 1..q : lo(k) <= i /\ i <= k * B
    BY <1>1, BatchesCover
  <2>3. PICK kb, jb : kb = k * B /\ jb = (k - 1) * B /\ jb \in Nat /\ kb \in Nat
    BY <1>1
  <2>4. i \in lo(k)..hi(k)
    <3>1. lo(k) = jb + 1 /\ hi(k) = IF kb > n THEN n ELSE kb
      BY <2>3
    <3>2. QED
      BY <1>1, <2>2, <2>3, <3>1
  <2>5. x \in Range(sent[k])
    BY <1>4, <2>1, <2>4
  <2>6. QED
    BY <1>6, <2>5
<1>8. QED
  BY <1>7

\* The table is a sequence, and what the kernel was sent of it is what
\* DenialsGoWithGrants says.
DecInv == IsSeq(dec) /\ DenialsGoWithGrants

\* No policy has been sent yet.
LEMMA DecInit == Init => DecInv
  BY EmptyFacts DEF Init, DecInv, DenialsGoWithGrants

\* A step that does not end with a success keeps the table.
LEMMA DecKept ==
  ASSUME IsSeq(dec'), phase' # "ended" \/ result' # "ok" \/ mode' # "app"
  PROVE  DecInv'
  BY DEF DecInv, DenialsGoWithGrants

\* A step that touches neither the table nor the kernel.
LEMMA DecSame ==
  ASSUME DecInv, UNCHANGED <<mode, phase, result, req, dec, kernel>>
  PROVE  DecInv'
  BY DEF DecInv, DenialsGoWithGrants

\* The mount of a step, and what it adds to the table.
LEMMA DecMount == EnterInv /\ DecInv /\ DoAppSandboxMountOnce => IsSeq(dec')
<1> SUFFICES ASSUME EnterInv, DecInv, DoAppSandboxMountOnce PROVE IsSeq(dec')
  OBVIOUS
<1>1. PICK s : s = Head(todo)
  OBVIOUS
<1>2. phase = "plan" /\ todo # <<>> /\ s.op = "mount"
  BY <1>1 DEF DoAppSandboxMountOnce, AtStep
<1>3. StepOK(s)
  BY <1>1, <1>2, HeadTail DEF EnterInv, IsPlan
<1>4. PICK a, b : a = DecPaths(s)[1] /\ b = DecPaths(s)[2]
  OBVIOUS
<1>5. IsSeq(a) /\ IsSeq(b) /\ IsSeq(dec)
  BY <1>2, <1>3, <1>4, DecPathsFacts DEF DecInv
<1>6. dec' = dec \/ dec' = SetDecPolicyInfos(SetDecPolicyInfos(dec, a), b)
  BY <1>1, <1>4 DEF DoAppSandboxMountOnce
<1>7. QED
  BY <1>5, <1>6, DecInfos

\* SetDecPolicy sends the table batch by batch.
LEMMA DecSend == DecInv /\ SetDecPolicy => DecInv'
<1> SUFFICES ASSUME DecInv, SetDecPolicy PROVE DecInv'
  OBVIOUS
<1>1. PICK table : table = AllPolicies
  OBVIOUS
<1>2. kernel' = <<>> \/ \E bad : kernel' = Sent(table, bad)
  BY <1>1 DEF SetDecPolicy, Sent
<1>3. dec' = <<>> /\ UNCHANGED req
  BY DEF SetDecPolicy, host
<1>4. IsSeq(table)
  BY <1>1, PoliciesFacts DEF DecInv
<1>5. SUFFICES ASSUME req.token, "USER_FILE" \in req.perms, kernel' # <<>>, <<>> \notin Range(kernel')
               PROVE  \A p \in Range(DenyMap) \ req.perms : <<p, "deny">> \in Range(FlattenSeq(kernel'))
  BY <1>3, EmptyFacts DEF DecInv, DenialsGoWithGrants
<1>6. PICK bad : kernel' = Sent(table, bad)
  BY <1>2, <1>5
<1>7. table # <<>>
  <2>1. SUFFICES ASSUME table = <<>> PROVE FALSE
    OBVIOUS
  <2>2. Batches(Len(table)) = 0
    BY <2>1, EmptyFacts, BatchesCover
  <2>3. PICK sent, none : sent = kernel' /\ none = {}
    OBVIOUS
  <2>4. sent \in [1..0 -> none]
    BY <1>6, <2>2, <2>3 DEF Sent
  <2>5. IsSeq(sent) /\ Len(sent) = 0
    BY <2>4, SeqIntro
  <2>6. sent = <<>>
    BY <2>5, EmptySeq DEF IsSeq
  <2>7. QED
    BY <1>5, <2>3, <2>6
<1>8. \A p \in Range(DenyMap) \ req.perms : <<p, "deny">> \in Range(table)
  BY <1>1, <1>5, <1>7, PoliciesFacts DEF DecInv
<1>9. Range(table) \subseteq Range(FlattenSeq(kernel'))
  BY <1>4, <1>5, <1>6, BatchesSend
<1>10. QED
  BY <1>8, <1>9

\* Every step keeps the invariant.
LEMMA DecNext == EnterInv /\ DecInv /\ [Next]_vars => DecInv'
<1> SUFFICES ASSUME EnterInv, DecInv, [Next]_vars PROVE DecInv'
  OBVIOUS
<1>1. IsSeq(dec)
  BY DEF DecInv
<1>2. ASSUME NEW apps \in SUBSET Owners, WriteList(apps) PROVE DecInv'
  BY <1>2, DecSame DEF WriteList, child
<1>3. CASE Notify \/ OtherAcks \/ Restart
  BY <1>3, DecSame DEF Notify, OtherAcks, Restart, child
<1>4. ASSUME NEW r \in Requests, ComputeForSpawn(r) PROVE DecInv'
  <2>1. phase' # "ended" /\ UNCHANGED dec
    BY <1>4 DEF ComputeForSpawn
  <2>2. QED
    BY <1>1, <2>1, DecKept
<1>5. CASE AckUpdate \/ LoadFromJson \/ InstallDebugSandbox \/ HandleDlpMount
  <2>1. phase' # "ended" /\ UNCHANGED dec
    BY <1>5 DEF AckUpdate, LoadFromJson, InstallDebugSandbox, HandleDlpMount, child
  <2>2. QED
    BY <1>1, <2>1, DecKept
<1>6. CASE MatchControlled
  BY <1>1, <1>6, DecKept DEF MatchControlled, Ended
<1>7. ASSUME NEW bundles, NEW isolated, UninstallDebugSandbox(bundles, isolated) PROVE DecInv'
  BY <1>7, DecSame DEF UninstallDebugSandbox, child
<1>8. Fail => result' # "ok"
  BY DEF Fail
<1>9. CASE StartSandbox \/ CheckProperty \/ EnableSandboxNamespace \/ UpdatePointFlags
  <2>1. UNCHANGED dec /\ (phase' # "ended" \/ Fail \/ result' = "none")
    BY <1>9 DEF StartSandbox, CheckProperty, EnableSandboxNamespace, UpdatePointFlags, OrFail
  <2>2. QED
    BY <1>1, <1>8, <2>1, DecKept
<1>10. CASE DoSandboxRootFolderCreate
  <2>1. UNCHANGED dec /\ (phase' # "ended" \/ Fail)
    BY <1>10 DEF DoSandboxRootFolderCreate
  <2>2. QED
    BY <1>1, <1>8, <2>1, DecKept
<1>11. ASSUME phase = "plan", Go \/ Leave PROVE phase' # "ended" \/ result' # "ok"
  <2>1. Go \/ Leave => UNCHANGED phase \/ Fail
    BY DEF Go, Leave
  <2>2. QED
    BY <1>8, <1>11, <2>1
<1>12. CASE DoAppSandboxMountOnce
  <2>1. phase = "plan" /\ (Go \/ Leave)
    BY <1>12 DEF DoAppSandboxMountOnce, AtStep
  <2>2. QED
    BY <1>11, <1>12, <2>1, DecMount, DecKept
<1>13. CASE MakeDir \/ MakeSymlink \/ AddGid \/ StopAtError
  <2>1. phase = "plan" /\ (Go \/ Leave) /\ UNCHANGED dec
    BY <1>13 DEF MakeDir, MakeSymlink, AddGid, StopAtError, AtStep
  <2>2. QED
    BY <1>1, <1>11, <2>1, DecKept
<1>14. CASE ChangeCurrentDir
  <2>1. UNCHANGED <<mode, dec>> /\ (phase' # "ended" \/ Fail \/ mode = "nweb")
    BY <1>14 DEF ChangeCurrentDir, host
  <2>2. QED
    BY <1>1, <1>8, <2>1, DecKept
<1>15. CASE SetDecPolicy
  BY <1>15, DecSend
<1>16. CASE NextRequest
  BY <1>16, EmptyFacts, DecKept DEF NextRequest
<1>17. CASE UNCHANGED vars
  BY <1>17, DecSame DEF vars, child
<1>18. QED
  BY <1>2, <1>3, <1>4, <1>5, <1>6, <1>7, <1>9, <1>10, <1>12, <1>13, <1>14, <1>15, <1>16, <1>17 DEF Next

\* However the table fills up and is thrown away, the kernel never holds grants
\* of an application without the denials that belong to them
\* (SetDecDenyWithDir, SetDecPolicyInfos, SetDecPolicy).
THEOREM DenialsReachTheKernel == Spec => []DenialsGoWithGrants
<1>1. DecInv => DenialsGoWithGrants
  BY DEF DecInv
<1>2. QED
  BY <1>1, EnterInit, EnterNext, DecInit, DecNext, PTL DEF Spec

(***************************************************************************)
(* The debug sandbox.                                                      *)
(***************************************************************************)
\* One point makes at most its own directory.
LEMMA PointDirs ==
  ASSUME NEW g, NEW p, NEW atomic, NEW failing, NEW half
  PROVE  MountDebugPoint(g, p, atomic, failing, half).dirs \subseteq g.dirs \union {p}
<1>1. PICK x : x = [dirs |-> g.dirs \cup {p},
                    mounts |-> IF p \in failing /\ ~half THEN g.mounts \ {p} ELSE g.mounts \cup {p},
                    stop |-> p \in failing]
  OBVIOUS
<1>2. x.dirs = g.dirs \union {p}
  BY <1>1
<1>3. MountDebugPoint(g, p, atomic, failing, half) \in {g, x}
  BY <1>1 DEF MountDebugPoint
<1>4. QED
  BY <1>2, <1>3

\* A section makes at most the directories of its points.
LEMMA SectionDirs ==
  ASSUME NEW g, NEW b, NEW section, NEW atomic, NEW failing, NEW half, IsSeq(section)
  PROVE  DoMountDebugPoints(g, b, section, atomic, failing, half).dirs
           \subseteq g.dirs \union {<<b, pt>> : pt \in Range(section)}
<1>1. PICK N \in Nat : N = Len(section) /\ \A i \in 1..N : section[i] \in Range(section)
  BY SeqFacts
<1>2. PICK g0 : g0 = [dirs |-> g.dirs, mounts |-> g.mounts, stop |-> FALSE]
  OBVIOUS
<1> DEFINE St(x, k) == MountDebugPoint(x, <<b, section[k]>>, atomic, failing, half)
           Loop(f, n) == f = [k \in 0..n |-> IF k = 0 THEN g0 ELSE St(f[k - 1], k)]
           E == {n \in Nat : \E f : Loop(f, n)}
<1>3. 0 \in E
  <2>1. Loop([k \in 0..0 |-> g0], 0)
    OBVIOUS
  <2>2. QED
    BY <2>1
<1>4. ASSUME NEW n \in Nat, n \in E PROVE n + 1 \in E
  <2> HIDE DEF Loop, St
  <2>1. PICK f : Loop(f, n)
    BY <1>4
  <2>2. PICK m \in Nat : m = n + 1 /\ m - 1 = n /\ m # 0
    OBVIOUS
  <2>3. PICK h : h = [k \in 0..m |-> IF k = m THEN St(f[n], m) ELSE f[k]]
    OBVIOUS
  <2>4. \A k \in 0..m : (k = m \/ k \in 0..n) /\ (k # 0 => k - 1 \in 0..m /\ k - 1 # m) /\ n \in 0..m /\ n # m
    BY <2>2
  <2>5. \A k \in 0..m : h[k] = IF k = 0 THEN g0 ELSE St(h[k - 1], k)
    <3> SUFFICES ASSUME NEW k \in 0..m PROVE h[k] = IF k = 0 THEN g0 ELSE St(h[k - 1], k)
      OBVIOUS
    <3>1. CASE k = m
      <4>1. h[n] = f[n] /\ h[m] = St(f[n], m)
        BY <2>3, <2>4, <3>1
      <4>2. QED
        BY <2>2, <3>1, <4>1
    <3>2. CASE k # m
      <4>1. k \in 0..n /\ h[k] = f[k]
        BY <2>3, <2>4, <3>2
      <4>2. f[k] = IF k = 0 THEN g0 ELSE St(f[k - 1], k)
        BY <2>1, <4>1 DEF Loop
      <4>3. k # 0 => h[k - 1] = f[k - 1]
        BY <2>3, <2>4
      <4>4. QED
        BY <4>1, <4>2, <4>3
    <3>3. QED
      BY <3>1, <3>2
  <2>6. Loop(h, m)
    BY <2>3, <2>5 DEF Loop
  <2>7. QED
    BY <2>2, <2>6
<1>5. \E f : Loop(f, N)
  <2> HIDE DEF Loop
  <2>1. Nat \subseteq E
    <3> HIDE DEF E
    <3>1. QED
      BY <1>3, <1>4, NatInductionBySet
  <2>2. QED
    BY <2>1
<1>6. PICK fc : fc = CHOOSE f : Loop(f, N)
  OBVIOUS
<1>7. Loop(fc, N)
  <2> HIDE DEF Loop
  <2>1. QED
    BY <1>5, <1>6
<1>8. DoMountDebugPoints(g, b, section, atomic, failing, half) = fc[N]
  BY <1>1, <1>2, <1>6 DEF DoMountDebugPoints
<1>9. fc = [k \in 0..N |-> IF k = 0 THEN g0 ELSE St(fc[k - 1], k)]
  BY <1>7
<1> HIDE DEF Loop, St, E
<1> DEFINE top == g.dirs \union {<<b, pt>> : pt \in Range(section)}
           S == {n \in Nat : n <= N => fc[n].dirs \subseteq top}
<1>10. 0 \in S
  <2>1. fc[0] = g0
    BY <1>9
  <2>2. QED
    BY <1>2, <2>1
<1>11. ASSUME NEW n \in Nat, n \in S PROVE n + 1 \in S
  <2>1. SUFFICES ASSUME n + 1 <= N PROVE fc[n + 1].dirs \subseteq top
    OBVIOUS
  <2>2. PICK m \in 0..N : m = n + 1 /\ m # 0 /\ m - 1 = n /\ m \in 1..N /\ n <= N
    BY <2>1
  <2>3. fc[m] = St(fc[n], m) /\ fc[n].dirs \subseteq top
    BY <1>9, <1>11, <2>2
  <2>4. PICK p : p = <<b, section[m]>>
    OBVIOUS
  <2>5. fc[m].dirs \subseteq fc[n].dirs \union {p}
    BY <2>3, <2>4, PointDirs DEF St
  <2>6. p \in top
    BY <1>1, <2>2, <2>4
  <2>7. QED
    BY <2>2, <2>3, <2>5, <2>6
<1>12. Nat \subseteq S
  <2> HIDE DEF S
  <2>1. QED
    BY <1>10, <1>11, NatInductionBySet
<1>13. QED
  BY <1>1, <1>8, <1>12

\* All sections of an installation.
LEMMA SectionsDirs ==
  ASSUME NEW g, NEW b, NEW sections, NEW atomic, NEW failing, NEW half, IsSeq(sections),
         \A i \in 1..Len(sections) : IsSeq(sections[i])
  PROVE  MountDebugSections(g, b, sections, atomic, failing, half).dirs
           \subseteq g.dirs \union {<<b, pt>> : pt \in Range(FlattenSeq(sections))}
<1>1. PICK N \in Nat : N = Len(sections)
  BY SeqFacts
<1>2. PICK R : R = Range(FlattenSeq(sections)) /\ \A i \in 1..N : Range(sections[i]) \subseteq R
  <2>1. Range(FlattenSeq(sections)) = UNION {Range(sections[i]) : i \in 1..N}
    BY <1>1, FlattenFacts
  <2>2. QED
    BY <2>1
<1> DEFINE St(x, k) == DoMountDebugPoints(x, b, sections[k], atomic, failing, half)
           Loop(f, n) == f = [k \in 0..n |-> IF k = 0 THEN g ELSE St(f[k - 1], k)]
           E == {n \in Nat : \E f : Loop(f, n)}
<1>3. 0 \in E
  <2>1. Loop([k \in 0..0 |-> g], 0)
    OBVIOUS
  <2>2. QED
    BY <2>1
<1>4. ASSUME NEW n \in Nat, n \in E PROVE n + 1 \in E
  <2> HIDE DEF Loop, St
  <2>1. PICK f : Loop(f, n)
    BY <1>4
  <2>2. PICK m \in Nat : m = n + 1 /\ m - 1 = n /\ m # 0
    OBVIOUS
  <2>3. PICK h : h = [k \in 0..m |-> IF k = m THEN St(f[n], m) ELSE f[k]]
    OBVIOUS
  <2>4. \A k \in 0..m : (k = m \/ k \in 0..n) /\ (k # 0 => k - 1 \in 0..m /\ k - 1 # m) /\ n \in 0..m /\ n # m
    BY <2>2
  <2>5. \A k \in 0..m : h[k] = IF k = 0 THEN g ELSE St(h[k - 1], k)
    <3> SUFFICES ASSUME NEW k \in 0..m PROVE h[k] = IF k = 0 THEN g ELSE St(h[k - 1], k)
      OBVIOUS
    <3>1. CASE k = m
      <4>1. h[n] = f[n] /\ h[m] = St(f[n], m)
        BY <2>3, <2>4, <3>1
      <4>2. QED
        BY <2>2, <3>1, <4>1
    <3>2. CASE k # m
      <4>1. k \in 0..n /\ h[k] = f[k]
        BY <2>3, <2>4, <3>2
      <4>2. f[k] = IF k = 0 THEN g ELSE St(f[k - 1], k)
        BY <2>1, <4>1 DEF Loop
      <4>3. k # 0 => h[k - 1] = f[k - 1]
        BY <2>3, <2>4
      <4>4. QED
        BY <4>1, <4>2, <4>3
    <3>3. QED
      BY <3>1, <3>2
  <2>6. Loop(h, m)
    BY <2>3, <2>5 DEF Loop
  <2>7. QED
    BY <2>2, <2>6
<1>5. \E f : Loop(f, N)
  <2> HIDE DEF Loop
  <2>1. Nat \subseteq E
    <3> HIDE DEF E
    <3>1. QED
      BY <1>3, <1>4, NatInductionBySet
  <2>2. QED
    BY <2>1
<1>6. PICK fc : fc = CHOOSE f : Loop(f, N)
  OBVIOUS
<1>7. Loop(fc, N)
  <2> HIDE DEF Loop
  <2>1. QED
    BY <1>5, <1>6
<1>8. MountDebugSections(g, b, sections, atomic, failing, half) = fc[N]
  BY <1>1, <1>6 DEF MountDebugSections
<1>9. fc = [k \in 0..N |-> IF k = 0 THEN g ELSE St(fc[k - 1], k)]
  BY <1>7
<1> HIDE DEF Loop, St, E
<1> DEFINE top == g.dirs \union {<<b, pt>> : pt \in R}
           S == {n \in Nat : n <= N => fc[n].dirs \subseteq top}
<1>10. 0 \in S
  <2>1. fc[0] = g
    BY <1>9
  <2>2. QED
    BY <2>1
<1>11. ASSUME NEW n \in Nat, n \in S PROVE n + 1 \in S
  <2>1. SUFFICES ASSUME n + 1 <= N PROVE fc[n + 1].dirs \subseteq top
    OBVIOUS
  <2>2. PICK m \in 0..N : m = n + 1 /\ m # 0 /\ m - 1 = n /\ m \in 1..N /\ n <= N
    BY <2>1
  <2>3. fc[m] = St(fc[n], m) /\ fc[n].dirs \subseteq top
    BY <1>9, <1>11, <2>2
  <2>4. PICK x, sec : x = fc[n] /\ sec = sections[m]
    OBVIOUS
  <2>5. IsSeq(sec) /\ Range(sec) \subseteq R
    BY <1>1, <1>2, <2>2, <2>4
  <2>6. fc[m].dirs \subseteq x.dirs \union {<<b, pt>> : pt \in Range(sec)}
    BY <2>3, <2>4, <2>5, SectionDirs DEF St
  <2>7. QED
    BY <2>2, <2>3, <2>4, <2>5, <2>6
<1>12. Nat \subseteq S
  <2> HIDE DEF S
  <2>1. QED
    BY <1>10, <1>11, NatInductionBySet
<1>13. QED
  BY <1>1, <1>2, <1>8, <1>12

\* The debug points of a document for an application with the permissions.
DocPoint(d, perms, pt) ==
  /\ d.debug # NoSection
  /\ \/ pt \in Range(d.debug.common)
     \/ \E p \in Range(d.debug.permission) : p.perm \in perms /\ pt \in Range(p.mounts)

\* The sections of one document.
LEMMA DocSections ==
  ASSUME NEW d, NEW perms, NEW ss, IsDocument(d), d.debug # NoSection,
         ss = <<d.debug.common>> \o FlattenSeq([k \in DOMAIN d.debug.permission |->
                 IF d.debug.permission[k].perm \in perms THEN <<d.debug.permission[k].mounts>> ELSE <<>>])
  PROVE  /\ IsSeq(ss)
         /\ \A sec \in Range(ss) : IsSeq(sec)
         /\ \A pt : (\E sec \in Range(ss) : pt \in Range(sec)) <=> DocPoint(d, perms, pt)
<1>1. PICK c, q : c = d.debug.common /\ q = d.debug.permission
  OBVIOUS
<1>2. IsSeq(c) /\ IsSeq(q) /\ \A p \in Range(q) : IsSeq(p.mounts)
  BY <1>1 DEF IsDocument
<1>3. PICK t : t = [k \in DOMAIN q |-> IF q[k].perm \in perms THEN <<q[k].mounts>> ELSE <<>>]
  OBVIOUS
<1>4. PICK F : F = FlattenSeq(t)
  OBVIOUS
<1>5. ss = <<c>> \o F
  BY <1>1, <1>3, <1>4
<1>6. DOMAIN t = DOMAIN q /\ t \in [DOMAIN q -> Range(t)] /\ \A k \in DOMAIN q : IsSeq(t[k])
  BY <1>3, EmptyFacts, OneFacts DEF Range
<1>7. IsSeq(F) /\ Range(F) = UNION {Range(t[k]) : k \in DOMAIN q}
  BY <1>2, <1>4, <1>6, EachFacts
<1>8. \A k \in DOMAIN q : Range(t[k]) = IF q[k].perm \in perms THEN {q[k].mounts} ELSE {}
  BY <1>3, EmptyFacts, OneFacts
<1>9. \A x : x \in Range(F) <=> \E p \in Range(q) : p.perm \in perms /\ x = p.mounts
  <2>1. ASSUME NEW x, x \in Range(F) PROVE \E p \in Range(q) : p.perm \in perms /\ x = p.mounts
    <3>1. PICK k \in DOMAIN q : x \in Range(t[k])
      BY <1>7, <2>1
    <3>2. q[k].perm \in perms /\ x = q[k].mounts
      BY <1>8, <3>1
    <3>3. QED
      BY <3>2 DEF Range
  <2>2. ASSUME NEW x, NEW p \in Range(q), p.perm \in perms, x = p.mounts PROVE x \in Range(F)
    <3>1. PICK k \in DOMAIN q : p = q[k]
      BY DEF Range
    <3>2. x \in Range(t[k])
      BY <1>8, <2>2, <3>1
    <3>3. QED
      BY <1>7, <3>2
  <2>3. QED
    BY <2>1, <2>2
<1>10. IsSeq(ss) /\ Range(ss) = {c} \union Range(F)
  <2>1. PICK o : o = <<c>>
    OBVIOUS
  <2>2. IsSeq(o) /\ Range(o) = {c}
    BY <2>1, OneFacts
  <2>3. QED
    BY <1>5, <1>7, <2>1, <2>2, JoinFacts
<1>11. \A sec \in Range(ss) : IsSeq(sec)
  BY <1>2, <1>9, <1>10
<1>12. ASSUME NEW pt PROVE (\E sec \in Range(ss) : pt \in Range(sec)) <=> DocPoint(d, perms, pt)
  <2>1. ASSUME NEW sec \in Range(ss), pt \in Range(sec) PROVE DocPoint(d, perms, pt)
    BY <1>1, <1>9, <1>10, <2>1 DEF DocPoint
  <2>2. ASSUME DocPoint(d, perms, pt) PROVE \E sec \in Range(ss) : pt \in Range(sec)
    <3>1. CASE pt \in Range(c)
      BY <1>10, <3>1
    <3>2. CASE \E p \in Range(q) : p.perm \in perms /\ pt \in Range(p.mounts)
      <4>1. PICK p \in Range(q) : p.perm \in perms /\ pt \in Range(p.mounts)
        BY <3>2
      <4>2. p.mounts \in Range(ss)
        BY <1>9, <1>10, <4>1
      <4>3. QED
        BY <4>1, <4>2
    <3>3. QED
      BY <1>1, <2>2, <3>1, <3>2 DEF DocPoint
  <2>3. QED
    BY <2>1, <2>2
<1>13. QED
  BY <1>10, <1>11, <1>12

\* The points of all documents.
LEMMA DebugPoints ==
  ASSUME NEW docs, NEW perms, IsSeq(docs), \A i \in DOMAIN docs : IsDocument(docs[i])
  PROVE  /\ IsSeq(DebugSections(docs, perms))
         /\ \A i \in 1..Len(DebugSections(docs, perms)) : IsSeq(DebugSections(docs, perms)[i])
         /\ \A pt : pt \in Range(FlattenSeq(DebugSections(docs, perms))) <=>
                       \E i \in DOMAIN docs : DocPoint(docs[i], perms, pt)
<1> DEFINE Of(d) == <<d.debug.common>> \o FlattenSeq([k \in DOMAIN d.debug.permission |->
                       IF d.debug.permission[k].perm \in perms THEN <<d.debug.permission[k].mounts>> ELSE <<>>])
<1>1. PICK t : t = [i \in DOMAIN docs |-> IF docs[i].debug = NoSection THEN <<>> ELSE Of(docs[i])]
  OBVIOUS
<1>2. PICK D : D = DebugSections(docs, perms)
  OBVIOUS
<1>3. D = FlattenSeq(t)
  BY <1>1, <1>2 DEF DebugSections, Each
<1>4. ASSUME NEW i \in DOMAIN docs
      PROVE  /\ IsSeq(t[i])
             /\ \A sec \in Range(t[i]) : IsSeq(sec)
             /\ \A pt : (\E sec \in Range(t[i]) : pt \in Range(sec)) <=> DocPoint(docs[i], perms, pt)
  <2>1. PICK d : d = docs[i] /\ IsDocument(d)
    OBVIOUS
  <2>2. CASE d.debug = NoSection
    <3>1. t[i] = <<>>
      BY <1>1, <2>1, <2>2
    <3>2. IsSeq(t[i]) /\ Range(t[i]) = {}
      BY <3>1, EmptyFacts
    <3>3. QED
      BY <2>1, <2>2, <3>2 DEF DocPoint
  <2>3. CASE d.debug # NoSection
    <3>1. PICK ss : ss = Of(d)
      OBVIOUS
    <3>2. t[i] = ss
      BY <1>1, <2>1, <2>3, <3>1
    <3>3. QED
      BY <2>1, <2>3, <3>1, <3>2, DocSections
  <2>4. QED
    BY <2>2, <2>3
<1>5. DOMAIN t = DOMAIN docs /\ t \in [DOMAIN docs -> Range(t)]
  BY <1>1 DEF Range
<1>6. IsSeq(D) /\ Range(D) = UNION {Range(t[i]) : i \in DOMAIN docs}
  BY <1>3, <1>4, <1>5, EachFacts
<1>7. \A i \in 1..Len(D) : IsSeq(D[i])
  <2>1. \A i \in 1..Len(D) : D[i] \in Range(D)
    BY <1>6, SeqFacts
  <2>2. QED
    BY <1>4, <1>6, <2>1
<1>8. PICK F : F = FlattenSeq(D)
  OBVIOUS
<1>9. Range(F) = UNION {Range(D[i]) : i \in 1..Len(D)}
  BY <1>6, <1>7, <1>8, FlattenFacts
<1>10. ASSUME NEW pt PROVE pt \in Range(F) <=> \E i \in DOMAIN docs : DocPoint(docs[i], perms, pt)
  <2>1. ASSUME pt \in Range(F) PROVE \E i \in DOMAIN docs : DocPoint(docs[i], perms, pt)
    <3>1. PICK j \in 1..Len(D) : pt \in Range(D[j])
      BY <1>9, <2>1
    <3>2. D[j] \in Range(D)
      BY <1>6, SeqFacts
    <3>3. PICK i \in DOMAIN docs : D[j] \in Range(t[i])
      BY <1>6, <3>2
    <3>4. QED
      BY <1>4, <3>1, <3>3
  <2>2. ASSUME NEW i \in DOMAIN docs, DocPoint(docs[i], perms, pt) PROVE pt \in Range(F)
    <3>1. PICK sec \in Range(t[i]) : pt \in Range(sec)
      BY <1>4, <2>2
    <3>2. sec \in Range(D)
      BY <1>6
    <3>3. PICK j \in 1..Len(D) : sec = D[j]
      BY <1>6, <3>2, SeqFacts
    <3>4. QED
      BY <1>9, <3>1, <3>3
  <2>3. QED
    BY <2>1, <2>2
<1>11. QED
  BY <1>2, <1>6, <1>7, <1>8, <1>10

\* What an installation mounts, the uninstall message without the flag knows.
LEMMA InstalledIsKnown ==
  ASSUME NEW r \in Requests, NEW f, NEW pt \in Range(FlattenSeq(DebugSections(Docs(f), r.perms)))
  PROVE  <<r.bundle, pt>> \in UninstallPoints(r.bundle, FALSE)
<1>1. PICK docs, all : docs = Docs(f) /\ all = Documents(FALSE)
  OBVIOUS
<1>2. IsSeq(docs) /\ \A i \in DOMAIN docs : IsDocument(docs[i])
  BY <1>1, DocsFacts
<1>3. IsSeq(all) /\ \A i \in DOMAIN all : IsDocument(all[i])
  BY <1>1, DocumentsFacts
<1>4. PICK i \in DOMAIN docs : DocPoint(docs[i], r.perms, pt)
  BY <1>1, <1>2, DebugPoints
<1>5. docs = all
  <2>1. Documents("ISOLATED_TYPE" \in f) = IF "ISOLATED_TYPE" \in f THEN Documents(TRUE) ELSE Documents(FALSE)
    BY DEF Documents
  <2>2. docs = Documents(TRUE) \/ docs = all
    BY <1>1, <2>1 DEF Docs
  <2>3. docs # Documents(TRUE)
    <3>1. SUFFICES ASSUME docs = Documents(TRUE) PROVE FALSE
      OBVIOUS
    <3>2. docs[i].debug = NoSection
      BY <3>1, DocumentsFacts
    <3>3. QED
      BY <1>4, <3>2 DEF DocPoint
  <2>4. QED
    BY <2>2, <2>3
<1>6. r.perms \subseteq AllPerms
  BY DEF AllPerms
<1>7. DocPoint(all[i], AllPerms, pt)
  BY <1>4, <1>5, <1>6 DEF DocPoint
<1>8. pt \in Range(FlattenSeq(DebugSections(all, AllPerms)))
  BY <1>3, <1>5, <1>7, DebugPoints
<1>9. QED
  BY <1>1, <1>8 DEF UninstallPoints

\* Every directory of a debug sandbox is one that an uninstall finds.
DebugInv ==
  /\ \A p \in debug.dirs : p \in UninstallPoints(p[1], FALSE)
  /\ DebugSandboxRemoved

\* No debug sandbox is installed at the start.
LEMMA DebugInit == Init => DebugInv
  BY DEF Init, DebugInv, DebugSandboxRemoved

\* A step that leaves the debug sandboxes alone.
LEMMA DebugSame == ASSUME DebugInv, UNCHANGED debug PROVE DebugInv'
  BY DEF DebugInv, DebugSandboxRemoved, UninstallPoints

\* An installation.
LEMMA DebugInstall == EnterInv /\ DebugInv /\ InstallDebugSandbox => DebugInv'
<1> SUFFICES ASSUME EnterInv, DebugInv, InstallDebugSandbox PROVE DebugInv'
  OBVIOUS
<1>1. CASE UNCHANGED debug
  BY <1>1, DebugSame
<1>2. CASE debug' # debug
  <2>1. PICK secs, g0, at : /\ secs = DebugSections(Docs(flags), req.perms)
                            /\ g0 = [dirs |-> debug.dirs, mounts |-> debug.mounts, stop |-> FALSE]
                            /\ at = ("ATOMIC" \in flags)
    OBVIOUS
  <2>2. PICK failing, half, g :
          /\ g = MountDebugSections(g0, req.bundle, secs, at, failing, half)
          /\ debug'.dirs = g.dirs
          /\ debug'.share \subseteq debug.share \union {req.bundle}
          /\ debug'.gone = debug.gone \ {req.bundle}
    <3>1. ~(~req.developer \/ req.provision # "debug")
      BY <1>2 DEF InstallDebugSandbox
    <3>2. PICK failing, half, sharefs :
            debug' = [dirs   |-> MountDebugSections(g0, req.bundle, secs, at, failing, half).dirs,
                      mounts |-> MountDebugSections(g0, req.bundle, secs, at, failing, half).mounts,
                      share  |-> IF sharefs /\ (\E p \in MountDebugSections(g0, req.bundle, secs, at, failing, half).dirs :
                                                  p[1] = req.bundle)
                                 THEN debug.share \cup {req.bundle} ELSE debug.share,
                      gone   |-> debug.gone \ {req.bundle}]
      BY <2>1, <3>1, Zenon DEF InstallDebugSandbox
    <3>3. PICK g : g = MountDebugSections(g0, req.bundle, secs, at, failing, half)
      OBVIOUS
    <3>4. debug' = [dirs |-> g.dirs, mounts |-> g.mounts,
                    share |-> IF sharefs /\ (\E p \in g.dirs : p[1] = req.bundle)
                              THEN debug.share \cup {req.bundle} ELSE debug.share,
                    gone |-> debug.gone \ {req.bundle}]
      BY <3>2, <3>3, Zenon
    <3>5. /\ debug'.dirs = g.dirs
          /\ debug'.share \subseteq debug.share \union {req.bundle}
          /\ debug'.gone = debug.gone \ {req.bundle}
      BY <3>4
    <3>6. QED
      BY <3>3, <3>5
  <2>3. req \in Requests
    BY DEF InstallDebugSandbox, EnterInv
  <2>4. PICK docs : docs = Docs(flags) /\ IsSeq(docs) /\ \A i \in DOMAIN docs : IsDocument(docs[i])
    BY DocsFacts
  <2>5. IsSeq(secs) /\ \A i \in 1..Len(secs) : IsSeq(secs[i])
    BY <2>1, <2>4, DebugPoints
  <2>6. debug'.dirs \subseteq debug.dirs \union {<<req.bundle, pt>> : pt \in Range(FlattenSeq(secs))}
    <3>1. g0.dirs = debug.dirs
      BY <2>1
    <3>2. g.dirs \subseteq g0.dirs \union {<<req.bundle, pt>> : pt \in Range(FlattenSeq(secs))}
      BY <2>2, <2>5, SectionsDirs
    <3>3. QED
      BY <2>2, <3>1, <3>2
  <2>7. ASSUME NEW p \in debug'.dirs PROVE p \in debug.dirs \/ (p[1] = req.bundle /\ p \in UninstallPoints(p[1], FALSE))
    <3>1. SUFFICES ASSUME NEW pt \in Range(FlattenSeq(secs)), p = <<req.bundle, pt>>
                   PROVE  p[1] = req.bundle /\ p \in UninstallPoints(p[1], FALSE)
      BY <2>6, <2>7
    <3>2. p[1] = req.bundle
      BY <3>1
    <3>3. p \in UninstallPoints(req.bundle, FALSE)
      BY <2>1, <2>3, <3>1, InstalledIsKnown
    <3>4. QED
      BY <3>2, <3>3
  <2>8. \A p \in debug'.dirs : p \in UninstallPoints(p[1], FALSE)
    BY <2>7 DEF DebugInv
  <2>9. \A b \in debug'.gone : b \notin debug'.share /\ ~\E p \in debug'.dirs : p[1] = b
    BY <2>2, <2>7 DEF DebugInv, DebugSandboxRemoved
  <2>10. QED
    BY <2>8, <2>9 DEF DebugInv, DebugSandboxRemoved, UninstallPoints
<1>3. QED
  BY <1>1, <1>2

\* An uninstallation.
LEMMA DebugUninstall ==
  ASSUME NEW bundles, NEW isolated \in BOOLEAN
  PROVE  DebugInv /\ UninstallDebugSandbox(bundles, isolated) => DebugInv'
<1> SUFFICES ASSUME DebugInv, UninstallDebugSandbox(bundles, isolated) PROVE DebugInv'
  OBVIOUS
<1>1. PICK stuck, points :
        /\ points = (UNION {UninstallPoints(b, isolated) : b \in bundles}) \cap debug.dirs
        /\ debug'.dirs = debug.dirs \ (points \ stuck)
        /\ debug'.share = debug.share \ bundles
        /\ debug'.gone = IF stuck = {} /\ ~isolated THEN debug.gone \cup bundles ELSE debug.gone
  <2>1. PICK points : points = (UNION {UninstallPoints(b, isolated) : b \in bundles}) \cap debug.dirs
    OBVIOUS
  <2>2. PICK stuck :
          debug' = [dirs |-> debug.dirs \ (points \ stuck),
                    mounts |-> debug.mounts \ (points \ stuck),
                    share |-> debug.share \ bundles,
                    gone |-> IF stuck = {} /\ ~isolated THEN debug.gone \cup bundles ELSE debug.gone]
    BY <2>1, Zenon DEF UninstallDebugSandbox
  <2>3. /\ debug'.dirs = debug.dirs \ (points \ stuck)
        /\ debug'.share = debug.share \ bundles
        /\ debug'.gone = IF stuck = {} /\ ~isolated THEN debug.gone \cup bundles ELSE debug.gone
    BY <2>2
  <2>4. QED
    BY <2>1, <2>3
<1>2. \A p \in debug'.dirs : p \in UninstallPoints(p[1], FALSE)
  BY <1>1 DEF DebugInv
<1>3. ASSUME NEW b \in debug'.gone PROVE b \notin debug'.share /\ ~\E p \in debug'.dirs : p[1] = b
  <2>1. CASE b \in debug.gone
    BY <1>1, <2>1 DEF DebugInv, DebugSandboxRemoved
  <2>2. CASE b \in bundles /\ stuck = {} /\ ~isolated
    <3>1. ASSUME NEW p \in debug.dirs, p[1] = b PROVE p \in points
      <4>1. p \in UninstallPoints(b, FALSE)
        BY <3>1 DEF DebugInv
      <4>2. isolated = FALSE
        BY <2>2
      <4>3. QED
        BY <1>1, <2>2, <3>1, <4>1, <4>2
    <3>2. QED
      BY <1>1, <2>2, <3>1
  <2>3. QED
    BY <1>1, <1>3, <2>1, <2>2
<1>4. QED
  BY <1>2, <1>3 DEF DebugInv, DebugSandboxRemoved, UninstallPoints

\* Every step keeps the invariant.
LEMMA DebugNext == EnterInv /\ DebugInv /\ [Next]_vars => DebugInv'
<1> SUFFICES ASSUME EnterInv, DebugInv, [Next]_vars PROVE DebugInv'
  OBVIOUS
<1>1. CASE \E apps \in SUBSET Owners : WriteList(apps)
  BY <1>1, DebugSame DEF WriteList
<1>2. CASE Notify \/ OtherAcks \/ Restart
  BY <1>2, DebugSame DEF Notify, OtherAcks, Restart
<1>3. CASE \E r \in Requests : ComputeForSpawn(r)
  BY <1>3, DebugSame DEF ComputeForSpawn
<1>4. CASE AckUpdate \/ LoadFromJson \/ MatchControlled \/ HandleDlpMount \/ NextRequest
  BY <1>4, DebugSame DEF AckUpdate, LoadFromJson, MatchControlled, HandleDlpMount, NextRequest
<1>5. CASE InstallDebugSandbox
  BY <1>5, DebugInstall
<1>6. CASE \E b \in Bundles, isolated \in BOOLEAN : UninstallDebugSandbox({b}, isolated)
  BY <1>6, DebugUninstall
<1>7. CASE \E isolated \in BOOLEAN :
             debug.dirs # {} /\ UninstallDebugSandbox({p[1] : p \in debug.dirs} \cup debug.share, isolated)
  BY <1>7, DebugUninstall
<1>8. CASE StartSandbox \/ CheckProperty \/ EnableSandboxNamespace \/ UpdatePointFlags \/ DoSandboxRootFolderCreate
  BY <1>8, DebugSame DEF StartSandbox, CheckProperty, EnableSandboxNamespace, UpdatePointFlags,
     DoSandboxRootFolderCreate, host
<1>9. CASE DoAppSandboxMountOnce \/ MakeDir \/ MakeSymlink \/ AddGid \/ StopAtError
  BY <1>9, DebugSame DEF DoAppSandboxMountOnce, MakeDir, MakeSymlink, AddGid, StopAtError, host
<1>10. CASE ChangeCurrentDir \/ SetDecPolicy
  BY <1>10, DebugSame DEF ChangeCurrentDir, SetDecPolicy, host
<1>11. CASE UNCHANGED vars
  BY <1>11, DebugSame DEF vars
<1>12. QED
  BY <1>1, <1>2, <1>3, <1>4, <1>5, <1>6, <1>7, <1>8, <1>9, <1>10, <1>11 DEF Next

\* Whatever the installations of a bundle mounted, left half done or mounted
\* again, an uninstall in which no unmount fails removes all of it
\* (InstallDebugSandbox, UninstallDebugSandbox).
THEOREM DebugSandboxGone == Spec => []DebugSandboxRemoved
<1>1. DebugInv => DebugSandboxRemoved
  BY DEF DebugInv
<1>2. QED
  BY <1>1, EnterInit, EnterNext, DebugInit, DebugNext, PTL DEF Spec
=============================================================================
