---------------------------- MODULE MCAppSandbox ----------------------------
(***************************************************************************)
(* A configuration of two policy directories and the requests that reach   *)
(* every kind of section, point, flag and permission.                      *)
(***************************************************************************)
EXTENDS AppSandbox

Pt(at) == [at |-> at, src |-> "path", fuse |-> FALSE, skip |-> FALSE, must |-> FALSE,
           apl |-> "any", ifExists |-> FALSE, exists |-> TRUE, appData |-> FALSE, info |-> TRUE, dec |-> NoDec]
Must(at) == [Pt(at) EXCEPT !.must = TRUE]
Link(name, must) == [name |-> name, must |-> must]
Sect(m) == [mounts |-> m, links |-> <<>>, flagPoints |-> <<>>, gids |-> <<>>, owner |-> "none", flag |-> "none"]
FlagPoint(flag, l, m) == [flag |-> flag, links |-> l, mounts |-> m]

EmptyDoc ==
    [common |-> FALSE, switch |-> TRUE, ns |-> {}, base |-> NoSection, resources |-> NoSection,
     daemon |-> NoSection, nocheck |-> NoSection, individual |-> FALSE, renderNs |-> {},
     private |-> [b \in {} |-> NoSection], permission |-> <<>>, debug |-> NoSection]

\* The system's document: every section, a private one, a permission and debug points.
SystemDoc ==
    [EmptyDoc EXCEPT
      !.common = TRUE, !.ns = {"net", "pid"},
      !.base = [Sect(<<Must("lib")>>) EXCEPT !.links = <<Link("/lib", TRUE)>>],
      !.resources = [Sect(<<[Pt("data") EXCEPT !.fuse = TRUE], [Pt("docs") EXCEPT !.skip = TRUE],
                            [Pt("sys") EXCEPT !.apl = "system_core"]>>)
                     EXCEPT !.flagPoints = <<FlagPoint("FILE_ACCESS_COMMON_DIR", <<Link("/f", TRUE)>>,
                                               <<[Must("common") EXCEPT !.dec = [rw |-> <<"c">>, ro |-> <<"r">>]]>>),
                                             FlagPoint("PREINSTALLED_HAP", <<>>, <<Pt("pre")>>)>>],
      !.daemon = Sect(<<Must("daemon"), [Must("bare") EXCEPT !.info = FALSE]>>),
      !.nocheck = Sect(<<[Must("hosts") EXCEPT !.ifExists = TRUE]>>),
      !.individual = TRUE, !.renderNs = {"net"},
      !.private = [b \in {"a", "render"} |->
          IF b = "a" THEN [Sect(<<Must("priv")>>) EXCEPT !.owner = "o1", !.gids = <<7>>,
                           !.links = <<Link("/p", TRUE), Link("/q", FALSE)>>,
                           !.flagPoints = <<FlagPoint("BACKUP", <<>>, <<[Pt("backup") EXCEPT !.appData = TRUE], Pt("b2")>>)>>]
          ELSE [Sect(<<Must("web")>>) EXCEPT !.links = <<Link("/w", TRUE)>>,
                !.flagPoints = <<FlagPoint("BACKUP", <<>>, <<Must("wb")>>), FlagPoint("OVERLAY", <<>>, <<Pt("wo")>>)>>]],
      !.permission = <<[perm |-> "USER_FILE", flag |-> "none", gids |-> <<0, 5, 6>>, links |-> <<Link("/u", TRUE)>>,
                        mounts |-> <<[Must("user") EXCEPT !.dec = [rw |-> <<"u">>, ro |-> <<>>]]>>]>>,
      !.debug = [common |-> <<"d1", "d2">>, permission |-> <<[perm |-> "SCREEN_LOCK", mounts |-> <<"d5">>]>>]]

\* A vendor's document that adds to it, and the isolated one.
VendorDoc == [EmptyDoc EXCEPT !.common = TRUE, !.switch = FALSE, !.base = Sect(<<Pt("vendor")>>),
                              !.nocheck = Sect(<<Must("never")>>)]
IsolatedDoc == [EmptyDoc EXCEPT !.common = TRUE, !.switch = FALSE, !.base = Sect(<<Must("iso")>>)]

MCDirs == <<[app |-> SystemDoc, isolated |-> IsolatedDoc],
            [app |-> NoDoc, isolated |-> IsolatedDoc],
            [app |-> VendorDoc, isolated |-> NoDoc]>>

Req == [mode |-> "app", bundle |-> "a", flags |-> {}, perms |-> {}, domain |-> "normal", dac |-> TRUE,
        owner |-> "o1", system |-> FALSE, token |-> TRUE, developer |-> FALSE, extension |-> FALSE,
        provision |-> "none", hsp |-> <<>>, groups |-> <<>>, overlays |-> <<>>, internal |-> FALSE,
        dlp |-> FALSE, processType |-> "none", gids |-> <<1>>, wps |-> FALSE, wide |-> TRUE]

MCRequests ==
    {Req,
     [Req EXCEPT !.owner = "o2", !.flags = {"BACKUP", "CONTROLLED"}, !.wps = TRUE, !.perms = {"FILE_ACCESS_MANAGER", "USER_FILE", "ALLOW_IOURING"}],
     [Req EXCEPT !.perms = {"USER_FILE", "DESKTOP", "SCREEN_LOCK"}, !.bundle = "b", !.developer = TRUE,
                 !.provision = "debug", !.groups = <<"el5">>],
     [Req EXCEPT !.bundle = "b", !.developer = TRUE, !.provision = "debug", !.flags = {"ATOMIC", "OVERLAY"},
                 !.overlays = <<"ov1", "ov2">>, !.hsp = <<"h1", "bad">>],
     [Req EXCEPT !.bundle = "b", !.developer = TRUE, !.provision = "debug", !.flags = {"ATOMIC", "NO_SANDBOX"}],
     [Req EXCEPT !.owner = "none", !.system = TRUE, !.domain = "system_core", !.dlp = TRUE,
                 !.flags = {"PREINSTALLED", "OVERLAY", "BUNDLE_RESOURCES"}, !.overlays = <<"ov1", "ov2">>],
     [Req EXCEPT !.flags = {"ISOLATED", "ISOLATED_TYPE", "IGNORE_SANDBOX"}],
     [Req EXCEPT !.bundle = "invalid", !.domain = "none"],
     [Req EXCEPT !.wide = FALSE],
     [Req EXCEPT !.mode = "nweb", !.processType = "render", !.flags = {"BACKUP", "OVERLAY", "ISOLATED_NETWORK"},
                 !.overlays = <<"ov1">>],
     [Req EXCEPT !.mode = "nweb"]}
=============================================================================
