--------------------------- MODULE MCSpawnResources ---------------------------
(* Three processes: two of one bundle, a child process and an isolated one   *)
(* whose SPM entry has no uid, a request the SPM entry contradicts, and the  *)
(* two kinds of checkpoint requests.                                         *)
EXTENDS SpawnResources, TLC

Req(kind, uid, isolated, normal, attr) ==
    [kind |-> kind, token |-> IF isolated THEN "t0" ELSE "t", attr |-> attr, uid |-> uid,
     user |-> "u1",
     path |-> IF isolated THEN "isolated" ELSE "bundle", isolated |-> isolated,
     normal |-> normal, protect |-> FALSE,
     groups |-> IF isolated \/ normal THEN {}
                ELSE {[name |-> "g", level |-> "el2"], [name |-> "h", level |-> "el5"]}]

MCRequests ==
    {Req("spawn", 1, FALSE, FALSE, "ok"),
     Req("spawn", 1, FALSE, TRUE, "ok"),
     Req("spawn", 2, TRUE, FALSE, "ok"),
     Req("image", 1, FALSE, FALSE, "ok"),
     Req("worker", 1, FALSE, FALSE, "bad")}

JobSymmetry == Permutations(Jobs)

MCSpmEntry == [t |-> [attr |-> "ok", uid |-> 1], t0 |-> [attr |-> "ok", uid |-> 0]]
================================================================================
