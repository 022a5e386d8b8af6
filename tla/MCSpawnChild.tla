---------------------------- MODULE MCSpawnChild ----------------------------
(* Requests small enough to enumerate: every mode and type, one set of flags *)
(* for each branch of the hooks, descriptors that fit or do not.             *)
EXTENDS SpawnChild

MCFlags ==
    {{}, {"cold"}, {"asan"}, {"dfx", "developer"}, {"custom", "nosharefs", "fowner"},
     {"fowner", "no_graphic_check"}, {"isolated"},
     {"isolated_type", "nosharefs"}, {"atomic"}, {"iouring", "atomic"}, {"begetctl"},
     {"nativedebug", "debuggable"}, {"developer"}, {"no_sandbox"}, {"ignore_sandbox"}, {"maxpids", "nosharefs"},
     {"render"}, {"render", "cold"}, {"render", "m114"}}

MCDescriptors ==
    {[fds |-> <<>>, tlvs |-> 0], [fds |-> <<5, 6>>, tlvs |-> 3],
     [fds |-> <<5, 6, 7>>, tlvs |-> 3], [fds |-> <<5, 1000>>, tlvs |-> 2]}

MCRequest(m, t, f, d, p, pre, abs) ==
    [mode |-> m, type |-> t, flags |-> f, fds |-> d.fds, tlvs |-> d.tlvs, perms |-> p,
     prefork |-> pre, absent |-> abs]

\* Prefork serves applications that are neither child processes nor cold started.
MCRequests ==
    {r \in {MCRequest(m, t, f, d, p, pre, {}) :
              m \in {"app", "hybrid", "native", "nweb"}, t \in {"app", "child", "nativeproc"},
              f \in MCFlags, d \in MCDescriptors, p \in {0, 2}, pre \in BOOLEAN} :
       /\ r.prefork => r.mode = "app" /\ r.type = "app" /\ "cold" \notin r.flags
       /\ "render" \in r.flags => r.mode = "nweb"
       /\ r.perms > 0 => r.fds = <<>>}
    \union {MCRequest("app", "app", {"maxpids"}, [fds |-> <<>>, tlvs |-> 0], p, FALSE, abs) :
              p \in {1, 3}, abs \in {{}, {"Encaps"}}}
=============================================================================
