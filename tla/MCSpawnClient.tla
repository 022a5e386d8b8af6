--------------------------- MODULE MCSpawnClient ---------------------------
(* SpawnClient for TLC. *)
EXTENDS SpawnClient, TLC

CONSTANTS t1, t2

\* A message that fits one block, and one whose last TLV is split over two.
Short == << <<1>> >>
Long == << <<1, 1>>, <<1, 2>> >>
Caller(k1, k2, fd, tlvs) == [kinds |-> t1 :> k1 @@ t2 :> k2, fd |-> fd, tlvs |-> tlvs]

\* Two calls that share managers; a listening process that falls back from df
\* to main; the two kinds of broadcast, which go to both services.
MCCallers ==
  { Caller("listed", "spawn", FALSE, Short), Caller("web", "none", FALSE, Short),
    Caller("listed", "none", TRUE, Long), Caller("lock", "none", FALSE, Long) }
=============================================================================
