-------------------------- MODULE MCHnpInstaller --------------------------
(***************************************************************************)
(* Two HAPs, three names: n1 in three versions, n2 whose link collides     *)
(* with one of n1's third version, and the library n3 without links.       *)
(***************************************************************************)
EXTENDS HnpInstaller

CONSTANTS a, b, n1, n2, n3, l1, l2, none

Pkg(n, v, pub, ls, elf) ==
    [name |-> n, ver |-> v, public |-> pub, links |-> ls, elf |-> elf]

MCHaps == {a, b}
MCNames == {n1, n2, n3}
MCLinks == {l1, l2}

MCBundles ==
    {<<Pkg(n1, 1, TRUE, <<l1>>, TRUE)>>,
     <<Pkg(n1, 2, TRUE, <<l1>>, TRUE)>>,
     <<Pkg(n1, 3, TRUE, <<l1, l2>>, TRUE)>>,
     <<Pkg(n1, 1, TRUE, <<l1>>, TRUE), Pkg(n2, 1, TRUE, <<l2>>, FALSE)>>,
     <<Pkg(n1, 1, FALSE, <<l1>>, TRUE)>>,
     <<Pkg(n3, 1, TRUE, <<>>, TRUE)>>,
     <<Pkg(n3, 2, TRUE, <<>>, TRUE)>>}

NoLinks == [l \in MCLinks |-> <<>>]
MCFresh == {[old |-> none, dirs |-> {}, links |-> NoLinks]}
MCLegacy == MCFresh \cup
    {[old |-> {[hap |-> a, name |-> n1, cur |-> 2, inst |-> 1]},
      dirs |-> {<<n1, 1>>, <<n1, 2>>},
      links |-> [NoLinks EXCEPT ![l1] = <<n1, 2>>]],
     [old |-> {[hap |-> a, name |-> n1, cur |-> 2, inst |-> 1],
               [hap |-> b, name |-> n1, cur |-> 2, inst |-> none]},
      dirs |-> {<<n1, 1>>, <<n1, 2>>},
      links |-> [NoLinks EXCEPT ![l1] = <<n1, 2>>]]}
=============================================================================
