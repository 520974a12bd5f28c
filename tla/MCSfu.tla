------------------------------- MODULE MCSfu --------------------------------
(* Instances of the server for TLC. *)
EXTENDS Sfu, TLC

CONSTANTS pub, sub, sub2, c1, c2, c3, r1, r2, a1

(* readme.md: the first user publishes, later users pull from it. *)
PubOnly == {pub}
SubOnly == {sub}
Users == {pub, sub}
SubsOnly == {sub, sub2}
Users3 == {pub, sub, sub2}
Conns2 == {c1, c2}
Conns3 == {c1, c2, c3}
Room1 == {r1}
Room2 == {r1, r2}
Addr1 == {a1}

ConnSymmetry == Permutations(Conns)
ConnAndPullerSymmetry == Permutations(Conns) \union Permutations(Pullers)
ConnAndRoomSymmetry == Permutations(Conns) \union Permutations(Rooms)
=============================================================================
