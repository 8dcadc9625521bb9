------------------------ MODULE OAuthCredentialBrokerMC ------------------------
(* Topologies of OAuthCredentialBroker for TLC. *)
EXTENDS OAuthCredentialBroker, TLC

CONSTANTS o1, o2, o3, r1, r2, c1, c2, a1, p1

(* Two resolves of one account over two connections. *)
TwoOps       == {o1, o2}
TwoIds       == {r1, r2}
TwoIdOf      == o1 :> r1 @@ o2 :> r2
TwoConnections == {c1, c2}
OwnConnection  == o1 :> c1 @@ o2 :> c2
OneConnection  == o1 :> c1 @@ o2 :> c1
SharedAccount  == c1 :> a1 @@ c2 :> a1

(* Three resolves of one connection, the third reusing the first one's identifier. *)
ThreeOps       == {o1, o2, o3}
ThreeIds       == {r1, r2}
ReusedIdOf     == o1 :> r1 @@ o2 :> r2 @@ o3 :> r1
ThreeOnOne     == o1 :> c1 @@ o2 :> c1 @@ o3 :> c1

OneProfile     == a1 :> p1

(* One connection shared by two resolves. *)
SingleConnection == {c1}
SingleAccount    == c1 :> a1

(* Two resolves of one connection are interchangeable together with their identifiers. *)
OpOf(id)       == CHOOSE o \in TwoOps : TwoIdOf[o] = id
OpSymmetry     == {p @@ [id \in TwoIds |-> TwoIdOf[p[OpOf(id)]]] : p \in Permutations(TwoOps)}
=============================================================================
