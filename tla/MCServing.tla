------------------------------ MODULE MCServing ------------------------------
(***************************************************************************)
(* Serving with header lists that carry the key once, twice, beside a      *)
(* wrong one in either order, in the wrong scheme, and not at all.         *)
(***************************************************************************)
EXTENDS Serving, TLC

Key(v) == [name |-> "x-api-key", value |-> v]
Auth(scheme, v) == [name |-> "authorization", value |-> [scheme |-> scheme, token |-> v]]
Other == [name |-> "accept", value |-> "any"]

MCRequests ==
  { <<Other>>, <<Key("k")>>, <<Other, Auth("bearer", "k")>>, <<Key("bad")>>,
    <<Key("k"), Key("bad")>>, <<Key("bad"), Key("k")>>,
    <<Key("k"), Key("k"), Auth("bearer", "k")>>, <<Key("bad"), Auth("bearer", "k")>>,
    <<Auth("bearer", "bad"), Auth("bearer", "k")>>,
    <<Auth("bearer", "k"), Auth("bearer", "bad")>>,
    <<Auth("basic", "k")>>, <<Auth("bearer", "")>> }

=============================================================================
