------------------------------ MODULE MCAdminStats ------------------------------
(* Small instances of AdminStats for TLC. *)
EXTENDS AdminStats, TLC

CONSTANTS u1, b1, i1, s1

\* What is there to count, and what goes with it when it is deleted.
Kind  == u1 :> "users" @@ b1 :> "buckets" @@ i1 :> "images" @@ s1 :> "send_history"
Owned == u1 :> {} @@ b1 :> {u1} @@ i1 :> {u1, b1} @@ s1 :> {u1}

MCTableOf == [x \in Item |-> Kind[x]]
MCAbove   == [x \in Item |-> Owned[x]]
=============================================================================
