------------------------------- MODULE MCDhcp -------------------------------
(* Two clients and two servers: the clients on two links, with the MAC      *)
(* address that lease.h speaks of, one of them restarted or on an interface *)
(* that fails; and both on one link.                                        *)
EXTENDS Dhcp, TLC

CONSTANTS c1, c2, m1, m2

apart    == [link |-> c1 :> 1 @@ c2 :> 2, mac |-> c1 :> m1 @@ c2 :> m1]
together == [link |-> c1 :> 1 @@ c2 :> 1, mac |-> c1 :> m1 @@ c2 :> m2]

setting_of(place, restarting, failing, first, second) ==
  [link |-> place.link, mac |-> place.mac, restarting |-> restarting, failing |-> failing,
   maxXid |-> c1 :> first @@ c2 :> second]

SomeSettings == {setting_of(apart, {c1}, {}, 2, 2), setting_of(apart, {}, {c1}, 3, 2),
                 setting_of(apart, {}, {}, 4, 1), setting_of(together, {}, {}, 3, 2)}

Symmetry == Permutations(Servers)
=============================================================================
