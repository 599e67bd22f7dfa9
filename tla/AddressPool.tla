---------------------------- MODULE AddressPool ----------------------------
(***************************************************************************)
(* What the leases of the DHCP server promise: an endpoint gets one        *)
(* address, nobody else's, and keeps it.                       *)
(***************************************************************************)
CONSTANTS Keys,        \* endpoints
          Addresses,   \* what can be given out
          NoAddress

VARIABLE leased        \* the address of each endpoint

Init == leased = [k \in Keys |-> NoAddress]

Allocate(k, a) ==
  /\ leased[k] = NoAddress
  /\ \A j \in Keys : leased[j] # a
  /\ leased' = [leased EXCEPT ![k] = a]

Next == \E k \in Keys, a \in Addresses : Allocate(k, a)

Spec == Init /\ [][Next]_leased
=============================================================================
