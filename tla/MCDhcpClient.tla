---------------------------- MODULE MCDhcpClient ----------------------------
(* Small instances of DhcpClient: leases long and short, one with timers of *)
(* its own, and an ACK without a lease time.                                *)
EXTENDS DhcpClient

lease_of(time) == [leaseTime |-> time, t1 |-> 0, t2 |-> 0]

Leases  == {lease_of(0), lease_of(2), lease_of(8), [leaseTime |-> 6, t1 |-> 1, t2 |-> 2]}
OneLease == {lease_of(4)}
=============================================================================
