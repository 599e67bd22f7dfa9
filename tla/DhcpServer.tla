----------------------------- MODULE DhcpServer -----------------------------
(***************************************************************************)
(* The DHCP server (dhcp/server/dhcpserver.cpp): one thread that polls its *)
(* socket, allocates an address for every endpoint that asks, and answers  *)
(* DISCOVER with an OFFER, REQUEST with an ACK or a NAK.                   *)
(*                                                                         *)
(* Addresses are numbers in host order: the code stores them in network    *)
(* order and converts for every sum and comparison, and 0 is 0 in both.    *)
(* The loop of getOfferAddress is a step of its own, since it need not     *)
(* end; all the rest of a handler is one step.  The compiler of the build  *)
(* keeps a loop whose trip count it cannot compute, so it spins.           *)
(***************************************************************************)
EXTENDS Integers

CONSTANTS
  Interfaces,        \* interface indexes, 0 when recvmsg reported none
  Macs,              \* hardware addresses of clients
  Ranges,            \* [start, end] of the command line, zero when not given
  Asked,             \* addresses that clients ask for
  mExcludeInterface,
  U32,               \* 2^32
  ByteSize           \* 256

ASSUME ServerAssumption ==
  /\ Interfaces \subseteq Nat
  /\ U32 \in Nat /\ ByteSize \in Nat \ {0, 1, 2} /\ U32 % ByteSize = 0
  /\ Asked \subseteq 0 .. U32 - 1 /\ Ranges \subseteq [start : 0 .. U32 - 1, end : 0 .. U32 - 2]

Address == 0 .. U32 - 1
NoLease == 0                       \* the zero a map element is created with

Lease(interfaceIndex, macAddress) == <<interfaceIndex, macAddress>>
Keys == {Lease(i, mac) : i \in Interfaces, mac \in Macs}

Request == [type : {"DHCPDISCOVER", "DHCPREQUEST"}, interface : Interfaces, chaddr : Macs,
            valid : BOOLEAN, requestedIp : Asked]
Reply   == [type : {"none", "DHCPOFFER", "DHCPACK", "DHCPNAK"}, yiaddr : Address]
NoReply == [type |-> "none", yiaddr |-> 0]

VARIABLES
  range,                       \* mDhcpRangeStart and mDhcpRangeEnd
  mLeases, mNextAddressOffset,
  pc,                          \* "poll", or "allocate" while a message is handled
  message,                     \* the message being handled, or the last one
  nextAddress, lastAddressByte,   \* locals of getOfferAddress
  reply                        \* what the last handler sent

table  == <<mLeases, mNextAddressOffset>>
locals == <<message, nextAddress, lastAddressByte>>
vars   == <<range, table, pc, locals, reply>>

mDhcpRangeStart == range.start
mDhcpRangeEnd   == range.end

(* main starts no server without a range.                                  *)
Served == {r \in Ranges : r.start # 0 /\ r.end # 0}

Init ==
  /\ range \in Served
  /\ mLeases = [k \in Keys |-> NoLease] /\ mNextAddressOffset = 0
  /\ pc = "poll" /\ message \in {m \in Request : ~m.valid}    \* read by no one yet
  /\ nextAddress = 0 /\ lastAddressByte = 1
  /\ reply = NoReply

key == Lease(message.interface, message.chaddr)

last_byte(a) == a % ByteSize
reserved_network(b) == b = 0               \* mutant: ".255" is not avoided
reserved(b)         == b = ByteSize - 1 \/ b = 0    \* ".255" and ".0"

(***************************************************************************)
(* run: poll, receive, drop what is not for us.  An accepted message needs *)
(* an address whatever its type; getOfferAddress starts when the endpoint  *)
(* has none.                                                               *)
(***************************************************************************)
accepted(m) == m.interface \notin {0, mExcludeInterface} /\ m.valid

run(m) ==
  /\ pc = "poll" /\ accepted(m)
  /\ message' = m /\ pc' = "allocate" /\ reply' = NoReply
  /\ IF mLeases[Lease(m.interface, m.chaddr)] = NoLease
       THEN /\ nextAddress' = (mDhcpRangeStart + mNextAddressOffset) % U32
            /\ lastAddressByte' = last_byte(nextAddress')
       ELSE UNCHANGED <<nextAddress, lastAddressByte>>
  /\ UNCHANGED <<range, table>>

skipping == mLeases[key] = NoLease /\ reserved(lastAddressByte)

skip_unbounded ==                               \* mutant: the sums are not reduced to 32 bits
  /\ pc = "allocate" /\ skipping
  /\ nextAddress' = nextAddress + 1 /\ mNextAddressOffset' = mNextAddressOffset + 1
  /\ UNCHANGED <<range, mLeases, pc, message, lastAddressByte, reply>>

(* The body of the loop of getOfferAddress: lastAddressByte stays.         *)
skip_address ==
  /\ pc = "allocate" /\ skipping
  /\ nextAddress' = (nextAddress + 1) % U32
  /\ mNextAddressOffset' = (mNextAddressOffset + 1) % U32
  /\ UNCHANGED <<range, mLeases, pc, message, lastAddressByte, reply>>

(* getOfferAddress after the loop: the address, NoLease when it fails, and *)
(* what it leaves in the table.                                            *)
fits_below_end(a) == a < mDhcpRangeEnd          \* mutant: the end of the range is left out
fits_anywhere(a)  == a >= mDhcpRangeStart       \* mutant: no end
fits(a)           == a <= mDhcpRangeEnd

offer_always_new == IF fits(nextAddress) THEN nextAddress ELSE NoLease   \* mutant: value == 0 is not asked
offerAddress ==
  IF mLeases[key] # NoLease THEN mLeases[key]
  ELSE IF fits(nextAddress) THEN nextAddress ELSE NoLease

offset_stays == mNextAddressOffset              \* mutant: ++mNextAddressOffset is forgotten
next_offset ==
  IF mLeases[key] = NoLease /\ fits(nextAddress)
    THEN (mNextAddressOffset + 1) % U32 ELSE mNextAddressOffset

getOfferAddress ==
  /\ mLeases' = [mLeases EXCEPT ![key] = offerAddress]
  /\ mNextAddressOffset' = next_offset

-----------------------------------------------------------------------------
(* sendDhcpOffer, sendAck, sendNack: nothing is sent when the address of   *)
(* the interface cannot be had or sendmsg fails (~sent).                   *)

request_has_lease == offerAddress # NoLease     \* mutant: the requested address is not compared
isValidDhcpRequest == offerAddress # NoLease /\ message.requestedIp = offerAddress

answer_type ==
  IF message.type = "DHCPDISCOVER"
    THEN IF offerAddress # NoLease THEN "DHCPOFFER" ELSE "none"
    ELSE IF isValidDhcpRequest THEN "DHCPACK" ELSE "DHCPNAK"

answer(sent) ==
  /\ pc = "allocate" /\ ~skipping
  /\ getOfferAddress
  /\ reply' = IF sent /\ answer_type # "none"
                THEN [type |-> answer_type,
                      yiaddr |-> IF answer_type = "DHCPNAK" THEN 0 ELSE offerAddress]
                ELSE NoReply
  /\ pc' = "poll"
  /\ UNCHANGED <<range, locals>>

Next ==
  \/ \E m \in Request : run(m)
  \/ skip_address
  \/ \E sent \in BOOLEAN : answer(sent)

Spec == Init /\ [][Next]_vars

(* The thread runs; nothing makes clients send.                            *)
FairSpec == Spec /\ WF_vars(skip_address) /\ WF_vars(\E sent \in BOOLEAN : answer(sent))

-----------------------------------------------------------------------------
TypeOK ==
  /\ range \in Served
  /\ mLeases \in [Keys -> Address] /\ mNextAddressOffset \in Address
  /\ pc \in {"poll", "allocate"} /\ message \in Request
  /\ nextAddress \in Address /\ lastAddressByte \in Address /\ reply \in Reply

(* lease.h: two endpoints never hold the same address, whether they differ *)
(* in MAC address or only in the interface they are behind.                *)
UniqueLeases == \A j, k \in Keys : mLeases[j] = mLeases[k] /\ mLeases[j] # NoLease => j = k

usable(a) ==
  /\ a \in mDhcpRangeStart .. mDhcpRangeEnd
  /\ a % ByteSize # 0 /\ a % ByteSize # ByteSize - 1

(* Every address given out is one of the range, and neither a network nor  *)
(* a broadcast address.                                                    *)
LeasesInRange == \A k \in Keys : mLeases[k] # NoLease => usable(mLeases[k])

(* An ACK carries the address the client asked for, which is the one the   *)
(* server has recorded for it: the client configures what it asked for.    *)
AckAnswersRequest ==
  reply.type = "DHCPACK" => reply.yiaddr = message.requestedIp /\ mLeases[key] = message.requestedIp

(* A client is refused only if it asked for another address than its own,  *)
(* or when every address of the range is taken: none is lost on the way.   *)
RefusedForAReason ==
  reply.type = "DHCPNAK" =>
    \/ mLeases[key] # NoLease /\ mLeases[key] # message.requestedIp
    \/ \A a \in mDhcpRangeStart .. mDhcpRangeEnd : \E k \in Keys : mLeases[k] = a

(* run goes back to poll after every message, as the server should run     *)
(* forever; and a comment in getOfferAddress says that it steps over       *)
(* reserved addresses ("Increase it further to avoid this").               *)
AllocationEnds == pc = "allocate" ~> pc = "poll"

(* The table of leases implements the abstract pool: addresses are only    *)
(* added, each for one endpoint, and stay for as long as the server runs.  *)
Leases == INSTANCE AddressPool WITH
            Addresses <- Address \ {NoLease}, NoAddress <- NoLease, leased <- mLeases
ImplementsAddressPool == Leases!Spec
=============================================================================
