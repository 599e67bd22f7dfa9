-------------------------------- MODULE Dhcp --------------------------------
(***************************************************************************)
(* DHCP clients and servers on their links.  Each link is an interface of  *)
(* every server.  A client is the process of dhcp/client on one link, seen *)
(* where it polls: what it does between two polls is one step, and time is *)
(* left out, so any wait may end whenever it likes (DhcpClient has the     *)
(* times).  A server is one process of dhcp/server: when it is restarted   *)
(* it falls silent for ever and another server, with a table of its own,   *)
(* begins to answer; two that answer by turns are two hosts on the links.  *)
(*                                                                         *)
(* The network is the set of all messages ever sent: they are lost,        *)
(* delayed, repeated and put in another order.  Every message is broadcast *)
(* on its link, requests and replies alike.  The ranges served hold no     *)
(* reserved address (DhcpServer has these), so that a server handles a     *)
(* message in one step, with the operators of DhcpServer.                  *)
(***************************************************************************)
EXTENDS Integers, FiniteSets

CONSTANTS
  Clients, Servers,
  Links, Macs,            \* links are numbered as the interfaces of the servers
  RangeStart, RangeEnd,
  U32,                    \* 2^32
  Settings                \* where the clients are and what happens to them

Nobody == "nobody"        \* no server yet, or any of them

ASSUME DhcpAssumption ==
  /\ Links \subseteq Nat \ {0} /\ RangeStart \in Nat \ {0}
  /\ U32 \in Nat /\ RangeEnd \in Nat /\ RangeEnd + 1 < U32
  /\ Nobody \notin Servers
  /\ \A w \in Settings :
       /\ w.link \in [Clients -> Links] /\ w.mac \in [Clients -> Macs]
       /\ \A c, d \in Clients : c # d => <<w.link[c], w.mac[c]>> # <<w.link[d], w.mac[d]>>

NoAddress   == 0
Addresses   == RangeStart .. RangeEnd
States      == {"Init", "Selecting", "Requesting", "Bound", "Renewing", "Rebinding"}

VARIABLES
  setting,                           \* one of Settings
  mState, mServerAddress, mRequestAddress,
  sNextTransactionId,
  up, address,                       \* the interface of each client
  restarted,
  grantedBy,                         \* history: the server whose ACK set the address
  mLeases, mNextAddressOffset,       \* of each server
  network

fsm     == <<mState, mServerAddress, mRequestAddress>>
kernel  == <<up, address, grantedBy>>
client  == <<fsm, kernel, sNextTransactionId, restarted>>
servers == <<mLeases, mNextAddressOffset>>
vars    == <<setting, client, servers, network>>

link       == setting.link
mac        == setting.mac
Restarting == setting.restarting     \* clients whose process may be started once more
Failing    == setting.failing        \* clients whose calls on the interface may fail
MaxXid     == setting.maxXid         \* bound: the messages a process of a client sends

first_id_zero == 0                   \* mutant: the count starts as memory does
first_id == 1

Keys == {<<link[c], mac[c]>> : c \in Clients}

Init ==
  /\ setting \in Settings
  /\ mState = [c \in Clients |-> "Init"]
  /\ mServerAddress = [c \in Clients |-> Nobody] /\ mRequestAddress = [c \in Clients |-> NoAddress]
  /\ sNextTransactionId = [c \in Clients |-> first_id]
  /\ up = [c \in Clients |-> TRUE] /\ address = [c \in Clients |-> NoAddress]
  /\ restarted = [c \in Clients |-> FALSE] /\ grantedBy = [c \in Clients |-> Nobody]
  /\ mLeases = [s \in Servers |-> [k \in Keys |-> NoAddress]]
  /\ mNextAddressOffset = [s \in Servers |-> 0]
  /\ network = {}

-----------------------------------------------------------------------------
(* Clients.  The constructor of a message numbers it; only the number is   *)
(* read later, of the last message.  Without an interface that is up the   *)
(* message is not sent.                                                    *)

lastXid(c) == sNextTransactionId[c] - 1

sendMessage(c, type, ip, server) ==
  /\ sNextTransactionId[c] <= MaxXid[c]
  /\ sNextTransactionId' = [sNextTransactionId EXCEPT ![c] = @ + 1]
  /\ network' = IF ~up'[c] THEN network
                ELSE network \union
                  {[type |-> type, link |-> link[c], chaddr |-> mac[c],
                    xid |-> sNextTransactionId[c], requestedIp |-> ip, serverId |-> server]}

become(c, state) == mState' = [mState EXCEPT ![c] = state]

(* setNextState(Init), and what run does until it polls.                   *)
discover(c) ==
  /\ UNCHANGED <<mServerAddress, mRequestAddress>>
  /\ become(c, "Selecting") /\ sendMessage(c, "DHCPDISCOVER", NoAddress, Nobody)

ask_early(c, state) ==               \* mutant: the request is made before the offer is noted
  /\ become(c, state)
  /\ sendMessage(c, "DHCPREQUEST", mRequestAddress[c],
                 IF state = "Rebinding" THEN Nobody ELSE mServerAddress[c])
ask(c, state) ==
  /\ become(c, state)
  /\ sendMessage(c, "DHCPREQUEST", mRequestAddress'[c],
                 IF state = "Rebinding" THEN Nobody ELSE mServerAddress'[c])

ask_again(c, state) == UNCHANGED <<mServerAddress, mRequestAddress>> /\ ask(c, state)

(* A wait is over, with the limits of the state reached or not.            *)
timed_out(c) ==
  /\ UNCHANGED <<setting, kernel, restarted, servers>>
  /\ \/ mState[c] \in {"Init", "Selecting", "Requesting", "Rebinding"} /\ discover(c)
     \/ mState[c] = "Requesting" /\ ask_again(c, "Requesting")
     \/ mState[c] \in {"Bound", "Renewing"} /\ ask_again(c, "Renewing")
     \/ mState[c] \in {"Bound", "Renewing", "Rebinding"} /\ ask_again(c, "Rebinding")

receiveRawUdp(c, m) == up[c] /\ m \in network /\ m.link = link[c]

(* Whoever it was sent to: chaddr is not looked at.                        *)
isValid_any(c, m)        == TRUE                 \* mutant: the transaction is not compared
isValidDhcpMessage(c, m) == m.xid = lastXid(c)

receiveDhcpMessage(c, m) == receiveRawUdp(c, m) /\ isValidDhcpMessage(c, m)

offer(c, m) ==
  /\ receiveDhcpMessage(c, m) /\ mState[c] = "Selecting" /\ m.type = "DHCPOFFER"
  /\ mServerAddress' = [mServerAddress EXCEPT ![c] = m.server]
  /\ mRequestAddress' = [mRequestAddress EXCEPT ![c] = m.yiaddr]
  /\ UNCHANGED <<setting, kernel, restarted, servers>>
  /\ ask(c, "Requesting")

requested(c) == mState[c] \in {"Requesting", "Renewing", "Rebinding"}

(* configureDhcp gets as far as "reached".                                 *)
ack(c, m, reached) ==
  /\ receiveDhcpMessage(c, m) /\ requested(c) /\ m.type = "DHCPACK"
  /\ c \in Failing \/ reached = "end"
  /\ IF reached = "flags" THEN UNCHANGED <<address, grantedBy>>
     ELSE /\ address' = [address EXCEPT ![c] = m.yiaddr]
          /\ grantedBy' = [grantedBy EXCEPT ![c] = m.server]
  /\ IF reached = "end" THEN become(c, "Bound") ELSE UNCHANGED mState
  /\ UNCHANGED <<mServerAddress, mRequestAddress, up, sNextTransactionId>>
  /\ UNCHANGED <<setting, restarted, servers, network>>

refused(c, m) == receiveDhcpMessage(c, m) /\ requested(c) /\ m.type = "DHCPNAK"

(* Either call of haltNetwork may fail; then discover.                     *)
nak(c, m) ==
  /\ refused(c, m)
  /\ \E a \in {NoAddress} \union (IF c \in Failing THEN {address[c]} ELSE {}) :
       address' = [address EXCEPT ![c] = a]
  /\ \E isUp \in {FALSE} \union {c \in Failing} : up' = [up EXCEPT ![c] = isUp]
  /\ UNCHANGED <<setting, grantedBy, restarted, servers>>
  /\ discover(c)

(* main again: Interface::init, and a count of messages that is back at 1. *)
restart(c) ==
  /\ c \in Restarting /\ ~restarted[c] /\ restarted' = [restarted EXCEPT ![c] = TRUE]
  /\ become(c, "Init")
  /\ mServerAddress' = [mServerAddress EXCEPT ![c] = Nobody]
  /\ mRequestAddress' = [mRequestAddress EXCEPT ![c] = NoAddress]
  /\ sNextTransactionId' = [sNextTransactionId EXCEPT ![c] = first_id]
  /\ up' = [up EXCEPT ![c] = TRUE] /\ address' = [address EXCEPT ![c] = NoAddress]
  /\ UNCHANGED <<setting, grantedBy, servers, network>>

-----------------------------------------------------------------------------
(* Servers.                                                                *)

(* A server that has m in hand, as DhcpServer sees it.                     *)
Handler(s, m) == INSTANCE DhcpServer WITH
  Interfaces <- Links, Macs <- Macs,
  Ranges <- {[start |-> RangeStart, end |-> RangeEnd]}, Asked <- Addresses \union {NoAddress},
  mExcludeInterface <- 0, U32 <- U32, ByteSize <- 256,
  range <- [start |-> RangeStart, end |-> RangeEnd],
  mLeases <- mLeases[s], mNextAddressOffset <- mNextAddressOffset[s],
  pc <- "allocate",
  message <- [type |-> m.type, interface |-> m.link, chaddr |-> m.chaddr,
              valid |-> TRUE, requestedIp |-> m.requestedIp],
  nextAddress <- RangeStart + mNextAddressOffset[s], lastAddressByte <- 1,
  reply <- [type |-> "none", yiaddr |-> 0]

receiveFromInterface(m) == m \in network /\ m.type \in {"DHCPDISCOVER", "DHCPREQUEST"}

(* A reply goes out on the interface that the message came from.           *)
sendOnInterface(s, m, type) ==
  network' = IF type = "none" THEN network
             ELSE network \union
               {[type |-> type, link |-> m.link, chaddr |-> m.chaddr, xid |-> m.xid, server |-> s,
                 yiaddr |-> IF type = "DHCPNAK" THEN NoAddress ELSE Handler(s, m)!offerAddress]}

answer(s, m) ==
  /\ receiveFromInterface(m)
  /\ mLeases' = [mLeases EXCEPT ![s][<<m.link, m.chaddr>>] = Handler(s, m)!offerAddress]
  /\ mNextAddressOffset' = [mNextAddressOffset EXCEPT ![s] = Handler(s, m)!next_offset]
  /\ sendOnInterface(s, m, Handler(s, m)!answer_type)
  /\ UNCHANGED <<setting, client>>

Reached == {"flags", "address", "end"}

ClientStep(c) ==
  \/ timed_out(c) \/ restart(c)
  \/ \E m \in network : offer(c, m) \/ nak(c, m) \/ \E reached \in Reached : ack(c, m, reached)

ServerStep(s) == \E m \in network : answer(s, m)

Next == (\E c \in Clients : ClientStep(c)) \/ (\E s \in Servers : ServerStep(s))

Spec == Init /\ [][Next]_vars

-----------------------------------------------------------------------------
Requests == [type : {"DHCPDISCOVER", "DHCPREQUEST"}, link : Links,
             chaddr : Macs, xid : Nat \ {0},
             requestedIp : Addresses \union {NoAddress}, serverId : Servers \union {Nobody}]
Replies  == [type : {"DHCPOFFER", "DHCPACK", "DHCPNAK"}, link : Links,
             chaddr : Macs, xid : Nat \ {0}, server : Servers,
             yiaddr : Addresses \union {NoAddress}]

TypeOK ==
  /\ setting \in Settings
  /\ mState \in [Clients -> States] /\ mServerAddress \in [Clients -> Servers \union {Nobody}]
  /\ mRequestAddress \in [Clients -> Addresses \union {NoAddress}]
  /\ sNextTransactionId \in [Clients -> Nat \ {0}]
  /\ up \in [Clients -> BOOLEAN] /\ address \in [Clients -> Addresses \union {NoAddress}]
  /\ restarted \in [Clients -> BOOLEAN] /\ grantedBy \in [Clients -> Servers \union {Nobody}]
  /\ mLeases \in [Servers -> [Keys -> Addresses \union {NoAddress}]]
  /\ mNextAddressOffset \in [Servers -> Nat]
  /\ network \subseteq Requests \union Replies

(* lease.h: clients behind different interfaces of a server, with the same *)
(* MAC address or not, never use the same address it gave out.             *)
UniqueUse ==
  \A c, d \in Clients :
    link[c] # link[d] /\ address[c] # NoAddress /\ address[c] = address[d]
      => grantedBy[c] # grantedBy[d]

(* An address in use is one the server that gave it has on record, for the *)
(* client or for one on its link, whose reply it took for its own.         *)
UsedIsLeased ==
  \A c \in Clients : address[c] # NoAddress =>
    \E d \in Clients : link[d] = link[c]
                       /\ mLeases[grantedBy[c]][<<link[d], mac[d]>>] = address[c]

alone(c) == \A d \in Clients : link[d] = link[c] => d = c

(* The transaction id of a client ties an ACK to what it asked for, while  *)
(* nobody else on its link counts the same numbers: the interface has the  *)
(* address that the client renews (which DhcpClient takes for granted).    *)
ConfiguredAsRequested ==
  \A c \in Clients : alone(c) /\ ~restarted[c] /\ mState[c] \in {"Bound", "Renewing", "Rebinding"}
                       => address[c] = mRequestAddress[c]

(* "Request denied": the server whose offer a client took does not refuse  *)
(* it, however late and often its messages arrive; only another server     *)
(* can, to which the request is broadcast too.   Not so for a client that  *)
(* was restarted, when an old NAK of a server may fit a new transaction.   *)
RefusedByAnother ==
  \A c \in Clients : \A m \in network :
    alone(c) /\ refused(c, m) =>
      \/ m.server # mServerAddress[c]
      \/ restarted[c] /\ \E other \in network : other \in Replies /\ other.server # m.server
=============================================================================
