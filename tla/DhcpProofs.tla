----------------------------- MODULE DhcpProofs -----------------------------
(***************************************************************************)
(* Clients and servers together, for every number of either, every         *)
(* placement of clients on links, every range and every history of         *)
(* restarts and failures.                                                  *)
(*                                                                         *)
(* Nothing is ever unsaid: a lease once recorded stays as long as its      *)
(* server, and a message once sent may arrive at any time.  So what a      *)
(* message promises must hold for ever: an OFFER or an ACK stands for a    *)
(* lease on record (NetInv), a REQUEST for an OFFER its sender took        *)
(* (RequestInv), and the address of an interface for a lease of a client   *)
(* on its link (UsedInv).                                                  *)
(***************************************************************************)
EXTENDS Dhcp, TLAPS

next(s) == RangeStart + mNextAddressOffset[s]
key(m)  == <<m.link, m.chaddr>>

(* The leases of a server differ, and lie below the next address.          *)
ServerInv ==
  \A s \in Servers :
    /\ \A k \in Keys : mLeases[s][k] # NoAddress => mLeases[s][k] < next(s)
    /\ \A j, k \in Keys : mLeases[s][j] = mLeases[s][k] /\ mLeases[s][j] # NoAddress => j = k

OnRecord(m) == m.yiaddr # NoAddress /\ mLeases[m.server][key(m)] = m.yiaddr

NetInv ==
  \A m \in network : key(m) \in Keys /\ (m.type \in {"DHCPOFFER", "DHCPACK"} => OnRecord(m))

UsedInv ==
  \A c \in Clients : address[c] # NoAddress =>
    /\ grantedBy[c] \in Servers
    /\ \E d \in Clients : /\ link[d] = link[c]
                          /\ mLeases[grantedBy[c]][<<link[d], mac[d]>>] = address[c]

LEMMA Constants ==
  /\ Links \subseteq Nat \ {0} /\ RangeStart \in Nat \ {0} /\ U32 \in Nat /\ RangeEnd \in Nat
  /\ RangeEnd + 1 < U32 /\ Nobody \notin Servers
BY DhcpAssumption

LEMMA Placement ==
  ASSUME TypeOK
  PROVE  /\ link \in [Clients -> Links] /\ mac \in [Clients -> Macs]
         /\ \A c, d \in Clients : c # d => <<link[c], mac[c]>> # <<link[d], mac[d]>>
BY DhcpAssumption DEF TypeOK, link, mac

LEMMA PlacementStays ==
  ASSUME UNCHANGED setting
  PROVE  link' = link /\ mac' = mac /\ Keys' = Keys /\ \A c \in Clients : alone(c)' = alone(c)
BY DEF link, mac, Keys, alone

LEMMA ClientKey == ASSUME NEW c \in Clients PROVE <<link[c], mac[c]>> \in Keys
BY DEF Keys

LEMMA KeyClient ==
  ASSUME NEW k \in Keys PROVE \E d \in Clients : k = <<link[d], mac[d]>>
BY DEF Keys

LEMMA AloneKey ==
  ASSUME NEW c \in Clients, alone(c), NEW k \in Keys, k[1] = link[c]
  PROVE  k = <<link[c], mac[c]>>
BY DEF Keys, alone

-----------------------------------------------------------------------------
(* What a server does with a message: the operators of DhcpServer, as the  *)
(* composition uses them.                                                  *)

LEMMA OfferAddress ==
  ASSUME NEW s, NEW m
  PROVE  Handler(s, m)!offerAddress =
           IF mLeases[s][key(m)] # NoAddress THEN mLeases[s][key(m)]
           ELSE IF next(s) <= RangeEnd THEN next(s) ELSE NoAddress
BY DEF Handler!offerAddress, Handler!fits, Handler!NoLease, Handler!key, Handler!Lease,
       Handler!mDhcpRangeEnd, next, key, NoAddress

LEMMA NextOffset ==
  ASSUME NEW s, NEW m
  PROVE  Handler(s, m)!next_offset =
           IF mLeases[s][key(m)] = NoAddress /\ next(s) <= RangeEnd
             THEN (mNextAddressOffset[s] + 1) % U32 ELSE mNextAddressOffset[s]
BY DEF Handler!next_offset, Handler!fits, Handler!NoLease, Handler!key, Handler!Lease,
       Handler!mDhcpRangeEnd, next, key, NoAddress

LEMMA AnswerType ==
  ASSUME NEW s, NEW m
  PROVE  Handler(s, m)!answer_type =
           IF m.type = "DHCPDISCOVER"
             THEN IF Handler(s, m)!offerAddress # NoAddress THEN "DHCPOFFER" ELSE "none"
             ELSE IF /\ Handler(s, m)!offerAddress # NoAddress
                     /\ m.requestedIp = Handler(s, m)!offerAddress
                    THEN "DHCPACK" ELSE "DHCPNAK"
BY DEF Handler!answer_type, Handler!isValidDhcpRequest, Handler!NoLease, NoAddress

LEMMA SmallMod == ASSUME NEW n \in Nat, NEW x \in Nat, x < n PROVE x % n = x
OBVIOUS

given(s, m) == Handler(s, m)!offerAddress

(* An answer leaves the table as it was, or adds the next address.         *)
LEMMA Allocation ==
  ASSUME TypeOK, NEW s \in Servers, NEW m \in network, key(m) \in Keys, answer(s, m)
  PROVE  \/ /\ UNCHANGED servers /\ given(s, m) = mLeases[s][key(m)]
            /\ given(s, m) = NoAddress => next(s) > RangeEnd
         \/ /\ mLeases[s][key(m)] = NoAddress /\ given(s, m) = next(s) /\ next(s) \in Addresses
            /\ mLeases' = [mLeases EXCEPT ![s][key(m)] = next(s)]
            /\ mNextAddressOffset' = [mNextAddressOffset EXCEPT ![s] = @ + 1]
<1>1. /\ mLeases' = [mLeases EXCEPT ![s][key(m)] = given(s, m)]
      /\ mNextAddressOffset' = [mNextAddressOffset EXCEPT ![s] = Handler(s, m)!next_offset]
  BY DEF answer, key, given
<1>2. /\ mLeases \in [Servers -> [Keys -> Addresses \union {NoAddress}]]
      /\ mNextAddressOffset \in [Servers -> Nat] /\ next(s) \in Nat
  BY Constants DEF TypeOK, next
<1>3. CASE mLeases[s][key(m)] # NoAddress
  <2>1. given(s, m) = mLeases[s][key(m)] /\ Handler(s, m)!next_offset = mNextAddressOffset[s]
    BY <1>3, OfferAddress, NextOffset DEF given
  <2>2. UNCHANGED servers
    BY <1>1, <1>2, <2>1 DEF servers
  <2> QED BY <1>3, <2>1, <2>2
<1>4. CASE mLeases[s][key(m)] = NoAddress /\ next(s) > RangeEnd
  <2>1. ~(next(s) <= RangeEnd)
    BY <1>2, <1>4, Constants
  <2>2. given(s, m) = NoAddress /\ Handler(s, m)!next_offset = mNextAddressOffset[s]
    BY <1>4, <2>1, OfferAddress, NextOffset DEF given
  <2>3. UNCHANGED servers
    BY <1>1, <1>2, <1>4, <2>2 DEF servers
  <2> QED BY <1>4, <2>2, <2>3
<1>5. CASE mLeases[s][key(m)] = NoAddress /\ next(s) <= RangeEnd
  <2>1. given(s, m) = next(s) /\ Handler(s, m)!next_offset = (mNextAddressOffset[s] + 1) % U32
    BY <1>5, OfferAddress, NextOffset DEF given
  <2>2. mNextAddressOffset[s] + 1 \in Nat /\ mNextAddressOffset[s] + 1 < U32
    BY <1>2, <1>5, Constants DEF next
  <2>3. (mNextAddressOffset[s] + 1) % U32 = mNextAddressOffset[s] + 1
    BY <2>2, Constants, SmallMod
  <2>4. next(s) \in Addresses
    BY <1>2, <1>5, Constants DEF Addresses, next
  <2> QED BY <1>1, <1>5, <2>1, <2>3, <2>4
<1> QED BY <1>2, <1>3, <1>4, <1>5, Constants

(* The reply: an address is acknowledged to who asked for it, and refused  *)
(* to who asked for another.                                               *)
LEMMA ReplySent ==
  ASSUME TypeOK, NEW s \in Servers, NEW m \in network, answer(s, m)
  PROVE  \/ network' = network
         \/ \E r : /\ network' = network \union {r}
                   /\ r.link = m.link /\ r.chaddr = m.chaddr /\ r.xid = m.xid /\ r.server = s
                   /\ r = [type |-> r.type, link |-> r.link, chaddr |-> r.chaddr, xid |-> r.xid,
                           server |-> r.server, yiaddr |-> r.yiaddr]
                   /\ \/ /\ r.type = "DHCPOFFER" /\ r.yiaddr = given(s, m) /\ r.yiaddr # NoAddress
                      \/ /\ r.type = "DHCPACK" /\ m.type = "DHCPREQUEST"
                         /\ r.yiaddr = given(s, m) /\ r.yiaddr # NoAddress
                         /\ r.yiaddr = m.requestedIp
                      \/ /\ r.type = "DHCPNAK" /\ m.type = "DHCPREQUEST" /\ r.yiaddr = NoAddress
                         /\ given(s, m) = NoAddress \/ given(s, m) # m.requestedIp
<1> DEFINE type == Handler(s, m)!answer_type
           r == [type |-> type, link |-> m.link, chaddr |-> m.chaddr, xid |-> m.xid, server |-> s,
                 yiaddr |-> IF type = "DHCPNAK" THEN NoAddress ELSE given(s, m)]
<1>1. m.type \in {"DHCPDISCOVER", "DHCPREQUEST"}
  BY DEF answer, receiveFromInterface
<1>2. type = IF m.type = "DHCPDISCOVER"
               THEN IF given(s, m) # NoAddress THEN "DHCPOFFER" ELSE "none"
               ELSE IF given(s, m) # NoAddress /\ m.requestedIp = given(s, m)
                      THEN "DHCPACK" ELSE "DHCPNAK"
  BY AnswerType DEF given
<1>3. network' = IF type = "none" THEN network ELSE network \union {r}
  BY DEF answer, sendOnInterface, given
<1> HIDE DEF type
<1>4. CASE type = "none"
  BY <1>3, <1>4
<1>5. CASE type # "none"
  <2>1. network' = network \union {r}
    BY <1>3, <1>5
  <2> QED BY <1>1, <1>2, <1>5, <2>1
<1> QED BY <1>4, <1>5

-----------------------------------------------------------------------------
(* What the steps of a client come to: it discovers, it asks, it is given  *)
(* an address or it is restarted.                                          *)

Using == {"Requesting", "Bound", "Renewing", "Rebinding"}

discovers(c) ==
  /\ UNCHANGED <<setting, mServerAddress, mRequestAddress, grantedBy, restarted, servers>>
  /\ mState' = [mState EXCEPT ![c] = "Selecting"]
  /\ sendMessage(c, "DHCPDISCOVER", NoAddress, Nobody)
  /\ up' \in [Clients -> BOOLEAN]
  /\ \E a \in {NoAddress, address[c]} : address' = [address EXCEPT ![c] = a]

asks_again(c) ==
  /\ UNCHANGED <<mServerAddress, mRequestAddress>>
  /\ mState[c] \in Using /\ (mState'[c] = "Requesting" <=> mState[c] = "Requesting")

takes_offer(c) ==
  \E m \in network :
    /\ m.link = link[c] /\ m.type = "DHCPOFFER" /\ mState'[c] = "Requesting"
    /\ mServerAddress' = [mServerAddress EXCEPT ![c] = m.server]
    /\ mRequestAddress' = [mRequestAddress EXCEPT ![c] = m.yiaddr]

asks(c) ==
  /\ UNCHANGED <<setting, kernel, restarted, servers>>
  /\ \E state \in {"Requesting", "Renewing", "Rebinding"} : mState' = [mState EXCEPT ![c] = state]
  /\ \E server \in {Nobody, mServerAddress'[c]} :
       sendMessage(c, "DHCPREQUEST", mRequestAddress'[c], server)
  /\ asks_again(c) \/ takes_offer(c)

LEMMA AskEffect ==
  ASSUME TypeOK, NEW c \in Clients, NEW state \in {"Requesting", "Renewing", "Rebinding"}, ask(c, state),
         UNCHANGED <<setting, kernel, restarted, servers>>
  PROVE  /\ mState' = [mState EXCEPT ![c] = state] /\ mState'[c] = state
         /\ \E server \in {Nobody, mServerAddress'[c]} :
              sendMessage(c, "DHCPREQUEST", mRequestAddress'[c], server)
BY DEF ask, become, TypeOK

LEMMA TimeoutCases ==
  ASSUME TypeOK, NEW c \in Clients, timed_out(c) PROVE discovers(c) \/ asks(c)
<1>1. UNCHANGED <<setting, kernel, restarted, servers>>
  BY DEF timed_out
<1>2. CASE discover(c)
  <2>1. up' \in [Clients -> BOOLEAN] /\ address' = [address EXCEPT ![c] = address[c]]
    BY <1>1 DEF kernel, TypeOK
  <2> QED BY <1>1, <1>2, <2>1 DEF discover, discovers, become, kernel
<1>3. ASSUME NEW state \in {"Requesting", "Renewing", "Rebinding"}, ask_again(c, state),
             mState[c] \in Using, state = "Requesting" <=> mState[c] = "Requesting"
      PROVE  asks(c)
  <2>1. /\ mState' = [mState EXCEPT ![c] = state] /\ mState'[c] = state
        /\ \E server \in {Nobody, mServerAddress'[c]} :
              sendMessage(c, "DHCPREQUEST", mRequestAddress'[c], server)
    BY <1>1, <1>3, AskEffect DEF ask_again
  <2> QED BY <1>1, <1>3, <2>1 DEF asks, asks_again, ask_again
<1> QED BY <1>2, <1>3 DEF timed_out, Using

LEMMA OfferCases ==
  ASSUME TypeOK, NEW c \in Clients, NEW m \in network, offer(c, m) PROVE asks(c)
<1>1. /\ UNCHANGED <<setting, kernel, restarted, servers>> /\ ask(c, "Requesting")
      /\ m.link = link[c] /\ m.type = "DHCPOFFER"
      /\ mServerAddress' = [mServerAddress EXCEPT ![c] = m.server]
      /\ mRequestAddress' = [mRequestAddress EXCEPT ![c] = m.yiaddr]
  BY DEF offer, receiveDhcpMessage, receiveRawUdp
<1>2. /\ mState' = [mState EXCEPT ![c] = "Requesting"] /\ mState'[c] = "Requesting"
      /\ \E server \in {Nobody, mServerAddress'[c]} :
            sendMessage(c, "DHCPREQUEST", mRequestAddress'[c], server)
  BY <1>1, AskEffect
<1> QED BY <1>1, <1>2 DEF asks, takes_offer

LEMMA NakCases ==
  ASSUME TypeOK, NEW c \in Clients, NEW m \in network, nak(c, m) PROVE discovers(c)
<1>1. up' \in [Clients -> BOOLEAN]
  BY DEF nak, TypeOK
<1>2. \E a \in {NoAddress, address[c]} : address' = [address EXCEPT ![c] = a]
  BY DEF nak
<1> QED BY <1>1, <1>2 DEF nak, discover, discovers, become

LEMMA ClientCases ==
  ASSUME TypeOK, NEW c \in Clients, ClientStep(c)
  PROVE  \/ discovers(c) \/ asks(c) \/ restart(c)
         \/ \E m \in network, reached \in Reached : ack(c, m, reached)
BY TimeoutCases, OfferCases, NakCases DEF ClientStep

LEMMA Sent ==
  ASSUME TypeOK, NEW c \in Clients, NEW type, NEW ip, NEW server, sendMessage(c, type, ip, server)
  PROVE  /\ sNextTransactionId' = [sNextTransactionId EXCEPT ![c] = @ + 1]
         /\ \/ network' = network
            \/ \E r : /\ network' = network \union {r}
                      /\ r.type = type /\ r.link = link[c] /\ r.chaddr = mac[c]
                      /\ r.xid = sNextTransactionId[c]
                      /\ r.requestedIp = ip /\ r.serverId = server
                      /\ r = [type |-> r.type, link |-> r.link, chaddr |-> r.chaddr, xid |-> r.xid,
                              requestedIp |-> r.requestedIp, serverId |-> r.serverId]
<1> DEFINE r == [type |-> type, link |-> link[c], chaddr |-> mac[c],
                 xid |-> sNextTransactionId[c], requestedIp |-> ip, serverId |-> server]
<1>1. network' = network \/ network' = network \union {r}
  BY DEF sendMessage
<1> QED BY <1>1 DEF sendMessage

-----------------------------------------------------------------------------
(* Types.                                                                  *)

LEMMA TypeParts ==
  ASSUME TypeOK, UNCHANGED setting,
         mState' \in [Clients -> States] /\ mServerAddress' \in [Clients -> Servers \union {Nobody}],
         mRequestAddress' \in [Clients -> Addresses \union {NoAddress}],
         sNextTransactionId' \in [Clients -> Nat \ {0}],
         up' \in [Clients -> BOOLEAN] /\ address' \in [Clients -> Addresses \union {NoAddress}],
         restarted' \in [Clients -> BOOLEAN] /\ grantedBy' \in [Clients -> Servers \union {Nobody}],
         mLeases' \in [Servers -> [Keys -> Addresses \union {NoAddress}]],
         mNextAddressOffset' \in [Servers -> Nat],
         network' \subseteq Requests \union Replies
  PROVE  TypeOK'
<1>1. Keys' = Keys
  BY PlacementStays
<1> QED BY <1>1 DEF TypeOK

LEMMA MessageType ==
  ASSUME TypeOK, NEW m \in network
  PROVE  /\ m \in Requests \/ m \in Replies
         /\ m.link \in Links /\ m.chaddr \in Macs /\ m.xid \in Nat \ {0}
         /\ m.type \in {"DHCPOFFER", "DHCPACK", "DHCPNAK"} =>
              m \in Replies /\ m.server \in Servers /\ m.yiaddr \in Addresses \union {NoAddress}
         /\ m.type \in {"DHCPDISCOVER", "DHCPREQUEST"} =>
              m \in Requests /\ m.requestedIp \in Addresses \union {NoAddress}
BY DEF TypeOK, Requests, Replies

LEMMA DiscoverType == ASSUME TypeOK, NEW c \in Clients, discovers(c) PROVE TypeOK'
<1>1. sNextTransactionId' \in [Clients -> Nat \ {0}] /\ network' \subseteq Requests \union Replies
  BY Sent, Placement DEF discovers, TypeOK, Requests
<1>2. address' \in [Clients -> Addresses \union {NoAddress}] /\ mState' \in [Clients -> States]
  BY DEF discovers, TypeOK, States
<1> QED BY <1>1, <1>2, TypeParts DEF discovers, servers, TypeOK

LEMMA AskType == ASSUME TypeOK, NEW c \in Clients, asks(c) PROVE TypeOK'
<1>1. /\ mServerAddress' \in [Clients -> Servers \union {Nobody}]
      /\ mRequestAddress' \in [Clients -> Addresses \union {NoAddress}]
  <2>1. CASE asks_again(c)
    BY <2>1 DEF asks_again, TypeOK
  <2>2. CASE takes_offer(c)
    BY <2>2, MessageType DEF takes_offer, TypeOK
  <2> QED BY <2>1, <2>2 DEF asks
<1>2. sNextTransactionId' \in [Clients -> Nat \ {0}] /\ network' \subseteq Requests \union Replies
  <2>1. PICK server \in {Nobody, mServerAddress'[c]} :
          sendMessage(c, "DHCPREQUEST", mRequestAddress'[c], server)
    BY DEF asks
  <2>2. server \in Servers \union {Nobody} /\ mRequestAddress'[c] \in Addresses \union {NoAddress}
    BY <1>1
  <2> QED BY <2>1, <2>2, Sent, Placement DEF TypeOK, Requests
<1>3. mState' \in [Clients -> States]
  BY DEF asks, TypeOK, States
<1> QED BY <1>1, <1>2, <1>3, TypeParts DEF asks, kernel, servers, TypeOK

LEMMA AckType ==
  ASSUME TypeOK, NEW c \in Clients, NEW m \in network, NEW reached \in Reached, ack(c, m, reached)
  PROVE  TypeOK'
<1>1. /\ address' \in [Clients -> Addresses \union {NoAddress}]
      /\ grantedBy' \in [Clients -> Servers \union {Nobody}]
  BY MessageType DEF ack, TypeOK
<1>2. mState' \in [Clients -> States]
  BY DEF ack, become, TypeOK, States
<1> QED BY <1>1, <1>2, TypeParts DEF ack, servers, TypeOK

LEMMA RestartType == ASSUME TypeOK, NEW c \in Clients, restart(c) PROVE TypeOK'
<1>1. /\ mState' \in [Clients -> States] /\ mServerAddress' \in [Clients -> Servers \union {Nobody}]
      /\ mRequestAddress' \in [Clients -> Addresses \union {NoAddress}]
      /\ sNextTransactionId' \in [Clients -> Nat \ {0}]
      /\ up' \in [Clients -> BOOLEAN] /\ address' \in [Clients -> Addresses \union {NoAddress}]
      /\ restarted' \in [Clients -> BOOLEAN]
  BY DEF restart, become, TypeOK, States, first_id
<1> QED BY <1>1, TypeParts DEF restart, servers, TypeOK

LEMMA AnswerTypes ==
  ASSUME TypeOK, NetInv, NEW s \in Servers, NEW m \in network, answer(s, m) PROVE TypeOK'
<1>1. key(m) \in Keys
  BY DEF NetInv
<1>2. /\ mLeases' \in [Servers -> [Keys -> Addresses \union {NoAddress}]]
      /\ mNextAddressOffset' \in [Servers -> Nat]
      /\ given(s, m) \in Addresses \union {NoAddress}
  <2>1. CASE UNCHANGED servers /\ given(s, m) = mLeases[s][key(m)]
    BY <1>1, <2>1 DEF servers, TypeOK
  <2>2. CASE /\ given(s, m) = next(s) /\ next(s) \in Addresses
             /\ mLeases' = [mLeases EXCEPT ![s][key(m)] = next(s)]
             /\ mNextAddressOffset' = [mNextAddressOffset EXCEPT ![s] = @ + 1]
    BY <1>1, <2>2 DEF TypeOK
  <2> QED BY <1>1, <2>1, <2>2, Allocation
<1>3. network' \subseteq Requests \union Replies
  <2>1. m.link \in Links /\ m.chaddr \in Macs /\ m.xid \in Nat \ {0} /\ network \subseteq Requests \union Replies
    BY MessageType DEF TypeOK
  <2>2. ASSUME NEW r, network' = network \union {r},
               r.link = m.link, r.chaddr = m.chaddr, r.xid = m.xid, r.server = s,
               r = [type |-> r.type, link |-> r.link, chaddr |-> r.chaddr, xid |-> r.xid,
                    server |-> r.server, yiaddr |-> r.yiaddr],
               r.type \in {"DHCPOFFER", "DHCPACK", "DHCPNAK"}, r.yiaddr \in {given(s, m), NoAddress}
        PROVE  network' \subseteq Requests \union Replies
    <3>1. r \in Replies
      BY <1>2, <2>1, <2>2 DEF Replies
    <3> QED BY <2>1, <2>2, <3>1
  <2> QED BY <2>1, <2>2, ReplySent
<1> QED BY <1>2, <1>3, TypeParts DEF answer, client, fsm, kernel, TypeOK

-----------------------------------------------------------------------------
(* Leases and messages are for ever.                                       *)

LEMMA ClientSends ==
  ASSUME TypeOK, NEW c \in Clients, ClientStep(c)
  PROVE  /\ UNCHANGED <<setting, servers>>
         /\ \/ network' = network
            \/ \E r : /\ network' = network \union {r}
                      /\ r.type \in {"DHCPDISCOVER", "DHCPREQUEST"}
                      /\ r.link = link[c] /\ r.chaddr = mac[c]
<1>1. CASE discovers(c)
  BY <1>1, Sent DEF discovers
<1>2. CASE asks(c)
  <2>1. PICK server \in {Nobody, mServerAddress'[c]} :
          sendMessage(c, "DHCPREQUEST", mRequestAddress'[c], server)
    BY <1>2 DEF asks
  <2> QED BY <1>2, <2>1, Sent DEF asks
<1>3. CASE restart(c) \/ \E m \in network, reached \in Reached : ack(c, m, reached)
  BY <1>3 DEF restart, ack
<1> QED BY <1>1, <1>2, <1>3, ClientCases

LEMMA Forever ==
  ASSUME TypeOK, NetInv, [Next]_vars
  PROVE  /\ UNCHANGED setting /\ network \subseteq network'
         /\ \A s \in Servers : \A k \in Keys :
              mLeases[s][k] # NoAddress => mLeases'[s][k] = mLeases[s][k]
<1>1. ASSUME NEW c \in Clients, ClientStep(c)
      PROVE  /\ UNCHANGED <<setting, servers>> /\ network \subseteq network'
  BY <1>1, ClientSends
<1>2. ASSUME NEW s \in Servers, NEW m \in network, answer(s, m)
      PROVE  /\ UNCHANGED setting /\ network \subseteq network'
             /\ \A t \in Servers : \A k \in Keys :
                  mLeases[t][k] # NoAddress => mLeases'[t][k] = mLeases[t][k]
  <2>1. key(m) \in Keys /\ mLeases \in [Servers -> [Keys -> Addresses \union {NoAddress}]]
    BY DEF NetInv, TypeOK
  <2>2. CASE UNCHANGED servers
    BY <1>2, <2>2, ReplySent DEF answer, servers
  <2>3. CASE mLeases[s][key(m)] = NoAddress /\ mLeases' = [mLeases EXCEPT ![s][key(m)] = next(s)]
    <3> DEFINE k0 == key(m)
    <3>1. k0 \in Keys /\ mLeases[s][k0] = NoAddress /\ mLeases' = [mLeases EXCEPT ![s][k0] = next(s)]
      BY <2>1, <2>3
    <3> HIDE DEF k0
    <3>2. \A t \in Servers : \A k \in Keys :
             mLeases'[t][k] = IF t = s /\ k = k0 THEN next(s) ELSE mLeases[t][k]
      BY <2>1, <3>1
    <3>3. UNCHANGED setting
      BY <1>2 DEF answer
    <3>4. network \subseteq network'
      BY <1>2, ReplySent
    <3> QED BY <3>1, <3>2, <3>3, <3>4
  <2> QED BY <1>2, <2>1, <2>2, <2>3, Allocation
<1> QED BY <1>1, <1>2 DEF Next, ServerStep, vars, servers

Basic == TypeOK /\ ServerInv /\ NetInv /\ UsedInv

LEMMA InitBasic == Init => Basic
<1> SUFFICES ASSUME Init PROVE Basic
  OBVIOUS
<1>1. TypeOK
  BY Constants DEF Init, TypeOK, States, first_id
<1>2. ServerInv
  BY DEF Init, ServerInv
<1>3. NetInv /\ UsedInv
  BY DEF Init, NetInv, UsedInv
<1> QED BY <1>1, <1>2, <1>3 DEF Basic

LEMMA NextType == ASSUME Basic, [Next]_vars PROVE TypeOK'
<1>1. ASSUME NEW c \in Clients, ClientStep(c) PROVE TypeOK'
  BY <1>1, ClientCases, DiscoverType, AskType, RestartType, AckType DEF Basic
<1>2. ASSUME NEW s \in Servers, NEW m \in network, answer(s, m) PROVE TypeOK'
  BY <1>2, AnswerTypes DEF Basic
<1>3. CASE UNCHANGED vars
  BY <1>3, TypeParts DEF Basic, vars, client, fsm, kernel, servers, TypeOK
<1> QED BY <1>1, <1>2, <1>3 DEF Next, ServerStep

LEMMA NextServer == ASSUME Basic, [Next]_vars PROVE ServerInv'
<1>1. Keys' = Keys /\ TypeOK
  BY Forever, PlacementStays DEF Basic
<1>2. CASE UNCHANGED servers
  BY <1>1, <1>2 DEF Basic, ServerInv, servers, next
<1>3. ASSUME NEW s \in Servers, NEW m \in network, answer(s, m), ~UNCHANGED servers PROVE ServerInv'
  <2> DEFINE k0 == key(m)
  <2>1. k0 \in Keys
    BY DEF Basic, NetInv
  <2>2. /\ mLeases[s][k0] = NoAddress /\ next(s) \in Addresses
        /\ mLeases' = [mLeases EXCEPT ![s][k0] = next(s)]
        /\ mNextAddressOffset' = [mNextAddressOffset EXCEPT ![s] = @ + 1]
    BY <1>1, <1>3, <2>1, Allocation
  <2> HIDE DEF k0
  <2>3. ASSUME NEW t \in Servers, t # s
        PROVE  mLeases'[t] = mLeases[t] /\ next(t)' = next(t)
    BY <1>1, <2>2, <2>3 DEF TypeOK, next
  <2>4. /\ next(s)' = next(s) + 1 /\ next(s) \in Nat
        /\ \A k \in Keys : mLeases'[s][k] = IF k = k0 THEN next(s) ELSE mLeases[s][k]
        /\ \A k \in Keys : mLeases[s][k] \in Nat
    <3>1. /\ mLeases \in [Servers -> [Keys -> Addresses \union {NoAddress}]]
          /\ mNextAddressOffset \in [Servers -> Nat]
      BY <1>1 DEF TypeOK
    <3>2. next(s)' = next(s) + 1 /\ next(s) \in Nat
      BY <2>2, <3>1, Constants DEF next
    <3>3. \A k \in Keys : mLeases'[s][k] = IF k = k0 THEN next(s) ELSE mLeases[s][k]
      BY <2>1, <2>2, <3>1
    <3>4. \A k \in Keys : mLeases[s][k] \in Nat
      BY <3>1, Constants DEF Addresses, NoAddress
    <3> QED BY <3>2, <3>3, <3>4
  <2>5. ASSUME NEW t \in Servers, NEW k \in Keys, mLeases'[t][k] # NoAddress
        PROVE  mLeases'[t][k] < next(t)'
    <3>1. mLeases[t][k] # NoAddress => mLeases[t][k] < next(t)
      BY DEF Basic, ServerInv
    <3>2. CASE t = s
      BY <2>4, <2>5, <3>1, <3>2
    <3>3. CASE t # s
      BY <2>3, <2>5, <3>1, <3>3
    <3> QED BY <3>2, <3>3
  <2>6. ASSUME NEW t \in Servers, NEW j \in Keys, NEW k \in Keys,
               mLeases'[t][j] = mLeases'[t][k], mLeases'[t][j] # NoAddress
        PROVE  j = k
    <3>1. /\ mLeases[t][j] = mLeases[t][k] /\ mLeases[t][j] # NoAddress => j = k
          /\ mLeases[t][j] # NoAddress => mLeases[t][j] < next(t)
          /\ mLeases[t][k] # NoAddress => mLeases[t][k] < next(t)
      BY DEF Basic, ServerInv
    <3>2. CASE t = s
      BY <2>2, <2>4, <2>6, <3>1, <3>2
    <3>3. CASE t # s
      BY <2>3, <2>6, <3>1, <3>3
    <3> QED BY <3>2, <3>3
  <2> QED BY <1>1, <2>5, <2>6 DEF ServerInv
<1>4. ASSUME NEW c \in Clients, ClientStep(c) PROVE UNCHANGED servers
  BY <1>1, <1>4, ClientSends
<1> QED BY <1>2, <1>3, <1>4 DEF Next, ServerStep, vars

(* What was on record stays on record.                                     *)
LEMMA OnRecordStays ==
  ASSUME Basic, [Next]_vars, NEW m \in network, m.type \in {"DHCPOFFER", "DHCPACK"}
  PROVE  OnRecord(m)'
<1>1. OnRecord(m) /\ key(m) \in Keys /\ m.server \in Servers
  BY MessageType DEF Basic, NetInv
<1>2. mLeases'[m.server][key(m)] = mLeases[m.server][key(m)]
  BY <1>1, Forever DEF Basic, OnRecord
<1> QED BY <1>1, <1>2 DEF OnRecord, key

LEMMA NextNet == ASSUME Basic, [Next]_vars PROVE NetInv'
<1>1. TypeOK /\ NetInv /\ Keys' = Keys
  BY Forever, PlacementStays DEF Basic
<1>2. ASSUME NEW m \in network
      PROVE  key(m) \in Keys' /\ (m.type \in {"DHCPOFFER", "DHCPACK"} => OnRecord(m)')
  BY <1>1, OnRecordStays DEF NetInv
<1>3. CASE network' = network
  BY <1>2, <1>3 DEF NetInv, key
<1>4. ASSUME NEW c \in Clients, ClientStep(c) PROVE NetInv'
  <2>1. CASE network' = network
    BY <1>3, <2>1
  <2>2. ASSUME NEW r, network' = network \union {r}, r.type \in {"DHCPDISCOVER", "DHCPREQUEST"},
               r.link = link[c], r.chaddr = mac[c]
        PROVE  NetInv'
    <3>1. key(r) \in Keys
      BY <2>2, ClientKey DEF key
    <3> QED BY <1>1, <1>2, <2>2, <3>1 DEF NetInv, key
  <2> QED BY <1>1, <1>4, <2>1, <2>2, ClientSends
<1>5. ASSUME NEW s \in Servers, NEW m \in network, answer(s, m) PROVE NetInv'
  <2>1. key(m) \in Keys /\ mLeases \in [Servers -> [Keys -> Addresses \union {NoAddress}]]
    BY <1>1 DEF NetInv, TypeOK
  <2>2. mLeases'[s][key(m)] = given(s, m)
    <3>1. mLeases' = [mLeases EXCEPT ![s][key(m)] = given(s, m)]
      BY <1>5 DEF answer, given, key
    <3> QED BY <2>1, <3>1
  <2>3. ASSUME NEW r, network' = network \union {r}, r.link = m.link, r.chaddr = m.chaddr, r.server = s,
               \/ r.yiaddr = given(s, m) /\ r.yiaddr # NoAddress
               \/ r.type = "DHCPNAK"
        PROVE  NetInv'
    <3>1. key(r) = key(m)
      BY <2>3 DEF key
    <3>2. r.type \in {"DHCPOFFER", "DHCPACK"} => OnRecord(r)'
      BY <2>2, <2>3, <3>1 DEF OnRecord, key
    <3> QED BY <1>1, <1>2, <2>1, <2>3, <3>1, <3>2 DEF NetInv, key
  <2> QED BY <1>1, <1>3, <1>5, <2>3, ReplySent
<1> QED BY <1>3, <1>4, <1>5 DEF Next, ServerStep, vars

LEMMA NextUsed == ASSUME Basic, [Next]_vars PROVE UsedInv'
<1>1. TypeOK /\ link' = link /\ mac' = mac
  BY Forever, PlacementStays DEF Basic
<1>2. ASSUME NEW c \in Clients, address'[c] = address[c], grantedBy'[c] = grantedBy[c], address'[c] # NoAddress
      PROVE  /\ grantedBy'[c] \in Servers
             /\ \E d \in Clients : /\ link'[d] = link'[c]
                                   /\ mLeases'[grantedBy'[c]][<<link'[d], mac'[d]>>] = address'[c]
  <2>1. PICK d \in Clients : /\ link[d] = link[c]
                             /\ mLeases[grantedBy[c]][<<link[d], mac[d]>>] = address[c]
    BY <1>2 DEF Basic, UsedInv
  <2>2. grantedBy[c] \in Servers /\ <<link[d], mac[d]>> \in Keys
    BY <1>2, ClientKey DEF Basic, UsedInv
  <2>3. mLeases'[grantedBy[c]][<<link[d], mac[d]>>] = mLeases[grantedBy[c]][<<link[d], mac[d]>>]
    BY <1>2, <2>1, <2>2, Forever DEF Basic
  <2> QED BY <1>1, <1>2, <2>1, <2>2, <2>3
<1>3. CASE UNCHANGED <<address, grantedBy>>
  BY <1>2, <1>3 DEF UsedInv
<1>4. ASSUME NEW c \in Clients, ClientStep(c) PROVE UsedInv'
  <2>1. CASE asks(c)
    BY <1>3, <2>1 DEF asks, kernel
  <2>2. CASE discovers(c) \/ restart(c)
    <3>1. PICK a \in {NoAddress, address[c]} : address' = [address EXCEPT ![c] = a] /\ grantedBy' = grantedBy
      BY <2>2 DEF discovers, restart
    <3>2. \A d \in Clients : address'[d] # NoAddress => address'[d] = address[d] /\ grantedBy'[d] = grantedBy[d]
      BY <1>1, <3>1 DEF TypeOK
    <3> QED BY <1>2, <3>2 DEF UsedInv
  <2>3. ASSUME NEW m \in network, NEW reached \in Reached, ack(c, m, reached) PROVE UsedInv'
    <3>1. CASE reached = "flags"
      BY <1>3, <2>3, <3>1 DEF ack
    <3>2. CASE reached # "flags"
      <4>1. /\ address' = [address EXCEPT ![c] = m.yiaddr] /\ grantedBy' = [grantedBy EXCEPT ![c] = m.server]
            /\ m.link = link[c] /\ m.type = "DHCPACK" /\ UNCHANGED servers
        BY <2>3, <3>2 DEF ack, receiveDhcpMessage, receiveRawUdp
      <4>2. key(m) \in Keys /\ OnRecord(m) /\ m.server \in Servers
        BY <1>1, <4>1, MessageType DEF Basic, NetInv
      <4>3. PICK d \in Clients : key(m) = <<link[d], mac[d]>>
        BY <4>2, KeyClient
      <4>4. link[d] = link[c]
        BY <4>1, <4>3 DEF key
      <4>5. address'[c] = m.yiaddr /\ grantedBy'[c] = m.server /\ mLeases' = mLeases
        BY <1>1, <4>1 DEF TypeOK, servers
      <4>6. \A e \in Clients : e # c => address'[e] = address[e] /\ grantedBy'[e] = grantedBy[e]
        BY <1>1, <4>1 DEF TypeOK
      <4>7. mLeases'[grantedBy'[c]][<<link'[d], mac'[d]>>] = address'[c]
        BY <1>1, <4>2, <4>3, <4>5 DEF OnRecord
      <4> QED BY <1>1, <1>2, <4>2, <4>4, <4>5, <4>6, <4>7 DEF UsedInv
    <3> QED BY <3>1, <3>2
  <2> QED BY <1>1, <1>4, <2>1, <2>2, <2>3, ClientCases
<1>5. ASSUME NEW s \in Servers, NEW m \in network, answer(s, m) PROVE UNCHANGED <<address, grantedBy>>
  BY <1>5 DEF answer, client, kernel
<1>6. CASE UNCHANGED vars
  BY <1>3, <1>6 DEF vars, client, kernel
<1> QED BY <1>3, <1>4, <1>5, <1>6 DEF Next, ServerStep

LEMMA AlwaysBasic == Spec => []Basic
<1>1. Basic /\ [Next]_vars => Basic'
  BY NextType, NextServer, NextNet, NextUsed DEF Basic
<1> QED BY InitBasic, <1>1, PTL DEF Spec

(* Clients, servers and messages keep their types.                         *)
THEOREM TypeCorrect == Spec => []TypeOK
<1>1. Basic => TypeOK
  BY DEF Basic
<1> QED BY AlwaysBasic, <1>1, PTL

(* The address of every interface is on record at the server that gave it. *)
THEOREM UseRecorded == Spec => []UsedIsLeased
<1>1. Basic => UsedIsLeased
  BY DEF Basic, UsedInv, UsedIsLeased
<1> QED BY AlwaysBasic, <1>1, PTL

(* No address of a server is used behind two of its interfaces.            *)
THEOREM UsesDiffer == Spec => []UniqueUse
<1>1. ASSUME Basic, NEW c \in Clients, NEW d \in Clients, link[c] # link[d],
             address[c] # NoAddress, address[c] = address[d], grantedBy[c] = grantedBy[d]
      PROVE  FALSE
  <2>1. PICK e \in Clients : /\ link[e] = link[c]
                             /\ mLeases[grantedBy[c]][<<link[e], mac[e]>>] = address[c]
    BY <1>1 DEF Basic, UsedInv
  <2>2. PICK f \in Clients : /\ link[f] = link[d]
                             /\ mLeases[grantedBy[c]][<<link[f], mac[f]>>] = address[c]
    BY <1>1 DEF Basic, UsedInv
  <2>3. grantedBy[c] \in Servers /\ <<link[e], mac[e]>> \in Keys /\ <<link[f], mac[f]>> \in Keys
    BY <1>1, ClientKey DEF Basic, UsedInv
  <2>4. <<link[e], mac[e]>> = <<link[f], mac[f]>>
    BY <1>1, <2>1, <2>2, <2>3 DEF Basic, ServerInv
  <2> QED BY <1>1, <2>1, <2>2, <2>4
<1>2. Basic => UniqueUse
  BY <1>1 DEF UniqueUse
<1> QED BY AlwaysBasic, <1>2, PTL

(* The table of a server, for all endpoints that there could be.           *)
Endpoints == Links \X Macs

Pool(s) == INSTANCE AddressPool WITH
  Keys <- Endpoints,
  leased <- [k \in Endpoints |-> IF k \in Keys THEN mLeases[s][k] ELSE NoAddress]

(* Each server implements the abstract pool, whatever clients send, repeat *)
(* or forget: it gives an endpoint one address, nobody else's, for good.   *)
THEOREM EachImplementsAddressPool == ASSUME NEW s \in Servers PROVE Spec => Pool(s)!Spec
<1> DEFINE table == [k \in Endpoints |-> IF k \in Keys THEN mLeases[s][k] ELSE NoAddress]
<1>1. Init => Pool(s)!Init
  BY DEF Init, Pool!Init
<1>2. ASSUME Basic, [Next]_vars PROVE Pool(s)!Next \/ UNCHANGED table
  <2>1. ASSUME UNCHANGED mLeases PROVE UNCHANGED table
    <3>1. Keys' = Keys
      BY <1>2, Forever, PlacementStays DEF Basic
    <3> QED BY <2>1, <3>1
  <2>2. ASSUME NEW t \in Servers, NEW m \in network, answer(t, m), mLeases[t][key(m)] = NoAddress,
               next(t) \in Addresses, mLeases' = [mLeases EXCEPT ![t][key(m)] = next(t)]
        PROVE  Pool(s)!Next \/ UNCHANGED table
    <3>1. /\ Keys' = Keys /\ key(m) \in Keys /\ Keys \subseteq Endpoints
          /\ mLeases \in [Servers -> [Keys -> Addresses \union {NoAddress}]]
      <4>1. Keys' = Keys /\ key(m) \in Keys /\ TypeOK
        BY <1>2, Forever, PlacementStays DEF Basic, NetInv
      <4>2. Keys \subseteq Endpoints
        BY <4>1, Placement DEF Keys, Endpoints
      <4> QED BY <4>1, <4>2 DEF TypeOK
    <3>2. CASE s # t
      BY <2>2, <3>1, <3>2
    <3>3. CASE s = t
      <4>1. table' = [table EXCEPT ![key(m)] = next(s)]
        BY <2>2, <3>1, <3>3
      <4>2. table[key(m)] = NoAddress
        BY <2>2, <3>1, <3>3
      <4>3. ASSUME NEW j \in Endpoints PROVE table[j] # next(s)
        <5>1. next(s) # NoAddress /\ next(s) \in Nat
          BY <2>2, <3>3, Constants DEF Addresses, NoAddress
        <5>2. j \in Keys /\ mLeases[s][j] # NoAddress => mLeases[s][j] < next(s) /\ mLeases[s][j] \in Nat
          BY <1>2, <3>1, Constants DEF Basic, ServerInv, Addresses
        <5> QED BY <5>1, <5>2
      <4>4. PICK a \in Addresses : a = next(s)
        BY <2>2, <3>3
      <4>5. Pool(s)!Allocate(key(m), a)
        BY <4>1, <4>2, <4>3, <4>4 DEF Pool!Allocate
      <4>6. key(m) \in Endpoints
        BY <3>1
      <4>7. Pool(s)!Next
        BY <4>5, <4>6 DEF Pool!Next
      <4> QED BY <4>7
    <3> QED BY <3>2, <3>3
  <2>3. ASSUME NEW t \in Servers, NEW m \in network, answer(t, m) PROVE Pool(s)!Next \/ UNCHANGED table
    <3>1. key(m) \in Keys
      BY <1>2 DEF Basic, NetInv
    <3> QED BY <1>2, <2>1, <2>2, <2>3, <3>1, Allocation DEF Basic, servers
  <2>4. ASSUME NEW c \in Clients, ClientStep(c) PROVE UNCHANGED mLeases
    BY <1>2, <2>4, ClientSends DEF Basic, servers
  <2>5. CASE UNCHANGED vars
    BY <2>1, <2>5 DEF vars, servers
  <2> QED BY <1>2, <2>1, <2>3, <2>4, <2>5 DEF Next, ServerStep
<1>3. Basic /\ [Next]_vars => [Pool(s)!Next]_table
  BY <1>2
<1> QED BY AlwaysBasic, <1>1, <1>3, PTL DEF Spec, Pool!Spec

-----------------------------------------------------------------------------
(* What a client that is alone on its link may conclude from a transaction *)
(* id.                                                                     *)

(* A client with a server has taken an OFFER of it.                        *)
ChosenInv ==
  \A c \in Clients : mState[c] \in Using =>
    \E o \in network : /\ o.type = "DHCPOFFER" /\ o.link = link[c]
                       /\ o.server = mServerAddress[c] /\ o.yiaddr = mRequestAddress[c]

(* Nobody asks for an address that was not offered on its link.            *)
RequestInv ==
  \A r \in network : r.type = "DHCPREQUEST" =>
    \E o \in network : o.type = "DHCPOFFER" /\ o.link = r.link /\ o.yiaddr = r.requestedIp

(* Where one client is alone, who refuses an address did not offer it.     *)
RefusalInv ==
  \A c \in Clients : \A m \in network :
    alone(c) /\ m.type = "DHCPNAK" /\ m.link = link[c] =>
      \E o \in network : o \in Replies /\ o.server # m.server

(* A message with the number of the last one of c is that message or an    *)
(* answer to it, if c is alone on its link and counts on.                  *)
concerns(c, m) ==
  /\ m.type = "DHCPREQUEST" => m.requestedIp = mRequestAddress[c]
  /\ m.type = "DHCPACK" => m.yiaddr = mRequestAddress[c]
  /\ m.type = "DHCPNAK" => m.server # mServerAddress[c]

CurrentInv ==
  \A c \in Clients : alone(c) /\ ~restarted[c] =>
    \A m \in network : m.link = link[c] =>
      /\ m.xid < sNextTransactionId[c]
      /\ m.xid = lastXid(c) /\ mState[c] \in Using => concerns(c, m)

Conversation == ChosenInv /\ RequestInv /\ RefusalInv /\ CurrentInv /\ ConfiguredAsRequested

Inv == Basic /\ Conversation

LEMMA InitConversation == Init => Conversation
<1> SUFFICES ASSUME Init PROVE Conversation
  OBVIOUS
<1>1. network = {} /\ \A c \in Clients : mState[c] = "Init"
  BY DEF Init
<1> QED BY <1>1 DEF Conversation, ChosenInv, RequestInv, RefusalInv, CurrentInv, ConfiguredAsRequested, Using

(* Whoever made an offer to a client alone on its link gives that address  *)
(* to every message of it.                                                 *)
LEMMA OfferKept ==
  ASSUME Basic, NEW c \in Clients, alone(c), NEW m \in network, m.link = link[c],
         NEW o \in network, o.type = "DHCPOFFER", o.link = link[c]
  PROVE  given(o.server, m) = o.yiaddr /\ o.yiaddr # NoAddress
<1>1. key(m) \in Keys /\ key(o) \in Keys /\ OnRecord(o)
  BY DEF Basic, NetInv
<1>2. key(m) = key(o)
  BY <1>1, AloneKey DEF key
<1> QED BY <1>1, <1>2, OfferAddress DEF given, OnRecord

LEMMA NextChosen == ASSUME Inv, [Next]_vars PROVE ChosenInv'
<1>1. TypeOK /\ link' = link /\ network \subseteq network' /\ ChosenInv
  BY Forever, PlacementStays DEF Inv, Basic, Conversation
<1>2. ASSUME NEW c \in Clients, mState[c] \in Using,
             mServerAddress'[c] = mServerAddress[c], mRequestAddress'[c] = mRequestAddress[c]
      PROVE  \E o \in network' : /\ o.type = "DHCPOFFER" /\ o.link = link'[c]
                                 /\ o.server = mServerAddress'[c] /\ o.yiaddr = mRequestAddress'[c]
  BY <1>1, <1>2 DEF ChosenInv
<1>3. ASSUME NEW c \in Clients, ClientStep(c) PROVE ChosenInv'
  <2>1. CASE discovers(c)
    <3>1. \A d \in Clients : mState'[d] \in Using => mState[d] \in Using
      BY <1>1, <2>1 DEF discovers, TypeOK, Using
    <3> QED BY <1>2, <2>1, <3>1 DEF ChosenInv, discovers
  <2>2. CASE asks(c)
    <3>1. \A d \in Clients : d # c => mState'[d] = mState[d]
      BY <1>1, <2>2 DEF asks, TypeOK
    <3>2. CASE asks_again(c)
      BY <1>2, <3>1, <3>2 DEF ChosenInv, asks_again
    <3>3. CASE takes_offer(c)
      <4>1. PICK m \in network :
              /\ m.link = link[c] /\ m.type = "DHCPOFFER"
              /\ mServerAddress' = [mServerAddress EXCEPT ![c] = m.server]
              /\ mRequestAddress' = [mRequestAddress EXCEPT ![c] = m.yiaddr]
        BY <3>3 DEF takes_offer
      <4>2. mServerAddress'[c] = m.server /\ mRequestAddress'[c] = m.yiaddr
        BY <1>1, <4>1 DEF TypeOK
      <4>3. \A d \in Clients : d # c => /\ mServerAddress'[d] = mServerAddress[d]
                                        /\ mRequestAddress'[d] = mRequestAddress[d]
        BY <1>1, <4>1 DEF TypeOK
      <4> QED BY <1>1, <1>2, <3>1, <4>1, <4>2, <4>3 DEF ChosenInv
    <3> QED BY <2>2, <3>2, <3>3 DEF asks
  <2>3. CASE restart(c)
    <3>1. \A d \in Clients : /\ mState'[d] \in Using => d # c /\ mState[d] \in Using
                             /\ d # c => /\ mServerAddress'[d] = mServerAddress[d]
                                         /\ mRequestAddress'[d] = mRequestAddress[d]
      BY <1>1, <2>3 DEF restart, become, TypeOK, Using
    <3> QED BY <1>2, <3>1 DEF ChosenInv
  <2>4. ASSUME NEW m \in network, NEW reached \in Reached, ack(c, m, reached) PROVE ChosenInv'
    <3>1. \A d \in Clients : mState'[d] \in Using => mState[d] \in Using
      BY <1>1, <2>4 DEF ack, become, requested, TypeOK, Using
    <3> QED BY <1>2, <2>4, <3>1 DEF ChosenInv, ack
  <2> QED BY <1>1, <1>3, <2>1, <2>2, <2>3, <2>4, ClientCases
<1>4. ASSUME NEW s \in Servers, NEW m \in network, answer(s, m) PROVE UNCHANGED fsm
  BY <1>4 DEF answer, client
<1>5. CASE UNCHANGED fsm
  BY <1>2, <1>5 DEF ChosenInv, fsm
<1> QED BY <1>3, <1>4, <1>5 DEF Next, ServerStep, vars, client

LEMMA NextRequest == ASSUME Inv, [Next]_vars PROVE RequestInv'
<1>1. TypeOK /\ link' = link /\ network \subseteq network' /\ RequestInv
  BY Forever, PlacementStays DEF Inv, Basic, Conversation
<1>2. ASSUME NEW r \in network, r.type = "DHCPREQUEST"
      PROVE  \E o \in network' : o.type = "DHCPOFFER" /\ o.link = r.link /\ o.yiaddr = r.requestedIp
  BY <1>1, <1>2 DEF RequestInv
<1>3. CASE network' = network
  BY <1>2, <1>3 DEF RequestInv
<1>4. ASSUME NEW c \in Clients, ClientStep(c) PROVE RequestInv'
  <2>1. CASE discovers(c)
    <3>1. \A r \in network' : r.type = "DHCPREQUEST" => r \in network
      BY <1>1, <2>1, Sent DEF discovers
    <3> QED BY <1>2, <3>1 DEF RequestInv
  <2>2. CASE asks(c)
    <3>1. PICK server \in {Nobody, mServerAddress'[c]} :
            sendMessage(c, "DHCPREQUEST", mRequestAddress'[c], server)
      BY <2>2 DEF asks
    <3>2. \A r \in network' : \/ r \in network
                              \/ r.link = link[c] /\ r.requestedIp = mRequestAddress'[c]
      <4>1. \/ network' = network
            \/ \E r : /\ network' = network \union {r} /\ r.link = link[c]
                      /\ r.requestedIp = mRequestAddress'[c]
        BY <1>1, <3>1, Sent
      <4> QED BY <4>1
    <3>3. mState'[c] \in Using
      BY <1>1, <2>2 DEF asks, Using, TypeOK
    <3>4. \E o \in network' : o.type = "DHCPOFFER" /\ o.link = link[c] /\ o.yiaddr = mRequestAddress'[c]
      BY <1>1, <3>3, NextChosen DEF ChosenInv
    <3> QED BY <1>2, <3>2, <3>4 DEF RequestInv
  <2>3. CASE restart(c) \/ \E m \in network, reached \in Reached : ack(c, m, reached)
    BY <1>3, <2>3 DEF restart, ack
  <2> QED BY <1>1, <1>4, <2>1, <2>2, <2>3, ClientCases
<1>5. ASSUME NEW s \in Servers, NEW m \in network, answer(s, m) PROVE RequestInv'
  <2>1. \A r \in network' : r.type = "DHCPREQUEST" => r \in network
    BY <1>1, <1>5, ReplySent
  <2> QED BY <1>2, <2>1 DEF RequestInv
<1> QED BY <1>3, <1>4, <1>5 DEF Next, ServerStep, vars

LEMMA NextRefusal == ASSUME Inv, [Next]_vars PROVE RefusalInv'
<1>1. /\ TypeOK /\ Basic /\ link' = link /\ network \subseteq network' /\ RefusalInv /\ RequestInv
      /\ \A c \in Clients : alone(c)' = alone(c)
  BY Forever, PlacementStays DEF Inv, Basic, Conversation
<1>2. TypeOK'
  BY NextType DEF Inv
<1>3. ASSUME NEW c \in Clients, NEW m \in network, alone(c), m.type = "DHCPNAK", m.link = link[c]
      PROVE  \E o \in network' : o \in Replies /\ o.server # m.server
  BY <1>1, <1>3 DEF RefusalInv
<1>4. ASSUME \A m \in network' : m.type = "DHCPNAK" => m \in network PROVE RefusalInv'
  <2> SUFFICES ASSUME NEW c \in Clients, NEW m \in network', alone(c)', m.type = "DHCPNAK", m.link = link[c]
               PROVE  \E o \in network' : o \in Replies /\ o.server # m.server
    BY <1>1 DEF RefusalInv, Replies, Addresses
  <2> QED BY <1>1, <1>3, <1>4
<1>5. ASSUME NEW c \in Clients, ClientStep(c) PROVE RefusalInv'
  BY <1>1, <1>4, <1>5, ClientSends
<1>6. ASSUME NEW s \in Servers, NEW q \in network, answer(s, q) PROVE RefusalInv'
  <2> SUFFICES ASSUME NEW c \in Clients, NEW m \in network', alone(c)', m.type = "DHCPNAK", m.link = link[c],
                      m \notin network
               PROVE  \E o \in network' : o \in Replies /\ o.server # m.server
    BY <1>1, <1>3 DEF RefusalInv
  <2>1. /\ alone(c) /\ m.link = q.link /\ m.server = s /\ q.type = "DHCPREQUEST"
        /\ given(s, q) = NoAddress \/ given(s, q) # q.requestedIp
    BY <1>1, <1>6, ReplySent
  <2>2. PICK o \in network : o.type = "DHCPOFFER" /\ o.link = q.link /\ o.yiaddr = q.requestedIp
    BY <1>1, <2>1 DEF RequestInv
  <2>3. o.server # s
    BY <1>1, <2>1, <2>2, OfferKept
  <2>4. o \in Replies
    BY <1>1, <2>2, MessageType
  <2> QED BY <1>1, <2>1, <2>2, <2>3, <2>4
<1>7. CASE UNCHANGED vars
  BY <1>4, <1>7 DEF vars
<1> QED BY <1>5, <1>6, <1>7 DEF Next, ServerStep

(* The messages of the other clients are on other links.                   *)
LEMMA NextCurrent == ASSUME Inv, [Next]_vars PROVE CurrentInv'
<1>1. /\ TypeOK /\ Basic /\ link' = link /\ mac' = mac /\ CurrentInv /\ ChosenInv
      /\ \A c \in Clients : alone(c)' = alone(c)
  BY Forever, PlacementStays DEF Inv, Basic, Conversation
<1>2. ASSUME NEW c \in Clients, UNCHANGED <<mServerAddress, mRequestAddress, sNextTransactionId, restarted>>,
             mState'[c] \in Using => mState[c] \in Using, alone(c), ~restarted[c],
             NEW m \in network, m.link = link[c]
      PROVE  /\ m.xid < sNextTransactionId'[c]
             /\ m.xid = lastXid(c)' /\ mState'[c] \in Using => concerns(c, m)'
  BY <1>1, <1>2 DEF CurrentInv, concerns, lastXid
<1>3. ASSUME NEW c \in Clients, NEW d \in Clients, alone(d), c # d PROVE link[c] # link[d]
  BY <1>3 DEF alone
<1>4. ASSUME NEW c \in Clients, discovers(c) \/ asks(c) PROVE CurrentInv'
  <2>1. /\ sNextTransactionId' = [sNextTransactionId EXCEPT ![c] = @ + 1]
        /\ \A r \in network' : \/ r \in network
                               \/ /\ r.link = link[c] /\ r.xid = sNextTransactionId[c]
                                  /\ discovers(c) \/ (r.type = "DHCPREQUEST" /\ r.requestedIp = mRequestAddress'[c])
    <3>1. CASE discovers(c)
      <4>1. /\ sNextTransactionId' = [sNextTransactionId EXCEPT ![c] = @ + 1]
            /\ \/ network' = network
               \/ \E r : network' = network \union {r} /\ r.link = link[c] /\ r.xid = sNextTransactionId[c]
        BY <1>1, <3>1, Sent DEF discovers
      <4> QED BY <3>1, <4>1
    <3>2. CASE asks(c)
      <4>1. PICK server \in {Nobody, mServerAddress'[c]} :
              sendMessage(c, "DHCPREQUEST", mRequestAddress'[c], server)
        BY <3>2 DEF asks
      <4>2. /\ sNextTransactionId' = [sNextTransactionId EXCEPT ![c] = @ + 1]
            /\ \/ network' = network
               \/ \E r : /\ network' = network \union {r} /\ r.link = link[c] /\ r.xid = sNextTransactionId[c]
                         /\ r.type = "DHCPREQUEST" /\ r.requestedIp = mRequestAddress'[c]
        BY <1>1, <4>1, Sent
      <4> QED BY <4>2
    <3> QED BY <1>4, <3>1, <3>2
  <2>2. restarted' = restarted
    BY <1>4 DEF discovers, asks
  <2> SUFFICES ASSUME NEW d \in Clients, alone(d), ~restarted[d], NEW m \in network', m.link = link[d]
               PROVE  /\ m.xid < sNextTransactionId'[d]
                      /\ m.xid = lastXid(d)' /\ mState'[d] \in Using => concerns(d, m)'
    BY <1>1, <2>2 DEF CurrentInv
  <2>3. CASE d # c
    <3>1. m \in network
      BY <1>3, <2>1, <2>3
    <3>2. /\ sNextTransactionId'[d] = sNextTransactionId[d] /\ mState'[d] = mState[d]
          /\ mServerAddress'[d] = mServerAddress[d] /\ mRequestAddress'[d] = mRequestAddress[d]
      <4>1. sNextTransactionId'[d] = sNextTransactionId[d] /\ mState'[d] = mState[d]
        BY <1>1, <1>4, <2>1, <2>3 DEF discovers, asks, TypeOK
      <4>2. mServerAddress'[d] = mServerAddress[d] /\ mRequestAddress'[d] = mRequestAddress[d]
        BY <1>1, <1>4, <2>3 DEF discovers, asks, asks_again, takes_offer, TypeOK
      <4> QED BY <4>1, <4>2
    <3>3. /\ m.xid < sNextTransactionId[d]
          /\ m.xid = lastXid(d) /\ mState[d] \in Using => concerns(d, m)
      BY <1>1, <3>1 DEF CurrentInv
    <3> QED BY <3>2, <3>3 DEF concerns, lastXid
  <2>4. CASE d = c
    <3>1. /\ sNextTransactionId[c] \in Nat /\ sNextTransactionId'[c] = sNextTransactionId[c] + 1
          /\ lastXid(c)' = sNextTransactionId[c]
      BY <1>1, <2>1 DEF TypeOK, lastXid
    <3>2. CASE m \in network
      <4>1. m.xid < sNextTransactionId[c] /\ m.xid \in Nat
        BY <1>1, <2>4, <3>2, MessageType DEF CurrentInv
      <4> QED BY <2>4, <3>1, <4>1
    <3>3. CASE m \notin network
      <4>1. m.xid = sNextTransactionId[c]
        BY <2>1, <3>3
      <4>2. mState'[c] \in Using => m.type = "DHCPREQUEST" /\ m.requestedIp = mRequestAddress'[c]
        BY <1>1, <2>1, <3>3 DEF discovers, TypeOK, Using
      <4> QED BY <2>4, <3>1, <4>1, <4>2 DEF concerns
    <3> QED BY <3>2, <3>3
  <2> QED BY <2>3, <2>4
<1>5. ASSUME NEW c \in Clients, restart(c) PROVE CurrentInv'
  <2>1. /\ restarted' = [restarted EXCEPT ![c] = TRUE] /\ network' = network
        /\ mState' = [mState EXCEPT ![c] = "Init"]
        /\ mServerAddress' = [mServerAddress EXCEPT ![c] = Nobody]
        /\ mRequestAddress' = [mRequestAddress EXCEPT ![c] = NoAddress]
        /\ sNextTransactionId' = [sNextTransactionId EXCEPT ![c] = first_id]
    BY <1>5 DEF restart, become
  <2> SUFFICES ASSUME NEW d \in Clients, alone(d), ~restarted'[d], NEW m \in network, m.link = link[d]
               PROVE  /\ m.xid < sNextTransactionId'[d]
                      /\ m.xid = lastXid(d)' /\ mState'[d] \in Using => concerns(d, m)'
    BY <1>1, <2>1 DEF CurrentInv
  <2>2. d # c
    BY <1>1, <2>1 DEF TypeOK
  <2>3. /\ sNextTransactionId'[d] = sNextTransactionId[d] /\ mState'[d] = mState[d]
        /\ mServerAddress'[d] = mServerAddress[d] /\ mRequestAddress'[d] = mRequestAddress[d]
        /\ ~restarted[d]
    BY <1>1, <2>1, <2>2 DEF TypeOK
  <2>4. /\ m.xid < sNextTransactionId[d]
        /\ m.xid = lastXid(d) /\ mState[d] \in Using => concerns(d, m)
    BY <1>1, <2>3 DEF CurrentInv
  <2> QED BY <2>3, <2>4 DEF concerns, lastXid
<1>6. ASSUME NEW c \in Clients, NEW m \in network, NEW reached \in Reached, ack(c, m, reached) PROVE CurrentInv'
  <2>1. \A d \in Clients : mState'[d] \in Using => mState[d] \in Using
    BY <1>1, <1>6 DEF ack, become, requested, TypeOK, Using
  <2> QED BY <1>1, <1>2, <1>6, <2>1 DEF ack, CurrentInv
<1>7. ASSUME NEW s \in Servers, NEW q \in network, answer(s, q) PROVE CurrentInv'
  <2>1. UNCHANGED <<fsm, sNextTransactionId, restarted>>
    BY <1>7 DEF answer, client
  <2> SUFFICES ASSUME NEW c \in Clients, alone(c), ~restarted[c], NEW m \in network', m.link = link[c],
                      m \notin network
               PROVE  /\ m.xid < sNextTransactionId[c]
                      /\ m.xid = lastXid(c) /\ mState[c] \in Using => concerns(c, m)
    BY <1>1, <1>2, <2>1 DEF fsm, CurrentInv, concerns, lastXid
  <2>2. /\ m.link = q.link /\ m.xid = q.xid /\ m.server = s
        /\ \/ m.type = "DHCPOFFER"
           \/ m.type = "DHCPACK" /\ q.type = "DHCPREQUEST" /\ m.yiaddr = q.requestedIp
           \/ m.type = "DHCPNAK" /\ q.type = "DHCPREQUEST" /\ (given(s, q) = NoAddress \/ given(s, q) # q.requestedIp)
    BY <1>1, <1>7, ReplySent
  <2>3. /\ q.xid < sNextTransactionId[c]
        /\ q.xid = lastXid(c) /\ mState[c] \in Using => concerns(c, q)
    BY <1>1, <2>2 DEF CurrentInv
  <2>4. ASSUME m.xid = lastXid(c), mState[c] \in Using, m.type = "DHCPNAK", m.server = mServerAddress[c] PROVE FALSE
    <3>1. q.requestedIp = mRequestAddress[c]
      BY <2>2, <2>3, <2>4 DEF concerns
    <3>2. PICK o \in network : /\ o.type = "DHCPOFFER" /\ o.link = link[c]
                               /\ o.server = mServerAddress[c] /\ o.yiaddr = mRequestAddress[c]
      BY <1>1, <2>4 DEF ChosenInv
    <3>3. given(s, q) = mRequestAddress[c] /\ mRequestAddress[c] # NoAddress
      BY <1>1, <2>2, <2>4, <3>2, OfferKept
    <3> QED BY <2>2, <2>4, <3>1, <3>3
  <2> QED BY <2>2, <2>3, <2>4 DEF concerns
<1>8. CASE UNCHANGED vars
  BY <1>1, <1>2, <1>8 DEF vars, client, fsm, CurrentInv
<1> QED BY <1>1, <1>4, <1>5, <1>6, <1>7, <1>8, ClientCases DEF Next, ServerStep

LEMMA NextConfigured == ASSUME Inv, [Next]_vars PROVE ConfiguredAsRequested'
<1>1. /\ TypeOK /\ link' = link /\ CurrentInv /\ ConfiguredAsRequested
      /\ \A c \in Clients : alone(c)' = alone(c)
  BY Forever, PlacementStays DEF Inv, Basic, Conversation
<1> DEFINE configured(c) == mState[c] \in {"Bound", "Renewing", "Rebinding"}
<1>2. ASSUME NEW c \in Clients, alone(c)', ~restarted'[c], configured(c)', restarted'[c] = restarted[c],
             configured(c), address'[c] = address[c], mRequestAddress'[c] = mRequestAddress[c]
      PROVE  address'[c] = mRequestAddress'[c]
  BY <1>1, <1>2 DEF ConfiguredAsRequested
<1>3. ASSUME NEW c \in Clients, discovers(c) PROVE ConfiguredAsRequested'
  <2>1. \A d \in Clients : configured(d)' => configured(d) /\ d # c
    BY <1>1, <1>3 DEF discovers, TypeOK
  <2>2. \A d \in Clients : d # c => address'[d] = address[d]
    BY <1>1, <1>3 DEF discovers, TypeOK
  <2> QED BY <1>2, <1>3, <2>1, <2>2 DEF discovers, ConfiguredAsRequested
<1>4. ASSUME NEW c \in Clients, asks(c) PROVE ConfiguredAsRequested'
  <2>1. \A d \in Clients : configured(d)' => configured(d) /\ mRequestAddress'[d] = mRequestAddress[d]
    <3>1. \A d \in Clients : d # c => mState'[d] = mState[d] /\ mRequestAddress'[d] = mRequestAddress[d]
      BY <1>1, <1>4 DEF asks, asks_again, takes_offer, TypeOK
    <3>2. configured(c)' => configured(c) /\ mRequestAddress'[c] = mRequestAddress[c]
      BY <1>4 DEF asks, asks_again, takes_offer, Using
    <3> QED BY <3>1, <3>2
  <2> QED BY <1>2, <1>4, <2>1 DEF asks, kernel, ConfiguredAsRequested
<1>5. ASSUME NEW c \in Clients, restart(c) PROVE ConfiguredAsRequested'
  <2>1. \A d \in Clients : ~restarted'[d] =>
          /\ mState'[d] = mState[d] /\ restarted'[d] = restarted[d]
          /\ address'[d] = address[d] /\ mRequestAddress'[d] = mRequestAddress[d]
    BY <1>1, <1>5 DEF restart, become, TypeOK
  <2> QED BY <1>2, <2>1 DEF ConfiguredAsRequested
<1>6. ASSUME NEW c \in Clients, NEW m \in network, NEW reached \in Reached, ack(c, m, reached)
      PROVE  ConfiguredAsRequested'
  <2>1. /\ UNCHANGED <<mRequestAddress, restarted>> /\ m.link = link[c] /\ m.type = "DHCPACK"
        /\ m.xid = lastXid(c) /\ mState[c] \in Using
    BY <1>6 DEF ack, receiveDhcpMessage, receiveRawUdp, isValidDhcpMessage, requested, Using
  <2>2. \A d \in Clients : d # c => mState'[d] = mState[d] /\ address'[d] = address[d]
    BY <1>1, <1>6 DEF ack, become, TypeOK
  <2>3. ASSUME alone(c)', ~restarted'[c], configured(c)' PROVE address'[c] = mRequestAddress'[c]
    <3>1. m.yiaddr = mRequestAddress[c]
      BY <1>1, <2>1, <2>3 DEF CurrentInv, concerns
    <3>2. CASE reached = "flags"
      <4>1. mState' = mState /\ address' = address
        BY <1>6, <3>2 DEF ack
      <4> QED BY <1>2, <2>1, <2>3, <4>1
    <3>3. CASE reached # "flags"
      <4>1. address'[c] = m.yiaddr
        BY <1>1, <1>6, <3>3 DEF ack, TypeOK
      <4> QED BY <2>1, <3>1, <4>1
    <3> QED BY <3>2, <3>3
  <2> QED BY <1>2, <2>1, <2>2, <2>3 DEF ConfiguredAsRequested
<1>7. ASSUME NEW s \in Servers, NEW m \in network, answer(s, m) PROVE UNCHANGED client
  BY <1>7 DEF answer
<1>8. CASE UNCHANGED client
  BY <1>2, <1>8 DEF client, fsm, kernel, ConfiguredAsRequested
<1> QED BY <1>1, <1>3, <1>4, <1>5, <1>6, <1>7, <1>8, ClientCases DEF Next, ServerStep, vars

LEMMA AlwaysInv == Spec => []Inv
<1>1. Init => Inv
  BY InitBasic, InitConversation DEF Inv
<1>2. ASSUME Inv, [Next]_vars PROVE Inv'
  <2>1. Basic'
    BY <1>2, NextType, NextServer, NextNet, NextUsed DEF Inv, Basic
  <2>2. Conversation'
    BY <1>2, NextChosen, NextRequest, NextRefusal, NextCurrent, NextConfigured DEF Conversation
  <2> QED BY <2>1, <2>2 DEF Inv
<1> QED BY <1>1, <1>2, PTL DEF Spec

(* A client alone on its link that was not restarted has the address it    *)
(* renews on its interface: DhcpClient's requests may take that as given.  *)
THEOREM AddressIsRequested == Spec => []ConfiguredAsRequested
<1>1. Inv => ConfiguredAsRequested
  BY DEF Inv, Conversation
<1> QED BY AlwaysInv, <1>1, PTL

(* The server whose offer a client alone on its link took never refuses    *)
(* it; what a restarted client takes for a refusal was one by another.     *)
THEOREM OfferNotRefused == Spec => []RefusedByAnother
<1>1. ASSUME Inv, NEW c \in Clients, NEW m \in network, alone(c), refused(c, m)
      PROVE  \/ m.server # mServerAddress[c]
             \/ restarted[c] /\ \E other \in network : other \in Replies /\ other.server # m.server
  <2>1. m.link = link[c] /\ m.xid = lastXid(c) /\ mState[c] \in Using /\ m.type = "DHCPNAK"
    BY <1>1 DEF refused, receiveDhcpMessage, receiveRawUdp, isValidDhcpMessage, requested, Using
  <2>2. CASE ~restarted[c]
    BY <1>1, <2>1, <2>2 DEF Inv, Conversation, CurrentInv, concerns
  <2>3. CASE restarted[c]
    BY <1>1, <2>1, <2>3 DEF Inv, Conversation, RefusalInv
  <2> QED BY <1>1, <2>2, <2>3 DEF Inv, Basic, TypeOK
<1>2. Inv => RefusedByAnother
  BY <1>1 DEF RefusedByAnother
<1> QED BY AlwaysInv, <1>2, PTL
=============================================================================
