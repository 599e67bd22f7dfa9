----------------------------- MODULE DhcpClient -----------------------------
(***************************************************************************)
(* The DHCP client (dhcp/client/dhcpclient.cpp): its state machine, the    *)
(* retransmission timeouts, the timers of the lease, and the interface it  *)
(* configures.  run evaluates the state, then waitAndReceive polls until   *)
(* the timeout is over or a reply has been handled.                        *)
(*                                                                         *)
(* Time is counted in ticks; timers and timeouts hold what is left of      *)
(* them, and the process runs as soon as one is over.  Servers and network *)
(* are the environment: they lose, delay and repeat replies, and answer a  *)
(* REQUEST with an ACK for the address it names, as the server of this     *)
(* repository does, or with a NAK.  Every message has a transaction id of  *)
(* its own, so of a reply it only matters if it answers the last message.  *)
(* The identity of the server and the DNS entries are left out.            *)
(***************************************************************************)
EXTENDS Integers

CONSTANTS
  Addresses,       \* what servers hand out
  LeaseInfos,      \* [leaseTime, t1, t2] of an ACK in ticks, 0 for an option left out
  kInitialTimeout, kMaxTimeout, kTimeoutSpan,
  U32              \* 2^32

kNoTimeout == 0
NoAddress  == 0

ASSUME ClientAssumption ==
  /\ NoAddress \notin Addresses
  /\ kInitialTimeout \in Nat \ {0} /\ kMaxTimeout \in Nat /\ kInitialTimeout < kMaxTimeout
  /\ kTimeoutSpan \in Nat /\ U32 \in Nat /\ kMaxTimeout < U32
  /\ \A info \in LeaseInfos : info.leaseTime \in Nat /\ info.t1 \in Nat /\ info.t2 \in Nat

States == {"Init", "Selecting", "Requesting", "Bound", "Renewing", "Rebinding"}

VARIABLES
  mState, mNextTimeout, mFuzzNextTimeout,
  mT1, mT2,            \* ticks until they expire
  mRequestAddress,
  mLastMsg,            \* [type, requestedIp, sent]; not sent when sendmsg failed
  pc, timeout,         \* "evaluate" or "wait"; what is left of the wait
  up, address,         \* the interface
  asked,               \* addresses of earlier requests, whose replies may be under way
  lease                \* history: ticks left of the lease the last ACK granted; below
                       \* zero, how long the client has held on to it since it ended

fsm       == <<mState, mNextTimeout, mFuzzNextTimeout>>
timers    == <<mT1, mT2, lease>>
wait      == <<pc, timeout>>
interface == <<up, address>>
messages  == <<mLastMsg, asked>>
vars      == <<fsm, timers, mRequestAddress, messages, wait, interface>>

(* The constructor, and Interface::init in DhcpClient::init.               *)
Init ==
  /\ mState = "Init" /\ mNextTimeout = kInitialTimeout /\ mFuzzNextTimeout = TRUE
  /\ mT1 = 0 /\ mT2 = 0 /\ lease = 0
  /\ mRequestAddress = NoAddress /\ asked = {}
  /\ mLastMsg = [type |-> "none", requestedIp |-> NoAddress, sent |-> FALSE]
  /\ pc = "evaluate" /\ timeout = 0
  /\ up = TRUE /\ address = NoAddress

-----------------------------------------------------------------------------
setNextState_keeping_timeout(state) ==      \* mutant: the timeout is not reset
  mState' = state /\ mNextTimeout' = mNextTimeout /\ mFuzzNextTimeout' = TRUE
setNextState_at_once(state) ==              \* mutant: an unsigned "no timeout" of -1
  mState' = state /\ mNextTimeout' = -1 /\ mFuzzNextTimeout' = TRUE
setNextState(state) ==
  mState' = state /\ mNextTimeout' = kNoTimeout /\ mFuzzNextTimeout' = TRUE

increaseTimeout ==
  /\ mNextTimeout' = IF mNextTimeout = kNoTimeout THEN kInitialTimeout
                     ELSE IF 2 * mNextTimeout > kMaxTimeout THEN kMaxTimeout ELSE 2 * mNextTimeout
  /\ UNCHANGED <<mState, mFuzzNextTimeout>>

adjustments == IF mFuzzNextTimeout' THEN -kTimeoutSpan .. kTimeoutSpan ELSE {0}

(* The entry of waitAndReceive, with calculateTimeoutMillis.               *)
waitAndReceive ==
  IF mNextTimeout' = kNoTimeout
    THEN pc' = "evaluate" /\ timeout' = 0
    ELSE /\ pc' = "wait"
         /\ \E adjustment \in adjustments :
              timeout' = IF -adjustment > mNextTimeout' THEN 0 ELSE mNextTimeout' + adjustment

(* A packet socket refuses to send while its interface is down.            *)
sendRawUdp == up

sendMessage(type, ip) ==
  /\ mLastMsg' = [type |-> type, requestedIp |-> ip, sent |-> sendRawUdp]
  /\ asked' = IF mLastMsg.type = "DHCPREQUEST" /\ mLastMsg.sent
                THEN asked \union {mLastMsg.requestedIp} ELSE asked

sendDhcpDiscover == sendMessage("DHCPDISCOVER", NoAddress)
sendDhcpRequest  == sendMessage("DHCPREQUEST", mRequestAddress)

-----------------------------------------------------------------------------
(* run: what the state asks for, then the entry of waitAndReceive.         *)

goto(state) == setNextState(state) /\ UNCHANGED messages

init_state  == mState = "Init" /\ goto("Selecting")
selecting   == mState = "Selecting" /\ sendDhcpDiscover /\ increaseTimeout

tried_above_max == mNextTimeout > kMaxTimeout   \* mutant: one comparison off
tried_often     == mNextTimeout >= kMaxTimeout

ask_again == sendDhcpRequest /\ increaseTimeout

requesting == mState = "Requesting" /\ IF tried_often THEN goto("Init") ELSE ask_again

bound_fuzzed ==                    \* mutant: the wait for T1 is randomised too
  /\ mState = "Bound"
  /\ IF mT1 = 0 THEN goto("Renewing")
     ELSE /\ mNextTimeout' = mT1 % U32 /\ UNCHANGED <<mState, mFuzzNextTimeout, messages>>
bound ==
  /\ mState = "Bound"
  /\ IF mT1 = 0 THEN goto("Renewing")
     ELSE /\ mNextTimeout' = mT1 % U32 /\ mFuzzNextTimeout' = FALSE
          /\ UNCHANGED <<mState, messages>>

renewing  == mState = "Renewing" /\ IF mT2 = 0 THEN goto("Rebinding") ELSE ask_again
rebinding == mState = "Rebinding" /\ IF tried_often THEN goto("Init") ELSE ask_again

run ==
  /\ pc = "evaluate"
  /\ init_state \/ selecting \/ requesting \/ bound \/ renewing \/ rebinding
  /\ waitAndReceive
  /\ UNCHANGED <<timers, mRequestAddress, interface>>

-----------------------------------------------------------------------------
(* The loop of waitAndReceive: a reply, or the end of the timeout.         *)

answers == IF ~mLastMsg.sent THEN {}
           ELSE IF mLastMsg.type = "DHCPDISCOVER"
             THEN [type : {"DHCPOFFER"}, yiaddr : Addresses, xid : {"last"}]
             ELSE [type : {"DHCPACK", "DHCPNAK"}, yiaddr : {mLastMsg.requestedIp}, xid : {"last"}]
delayed == [type : {"DHCPACK", "DHCPNAK"}, yiaddr : asked, xid : {"earlier"}]

receive_any(msg)        == pc = "wait" /\ msg \in answers \union delayed  \* mutant: xid unchecked
receiveDhcpMessage(msg) == pc = "wait" /\ msg \in answers \union delayed /\ msg.xid = "last"

offer(msg) ==
  /\ receiveDhcpMessage(msg) /\ mState = "Selecting" /\ msg.type = "DHCPOFFER"
  /\ mRequestAddress' = msg.yiaddr
  /\ setNextState("Requesting") /\ pc' = "evaluate" /\ timeout' = 0
  /\ UNCHANGED <<timers, messages, interface>>

requested == mState \in {"Requesting", "Renewing", "Rebinding"}

t1_whole(info) == IF info.t1 > 0 THEN info.t1 ELSE info.leaseTime   \* mutant: T1 estimated as the lease
t1(info) == IF info.t1 > 0 THEN info.t1 ELSE info.leaseTime \div 2
t2(info) == IF info.t2 > 0 THEN info.t2 ELSE ((info.leaseTime * 7) % U32) \div 8

(* Calls on the interface, which the kernel grants or not.                 *)
setInterfaceUp(shouldBeUp, granted) == up' = IF granted THEN shouldBeUp ELSE up
setAddress(ip, granted) == address' = IF granted THEN ip ELSE address

(***************************************************************************)
(* configureDhcp: false without a lease time; the timers are set before    *)
(* anything is configured; then bringUp, setAddress and the later calls,   *)
(* of which "failing" names the first that fails.                          *)
(***************************************************************************)
Failing == {"nothing", "bringUp", "setAddress", "later"}

configureDhcp(msg, info, failing) ==
  IF info.leaseTime = 0 THEN UNCHANGED <<timers, interface>>
  ELSE /\ mT1' = t1(info) /\ mT2' = t2(info) /\ lease' = info.leaseTime
       /\ setInterfaceUp(TRUE, failing # "bringUp")
       /\ setAddress(msg.yiaddr, failing \notin {"bringUp", "setAddress"})

configured(info, failing) == info.leaseTime # 0 /\ failing = "nothing"

ack(msg, info, failing) ==
  /\ receiveDhcpMessage(msg) /\ requested /\ msg.type = "DHCPACK"
  /\ configureDhcp(msg, info, failing)
  /\ IF configured(info, failing)
       THEN setNextState("Bound") /\ pc' = "evaluate" /\ timeout' = 0
       ELSE UNCHANGED <<fsm, wait>>
  /\ UNCHANGED <<mRequestAddress, messages>>

(* Either call of haltNetwork may fail.                                    *)
haltNetwork ==
  /\ \E granted \in BOOLEAN : setAddress(NoAddress, granted)
  /\ \E granted \in BOOLEAN : setInterfaceUp(FALSE, granted)

nak(msg) ==
  /\ receiveDhcpMessage(msg) /\ requested /\ msg.type = "DHCPNAK"
  /\ haltNetwork
  /\ setNextState("Init") /\ pc' = "evaluate" /\ timeout' = 0
  /\ UNCHANGED <<timers, mRequestAddress, messages>>

timed_out ==
  /\ pc = "wait" /\ timeout = 0
  /\ pc' = "evaluate"
  /\ UNCHANGED <<fsm, timers, mRequestAddress, messages, timeout, interface>>

left(t) == IF t <= 0 THEN 0 ELSE t - 1

(* What a client spends in Rebinding after its timeout is t, and what it   *)
(* may use an address past the lease: one wait of Renewing that T2 does    *)
(* not interrupt, then all of Rebinding.                                   *)
Larger(t) == IF 2 * t > kMaxTimeout THEN kMaxTimeout ELSE 2 * t
Waits[t \in 1 .. kMaxTimeout] ==
  t + kTimeoutSpan + IF t = kMaxTimeout THEN 0 ELSE Waits[Larger(t)]
MaxOverrun == kMaxTimeout + kTimeoutSpan + Waits[kInitialTimeout]

holding == mState \in {"Bound", "Renewing", "Rebinding"}

tick ==
  /\ pc = "wait" /\ timeout > 0
  /\ timeout' = timeout - 1
  /\ mT1' = left(mT1) /\ mT2' = left(mT2)
  /\ lease' = IF holding THEN (IF lease < -MaxOverrun THEN lease ELSE lease - 1) ELSE left(lease)
  /\ UNCHANGED <<fsm, mRequestAddress, messages, pc, interface>>

Offers == \E msg \in answers \union delayed : offer(msg)
Acks   == \E msg \in answers \union delayed, info \in LeaseInfos, failing \in Failing :
            ack(msg, info, failing)
Naks   == \E msg \in answers \union delayed : nak(msg)

Next == run \/ Offers \/ Acks \/ Naks \/ timed_out \/ tick

Spec == Init /\ [][Next]_vars

(* The process runs and time goes by, whatever the network does.           *)
FairSpec == Spec /\ WF_vars(run) /\ WF_vars(timed_out) /\ WF_vars(tick)

(* Also, a server is there: who keeps asking is answered at last, with an  *)
(* ACK that can be configured.                                             *)
Approvals == \E msg \in answers, info \in LeaseInfos :
               configured(info, "nothing") /\ ack(msg, info, "nothing")
Served     == SF_vars(Offers) /\ SF_vars(Approvals)
ServedSpec == FairSpec /\ Served

-----------------------------------------------------------------------------
TypeOK ==
  /\ mState \in States /\ mNextTimeout \in 0 .. (U32 - 1) /\ mFuzzNextTimeout \in BOOLEAN
  /\ mT1 \in Nat /\ mT2 \in Nat /\ lease \in Int /\ timeout \in Nat
  /\ mRequestAddress \in Addresses \union {NoAddress} /\ asked \subseteq Addresses
  /\ mLastMsg \in [type : {"none", "DHCPDISCOVER", "DHCPREQUEST"},
                   requestedIp : Addresses \union {NoAddress}, sent : BOOLEAN]
  /\ pc \in {"evaluate", "wait"} /\ up \in BOOLEAN /\ address \in Addresses \union {NoAddress}

(* A client with a lease uses the address it asks the servers to renew, on *)
(* an interface that is up: no late reply to an earlier request, and no    *)
(* configuration that failed halfway, leaves it with another.              *)
ConfiguredAsRequested ==
  holding => up /\ address = mRequestAddress

(* The comment in the Bound state: its wait never ends after the lease.    *)
BoundWithinLease == mState = "Bound" => lease > 0

(* Nothing measures the lease itself: a client that no server answers uses *)
(* the address on, but gives it up to look for another within a time that  *)
(* its timeouts limit, however they are randomised.  (It stays configured  *)
(* until an ACK or a NAK replaces it.)                                     *)
OverrunBounded == holding => lease >= -MaxOverrun

(* A client does not ask for ever for what nobody grants: with or without  *)
(* replies it leaves these states.                                         *)
GivesUp == \A s \in {"Requesting", "Bound", "Rebinding"} : mState = s ~> mState # s

(* If servers answer those who keep asking, a client that looks for a      *)
(* lease on an interface that stays up gets one, however many offers and   *)
(* acknowledgements are lost or fail before.                               *)
GetsLease == Served => (mState = "Selecting" /\ up ~> mState = "Bound" \/ ~up)

(* "Request denied, halt network and start over": from Init the client     *)
(* gets a lease, after a NAK too.                                          *)
StartsOver == mState = "Init" ~> mState = "Bound"

(* The comment in waitAndReceive: when the configuration keeps failing the *)
(* client keeps asking, but eventually moves on to Init.                   *)
FailureMovesOn == mState = "Renewing" ~> mState # "Renewing"
=============================================================================
