-------------------------- MODULE DhcpClientProofs --------------------------
(***************************************************************************)
(* The DHCP client for every set of addresses and leases and every timeout *)
(* constant.                                                               *)
(***************************************************************************)
EXTENDS DhcpClient, TLAPS, WellFoundedInduction

(* A client that waits for an answer to a REQUEST has asked for the        *)
(* address it means to use, and a client that waits in Bound wakes at T1,  *)
(* not later.                                                              *)
WaitInv ==
  pc = "wait" =>
    /\ requested => mLastMsg.type = "DHCPREQUEST" /\ mLastMsg.requestedIp = mRequestAddress
    /\ mState = "Bound" => timeout <= mT1
    /\ mState # "Init"

(* An address is chosen when the first REQUEST for it is due.              *)
ChosenInv == mState \in {"Requesting", "Bound", "Renewing", "Rebinding"} => mRequestAddress \in Addresses

RequestInv == mLastMsg.type = "DHCPREQUEST" => mLastMsg.requestedIp \in Addresses

Inv == TypeOK /\ WaitInv /\ ChosenInv /\ RequestInv /\ ConfiguredAsRequested

LEMMA ModSmaller == ASSUME NEW n \in Nat \ {0}, NEW x \in Nat PROVE x % n \in 0 .. n - 1 /\ x % n <= x
<1>1. x % n \in 0 .. n - 1
  OBVIOUS
<1>2. x % n <= x
  OBVIOUS
<1> QED BY <1>1, <1>2

LEMMA TimersNat == ASSUME NEW info \in LeaseInfos PROVE t1(info) \in Nat /\ t2(info) \in Nat
<1> USE ClientAssumption
<1>1. info.leaseTime \in Nat /\ info.t1 \in Nat /\ info.t2 \in Nat /\ U32 \in Nat \ {0}
  OBVIOUS
<1>2. (info.leaseTime * 7) % U32 \in Nat
  BY <1>1, ModSmaller
<1> QED BY <1>1, <1>2 DEF t1, t2

LEMMA AdjustedNat ==
  ASSUME NEW n \in Nat, NEW a \in Int, NEW t, t = IF -a > n THEN 0 ELSE n + a
  PROVE  t \in Nat /\ (a = 0 => t <= n)
OBVIOUS

(* Whatever the state asked for, the wait that follows has a timeout, and  *)
(* it is the one asked for when it is not randomised.                      *)
LEMMA WaitEntered ==
  ASSUME waitAndReceive, mNextTimeout' \in Nat
  PROVE  /\ pc' \in {"evaluate", "wait"} /\ timeout' \in Nat
         /\ mFuzzNextTimeout' = FALSE => timeout' <= mNextTimeout'
         /\ mNextTimeout' = kNoTimeout => pc' = "evaluate"
<1>1. CASE mNextTimeout' = kNoTimeout
  BY <1>1 DEF waitAndReceive, kNoTimeout
<1>2. CASE mNextTimeout' # kNoTimeout
  <2>1. PICK adjustment \in adjustments :
           timeout' = IF -adjustment > mNextTimeout' THEN 0 ELSE mNextTimeout' + adjustment
    BY <1>2 DEF waitAndReceive
  <2>2. adjustment \in Int /\ (mFuzzNextTimeout' = FALSE => adjustment = 0)
    BY ClientAssumption, <2>1 DEF adjustments
  <2>3. timeout' \in Nat /\ (mFuzzNextTimeout' = FALSE => timeout' <= mNextTimeout')
    BY <2>1, <2>2, AdjustedNat
  <2>4. pc' = "wait"
    BY <1>2 DEF waitAndReceive
  <2> QED BY <1>2, <2>3, <2>4
<1> QED BY <1>1, <1>2

LEMMA InitInv == Init => Inv
BY ClientAssumption DEF Init, Inv, TypeOK, WaitInv, ChosenInv, RequestInv, ConfiguredAsRequested, holding, States

HasAddress == {"Requesting", "Bound", "Renewing", "Rebinding"}
HasLease   == {"Bound", "Renewing", "Rebinding"}

(* What run leaves alone, once the state has been dealt with.              *)
rest == waitAndReceive /\ UNCHANGED <<timers, mRequestAddress, interface>>

LEMMA GotoInv ==
  ASSUME Inv, rest, NEW state \in States, goto(state),
         state \in HasAddress => mState \in HasAddress,
         state \in HasLease => mState \in HasLease
  PROVE  Inv'
<1> USE ClientAssumption DEF Inv, kNoTimeout
<1>1. /\ mState' = state /\ mNextTimeout' = 0 /\ mFuzzNextTimeout' = TRUE
      /\ UNCHANGED <<timers, mRequestAddress, interface, messages>>
  BY DEF goto, setNextState, rest
<1>2. pc' = "evaluate" /\ timeout' \in Nat
  BY <1>1, WaitEntered DEF rest
<1>3. TypeOK' /\ WaitInv' /\ RequestInv'
  BY <1>1, <1>2 DEF TypeOK, WaitInv, RequestInv, timers, interface, messages
<1>4. ChosenInv' /\ ConfiguredAsRequested'
  BY <1>1 DEF ChosenInv, ConfiguredAsRequested, holding, HasAddress, HasLease, interface
<1> QED BY <1>3, <1>4

LEMMA SendInv ==
  ASSUME Inv, rest, NEW type \in {"DHCPDISCOVER", "DHCPREQUEST"},
         NEW ip \in Addresses \union {NoAddress}, sendMessage(type, ip), increaseTimeout,
         mState \notin {"Init", "Bound"},
         type = "DHCPREQUEST" => ip \in Addresses,
         requested => type = "DHCPREQUEST" /\ ip = mRequestAddress
  PROVE  Inv'
<1> USE ClientAssumption DEF Inv, kNoTimeout
<1>1. mNextTimeout' \in 0 .. (U32 - 1) /\ UNCHANGED <<mState, mFuzzNextTimeout>>
  BY DEF increaseTimeout, TypeOK
<1>2. /\ mLastMsg' = [type |-> type, requestedIp |-> ip, sent |-> up]
      /\ asked' \subseteq Addresses
  BY DEF sendMessage, sendRawUdp, RequestInv, TypeOK
<1>3. pc' \in {"evaluate", "wait"} /\ timeout' \in Nat
  BY <1>1, WaitEntered DEF rest
<1>4. UNCHANGED <<timers, mRequestAddress, interface>>
  BY DEF rest
<1>5. TypeOK'
  BY <1>1, <1>2, <1>3, <1>4 DEF TypeOK, timers, interface
<1>6. WaitInv' /\ RequestInv'
  BY <1>1, <1>2, <1>4 DEF WaitInv, RequestInv, requested
<1>7. ChosenInv' /\ ConfiguredAsRequested'
  BY <1>1, <1>4 DEF ChosenInv, ConfiguredAsRequested, holding, interface
<1> QED BY <1>5, <1>6, <1>7

LEMMA AskInv == ASSUME Inv, rest, ask_again, requested PROVE Inv'
<1>1. mRequestAddress \in Addresses
  BY DEF Inv, ChosenInv, requested
<1>2. sendMessage("DHCPREQUEST", mRequestAddress) /\ increaseTimeout
  BY DEF ask_again, sendDhcpRequest
<1> QED BY <1>1, <1>2, SendInv DEF requested

LEMMA BoundInv == ASSUME Inv, rest, bound PROVE Inv'
<1>1. CASE mT1 = 0
  <2>1. goto("Renewing") /\ mState = "Bound"
    BY <1>1 DEF bound
  <2> QED BY <2>1, GotoInv DEF HasAddress, HasLease, States
<1>2. CASE mT1 # 0
  <2> USE ClientAssumption DEF Inv
  <2>1. /\ mNextTimeout' = mT1 % U32 /\ mFuzzNextTimeout' = FALSE /\ mState = "Bound"
        /\ UNCHANGED <<mState, messages, timers, mRequestAddress, interface>>
    BY <1>2 DEF bound, rest
  <2>2. mNextTimeout' \in 0 .. (U32 - 1) /\ mNextTimeout' <= mT1
    <3>1. U32 \in Nat \ {0} /\ mT1 \in Nat
      BY DEF TypeOK
    <3> QED BY <2>1, <3>1, ModSmaller
  <2>3. pc' \in {"evaluate", "wait"} /\ timeout' \in Nat /\ timeout' <= mNextTimeout'
    <3>1. waitAndReceive /\ mNextTimeout' \in Nat /\ mFuzzNextTimeout' = FALSE
      BY <2>1, <2>2 DEF rest
    <3> QED BY <3>1, WaitEntered
  <2>4. timeout' <= mT1'
    BY <2>1, <2>2, <2>3 DEF timers, TypeOK
  <2>5. TypeOK' /\ RequestInv'
    BY <2>1, <2>2, <2>3 DEF TypeOK, RequestInv, messages, timers, interface
  <2>6. WaitInv'
    BY <2>1, <2>4 DEF WaitInv, requested
  <2>7. ChosenInv' /\ ConfiguredAsRequested'
    BY <2>1 DEF ChosenInv, ConfiguredAsRequested, holding, interface
  <2> QED BY <2>5, <2>6, <2>7
<1> QED BY <1>1, <1>2

LEMMA RunInv == ASSUME Inv, run PROVE Inv'
<1> USE DEF HasAddress, HasLease, States
<1>1. rest
  BY DEF run, rest
<1>2. CASE init_state
  BY <1>1, <1>2, GotoInv DEF init_state
<1>3. CASE selecting
  <2>1. mState = "Selecting" /\ sendMessage("DHCPDISCOVER", NoAddress) /\ increaseTimeout
    BY <1>3 DEF selecting, sendDhcpDiscover
  <2> QED BY <1>1, <2>1, SendInv DEF requested
<1>4. CASE requesting
  <2>1. mState = "Requesting" /\ (goto("Init") \/ ask_again)
    BY <1>4 DEF requesting
  <2> QED BY <1>1, <2>1, GotoInv, AskInv DEF requested
<1>5. CASE bound
  BY <1>1, <1>5, BoundInv
<1>6. CASE renewing
  <2>1. mState = "Renewing" /\ (goto("Rebinding") \/ ask_again)
    BY <1>6 DEF renewing
  <2> QED BY <1>1, <2>1, GotoInv, AskInv DEF requested
<1>7. CASE rebinding
  <2>1. mState = "Rebinding" /\ (goto("Init") \/ ask_again)
    BY <1>7 DEF rebinding
  <2> QED BY <1>1, <2>1, GotoInv, AskInv DEF requested
<1> QED BY <1>2, <1>3, <1>4, <1>5, <1>6, <1>7 DEF run

LEMMA OfferInv == ASSUME Inv, NEW msg \in answers \union delayed, offer(msg) PROVE Inv'
<1> USE ClientAssumption DEF Inv, kNoTimeout, setNextState
<1>1. msg.type = "DHCPOFFER" /\ msg.yiaddr \in Addresses
  BY DEF offer, answers, delayed
<1>2. TypeOK'
  BY <1>1 DEF offer, TypeOK, States, timers, messages, interface
<1> QED BY <1>1, <1>2 DEF offer, WaitInv, ChosenInv, RequestInv, ConfiguredAsRequested, holding,
                          requested, messages, interface

(* Only an answer to the last message gets through, and that one carries   *)
(* the address the client means to use.                                    *)
LEMMA AnswerIsRequested ==
  ASSUME Inv, NEW msg \in answers \union delayed, receiveDhcpMessage(msg), requested
  PROVE  msg.type = "DHCPACK" => msg.yiaddr = mRequestAddress
BY DEF Inv, WaitInv, receiveDhcpMessage, answers, delayed

LEMMA AckInv ==
  ASSUME Inv, NEW msg \in answers \union delayed, NEW info \in LeaseInfos,
         NEW failing \in Failing, ack(msg, info, failing)
  PROVE  Inv'
<1> USE ClientAssumption DEF Inv, kNoTimeout
<1>1. /\ requested /\ pc = "wait" /\ configureDhcp(msg, info, failing)
      /\ UNCHANGED <<mRequestAddress, messages>>
  BY DEF ack, receiveDhcpMessage
<1>2. msg.yiaddr = mRequestAddress /\ mRequestAddress \in Addresses
  BY AnswerIsRequested DEF ack, ChosenInv, requested
<1>3. /\ mT1' \in Nat /\ mT2' \in Nat /\ lease' \in Int
      /\ up' \in BOOLEAN /\ (up => up') /\ address' \in {address, mRequestAddress}
  <2>1. CASE info.leaseTime = 0
    BY <1>1, <2>1 DEF configureDhcp, setInterfaceUp, setAddress, timers, interface, TypeOK
  <2>2. CASE info.leaseTime # 0
    <3>1. mT1' \in Nat /\ mT2' \in Nat
      BY <1>1, <2>2, TimersNat DEF configureDhcp
    <3>2. lease' = info.leaseTime /\ info.leaseTime \in Nat
      BY <1>1, <2>2 DEF configureDhcp
    <3>3. up' \in BOOLEAN /\ (up => up') /\ address' \in {address, mRequestAddress}
      BY <1>1, <1>2, <2>2 DEF configureDhcp, setInterfaceUp, setAddress, TypeOK
    <3> QED BY <3>1, <3>2, <3>3
  <2> QED BY <2>1, <2>2
<1>4. CASE configured(info, failing)
  <2>1. /\ mState' = "Bound" /\ mNextTimeout' = 0 /\ mFuzzNextTimeout' = TRUE
        /\ pc' = "evaluate" /\ timeout' = 0
    BY <1>4 DEF ack, setNextState
  <2>2. up' /\ address' = mRequestAddress
    BY <1>1, <1>2, <1>4 DEF configured, configureDhcp, setInterfaceUp, setAddress
  <2>3. TypeOK' /\ RequestInv'
    BY <1>1, <1>2, <1>3, <2>1, <2>2 DEF TypeOK, States, RequestInv, messages
  <2> QED BY <1>1, <1>2, <2>1, <2>2, <2>3 DEF WaitInv, ChosenInv, ConfiguredAsRequested, holding
<1>5. CASE ~configured(info, failing)
  <2>1. UNCHANGED <<fsm, wait>>
    BY <1>5 DEF ack
  <2>2. TypeOK' /\ RequestInv'
    BY <1>1, <1>2, <1>3, <2>1 DEF TypeOK, RequestInv, messages, fsm, wait
  <2>3. mState # "Bound"
    BY <1>1 DEF requested
  <2>4. WaitInv' /\ ChosenInv'
    BY <1>1, <2>1, <2>3 DEF WaitInv, ChosenInv, requested, messages, fsm, wait
  <2>5. ConfiguredAsRequested'
    BY <1>1, <1>3, <2>1 DEF ConfiguredAsRequested, holding, fsm
  <2> QED BY <2>2, <2>4, <2>5
<1> QED BY <1>4, <1>5

LEMMA NakInv == ASSUME Inv, NEW msg \in answers \union delayed, nak(msg) PROVE Inv'
<1> USE ClientAssumption DEF Inv, kNoTimeout, setNextState
<1>1. up' \in BOOLEAN /\ address' \in Addresses \union {NoAddress}
  BY DEF nak, haltNetwork, setInterfaceUp, setAddress, TypeOK
<1>2. TypeOK'
  BY <1>1 DEF nak, TypeOK, States, timers, messages
<1> QED BY <1>2 DEF nak, WaitInv, ChosenInv, RequestInv, ConfiguredAsRequested, holding, messages

LEMMA TimeInv == ASSUME Inv, timed_out \/ tick PROVE Inv'
<1> USE DEF Inv
<1>1. CASE timed_out
  BY <1>1 DEF timed_out, TypeOK, WaitInv, ChosenInv, RequestInv, ConfiguredAsRequested, holding,
              fsm, timers, messages, interface
<1>2. CASE tick
  <2>1. TypeOK'
    BY <1>2 DEF tick, TypeOK, left, fsm, messages, interface
  <2>2. WaitInv'
    BY <1>2 DEF tick, WaitInv, TypeOK, left, requested, fsm, messages
  <2> QED BY <1>2, <2>1, <2>2 DEF tick, ChosenInv, RequestInv, ConfiguredAsRequested, holding, fsm,
                                  messages, interface
<1> QED BY <1>1, <1>2

LEMMA StepInv == Inv /\ [Next]_vars => Inv'
<1> SUFFICES ASSUME Inv, [Next]_vars PROVE Inv'
  OBVIOUS
<1>1. CASE run
  BY <1>1, RunInv
<1>2. CASE Offers
  BY <1>2, OfferInv DEF Offers
<1>3. CASE Acks
  BY <1>3, AckInv DEF Acks
<1>4. CASE Naks
  BY <1>4, NakInv DEF Naks
<1>5. CASE timed_out \/ tick
  BY <1>5, TimeInv
<1>6. CASE UNCHANGED vars
  BY <1>6 DEF vars, fsm, timers, messages, wait, interface, Inv, TypeOK, WaitInv, ChosenInv,
              RequestInv, ConfiguredAsRequested, holding, requested
<1> QED BY <1>1, <1>2, <1>3, <1>4, <1>5, <1>6 DEF Next

(* The inductive invariant holds in every behaviour.                       *)
LEMMA AlwaysInv == Spec => []Inv
BY InitInv, StepInv, PTL DEF Spec

(* The variables of the client keep their types, the 32-bit timeout also   *)
(* when what is left of T1 does not fit it.                                *)
THEOREM TypeCorrect == Spec => []TypeOK
<1>1. Inv => TypeOK
  BY DEF Inv
<1> QED BY AlwaysInv, <1>1, PTL

(* No late reply and no failed configuration leaves a client with a lease  *)
(* on another address than the one it renews.                              *)
THEOREM AddressIsRequested == Spec => []ConfiguredAsRequested
<1>1. Inv => ConfiguredAsRequested
  BY DEF Inv
<1> QED BY AlwaysInv, <1>1, PTL

-----------------------------------------------------------------------------
(* What a server that sets T1 itself must respect.                         *)
T1BeforeEnd == \A info \in LeaseInfos : info.leaseTime > 0 => info.t1 < info.leaseTime

LeaseInv == mState = "Bound" => lease > 0 /\ mT1 < lease

LEMMA LeaseStep == ASSUME T1BeforeEnd, Inv, LeaseInv, [Next]_vars PROVE LeaseInv'
<1> USE ClientAssumption DEF Inv
<1>1. CASE run
  <2>1. mState' = "Bound" => mState = "Bound"
    BY <1>1 DEF run, init_state, selecting, requesting, bound, renewing, rebinding, goto, setNextState,
                ask_again, increaseTimeout
  <2> QED BY <1>1, <2>1 DEF run, LeaseInv, timers
<1>2. CASE Offers
  BY <1>2 DEF Offers, offer, setNextState, LeaseInv
<1>3. ASSUME NEW msg \in answers \union delayed, NEW info \in LeaseInfos,
             NEW failing \in Failing, ack(msg, info, failing)
      PROVE  LeaseInv'
  <2>1. CASE configured(info, failing)
    <3>1. lease' = info.leaseTime /\ mT1' = t1(info) /\ info.leaseTime > 0
      BY <1>3, <2>1 DEF ack, configureDhcp, setInterfaceUp, setAddress, configured
    <3>2. t1(info) < info.leaseTime
      BY <3>1 DEF t1, T1BeforeEnd
    <3> QED BY <3>1, <3>2 DEF LeaseInv
  <2>2. CASE ~configured(info, failing)
    BY <1>3, <2>2 DEF ack, requested, LeaseInv, fsm
  <2> QED BY <2>1, <2>2
<1>4. CASE Naks
  BY <1>4 DEF Naks, nak, setNextState, LeaseInv
<1>5. CASE timed_out
  BY <1>5 DEF timed_out, LeaseInv, fsm, timers
<1>6. CASE tick
  BY <1>6 DEF tick, LeaseInv, WaitInv, TypeOK, left, fsm
<1>7. CASE UNCHANGED vars
  BY <1>7 DEF vars, fsm, timers, LeaseInv
<1> QED BY <1>1, <1>2, <1>3, <1>4, <1>5, <1>6, <1>7 DEF Next, Acks

(* The Bound state is left before the lease ends, if no server sets T1     *)
(* past the end of its lease.                                              *)
THEOREM BoundInLease == T1BeforeEnd => (Spec => []BoundWithinLease)
<1> SUFFICES ASSUME T1BeforeEnd PROVE Spec => []BoundWithinLease
  OBVIOUS
<1>1. Init => LeaseInv
  BY DEF Init, LeaseInv
<1>2. Inv /\ LeaseInv /\ [Next]_vars => LeaseInv'
  BY LeaseStep
<1>3. LeaseInv => BoundWithinLease
  BY DEF LeaseInv, BoundWithinLease
<1> QED BY AlwaysInv, <1>1, <1>2, <1>3, PTL DEF Spec

-----------------------------------------------------------------------------
(* How long a client may use an address that nobody renews.  First the     *)
(* sum of the waits in Rebinding: the timeouts double until they reach the *)
(* largest, so that the sum exists, by induction from the largest down.    *)

LEMMA Order == \E R : IsWellFoundedOn(R, Nat) /\ \A x, y \in Nat : <<x, y>> \in R <=> x < y
<1> DEFINE R == OpToRel(<, Nat)
<1>1. IsWellFoundedOn(R, Nat)
  BY NatLessThanWellFounded
<1>2. \A x, y \in Nat : <<x, y>> \in R <=> x < y
  BY DEF OpToRel
<1> QED BY <1>1, <1>2

LEMMA Induction ==
  ASSUME NEW T, 0 \in T, \A n \in Nat : n \in T => n + 1 \in T
  PROVE  \A n \in Nat : n \in T
<1> DEFINE U == Nat \ T
<1> SUFFICES ASSUME U # {} PROVE FALSE
  OBVIOUS
<1>1. PICK R : IsWellFoundedOn(R, Nat) /\ \A x, y \in Nat : <<x, y>> \in R <=> x < y
  BY Order
<1>2. PICK n \in U : \A y \in U : ~(<<y, n>> \in R)
  <2> HIDE DEF U
  <2>1. U \subseteq Nat
    BY DEF U
  <2>2. IsWellFoundedOn(R, Nat)
    BY <1>1
  <2> QED BY <2>1, <2>2, WFMin, Zenon
<1>3. n # 0 /\ n - 1 \in Nat /\ n - 1 < n
  OBVIOUS
<1>4. n - 1 \in T
  BY <1>1, <1>2, <1>3
<1> QED BY <1>3, <1>4

LEMMA LargerIsLarger ==
  ASSUME NEW t \in 1 .. kMaxTimeout
  PROVE  Larger(t) \in t .. kMaxTimeout /\ (t < kMaxTimeout => Larger(t) > t)
BY ClientAssumption DEF Larger

(* A sum of waits for the timeouts from n on.                              *)
sums(g, n) == \A t \in n .. kMaxTimeout :
  g[t] = t + kTimeoutSpan + IF t = kMaxTimeout THEN 0 ELSE g[Larger(t)]

LEMMA WaitsExist == \E g \in [1 .. kMaxTimeout -> Nat] : sums(g, 1)
<1> USE ClientAssumption
<1> DEFINE from(m) == kMaxTimeout - m
           T == {m \in Nat : m < kMaxTimeout => \E g \in [from(m) .. kMaxTimeout -> Nat] : sums(g, from(m))}
<1>1. 0 \in T
  <2> DEFINE g == [t \in kMaxTimeout .. kMaxTimeout |-> kMaxTimeout + kTimeoutSpan]
  <2>1. from(0) = kMaxTimeout /\ g \in [kMaxTimeout .. kMaxTimeout -> Nat]
    OBVIOUS
  <2>2. sums(g, kMaxTimeout)
    BY DEF sums
  <2> HIDE DEF g
  <2> QED BY <2>1, <2>2
<1>2. ASSUME NEW m \in Nat, m \in T PROVE m + 1 \in T
  <2> SUFFICES ASSUME m + 1 < kMaxTimeout
               PROVE  \E g \in [from(m + 1) .. kMaxTimeout -> Nat] : sums(g, from(m + 1))
    OBVIOUS
  <2> DEFINE n == from(m)  k == from(m + 1)
  <2>1. n \in 1 .. kMaxTimeout /\ k \in 1 .. kMaxTimeout /\ n = k + 1
    OBVIOUS
  <2>2. PICK g \in [n .. kMaxTimeout -> Nat] : sums(g, n)
    BY <1>2
  <2> HIDE DEF n, k
  <2> DEFINE h == [t \in k .. kMaxTimeout |-> IF t = k THEN k + kTimeoutSpan + g[Larger(k)] ELSE g[t]]
  <2>3. Larger(k) \in n .. kMaxTimeout
    BY <2>1, LargerIsLarger
  <2>4. \A t \in n .. kMaxTimeout : Larger(t) \in n .. kMaxTimeout
    BY <2>1, LargerIsLarger
  <2>5. h \in [k .. kMaxTimeout -> Nat]
    BY <2>1, <2>3
  <2>6. \A t \in n .. kMaxTimeout : h[t] = g[t]
    BY <2>1
  <2>7. h[k] = k + kTimeoutSpan + g[Larger(k)]
    BY <2>1
  <2> HIDE DEF h
  <2>8. sums(h, k)
    <3> SUFFICES ASSUME NEW t \in k .. kMaxTimeout
                 PROVE  h[t] = t + kTimeoutSpan + IF t = kMaxTimeout THEN 0 ELSE h[Larger(t)]
      BY DEF sums
    <3>1. CASE t = k
      BY <2>1, <2>3, <2>6, <2>7, <3>1
    <3>2. CASE t # k
      <4>1. t \in n .. kMaxTimeout
        BY <2>1, <3>2
      <4> QED BY <2>2, <2>4, <2>6, <4>1 DEF sums
    <3> QED BY <3>1, <3>2
  <2> QED BY <2>5, <2>8 DEF k
<1> HIDE DEF T
<1>3. kMaxTimeout - 1 \in T
  BY <1>1, <1>2, Induction
<1> QED BY <1>3 DEF T

LEMMA WaitsSum == sums(Waits, 1)
<1> DEFINE body(g) == [t \in 1 .. kMaxTimeout |->
                         t + kTimeoutSpan + IF t = kMaxTimeout THEN 0 ELSE g[Larger(t)]]
<1>1. PICK g \in [1 .. kMaxTimeout -> Nat] : sums(g, 1)
  BY WaitsExist
<1>2. g = body(g)
  BY <1>1 DEF sums
<1>3. Waits = body(Waits)
  BY <1>2 DEF Waits
<1> HIDE DEF body
<1>4. \A t \in 1 .. kMaxTimeout : Waits[t] = body(Waits)[t]
  BY <1>3
<1> QED BY <1>4 DEF sums, body

(* Of a wait and the ones that follow.                                     *)
LEMMA WaitsFacts ==
  ASSUME NEW t \in 1 .. kMaxTimeout
  PROVE  /\ Waits[t] \in Nat /\ Waits[t] >= t + kTimeoutSpan
         /\ t < kMaxTimeout => Waits[t] = t + kTimeoutSpan + Waits[Larger(t)] /\ Waits[Larger(t)] \in Nat
<1> USE ClientAssumption
<1> DEFINE T == {m \in Nat : \A u \in 1 .. kMaxTimeout : u >= kMaxTimeout - m => Waits[u] \in Nat}
<1>1. \A u \in 1 .. kMaxTimeout :
        Waits[u] = u + kTimeoutSpan + IF u = kMaxTimeout THEN 0 ELSE Waits[Larger(u)]
  BY WaitsSum DEF sums
<1>2. 0 \in T
  BY <1>1
<1>3. ASSUME NEW m \in Nat, m \in T PROVE m + 1 \in T
  <2> SUFFICES ASSUME NEW u \in 1 .. kMaxTimeout, u >= kMaxTimeout - (m + 1) PROVE Waits[u] \in Nat
    OBVIOUS
  <2>1. CASE u = kMaxTimeout
    BY <1>1, <2>1
  <2>2. CASE u # kMaxTimeout
    <3>1. Larger(u) \in 1 .. kMaxTimeout /\ Larger(u) >= kMaxTimeout - m
      BY <2>2, LargerIsLarger
    <3>2. Waits[Larger(u)] \in Nat
      BY <1>3, <3>1
    <3> QED BY <1>1, <2>2, <3>2
  <2> QED BY <2>1, <2>2
<1> HIDE DEF T
<1>4. kMaxTimeout \in T
  BY <1>2, <1>3, Induction
<1>5. \A u \in 1 .. kMaxTimeout : Waits[u] \in Nat
  BY <1>4 DEF T
<1> QED BY <1>1, <1>5, LargerIsLarger

(* What servers must respect that set the timers themselves.               *)
TimersWithinLease == \A info \in LeaseInfos :
  info.leaseTime > 0 => info.t1 <= info.leaseTime /\ info.t2 <= info.leaseTime

LongestWait == kMaxTimeout + kTimeoutSpan

(* The waits after the one whose timeout is t; all of them before the      *)
(* first.                                                                  *)
Rest(t) == IF t = kNoTimeout THEN Waits[kInitialTimeout] ELSE Waits[t] - t - kTimeoutSpan

(* What is left of the lease covers what is left of the waits but for the  *)
(* overrun: of one wait in Renewing, then of Rebinding.                    *)
BoundOverrun == mState = "Bound" => lease >= mT1 /\ lease >= mT2

RenewingOverrun == mState = "Renewing" =>
  /\ lease >= -LongestWait /\ (mT2 > 0 => lease >= mT2)
  /\ pc = "wait" => timeout <= LongestWait /\ lease >= timeout - LongestWait

RebindingOverrun == mState = "Rebinding" =>
  /\ mNextTimeout \in 0 .. kMaxTimeout
  /\ mNextTimeout # kNoTimeout => Waits[mNextTimeout] <= Waits[kInitialTimeout]
  /\ lease >= Rest(mNextTimeout) - MaxOverrun
  /\ pc = "wait" => /\ mNextTimeout # kNoTimeout /\ timeout <= mNextTimeout + kTimeoutSpan
                    /\ lease >= timeout + Rest(mNextTimeout) - MaxOverrun

OverrunInv == BoundOverrun /\ RenewingOverrun /\ RebindingOverrun

LEMMA Limits ==
  /\ kInitialTimeout \in 1 .. kMaxTimeout /\ kMaxTimeout \in Nat \ {0} /\ kTimeoutSpan \in Nat
  /\ Waits[kInitialTimeout] \in Nat /\ LongestWait \in Nat
  /\ MaxOverrun = LongestWait + Waits[kInitialTimeout]
<1>1. kInitialTimeout \in 1 .. kMaxTimeout /\ kMaxTimeout \in Nat \ {0} /\ kTimeoutSpan \in Nat
  BY ClientAssumption
<1> QED BY <1>1, WaitsFacts DEF LongestWait, MaxOverrun

LEMMA RestNat ==
  /\ Rest(kNoTimeout) = Waits[kInitialTimeout]
  /\ \A t \in 1 .. kMaxTimeout : Rest(t) \in Nat /\ Rest(t) = Waits[t] - t - kTimeoutSpan
BY Limits, WaitsFacts DEF Rest, kNoTimeout

(* The next timeout leaves exactly the rest of the waits.                  *)
LEMMA Increased ==
  ASSUME increaseTimeout, mNextTimeout \in 0 .. kMaxTimeout, mNextTimeout < kMaxTimeout,
         mNextTimeout # kNoTimeout => Waits[mNextTimeout] <= Waits[kInitialTimeout]
  PROVE  /\ mNextTimeout' \in 1 .. kMaxTimeout
         /\ Waits[mNextTimeout'] = Rest(mNextTimeout)
         /\ Waits[mNextTimeout'] <= Waits[kInitialTimeout]
<1>1. CASE mNextTimeout = kNoTimeout
  BY <1>1, Limits, RestNat DEF increaseTimeout
<1>2. CASE mNextTimeout # kNoTimeout
  <2>1. mNextTimeout \in 1 .. kMaxTimeout
    BY <1>2 DEF kNoTimeout
  <2>2. mNextTimeout' = Larger(mNextTimeout)
    BY <1>2 DEF increaseTimeout, Larger
  <2>3. mNextTimeout' \in 1 .. kMaxTimeout
    BY <2>1, <2>2, LargerIsLarger
  <2>4. /\ Waits[mNextTimeout] \in Nat /\ Waits[mNextTimeout'] \in Nat
        /\ Waits[mNextTimeout] = mNextTimeout + kTimeoutSpan + Waits[mNextTimeout']
    BY <2>1, <2>2, WaitsFacts
  <2> QED BY <1>2, <2>1, <2>3, <2>4, Limits, RestNat
<1> QED BY <1>1, <1>2

LEMMA AdjustedAtMost ==
  ASSUME NEW n \in Nat, NEW span \in Nat, NEW a \in Int, a <= span,
         NEW t, t = IF -a > n THEN 0 ELSE n + a
  PROVE  t \in Nat /\ t <= n + span
OBVIOUS

LEMMA Covered ==
  ASSUME NEW l \in Int, NEW n \in Nat, NEW t \in Nat, NEW w \in Nat, l >= n, t <= w
  PROVE  l >= -w /\ l >= t - w
OBVIOUS

LEMMA Spent ==
  ASSUME NEW l \in Int, NEW w \in Nat, NEW n \in Nat, NEW span \in Nat, NEW most \in Nat,
         NEW t \in Nat, l >= w - most, t <= n + span, w >= n + span
  PROVE  l >= t + (w - n - span) - most /\ l >= (w - n - span) - most
OBVIOUS

(* A wait is never longer than its timeout and the span.                   *)
LEMMA WaitLength ==
  ASSUME waitAndReceive, mNextTimeout' \in 1 .. kMaxTimeout
  PROVE  pc' = "wait" /\ timeout' \in Nat /\ timeout' <= mNextTimeout' + kTimeoutSpan
<1>1. PICK adjustment \in adjustments :
        timeout' = IF -adjustment > mNextTimeout' THEN 0 ELSE mNextTimeout' + adjustment
  BY DEF waitAndReceive, kNoTimeout
<1>2. adjustment \in Int /\ adjustment <= kTimeoutSpan
  BY <1>1, Limits DEF adjustments
<1>3. pc' = "wait"
  BY DEF waitAndReceive, kNoTimeout
<1>4. mNextTimeout' \in Nat /\ kTimeoutSpan \in Nat
  BY Limits
<1>5. timeout' \in Nat /\ timeout' <= mNextTimeout' + kTimeoutSpan
  BY <1>1, <1>2, <1>4, AdjustedAtMost
<1> QED BY <1>3, <1>5

LEMMA TimersLease ==
  ASSUME TimersWithinLease, NEW info \in LeaseInfos, info.leaseTime # 0
  PROVE  t1(info) <= info.leaseTime /\ t2(info) <= info.leaseTime
<1>1. info.leaseTime \in Nat \ {0} /\ info.t1 \in Nat /\ info.t2 \in Nat /\ U32 \in Nat \ {0}
  BY ClientAssumption
<1>2. info.t1 <= info.leaseTime /\ info.t2 <= info.leaseTime
  BY <1>1 DEF TimersWithinLease
<1>3. ((info.leaseTime * 7) % U32) \div 8 <= info.leaseTime
  <2> DEFINE x == (info.leaseTime * 7) % U32
  <2>1. x \in Nat /\ x <= info.leaseTime * 7
    <3> DEFINE y == info.leaseTime * 7
    <3>1. y \in Nat /\ U32 \in Nat \ {0}
      BY <1>1
    <3> HIDE DEF y
    <3>2. y % U32 \in 0 .. U32 - 1 /\ y % U32 <= y
      BY <3>1, ModSmaller
    <3>3. y % U32 \in Nat
      BY <3>1, <3>2
    <3> QED BY <3>2, <3>3 DEF y
  <2> HIDE DEF x
  <2>2. x \div 8 <= info.leaseTime
    BY <1>1, <2>1
  <2> QED BY <2>2 DEF x
<1> QED BY <1>1, <1>2, <1>3 DEF t1, t2

LEMMA RunOverrun == ASSUME Inv, OverrunInv, run PROVE OverrunInv'
<1> USE DEF Inv
<1>1. /\ UNCHANGED <<mT1, mT2, lease>> /\ pc = "evaluate" /\ waitAndReceive
      /\ TypeOK /\ TypeOK'
  BY RunInv DEF run, timers
<1>2. CASE init_state \/ selecting \/ requesting
  <2>1. mState' \notin {"Bound", "Renewing", "Rebinding"}
    BY <1>2 DEF init_state, selecting, requesting, goto, setNextState, ask_again, increaseTimeout
  <2> QED BY <2>1 DEF OverrunInv, BoundOverrun, RenewingOverrun, RebindingOverrun
<1>3. CASE bound
  <2>1. CASE mT1 = 0
    <3>1. mState = "Bound" /\ mState' = "Renewing" /\ mNextTimeout' = kNoTimeout
      BY <1>3, <2>1 DEF bound, goto, setNextState
    <3>2. pc' = "evaluate"
      BY <1>1, <3>1 DEF waitAndReceive
    <3> QED BY <1>1, <2>1, <3>1, <3>2, Limits
            DEF OverrunInv, BoundOverrun, RenewingOverrun, RebindingOverrun, TypeOK
  <2>2. CASE mT1 # 0
    BY <1>1, <1>3, <2>2 DEF bound, OverrunInv, BoundOverrun, RenewingOverrun, RebindingOverrun
  <2> QED BY <2>1, <2>2
<1>4. CASE renewing
  <2>1. CASE mT2 = 0
    <3>1. mState = "Renewing" /\ mState' = "Rebinding" /\ mNextTimeout' = kNoTimeout
      BY <1>4, <2>1 DEF renewing, goto, setNextState
    <3>2. pc' = "evaluate"
      BY <1>1, <3>1 DEF waitAndReceive
    <3>3. lease' >= Rest(mNextTimeout') - MaxOverrun
      BY <1>1, <3>1, Limits, RestNat DEF OverrunInv, RenewingOverrun, TypeOK
    <3> QED BY <3>1, <3>2, <3>3, Limits
            DEF OverrunInv, BoundOverrun, RenewingOverrun, RebindingOverrun, kNoTimeout
  <2>2. CASE mT2 # 0
    <3>1. mState' = "Renewing" /\ mState = "Renewing"
          /\ mNextTimeout' \in 1 .. kMaxTimeout
      BY <1>1, <1>4, <2>2, Limits DEF renewing, ask_again, increaseTimeout, kNoTimeout, TypeOK
    <3>2. timeout' \in Nat /\ timeout' <= LongestWait
      BY <1>1, <3>1, WaitLength, Limits DEF LongestWait
    <3>3. lease' \in Int /\ mT2' = mT2 /\ mT2 \in Nat /\ lease' >= mT2 /\ mT2 > 0
      BY <1>1, <2>2, <3>1 DEF OverrunInv, RenewingOverrun, TypeOK
    <3>4. lease' >= -LongestWait /\ lease' >= timeout' - LongestWait
      BY <3>2, <3>3, Limits, Covered
    <3> QED BY <3>1, <3>2, <3>3, <3>4 DEF OverrunInv, BoundOverrun, RenewingOverrun, RebindingOverrun
  <2> QED BY <2>1, <2>2
<1>5. CASE rebinding
  <2>1. mState = "Rebinding"
    BY <1>5 DEF rebinding
  <2>2. CASE tried_often
    BY <1>5, <2>2 DEF rebinding, goto, setNextState, OverrunInv, BoundOverrun, RenewingOverrun,
                      RebindingOverrun
  <2>3. CASE ~tried_often
    <3>1. increaseTimeout /\ mState' = "Rebinding" /\ mNextTimeout < kMaxTimeout
      BY <1>1, <1>5, <2>1, <2>3, Limits DEF rebinding, ask_again, increaseTimeout, tried_often, TypeOK
    <3>2. /\ mNextTimeout' \in 1 .. kMaxTimeout
          /\ Waits[mNextTimeout'] = Rest(mNextTimeout)
          /\ Waits[mNextTimeout'] <= Waits[kInitialTimeout]
      BY <2>1, <3>1, Increased DEF OverrunInv, RebindingOverrun
    <3>3. pc' = "wait" /\ timeout' \in Nat /\ timeout' <= mNextTimeout' + kTimeoutSpan
      BY <1>1, <3>2, WaitLength
    <3>4. /\ Rest(mNextTimeout') \in Nat
          /\ Rest(mNextTimeout') = Waits[mNextTimeout'] - mNextTimeout' - kTimeoutSpan
          /\ Waits[mNextTimeout'] \in Nat
      BY <3>2, RestNat, WaitsFacts
    <3>5. lease \in Int /\ lease' = lease /\ lease >= Waits[mNextTimeout'] - MaxOverrun
      BY <1>1, <2>1, <3>2 DEF OverrunInv, RebindingOverrun, TypeOK
    <3>6. lease' >= timeout' + Rest(mNextTimeout') - MaxOverrun /\ lease' >= Rest(mNextTimeout') - MaxOverrun
      <4>1. /\ Waits[mNextTimeout'] \in Nat /\ mNextTimeout' \in Nat /\ kTimeoutSpan \in Nat
            /\ MaxOverrun \in Nat /\ Waits[mNextTimeout'] >= mNextTimeout' + kTimeoutSpan
            /\ lease' \in Int /\ lease' >= Waits[mNextTimeout'] - MaxOverrun
        BY <3>2, <3>5, Limits, WaitsFacts
      <4>2. /\ lease' >= timeout' + (Waits[mNextTimeout'] - mNextTimeout' - kTimeoutSpan) - MaxOverrun
            /\ lease' >= (Waits[mNextTimeout'] - mNextTimeout' - kTimeoutSpan) - MaxOverrun
        BY <3>3, <4>1, Spent
      <4> QED BY <3>4, <4>2
    <3> QED BY <3>1, <3>2, <3>3, <3>6 DEF OverrunInv, BoundOverrun, RenewingOverrun, RebindingOverrun, kNoTimeout
  <2> QED BY <2>2, <2>3
<1> QED BY <1>2, <1>3, <1>4, <1>5 DEF run, renewing, rebinding

LEMMA AckOverrun ==
  ASSUME TimersWithinLease, Inv, OverrunInv, NEW msg \in answers \union delayed,
         NEW info \in LeaseInfos, NEW failing \in Failing, ack(msg, info, failing)
  PROVE  OverrunInv'
<1> USE DEF Inv
<1>1. requested /\ pc = "wait" /\ configureDhcp(msg, info, failing) /\ TypeOK
  BY DEF ack, receiveDhcpMessage
<1>2. CASE info.leaseTime = 0
  <2>1. UNCHANGED <<fsm, wait, timers>>
    BY <1>1, <1>2 DEF ack, configureDhcp, configured
  <2> QED BY <2>1 DEF fsm, wait, timers, OverrunInv, BoundOverrun, RenewingOverrun, RebindingOverrun
<1>3. CASE info.leaseTime # 0
  <2>1. mT1' = t1(info) /\ mT2' = t2(info) /\ lease' = info.leaseTime
    BY <1>1, <1>3 DEF configureDhcp
  <2>2. /\ lease' \in Nat /\ mT1' \in Nat /\ mT2' \in Nat /\ lease' >= mT1' /\ lease' >= mT2'
    BY <1>3, <2>1, TimersNat, TimersLease, ClientAssumption
  <2>3. CASE configured(info, failing)
    BY <2>2, <2>3 DEF ack, setNextState, OverrunInv, BoundOverrun, RenewingOverrun, RebindingOverrun
  <2>4. CASE ~configured(info, failing)
    <3>1. UNCHANGED <<mState, mNextTimeout, pc, timeout>>
      BY <2>4 DEF ack, fsm, wait
    <3>2. CASE mState = "Renewing"
      <4>1. timeout \in Nat /\ timeout <= LongestWait
        BY <1>1, <3>2 DEF OverrunInv, RenewingOverrun, TypeOK
      <4> QED BY <2>2, <3>1, <3>2, <4>1, Limits
              DEF OverrunInv, BoundOverrun, RenewingOverrun, RebindingOverrun
    <3>3. CASE mState = "Rebinding"
      <4>1. /\ mNextTimeout \in 1 .. kMaxTimeout /\ Waits[mNextTimeout] <= Waits[kInitialTimeout]
            /\ timeout \in Nat /\ timeout <= mNextTimeout + kTimeoutSpan
        BY <1>1, <3>3, Limits DEF OverrunInv, RebindingOverrun, TypeOK, kNoTimeout
      <4>2. /\ Rest(mNextTimeout) = Waits[mNextTimeout] - mNextTimeout - kTimeoutSpan
            /\ Rest(mNextTimeout) \in Nat /\ Waits[mNextTimeout] \in Nat
        BY <4>1, RestNat, WaitsFacts
      <4>3. timeout + Rest(mNextTimeout) <= MaxOverrun
        BY <4>1, <4>2, Limits
      <4>4. lease' >= timeout' + Rest(mNextTimeout') - MaxOverrun /\ lease' >= Rest(mNextTimeout') - MaxOverrun
        BY <2>2, <3>1, <4>1, <4>2, <4>3, Limits
      <4> QED BY <3>1, <3>3, <4>1, <4>4
              DEF OverrunInv, BoundOverrun, RenewingOverrun, RebindingOverrun, kNoTimeout
    <3>4. CASE mState = "Requesting"
      BY <3>1, <3>4 DEF OverrunInv, BoundOverrun, RenewingOverrun, RebindingOverrun
    <3> QED BY <1>1, <3>2, <3>3, <3>4 DEF requested
  <2> QED BY <2>3, <2>4
<1> QED BY <1>2, <1>3

LEMMA TickOverrun == ASSUME Inv, OverrunInv, tick PROVE OverrunInv'
<1> USE DEF Inv
<1>1. /\ pc = "wait" /\ pc' = "wait" /\ UNCHANGED <<mState, mNextTimeout>> /\ TypeOK
      /\ timeout \in Nat /\ timeout > 0 /\ timeout' = timeout - 1 /\ mT1' = left(mT1) /\ mT2' = left(mT2)
  BY DEF tick, fsm, TypeOK
<1>2. lease \in Int /\ mT1 \in Nat /\ mT2 \in Nat
  BY <1>1 DEF TypeOK
<1>3. ASSUME holding PROVE lease' \in Int /\ lease' >= lease - 1
  BY <1>2, <1>3 DEF tick
<1>4. CASE mState = "Bound"
  <2>1. timeout <= mT1
    BY <1>1, <1>4 DEF WaitInv
  <2>2. lease' >= mT1' /\ lease' >= mT2'
    BY <1>1, <1>2, <1>3, <1>4, <2>1 DEF left, holding, OverrunInv, BoundOverrun
  <2> QED BY <1>1, <1>4, <2>2 DEF OverrunInv, BoundOverrun, RenewingOverrun, RebindingOverrun
<1>5. CASE mState = "Renewing"
  BY <1>1, <1>2, <1>3, <1>5, Limits
     DEF left, holding, OverrunInv, BoundOverrun, RenewingOverrun, RebindingOverrun
<1>6. CASE mState = "Rebinding"
  <2>1. mNextTimeout \in 1 .. kMaxTimeout /\ lease >= timeout + Rest(mNextTimeout) - MaxOverrun
        /\ timeout <= mNextTimeout + kTimeoutSpan
    BY <1>1, <1>6, Limits DEF OverrunInv, RebindingOverrun, kNoTimeout
  <2>2. Rest(mNextTimeout) \in Nat
    BY <2>1, RestNat
  <2>3. /\ lease' >= timeout' + Rest(mNextTimeout) - MaxOverrun /\ lease' >= Rest(mNextTimeout) - MaxOverrun
        /\ timeout' <= mNextTimeout + kTimeoutSpan
    BY <1>1, <1>2, <1>3, <1>6, <2>1, <2>2, Limits DEF holding
  <2> QED BY <1>1, <1>6, <2>1, <2>3 DEF OverrunInv, BoundOverrun, RenewingOverrun, RebindingOverrun
<1>7. CASE ~holding
  BY <1>1, <1>7 DEF holding, OverrunInv, BoundOverrun, RenewingOverrun, RebindingOverrun
<1> QED BY <1>4, <1>5, <1>6, <1>7 DEF holding

LEMMA OverrunStep == ASSUME TimersWithinLease, Inv, OverrunInv, [Next]_vars PROVE OverrunInv'
<1>1. CASE run
  BY <1>1, RunOverrun
<1>2. CASE Offers \/ Naks
  BY <1>2 DEF Offers, offer, Naks, nak, setNextState,
              OverrunInv, BoundOverrun, RenewingOverrun, RebindingOverrun
<1>3. CASE Acks
  BY <1>3, AckOverrun DEF Acks
<1>4. CASE timed_out
  BY <1>4 DEF timed_out, fsm, timers, OverrunInv, BoundOverrun, RenewingOverrun, RebindingOverrun
<1>5. CASE tick
  BY <1>5, TickOverrun
<1>6. CASE UNCHANGED vars
  BY <1>6 DEF vars, fsm, timers, wait, OverrunInv, BoundOverrun, RenewingOverrun, RebindingOverrun
<1> QED BY <1>1, <1>2, <1>3, <1>4, <1>5, <1>6 DEF Next

(* A client that nobody answers gives its lease up within one wait of      *)
(* Renewing and the waits of Rebinding, whatever the timeout constants,    *)
(* if no server sets a timer past the end of its lease.                    *)
THEOREM OverrunIsBounded == TimersWithinLease => (Spec => []OverrunBounded)
<1> SUFFICES ASSUME TimersWithinLease PROVE Spec => []OverrunBounded
  OBVIOUS
<1>1. Init => OverrunInv
  BY DEF Init, OverrunInv, BoundOverrun, RenewingOverrun, RebindingOverrun
<1>2. Inv /\ OverrunInv /\ [Next]_vars => OverrunInv'
  BY OverrunStep
<1>3. Inv /\ OverrunInv => OverrunBounded
  <2> SUFFICES ASSUME Inv, OverrunInv, holding PROVE lease >= -MaxOverrun
    BY DEF OverrunBounded
  <2>1. lease \in Int /\ mT1 \in Nat
    BY DEF Inv, TypeOK
  <2>2. CASE mState = "Rebinding"
    <3>1. Rest(mNextTimeout) \in Nat /\ lease >= Rest(mNextTimeout) - MaxOverrun
      BY <2>2, Limits, RestNat DEF OverrunInv, RebindingOverrun, kNoTimeout
    <3> QED BY <2>1, <3>1, Limits
  <2>3. CASE mState # "Rebinding"
    BY <2>1, <2>3, Limits DEF holding, OverrunInv, BoundOverrun, RenewingOverrun
  <2> QED BY <2>2, <2>3
<1> QED BY AlwaysInv, <1>1, <1>2, <1>3, PTL DEF Spec
=============================================================================
